------------------------------- MODULE MCCred -------------------------------
EXTENDS Cred, TLC

CONSTANTS ct1, ct2, ct3

Call1(op) == [op |-> op, a |-> <<0, 0, 0>>, n |-> 0, list |-> <<>>, bad |-> FALSE,
              setuid |-> FALSE, setgid |-> FALSE, hdr |-> "v3", data |-> "ok", pid |-> "self",
              ask |-> {}, permit |-> {}]
Set1(op, a) == [Call1(op) EXCEPT !.a = [i \in 1..3 |-> IF i <= Len(a) THEN a[i] ELSE 0]]
SetGroups(l) == [Call1("setgroups") EXCEPT !.n = Len(l), !.list = l]
ExecOf(u, g) == [Call1("exec") EXCEPT !.setuid = u, !.setgid = g]
GetIds == Call1("getresuid")
GetGroups == [Call1("getgroups") EXCEPT !.n = 2]
Cap(op, hdr, data, pid, ask, permit) ==
    [Call1(op) EXCEPT !.hdr = hdr, !.data = data, !.pid = pid, !.ask = ask, !.permit = permit]

App == [u |-> Same(5), g |-> Same(5), groups |-> <<5, 6>>]
Scene(up, calls) ==
    [fake_id |-> TRUE, fake_id_explicit |-> TRUE, fake |-> [u |-> 0, g |-> 0],
     setuid_root |-> FALSE, setgid_root |-> FALSE, host |-> App, caps |-> {}, blocked |-> {},
     up |-> up, calls |-> [t \in CredThreads |-> calls[t]]]
Pair(x, y) == (ct1 :> x @@ ct2 :> y @@ ct3 :> <<>>)
CredBase == Scene({ct1, ct2}, Pair(<<>>, <<>>))
By(x, y) == [CredBase EXCEPT !.calls = Pair(x, y)]

\* Two threads drop root, set groups and read.
Sharing == {
    By(<<Set1("setresuid", <<5, 5, 5>>), GetIds>>, <<SetGroups(<<7>>), GetGroups, GetIds>>),
    By(<<Set1("setresgid", <<6, 6, 6>>), Set1("setuid", <<5>>), Set1("setuid", <<0>>)>>, <<GetIds, GetGroups, Set1("setreuid", <<-1, 0>>)>>)}

\* A fork while another thread writes; the child, then joined by a thread of
\* its own, finds the lock held by nobody it has.
Forking == {
    [By(<<SetGroups(<<7>>), Set1("setuid", <<5>>)>>,
        <<Call1("fork"), Call1("clone"), Set1("setgid", <<6>>), GetIds>>)
        EXCEPT !.calls[ct3] = <<Set1("setreuid", <<5, 5>>), GetGroups>>]}

\* Saved ids and set-id files.
Execing == {
    [By(<<Set1("setreuid", <<-1, 0>>), ExecOf(FALSE, FALSE), Set1("setuid", <<0>>)>>,
        <<Set1("setresuid", <<-1, 5, -1>>), Set1("setregid", <<5, -1>>), GetIds>>) EXCEPT !.setuid_root = TRUE],
    [By(<<ExecOf(TRUE, TRUE), Set1("setresgid", <<0, 0, 6>>), Set1("setfsuid", <<5>>), Set1("setuid", <<5>>)>>,
        <<Set1("setfsgid", <<0>>), GetIds>>)
        EXCEPT !.setuid_root = TRUE, !.setgid_root = TRUE, !.fake_id_explicit = FALSE]}

\* Capabilities, and lists the guest gets wrong.
Caps == {
    By(<<Cap("capset", "v3", "ok", "self", {1}, {1}), Set1("setuid", <<5>>),
         Cap("capset", "v3", "ok", "self", {1}, {1})>>,
       <<Cap("capget", h, d, p, {}, {})>>) :
        h \in {"bad", "unknown", "v1"}, d \in {"none", "bad", "ok"}, p \in {"self", "negative", "guest", "host"}}
BadLists == {
    By(<<[SetGroups(l) EXCEPT !.bad = b, !.n = n]>>,
       <<SetGroups(<<8>>), [GetGroups EXCEPT !.n = k, !.bad = b]>>) :
         l \in {<<7, 8>>, <<-1>>, <<>>}, b \in BOOLEAN, n \in {0, 2, 3}, k \in {0, 1, 2}}

\* The host's set, where its filter refuses all of the setters, or some.
HostCalls == {Set1(op, <<v, w, -1>>) : op \in Setters \ {"setgroups"}, v \in {-1, 5, 6}, w \in {-1, 6}}
    \cup {SetGroups(l) : l \in {<<6, 5>>, <<5, 5>>, <<>>}}
Host == {
    [By(<<x, y>>, <<>>) EXCEPT !.fake_id = FALSE, !.up = {ct1}, !.caps = c, !.blocked = b,
        !.host.u.s = 6] :
        x \in {Set1("setresuid", <<-1, 6, -1>>), Set1("setfsuid", <<6>>), GetIds, ExecOf(FALSE, FALSE)},
        y \in HostCalls, c \in {{}, {"setuid", "setgid"}},
        b \in {Setters \ {"setresuid"}, Setters \cup {"capget"}, (Setters \ FsCalls) \cup {"getresuid"}}}

CredAll == Sharing \cup Forking \cup Execing \cup Caps \cup BadLists \cup Host
=============================================================================
