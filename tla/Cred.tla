-------------------------------- MODULE Cred --------------------------------
(***************************************************************************)
(* The fake identity of a guest process (monitor/cred.c): the set of ids   *)
(* that every thread reads and rewrites through two buffers, a pointer and *)
(* a sequence number, the rules of the setters, and the answers without    *)
(* --fake-id where the host refuses a setter.                              *)
(***************************************************************************)
EXTENDS Integers, Sequences, FiniteSets

CONSTANTS
    CredThreads,    \* the threads of a process, and of what it forks
    CredNobody,     \* g_cred_owner when nobody writes
    CNG_NGROUPS_MAX,
    CredScenes      \* what the threads call, and under which options

ID_KEEP == -1
EPERM == -1
EFAULT == -14
EINVAL == -22
ENOSYS == -38

\* The ids of one kind: real, effective, saved and fs.
Quad(r, e, s, f) == [r |-> r, e |-> e, s |-> s, f |-> f]
Same(v) == Quad(v, v, v, v)
Quads == [r : Int, e : Int, s : Int, f : Int]
CredSet == [u : Quads, g : Quads, groups : Seq(Int)]
CredParts == {"u", "g", "groups"}
Zeroed == [u |-> Same(0), g |-> Same(0), groups |-> <<>>]

Setters == {"setuid", "setreuid", "setresuid", "setfsuid", "setgid", "setregid",
            "setresgid", "setfsgid", "setgroups"}
CapCalls == {"capget", "capset"}
Getters == {"getresuid", "getgroups"} \cup CapCalls

\* The calls of a guest: a's are ids, the rest is for the lists, for an exec
\* (the set-id bits of the file) and for the capability calls.
CredCalls ==
    [op : Setters \cup Getters \cup {"exec", "fork", "clone"}, a : Int \X Int \X Int,
     n : Int, list : Seq(Int), bad : BOOLEAN, setuid : BOOLEAN, setgid : BOOLEAN,
     hdr : {"bad", "unknown", "v1", "v3"}, data : {"none", "bad", "ok"},
     pid : {"self", "thread", "guest", "host", "negative"}, ask : SUBSET Nat, permit : SUBSET Nat]

ASSUME CredAssumption ==
    /\ CredNobody \notin CredThreads /\ CNG_NGROUPS_MAX \in Nat
    /\ CredScenes \subseteq
        [fake_id : BOOLEAN, fake_id_explicit : BOOLEAN, fake : [u : Int, g : Int],
         setuid_root : BOOLEAN, setgid_root : BOOLEAN, host : CredSet,
         caps : SUBSET {"setuid", "setgid"}, blocked : SUBSET (Setters \cup Getters),
         up : SUBSET CredThreads, calls : [CredThreads -> Seq(CredCalls)]]

VARIABLES
    cred_scene,     \* the scenario
    g_cred_buf,     \* the two buffers
    cng_g_cred,     \* which of them is the set
    g_cred_seq, g_cred_owner,
    reg_ids,        \* the set the process has published in its registry entry
    cred_at, cred_v, cred_todo,     \* each thread's place, locals and script
    cred_ans,       \* each thread's last answer
    cred_seen,      \* history: the sets that were current during its call
    host_set        \* without --fake-id: each thread's ids in the kernel

cred_shared == <<g_cred_buf, cng_g_cred, g_cred_seq, g_cred_owner, reg_ids>>
credvars == <<cred_scene, cred_shared, cred_at, cred_v, cred_todo, cred_ans, cred_seen, host_set>>

CredAt(t, p) == cred_at[t] = p
CredGo(t, p) == cred_at' = [cred_at EXCEPT ![t] = p]
CredCall(t) == Head(cred_todo[t])
Blocked(op) == op \in cred_scene.blocked   \* cng_blocked
OtherBuf(b) == 1 - b
CredNow == g_cred_buf[cng_g_cred]
-----------------------------------------------------------------------------
(* The rules of the setters, for uids and gids alike.                      *)

Refuse(q, err) == [ret |-> err, new |-> q]
Grant(q) == [ret |-> 0, new |-> q]
NewId(v, old) == IF v = ID_KEEP THEN old ELSE v

do_setuid(q, priv, v) ==
    IF v = ID_KEEP THEN Refuse(q, EINVAL)
    ELSE IF priv THEN Grant(Same(v))
    ELSE IF v \in {q.r, q.s} THEN Grant(Quad(q.r, v, q.s, v))
    ELSE Refuse(q, EPERM)

\* The saved id follows the effective one if a real one is given, or if the
\* effective one leaves the real.
do_setreuid(q, priv, r, e) ==
    LET ne == NewId(e, q.e)
        moves == r # ID_KEEP \/ e \notin {ID_KEEP, q.r}
    IN  IF priv \/ (r \in {ID_KEEP, q.r, q.e} /\ e \in {ID_KEEP, q.r, q.e, q.s})
        THEN Grant(Quad(NewId(r, q.r), ne, IF moves THEN ne ELSE q.s, ne))
        ELSE Refuse(q, EPERM)

do_setresuid(q, priv, r, e, s) ==
    IF priv \/ {r, e, s} \subseteq {ID_KEEP, q.r, q.e, q.s}
    THEN Grant(Quad(NewId(r, q.r), NewId(e, q.e), NewId(s, q.s), NewId(e, q.e)))
    ELSE Refuse(q, EPERM)

\* It never fails, and answers the id from before.
do_setfsuid(q, priv, v) ==
    [ret |-> q.f,
     new |-> IF v # ID_KEEP /\ (priv \/ v \in {q.r, q.e, q.s, q.f})
             THEN Quad(q.r, q.e, q.s, v) ELSE q]

\* x: the guest's list, of x.n ids.
do_setgroups(groups, priv, x) ==
    IF ~priv THEN Refuse(groups, EPERM)
    ELSE IF x.n \notin 0..CNG_NGROUPS_MAX THEN Refuse(groups, EINVAL)
    ELSE IF x.n > 0 /\ x.bad THEN Refuse(groups, EFAULT)
    ELSE IF \E i \in DOMAIN x.list : x.list[i] = ID_KEEP THEN Refuse(groups, EINVAL)
    ELSE Grant(x.list)

Part(x) ==
    CASE x.op \in {"setuid", "setreuid", "setresuid", "setfsuid"} -> "u"
      [] x.op \in {"setgid", "setregid", "setresgid", "setfsgid"} -> "g"
      [] x.op = "setgroups" -> "groups"

\* Call x against part q of a set, by a caller with the privilege or without.
Ruled(q, priv, x) ==
    CASE x.op \in {"setuid", "setgid"} -> do_setuid(q, priv, x.a[1])
      [] x.op \in {"setreuid", "setregid"} -> do_setreuid(q, priv, x.a[1], x.a[2])
      [] x.op \in {"setresuid", "setresgid"} -> do_setresuid(q, priv, x.a[1], x.a[2], x.a[3])
      [] x.op \in {"setfsuid", "setfsgid"} -> do_setfsuid(q, priv, x.a[1])
      [] x.op = "setgroups" -> do_setgroups(q, priv, x)

\* The fake set's privilege.
cred_priv(c) == c.u.e = 0

\* A set-id file, where the option makes it one, takes the effective id to
\* root; any exec takes the saved and the fs id to the effective one.
ExecQuad(q, setid) ==
    LET e == IF setid THEN 0 ELSE q.e IN Quad(q.r, e, e, e)

\* What call x of --fake-id makes of the set c, and answers.
Edited(c, x) ==
    IF x.op = "exec"
    THEN [ret |-> 0, set |-> [c EXCEPT !.u = ExecQuad(@, cred_scene.setuid_root /\ x.setuid),
                                       !.g = ExecQuad(@, cred_scene.setgid_root /\ x.setgid)]]
    ELSE LET r == Ruled(c[Part(x)], cred_priv(c), x)
         IN  [ret |-> r.ret, set |-> [c EXCEPT ![Part(x)] = r.new]]
-----------------------------------------------------------------------------
(* A writer: a setter (CRED_SET) or an exec (cng_cred_exec).               *)

\* Mutant: the uids of the buffer stay those of two writes ago.
CopyOrder_short == <<"g", "groups">>
\* The order in which write_begin copies the set over.
CopyOrder == <<"u", "g", "groups">>
\* An answer, and for a getter the parts of the set it is from.
Reply(r) == [ret |-> r, read |-> {}, got |-> Zeroed]
Silent == Reply(0)
CredLive == {t \in CredThreads : cred_at[t] \notin {"unborn", "gone"}}
\* No signal reaches a thread between write_begin and write_end.
Masked == {"lock", "dead", "copy", "edit", "store", "bump", "publish", "unlock"}

Reading == {"seq", "ptr", "read", "check"}
Alone(t) == [o \in CredThreads |->
                IF o = t \/ cred_at[o] = "unborn" THEN cred_at[o] ELSE "gone"]

CredBegin(t) == CredAt(t, "idle") /\ cred_todo[t] # <<>>
CredDone(t, ans) ==
    /\ CredGo(t, "idle")
    /\ cred_ans' = [cred_ans EXCEPT ![t] = ans]
    /\ cred_todo' = [cred_todo EXCEPT ![t] = Tail(@)]

\* An exec has taken the other threads down, none of them inside a write.
CallSetter(t) ==
    /\ CredBegin(t) /\ cred_scene.fake_id /\ CredCall(t).op \in Setters \cup {"exec"}
    /\ IF CredCall(t).op = "exec"
       THEN /\ \A o \in CredThreads : cred_at[o] \notin Masked
            /\ cred_at' = [Alone(t) EXCEPT ![t] = "lock"]
       ELSE CredGo(t, "lock")
    /\ UNCHANGED <<cred_scene, cred_shared, cred_v, cred_todo, cred_ans, cred_seen, host_set>>

\* cng_cred_write_begin: the lock, or the news that its owner is gone.
Lock(t) ==
    /\ CredAt(t, "lock")
    /\ IF g_cred_owner = CredNobody
       THEN /\ g_cred_owner' = t /\ CredGo(t, "copy")
            /\ cred_v' = [cred_v EXCEPT ![t] = [@ EXCEPT !.w = OtherBuf(cng_g_cred), !.k = 1]]
       ELSE /\ g_cred_owner \notin CredLive /\ CredGo(t, "dead")
            /\ cred_v' = [cred_v EXCEPT ![t] = [@ EXCEPT !.owner = g_cred_owner]] /\ UNCHANGED g_cred_owner
    /\ UNCHANGED <<cred_scene, g_cred_buf, cng_g_cred, g_cred_seq, reg_ids, cred_todo, cred_ans,
                   cred_seen, host_set>>

Steal(t) ==
    /\ CredAt(t, "dead") /\ CredGo(t, "lock")
    /\ g_cred_owner' = IF g_cred_owner = cred_v[t].owner THEN CredNobody ELSE g_cred_owner
    /\ UNCHANGED <<cred_scene, g_cred_buf, cng_g_cred, g_cred_seq, reg_ids, cred_v, cred_todo,
                   cred_ans, cred_seen, host_set>>

Copy(t) ==
    /\ CredAt(t, "copy")
    /\ LET p == CopyOrder[cred_v[t].k]
       IN  g_cred_buf' = [g_cred_buf EXCEPT ![cred_v[t].w] = [@ EXCEPT ![p] = CredNow[p]]]
    /\ IF cred_v[t].k < Len(CopyOrder)
       THEN cred_v' = [cred_v EXCEPT ![t] = [@ EXCEPT !.k = cred_v[t].k + 1]] /\ UNCHANGED cred_at
       ELSE CredGo(t, "edit") /\ UNCHANGED cred_v
    /\ UNCHANGED <<cred_scene, cng_g_cred, g_cred_seq, g_cred_owner, reg_ids, cred_todo, cred_ans,
                   cred_seen, host_set>>

Edit(t) ==
    /\ CredAt(t, "edit")
    /\ LET r == Edited(g_cred_buf[cred_v[t].w], CredCall(t))
       IN  /\ g_cred_buf' = [g_cred_buf EXCEPT ![cred_v[t].w] = r.set]
           /\ cred_v' = [cred_v EXCEPT ![t] = [@ EXCEPT !.ret = r.ret]]
           /\ CredGo(t, IF r.ret >= 0 THEN "store" ELSE "unlock")
    /\ UNCHANGED <<cred_scene, cng_g_cred, g_cred_seq, g_cred_owner, reg_ids, cred_todo, cred_ans,
                   cred_seen, host_set>>

\* cng_cred_write_end: the pointer, the sequence, the registry, the lock.
Store(t) ==
    /\ CredAt(t, "store") /\ CredGo(t, "bump")
    /\ cng_g_cred' = cred_v[t].w
    /\ cred_seen' = [o \in CredThreads |->
                        cred_seen[o] \cup (IF cred_at[o] \in Reading THEN {g_cred_buf[cred_v[t].w]} ELSE {})]
    /\ UNCHANGED <<cred_scene, g_cred_buf, g_cred_seq, g_cred_owner, reg_ids, cred_v, cred_todo,
                   cred_ans, host_set>>

Bump(t) ==
    /\ CredAt(t, "bump") /\ CredGo(t, "publish")
    /\ g_cred_seq' = g_cred_seq + 1
    /\ UNCHANGED <<cred_scene, g_cred_buf, cng_g_cred, g_cred_owner, reg_ids, cred_v, cred_todo,
                   cred_ans, cred_seen, host_set>>

Publish(t) ==
    /\ CredAt(t, "publish") /\ CredGo(t, "unlock")
    /\ reg_ids' = CredNow
    /\ UNCHANGED <<cred_scene, g_cred_buf, cng_g_cred, g_cred_seq, g_cred_owner, cred_v, cred_todo,
                   cred_ans, cred_seen, host_set>>

Unlock(t) ==
    /\ CredAt(t, "unlock") /\ CredDone(t, Reply(cred_v[t].ret))
    /\ g_cred_owner' = CredNobody
    /\ UNCHANGED <<cred_scene, g_cred_buf, cng_g_cred, g_cred_seq, reg_ids, cred_v, cred_seen,
                   host_set>>
-----------------------------------------------------------------------------
(* A reader: cng_cred_ids and cng_cred_groups under the getters and the    *)
(* capability calls.                                                       *)

cap_magic(x) == CASE x.hdr = "bad" -> EFAULT [] x.hdr = "unknown" -> EINVAL [] OTHER -> 0

\* What is answered before the set is asked for: 1 is nothing yet.
CapHeader(x) ==
    CASE cap_magic(x) # 0 ->
            IF x.op = "capget" /\ x.data = "none" /\ cap_magic(x) = EINVAL THEN 0 ELSE cap_magic(x)
      [] cap_magic(x) = 0 /\ x.op = "capset" ->
            IF x.pid # "self" THEN EPERM ELSE IF x.data # "ok" THEN EFAULT ELSE 1
      [] cap_magic(x) = 0 /\ x.op = "capget" ->
            IF x.data = "none" THEN 0
            ELSE IF x.pid \in {"self", "thread"} THEN 1
            ELSE IF x.pid = "negative" THEN EINVAL
            ELSE IF x.pid = "guest" THEN IF x.data = "bad" THEN EFAULT ELSE 0
            ELSE IF Blocked("capget") THEN ENOSYS ELSE 0

ReadOrder(x) == IF x.op = "getgroups" THEN <<"groups">> ELSE <<"u", "g">>
PartsRead(x) == IF x.op = "getgroups" THEN {"groups"} ELSE {"u", "g"}

CallGetter(t) ==
    /\ CredBegin(t) /\ cred_scene.fake_id /\ CredCall(t).op \in Getters
    /\ IF CredCall(t).op \in CapCalls /\ CapHeader(CredCall(t)) # 1
       THEN CredDone(t, Reply(CapHeader(CredCall(t)))) /\ UNCHANGED cred_seen
       ELSE /\ CredGo(t, "seq") /\ UNCHANGED cred_todo
            /\ cred_ans' = [cred_ans EXCEPT ![t] = Silent]
            /\ cred_seen' = [cred_seen EXCEPT ![t] = {CredNow}]
    /\ UNCHANGED <<cred_scene, cred_shared, cred_v, host_set>>

\* cng_cred_read_begin
ReadSeq(t) ==
    /\ CredAt(t, "seq") /\ CredGo(t, "ptr") /\ cred_v' = [cred_v EXCEPT ![t] = [@ EXCEPT !.s = g_cred_seq]]
    /\ UNCHANGED <<cred_scene, cred_shared, cred_todo, cred_ans, cred_seen, host_set>>

ReadPtr(t) ==
    /\ CredAt(t, "ptr") /\ CredGo(t, "read")
    /\ cred_v' = [cred_v EXCEPT ![t] = [@ EXCEPT !.c = cng_g_cred, !.k = 1]]
    /\ UNCHANGED <<cred_scene, cred_shared, cred_todo, cred_ans, cred_seen, host_set>>

Read(t) ==
    /\ CredAt(t, "read")
    /\ LET order == ReadOrder(CredCall(t))
           k == cred_v[t].k
           got == [cred_v[t].got EXCEPT ![order[k]] = g_cred_buf[cred_v[t].c][order[k]]]
       IN  IF k > Len(order) THEN CredGo(t, "check") /\ UNCHANGED cred_v
           ELSE /\ cred_v' = [cred_v EXCEPT ![t] = [@ EXCEPT !.k = k + 1, !.got = got]]
                /\ UNCHANGED cred_at
    /\ UNCHANGED <<cred_scene, cred_shared, cred_todo, cred_ans, cred_seen, host_set>>

\* What the call answers from what it read: a getter copies out in order and
\* stops at the first bad pointer, a capability is had by root alone, and a
\* drop of all of them is anybody's.
CredAnswer(x, got) ==
    CASE x.op = "getresuid" -> IF x.bad THEN EFAULT ELSE 0
      [] x.op = "getgroups" ->
            IF x.n = 0 THEN Len(got.groups)
            ELSE IF x.n < Len(got.groups) THEN EINVAL
            ELSE IF got.groups # <<>> /\ x.bad THEN EFAULT ELSE Len(got.groups)
      [] x.op = "capget" -> IF x.data = "bad" THEN EFAULT ELSE 0
      [] x.op = "capset" ->
            IF (IF got.u.e = 0 THEN x.ask \subseteq x.permit ELSE x.ask = {} /\ x.permit = {})
            THEN 0 ELSE EPERM

\* Mutant: what was read is taken as it is.
Check_once(t) ==
    /\ CredAt(t, "check")
    /\ CredDone(t, [ret |-> CredAnswer(CredCall(t), cred_v[t].got),
                    read |-> PartsRead(CredCall(t)), got |-> cred_v[t].got])
    /\ UNCHANGED <<cred_scene, cred_shared, cred_v, cred_seen, host_set>>

\* cng_cred_read_retry
Check(t) ==
    /\ CredAt(t, "check")
    /\ IF g_cred_seq # cred_v[t].s THEN CredGo(t, "seq") /\ UNCHANGED <<cred_todo, cred_ans>>
       ELSE CredDone(t, [ret |-> CredAnswer(CredCall(t), cred_v[t].got),
                         read |-> PartsRead(CredCall(t)), got |-> cred_v[t].got])
    /\ UNCHANGED <<cred_scene, cred_shared, cred_v, cred_seen, host_set>>
-----------------------------------------------------------------------------
(* Without --fake-id: the host's own set, and what its filter refuses.     *)

FsCalls == {"setfsuid", "setfsgid"}

\* Two group lists the kernel keeps as one, sorted.
SameList(a, b) ==
    LET times(s, v) == Cardinality({i \in DOMAIN s : s[i] = v})
    IN  Len(a) = Len(b) /\ \A i \in DOMAIN a : times(a, a[i]) = times(b, a[i])

\* The kernel's own answer, by the capability it asks for: external.
Kernel(c, x) ==
    Ruled(c[Part(x)], (IF Part(x) = "u" THEN "setuid" ELSE "setgid") \in cred_scene.caps, x)
Unchanged(c, x) ==
    IF x.op = "setgroups" THEN SameList(c.groups, Kernel(c, x).new) ELSE c[Part(x)] = Kernel(c, x).new


\* real_ids: an fs id that cannot be read is the effective one.
real_ids(c) ==
    [c EXCEPT !.u.f = IF Blocked("setfsuid") THEN c.u.e ELSE @,
              !.g.f = IF Blocked("setfsgid") THEN c.g.e ELSE @]

real_set(c, x) ==
    LET caps == IF Blocked("capget") THEN {} ELSE cred_scene.caps
        was == real_ids(c)
        r == Ruled(was[Part(x)], (IF Part(x) = "u" THEN "setuid" ELSE "setgid") \in caps, x)
        same == IF x.op = "setgroups" THEN ~Blocked("getgroups") /\ SameList(was.groups, r.new)
                ELSE was[Part(x)] = r.new
    IN  CASE Blocked("getresuid") -> ENOSYS
          [] ~Blocked("getresuid") /\ (r.ret < 0 \/ same \/ x.op \in FsCalls) -> r.ret
          [] OTHER -> EPERM

CallHost(t) ==
    /\ CredBegin(t) /\ ~cred_scene.fake_id /\ CredCall(t).op \in Setters \cup Getters \cup {"exec"}
    /\ LET x == CredCall(t)
           c == host_set[t]
       IN  CASE x.op \in Setters /\ Blocked(x.op) ->
                    CredDone(t, Reply(real_set(c, x))) /\ UNCHANGED host_set
             [] x.op \in Setters /\ ~Blocked(x.op) ->
                    /\ CredDone(t, Reply(Kernel(c, x).ret))
                    /\ host_set' = [host_set EXCEPT ![t][Part(x)] = Kernel(c, x).new]
             [] x.op \in Getters ->
                    /\ CredDone(t, Reply(IF Blocked(x.op) THEN ENOSYS ELSE 0))
                    /\ UNCHANGED host_set
             [] x.op = "exec" -> CredDone(t, Silent) /\ UNCHANGED host_set
    /\ UNCHANGED <<cred_scene, cred_shared, cred_v, cred_seen>>
-----------------------------------------------------------------------------
\* Mutant: the child keeps the entry its parent had.
Fork_inherits(t) ==
    /\ CredBegin(t) /\ CredCall(t).op = "fork"
    /\ cred_at' = Alone(t)
    /\ cred_todo' = [cred_todo EXCEPT ![t] = Tail(@)]
    /\ UNCHANGED <<cred_scene, cred_shared, cred_v, cred_ans, cred_seen, host_set>>

\* A fork, followed into the child: it has the forking thread only, memory as
\* it was, and a registry entry of its own.
Fork(t) ==
    /\ CredBegin(t) /\ CredCall(t).op = "fork"
    /\ cred_at' = Alone(t)
    /\ cred_todo' = [cred_todo EXCEPT ![t] = Tail(@)]
    /\ reg_ids' = CredNow
    /\ UNCHANGED <<cred_scene, g_cred_buf, cng_g_cred, g_cred_seq, g_cred_owner, cred_v, cred_ans,
                   cred_seen, host_set>>

\* A thread's clone runs natively: external.
CloneThread(t) ==
    /\ CredBegin(t) /\ CredCall(t).op = "clone"
    /\ \E o \in CredThreads :
        CredAt(o, "unborn") /\ cred_at' = [cred_at EXCEPT ![o] = "idle"]
        /\ host_set' = [host_set EXCEPT ![o] = host_set[t]]
    /\ cred_todo' = [cred_todo EXCEPT ![t] = Tail(@)]
    /\ UNCHANGED <<cred_scene, cred_shared, cred_v, cred_ans, cred_seen>>

\* cng_cred_setup and cng_cred_seed: the first write has been made.
Seeded(x) ==
    LET id(k) == IF x.fake_id_explicit THEN x.fake[k] ELSE x.host[k].r
    IN  [u |-> Same(id("u")), g |-> Same(id("g")), groups |-> <<>>]
NoLocals == [w |-> 0, k |-> 1, ret |-> 0, owner |-> CredNobody, s |-> 0, c |-> 0, got |-> Zeroed]

CredInit ==
    /\ cred_scene \in CredScenes
    /\ g_cred_buf = [b \in {0, 1} |-> IF b = 1 THEN Seeded(cred_scene) ELSE Zeroed]
    /\ cng_g_cred = 1 /\ g_cred_seq = 1 /\ g_cred_owner = CredNobody
    /\ reg_ids = Seeded(cred_scene)
    /\ cred_at = [t \in CredThreads |-> IF t \in cred_scene.up THEN "idle" ELSE "unborn"]
    /\ cred_v = [t \in CredThreads |-> NoLocals]
    /\ cred_todo = cred_scene.calls
    /\ cred_ans = [t \in CredThreads |-> Silent]
    /\ cred_seen = [t \in CredThreads |-> {}]
    /\ host_set = [t \in CredThreads |-> cred_scene.host]

CredStep(t) ==
    \/ CallSetter(t) \/ Lock(t) \/ Steal(t) \/ Copy(t) \/ Edit(t) \/ Store(t) \/ Bump(t)
    \/ Publish(t) \/ Unlock(t)
    \/ CallGetter(t) \/ ReadSeq(t) \/ ReadPtr(t) \/ Read(t) \/ Check(t)
    \/ CallHost(t) \/ Fork(t) \/ CloneThread(t)
CredNext == \E t \in CredThreads : CredStep(t)
CredSpec == CredInit /\ [][CredNext]_credvars
-----------------------------------------------------------------------------
Locals ==
    [w : {0, 1}, k : 1..3, ret : Int, owner : CredThreads \cup {CredNobody}, s : Nat, c : {0, 1},
     got : CredSet]
Writing == {"copy", "edit", "store", "bump", "publish", "unlock"}

CredTypes ==
    /\ cred_scene \in CredScenes
    /\ g_cred_buf \in [{0, 1} -> CredSet] /\ cng_g_cred \in {0, 1} /\ g_cred_seq \in Nat
    /\ g_cred_owner \in CredThreads \cup {CredNobody} /\ reg_ids \in CredSet
    /\ cred_at \in [CredThreads -> Masked \cup Reading \cup {"idle", "unborn", "gone"}]
    /\ cred_v \in [CredThreads -> Locals]
    /\ cred_todo \in [CredThreads -> Seq(CredCalls)]
    /\ cred_seen \in [CredThreads -> SUBSET CredSet]
    /\ DOMAIN cred_ans = CredThreads

\* A thread inside a call has it at the head of its script.
Called ==
    \A t \in CredThreads :
        /\ CredAt(t, "idle") \/ cred_at[t] \in {"unborn", "gone"} \/ cred_todo[t] # <<>>
        /\ cred_at[t] \in Masked => CredCall(t).op \in Setters \cup {"exec"}
        /\ cred_at[t] \in Reading => CredCall(t).op \in Getters

\* The lock is its writer's, and one taken over was of a thread that is gone.
OneWriter ==
    /\ \A t \in CredThreads : cred_at[t] \in Writing => g_cred_owner = t
    /\ g_cred_owner # CredNobody => cred_at[g_cred_owner] # "unborn"
    /\ \A t \in CredThreads : CredAt(t, "dead") =>
        cred_v[t].owner \in CredThreads /\ cred_at[cred_v[t].owner] = "gone"

\* The buffer being written is the one that is not the set, and holds what
\* has been copied and edited so far.
Draft ==
    \A t \in CredThreads : LET w == cred_v[t].w IN
        /\ cred_at[t] \in {"copy", "edit", "store"} => w = OtherBuf(cng_g_cred)
        /\ CredAt(t, "copy") =>
            \A i \in 1..(cred_v[t].k - 1) : g_cred_buf[w][CopyOrder[i]] = CredNow[CopyOrder[i]]
        /\ CredAt(t, "edit") => g_cred_buf[w] = CredNow
        /\ CredAt(t, "store") => g_cred_buf[w] = Edited(CredNow, CredCall(t)).set

\* A reader whose sequence number is still the current one reads a buffer
\* that nobody writes, and that was the set during its call.
Steady ==
    \A t \in CredThreads :
        /\ cred_at[t] \in Reading => CredNow \in cred_seen[t]
        /\ cred_at[t] \in {"read", "check"} /\ cred_v[t].s = g_cred_seq =>
            /\ g_cred_buf[cred_v[t].c] \in cred_seen[t]
            /\ cred_v[t].c = cng_g_cred \/ \E o \in CredThreads : CredAt(o, "bump")
            /\ LET order == ReadOrder(CredCall(t)) IN
               /\ CredAt(t, "check") => cred_v[t].k > Len(order)
               /\ \A i \in DOMAIN order : i < cred_v[t].k =>
                    cred_v[t].got[order[i]] = g_cred_buf[cred_v[t].c][order[i]]
        /\ cred_at[t] \in Reading \ {"seq"} => cred_v[t].s <= g_cred_seq

\* What a call has read and answers from is one set, and one that was the
\* process's during the call: cng_cred_ids and cng_cred_groups retry a read
\* that a writer may have met, and the two buffers never hold a third set.
SetsWhole ==
    \A t \in CredThreads : cred_ans[t].read # {} =>
        \E c \in cred_seen[t] : \A p \in cred_ans[t].read : cred_ans[t].got[p] = c[p]

\* The registry entry a socket peer is told from holds the process's set,
\* but for the moment of a write's end; in a fork's child too, whatever
\* another thread was writing when it forked.
IdsPublished ==
    (\A t \in CredThreads : cred_at[t] \notin {"bump", "publish"}) => reg_ids = CredNow

\* A process with no uid of 0 left never has one again, but by the exec of a
\* set-uid file under --setuid-root; whatever its threads set at once, and
\* whoever takes over the lock of a thread that is gone.
Rooted(c) == 0 \in {c.u.r, c.u.e, c.u.s, c.u.f}
SetidExec(t) ==
    /\ CredAt(t, "store") /\ CredCall(t).op = "exec"
    /\ cred_scene.setuid_root /\ CredCall(t).setuid
NoRegain ==
    [][Rooted(CredNow') => Rooted(CredNow) \/ \E t \in CredThreads : SetidExec(t)]_credvars

CredInv == CredTypes /\ Called /\ OneWriter /\ Draft /\ Steady /\ SetsWhole /\ IdsPublished

=============================================================================
