------------------------------- MODULE MsgReg --------------------------------
(***************************************************************************)
(* The message queues of the broker daemon (monitor/ipcreg.c), the turn of *)
(* the poll loop that serves them (monitor/broker.c, broker_main) and the  *)
(* client's msgsnd and msgrcv (monitor/sysvipc.c).  A handler observes     *)
(* nothing outside the daemon while it runs, so serving one request is one *)
(* step; the rescan and the reclaim, which look at many connections and    *)
(* processes, take one step for each.                                      *)
(***************************************************************************)
EXTENDS MsgData

CONSTANTS
    Pids,            \* process ids a guest process may run under
    MaxInc,          \* bound: incarnations one pid goes through
    MSG_QUEUE_MAX,   \* queues in the table
    IPC_WAITER_MAX,  \* parked operations in the table
    Programs         \* for each pid, the requests of the process under it

ASSUME MsgRegAssumption ==
    /\ MaxInc \in Nat \ {0} /\ Conns = Pids \X (1..MaxInc)
    /\ MSG_QUEUE_MAX \in 1..MaxId /\ IPC_WAITER_MAX \in Nat
    /\ Programs \subseteq [Pids -> Seq(Breq)] /\ Programs # {}

VARIABLES
    inc, life,                 \* /proc: start time and state of each pid
    g_msq, g_next_msqid,       \* the queue table
    waitq,                     \* g_wait in arrival (seq) order
    pc, todo, accq,            \* the daemon's turn
    pos, progress,             \* cng_ipc_rescan
    backlog, srv, reply,       \* connections, the daemon's end
    script, cl, call, cancel,  \* the client's end
    deadAt                     \* history: who was seen to be dead when the
                               \* send of a message was called

proc == <<inc, life>>
reg == <<g_msq, g_next_msqid>>
turn == <<pc, todo, accq>>
scan == <<pos, progress>>
conns == <<backlog, srv, reply>>
client == <<script, cl, call, cancel>>
vars == <<proc, reg, waitq, turn, scan, conns, client, deadAt>>

-----------------------------------------------------------------------------
NoQueue == [used |-> FALSE, key |-> IPC_PRIVATE, qbytes |-> 0, cbytes |-> 0,
            qnum |-> 0, msgs |-> <<>>]
NoReq == [op |-> "stat", id |-> 1, key |-> IPC_PRIVATE, creat |-> FALSE,
          excl |-> FALSE, perm |-> {}, size |-> 0, mtype |-> 1, nowait |-> FALSE,
          noerror |-> FALSE, except |-> FALSE, tag |-> CHOOSE t \in Tags : TRUE,
          faults |-> {}]

\* /proc/<pid>/stat: 0 when there is no such process.
cng_proc_starttime(p) == IF life[p] = "gone" THEN 0 ELSE inc[p]

\* Mutant: a pid in use is taken for the caller.
Departed_zombie(p, start) == life[p] # "live"

\* The reclaim's test of a recorded incarnation.
Departed(p, start) == cng_proc_starttime(p) # start \/ life[p] = "zombie"

Live(d) == g_msq[d].used
KeyHolders(key) == {d \in Ids : Live(d) /\ g_msq[d].key = key /\ key # IPC_PRIVATE}
Parked == {waitq[k].c : k \in 1..Len(waitq)}

\* The answer to connection c, or its close without one, which the client
\* reads as EIDRM; either way the connection is closed.
Answer(c, a) == srv' = [srv EXCEPT ![c] = "closed"] /\ reply' = [reply EXCEPT ![c] = a]
Drop(c) == Answer(c, Say("EIDRM"))

StartRescan == pc' = "rescan" /\ pos' = 0 /\ progress' = FALSE

\* msg_alloc_id: the first unused id from g_next_msqid on, wrapping.
msg_alloc_id(d) ==
    LET Before(j) == IF g_next_msqid <= d THEN g_next_msqid <= j /\ j < d
                                          ELSE g_next_msqid <= j \/ j < d
    IN  /\ ~Live(d) /\ \A j \in Ids : Before(j) => Live(j)
        /\ g_next_msqid' = IF d = MaxId THEN 1 ELSE d + 1

\* LONG_MIN cannot be negated, and is a limit of LONG_MAX.
msg_matches(m, q) ==
    \/ q.mtype = 0
    \/ q.mtype > 0 /\ (IF q.except THEN m.mtype # q.mtype ELSE m.mtype = q.mtype)
    \/ q.mtype < 0 /\ m.mtype <= IF q.mtype = LONG_MIN THEN LONG_MAX ELSE -q.mtype

\* The message a msgrcv takes, 0 if it would block: the loop over the queue
\* stops at the first match, or with a limit goes on for a lower type.
msg_pick(msgs, q) ==
    LET Better(best, k) ==
            \/ best = 0
            \/ q.mtype < 0 /\ msgs[k].mtype < msgs[best].mtype
    IN  FoldLeftDomain(LAMBDA best, k : IF msg_matches(msgs[k], q) /\ Better(best, k)
                                        THEN k ELSE best, 0, msgs)

\* Room for one more message.
msg_fits(q, size) == q.cbytes + size <= q.qbytes /\ q.qnum + 1 <= q.qbytes

msg_enqueue(q, m) == [q EXCEPT !.msgs = Append(@, m), !.cbytes = @ + m.size,
                               !.qnum = @ + 1]

msg_unlink(q, k) == [q EXCEPT !.msgs = RemoveAt(@, k), !.qnum = @ - 1,
                              !.cbytes = @ - q.msgs[k].size]

-----------------------------------------------------------------------------
(* broker_main: the poll, the parked connections, the accept.              *)

Init ==
    /\ inc = [p \in Pids |-> 1] /\ life = [p \in Pids |-> "live"]
    /\ g_msq = [d \in Ids |-> NoQueue] /\ g_next_msqid = 1 /\ waitq = <<>>
    /\ pc = "poll" /\ todo = {} /\ accq = FALSE /\ pos = 0 /\ progress = FALSE
    /\ backlog = <<>> /\ srv = [c \in Conns |-> "none"]
    /\ reply = [c \in Conns |-> Say("ok")]
    /\ script \in Programs /\ cl = [c \in Conns |-> "idle"]
    /\ call = [c \in Conns |-> NoReq] /\ cancel = [c \in Conns |-> FALSE]
    /\ deadAt = [t \in Tags |-> {}]

\* Mutant: an end of file is left to the reclaim.
Readable_cancel == {c \in Parked : cancel[c]}

\* Mutant: a cancel is not looked for.
Readable_hup == {c \in Parked : cl[c] = "dead"}

\* A parked connection is readable once a cancel is in it, or at end of file,
\* which a child holding a copy of the descriptor hides (muted).
Readable == {c \in Parked : cancel[c] \/ cl[c] = "dead"}

\* ppoll returns: what is readable now is what this turn looks at.
PollWake ==
    /\ pc = "poll" /\ (Readable # {} \/ backlog # <<>>)
    /\ todo' = Readable /\ accq' = (backlog # <<>>) /\ pc' = "ready"
    /\ UNCHANGED <<proc, reg, waitq, scan, conns, client, deadAt>>

\* ppoll times out: with sleepers in the table, by the reclaim tick.
PollTimeout ==
    /\ pc = "poll" /\ Readable = {} /\ backlog = <<>> /\ waitq # <<>> /\ pc' = "tick"
    /\ UNCHANGED <<proc, reg, waitq, todo, accq, scan, conns, client, deadAt>>

\* One readable parked connection: a cancel is acknowledged with EINTR, an end
\* of file frees the slot, and the message in it, without an answer.
cng_ipc_poll_ready(k) ==
    LET c == waitq[k].c IN
    /\ pc = "ready" /\ c \in todo
    /\ waitq' = RemoveAt(waitq, k) /\ todo' = todo \ {c}
    /\ IF cancel[c] THEN Answer(c, Say("EINTR")) ELSE Drop(c)
    /\ UNCHANGED <<proc, reg, pc, accq, scan, backlog, client, deadAt>>

ReadyDone ==
    /\ pc = "ready" /\ todo = {} /\ accq' = FALSE
    /\ IF accq THEN pc' = "serve" /\ UNCHANGED scan ELSE StartRescan
    /\ UNCHANGED <<proc, reg, waitq, todo, conns, client, deadAt>>

-----------------------------------------------------------------------------
(* The handlers, each from the accept to the answer.                       *)

Caller == Head(backlog)

\* The accept, with a request whose handler is the action this is part of.
Serving(ops) ==
    /\ pc = "serve" /\ srv[Caller] = "queued" /\ call[Caller].op \in ops
    /\ backlog' = Tail(backlog) /\ StartRescan
    /\ UNCHANGED <<proc, todo, accq, client, deadAt>>

Keep == UNCHANGED <<reg, waitq>>

\* A request that did not arrive whole, or a msgsnd whose message the arena
\* has no room for: the connection is closed without an answer.
Unserved ==
    /\ pc = "serve"
    /\ \/ srv[Caller] = "broken"
       \/ "nomem" \in call[Caller].faults /\ srv[Caller] = "queued" /\ call[Caller].op = "msgsnd"
    /\ backlog' = Tail(backlog) /\ Drop(Caller) /\ StartRescan
    /\ UNCHANGED <<proc, reg, waitq, todo, accq, client, deadAt>>

msg_do_get ==
    LET q == call[Caller] IN
    /\ Serving({"msgget"}) /\ UNCHANGED waitq
    /\ \/ \E d \in KeyHolders(q.key) :
            Answer(Caller, Say(IF q.creat /\ q.excl THEN "EEXIST"
                               ELSE IF "read" \notin q.perm THEN "EACCES" ELSE "ok"))
            /\ UNCHANGED reg
       \/ /\ KeyHolders(q.key) = {} /\ q.key # IPC_PRIVATE /\ ~q.creat
          /\ Answer(Caller, Say("ENOENT")) /\ UNCHANGED reg
       \/ /\ KeyHolders(q.key) = {} /\ (q.key = IPC_PRIVATE \/ q.creat)
          /\ IF Cardinality({d \in Ids : Live(d)}) >= MSG_QUEUE_MAX
             THEN Answer(Caller, Say("ENOSPC")) /\ UNCHANGED reg
             ELSE /\ Answer(Caller, Say("ok"))
                  /\ \E d \in Ids :
                       /\ msg_alloc_id(d)
                       /\ g_msq' = [g_msq EXCEPT ![d] = [NoQueue EXCEPT !.used = TRUE,
                                       !.key = q.key, !.qbytes = MSGMNB]]

\* waiter_park: a blocking operation that cannot proceed waits in the table,
\* or fails as if it had asked not to block when the table is full.
waiter_park(full) ==
    LET q == call[Caller] IN
    /\ UNCHANGED reg
    /\ IF q.nowait \/ Len(waitq) >= IPC_WAITER_MAX
       THEN Answer(Caller, Say(full)) /\ UNCHANGED waitq
       ELSE /\ waitq' = Append(waitq, [c |-> Caller, id |-> q.id,
                                       start |-> cng_proc_starttime(Caller[1])])
            /\ srv' = [srv EXCEPT ![Caller] = "parked"] /\ UNCHANGED reply

serve_msgsnd ==
    LET q == call[Caller] IN
    /\ Serving({"msgsnd"})
    /\ \/ ~Live(q.id) /\ Answer(Caller, Say("EINVAL")) /\ Keep
       \/ Live(q.id) /\ "write" \notin q.perm /\ Answer(Caller, Say("EACCES")) /\ Keep
       \/ /\ Live(q.id) /\ "write" \in q.perm /\ msg_fits(g_msq[q.id], q.size)
          /\ g_msq' = [g_msq EXCEPT ![q.id] = msg_enqueue(@, MsgOf(q))]
          /\ Answer(Caller, Say("ok")) /\ UNCHANGED <<waitq, g_next_msqid>>
       \/ /\ Live(q.id) /\ "write" \in q.perm /\ ~msg_fits(g_msq[q.id], q.size)
          /\ waiter_park("EAGAIN")

serve_msgrcv ==
    LET q == call[Caller]
        k == msg_pick(g_msq[q.id].msgs, q)
        m == g_msq[q.id].msgs[k]
    IN
    /\ Serving({"msgrcv"})
    /\ \/ ~Live(q.id) /\ Answer(Caller, Say("EINVAL")) /\ Keep
       \/ Live(q.id) /\ "read" \notin q.perm /\ Answer(Caller, Say("EACCES")) /\ Keep
       \/ /\ Live(q.id) /\ "read" \in q.perm /\ k # 0 /\ TooBig(m, q)
          /\ Answer(Caller, Say("E2BIG")) /\ Keep
       \/ /\ Live(q.id) /\ "read" \in q.perm /\ k # 0 /\ ~TooBig(m, q)
          /\ g_msq' = [g_msq EXCEPT ![q.id] = msg_unlink(@, k)]
          /\ Answer(Caller, Handed(m, q)) /\ UNCHANGED <<waitq, g_next_msqid>>
       \/ /\ Live(q.id) /\ "read" \in q.perm /\ k = 0
          /\ waiter_park("ENOMSG")

\* IPC_STAT and IPC_SET.
msg_do_ctl ==
    LET q == call[Caller] IN
    /\ Serving({"stat", "ipc_set"}) /\ UNCHANGED <<waitq, g_next_msqid>>
    /\ \/ ~Live(q.id) /\ Answer(Caller, Say("EINVAL")) /\ UNCHANGED g_msq
       \/ /\ Live(q.id) /\ q.op = "stat" /\ UNCHANGED g_msq
          /\ Answer(Caller, Say(IF "read" \in q.perm THEN "ok" ELSE "EACCES"))
       \/ /\ Live(q.id) /\ q.op = "ipc_set" /\ ~MaySet(q)
          /\ Answer(Caller, Say("EPERM")) /\ UNCHANGED g_msq
       \/ /\ Live(q.id) /\ q.op = "ipc_set" /\ MaySet(q)
          /\ g_msq' = [g_msq EXCEPT ![q.id].qbytes = q.size]
          /\ Answer(Caller, Say("ok"))

\* Everyone asleep on a queue that is being removed.
waiters_eidrm(d) ==
    {c \in Parked : \E k \in 1..Len(waitq) : waitq[k].c = c /\ waitq[k].id = d}

\* IPC_RMID: sleepers are answered EIDRM, the messages freed.
msg_free_queue ==
    LET q == call[Caller]
        S == waiters_eidrm(q.id)
    IN
    /\ Serving({"rmid"}) /\ UNCHANGED g_next_msqid
    /\ \/ /\ ~Live(q.id) \/ "own" \notin q.perm
          /\ Answer(Caller, Say(IF Live(q.id) THEN "EPERM" ELSE "EINVAL"))
          /\ UNCHANGED <<g_msq, waitq>>
       \/ /\ Live(q.id) /\ "own" \in q.perm
          /\ g_msq' = [g_msq EXCEPT ![q.id] = NoQueue]
          /\ waitq' = SelectSeq(waitq, LAMBDA w : w.c \notin S)
          /\ srv' = [c \in Conns |-> IF c \in S \cup {Caller} THEN "closed" ELSE srv[c]]
          /\ reply' = [c \in Conns |-> IF c = Caller THEN Say("ok")
                                       ELSE IF c \in S THEN Say("EIDRM") ELSE reply[c]]

-----------------------------------------------------------------------------
(* cng_ipc_rescan and cng_ipc_reclaim.                                     *)

\* A visited waiter is answered and leaves the table.
Leaves(a) ==
    /\ Answer(waitq[pos + 1].c, a) /\ waitq' = RemoveAt(waitq, pos + 1)
    /\ progress' = TRUE /\ UNCHANGED pos

\* The next sleeper in arrival order.
cng_ipc_rescan_visit ==
    LET w == waitq[pos + 1]
        q == call[w.c]
        k == msg_pick(g_msq[w.id].msgs, q)
        m == g_msq[w.id].msgs[k]
        stuck == IF q.op = "msgsnd" THEN ~msg_fits(g_msq[w.id], q.size) ELSE k = 0
    IN
    /\ pc = "rescan" /\ pos < Len(waitq)
    /\ IF ~Live(w.id) THEN Leaves(Say("EIDRM")) /\ UNCHANGED g_msq
       ELSE \/ /\ stuck /\ pos' = pos + 1
               /\ UNCHANGED <<waitq, srv, reply, progress, g_msq>>
            \/ /\ ~stuck /\ q.op = "msgsnd" /\ Leaves(Say("ok"))
               /\ g_msq' = [g_msq EXCEPT ![w.id] = msg_enqueue(@, MsgOf(q))]
            \/ /\ ~stuck /\ q.op = "msgrcv" /\ TooBig(m, q)
               /\ Leaves(Say("E2BIG")) /\ UNCHANGED g_msq
            \/ /\ ~stuck /\ q.op = "msgrcv" /\ ~TooBig(m, q)
               /\ Leaves(Handed(m, q))
               /\ g_msq' = [g_msq EXCEPT ![w.id] = msg_unlink(@, k)]
    /\ UNCHANGED <<proc, g_next_msqid, turn, backlog, client, deadAt>>

\* Mutant: one pass, however much it changed.
AnotherPass_never == FALSE

\* while (progress && g_nwait)
AnotherPass == progress /\ waitq # <<>>

cng_ipc_rescan_pass ==
    /\ pc = "rescan" /\ pos = Len(waitq)
    /\ pos' = 0 /\ progress' = FALSE /\ pc' = IF AnotherPass THEN "rescan" ELSE "tick"
    /\ UNCHANGED <<proc, reg, waitq, todo, accq, conns, client, deadAt>>

\* The end of a turn; the tick has elapsed since the last reclaim, or not.
NoTick ==
    /\ pc = "tick" /\ pc' = "poll"
    /\ UNCHANGED <<proc, reg, waitq, todo, accq, scan, conns, client, deadAt>>

Tick ==
    /\ pc = "tick" /\ waitq # <<>> /\ pc' = "reclaim" /\ todo' = Parked
    /\ UNCHANGED <<proc, reg, waitq, accq, scan, conns, client, deadAt>>

\* cng_ipc_reclaim: a waiter whose caller is gone is freed without an answer.
cng_ipc_reclaim(k) ==
    LET c == waitq[k].c IN
    /\ pc = "reclaim" /\ c \in todo /\ todo' = todo \ {c}
    /\ IF Departed(c[1], waitq[k].start)
       THEN waitq' = RemoveAt(waitq, k) /\ Drop(c)
       ELSE UNCHANGED <<waitq, srv, reply>>
    /\ UNCHANGED <<proc, reg, pc, accq, scan, backlog, client, deadAt>>

ReclaimDone ==
    /\ pc = "reclaim" /\ todo = {} /\ pc' = "poll"
    /\ UNCHANGED <<proc, reg, waitq, todo, accq, scan, conns, client, deadAt>>

-----------------------------------------------------------------------------
(* The clients, and the processes they are.                                *)

daemon == <<reg, waitq, turn, scan>>
Me(p) == <<p, inc[p]>>
Dead == {c \in Conns : cl[c] = "dead"}

\* do_msgsnd looks at the size and the type before it calls the broker.
Refused(q) == q.op = "msgsnd" /\ (q.size > MSGMAX \/ q.mtype < 1)

\* Connect, send the request and its payload; w: it arrives whole.
Connect(c, q, w) ==
    /\ w \/ "broken" \in q.faults
    /\ cl' = [cl EXCEPT ![c] = "wait"]
    /\ srv' = [srv EXCEPT ![c] = IF w THEN "queued" ELSE "broken"]
    /\ backlog' = Append(backlog, c)
    /\ deadAt' = IF q.op = "msgsnd" THEN [deadAt EXCEPT ![q.tag] = Dead] ELSE deadAt

Call(p, w) ==
    LET c == Me(p)
        q == Head(script[p])
    IN
    /\ life[p] = "live" /\ cl[c] = "idle" /\ script[p] # <<>>
    /\ script' = [script EXCEPT ![p] = Tail(@)]
    /\ IF Refused(q)
       THEN w /\ UNCHANGED <<cl, srv, backlog, call, deadAt>>
       ELSE Connect(c, q, w) /\ call' = [call EXCEPT ![c] = q]
    /\ UNCHANGED <<proc, daemon, reply, cancel>>

\* ipc_wait_rpc gives a wait up, for a signal or for a ptrace kick (k): the
\* cancel goes down the same connection, whatever has been sent up it.
Interrupt(p, k) ==
    LET c == Me(p) IN
    /\ (IF k THEN "kick" ELSE "signal") \in call[c].faults
    /\ life[p] = "live" /\ cl[c] = "wait" /\ call[c].op \in {"msgsnd", "msgrcv"}
    /\ cl' = [cl EXCEPT ![c] = IF k THEN "kicked" ELSE "cancel"]
    /\ cancel' = [cancel EXCEPT ![c] = TRUE]
    /\ UNCHANGED <<proc, daemon, conns, script, call, deadAt>>

\* Mutant: a kicked wait is made again whatever the daemon answered.
Restarts_granted(c) == cl[c] = "kicked"

\* A kicked wait the daemon cancelled: CNG_ERESTART.
Restarts(c) == cl[c] = "kicked" /\ reply[c].ret = "EINTR"

\* The next message on the connection is definitive.
Receive(p) ==
    LET c == Me(p) IN
    /\ life[p] = "live" /\ cl[c] \in {"wait", "cancel", "kicked"} /\ srv[c] = "closed"
    /\ srv' = [srv EXCEPT ![c] = "none"] /\ reply' = [reply EXCEPT ![c] = Say("ok")]
    /\ cancel' = [cancel EXCEPT ![c] = FALSE]
    /\ cl' = [cl EXCEPT ![c] = IF Restarts(c) THEN "again" ELSE "idle"]
    /\ UNCHANGED <<proc, daemon, backlog, script, call, deadAt>>

\* The svc of a kicked wait, executed again.
Restart(p, w) ==
    LET c == Me(p) IN
    /\ life[p] = "live" /\ cl[c] = "again" /\ Connect(c, call[c], w)
    /\ UNCHANGED <<proc, daemon, reply, script, call, cancel>>

\* Death, in a call or out of one; m: a child still holds the descriptor.
Die(p, m) ==
    LET c == Me(p) IN
    /\ "death" \in call[c].faults /\ life[p] = "live"
    /\ m => "muted" \in call[c].faults /\ srv[c] \notin {"none", "closed"}
    /\ life' = [life EXCEPT ![p] = "zombie"]
    /\ cl' = [cl EXCEPT ![c] = IF m THEN "muted" ELSE "dead"]
    /\ UNCHANGED <<inc, daemon, conns, script, call, cancel, deadAt>>

Reap(p) ==
    /\ life[p] = "zombie"
    /\ "early_reap" \in call[Me(p)].faults \/ srv[Me(p)] \in {"none", "closed", "parked"}
    /\ life' = [life EXCEPT ![p] = "gone"]
    /\ UNCHANGED <<inc, daemon, conns, client, deadAt>>

\* The pid is given to a new process, which does what is left of the script.
Reuse(p) ==
    /\ "reuse" \in call[Me(p)].faults /\ life[p] = "gone" /\ inc[p] < MaxInc
    /\ life' = [life EXCEPT ![p] = "live"] /\ inc' = [inc EXCEPT ![p] = @ + 1]
    /\ UNCHANGED <<daemon, conns, client, deadAt>>

-----------------------------------------------------------------------------
Daemon ==
    \/ PollWake \/ PollTimeout \/ NoTick \/ Tick \/ ReadyDone \/ Unserved
    \/ msg_do_get \/ serve_msgsnd \/ serve_msgrcv \/ msg_do_ctl \/ msg_free_queue \/ cng_ipc_rescan_visit
    \/ cng_ipc_rescan_pass \/ ReclaimDone
    \/ \E k \in 1..Len(waitq) : cng_ipc_poll_ready(k) \/ cng_ipc_reclaim(k)

Clients ==
    \/ \E p \in Pids, b \in BOOLEAN :
            Call(p, b) \/ Restart(p, b) \/ Interrupt(p, b) \/ Die(p, b)
    \/ \E p \in Pids : Receive(p) \/ Reap(p) \/ Reuse(p)

Next == Daemon \/ Clients

Spec == Init /\ [][Next]_vars

\* The daemon keeps running, and the reclaim tick keeps elapsing; a client
\* reads what it is sent.
FairSpec ==
    Spec /\ WF_vars(Daemon) /\ SF_vars(Tick) /\ \A p \in Pids : WF_vars(Receive(p))

-----------------------------------------------------------------------------
(* Properties.                                                             *)

Queue == [used : BOOLEAN, key : Keys \cup {IPC_PRIVATE}, qbytes : Nat,
          cbytes : Nat, qnum : Nat, msgs : Seq(Msg)]

\* Every variable keeps its type; in particular the byte and message counters
\* of a queue, which are unsigned in the code, never pass below zero.
TypeOK ==
    /\ g_msq \in [Ids -> Queue] /\ g_next_msqid \in Ids
    /\ waitq \in Seq([c : Conns, id : Ids, start : 0..MaxInc])
    /\ pc \in {"poll", "ready", "serve", "rescan", "tick", "reclaim"}
    /\ todo \subseteq Conns
    /\ accq \in BOOLEAN /\ pos \in Nat /\ progress \in BOOLEAN
    /\ backlog \in Seq(Conns)
    /\ srv \in [Conns -> {"none", "queued", "broken", "parked", "closed"}]
    /\ reply \in [Conns -> Answers]
    /\ inc \in [Pids -> 1..MaxInc] /\ life \in [Pids -> {"live", "zombie", "gone"}]
    /\ script \in [Pids -> Seq(Breq)]
    /\ cl \in [Conns -> {"idle", "wait", "cancel", "kicked", "again", "dead", "muted"}]
    /\ call \in [Conns -> Breq] /\ cancel \in [Conns -> BOOLEAN]
    /\ deadAt \in [Tags -> SUBSET Conns]

\* What a caller's connection says of its call.  (One that died between two
\* calls counts as having begun one that never takes effect.)
AbsOp(c) ==
    LET st == IF cl[c] = "idle" THEN "idle" ELSE IF srv[c] = "closed" THEN "done"
              ELSE "pending"
    IN  [st |-> st, call |-> call[c], cancel |-> cancel[c],
         ans |-> IF st = "done" THEN reply[c] ELSE Say("ok")]

Abs == INSTANCE MsgQueue WITH
    queues <- [d \in Ids |-> [used |-> g_msq[d].used, key |-> g_msq[d].key,
                              qbytes |-> g_msq[d].qbytes, msgs |-> g_msq[d].msgs]],
    op <- [c \in Conns |-> AbsOp(c)]

\* ipc_wait_rpc's promise, "a granted operation is never reported as EINTR,
\* and a cancelled one was never applied", in full: every msgsnd, msgrcv,
\* msgget and msgctl takes effect once, at one instant, on the queue as
\* msg_fits and msg_pick find it, and its caller learns what happened, through
\* interruptions, kicks, deaths, broken requests and removals.
Linearizable == Abs!Spec

\* No lost wakeup: when the daemon goes to sleep in ppoll, no parked sender's
\* message fits and no parked receiver has a message to take.
NoLostWakeup ==
    pc = "poll" => \A k \in 1..Len(waitq) :
        LET q == call[waitq[k].c]
            mq == g_msq[waitq[k].id]
        IN  IF q.op = "msgsnd" THEN ~Abs!Fits(mq, q.size) ELSE Chosen(mq.msgs, q) = 0

\* broker_main looks at the parked connections before it accepts ("Parked
\* connections first: cancels, deaths"): a message whose msgsnd was called when
\* a receiver was already dead is never spent on that receiver.
NoPosthumousDelivery ==
    \A c \in Conns : reply[c].msg # NoMsg => c \notin deadAt[reply[c].msg.tag]

\* A sleeper whose process is gone leaves the table in the end, even if a child
\* holds its connection open (the reclaim by incarnation).
DeadSleepersLeave ==
    \A c \in Conns : (c \in Parked /\ cl[c] \in {"dead", "muted"}) ~> c \notin Parked

\* An interrupted wait ends: the cancel is acknowledged, or the grant that
\* beat it is read.
WaitsEnd ==
    \A c \in Conns : cl[c] \in {"cancel", "kicked"} ~> cl[c] \notin {"cancel", "kicked"}
=============================================================================
