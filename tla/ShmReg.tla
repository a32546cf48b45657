------------------------------- MODULE ShmReg --------------------------------
(***************************************************************************)
(* System V shared memory: the segment registry of the broker daemon       *)
(* (monitor/broker.c) and the processes that attach (monitor/shm.c).  No   *)
(* exit of a process is trapped, so the daemon learns of a death only by   *)
(* comparing the start time it recorded for a pid with /proc's.  Every     *)
(* request is served in one step but for the reclaim of dead attachers,    *)
(* which reads /proc once a row while the processes go on.                 *)
(***************************************************************************)
EXTENDS Integers, Sequences, FiniteSets, FiniteSetsExt

CONSTANTS
    Pids,           \* process ids
    MaxInc,         \* bound: processes one pid goes through
    Roots,          \* the processes that run in the initial state
    SHM_SEG_MAX,    \* slots of the segment table
    ASHV_SEQ_MAX,   \* shmids run from 1 to this and come round again
    Keys,           \* keys other than IPC_PRIVATE
    MaxSize,        \* the largest size shmget accepts
    MaxSegs,        \* bound: segments created in all
    Programs        \* the calls of each process, in order

Procs == Pids \X (1..MaxInc)
Slots == 0..SHM_SEG_MAX - 1
Ids == 1..ASHV_SEQ_MAX
Objs == 1..MaxSegs
IPC_PRIVATE == 0
NoOne == <<>>
Rights == {"read", "write", "exec", "own"}

\* What may go wrong from a call on until the next one: the process is killed,
\* in an shmdt even, its mapping fails, the daemon has no memory for a backing
\* or for a row, or the process is reaped before its request is served.
FaultKinds == {"death", "death_in_shmdt", "nomap", "nomem", "norow", "early_reap"}

\* A system call, and the request it makes of the daemon.  perm is what the
\* segment's mode grants the caller, need what an attach asks for; pid is the
\* child of a fork and the process a wait is for; index is SHM_STAT's.
Call == [op : {"shmget", "shmat", "shmdt", "stat", "shm_stat", "info", "set", "rmid",
               "lock", "shmfork", "fork", "exec", "wait", "exit"},
         id : Ids, key : Keys \cup {IPC_PRIVATE}, size : 0..MaxSize + 1,
         creat : BOOLEAN, excl : BOOLEAN, perm : SUBSET Rights,
         need : SUBSET {"write", "exec"}, pid : Pids, index : 0..SHM_SEG_MAX,
         faults : SUBSET FaultKinds]

ASSUME ShmRegAssumption ==
    /\ MaxInc \in Nat \ {0} /\ Roots \subseteq Pids /\ Roots # {}
    /\ SHM_SEG_MAX \in Nat \ {0} /\ MaxSize \in Nat \ {0} /\ MaxSegs \in Nat
    /\ ASHV_SEQ_MAX \in Nat /\ ASHV_SEQ_MAX > SHM_SEG_MAX
    /\ Keys \subseteq Nat \ {IPC_PRIVATE}
    /\ Programs \subseteq [Procs -> Seq(Call)] /\ Programs # {}

VARIABLES
    life,           \* unborn, live, zombie or gone: what /proc shows
    g_seg,          \* the segment table
    g_next_seq,     \* the next shmid to try
    dpc,            \* the daemon: polling, reclaiming or about to answer
    cur,            \* whom the reclaim answers, NoOne at the idle check
    scope, todo,    \* segments and rows the reclaim has to look at
    backlog,        \* connections that wait to be accepted, oldest first
    script,         \* the calls a process still has to make
    cl, call,       \* what it is doing, and the request it made
    obj, back,      \* (history) the segment a detach or a fork report is
                    \* about, and what the process does after the answer
    reply,          \* the daemon's answer: a return value, nattch, and
                    \* (history) the segment it is about
    held,           \* attach list: how often each segment is mapped
    unannounced,    \* inherited entries a fork child has not reported yet
    made,           \* history: the id of each segment ever created
    counted,        \* history: attaches the daemon has counted, by process
    upper           \* history: most attaches a reclaim under way may find

proc == <<life, script, held, unannounced>>
conn == <<cl, call, obj, back, backlog, reply>>
daemon == <<dpc, cur, scope, todo, upper>>
table == <<g_seg, g_next_seq, made, counted>>
vars == <<proc, conn, daemon, table>>

-----------------------------------------------------------------------------
NoRow == [start |-> 0, n |-> 0]
NoSeg == [used |-> FALSE, shmid |-> 1, key |-> IPC_PRIVATE, size |-> 0, nattch |-> 0,
          rmid |-> FALSE, att |-> [p \in Pids |-> NoRow], obj |-> 0]
Say(ret) == [ret |-> ret, nattch |-> 0, obj |-> 0]

Running(p) == {c \in Procs : c[1] = p /\ life[c] \in {"live", "zombie"}}

\* /proc/<pid>/stat: the start time, 0 when there is no such process.
cng_proc_starttime(p) == IF Running(p) = {} THEN 0 ELSE (CHOOSE c \in Running(p) : TRUE)[2]
IsZombie(p) == \E c \in Running(p) : life[c] = "zombie"

Used(s) == g_seg[s].used
Holding(o) == {s \in Slots : Used(s) /\ g_seg[s].obj = o}
shm_find(d) == {s \in Slots : Used(s) /\ g_seg[s].shmid = d}

\* The first id from g_next_seq on that no segment has, wrapping.
shm_alloc_id(d) ==
    LET Before(j) == IF g_next_seq <= d THEN g_next_seq <= j /\ j < d
                                        ELSE g_next_seq <= j \/ j < d
    IN  shm_find(d) = {} /\ \A j \in Ids : Before(j) => shm_find(j) # {}

\* One attach more for process c.  A row there is found by the pid alone; a new
\* one is stamped with the start time the pid has now.  Without memory for a
\* row the attach is counted and not tracked.
shm_att_add(s, c) ==
    LET p == c[1]
        row == s.att[p]
    IN
    {[s EXCEPT !.nattch = @ + 1,
               !.att[p] = IF row.n > 0 THEN [row EXCEPT !.n = @ + 1]
                          ELSE [start |-> cng_proc_starttime(p), n |-> 1]]}
    \cup {t \in {[s EXCEPT !.nattch = @ + 1]} : row.n = 0 /\ "norow" \in call[c].faults}

shm_att_del(s, p) ==
    [s EXCEPT !.att[p] = IF @.n <= 1 THEN NoRow ELSE [@ EXCEPT !.n = @ - 1]]

\* A removed segment goes when nothing is attached to it any more.
Freed(s) == IF s.rmid /\ s.nattch = 0 THEN NoSeg ELSE s

-----------------------------------------------------------------------------
(* The daemon (ipc_serve): one request, then the next.                     *)

\* The head of the accept queue is served; its pid is SO_PEERCRED's, whatever
\* has become of the process since it connected.
Serving(c, op) ==
    /\ dpc = "poll" /\ backlog # <<>> /\ c = Head(backlog) /\ call[c].op = op
    /\ backlog' = Tail(backlog)

Answer(c, r) ==
    /\ reply' = [reply EXCEPT ![c] = r]
    /\ cl' = [cl EXCEPT ![c] = IF @ = "sent" THEN "answered" ELSE @]
    /\ UNCHANGED <<call, obj, back>>

Count(c, o, n) == counted' = [counted EXCEPT ![c][o] = @ + n]

Keyed(key) == {s \in Slots : Used(s) /\ g_seg[s].key = key /\ key # IPC_PRIVATE}

\* shmget of a key some segment has.
GetExisting(c) ==
    LET q == call[c] IN
    /\ Serving(c, "shmget") /\ Keyed(q.key) # {}
    /\ \E s \in Keyed(q.key) :
        Answer(c, Say(CASE q.creat /\ q.excl -> "EEXIST"
                        [] g_seg[s].size < q.size -> "EINVAL"
                        [] "read" \notin q.perm -> "EACCES"
                        [] OTHER -> "ok"))
    /\ UNCHANGED <<proc, daemon, table>>

\* shmget of a new one: the first free slot, an id and a backing for it.
GetNew(c) ==
    LET q == call[c]
        free == {s \in Slots : ~Used(s)}
        Refusal == CASE q.key # IPC_PRIVATE /\ ~q.creat -> "ENOENT"
                     [] q.size = 0 \/ q.size > MaxSize -> "EINVAL"
                     [] free = {} -> "ENOSPC"
                     [] OTHER -> "ok"
    IN
    /\ Serving(c, "shmget") /\ Keyed(q.key) = {}
    /\ \/ /\ Refusal # "ok"
          /\ Answer(c, Say(Refusal))
          /\ UNCHANGED table
       \/ /\ Refusal = "ok" /\ Len(made) < MaxSegs
          /\ \E d \in Ids :
              /\ shm_alloc_id(d) /\ g_next_seq' = IF d = ASHV_SEQ_MAX THEN 1 ELSE d + 1
              /\ \/ /\ "nomem" \in q.faults
                    /\ Answer(c, Say("ENOSPC"))
                    /\ UNCHANGED <<g_seg, made>>
                 \/ /\ g_seg' = [g_seg EXCEPT ![Min(free)] =
                            [NoSeg EXCEPT !.used = TRUE, !.shmid = d, !.key = q.key,
                                          !.size = q.size, !.obj = Len(made) + 1]]
                    /\ made' = Append(made, d)
                    /\ Answer(c, Say("ok"))
          /\ UNCHANGED counted
    /\ UNCHANGED <<proc, daemon>>

\* The permission is judged, the attach counted and the descriptor handed out.
shm_do_at(c) ==
    LET q == call[c] IN
    /\ Serving(c, "shmat")
    /\ \/ \E s \in shm_find(q.id) :
            /\ {"read"} \cup q.need \subseteq q.perm
            /\ \E t \in shm_att_add(g_seg[s], c) : g_seg' = [g_seg EXCEPT ![s] = t]
            /\ Count(c, g_seg[s].obj, 1)
            /\ Answer(c, [Say("ok") EXCEPT !.obj = g_seg[s].obj])
       \/ /\ shm_find(q.id) = {} \/ ~({"read"} \cup q.need \subseteq q.perm)
          /\ Answer(c, Say(IF shm_find(q.id) = {} THEN "EINVAL" ELSE "EACCES"))
          /\ UNCHANGED <<g_seg, counted>>
    /\ UNCHANGED <<proc, daemon, g_next_seq, made>>

Detached(s, p) ==
    Freed(shm_att_del([s EXCEPT !.nattch = IF @ > 0 THEN @ - 1 ELSE 0], p))

\* A detach from a segment that is gone is a no-op.
shm_do_dt(c) ==
    /\ Serving(c, "shmdt")
    /\ g_seg' = [s \in Slots |-> IF s \in shm_find(call[c].id)
                                 THEN Detached(g_seg[s], c[1]) ELSE g_seg[s]]
    /\ IF counted[c][obj[c]] > 0 THEN Count(c, obj[c], -1) ELSE UNCHANGED counted
    /\ Answer(c, Say("ok"))
    /\ UNCHANGED <<proc, daemon, g_next_seq, made>>

\* A fork child reports an attach it inherited.
shm_do_fork(c) ==
    /\ Serving(c, "shmfork")
    /\ \/ \E s \in shm_find(call[c].id) :
            /\ \E t \in shm_att_add(g_seg[s], c) : g_seg' = [g_seg EXCEPT ![s] = t]
            /\ IF g_seg[s].obj = obj[c] THEN Count(c, obj[c], 1) ELSE UNCHANGED counted
       \/ shm_find(call[c].id) = {} /\ UNCHANGED <<g_seg, counted>>
    /\ Answer(c, Say("ok"))
    /\ UNCHANGED <<proc, daemon, g_next_seq, made>>

-----------------------------------------------------------------------------
(* shmctl, and the reclaim it starts with.                                 *)

Living == {c \in Procs : life[c] = "live"}
Attaches(o) == MapThenSumSet(LAMBDA c : counted[c][o], Living)
MostIn(S) == MapThenSumSet(LAMBDA s : Attaches(g_seg[s].obj), S)

\* shm_reclaim_seg over the segments S: which rows there are to read.
StartReclaim(who, S) ==
    /\ dpc' = "reclaim" /\ cur' = who /\ scope' = S
    /\ todo' = {<<s, p>> \in S \X Pids : g_seg[s].att[p].n > 0}
    /\ upper' = MostIn(S)

StatOps == {"stat", "shm_stat"}

\* IPC_STAT names a segment by its id, SHM_STAT by its slot.
Named(q) == IF q.op = "shm_stat" THEN {s \in Slots : s = q.index /\ Used(s)}
                                 ELSE shm_find(q.id)
Refused(q) == IF Named(q) = {} THEN "EINVAL"
              ELSE IF q.op \in StatOps /\ "read" \notin q.perm THEN "EACCES"
              ELSE IF q.op \in {"set", "rmid", "lock"} /\ "own" \notin q.perm THEN "EPERM"
              ELSE "ok"

\* The commands that answer at once: refusals, IPC_SET, SHM_LOCK and
\* SHM_UNLOCK, which change nothing this model keeps.
CtlAtOnce(c) ==
    LET q == call[c] IN
    /\ \E op \in StatOps \cup {"set", "rmid", "lock"} : Serving(c, op)
    /\ q.op \in {"set", "lock"} \/ Refused(q) # "ok"
    /\ Answer(c, Say(Refused(q)))
    /\ UNCHANGED <<proc, daemon, table>>

CtlStat(c) ==
    /\ \E op \in StatOps : Serving(c, op)
    /\ Refused(call[c]) = "ok"
    /\ StartReclaim(c, Named(call[c]))
    /\ UNCHANGED <<proc, table, cl, call, obj, back, reply>>

CtlInfo(c) ==
    /\ Serving(c, "info")
    /\ StartReclaim(c, {s \in Slots : Used(s)})
    /\ UNCHANGED <<proc, table, cl, call, obj, back, reply>>

\* IPC_RMID: unfindable by key from here on, gone once nobody is attached.
CtlRmid(c) ==
    /\ Serving(c, "rmid") /\ Refused(call[c]) = "ok"
    /\ StartReclaim(c, Named(call[c]))
    /\ g_seg' = [s \in Slots |-> IF s \in Named(call[c])
                                 THEN [g_seg[s] EXCEPT !.key = IPC_PRIVATE, !.rmid = TRUE]
                                 ELSE g_seg[s]]
    /\ UNCHANGED <<proc, cl, call, obj, back, reply, g_next_seq, made, counted>>

\* Mutant: only the segments that are not marked for removal are looked at.
IdleReclaim_live ==
    /\ dpc = "poll" /\ backlog = <<>>
    /\ StartReclaim(NoOne, {s \in Slots : Used(s) /\ ~g_seg[s].rmid})
    /\ UNCHANGED <<proc, conn, table>>

\* shm_reclaim_all at the idle check: no request came for the grace window.
IdleReclaim ==
    /\ dpc = "poll" /\ backlog = <<>>
    /\ StartReclaim(NoOne, {s \in Slots : Used(s)})
    /\ UNCHANGED <<proc, conn, table>>

\* Mutant: a zombie still owns its pid, and is taken for alive.
Departed_zombie(p, start) == cng_proc_starttime(p) # start

Departed(p, start) == cng_proc_starttime(p) # start \/ IsZombie(p)

\* One row: its attaches come off the count if its process is no more.
shm_reclaim_seg(s, p) ==
    LET row == g_seg[s].att[p] IN
    /\ dpc = "reclaim" /\ <<s, p>> \in todo
    /\ todo' = todo \ {<<s, p>>}
    /\ g_seg' = IF Departed(p, row.start)
                THEN [g_seg EXCEPT ![s].att[p] = NoRow,
                                   ![s].nattch = IF @ >= row.n THEN @ - row.n ELSE 0]
                ELSE g_seg
    /\ UNCHANGED <<proc, conn, dpc, cur, scope, upper, g_next_seq, made, counted>>

\* After the last row: removed segments without attaches go, and the command
\* that wanted the reclaim is answered.
ReclaimDone ==
    LET after == [s \in Slots |-> IF s \in scope THEN Freed(g_seg[s]) ELSE g_seg[s]]
        Stat(s) == IF after[s].used THEN [ret |-> "ok", nattch |-> after[s].nattch,
                                          obj |-> after[s].obj]
                   ELSE Say("EINVAL")
    IN
    /\ dpc = "reclaim" /\ todo = {}
    /\ g_seg' = after /\ dpc' = "poll" /\ cur' = NoOne /\ scope' = {} /\ upper' = 0
    /\ \/ cur = NoOne /\ UNCHANGED conn
       \/ /\ cur # NoOne
          /\ IF call[cur].op \in StatOps THEN \E s \in scope : Answer(cur, Stat(s))
                                         ELSE Answer(cur, Say("ok"))
          /\ UNCHANGED backlog
    /\ UNCHANGED <<proc, todo, g_next_seq, made, counted>>

-----------------------------------------------------------------------------
(* The processes (shm.c).                                                  *)

Ready(c, op) ==
    /\ life[c] = "live" /\ cl[c] = "idle" /\ script[c] # <<>> /\ Head(script[c]).op = op
    /\ script' = [script EXCEPT ![c] = Tail(@)]

\* One round trip to the daemon begins; afterwards the process is at `then'.
cng_broker_rpc(c, q, o, then) ==
    /\ cl' = [cl EXCEPT ![c] = "sent"] /\ call' = [call EXCEPT ![c] = q]
    /\ obj' = [obj EXCEPT ![c] = o] /\ back' = [back EXCEPT ![c] = then]
    /\ backlog' = Append(backlog, c)
    /\ UNCHANGED reply

Detach(c, o) == [call[c] EXCEPT !.op = "shmdt", !.id = made[o]]

\* The calls that are a request and its answer, and shmat's request.
cng_shm_handle(c) ==
    /\ \E op \in {"shmget", "shmat", "stat", "shm_stat", "info", "set", "rmid", "lock"} :
        Ready(c, op)
    /\ cng_broker_rpc(c, Head(script[c]), 0, "idle")
    /\ UNCHANGED <<life, held, unannounced, daemon, table>>

\* Mutant: an attach that cannot be mapped stays counted.
MapFailed_counted(c) ==
    /\ cl' = [cl EXCEPT ![c] = "idle"]
    /\ UNCHANGED <<call, obj, back, backlog, reply>>

\* The mapping failed: the count the daemon has made already is taken back.
MapFailed(c) == cng_broker_rpc(c, Detach(c, reply[c].obj), reply[c].obj, "idle")

\* The descriptor is mapped, or cannot be.
do_shmat(c) ==
    /\ life[c] = "live" /\ cl[c] = "answered"
    /\ call[c].op = "shmat" /\ reply[c].ret = "ok"
    /\ \/ /\ held' = [held EXCEPT ![c][reply[c].obj] = @ + 1]
          /\ cl' = [cl EXCEPT ![c] = "idle"]
          /\ UNCHANGED <<call, obj, back, backlog, reply>>
       \/ /\ "nomap" \in call[c].faults
          /\ MapFailed(c)
          /\ UNCHANGED held
    /\ UNCHANGED <<life, script, unannounced, daemon, table>>

\* Any other answer ends the call, or the round of the loop it is part of.
Return(c) ==
    /\ life[c] = "live" /\ cl[c] = "answered"
    /\ call[c].op # "shmat" \/ reply[c].ret # "ok"
    /\ cl' = [cl EXCEPT ![c] = back[c]]
    /\ UNCHANGED <<proc, call, obj, back, backlog, reply, daemon, table>>

\* Unmapped first, reported afterwards.
Unmap(c, o, then) ==
    /\ held' = [held EXCEPT ![c][o] = @ - 1]
    /\ cng_broker_rpc(c, Detach(c, o), o, then)

Mapped(c, d) == {o \in 1..Len(made) : held[c][o] > 0 /\ made[o] = d}

do_shmdt(c) ==
    LET found == Mapped(c, Head(script[c]).id) IN
    /\ Ready(c, "shmdt")
    /\ \/ \E o \in found : Unmap(c, o, "idle")
       \/ found = {} /\ UNCHANGED <<held, conn>>
    /\ UNCHANGED <<life, unannounced, daemon, table>>

\* fork: the child has the mappings and the attach list at once; it reports
\* them before it runs anything else.  The parent does not wait for that.
cng_clone_convert(c) ==
    \E k \in 1..MaxInc :
        LET child == <<Head(script[c]).pid, k>> IN
        /\ Ready(c, "fork")
        /\ life[child] = "unborn" /\ \A j \in 1..k - 1 : life[<<child[1], j>>] = "gone"
        /\ life' = [life EXCEPT ![child] = "live"]
        /\ held' = [held EXCEPT ![child] = held[c]]
        /\ unannounced' = [unannounced EXCEPT ![child] = held[c]]
        /\ cl' = [cl EXCEPT ![child] = "forked"]
        /\ call' = [call EXCEPT ![child] = Head(script[c])]
        /\ UNCHANGED <<obj, back, backlog, reply, daemon, table>>

Reported(c) == {o \in 1..Len(made) : unannounced[c][o] > 0}

cng_shm_fork_child(c) ==
    /\ life[c] = "live" /\ cl[c] = "forked"
    /\ \/ \E o \in Reported(c) :
            /\ unannounced' = [unannounced EXCEPT ![c][o] = @ - 1]
            /\ cng_broker_rpc(c, [Detach(c, o) EXCEPT !.op = "shmfork"], o, "forked")
       \/ /\ Reported(c) = {}
          /\ cl' = [cl EXCEPT ![c] = "idle"]
          /\ UNCHANGED <<unannounced, call, obj, back, backlog, reply>>
    /\ UNCHANGED <<life, script, held, daemon, table>>

Exec(c) ==
    /\ Ready(c, "exec")
    /\ cl' = [cl EXCEPT ![c] = "exec"]
    /\ UNCHANGED <<life, held, unannounced, call, obj, back, backlog, reply, daemon, table>>

\* The emulated execve has no address space torn down for it: every attach in
\* the list is detached one by one.
cng_shm_detach_all(c) ==
    /\ life[c] = "live" /\ cl[c] = "exec"
    /\ \/ \E o \in 1..Len(made) : held[c][o] > 0 /\ Unmap(c, o, "exec")
       \/ /\ \A o \in Objs : held[c][o] = 0
          /\ cl' = [cl EXCEPT ![c] = "idle"]
          /\ UNCHANGED <<held, call, obj, back, backlog, reply>>
    /\ UNCHANGED <<life, script, unannounced, daemon, table>>

\* Exit, or a kill at any moment: the kernel drops the mappings and nobody is
\* told.  A request already sent stays in the accept queue.
Dies(c) ==
    /\ life' = [life EXCEPT ![c] = "zombie"] /\ cl' = [cl EXCEPT ![c] = "dead"]
    /\ held' = [held EXCEPT ![c] = [o \in Objs |-> 0]]
    /\ unannounced' = [unannounced EXCEPT ![c] = [o \in Objs |-> 0]]
    /\ UNCHANGED <<call, obj, back, backlog, reply, daemon, table>>
Exit(c) == Ready(c, "exit") /\ Dies(c)
Killed(c) ==
    /\ life[c] = "live" /\ "death" \in call[c].faults
    /\ "death_in_shmdt" \in call[c].faults \/ ~(cl[c] = "sent" /\ call[c].op = "shmdt")
    /\ Dies(c) /\ UNCHANGED script

\* The parent's wait, after which the pid may be used again.
Reap(z) ==
    /\ life[z] = "zombie"
    /\ "early_reap" \in call[z].faults \/ \A i \in 1..Len(backlog) : backlog[i] # z
    /\ life' = [life EXCEPT ![z] = "gone"]
Wait(c) ==
    LET p == Head(script[c]).pid IN
    /\ Ready(c, "wait") /\ life[<<p, 1>>] # "unborn"
    /\ \/ \E z \in Running(p) : Reap(z)
       \/ Running(p) = {} /\ UNCHANGED life
    /\ UNCHANGED <<held, unannounced, conn, daemon, table>>

-----------------------------------------------------------------------------
None == [o \in Objs |-> 0]
NoCall == [op |-> "info", id |-> 1, key |-> IPC_PRIVATE, size |-> 0, creat |-> FALSE,
           excl |-> FALSE, perm |-> {}, need |-> {}, pid |-> CHOOSE p \in Pids : TRUE,
           index |-> 0, faults |-> {}]

Init ==
    /\ life = [c \in Procs |-> IF c[1] \in Roots /\ c[2] = 1 THEN "live" ELSE "unborn"]
    /\ g_seg = [s \in Slots |-> NoSeg] /\ g_next_seq = 1 /\ made = <<>>
    /\ dpc = "poll" /\ cur = NoOne /\ scope = {} /\ todo = {} /\ upper = 0
    /\ backlog = <<>> /\ script \in Programs
    /\ cl = [c \in Procs |-> "idle"] /\ call = [c \in Procs |-> NoCall]
    /\ obj = [c \in Procs |-> 0] /\ back = [c \in Procs |-> "idle"]
    /\ reply = [c \in Procs |-> Say("ok")]
    /\ held = [c \in Procs |-> None] /\ unannounced = [c \in Procs |-> None]
    /\ counted = [c \in Procs |-> None]

Serve(c) ==
    \/ GetExisting(c) \/ GetNew(c) \/ shm_do_at(c) \/ shm_do_dt(c) \/ shm_do_fork(c)
    \/ CtlAtOnce(c) \/ CtlStat(c) \/ CtlInfo(c) \/ CtlRmid(c)
Daemon ==
    \/ \E c \in Procs : Serve(c)
    \/ \E s \in Slots, p \in Pids : shm_reclaim_seg(s, p)
    \/ ReclaimDone
Steps(c) ==
    \/ cng_shm_handle(c) \/ do_shmat(c) \/ Return(c) \/ do_shmdt(c)
    \/ cng_clone_convert(c) \/ cng_shm_fork_child(c) \/ Exec(c) \/ cng_shm_detach_all(c)
    \/ Exit(c) \/ Wait(c)

Next == Daemon \/ IdleReclaim \/ \E c \in Procs : Steps(c) \/ Killed(c)

Spec == Init /\ [][Next]_vars

\* The daemon's loop never stops, its idle check comes round whenever no
\* request is there, and the host runs every process.
FairSpec == Spec /\ WF_vars(Daemon \/ IdleReclaim \/ \E c \in Procs : Steps(c))

-----------------------------------------------------------------------------
TypeOK ==
    /\ life \in [Procs -> {"unborn", "live", "zombie", "gone"}]
    /\ \A s \in Slots :
        /\ g_seg[s].used \in BOOLEAN /\ g_seg[s].rmid \in BOOLEAN
        /\ g_seg[s].shmid \in Ids /\ g_seg[s].key \in Keys \cup {IPC_PRIVATE}
        /\ g_seg[s].size \in 0..MaxSize /\ g_seg[s].nattch \in Nat
        /\ g_seg[s].att \in [Pids -> [start : 0..MaxInc, n : Nat]]
        /\ g_seg[s].obj \in 0..Len(made)
    /\ g_next_seq \in Ids /\ made \in Seq(Ids) /\ Len(made) <= MaxSegs
    /\ dpc \in {"poll", "reclaim"} /\ cur \in Procs \cup {NoOne} /\ upper \in Nat
    /\ scope \subseteq Slots /\ todo \subseteq scope \X Pids
    /\ backlog \in Seq(Procs)
    /\ cl \in [Procs -> {"idle", "sent", "answered", "forked", "exec", "dead"}]
    /\ back \in [Procs -> {"idle", "forked", "exec"}]
    /\ obj \in [Procs -> 0..MaxSegs] /\ call \in [Procs -> Call]
    /\ held \in [Procs -> [Objs -> Nat]] /\ unannounced \in [Procs -> [Objs -> Nat]]
    /\ counted \in [Procs -> [Objs -> Nat]]


\* Between two system calls of a process the daemon has counted exactly the
\* attaches it has mapped: through failed mappings, forks and execs
\* (shm_dt in do_shmat, cng_shm_fork_child, cng_shm_detach_all).  And a segment
\* somebody has attached, and told the daemon of, is not freed (struct seg's
\* rmid: free at the last detach).
CountedIsMapped ==
    \A c \in Living, o \in 1..Len(made) :
        /\ cl[c] = "idle" /\ Holding(o) # {} => counted[c][o] = held[c][o]
        /\ held[c][o] > 0 /\ counted[c][o] > 0 => Holding(o) # {}

Doomed(o) ==
    /\ \E s \in Holding(o) : g_seg[s].rmid
    /\ \A c \in Living : held[c][o] = 0 /\ ~(cl[c] \in {"sent", "answered"} /\ call[c].op = "shmat")

\* A removed segment that nobody has attached any more is freed in the end,
\* though no death of an attacher is ever reported (shm_reclaim_all).
RemovedSegmentsGo == []<>(\A o \in Objs : ~Doomed(o))
=============================================================================
