------------------------------- MODULE SemReg -------------------------------
(***************************************************************************)
(* The System V semaphore registry of the broker daemon (monitor/ipcreg.c),*)
(* the poll loop that drives it (monitor/broker.c, broker_main) and the    *)
(* waiting side of a client's semop (monitor/sysvipc.c, ipc_wait_rpc).     *)
(*                                                                         *)
(* The daemon is one thread, so its data needs no lock; what interleaves   *)
(* with it is everything outside: clients that connect, cancel, die, are   *)
(* reaped and whose pid is used again.  The daemon's loops are therefore   *)
(* unrolled under a program counter pc, one iteration per step, so that    *)
(* each reading of /proc and each look at a socket is a step of its own.   *)
(***************************************************************************)
EXTENDS Integers, Sequences, FiniteSets

CONSTANTS
    Pids,            \* process ids a guest process may run under
    MaxInc,          \* bound: incarnations (start times) one pid goes through
    MaxId,           \* ids are 1..MaxId and wrap (2^31-1 in the code)
    Keys,            \* IPC keys other than IPC_PRIVATE
    SEMMSL,          \* semaphores per set
    SEMVMX,          \* greatest semaphore value
    SEMAEM,          \* greatest undo adjustment
    SEM_SET_MAX,     \* sets in the table
    SEM_UNDO_MAX,    \* undo rows in the table
    IPC_WAITER_MAX,  \* parked operations in the table
    Programs         \* what the guest makes of its processes: for each pid
                     \* the sequence of requests the process under it makes

Ids == 1..MaxId
Sems == 0..(SEMMSL - 1)
Conns == Pids \X (1..MaxInc)     \* one connection at a time per incarnation
Rows == Pids \X Ids
Rights == {"read", "alter", "own"}
IPC_PRIVATE == 0

\* struct sembuf
Sembuf == [num : Nat, op : Int, nowait : BOOLEAN, undo : BOOLEAN]

\* What may befall the caller from a request on until its next one.
\* "broken": the request stops midway; "signal", "kick": the wait is
\* interrupted by a signal or a ptrace attach; "death": the process dies;
\* "muted": leaving its descriptor to a child; "early_reap": and is reaped
\* with its request still open; "reuse": and its pid is given away.
FaultKinds == {"broken", "signal", "kick", "death", "muted", "early_reap", "reuse"}

\* struct cng_breq as far as the semaphore operations read it; perm is the
\* outcome of ipc_access / ipc_owner for this caller.
Breq == [op : {"semget", "semop", "setall", "setval", "getval", "stat",
               "ipc_set", "rmid"},
         id : Ids, key : Keys \cup {IPC_PRIVATE}, size : 0..SEMMSL,
         creat : BOOLEAN, excl : BOOLEAN, perm : SUBSET Rights,
         sops : Seq(Sembuf), timed : BOOLEAN,
         num : Nat, val : Int, vals : [Sems -> Nat], faults : SUBSET FaultKinds]

Errnos == {"EAGAIN", "ERANGE", "ENOMEM", "EFBIG", "EACCES", "EINVAL", "EIDRM",
           "EINTR", "EPERM", "EEXIST", "ENOENT", "ENOSPC"}

\* The limits are positive, and a semaphore value and an adjustment fit a short.
ASSUME LimitsAssumption ==
    /\ SEMMSL \in Nat \ {0}
    /\ SEMVMX \in Nat /\ 0 < SEMVMX /\ SEMVMX < 32768
    /\ SEMAEM \in Nat /\ 0 < SEMAEM /\ SEMAEM < 32768
    /\ SEM_SET_MAX \in Nat /\ SEM_UNDO_MAX \in Nat /\ IPC_WAITER_MAX \in Nat

\* There are ids enough for the table, and somebody to call.
ASSUME DomainAssumption ==
    /\ MaxInc \in Nat \ {0} /\ MaxId \in Nat \ {0} /\ SEM_SET_MAX <= MaxId
    /\ Pids # {} /\ Keys \subseteq Nat \ {0}

ASSUME ProgramsAssumption ==
    Programs \subseteq [Pids -> Seq(Breq)] /\ Programs # {}

VARIABLES
    inc, life,                   \* /proc: start time and state of each pid
    sets, undo, g_next_semid,    \* the tables g_sem and g_undo
    waitq,                       \* g_wait in arrival (seq) order
    pc, cur, todo, rows, accq,   \* the daemon's control state
    opi, res, trail,             \* sem_try_op
    pos, progress, after,        \* cng_ipc_rescan
    backlog, srv, reply,         \* connections, the daemon's end
    script, cl, call, cancel, due,   \* the client's end
    applied, deadAtServe         \* history: commits of a call; who was dead
                                 \* when the request being served was accepted

proc == <<inc, life>>
regvars == <<sets, undo, g_next_semid>>
tryvars == <<opi, res, trail>>
scan == <<pos, progress, after>>
client == <<script, cl, call, cancel, due>>
conns == <<backlog, srv, reply>>
hist == <<applied, deadAtServe>>
vars == <<proc, regvars, waitq, pc, cur, todo, rows, accq, tryvars, scan,
          backlog, srv, reply, client, applied, deadAtServe>>

-----------------------------------------------------------------------------
(* What the daemon can observe and the helpers of the registry.            *)

\* /proc/<pid>/stat: 0 when there is no such process.
cng_proc_starttime(p) == IF life[p] = "gone" THEN 0 ELSE inc[p]

\* Mutant: a process that exited but was not reaped counts as alive.
Departed_nozombie(p, start) == cng_proc_starttime(p) # start

\* The test every reclaim makes of a recorded incarnation.
Departed(p, start) == cng_proc_starttime(p) # start \/ life[p] = "zombie"

\* The incarnations that are really dead, whatever the daemon recorded.
DeadConns == {c \in Conns : c[2] < inc[c[1]]
                            \/ (c[2] = inc[c[1]] /\ life[c[1]] # "live")}

U16(n) == n % 65536
S16(n) == ((n + 32768) % 65536) - 32768

ZeroVec == [n \in Sems |-> 0]
NoSet == [used |-> FALSE, key |-> IPC_PRIVATE, nsems |-> 0, val |-> ZeroVec]
NoRow == [used |-> FALSE, start |-> 0, adj |-> ZeroVec, own |-> 0]
NoReq(F) == [op |-> "stat", id |-> 1, key |-> IPC_PRIVATE, size |-> 0,
             creat |-> FALSE, excl |-> FALSE, perm |-> {}, sops |-> <<>>,
             timed |-> FALSE, num |-> 0, val |-> 0, vals |-> ZeroVec, faults |-> F]
NoConn == CHOOSE c \in Conns : TRUE

UsedRows == {r \in Rows : undo[r].used}
Parked == {waitq[k].c : k \in 1..Len(waitq)}
DueConns == {c \in Parked : due[c]}
\* Mutant: the tick runs for waiters only.
cng_ipc_pending_waiters == waitq # <<>>

cng_ipc_pending == waitq # <<>> \/ UsedRows # {}

RemoveWaiter(k) ==
    [j \in 1..(Len(waitq) - 1) |-> IF j < k THEN waitq[j] ELSE waitq[j + 1]]

Dead(c) == cl[c] \in {"dead", "muted"}

\* The last message on a connection, and its close: waiter_reply, or
\* cng_broker_send and sys_close.  A dead peer reads nothing.
Answer(c, r) ==
    /\ srv' = [srv EXCEPT ![c] = "closed"]
    /\ reply' = [reply EXCEPT ![c] = IF Dead(c) THEN "none" ELSE r]

Drop(c) ==
    /\ srv' = [srv EXCEPT ![c] = "closed"]
    /\ UNCHANGED reply

Clamp(v) == IF v < 0 THEN 0 ELSE IF v > SEMVMX THEN SEMVMX ELSE v

\* sem_undo_apply: semval += semadj clamped to [0, SEMVMX]; the row is freed.
sem_undo_apply(r) ==
    /\ sets' = [sets EXCEPT ![r[2]].val =
                    [n \in Sems |-> Clamp(sets[r[2]].val[n] + undo[r].adj[n])]]
    /\ undo' = [undo EXCEPT ![r] = NoRow]

StartRescan(next) ==
    pc' = "rescan" /\ pos' = 0 /\ progress' = 0 /\ after' = next

-----------------------------------------------------------------------------
(* broker_main: the poll, the parked connections, the accept.              *)

Init ==
    /\ inc = [p \in Pids |-> 1] /\ life = [p \in Pids |-> "live"]
    /\ sets = [d \in Ids |-> NoSet] /\ undo = [r \in Rows |-> NoRow]
    /\ g_next_semid = 1 /\ waitq = <<>>
    /\ pc = "poll" /\ cur = NoConn /\ todo = {} /\ rows = {} /\ accq = 0
    /\ opi = 0 /\ res = "none" /\ trail = <<>>
    /\ pos = 0 /\ progress = 0 /\ after = "poll"
    /\ backlog = <<>> /\ srv = [c \in Conns |-> "none"]
    /\ reply = [c \in Conns |-> "none"]
    /\ script \in Programs
    /\ cl = [c \in Conns |-> "idle"] /\ call = [c \in Conns |-> NoReq({})]
    /\ cancel = [c \in Conns |-> FALSE] /\ due = [c \in Conns |-> FALSE]
    /\ applied = [c \in Conns |-> 0] /\ deadAtServe = {}

\* Mutant: only a dead peer's connection is looked at.
Readable_hup == {c \in Parked : cl[c] = "dead"}

\* A parked connection is readable once a cancel is in it, or at end of file,
\* which a child holding a copy of the descriptor hides (muted).
Readable == {c \in Parked : cancel[c] \/ cl[c] = "dead"}

\* ppoll returns r > 0: the readable parked connections and the listener are
\* what this turn of the loop looks at.
PollWake ==
    /\ pc = "poll" /\ (Readable # {} \/ backlog # <<>>)
    /\ todo' = Readable /\ accq' = (IF backlog = <<>> THEN 0 ELSE 1) /\ pc' = "ready"
    /\ UNCHANGED <<proc, regvars, waitq, cur, rows, tryvars, scan, conns, client,
                   hist>>

\* ppoll times out: a deadline or the reclaim tick.
PollTimeout ==
    /\ pc = "poll" /\ Readable = {} /\ backlog = <<>>
    /\ DueConns # {} \/ cng_ipc_pending
    /\ todo' = DueConns /\ pc' = "expire"
    /\ UNCHANGED <<proc, regvars, waitq, cur, rows, accq, tryvars, scan, conns,
                   client, hist>>

\* One readable parked connection: a cancel is acknowledged with EINTR, an
\* end of file frees the slot without an answer.
cng_ipc_poll_ready(k) ==
    /\ pc = "ready" /\ waitq[k].c \in todo
    /\ waitq' = RemoveWaiter(k) /\ todo' = todo \ {waitq[k].c}
    /\ IF cancel[waitq[k].c] THEN Answer(waitq[k].c, "EINTR")
                             ELSE Drop(waitq[k].c)
    /\ UNCHANGED <<proc, regvars, pc, cur, rows, accq, tryvars, scan, backlog,
                   client, hist>>

\* All looked at; with nothing to accept the turn goes on to the rescan.
ReadyDone ==
    /\ pc = "ready" /\ todo = {}
    /\ IF accq = 1 THEN pc' = "accept" /\ UNCHANGED scan ELSE StartRescan("expire")
    /\ accq' = 0
    /\ UNCHANGED <<proc, regvars, waitq, cur, todo, rows, tryvars, conns, client,
                   hist>>

\* Accept one client.  A request that does not arrive whole (the client died
\* or stalled in it) is dropped.
Accept ==
    LET c == Head(backlog) IN
    /\ pc = "accept"
    /\ backlog' = Tail(backlog)
    /\ IF srv[c] = "queued"
       THEN /\ srv' = [srv EXCEPT ![c] = "serving"]
            /\ pc' = "serve" /\ cur' = c /\ deadAtServe' = DeadConns
            /\ UNCHANGED <<scan, reply>>
       ELSE Drop(c) /\ StartRescan("expire") /\ UNCHANGED <<cur, deadAtServe>>
    /\ UNCHANGED <<proc, regvars, waitq, todo, rows, accq, tryvars, client,
                   applied>>

\* The end of serving cur with the answer r.
Finish(r) ==
    /\ Answer(cur, r) /\ StartRescan("expire")
    /\ cur' = NoConn /\ deadAtServe' = {}

-----------------------------------------------------------------------------
(* The handlers.                                                           *)

Live(d) == sets[d].used

\* The set a key names.
KeyHolders(key) == {d \in Ids : Live(d) /\ sets[d].key = key /\ key # IPC_PRIVATE}

\* sem_alloc_id: the first unused id from g_next_semid on, wrapping.
sem_alloc_id(d) ==
    LET Before(j) == IF g_next_semid <= d THEN g_next_semid <= j /\ j < d
                                          ELSE g_next_semid <= j \/ j < d
    IN  /\ ~Live(d) /\ \A j \in Ids : Before(j) => Live(j)
        /\ g_next_semid' = IF d = MaxId THEN 1 ELSE d + 1

\* semget of a key that exists.
sem_do_get_existing ==
    LET q == call[cur] IN
    /\ pc = "serve" /\ q.op = "semget"
    /\ \E d \in KeyHolders(q.key) :
        Finish(IF q.creat /\ q.excl THEN "EEXIST"
               ELSE IF q.size > sets[d].nsems THEN "EINVAL"
               ELSE IF "read" \notin q.perm THEN "EACCES" ELSE "ok")
    /\ UNCHANGED <<proc, regvars, waitq, todo, rows, accq, tryvars, backlog,
                   client, applied>>

\* semget of a new key, or of IPC_PRIVATE.
sem_do_get_new ==
    LET q == call[cur]
        err == IF q.key # IPC_PRIVATE /\ ~q.creat THEN "ENOENT"
               ELSE IF q.size = 0 THEN "EINVAL"
               ELSE IF Cardinality({d \in Ids : Live(d)}) >= SEM_SET_MAX
                    THEN "ENOSPC" ELSE "ok"
    IN
    /\ pc = "serve" /\ q.op = "semget" /\ KeyHolders(q.key) = {}
    /\ Finish(err)
    /\ IF err = "ok"
       THEN \E d \in Ids :
              /\ sem_alloc_id(d)
              /\ sets' = [sets EXCEPT ![d] = [used |-> TRUE, key |-> q.key,
                                              nsems |-> q.size, val |-> ZeroVec]]
       ELSE UNCHANGED <<sets, g_next_semid>>
    /\ UNCHANGED <<proc, undo, waitq, todo, rows, accq, tryvars, backlog, client,
                   applied>>

\* SETALL: the whole array is validated before any of it is stored, and every
\* pending adjustment of the set is forgotten.
serve_semctl_setall ==
    LET q == call[cur]
        err == IF ~Live(q.id) \/ q.size # sets[q.id].nsems THEN "EINVAL"
               ELSE IF "alter" \notin q.perm THEN "EACCES"
               ELSE IF \E n \in 0..(q.size - 1) : q.vals[n] > SEMVMX THEN "ERANGE"
               ELSE "ok"
    IN
    /\ pc = "serve" /\ q.op = "setall"
    /\ Finish(err)
    /\ IF err = "ok"
       THEN /\ sets' = [sets EXCEPT ![q.id].val =
                          [n \in Sems |-> IF n < q.size THEN q.vals[n] ELSE 0]]
            /\ undo' = [r \in Rows |-> IF r[2] = q.id /\ undo[r].used
                                       THEN [undo[r] EXCEPT !.adj = ZeroVec]
                                       ELSE undo[r]]
       ELSE UNCHANGED <<sets, undo>>
    /\ UNCHANGED <<proc, g_next_semid, waitq, todo, rows, accq, tryvars, backlog,
                   client, applied>>

\* The lookup semop, GETALL and the semctl commands open with.  SETVAL tests
\* its range before anything else; a set that exists is settled first.
serve_lookup ==
    LET q == call[cur]
        err == IF q.op = "setval" /\ q.val \notin 0..SEMVMX THEN "ERANGE"
               ELSE IF ~Live(q.id) THEN "EINVAL" ELSE "ok"
    IN
    /\ pc = "serve" /\ q.op \notin {"semget", "setall"}
    /\ IF err = "ok"
       THEN /\ pc' = "settle" /\ rows' = {r \in UsedRows : r[2] = q.id}
            /\ UNCHANGED <<srv, reply, scan, cur, deadAtServe>>
       ELSE Finish(err) /\ UNCHANGED rows
    /\ UNCHANGED <<proc, regvars, waitq, todo, accq, tryvars, backlog, client,
                   applied>>

\* sem_reclaim_set, one row.
sem_reclaim_set(r) ==
    /\ pc = "settle" /\ r \in rows
    /\ rows' = rows \ {r}
    /\ IF Departed(r[1], undo[r].start) THEN sem_undo_apply(r)
                                        ELSE UNCHANGED <<sets, undo>>
    /\ UNCHANGED <<proc, g_next_semid, waitq, pc, cur, todo, accq, tryvars, scan,
                   conns, client, hist>>

SettleDone ==
    /\ pc = "settle" /\ rows = {} /\ pc' = "act"
    /\ UNCHANGED <<proc, regvars, waitq, cur, todo, rows, accq, tryvars, scan,
                   conns, client, hist>>

\* GETVAL and its family, GETALL, IPC_STAT and IPC_SET: nothing the registry
\* keeps here changes.
sem_do_ctl_read ==
    LET q == call[cur] IN
    /\ pc = "act" /\ q.op \in {"getval", "stat", "ipc_set"}
    /\ Finish(IF q.op = "ipc_set"
              THEN IF "own" \in q.perm THEN "ok" ELSE "EPERM"
              ELSE IF "read" \notin q.perm THEN "EACCES"
              ELSE IF q.op = "getval" /\ q.num >= sets[q.id].nsems THEN "EINVAL"
              ELSE "ok")
    /\ UNCHANGED <<proc, regvars, waitq, todo, rows, accq, tryvars, backlog,
                   client, applied>>

\* SETVAL: the value, and no pending adjustment of that semaphore is left.
sem_do_ctl_setval ==
    LET q == call[cur]
        err == IF q.num >= sets[q.id].nsems THEN "EINVAL"
               ELSE IF "alter" \notin q.perm THEN "EACCES" ELSE "ok"
    IN
    /\ pc = "act" /\ q.op = "setval"
    /\ Finish(err)
    /\ IF err = "ok"
       THEN /\ sets' = [sets EXCEPT ![q.id].val[q.num] = q.val]
            /\ undo' = [r \in Rows |-> IF r[2] = q.id /\ undo[r].used
                                       THEN [undo[r] EXCEPT !.adj[q.num] = 0]
                                       ELSE undo[r]]
       ELSE UNCHANGED <<sets, undo>>
    /\ UNCHANGED <<proc, g_next_semid, waitq, todo, rows, accq, tryvars, backlog,
                   client, applied>>

\* IPC_RMID: an owner goes on to wake the sleepers.
sem_do_ctl_rmid ==
    /\ pc = "act" /\ call[cur].op = "rmid"
    /\ IF "own" \in call[cur].perm
       THEN pc' = "eidrm" /\ UNCHANGED <<srv, reply, scan, cur, deadAtServe>>
       ELSE Finish("EPERM")
    /\ UNCHANGED <<proc, regvars, waitq, todo, rows, accq, tryvars, backlog,
                   client, applied>>

\* One sleeper of the set being removed.
waiters_eidrm(k) ==
    /\ pc = "eidrm" /\ waitq[k].id = call[cur].id
    /\ waitq' = RemoveWaiter(k)
    /\ Answer(waitq[k].c, "EIDRM")
    /\ UNCHANGED <<proc, regvars, pc, cur, todo, rows, accq, tryvars, scan,
                   backlog, client, hist>>

\* Mutant: the undo rows are left behind.
WithoutRowsOf_none(d) == undo

\* Undo rows die with their set.
WithoutRowsOf(d) == [r \in Rows |-> IF r[2] = d THEN NoRow ELSE undo[r]]

\* No sleeper left: the set goes, and its undo rows with it.
sem_free_set ==
    LET d == call[cur].id IN
    /\ pc = "eidrm" /\ \A k \in 1..Len(waitq) : waitq[k].id # d
    /\ sets' = [sets EXCEPT ![d] = NoSet]
    /\ undo' = WithoutRowsOf(d)
    /\ Finish("ok")
    /\ UNCHANGED <<proc, g_next_semid, waitq, todo, rows, accq, tryvars, backlog,
                   client, applied>>

-----------------------------------------------------------------------------
(* sem_try_op, shared by serve_semop and the rescan, one operation a step. *)

\* What the vector of connection c works on: the values of its set and the
\* adjustments of its process there (all 0 while there is no row).
State(c, d) == [val |-> sets[d].val, adj |-> undo[<<c[1], d>>].adj]

Blocks(st, op) == (op.op = 0 /\ st.val[op.num] # 0) \/ st.val[op.num] + op.op < 0

\* One operation that goes through.
Apply(st, op) ==
    [val |-> [st.val EXCEPT ![op.num] = U16(@ + op.op)],
     adj |-> IF op.undo THEN [st.adj EXCEPT ![op.num] = S16(@ - op.op)]
                        ELSE st.adj]

\* Mutant: the rollback forgets the adjustment.
Unapply_valueonly(st, op) ==
    [st EXCEPT !.val = [st.val EXCEPT ![op.num] = U16(@ - op.op)]]

\* The inverse the rollback applies.
Unapply(st, op) ==
    [val |-> [st.val EXCEPT ![op.num] = U16(@ - op.op)],
     adj |-> IF op.undo THEN [st.adj EXCEPT ![op.num] = S16(@ + op.op)]
                        ELSE st.adj]

OutOfRange(st, op) ==
    \/ st.val[op.num] + op.op > SEMVMX
    \/ op.undo /\ st.adj[op.num] - op.op \notin (-SEMAEM - 1)..SEMAEM

Store(c, d, st) ==
    /\ sets' = [sets EXCEPT ![d].val = st.val]
    /\ undo' = [undo EXCEPT ![<<c[1], d>>].adj = st.adj]

\* The vector of c, on set d, from its first operation.
BeginTry(c, d) ==
    IF \E j \in 1..Len(call[c].sops) : call[c].sops[j].num >= sets[d].nsems
    THEN pc' = "fin" /\ res' = "EFBIG" /\ opi' = 0 /\ trail' = <<State(c, d)>>
    ELSE pc' = "try" /\ res' = "none" /\ opi' = 1 /\ trail' = <<State(c, d)>>

serve_semop ==
    LET q == call[cur]
        need == IF \E j \in 1..Len(q.sops) : q.sops[j].op # 0 THEN "alter" ELSE "read"
        efbig == \E j \in 1..Len(q.sops) : q.sops[j].num >= sets[q.id].nsems
    IN
    /\ pc = "act" /\ q.op = "semop"
    /\ IF efbig \/ need \notin q.perm
       THEN Finish(IF efbig THEN "EFBIG" ELSE "EACCES") /\ UNCHANGED tryvars
       ELSE BeginTry(cur, q.id)
            /\ UNCHANGED <<srv, reply, scan, cur, deadAtServe>>
    /\ UNCHANGED <<proc, regvars, waitq, todo, rows, accq, backlog, client,
                   applied>>

\* One operation of the vector.  The undo row is made by the first operation
\* that wants one, after the value tests and before the adjustment's.
sem_try_op ==
    LET q == call[cur]
        r == <<cur[1], q.id>>
        op == q.sops[opi]
        st == State(cur, q.id)
        wants == op.undo /\ ~Blocks(st, op) /\ st.val[op.num] + op.op <= SEMVMX
        full == wants /\ ~undo[r].used /\ Cardinality(UsedRows) >= SEM_UNDO_MAX
        made == wants /\ ~undo[r].used /\ ~full
        row == [used |-> TRUE, start |-> cng_proc_starttime(cur[1]),
                adj |-> ZeroVec, own |-> cur[2]]
        fail == IF Blocks(st, op) THEN IF op.nowait THEN "EAGAIN" ELSE "block"
                ELSE IF full THEN "ENOMEM"
                ELSE IF OutOfRange(st, op) THEN "ERANGE" ELSE "none"
    IN
    /\ pc = "try" /\ opi <= Len(q.sops)
    /\ IF fail = "none"
       THEN /\ sets' = [sets EXCEPT ![q.id].val = Apply(st, op).val]
            /\ undo' = [undo EXCEPT ![r] =
                         [(IF made THEN row ELSE @) EXCEPT !.adj = Apply(st, op).adj]]
            /\ trail' = Append(trail, Apply(st, op))
            /\ opi' = opi + 1 /\ UNCHANGED <<pc, res>>
       ELSE /\ pc' = "back" /\ res' = fail /\ opi' = opi - 1
            /\ undo' = IF made THEN [undo EXCEPT ![r] = row] ELSE undo
            /\ UNCHANGED <<sets, trail>>
    /\ UNCHANGED <<proc, g_next_semid, waitq, cur, todo, rows, accq, scan, conns,
                   client, hist>>

\* One operation of the applied prefix is rolled back.
sem_try_op_rollback ==
    LET q == call[cur] IN
    /\ pc = "back" /\ opi > 0
    /\ Store(cur, q.id, Unapply(State(cur, q.id), q.sops[opi]))
    /\ opi' = opi - 1
    /\ UNCHANGED <<proc, g_next_semid, waitq, pc, cur, todo, rows, accq, res,
                   trail, scan, conns, client, hist>>

\* The vector went through, or its rollback is complete.
sem_try_op_end ==
    /\ \/ pc = "try" /\ opi > Len(call[cur].sops) /\ res' = "ok"
          /\ applied' = [applied EXCEPT ![cur] = @ + 1]
       \/ pc = "back" /\ opi = 0 /\ UNCHANGED <<res, applied>>
    /\ pc' = "fin"
    /\ UNCHANGED <<proc, regvars, waitq, cur, todo, rows, accq, opi, trail, scan,
                   conns, client, deadAtServe>>

EndTry == opi' = 0 /\ res' = "none" /\ trail' = <<>>

Waiter(c) == [c |-> c, id |-> call[c].id, start |-> cng_proc_starttime(c[1]),
              blk |-> Len(trail), trail |-> trail]

\* serve_semop takes the result: a vector that would block is parked
\* (waiter_park), or fails if the table is full.
serve_semop_result ==
    /\ pc = "fin" /\ srv[cur] = "serving"
    /\ IF res = "block" /\ Len(waitq) < IPC_WAITER_MAX
       THEN /\ waitq' = Append(waitq, Waiter(cur))
            /\ srv' = [srv EXCEPT ![cur] = "parked"] /\ UNCHANGED reply
            /\ StartRescan("expire") /\ cur' = NoConn /\ deadAtServe' = {}
       ELSE /\ Finish(IF res = "block" THEN "EAGAIN" ELSE res)
            /\ UNCHANGED waitq
    /\ EndTry
    /\ UNCHANGED <<proc, regvars, todo, rows, accq, backlog, client, applied>>

-----------------------------------------------------------------------------
(* cng_ipc_rescan: parked vectors in arrival order, until a pass changes   *)
(* nothing.                                                                *)

cng_ipc_rescan_visit ==
    LET w == waitq[pos + 1] IN
    /\ pc = "rescan" /\ pos < Len(waitq)
    /\ IF Live(w.id)
       THEN BeginTry(w.c, w.id) /\ cur' = w.c
            /\ UNCHANGED <<waitq, srv, reply, progress>>
       ELSE Answer(w.c, "EIDRM") /\ waitq' = RemoveWaiter(pos + 1)
            /\ progress' = 1 /\ UNCHANGED <<pc, cur, tryvars>>
    /\ UNCHANGED <<proc, regvars, todo, rows, accq, pos, after, backlog, client,
                   hist>>

cng_ipc_rescan_result ==
    /\ pc = "fin" /\ srv[cur] = "parked"
    /\ IF res = "block"
       THEN /\ waitq' = [waitq EXCEPT ![pos + 1].blk = Len(trail),
                                      ![pos + 1].trail = trail]
            /\ pos' = pos + 1 /\ UNCHANGED <<srv, reply, progress>>
       ELSE /\ waitq' = RemoveWaiter(pos + 1) /\ Answer(cur, res)
            /\ progress' = 1 /\ UNCHANGED pos
    /\ pc' = "rescan" /\ cur' = NoConn /\ EndTry
    /\ UNCHANGED <<proc, regvars, todo, rows, accq, after, backlog, client, hist>>

\* Mutant: one pass, however much it changed.
AnotherPass_never == FALSE

\* while (progress && g_nwait)
AnotherPass == progress = 1 /\ waitq # <<>>

\* The end of a pass.
cng_ipc_rescan_pass ==
    /\ pc = "rescan" /\ pos = Len(waitq)
    /\ pos' = 0 /\ progress' = 0
    /\ IF AnotherPass
       THEN UNCHANGED <<pc, todo>>
       ELSE pc' = after /\ todo' = IF after = "expire" THEN DueConns ELSE {}
    /\ UNCHANGED <<proc, regvars, waitq, cur, rows, accq, tryvars, after, conns,
                   client, hist>>

-----------------------------------------------------------------------------
(* cng_ipc_expire and cng_ipc_reclaim.                                     *)

cng_ipc_expire(k) ==
    /\ pc = "expire" /\ waitq[k].c \in todo
    /\ waitq' = RemoveWaiter(k) /\ todo' = todo \ {waitq[k].c}
    /\ Answer(waitq[k].c, "EAGAIN")
    /\ UNCHANGED <<proc, regvars, pc, cur, rows, accq, tryvars, scan, backlog,
                   client, hist>>

\* The deadlines are done with, and the tick has not elapsed.
NoTick ==
    /\ pc = "expire" /\ todo = {} /\ pc' = "poll"
    /\ UNCHANGED <<proc, regvars, waitq, cur, todo, rows, accq, tryvars, scan,
                   conns, client, hist>>

\* It has: the dead are looked for.
Tick ==
    /\ pc = "expire" /\ todo = {} /\ cng_ipc_pending
    /\ pc' = "reclaim_waiters" /\ todo' = Parked
    /\ UNCHANGED <<proc, regvars, waitq, cur, rows, accq, tryvars, scan, conns,
                   client, hist>>

\* cng_ipc_reclaim's first loop: a waiter whose caller is gone is freed.
cng_ipc_reclaim_waiter(k) ==
    /\ pc = "reclaim_waiters" /\ waitq[k].c \in todo
    /\ todo' = todo \ {waitq[k].c}
    /\ IF Departed(waitq[k].c[1], waitq[k].start)
       THEN waitq' = RemoveWaiter(k) /\ Drop(waitq[k].c)
       ELSE UNCHANGED <<waitq, srv, reply>>
    /\ UNCHANGED <<proc, regvars, pc, cur, rows, accq, tryvars, scan, backlog,
                   client, hist>>

ReclaimRows ==
    /\ pc = "reclaim_waiters" /\ todo = {}
    /\ pc' = "reclaim_undo" /\ rows' = UsedRows
    /\ UNCHANGED <<proc, regvars, waitq, cur, todo, accq, tryvars, scan, conns,
                   client, hist>>

\* Its second loop: the undo row of a departed process; progress stands for
\* the local variable applied.
cng_ipc_reclaim_undo(r) ==
    /\ pc = "reclaim_undo" /\ r \in rows
    /\ rows' = rows \ {r}
    /\ IF Departed(r[1], undo[r].start)
       THEN sem_undo_apply(r) /\ progress' = 1
       ELSE UNCHANGED <<sets, undo, progress>>
    /\ UNCHANGED <<proc, g_next_semid, waitq, pc, cur, todo, accq, tryvars, pos,
                   after, conns, client, hist>>

UndoWakes == progress = 1

\* Its tail: an applied undo may have released a sleeper.
cng_ipc_reclaim_end ==
    /\ pc = "reclaim_undo" /\ rows = {}
    /\ IF UndoWakes THEN StartRescan("poll")
       ELSE pc' = "poll" /\ progress' = 0 /\ UNCHANGED <<pos, after>>
    /\ UNCHANGED <<proc, regvars, waitq, cur, todo, rows, accq, tryvars, conns,
                   client, hist>>

-----------------------------------------------------------------------------
(* The clients, and the processes they are.                                *)

daemon == <<regvars, waitq, pc, cur, todo, rows, accq, tryvars, scan>>
Me(p) == <<p, inc[p]>>

\* A call: connect, send the request and its payload; w: it arrives whole.
Connect(c, w) ==
    /\ cl' = [cl EXCEPT ![c] = "wait"]
    /\ srv' = [srv EXCEPT ![c] = IF w THEN "queued" ELSE "broken"]
    /\ backlog' = Append(backlog, c)

Call(p, w) ==
    LET c == Me(p) IN
    /\ life[p] = "live" /\ cl[c] = "idle" /\ script[p] # <<>>
    /\ call' = [call EXCEPT ![c] = Head(script[p])]
    /\ script' = [script EXCEPT ![p] = Tail(@)]
    /\ w \/ "broken" \in Head(script[p]).faults
    /\ Connect(c, w)
    /\ UNCHANGED <<proc, daemon, reply, cancel, due, hist>>

\* ipc_wait_rpc gives a wait up, for a signal or for a ptrace kick (k): the
\* cancel goes down the same connection, whatever has been sent up it.
Interrupt(p, k) ==
    LET c == Me(p) IN
    /\ (IF k THEN "kick" ELSE "signal") \in call[c].faults
    /\ life[p] = "live" /\ cl[c] = "wait" /\ call[c].op = "semop"
    /\ cl' = [cl EXCEPT ![c] = IF k THEN "kicked" ELSE "cancel"]
    /\ cancel' = [cancel EXCEPT ![c] = TRUE]
    /\ UNCHANGED <<proc, daemon, conns, script, call, due, hist>>

\* Mutant: a kicked wait is made again whatever the daemon answered.
Restarts_granted(c) == cl[c] = "kicked"

\* A kicked wait the daemon cancelled: CNG_ERESTART.
Restarts(c) == cl[c] = "kicked" /\ reply[c] = "EINTR"

\* The next message on the connection is definitive (end of file is EIDRM).
\* A kicked wait that was cancelled is made again (CNG_ERESTART); any other
\* outcome ends the call.
Receive(p) ==
    LET c == Me(p) IN
    /\ life[p] = "live" /\ cl[c] \in {"wait", "cancel", "kicked"} /\ srv[c] = "closed"
    /\ srv' = [srv EXCEPT ![c] = "none"] /\ reply' = [reply EXCEPT ![c] = "none"]
    /\ cancel' = [cancel EXCEPT ![c] = FALSE] /\ due' = [due EXCEPT ![c] = FALSE]
    /\ cl' = [cl EXCEPT ![c] = IF Restarts(c) THEN "again" ELSE "idle"]
    /\ call' = [call EXCEPT ![c] = IF Restarts(c) THEN @ ELSE NoReq(@.faults)]
    /\ applied' = [applied EXCEPT ![c] = IF Restarts(c) THEN @ ELSE 0]
    /\ UNCHANGED <<proc, daemon, backlog, script, deadAtServe>>

\* The svc of a kicked wait, executed again.
Restart(p, w) ==
    LET c == Me(p) IN
    /\ life[p] = "live" /\ cl[c] = "again" /\ Connect(c, w)
    /\ w \/ "broken" \in call[c].faults
    /\ UNCHANGED <<proc, daemon, reply, script, call, cancel, due, hist>>

\* Death, in a call or out of one; m: a child still holds the descriptor.
Die(p, m) ==
    LET c == Me(p) IN
    /\ "death" \in call[c].faults /\ life[p] = "live"
    /\ m => "muted" \in call[c].faults /\ srv[c] \notin {"none", "closed"}
    /\ life' = [life EXCEPT ![p] = "zombie"]
    /\ cl' = [cl EXCEPT ![c] = IF m THEN "muted" ELSE "dead"]
    /\ reply' = [reply EXCEPT ![c] = "none"] /\ script' = [script EXCEPT ![p] = <<>>]
    /\ UNCHANGED <<inc, daemon, backlog, srv, call, cancel, due, hist>>

Reap(p) ==
    /\ life[p] = "zombie"
    /\ "early_reap" \in call[Me(p)].faults \/ srv[Me(p)] \in {"none", "closed"}
    /\ life' = [life EXCEPT ![p] = "gone"]
    /\ UNCHANGED <<inc, daemon, conns, client, hist>>

\* The pid is given to a new process.
Reuse(p, prog) ==
    /\ life[p] = "gone" /\ inc[p] < MaxInc /\ "reuse" \in call[Me(p)].faults
    /\ life' = [life EXCEPT ![p] = "live"] /\ inc' = [inc EXCEPT ![p] = @ + 1]
    /\ script' = [script EXCEPT ![p] = prog[p]]
    /\ UNCHANGED <<daemon, conns, cl, call, cancel, due, hist>>

\* Time passes a parked deadline.
DeadlinePass(c) ==
    /\ srv[c] = "parked" /\ call[c].timed /\ ~due[c]
    /\ due' = [due EXCEPT ![c] = TRUE]
    /\ UNCHANGED <<proc, daemon, conns, script, cl, call, cancel, hist>>

-----------------------------------------------------------------------------
Daemon ==
    \/ PollWake \/ PollTimeout \/ ReadyDone \/ Accept
    \/ \E k \in 1..Len(waitq) : cng_ipc_poll_ready(k)
    \/ sem_do_get_existing \/ sem_do_get_new \/ serve_semctl_setall
    \/ serve_lookup \/ SettleDone \/ \E r \in Rows : sem_reclaim_set(r)
    \/ sem_do_ctl_read \/ sem_do_ctl_setval \/ sem_do_ctl_rmid \/ sem_free_set
    \/ \E k \in 1..Len(waitq) : waiters_eidrm(k)
    \/ serve_semop \/ sem_try_op \/ sem_try_op_rollback \/ sem_try_op_end
    \/ serve_semop_result
    \/ cng_ipc_rescan_visit \/ cng_ipc_rescan_result \/ cng_ipc_rescan_pass
    \/ \E k \in 1..Len(waitq) : cng_ipc_expire(k) \/ cng_ipc_reclaim_waiter(k)
    \/ NoTick \/ Tick \/ ReclaimRows \/ cng_ipc_reclaim_end
    \/ \E r \in Rows : cng_ipc_reclaim_undo(r)

Clients ==
    \/ \E p \in Pids, b \in BOOLEAN :
            Call(p, b) \/ Restart(p, b) \/ Interrupt(p, b) \/ Die(p, b)
    \/ \E p \in Pids : Receive(p) \/ Reap(p) \/ \E prog \in Programs : Reuse(p, prog)
    \/ \E c \in Conns : DeadlinePass(c)

Next == Daemon \/ Clients

Spec == Init /\ [][Next]_vars

\* The daemon keeps running and time keeps passing, so a turn of its loop that
\* finds the tick elapsed comes again and again; a client reads what it is
\* sent.  No client is obliged to call, to die or to be interrupted.
FairSpec ==
    /\ Spec /\ WF_vars(Daemon) /\ SF_vars(Tick)
    /\ \A p \in Pids : WF_vars(Receive(p))
    /\ \A c \in Conns : WF_vars(DeadlinePass(c))

-----------------------------------------------------------------------------
(* Properties.                                                             *)

PCs == {"poll", "ready", "accept", "serve", "settle", "act", "eidrm", "try",
        "back", "fin", "rescan", "expire", "reclaim_waiters", "reclaim_undo"}
Results == Errnos \cup {"ok"}
Values == [Sems -> 0..SEMVMX]
Adjustments == [Sems -> (-SEMAEM - 1)..SEMAEM]
States == [val : Values, adj : Adjustments]
SemSet == [used : BOOLEAN, key : Keys \cup {IPC_PRIVATE}, nsems : 0..SEMMSL,
           val : Values]
UndoRow == [used : BOOLEAN, start : 0..MaxInc, adj : Adjustments, own : 0..MaxInc]
WaiterType == [c : Conns, id : Ids, start : 0..MaxInc, blk : Nat, trail : Seq(States)]

RegistryTypes ==
    /\ sets \in [Ids -> SemSet] /\ undo \in [Rows -> UndoRow]
    /\ g_next_semid \in Ids /\ waitq \in Seq(WaiterType)
ControlTypes ==
    /\ pc \in PCs /\ cur \in Conns /\ todo \subseteq Conns /\ rows \subseteq Rows
    /\ accq \in {0, 1} /\ deadAtServe \subseteq Conns
    /\ opi \in Nat /\ res \in Results \cup {"none", "block"} /\ trail \in Seq(States)
    /\ pos \in Nat /\ progress \in {0, 1} /\ after \in {"expire", "poll"}
ConnTypes ==
    /\ backlog \in Seq(Conns)
    /\ srv \in [Conns -> {"none", "queued", "broken", "serving", "parked", "closed"}]
    /\ reply \in [Conns -> Results \cup {"none"}]
ClientTypes ==
    /\ inc \in [Pids -> 1..MaxInc] /\ life \in [Pids -> {"live", "zombie", "gone"}]
    /\ script \in [Pids -> Seq(Breq)]
    /\ cl \in [Conns -> {"idle", "wait", "cancel", "kicked", "again", "dead", "muted"}]
    /\ call \in [Conns -> Breq]
    /\ cancel \in [Conns -> BOOLEAN] /\ due \in [Conns -> BOOLEAN]
    /\ applied \in [Conns -> Nat]

\* Every variable keeps its type.  The part that takes an argument: a value
\* stays in 0..SEMVMX and an adjustment in the s16 range through every
\* vector, rollback, SETVAL and exit-time undo, so no store ever wraps.
TypeOK == RegistryTypes /\ ControlTypes /\ ConnTypes /\ ClientTypes

\* The witness that a parked vector cannot proceed: starting from the present
\* values and adjustments, each operation before blk goes through and the one
\* at blk would block, as sem_try_op would find again.
StillBlocked(w) ==
    LET ops == call[w.c].sops IN
    /\ w.blk \in 1..Len(ops) /\ Len(w.trail) = w.blk
    /\ w.trail[1] = State(w.c, w.id)
    /\ \A j \in 1..(w.blk - 1) :
          /\ ~Blocks(w.trail[j], ops[j]) /\ ~OutOfRange(w.trail[j], ops[j])
          /\ w.trail[j + 1] = Apply(w.trail[j], ops[j])
    /\ Blocks(w.trail[w.blk], ops[w.blk])

\* No lost wakeup: whenever the daemon goes to sleep in ppoll, every parked
\* semop still cannot proceed (cng_ipc_rescan reached its fixpoint after
\* every change of a value, an exit-time undo included).
NoLostWakeup == pc = "poll" => \A k \in 1..Len(waitq) : StillBlocked(waitq[k])

\* All or nothing: a vector that blocked or failed has left every value and
\* every adjustment as it found them (sem_try_op's rollback), even when it
\* names one semaphore several times.
SemopAllOrNothing ==
    (pc = "fin" /\ res # "ok") => State(cur, call[cur].id) = trail[1]

\* ipc_wait_rpc: "a granted operation is never reported as EINTR, and a
\* cancelled one was never applied": the answer a live caller is about to read
\* is 0 exactly when its vector was committed, once, counting the attempts a
\* ptrace kick made it give up and make again.
OutcomeExact ==
    \A c \in Conns : call[c].op = "semop" /\ ~Dead(c) =>
        applied[c] = IF \/ srv[c] = "closed" /\ reply[c] = "ok"
                        \/ pc = "fin" /\ cur = c /\ res = "ok"
                     THEN 1 ELSE 0

\* Nothing outlives its set: ids wrap and are used again, so a sleeper or an
\* undo row left behind by IPC_RMID would fall upon a stranger's set.
NothingOutlivesItsSet ==
    /\ \A k \in 1..Len(waitq) : Live(waitq[k].id)
    /\ \A r \in Rows : undo[r].used => Live(r[2])

\* A key names at most one set.
KeysUnique ==
    \A d, e \in Ids :
        Live(d) /\ Live(e) /\ sets[d].key = sets[e].key /\ sets[d].key # IPC_PRIVATE
            => d = e

\* The synchronous undo: a process that was dead when a request was accepted
\* owes nothing to the set any more once the request's handler acts on it
\* (sem_reclaim_set: "waits for a child and then reads the semaphore").
UndoBeforeRead ==
    pc = "act" => \A r \in Rows :
        r[2] = call[cur].id /\ undo[r].used => <<r[1], undo[r].own>> \notin deadAtServe

\* A dead process's adjustments are applied in the end, even if nobody calls
\* again: cng_ipc_reclaim, "Apply every undo row a dead process left behind".
DeadUndoApplied ==
    \A r \in Rows, o \in 1..MaxInc :
        LET owed == undo[r].used /\ undo[r].own = o /\ <<r[1], o>> \in DeadConns
        IN  owed ~> ~owed

\* An interrupted wait ends: the cancel is acknowledged or the grant that beat
\* it is read, and likewise a timed wait ends by its deadline.
WaitsEnd ==
    /\ \A c \in Conns : cl[c] \in {"cancel", "kicked"} ~> cl[c] \notin {"cancel", "kicked"}
    /\ \A c \in Conns : (cl[c] = "wait" /\ call[c].timed) ~> cl[c] # "wait"
=============================================================================
