------------------------------ MODULE SemRegInv ------------------------------
(* The inductive invariant behind the theorems of SemRegProofs. *)
EXTENDS SemReg

Serving == {"serve", "settle", "act", "eidrm"}
Trying == {"try", "back", "fin"}

\* Who is where: one connection at most is being served, the backlog and the
\* waiter table hold distinct connections in the states that belong to them,
\* and a caller between calls has no connection.
ConnInv ==
    /\ \A c \in Conns : srv[c] = "serving" => c = cur /\ pc \in Serving \cup Trying
    /\ pc \in Serving => srv[cur] = "serving"
    /\ pc \in Trying => srv[cur] \in {"serving", "parked"}
    /\ \A c \in Conns : cl[c] \in {"idle", "again"} => srv[c] = "none"
    /\ \A k \in 1..Len(backlog) : srv[backlog[k]] \in {"queued", "broken"}
    /\ \A j, k \in 1..Len(backlog) : backlog[j] = backlog[k] => j = k
    /\ (pc = "accept" \/ accq = 1) => backlog # <<>>
    /\ accq = 1 => pc = "ready"
    /\ \A k \in 1..Len(waitq) : /\ srv[waitq[k].c] = "parked"
                                /\ waitq[k].id = call[waitq[k].c].id
                                /\ call[waitq[k].c].op = "semop"
    /\ \A j, k \in 1..Len(waitq) : waitq[j].c = waitq[k].c => j = k
    /\ pc \in Trying /\ srv[cur] = "parked"
         => pos < Len(waitq) /\ waitq[pos + 1].c = cur

\* What the registry's tables say of each other.
RegInv ==
    /\ \A r \in Rows : ~undo[r].used => undo[r].adj = ZeroVec
    /\ NothingOutlivesItsSet
    /\ pc \in (Serving \ {"serve"}) \cup Trying => Live(call[cur].id)
    /\ pc \in {"settle", "act"} /\ call[cur].op = "setval" => call[cur].val \in 0..SEMVMX

\* A computation of sem_try_op: each state follows from the one before by an
\* operation that went through.
Chain(t, ops) ==
    \A j \in 1..(Len(t) - 1) :
        /\ ~Blocks(t[j], ops[j]) /\ ~OutOfRange(t[j], ops[j])
        /\ t[j + 1] = Apply(t[j], ops[j])

\* sem_try_op in flight: the live values are at a known point of the trail.
TryInv ==
    pc \in Trying =>
        LET ops == call[cur].sops
            now == State(cur, call[cur].id)
        IN  /\ call[cur].op = "semop" /\ trail # <<>> /\ Chain(trail, ops)
            /\ \/ undo[<<cur[1], call[cur].id>>].used
               \/ \A j \in 1..Len(trail) : trail[j].adj = ZeroVec
            /\ pc = "fin" \/ \A j \in 1..Len(ops) : ops[j].num \in Sems
            /\ pc = "try" => /\ Len(trail) = opi /\ opi <= Len(ops) + 1
                             /\ now = trail[opi] /\ res = "none"
            /\ pc = "back" => /\ opi < Len(trail) /\ Len(trail) <= Len(ops)
                              /\ now = trail[opi + 1] /\ res \notin {"none", "ok"}
            /\ pc = "fin" => res # "none" /\ (res # "ok" => now = trail[1])
            /\ res = "block" => /\ Len(trail) <= Len(ops)
                                /\ Blocks(trail[Len(trail)], ops[Len(trail)])

\* Sleepers are woken with EIDRM for nothing but an IPC_RMID.
RmidInv == pc = "eidrm" => call[cur].op = "rmid"

\* Commits and answers.
OutInv ==
    /\ \A c \in Conns : cl[c] = "idle" => applied[c] = 0
    /\ \A c \in Conns : reply[c] # "none" => srv[c] = "closed"
    /\ OutcomeExact

\* What a parked vector of connection c on set d is measured against: the
\* values as they stand, or as they stood before the attempt in flight.
Baseline(c, d) ==
    IF pc \in Trying /\ d = call[cur].id
    THEN [val |-> trail[1].val,
          adj |-> IF c[1] = cur[1] THEN trail[1].adj ELSE undo[<<c[1], d>>].adj]
    ELSE State(c, d)

\* The trail of w shows that the vector ops, begun at base, blocks at w.blk.
Witness(w, ops, base) ==
    /\ w.blk \in 1..Len(ops) /\ Len(w.trail) = w.blk
    /\ w.trail[1] = base /\ Chain(w.trail, ops)
    /\ Blocks(w.trail[w.blk], ops[w.blk])

Asleep(w) == Witness(w, call[w.c].sops, Baseline(w.c, w.id))

\* How far the rescan has come: until it has changed something, everything it
\* has passed is still blocked; outside it, everything is.
WakeInv ==
    /\ pc \in {"poll", "expire", "reclaim_waiters"} \/ (pc = "reclaim_undo" /\ progress = 0)
         => \A k \in 1..Len(waitq) : Asleep(waitq[k])
    /\ progress = 0 /\ (pc = "rescan" \/ (pc \in Trying /\ srv[cur] = "parked"))
         => \A k \in 1..Len(waitq) : k <= pos => Asleep(waitq[k])
    /\ pc \in {"poll", "expire", "reclaim_waiters"} => progress = 0

\* The inductive invariant the theorems of SemRegProofs rest on: SEM_UNDO's
\* arithmetic, the rollback of sem_try_op, the clean-up of IPC_RMID.
SafeInv == TypeOK /\ ConnInv /\ RegInv /\ TryInv /\ KeysUnique

\* The whole of it, with the exact answers of ipc_wait_rpc and the progress of
\* cng_ipc_rescan through the waiter table.
SemInv == SafeInv /\ RmidInv /\ OutInv /\ WakeInv
=============================================================================
