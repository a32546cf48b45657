----------------------------- MODULE SemRegTry ------------------------------
(***************************************************************************)
(* sem_try_op in flight (TryInv): the trail of a vector, its rollback and the*)
(* steps around them, for every value of the constants.                    *)
(***************************************************************************)
EXTENDS SemRegTypes

USE DEF proc, regvars, tryvars, scan, client, conns, hist, daemon


\* Outside sem_try_op there is nothing to show.
LEMMA TryLeave ==
    ASSUME pc' \notin Trying
    PROVE  TryInv'
BY DEF TryInv

\* Steps that touch nothing sem_try_op works on.
LEMMA TryFrame ==
    ASSUME TryInv, UNCHANGED <<sets, undo, pc, cur, opi, res, trail>>,
           pc \in Trying => call'[cur] = call[cur]
    PROVE  TryInv'
BY Zenon DEF TryInv, State, Chain

\* A vector is begun, on the set its call names.
LEMMA TryBegin ==
    ASSUME TypeOK, RegInv, NEW c \in Conns, call[c].op = "semop", BeginTry(c, call[c].id),
           cur' = c, UNCHANGED <<sets, undo, call>>
    PROVE  TryInv'
<1> DEFINE d == call[c].id
           ops == call[c].sops
           r == <<c[1], d>>
<1>1. d \in Ids /\ r \in Rows /\ State(c, d) \in States /\ ops \in Seq(Sembuf)
  BY Zenon, TableTypes
<1>2. trail' = <<State(c, d)>> /\ State(cur, call[cur].id)' = State(c, d)
  BY DEF BeginTry, State
<1>3. Len(trail') = 1 /\ trail'[1] = State(c, d) /\ trail' # <<>>
  BY <1>2
<1>4. Chain(trail, call[cur].sops)'
  BY <1>3 DEF Chain
<1>5. undo[r].used \/ \A j \in 1..Len(trail') : trail'[j].adj = ZeroVec
  BY <1>1, <1>3 DEF RegInv, State
<1>6. CASE pc' = "fin"
  <2>1. res' = "EFBIG"
    BY <1>6 DEF BeginTry
  <2> QED  BY <1>2, <1>3, <1>4, <1>5, <1>6, <2>1 DEF TryInv
<1>7. CASE pc' = "try"
  <2>1. res' = "none" /\ opi' = 1 /\ \A j \in 1..Len(ops) : ~(ops[j].num >= sets[d].nsems)
    BY <1>7 DEF BeginTry
  <2>2. \A j \in 1..Len(ops) : ops[j].num \in Sems
    <3>1. \A j \in 1..Len(ops) : ops[j].num \in Nat
      <4>1. \A j \in 1..Len(ops) : ops[j] \in Sembuf
        BY <1>1
      <4> QED  BY <4>1 DEF Sembuf
    <3>2. sets[d].nsems \in 0..SEMMSL
      BY <1>1, TableTypes
    <3> SUFFICES ASSUME NEW j \in 1..Len(ops)
                 PROVE  ops[j].num \in Sems
      OBVIOUS
    <3>3. ops[j].num \in Nat /\ ~(ops[j].num >= sets[d].nsems)
      BY Zenon, <2>1, <3>1
    <3>4. SEMMSL \in Nat
      BY LimitsAssumption
    <3> HIDE DEF d
    <3> QED  BY <3>2, <3>3, <3>4 DEF Sems
  <2>3. Len(ops) \in Nat
    BY <1>1
  <2> QED  BY <1>2, <1>3, <1>4, <1>5, <1>7, <2>1, <2>2, <2>3 DEF TryInv
<1> QED  BY Zenon, <1>6, <1>7 DEF BeginTry

\* The parts of TryInv in the middle of a vector.
LEMMA TryHere ==
    ASSUME TypeOK, TryInv, pc \in {"try", "back"}
    PROVE  LET ops == call[cur].sops
           IN  /\ call[cur].op = "semop" /\ Chain(trail, ops)
               /\ trail \in Seq(States) /\ Len(trail) \in Nat /\ Len(trail) >= 1
               /\ ops \in Seq(Sembuf) /\ \A j \in 1..Len(ops) : ops[j].num \in Sems
               /\ \/ undo[<<cur[1], call[cur].id>>].used
                  \/ \A j \in 1..Len(trail) : trail[j].adj = ZeroVec
<1>1. trail \in Seq(States) /\ trail # <<>>
  BY DEF TryInv, Trying, TypeOK, ControlTypes
<1>2. Len(trail) \in Nat /\ Len(trail) >= 1
  BY <1>1
<1> QED  BY <1>1, <1>2, CurTypes DEF TryInv, Trying

\* An operation that goes through extends the trail.
LEMMA TryThrough ==
    ASSUME TypeOK, RegInv, TryInv, sem_try_op, pc' = "try"
    PROVE  TryInv'
<1> DEFINE q == call[cur]
           r == <<cur[1], q.id>>
           ops == q.sops
           op == ops[opi]
           st == State(cur, q.id)
           a == Apply(st, op)
<1>1. /\ opi \in 1..Len(ops) /\ op \in Sembuf /\ op.num \in Sems
      /\ ~Blocks(st, op) /\ ~OutOfRange(st, op)
      /\ sets' = [sets EXCEPT ![q.id].val = a.val]
      /\ \/ /\ undo[r].used \/ ~op.undo
            /\ undo' = [undo EXCEPT ![r].adj = a.adj]
         \/ /\ ~undo[r].used
            /\ undo' = [undo EXCEPT ![r] = [FreshRow EXCEPT !.adj = a.adj]]
      /\ trail' = Append(trail, a) /\ opi' = opi + 1 /\ res' = res /\ pc = "try"
  BY Zenon, TryOpCases DEF sem_try_op, Taken, Refused, ThisOp, ThisState, ThisRow
<1>2. UNCHANGED <<cur, call>> /\ r \in Rows /\ q.id \in Ids /\ st \in States
  BY Zenon, CurTypes DEF sem_try_op
<1>3. a \in States /\ a.val \in Values /\ a.adj \in Adjustments
  <2>1. a \in States
    BY <1>1, <1>2, ApplyUnapply
  <2> QED  BY Zenon, <2>1 DEF States
<1> HIDE DEF a
<1>4. sets'[q.id].val = a.val
  <2>1. \A v \in Values : sets' = [sets EXCEPT ![q.id].val = v] => sets'[q.id].val = v
    BY Zenon, <1>2, StoreVal
  <2> QED  BY Zenon, <1>1, <1>3, <2>1
<1>5. undo'[r].adj = a.adj
  <2>1. CASE undo' = [undo EXCEPT ![r].adj = a.adj]
    <3>1. \A v \in Adjustments : undo' = [undo EXCEPT ![r].adj = v] => undo'[r].adj = v
      BY Zenon, <1>2, StoreAdj
    <3> QED  BY Zenon, <1>3, <2>1, <3>1
  <2>2. CASE undo' = [undo EXCEPT ![r] = [FreshRow EXCEPT !.adj = a.adj]]
    BY Zenon, <1>2, <2>2 DEF FreshRow, TypeOK, RegistryTypes
  <2> QED  BY <1>1, <2>1, <2>2
<1>6. State(cur, q.id)' = a
  <2>1. a = [val |-> a.val, adj |-> a.adj]
    BY Zenon, <1>3 DEF States
  <2> QED  BY <1>2, <1>4, <1>5, <2>1 DEF State
<1>7. Len(trail) = opi /\ st = trail[opi] /\ res = "none"
  BY <1>1 DEF TryInv, Trying
<1>8. /\ Len(trail') = opi + 1 /\ trail'[opi + 1] = a /\ trail' # <<>>
      /\ \A j \in 1..opi : trail'[j] = trail[j]
  <2>1. trail \in Seq(States) /\ a \in States /\ opi \in Nat /\ opi >= 1
    BY <1>1, <1>3 DEF TypeOK, ControlTypes
  <2>2. trail' = Append(trail, a) /\ Len(trail) = opi
    BY <1>1, <1>7, Zenon
  <2> QED  BY <2>1, <2>2
<1>9. Chain(trail, ops)'
  <2>1. Chain(trail, ops)
    BY <1>1, TryHere
  <2> SUFFICES ASSUME NEW j \in 1..(Len(trail') - 1)
               PROVE  /\ ~Blocks(trail'[j], ops[j]) /\ ~OutOfRange(trail'[j], ops[j])
                      /\ trail'[j + 1] = Apply(trail'[j], ops[j])
    BY <1>2, Zenon DEF Chain
  <2>2. CASE j = opi
    BY <1>1, <1>7, <1>8, <2>2 DEF a
  <2>3. CASE j # opi
    <3>1. j \in 1..(Len(trail) - 1) /\ j \in 1..opi /\ j + 1 \in 1..opi
      BY <1>1, <1>7, <1>8, <2>3
    <3> QED  BY <1>8, <2>1, <3>1, Zenon DEF Chain
  <2> QED  BY Zenon, <2>2, <2>3
<1>10. undo'[r].used \/ \A j \in 1..Len(trail') : trail'[j].adj = ZeroVec
  <2>1. CASE undo' = [undo EXCEPT ![r] = [FreshRow EXCEPT !.adj = a.adj]]
    BY <1>2, <2>1 DEF FreshRow, TypeOK, RegistryTypes
  <2>2. CASE undo[r].used /\ undo' = [undo EXCEPT ![r].adj = a.adj]
    BY <1>2, <1>3, <2>2, StoreAdj
  <2>3. CASE ~undo[r].used /\ ~op.undo
    <3>1. a.adj = st.adj
      BY <2>3 DEF a, Apply
    <3>2. \A j \in 1..opi : trail[j].adj = ZeroVec
      BY Zenon, <1>1, <1>7, <2>3, TryHere
    <3>3. opi \in Nat /\ st.adj = ZeroVec
      BY <1>1, <1>7, <3>2
    <3> QED  BY <1>8, <3>1, <3>2, <3>3
  <2> QED  BY <1>1, <2>1, <2>2, <2>3
<1>11. opi' <= Len(ops) + 1 /\ \A j \in 1..Len(ops) : ops[j].num \in Sems
  BY <1>1, TryHere
<1>12. call[cur].op = "semop"
  BY Zenon, <1>1, TryHere
<1> QED  BY Zenon, <1>1, <1>2, <1>6, <1>7, <1>8, <1>9, <1>10, <1>11, <1>12 DEF TryInv

\* An operation that fails or blocks turns to the rollback.
LEMMA TryFail ==
    ASSUME TypeOK, RegInv, TryInv, sem_try_op, pc' = "back"
    PROVE  TryInv'
<1> DEFINE q == call[cur]
           r == <<cur[1], q.id>>
           ops == q.sops
           op == ops[opi]
           st == State(cur, q.id)
<1>1. /\ opi \in 1..Len(ops) /\ opi' = opi - 1 /\ UNCHANGED <<sets, trail>> /\ pc = "try"
      /\ res' \in {"EAGAIN", "block", "ENOMEM", "ERANGE"}
      /\ res' = "block" => Blocks(st, op)
      /\ \/ undo' = undo
         \/ ~undo[r].used /\ undo' = [undo EXCEPT ![r] = FreshRow]
  BY Zenon, TryOpCases DEF sem_try_op, Taken, Refused, ThisOp, ThisState, ThisRow
<1>2. UNCHANGED <<cur, call>> /\ r \in Rows
  BY Zenon, CurTypes DEF sem_try_op
<1>3. undo'[r].adj = undo[r].adj /\ (undo[r].used => undo'[r].used)
  <2>1. CASE ~undo[r].used /\ undo' = [undo EXCEPT ![r] = FreshRow]
    BY <1>2, <2>1 DEF FreshRow, RegInv, TypeOK, RegistryTypes
  <2> QED  BY Zenon, <1>1, <2>1
<1>4. State(cur, q.id)' = st
  BY Zenon, <1>1, <1>2, <1>3 DEF State
<1>5. Len(trail) = opi /\ st = trail[opi]
  BY Zenon, <1>1 DEF TryInv, Trying
<1>6. Chain(trail, ops)'
  BY <1>1, <1>2, TryHere DEF Chain
<1>7. trail' # <<>>
  BY <1>1 DEF TryInv, Trying
<1>8. Len(ops) \in Nat /\ Len(trail) <= Len(ops) /\ opi' < Len(trail) /\ opi' + 1 = opi
  BY <1>1, <1>5, TryHere
<1>9. (undo[r].used \/ \A j \in 1..Len(trail) : trail[j].adj = ZeroVec)
  BY Zenon, <1>1, TryHere
<1>10. /\ \A j \in 1..Len(ops) : ops[j].num \in Sems
       /\ call[cur].op = "semop"
  BY Zenon, <1>1, TryHere
<1> QED  BY Zenon, <1>1, <1>2, <1>3, <1>4, <1>5, <1>6, <1>7, <1>8, <1>9, <1>10 DEF TryInv

\* Either way, one operation of sem_try_op keeps TryInv.
LEMMA TryOp ==
    ASSUME TypeOK, RegInv, TryInv, sem_try_op
    PROVE  TryInv'
BY Zenon, TryThrough, TryFail, TryOpCases DEF sem_try_op

\* Undoing one operation goes one state back along the trail.
LEMMA TryRollback ==
    ASSUME TypeOK, RegInv, TryInv, sem_try_op_rollback
    PROVE  TryInv'
<1> DEFINE q == call[cur]
           r == <<cur[1], q.id>>
           ops == q.sops
<1>1. /\ opi \in 1..(Len(trail) - 1) /\ trail[opi] \in States
      /\ sets' = [sets EXCEPT ![q.id].val = trail[opi].val]
      /\ undo' = [undo EXCEPT ![r].adj = trail[opi].adj]
      /\ opi' = opi - 1
  BY Zenon, RollbackCases
<1>2. UNCHANGED <<cur, call, pc, res, trail>> /\ r \in Rows /\ q.id \in Ids /\ pc = "back"
  BY Zenon, CurTypes DEF sem_try_op_rollback
<1>3. trail[opi].val \in Values /\ trail[opi].adj \in Adjustments
      /\ trail[opi] = [val |-> trail[opi].val, adj |-> trail[opi].adj]
  BY <1>1 DEF States
<1>4. /\ sets'[q.id].val = trail[opi].val /\ undo'[r].adj = trail[opi].adj
      /\ (undo'[r].used <=> undo[r].used)
  <2>1. \A v \in Values : sets' = [sets EXCEPT ![q.id].val = v] => sets'[q.id].val = v
    BY Zenon, <1>2, StoreVal
  <2>2. \A v \in Adjustments : undo' = [undo EXCEPT ![r].adj = v]
           => undo'[r].adj = v /\ (undo'[r].used <=> undo[r].used)
    BY Zenon, <1>2, StoreAdj
  <2> QED  BY Zenon, <1>1, <1>3, <2>1, <2>2
<1>5. State(cur, q.id)' = trail[opi]
  BY <1>2, <1>3, <1>4 DEF State
<1>6. Chain(trail, ops)'
  BY Zenon, <1>2, TryHere DEF Chain
<1>7. opi' < Len(trail) /\ opi' + 1 = opi
  BY <1>1, <1>2, TryHere
<1>8. /\ call[cur].op = "semop" /\ \A j \in 1..Len(ops) : ops[j].num \in Sems
      /\ undo[r].used \/ \A j \in 1..Len(trail) : trail[j].adj = ZeroVec
  BY Zenon, <1>2, TryHere
<1>9. /\ trail # <<>> /\ Len(trail) <= Len(ops) /\ res \notin {"none", "ok"}
      /\ res = "block" => Blocks(trail[Len(trail)], ops[Len(trail)])
  BY <1>2 DEF TryInv, Trying
<1> QED  BY Zenon, <1>2, <1>4, <1>5, <1>6, <1>7, <1>8, <1>9 DEF TryInv

\* At its end sem_try_op is at the end of the trail or back at its start.
LEMMA TryEnd ==
    ASSUME TypeOK, TryInv, sem_try_op_end
    PROVE  TryInv'
<1>1. UNCHANGED <<sets, undo, cur, call, opi, trail>> /\ pc' = "fin" /\ pc \in {"try", "back"}
  BY DEF sem_try_op_end
<1>2. State(cur, call[cur].id)' = State(cur, call[cur].id)
  BY Zenon, <1>1 DEF State
<1>3. Chain(trail, call[cur].sops)'
  BY Zenon, <1>1, TryHere DEF Chain
<1>4. CASE pc = "try" /\ res' = "ok"
  BY <1>1, <1>3, <1>4, TryHere DEF TryInv, Trying
<1>5. CASE pc = "back" /\ opi = 0 /\ res' = res
  BY <1>1, <1>2, <1>3, <1>5, TryHere DEF TryInv, Trying
<1> QED  BY Zenon, <1>4, <1>5 DEF sem_try_op_end

\* No step of a client breaks TryInv.
LEMMA TryClients ==
    ASSUME TypeOK, ConnInv, TryInv, Clients
    PROVE  TryInv'
<1>1. ASSUME NEW p \in Pids, NEW b \in BOOLEAN, Call(p, b)
       PROVE  TryInv'
  <2>1. pc \in Trying => cur # Me(p)
    BY Zenon, <1>1, MeType DEF Call, ConnInv
  <2>2. pc \in Trying => call'[cur] = call[cur]
    BY <1>1, <2>1, MeType, CurTypes DEF Call, TypeOK, ClientTypes
  <2> QED  BY Zenon, <1>1, <2>2, TryFrame DEF Call
<1>2. ASSUME NEW p \in Pids, NEW b \in BOOLEAN, Restart(p, b)
       PROVE  TryInv'
  BY <1>2, TryFrame DEF Restart
<1>3. ASSUME NEW p \in Pids, NEW b \in BOOLEAN, Interrupt(p, b)
       PROVE  TryInv'
  BY Zenon, <1>3, TryFrame DEF Interrupt
<1>4. ASSUME NEW p \in Pids, NEW b \in BOOLEAN, Die(p, b)
       PROVE  TryInv'
  BY <1>4, TryFrame DEF Die
<1>5. ASSUME NEW p \in Pids, Receive(p)
       PROVE  TryInv'
  <2>1. pc \in Trying => cur # Me(p)
    BY Zenon, <1>5, MeType DEF Receive, ConnInv, Trying
  <2>2. pc \in Trying => call'[cur] = call[cur]
    BY Zenon, <1>5, <2>1, MeType, CurTypes DEF Receive, TypeOK, ClientTypes
  <2> QED  BY Zenon, <1>5, <2>2, TryFrame DEF Receive
<1>6. ASSUME NEW p \in Pids, Reap(p)
       PROVE  TryInv'
  BY <1>6, TryFrame DEF Reap
<1>7. ASSUME NEW p \in Pids, NEW prog \in Programs, Reuse(p, prog)
       PROVE  TryInv'
  BY <1>7, TryFrame DEF Reuse
<1>8. ASSUME NEW c \in Conns, DeadlinePass(c)
       PROVE  TryInv'
  BY <1>8, TryFrame DEF DeadlinePass
<1> QED
  BY Zenon, <1>1, <1>2, <1>3, <1>4, <1>5, <1>6, <1>7, <1>8 DEF Clients

\* No step breaks TryInv.
LEMMA TryStep ==
    ASSUME TypeOK, ConnInv, RegInv, TryInv, [Next]_vars
    PROVE  TryInv'
<1>1. CASE UNCHANGED vars
  BY <1>1, TryFrame DEF vars
<1>2. CASE PollWake
  BY <1>2, TryLeave DEF PollWake, Trying
<1>3. CASE PollTimeout
  BY <1>3, TryLeave DEF PollTimeout, Trying
<1>4. ASSUME NEW k \in 1..Len(waitq), cng_ipc_poll_ready(k)
      PROVE  TryInv'
  BY <1>4, TryLeave DEF cng_ipc_poll_ready, Trying
<1>5. CASE ReadyDone
  BY <1>5, TryLeave DEF ReadyDone, StartRescan, Trying
<1>6. CASE Accept
  BY <1>6, TryLeave DEF Accept, StartRescan, Trying
<1>7. CASE sem_do_get_existing
  BY <1>7, TryLeave DEF sem_do_get_existing, Finish, StartRescan, Trying
<1>8. CASE sem_do_get_new
  BY Zenon, <1>8, TryLeave DEF sem_do_get_new, Finish, StartRescan, Trying
<1>9. CASE serve_semctl_setall
  BY <1>9, TryLeave DEF serve_semctl_setall, Finish, StartRescan, Trying
<1>10. CASE serve_lookup
  BY <1>10, TryLeave DEF serve_lookup, Finish, StartRescan, Trying
<1>11. CASE SettleDone
  BY <1>11, TryLeave DEF SettleDone, Trying
<1>12. ASSUME NEW r \in Rows, sem_reclaim_set(r)
       PROVE  TryInv'
  BY Zenon, <1>12, TryLeave DEF sem_reclaim_set, Trying
<1>13. CASE sem_do_ctl_read
  BY Zenon, <1>13, TryLeave DEF sem_do_ctl_read, Finish, StartRescan, Trying
<1>14. CASE sem_do_ctl_setval
  BY <1>14, TryLeave DEF sem_do_ctl_setval, Finish, StartRescan, Trying
<1>15. CASE sem_do_ctl_rmid
  BY <1>15, TryLeave DEF sem_do_ctl_rmid, Finish, StartRescan, Trying
<1>16. CASE sem_free_set
  BY <1>16, TryLeave DEF sem_free_set, Finish, StartRescan, Trying
<1>17. ASSUME NEW k \in 1..Len(waitq), waiters_eidrm(k)
       PROVE  TryInv'
  BY Zenon, <1>17, TryLeave DEF waiters_eidrm, Trying
<1>18. CASE serve_semop
  <2>1. CASE pc' = "rescan"
    BY Zenon, <2>1, TryLeave DEF Trying
  <2>2. CASE BeginTry(cur, call[cur].id) /\ cur' = cur
    BY <1>18, <2>2, CurTypes, TryBegin DEF serve_semop
  <2> QED  BY <1>18, <2>1, <2>2 DEF serve_semop, Finish, StartRescan
<1>19. CASE sem_try_op
  BY <1>19, TryOp
<1>20. CASE sem_try_op_rollback
  BY <1>20, TryRollback
<1>21. CASE sem_try_op_end
  BY <1>21, TryEnd
<1>22. CASE serve_semop_result
  BY <1>22, TryLeave DEF serve_semop_result, Finish, StartRescan, Trying
<1>23. CASE cng_ipc_rescan_visit
  <2> DEFINE w == waitq[pos + 1]
  <2>1. pos + 1 \in 1..Len(waitq)
    BY <1>23 DEF cng_ipc_rescan_visit, TypeOK, ControlTypes, RegistryTypes
  <2>2. w.c \in Conns /\ w.id = call[w.c].id /\ call[w.c].op = "semop"
    BY Zenon, <2>1, ParkedType DEF ConnInv
  <2>3. CASE BeginTry(w.c, w.id) /\ cur' = w.c
    BY Zenon, <1>23, <2>2, <2>3, TryBegin DEF cng_ipc_rescan_visit
  <2>4. CASE pc' = pc
    BY Zenon, <1>23, <2>4, TryLeave DEF cng_ipc_rescan_visit, Trying
  <2> QED  BY Zenon, <1>23, <2>3, <2>4 DEF cng_ipc_rescan_visit
<1>24. CASE cng_ipc_rescan_result
  BY <1>24, TryLeave DEF cng_ipc_rescan_result, Trying
<1>25. CASE cng_ipc_rescan_pass
  <2>1. pc' \in {"rescan", "expire", "poll"}
    BY <1>25 DEF cng_ipc_rescan_pass, TypeOK, ControlTypes
  <2> QED  BY <2>1, TryLeave DEF Trying
<1>26. ASSUME NEW k \in 1..Len(waitq), cng_ipc_expire(k)
       PROVE  TryInv'
  BY Zenon, <1>26, TryLeave DEF cng_ipc_expire, Trying
<1>27. ASSUME NEW k \in 1..Len(waitq), cng_ipc_reclaim_waiter(k)
       PROVE  TryInv'
  BY <1>27, TryLeave DEF cng_ipc_reclaim_waiter, Trying
<1>28. CASE NoTick
  BY <1>28, TryLeave DEF NoTick, Trying
<1>29. CASE Tick
  BY <1>29, TryLeave DEF Tick, Trying
<1>30. CASE ReclaimRows
  BY <1>30, TryLeave DEF ReclaimRows, Trying
<1>31. CASE cng_ipc_reclaim_end
  BY <1>31, TryLeave DEF cng_ipc_reclaim_end, StartRescan, Trying
<1>32. ASSUME NEW r \in Rows, cng_ipc_reclaim_undo(r)
       PROVE  TryInv'
  BY <1>32, TryLeave DEF cng_ipc_reclaim_undo, Trying
<1>33. CASE Clients
  BY <1>33, TryClients, Zenon
<1> QED
  BY Zenon, <1>1, <1>2, <1>3, <1>4, <1>5, <1>6, <1>7, <1>8, <1>9, <1>10, <1>11, <1>12,
     <1>13, <1>14, <1>15, <1>16, <1>17, <1>18, <1>19, <1>20, <1>21, <1>22, <1>23,
     <1>24, <1>25, <1>26, <1>27, <1>28, <1>29, <1>30, <1>31, <1>32, <1>33
  DEF Next, Daemon
=============================================================================
