---------------------------- MODULE SemRegProofs ----------------------------
(***************************************************************************)
(* The safety theorems of SemReg, for every value of the constants.        *)
(***************************************************************************)
EXTENDS SemRegTables, SemRegTry, SemRegWake

USE DEF proc, regvars, tryvars, scan, client, conns, hist, daemon

-----------------------------------------------------------------------------
(* Keys.                                                                   *)

\* Keys depend on the set table alone.
LEMMA KeysFrame ==
    ASSUME KeysUnique, UNCHANGED sets
    PROVE  KeysUnique'
BY DEF KeysUnique, Live

\* Storing a set's values leaves keys alone.
LEMMA KeysStore ==
    ASSUME TypeOK, KeysUnique, NEW i \in Ids, NEW v, sets' = [sets EXCEPT ![i].val = v]
    PROVE  KeysUnique'
<1>1. \A d \in Ids : sets'[d].used = sets[d].used /\ sets'[d].key = sets[d].key
  BY Zenon DEF TypeOK, RegistryTypes, SemSet
<1> QED  BY <1>1 DEF KeysUnique, Live

\* semget gives a key to a new set only when no set has it.
LEMMA KeysGet ==
    ASSUME TypeOK, KeysUnique, sem_do_get_new
    PROVE  KeysUnique'
<1> DEFINE q == call[cur]
<1>1. CASE UNCHANGED sets
  BY <1>1, KeysFrame
<1>2. ASSUME NEW i \in Ids,
             sets' = [sets EXCEPT ![i] = [used |-> TRUE, key |-> q.key,
                                          nsems |-> q.size, val |-> ZeroVec]]
      PROVE  KeysUnique'
  <2>1. \A d \in Ids : sets'[d] = IF d = i THEN [used |-> TRUE, key |-> q.key,
                                                 nsems |-> q.size, val |-> ZeroVec]
                                           ELSE sets[d]
    BY <1>2 DEF TypeOK, RegistryTypes
  <2>2. sets'[i].key = q.key
    BY <2>1
  <2>3. \A d \in Ids : Live(d) /\ sets[d].key = q.key => q.key = IPC_PRIVATE
    BY Zenon DEF sem_do_get_new, KeyHolders
  <2>4. \A d \in Ids : d # i => sets'[d] = sets[d]
    BY Zenon, <2>1
  <2> QED  BY <2>2, <2>3, <2>4 DEF KeysUnique, Live
<1> QED  BY <1>1, <1>2 DEF sem_do_get_new

\* Removing a set gives its key back.
LEMMA KeysFree ==
    ASSUME TypeOK, KeysUnique, sem_free_set
    PROVE  KeysUnique'
<1>1. \A d \in Ids : d # call[cur].id => sets'[d] = sets[d]
  BY DEF sem_free_set, TypeOK, RegistryTypes
<1>2. ~sets'[call[cur].id].used
  BY Zenon, CurTypes DEF sem_free_set, NoSet, TypeOK, RegistryTypes
<1> QED  BY <1>1, <1>2 DEF KeysUnique, Live

\* No step breaks KeysUnique.
LEMMA KeysStep ==
    ASSUME TypeOK, KeysUnique, [Next]_vars
    PROVE  KeysUnique'
<1>1. CASE UNCHANGED vars
  BY <1>1, KeysFrame DEF vars, regvars
<1>2. CASE PollWake
  BY <1>2, KeysFrame DEF PollWake, regvars
<1>3. CASE PollTimeout
  BY <1>3, KeysFrame DEF PollTimeout, regvars
<1>4. ASSUME NEW k \in 1..Len(waitq), cng_ipc_poll_ready(k)
      PROVE  KeysUnique'
  BY <1>4, KeysFrame DEF cng_ipc_poll_ready, regvars
<1>5. CASE ReadyDone
  BY <1>5, KeysFrame DEF ReadyDone, regvars
<1>6. CASE Accept
  BY Zenon, <1>6, KeysFrame DEF Accept, regvars
<1>7. CASE sem_do_get_existing
  BY Zenon, <1>7, KeysFrame DEF sem_do_get_existing, regvars
<1>8. CASE sem_do_get_new
  BY <1>8, KeysGet
<1>9. CASE serve_semctl_setall
  <2>1. UNCHANGED sets \/ \E v : sets' = [sets EXCEPT ![call[cur].id].val = v]
    BY Zenon, <1>9 DEF serve_semctl_setall
  <2> QED  BY Zenon, <2>1, KeysFrame, KeysStore, CurTypes
<1>10. CASE serve_lookup
  BY <1>10, KeysFrame DEF serve_lookup, regvars
<1>11. CASE SettleDone
  BY <1>11, KeysFrame DEF SettleDone, regvars
<1>12. ASSUME NEW r \in Rows, sem_reclaim_set(r)
       PROVE  KeysUnique'
  <2>1. r[2] \in Ids /\ (UNCHANGED sets \/ \E v : sets' = [sets EXCEPT ![r[2]].val = v])
    BY Zenon, <1>12, TableTypes DEF sem_reclaim_set, sem_undo_apply
  <2> QED  BY Zenon, <2>1, KeysFrame, KeysStore
<1>13. CASE sem_do_ctl_read
  BY Zenon, <1>13, KeysFrame DEF sem_do_ctl_read, regvars
<1>14. CASE sem_do_ctl_setval
  <2>1. UNCHANGED sets \/ \E v : sets' = [sets EXCEPT ![call[cur].id].val = v]
    BY Zenon, <1>14 DEF sem_do_ctl_setval
  <2> QED  BY Zenon, <2>1, KeysFrame, KeysStore, CurTypes
<1>15. CASE sem_do_ctl_rmid
  BY <1>15, KeysFrame DEF sem_do_ctl_rmid, regvars
<1>16. CASE sem_free_set
  BY <1>16, KeysFree
<1>17. ASSUME NEW k \in 1..Len(waitq), waiters_eidrm(k)
       PROVE  KeysUnique'
  BY Zenon, <1>17, KeysFrame DEF waiters_eidrm, regvars
<1>18. CASE serve_semop
  BY Zenon, <1>18, KeysFrame DEF serve_semop, regvars
<1>19. CASE sem_try_op
  <2>1. UNCHANGED sets \/ \E v : sets' = [sets EXCEPT ![call[cur].id].val = v]
    BY Zenon, <1>19 DEF sem_try_op
  <2> QED  BY Zenon, <2>1, KeysFrame, KeysStore, CurTypes
<1>20. CASE sem_try_op_rollback
  <2>1. \E v : sets' = [sets EXCEPT ![call[cur].id].val = v]
    BY Zenon, <1>20 DEF sem_try_op_rollback, Store
  <2> QED  BY Zenon, <2>1, KeysStore, CurTypes
<1>21. CASE sem_try_op_end
  BY <1>21, KeysFrame DEF sem_try_op_end, regvars
<1>22. CASE serve_semop_result
  BY <1>22, KeysFrame DEF serve_semop_result, regvars
<1>23. CASE cng_ipc_rescan_visit
  BY Zenon, <1>23, KeysFrame DEF cng_ipc_rescan_visit, regvars
<1>24. CASE cng_ipc_rescan_result
  BY <1>24, KeysFrame DEF cng_ipc_rescan_result, regvars
<1>25. CASE cng_ipc_rescan_pass
  BY <1>25, KeysFrame DEF cng_ipc_rescan_pass, regvars
<1>26. ASSUME NEW k \in 1..Len(waitq), cng_ipc_expire(k)
       PROVE  KeysUnique'
  BY <1>26, KeysFrame DEF cng_ipc_expire, regvars
<1>27. ASSUME NEW k \in 1..Len(waitq), cng_ipc_reclaim_waiter(k)
       PROVE  KeysUnique'
  BY <1>27, KeysFrame DEF cng_ipc_reclaim_waiter, regvars
<1>28. CASE NoTick
  BY <1>28, KeysFrame DEF NoTick, regvars
<1>29. CASE Tick
  BY <1>29, KeysFrame DEF Tick, regvars
<1>30. CASE ReclaimRows
  BY <1>30, KeysFrame DEF ReclaimRows, regvars
<1>31. CASE cng_ipc_reclaim_end
  BY Zenon, <1>31, KeysFrame DEF cng_ipc_reclaim_end, regvars
<1>32. ASSUME NEW r \in Rows, cng_ipc_reclaim_undo(r)
       PROVE  KeysUnique'
  <2>1. r[2] \in Ids /\ (UNCHANGED sets \/ \E v : sets' = [sets EXCEPT ![r[2]].val = v])
    BY Zenon, <1>32, TableTypes DEF cng_ipc_reclaim_undo, sem_undo_apply
  <2> QED  BY Zenon, <2>1, KeysFrame, KeysStore
<1>33. ASSUME NEW p \in Pids, NEW b \in BOOLEAN, Call(p, b)
       PROVE  KeysUnique'
  BY <1>33, KeysFrame DEF Call, regvars
<1>34. ASSUME NEW p \in Pids, NEW b \in BOOLEAN, Restart(p, b)
       PROVE  KeysUnique'
  BY <1>34, KeysFrame DEF Restart, regvars
<1>35. ASSUME NEW p \in Pids, NEW b \in BOOLEAN, Interrupt(p, b)
       PROVE  KeysUnique'
  BY <1>35, KeysFrame DEF Interrupt, regvars
<1>36. ASSUME NEW p \in Pids, NEW b \in BOOLEAN, Die(p, b)
       PROVE  KeysUnique'
  BY <1>36, KeysFrame DEF Die, regvars
<1>37. ASSUME NEW p \in Pids, Receive(p)
       PROVE  KeysUnique'
  BY <1>37, KeysFrame DEF Receive, regvars
<1>38. ASSUME NEW p \in Pids, Reap(p)
       PROVE  KeysUnique'
  BY <1>38, KeysFrame DEF Reap, regvars
<1>39. ASSUME NEW p \in Pids, NEW prog \in Programs, Reuse(p, prog)
       PROVE  KeysUnique'
  BY <1>39, KeysFrame DEF Reuse, regvars
<1>40. ASSUME NEW c \in Conns, DeadlinePass(c)
       PROVE  KeysUnique'
  BY <1>40, KeysFrame DEF DeadlinePass, regvars
<1> QED
  BY <1>1, <1>2, <1>3, <1>4, <1>5, <1>6, <1>7, <1>8, <1>9, <1>10, <1>11, <1>12,
     <1>13, <1>14, <1>15, <1>16, <1>17, <1>18, <1>19, <1>20, <1>21, <1>22,
     <1>23, <1>24, <1>25, <1>26, <1>27, <1>28, <1>29, <1>30, <1>31, <1>32,
     <1>33, <1>34, <1>35, <1>36, <1>37, <1>38, <1>39, <1>40
  DEF Next, Daemon, Clients

-----------------------------------------------------------------------------
(* The invariant and what follows from it.                                 *)

\* The daemon starts with empty tables and no connection.
LEMMA InitInv == Init => SafeInv
<1> SUFFICES ASSUME Init PROVE SafeInv
  OBVIOUS
<1>1. RegistryTypes
  <2>1. 1 \in Ids
    BY DomainAssumption DEF Ids
  <2> QED  BY <2>1, BlankTypes DEF Init, RegistryTypes
<1>2. ControlTypes
  BY NoConnType DEF Init, ControlTypes, PCs
<1>3. ConnTypes
  BY DEF Init, ConnTypes
<1>4. ClientTypes
  <2>1. 1 \in 1..MaxInc
    BY DomainAssumption
  <2>2. script \in [Pids -> Seq(Breq)]
    BY Zenon, ProgramsAssumption DEF Init
  <2> QED  BY <2>1, <2>2, BlankTypes DEF Init, ClientTypes
<1>5. ConnInv
  BY NoConnType DEF Init, ConnInv, Serving, Trying
<1>6. RegInv
  BY DEF Init, RegInv, NothingOutlivesItsSet, NoRow, Live, Serving, Trying
<1>7. TryInv
  BY DEF Init, TryInv, Trying
<1>8. KeysUnique
  BY DEF Init, KeysUnique, Live, NoSet
<1> QED  BY <1>1, <1>2, <1>3, <1>4, <1>5, <1>6, <1>7, <1>8 DEF SafeInv, TypeOK

\* SafeInv is inductive.
LEMMA StepInv == SafeInv /\ [Next]_vars => SafeInv'
<1> SUFFICES ASSUME TypeOK, ConnInv, RegInv, TryInv, KeysUnique, [Next]_vars
             PROVE  SafeInv'
  BY DEF SafeInv
<1>1. TypeOK'
  BY TypeStep
<1>2. ConnInv'
  BY <1>1, ConnStep
<1>3. RegInv'
  BY <1>1, RegStep
<1>4. TryInv'
  BY TryStep
<1>5. KeysUnique'
  BY KeysStep
<1> QED  BY <1>1, <1>2, <1>3, <1>4, <1>5 DEF SafeInv

\* SafeInv holds in every reachable state of the semaphore registry.
THEOREM SafeInvHolds == Spec => []SafeInv
BY InitInv, StepInv, PTL DEF Spec

\* Type correctness.  In particular no semaphore value leaves 0..SEMVMX and no
\* adjustment leaves the range of its s16, whatever vectors, rollbacks,
\* SETVALs and exit-time undos the guests bring about (sem_try_op,
\* sem_undo_apply, sem_do_ctl).
THEOREM TypeCorrect == Spec => []TypeOK
<1>1. SafeInv => TypeOK
  BY Zenon DEF SafeInv
<1> QED  BY <1>1, SafeInvHolds, PTL

\* sem_try_op's promise, for vectors of any length naming a semaphore any
\* number of times: one that does not go through leaves every value and every
\* adjustment as it found them.
THEOREM AllOrNothing == Spec => []SemopAllOrNothing
<1>1. SafeInv => SemopAllOrNothing
  BY DEF SafeInv, TryInv, SemopAllOrNothing, Trying
<1> QED  BY <1>1, SafeInvHolds, PTL

\* IPC_RMID (sem_free_set, waiters_eidrm) leaves no undo row and no sleeper
\* behind for the set that is given the same id later.
THEOREM NothingLeftBehind == Spec => []NothingOutlivesItsSet
<1>1. SafeInv => NothingOutlivesItsSet
  BY Zenon DEF SafeInv, RegInv
<1> QED  BY <1>1, SafeInvHolds, PTL

\* sem_do_get never gives one key to two sets.
THEOREM OneSetPerKey == Spec => []KeysUnique
<1>1. SafeInv => KeysUnique
  BY DEF SafeInv
<1> QED  BY <1>1, SafeInvHolds, PTL

\* The rest of the inductive invariant: the answers and the sleepers.
LEMMA InitWake == Init => SemInv
<1> SUFFICES ASSUME Init PROVE SemInv
  OBVIOUS
<1>1. SafeInv
  BY InitInv
<1>2. RmidInv /\ WakeInv
  BY DEF Init, RmidInv, WakeInv, Trying
<1>3. OutInv
  BY DEF Init, OutInv, OutcomeExact
<1> QED  BY <1>1, <1>2, <1>3 DEF SemInv

LEMMA StepWake == SemInv /\ [Next]_vars => SemInv'
<1> SUFFICES ASSUME SafeInv, RmidInv, OutInv, WakeInv, [Next]_vars
             PROVE  SemInv'
  BY DEF SemInv
<1>1. TypeOK /\ ConnInv /\ TryInv
  BY DEF SafeInv
<1>2. SafeInv'
  BY StepInv
<1>3. RmidInv'
  BY <1>1, RmidStep
<1>4. OutInv'
  BY <1>1, OutStep
<1>5. WakeInv'
  BY <1>1, WakeStep
<1> QED  BY <1>2, <1>3, <1>4, <1>5 DEF SemInv

\* SemInv, which TLC checks on small instances, holds in every reachable state
\* of the semaphore registry.
THEOREM SemInvHolds == Spec => []SemInv
BY InitWake, StepWake, PTL DEF Spec

\* ipc_wait_rpc's promise: the answer a live caller reads is 0 exactly when its
\* vector was committed, and then it was committed once, however often a
\* signal, a cancel or a ptrace kick raced the grant.
THEOREM ExactOutcome == Spec => []OutcomeExact
<1>1. SemInv => OutcomeExact
  BY DEF SemInv, OutInv
<1> QED  BY <1>1, SemInvHolds, PTL

\* cng_ipc_rescan reaches its fixpoint: whenever the daemon is back in its poll,
\* each parked vector still blocks at the values as they are, whatever requests,
\* removals and exit-time undos came in between.
THEOREM NoWakeupLost == Spec => []NoLostWakeup
<1>1. SemInv => NoLostWakeup
  <2> SUFFICES ASSUME WakeInv, pc = "poll", NEW k \in 1..Len(waitq)
               PROVE  StillBlocked(waitq[k])
    BY DEF SemInv, NoLostWakeup
  <2>1. Asleep(waitq[k])
    BY DEF WakeInv
  <2>2. Baseline(waitq[k].c, waitq[k].id) = State(waitq[k].c, waitq[k].id)
    BY DEF Baseline, Trying
  <2> QED  BY <2>1, <2>2 DEF Asleep, Witness, Chain, StillBlocked
<1> QED  BY <1>1, SemInvHolds, PTL
=============================================================================
