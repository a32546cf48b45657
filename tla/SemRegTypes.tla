----------------------------- MODULE SemRegTypes -----------------------------
(***************************************************************************)
(* The type invariant of SemReg is preserved by every step, for every      *)
(* value of the constants: the arithmetic of sem_try_op, the tables, and   *)
(* one case per action.                                                    *)
(***************************************************************************)
EXTENDS SemRegInv, TLAPS

-----------------------------------------------------------------------------
(* The arithmetic of one operation and of its rollback.                    *)

\* The casts of sem_try_op change nothing in range.
LEMMA U16InRange ==
    ASSUME NEW n \in Int, 0 <= n, n < 65536
    PROVE  U16(n) = n
BY DEF U16

\* Likewise the cast to the s16 of an adjustment.
LEMMA S16InRange ==
    ASSUME NEW n \in Int, -32768 <= n, n < 32768
    PROVE  S16(n) = n
BY DEF S16

\* An operation that passed its tests leaves values and adjustments in range,
\* and the rollback of sem_try_op takes it back exactly.
LEMMA ApplyUnapply ==
    ASSUME NEW st \in States, NEW op \in Sembuf, op.num \in Sems,
           ~Blocks(st, op), ~OutOfRange(st, op)
    PROVE  /\ Apply(st, op) \in States
           /\ Unapply(Apply(st, op), op) = st
<1> DEFINE n == op.num
<1>1. st.val \in Values /\ st.adj \in Adjustments
  BY DEF States
<1>2. /\ st.val[n] \in 0..SEMVMX /\ st.val[n] + op.op \in 0..SEMVMX
      /\ op.op \in Int
  BY <1>1, LimitsAssumption DEF Values, Blocks, OutOfRange, Sembuf
<1>3. op.undo => /\ st.adj[n] \in (-SEMAEM - 1)..SEMAEM
                 /\ st.adj[n] - op.op \in (-SEMAEM - 1)..SEMAEM
  BY <1>1 DEF Adjustments, OutOfRange
<1>4. U16(st.val[n] + op.op) = st.val[n] + op.op
  BY <1>2, LimitsAssumption, U16InRange
<1>5. op.undo => S16(st.adj[n] - op.op) = st.adj[n] - op.op
  BY <1>2, <1>3, LimitsAssumption, S16InRange
<1>6. Apply(st, op) = [val |-> [st.val EXCEPT ![n] = st.val[n] + op.op],
                       adj |-> IF op.undo THEN [st.adj EXCEPT ![n] = st.adj[n] - op.op]
                                          ELSE st.adj]
  BY <1>4, <1>5 DEF Apply
<1>7. Apply(st, op) \in States
  BY <1>1, <1>2, <1>3, <1>6 DEF States, Values, Adjustments
<1>8. Unapply(Apply(st, op), op).val = st.val
  <2>1. Unapply(Apply(st, op), op).val
          = [Apply(st, op).val EXCEPT ![n] = U16(Apply(st, op).val[n] - op.op)]
    BY Zenon DEF Unapply
  <2>2. Apply(st, op).val[n] - op.op = st.val[n]
    BY <1>1, <1>2, <1>6 DEF Values
  <2>3. U16(st.val[n]) = st.val[n]
    BY <1>2, LimitsAssumption, U16InRange
  <2> QED  BY <2>1, <2>2, <2>3, <1>1, <1>6 DEF Values
<1>9. Unapply(Apply(st, op), op).adj = st.adj
  <2>1. CASE ~op.undo
    BY <2>1, <1>6 DEF Unapply
  <2>2. CASE op.undo
    <3>1. Unapply(Apply(st, op), op).adj
            = [Apply(st, op).adj EXCEPT ![n] = S16(Apply(st, op).adj[n] + op.op)]
      BY Zenon, <2>2 DEF Unapply
    <3>2. Apply(st, op).adj[n] + op.op = st.adj[n]
      BY <1>1, <1>2, <1>3, <1>6, <2>2 DEF Adjustments
    <3>3. S16(st.adj[n]) = st.adj[n]
      BY <1>3, <2>2, LimitsAssumption, S16InRange
    <3> QED  BY <3>1, <3>2, <3>3, <2>2, <1>1, <1>6 DEF Adjustments
  <2> QED  BY <2>1, <2>2, Zenon DEF Sembuf
<1>10. Unapply(Apply(st, op), op) = [val |-> st.val, adj |-> st.adj]
  BY <1>8, <1>9 DEF Unapply
<1> QED  BY Zenon, <1>7, <1>10, <1>1 DEF States

-----------------------------------------------------------------------------
(* Types.                                                                  *)

USE DEF proc, regvars, tryvars, scan, client, conns, hist, daemon

\* There is at least one connection.
LEMMA NoConnType == NoConn \in Conns
<1>1. PICK p \in Pids : TRUE
  BY DomainAssumption
<1>2. <<p, 1>> \in Conns
  BY DomainAssumption DEF Conns
<1> QED  BY <1>2 DEF NoConn

\* The constants the tables are initialised with.
LEMMA BlankTypes ==
    ZeroVec \in Values /\ ZeroVec \in Adjustments /\ NoSet \in SemSet
    /\ NoRow \in UndoRow /\ \A F \in SUBSET FaultKinds : NoReq(F) \in Breq
<1>1. ZeroVec \in Values /\ ZeroVec \in Adjustments /\ ZeroVec \in [Sems -> Nat]
  BY LimitsAssumption DEF ZeroVec, Values, Adjustments
<1>2. NoSet \in SemSet
  BY <1>1, LimitsAssumption DEF NoSet, SemSet
<1>3. NoRow \in UndoRow
  BY <1>1, DomainAssumption DEF NoRow, UndoRow
<1>4. <<>> \in Seq(Sembuf)
  OBVIOUS
<1>5. \A F \in SUBSET FaultKinds : NoReq(F) \in Breq
  BY <1>1, <1>4, LimitsAssumption, DomainAssumption DEF NoReq, Breq, Ids
<1> QED  BY <1>1, <1>2, <1>3, <1>5

\* An entry of the waiter table.
LEMMA ParkedType ==
    ASSUME TypeOK
    PROVE  /\ Parked \subseteq Conns
           /\ \A k \in 1..Len(waitq) : waitq[k] \in WaiterType /\ waitq[k].c \in Conns
<1>1. \A k \in 1..Len(waitq) : waitq[k] \in WaiterType
  BY DEF TypeOK, RegistryTypes
<1> QED  BY <1>1 DEF WaiterType, Parked

\* Taking a waiter out of the table keeps the order of the others.
LEMMA RemoveWaiterSeq ==
    ASSUME TypeOK, NEW k \in 1..Len(waitq)
    PROVE  /\ RemoveWaiter(k) \in Seq(WaiterType)
           /\ Len(RemoveWaiter(k)) = Len(waitq) - 1
           /\ \A j \in 1..Len(RemoveWaiter(k)) :
                 RemoveWaiter(k)[j] = IF j < k THEN waitq[j] ELSE waitq[j + 1]
<1>1. waitq \in Seq(WaiterType) /\ Len(waitq) \in Nat
  BY DEF TypeOK, RegistryTypes
<1> DEFINE s == RemoveWaiter(k)
<1>2. s = [j \in 1..(Len(waitq) - 1) |-> IF j < k THEN waitq[j] ELSE waitq[j + 1]]
  BY DEF RemoveWaiter
<1>3. \A j \in 1..(Len(waitq) - 1) : (IF j < k THEN waitq[j] ELSE waitq[j + 1]) \in WaiterType
  BY <1>1
<1>4. s \in [1..(Len(waitq) - 1) -> WaiterType]
  BY <1>2, <1>3
<1> HIDE DEF s
<1>5. s \in Seq(WaiterType) /\ Len(s) = Len(waitq) - 1
  BY <1>1, <1>4
<1>6. \A j \in 1..Len(s) : s[j] = IF j < k THEN waitq[j] ELSE waitq[j + 1]
  BY <1>1, <1>2, <1>5
<1> QED  BY Zenon, <1>5, <1>6 DEF s

\* The fields of the tables.
LEMMA TableTypes ==
    ASSUME TypeOK
    PROVE  /\ \A d \in Ids : /\ sets[d] \in SemSet /\ sets[d].val \in Values
                             /\ sets[d].nsems \in 0..SEMMSL
           /\ \A r \in Rows : /\ undo[r] \in UndoRow /\ undo[r].adj \in Adjustments
                              /\ r[1] \in Pids /\ r[2] \in Ids
           /\ \A c \in Conns, d \in Ids :
                 /\ <<c[1], d>> \in Rows /\ c[1] \in Pids /\ c[2] \in 1..MaxInc
                 /\ State(c, d) \in States
           /\ \A c \in Conns : /\ call[c] \in Breq /\ call[c].id \in Ids
                               /\ call[c].sops \in Seq(Sembuf)
<1> USE DEF TypeOK, RegistryTypes, ClientTypes
<1>1. \A d \in Ids : sets[d] \in SemSet /\ sets[d].val \in Values /\ sets[d].nsems \in 0..SEMMSL
  BY DEF SemSet
<1>2. \A r \in Rows : /\ undo[r] \in UndoRow /\ undo[r].adj \in Adjustments
                      /\ r[1] \in Pids /\ r[2] \in Ids
  BY DEF UndoRow, Rows
<1>3. \A c \in Conns, d \in Ids :
         <<c[1], d>> \in Rows /\ c[1] \in Pids /\ c[2] \in 1..MaxInc
  BY Zenon DEF Rows, Conns
<1>4. \A c \in Conns, d \in Ids : State(c, d) \in States
  BY Zenon, <1>1, <1>2, <1>3 DEF State, States
<1>5. \A c \in Conns : call[c] \in Breq
  BY Zenon
<1>6. \A c \in Conns : call[c].id \in Ids /\ call[c].sops \in Seq(Sembuf)
  BY <1>5 DEF Breq
<1> QED  BY Zenon, <1>1, <1>2, <1>3, <1>4, <1>5, <1>6

\* sem_undo_apply's clamp lands within 0..SEMVMX.
LEMMA ClampType == \A v \in Int : Clamp(v) \in 0..SEMVMX
BY LimitsAssumption DEF Clamp

\* An exit-time undo (sem_undo_apply) keeps the tables well typed.
LEMMA UndoApplyType ==
    ASSUME TypeOK, NEW r \in Rows, sem_undo_apply(r)
    PROVE  sets' \in [Ids -> SemSet] /\ undo' \in [Rows -> UndoRow]
<1>1. /\ sets[r[2]] \in SemSet /\ sets[r[2]].val \in Values /\ r[2] \in Ids
      /\ undo[r].adj \in Adjustments
  BY TableTypes
<1> DEFINE v == [n \in Sems |-> Clamp(sets[r[2]].val[n] + undo[r].adj[n])]
<1>2. v \in Values
  BY <1>1, ClampType, LimitsAssumption DEF Values, Adjustments
<1> HIDE DEF v
<1>3. [sets[r[2]] EXCEPT !.val = v] \in SemSet
  BY Zenon, <1>1, <1>2 DEF SemSet
<1>4. sets' = [sets EXCEPT ![r[2]] = [sets[r[2]] EXCEPT !.val = v]]
  BY DEF sem_undo_apply, v
<1>5. sets' \in [Ids -> SemSet]
  BY Zenon, <1>3, <1>4 DEF TypeOK, RegistryTypes
<1> QED  BY <1>5, BlankTypes DEF sem_undo_apply, TypeOK, RegistryTypes

\* Storing a value array or an adjustment array keeps the tables well-typed.
LEMMA StoreTypes ==
    ASSUME TypeOK
    PROVE  /\ \A d \in Ids, v \in Values : [sets EXCEPT ![d].val = v] \in [Ids -> SemSet]
           /\ \A r \in Rows, a \in Adjustments :
                 /\ [undo EXCEPT ![r].adj = a] \in [Rows -> UndoRow]
                 /\ [undo[r] EXCEPT !.adj = a] \in UndoRow
<1>1. ASSUME NEW d \in Ids, NEW v \in Values
      PROVE  [sets EXCEPT ![d].val = v] \in [Ids -> SemSet]
  <2>1. [sets[d] EXCEPT !.val = v] \in SemSet
    BY TableTypes DEF SemSet
  <2> QED  BY <2>1 DEF TypeOK, RegistryTypes
<1>2. ASSUME NEW r \in Rows, NEW a \in Adjustments
      PROVE  /\ [undo EXCEPT ![r].adj = a] \in [Rows -> UndoRow]
             /\ [undo[r] EXCEPT !.adj = a] \in UndoRow
  <2>1. [undo[r] EXCEPT !.adj = a] \in UndoRow
    BY Zenon, TableTypes DEF UndoRow
  <2> QED  BY <2>1 DEF TypeOK, RegistryTypes
<1> QED  BY <1>1, <1>2

\* The array SETALL stores, once it has been validated.
LEMMA SetallType ==
    ASSUME NEW q \in Breq, \A n \in 0..(q.size - 1) : ~(q.vals[n] > SEMVMX)
    PROVE  [n \in Sems |-> IF n < q.size THEN q.vals[n] ELSE 0] \in Values
<1>1. q.vals \in [Sems -> Nat] /\ q.size \in Int
  BY LimitsAssumption DEF Breq
<1>2. ASSUME NEW n \in Sems
      PROVE  (IF n < q.size THEN q.vals[n] ELSE 0) \in 0..SEMVMX
  <2>1. n \in Nat /\ q.vals[n] \in Nat
    BY <1>1, LimitsAssumption DEF Sems
  <2>2. CASE n < q.size
    <3>1. n \in 0..(q.size - 1)
      BY <1>1, <2>1, <2>2
    <3> QED  BY <2>1, <2>2, <3>1, LimitsAssumption
  <2> QED  BY <2>2, LimitsAssumption
<1> QED  BY <1>2 DEF Values

\* One element of an array is stored.
LEMMA ElementTypes ==
    /\ \A v \in Values, n \in Sems, x \in 0..SEMVMX : [v EXCEPT ![n] = x] \in Values
    /\ \A a \in Adjustments, n \in Sems : [a EXCEPT ![n] = 0] \in Adjustments
BY LimitsAssumption DEF Values, Adjustments

\* The connection being served, or whose vector is being tried.
LEMMA CurTypes ==
    ASSUME TypeOK
    PROVE  /\ call[cur] \in Breq /\ call[cur].id \in Ids /\ call[cur].sops \in Seq(Sembuf)
           /\ cur \in Conns /\ cur[1] \in Pids /\ cur[2] \in 1..MaxInc
           /\ <<cur[1], call[cur].id>> \in Rows /\ State(cur, call[cur].id) \in States
<1>1. cur \in Conns
  BY DEF TypeOK, ControlTypes
<1> QED  BY <1>1, TableTypes

\* SETALL keeps the tables well typed.
LEMMA SetallRegistry ==
    ASSUME TypeOK, serve_semctl_setall
    PROVE  RegistryTypes'
<1> DEFINE q == call[cur]
           v == [n \in Sems |-> IF n < q.size THEN q.vals[n] ELSE 0]
<1>1. \/ UNCHANGED <<sets, undo>>
      \/ /\ \A n \in 0..(q.size - 1) : ~(q.vals[n] > SEMVMX)
         /\ sets' = [sets EXCEPT ![q.id].val = v]
         /\ undo' = [r \in Rows |-> IF r[2] = q.id /\ undo[r].used
                                    THEN [undo[r] EXCEPT !.adj = ZeroVec]
                                    ELSE undo[r]]
  BY Zenon DEF serve_semctl_setall
<1>2. UNCHANGED <<g_next_semid, waitq>>
  BY DEF serve_semctl_setall
<1>3. CASE UNCHANGED <<sets, undo>>
  BY <1>2, <1>3 DEF TypeOK, RegistryTypes
<1>4. CASE /\ \A n \in 0..(q.size - 1) : ~(q.vals[n] > SEMVMX)
           /\ sets' = [sets EXCEPT ![q.id].val = v]
           /\ undo' = [r \in Rows |-> IF r[2] = q.id /\ undo[r].used
                                    THEN [undo[r] EXCEPT !.adj = ZeroVec]
                                    ELSE undo[r]]
  <2>1. v \in Values
    BY Zenon, <1>4, CurTypes, SetallType
  <2> HIDE DEF v
  <2>2. sets' \in [Ids -> SemSet]
    BY Zenon, <1>4, <2>1, CurTypes, StoreTypes
  <2>3. undo' \in [Rows -> UndoRow]
    BY Zenon, <1>4, StoreTypes, BlankTypes, TableTypes
  <2> QED  BY Zenon, <1>2, <2>2, <2>3 DEF TypeOK, RegistryTypes
<1> QED  BY <1>1, <1>3, <1>4

\* The arrays SETVAL stores.
LEMMA SetvalArrays ==
    ASSUME TypeOK, RegInv, sem_do_ctl_setval, ~(call[cur].num >= sets[call[cur].id].nsems)
    PROVE  /\ [sets[call[cur].id].val EXCEPT ![call[cur].num] = call[cur].val] \in Values
           /\ \A r \in Rows : [undo[r].adj EXCEPT ![call[cur].num] = 0] \in Adjustments
<1> DEFINE q == call[cur]
<1>1. q.num \in Nat
  BY CurTypes DEF Breq
<1>2. q.num \in Sems
  BY <1>1, CurTypes, TableTypes, LimitsAssumption DEF Sems
<1>3. q.val \in 0..SEMVMX
  BY DEF RegInv, sem_do_ctl_setval
<1> QED  BY Zenon, <1>2, <1>3, CurTypes, TableTypes, ElementTypes

\* SETVAL keeps the tables well typed.
LEMMA SetvalRegistry ==
    ASSUME TypeOK, RegInv, sem_do_ctl_setval
    PROVE  RegistryTypes'
<1> DEFINE q == call[cur]
           v == [sets[q.id].val EXCEPT ![q.num] = q.val]
           z(r) == [undo[r].adj EXCEPT ![q.num] = 0]
<1>1. \/ UNCHANGED <<sets, undo>>
      \/ /\ ~(q.num >= sets[q.id].nsems)
         /\ sets' = [sets EXCEPT ![q.id].val[q.num] = q.val]
         /\ undo' = [r \in Rows |-> IF r[2] = q.id /\ undo[r].used
                                    THEN [undo[r] EXCEPT !.adj[q.num] = 0]
                                    ELSE undo[r]]
  BY Zenon DEF sem_do_ctl_setval
<1>2. UNCHANGED <<g_next_semid, waitq>>
  BY DEF sem_do_ctl_setval
<1>3. CASE UNCHANGED <<sets, undo>>
  BY Zenon, <1>2, <1>3 DEF TypeOK, RegistryTypes
<1>4. CASE /\ ~(q.num >= sets[q.id].nsems)
           /\ sets' = [sets EXCEPT ![q.id].val[q.num] = q.val]
           /\ undo' = [r \in Rows |-> IF r[2] = q.id /\ undo[r].used
                                      THEN [undo[r] EXCEPT !.adj[q.num] = 0]
                                      ELSE undo[r]]
  <2>1. v \in Values /\ \A r \in Rows : z(r) \in Adjustments
    BY <1>4, SetvalArrays
  <2>2. /\ sets' = [sets EXCEPT ![q.id].val = v]
        /\ undo' = [r \in Rows |-> IF r[2] = q.id /\ undo[r].used
                                   THEN [undo[r] EXCEPT !.adj = z(r)] ELSE undo[r]]
    BY Zenon, <1>4
  <2> HIDE DEF v, z
  <2>3. sets' \in [Ids -> SemSet]
    BY <2>1, <2>2, CurTypes, StoreTypes
  <2>4. undo' \in [Rows -> UndoRow]
    BY <2>1, <2>2, StoreTypes, TableTypes
  <2> QED  BY Zenon, <1>2, <2>3, <2>4 DEF TypeOK, RegistryTypes
<1> QED  BY <1>1, <1>3, <1>4

\* The state a vector starts from.
LEMMA BeginTryType ==
    ASSUME TypeOK, NEW c \in Conns, NEW d \in Ids, BeginTry(c, d)
    PROVE  /\ pc' \in {"try", "fin"} /\ opi' \in Nat /\ trail' \in Seq(States)
           /\ res' \in Results \cup {"none", "block"}
<1>1. State(c, d) \in States
  BY Zenon, TableTypes
<1>2. <<State(c, d)>> \in Seq(States)
  BY <1>1
<1>3. trail' = <<State(c, d)>>
  BY DEF BeginTry
<1> QED  BY <1>2, <1>3 DEF BeginTry, Results, Errnos

\* A start time read from /proc is 0 or an incarnation.
LEMMA StarttimeType ==
    ASSUME TypeOK, NEW p \in Pids
    PROVE  cng_proc_starttime(p) \in 0..MaxInc
BY DomainAssumption DEF cng_proc_starttime, TypeOK, ClientTypes

\* The undo row sem_undo_find makes for the vector being tried.
FreshRow == [used |-> TRUE, start |-> cng_proc_starttime(cur[1]), adj |-> ZeroVec,
             own |-> cur[2]]

\* The operation sem_try_op has come to, what it works on and its undo row.
ThisOp == call[cur].sops[opi]
ThisState == State(cur, call[cur].id)
ThisRow == <<cur[1], call[cur].id>>

\* The operation goes through; u is the undo row it finds or makes.
Taken(u) ==
    /\ sets' = [sets EXCEPT ![call[cur].id].val = Apply(ThisState, ThisOp).val]
    /\ undo' = [undo EXCEPT ![ThisRow] = [u EXCEPT !.adj = Apply(ThisState, ThisOp).adj]]
    /\ trail' = Append(trail, Apply(ThisState, ThisOp))
    /\ opi' = opi + 1 /\ UNCHANGED <<pc, res>>

\* The operation fails or blocks.
Refused ==
    /\ pc' = "back" /\ opi' = opi - 1 /\ UNCHANGED <<sets, trail>>
    /\ res' \in {"EAGAIN", "block", "ENOMEM", "ERANGE"}
    /\ res' = "block" => Blocks(ThisState, ThisOp)
    /\ \/ undo' = undo
       \/ ~undo[ThisRow].used /\ undo' = [undo EXCEPT ![ThisRow] = FreshRow]

\* A step of sem_try_op either takes the operation or turns to the rollback.
LEMMA TryOpCases ==
    ASSUME TypeOK, TryInv, sem_try_op
    PROVE  /\ opi \in 1..Len(call[cur].sops) /\ ThisOp \in Sembuf /\ ThisOp.num \in Sems
           /\ \/ /\ ~Blocks(ThisState, ThisOp) /\ ~OutOfRange(ThisState, ThisOp)
                 /\ \/ (undo[ThisRow].used \/ ~ThisOp.undo) /\ Taken(undo[ThisRow])
                    \/ ~undo[ThisRow].used /\ Taken(FreshRow)
              \/ Refused
<1> DEFINE wants == /\ ThisOp.undo /\ ~Blocks(ThisState, ThisOp)
                    /\ ThisState.val[ThisOp.num] + ThisOp.op <= SEMVMX
           full == wants /\ ~undo[ThisRow].used /\ Cardinality(UsedRows) >= SEM_UNDO_MAX
           made == wants /\ ~undo[ThisRow].used /\ ~full
           fail == IF Blocks(ThisState, ThisOp)
                   THEN IF ThisOp.nowait THEN "EAGAIN" ELSE "block"
                   ELSE IF full THEN "ENOMEM"
                   ELSE IF OutOfRange(ThisState, ThisOp) THEN "ERANGE" ELSE "none"
<1>1. pc = "try" /\ opi <= Len(call[cur].sops)
  BY Zenon DEF sem_try_op
<1>2. opi \in 1..Len(call[cur].sops)
  BY <1>1, CurTypes DEF TryInv, Trying, TypeOK, ControlTypes
<1>3. ThisOp \in Sembuf /\ ThisOp.num \in Sems
  <2>1. \A j \in 1..Len(call[cur].sops) : call[cur].sops[j].num \in Sems
    BY <1>1, Zenon DEF TryInv, Trying
  <2>2. \A j \in 1..Len(call[cur].sops) : call[cur].sops[j] \in Sembuf
    BY CurTypes
  <2> QED  BY <1>2, <2>1, <2>2, Zenon DEF ThisOp
<1>4. IF fail = "none"
      THEN Taken(IF made THEN FreshRow ELSE undo[ThisRow])
      ELSE /\ pc' = "back" /\ res' = fail /\ opi' = opi - 1
           /\ undo' = IF made THEN [undo EXCEPT ![ThisRow] = FreshRow] ELSE undo
           /\ UNCHANGED <<sets, trail>>
  BY Zenon DEF sem_try_op, FreshRow, Taken, ThisOp, ThisState, ThisRow
<1>5. ThisState.val[ThisOp.num] \in Int /\ ThisOp.op \in Int
  BY <1>3, CurTypes, LimitsAssumption DEF ThisState, States, Values, Sembuf
<1>6. ~OutOfRange(ThisState, ThisOp) => ThisState.val[ThisOp.num] + ThisOp.op <= SEMVMX
  BY <1>5, LimitsAssumption DEF OutOfRange
<1>7. fail = "none" => /\ ~Blocks(ThisState, ThisOp) /\ ~OutOfRange(ThisState, ThisOp)
                       /\ made \/ undo[ThisRow].used \/ ~ThisOp.undo
  BY <1>6
<1>8. fail # "none" => /\ fail \in {"EAGAIN", "block", "ENOMEM", "ERANGE"}
                       /\ fail = "block" => Blocks(ThisState, ThisOp)
  OBVIOUS
<1>9. made => ~undo[ThisRow].used
  OBVIOUS
<1> HIDE DEF made, fail
<1>10. CASE fail = "none"
  BY <1>2, <1>3, <1>4, <1>7, <1>9, <1>10, Zenon
<1>11. CASE fail # "none"
  BY <1>2, <1>3, <1>4, <1>8, <1>9, <1>11, Zenon DEF Refused
<1> QED  BY <1>10, <1>11, Zenon

\* One operation of sem_try_op keeps every type.
LEMMA TryOpTypes ==
    ASSUME TypeOK, TryInv, sem_try_op
    PROVE  RegistryTypes' /\ ControlTypes'
<1>1. FreshRow \in UndoRow
  BY CurTypes, StarttimeType, BlankTypes DEF FreshRow, UndoRow
<1>2. \A u \in UndoRow, a \in Adjustments : [u EXCEPT !.adj = a] \in UndoRow
  BY DEF UndoRow
<1>3. UNCHANGED <<g_next_semid, waitq, cur, todo, rows, accq, scan, deadAtServe>>
  BY Zenon DEF sem_try_op
<1>4. ThisRow \in Rows /\ call[cur].id \in Ids /\ ThisState \in States /\ undo[ThisRow] \in UndoRow
  BY CurTypes, TableTypes, Zenon DEF ThisRow, ThisState
<1>5. ASSUME NEW u \in UndoRow, Taken(u), ThisOp \in Sembuf, ThisOp.num \in Sems,
             ~Blocks(ThisState, ThisOp), ~OutOfRange(ThisState, ThisOp)
      PROVE  RegistryTypes' /\ ControlTypes'
  <2> DEFINE s == Apply(ThisState, ThisOp)
  <2>1. s \in States
    BY <1>4, <1>5, ApplyUnapply
  <2>2. s.val \in Values /\ s.adj \in Adjustments
    BY <2>1 DEF States
  <2>3. /\ sets' = [sets EXCEPT ![call[cur].id].val = s.val]
        /\ undo' = [undo EXCEPT ![ThisRow] = [u EXCEPT !.adj = s.adj]]
        /\ trail' = Append(trail, s) /\ opi' = opi + 1 /\ UNCHANGED <<pc, res>>
    BY <1>5, Zenon DEF Taken
  <2> HIDE DEF s
  <2>4. sets' \in [Ids -> SemSet]
    BY <1>4, <2>2, <2>3, StoreTypes, Zenon
  <2>5. undo' \in [Rows -> UndoRow]
    <3>1. [u EXCEPT !.adj = s.adj] \in UndoRow
      BY <1>2, <1>5, <2>2, Zenon
    <3> QED  BY <1>4, <2>3, <3>1 DEF TypeOK, RegistryTypes
  <2>6. trail' \in Seq(States) /\ opi' \in Nat
    BY <2>1, <2>3 DEF TypeOK, ControlTypes
  <2>7. RegistryTypes'
    BY <1>3, <2>4, <2>5 DEF TypeOK, RegistryTypes
  <2> QED  BY Zenon, <1>3, <2>3, <2>6, <2>7 DEF TypeOK, ControlTypes
<1>6. CASE Refused /\ opi \in 1..Len(call[cur].sops)
  <2>1. undo' \in [Rows -> UndoRow]
    BY <1>1, <1>4, <1>6 DEF Refused, TypeOK, RegistryTypes
  <2>2. RegistryTypes'
    BY <1>3, <1>6, <2>1 DEF Refused, TypeOK, RegistryTypes
  <2>3. opi' \in Nat
    BY <1>6 DEF Refused, TypeOK, ControlTypes
  <2>4. pc' \in PCs /\ res' \in Results \cup {"none", "block"}
    BY <1>6 DEF Refused, PCs, Results, Errnos
  <2> QED  BY <1>3, <1>6, <2>2, <2>3, <2>4 DEF Refused, TypeOK, ControlTypes
<1> QED  BY <1>1, <1>4, <1>5, <1>6, TryOpCases, Zenon

\* A step of the rollback goes back to the state before.
LEMMA RollbackCases ==
    ASSUME TypeOK, TryInv, sem_try_op_rollback
    PROVE  LET q == call[cur]
               r == <<cur[1], q.id>>
           IN  /\ opi \in 1..(Len(trail) - 1) /\ trail[opi] \in States
               /\ sets' = [sets EXCEPT ![q.id].val = trail[opi].val]
               /\ undo' = [undo EXCEPT ![r].adj = trail[opi].adj]
               /\ opi' = opi - 1
<1> DEFINE ops == call[cur].sops
<1>1. /\ opi \in 1..(Len(trail) - 1) /\ Len(trail) <= Len(ops)
      /\ State(cur, call[cur].id) = trail[opi + 1] /\ Chain(trail, ops)
      /\ \A j \in 1..Len(ops) : ops[j].num \in Sems
  BY DEF TryInv, Trying, sem_try_op_rollback, TypeOK, ControlTypes
<1>2. /\ trail[opi] \in States /\ ops[opi] \in Sembuf /\ ops[opi].num \in Sems
      /\ ~Blocks(trail[opi], ops[opi]) /\ ~OutOfRange(trail[opi], ops[opi])
      /\ trail[opi + 1] = Apply(trail[opi], ops[opi])
  BY <1>1, CurTypes DEF Chain, TypeOK, ControlTypes
<1>3. Unapply(State(cur, call[cur].id), ops[opi]) = trail[opi]
  BY Zenon, <1>1, <1>2, ApplyUnapply
<1> QED  BY Zenon, <1>1, <1>2, <1>3 DEF sem_try_op_rollback, Store

\* One step of the rollback keeps every type.
LEMMA RollbackTypes ==
    ASSUME TypeOK, TryInv, sem_try_op_rollback
    PROVE  opi' \in Nat /\ sets' \in [Ids -> SemSet] /\ undo' \in [Rows -> UndoRow]
<1>1. trail[opi].val \in Values /\ trail[opi].adj \in Adjustments
  BY Zenon, RollbackCases DEF States
<1>2. /\ sets' = [sets EXCEPT ![call[cur].id].val = trail[opi].val]
      /\ undo' = [undo EXCEPT ![<<cur[1], call[cur].id>>].adj = trail[opi].adj]
  BY RollbackCases, Zenon
<1>3. call[cur].id \in Ids /\ <<cur[1], call[cur].id>> \in Rows
  BY CurTypes, Zenon
<1>6. sets' \in [Ids -> SemSet]
  BY <1>1, <1>2, <1>3, StoreTypes
<1>7. undo' \in [Rows -> UndoRow]
  BY <1>1, <1>2, <1>3, StoreTypes
<1>4. opi \in 1..(Len(trail) - 1) /\ opi' = opi - 1
  BY RollbackCases, Zenon
<1>5. opi' \in Nat
  BY <1>4
<1> QED  BY <1>5, <1>6, <1>7

\* What the result of a vector is.
LEMMA ResultType ==
    ASSUME TypeOK, TryInv, pc = "fin"
    PROVE  res \in Results \cup {"block"}
BY DEF TypeOK, ControlTypes, TryInv, Trying

\* Parking a semop (waiter_park), or answering it, keeps every type.
LEMMA ParkTypes ==
    ASSUME TypeOK, TryInv, serve_semop_result
    PROVE  waitq' \in Seq(WaiterType) /\ ConnTypes'
<1>1. Waiter(cur) \in WaiterType
  BY CurTypes, StarttimeType DEF Waiter, WaiterType, TypeOK, ControlTypes
<1>2. waitq' = waitq \/ waitq' = Append(waitq, Waiter(cur))
  BY Zenon DEF serve_semop_result
<1>3. waitq' \in Seq(WaiterType)
  BY <1>1, <1>2 DEF TypeOK, RegistryTypes
<1>4. \/ srv' = [srv EXCEPT ![cur] = "parked"] /\ reply' = reply
      \/ Answer(cur, IF res = "block" THEN "EAGAIN" ELSE res)
  BY Zenon DEF serve_semop_result, Finish
<1>5. (IF res = "block" THEN "EAGAIN" ELSE res) \in Results
  BY Zenon, ResultType DEF serve_semop_result, Results, Errnos
<1>6. backlog' = backlog
  BY DEF serve_semop_result
<1> QED  BY <1>3, <1>4, <1>5, <1>6 DEF Answer, TypeOK, ConnTypes

\* A visit of the rescan keeps every type.
LEMMA VisitTypes ==
    ASSUME TypeOK, cng_ipc_rescan_visit
    PROVE  TypeOK'
<1> DEFINE w == waitq[pos + 1]
<1>1. pos + 1 \in 1..Len(waitq)
  BY DEF cng_ipc_rescan_visit, TypeOK, ControlTypes, RegistryTypes
<1>2. w \in WaiterType /\ w.c \in Conns /\ w.id \in Ids
  BY Zenon, <1>1, ParkedType DEF WaiterType
<1>3. ClientTypes'
  BY Zenon DEF cng_ipc_rescan_visit, TypeOK, ClientTypes
<1>4. UNCHANGED <<sets, undo, g_next_semid, todo, rows, accq, pos, after, backlog, deadAtServe>>
  BY Zenon DEF cng_ipc_rescan_visit
<1>5. CASE BeginTry(w.c, w.id) /\ cur' = w.c /\ UNCHANGED <<waitq, srv, reply, progress>>
  BY Zenon, <1>2, <1>3, <1>4, <1>5, BeginTryType
  DEF TypeOK, RegistryTypes, ControlTypes, ConnTypes, PCs
<1>6. CASE /\ Answer(w.c, "EIDRM") /\ waitq' = RemoveWaiter(pos + 1)
           /\ progress' = 1 /\ UNCHANGED <<pc, cur, tryvars>>
  <2>1. waitq' \in Seq(WaiterType)
    BY Zenon, <1>1, <1>6, RemoveWaiterSeq
  <2>2. ConnTypes'
    BY Zenon, <1>2, <1>4, <1>6 DEF Answer, TypeOK, ConnTypes, Results, Errnos
  <2> QED  BY Zenon, <1>3, <1>4, <1>6, <2>1, <2>2 DEF TypeOK, RegistryTypes, ControlTypes
<1> QED  BY Zenon, <1>5, <1>6 DEF cng_ipc_rescan_visit

\* An element of the waiter table is replaced.
LEMMA ReplaceWaiter ==
    ASSUME NEW S, NEW s \in Seq(S), NEW i \in 1..Len(s), NEW e \in S
    PROVE  [s EXCEPT ![i] = e] \in Seq(S)
OBVIOUS

\* Granting, failing or parking again a visited waiter keeps every type.
LEMMA ResultTypes ==
    ASSUME TypeOK, ConnInv, TryInv, cng_ipc_rescan_result
    PROVE  TypeOK'
<1>1. pos + 1 \in 1..Len(waitq)
  BY DEF cng_ipc_rescan_result, ConnInv, Trying, TypeOK, ControlTypes, RegistryTypes
<1>2. waitq[pos + 1] \in WaiterType
  BY Zenon, <1>1, ParkedType
<1>3. ClientTypes' /\ UNCHANGED <<sets, undo, g_next_semid, todo, rows, accq, after, backlog, deadAtServe>>
  BY Zenon DEF cng_ipc_rescan_result, TypeOK, ClientTypes
<1>4. pc' = "rescan" /\ cur' = NoConn /\ opi' = 0 /\ res' = "none" /\ trail' = <<>>
  BY DEF cng_ipc_rescan_result, EndTry
<1>5. CASE /\ waitq' = [waitq EXCEPT ![pos + 1].blk = Len(trail), ![pos + 1].trail = trail]
           /\ pos' = pos + 1 /\ UNCHANGED <<srv, reply, progress>>
  <2> DEFINE w == [[waitq[pos + 1] EXCEPT !.blk = Len(trail)] EXCEPT !.trail = trail]
  <2>1. w \in WaiterType
    <3>1. trail \in Seq(States) /\ Len(trail) \in Nat
      BY DEF TypeOK, ControlTypes
    <3> QED  BY Zenon, <1>2, <3>1 DEF WaiterType
  <2>2. waitq' = [waitq EXCEPT ![pos + 1] = w]
    BY Zenon, <1>1, <1>5 DEF TypeOK, RegistryTypes
  <2> HIDE DEF w
  <2>3. waitq' \in Seq(WaiterType)
    BY Zenon, <1>1, <2>1, <2>2, ReplaceWaiter DEF TypeOK, RegistryTypes
  <2> QED  BY <1>3, <1>4, <1>5, <2>3, NoConnType
           DEF TypeOK, RegistryTypes, ControlTypes, ConnTypes, PCs
<1>6. CASE /\ res # "block" /\ waitq' = RemoveWaiter(pos + 1) /\ Answer(cur, res)
           /\ progress' = 1 /\ UNCHANGED pos
  <2>1. waitq' \in Seq(WaiterType)
    BY <1>1, <1>6, RemoveWaiterSeq
  <2>2. res \in Results
    BY Zenon, <1>6, ResultType DEF cng_ipc_rescan_result
  <2>3. ConnTypes'
    BY Zenon, <1>3, <1>6, <2>2 DEF Answer, TypeOK, ConnTypes
  <2> QED  BY <1>3, <1>4, <1>6, <2>1, <2>3, NoConnType DEF TypeOK, RegistryTypes, ControlTypes, PCs
<1> QED  BY Zenon, <1>5, <1>6 DEF cng_ipc_rescan_result

\* The running incarnation's connection is a connection.
LEMMA MeType ==
    ASSUME TypeOK, NEW p \in Pids
    PROVE  Me(p) \in Conns
BY Zenon DEF TypeOK, ClientTypes, Me, Conns

\* A parked vector that is still blocked gets a new witness.
LEMMA ReparkSeq ==
    ASSUME TypeOK, NEW k \in 1..Len(waitq),
           waitq' = [waitq EXCEPT ![k].blk = Len(trail), ![k].trail = trail]
    PROVE  /\ Len(waitq') = Len(waitq)
           /\ \A j \in 1..Len(waitq) : /\ waitq'[j].c = waitq[j].c /\ waitq'[j].id = waitq[j].id
                                       /\ j # k => waitq'[j] = waitq[j]
           /\ waitq'[k].blk = Len(trail) /\ waitq'[k].trail = trail
<1>1. waitq \in Seq(WaiterType) /\ waitq[k] \in WaiterType /\ DOMAIN waitq = 1..Len(waitq)
  BY DEF TypeOK, RegistryTypes
<1> DEFINE w == [[waitq[k] EXCEPT !.blk = Len(trail)] EXCEPT !.trail = trail]
<1>2. w.c = waitq[k].c /\ w.id = waitq[k].id /\ w.blk = Len(trail) /\ w.trail = trail
  BY Zenon, <1>1 DEF WaiterType
<1>3. waitq' = [waitq EXCEPT ![k] = w]
  BY Zenon, <1>1
<1> HIDE DEF w
<1>4. Len(waitq') = Len(waitq)
  BY <1>1, <1>3
<1> QED  BY <1>1, <1>2, <1>3, <1>4

\* What storing a set's values leaves alone.
LEMMA StoreVal ==
    ASSUME TypeOK, NEW i \in Ids, NEW v \in Values, sets' = [sets EXCEPT ![i].val = v]
    PROVE  \A d \in Ids : /\ (sets'[d].used <=> sets[d].used) /\ sets'[d].key = sets[d].key
                          /\ sets'[d].nsems = sets[d].nsems
                          /\ sets'[d].val = IF d = i THEN v ELSE sets[d].val
BY TableTypes DEF SemSet, TypeOK, RegistryTypes

\* What storing a row's adjustments leaves alone.
LEMMA StoreAdj ==
    ASSUME TypeOK, NEW r \in Rows, NEW a \in Adjustments, undo' = [undo EXCEPT ![r].adj = a]
    PROVE  \A s \in Rows : /\ (undo'[s].used <=> undo[s].used)
                           /\ undo'[s].adj = IF s = r THEN a ELSE undo[s].adj
BY TableTypes DEF UndoRow, TypeOK, RegistryTypes

-----------------------------------------------------------------------------
(* Every step keeps the types: one case per action, one step per group of  *)
(* variables.                                                              *)

\* A group of variables that a step leaves alone keeps its types.
LEMMA RegistryKept ==
    ASSUME RegistryTypes, UNCHANGED <<sets, undo, g_next_semid, waitq>>
    PROVE  RegistryTypes'
BY DEF RegistryTypes

\* Likewise the control state of the daemon.
LEMMA ControlKept ==
    ASSUME ControlTypes, UNCHANGED <<pc, cur, todo, rows, accq, deadAtServe, opi, res, trail,
                                     pos, progress, after>>
    PROVE  ControlTypes'
BY DEF ControlTypes

\* Likewise the connections.
LEMMA ConnKept ==
    ASSUME ConnTypes, UNCHANGED <<backlog, srv, reply>>
    PROVE  ConnTypes'
BY DEF ConnTypes

\* Likewise the clients.
LEMMA ClientKept ==
    ASSUME ClientTypes, UNCHANGED <<inc, life, script, cl, call, cancel, due, applied>>
    PROVE  ClientTypes'
BY DEF ClientTypes

\* No step of a client breaks TypeOK.
LEMMA TypeClients ==
    ASSUME TypeOK, Clients
    PROVE  TypeOK'
<1>t. RegistryTypes /\ ControlTypes /\ ConnTypes /\ ClientTypes
  BY Zenon DEF TypeOK
<1>c. \A p \in Pids : Me(p) \in Conns
  BY <1>t DEF Me, Conns, ClientTypes
<1>1. ASSUME NEW p \in Pids, NEW b \in BOOLEAN, Call(p, b)
       PROVE  TypeOK'
  <2>1. RegistryTypes' /\ ControlTypes'
    BY <1>1, <1>t, RegistryKept, ControlKept, Zenon DEF Call
  <2>2. ConnTypes'
    BY <1>1, <1>t, <1>c DEF Call, ConnTypes, Connect
  <2>3. ClientTypes'
    BY <1>1, <1>t, <1>c DEF Call, ClientTypes, Connect
  <2> QED  BY <2>1, <2>2, <2>3 DEF TypeOK
<1>2. ASSUME NEW p \in Pids, NEW b \in BOOLEAN, Restart(p, b)
       PROVE  TypeOK'
  <2>1. RegistryTypes' /\ ControlTypes'
    BY <1>2, <1>t, RegistryKept, ControlKept, Zenon DEF Restart
  <2>2. ConnTypes'
    BY <1>2, <1>t, <1>c DEF Restart, ConnTypes, Connect
  <2>3. ClientTypes'
    BY Zenon, <1>2, <1>t, <1>c DEF Restart, ClientTypes, Connect
  <2> QED  BY <2>1, <2>2, <2>3 DEF TypeOK
<1>3. ASSUME NEW p \in Pids, NEW b \in BOOLEAN, Interrupt(p, b)
       PROVE  TypeOK'
  <2>1. RegistryTypes' /\ ControlTypes' /\ ConnTypes'
    BY <1>3, <1>t, RegistryKept, ControlKept, ConnKept, Zenon DEF Interrupt
  <2>2. ClientTypes'
    BY <1>3, <1>t, <1>c DEF Interrupt, ClientTypes
  <2> QED  BY <2>1, <2>2 DEF TypeOK
<1>4. ASSUME NEW p \in Pids, NEW b \in BOOLEAN, Die(p, b)
       PROVE  TypeOK'
  <2>1. RegistryTypes' /\ ControlTypes'
    BY <1>4, <1>t, RegistryKept, ControlKept, Zenon DEF Die
  <2>2. ConnTypes'
    BY Zenon, <1>4, <1>t, <1>c DEF Die, ConnTypes
  <2>3. ClientTypes'
    BY <1>4, <1>t, <1>c DEF Die, ClientTypes
  <2> QED  BY Zenon, <2>1, <2>2, <2>3 DEF TypeOK
<1>5. ASSUME NEW p \in Pids, Receive(p)
       PROVE  TypeOK'
  <2>1. RegistryTypes' /\ ControlTypes'
    BY <1>5, <1>t, RegistryKept, ControlKept, Zenon DEF Receive
  <2>2. ConnTypes'
    BY <1>5, <1>t, <1>c DEF Receive, ConnTypes
  <2>3. ClientTypes'
    <3>1. NoReq(call[Me(p)].faults) \in Breq
      <4>1. call[Me(p)] \in Breq
        BY <1>c, <1>t DEF ClientTypes
      <4> QED  BY <4>1, BlankTypes DEF Breq
    <3> QED  BY Zenon, <1>5, <1>c, <1>t, <3>1 DEF Receive, ClientTypes
  <2> QED  BY Zenon, <2>1, <2>2, <2>3 DEF TypeOK
<1>6. ASSUME NEW p \in Pids, Reap(p)
       PROVE  TypeOK'
  <2>1. RegistryTypes' /\ ControlTypes' /\ ConnTypes'
    BY <1>6, <1>t, RegistryKept, ControlKept, ConnKept, Zenon DEF Reap
  <2>2. ClientTypes'
    BY <1>6, <1>t DEF Reap, ClientTypes
  <2> QED  BY Zenon, <2>1, <2>2 DEF TypeOK
<1>7. ASSUME NEW p \in Pids, NEW prog \in Programs, Reuse(p, prog)
       PROVE  TypeOK'
  <2>1. RegistryTypes' /\ ControlTypes' /\ ConnTypes'
    BY <1>7, <1>t, RegistryKept, ControlKept, ConnKept, Zenon DEF Reuse
  <2>2. ClientTypes'
    <3>1. inc[p] < MaxInc
      BY <1>7 DEF Reuse
    <3>2. prog[p] \in Seq(Breq) /\ inc[p] + 1 \in 1..MaxInc
      BY <1>t, <3>1, ProgramsAssumption, DomainAssumption DEF ClientTypes
    <3> QED  BY Zenon, <1>7, <1>t, <3>2 DEF Reuse, ClientTypes
  <2> QED  BY <2>1, <2>2 DEF TypeOK
<1>8. ASSUME NEW c \in Conns, DeadlinePass(c)
       PROVE  TypeOK'
  <2>1. RegistryTypes' /\ ControlTypes' /\ ConnTypes'
    BY <1>8, <1>t, RegistryKept, ControlKept, ConnKept, Zenon DEF DeadlinePass
  <2>2. ClientTypes'
    BY <1>8, <1>t DEF DeadlinePass, ClientTypes
  <2> QED  BY <2>1, <2>2 DEF TypeOK
<1> QED
  BY Zenon, <1>1, <1>2, <1>3, <1>4, <1>5, <1>6, <1>7, <1>8 DEF Clients

\* No step of the daemon or of a client breaks TypeOK.
LEMMA TypeStep ==
    ASSUME TypeOK, ConnInv, RegInv, TryInv, [Next]_vars
    PROVE  TypeOK'
<1>t. RegistryTypes /\ ControlTypes /\ ConnTypes /\ ClientTypes
  BY DEF TypeOK
<1>a. \A k \in 1..Len(waitq) : waitq[k].c \in Conns
  BY ParkedType
<1>b. /\ cur \in Conns /\ call[cur] \in Breq /\ call[cur].id \in Ids
      /\ <<cur[1], call[cur].id>> \in Rows
  BY CurTypes
<1>c. \A p \in Pids : Me(p) \in Conns
  BY <1>t DEF Me, Conns, ClientTypes
<1>d. \A k \in 1..Len(waitq) : RemoveWaiter(k) \in Seq(WaiterType)
  BY RemoveWaiterSeq
<1>1. CASE UNCHANGED vars
  <2>1. RegistryTypes' /\ ConnTypes' /\ ClientTypes'
    BY <1>1, <1>t, RegistryKept, ConnKept, ClientKept, Zenon DEF vars
  <2>2. ControlTypes'
    BY <1>1, <1>t DEF vars, ControlTypes
  <2> QED  BY <2>1, <2>2 DEF TypeOK
<1>2. CASE PollWake
  <2>1. RegistryTypes' /\ ConnTypes' /\ ClientTypes'
    BY <1>2, <1>t, RegistryKept, ConnKept, ClientKept, Zenon DEF PollWake
  <2>2. ControlTypes'
    BY <1>2, <1>t, ParkedType DEF PollWake, ControlTypes, Readable, PCs
  <2> QED  BY <2>1, <2>2 DEF TypeOK
<1>3. CASE PollTimeout
  <2>1. RegistryTypes' /\ ConnTypes' /\ ClientTypes'
    BY <1>3, <1>t, RegistryKept, ConnKept, ClientKept, Zenon DEF PollTimeout
  <2>2. ControlTypes'
    BY <1>3, <1>t, ParkedType DEF PollTimeout, ControlTypes, DueConns, PCs
  <2> QED  BY <2>1, <2>2 DEF TypeOK
<1>4. ASSUME NEW k \in 1..Len(waitq), cng_ipc_poll_ready(k)
      PROVE  TypeOK'
  <2>1. ClientTypes'
    BY <1>4, <1>t, ClientKept, Zenon DEF cng_ipc_poll_ready
  <2>2. RegistryTypes'
    BY <1>4, <1>t, <1>d DEF cng_ipc_poll_ready, RegistryTypes
  <2>3. ControlTypes'
    BY <1>4, <1>t DEF cng_ipc_poll_ready, ControlTypes
  <2>4. ConnTypes'
    BY Zenon, <1>4, <1>t, <1>a DEF cng_ipc_poll_ready, ConnTypes, Answer, Drop, Results, Errnos
  <2> QED  BY <2>1, <2>2, <2>3, <2>4 DEF TypeOK
<1>5. CASE ReadyDone
  <2>1. RegistryTypes' /\ ConnTypes' /\ ClientTypes'
    BY <1>5, <1>t, RegistryKept, ConnKept, ClientKept, Zenon DEF ReadyDone
  <2>2. ControlTypes'
    BY <1>5, <1>t DEF ReadyDone, ControlTypes, StartRescan, PCs
  <2> QED  BY <2>1, <2>2 DEF TypeOK
<1>6. CASE Accept
  <2>a. Head(backlog) \in Conns /\ Tail(backlog) \in Seq(Conns)
    <3>1. backlog # <<>> /\ backlog \in Seq(Conns)
      BY Zenon, <1>6, <1>t DEF ConnInv, Accept, ConnTypes
    <3> QED  BY <3>1
  <2>b. DeadConns \subseteq Conns
    BY Zenon DEF DeadConns
  <2>1. RegistryTypes' /\ ClientTypes'
    BY <1>6, <1>t, RegistryKept, ClientKept, Zenon DEF Accept
  <2>2. ControlTypes'
    BY <1>6, <1>t, <2>a, <2>b DEF Accept, ControlTypes, StartRescan, PCs
  <2>3. ConnTypes'
    BY Zenon, <1>6, <1>t, <2>a DEF Accept, ConnTypes, Drop
  <2> QED  BY <2>1, <2>2, <2>3 DEF TypeOK
<1>7. CASE sem_do_get_existing
  <2>1. RegistryTypes' /\ ClientTypes'
    BY <1>7, <1>t, RegistryKept, ClientKept, Zenon DEF sem_do_get_existing
  <2>2. ControlTypes'
    BY <1>7, <1>t, NoConnType DEF sem_do_get_existing, ControlTypes, Finish, StartRescan, PCs
  <2>3. ConnTypes'
    BY <1>7, <1>t, <1>b DEF sem_do_get_existing, ConnTypes, Finish, Answer, Results, Errnos
  <2> QED  BY <2>1, <2>2, <2>3 DEF TypeOK
<1>8. CASE sem_do_get_new
  <2>1. ClientTypes'
    BY <1>8, <1>t, ClientKept, Zenon DEF sem_do_get_new
  <2>2. RegistryTypes'
    <3> DEFINE new == [used |-> TRUE, key |-> call[cur].key, nsems |-> call[cur].size,
                       val |-> ZeroVec]
    <3>1. new \in SemSet
      BY <1>b, BlankTypes DEF Breq, SemSet
    <3>2. \/ UNCHANGED <<sets, g_next_semid>>
          \/ \E d \in Ids : sem_alloc_id(d) /\ sets' = [sets EXCEPT ![d] = new]
      BY Zenon, <1>8 DEF sem_do_get_new
    <3>3. UNCHANGED <<undo, waitq>>
      BY <1>8 DEF sem_do_get_new
    <3> HIDE DEF new
    <3>4. g_next_semid' \in Ids
      BY <1>t, <3>2, DomainAssumption DEF sem_alloc_id, Ids, RegistryTypes
    <3>5. sets' \in [Ids -> SemSet]
      BY Zenon, <1>t, <3>1, <3>2 DEF RegistryTypes
    <3> QED  BY Zenon, <1>t, <3>3, <3>4, <3>5 DEF RegistryTypes
  <2>3. ControlTypes'
    BY Zenon, <1>8, <1>t, NoConnType DEF sem_do_get_new, ControlTypes, Finish, StartRescan, PCs
  <2>4. ConnTypes'
    BY Zenon, <1>8, <1>t, <1>b DEF sem_do_get_new, ConnTypes, Finish, Answer, Results, Errnos
  <2> QED  BY Zenon, <2>1, <2>2, <2>3, <2>4 DEF TypeOK
<1>9. CASE serve_semctl_setall
  <2>1. ClientTypes'
    BY <1>9, <1>t, ClientKept, Zenon DEF serve_semctl_setall
  <2>2. RegistryTypes'
    BY Zenon, <1>9, SetallRegistry
  <2>3. ControlTypes'
    BY <1>9, <1>t, NoConnType DEF serve_semctl_setall, ControlTypes, Finish, StartRescan, PCs
  <2>4. ConnTypes'
    BY Zenon, <1>9, <1>t, <1>b DEF serve_semctl_setall, ConnTypes, Finish, Answer, Results, Errnos
  <2> QED  BY <2>1, <2>2, <2>3, <2>4 DEF TypeOK
<1>10. CASE serve_lookup
  <2>1. RegistryTypes' /\ ClientTypes'
    BY <1>10, <1>t, RegistryKept, ClientKept, Zenon DEF serve_lookup
  <2>2. ControlTypes'
    BY <1>10, <1>t, NoConnType DEF serve_lookup, ControlTypes, Finish, StartRescan, PCs, UsedRows
  <2>3. ConnTypes'
    BY <1>10, <1>t, <1>b DEF serve_lookup, ConnTypes, Finish, Answer, Results, Errnos
  <2> QED  BY <2>1, <2>2, <2>3 DEF TypeOK
<1>11. CASE SettleDone
  <2>1. RegistryTypes' /\ ConnTypes' /\ ClientTypes'
    BY <1>11, <1>t, RegistryKept, ConnKept, ClientKept, Zenon DEF SettleDone
  <2>2. ControlTypes'
    BY <1>11, <1>t DEF SettleDone, ControlTypes, PCs
  <2> QED  BY <2>1, <2>2 DEF TypeOK
<1>12. ASSUME NEW r \in Rows, sem_reclaim_set(r)
       PROVE  TypeOK'
  <2>1. ConnTypes' /\ ClientTypes'
    BY <1>12, <1>t, ConnKept, ClientKept, Zenon DEF sem_reclaim_set
  <2>2. RegistryTypes'
    BY <1>12, <1>t, UndoApplyType DEF sem_reclaim_set, RegistryTypes
  <2>3. ControlTypes'
    BY <1>12, <1>t DEF sem_reclaim_set, ControlTypes
  <2> QED  BY <2>1, <2>2, <2>3 DEF TypeOK
<1>13. CASE sem_do_ctl_read
  <2>1. RegistryTypes' /\ ClientTypes'
    BY <1>13, <1>t, RegistryKept, ClientKept, Zenon DEF sem_do_ctl_read
  <2>2. ControlTypes'
    BY <1>13, <1>t, NoConnType DEF sem_do_ctl_read, ControlTypes, Finish, StartRescan, PCs
  <2>3. ConnTypes'
    BY Zenon, <1>13, <1>t, <1>b DEF sem_do_ctl_read, ConnTypes, Finish, Answer, Results, Errnos
  <2> QED  BY <2>1, <2>2, <2>3 DEF TypeOK
<1>14. CASE sem_do_ctl_setval
  <2>1. ClientTypes'
    BY <1>14, <1>t, ClientKept, Zenon DEF sem_do_ctl_setval
  <2>2. RegistryTypes'
    BY <1>14, SetvalRegistry
  <2>3. ControlTypes'
    BY Zenon, <1>14, <1>t, NoConnType DEF sem_do_ctl_setval, ControlTypes, Finish, StartRescan, PCs
  <2>4. ConnTypes'
    BY <1>14, <1>t, <1>b DEF sem_do_ctl_setval, ConnTypes, Finish, Answer, Results, Errnos
  <2> QED  BY Zenon, <2>1, <2>2, <2>3, <2>4 DEF TypeOK
<1>15. CASE sem_do_ctl_rmid
  <2>1. RegistryTypes' /\ ClientTypes'
    BY <1>15, <1>t, RegistryKept, ClientKept, Zenon DEF sem_do_ctl_rmid
  <2>2. ControlTypes'
    BY <1>15, <1>t, NoConnType DEF sem_do_ctl_rmid, ControlTypes, Finish, StartRescan, PCs
  <2>3. ConnTypes'
    BY Zenon, <1>15, <1>t, <1>b DEF sem_do_ctl_rmid, ConnTypes, Finish, Answer, Results, Errnos
  <2> QED  BY <2>1, <2>2, <2>3 DEF TypeOK
<1>16. CASE sem_free_set
  <2>1. ClientTypes'
    BY <1>16, <1>t, ClientKept, Zenon DEF sem_free_set
  <2>2. RegistryTypes'
    BY Zenon, <1>16, <1>t, <1>b, BlankTypes DEF sem_free_set, RegistryTypes, WithoutRowsOf
  <2>3. ControlTypes'
    BY Zenon, <1>16, <1>t, NoConnType DEF sem_free_set, ControlTypes, Finish, StartRescan, PCs
  <2>4. ConnTypes'
    BY <1>16, <1>t, <1>b DEF sem_free_set, ConnTypes, Finish, Answer, Results, Errnos
  <2> QED  BY <2>1, <2>2, <2>3, <2>4 DEF TypeOK
<1>17. ASSUME NEW k \in 1..Len(waitq), waiters_eidrm(k)
       PROVE  TypeOK'
  <2>1. ControlTypes' /\ ClientTypes'
    BY <1>17, <1>t, ControlKept, ClientKept, Zenon DEF waiters_eidrm
  <2>2. RegistryTypes'
    BY Zenon, <1>17, <1>t, <1>d DEF waiters_eidrm, RegistryTypes
  <2>3. ConnTypes'
    BY <1>17, <1>t, <1>a DEF waiters_eidrm, ConnTypes, Answer, Results, Errnos
  <2> QED  BY <2>1, <2>2, <2>3 DEF TypeOK
<1>18. CASE serve_semop
  <2>1. RegistryTypes' /\ ClientTypes'
    BY <1>18, <1>t, RegistryKept, ClientKept, Zenon DEF serve_semop
  <2>2. ControlTypes'
    <3>3. \/ Finish("EFBIG") /\ UNCHANGED tryvars
          \/ Finish("EACCES") /\ UNCHANGED tryvars
          \/ BeginTry(cur, call[cur].id) /\ UNCHANGED <<srv, reply, scan, cur, deadAtServe>>
      BY <1>18 DEF serve_semop
    <3>4. UNCHANGED <<todo, rows, accq>>
      BY <1>18 DEF serve_semop
    <3>5. CASE BeginTry(cur, call[cur].id) /\ UNCHANGED <<srv, reply, scan, cur, deadAtServe>>
      <4>1. /\ pc' \in {"try", "fin"} /\ opi' \in Nat /\ trail' \in Seq(States)
            /\ res' \in Results \cup {"none", "block"}
        BY <1>b, <3>5, BeginTryType
      <4> QED  BY <1>t, <3>4, <3>5, <4>1 DEF ControlTypes, PCs
    <3>6. CASE (Finish("EFBIG") \/ Finish("EACCES")) /\ UNCHANGED tryvars
      BY <1>t, <3>4, <3>6, NoConnType DEF Finish, StartRescan, ControlTypes, PCs
    <3> QED  BY Zenon, <3>3, <3>5, <3>6
  <2>3. ConnTypes'
    BY Zenon, <1>18, <1>t, <1>b DEF serve_semop, ConnTypes, Finish, Answer, Results, Errnos
  <2> QED  BY <2>1, <2>2, <2>3 DEF TypeOK
<1>19. CASE sem_try_op
  <2>1. ConnTypes' /\ ClientTypes'
    BY <1>19, <1>t, ConnKept, ClientKept, Zenon DEF sem_try_op
  <2>2. RegistryTypes'
    BY <1>19, TryOpTypes
  <2>3. ControlTypes'
    BY Zenon, <1>19, TryOpTypes
  <2> QED  BY <2>1, <2>2, <2>3 DEF TypeOK
<1>20. CASE sem_try_op_rollback
  <2>1. ConnTypes' /\ ClientTypes'
    BY <1>20, <1>t, ConnKept, ClientKept, Zenon DEF sem_try_op_rollback
  <2>2. RegistryTypes'
    BY <1>20, <1>t, RollbackTypes DEF sem_try_op_rollback, RegistryTypes
  <2>3. ControlTypes'
    BY <1>20, <1>t, RollbackTypes DEF sem_try_op_rollback, ControlTypes
  <2> QED  BY <2>1, <2>2, <2>3 DEF TypeOK
<1>21. CASE sem_try_op_end
  <2>1. RegistryTypes' /\ ConnTypes'
    BY <1>21, <1>t, RegistryKept, ConnKept, Zenon DEF sem_try_op_end
  <2>2. ControlTypes'
    BY <1>21, <1>t DEF sem_try_op_end, ControlTypes, PCs, Results
  <2>3. ClientTypes'
    BY <1>21, <1>t, <1>b DEF sem_try_op_end, ClientTypes
  <2> QED  BY <2>1, <2>2, <2>3 DEF TypeOK
<1>22. CASE serve_semop_result
  <2>1. ClientTypes'
    BY <1>22, <1>t, ClientKept, Zenon DEF serve_semop_result
  <2>2. RegistryTypes'
    BY <1>22, <1>t, ParkTypes DEF serve_semop_result, RegistryTypes
  <2>3. ControlTypes'
    BY <1>22, <1>t, NoConnType DEF serve_semop_result, ControlTypes, Finish, StartRescan, EndTry, PCs
  <2>4. ConnTypes'
    BY Zenon, <1>22, ParkTypes
  <2> QED  BY <2>1, <2>2, <2>3, <2>4 DEF TypeOK
<1>23. CASE cng_ipc_rescan_visit
  BY Zenon, <1>23, VisitTypes
<1>24. CASE cng_ipc_rescan_result
  BY <1>24, ResultTypes
<1>25. CASE cng_ipc_rescan_pass
  <2>1. RegistryTypes' /\ ConnTypes' /\ ClientTypes'
    BY <1>25, <1>t, RegistryKept, ConnKept, ClientKept, Zenon DEF cng_ipc_rescan_pass
  <2>2. ControlTypes'
    BY <1>25, <1>t, ParkedType DEF cng_ipc_rescan_pass, ControlTypes, DueConns, PCs
  <2> QED  BY <2>1, <2>2 DEF TypeOK
<1>26. ASSUME NEW k \in 1..Len(waitq), cng_ipc_expire(k)
       PROVE  TypeOK'
  <2>1. ClientTypes'
    BY <1>26, <1>t, ClientKept, Zenon DEF cng_ipc_expire
  <2>2. RegistryTypes'
    BY <1>26, <1>t, <1>d DEF cng_ipc_expire, RegistryTypes
  <2>3. ControlTypes'
    BY <1>26, <1>t DEF cng_ipc_expire, ControlTypes
  <2>4. ConnTypes'
    BY <1>26, <1>t, <1>a DEF cng_ipc_expire, ConnTypes, Answer, Results, Errnos
  <2> QED  BY <2>1, <2>2, <2>3, <2>4 DEF TypeOK
<1>27. ASSUME NEW k \in 1..Len(waitq), cng_ipc_reclaim_waiter(k)
       PROVE  TypeOK'
  <2>1. ClientTypes'
    BY <1>27, <1>t, ClientKept, Zenon DEF cng_ipc_reclaim_waiter
  <2>2. RegistryTypes'
    BY Zenon, <1>27, <1>t, <1>d DEF cng_ipc_reclaim_waiter, RegistryTypes
  <2>3. ControlTypes'
    BY Zenon, <1>27, <1>t DEF cng_ipc_reclaim_waiter, ControlTypes
  <2>4. ConnTypes'
    BY <1>27, <1>t, <1>a DEF cng_ipc_reclaim_waiter, ConnTypes, Drop
  <2> QED  BY Zenon, <2>1, <2>2, <2>3, <2>4 DEF TypeOK
<1>28. CASE NoTick
  <2>1. RegistryTypes' /\ ConnTypes' /\ ClientTypes'
    BY <1>28, <1>t, RegistryKept, ConnKept, ClientKept, Zenon DEF NoTick
  <2>2. ControlTypes'
    BY Zenon, <1>28, <1>t DEF NoTick, ControlTypes, PCs
  <2> QED  BY Zenon, <2>1, <2>2 DEF TypeOK
<1>29. CASE Tick
  <2>1. RegistryTypes' /\ ConnTypes' /\ ClientTypes'
    BY <1>29, <1>t, RegistryKept, ConnKept, ClientKept, Zenon DEF Tick
  <2>2. ControlTypes'
    BY <1>29, <1>t, ParkedType DEF Tick, ControlTypes, PCs
  <2> QED  BY Zenon, <2>1, <2>2 DEF TypeOK
<1>30. CASE ReclaimRows
  <2>1. RegistryTypes' /\ ConnTypes' /\ ClientTypes'
    BY <1>30, <1>t, RegistryKept, ConnKept, ClientKept, Zenon DEF ReclaimRows
  <2>2. ControlTypes'
    BY <1>30, <1>t DEF ReclaimRows, ControlTypes, PCs, UsedRows
  <2> QED  BY <2>1, <2>2 DEF TypeOK
<1>31. CASE cng_ipc_reclaim_end
  <2>1. RegistryTypes' /\ ConnTypes' /\ ClientTypes'
    BY <1>31, <1>t, RegistryKept, ConnKept, ClientKept, Zenon DEF cng_ipc_reclaim_end
  <2>2. ControlTypes'
    BY <1>31, <1>t DEF cng_ipc_reclaim_end, ControlTypes, StartRescan, PCs
  <2> QED  BY <2>1, <2>2 DEF TypeOK
<1>32. ASSUME NEW r \in Rows, cng_ipc_reclaim_undo(r)
       PROVE  TypeOK'
  <2>1. ConnTypes' /\ ClientTypes'
    BY <1>32, <1>t, ConnKept, ClientKept, Zenon DEF cng_ipc_reclaim_undo
  <2>2. RegistryTypes'
    BY <1>32, <1>t, UndoApplyType DEF cng_ipc_reclaim_undo, RegistryTypes
  <2>3. ControlTypes'
    BY <1>32, <1>t DEF cng_ipc_reclaim_undo, ControlTypes
  <2> QED  BY <2>1, <2>2, <2>3 DEF TypeOK
<1>33. CASE Clients
  BY <1>33, TypeClients, Zenon
<1> QED
  BY Zenon, <1>1, <1>2, <1>3, <1>4, <1>5, <1>6, <1>7, <1>8, <1>9, <1>10, <1>11, <1>12,
     <1>13, <1>14, <1>15, <1>16, <1>17, <1>18, <1>19, <1>20, <1>21, <1>22, <1>23,
     <1>24, <1>25, <1>26, <1>27, <1>28, <1>29, <1>30, <1>31, <1>32, <1>33
  DEF Next, Daemon
=============================================================================
