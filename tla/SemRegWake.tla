----------------------------- MODULE SemRegWake -----------------------------
(***************************************************************************)
(* What a caller is told of its semop (OutInv) and how far the rescan of   *)
(* the sleepers has come (WakeInv), preserved by every step, for every     *)
(* value of the constants.                                                 *)
(***************************************************************************)
EXTENDS SemRegTypes

USE DEF proc, regvars, tryvars, scan, client, conns, hist, daemon

-----------------------------------------------------------------------------
(* IPC_RMID.                                                               *)

\* A caller whose request is being served stays in its call.
LEMMA CallKept ==
    ASSUME TypeOK, ConnInv, Clients, pc \in Serving \cup Trying
    PROVE  call'[cur] = call[cur] /\ UNCHANGED <<pc, cur>>
<1>1. srv[cur] \in {"serving", "parked"} /\ cur \in Conns
  BY CurTypes DEF ConnInv
<1>2. ASSUME NEW p \in Pids, NEW b \in BOOLEAN, Call(p, b)
      PROVE  call'[cur] = call[cur] /\ UNCHANGED <<pc, cur>>
  <2>1. Me(p) # cur
    BY <1>1, <1>2 DEF Call, ConnInv
  <2> QED  BY <1>1, <1>2, <2>1, MeType DEF Call, TypeOK, ClientTypes
<1>3. ASSUME NEW p \in Pids, Receive(p)
      PROVE  call'[cur] = call[cur] /\ UNCHANGED <<pc, cur>>
  <2>1. Me(p) # cur
    BY <1>1, <1>3 DEF Receive
  <2> QED  BY <1>1, <1>3, <2>1, MeType DEF Receive, TypeOK, ClientTypes
<1> QED  BY Zenon, <1>2, <1>3 DEF Clients, Restart, Interrupt, Die, Reap, Reuse, DeadlinePass

\* No step breaks RmidInv.
LEMMA RmidStep ==
    ASSUME TypeOK, ConnInv, RmidInv, [Next]_vars
    PROVE  RmidInv'
<1>0. SUFFICES ASSUME pc' = "eidrm"
               PROVE  call'[cur'].op = "rmid"
  BY Zenon DEF RmidInv
<1>1. CASE UNCHANGED vars
  BY Zenon, <1>0, <1>1 DEF RmidInv, vars
<1>2. CASE Clients
  <2>1. pc = "eidrm"
    BY Zenon, <1>0, <1>2 DEF Clients, Call, Restart, Receive, Interrupt, Die, Reap, Reuse, DeadlinePass
  <2> QED  BY Zenon, <1>2, <2>1, CallKept DEF RmidInv, Serving
<1>3. CASE sem_do_ctl_rmid
  BY Zenon, <1>0, <1>3 DEF sem_do_ctl_rmid, Finish, StartRescan
<1>4. ASSUME NEW k \in 1..Len(waitq), waiters_eidrm(k)
      PROVE  call'[cur'].op = "rmid"
  BY Zenon, <1>4 DEF waiters_eidrm, RmidInv
<1>5. ASSUME \/ PollWake \/ PollTimeout \/ ReadyDone \/ Accept \/ SettleDone
             \/ sem_do_get_existing \/ sem_do_get_new \/ serve_semctl_setall \/ serve_lookup
      PROVE  FALSE
  BY Zenon, <1>0, <1>5 DEF PollWake, PollTimeout, ReadyDone, Accept, SettleDone, sem_do_get_existing,
     sem_do_get_new, serve_semctl_setall, serve_lookup, Finish, StartRescan
<1>6. ASSUME \/ sem_do_ctl_read \/ sem_do_ctl_setval \/ sem_free_set \/ serve_semop
             \/ sem_try_op \/ sem_try_op_rollback \/ sem_try_op_end \/ serve_semop_result
      PROVE  FALSE
  BY Zenon, <1>0, <1>6 DEF sem_do_ctl_read, sem_do_ctl_setval, sem_free_set, serve_semop, sem_try_op,
     sem_try_op_rollback, sem_try_op_end, serve_semop_result, BeginTry, Finish, StartRescan
<1>7. ASSUME \/ cng_ipc_rescan_visit \/ cng_ipc_rescan_result \/ NoTick \/ Tick
             \/ ReclaimRows \/ cng_ipc_reclaim_end
      PROVE  FALSE
  BY Zenon, <1>0, <1>7 DEF cng_ipc_rescan_visit, cng_ipc_rescan_result, NoTick, Tick, ReclaimRows,
     cng_ipc_reclaim_end, BeginTry, StartRescan
<1>8. ASSUME cng_ipc_rescan_pass
      PROVE  FALSE
  BY <1>0, <1>8 DEF cng_ipc_rescan_pass, TypeOK, ControlTypes
<1>9. ASSUME NEW k \in 1..Len(waitq),
             cng_ipc_poll_ready(k) \/ cng_ipc_expire(k) \/ cng_ipc_reclaim_waiter(k)
      PROVE  FALSE
  BY Zenon, <1>0, <1>9 DEF cng_ipc_poll_ready, cng_ipc_expire, cng_ipc_reclaim_waiter
<1>10. ASSUME NEW r \in Rows, sem_reclaim_set(r) \/ cng_ipc_reclaim_undo(r)
       PROVE  FALSE
  BY Zenon, <1>0, <1>10 DEF sem_reclaim_set, cng_ipc_reclaim_undo
<1> QED
  BY Zenon, <1>1, <1>2, <1>3, <1>4, <1>5, <1>6, <1>7, <1>8, <1>9, <1>10 DEF Next, Daemon

-----------------------------------------------------------------------------
(* Commits and answers.                                                    *)

\* A vector has just gone through, and its caller has not been told yet.
Granted == pc = "fin" /\ res = "ok"

\* Steps that answer nobody.
LEMMA OutFrame ==
    ASSUME OutInv, UNCHANGED <<cl, applied, reply, srv, call>>,
           \/ UNCHANGED <<pc, res, cur>>
           \/ ~Granted /\ ~Granted'
    PROVE  OutInv'
BY DEF OutInv, OutcomeExact, Dead, Granted

\* A connection the daemon has not closed has had no answer, and its vector is
\* not committed, unless it has just gone through.
LEMMA OutOpen ==
    ASSUME OutInv, NEW c \in Conns, srv[c] # "closed", call[c].op = "semop", ~Dead(c)
    PROVE  applied[c] = IF Granted /\ cur = c THEN 1 ELSE 0
BY DEF OutInv, OutcomeExact, Granted

\* The last message on a connection (waiter_reply, cng_broker_send) is right: ok
\* to the vector that has just gone through, an error to any other.
LEMMA OutAnswer ==
    ASSUME TypeOK, OutInv, NEW c \in Conns, NEW r \in Results, srv[c] # "closed",
           Answer(c, r), UNCHANGED <<cl, applied, call>>, pc' # "fin",
           Granted => cur = c,
           call[c].op = "semop" => (r = "ok" <=> Granted)
    PROVE  OutInv'
<1>1. /\ \A e \in Conns : srv'[e] = IF e = c THEN "closed" ELSE srv[e]
      /\ \A e \in Conns : reply'[e] = IF e # c THEN reply[e] ELSE IF Dead(c) THEN "none" ELSE r
  BY DEF Answer, TypeOK, ConnTypes
<1>2. (\A e \in Conns : cl[e] = "idle" => applied[e] = 0)'
  BY DEF OutInv
<1>3. (\A e \in Conns : reply[e] # "none" => srv[e] = "closed")'
  BY <1>1 DEF OutInv
<1>4. ASSUME NEW e \in Conns, call[e].op = "semop", ~Dead(e)
      PROVE  applied[e] = IF srv'[e] = "closed" /\ reply'[e] = "ok" THEN 1 ELSE 0
  <2>1. CASE e = c
    BY <1>1, <1>4, <2>1, OutOpen, Zenon
  <2>2. CASE e # c
    BY <1>1, <1>4, <2>2 DEF OutInv, OutcomeExact, Granted
  <2> QED  BY <2>1, <2>2
<1>5. OutcomeExact'
  BY <1>4 DEF OutcomeExact, Dead
<1> QED  BY <1>2, <1>3, <1>5 DEF OutInv

\* A connection closed without a message.
LEMMA OutDrop ==
    ASSUME TypeOK, OutInv, NEW c \in Conns, srv[c] # "closed", Drop(c),
           UNCHANGED <<cl, applied, call>>, pc # "fin", pc' # "fin"
    PROVE  OutInv'
<1>1. \A e \in Conns : srv'[e] = IF e = c THEN "closed" ELSE srv[e]
  BY DEF Drop, TypeOK, ConnTypes
<1>2. reply' = reply /\ reply[c] = "none"
  BY DEF Drop, OutInv
<1> QED  BY <1>1, <1>2 DEF OutInv, OutcomeExact, Dead

\* The end of a handler that tries no vector: of a semop, only with an error.
LEMMA OutFinish ==
    ASSUME TypeOK, ConnInv, OutInv, NEW r \in Results, pc \in {"serve", "act", "eidrm"},
           Finish(r), call[cur].op = "semop" => r # "ok",
           UNCHANGED <<cl, applied, call>>
    PROVE  OutInv'
<1>1. srv[cur] = "serving" /\ cur \in Conns
  BY CurTypes DEF ConnInv, Serving
<1>2. pc' = "rescan" /\ Answer(cur, r) /\ ~Granted
  BY DEF Finish, StartRescan, Granted
<1> QED  BY <1>1, <1>2, OutAnswer

\* The connection of waiter k.
LEMMA ParkedConn ==
    ASSUME TypeOK, ConnInv, NEW k \in 1..Len(waitq)
    PROVE  waitq[k].c \in Conns /\ srv[waitq[k].c] = "parked"
BY Zenon, ParkedType DEF ConnInv

\* The vector has gone through, once: its caller has not been granted it before.
LEMMA OutTryEnd ==
    ASSUME TypeOK, ConnInv, TryInv, OutInv, sem_try_op_end
    PROVE  OutInv'
<1>1. /\ cur \in Conns /\ srv[cur] \in {"serving", "parked"} /\ call[cur].op = "semop"
      /\ pc \in Trying /\ ~Granted /\ UNCHANGED <<cl, reply, srv, call, cur>> /\ pc' = "fin"
  BY CurTypes DEF sem_try_op_end, ConnInv, TryInv, Trying, Granted
<1>2. CASE pc = "back"
  <2>1. UNCHANGED <<res, applied>> /\ res # "ok"
    BY <1>2 DEF sem_try_op_end, TryInv, Trying
  <2> QED  BY <1>1, <2>1, OutFrame DEF Granted
<1>3. CASE pc = "try"
  <2>1. res' = "ok" /\ applied' = [applied EXCEPT ![cur] = @ + 1]
    BY <1>3 DEF sem_try_op_end
  <2>2. \A e \in Conns : applied'[e] = IF e = cur THEN applied[e] + 1 ELSE applied[e]
    BY <2>1 DEF TypeOK, ClientTypes
  <2>3. ~Dead(cur) => applied[cur] = 0
    BY <1>1, OutOpen, Zenon
  <2>4. cl[cur] # "idle"
    BY <1>1 DEF ConnInv
  <2>5. (\A c \in Conns : cl[c] = "idle" => applied[c] = 0)'
    BY <1>1, <2>2, <2>4 DEF OutInv
  <2>6. ASSUME NEW c \in Conns, call[c].op = "semop", ~Dead(c)
        PROVE  applied'[c] = IF \/ srv[c] = "closed" /\ reply[c] = "ok"
                                \/ cur = c
                             THEN 1 ELSE 0
    <3>1. CASE c = cur
      BY <1>1, <2>2, <2>3, <2>6, <3>1
    <3>2. CASE c # cur
      BY <1>1, <2>2, <2>6, <3>2 DEF OutInv, OutcomeExact, Granted
    <3> QED  BY <3>1, <3>2
  <2>7. OutcomeExact'
    BY <1>1, <2>1, <2>6 DEF OutcomeExact, Dead
  <2> QED  BY <1>1, <2>5, <2>7 DEF OutInv
<1> QED  BY Zenon, <1>2, <1>3 DEF sem_try_op_end

\* serve_semop's answer, or the sleep.
LEMMA OutServed ==
    ASSUME TypeOK, ConnInv, TryInv, OutInv, serve_semop_result
    PROVE  OutInv'
<1>1. /\ pc = "fin" /\ srv[cur] = "serving" /\ cur \in Conns /\ call[cur].op = "semop"
      /\ UNCHANGED <<cl, call, applied>> /\ res # "none"
  BY CurTypes, Zenon DEF serve_semop_result, TryInv, Trying
<1>2. CASE /\ res = "block" /\ srv' = [srv EXCEPT ![cur] = "parked"] /\ UNCHANGED reply
           /\ StartRescan("expire")
  <2>1. \A c \in Conns : srv'[c] = IF c = cur THEN "parked" ELSE srv[c]
    BY <1>1, <1>2 DEF TypeOK, ConnTypes
  <2>2. pc' = "rescan" /\ reply' = reply
    BY <1>2 DEF StartRescan
  <2>3. reply[cur] = "none" /\ res = "block"
    BY <1>1, <1>2 DEF OutInv
  <2> QED  BY <1>1, <2>1, <2>2, <2>3 DEF OutInv, OutcomeExact, Dead
<1>3. CASE Finish(IF res = "block" THEN "EAGAIN" ELSE res)
  <2> DEFINE r == IF res = "block" THEN "EAGAIN" ELSE res
  <2>1. r \in Results
    BY <1>1 DEF TypeOK, ControlTypes, Results, Errnos
  <2>2. Answer(cur, r) /\ pc' = "rescan" /\ (r = "ok" <=> Granted)
    BY <1>1, <1>3 DEF Finish, StartRescan, Granted
  <2> QED  BY <1>1, <2>1, <2>2, OutAnswer
<1> QED  BY <1>2, <1>3, Zenon DEF serve_semop_result

\* A sleeper looked at by the rescan.
LEMMA OutRescan ==
    ASSUME TypeOK, ConnInv, TryInv, OutInv, cng_ipc_rescan_visit \/ cng_ipc_rescan_result
    PROVE  OutInv'
<1>1. CASE cng_ipc_rescan_visit
  <2>1. pos + 1 \in 1..Len(waitq) /\ pc = "rescan" /\ UNCHANGED <<cl, call, applied>>
    BY <1>1 DEF cng_ipc_rescan_visit, TypeOK, ControlTypes, RegistryTypes
  <2>2. CASE BeginTry(waitq[pos + 1].c, waitq[pos + 1].id) /\ UNCHANGED <<srv, reply>>
    <3>1. ~Granted /\ ~Granted'
      BY <2>1, <2>2 DEF BeginTry, Granted
    <3> QED  BY Zenon, <2>1, <2>2, <3>1, OutFrame
  <2>3. CASE Answer(waitq[pos + 1].c, "EIDRM") /\ UNCHANGED pc
    <3>1. "EIDRM" \in Results /\ "EIDRM" # "ok" /\ ~Granted /\ pc' # "fin"
      BY <2>1, <2>3 DEF Results, Errnos, Granted
    <3> QED  BY <2>1, <2>3, <3>1, ParkedConn, OutAnswer
  <2> QED  BY <1>1, <2>2, <2>3, Zenon DEF cng_ipc_rescan_visit
<1>2. CASE cng_ipc_rescan_result
  <2>1. /\ pc = "fin" /\ srv[cur] = "parked" /\ cur \in Conns /\ call[cur].op = "semop"
        /\ UNCHANGED <<cl, call, applied>> /\ res # "none" /\ pc' = "rescan"
    BY <1>2, CurTypes, Zenon DEF cng_ipc_rescan_result, TryInv, Trying
  <2>2. CASE res = "block"
    <3>1. UNCHANGED <<srv, reply>> /\ ~Granted /\ ~Granted'
      BY <1>2, <2>1, <2>2 DEF cng_ipc_rescan_result, Granted
    <3> QED  BY <2>1, <3>1, OutFrame
  <2>3. CASE res # "block"
    <3>1. Answer(cur, res) /\ res \in Results /\ (res = "ok" <=> Granted)
      BY <1>2, <2>1, <2>3 DEF cng_ipc_rescan_result, Granted, TypeOK, ControlTypes
    <3> QED  BY <2>1, <3>1, OutAnswer
  <2> QED  BY <2>2, <2>3
<1> QED  BY <1>1, <1>2

\* A call is made, for the first time or again.
LEMMA OutConnect ==
    ASSUME TypeOK, ConnInv, OutInv, NEW c \in Conns, NEW b \in BOOLEAN, Connect(c, b),
           UNCHANGED <<pc, res, cur, reply, applied>>,
           \A e \in Conns : e # c => call'[e] = call[e],
           \/ cl[c] = "idle"
           \/ cl[c] = "again" /\ call'[c] = call[c]
    PROVE  OutInv'
<1>1. srv[c] = "none" /\ reply[c] = "none"
  BY DEF ConnInv, OutInv
<1>2. /\ \A e \in Conns : cl'[e] = IF e = c THEN "wait" ELSE cl[e]
      /\ \A e \in Conns : e # c => srv'[e] = srv[e]
      /\ srv'[c] # "closed"
  BY Zenon DEF Connect, TypeOK, ConnTypes, ClientTypes
<1>3. ~(pc = "fin" /\ cur = c)
  BY <1>1 DEF ConnInv, Trying
<1>4. call'[c].op = "semop" => applied[c] = 0
  BY <1>1, <1>3 DEF OutInv, OutcomeExact, Dead
<1>5. OutcomeExact'
  <2> SUFFICES ASSUME NEW e \in Conns, call'[e].op = "semop", ~Dead(e)'
               PROVE  (applied[e] = IF \/ srv[e] = "closed" /\ reply[e] = "ok"
                                       \/ pc = "fin" /\ cur = e /\ res = "ok"
                                    THEN 1 ELSE 0)'
    BY Zenon DEF OutcomeExact
  <2>1. CASE e = c
    BY Zenon, <1>1, <1>2, <1>3, <1>4, <2>1
  <2>2. CASE e # c
    BY Zenon, <1>2, <2>2 DEF OutInv, OutcomeExact, Dead
  <2> QED  BY <2>1, <2>2
<1>6. (\A e \in Conns : cl[e] = "idle" => applied[e] = 0)'
  BY <1>2 DEF OutInv
<1>7. (\A e \in Conns : reply[e] # "none" => srv[e] = "closed")'
  BY <1>1, <1>2 DEF OutInv
<1> QED  BY Zenon, <1>5, <1>6, <1>7 DEF OutInv

\* The answer is read: a restarted wait had not been granted.
LEMMA OutReceive ==
    ASSUME TypeOK, ConnInv, OutInv, NEW p \in Pids, Receive(p)
    PROVE  OutInv'
<1> DEFINE c == Me(p)
<1>1. c \in Conns /\ srv[c] = "closed" /\ cl[c] \in {"wait", "cancel", "kicked"}
      /\ UNCHANGED <<pc, res, cur>>
  BY MeType DEF Receive
<1>2. ~(pc = "fin" /\ cur = c)
  BY <1>1 DEF ConnInv, Trying
<1>3. \A e \in Conns : e # c => /\ srv'[e] = srv[e] /\ reply'[e] = reply[e] /\ cl'[e] = cl[e]
                                /\ call'[e] = call[e] /\ applied'[e] = applied[e]
  BY DEF Receive, TypeOK, ConnTypes, ClientTypes
<1>4. srv'[c] = "none" /\ reply'[c] = "none"
  BY Zenon, <1>1 DEF Receive, TypeOK, ConnTypes
<1>5. CASE Restarts(c)
  <2>1. cl'[c] = "again" /\ call'[c] = call[c] /\ applied'[c] = applied[c] /\ reply[c] = "EINTR"
    BY Zenon, <1>1, <1>5 DEF Receive, Restarts, TypeOK, ClientTypes
  <2>2. call[c].op = "semop" => applied[c] = 0
    BY Zenon, <1>1, <1>2, <2>1 DEF OutInv, OutcomeExact, Dead
  <2> QED  BY <1>1, <1>2, <1>3, <1>4, <2>1, <2>2 DEF OutInv, OutcomeExact, Dead
<1>6. CASE ~Restarts(c)
  <2>1. cl'[c] = "idle" /\ call'[c].op = "stat" /\ applied'[c] = 0
    BY <1>1, <1>6 DEF Receive, NoReq, TypeOK, ClientTypes
  <2> QED  BY <1>1, <1>2, <1>3, <1>4, <2>1 DEF OutInv, OutcomeExact, Dead
<1> QED  BY <1>5, <1>6

\* A wait is interrupted, or its process dies: then nobody reads the answer.
LEMMA OutClients ==
    ASSUME TypeOK, ConnInv, OutInv, Clients
    PROVE  OutInv'
<1>1. ASSUME NEW p \in Pids, NEW b \in BOOLEAN, Call(p, b)
      PROVE  OutInv'
  <2>1. \A e \in Conns : e # Me(p) => call'[e] = call[e]
    BY <1>1 DEF Call, TypeOK, ClientTypes
  <2> QED  BY Zenon, <1>1, <2>1, MeType, OutConnect DEF Call
<1>2. ASSUME NEW p \in Pids, NEW b \in BOOLEAN, Restart(p, b)
      PROVE  OutInv'
  BY Zenon, <1>2, MeType, OutConnect DEF Restart
<1>3. ASSUME NEW p \in Pids, NEW b \in BOOLEAN, Interrupt(p, b)
      PROVE  OutInv'
  <2>1. /\ Me(p) \in Conns /\ cl[Me(p)] = "wait" /\ UNCHANGED <<pc, res, cur, srv, reply, call, applied>>
        /\ \A e \in Conns : cl'[e] = IF e = Me(p) THEN (IF b THEN "kicked" ELSE "cancel") ELSE cl[e]
    BY <1>3, MeType DEF Interrupt, TypeOK, ClientTypes
  <2> QED  BY Zenon, <2>1 DEF OutInv, OutcomeExact, Dead
<1>4. ASSUME NEW p \in Pids, NEW b \in BOOLEAN, Die(p, b)
      PROVE  OutInv'
  <2>1. /\ Me(p) \in Conns /\ UNCHANGED <<pc, res, cur, srv, call, applied>>
        /\ \A e \in Conns : cl'[e] = IF e = Me(p) THEN (IF b THEN "muted" ELSE "dead") ELSE cl[e]
        /\ \A e \in Conns : reply'[e] = IF e = Me(p) THEN "none" ELSE reply[e]
    BY <1>4, MeType DEF Die, TypeOK, ClientTypes, ConnTypes
  <2> QED  BY <2>1 DEF OutInv, OutcomeExact, Dead
<1>5. ASSUME NEW p \in Pids, Receive(p)
      PROVE  OutInv'
  BY Zenon, <1>5, OutReceive
<1>6. ASSUME NEW p \in Pids, Reap(p)
      PROVE  OutInv'
  BY Zenon, <1>6, OutFrame DEF Reap
<1>7. ASSUME NEW p \in Pids, NEW prog \in Programs, Reuse(p, prog)
      PROVE  OutInv'
  BY Zenon, <1>7, OutFrame DEF Reuse
<1>8. ASSUME NEW c \in Conns, DeadlinePass(c)
      PROVE  OutInv'
  BY Zenon, <1>8, OutFrame DEF DeadlinePass
<1> QED
  BY Zenon, <1>1, <1>2, <1>3, <1>4, <1>5, <1>6, <1>7, <1>8 DEF Clients

\* No step breaks OutInv.
LEMMA OutStep ==
    ASSUME TypeOK, ConnInv, TryInv, RmidInv, OutInv, [Next]_vars
    PROVE  OutInv'
<1> USE DEF Granted
<1>e. \A r \in {"EINTR", "EIDRM", "EAGAIN"} : r \in Results /\ r # "ok"
  BY DEF Results, Errnos
<1>1. CASE UNCHANGED vars
  BY Zenon, <1>1, OutFrame DEF vars
<1>2. CASE PollWake
  BY Zenon, <1>2, OutFrame DEF PollWake
<1>3. CASE PollTimeout
  BY Zenon, <1>3, OutFrame DEF PollTimeout
<1>4. ASSUME NEW k \in 1..Len(waitq), cng_ipc_poll_ready(k)
      PROVE  OutInv'
  <2>1. pc = "ready" /\ UNCHANGED <<pc, cl, call, applied>>
    BY <1>4 DEF cng_ipc_poll_ready
  <2>2. CASE Answer(waitq[k].c, "EINTR")
    BY Zenon, <1>e, <2>1, <2>2, ParkedConn, OutAnswer
  <2>3. CASE Drop(waitq[k].c)
    BY Zenon, <2>1, <2>3, ParkedConn, OutDrop
  <2> QED  BY Zenon, <1>4, <2>2, <2>3 DEF cng_ipc_poll_ready
<1>5. CASE ReadyDone
  BY Zenon, <1>5, OutFrame DEF ReadyDone, StartRescan
<1>6. CASE Accept
  <2> DEFINE c == Head(backlog)
  <2>1. c \in Conns /\ srv[c] \in {"queued", "broken"} /\ pc = "accept"
    BY <1>6 DEF Accept, ConnInv, TypeOK, ConnTypes
  <2>2. CASE srv[c] = "queued"
    <3>1. /\ srv' = [srv EXCEPT ![c] = "serving"] /\ pc' = "serve"
          /\ UNCHANGED <<reply, cl, call, applied>> /\ reply[c] = "none"
      BY Zenon, <1>6, <2>1, <2>2 DEF Accept, OutInv
    <3>2. \A e \in Conns : srv'[e] = IF e = c THEN "serving" ELSE srv[e]
      BY <3>1 DEF TypeOK, ConnTypes
    <3> QED  BY <2>1, <3>1, <3>2 DEF OutInv, OutcomeExact, Dead
  <2>3. CASE srv[c] # "queued"
    <3>1. Drop(c) /\ pc' = "rescan" /\ UNCHANGED <<cl, call, applied>>
      BY Zenon, <1>6, <2>3 DEF Accept, StartRescan
    <3> QED  BY <2>1, <3>1, OutDrop
  <2> QED  BY Zenon, <2>2, <2>3
<1>7. CASE sem_do_get_existing
  <2>1. /\ pc = "serve" /\ call[cur].op = "semget" /\ UNCHANGED <<cl, call, applied>>
        /\ \E r \in Results : Finish(r)
    BY Zenon, <1>7 DEF sem_do_get_existing, Results, Errnos
  <2> QED  BY <2>1, OutFinish
<1>8. CASE sem_do_get_new
  <2>1. /\ pc = "serve" /\ call[cur].op = "semget" /\ UNCHANGED <<cl, call, applied>>
        /\ \E r \in Results : Finish(r)
    BY <1>8 DEF sem_do_get_new, Results, Errnos
  <2> QED  BY <2>1, OutFinish
<1>9. CASE serve_semctl_setall
  <2>1. /\ pc = "serve" /\ call[cur].op = "setall" /\ UNCHANGED <<cl, call, applied>>
        /\ \E r \in Results : Finish(r)
    BY <1>9 DEF serve_semctl_setall, Results, Errnos
  <2> QED  BY <2>1, OutFinish
<1>10. CASE serve_lookup
  <2>1. pc = "serve" /\ UNCHANGED <<cl, call, applied>>
    BY <1>10 DEF serve_lookup
  <2>2. CASE pc' = "settle" /\ UNCHANGED <<srv, reply>>
    BY <2>1, <2>2, OutFrame
  <2>3. CASE \E r \in Results \ {"ok"} : Finish(r)
    BY Zenon, <2>1, <2>3, OutFinish
  <2>4. \/ pc' = "settle" /\ UNCHANGED <<srv, reply>>
        \/ \E r \in Results \ {"ok"} : Finish(r)
    BY <1>10 DEF serve_lookup, Results, Errnos
  <2> QED  BY Zenon, <2>2, <2>3, <2>4
<1>11. CASE SettleDone
  BY Zenon, <1>11, OutFrame DEF SettleDone
<1>12. ASSUME NEW r \in Rows, sem_reclaim_set(r)
       PROVE  OutInv'
  BY Zenon, <1>12, OutFrame DEF sem_reclaim_set
<1>13. CASE sem_do_ctl_read
  <2>1. /\ pc = "act" /\ call[cur].op # "semop" /\ UNCHANGED <<cl, call, applied>>
        /\ \E r \in Results : Finish(r)
    BY <1>13 DEF sem_do_ctl_read, Results, Errnos
  <2> QED  BY <2>1, OutFinish
<1>14. CASE sem_do_ctl_setval
  <2>1. /\ pc = "act" /\ call[cur].op = "setval" /\ UNCHANGED <<cl, call, applied>>
        /\ \E r \in Results : Finish(r)
    BY <1>14 DEF sem_do_ctl_setval, Results, Errnos
  <2> QED  BY <2>1, OutFinish
<1>15. CASE sem_do_ctl_rmid
  <2>1. pc = "act" /\ call[cur].op = "rmid" /\ UNCHANGED <<cl, call, applied>> /\ "EPERM" \in Results
    BY <1>15 DEF sem_do_ctl_rmid, Results, Errnos
  <2>2. CASE pc' = "eidrm" /\ UNCHANGED <<srv, reply>>
    BY <2>1, <2>2, OutFrame
  <2>3. CASE Finish("EPERM")
    BY <2>1, <2>3, OutFinish
  <2> QED  BY Zenon, <1>15, <2>2, <2>3 DEF sem_do_ctl_rmid
<1>16. CASE sem_free_set
  <2>1. /\ pc = "eidrm" /\ UNCHANGED <<cl, call, applied>> /\ Finish("ok")
        /\ "ok" \in Results /\ srv[cur] = "serving" /\ cur \in Conns
    BY <1>16, CurTypes DEF sem_free_set, Results, ConnInv, Serving
  <2>2. call[cur].op # "semop"
    BY <2>1 DEF RmidInv
  <2> QED  BY <2>1, <2>2, OutFinish
<1>17. ASSUME NEW k \in 1..Len(waitq), waiters_eidrm(k)
       PROVE  OutInv'
  <2>1. pc = "eidrm" /\ UNCHANGED <<pc, cl, call, applied>> /\ Answer(waitq[k].c, "EIDRM")
    BY Zenon, <1>17 DEF waiters_eidrm
  <2> QED  BY Zenon, <1>e, <2>1, ParkedConn, OutAnswer
<1>18. CASE serve_semop
  <2>1. pc = "act" /\ UNCHANGED <<cl, call, applied>>
    BY <1>18 DEF serve_semop
  <2>2. CASE BeginTry(cur, call[cur].id) /\ UNCHANGED <<srv, reply>>
    BY <2>1, <2>2, OutFrame DEF BeginTry
  <2>3. CASE \E r \in Results \ {"ok"} : Finish(r)
    BY Zenon, <2>1, <2>3, OutFinish
  <2>4. \/ BeginTry(cur, call[cur].id) /\ UNCHANGED <<srv, reply>>
        \/ \E r \in Results \ {"ok"} : Finish(r)
    BY <1>18 DEF serve_semop, Results, Errnos
  <2> QED  BY <2>2, <2>3, <2>4
<1>19. CASE sem_try_op
  <2>1. UNCHANGED <<cl, applied, reply, srv, call>> /\ pc = "try" /\ pc' \in {"try", "back"}
    BY Zenon, <1>19 DEF sem_try_op
  <2> QED  BY <2>1, OutFrame
<1>20. CASE sem_try_op_rollback
  BY Zenon, <1>20, OutFrame DEF sem_try_op_rollback
<1>21. CASE sem_try_op_end
  BY <1>21, OutTryEnd
<1>22. CASE serve_semop_result
  BY <1>22, OutServed
<1>23. CASE cng_ipc_rescan_visit
  BY <1>23, OutRescan
<1>24. CASE cng_ipc_rescan_result
  BY <1>24, OutRescan
<1>25. CASE cng_ipc_rescan_pass
  <2>1. /\ UNCHANGED <<cl, applied, reply, srv, call>> /\ pc = "rescan"
        /\ pc' = pc \/ pc' = after
    BY <1>25, Zenon DEF cng_ipc_rescan_pass
  <2>2. after \in {"expire", "poll"}
    BY DEF TypeOK, ControlTypes
  <2> QED  BY <2>1, <2>2, OutFrame
<1>26. ASSUME NEW k \in 1..Len(waitq), cng_ipc_expire(k)
       PROVE  OutInv'
  <2>1. pc = "expire" /\ UNCHANGED <<pc, cl, call, applied>> /\ Answer(waitq[k].c, "EAGAIN")
    BY Zenon, <1>26 DEF cng_ipc_expire
  <2> QED  BY Zenon, <1>e, <2>1, ParkedConn, OutAnswer
<1>27. ASSUME NEW k \in 1..Len(waitq), cng_ipc_reclaim_waiter(k)
       PROVE  OutInv'
  <2>1. pc = "reclaim_waiters" /\ UNCHANGED <<pc, res, cur, cl, call, applied>>
    BY <1>27 DEF cng_ipc_reclaim_waiter
  <2>2. CASE Drop(waitq[k].c)
    BY Zenon, <2>1, <2>2, ParkedConn, OutDrop
  <2>3. CASE UNCHANGED <<srv, reply>>
    BY Zenon, <2>1, <2>3, OutFrame
  <2> QED  BY Zenon, <1>27, <2>2, <2>3 DEF cng_ipc_reclaim_waiter
<1>28. CASE NoTick
  BY Zenon, <1>28, OutFrame DEF NoTick
<1>29. CASE Tick
  BY Zenon, <1>29, OutFrame DEF Tick
<1>30. CASE ReclaimRows
  BY Zenon, <1>30, OutFrame DEF ReclaimRows
<1>31. CASE cng_ipc_reclaim_end
  BY Zenon, <1>31, OutFrame DEF cng_ipc_reclaim_end, StartRescan
<1>32. ASSUME NEW r \in Rows, cng_ipc_reclaim_undo(r)
       PROVE  OutInv'
  BY Zenon, <1>32, OutFrame DEF cng_ipc_reclaim_undo
<1>33. CASE Clients
  BY <1>33, OutClients, Zenon
<1> QED
  BY Zenon, <1>1, <1>2, <1>3, <1>4, <1>5, <1>6, <1>7, <1>8, <1>9, <1>10, <1>11, <1>12,
     <1>13, <1>14, <1>15, <1>16, <1>17, <1>18, <1>19, <1>20, <1>21, <1>22, <1>23,
     <1>24, <1>25, <1>26, <1>27, <1>28, <1>29, <1>30, <1>31, <1>32, <1>33
  DEF Next, Daemon

-----------------------------------------------------------------------------
(* The sleepers.                                                           *)

\* What parked vectors are measured against stays where it is.
Footing == \A c \in Conns, d \in Ids : Baseline(c, d)' = Baseline(c, d)

\* No attempt in flight, and no value changed.
LEMMA FootingKept ==
    ASSUME UNCHANGED <<sets, undo>>, pc \notin Trying, pc' \notin Trying
    PROVE  Footing
BY DEF Footing, Baseline, State

\* A waiter whose footing and call are what they were is blocked as it was.
LEMMA AsleepMoved ==
    ASSUME TypeOK, Footing, NEW k \in 1..Len(waitq), NEW j \in Nat, Asleep(waitq[k]),
           waitq'[j] = waitq[k], call'[waitq[k].c] = call[waitq[k].c]
    PROVE  Asleep(waitq[j])'
<1> DEFINE w == waitq[k]
<1>1. w.c \in Conns /\ w.id \in Ids
  BY ParkedType DEF WaiterType
<1>2. ASSUME NEW c \in Conns, NEW d \in Ids, c = w.c, d = w.id
      PROVE  Baseline(w.c, w.id) = (Baseline(waitq[j].c, waitq[j].id))'
  <2>1. Baseline(c, d)' = Baseline(c, d)
    BY Zenon DEF Footing
  <2>2. Baseline(w.c, w.id) = Baseline(c, d)
    BY Zenon, <1>2
  <2>3. waitq'[j].c = c /\ waitq'[j].id = d
    BY <1>2
  <2>4. (Baseline(waitq[j].c, waitq[j].id))' = Baseline(c, d)'
    BY Zenon, <2>3 DEF Baseline, State
  <2> QED  BY Zenon, <2>1, <2>2, <2>4
<1> QED  BY <1>1, <1>2, Zenon DEF Asleep

\* The waiters stay where they are.
LEMMA WakeFrame ==
    ASSUME TypeOK, WakeInv, Footing, UNCHANGED <<waitq, progress, pos>>,
           \A k \in 1..Len(waitq) : call'[waitq[k].c] = call[waitq[k].c],
           \/ UNCHANGED pc /\ (pc \in Trying /\ srv'[cur'] = "parked" => srv[cur] = "parked")
           \/ /\ pc \in {"poll", "expire", "reclaim_waiters"}
              /\ pc' \in {"poll", "expire", "reclaim_waiters", "reclaim_undo"}
    PROVE  WakeInv'
<1>1. ASSUME NEW k \in 1..Len(waitq), Asleep(waitq[k])
      PROVE  Asleep(waitq[k])'
  <2>1. k \in Nat
    BY DEF TypeOK, RegistryTypes
  <2> QED  BY <1>1, <2>1, AsleepMoved
<1>2. (\A k \in 1..Len(waitq) : Asleep(waitq[k])) => (\A k \in 1..Len(waitq) : Asleep(waitq[k]))'
  BY <1>1
<1>3. (\A k \in 1..Len(waitq) : k <= pos => Asleep(waitq[k]))
         => (\A k \in 1..Len(waitq) : k <= pos => Asleep(waitq[k]))'
  BY <1>1
<1> QED  BY <1>2, <1>3, Zenon DEF WakeInv, Trying

\* A rescan starts, or the daemon is where it is about to start one.
LEMMA WakeRestart ==
    ASSUME \/ pc' = "rescan" /\ pos' = 0
           \/ pc' = "rescan" /\ progress' = 1
           \/ pc' = "reclaim_undo" /\ progress' = 1
           \/ pc' \in {"ready", "accept"} \cup Serving
           \/ pc' \in Trying /\ srv'[cur'] = "serving"
    PROVE  WakeInv'
<1>1. \A k \in 1..Len(waitq)' : ~(k <= 0)
  OBVIOUS
<1> QED  BY <1>1 DEF WakeInv, Serving, Trying

\* A waiter leaves the table in between rescans.
LEMMA WakeRemove ==
    ASSUME TypeOK, WakeInv, UNCHANGED <<sets, undo, call, pc, progress>>,
           NEW k \in 1..Len(waitq), waitq' = RemoveWaiter(k),
           pc \in {"expire", "reclaim_waiters"}
    PROVE  WakeInv'
<1>1. Footing
  BY FootingKept DEF Trying
<1>2. ASSUME NEW j \in 1..Len(waitq)'
      PROVE  Asleep(waitq[j])'
  <2>1. PICK i \in 1..Len(waitq) : waitq'[j] = waitq[i]
    <3>1. Len(waitq) \in Nat /\ Len(waitq') = Len(waitq) - 1
      BY RemoveWaiterSeq DEF TypeOK, RegistryTypes
    <3>2. waitq'[j] = IF j < k THEN waitq[j] ELSE waitq[j + 1]
      BY RemoveWaiterSeq
    <3>3. j \in 1..Len(waitq) /\ j + 1 \in 1..Len(waitq)
      BY <1>2, <3>1
    <3> QED  BY Zenon, <3>2, <3>3
  <2>2. Asleep(waitq[i]) /\ j \in Nat
    BY <1>2 DEF WakeInv
  <2> QED  BY Zenon, <1>1, <2>1, <2>2, AsleepMoved
<1> QED  BY <1>2 DEF WakeInv, Trying

\* An attempt changes what it is itself measured against, and nothing else.
LEMMA FootingTry ==
    ASSUME TypeOK, pc \in Trying, pc' \in Trying, UNCHANGED <<cur, call>>,
           trail'[1] = trail[1],
           \A d \in Ids : d # call[cur].id => sets'[d] = sets[d],
           \A s \in Rows : s # ThisRow => undo'[s] = undo[s]
    PROVE  Footing
<1> SUFFICES ASSUME NEW c \in Conns, NEW d \in Ids
             PROVE  Baseline(c, d)' = Baseline(c, d)
  BY DEF Footing
<1>1. <<c[1], d>> \in Rows
  BY Zenon DEF Conns, Rows
<1>2. CASE d = call[cur].id /\ c[1] = cur[1]
  BY Zenon, <1>2 DEF Baseline
<1>3. CASE d = call[cur].id /\ c[1] # cur[1]
  <2>1. undo'[<<c[1], d>>] = undo[<<c[1], d>>]
    BY Zenon, <1>1, <1>3 DEF ThisRow
  <2> QED  BY Zenon, <1>3, <2>1 DEF Baseline
<1>4. CASE d # call[cur].id
  <2>1. undo'[<<c[1], d>>] = undo[<<c[1], d>>] /\ sets'[d] = sets[d]
    BY Zenon, <1>1, <1>4 DEF ThisRow
  <2> QED  BY Zenon, <1>4, <2>1 DEF Baseline, State
<1> QED  BY Zenon, <1>2, <1>3, <1>4

\* An operation of the vector being tried, or its rollback.
LEMMA WakeTry ==
    ASSUME TypeOK, ConnInv, TryInv, WakeInv, sem_try_op \/ sem_try_op_rollback \/ sem_try_op_end
    PROVE  WakeInv'
<1>1. /\ UNCHANGED <<waitq, call, cur, progress, pos, srv>> /\ pc \in Trying /\ pc' \in Trying
  BY DEF sem_try_op, sem_try_op_rollback, sem_try_op_end, Trying
<1>2. trail \in Seq(States) /\ trail # <<>> /\ ThisRow \in Rows /\ call[cur].id \in Ids
  BY <1>1, CurTypes DEF TryInv, TypeOK, ControlTypes, ThisRow
<1>3. ASSUME sem_try_op
      PROVE  Footing
  <2>1. CASE \E u : Taken(u)
    <3>1. PICK u : Taken(u)
      BY <2>1
    <3>2. trail'[1] = trail[1]
      BY <1>2, <3>1 DEF Taken
    <3> QED  BY <1>1, <1>2, <3>1, <3>2, FootingTry DEF Taken, TypeOK, RegistryTypes
  <2>2. CASE Refused
    BY Zenon, <1>1, <1>2, <2>2, FootingTry DEF Refused, TypeOK, RegistryTypes
  <2> QED  BY <1>3, <2>1, <2>2, TryOpCases
<1>4. ASSUME sem_try_op_rollback
      PROVE  Footing
  BY <1>1, <1>2, <1>4, FootingTry DEF sem_try_op_rollback, Store, ThisRow, TypeOK, RegistryTypes
<1>5. ASSUME sem_try_op_end
      PROVE  Footing
  BY <1>1, <1>5, FootingTry DEF sem_try_op_end
<1>6. Footing
  BY <1>3, <1>4, <1>5
<1>7. \A k \in 1..Len(waitq) : Asleep(waitq[k]) => Asleep(waitq[k])'
  <2> TAKE k \in 1..Len(waitq)
  <2>1. k \in Nat
    BY DEF TypeOK, RegistryTypes
  <2> QED  BY <1>1, <1>6, <2>1, AsleepMoved
<1> QED  BY Zenon, <1>1, <1>7 DEF WakeInv, Trying

\* A sleeper's vector is tried again, from the values as they stand.
LEMMA WakeVisit ==
    ASSUME TypeOK, ConnInv, WakeInv, cng_ipc_rescan_visit
    PROVE  WakeInv'
<1> DEFINE v == waitq[pos + 1]
<1>1. pc = "rescan" /\ pos + 1 \in 1..Len(waitq) /\ UNCHANGED <<sets, undo, call, pos>>
  BY DEF cng_ipc_rescan_visit, TypeOK, ControlTypes, RegistryTypes
<1>2. CASE progress' = 1 /\ UNCHANGED pc
  BY Zenon, <1>1, <1>2, WakeRestart
<1>3. CASE BeginTry(v.c, v.id) /\ cur' = v.c /\ UNCHANGED <<waitq, srv, reply, progress>>
  <2>1. v.c \in Conns /\ v.id \in Ids /\ v.id = call[v.c].id
    BY <1>1, ParkedType DEF WaiterType, ConnInv
  <2>2. pc' \in Trying /\ trail' = <<State(v.c, v.id)>>
    BY <1>3, Zenon DEF BeginTry, Trying
  <2>3. Footing
    <3> SUFFICES ASSUME NEW c \in Conns, NEW d \in Ids
                 PROVE  Baseline(c, d)' = Baseline(c, d)
      BY DEF Footing
    <3>1. Baseline(c, d) = State(c, d)
      BY <1>1 DEF Baseline, Trying
    <3>2. trail'[1] = State(v.c, v.id)
      BY Zenon, <2>2
    <3>3. CASE d = v.id
      BY Zenon, <1>1, <1>3, <2>1, <2>2, <3>1, <3>2, <3>3 DEF Baseline, State
    <3>4. CASE d # v.id
      BY Zenon, <1>1, <1>3, <2>1, <2>2, <3>1, <3>4 DEF Baseline, State
    <3> QED  BY <3>3, <3>4
  <2>4. \A k \in 1..Len(waitq) : Asleep(waitq[k]) => Asleep(waitq[k])'
    <3> TAKE k \in 1..Len(waitq)
    <3>1. k \in Nat
      BY DEF TypeOK, RegistryTypes
    <3> QED  BY Zenon, <1>1, <1>3, <2>3, <3>1, AsleepMoved
  <2> QED  BY <1>1, <1>3, <2>2, <2>4 DEF WakeInv, Trying
<1> QED  BY <1>2, <1>3, Zenon DEF cng_ipc_rescan_visit

\* Its attempt is over.  Had it blocked, the values are back and the trail of the
\* attempt is the new witness; otherwise another pass is owed.
LEMMA WakeResult ==
    ASSUME TypeOK, ConnInv, TryInv, WakeInv, cng_ipc_rescan_result
    PROVE  WakeInv'
<1>1. pc = "fin" /\ srv[cur] = "parked" /\ pc' = "rescan" /\ UNCHANGED <<sets, undo, call>>
  BY DEF cng_ipc_rescan_result
<1>2. CASE res # "block"
  BY <1>1, <1>2, WakeRestart DEF cng_ipc_rescan_result
<1>3. CASE res = "block"
  <2>1. /\ waitq' = [waitq EXCEPT ![pos + 1].blk = Len(trail), ![pos + 1].trail = trail]
        /\ pos' = pos + 1 /\ UNCHANGED progress
    BY <1>3, Zenon DEF cng_ipc_rescan_result
  <2>2. /\ pos + 1 \in 1..Len(waitq) /\ waitq[pos + 1].c = cur /\ pos \in Nat
        /\ waitq[pos + 1].id = call[cur].id /\ cur \in Conns /\ call[cur].id \in Ids
    <3>1. pos < Len(waitq) /\ waitq[pos + 1].c = cur
      BY Zenon, <1>1 DEF ConnInv, Trying
    <3>2. pos \in Nat /\ Len(waitq) \in Nat
      BY DEF TypeOK, ControlTypes, RegistryTypes
    <3>3. pos + 1 \in 1..Len(waitq)
      BY <3>1, <3>2
    <3>4. waitq[pos + 1].id = call[waitq[pos + 1].c].id
      BY Zenon, <3>3 DEF ConnInv
    <3> QED  BY Zenon, <3>1, <3>2, <3>3, <3>4, CurTypes
  <2>3. /\ trail \in Seq(States) /\ trail # <<>> /\ Chain(trail, call[cur].sops)
        /\ State(cur, call[cur].id) = trail[1]
        /\ Len(trail) <= Len(call[cur].sops)
        /\ Blocks(trail[Len(trail)], call[cur].sops[Len(trail)])
    BY Zenon, <1>1, <1>3 DEF TryInv, Trying, TypeOK, ControlTypes
  <2>4. Footing
    <3> SUFFICES ASSUME NEW c \in Conns, NEW d \in Ids
                 PROVE  Baseline(c, d)' = Baseline(c, d)
      BY Zenon DEF Footing
    <3>1. Baseline(c, d)' = State(c, d)
      BY <1>1 DEF Baseline, Trying, State
    <3>2. CASE d = call[cur].id
      <4>1. trail[1].val = sets[d].val /\ trail[1].adj = undo[<<cur[1], d>>].adj
        BY <2>3, <3>2 DEF State
      <4>2. Baseline(c, d) = [val |-> sets[d].val, adj |-> undo[<<c[1], d>>].adj]
        BY <1>1, <3>2, <4>1 DEF Baseline, Trying
      <4> QED  BY Zenon, <3>1, <4>2 DEF State
    <3>3. CASE d # call[cur].id
      BY Zenon, <3>1, <3>3 DEF Baseline
    <3> QED  BY <3>2, <3>3
  <2>5. ASSUME NEW k \in 1..Len(waitq), k # pos + 1, Asleep(waitq[k])
        PROVE  Asleep(waitq[k])'
    <3>1. k \in Nat /\ waitq'[k] = waitq[k]
      BY <2>1, <2>2, <2>5, ReparkSeq DEF TypeOK, RegistryTypes
    <3> QED  BY <1>1, <2>4, <2>5, <3>1, AsleepMoved
  <2>6. ASSUME NEW i \in Nat, i = pos + 1
        PROVE  Asleep(waitq[i])'
    <3> DEFINE v == waitq'[i]
    <3>1. v.c = cur /\ v.id = call[cur].id /\ v.blk = Len(trail) /\ v.trail = trail
      BY <2>1, <2>2, <2>6, ReparkSeq
    <3>2. Len(trail) \in 1..Len(call[cur].sops)
      BY <2>3, CurTypes
    <3>3. Witness(v, call[cur].sops, State(cur, call[cur].id))
      BY Zenon, <2>3, <3>1, <3>2 DEF Witness
    <3>4. (Baseline(waitq[i].c, waitq[i].id))' = State(cur, call[cur].id)
      BY Zenon, <1>1, <3>1 DEF Baseline, State, Trying
    <3>5. call'[v.c].sops = call[cur].sops
      BY <1>1, <3>1
    <3> QED  BY Zenon, <3>3, <3>4, <3>5 DEF Asleep
  <2>7. Len(waitq') = Len(waitq)
    BY <2>1, <2>2, ReparkSeq
  <2>8. ASSUME progress = 0, NEW k \in 1..Len(waitq)', k <= pos'
        PROVE  Asleep(waitq[k])'
    <3>1. k \in Nat /\ k \in 1..Len(waitq) /\ (k = pos + 1 \/ (k # pos + 1 /\ k <= pos))
      BY <2>1, <2>2, <2>7, <2>8
    <3>2. k <= pos => Asleep(waitq[k])
      BY <1>1, <2>8, <3>1 DEF WakeInv, Trying
    <3> QED  BY <2>5, <2>6, <3>1, <3>2, Zenon
  <2> QED  BY Zenon, <1>1, <2>1, <2>8 DEF WakeInv, Trying
<1> QED  BY <1>2, <1>3

\* The end of a pass: the next one starts over, or nothing has changed.
LEMMA WakePass ==
    ASSUME TypeOK, WakeInv, cng_ipc_rescan_pass
    PROVE  WakeInv'
<1>1. /\ pc = "rescan" /\ pos = Len(waitq) /\ pos' = 0 /\ progress' = 0
      /\ UNCHANGED <<sets, undo, waitq, call>>
  BY Zenon DEF cng_ipc_rescan_pass
<1>2. CASE pc' = "rescan"
  BY Zenon, <1>1, <1>2, WakeRestart
<1>3. CASE pc' = after /\ ~AnotherPass
  <2>1. after \in {"expire", "poll"} /\ Len(waitq) \in Nat /\ progress \in {0, 1}
    BY DEF TypeOK, ControlTypes, RegistryTypes
  <2>2. Footing
    BY Zenon, <1>1, <1>3, <2>1, FootingKept DEF Trying
  <2>3. ASSUME NEW k \in 1..Len(waitq)
        PROVE  Asleep(waitq[k])'
    <3>1. waitq # <<>> /\ k \in Nat
      BY <2>1, <2>3
    <3>2. progress = 0
      BY <1>3, <2>1, <3>1 DEF AnotherPass
    <3>3. Asleep(waitq[k])
      BY <1>1, <2>1, <3>2 DEF WakeInv
    <3> QED  BY <1>1, <2>2, <3>1, <3>3, AsleepMoved
  <2> QED  BY Zenon, <1>1, <1>3, <2>1, <2>3 DEF WakeInv, Trying
<1> QED  BY <1>1, <1>2, <1>3, Zenon DEF cng_ipc_rescan_pass

\* The reclaim applies an undo row, or leaves it; applying one owes a rescan.
LEMMA WakeReclaim ==
    ASSUME TypeOK, WakeInv, NEW r \in Rows, cng_ipc_reclaim_undo(r)
    PROVE  WakeInv'
<1>1. pc = "reclaim_undo" /\ pc' = pc /\ UNCHANGED <<waitq, call, pos>>
  BY DEF cng_ipc_reclaim_undo
<1>2. CASE progress' = 1
  BY <1>1, <1>2, WakeRestart
<1>3. CASE UNCHANGED <<sets, undo, progress>>
  <2>1. Footing
    BY <1>1, <1>3, FootingKept DEF Trying
  <2> QED  BY <1>1, <1>3, <2>1, WakeFrame DEF Trying
<1> QED  BY <1>2, <1>3, Zenon DEF cng_ipc_reclaim_undo

\* The end of the reclaim.
LEMMA WakeReclaimed ==
    ASSUME TypeOK, WakeInv, cng_ipc_reclaim_end
    PROVE  WakeInv'
<1>1. pc = "reclaim_undo" /\ UNCHANGED <<sets, undo, waitq, call>>
  BY DEF cng_ipc_reclaim_end
<1>2. CASE StartRescan("poll")
  BY <1>2, WakeRestart DEF StartRescan
<1>3. CASE ~UndoWakes /\ pc' = "poll" /\ progress' = 0
  <2>1. Footing
    BY <1>1, <1>3, FootingKept DEF Trying
  <2>2. progress = 0
    BY Zenon, <1>3 DEF UndoWakes, TypeOK, ControlTypes
  <2>3. ASSUME NEW k \in 1..Len(waitq)
        PROVE  Asleep(waitq[k])'
    <3>1. k \in Nat /\ Asleep(waitq[k])
      BY <1>1, <2>2 DEF WakeInv, TypeOK, RegistryTypes
    <3> QED  BY Zenon, <1>1, <2>1, <3>1, AsleepMoved
  <2> QED  BY <1>1, <1>3, <2>3 DEF WakeInv, Trying
<1> QED  BY <1>2, <1>3, Zenon DEF cng_ipc_reclaim_end

\* Nothing a client does touches what a sleeper waits for.
LEMMA WakeClients ==
    ASSUME TypeOK, ConnInv, WakeInv, Clients
    PROVE  WakeInv'
<1>1. UNCHANGED <<sets, undo, waitq, pc, cur, trail, progress, pos>>
  BY Zenon DEF Clients, Call, Restart, Receive, Interrupt, Die, Reap, Reuse, DeadlinePass
<1>2. ASSUME NEW c \in Conns, srv[c] \in {"serving", "parked"}
      PROVE  call'[c] = call[c] /\ srv'[c] = srv[c]
  <2>1. ASSUME NEW p \in Pids, NEW b \in BOOLEAN, Call(p, b)
        PROVE  call'[c] = call[c] /\ srv'[c] = srv[c]
    <3>1. Me(p) # c
      BY Zenon, <1>2, <2>1 DEF Call, ConnInv
    <3> QED  BY Zenon, <2>1, <3>1 DEF Call, Connect, TypeOK, ClientTypes, ConnTypes
  <2>2. ASSUME NEW p \in Pids, NEW b \in BOOLEAN, Restart(p, b)
        PROVE  call'[c] = call[c] /\ srv'[c] = srv[c]
    <3>1. Me(p) # c
      BY Zenon, <1>2, <2>2 DEF Restart, ConnInv
    <3> QED  BY Zenon, <2>2, <3>1 DEF Restart, Connect, TypeOK, ConnTypes
  <2>3. ASSUME NEW p \in Pids, Receive(p)
        PROVE  call'[c] = call[c] /\ srv'[c] = srv[c]
    <3>1. Me(p) # c
      BY <1>2, <2>3 DEF Receive
    <3> QED  BY Zenon, <2>3, <3>1 DEF Receive, TypeOK, ClientTypes, ConnTypes
  <2> QED
    BY Zenon, <2>1, <2>2, <2>3 DEF Clients, Interrupt, Die, Reap, Reuse, DeadlinePass
<1>3. \A k \in 1..Len(waitq) : call'[waitq[k].c] = call[waitq[k].c]
  BY Zenon, <1>2, ParkedConn
<1>4. pc \in Trying => cur \in Conns /\ srv[cur] \in {"serving", "parked"}
  BY Zenon, CurTypes DEF ConnInv
<1>5. pc \in Trying => call'[cur] = call[cur] /\ srv'[cur] = srv[cur]
  BY <1>2, <1>4
<1>6. Footing
  BY <1>1, <1>5 DEF Footing, Baseline, State
<1> QED  BY Zenon, <1>1, <1>3, <1>5, <1>6, WakeFrame

\* No step breaks WakeInv.
LEMMA WakeStep ==
    ASSUME TypeOK, ConnInv, TryInv, WakeInv, [Next]_vars
    PROVE  WakeInv'
<1>1. CASE UNCHANGED vars
  <2>1. Footing
    BY <1>1 DEF vars, Footing, Baseline, State
  <2> QED  BY Zenon, <1>1, <2>1, WakeFrame DEF vars
<1>2. ASSUME PollTimeout \/ NoTick \/ Tick \/ ReclaimRows
      PROVE  WakeInv'
  <2>1. /\ pc \in {"poll", "expire", "reclaim_waiters"}
        /\ pc' \in {"poll", "expire", "reclaim_waiters", "reclaim_undo"}
        /\ UNCHANGED <<sets, undo, waitq, call, progress, pos>>
    BY <1>2 DEF PollTimeout, NoTick, Tick, ReclaimRows
  <2>2. Footing
    BY <2>1, FootingKept DEF Trying
  <2> QED  BY Zenon, <2>1, <2>2, WakeFrame
<1>3. ASSUME NEW k \in 1..Len(waitq), cng_ipc_expire(k)
      PROVE  WakeInv'
  BY Zenon, <1>3, WakeRemove DEF cng_ipc_expire
<1>4. ASSUME NEW k \in 1..Len(waitq), cng_ipc_reclaim_waiter(k)
      PROVE  WakeInv'
  <2>1. pc = "reclaim_waiters" /\ UNCHANGED <<sets, undo, call, pc, progress, pos>>
    BY Zenon, <1>4 DEF cng_ipc_reclaim_waiter
  <2>2. CASE waitq' = RemoveWaiter(k)
    BY Zenon, <2>1, <2>2, WakeRemove
  <2>3. CASE UNCHANGED waitq
    <3>1. Footing
      BY <2>1, FootingKept DEF Trying
    <3> QED  BY <2>1, <2>3, <3>1, WakeFrame DEF Trying
  <2> QED  BY Zenon, <1>4, <2>2, <2>3 DEF cng_ipc_reclaim_waiter
<1>5. ASSUME \/ PollWake \/ ReadyDone \/ Accept \/ sem_do_get_existing \/ sem_do_get_new
             \/ serve_semctl_setall \/ serve_lookup \/ SettleDone
      PROVE  WakeInv'
  BY Zenon, <1>5, WakeRestart DEF PollWake, ReadyDone, Accept, sem_do_get_existing, sem_do_get_new,
     serve_semctl_setall, serve_lookup, SettleDone, Finish, StartRescan, Serving
<1>6. ASSUME NEW k \in 1..Len(waitq), cng_ipc_poll_ready(k) \/ waiters_eidrm(k)
      PROVE  WakeInv'
  BY Zenon, <1>6, WakeRestart DEF cng_ipc_poll_ready, waiters_eidrm, Serving
<1>7. ASSUME NEW r \in Rows, sem_reclaim_set(r)
      PROVE  WakeInv'
  BY Zenon, <1>7, WakeRestart DEF sem_reclaim_set, Serving
<1>8. ASSUME sem_do_ctl_read \/ sem_do_ctl_setval \/ sem_do_ctl_rmid \/ sem_free_set
      PROVE  WakeInv'
  BY Zenon, <1>8, WakeRestart DEF sem_do_ctl_read, sem_do_ctl_setval, sem_do_ctl_rmid, sem_free_set,
     Finish, StartRescan, Serving
<1>9. CASE serve_semop
  <2>1. srv[cur] = "serving"
    BY Zenon, <1>9 DEF serve_semop, ConnInv, Serving
  <2> QED  BY Zenon, <1>9, <2>1, WakeRestart DEF serve_semop, BeginTry, Finish, StartRescan, Trying
<1>10. ASSUME sem_try_op \/ sem_try_op_rollback \/ sem_try_op_end
       PROVE  WakeInv'
  BY Zenon, <1>10, WakeTry
<1>11. CASE serve_semop_result
  BY Zenon, <1>11, WakeRestart DEF serve_semop_result, Finish, StartRescan
<1>12. CASE cng_ipc_rescan_visit
  BY Zenon, <1>12, WakeVisit
<1>13. CASE cng_ipc_rescan_result
  BY Zenon, <1>13, WakeResult
<1>14. CASE cng_ipc_rescan_pass
  BY Zenon, <1>14, WakePass
<1>15. CASE cng_ipc_reclaim_end
  BY Zenon, <1>15, WakeReclaimed
<1>16. ASSUME NEW r \in Rows, cng_ipc_reclaim_undo(r)
       PROVE  WakeInv'
  BY Zenon, <1>16, WakeReclaim
<1>17. CASE Clients
  BY Zenon, <1>17, WakeClients
<1> QED
  BY Zenon, <1>1, <1>2, <1>3, <1>4, <1>5, <1>6, <1>7, <1>8, <1>9, <1>10, <1>11, <1>12, <1>13,
     <1>14, <1>15, <1>16, <1>17
  DEF Next, Daemon
=============================================================================
