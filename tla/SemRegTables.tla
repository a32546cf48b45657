---------------------------- MODULE SemRegTables ----------------------------
(***************************************************************************)
(* Who is where (ConnInv) and what the tables of the registry say of each  *)
(* other (RegInv) are preserved by every step, for every value of the      *)
(* constants.                                                              *)
(***************************************************************************)
EXTENDS SemRegTypes

USE DEF proc, regvars, tryvars, scan, client, conns, hist, daemon

-----------------------------------------------------------------------------
(* Connections.                                                            *)

\* Taking waiter k out of the table and closing its connection.
LEMMA RemoveConn ==
    ASSUME TypeOK, ConnInv, NEW k \in 1..Len(waitq), waitq' = RemoveWaiter(k),
           srv' = [srv EXCEPT ![waitq[k].c] = "closed"],
           UNCHANGED <<cl, call, backlog, accq>>,
           \/ UNCHANGED <<pc, cur>> /\ pc \notin Trying
           \/ pc' = "rescan" /\ pc \in Trying /\ srv[cur] # "serving"
    PROVE  ConnInv'
<1>1. srv[waitq[k].c] = "parked" /\ waitq[k].c \in Conns
  BY Zenon, ParkedType DEF ConnInv
<1>2. \A j \in 1..Len(backlog) : backlog[j] \in Conns
  BY DEF TypeOK, ConnTypes
<1>3. \A j \in 1..Len(waitq)' : /\ waitq'[j] = IF j < k THEN waitq[j] ELSE waitq[j + 1]
                                /\ j \in 1..Len(waitq) /\ j + 1 \in 1..Len(waitq)
                                /\ j \in Int
  <2>1. Len(waitq) \in Nat /\ Len(waitq)' = Len(waitq) - 1
    BY RemoveWaiterSeq DEF TypeOK, RegistryTypes
  <2> QED  BY <2>1, RemoveWaiterSeq
<1>4. \A j \in 1..Len(waitq) : waitq[j].c \in Conns /\ (j # k => waitq[j].c # waitq[k].c)
  BY Zenon, ParkedType DEF ConnInv
<1>5. k \in Int /\ \A c \in Conns : srv'[c] = IF c = waitq[k].c THEN "closed" ELSE srv[c]
  BY <1>1 DEF TypeOK, ConnTypes
<1>6. \A c \in Conns : srv'[c] = "serving" => srv[c] = "serving"
  BY <1>5
<1>7. srv[cur] = "serving" => srv'[cur] = "serving"
  BY Zenon, <1>1, <1>5 DEF TypeOK, ControlTypes
<1>8. (\A c \in Conns : cl[c] \in {"idle", "again"} => srv[c] = "none")'
  BY <1>1, <1>5 DEF ConnInv
<1>9. (\A j \in 1..Len(backlog) : srv[backlog[j]] \in {"queued", "broken"})'
  BY <1>1, <1>2, <1>5 DEF ConnInv
<1>10. (\A j \in 1..Len(waitq) : /\ srv[waitq[j].c] = "parked"
                                 /\ waitq[j].id = call[waitq[j].c].id
                                 /\ call[waitq[j].c].op = "semop")'
  <2>1. \A j \in 1..Len(waitq) : /\ srv[waitq[j].c] = "parked"
                                 /\ waitq[j].id = call[waitq[j].c].id
                                 /\ call[waitq[j].c].op = "semop"
    BY Zenon DEF ConnInv
  <2> SUFFICES ASSUME NEW j \in 1..Len(waitq)'
               PROVE  /\ srv'[waitq'[j].c] = "parked"
                      /\ waitq'[j].id = call'[waitq'[j].c].id
                      /\ call'[waitq'[j].c].op = "semop"
    OBVIOUS
  <2>2. PICK i \in 1..Len(waitq) : waitq'[j] = waitq[i] /\ i # k
    BY <1>3, <1>5
  <2>3. waitq[i].c \in Conns /\ waitq[i].c # waitq[k].c
    BY Zenon, <1>4, <2>2
  <2>4. srv'[waitq[i].c] = srv[waitq[i].c]
    BY Zenon, <1>5, <2>3
  <2> QED  BY Zenon, <2>1, <2>2, <2>4
<1>11. (\A i, j \in 1..Len(waitq) : waitq[i].c = waitq[j].c => i = j)'
  <2> SUFFICES ASSUME NEW i \in 1..Len(waitq)', NEW j \in 1..Len(waitq)',
                      waitq'[i].c = waitq'[j].c
               PROVE  i = j
    OBVIOUS
  <2> DEFINE Old(n) == IF n < k THEN n ELSE n + 1
  <2>1. /\ Old(i) \in 1..Len(waitq) /\ waitq'[i] = waitq[Old(i)]
        /\ Old(j) \in 1..Len(waitq) /\ waitq'[j] = waitq[Old(j)]
    BY Zenon, <1>3
  <2>2. Old(i) = Old(j)
    BY <2>1 DEF ConnInv
  <2> QED  BY <1>3, <1>5, <2>2
<1>12. (\A j, i \in 1..Len(backlog) : backlog[j] = backlog[i] => j = i)'
  BY DEF ConnInv
<1>13. pc' \notin Trying
  BY Zenon DEF Trying
<1>14. (\A c \in Conns : srv[c] = "serving" => c = cur /\ pc \in Serving \cup Trying)'
  BY Zenon, <1>6, <1>7 DEF ConnInv
<1>15. (pc \in Serving => srv[cur] = "serving")'
  BY Zenon, <1>7 DEF ConnInv, Serving
<1>16. ((pc = "accept" \/ accq = 1 => backlog # <<>>) /\ (accq = 1 => pc = "ready"))'
  BY DEF ConnInv, Serving, Trying
<1> QED  BY Zenon, <1>8, <1>9, <1>10, <1>11, <1>12, <1>13, <1>14, <1>15, <1>16 DEF ConnInv

\* What leaves the connections alone, and what only closes the one served.
LEMMA ConnFrame ==
    ASSUME ConnInv, UNCHANGED <<cl, call, backlog, waitq, srv, pc, cur, accq, pos>>
    PROVE  ConnInv'
BY DEF ConnInv

\* Answering the connection being served (cng_ipc_serve) and closing it.
LEMMA ConnFinish ==
    ASSUME TypeOK, ConnInv, srv[cur] = "serving", pc' = "rescan",
           srv' = [srv EXCEPT ![cur] = "closed"],
           UNCHANGED <<cl, call, backlog, waitq, accq>>
    PROVE  ConnInv'
<1>1. \A c \in Conns : srv'[c] = IF c = cur THEN "closed" ELSE srv[c]
  BY DEF TypeOK, ConnTypes, ControlTypes
<1>2. \A j \in 1..Len(backlog) : backlog[j] \in Conns
  BY DEF TypeOK, ConnTypes
<1>3. \A j \in 1..Len(waitq) : waitq[j].c \in Conns
  BY Zenon, ParkedType
<1> QED  BY <1>1, <1>2, <1>3 DEF ConnInv, Serving, Trying, TypeOK, ControlTypes

\* The end of any handler that answers at once.
LEMMA ConnFinishes ==
    ASSUME TypeOK, ConnInv, pc \in {"serve", "act", "eidrm"}, pc' = "rescan",
           srv' = [srv EXCEPT ![cur] = "closed"], UNCHANGED <<cl, call, backlog, waitq, accq>>
    PROVE  ConnInv'
<1>1. srv[cur] = "serving"
  BY DEF ConnInv, Serving
<1> QED  BY <1>1, ConnFinish, Zenon

\* Steps of the daemon that touch no connection and serve none afterwards.
LEMMA ConnControl ==
    ASSUME ConnInv, UNCHANGED <<cl, call, backlog, waitq, srv, cur, accq, pos>>,
           \/ pc \in Serving /\ pc' \in Serving \cup Trying
           \/ pc \in Trying /\ pc' \in Trying
    PROVE  ConnInv'
BY DEF ConnInv, Serving, Trying

\* accept in broker_main: the head of the backlog becomes the one served.
LEMMA ConnAccept ==
    ASSUME TypeOK, ConnInv, Accept
    PROVE  ConnInv'
<1> DEFINE c0 == Head(backlog)
<1>1. backlog \in Seq(Conns) /\ backlog # <<>> /\ pc = "accept"
  BY DEF TypeOK, ConnTypes, ConnInv, Accept
<1>2. c0 \in Conns /\ c0 = backlog[1] /\ 1 \in 1..Len(backlog)
  BY <1>1
<1>3. /\ Len(backlog') = Len(backlog) - 1 /\ Len(backlog) \in Nat
      /\ \A j \in 1..Len(backlog') : backlog'[j] = backlog[j + 1]
  BY <1>1 DEF Accept
<1>4. \A j \in 1..Len(backlog') : /\ j + 1 \in 1..Len(backlog) /\ backlog[j + 1] \in Conns
                                  /\ backlog[j + 1] # c0
  BY <1>1, <1>2, <1>3 DEF ConnInv
<1>5. UNCHANGED <<cl, call, waitq, accq>> /\ srv[c0] \in {"queued", "broken"} /\ accq # 1
  BY Zenon, <1>1, <1>2 DEF ConnInv, Accept
<1>6. \/ srv' = [srv EXCEPT ![c0] = "serving"] /\ pc' = "serve" /\ cur' = c0
      \/ srv' = [srv EXCEPT ![c0] = "closed"] /\ pc' = "rescan"
  BY Zenon DEF Accept, Drop, StartRescan
<1>7. \A c \in Conns : srv'[c] = IF c = c0 THEN srv'[c0] ELSE srv[c]
  BY Zenon, <1>2, <1>6 DEF TypeOK, ConnTypes
<1>8. srv' [c0] \in {"serving", "closed"}
  BY Zenon, <1>2, <1>6 DEF TypeOK, ConnTypes
<1>9. (\A c \in Conns : srv[c] = "serving" => c = cur /\ pc \in Serving \cup Trying)'
  <2>1. \A c \in Conns : srv[c] # "serving"
    BY <1>1 DEF ConnInv, Serving, Trying
  <2> QED  BY <1>2, <1>6, <1>7, <2>1 DEF Serving, TypeOK, ConnTypes
<1>10. (pc \in Serving => srv[cur] = "serving")' /\ pc' \notin Trying
  BY <1>2, <1>6 DEF Serving, Trying, TypeOK, ConnTypes
<1>11. (\A c \in Conns : cl[c] \in {"idle", "again"} => srv[c] = "none")'
  BY Zenon, <1>2, <1>5, <1>7 DEF ConnInv
<1>12. (\A k \in 1..Len(backlog) : srv[backlog[k]] \in {"queued", "broken"})'
  BY <1>3, <1>4, <1>7 DEF ConnInv
<1>13. (\A j, k \in 1..Len(backlog) : backlog[j] = backlog[k] => j = k)'
  <2> SUFFICES ASSUME NEW j \in 1..Len(backlog'), NEW k \in 1..Len(backlog'),
                      backlog'[j] = backlog'[k]
               PROVE  j = k
    BY Zenon
  <2>1. /\ backlog[j + 1] = backlog[k + 1]
        /\ j + 1 \in 1..Len(backlog) /\ k + 1 \in 1..Len(backlog)
    BY <1>3, <1>4, Zenon
  <2>2. j + 1 = k + 1
    BY <2>1, Zenon DEF ConnInv
  <2> QED  BY <1>3, <2>2
<1>14. (\A k \in 1..Len(waitq) : /\ srv[waitq[k].c] = "parked"
                                 /\ waitq[k].id = call[waitq[k].c].id
                                 /\ call[waitq[k].c].op = "semop")'
  BY <1>2, <1>5, <1>7, ParkedType DEF ConnInv
<1>15. pc' # "accept"
  BY Zenon, <1>6
<1> QED  BY <1>5, <1>9, <1>10, <1>11, <1>12, <1>13, <1>14, <1>15 DEF ConnInv

\* A client connects; b: whether its request arrives whole.
LEMMA ConnConnect ==
    ASSUME TypeOK, ConnInv, NEW c \in Conns, NEW b \in BOOLEAN, cl[c] \in {"idle", "again"},
           Connect(c, b), UNCHANGED <<waitq, pc, cur, accq, pos>>,
           \A e \in Conns : e # c => call'[e] = call[e]
    PROVE  ConnInv'
<1>1. srv[c] = "none" /\ backlog \in Seq(Conns)
  BY DEF ConnInv, TypeOK, ConnTypes
<1>2. \A e \in Conns : srv'[e] = IF e = c THEN srv'[c] ELSE srv[e]
  BY DEF Connect, TypeOK, ConnTypes
<1>3. srv'[c] \in {"queued", "broken"}
  BY DEF Connect, TypeOK, ConnTypes
<1>4. \A e \in Conns : cl'[e] = IF e = c THEN "wait" ELSE cl[e]
  BY Zenon DEF Connect, TypeOK, ClientTypes
<1>5. /\ Len(backlog') = Len(backlog) + 1 /\ Len(backlog) \in Nat
      /\ \A j \in 1..Len(backlog) : backlog'[j] = backlog[j] /\ backlog[j] \in Conns /\ backlog[j] # c
      /\ backlog'[Len(backlog) + 1] = c
  BY <1>1 DEF Connect, ConnInv
<1>6. backlog' # <<>>
  BY <1>1 DEF Connect
<1>7. \A k \in 1..Len(waitq) : waitq[k].c \in Conns /\ waitq[k].c # c
  BY Zenon, <1>1, ParkedType DEF ConnInv
<1>8. cur # c \/ pc \notin Serving \cup Trying
  BY <1>1 DEF ConnInv
<1>9. cur \in Conns
  BY Zenon DEF TypeOK, ControlTypes
<1>10. (\A k \in 1..Len(backlog) : srv[backlog[k]] \in {"queued", "broken"})'
  BY <1>2, <1>3, <1>5 DEF ConnInv
<1>11. (\A j, k \in 1..Len(backlog) : backlog[j] = backlog[k] => j = k)'
  BY <1>5 DEF ConnInv
<1>12. /\ (\A e \in Conns : srv[e] = "serving" => e = cur /\ pc \in Serving \cup Trying)'
       /\ (pc \in Serving => srv[cur] = "serving")'
       /\ (pc \in Trying => srv[cur] \in {"serving", "parked"})'
  BY <1>2, <1>3, <1>8, <1>9 DEF ConnInv
<1>13. (\A e \in Conns : cl[e] \in {"idle", "again"} => srv[e] = "none")'
  BY Zenon, <1>2, <1>4 DEF ConnInv
<1>14. (\A k \in 1..Len(waitq) : /\ srv[waitq[k].c] = "parked"
                                 /\ waitq[k].id = call[waitq[k].c].id
                                 /\ call[waitq[k].c].op = "semop")'
  BY <1>2, <1>7 DEF ConnInv
<1>15. (pc \in Trying /\ srv[cur] = "parked" => pos < Len(waitq) /\ waitq[pos + 1].c = cur)'
  BY Zenon, <1>2, <1>8, <1>9 DEF ConnInv
<1> QED  BY <1>6, <1>10, <1>11, <1>12, <1>13, <1>14, <1>15 DEF ConnInv

\* Steps between two requests that leave the connection tables alone.
LEMMA ConnIdle ==
    ASSUME ConnInv, UNCHANGED <<cl, call, backlog, waitq, srv, accq>>,
           pc \notin Serving \cup Trying \cup {"ready"},
           pc' \notin Serving \cup Trying \cup {"accept"}
    PROVE  ConnInv'
BY DEF ConnInv

\* A client changes its mind, or dies, in a call.
LEMMA ConnClient ==
    ASSUME ConnInv, UNCHANGED <<call, backlog, waitq, srv, pc, cur, accq, pos>>,
           \A c \in Conns : cl'[c] \in {"idle", "again"} => cl[c] \in {"idle", "again"}
    PROVE  ConnInv'
BY DEF ConnInv

\* A client reads its answer and closes.
LEMMA ConnReceive ==
    ASSUME TypeOK, ConnInv, NEW p \in Pids, Receive(p)
    PROVE  ConnInv'
<1> DEFINE c == Me(p)
<1>1. c \in Conns /\ srv[c] = "closed"
  BY MeType DEF Receive
<1>2. \A e \in Conns : /\ srv'[e] = IF e = c THEN "none" ELSE srv[e]
                       /\ e # c => cl'[e] = cl[e] /\ call'[e] = call[e]
  BY <1>1 DEF Receive, TypeOK, ConnTypes, ClientTypes
<1>3. UNCHANGED <<backlog, waitq, pc, cur, accq, pos>>
  BY Zenon DEF Receive
<1>4. \A k \in 1..Len(waitq) : waitq[k].c \in Conns /\ waitq[k].c # c
  BY <1>1, ParkedType DEF ConnInv
<1>5. \A k \in 1..Len(backlog) : backlog[k] \in Conns
  BY DEF TypeOK, ConnTypes
<1>6. cur \in Conns
  BY Zenon DEF TypeOK, ControlTypes
<1> QED  BY <1>1, <1>2, <1>3, <1>4, <1>5, <1>6 DEF ConnInv

\* The served vector is parked.
LEMMA ConnPark ==
    ASSUME TypeOK, ConnInv, TryInv, pc = "fin", srv[cur] = "serving",
           waitq' = Append(waitq, Waiter(cur)), srv' = [srv EXCEPT ![cur] = "parked"],
           pc' = "rescan", UNCHANGED <<cl, call, backlog, accq>>
    PROVE  ConnInv'
<1>1. cur \in Conns /\ call[cur].op = "semop"
  BY DEF TypeOK, ControlTypes, TryInv, Trying
<1>2. \A e \in Conns : srv'[e] = IF e = cur THEN "parked" ELSE srv[e]
  BY Zenon, <1>1 DEF TypeOK, ConnTypes
<1>3. waitq \in Seq(WaiterType) /\ \A k \in 1..Len(waitq) : waitq[k].c \in Conns /\ waitq[k].c # cur
  BY ParkedType DEF ConnInv, TypeOK, RegistryTypes
<1>4. /\ Len(waitq') = Len(waitq) + 1 /\ Len(waitq) \in Nat
      /\ \A k \in 1..Len(waitq) : waitq'[k] = waitq[k]
      /\ waitq'[Len(waitq) + 1] = Waiter(cur)
  BY <1>3
<1>5. Waiter(cur).c = cur /\ Waiter(cur).id = call[cur].id
  BY Zenon DEF Waiter
<1>6. (\A k \in 1..Len(waitq) : /\ srv[waitq[k].c] = "parked"
                                /\ waitq[k].id = call[waitq[k].c].id
                                /\ call[waitq[k].c].op = "semop")'
  <2>1. \A k \in 1..Len(waitq) : /\ srv[waitq[k].c] = "parked"
                                 /\ waitq[k].id = call[waitq[k].c].id
                                 /\ call[waitq[k].c].op = "semop"
    BY Zenon DEF ConnInv
  <2> QED  BY <1>1, <1>2, <1>3, <1>4, <1>5, <2>1
<1>7. (\A j, k \in 1..Len(waitq) : waitq[j].c = waitq[k].c => j = k)'
  <2>1. \A j, k \in 1..Len(waitq) : waitq[j].c = waitq[k].c => j = k
    BY Zenon DEF ConnInv
  <2> QED  BY <1>3, <1>4, <1>5, <2>1
<1>8. \A k \in 1..Len(backlog) : backlog[k] \in Conns /\ backlog[k] # cur
  <2>1. \A k \in 1..Len(backlog) : backlog[k] \in Conns
    BY DEF TypeOK, ConnTypes
  <2>2. \A k \in 1..Len(backlog) : srv[backlog[k]] \in {"queued", "broken"}
    BY Zenon DEF ConnInv
  <2> QED  BY <2>1, <2>2
<1>9. \A c \in Conns : srv'[c] # "serving"
  BY <1>2 DEF ConnInv
<1>10. (\A c \in Conns : cl[c] \in {"idle", "again"} => srv[c] = "none")'
  BY Zenon, <1>1, <1>2 DEF ConnInv
<1>11. (\A k \in 1..Len(backlog) : srv[backlog[k]] \in {"queued", "broken"})'
  BY <1>2, <1>8 DEF ConnInv
<1>12. (\A j, k \in 1..Len(backlog) : backlog[j] = backlog[k] => j = k)'
  BY DEF ConnInv
<1>13. accq' # 1 /\ pc' \notin Serving \cup Trying \cup {"accept"}
  BY Zenon DEF ConnInv, Serving, Trying
<1> QED  BY Zenon, <1>6, <1>7, <1>9, <1>10, <1>11, <1>12, <1>13 DEF ConnInv

\* A visited waiter that still blocks stays in its place of the table.
LEMMA ConnRepark ==
    ASSUME TypeOK, ConnInv, NEW n \in 1..Len(waitq),
           waitq' = [waitq EXCEPT ![n].blk = Len(trail), ![n].trail = trail],
           pc \in Trying, srv[cur] = "parked", pc' = "rescan",
           UNCHANGED <<cl, call, backlog, srv, accq>>
    PROVE  ConnInv'
<1>1. pc' \notin Serving \cup Trying \cup {"accept"} /\ accq # 1
  BY DEF ConnInv, Serving, Trying
<1>2. \A c \in Conns : srv[c] # "serving"
  BY Zenon DEF ConnInv
<1>3. (\A k \in 1..Len(waitq) : /\ srv[waitq[k].c] = "parked"
                                /\ waitq[k].id = call[waitq[k].c].id
                                /\ call[waitq[k].c].op = "semop")'
  BY ReparkSeq DEF ConnInv
<1>4. (\A j, k \in 1..Len(waitq) : waitq[j].c = waitq[k].c => j = k)'
  BY ReparkSeq DEF ConnInv
<1> QED  BY <1>1, <1>2, <1>3, <1>4 DEF ConnInv

\* The rescan visits a parked vector.
LEMMA ConnVisit ==
    ASSUME TypeOK, ConnInv, pc = "rescan", pos + 1 \in 1..Len(waitq), pos \in Nat,
           pc' \in {"try", "fin"}, cur' = waitq[pos + 1].c,
           UNCHANGED <<cl, call, backlog, waitq, srv, accq, pos>>
    PROVE  ConnInv'
<1>1. srv[cur'] = "parked" /\ pos < Len(waitq)
  BY DEF ConnInv, TypeOK, RegistryTypes
<1>2. \A c \in Conns : srv[c] # "serving"
  BY Zenon DEF ConnInv, Serving, Trying
<1> QED  BY <1>1, <1>2 DEF ConnInv, Serving, Trying

\* No step of a client breaks ConnInv.
LEMMA ConnClients ==
    ASSUME TypeOK, ConnInv, Clients
    PROVE  ConnInv'
<1>1. ASSUME NEW p \in Pids, NEW b \in BOOLEAN, Call(p, b)
       PROVE  ConnInv'
  <2>1. \A e \in Conns : e # Me(p) => call'[e] = call[e]
    BY <1>1 DEF Call, ClientTypes
  <2> QED  BY Zenon, <1>1, <2>1, MeType, ConnConnect DEF Call
<1>2. ASSUME NEW p \in Pids, NEW b \in BOOLEAN, Restart(p, b)
       PROVE  ConnInv'
  BY Zenon, <1>2, MeType, ConnConnect DEF Restart
<1>3. ASSUME NEW p \in Pids, NEW b \in BOOLEAN, Interrupt(p, b)
       PROVE  ConnInv'
  BY <1>3, MeType, ConnClient DEF Interrupt, ClientTypes
<1>4. ASSUME NEW p \in Pids, NEW b \in BOOLEAN, Die(p, b)
       PROVE  ConnInv'
  BY <1>4, MeType, ConnClient DEF Die, ClientTypes
<1>5. ASSUME NEW p \in Pids, Receive(p)
       PROVE  ConnInv'
  BY Zenon, <1>5, ConnReceive
<1>6. ASSUME NEW p \in Pids, Reap(p)
       PROVE  ConnInv'
  BY <1>6, ConnFrame DEF Reap
<1>7. ASSUME NEW p \in Pids, NEW prog \in Programs, Reuse(p, prog)
       PROVE  ConnInv'
  BY Zenon, <1>7, ConnFrame DEF Reuse
<1>8. ASSUME NEW c \in Conns, DeadlinePass(c)
       PROVE  ConnInv'
  BY <1>8, ConnFrame DEF DeadlinePass
<1> QED
  BY Zenon, <1>1, <1>2, <1>3, <1>4, <1>5, <1>6, <1>7, <1>8 DEF Clients

\* No step breaks ConnInv.
LEMMA ConnStep ==
    ASSUME TypeOK, ConnInv, RegInv, TryInv, TypeOK', [Next]_vars
    PROVE  ConnInv'
<1>1. CASE UNCHANGED vars
  BY <1>1 DEF ConnInv, vars
<1>2. CASE PollWake
  <2>1. /\ UNCHANGED <<cl, call, backlog, waitq, srv, cur>> /\ pc = "poll" /\ pc' = "ready"
        /\ accq' = IF backlog = <<>> THEN 0 ELSE 1
    BY <1>2, Zenon DEF PollWake
  <2> QED  BY <2>1 DEF ConnInv, Serving, Trying
<1>3. CASE PollTimeout
  BY Zenon, <1>3, ConnIdle DEF PollTimeout, Serving, Trying
<1>4. ASSUME NEW k \in 1..Len(waitq), cng_ipc_poll_ready(k)
      PROVE  ConnInv'
  <2>1. srv' = [srv EXCEPT ![waitq[k].c] = "closed"]
    BY Zenon, <1>4 DEF cng_ipc_poll_ready, Answer, Drop
  <2> QED  BY Zenon, <1>4, <2>1, RemoveConn DEF cng_ipc_poll_ready, Trying
<1>5. CASE ReadyDone
  <2>1. /\ UNCHANGED <<cl, call, backlog, waitq, srv, cur>> /\ pc = "ready" /\ accq' = 0
        /\ pc' = "rescan" \/ (pc' = "accept" /\ accq = 1)
    BY <1>5, Zenon DEF ReadyDone, StartRescan
  <2> QED  BY <2>1 DEF ConnInv, Serving, Trying
<1>6. CASE Accept
  BY Zenon, <1>6, ConnAccept
<1>7. CASE sem_do_get_existing
  BY <1>7, ConnFinishes, Zenon DEF sem_do_get_existing, Finish, Answer, StartRescan
<1>8. CASE sem_do_get_new
  BY <1>8, ConnFinishes, Zenon DEF sem_do_get_new, Finish, Answer, StartRescan
<1>9. CASE serve_semctl_setall
  BY <1>9, ConnFinishes, Zenon DEF serve_semctl_setall, Finish, Answer, StartRescan
<1>10. CASE serve_lookup
  <2>1. CASE pc' = "settle" /\ UNCHANGED <<srv, cur, pos>>
    BY <1>10, <2>1, ConnControl DEF serve_lookup, Serving
  <2> QED  BY <1>10, <2>1, ConnFinishes, Zenon DEF serve_lookup, Finish, Answer, StartRescan
<1>11. CASE SettleDone
  BY <1>11, ConnControl DEF SettleDone, Serving, Trying
<1>12. ASSUME NEW r \in Rows, sem_reclaim_set(r)
       PROVE  ConnInv'
  BY Zenon, <1>12, ConnFrame DEF sem_reclaim_set
<1>13. CASE sem_do_ctl_read
  BY <1>13, ConnFinishes, Zenon DEF sem_do_ctl_read, Finish, Answer, StartRescan
<1>14. CASE sem_do_ctl_setval
  BY <1>14, ConnFinishes, Zenon DEF sem_do_ctl_setval, Finish, Answer, StartRescan
<1>15. CASE sem_do_ctl_rmid
  <2>1. CASE pc' = "eidrm" /\ UNCHANGED <<srv, cur, pos>>
    BY <1>15, <2>1, ConnControl DEF sem_do_ctl_rmid, Serving
  <2> QED  BY <1>15, <2>1, ConnFinishes, Zenon DEF sem_do_ctl_rmid, Finish, Answer, StartRescan
<1>16. CASE sem_free_set
  BY <1>16, ConnFinishes, Zenon DEF sem_free_set, Finish, Answer, StartRescan
<1>17. ASSUME NEW k \in 1..Len(waitq), waiters_eidrm(k)
       PROVE  ConnInv'
  BY Zenon, <1>17, RemoveConn DEF waiters_eidrm, Answer, Trying
<1>18. CASE serve_semop
  <2>1. CASE pc' \in {"try", "fin"} /\ UNCHANGED <<srv, cur, pos>>
    <3>1. UNCHANGED <<cl, call, backlog, waitq, accq>> /\ pc = "act"
      BY <1>18, Zenon DEF serve_semop
    <3> QED  BY <2>1, <3>1, ConnControl DEF Serving, Trying
  <2>2. CASE BeginTry(cur, call[cur].id) /\ UNCHANGED <<srv, cur, pos>>
    BY <2>1, <2>2, Zenon DEF BeginTry
  <2> QED  BY <1>18, <2>2, ConnFinishes, Zenon DEF serve_semop, Finish, Answer, StartRescan
<1>19. CASE sem_try_op
  <2>1. /\ UNCHANGED <<cl, call, backlog, waitq, srv, cur, accq, pos>> /\ pc = "try"
        /\ pc' = pc \/ pc' = "back"
    BY <1>19, Zenon DEF sem_try_op
  <2> QED  BY <2>1, ConnControl DEF Trying
<1>20. CASE sem_try_op_rollback
  <2>1. UNCHANGED <<cl, call, backlog, waitq, srv, pc, cur, accq, pos>>
    BY Zenon, <1>20 DEF sem_try_op_rollback
  <2> QED  BY Zenon, <2>1, ConnFrame
<1>21. CASE sem_try_op_end
  BY <1>21, ConnControl DEF sem_try_op_end, Serving, Trying
<1>22. CASE serve_semop_result
  <2>1. CASE waitq' = Append(waitq, Waiter(cur)) /\ srv' = [srv EXCEPT ![cur] = "parked"]
    BY Zenon, <1>22, <2>1, ConnPark DEF serve_semop_result, Finish, StartRescan
  <2>2. CASE waitq' = waitq /\ srv' = [srv EXCEPT ![cur] = "closed"]
    BY <1>22, <2>2, ConnFinish DEF serve_semop_result, Finish, StartRescan
  <2> QED  BY Zenon, <1>22, <2>1, <2>2 DEF serve_semop_result, Finish, Answer
<1>23. CASE cng_ipc_rescan_visit
  <2>1. pos + 1 \in 1..Len(waitq)
    BY <1>23 DEF cng_ipc_rescan_visit, TypeOK, ControlTypes, RegistryTypes
  <2>2. CASE pc' \in {"try", "fin"} /\ cur' = waitq[pos + 1].c /\ UNCHANGED <<waitq, srv>>
    BY Zenon, <1>23, <2>1, <2>2, ConnVisit DEF cng_ipc_rescan_visit, TypeOK, ControlTypes
  <2>3. CASE /\ waitq' = RemoveWaiter(pos + 1) /\ UNCHANGED <<pc, cur>>
             /\ srv' = [srv EXCEPT ![waitq[pos + 1].c] = "closed"]
    BY Zenon, <1>23, <2>1, <2>3, RemoveConn DEF cng_ipc_rescan_visit, Trying
  <2> QED  BY Zenon, <1>23, <2>2, <2>3 DEF cng_ipc_rescan_visit, BeginTry, Answer
<1>24. CASE cng_ipc_rescan_result
  <2>1. pos + 1 \in 1..Len(waitq) /\ waitq[pos + 1].c = cur
    BY <1>24 DEF ConnInv, cng_ipc_rescan_result, Trying, TypeOK, ControlTypes, RegistryTypes
  <2>2. CASE res = "block"
    BY Zenon, <1>24, <2>1, <2>2, ConnRepark DEF cng_ipc_rescan_result, Trying
  <2>3. CASE res # "block"
    BY Zenon, <1>24, <2>1, <2>3, RemoveConn DEF cng_ipc_rescan_result, Answer, Trying
  <2> QED  BY Zenon, <2>2, <2>3
<1>25. CASE cng_ipc_rescan_pass
  <2>1. /\ UNCHANGED <<cl, call, backlog, waitq, srv, accq>> /\ pc = "rescan"
        /\ pc' = pc \/ pc' = after
    BY <1>25, Zenon DEF cng_ipc_rescan_pass
  <2>2. after \in {"expire", "poll"}
    BY DEF TypeOK, ControlTypes
  <2> QED  BY <2>1, <2>2, ConnIdle DEF Serving, Trying
<1>26. ASSUME NEW k \in 1..Len(waitq), cng_ipc_expire(k)
       PROVE  ConnInv'
  BY Zenon, <1>26, RemoveConn DEF cng_ipc_expire, Answer, Trying
<1>27. ASSUME NEW k \in 1..Len(waitq), cng_ipc_reclaim_waiter(k)
       PROVE  ConnInv'
  <2>1. CASE waitq' = RemoveWaiter(k) /\ Drop(waitq[k].c)
    BY Zenon, <1>27, <2>1, RemoveConn DEF cng_ipc_reclaim_waiter, Drop, Trying
  <2>2. CASE UNCHANGED <<waitq, srv, reply>>
    BY Zenon, <1>27, <2>2, ConnFrame DEF cng_ipc_reclaim_waiter
  <2> QED  BY Zenon, <1>27, <2>1, <2>2 DEF cng_ipc_reclaim_waiter
<1>28. CASE NoTick
  BY Zenon, <1>28, ConnIdle DEF NoTick, Serving, Trying
<1>29. CASE Tick
  BY <1>29, ConnIdle DEF Tick, Serving, Trying
<1>30. CASE ReclaimRows
  BY Zenon, <1>30, ConnIdle DEF ReclaimRows, Serving, Trying
<1>31. CASE cng_ipc_reclaim_end
  BY Zenon, <1>31, ConnIdle DEF cng_ipc_reclaim_end, StartRescan, Serving, Trying
<1>32. ASSUME NEW r \in Rows, cng_ipc_reclaim_undo(r)
       PROVE  ConnInv'
  BY Zenon, <1>32, ConnIdle DEF cng_ipc_reclaim_undo, Serving, Trying
<1>33. CASE Clients
  BY <1>33, ConnClients, Zenon
<1> QED
  BY Zenon, <1>1, <1>2, <1>3, <1>4, <1>5, <1>6, <1>7, <1>8, <1>9, <1>10, <1>11, <1>12,
     <1>13, <1>14, <1>15, <1>16, <1>17, <1>18, <1>19, <1>20, <1>21, <1>22, <1>23,
     <1>24, <1>25, <1>26, <1>27, <1>28, <1>29, <1>30, <1>31, <1>32, <1>33
  DEF Next, Daemon

-----------------------------------------------------------------------------
(* The tables.                                                             *)

\* What leaves the tables and the daemon's place alone.
LEMMA RegFrame ==
    ASSUME RegInv, UNCHANGED <<sets, undo, waitq, pc, cur, call>>
    PROVE  RegInv'
BY DEF RegInv, NothingOutlivesItsSet, Live

\* What leaves the tables alone and goes where no set is looked at, or on.
LEMMA RegControl ==
    ASSUME RegInv, UNCHANGED <<sets, undo, waitq, cur, call>>,
           \/ pc' \notin (Serving \ {"serve"}) \cup Trying
           \/ pc = "settle" /\ pc' = "act"
           \/ pc \in Trying /\ pc' \in Trying
    PROVE  RegInv'
BY DEF RegInv, NothingOutlivesItsSet, Live, Serving, Trying

\* A waiter leaves the table (waiter_free).
LEMMA RegRemove ==
    ASSUME TypeOK, RegInv, NEW k \in 1..Len(waitq), waitq' = RemoveWaiter(k),
           UNCHANGED <<sets, undo, call>>,
           \/ UNCHANGED <<pc, cur>>
           \/ pc' = "rescan"
    PROVE  RegInv'
<1>1. \A j \in 1..Len(waitq)' : Live(waitq'[j].id)
  <2>1. Len(waitq) \in Nat /\ Len(waitq)' = Len(waitq) - 1
    BY RemoveWaiterSeq DEF TypeOK, RegistryTypes
  <2>2. \A j \in 1..Len(waitq)' : /\ j \in 1..Len(waitq) /\ j + 1 \in 1..Len(waitq)
                                  /\ waitq'[j] = IF j < k THEN waitq[j] ELSE waitq[j + 1]
    BY <2>1, RemoveWaiterSeq
  <2> QED  BY <2>2 DEF RegInv, NothingOutlivesItsSet
<1> QED  BY Zenon, <1>1 DEF RegInv, NothingOutlivesItsSet, Live, Serving, Trying

\* The tables stay and the daemon goes on to work on no set.
LEMMA RegLeave ==
    ASSUME RegInv, UNCHANGED <<sets, undo, waitq>>,
           pc' \notin (Serving \ {"serve"}) \cup Trying
    PROVE  RegInv'
BY DEF RegInv, NothingOutlivesItsSet, Live, Serving, Trying

\* A set is made.
LEMMA RegGrow ==
    ASSUME TypeOK, RegInv, UNCHANGED <<undo, waitq>>, \A d \in Ids : Live(d) => sets'[d].used,
           pc' \notin (Serving \ {"serve"}) \cup Trying
    PROVE  RegInv'
<1>1. \A k \in 1..Len(waitq) : waitq[k].id \in Ids
  BY Zenon, ParkedType DEF WaiterType
<1>2. \A r \in Rows : r[2] \in Ids
  BY Zenon, TableTypes
<1> QED  BY <1>1, <1>2 DEF RegInv, NothingOutlivesItsSet, Live, Serving, Trying

\* Values and adjustments change, sets and rows do not come or go.
SameUse ==
    /\ \A d \in Ids : (sets'[d].used <=> sets[d].used)
    /\ \A r \in Rows : (undo'[r].used <=> undo[r].used)
    /\ \A r \in Rows : ~undo[r].used => undo'[r].adj = undo[r].adj

\* Changing values and adjustments alone keeps RegInv.
LEMMA RegSameUse ==
    ASSUME TypeOK, RegInv, SameUse, UNCHANGED waitq,
           \/ pc' \notin (Serving \ {"serve"}) \cup Trying
           \/ UNCHANGED <<pc, cur, call>>
    PROVE  RegInv'
<1>1. \A k \in 1..Len(waitq) : waitq[k].id \in Ids
  BY Zenon, ParkedType DEF WaiterType
<1>2. \A r \in Rows : r[2] \in Ids
  BY TableTypes
<1>3. call[cur].id \in Ids
  BY CurTypes
<1>4. (\A r \in Rows : ~undo[r].used => undo[r].adj = ZeroVec)'
  BY Zenon DEF RegInv, SameUse
<1>5. NothingOutlivesItsSet'
  BY <1>1, <1>2 DEF RegInv, SameUse, NothingOutlivesItsSet, Live
<1> QED  BY <1>3, <1>4, <1>5 DEF RegInv, SameUse, Live, Serving, Trying

\* Storing values and adjustments is all these do.
LEMMA ExceptFields ==
    ASSUME TypeOK
    PROVE  /\ \A i, d \in Ids, v \in Values :
                 LET s == [sets EXCEPT ![i].val = v]
                 IN  /\ (s[d].used <=> sets[d].used) /\ s[d].key = sets[d].key
                     /\ s[d].nsems = sets[d].nsems
                     /\ s[d].val = IF d = i THEN v ELSE sets[d].val
           /\ \A r \in Rows, a \in Adjustments :
                 LET u == [undo[r] EXCEPT !.adj = a]
                 IN  (u.used <=> undo[r].used) /\ u.adj = a /\ u.start = undo[r].start /\ u.own = undo[r].own
<1>1. ASSUME NEW i \in Ids, NEW d \in Ids, NEW v \in Values
      PROVE  LET s == [sets EXCEPT ![i].val = v]
             IN  /\ (s[d].used <=> sets[d].used) /\ s[d].key = sets[d].key
                 /\ s[d].nsems = sets[d].nsems
                 /\ s[d].val = IF d = i THEN v ELSE sets[d].val
  BY TableTypes DEF SemSet, TypeOK, RegistryTypes
<1>2. ASSUME NEW r \in Rows, NEW a \in Adjustments
      PROVE  LET u == [undo[r] EXCEPT !.adj = a]
             IN  (u.used <=> undo[r].used) /\ u.adj = a /\ u.start = undo[r].start /\ u.own = undo[r].own
  BY Zenon, TableTypes DEF UndoRow
<1> QED  BY <1>1, <1>2

\* SETALL stores values and clears adjustments, no more.
LEMMA SetallSameUse ==
    ASSUME TypeOK, serve_semctl_setall
    PROVE  SameUse
<1> DEFINE q == call[cur]
           v == [n \in Sems |-> IF n < q.size THEN q.vals[n] ELSE 0]
<1>1. CASE UNCHANGED <<sets, undo>>
  BY <1>1 DEF SameUse
<1>2. CASE /\ \A n \in 0..(q.size - 1) : ~(q.vals[n] > SEMVMX)
           /\ sets' = [sets EXCEPT ![q.id].val = v]
           /\ undo' = [r \in Rows |-> IF r[2] = q.id /\ undo[r].used
                                      THEN [undo[r] EXCEPT !.adj = ZeroVec]
                                      ELSE undo[r]]
  <2>1. v \in Values /\ q.id \in Ids
    BY <1>2, CurTypes, SetallType
  <2> HIDE DEF v
  <2>2. \A d \in Ids : (sets'[d].used <=> sets[d].used)
    BY Zenon, <1>2, <2>1, ExceptFields
  <2>3. \A r \in Rows : /\ (undo'[r].used <=> undo[r].used)
                        /\ ~undo[r].used => undo'[r].adj = undo[r].adj
    BY <1>2, ExceptFields, BlankTypes
  <2> QED  BY <2>2, <2>3 DEF SameUse
<1> QED  BY <1>1, <1>2 DEF serve_semctl_setall

\* SETVAL stores one value and clears its adjustments, no more.
LEMMA SetvalSameUse ==
    ASSUME TypeOK, RegInv, sem_do_ctl_setval
    PROVE  SameUse
<1> DEFINE q == call[cur]
           v == [sets[q.id].val EXCEPT ![q.num] = q.val]
           z(r) == [undo[r].adj EXCEPT ![q.num] = 0]
<1>1. CASE UNCHANGED <<sets, undo>>
  BY <1>1 DEF SameUse
<1>2. CASE /\ ~(q.num >= sets[q.id].nsems)
           /\ sets' = [sets EXCEPT ![q.id].val[q.num] = q.val]
           /\ undo' = [r \in Rows |-> IF r[2] = q.id /\ undo[r].used
                                      THEN [undo[r] EXCEPT !.adj[q.num] = 0]
                                      ELSE undo[r]]
  <2>1. v \in Values /\ \A r \in Rows : z(r) \in Adjustments
    BY Zenon, <1>2, SetvalArrays
  <2>2. /\ sets' = [sets EXCEPT ![q.id].val = v] /\ q.id \in Ids
        /\ undo' = [r \in Rows |-> IF r[2] = q.id /\ undo[r].used
                                   THEN [undo[r] EXCEPT !.adj = z(r)] ELSE undo[r]]
    BY Zenon, <1>2, CurTypes
  <2> HIDE DEF v, z
  <2>3. \A d \in Ids : (sets'[d].used <=> sets[d].used)
    BY <2>1, <2>2, ExceptFields
  <2>4. \A r \in Rows : /\ (undo'[r].used <=> undo[r].used)
                        /\ ~undo[r].used => undo'[r].adj = undo[r].adj
    BY Zenon, <2>1, <2>2, ExceptFields
  <2> QED  BY Zenon, <2>3, <2>4 DEF SameUse
<1> QED  BY <1>1, <1>2 DEF sem_do_ctl_setval

\* An exit-time undo.
LEMMA RegUndo ==
    ASSUME TypeOK, RegInv, NEW r \in Rows, sem_undo_apply(r), UNCHANGED <<waitq, pc, cur, call>>
    PROVE  RegInv'
<1>1. \A d \in Ids : (sets'[d].used <=> sets[d].used)
  BY TableTypes DEF sem_undo_apply, SemSet, TypeOK, RegistryTypes
<1>2. \A s \in Rows : undo'[s] = IF s = r THEN NoRow ELSE undo[s]
  BY DEF sem_undo_apply, TypeOK, RegistryTypes
<1>3. \A k \in 1..Len(waitq) : waitq[k].id \in Ids
  BY ParkedType DEF WaiterType
<1>4. \A s \in Rows : s[2] \in Ids
  BY Zenon, TableTypes
<1>5. call[cur].id \in Ids
  BY Zenon, CurTypes
<1> QED  BY <1>1, <1>2, <1>3, <1>4, <1>5 DEF RegInv, NothingOutlivesItsSet, Live, NoRow

\* What clients do leaves the registry alone.
LEMMA RegClient ==
    ASSUME RegInv, UNCHANGED <<sets, undo, waitq, pc, cur>>,
           pc \in Serving \cup Trying => call'[cur] = call[cur]
    PROVE  RegInv'
BY DEF RegInv, NothingOutlivesItsSet, Live, Serving, Trying

\* What an operation of sem_try_op makes of its undo row.
LEMMA TryRow ==
    ASSUME TypeOK, RegInv, NEW u \in UndoRow, Taken(u), ThisOp \in Sembuf, ThisOp.num \in Sems,
           ~Blocks(ThisState, ThisOp), ~OutOfRange(ThisState, ThisOp),
           u = undo[ThisRow] \/ u = FreshRow, u.used \/ ~ThisOp.undo
    PROVE  /\ \A d \in Ids : (sets'[d].used <=> sets[d].used)
           /\ \A s \in Rows : s # ThisRow => undo'[s] = undo[s]
           /\ undo'[ThisRow].used \/ undo'[ThisRow].adj = ZeroVec
<1> DEFINE a == Apply(ThisState, ThisOp)
<1>1. ThisRow \in Rows /\ call[cur].id \in Ids /\ ThisState \in States
  BY CurTypes, Zenon DEF ThisRow, ThisState
<1>2. a.val \in Values /\ a.adj \in Adjustments
  BY <1>1, ApplyUnapply DEF States
<1>3. sets' = [sets EXCEPT ![call[cur].id].val = a.val]
  BY Zenon DEF Taken
<1>4. undo' = [undo EXCEPT ![ThisRow] = [u EXCEPT !.adj = a.adj]]
  BY Zenon DEF Taken
<1>5. ~u.used => a.adj = ThisState.adj
  BY Zenon DEF Apply
<1>6. u # FreshRow => u = undo[ThisRow] /\ ThisState.adj = u.adj
  BY Zenon DEF ThisState, ThisRow, State
<1>7. FreshRow.used
  BY Zenon DEF FreshRow
<1>8. ~u.used => ThisState.adj = ZeroVec
  BY <1>1, <1>6, <1>7 DEF RegInv
<1> HIDE DEF a
<1>9. \A d \in Ids : (sets'[d].used <=> sets[d].used)
  BY <1>1, <1>2, <1>3, StoreVal, Zenon
<1>10. [u EXCEPT !.adj = a.adj].adj = a.adj /\ ([u EXCEPT !.adj = a.adj].used <=> u.used)
  BY DEF UndoRow
<1>11. undo'[ThisRow] = [u EXCEPT !.adj = a.adj]
  BY <1>1, <1>4 DEF TypeOK, RegistryTypes
<1>12. \A s \in Rows : s # ThisRow => undo'[s] = undo[s]
  BY Zenon, <1>1, <1>4 DEF TypeOK, RegistryTypes
<1> QED  BY <1>5, <1>8, <1>9, <1>10, <1>11, <1>12, Zenon

\* An operation of sem_try_op makes at most a row for a set that is there.
LEMMA RegTryOp ==
    ASSUME TypeOK, RegInv, TryInv, sem_try_op
    PROVE  RegInv'
<1>1. ThisRow \in Rows /\ call[cur].id \in Ids /\ undo[ThisRow] \in UndoRow /\ ThisRow[2] = call[cur].id
  <2>1. ThisRow \in Rows /\ call[cur].id \in Ids
    BY CurTypes, Zenon DEF ThisRow
  <2> QED  BY <2>1 DEF ThisRow, TypeOK, RegistryTypes
<1>2. Live(call[cur].id) /\ UNCHANGED <<waitq, cur, call>> /\ pc' \in {"try", "back"}
  <2>1. UNCHANGED <<waitq, cur, call>> /\ pc = "try" /\ (pc' = pc \/ pc' = "back")
    BY Zenon DEF sem_try_op
  <2> QED  BY <2>1 DEF RegInv, Trying
<1>3. FreshRow \in UndoRow /\ FreshRow.used /\ FreshRow.adj = ZeroVec
  BY CurTypes, StarttimeType, BlankTypes DEF FreshRow, UndoRow
<1>4. /\ \A d \in Ids : (sets'[d].used <=> sets[d].used)
      /\ \A s \in Rows : s # ThisRow => undo'[s] = undo[s]
      /\ undo'[ThisRow].used \/ undo'[ThisRow].adj = ZeroVec
  <2>1. CASE Refused
    <3>1. CASE undo' = undo
      BY <1>1, <2>1, <3>1, Zenon DEF Refused, RegInv
    <3>2. CASE undo' = [undo EXCEPT ![ThisRow] = FreshRow]
      BY <1>1, <1>3, <2>1, <3>2 DEF Refused, TypeOK, RegistryTypes
    <3> QED  BY <2>1, <3>1, <3>2, Zenon DEF Refused
  <2>2. CASE ~Refused
    BY <1>1, <1>3, <2>2, TryOpCases, TryRow, Zenon
  <2> QED  BY <2>1, <2>2
<1>5. (\A s \in Rows : ~undo[s].used => undo[s].adj = ZeroVec)'
  BY <1>4 DEF RegInv
<1>6. \A k \in 1..Len(waitq) : waitq[k].id \in Ids
  BY Zenon, ParkedType DEF WaiterType
<1>7. \A s \in Rows : s[2] \in Ids
  BY Zenon, TableTypes
<1>8. NothingOutlivesItsSet'
  BY Zenon, <1>1, <1>2, <1>4, <1>6, <1>7 DEF RegInv, NothingOutlivesItsSet, Live
<1> QED  BY <1>1, <1>2, <1>4, <1>5, <1>8 DEF RegInv, Live

\* The rollback stores values and adjustments, no more.
LEMMA RegRollback ==
    ASSUME TypeOK, RegInv, TryInv, sem_try_op_rollback
    PROVE  RegInv'
<1> DEFINE q == call[cur]
           r == <<cur[1], q.id>>
<1>1. r \in Rows /\ q.id \in Ids /\ undo[r] \in UndoRow
  BY Zenon, CurTypes, TableTypes
<1>2. trail[opi].val \in Values /\ trail[opi].adj \in Adjustments
  BY RollbackCases DEF States
<1>3. \A d \in Ids : (sets'[d].used <=> sets[d].used)
  BY Zenon, <1>1, <1>2, RollbackCases, StoreVal
<1>4. undo' = [undo EXCEPT ![r].adj = trail[opi].adj]
  BY RollbackCases
<1>5. \A s \in Rows : /\ (undo'[s].used <=> undo[s].used)
                      /\ undo'[s].adj = IF s = r THEN trail[opi].adj ELSE undo[s].adj
  BY Zenon, <1>1, <1>2, <1>4, StoreAdj
<1>6. opi \in 1..(Len(trail) - 1) /\ pc = "back" /\ Len(trail) \in Nat
  BY RollbackCases DEF sem_try_op_rollback, TypeOK, ControlTypes
<1>10. undo[r].used \/ \A j \in 1..Len(trail) : trail[j].adj = ZeroVec
  BY <1>6, Zenon DEF TryInv, Trying
<1>7. ~undo[r].used => trail[opi].adj = ZeroVec /\ undo[r].adj = ZeroVec
  BY <1>1, <1>6, <1>10 DEF RegInv
<1>8. SameUse
  BY Zenon, <1>3, <1>5, <1>7 DEF SameUse
<1>9. UNCHANGED <<waitq, pc, cur, call>>
  BY DEF sem_try_op_rollback
<1> QED  BY <1>8, <1>9, RegSameUse

\* semget makes a set.
LEMMA RegGetNew ==
    ASSUME TypeOK, ConnInv, RegInv, TryInv, sem_do_get_new
    PROVE  RegInv'
<1> DEFINE new == [used |-> TRUE, key |-> call[cur].key, nsems |-> call[cur].size,
                   val |-> ZeroVec]
<1>1. \/ UNCHANGED sets
      \/ \E d \in Ids : sets' = [sets EXCEPT ![d] = new]
  BY Zenon DEF sem_do_get_new
<1>2. \A d \in Ids : Live(d) => sets'[d].used
  BY <1>1 DEF Live, TypeOK, RegistryTypes
<1>3. UNCHANGED <<undo, waitq, call>> /\ pc' = "rescan"
  BY Zenon DEF sem_do_get_new, Finish, StartRescan
<1> QED  BY Zenon, <1>2, <1>3, RegGrow DEF Serving, Trying

\* The lookup finds a live set, or answers.
LEMMA RegLookup ==
    ASSUME TypeOK, ConnInv, RegInv, TryInv, serve_lookup
    PROVE  RegInv'
<1>1. CASE pc' = "rescan"
  BY Zenon, <1>1, RegLeave DEF serve_lookup, Serving, Trying
<1>2. CASE /\ pc' = "settle" /\ cur' = cur /\ Live(call[cur].id)
           /\ call[cur].op = "setval" => call[cur].val \in 0..SEMVMX
  BY Zenon, <1>2 DEF serve_lookup, RegInv, NothingOutlivesItsSet, Live
<1> QED  BY <1>1, <1>2 DEF serve_lookup, Finish, StartRescan

\* IPC_RMID takes the set, and its undo rows with it.
LEMMA RegFreeSet ==
    ASSUME TypeOK, ConnInv, RegInv, TryInv, sem_free_set
    PROVE  RegInv'
<1> DEFINE d == call[cur].id
<1>1. /\ sets' = [sets EXCEPT ![d] = NoSet] /\ d \in Ids
      /\ undo' = [r \in Rows |-> IF r[2] = d THEN NoRow ELSE undo[r]]
      /\ \A k \in 1..Len(waitq) : waitq[k].id # d
      /\ waitq' = waitq /\ pc' = "rescan"
  BY Zenon, CurTypes DEF sem_free_set, WithoutRowsOf, Finish, StartRescan
<1>2. \A e \in Ids : e # d => (Live(e) <=> sets'[e].used)
  BY Zenon, <1>1 DEF Live, TypeOK, RegistryTypes
<1>3. \A k \in 1..Len(waitq) : waitq[k].id \in Ids
  BY ParkedType DEF WaiterType
<1>4. \A r \in Rows : r[2] \in Ids /\ undo'[r] = IF r[2] = d THEN NoRow ELSE undo[r]
  BY Zenon, <1>1, TableTypes
<1>5. (\A r \in Rows : ~undo[r].used => undo[r].adj = ZeroVec)'
  <2> SUFFICES ASSUME NEW r \in Rows, ~undo'[r].used
               PROVE  undo'[r].adj = ZeroVec
    BY Zenon
  <2>1. CASE r[2] = d
    <3>1. undo'[r] = NoRow
      BY Zenon, <1>4, <2>1
    <3> QED  BY <3>1 DEF NoRow
  <2>2. CASE r[2] # d
    BY Zenon, <1>4, <2>2 DEF RegInv
  <2> QED  BY Zenon, <2>1, <2>2
<1>6. NothingOutlivesItsSet'
  BY <1>1, <1>2, <1>3, <1>4 DEF RegInv, NothingOutlivesItsSet, Live, NoRow
<1>7. ~(pc' \in Serving) /\ ~(pc' \in Trying)
  BY <1>1 DEF Serving, Trying
<1> QED  BY Zenon, <1>1, <1>5, <1>6, <1>7 DEF RegInv

\* A vector is begun on a live set.
LEMMA RegSemop ==
    ASSUME TypeOK, ConnInv, RegInv, TryInv, serve_semop
    PROVE  RegInv'
<1>1. CASE pc' = "rescan"
  BY ZenonT(30), <1>1, RegLeave DEF serve_semop, Serving, Trying
<1>2. CASE pc' \in {"try", "fin"} /\ cur' = cur
  BY Zenon, <1>2 DEF serve_semop, RegInv, NothingOutlivesItsSet, Live, Serving, Trying
<1> QED  BY Zenon, <1>1, <1>2 DEF serve_semop, BeginTry, Finish, StartRescan

\* A parked vector waits on a live set.
LEMMA RegPark ==
    ASSUME TypeOK, ConnInv, RegInv, TryInv, serve_semop_result
    PROVE  RegInv'
<1>1. CASE waitq' = waitq
  BY Zenon, <1>1, RegLeave DEF serve_semop_result, Finish, StartRescan, Serving, Trying
<1>2. CASE waitq' = Append(waitq, Waiter(cur))
  <2>1. UNCHANGED <<sets, undo>> /\ pc' = "rescan"
    BY Zenon DEF serve_semop_result, Finish, StartRescan
  <2>2. waitq \in Seq(WaiterType) /\ Waiter(cur).id = call[cur].id /\ Live(call[cur].id)
    BY Zenon DEF serve_semop_result, Waiter, RegInv, Trying, TypeOK, RegistryTypes
  <2>3. \A k \in 1..Len(waitq)' : Live(waitq'[k].id)
    BY SMTT(15), <1>2, <2>2 DEF RegInv, NothingOutlivesItsSet
  <2> QED  BY <2>1, <2>3 DEF RegInv, NothingOutlivesItsSet, Live, Serving, Trying
<1> QED  BY <1>1, <1>2 DEF serve_semop_result

\* The rescan visits a vector whose set is live.
LEMMA RegVisit ==
    ASSUME TypeOK, ConnInv, RegInv, TryInv, cng_ipc_rescan_visit
    PROVE  RegInv'
<1>1. pos + 1 \in 1..Len(waitq)
  BY DEF cng_ipc_rescan_visit, TypeOK, ControlTypes, RegistryTypes
<1>2. CASE waitq' = RemoveWaiter(pos + 1) /\ UNCHANGED <<pc, cur>>
  BY Zenon, <1>1, <1>2, RegRemove DEF cng_ipc_rescan_visit
<1>3. CASE cur' = waitq[pos + 1].c /\ waitq' = waitq /\ pc' \in {"try", "fin"}
  <2>1. Live(call[cur'].id)
    BY Zenon, <1>1, <1>3 DEF ConnInv, RegInv, NothingOutlivesItsSet
  <2> QED  BY Zenon, <1>3, <2>1 DEF cng_ipc_rescan_visit, RegInv, NothingOutlivesItsSet, Live
<1> QED  BY Zenon, <1>2, <1>3 DEF cng_ipc_rescan_visit, BeginTry

\* The rescan grants, fails or parks again.
LEMMA RegResult ==
    ASSUME TypeOK, ConnInv, RegInv, TryInv, cng_ipc_rescan_result
    PROVE  RegInv'
<1>1. pos + 1 \in 1..Len(waitq)
  BY DEF cng_ipc_rescan_result, ConnInv, Trying, TypeOK, ControlTypes, RegistryTypes
<1>2. CASE res # "block"
  BY Zenon, <1>1, <1>2, RegRemove DEF cng_ipc_rescan_result
<1>3. CASE res = "block"
  <2>1. waitq' = [waitq EXCEPT ![pos + 1].blk = Len(trail), ![pos + 1].trail = trail]
    BY Zenon, <1>3 DEF cng_ipc_rescan_result
  <2>2. \A k \in 1..Len(waitq)' : Live(waitq'[k].id)
    BY <1>1, <2>1, ReparkSeq DEF RegInv, NothingOutlivesItsSet
  <2>3. UNCHANGED <<sets, undo>> /\ pc' = "rescan"
    BY Zenon DEF cng_ipc_rescan_result
  <2> QED  BY <2>2, <2>3 DEF RegInv, NothingOutlivesItsSet, Live, Serving, Trying
<1> QED  BY <1>2, <1>3

\* No step of a client breaks RegInv.
LEMMA RegClients ==
    ASSUME TypeOK, ConnInv, RegInv, Clients
    PROVE  RegInv'
<1>1. ASSUME NEW p \in Pids, NEW b \in BOOLEAN, Call(p, b)
       PROVE  RegInv'
  <2>1. pc \in Serving \cup Trying => cur # Me(p)
    BY Zenon, <1>1, MeType DEF Call, ConnInv
  <2>2. pc \in Serving \cup Trying => call'[cur] = call[cur]
    BY Zenon, <1>1, <2>1, MeType, CurTypes DEF Call, TypeOK, ClientTypes
  <2> QED  BY <1>1, <2>2, RegClient DEF Call
<1>2. ASSUME NEW p \in Pids, NEW b \in BOOLEAN, Restart(p, b)
       PROVE  RegInv'
  BY <1>2, RegFrame DEF Restart
<1>3. ASSUME NEW p \in Pids, NEW b \in BOOLEAN, Interrupt(p, b)
       PROVE  RegInv'
  BY Zenon, <1>3, RegFrame DEF Interrupt
<1>4. ASSUME NEW p \in Pids, NEW b \in BOOLEAN, Die(p, b)
       PROVE  RegInv'
  BY Zenon, <1>4, RegFrame DEF Die
<1>5. ASSUME NEW p \in Pids, Receive(p)
       PROVE  RegInv'
  <2>1. pc \in Serving \cup Trying => cur # Me(p)
    BY Zenon, <1>5, MeType DEF Receive, ConnInv, Serving, Trying
  <2>2. pc \in Serving \cup Trying => call'[cur] = call[cur]
    BY Zenon, <1>5, <2>1, MeType, CurTypes DEF Receive, TypeOK, ClientTypes
  <2> QED  BY <1>5, <2>2, RegClient DEF Receive
<1>6. ASSUME NEW p \in Pids, Reap(p)
       PROVE  RegInv'
  BY <1>6, RegFrame DEF Reap
<1>7. ASSUME NEW p \in Pids, NEW prog \in Programs, Reuse(p, prog)
       PROVE  RegInv'
  BY Zenon, <1>7, RegFrame DEF Reuse
<1>8. ASSUME NEW c \in Conns, DeadlinePass(c)
       PROVE  RegInv'
  BY <1>8, RegFrame DEF DeadlinePass
<1> QED
  BY Zenon, <1>1, <1>2, <1>3, <1>4, <1>5, <1>6, <1>7, <1>8 DEF Clients

\* No step breaks RegInv.
LEMMA RegStep ==
    ASSUME TypeOK, ConnInv, RegInv, TryInv, TypeOK', [Next]_vars
    PROVE  RegInv'
<1>1. CASE UNCHANGED vars
  BY Zenon, <1>1, RegFrame DEF vars
<1>2. CASE PollWake
  BY <1>2, RegControl DEF PollWake, Serving, Trying
<1>3. CASE PollTimeout
  BY Zenon, <1>3, RegControl DEF PollTimeout, Serving, Trying
<1>4. ASSUME NEW k \in 1..Len(waitq), cng_ipc_poll_ready(k)
      PROVE  RegInv'
  BY Zenon, <1>4, RegRemove DEF cng_ipc_poll_ready
<1>5. CASE ReadyDone
  BY <1>5, RegControl DEF ReadyDone, StartRescan, Serving, Trying
<1>6. CASE Accept
  BY Zenon, <1>6, RegLeave DEF Accept, Drop, StartRescan, Serving, Trying
<1>7. CASE sem_do_get_existing
  BY <1>7, RegLeave DEF sem_do_get_existing, Finish, StartRescan, Serving, Trying
<1>8. CASE sem_do_get_new
  BY <1>8, RegGetNew, Zenon
<1>9. CASE serve_semctl_setall
  <2>1. pc' = "rescan" /\ waitq' = waitq
    BY Zenon, <1>9 DEF serve_semctl_setall, Finish, StartRescan
  <2>2. SameUse
    BY Zenon, <1>9, SetallSameUse
  <2> QED  BY <2>1, <2>2, RegSameUse DEF Serving, Trying
<1>10. CASE serve_lookup
  BY <1>10, RegLookup, Zenon
<1>11. CASE SettleDone
  BY Zenon, <1>11, RegControl DEF SettleDone, Serving, Trying
<1>12. ASSUME NEW r \in Rows, sem_reclaim_set(r)
       PROVE  RegInv'
  <2>1. CASE sem_undo_apply(r)
    BY ZenonT(30), <1>12, <2>1, RegUndo DEF sem_reclaim_set
  <2>2. CASE UNCHANGED <<sets, undo>>
    BY <1>12, <2>2, RegFrame DEF sem_reclaim_set
  <2> QED  BY Zenon, <1>12, <2>1, <2>2 DEF sem_reclaim_set
<1>13. CASE sem_do_ctl_read
  BY Zenon, <1>13, RegLeave DEF sem_do_ctl_read, Finish, StartRescan, Serving, Trying
<1>14. CASE sem_do_ctl_setval
  <2>1. pc' = "rescan" /\ waitq' = waitq
    BY <1>14 DEF sem_do_ctl_setval, Finish, StartRescan
  <2>2. SameUse
    BY Zenon, <1>14, SetvalSameUse
  <2> QED  BY <2>1, <2>2, RegSameUse DEF Serving, Trying
<1>15. CASE sem_do_ctl_rmid
  <2>1. CASE pc' = "rescan"
    BY Zenon, <1>15, <2>1, RegLeave DEF sem_do_ctl_rmid, Serving, Trying
  <2>2. CASE pc' = "eidrm" /\ cur' = cur
    BY Zenon, <1>15, <2>2 DEF sem_do_ctl_rmid, RegInv, NothingOutlivesItsSet, Live, Serving, Trying
  <2> QED  BY <1>15, <2>1, <2>2 DEF sem_do_ctl_rmid, Finish, StartRescan
<1>16. CASE sem_free_set
  BY <1>16, RegFreeSet, Zenon
<1>17. ASSUME NEW k \in 1..Len(waitq), waiters_eidrm(k)
       PROVE  RegInv'
  BY Zenon, <1>17, RegRemove DEF waiters_eidrm
<1>18. CASE serve_semop
  BY <1>18, RegSemop, Zenon
<1>19. CASE sem_try_op
  BY <1>19, RegTryOp
<1>20. CASE sem_try_op_rollback
  BY <1>20, RegRollback
<1>21. CASE sem_try_op_end
  BY ZenonT(30), <1>21, RegControl DEF sem_try_op_end, Serving, Trying
<1>22. CASE serve_semop_result
  BY <1>22, RegPark, Zenon
<1>23. CASE cng_ipc_rescan_visit
  BY <1>23, RegVisit, Zenon
<1>24. CASE cng_ipc_rescan_result
  BY <1>24, RegResult, Zenon
<1>25. CASE cng_ipc_rescan_pass
  <2>1. pc' \in {"rescan", "expire", "poll"}
    BY Zenon, <1>25 DEF cng_ipc_rescan_pass, TypeOK, ControlTypes
  <2> QED  BY Zenon, <1>25, <2>1, RegControl DEF cng_ipc_rescan_pass, Serving, Trying
<1>26. ASSUME NEW k \in 1..Len(waitq), cng_ipc_expire(k)
       PROVE  RegInv'
  BY <1>26, RegRemove DEF cng_ipc_expire
<1>27. ASSUME NEW k \in 1..Len(waitq), cng_ipc_reclaim_waiter(k)
       PROVE  RegInv'
  <2>1. CASE waitq' = RemoveWaiter(k)
    BY Zenon, <1>27, <2>1, RegRemove DEF cng_ipc_reclaim_waiter
  <2>2. CASE waitq' = waitq
    BY Zenon, <1>27, <2>2, RegFrame DEF cng_ipc_reclaim_waiter
  <2> QED  BY Zenon, <1>27, <2>1, <2>2 DEF cng_ipc_reclaim_waiter
<1>28. CASE NoTick
  BY <1>28, RegControl DEF NoTick, Serving, Trying
<1>29. CASE Tick
  BY <1>29, RegControl DEF Tick, Serving, Trying
<1>30. CASE ReclaimRows
  BY Zenon, <1>30, RegControl DEF ReclaimRows, Serving, Trying
<1>31. CASE cng_ipc_reclaim_end
  BY Zenon, <1>31, RegControl DEF cng_ipc_reclaim_end, StartRescan, Serving, Trying
<1>32. ASSUME NEW r \in Rows, cng_ipc_reclaim_undo(r)
       PROVE  RegInv'
  <2>1. CASE sem_undo_apply(r)
    BY <1>32, <2>1, RegUndo DEF cng_ipc_reclaim_undo
  <2>2. CASE UNCHANGED <<sets, undo>>
    BY Zenon, <1>32, <2>2, RegFrame DEF cng_ipc_reclaim_undo
  <2> QED  BY Zenon, <1>32, <2>1, <2>2 DEF cng_ipc_reclaim_undo
<1>33. CASE Clients
  BY <1>33, RegClients, Zenon
<1> QED
  BY Zenon, <1>1, <1>2, <1>3, <1>4, <1>5, <1>6, <1>7, <1>8, <1>9, <1>10, <1>11, <1>12,
     <1>13, <1>14, <1>15, <1>16, <1>17, <1>18, <1>19, <1>20, <1>21, <1>22, <1>23,
     <1>24, <1>25, <1>26, <1>27, <1>28, <1>29, <1>30, <1>31, <1>32, <1>33
  DEF Next, Daemon
=============================================================================
