-------------------------- MODULE BrokerLifeProofs --------------------------
(***************************************************************************)
(* For every number of clients, calls, daemons and kills: no object whose  *)
(* maker lives is lost with the daemon that kept it, and no request is     *)
(* applied twice by daemons that live on.                                  *)
(***************************************************************************)
EXTENDS BrokerLife, TLAPS

Bound == {"bound", "poll", "reply", "scan", "look", "leave"}
Linked == {"connected", "greeted", "sent"}

\* The name belongs to the daemon between its bind and the close of its
\* listener, and to one daemon only.
OwnerInv ==
    /\ \A d \in Daemons : owner = d <=> pc[d] \in Bound
    /\ \A d \in Daemons : pc[d] = "reply" => backlog[d] # <<>>

\* A client in a call lives, and its call is the head of its script.
CallInv ==
    \A c \in Clients :
        /\ n[c] + Len(script[c]) <= IF cl[c] = "idle" THEN MaxCalls ELSE MaxCalls + 1
        /\ cl[c] # "idle" => /\ alive[c] /\ script[c] # <<>> /\ Op(c).op # "exit"
                             /\ n[c] >= 1
        /\ cl[c] \in Linked \cup {"answered"} => conn[c] \in Daemons

\* Whose entry e in the queue of d is: of a call under way, or of one its
\* client has given up.
Placed(d, e) ==
    LET c == e.call[1] IN
    IF e.up THEN cl[c] \in Linked /\ conn[c] = d /\ e.call = This(c) /\ e.op = Op(c).op
    ELSE e.call[2] < n[c] \/ (cl[c] = "idle" /\ e.call[2] = n[c])

\* Every entry is somebody's, and no call is in the queues twice.
QueueInv ==
    /\ \A d \in Daemons : \A i \in 1..Len(backlog[d]) : Placed(d, backlog[d][i])
    /\ \A d, f \in Daemons : \A i \in 1..Len(backlog[d]), j \in 1..Len(backlog[f]) :
          backlog[d][i].call = backlog[f][j].call => d = f /\ i = j

\* The request daemon d has applied and not answered yet.
Held(d, k) == pc[d] = "reply" /\ backlog[d][1].call = k

\* A call that was applied is answered, over, or about to be answered; what
\* waits in a queue has not been applied.
AppliedInv ==
    /\ \A d \in Daemons \ killed, c \in Clients, k \in 1..MaxCalls :
          applied[d][<<c, k>>] # 0 =>
              /\ k <= n[c]
              /\ k = n[c] /\ cl[c] \notin {"idle", "answered"} => Held(d, <<c, k>>)
    /\ \A d \in Daemons \ killed, f \in Daemons : \A i \in 1..Len(backlog[f]) :
          applied[d][backlog[f][i].call] # 0 => d = f /\ i = 1 /\ pc[f] = "reply"
    /\ AtMostOnce

\* What was made is where its maker will be told it is, and a daemon on its
\* way out keeps nothing for anybody alive.
ObjInv ==
    /\ \A d \in Daemons : pc[d] = "reply" /\ backlog[d][1].op = "make"
                            => backlog[d][1].call[1] \in objs[d]
    /\ \A d \in Daemons : pc[d] \in {"look", "leave"} => \A c \in objs[d] : ~alive[c]
    /\ killed = {} => \A c \in Clients :
          cl[c] = "answered" /\ Op(c).op = "make" => conn[c] = owner /\ c \in objs[owner]
    /\ AnchoredStateKept

LifeInv == TypeOK /\ OwnerInv /\ CallInv /\ QueueInv /\ AppliedInv /\ ObjInv

USE DEF daemon, client

-----------------------------------------------------------------------------
(* Types.                                                                  *)

\* A client in a call has a call that the histories can name.
LEMMA ThisTypes ==
    ASSUME TypeOK, CallInv, NEW c \in Clients, cl[c] # "idle"
    PROVE  /\ This(c) \in Calls /\ n[c] \in 1..MaxCalls /\ script[c] # <<>>
           /\ Op(c) \in Call /\ Op(c).op \in {"make", "join"}
           /\ Entry(c) \in Entries
<1>1. n[c] \in Nat /\ script[c] \in Seq(Call)
  BY DEF TypeOK, ClientTypes
<1>2. n[c] + Len(script[c]) <= MaxCalls + 1 /\ script[c] # <<>> /\ n[c] >= 1 /\ Op(c).op # "exit"
  BY DEF CallInv
<1>3. n[c] \in 1..MaxCalls
  BY <1>1, <1>2, BrokerLifeAssumption
<1>4. Op(c) \in Call /\ Op(c).op \in {"make", "join"}
  <2>1. Head(script[c]) \in Call
    BY <1>1, <1>2
  <2>2. \A r \in Call : r.op \in {"make", "join", "exit"}
    BY DEF Call
  <2> QED  BY Zenon, <1>2, <2>1, <2>2 DEF Op
<1>5. This(c) \in Calls
  BY <1>3 DEF This, Calls
<1> QED  BY <1>2, <1>3, <1>4, <1>5 DEF Entry, Entries

\* The fields of what is in the queues.
LEMMA EntryTypes ==
    ASSUME TypeOK, NEW d \in Daemons
    PROVE  /\ backlog[d] \in Seq(Entries) /\ Len(backlog[d]) \in Nat
           /\ \A i \in 1..Len(backlog[d]) :
                 LET e == backlog[d][i] IN
                 /\ e \in Entries /\ e.call \in Calls /\ e.call[1] \in Clients
                 /\ e.call[2] \in 1..MaxCalls /\ e.call = <<e.call[1], e.call[2]>>
                 /\ e.op \in {"make", "join"} /\ e.up \in BOOLEAN /\ e.sent \in BOOLEAN
<1>1. backlog[d] \in Seq(Entries)
  BY DEF TypeOK, DaemonTypes
<1>2. \A k \in Calls : k[1] \in Clients /\ k[2] \in 1..MaxCalls /\ k = <<k[1], k[2]>>
  BY DEF Calls
<1>3. \A e \in Entries : /\ e.call \in Calls /\ e.op \in {"make", "join"}
                         /\ e.up \in BOOLEAN /\ e.sent \in BOOLEAN
  BY DEF Entries
<1>4. Len(backlog[d]) \in Nat /\ \A i \in 1..Len(backlog[d]) : backlog[d][i] \in Entries
  BY <1>1
<1> QED  BY Zenon, <1>1, <1>2, <1>3, <1>4

LEMMA DaemonTypesStep ==
    ASSUME TypeOK, OwnerInv, NEW d \in Daemons, Daemon(d) \/ Kill(d)
    PROVE  TypeOK'
<1>1. backlog[d] \in Seq(Entries) /\ Calling \subseteq Clients
  BY DEF TypeOK, DaemonTypes, Calling
<1>2. backlog[d] # <<>> => /\ Head(backlog[d]) \in Entries /\ Tail(backlog[d]) \in Seq(Entries)
                           /\ Head(backlog[d]).call \in Calls
                           /\ Head(backlog[d]).call[1] \in Clients
  <2> SUFFICES ASSUME backlog[d] # <<>>
               PROVE  /\ Head(backlog[d]) \in Entries /\ Tail(backlog[d]) \in Seq(Entries)
                      /\ Head(backlog[d]).call \in Calls
                      /\ Head(backlog[d]).call[1] \in Clients
    BY Zenon
  <2>1. Tail(backlog[d]) \in Seq(Entries) /\ Head(backlog[d]) = backlog[d][1]
        /\ 1 \in 1..Len(backlog[d])
    BY <1>1
  <2> QED  BY Zenon, <2>1, EntryTypes
<1>3. CASE Bind(d)
  BY Zenon, <1>3 DEF Bind, Go, TypeOK, DaemonTypes, ClientTypes
<1>4. CASE Listen(d)
  BY <1>1, <1>4 DEF Listen, Go, Active, TypeOK, DaemonTypes, ClientTypes
<1>5. CASE ipc_serve(d)
  <2> DEFINE e == Head(backlog[d])
  <2>1. /\ fresh' = [fresh EXCEPT ![d] = Calling] /\ UNCHANGED <<owner, slots, killed, client>>
        /\ backlog[d] # <<>>
    BY Zenon, <1>5 DEF ipc_serve, Active
  <2>2. CASE ~e.sent
    <3>1. backlog' = [backlog EXCEPT ![d] = Tail(@)] /\ UNCHANGED <<pc, objs, applied>>
      BY Zenon, <1>5, <2>2 DEF ipc_serve
    <3> QED  BY <1>1, <1>2, <2>1, <3>1 DEF TypeOK, DaemonTypes, ClientTypes
  <2>3. CASE e.sent
    <3>1. /\ pc' = [pc EXCEPT ![d] = "reply"] /\ UNCHANGED backlog
          /\ applied' = [applied EXCEPT ![d][e.call] = @ + 1]
          /\ objs' = [objs EXCEPT ![d] = IF e.op = "make" THEN @ \cup {e.call[1]} ELSE @]
      BY Zenon, <1>5, <2>3 DEF ipc_serve, Go
    <3>2. applied' \in [Daemons -> [Calls -> Nat]]
      BY <1>2, <2>1, <3>1 DEF TypeOK, DaemonTypes
    <3>3. objs' \in [Daemons -> SUBSET Clients]
      BY <1>2, <2>1, <3>1 DEF TypeOK, DaemonTypes
    <3> QED  BY <1>1, <2>1, <3>1, <3>2, <3>3 DEF TypeOK, DaemonTypes, ClientTypes
  <2> QED  BY <2>2, <2>3
<1>6. CASE Reply(d)
  <2> DEFINE e == Head(backlog[d])
  <2>1. backlog[d] # <<>>
    BY Zenon, <1>6 DEF Reply, OwnerInv
  <2>2. /\ pc' = [pc EXCEPT ![d] = "poll"] /\ backlog' = [backlog EXCEPT ![d] = Tail(@)]
        /\ cl' = IF e.up THEN [cl EXCEPT ![e.call[1]] = "answered"] ELSE cl
        /\ UNCHANGED <<owner, objs, slots, fresh, killed, applied, script, n, tries, attempt,
                       spawns, conn, alive, tier, made, refused>>
    BY Zenon, <1>6 DEF Reply, Go
  <2>3. DaemonTypes'
    BY <1>2, <2>1, <2>2 DEF TypeOK, DaemonTypes
  <2>4. ClientTypes'
    BY Zenon, <1>2, <2>1, <2>2 DEF TypeOK, ClientTypes
  <2> QED  BY <2>3, <2>4 DEF TypeOK
<1>7. CASE GraceOver(d)
  BY <1>7 DEF GraceOver, Go, TypeOK, DaemonTypes, ClientTypes
<1>8. CASE Scan(d)
  <2>1. /\ \E to \in {"poll", "look", "leave"} : pc' = [pc EXCEPT ![d] = to]
        /\ fresh' = [fresh EXCEPT ![d] = Calling] \/ UNCHANGED fresh
        /\ UNCHANGED <<owner, backlog, objs, slots, killed, applied, client>>
    BY Zenon, <1>8 DEF Scan, Go, Active
  <2>2. DaemonTypes'
    <3>1. pc' \in [Daemons -> {"none", "born", "bound", "poll", "reply", "scan", "look",
                              "leave", "closed", "gone"}]
      BY <2>1 DEF TypeOK, DaemonTypes
    <3>a. Calling \in SUBSET Clients /\ fresh \in [Daemons -> SUBSET Clients]
      BY Zenon DEF Calling, TypeOK, DaemonTypes
    <3>2. fresh' \in [Daemons -> SUBSET Clients]
      BY <2>1, <3>a
    <3> QED  BY Zenon, <2>1, <3>1, <3>2 DEF TypeOK, DaemonTypes
  <2>3. ClientTypes'
    BY Zenon, <2>1 DEF TypeOK, ClientTypes, client
  <2> QED  BY Zenon, <2>2, <2>3 DEF TypeOK
<1>9. CASE FinalPoll(d)
  <2>1. /\ \E to \in {"poll", "look", "leave"} : pc' = [pc EXCEPT ![d] = to]
        /\ fresh' = [fresh EXCEPT ![d] = Calling] \/ UNCHANGED fresh
        /\ UNCHANGED <<owner, backlog, objs, slots, killed, applied, client>>
    BY Zenon, <1>9 DEF FinalPoll, Go, Active
  <2>2. DaemonTypes'
    <3>1. pc' \in [Daemons -> {"none", "born", "bound", "poll", "reply", "scan", "look",
                              "leave", "closed", "gone"}]
      BY <2>1 DEF TypeOK, DaemonTypes
    <3>a. Calling \in SUBSET Clients /\ fresh \in [Daemons -> SUBSET Clients]
      BY Zenon DEF Calling, TypeOK, DaemonTypes
    <3>2. fresh' \in [Daemons -> SUBSET Clients]
      BY <2>1, <3>a
    <3> QED  BY Zenon, <2>1, <3>1, <3>2 DEF TypeOK, DaemonTypes
  <2>3. ClientTypes'
    BY Zenon, <2>1 DEF TypeOK, ClientTypes, client
  <2> QED  BY Zenon, <2>2, <2>3 DEF TypeOK
<1>10. CASE CloseListener(d)
  BY <1>10 DEF CloseListener, Go, TypeOK, DaemonTypes, ClientTypes
<1>11. CASE Teardown(d)
  BY <1>11 DEF Teardown, Go, TypeOK, DaemonTypes, ClientTypes
<1>12. CASE Kill(d)
  BY <1>12 DEF Kill, Go, TypeOK, DaemonTypes, ClientTypes
<1> QED  BY <1>3, <1>4, <1>5, <1>6, <1>7, <1>8, <1>9, <1>10, <1>11, <1>12 DEF Daemon

LEMMA FailTypes ==
    ASSUME TypeOK, CallInv, NEW c \in Clients, cl[c] # "idle", Fail(c)
    PROVE  ClientTypes' /\ fresh' \in [Daemons -> SUBSET Clients]
<1>1. /\ cl' = [cl EXCEPT ![c] = "idle"] /\ script' = [script EXCEPT ![c] = Tail(@)]
      /\ conn' = [conn EXCEPT ![c] = NoDaemon]
      /\ tier' = [tier EXCEPT ![c] = IF Op(c).op = "join" THEN FILE ELSE @]
      /\ UNCHANGED <<n, tries, attempt, spawns, alive, made>>
      /\ refused' = refused \/ refused' = refused \cup {This(c)}
      /\ fresh' = [d \in Daemons |-> fresh[d] \ {c}]
  BY Zenon DEF Fail, Return, At
<1>2. Tail(script[c]) \in Seq(Call)
  BY ThisTypes DEF TypeOK, ClientTypes
<1>3. script' \in [Clients -> Seq(Call)] /\ refused' \subseteq Calls
  BY <1>1, <1>2, ThisTypes DEF TypeOK, ClientTypes
<1>4. tier' \in [Clients -> Daemons \cup {NoDaemon, FILE, NONE}]
  BY <1>1 DEF TypeOK, ClientTypes
<1> QED  BY <1>1, <1>3, <1>4 DEF TypeOK, ClientTypes, DaemonTypes

LEMMA UnansweredTypes ==
    ASSUME TypeOK, CallInv, NEW c \in Clients, cl[c] # "idle",
           NEW g \in BOOLEAN, Unanswered(c, g)
    PROVE  ClientTypes' /\ fresh' \in [Daemons -> SUBSET Clients]
<1>1. CASE Retries(c, g)
  <2>1. /\ cl' = [cl EXCEPT ![c] = "connect"] /\ tries' = [tries EXCEPT ![c] = 1]
        /\ attempt' = [attempt EXCEPT ![c] = 0] /\ spawns' = [spawns EXCEPT ![c] = 0]
        /\ conn' = [conn EXCEPT ![c] = NoDaemon]
        /\ UNCHANGED <<script, n, alive, tier, made, refused, fresh>>
    BY Zenon, <1>1 DEF Unanswered, At
  <2> QED  BY <2>1 DEF TypeOK, ClientTypes, DaemonTypes
<1>2. CASE ~Retries(c, g)
  BY Zenon, <1>2, FailTypes DEF Unanswered
<1> QED  BY Zenon, <1>1, <1>2

\* What Hangup and Send leave of a queue.
LEMMA MarkedTypes ==
    ASSUME TypeOK, NEW c \in Clients, NEW d \in Daemons
    PROVE  /\ Hangup(c, d) \in [Daemons -> Seq(Entries)]
           /\ [backlog EXCEPT ![d] = [i \in 1..Len(@) |->
                  IF i \in Mine(c, d) THEN [@[i] EXCEPT !.sent = TRUE] ELSE @[i]]]
                \in [Daemons -> Seq(Entries)]
<1>1. Len(backlog[d]) \in Nat /\ \A i \in 1..Len(backlog[d]) : backlog[d][i] \in Entries
  BY Zenon, EntryTypes
<1>2. \A e \in Entries : [e EXCEPT !.up = FALSE] \in Entries /\ [e EXCEPT !.sent = TRUE] \in Entries
  BY Zenon DEF Entries
<1> DEFINE Off(i) == IF i \in Mine(c, d) THEN [backlog[d][i] EXCEPT !.up = FALSE]
                     ELSE backlog[d][i]
           Sent(i) == IF i \in Mine(c, d) THEN [backlog[d][i] EXCEPT !.sent = TRUE]
                      ELSE backlog[d][i]
<1>a. \A i \in 1..Len(backlog[d]) : Off(i) \in Entries /\ Sent(i) \in Entries
  BY Zenon, <1>1, <1>2
<1> HIDE DEF Off, Sent
<1>3. [i \in 1..Len(backlog[d]) |-> Off(i)] \in Seq(Entries)
  BY <1>1, <1>a
<1>4. [i \in 1..Len(backlog[d]) |-> Sent(i)] \in Seq(Entries)
  BY <1>1, <1>a
<1> USE DEF Off, Sent
<1> QED  BY <1>3, <1>4 DEF Hangup, TypeOK, DaemonTypes

LEMMA ClientTypesStep ==
    ASSUME TypeOK, CallInv, NEW c \in Clients, Client(c) \/ Timeout(c)
    PROVE  TypeOK'
<1>1. CASE Start(c)
  BY <1>1 DEF Start, At, TypeOK, DaemonTypes, ClientTypes
<1>2. CASE Exit(c)
  BY <1>2 DEF Exit, TypeOK, DaemonTypes, ClientTypes
<1>3. CASE Connect(c)
  <2>1. owner \in Daemons /\ backlog[owner] \in Seq(Entries) /\ Entry(c) \in Entries
    BY <1>3, ThisTypes DEF Connect, Listening, TypeOK, DaemonTypes
  <2>2. Append(backlog[owner], Entry(c)) \in Seq(Entries)
    BY <2>1
  <2>3. /\ backlog' = [backlog EXCEPT ![owner] = Append(@, Entry(c))]
        /\ conn' = [conn EXCEPT ![c] = owner] /\ cl' = [cl EXCEPT ![c] = "connected"]
        /\ UNCHANGED <<owner, pc, objs, slots, fresh, killed, applied,
                       script, n, tries, attempt, spawns, alive, tier, made, refused>>
    BY Zenon, <1>3 DEF Connect, At
  <2>4. DaemonTypes'
    BY <2>1, <2>2, <2>3 DEF TypeOK, DaemonTypes
  <2>5. ClientTypes'
    BY <2>1, <2>3 DEF TypeOK, ClientTypes
  <2> QED  BY <2>4, <2>5 DEF TypeOK
<1>4. CASE broker_spawn(c)
  <2>1. /\ attempt' = [attempt EXCEPT ![c] = @ + 1] /\ cl' = [cl EXCEPT ![c] = "nap"]
        /\ UNCHANGED spawns \/ spawns' = [spawns EXCEPT ![c] = @ + 1]
        /\ UNCHANGED pc \/ \E d \in Daemons : pc' = [pc EXCEPT ![d] = "born"]
        /\ UNCHANGED <<owner, backlog, objs, slots, fresh, killed, applied,
                       script, n, tries, conn, alive, tier, made, refused>>
    BY Zenon, <1>4 DEF broker_spawn, At, Unborn
  <2>2. DaemonTypes'
    BY Zenon, <2>1 DEF TypeOK, DaemonTypes
  <2>3. attempt' \in [Clients -> Nat] /\ spawns' \in [Clients -> Nat]
    <3>1. attempt \in [Clients -> Nat] /\ spawns \in [Clients -> Nat]
      BY Zenon DEF TypeOK, ClientTypes
    <3> QED  BY <2>1, <3>1
  <2>4. cl' \in [Clients -> {"idle", "connect", "nap", "connected", "greeted", "sent", "answered"}]
    <3>1. cl \in [Clients -> {"idle", "connect", "nap", "connected", "greeted", "sent", "answered"}]
      BY Zenon DEF TypeOK, ClientTypes
    <3> QED  BY Zenon, <2>1, <3>1
  <2>5. ClientTypes'
    BY Zenon, <2>1, <2>3, <2>4 DEF TypeOK, ClientTypes
  <2> QED  BY Zenon, <2>2, <2>5 DEF TypeOK
<1>5. CASE Churn(c)
  <2>1. ClientTypes' /\ fresh' \in [Daemons -> SUBSET Clients]
    BY Zenon, <1>5, FailTypes DEF Churn
  <2> QED  BY <1>5, <2>1 DEF Churn, TypeOK, DaemonTypes
<1>6. CASE Nap(c)
  BY <1>6 DEF Nap, At, TypeOK, DaemonTypes, ClientTypes
<1>7. CASE broker_hello_send(c)
  <2>1. /\ UNCHANGED attempt \/ attempt' = [attempt EXCEPT ![c] = @ + 1]
        /\ UNCHANGED conn \/ conn' = [conn EXCEPT ![c] = NoDaemon]
        /\ \E to \in {"greeted", "connect"} : cl' = [cl EXCEPT ![c] = to]
        /\ UNCHANGED <<daemon, script, n, tries, spawns, alive, tier, made, refused>>
    BY Zenon, <1>7 DEF broker_hello_send, At
  <2> QED  BY <2>1 DEF TypeOK, DaemonTypes, ClientTypes
<1>8. CASE Send(c)
  <2>1. CASE Connected(c)
    <3>1. conn[c] \in Daemons
      BY <2>1 DEF Connected, TypeOK, ClientTypes
    <3>2. /\ cl' = [cl EXCEPT ![c] = "sent"]
          /\ UNCHANGED <<fresh, script, n, tries, attempt, spawns, conn, alive, tier, made,
                         refused, owner, pc, objs, slots, killed, applied>>
      BY Zenon, <1>8, <2>1 DEF Send, At
    <3>3. backlog' = [backlog EXCEPT ![conn[c]] = [i \in 1..Len(@) |->
                IF i \in Mine(c, conn[c]) THEN [@[i] EXCEPT !.sent = TRUE] ELSE @[i]]]
      BY Zenon, <1>8, <2>1 DEF Send
    <3>4. backlog' \in [Daemons -> Seq(Entries)]
      BY Zenon, <3>1, <3>3, MarkedTypes
    <3> QED  BY <3>2, <3>4 DEF TypeOK, DaemonTypes, ClientTypes
  <2>2. CASE ~Connected(c)
    <3>1. ClientTypes' /\ fresh' \in [Daemons -> SUBSET Clients]
      BY Zenon, <1>8, <2>2, UnansweredTypes DEF Send
    <3> QED  BY <1>8, <2>2, <3>1 DEF Send, TypeOK, DaemonTypes
  <2> QED  BY Zenon, <2>1, <2>2
<1>9. CASE Gone(c)
  <2>1. ClientTypes' /\ fresh' \in [Daemons -> SUBSET Clients]
    BY Zenon, <1>9, UnansweredTypes DEF Gone
  <2> QED  BY <1>9, <2>1 DEF Gone, TypeOK, DaemonTypes
<1>10. CASE Timeout(c)
  <2>1. ClientTypes' /\ fresh' \in [Daemons -> SUBSET Clients]
    BY Zenon, <1>10, UnansweredTypes DEF Timeout
  <2>2. conn[c] \in Daemons
    BY <1>10 DEF Timeout, Connected, TypeOK, ClientTypes
  <2>3. backlog' \in [Daemons -> Seq(Entries)]
    BY Zenon, <1>10, <2>2, MarkedTypes DEF Timeout
  <2> QED  BY <1>10, <2>1, <2>3 DEF Timeout, TypeOK, DaemonTypes
<1>11. CASE Answered(c)
  <2>1. Tail(script[c]) \in Seq(Call)
    BY <1>11, ThisTypes DEF Answered, TypeOK, ClientTypes
  <2> QED  BY <1>11, <2>1 DEF Answered, Return, At, TypeOK, DaemonTypes, ClientTypes
<1>12. CASE cng_procreg_publish(c)
  <2>1. Tail(script[c]) \in Seq(Call) /\ conn[c] \in Daemons
    BY <1>12, ThisTypes DEF cng_procreg_publish, CallInv, TypeOK, ClientTypes
  <2> QED  BY <1>12, <2>1 DEF cng_procreg_publish, Return, At, TypeOK, DaemonTypes, ClientTypes
<1> QED  BY <1>1, <1>2, <1>3, <1>4, <1>5, <1>6, <1>7, <1>8, <1>9, <1>10, <1>11, <1>12 DEF Client

-----------------------------------------------------------------------------
(* Who has the name, and what a client in a call is about.                 *)

\* A call that is over, and one that starts afresh.
Over(c) ==
    /\ cl' = [cl EXCEPT ![c] = "idle"] /\ script' = [script EXCEPT ![c] = Tail(@)]
    /\ conn' = [conn EXCEPT ![c] = NoDaemon] /\ UNCHANGED <<n, alive>>
Again(c) ==
    /\ cl' = [cl EXCEPT ![c] = "connect"] /\ conn' = [conn EXCEPT ![c] = NoDaemon]
    /\ UNCHANGED <<script, n, alive, made>>

LEMMA Ends ==
    ASSUME NEW c \in Clients, NEW g \in BOOLEAN, Unanswered(c, g)
    PROVE  (Over(c) /\ UNCHANGED made) \/ (g /\ Again(c))
BY Zenon DEF Unanswered, Retries, Fail, Return, At, Over, Again

LEMMA OwnerStepDaemon ==
    ASSUME TypeOK, OwnerInv, NEW d \in Daemons, Daemon(d) \/ Kill(d)
    PROVE  OwnerInv'
<1> USE DEF Bound, Go
<1>1. owner \in Daemons \cup {NoDaemon} /\ pc = [f \in Daemons |-> pc[f]] /\ NoDaemon \notin Daemons
      /\ DOMAIN backlog = Daemons
  <2>1. NoDaemon \notin Daemons
    BY DEF NoDaemon, Daemons
  <2> QED  BY <2>1 DEF TypeOK, DaemonTypes
<1>2. CASE Bind(d)
  BY <1>1, <1>2 DEF Bind, OwnerInv
<1>3. CASE Listen(d) \/ GraceOver(d) \/ Scan(d) \/ FinalPoll(d) \/ Teardown(d)
  <2>1. /\ UNCHANGED <<owner, backlog>>
        /\ \E to \in {"poll", "scan", "look", "leave", "gone"} :
              pc' = [pc EXCEPT ![d] = to] /\ (pc[d] \in Bound <=> to \in Bound)
    BY Zenon, <1>3 DEF Listen, GraceOver, Scan, FinalPoll, Teardown
  <2> QED  BY Zenon, <1>1, <2>1 DEF OwnerInv
<1>4. CASE ipc_serve(d)
  <2>1. CASE UNCHANGED pc
    <3>1. pc[d] = "poll" /\ UNCHANGED owner /\ \A f \in Daemons \ {d} : backlog'[f] = backlog[f]
      BY <1>1, <1>4, <2>1 DEF ipc_serve
    <3> QED  BY <2>1, <3>1 DEF OwnerInv
  <2>2. CASE ~UNCHANGED pc
    <3>1. /\ pc[d] = "poll" /\ backlog[d] # <<>> /\ UNCHANGED <<owner, backlog>>
          /\ pc' = [pc EXCEPT ![d] = "reply"]
      BY <1>4, <2>2 DEF ipc_serve
    <3> QED  BY <1>1, <3>1 DEF OwnerInv
  <2> QED  BY <2>1, <2>2
<1>5. CASE Reply(d)
  <2>1. /\ pc[d] = "reply" /\ pc' = [pc EXCEPT ![d] = "poll"] /\ UNCHANGED owner
        /\ backlog' = [backlog EXCEPT ![d] = Tail(@)]
    BY Zenon, <1>5 DEF Reply
  <2> QED  BY <1>1, <2>1 DEF OwnerInv
<1>6. CASE CloseListener(d)
  BY <1>1, <1>6 DEF CloseListener, OwnerInv
<1>7. CASE Kill(d)
  BY Zenon, <1>1, <1>7 DEF Kill, OwnerInv
<1> QED  BY <1>2, <1>3, <1>4, <1>5, <1>6, <1>7 DEF Daemon

LEMMA CallStepDaemon ==
    ASSUME TypeOK, OwnerInv, CallInv, QueueInv, NEW d \in Daemons, Daemon(d) \/ Kill(d)
    PROVE  CallInv'
<1>1. CASE UNCHANGED client
  BY <1>1 DEF CallInv, Op
<1>2. CASE Reply(d)
  <2> DEFINE e == backlog[d][1]
  <2>1. /\ pc[d] = "reply" /\ UNCHANGED <<script, n, conn, alive>>
        /\ cl' = IF e.up THEN [cl EXCEPT ![e.call[1]] = "answered"] ELSE cl
    BY <1>2, EntryTypes DEF Reply
  <2>2. backlog[d] # <<>> /\ 1 \in 1..Len(backlog[d])
    BY <2>1, EntryTypes DEF OwnerInv
  <2>3. e.call[1] \in Clients /\ (e.up => cl[e.call[1]] \in Linked)
    BY Zenon, <2>2, EntryTypes DEF QueueInv, Placed
  <2>4. \A c \in Clients : cl'[c] = cl[c] \/ (cl[c] \in Linked /\ cl'[c] = "answered")
    BY <2>1, <2>3 DEF TypeOK, ClientTypes
  <2> QED  BY Zenon, <2>1, <2>4 DEF CallInv, Op, Linked
<1> QED  BY Zenon, <1>1, <1>2 DEF Daemon, Kill, Bind, Listen, ipc_serve, GraceOver, Scan, FinalPoll,
                           CloseListener, Teardown

LEMMA OwnerStepClient ==
    ASSUME TypeOK, OwnerInv, CallInv, NEW c \in Clients, Client(c) \/ Timeout(c)
    PROVE  OwnerInv'
<1>1. CASE broker_spawn(c)
  <2>1. /\ UNCHANGED <<owner, backlog>>
        /\ UNCHANGED pc \/ \E d \in Daemons : pc[d] = "none" /\ pc' = [pc EXCEPT ![d] = "born"]
    BY Zenon, <1>1 DEF broker_spawn, Unborn
  <2> QED  BY <2>1 DEF OwnerInv, Bound, TypeOK, DaemonTypes
<1>2. CASE Connect(c)
  <2>1. UNCHANGED <<owner, pc>> /\ backlog' = [backlog EXCEPT ![owner] = Append(@, Entry(c))]
        /\ owner \in Daemons
    BY <1>2 DEF Connect, Listening, TypeOK, DaemonTypes
  <2>2. Entry(c) \in Entries
    BY Zenon, <1>2, ThisTypes DEF Connect
  <2>3. \A d \in Daemons : backlog[d] # <<>> => backlog'[d] # <<>>
    <3>1. backlog[owner] \in Seq(Entries)
      BY <2>1 DEF TypeOK, DaemonTypes
    <3>2. Len(Append(backlog[owner], Entry(c))) = Len(backlog[owner]) + 1
      BY <2>2, <3>1
    <3>a. Len(backlog[owner]) \in Nat /\ Len(<<>>) = 0
      BY <3>1
    <3>b. Len(Append(backlog[owner], Entry(c))) # Len(<<>>)
      BY <3>2, <3>a
    <3>3. Append(backlog[owner], Entry(c)) # <<>>
      BY Zenon, <3>b
    <3> QED  BY Zenon, <2>1, <3>3 DEF TypeOK, DaemonTypes
  <2> QED  BY Zenon, <2>1, <2>3 DEF OwnerInv
<1>3. CASE UNCHANGED <<owner, pc>> /\ \A d \in Daemons : Len(backlog'[d]) = Len(backlog[d])
  <2>1. TypeOK'
    BY Zenon, ClientTypesStep
  <2>2. \A d \in Daemons : backlog[d] # <<>> => backlog'[d] # <<>>
    BY <1>3, <2>1 DEF TypeOK, DaemonTypes
  <2> QED  BY Zenon, <1>3, <2>2 DEF OwnerInv
<1>4. CASE UNCHANGED <<owner, pc, backlog>>
  BY Zenon, <1>4 DEF OwnerInv
<1>5. CASE Send(c) /\ Connected(c)
  <2>1. UNCHANGED <<owner, pc>> /\ backlog' = [backlog EXCEPT ![conn[c]] = [i \in 1..Len(@) |->
                IF i \in Mine(c, conn[c]) THEN [@[i] EXCEPT !.sent = TRUE] ELSE @[i]]]
    BY Zenon, <1>5 DEF Send
  <2> QED  BY <1>3, <2>1, EntryTypes DEF TypeOK, DaemonTypes
<1>6. CASE Timeout(c)
  <2>1. UNCHANGED <<owner, pc>> /\ backlog' = Hangup(c, conn[c])
    BY Zenon, <1>6 DEF Timeout
  <2> QED  BY <1>3, <2>1, EntryTypes DEF Hangup, TypeOK, DaemonTypes
<1> QED  BY Zenon, <1>1, <1>2, <1>4, <1>5, <1>6 DEF Client, Start, Exit, Churn, Nap, broker_hello_send,
             Send, Gone, Answered, cng_procreg_publish

LEMMA CallStepClient ==
    ASSUME TypeOK, CallInv, NEW c \in Clients, Client(c) \/ Timeout(c)
    PROVE  CallInv'
<1> DEFINE P(x) == /\ n[x] + Len(script[x]) <= IF cl[x] = "idle" THEN MaxCalls ELSE MaxCalls + 1
                   /\ cl[x] # "idle" => /\ alive[x] /\ script[x] # <<>>
                                        /\ Head(script[x]).op # "exit" /\ n[x] >= 1
                   /\ cl[x] \in Linked \cup {"answered"} => conn[x] \in Daemons
<1>1. \A x \in Clients : P(x)
  BY Zenon DEF CallInv, Op
<1>2. SUFFICES P(c)' /\ \A x \in Clients \ {c} : /\ n'[x] = n[x] /\ script'[x] = script[x]
                                               /\ cl'[x] = cl[x] /\ alive'[x] = alive[x]
                                               /\ conn'[x] = conn[x]
  <2> SUFFICES ASSUME NEW x \in Clients PROVE P(x)'
    BY Zenon DEF CallInv, Op
  <2>1. CASE x = c
    BY Zenon, <1>2, <2>1
  <2>2. CASE x # c
    BY <1>1, <1>2, <2>2
  <2> QED  BY Zenon, <2>1, <2>2
<1>3. n[c] \in Nat /\ script[c] \in Seq(Call) /\ MaxCalls \in Nat
  BY BrokerLifeAssumption DEF TypeOK, ClientTypes
<1>4. CASE Start(c)
  BY <1>1, <1>3, <1>4 DEF Start, At, Op, Linked, TypeOK, ClientTypes
<1>5. CASE Exit(c)
  BY <1>1, <1>3, <1>5 DEF Exit, Linked, TypeOK, ClientTypes
<1>6. CASE Connect(c)
  <2>1. owner \in Daemons /\ conn' = [conn EXCEPT ![c] = owner] /\ cl[c] = "connect"
        /\ cl' = [cl EXCEPT ![c] = "connected"] /\ UNCHANGED <<script, n, alive>>
    BY <1>6 DEF Connect, At, Listening, TypeOK, DaemonTypes
  <2> QED  BY <1>1, <2>1 DEF TypeOK, ClientTypes
<1>7. CASE broker_spawn(c)
  <2>1. cl[c] = "connect" /\ cl' = [cl EXCEPT ![c] = "nap"] /\ UNCHANGED <<script, n, alive, conn>>
    BY Zenon, <1>7 DEF broker_spawn, At
  <2> QED  BY <1>1, <2>1 DEF Linked, TypeOK, ClientTypes
<1>8. CASE cl[c] # "idle" /\ Over(c)
  <2>1. Len(Tail(script[c])) = Len(script[c]) - 1 /\ Tail(script[c]) \in Seq(Call)
    BY <1>1, <1>3, <1>8
  <2> QED  BY <1>1, <1>3, <1>8, <2>1 DEF Over, Linked, TypeOK, ClientTypes
<1>9. CASE cl[c] # "idle" /\ Again(c)
  BY <1>1, <1>9 DEF Again, Linked, TypeOK, ClientTypes
<1>10. CASE Churn(c)
  BY Zenon, <1>8, <1>10 DEF Churn, Fail, Return, At, Over
<1>11. CASE Nap(c)
  BY <1>1, <1>11 DEF Nap, At, Linked, TypeOK, ClientTypes
<1>12. CASE broker_hello_send(c)
  <2>1. CASE Connected(c)
    BY <1>1, <1>12, <2>1 DEF broker_hello_send, At, Linked, TypeOK, ClientTypes
  <2>2. CASE ~Connected(c)
    BY Zenon, <1>9, <1>12, <2>2 DEF broker_hello_send, At, Again
  <2> QED  BY <2>1, <2>2
<1>13. CASE Send(c)
  <2>1. CASE Connected(c)
    <3>1. cl[c] = "greeted" /\ cl' = [cl EXCEPT ![c] = "sent"] /\ UNCHANGED <<script, n, alive, conn>>
      BY Zenon, <1>13, <2>1 DEF Send, At
    <3> QED  BY <1>1, <3>1 DEF Linked, TypeOK, ClientTypes
  <2>2. CASE ~Connected(c)
    BY Zenon, <1>8, <1>9, <1>13, <2>2, Ends DEF Send
  <2> QED  BY <2>1, <2>2
<1>14. CASE Gone(c)
  BY Zenon, <1>8, <1>9, <1>14, Ends DEF Gone
<1>15. CASE Timeout(c)
  BY Zenon, <1>8, <1>9, <1>15, Ends DEF Timeout
<1>16. CASE Answered(c) \/ cng_procreg_publish(c)
  BY Zenon, <1>8, <1>16 DEF Answered, cng_procreg_publish, Return, At, Over
<1> QED  BY Zenon, <1>4, <1>5, <1>6, <1>7, <1>10, <1>11, <1>12, <1>13, <1>14, <1>15, <1>16 DEF Client

-----------------------------------------------------------------------------
(* The queues and what was applied: steps of a client.                     *)

\* A step of client c that leaves every call where it is in the queues.
SameQueues ==
    \A d \in Daemons :
        /\ Len(backlog'[d]) = Len(backlog[d]) /\ (pc[d] = "reply" <=> pc'[d] = "reply")
        /\ \A i \in 1..Len(backlog[d]) : /\ backlog'[d][i].call = backlog[d][i].call
                                         /\ backlog'[d][i].op = backlog[d][i].op
OthersStay(c) ==
    \A x \in Clients \ {c} : /\ cl'[x] = cl[x] /\ conn'[x] = conn[x]
                             /\ n'[x] = n[x] /\ script'[x] = script[x]
Moves(c) ==
    /\ SameQueues /\ OthersStay(c) /\ UNCHANGED <<applied, killed>>
    /\ n'[c] \in {n[c], n[c] + 1}
    /\ n'[c] = n[c] => /\ cl[c] = "idle" => cl'[c] = "idle"
                       /\ cl'[c] \notin {"idle", "answered"} => cl[c] \notin {"idle", "answered"}
    /\ \A d \in Daemons : \A i \in 1..Len(backlog[d]) :
          IF backlog[d][i].call[1] # c THEN backlog'[d][i].up = backlog[d][i].up
          ELSE IF backlog'[d][i].up
          THEN /\ backlog[d][i].up /\ cl'[c] \in Linked /\ conn'[c] = conn[c]
               /\ n'[c] = n[c] /\ script'[c] = script[c]
          ELSE backlog[d][i].up => cl'[c] = "idle" /\ n'[c] = n[c]

LEMMA QueueMoves ==
    ASSUME TypeOK, QueueInv, NEW c \in Clients, Moves(c)
    PROVE  QueueInv'
<1>1. ASSUME NEW d \in Daemons, NEW i \in 1..Len(backlog'[d])
      PROVE  Placed(d, backlog[d][i])'
  <2> DEFINE e == backlog[d][i]  x == e.call[1]
  <2>1. i \in 1..Len(backlog[d]) /\ e'.call = e.call /\ e'.op = e.op
    BY Zenon, <1>1 DEF Moves, SameQueues
  <2>2. x \in Clients /\ e.call[2] \in Nat /\ Placed(d, e) /\ n[x] \in Nat
    BY SMTT(40), <2>1, EntryTypes DEF QueueInv, TypeOK, ClientTypes
  <2>3. CASE x # c
    <3>1. cl'[x] = cl[x] /\ conn'[x] = conn[x] /\ n'[x] = n[x] /\ script'[x] = script[x]
          /\ e'.up = e.up
      BY Zenon, <2>1, <2>2, <2>3 DEF Moves, OthersStay
    <3> QED  BY Zenon, <2>1, <2>2, <3>1 DEF Placed, This, Op
  <2>4. CASE x = c /\ e'.up
    <3>1. e.up /\ cl'[c] \in Linked /\ conn'[c] = conn[c] /\ n'[c] = n[c] /\ script'[c] = script[c]
      BY Zenon, <2>1, <2>4 DEF Moves
    <3> QED  BY <2>1, <2>2, <2>4, <3>1 DEF Placed, This, Op
  <2>5. CASE x = c /\ ~e'.up
    <3>1. CASE e.up
      <4>1. cl'[c] = "idle" /\ n'[c] = n[c] /\ e.call[2] = n[c]
        BY <2>1, <2>2, <2>5, <3>1 DEF Moves, Placed, This
      <4> QED  BY Zenon, <2>1, <2>5, <4>1 DEF Placed
    <3>2. CASE ~e.up
      <4>1. e.call[2] < n[c] \/ (cl[c] = "idle" /\ e.call[2] = n[c])
        BY <2>2, <2>5, <3>2 DEF Placed
      <4>2. /\ n'[c] = n[c] \/ n'[c] = n[c] + 1
            /\ n'[c] = n[c] /\ cl[c] = "idle" => cl'[c] = "idle"
        BY Zenon DEF Moves
      <4>3. e.call[2] < n'[c] \/ (cl'[c] = "idle" /\ e.call[2] = n'[c])
        BY <2>2, <2>5, <4>1, <4>2
      <4> QED  BY <2>1, <2>5, <4>3 DEF Placed
    <3> QED  BY Zenon, <3>1, <3>2
  <2> QED  BY Zenon, <2>3, <2>4, <2>5
<1>2. ASSUME NEW d \in Daemons, NEW f \in Daemons, NEW i \in 1..Len(backlog'[d]),
             NEW j \in 1..Len(backlog'[f]), backlog'[d][i].call = backlog'[f][j].call
      PROVE  d = f /\ i = j
  <2>1. /\ i \in 1..Len(backlog[d]) /\ j \in 1..Len(backlog[f])
        /\ backlog[d][i].call = backlog[f][j].call
    BY Zenon, <1>2 DEF Moves, SameQueues
  <2> QED  BY Zenon, <2>1 DEF QueueInv
<1> QED  BY <1>1, <1>2 DEF QueueInv

LEMMA AppliedMoves ==
    ASSUME TypeOK, OwnerInv, QueueInv, AppliedInv, NEW c \in Clients, Moves(c)
    PROVE  AppliedInv'
<1>1. UNCHANGED <<applied, killed>> /\ AtMostOnce'
  <2>1. applied' = applied /\ killed' = killed
    BY Zenon DEF Moves
  <2> QED  BY <2>1 DEF AppliedInv, AtMostOnce
<1>2. ASSUME NEW d \in Daemons \ killed, NEW x \in Clients, NEW k \in 1..MaxCalls,
             applied[d][<<x, k>>] # 0
      PROVE  /\ k <= n'[x]
             /\ k = n'[x] /\ cl'[x] \notin {"idle", "answered"} => Held(d, <<x, k>>)'
  <2>1. /\ k <= n[x] /\ n[x] \in Nat
        /\ k = n[x] /\ cl[x] \notin {"idle", "answered"} => Held(d, <<x, k>>)
    BY Zenon, <1>2 DEF AppliedInv, TypeOK, ClientTypes
  <2>2. Held(d, <<x, k>>) => Held(d, <<x, k>>)'
    <3> SUFFICES ASSUME Held(d, <<x, k>>) PROVE Held(d, <<x, k>>)'
      OBVIOUS
    <3>1. pc[d] = "reply" /\ backlog[d][1].call = <<x, k>> /\ 1 \in 1..Len(backlog[d])
      BY EntryTypes DEF Held, OwnerInv
    <3> QED  BY Zenon, <3>1 DEF Held, Moves, SameQueues
  <2>3. CASE x # c
    BY Zenon, <2>1, <2>2, <2>3 DEF Moves, OthersStay
  <2>4. CASE x = c
    <3>1. /\ n'[c] = n[c] \/ n'[c] = n[c] + 1
          /\ n'[c] = n[c] /\ cl'[c] \notin {"idle", "answered"} => cl[c] \notin {"idle", "answered"}
      BY Zenon DEF Moves
    <3> QED  BY <2>1, <2>2, <2>4, <3>1
  <2> QED  BY Zenon, <2>3, <2>4
<1>3. ASSUME NEW d \in Daemons \ killed, NEW f \in Daemons, NEW i \in 1..Len(backlog'[f]),
             applied[d][backlog'[f][i].call] # 0
      PROVE  d = f /\ i = 1 /\ pc'[f] = "reply"
  <2>1. i \in 1..Len(backlog[f]) /\ backlog'[f][i].call = backlog[f][i].call
        /\ (pc[f] = "reply" => pc'[f] = "reply")
    BY <1>3 DEF Moves, SameQueues
  <2>2. applied[d][backlog[f][i].call] # 0
    BY <1>3, <2>1
  <2> QED  BY <2>1, <2>2 DEF AppliedInv
<1> QED  BY <1>1, <1>2, <1>3 DEF AppliedInv

\* A client that nothing in the queues waits for has no open entry there.
LEMMA NoEntry ==
    ASSUME TypeOK, QueueInv, NEW c \in Clients, cl[c] \notin Linked \/ ~Connected(c)
    PROVE  \A d \in Daemons : \A i \in 1..Len(backlog[d]) :
              backlog[d][i].call[1] = c => ~backlog[d][i].up
<1> SUFFICES ASSUME NEW d \in Daemons, NEW i \in 1..Len(backlog[d]),
                    backlog[d][i].call[1] = c, backlog[d][i].up
             PROVE  FALSE
  BY Zenon
<1>1. cl[c] \in Linked /\ conn[c] = d
  BY Zenon DEF QueueInv, Placed
<1>2. i \in Mine(c, d) /\ d # NoDaemon
  BY DEF Mine, Daemons, NoDaemon
<1> QED  BY Zenon, <1>1, <1>2 DEF Connected

\* Steps that leave the queues as they are.
LEMMA MovesIdly ==
    ASSUME TypeOK, QueueInv, NEW c \in Clients, UNCHANGED <<applied, killed, backlog, n>>,
           \A d \in Daemons : pc[d] = "reply" <=> pc'[d] = "reply",
           OthersStay(c), cl[c] = "idle" => cl'[c] = "idle",
           cl'[c] \notin {"idle", "answered"} => cl[c] \notin {"idle", "answered"},
           \/ cl[c] \notin Linked \/ ~Connected(c)
           \/ cl'[c] \in Linked /\ conn'[c] = conn[c] /\ script'[c] = script[c]
    PROVE  Moves(c)
<1>1. SameQueues
  BY DEF SameQueues
<1>2. n'[c] \in {n[c], n[c] + 1}
  BY Zenon
<1>3. ASSUME NEW d \in Daemons, NEW i \in 1..Len(backlog[d])
      PROVE  IF backlog[d][i].call[1] # c THEN backlog'[d][i].up = backlog[d][i].up
             ELSE IF backlog'[d][i].up
             THEN /\ backlog[d][i].up /\ cl'[c] \in Linked /\ conn'[c] = conn[c]
                  /\ n'[c] = n[c] /\ script'[c] = script[c]
             ELSE backlog[d][i].up => cl'[c] = "idle" /\ n'[c] = n[c]
  BY Zenon, NoEntry
<1> QED  BY Zenon, <1>1, <1>2, <1>3 DEF Moves

\* Steps that mark the entries of c.
LEMMA MovesMarking ==
    ASSUME TypeOK, QueueInv, NEW c \in Clients, cl[c] = "greeted" \/ cl[c] = "sent",
           (Send(c) /\ Connected(c)) \/ Timeout(c)
    PROVE  Moves(c)
<1>1. conn[c] \in Daemons /\ DOMAIN backlog = Daemons
  BY Zenon DEF Timeout, Connected, TypeOK, ClientTypes, DaemonTypes
<1>2. CASE Send(c) /\ Connected(c)
  <2>1. /\ cl' = [cl EXCEPT ![c] = "sent"]
        /\ UNCHANGED <<script, n, conn, pc, killed, applied>>
    BY Zenon, <1>2 DEF Send, At
  <2>2. backlog' = [backlog EXCEPT ![conn[c]] = [i \in 1..Len(@) |->
                IF i \in Mine(c, conn[c]) THEN [@[i] EXCEPT !.sent = TRUE] ELSE @[i]]]
    BY Zenon, <1>2 DEF Send
  <2>3. ASSUME NEW d \in Daemons
        PROVE  /\ Len(backlog'[d]) = Len(backlog[d])
               /\ \A i \in 1..Len(backlog[d]) : /\ backlog'[d][i].call = backlog[d][i].call
                                                /\ backlog'[d][i].op = backlog[d][i].op
                                                /\ backlog'[d][i].up = backlog[d][i].up
    <3>1. Len(backlog[d]) \in Nat /\ \A i \in 1..Len(backlog[d]) : backlog[d][i] \in Entries
      BY Zenon, EntryTypes
    <3>2. \A e \in Entries : LET o == [e EXCEPT !.sent = TRUE] IN
              o.call = e.call /\ o.op = e.op /\ o.up = e.up
      BY DEF Entries
    <3>3. CASE d = conn[c]
      <4>1. backlog'[d] = [i \in 1..Len(backlog[d]) |->
                 IF i \in Mine(c, d) THEN [backlog[d][i] EXCEPT !.sent = TRUE] ELSE backlog[d][i]]
        BY Zenon, <1>1, <2>2, <3>3
      <4>2. Len(backlog'[d]) = Len(backlog[d])
        BY <3>1, <4>1
      <4>3. \A i \in 1..Len(backlog[d]) : backlog'[d][i] =
                 IF i \in Mine(c, d) THEN [backlog[d][i] EXCEPT !.sent = TRUE] ELSE backlog[d][i]
        BY Zenon, <4>1
      <4> QED  BY Zenon, <3>1, <3>2, <4>2, <4>3
    <3>4. CASE d # conn[c]
      BY <1>1, <2>2, <3>4
    <3> QED  BY Zenon, <3>3, <3>4
  <2>4. SameQueues
    BY Zenon, <2>1, <2>3 DEF SameQueues
  <2>5. OthersStay(c) /\ cl'[c] = "sent" /\ n'[c] = n[c]
    BY <2>1 DEF OthersStay, TypeOK, ClientTypes
  <2>6. cl'[c] \in Linked /\ conn'[c] = conn[c] /\ script'[c] = script[c]
    BY <2>1, <2>5 DEF Linked
  <2>7. cl[c] \notin {"idle", "answered"}
    OBVIOUS
  <2> QED  BY Zenon, <2>1, <2>3, <2>4, <2>5, <2>6, <2>7 DEF Moves
<1>3. CASE Timeout(c)
  <2>1. backlog' = Hangup(c, conn[c]) /\ UNCHANGED <<pc, killed, applied>> /\ Over(c)
    BY Zenon, <1>3, Ends DEF Timeout
  <2>2. OthersStay(c) /\ cl'[c] = "idle" /\ n'[c] = n[c]
    BY <2>1 DEF OthersStay, Over, TypeOK, ClientTypes
  <2>3. ASSUME NEW d \in Daemons
        PROVE  /\ Len(backlog'[d]) = Len(backlog[d])
               /\ \A i \in 1..Len(backlog[d]) :
                     /\ backlog'[d][i].call = backlog[d][i].call
                     /\ backlog'[d][i].op = backlog[d][i].op
                     /\ backlog'[d][i].up =
                          IF d = conn[c] /\ i \in Mine(c, d) THEN FALSE ELSE backlog[d][i].up
    <3>1. Len(backlog[d]) \in Nat /\ \A i \in 1..Len(backlog[d]) : backlog[d][i] \in Entries
      BY Zenon, EntryTypes
    <3>2. \A e \in Entries : LET o == [e EXCEPT !.up = FALSE] IN
              o.call = e.call /\ o.op = e.op /\ o.up = FALSE
      BY DEF Entries
    <3>3. CASE d = conn[c]
      <4>1. backlog'[d] = [i \in 1..Len(backlog[d]) |->
                 IF i \in Mine(c, d) THEN [backlog[d][i] EXCEPT !.up = FALSE] ELSE backlog[d][i]]
        BY Zenon, <1>1, <2>1, <3>3 DEF Hangup
      <4>2. Len(backlog'[d]) = Len(backlog[d])
        BY <3>1, <4>1
      <4>3. \A i \in 1..Len(backlog[d]) : backlog'[d][i] =
                 IF i \in Mine(c, d) THEN [backlog[d][i] EXCEPT !.up = FALSE] ELSE backlog[d][i]
        BY Zenon, <4>1
      <4>4. ASSUME NEW i \in 1..Len(backlog[d])
            PROVE  /\ backlog'[d][i].call = backlog[d][i].call
                   /\ backlog'[d][i].op = backlog[d][i].op
                   /\ backlog'[d][i].up = IF i \in Mine(c, d) THEN FALSE ELSE backlog[d][i].up
        <5>1. CASE i \in Mine(c, d)
          BY Zenon, <3>1, <3>2, <4>3, <5>1
        <5>2. CASE i \notin Mine(c, d)
          BY Zenon, <4>3, <5>2
        <5> QED  BY Zenon, <5>1, <5>2
      <4> QED  BY Zenon, <3>3, <4>2, <4>4
    <3>4. CASE d # conn[c]
      <4>1. backlog'[d] = backlog[d]
        BY <1>1, <2>1, <3>4 DEF Hangup
      <4> QED  BY Zenon, <3>4, <4>1
    <3> QED  BY Zenon, <3>3, <3>4
  <2>4. SameQueues
    BY Zenon, <2>1, <2>3 DEF SameQueues
  <2>5. ASSUME NEW d \in Daemons, NEW i \in 1..Len(backlog[d]), backlog[d][i].call[1] = c
        PROVE  ~backlog'[d][i].up
    <3>1. CASE backlog[d][i].up
      <4>1. conn[c] = d /\ i \in Mine(c, d)
        BY Zenon, <2>5, <3>1 DEF QueueInv, Placed, Mine
      <4>2. backlog'[d][i].up = FALSE
        BY Zenon, <2>3, <4>1
      <4> QED  BY <4>2
    <3>2. CASE ~backlog[d][i].up
      BY Zenon, <2>3, <3>2
    <3> QED  BY Zenon, <3>1, <3>2
  <2>6. ASSUME NEW d \in Daemons, NEW i \in 1..Len(backlog[d]), backlog[d][i].call[1] # c
        PROVE  backlog'[d][i].up = backlog[d][i].up
    BY Zenon, <2>3, <2>6 DEF Mine
  <2> QED  BY Zenon, <2>1, <2>2, <2>4, <2>5, <2>6 DEF Moves
<1> QED  BY Zenon, <1>2, <1>3

LEMMA ClientMoves ==
    ASSUME TypeOK, CallInv, QueueInv, NEW c \in Clients, Client(c) \/ Timeout(c), ~Connect(c)
    PROVE  Moves(c)
<1>1. CASE Start(c)
  <2>1. /\ UNCHANGED <<daemon, script, conn>> /\ cl[c] = "idle"
        /\ cl' = [cl EXCEPT ![c] = "connect"] /\ n' = [n EXCEPT ![c] = @ + 1]
    BY Zenon, <1>1 DEF Start, At
  <2>2. OthersStay(c) /\ n'[c] = n[c] + 1 /\ n[c] \in Nat
    BY <2>1 DEF OthersStay, TypeOK, ClientTypes
  <2>3. SameQueues /\ n'[c] # n[c]
    BY <2>1, <2>2 DEF SameQueues
  <2>4. \A d \in Daemons : \A i \in 1..Len(backlog[d]) : backlog[d][i].call[1] = c => ~backlog[d][i].up
    BY Zenon, <2>1, NoEntry DEF Linked
  <2> QED  BY Zenon, <2>1, <2>2, <2>3, <2>4 DEF Moves
<1>2. CASE Exit(c)
  <2>1. UNCHANGED <<daemon, cl, n, conn>> /\ cl[c] = "idle" /\ OthersStay(c)
    BY Zenon, <1>2 DEF Exit, OthersStay, TypeOK, ClientTypes
  <2> QED  BY <2>1, MovesIdly DEF Linked
<1>3. CASE broker_spawn(c)
  <2>1. /\ cl' = [cl EXCEPT ![c] = "nap"] /\ cl[c] = "connect"
        /\ UNCHANGED pc \/ \E d \in Daemons : pc[d] = "none" /\ pc' = [pc EXCEPT ![d] = "born"]
        /\ UNCHANGED <<backlog, killed, applied, script, n, conn>>
    BY Zenon, <1>3 DEF broker_spawn, At, Unborn
  <2>2. \A d \in Daemons : pc[d] = "reply" <=> pc'[d] = "reply"
    BY <2>1 DEF TypeOK, DaemonTypes
  <2>3. OthersStay(c)
    BY <2>1 DEF OthersStay, TypeOK, ClientTypes
  <2> QED  BY Zenon, <2>1, <2>2, <2>3, MovesIdly DEF Linked
<1>4. CASE /\ cl[c] # "idle" /\ Over(c) /\ UNCHANGED <<pc, backlog, applied, killed>>
           /\ cl[c] \notin Linked \/ ~Connected(c)
  <2>1. OthersStay(c) /\ cl'[c] = "idle"
    BY <1>4 DEF OthersStay, Over, TypeOK, ClientTypes
  <2> QED  BY <1>4, <2>1, MovesIdly DEF Over
<1>5. CASE /\ cl[c] \in Linked /\ Again(c) /\ UNCHANGED <<pc, backlog, applied, killed>>
           /\ ~Connected(c)
  <2>1. OthersStay(c) /\ cl[c] \notin {"idle", "answered"}
    BY <1>5 DEF OthersStay, Again, Linked, TypeOK, ClientTypes
  <2> QED  BY <1>5, <2>1, MovesIdly DEF Again
<1>6. CASE Churn(c)
  <2>1. /\ cl[c] # "idle" /\ Over(c) /\ UNCHANGED <<pc, backlog, applied, killed>>
        /\ cl[c] \notin Linked
    BY Zenon, <1>6 DEF Churn, Fail, Return, At, Over, Linked
  <2> QED  BY Zenon, <1>4, <2>1
<1>7. CASE Nap(c)
  <2>1. /\ cl[c] = "nap" /\ cl' = [cl EXCEPT ![c] = "connect"]
        /\ UNCHANGED <<daemon, script, n, conn>> /\ OthersStay(c)
    BY <1>7 DEF Nap, At, OthersStay, TypeOK, ClientTypes
  <2> QED  BY Zenon, <2>1, MovesIdly DEF Linked
<1>8. CASE broker_hello_send(c)
  <2>1. CASE Connected(c)
    <3>1. /\ cl[c] = "connected" /\ cl' = [cl EXCEPT ![c] = "greeted"]
          /\ UNCHANGED <<daemon, script, n, conn>>
      BY Zenon, <1>8, <2>1 DEF broker_hello_send, At
    <3>2. OthersStay(c) /\ cl'[c] \in Linked
      BY <3>1 DEF OthersStay, Linked, TypeOK, ClientTypes
    <3> QED  BY <3>1, <3>2, MovesIdly DEF Linked
  <2>2. CASE ~Connected(c)
    BY Zenon, <1>5, <1>8, <2>2 DEF broker_hello_send, At, Again, Linked
  <2> QED  BY Zenon, <2>1, <2>2
<1>9. CASE Send(c) /\ ~Connected(c)
  <2>1. cl[c] \in Linked /\ cl[c] # "idle" /\ UNCHANGED <<pc, backlog, applied, killed>> /\ Unanswered(c, TRUE)
    BY Zenon, <1>9 DEF Send, Linked
  <2> QED  BY Zenon, <1>4, <1>5, <1>9, <2>1, Ends
<1>10. CASE Gone(c)
  <2>1. cl[c] \in Linked /\ cl[c] # "idle" /\ UNCHANGED <<pc, backlog, applied, killed>> /\ Unanswered(c, TRUE)
        /\ ~Connected(c)
    BY Zenon, <1>10 DEF Gone, Linked
  <2> QED  BY Zenon, <1>4, <1>5, <2>1, Ends
<1>11. CASE (Send(c) /\ Connected(c)) \/ Timeout(c)
  BY Zenon, <1>11, MovesMarking DEF Send, Timeout
<1>12. CASE Answered(c) \/ cng_procreg_publish(c)
  <2>1. /\ cl[c] # "idle" /\ Over(c) /\ UNCHANGED <<pc, backlog, applied, killed>>
        /\ cl[c] \notin Linked
    BY Zenon, <1>12 DEF Answered, cng_procreg_publish, Return, At, Over, Linked
  <2> QED  BY Zenon, <1>4, <2>1
<1> QED  BY Zenon, <1>1, <1>2, <1>3, <1>6, <1>7, <1>8, <1>9, <1>10, <1>11, <1>12 DEF Client

\* What a connect adds to the queue of the daemon that has the name.
LEMMA ConnectShape ==
    ASSUME TypeOK, OwnerInv, CallInv, NEW c \in Clients, Connect(c)
    PROVE  /\ owner \in Daemons /\ cl[c] = "connect" /\ Entry(c) \in Entries
           /\ cl' = [cl EXCEPT ![c] = "connected"] /\ conn' = [conn EXCEPT ![c] = owner]
           /\ UNCHANGED <<owner, pc, objs, killed, applied, script, n, alive, made>>
           /\ Len(backlog'[owner]) = Len(backlog[owner]) + 1
           /\ backlog'[owner][Len(backlog[owner]) + 1] = Entry(c)
           /\ \A d \in Daemons : \A i \in 1..Len(backlog[d]) : backlog'[d][i] = backlog[d][i]
           /\ \A d \in Daemons \ {owner} : backlog'[d] = backlog[d]
<1>1. owner \in Daemons /\ cl[c] = "connect" /\ Entry(c) \in Entries
  BY ThisTypes DEF Connect, Listening, TypeOK, DaemonTypes
<1>2. /\ backlog' = [backlog EXCEPT ![owner] = Append(@, Entry(c))]
      /\ cl' = [cl EXCEPT ![c] = "connected"] /\ conn' = [conn EXCEPT ![c] = owner]
      /\ UNCHANGED <<owner, pc, objs, killed, applied, script, n, alive, made>>
  BY Zenon DEF Connect, At
<1>3. backlog[owner] \in Seq(Entries) /\ DOMAIN backlog = Daemons
  BY <1>1 DEF TypeOK, DaemonTypes
<1>4. backlog'[owner] = Append(backlog[owner], Entry(c))
      /\ \A d \in Daemons \ {owner} : backlog'[d] = backlog[d]
  BY Zenon, <1>1, <1>2, <1>3
<1>5. /\ Len(backlog'[owner]) = Len(backlog[owner]) + 1
      /\ backlog'[owner][Len(backlog[owner]) + 1] = Entry(c)
      /\ \A i \in 1..Len(backlog[owner]) : backlog'[owner][i] = backlog[owner][i]
  BY SMTT(40), <1>1, <1>3, <1>4
<1> QED  BY Zenon, <1>1, <1>2, <1>4, <1>5

\* A client that connects has no entry for this call, open or not.
LEMMA CallNotQueued ==
    ASSUME TypeOK, QueueInv, NEW c \in Clients, cl[c] \notin Linked \cup {"idle"}
    PROVE  \A d \in Daemons : \A i \in 1..Len(backlog[d]) : backlog[d][i].call # This(c)
<1> SUFFICES ASSUME NEW d \in Daemons, NEW i \in 1..Len(backlog[d]), backlog[d][i].call = This(c)
             PROVE  FALSE
  BY Zenon
<1>1. backlog[d][i].call[1] = c /\ backlog[d][i].call[2] = n[c] /\ n[c] \in Nat
  BY DEF This, TypeOK, ClientTypes
<1>2. Placed(d, backlog[d][i])
  BY Zenon DEF QueueInv
<1> QED  BY <1>1, <1>2 DEF Placed

LEMMA QueueConnect ==
    ASSUME TypeOK, OwnerInv, CallInv, QueueInv, NEW c \in Clients, Connect(c)
    PROVE  QueueInv'
<1> DEFINE m == Len(backlog[owner]) + 1
<1>1. /\ owner \in Daemons /\ cl[c] = "connect" /\ UNCHANGED <<script, n>>
      /\ cl' = [cl EXCEPT ![c] = "connected"] /\ conn' = [conn EXCEPT ![c] = owner]
  BY Zenon, ConnectShape
<1>2. /\ \A x \in Clients \ {c} : cl'[x] = cl[x] /\ conn'[x] = conn[x]
      /\ cl'[c] = "connected" /\ conn'[c] = owner
  BY <1>1 DEF TypeOK, ClientTypes
<1>3. ASSUME NEW d \in Daemons, NEW i \in 1..Len(backlog'[d])
      PROVE  \/ i \in 1..Len(backlog[d]) /\ backlog'[d][i] = backlog[d][i]
             \/ d = owner /\ i = m /\ backlog'[d][i] = Entry(c)
  <2>1. Len(backlog[owner]) \in Nat
    BY Zenon, <1>1, EntryTypes
  <2>2. CASE d = owner
    <3>1. i \in 1..Len(backlog[owner]) \/ i = m
      BY <1>3, <2>1, <2>2, ConnectShape
    <3> QED  BY Zenon, <2>2, <3>1, ConnectShape
  <2>3. CASE d # owner
    BY Zenon, <2>3, ConnectShape
  <2> QED  BY Zenon, <2>2, <2>3
<1>4. /\ Entry(c).call = This(c) /\ Entry(c).call[1] = c /\ Entry(c).up /\ Entry(c).op = Op(c).op
  BY DEF Entry, This
<1>5. ASSUME NEW d \in Daemons, NEW i \in 1..Len(backlog'[d])
      PROVE  Placed(d, backlog[d][i])'
  <2>1. CASE i \in 1..Len(backlog[d]) /\ backlog'[d][i] = backlog[d][i]
    <3> DEFINE e == backlog[d][i]  x == e.call[1]
    <3>1. Placed(d, e) /\ x \in Clients
      BY Zenon, <2>1, EntryTypes DEF QueueInv
    <3>2. CASE x # c
      <4>1. cl'[x] = cl[x] /\ conn'[x] = conn[x] /\ n' = n /\ script' = script
        BY Zenon, <1>1, <1>2, <3>1, <3>2
      <4> QED  BY Zenon, <2>1, <3>1, <4>1 DEF Placed, This, Op
    <3>3. CASE x = c
      <4>1. ~e.up /\ e.call[2] < n[c]
        BY <1>1, <3>1, <3>3 DEF Placed, Linked
      <4> QED  BY Zenon, <1>1, <2>1, <3>3, <4>1 DEF Placed
    <3> QED  BY Zenon, <3>2, <3>3
  <2>2. CASE d = owner /\ i = m /\ backlog'[d][i] = Entry(c)
    <3>1. cl'[c] \in Linked /\ conn'[c] = d /\ This(c)' = This(c) /\ Op(c)' = Op(c)
      BY <1>1, <1>2, <2>2 DEF This, Op, Linked
    <3> QED  BY Zenon, <1>4, <2>2, <3>1 DEF Placed
  <2> QED  BY Zenon, <1>3, <2>1, <2>2
<1>6. ASSUME NEW d \in Daemons, NEW f \in Daemons, NEW i \in 1..Len(backlog'[d]),
             NEW j \in 1..Len(backlog'[f]), backlog'[d][i].call = backlog'[f][j].call
      PROVE  d = f /\ i = j
  <2>1. \A b \in Daemons : \A k \in 1..Len(backlog[b]) : backlog[b][k].call # Entry(c).call
    BY <1>1, <1>4, CallNotQueued DEF Linked
  <2>2. \A b, a \in Daemons : \A k \in 1..Len(backlog[b]), l \in 1..Len(backlog[a]) :
            backlog[b][k].call = backlog[a][l].call => b = a /\ k = l
    BY Zenon DEF QueueInv
  <2>3. CASE i \in 1..Len(backlog[d]) /\ backlog'[d][i] = backlog[d][i]
    <3>1. j \in 1..Len(backlog[f]) /\ backlog'[f][j] = backlog[f][j]
      BY Zenon, <1>3, <1>6, <2>1, <2>3
    <3>2. backlog[d][i].call = backlog[f][j].call
      BY Zenon, <1>6, <2>3, <3>1
    <3> QED  BY <2>2, <2>3, <3>1, <3>2
  <2>4. CASE d = owner /\ i = m /\ backlog'[d][i] = Entry(c)
    <3>1. f = owner /\ j = m
      BY Zenon, <1>3, <1>6, <2>1, <2>4
    <3> QED  BY Zenon, <2>4, <3>1
  <2> QED  BY Zenon, <1>3, <2>3, <2>4
<1> QED  BY Zenon, <1>5, <1>6 DEF QueueInv

LEMMA AppliedConnect ==
    ASSUME TypeOK, OwnerInv, CallInv, QueueInv, AppliedInv, NEW c \in Clients, Connect(c)
    PROVE  AppliedInv'
<1> DEFINE m == Len(backlog[owner]) + 1
<1>1. /\ owner \in Daemons /\ cl[c] = "connect" /\ UNCHANGED <<pc, n, applied, killed>>
      /\ cl' = [cl EXCEPT ![c] = "connected"] /\ Len(backlog[owner]) \in Nat
      /\ Len(backlog'[owner]) = m
      /\ backlog'[owner][m] = Entry(c)
      /\ \A d \in Daemons : \A i \in 1..Len(backlog[d]) : backlog'[d][i] = backlog[d][i]
      /\ \A d \in Daemons \ {owner} : backlog'[d] = backlog[d]
  BY Zenon, ConnectShape, EntryTypes
<1>2. AtMostOnce'
  <2>1. applied' = applied /\ killed' = killed
    BY Zenon, <1>1
  <2> QED  BY <2>1 DEF AppliedInv, AtMostOnce
<1>3. ASSUME NEW d \in Daemons, NEW k, Held(d, k)
      PROVE  Held(d, k)' /\ 1 \in 1..Len(backlog[d])
  <2>1. pc[d] = "reply" /\ backlog[d][1].call = k /\ 1 \in 1..Len(backlog[d])
    BY <1>3, EntryTypes DEF Held, OwnerInv
  <2> QED  BY Zenon, <1>1, <2>1 DEF Held
<1>4. ASSUME NEW d \in Daemons \ killed, NEW x \in Clients, NEW k \in 1..MaxCalls,
             applied[d][<<x, k>>] # 0
      PROVE  /\ k <= n[x]
             /\ k = n[x] /\ cl'[x] \notin {"idle", "answered"} => Held(d, <<x, k>>)'
  <2>1. /\ k <= n[x]
        /\ k = n[x] /\ cl[x] \notin {"idle", "answered"} => Held(d, <<x, k>>)
    BY Zenon, <1>4 DEF AppliedInv
  <2>2. cl'[x] \notin {"idle", "answered"} => cl[x] \notin {"idle", "answered"}
    BY Zenon, <1>1 DEF TypeOK, ClientTypes
  <2> QED  BY Zenon, <1>3, <2>1, <2>2
<1>5. \A d \in Daemons \ killed : applied[d][This(c)] = 0
  <2> SUFFICES ASSUME NEW d \in Daemons \ killed, applied[d][This(c)] # 0 PROVE FALSE
    BY Zenon
  <2>1. n[c] \in 1..MaxCalls /\ cl[c] \notin {"idle", "answered"}
    BY <1>1, ThisTypes
  <2>2. Held(d, This(c))
    BY Zenon, <2>1 DEF AppliedInv, This
  <2> QED  BY <1>1, <1>3, <2>2, CallNotQueued DEF Held, Linked
<1>6. ASSUME NEW d \in Daemons \ killed, NEW f \in Daemons, NEW i \in 1..Len(backlog'[f]),
             applied[d][backlog'[f][i].call] # 0
      PROVE  d = f /\ i = 1 /\ pc[f] = "reply"
  <2>1. CASE i \in 1..Len(backlog[f])
    <3>1. applied[d][backlog[f][i].call] # 0
      BY Zenon, <1>1, <1>6, <2>1
    <3> QED  BY Zenon, <2>1, <3>1 DEF AppliedInv
  <2>2. CASE i \notin 1..Len(backlog[f])
    <3>1. f = owner
      BY Zenon, <1>1, <2>2
    <3>2. i = m
      BY <1>1, <2>2, <3>1
    <3>3. backlog'[f][i].call = This(c)
      <4>1. backlog'[f][i] = Entry(c)
        BY Zenon, <1>1, <3>1, <3>2
      <4>2. Entry(c).call = This(c)
        BY DEF Entry
      <4> QED  BY Zenon, <4>1, <4>2
    <3> QED  BY Zenon, <1>5, <1>6, <3>3
  <2> QED  BY Zenon, <2>1, <2>2
<1> QED  BY SMTT(40), <1>1, <1>2, <1>4, <1>6 DEF AppliedInv

LEMMA ObjStepClient ==
    ASSUME TypeOK, OwnerInv, CallInv, QueueInv, ObjInv, NEW c \in Clients,
           Client(c) \/ Timeout(c)
    PROVE  ObjInv'
<1>1. /\ UNCHANGED <<owner, objs, killed>>
      /\ \A d \in Daemons : pc'[d] = pc[d] \/ (pc[d] = "none" /\ pc'[d] = "born")
  <2>1. UNCHANGED <<owner, objs, killed>>
    BY Zenon DEF Client, Start, Exit, Connect, broker_spawn, Churn, Nap, broker_hello_send, Send,
       Gone, Answered, cng_procreg_publish, Timeout
  <2>2. UNCHANGED pc \/ \E d \in Daemons : pc[d] = "none" /\ pc' = [pc EXCEPT ![d] = "born"]
    BY Zenon DEF Client, Start, Exit, Connect, broker_spawn, Unborn, Churn, Nap, broker_hello_send, Send,
       Gone, Answered, cng_procreg_publish, Timeout
  <2> QED  BY <2>1, <2>2 DEF TypeOK, DaemonTypes
<1>2. OthersStay(c)
  <2>1. CASE Connect(c)
    <3>1. /\ cl' = [cl EXCEPT ![c] = "connected"] /\ conn' = [conn EXCEPT ![c] = owner]
          /\ UNCHANGED <<n, script>>
      BY Zenon, <2>1, ConnectShape
    <3>2. \A x \in Clients \ {c} : cl'[x] = cl[x] /\ conn'[x] = conn[x]
      BY <3>1 DEF TypeOK, ClientTypes
    <3> QED  BY Zenon, <3>1, <3>2 DEF OthersStay
  <2> QED  BY Zenon, <2>1, ClientMoves DEF Moves
<1>3. cl'[c] # "answered"
  <2>1. \E to \in {"idle", "connect", "nap", "connected", "greeted", "sent"} :
            cl' = [cl EXCEPT ![c] = to] \/ (cl[c] = "idle" /\ cl' = cl)
    <3>1. CASE Send(c) \/ Gone(c) \/ Timeout(c)
      <4>1. (Send(c) /\ Connected(c)) \/ Over(c) \/ Again(c)
        BY Zenon, <3>1, Ends DEF Send, Gone, Timeout
      <4> QED  BY Zenon, <4>1 DEF Over, Again, Send, At
    <3>2. CASE ~(Send(c) \/ Gone(c) \/ Timeout(c))
      BY Zenon, <3>2 DEF Client, Start, Exit, Connect, broker_spawn, Churn, Nap, broker_hello_send,
         Answered, cng_procreg_publish, Fail, Return, At
    <3> QED  BY Zenon, <3>1, <3>2
  <2> QED  BY <2>1 DEF TypeOK, ClientTypes
<1>4. \A x \in Clients : alive'[x] => alive[x]
  <2>1. UNCHANGED alive \/ alive' = [alive EXCEPT ![c] = FALSE]
    <3>1. CASE Send(c) \/ Gone(c) \/ Timeout(c)
      <4>1. (Send(c) /\ Connected(c)) \/ Over(c) \/ Again(c)
        BY Zenon, <3>1, Ends DEF Send, Gone, Timeout
      <4> QED  BY Zenon, <4>1 DEF Over, Again, Send
    <3>2. CASE ~(Send(c) \/ Gone(c) \/ Timeout(c))
      BY Zenon, <3>2 DEF Client, Start, Exit, Connect, broker_spawn, Churn, Nap, broker_hello_send,
         Answered, cng_procreg_publish, Fail, Return
    <3> QED  BY Zenon, <3>1, <3>2
  <2> QED  BY Zenon, <2>1 DEF TypeOK, ClientTypes
<1>5. UNCHANGED made \/ (made' = made \cup {c} /\ cl[c] = "answered" /\ Op(c).op = "make")
  <2>1. CASE Send(c) \/ Gone(c) \/ Timeout(c)
    <3>1. (Send(c) /\ Connected(c)) \/ UNCHANGED made
      BY Zenon, <2>1, Ends DEF Send, Gone, Timeout, Again
    <3> QED  BY Zenon, <3>1 DEF Send
  <2>2. CASE ~(Send(c) \/ Gone(c) \/ Timeout(c))
    BY Zenon, <2>2 DEF Client, Start, Exit, Connect, broker_spawn, Churn, Nap, broker_hello_send,
       Answered, cng_procreg_publish, Fail
  <2> QED  BY Zenon, <2>1, <2>2
<1>6. ASSUME NEW d \in Daemons, pc'[d] = "reply"
      PROVE  backlog'[d][1].call = backlog[d][1].call /\ backlog'[d][1].op = backlog[d][1].op
             /\ pc[d] = "reply"
  <2>1. pc[d] = "reply"
    BY <1>1, <1>6
  <2>2. 1 \in 1..Len(backlog[d])
    BY <2>1, EntryTypes DEF OwnerInv
  <2>3. CASE Connect(c)
    BY Zenon, <2>1, <2>2, <2>3, ConnectShape
  <2>4. CASE ~Connect(c)
    <3>1. SameQueues
      BY Zenon, <2>4, ClientMoves DEF Moves
    <3> QED  BY Zenon, <2>1, <2>2, <3>1 DEF SameQueues
  <2> QED  BY Zenon, <2>3, <2>4
<1>7. ASSUME NEW d \in Daemons, pc'[d] = "reply", backlog'[d][1].op = "make"
      PROVE  backlog'[d][1].call[1] \in objs'[d]
  <2>1. backlog[d][1].op = "make" /\ pc[d] = "reply"
    BY Zenon, <1>6, <1>7
  <2>2. backlog[d][1].call[1] \in objs[d]
    BY Zenon, <2>1 DEF ObjInv
  <2> QED  BY Zenon, <1>1, <1>6, <1>7, <2>2
<1>8. ASSUME NEW d \in Daemons, pc'[d] \in {"look", "leave"}, NEW x \in objs'[d]
      PROVE  ~alive'[x]
  <2>1. pc[d] \in {"look", "leave"} /\ x \in objs[d] /\ x \in Clients
    BY <1>1, <1>8 DEF TypeOK, DaemonTypes
  <2> QED  BY Zenon, <1>4, <2>1 DEF ObjInv
<1>9. ASSUME killed' = {}, NEW x \in Clients, cl'[x] = "answered", Op(x)'.op = "make"
      PROVE  conn'[x] = owner' /\ x \in objs'[owner']
  <2>1. x # c /\ cl[x] = "answered" /\ Op(x) = Op(x)' /\ conn'[x] = conn[x]
    BY <1>2, <1>3, <1>9 DEF OthersStay, Op
  <2>2. conn[x] = owner /\ x \in objs[owner]
    BY Zenon, <1>1, <1>9, <2>1 DEF ObjInv
  <2> QED  BY Zenon, <1>1, <2>1, <2>2
<1>10. ASSUME killed' = {}, NEW x \in made', alive'[x]
       PROVE  owner' # NoDaemon /\ x \in objs'[owner']
  <2>1. x \in Clients /\ alive[x]
    BY <1>4, <1>5, <1>10 DEF TypeOK, ClientTypes
  <2>2. CASE x \in made
    BY Zenon, <1>1, <1>10, <2>1, <2>2 DEF ObjInv, AnchoredStateKept
  <2>3. CASE x = c /\ cl[c] = "answered" /\ Op(c).op = "make"
    <3>1. conn[c] = owner /\ c \in objs[owner]
      BY Zenon, <1>1, <1>10, <2>3 DEF ObjInv
    <3>2. conn[c] # NoDaemon
      BY <2>3 DEF CallInv, Daemons, NoDaemon
    <3> QED  BY Zenon, <1>1, <2>3, <3>1, <3>2
  <2> QED  BY Zenon, <1>5, <1>10, <2>2, <2>3
<1> QED  BY Zenon, <1>7, <1>8, <1>9, <1>10 DEF ObjInv, AnchoredStateKept

-----------------------------------------------------------------------------
(* The same: steps of a daemon.                                            *)

\* The rest of a queue: each entry is the one that was behind.
LEMMA Shifted ==
    ASSUME TypeOK, NEW d \in Daemons, backlog[d] # <<>>,
           backlog' = [backlog EXCEPT ![d] = Tail(@)]
    PROVE  /\ \A f \in Daemons : \A i \in 1..Len(backlog'[f]) :
                 \/ f # d /\ i \in 1..Len(backlog[f]) /\ backlog'[f][i] = backlog[f][i]
                 \/ f = d /\ i \in Nat /\ i + 1 \in 2..Len(backlog[f]) /\ backlog'[f][i] = backlog[f][i + 1]
           /\ \A i \in 1..Len(backlog'[d]) :
                 i \in Nat /\ i + 1 \in 2..Len(backlog[d]) /\ backlog'[d][i] = backlog[d][i + 1]
<1>1. backlog[d] \in Seq(Entries) /\ DOMAIN backlog = Daemons
  BY DEF TypeOK, DaemonTypes
<1>2. backlog'[d] = Tail(backlog[d]) /\ \A f \in Daemons \ {d} : backlog'[f] = backlog[f]
  BY <1>1
<1>3. /\ Len(Tail(backlog[d])) = Len(backlog[d]) - 1 /\ Len(backlog[d]) \in Nat
      /\ \A i \in 1..Len(Tail(backlog[d])) : Tail(backlog[d])[i] = backlog[d][i + 1]
  BY <1>1
<1>4. ASSUME NEW i \in 1..Len(backlog'[d])
      PROVE  i \in Nat /\ i + 1 \in 2..Len(backlog[d]) /\ backlog'[d][i] = backlog[d][i + 1]
  <2>1. i \in 1..Len(Tail(backlog[d]))
    BY Zenon, <1>2
  <2>2. i \in Nat /\ i + 1 \in 2..Len(backlog[d])
    BY <1>3, <2>1
  <2> QED  BY Zenon, <1>2, <1>3, <2>1, <2>2
<1> QED  BY Zenon, <1>2, <1>4

LEMMA QueueShift ==
    ASSUME TypeOK, QueueInv, NEW d \in Daemons, backlog[d] # <<>>,
           backlog' = [backlog EXCEPT ![d] = Tail(@)], UNCHANGED <<conn, n, script>>,
           \/ UNCHANGED cl
           \/ backlog[d][1].up /\ cl' = [cl EXCEPT ![backlog[d][1].call[1]] = "answered"]
    PROVE  QueueInv'
<1> DEFINE h == backlog[d][1]  c == h.call[1]  Was(f, i) == IF f = d THEN i + 1 ELSE i
<1>1. 1 \in 1..Len(backlog[d]) /\ c \in Clients /\ Placed(d, h)
  <2>1. 1 \in 1..Len(backlog[d])
    BY EntryTypes
  <2> QED  BY Zenon, <2>1, EntryTypes DEF QueueInv
<1>2. ASSUME NEW f \in Daemons, NEW i \in 1..Len(backlog'[f])
      PROVE  /\ Was(f, i) \in 1..Len(backlog[f]) /\ backlog'[f][i] = backlog[f][Was(f, i)]
             /\ i \in Nat /\ (f = d => Was(f, i) # 1)
  <2>a. \/ f # d /\ i \in 1..Len(backlog[f]) /\ backlog'[f][i] = backlog[f][i]
        \/ f = d /\ i \in Nat /\ i + 1 \in 2..Len(backlog[f]) /\ backlog'[f][i] = backlog[f][i + 1]
    <3>1. \A g \in Daemons : \A k \in 1..Len(backlog'[g]) :
              \/ g # d /\ k \in 1..Len(backlog[g]) /\ backlog'[g][k] = backlog[g][k]
              \/ g = d /\ k \in Nat /\ k + 1 \in 2..Len(backlog[g]) /\ backlog'[g][k] = backlog[g][k + 1]
      BY Zenon, Shifted
    <3> QED  BY Zenon, <1>2, <3>1
  <2>1. CASE f = d
    <3>1. i \in Nat /\ i + 1 \in 2..Len(backlog[f]) /\ backlog'[f][i] = backlog[f][i + 1]
      BY Zenon, <2>1, <2>a
    <3>2. i + 1 \in 1..Len(backlog[f]) /\ i + 1 # 1
      BY <3>1, EntryTypes
    <3> QED  BY Zenon, <2>1, <3>1, <3>2
  <2>2. CASE f # d
    <3>1. i \in 1..Len(backlog[f]) /\ backlog'[f][i] = backlog[f][i]
      BY Zenon, <2>2, Shifted
    <3>2. i \in Nat
      BY <3>1, EntryTypes
    <3> QED  BY Zenon, <2>2, <3>1, <3>2
  <2> QED  BY Zenon, <2>1, <2>2
<1>3. ASSUME NEW f \in Daemons, NEW i \in 1..Len(backlog'[f])
      PROVE  Placed(f, backlog[f][i])'
  <2> DEFINE j == Was(f, i)
  <2>1. j \in 1..Len(backlog[f]) /\ backlog'[f][i] = backlog[f][j] /\ (f = d => j # 1)
    BY Zenon, <1>2
  <2> HIDE DEF j
  <2> DEFINE e == backlog[f][j]  x == e.call[1]
  <2>2. Placed(f, e) /\ x \in Clients /\ e.call # h.call
    BY SMTT(40), <1>1, <2>1, EntryTypes DEF QueueInv
  <2>3. CASE cl'[x] = cl[x]
    BY Zenon, <2>1, <2>2, <2>3 DEF Placed, This, Op
  <2>4. CASE cl'[x] # cl[x]
    <3>1. x = c /\ h.up
      BY Zenon, <1>1, <2>2, <2>4 DEF TypeOK, ClientTypes
    <3>2. cl[c] \in Linked /\ h.call = This(c)
      BY <1>1, <3>1 DEF Placed
    <3>3. ~e.up /\ e.call[2] < n[c]
      BY Zenon, <2>2, <3>1, <3>2 DEF Placed, Linked
    <3> QED  BY Zenon, <2>1, <3>1, <3>3 DEF Placed
  <2> QED  BY <2>3, <2>4
<1>4. ASSUME NEW f \in Daemons, NEW g \in Daemons, NEW i \in 1..Len(backlog'[f]),
             NEW j \in 1..Len(backlog'[g]), backlog'[f][i].call = backlog'[g][j].call
      PROVE  f = g /\ i = j
  <2>1. /\ Was(f, i) \in 1..Len(backlog[f]) /\ Was(g, j) \in 1..Len(backlog[g])
        /\ backlog[f][Was(f, i)].call = backlog[g][Was(g, j)].call /\ i \in Nat /\ j \in Nat
    <3>1. /\ Was(f, i) \in 1..Len(backlog[f]) /\ backlog'[f][i] = backlog[f][Was(f, i)] /\ i \in Nat
      BY Zenon, <1>2
    <3>2. /\ Was(g, j) \in 1..Len(backlog[g]) /\ backlog'[g][j] = backlog[g][Was(g, j)] /\ j \in Nat
      BY Zenon, <1>2
    <3> HIDE DEF Was
    <3> QED  BY Zenon, <1>4, <3>1, <3>2
  <2>2. f = g /\ Was(f, i) = Was(g, j)
    <3> HIDE DEF Was
    <3> QED  BY <2>1 DEF QueueInv
  <2> QED  BY <2>1, <2>2
<1> QED  BY Zenon, <1>3, <1>4 DEF QueueInv

LEMMA QueueSame ==
    ASSUME QueueInv, UNCHANGED <<backlog, client>>
    PROVE  QueueInv'
<1>1. ASSUME NEW d \in Daemons, NEW i \in 1..Len(backlog'[d])
      PROVE  Placed(d, backlog[d][i])'
  <2>1. Placed(d, backlog[d][i]) /\ backlog'[d][i] = backlog[d][i]
    BY Zenon DEF QueueInv
  <2> QED  BY Zenon, <2>1 DEF Placed, This, Op
<1>2. ASSUME NEW d \in Daemons, NEW f \in Daemons, NEW i \in 1..Len(backlog'[d]),
             NEW j \in 1..Len(backlog'[f]), backlog'[d][i].call = backlog'[f][j].call
      PROVE  d = f /\ i = j
  <2>1. /\ i \in 1..Len(backlog[d]) /\ j \in 1..Len(backlog[f])
        /\ backlog[d][i].call = backlog[f][j].call
    BY <1>2
  <2> QED  BY Zenon, <2>1 DEF QueueInv
<1> QED  BY Zenon, <1>1, <1>2 DEF QueueInv

LEMMA QueueStepDaemon ==
    ASSUME TypeOK, OwnerInv, QueueInv, NEW d \in Daemons, Daemon(d) \/ Kill(d)
    PROVE  QueueInv'
<1>1. CASE UNCHANGED <<backlog, client>>
  BY Zenon, <1>1, QueueSame
<1>2. CASE Reply(d)
  <2>1. pc[d] = "reply" /\ backlog[d] # <<>>
    BY Zenon, <1>2 DEF Reply, OwnerInv
  <2>2. Head(backlog[d]) = backlog[d][1]
    BY <2>1, EntryTypes
  <2>3. /\ backlog' = [backlog EXCEPT ![d] = Tail(@)] /\ UNCHANGED <<conn, n, script>>
        /\ \/ UNCHANGED cl
           \/ backlog[d][1].up /\ cl' = [cl EXCEPT ![backlog[d][1].call[1]] = "answered"]
    BY Zenon, <1>2, <2>2 DEF Reply
  <2> QED  BY Zenon, <2>1, <2>3, QueueShift
<1>3. CASE ipc_serve(d)
  <2>1. backlog[d] # <<>> /\ UNCHANGED client
        /\ (UNCHANGED backlog \/ backlog' = [backlog EXCEPT ![d] = Tail(@)])
    BY Zenon, <1>3 DEF ipc_serve
  <2> QED  BY Zenon, <1>1, <2>1, QueueShift
<1>4. CASE CloseListener(d) \/ Kill(d)
  <2>1. backlog' = [backlog EXCEPT ![d] = <<>>] /\ UNCHANGED client
    BY Zenon, <1>4 DEF CloseListener, Kill
  <2>2. \A f \in Daemons : \A i \in 1..Len(backlog'[f]) :
            i \in 1..Len(backlog[f]) /\ backlog'[f][i] = backlog[f][i]
    BY <2>1 DEF TypeOK, DaemonTypes
  <2>3. ASSUME NEW f \in Daemons, NEW i \in 1..Len(backlog'[f])
        PROVE  Placed(f, backlog[f][i])'
    <3>1. Placed(f, backlog[f][i]) /\ backlog'[f][i] = backlog[f][i]
      BY Zenon, <2>2 DEF QueueInv
    <3> QED  BY Zenon, <2>1, <3>1 DEF Placed, This, Op
  <2>4. ASSUME NEW f \in Daemons, NEW g \in Daemons, NEW i \in 1..Len(backlog'[f]),
               NEW j \in 1..Len(backlog'[g]), backlog'[f][i].call = backlog'[g][j].call
        PROVE  f = g /\ i = j
    <3>1. /\ i \in 1..Len(backlog[f]) /\ j \in 1..Len(backlog[g])
          /\ backlog[f][i].call = backlog[g][j].call
      BY <2>2, <2>4
    <3> QED  BY <3>1 DEF QueueInv
  <2> QED  BY Zenon, <2>3, <2>4 DEF QueueInv
<1> QED  BY Zenon, <1>1, <1>2, <1>3, <1>4 DEF Daemon, Bind, Listen, GraceOver, Scan, FinalPoll, Teardown

\* Steps of daemon d that apply nothing: its queue only gets shorter, and what
\* is held is let go.
LEMMA AppliedIdle ==
    ASSUME TypeOK, AppliedInv, NEW d \in Daemons, UNCHANGED <<applied, n>>, killed \subseteq killed',
           \A f \in Daemons \ {d} : pc'[f] = pc[f] /\ backlog'[f] = backlog[f],
           pc'[d] # "reply" \/ d \in killed',
           \A i \in 1..Len(backlog'[d]) : \E j \in 1..Len(backlog[d]) :
               backlog'[d][i] = backlog[d][j] /\ (pc[d] = "reply" => j # 1),
           \A x \in Clients : \/ cl'[x] = cl[x] /\ (pc[d] # "reply" \/ d \in killed'
                                                    \/ backlog[d][1].call # This(x)
                                                    \/ cl[x] \in {"idle", "answered"})
                              \/ cl'[x] = "answered"
    PROVE  AppliedInv'
<1>1. AtMostOnce'
  <2> SUFFICES ASSUME NEW k \in Calls, NEW f \in Daemons \ killed'
               PROVE  /\ applied[f][k] <= 1
                      /\ applied[f][k] = 1 =>
                            \A e \in Daemons \ (killed' \cup {f}) : applied[e][k] = 0
    BY Zenon DEF AtMostOnce
  <2>1. f \in Daemons \ killed /\ Daemons \ (killed' \cup {f}) \subseteq Daemons \ (killed \cup {f})
    BY Zenon
  <2>2. /\ applied[f][k] <= 1
        /\ applied[f][k] = 1 => \A e \in Daemons \ (killed \cup {f}) : applied[e][k] = 0
    BY Zenon, <2>1 DEF AppliedInv, AtMostOnce
  <2> QED  BY Zenon, <2>1, <2>2
<1>2. ASSUME NEW f \in Daemons \ killed', NEW x \in Clients, NEW k \in 1..MaxCalls,
             applied[f][<<x, k>>] # 0
      PROVE  /\ k <= n[x]
             /\ k = n[x] /\ cl'[x] \notin {"idle", "answered"} => Held(f, <<x, k>>)'
  <2>1. /\ k <= n[x]
        /\ k = n[x] /\ cl[x] \notin {"idle", "answered"} => Held(f, <<x, k>>)
    BY Zenon, <1>2 DEF AppliedInv
  <2>2. SUFFICES ASSUME k = n[x], cl'[x] \notin {"idle", "answered"}
                 PROVE  Held(f, <<x, k>>)'
    BY Zenon, <2>1
  <2>3. cl'[x] = cl[x] /\ Held(f, <<x, k>>)
    BY Zenon, <2>1, <2>2
  <2>4. CASE f # d
    BY Zenon, <2>3, <2>4 DEF Held
  <2>5. CASE f = d
    BY Zenon, <2>2, <2>3, <2>5 DEF Held, This
  <2> QED  BY Zenon, <2>4, <2>5
<1>3. ASSUME NEW g \in Daemons \ killed', NEW f \in Daemons, NEW i \in 1..Len(backlog'[f]),
             applied[g][backlog'[f][i].call] # 0
      PROVE  g = f /\ i = 1 /\ pc'[f] = "reply"
  <2>a. g \in Daemons \ killed
    BY Zenon
  <2>1. CASE f # d
    <3>1. i \in 1..Len(backlog[f]) /\ applied[g][backlog[f][i].call] # 0 /\ pc'[f] = pc[f]
      BY Zenon, <1>3, <2>1
    <3>2. g = f /\ i = 1 /\ pc[f] = "reply"
      BY SMTT(40), <2>a, <3>1 DEF AppliedInv
    <3> QED  BY <3>1, <3>2
  <2>2. CASE f = d
    <3>1. PICK j \in 1..Len(backlog[d]) : backlog'[d][i] = backlog[d][j] /\ (pc[d] = "reply" => j # 1)
      BY Zenon, <2>2
    <3>2. applied[g][backlog[d][j].call] # 0
      BY Zenon, <1>3, <2>2, <3>1
    <3>3. j = 1 /\ pc[d] = "reply"
      BY SMTT(40), <2>a, <3>2 DEF AppliedInv
    <3> QED  BY Zenon, <3>1, <3>3
  <2> QED  BY Zenon, <2>1, <2>2
<1>4. \A f \in Daemons \ killed', x \in Clients, k \in 1..MaxCalls :
          applied'[f][<<x, k>>] # 0 =>
              /\ k <= n'[x]
              /\ k = n'[x] /\ cl'[x] \notin {"idle", "answered"} => Held(f, <<x, k>>)'
  BY Zenon, <1>2
<1>5. \A g \in Daemons \ killed', f \in Daemons : \A i \in 1..Len(backlog'[f]) :
          applied'[g][backlog'[f][i].call] # 0 => g = f /\ i = 1 /\ pc'[f] = "reply"
  BY ZenonT(40), <1>3
<1> QED  BY Zenon, <1>1, <1>4, <1>5 DEF AppliedInv

LEMMA AppliedServe ==
    ASSUME TypeOK, QueueInv, AppliedInv, NEW d \in Daemons, pc[d] = "poll", backlog[d] # <<>>,
           pc' = [pc EXCEPT ![d] = "reply"], UNCHANGED <<backlog, killed, client>>,
           applied' = [applied EXCEPT ![d][backlog[d][1].call] = @ + 1]
    PROVE  AppliedInv'
<1> DEFINE q == backlog[d][1].call
<1>1. 1 \in 1..Len(backlog[d]) /\ q \in Calls /\ q[1] \in Clients /\ q[2] \in 1..MaxCalls
      /\ q = <<q[1], q[2]>>
  <2>1. 1 \in 1..Len(backlog[d])
    BY EntryTypes
  <2> QED  BY Zenon, <2>1, EntryTypes
<1>2. \A f \in Daemons \ killed : applied[f][q] = 0
  BY Zenon, <1>1 DEF AppliedInv
<1>3. /\ \A f \in Daemons, k \in Calls : f # d \/ k # q => applied'[f][k] = applied[f][k]
      /\ applied'[d][q] = applied[d][q] + 1
      /\ pc'[d] = "reply" /\ \A f \in Daemons \ {d} : pc'[f] = pc[f]
  BY Zenon, <1>1 DEF TypeOK, DaemonTypes
<1>4. AtMostOnce'
  <2> SUFFICES ASSUME NEW k \in Calls, NEW f \in Daemons \ killed
               PROVE  /\ applied'[f][k] <= 1
                      /\ applied'[f][k] = 1 =>
                            \A e \in Daemons \ (killed \cup {f}) : applied'[e][k] = 0
    BY Zenon DEF AtMostOnce
  <2>1. CASE k # q
    <3>1. \A e \in Daemons : applied'[e][k] = applied[e][k]
      BY Zenon, <1>3, <2>1
    <3>2. /\ applied[f][k] <= 1
          /\ applied[f][k] = 1 => \A e \in Daemons \ (killed \cup {f}) : applied[e][k] = 0
      BY Zenon DEF AppliedInv, AtMostOnce
    <3> QED  BY <3>1, <3>2
  <2>2. CASE k = q
    <3>1. \A e \in Daemons \ (killed \cup {d}) : applied'[e][k] = 0
      BY SMTT(40), <1>1, <1>2, <1>3, <2>2
    <3>2. d \in killed \/ applied'[d][k] = 1
      BY SMTT(40), <1>2, <1>3, <2>2
    <3> QED  BY SMTT(40), <3>1, <3>2
  <2> QED  BY Zenon, <2>1, <2>2
<1>5. q[2] <= n[q[1]]
  <2>1. Placed(d, backlog[d][1]) /\ n[q[1]] \in Nat
    BY Zenon, <1>1 DEF QueueInv, TypeOK, ClientTypes
  <2>2. q[2] = n[q[1]] \/ q[2] < n[q[1]]
    BY SMTT(40), <2>1 DEF Placed, This
  <2> QED  BY SMTT(40), <1>1, <2>1, <2>2
<1>6. ASSUME NEW f \in Daemons \ killed, NEW x \in Clients, NEW k \in 1..MaxCalls,
             applied'[f][<<x, k>>] # 0
      PROVE  /\ k <= n[x]
             /\ k = n[x] /\ cl[x] \notin {"idle", "answered"} => Held(f, <<x, k>>)'
  <2>1. CASE f = d /\ <<x, k>> = q
    BY <1>3, <1>5, <2>1 DEF Held
  <2>2. CASE f # d \/ <<x, k>> # q
    <3>1. applied[f][<<x, k>>] # 0
      BY <1>3, <1>6, <2>2 DEF Calls
    <3>2. /\ k <= n[x]
          /\ k = n[x] /\ cl[x] \notin {"idle", "answered"} => Held(f, <<x, k>>)
      BY Zenon, <3>1 DEF AppliedInv
    <3> QED  BY <1>3, <3>2 DEF Held
  <2> QED  BY Zenon, <2>1, <2>2
<1>7. ASSUME NEW g \in Daemons \ killed, NEW f \in Daemons, NEW i \in 1..Len(backlog[f]),
             applied'[g][backlog[f][i].call] # 0
      PROVE  g = f /\ i = 1 /\ pc'[f] = "reply"
  <2>1. backlog[f][i].call \in Calls
    BY Zenon, EntryTypes
  <2>2. CASE g = d /\ backlog[f][i].call = q
    <3>1. f = d /\ i = 1
      BY <1>1, <2>2 DEF QueueInv
    <3> QED  BY Zenon, <1>3, <2>2, <3>1
  <2>3. CASE ~(g = d /\ backlog[f][i].call = q)
    <3>1. applied[g][backlog[f][i].call] # 0
      BY Zenon, <1>3, <1>7, <2>1, <2>3
    <3>2. g = f /\ i = 1 /\ pc[f] = "reply"
      BY Zenon, <3>1 DEF AppliedInv
    <3> QED  BY <1>3, <3>2
  <2> QED  BY Zenon, <2>2, <2>3
<1>8. \A f \in Daemons \ killed', x \in Clients, k \in 1..MaxCalls :
          applied'[f][<<x, k>>] # 0 =>
              /\ k <= n'[x]
              /\ k = n'[x] /\ cl'[x] \notin {"idle", "answered"} => Held(f, <<x, k>>)'
  BY Zenon, <1>6
<1>9. ASSUME NEW g \in Daemons \ killed', NEW f \in Daemons, NEW i \in 1..Len(backlog'[f]),
             applied'[g][backlog'[f][i].call] # 0
      PROVE  g = f /\ i = 1 /\ pc'[f] = "reply"
  <2>1. /\ g \in Daemons \ killed /\ i \in 1..Len(backlog[f])
        /\ applied'[g][backlog[f][i].call] # 0
    BY <1>9
  <2> QED  BY Zenon, <1>7, <2>1
<1> QED  BY Zenon, <1>4, <1>8, <1>9 DEF AppliedInv

LEMMA AppliedStepDaemon ==
    ASSUME TypeOK, OwnerInv, QueueInv, AppliedInv, NEW d \in Daemons, Daemon(d) \/ Kill(d)
    PROVE  AppliedInv'
<1> DEFINE h == backlog[d][1]
<1>1. CASE Reply(d)
  <2>1. pc[d] = "reply" /\ backlog[d] # <<>> /\ 1 \in 1..Len(backlog[d]) /\ Head(backlog[d]) = h
    BY SMTT(40), <1>1, EntryTypes DEF Reply, OwnerInv
  <2>2. /\ backlog' = [backlog EXCEPT ![d] = Tail(@)] /\ UNCHANGED <<applied, n, killed>>
        /\ pc' = [pc EXCEPT ![d] = "poll"]
        /\ cl' = IF h.up THEN [cl EXCEPT ![h.call[1]] = "answered"] ELSE cl
    BY Zenon, <1>1, <2>1 DEF Reply, Go
  <2>3. /\ \A f \in Daemons \ {d} : pc'[f] = pc[f] /\ backlog'[f] = backlog[f]
        /\ pc'[d] # "reply"
    BY <2>2 DEF TypeOK, DaemonTypes
  <2>4. ASSUME NEW i \in 1..Len(backlog'[d])
        PROVE  \E j \in 1..Len(backlog[d]) : backlog'[d][i] = backlog[d][j] /\ j # 1
    <3>1. i \in Nat /\ i + 1 \in 2..Len(backlog[d]) /\ backlog'[d][i] = backlog[d][i + 1]
      BY Zenon, <2>1, <2>2, <2>4, Shifted
    <3>2. i + 1 \in 1..Len(backlog[d]) /\ i + 1 # 1
      BY <3>1, EntryTypes
    <3> QED  BY Zenon, <3>1, <3>2
  <2>5. ASSUME NEW x \in Clients
        PROVE  \/ cl'[x] = cl[x] /\ (h.call # This(x) \/ cl[x] \in {"idle", "answered"})
               \/ cl'[x] = "answered"
    <3>1. Placed(d, h) /\ n[x] \in Nat
      BY Zenon, <2>1 DEF QueueInv, TypeOK, ClientTypes
    <3>2. CASE h.up /\ x = h.call[1]
      BY <2>2, <3>2 DEF TypeOK, ClientTypes
    <3>3. CASE h.up /\ x # h.call[1]
      BY SMTT(40), <2>2, <3>3 DEF This, TypeOK, ClientTypes
    <3>4. CASE ~h.up
      <4>1. cl'[x] = cl[x]
        BY <2>2, <3>4
      <4>2. h.call = This(x) => cl[x] = "idle"
        BY SMTT(40), <3>1, <3>4 DEF Placed, This
      <4> QED  BY Zenon, <4>1, <4>2
    <3> QED  BY Zenon, <3>2, <3>3, <3>4
  <2> QED  BY SMTT(40), <2>1, <2>2, <2>3, <2>4, <2>5, AppliedIdle
<1>2. CASE ipc_serve(d)
  <2>1. pc[d] = "poll" /\ backlog[d] # <<>> /\ UNCHANGED <<killed, client>>
    BY Zenon, <1>2 DEF ipc_serve
  <2>2. 1 \in 1..Len(backlog[d]) /\ Head(backlog[d]) = h
    BY <2>1, EntryTypes
  <2>3. CASE ~h.sent
    <3>1. backlog' = [backlog EXCEPT ![d] = Tail(@)] /\ UNCHANGED <<pc, applied>>
      BY Zenon, <1>2, <2>2, <2>3 DEF ipc_serve
    <3>2. \A f \in Daemons \ {d} : pc'[f] = pc[f] /\ backlog'[f] = backlog[f]
      BY <3>1 DEF TypeOK, DaemonTypes
    <3>3. ASSUME NEW i \in 1..Len(backlog'[d])
          PROVE  \E j \in 1..Len(backlog[d]) : backlog'[d][i] = backlog[d][j]
      <4>1. i \in Nat /\ i + 1 \in 2..Len(backlog[d]) /\ backlog'[d][i] = backlog[d][i + 1]
        BY Zenon, <2>1, <3>1, <3>3, Shifted
      <4>2. i + 1 \in 1..Len(backlog[d])
        BY <4>1, EntryTypes
      <4> QED  BY Zenon, <4>1, <4>2
    <3> QED  BY <2>1, <3>1, <3>2, <3>3, AppliedIdle
  <2>4. CASE h.sent
    <3>1. /\ pc' = [pc EXCEPT ![d] = "reply"] /\ UNCHANGED backlog
          /\ applied' = [applied EXCEPT ![d][h.call] = @ + 1]
      BY Zenon, <1>2, <2>2, <2>4 DEF ipc_serve, Go
    <3> QED  BY Zenon, <2>1, <3>1, AppliedServe
  <2> QED  BY Zenon, <2>3, <2>4
<1>3. CASE CloseListener(d) \/ Kill(d)
  <2>1. /\ backlog' = [backlog EXCEPT ![d] = <<>>] /\ UNCHANGED <<applied, client>>
        /\ \/ pc' = [pc EXCEPT ![d] = "closed"] /\ pc[d] = "leave" /\ killed' = killed
           \/ pc' = [pc EXCEPT ![d] = "gone"] /\ killed' = killed \cup {d}
    <3>1. CASE CloseListener(d)
      BY Zenon, <3>1 DEF CloseListener, Go
    <3>2. CASE Kill(d)
      BY Zenon, <3>2 DEF Kill, Go
    <3> QED  BY Zenon, <1>3, <3>1, <3>2
  <2>2. /\ \A f \in Daemons \ {d} : pc'[f] = pc[f] /\ backlog'[f] = backlog[f]
        /\ Len(backlog'[d]) = 0 /\ pc'[d] # "reply" /\ (pc[d] # "reply" \/ d \in killed')
        /\ killed \subseteq killed'
    BY <2>1 DEF TypeOK, DaemonTypes
  <2>3. \A i \in 1..Len(backlog'[d]) : FALSE
    BY <2>2
  <2>4. UNCHANGED <<applied, n, cl>>
    BY Zenon, <2>1
  <2> QED  BY <2>2, <2>3, <2>4, AppliedIdle
<1>4. CASE Bind(d) \/ Listen(d) \/ GraceOver(d) \/ Scan(d) \/ FinalPoll(d) \/ Teardown(d)
  <2>1. /\ UNCHANGED <<backlog, applied, killed, client>> /\ pc[d] # "reply"
        /\ \E to \in {"bound", "gone", "poll", "scan", "look", "leave"} : pc' = [pc EXCEPT ![d] = to]
    BY Zenon, <1>4 DEF Bind, Listen, GraceOver, Scan, FinalPoll, Teardown, Go
  <2>2. pc'[d] # "reply" /\ \A f \in Daemons \ {d} : pc'[f] = pc[f]
    BY <2>1 DEF TypeOK, DaemonTypes
  <2> QED  BY Zenon, <2>1, <2>2, AppliedIdle
<1> QED  BY Zenon, <1>1, <1>2, <1>3, <1>4 DEF Daemon

LEMMA ObjStepDaemon ==
    ASSUME TypeOK, OwnerInv, CallInv, QueueInv, ObjInv, NEW d \in Daemons, Daemon(d) \/ Kill(d)
    PROVE  ObjInv'
<1> DEFINE h == backlog[d][1]
<1>1. NoDaemon \notin Daemons
  BY DEF NoDaemon, Daemons
<1>2. ASSUME pc[d] = "reply"
      PROVE  1 \in 1..Len(backlog[d]) /\ Head(backlog[d]) = h /\ Placed(d, h) /\ backlog[d] # <<>>
  <2>1. 1 \in 1..Len(backlog[d]) /\ Head(backlog[d]) = h /\ backlog[d] # <<>>
    BY <1>2, EntryTypes DEF OwnerInv
  <2> QED  BY Zenon, <2>1 DEF QueueInv
<1>3. CASE Bind(d)
  <2>1. UNCHANGED <<backlog, objs, killed, client>>
        /\ \/ owner = NoDaemon /\ owner' = d /\ pc' = [pc EXCEPT ![d] = "bound"]
           \/ UNCHANGED owner /\ pc' = [pc EXCEPT ![d] = "gone"]
    BY Zenon, <1>3 DEF Bind, Go
  <2>2. \A f \in Daemons : pc'[f] = pc[f] \/ pc'[f] \notin {"reply", "look", "leave"}
    BY <2>1 DEF TypeOK, DaemonTypes
  <2>3. ASSUME killed = {}, NEW c \in Clients, cl[c] = "answered", Op(c).op = "make"
        PROVE  conn[c] = owner' /\ c \in objs[owner']
    <3>1. conn[c] = owner /\ c \in objs[owner] /\ conn[c] \in Daemons
      BY Zenon, <2>3 DEF ObjInv, CallInv
    <3> QED  BY Zenon, <1>1, <2>1, <3>1
  <2>4. ASSUME killed = {}, NEW c \in made, alive[c]
        PROVE  owner' # NoDaemon /\ c \in objs[owner']
    BY Zenon, <2>1, <2>4 DEF ObjInv, AnchoredStateKept
  <2> QED  BY Zenon, <2>1, <2>2, <2>3, <2>4 DEF ObjInv, AnchoredStateKept, Op
<1>4. CASE Listen(d) \/ GraceOver(d) \/ Scan(d) \/ FinalPoll(d)
  <2>1. UNCHANGED <<owner, backlog, objs, killed, client>>
    BY Zenon, <1>4 DEF Listen, GraceOver, Scan, FinalPoll
  <2>2. \/ \E to \in {"poll", "scan"} : pc' = [pc EXCEPT ![d] = to]
        \/ pc' = [pc EXCEPT ![d] = "look"] /\ ~Anchored(d)
        \/ pc' = [pc EXCEPT ![d] = "leave"] /\ pc[d] = "look"
    BY Zenon, <1>4 DEF Listen, GraceOver, Scan, FinalPoll, Go
  <2>3. /\ \A f \in Daemons : pc'[f] = "reply" => pc[f] = "reply"
        /\ \A f \in Daemons : pc'[f] \in {"look", "leave"} =>
              pc[f] \in {"look", "leave"} \/ ~\E c \in objs[f] : alive[c]
    BY <2>2 DEF Anchored, TypeOK, DaemonTypes
  <2> QED  BY <2>1, <2>3 DEF ObjInv, AnchoredStateKept, Op
<1>5. CASE ipc_serve(d)
  <2>1. UNCHANGED <<owner, killed, client>> /\ pc[d] = "poll" /\ backlog[d] # <<>>
    BY Zenon, <1>5 DEF ipc_serve
  <2>2. Head(backlog[d]) = h
    BY <2>1, EntryTypes
  <2>3. CASE ~h.sent
    <3>1. backlog' = [backlog EXCEPT ![d] = Tail(@)] /\ UNCHANGED <<pc, objs>>
      BY Zenon, <1>5, <2>2, <2>3 DEF ipc_serve
    <3>2. \A f \in Daemons : pc[f] = "reply" => backlog'[f] = backlog[f]
      BY Zenon, <2>1, <3>1 DEF TypeOK, DaemonTypes
    <3> QED  BY <2>1, <3>1, <3>2 DEF ObjInv, AnchoredStateKept, Op
  <2>4. CASE h.sent
    <3>1. /\ pc' = [pc EXCEPT ![d] = "reply"] /\ UNCHANGED backlog
          /\ objs' = [objs EXCEPT ![d] = IF h.op = "make" THEN @ \cup {h.call[1]} ELSE @]
      BY Zenon, <1>5, <2>2, <2>4 DEF ipc_serve, Go
    <3>2. /\ \A f \in Daemons : objs[f] \subseteq objs'[f] /\ (f # d => objs'[f] = objs[f])
          /\ h.op = "make" => h.call[1] \in objs'[d]
          /\ pc'[d] = "reply" /\ \A f \in Daemons \ {d} : pc'[f] = pc[f]
      BY Zenon, <3>1 DEF TypeOK, DaemonTypes
    <3>3. ASSUME NEW f \in Daemons, pc'[f] = "reply", backlog[f][1].op = "make"
          PROVE  backlog[f][1].call[1] \in objs'[f]
      BY Zenon, <3>2, <3>3 DEF ObjInv
    <3>4. ASSUME NEW f \in Daemons, pc'[f] \in {"look", "leave"}, NEW c \in objs'[f]
          PROVE  ~alive[c]
      <4>1. f # d
        BY <3>2, <3>4
      <4> QED  BY Zenon, <3>2, <3>4, <4>1 DEF ObjInv
    <3>5. ASSUME killed = {}, NEW c \in Clients, cl[c] = "answered", Op(c).op = "make"
          PROVE  conn[c] = owner /\ c \in objs'[owner]
      <4>1. conn[c] = owner /\ c \in objs[owner] /\ conn[c] \in Daemons
        BY <3>5 DEF ObjInv, CallInv
      <4> QED  BY Zenon, <3>2, <4>1
    <3>6. ASSUME killed = {}, NEW c \in made, alive[c]
          PROVE  owner # NoDaemon /\ c \in objs'[owner]
      <4>1. owner # NoDaemon /\ c \in objs[owner]
        BY Zenon, <3>6 DEF ObjInv, AnchoredStateKept
      <4>2. owner \in Daemons
        BY Zenon, <4>1 DEF TypeOK, DaemonTypes
      <4> QED  BY Zenon, <3>2, <4>1, <4>2
    <3> QED  BY Zenon, <2>1, <3>1, <3>3, <3>4, <3>5, <3>6 DEF ObjInv, AnchoredStateKept, Op
  <2> QED  BY Zenon, <2>3, <2>4
<1>6. CASE Reply(d)
  <2>1. /\ pc[d] = "reply" /\ pc' = [pc EXCEPT ![d] = "poll"]
        /\ backlog' = [backlog EXCEPT ![d] = Tail(@)]
        /\ cl' = IF h.up THEN [cl EXCEPT ![h.call[1]] = "answered"] ELSE cl
        /\ UNCHANGED <<owner, objs, killed, script, conn, alive, made>>
    BY Zenon, <1>2, <1>6 DEF Reply, Go
  <2>2. /\ \A f \in Daemons : pc'[f] \in {"reply", "look", "leave"} =>
              pc'[f] = pc[f] /\ backlog'[f] = backlog[f]
    BY <2>1 DEF TypeOK, DaemonTypes
  <2>3. ASSUME killed = {}, NEW c \in Clients, cl'[c] = "answered", Op(c).op = "make"
        PROVE  conn[c] = owner /\ c \in objs[owner]
    <3>1. CASE cl[c] = "answered"
      BY Zenon, <2>3, <3>1 DEF ObjInv
    <3>2. CASE cl[c] # "answered"
      <4>1. h.up /\ c = h.call[1]
        BY Zenon, <2>1, <2>3, <3>2 DEF TypeOK, ClientTypes
      <4>2. conn[c] = d /\ h.op = Op(c).op
        BY Zenon, <1>2, <2>1, <4>1 DEF Placed
      <4>3. c \in objs[d]
        BY Zenon, <2>1, <2>3, <4>1, <4>2 DEF ObjInv
      <4>4. owner = d
        BY Zenon, <2>1 DEF OwnerInv, Bound
      <4> QED  BY Zenon, <4>2, <4>3, <4>4
    <3> QED  BY Zenon, <3>1, <3>2
  <2> QED  BY Zenon, <2>1, <2>2, <2>3 DEF ObjInv, AnchoredStateKept, Op
<1>7. CASE CloseListener(d)
  <2>1. /\ pc[d] = "leave" /\ pc' = [pc EXCEPT ![d] = "closed"] /\ owner' = NoDaemon
        /\ backlog' = [backlog EXCEPT ![d] = <<>>] /\ UNCHANGED <<objs, killed, client>>
    BY Zenon, <1>7 DEF CloseListener, Go
  <2>2. owner = d /\ \A c \in objs[d] : ~alive[c]
    BY Zenon, <2>1 DEF OwnerInv, Bound, ObjInv
  <2>3. \A f \in Daemons : pc'[f] \in {"reply", "look", "leave"} =>
              pc'[f] = pc[f] /\ backlog'[f] = backlog[f]
    BY <2>1 DEF TypeOK, DaemonTypes
  <2>4. ASSUME killed = {}, NEW c \in Clients, cl[c] = "answered", Op(c).op = "make"
        PROVE  FALSE
    BY Zenon, <2>2, <2>4 DEF ObjInv, CallInv
  <2>5. ASSUME killed = {}, NEW c \in made, alive[c]
        PROVE  FALSE
    BY Zenon, <2>2, <2>5 DEF ObjInv, AnchoredStateKept
  <2> QED  BY Zenon, <2>1, <2>3, <2>4, <2>5 DEF ObjInv, AnchoredStateKept, Op
<1>8. CASE Teardown(d)
  <2>1. /\ pc[d] = "closed" /\ pc' = [pc EXCEPT ![d] = "gone"]
        /\ objs' = [objs EXCEPT ![d] = {}] /\ UNCHANGED <<owner, backlog, killed, client>>
    BY Zenon, <1>8 DEF Teardown, Go
  <2>2. owner # d
    BY Zenon, <2>1 DEF OwnerInv, Bound
  <2>3. /\ \A f \in Daemons : pc'[f] \in {"reply", "look", "leave"} =>
              pc'[f] = pc[f] /\ objs'[f] = objs[f]
        /\ owner # NoDaemon => objs'[owner] = objs[owner]
    BY <2>1, <2>2 DEF TypeOK, DaemonTypes
  <2>4. ASSUME killed = {}, NEW c \in Clients, cl[c] = "answered", Op(c).op = "make"
        PROVE  conn[c] = owner /\ c \in objs'[owner]
    <3>1. conn[c] = owner /\ c \in objs[owner] /\ conn[c] \in Daemons
      BY <2>4 DEF ObjInv, CallInv
    <3> QED  BY Zenon, <1>1, <2>3, <3>1
  <2>5. ASSUME killed = {}, NEW c \in made, alive[c]
        PROVE  owner # NoDaemon /\ c \in objs'[owner]
    BY Zenon, <2>3, <2>5 DEF ObjInv, AnchoredStateKept
  <2> QED  BY <2>1, <2>3, <2>4, <2>5 DEF ObjInv, AnchoredStateKept, Op
<1>9. CASE Kill(d)
  <2>1. /\ pc' = [pc EXCEPT ![d] = "gone"] /\ killed' = killed \cup {d}
        /\ backlog' = [backlog EXCEPT ![d] = <<>>] /\ objs' = [objs EXCEPT ![d] = {}]
        /\ UNCHANGED client
    BY Zenon, <1>9 DEF Kill, Go
  <2>2. \A f \in Daemons : pc'[f] \in {"reply", "look", "leave"} =>
              pc'[f] = pc[f] /\ objs'[f] = objs[f] /\ backlog'[f] = backlog[f]
    BY <2>1 DEF TypeOK, DaemonTypes
  <2>3. killed' # {}
    BY <2>1
  <2> QED  BY <2>1, <2>2, <2>3 DEF ObjInv, AnchoredStateKept
<1> QED  BY Zenon, <1>3, <1>4, <1>5, <1>6, <1>7, <1>8, <1>9 DEF Daemon

-----------------------------------------------------------------------------
(* The theorems.                                                           *)

LEMMA LifeInit ==
    ASSUME Init
    PROVE  LifeInv
<1>1. /\ script \in [Clients -> Seq(Call)] /\ MaxCalls \in Nat
      /\ \A c \in Clients : Len(script[c]) <= MaxCalls
  BY BrokerLifeAssumption DEF Init
<1>2. TypeOK
  <2>1. DaemonTypes
    BY DEF Init, DaemonTypes
  <2>2. ClientTypes
    BY <1>1 DEF Init, ClientTypes
  <2> QED  BY <2>1, <2>2 DEF TypeOK
<1>3. OwnerInv
  BY DEF Init, OwnerInv, Bound, Daemons, NoDaemon
<1>4. CallInv
  <2>1. \A c \in Clients : n[c] = 0 /\ cl[c] = "idle"
    BY DEF Init
  <2> QED  BY <1>1, <2>1 DEF CallInv, Linked
<1>5. \A d \in Daemons : \A i \in 1..Len(backlog[d]) : FALSE
  BY DEF Init
<1>6. QueueInv
  BY Zenon, <1>5 DEF QueueInv
<1>7. \A d \in Daemons, k \in Calls : applied[d][k] = 0
  BY DEF Init
<1>8. AtMostOnce
  BY <1>7 DEF AtMostOnce
<1>9. AppliedInv
  BY <1>5, <1>7, <1>8 DEF AppliedInv, Calls
<1>10. ObjInv
  BY DEF Init, ObjInv, AnchoredStateKept
<1> QED  BY <1>2, <1>3, <1>4, <1>6, <1>9, <1>10 DEF LifeInv

LEMMA LifeStep ==
    ASSUME LifeInv, [Next]_vars
    PROVE  LifeInv'
<1> USE DEF LifeInv
<1>1. ASSUME NEW d \in Daemons, Daemon(d) \/ Kill(d)
      PROVE  LifeInv'
  BY Zenon, <1>1, DaemonTypesStep, OwnerStepDaemon, CallStepDaemon, QueueStepDaemon, AppliedStepDaemon,
     ObjStepDaemon
<1>2. ASSUME NEW c \in Clients, Client(c) \/ Timeout(c)
      PROVE  LifeInv'
  <2>1. QueueInv' /\ AppliedInv'
    <3>1. CASE Connect(c)
      BY Zenon, <3>1, QueueConnect, AppliedConnect
    <3>2. CASE ~Connect(c)
      <4>1. Moves(c)
        BY Zenon, <1>2, <3>2, ClientMoves
      <4> QED  BY Zenon, <4>1, QueueMoves, AppliedMoves
    <3> QED  BY Zenon, <3>1, <3>2
  <2> QED  BY Zenon, <1>2, <2>1, ClientTypesStep, OwnerStepClient, CallStepClient, ObjStepClient
<1>3. CASE UNCHANGED vars
  <2> USE <1>3 DEF vars
  <2>1. TypeOK' /\ OwnerInv'
    BY Zenon DEF TypeOK, DaemonTypes, ClientTypes, OwnerInv
  <2>2. CallInv' /\ QueueInv'
    BY Zenon, QueueSame DEF CallInv, Op
  <2>3. AppliedInv'
    <3>2. AtMostOnce'
      BY Zenon DEF AppliedInv, AtMostOnce
    <3>3. ASSUME NEW d \in Daemons \ killed', NEW c \in Clients, NEW k \in 1..MaxCalls,
                 applied'[d][<<c, k>>] # 0
          PROVE  /\ k <= n'[c]
                 /\ k = n'[c] /\ cl'[c] \notin {"idle", "answered"} => Held(d, <<c, k>>)'
      <4>1. d \in Daemons \ killed /\ applied[d][<<c, k>>] # 0
        BY <3>3
      <4>2. /\ k <= n[c]
            /\ k = n[c] /\ cl[c] \notin {"idle", "answered"} => Held(d, <<c, k>>)
        BY Zenon, <4>1 DEF AppliedInv
      <4> QED  BY Zenon, <4>2 DEF Held
    <3>4. ASSUME NEW d \in Daemons \ killed', NEW f \in Daemons, NEW i \in 1..Len(backlog'[f]),
                 applied'[d][backlog'[f][i].call] # 0
          PROVE  d = f /\ i = 1 /\ pc'[f] = "reply"
      <4>1. /\ d \in Daemons \ killed /\ i \in 1..Len(backlog[f])
            /\ applied[d][backlog[f][i].call] # 0
        BY <3>4
      <4>2. d = f /\ i = 1 /\ pc[f] = "reply"
        BY Zenon, <4>1 DEF AppliedInv
      <4> QED  BY Zenon, <4>2
    <3> QED  BY Zenon, <3>2, <3>3, <3>4 DEF AppliedInv
  <2>4. ObjInv'
    BY Zenon DEF ObjInv, AnchoredStateKept, Op
  <2> QED  BY Zenon, <2>1, <2>2, <2>3, <2>4
<1> QED  BY Zenon, <1>1, <1>2, <1>3 DEF Next

\* The inductive invariant of broker_main and its clients.
THEOREM LifeInvHolds == Spec => []LifeInv
<1>1. Init => LifeInv
  BY LifeInit
<1>2. LifeInv /\ [Next]_vars => LifeInv'
  BY LifeStep
<1> QED  BY <1>1, <1>2, PTL DEF Spec

\* No daemon leaves the name while it keeps an object whose maker lives, and a
\* second one never takes the name beside it (broker_main's idle exit): for any
\* number of clients, calls and daemons.
THEOREM AnchoredStateIsKept == Spec => []AnchoredStateKept
<1>1. LifeInv => AnchoredStateKept
  BY Zenon DEF LifeInv, ObjInv
<1> QED  BY <1>1, LifeInvHolds, PTL

\* A request that cng_broker_rpc_fd sends twice is applied once at most by the
\* daemons that were not killed, whatever times out and whoever leaves.
THEOREM AppliedAtMostOnce == Spec => []AtMostOnce
<1>1. LifeInv => AtMostOnce
  BY DEF LifeInv, AppliedInv
<1> QED  BY <1>1, LifeInvHolds, PTL

=============================================================================
