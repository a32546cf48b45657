----------------------------- MODULE BrokerLife ------------------------------
(***************************************************************************)
(* The life of the broker daemon (monitor/broker.c): clients that find no  *)
(* daemon under the name start one, the losers of the bind race leave, and *)
(* a daemon nothing anchors any more leaves after a grace window, while    *)
(* clients go on connecting.  What the daemon serves is abstracted to      *)
(* objects anchored by the life of their maker (segments, sets, queues)    *)
(* and the shared process table; a client's retries are kept.              *)
(*                                                                         *)
(* Time: a call takes less than BROKER_GRACE_MS (every wait in it has a    *)
(* time-out of 2 s or less), and the naps of broker_connect outlast the    *)
(* start of the daemon it spawned.                                         *)
(***************************************************************************)
EXTENDS Integers, Sequences, FiniteSets

CONSTANTS
    Clients,        \* guest processes
    MaxDaemons,     \* bound: daemons started in all
    MaxKills,       \* bound: daemons killed from outside
    MAX_ATTEMPTS,   \* connects one broker_connect makes (100)
    RESPAWN,        \* every how many misses it starts a daemon again (16)
    MaxCalls,       \* bound: calls one client makes
    Programs        \* the calls of each client, in order

Daemons == 1..MaxDaemons
NoDaemon == 0
FILE == -1          \* the registry's named-file tier

\* make: a request that leaves an object anchored by its maker's life; join:
\* the request for the process table; faults: what may go wrong in the call.
Call == [op : {"make", "join", "exit"}, faults : SUBSET {"timeout", "nofork"}]

ASSUME BrokerLifeAssumption ==
    /\ MaxDaemons \in Nat \ {0} /\ MaxKills \in Nat
    /\ MAX_ATTEMPTS \in Nat \ {0} /\ RESPAWN \in Nat \ {0}
    /\ MaxCalls \in Nat
    /\ Programs \subseteq [Clients -> Seq(Call)]
    /\ \A prog \in Programs, c \in Clients : Len(prog[c]) <= MaxCalls

VARIABLES
    owner,      \* the daemon that has the name bound, or NoDaemon
    pc,         \* where each daemon is in broker_main
    backlog,    \* its accept queue
    objs,       \* makers of the objects it keeps
    slots,      \* processes in its table
    fresh,      \* calls under way at its last_active that are not over yet
    killed,     \* history: the daemons that were killed
    script,     \* calls a client still has to make
    cl,         \* where each client is in its call
    n,          \* history: the number of the call
    tries,      \* cng_broker_rpc_fd's attempt
    attempt,    \* broker_connect's
    spawns,     \* daemons broker_connect has started
    conn,       \* the daemon the client is connected to
    alive,
    tier,       \* whose table a client is in: a daemon's, FILE, or none yet
    applied,    \* history: how often each daemon applied each call
    made,       \* history: clients whose object the daemon has answered for
    refused     \* history: calls that failed though nothing was wrong with them

daemon == <<owner, pc, backlog, objs, slots, fresh, killed, applied>>
client == <<script, cl, n, tries, attempt, spawns, conn, alive, tier, made, refused>>
vars == <<daemon, client>>

-----------------------------------------------------------------------------
Calls == Clients \X (1..MaxCalls)
This(c) == <<c, n[c]>>
Op(c) == Head(script[c])
Calling == {c \in Clients : cl[c] # "idle"}

Listening(d) == d # NoDaemon /\ pc[d] \in {"poll", "reply", "scan", "look", "leave"}

\* The entry of client c in the queue of d; a connection the client has closed
\* stays if its request is in it.
Entry(c) == [call |-> This(c), op |-> Op(c).op, sent |-> FALSE, up |-> TRUE]
Mine(c, d) == {i \in 1..Len(backlog[d]) : backlog[d][i].up /\ backlog[d][i].call[1] = c}
Connected(c) == conn[c] # NoDaemon /\ Mine(c, conn[c]) # {}

Hangup(c, d) ==
    [backlog EXCEPT ![d] = [i \in 1..Len(@) |->
        IF i \in Mine(c, d) THEN [@[i] EXCEPT !.up = FALSE] ELSE @[i]]]

-----------------------------------------------------------------------------
(* broker_main.                                                            *)

Go(d, to) == pc' = [pc EXCEPT ![d] = to]
Active(d) == fresh' = [fresh EXCEPT ![d] = Calling]

\* bind: the loser of the race leaves.
Bind(d) ==
    /\ pc[d] = "born"
    /\ IF owner = NoDaemon THEN owner' = d /\ Go(d, "bound")
                           ELSE UNCHANGED owner /\ Go(d, "gone")
    /\ UNCHANGED <<backlog, objs, slots, fresh, killed, applied, client>>

Listen(d) ==
    /\ pc[d] = "bound" /\ Go(d, "poll") /\ Active(d)
    /\ UNCHANGED <<owner, backlog, objs, slots, killed, applied, client>>

\* accept, hello, request: a client that left before it sent one is dropped, a
\* whole request is applied.  The daemon waits for a client that is still there.
ipc_serve(d) ==
    LET e == Head(backlog[d])
        c == e.call[1]
    IN
    /\ pc[d] = "poll" /\ backlog[d] # <<>> /\ (e.sent \/ ~e.up)
    /\ Active(d)
    /\ IF ~e.sent
       THEN /\ backlog' = [backlog EXCEPT ![d] = Tail(@)]
            /\ UNCHANGED <<pc, objs, applied>>
       ELSE /\ Go(d, "reply")
            /\ applied' = [applied EXCEPT ![d][e.call] = @ + 1]
            /\ objs' = [objs EXCEPT ![d] = IF e.op = "make" THEN @ \cup {c} ELSE @]
            /\ UNCHANGED backlog
    /\ UNCHANGED <<owner, slots, killed, client>>

\* The answer, and the close: read by a client that still waits for it.
Reply(d) ==
    LET e == Head(backlog[d])
        c == e.call[1]
    IN
    /\ pc[d] = "reply" /\ Go(d, "poll")
    /\ backlog' = [backlog EXCEPT ![d] = Tail(@)]
    /\ cl' = IF e.up THEN [cl EXCEPT ![c] = "answered"] ELSE cl
    /\ UNCHANGED <<owner, objs, slots, fresh, killed, applied,
                   script, n, tries, attempt, spawns, conn, alive, tier, made, refused>>

\* ppoll times out with the grace window over.
GraceOver(d) ==
    /\ pc[d] = "poll" /\ backlog[d] = <<>> /\ fresh[d] = {} /\ Go(d, "scan")
    /\ UNCHANGED <<owner, backlog, objs, slots, fresh, killed, applied, client>>

\* Mutant: only the table is.
Anchored_table(d) == \E c \in slots[d] : alive[c]

\* Mutant: whoever made an object, dead or alive.
Anchored_ever(d) == objs[d] \cup slots[d] # {}

\* shm_any_live, cng_ipc_any_live, cng_procreg_table_live.
Anchored(d) == \E c \in objs[d] \cup slots[d] : alive[c]

\* Still anchored: the window is re-armed.
Scan(d) ==
    /\ pc[d] = "scan"
    /\ IF Anchored(d) THEN Go(d, "poll") /\ Active(d) ELSE Go(d, "look") /\ UNCHANGED fresh
    /\ UNCHANGED <<owner, backlog, objs, slots, killed, applied, client>>

\* The last look at the listener.
FinalPoll(d) ==
    /\ pc[d] = "look"
    /\ IF backlog[d] # <<>> THEN Go(d, "poll") /\ Active(d)
                            ELSE Go(d, "leave") /\ UNCHANGED fresh
    /\ UNCHANGED <<owner, backlog, objs, slots, killed, applied, client>>

\* close(ls): the name is free, and whoever is in the queue is reset.
CloseListener(d) ==
    /\ pc[d] = "leave" /\ Go(d, "closed")
    /\ owner' = NoDaemon /\ backlog' = [backlog EXCEPT ![d] = <<>>]
    /\ UNCHANGED <<objs, slots, fresh, killed, applied, client>>

Teardown(d) ==
    /\ pc[d] = "closed" /\ Go(d, "gone")
    /\ objs' = [objs EXCEPT ![d] = {}]
    /\ UNCHANGED <<owner, backlog, slots, fresh, killed, applied, client>>

\* The host kills a daemon.
Kill(d) ==
    /\ pc[d] \notin {"none", "gone"} /\ Cardinality(killed) < MaxKills
    /\ Go(d, "gone") /\ killed' = killed \cup {d}
    /\ owner' = IF owner = d THEN NoDaemon ELSE owner
    /\ backlog' = [backlog EXCEPT ![d] = <<>>] /\ objs' = [objs EXCEPT ![d] = {}]
    /\ UNCHANGED <<slots, fresh, applied, client>>

-----------------------------------------------------------------------------
(* The client: cng_broker_rpc_fd, broker_connect and broker_spawn.         *)

At(c, to) == cl' = [cl EXCEPT ![c] = to]

Start(c) ==
    /\ alive[c] /\ cl[c] = "idle" /\ script[c] # <<>> /\ Op(c).op # "exit"
    /\ At(c, "connect") /\ n' = [n EXCEPT ![c] = @ + 1]
    /\ tries' = [tries EXCEPT ![c] = 0] /\ attempt' = [attempt EXCEPT ![c] = 0]
    /\ spawns' = [spawns EXCEPT ![c] = 0]
    /\ UNCHANGED <<daemon, script, conn, alive, tier, made, refused>>

Exit(c) ==
    /\ alive[c] /\ cl[c] = "idle" /\ script[c] # <<>> /\ Op(c).op = "exit"
    /\ alive' = [alive EXCEPT ![c] = FALSE] /\ script' = [script EXCEPT ![c] = <<>>]
    /\ UNCHANGED <<daemon, cl, n, tries, attempt, spawns, conn, tier, made, refused>>

\* The call is over; t: the table the client is in from now on.
Return(c, t) ==
    /\ At(c, "idle") /\ script' = [script EXCEPT ![c] = Tail(@)]
    /\ conn' = [conn EXCEPT ![c] = NoDaemon] /\ tier' = [tier EXCEPT ![c] = t]
    /\ fresh' = [d \in Daemons |-> fresh[d] \ {c}]
    /\ UNCHANGED <<n, tries, attempt, spawns, alive>>

\* An IPC call fails; a join degrades to the named file.
Fail(c) ==
    /\ Return(c, IF Op(c).op = "join" THEN FILE ELSE tier[c])
    /\ refused' = IF Op(c).op = "make" /\ Op(c).faults = {} THEN refused \cup {This(c)}
                  ELSE refused
    /\ UNCHANGED made

\* Mutant: whatever went wrong, once more.
Retries_always(c, gone) == tries[c] = 0 /\ Op(c).op = "make"

\* Mutant: one attempt.
Retries_never(c, gone) == FALSE

\* A second attempt only for a daemon that is gone without an answer, and none
\* in cng_broker_table_fd.
Retries(c, gone) == gone /\ tries[c] = 0 /\ Op(c).op = "make"

\* The exchange ended without an answer.
Unanswered(c, gone) ==
    IF Retries(c, gone)
    THEN /\ At(c, "connect") /\ tries' = [tries EXCEPT ![c] = 1]
         /\ attempt' = [attempt EXCEPT ![c] = 0] /\ spawns' = [spawns EXCEPT ![c] = 0]
         /\ conn' = [conn EXCEPT ![c] = NoDaemon]
         /\ UNCHANGED <<script, n, alive, tier, made, refused, fresh>>
    ELSE Fail(c)

Unborn == {d \in Daemons : pc[d] = "none"}

MayTry(c) == attempt[c] < MAX_ATTEMPTS

\* connect finds a listener, is refused, or has been tried often enough.
Connect(c) ==
    /\ cl[c] = "connect" /\ MayTry(c) /\ Listening(owner)
    /\ backlog' = [backlog EXCEPT ![owner] = Append(@, Entry(c))]
    /\ conn' = [conn EXCEPT ![c] = owner] /\ At(c, "connected")
    /\ UNCHANGED <<owner, pc, objs, slots, fresh, killed, applied,
                   script, n, tries, attempt, spawns, alive, tier, made, refused>>

Spawns(c) == spawns[c] = 0 \/ attempt[c] % RESPAWN = 0

broker_spawn(c) ==
    /\ cl[c] = "connect" /\ MayTry(c) /\ ~Listening(owner)
    /\ attempt' = [attempt EXCEPT ![c] = @ + 1] /\ At(c, "nap")
    /\ IF Spawns(c)
       THEN /\ spawns' = [spawns EXCEPT ![c] = @ + 1]
            /\ \/ \E d \in Unborn : /\ \A e \in Unborn : d <= e
                                    /\ pc' = [pc EXCEPT ![d] = "born"]
               \/ (Unborn = {} \/ "nofork" \in Op(c).faults) /\ UNCHANGED pc
       ELSE UNCHANGED <<spawns, pc>>
    /\ UNCHANGED <<owner, backlog, objs, slots, fresh, killed, applied,
                   script, n, tries, conn, alive, tier, made, refused>>

Churn(c) ==
    /\ cl[c] = "connect" /\ ~MayTry(c) /\ Fail(c)
    /\ UNCHANGED <<owner, pc, backlog, objs, slots, killed, applied>>

\* The naps are long enough for a daemon to start.
Nap(c) ==
    /\ cl[c] = "nap" /\ \A d \in Daemons : pc[d] \notin {"born", "bound"}
    /\ At(c, "connect")
    /\ UNCHANGED <<daemon, script, n, tries, attempt, spawns, conn, alive, tier, made, refused>>

\* The hello: a daemon that has hung up by now costs a connect.
broker_hello_send(c) ==
    /\ cl[c] = "connected"
    /\ IF Connected(c) THEN At(c, "greeted") /\ UNCHANGED <<attempt, conn>>
       ELSE /\ At(c, "connect") /\ attempt' = [attempt EXCEPT ![c] = @ + 1]
            /\ conn' = [conn EXCEPT ![c] = NoDaemon]
    /\ UNCHANGED <<daemon, script, n, tries, spawns, alive, tier, made, refused>>

Send(c) ==
    /\ cl[c] = "greeted"
    /\ IF Connected(c)
       THEN /\ backlog' = [backlog EXCEPT ![conn[c]] = [i \in 1..Len(@) |->
                    IF i \in Mine(c, conn[c]) THEN [@[i] EXCEPT !.sent = TRUE] ELSE @[i]]]
            /\ At(c, "sent")
            /\ UNCHANGED <<fresh, script, n, tries, attempt, spawns, conn, alive, tier, made, refused>>
       ELSE Unanswered(c, TRUE) /\ UNCHANGED backlog
    /\ UNCHANGED <<owner, pc, objs, slots, killed, applied>>

\* End of file or a reset: CNG_BROKER_GONE.
Gone(c) ==
    /\ cl[c] = "sent" /\ ~Connected(c) /\ Unanswered(c, TRUE)
    /\ UNCHANGED <<owner, pc, backlog, objs, slots, killed, applied>>

\* SO_RCVTIMEO: the daemon may be about to apply the request, or have done so.
Timeout(c) ==
    /\ cl[c] = "sent" /\ Connected(c) /\ "timeout" \in Op(c).faults
    /\ Unanswered(c, FALSE) /\ backlog' = Hangup(c, conn[c])
    /\ UNCHANGED <<owner, pc, objs, slots, killed, applied>>

Answered(c) ==
    /\ cl[c] = "answered" /\ Op(c).op = "make" /\ Return(c, tier[c])
    /\ made' = made \cup {c}
    /\ UNCHANGED <<owner, pc, backlog, objs, slots, killed, applied, refused>>

\* The table is mapped and this process published in it.
cng_procreg_publish(c) ==
    /\ cl[c] = "answered" /\ Op(c).op = "join"
    /\ Return(c, conn[c])
    /\ slots' = [slots EXCEPT ![conn[c]] = @ \cup {c}]
    /\ UNCHANGED <<owner, pc, backlog, objs, killed, applied, made, refused>>

-----------------------------------------------------------------------------
NONE == -2

Init ==
    /\ owner = NoDaemon /\ pc = [d \in Daemons |-> "none"]
    /\ backlog = [d \in Daemons |-> <<>>] /\ objs = [d \in Daemons |-> {}]
    /\ slots = [d \in Daemons |-> {}] /\ fresh = [d \in Daemons |-> {}] /\ killed = {}
    /\ applied = [d \in Daemons |-> [k \in Calls |-> 0]]
    /\ script \in Programs /\ cl = [c \in Clients |-> "idle"]
    /\ n = [c \in Clients |-> 0] /\ tries = n /\ attempt = n /\ spawns = n
    /\ conn = [c \in Clients |-> NoDaemon] /\ alive = [c \in Clients |-> TRUE]
    /\ tier = [c \in Clients |-> NONE] /\ made = {} /\ refused = {}

Daemon(d) ==
    \/ Bind(d) \/ Listen(d) \/ ipc_serve(d) \/ Reply(d) \/ GraceOver(d) \/ Scan(d)
    \/ FinalPoll(d) \/ CloseListener(d) \/ Teardown(d)
Client(c) ==
    \/ Start(c) \/ Exit(c) \/ Connect(c) \/ broker_spawn(c) \/ Churn(c) \/ Nap(c)
    \/ broker_hello_send(c) \/ Send(c) \/ Gone(c) \/ Answered(c) \/ cng_procreg_publish(c)

Next ==
    \/ \E d \in Daemons : Daemon(d) \/ Kill(d)
    \/ \E c \in Clients : Client(c) \/ Timeout(c)

Spec == Init /\ [][Next]_vars

\* Every daemon and every client is scheduled.
FairSpec ==
    /\ Spec /\ \A d \in Daemons : WF_vars(Daemon(d))
    /\ \A c \in Clients : WF_vars(Client(c))

-----------------------------------------------------------------------------
Entries == [call : Calls, op : {"make", "join"}, sent : BOOLEAN, up : BOOLEAN]

DaemonTypes ==
    /\ owner \in Daemons \cup {NoDaemon} /\ killed \subseteq Daemons
    /\ pc \in [Daemons -> {"none", "born", "bound", "poll", "reply", "scan", "look",
                           "leave", "closed", "gone"}]
    /\ backlog \in [Daemons -> Seq(Entries)] /\ objs \in [Daemons -> SUBSET Clients]
    /\ slots \in [Daemons -> SUBSET Clients] /\ fresh \in [Daemons -> SUBSET Clients]
    /\ applied \in [Daemons -> [Calls -> Nat]]
ClientTypes ==
    /\ script \in [Clients -> Seq(Call)] /\ n \in [Clients -> Nat]
    /\ cl \in [Clients -> {"idle", "connect", "nap", "connected", "greeted", "sent",
                           "answered"}]
    /\ tries \in [Clients -> {0, 1}] /\ attempt \in [Clients -> Nat]
    /\ spawns \in [Clients -> Nat] /\ alive \in [Clients -> BOOLEAN]
    /\ conn \in [Clients -> Daemons \cup {NoDaemon}]
    /\ tier \in [Clients -> Daemons \cup {NoDaemon, FILE, NONE}]
    /\ made \subseteq Clients /\ refused \subseteq Calls

TypeOK == DaemonTypes /\ ClientTypes

\* An object whose maker lives is with the daemon that has the name, so that
\* every client finds it: no daemon leaves on a stale look at what anchors it,
\* and no second one takes its place (broker_main's idle exit).
AnchoredStateKept ==
    killed = {} => \A c \in made : alive[c] => owner # NoDaemon /\ c \in objs[owner]

\* cng_broker_rpc_fd's "nothing can have been applied": a request that is sent
\* twice is not applied twice by daemons that live on.
AtMostOnce ==
    \A k \in Calls, d \in Daemons \ killed :
        /\ applied[d][k] <= 1
        /\ applied[d][k] = 1 => \A e \in Daemons \ (killed \cup {d}) : applied[e][k] = 0

\* cng_broker_rpc_fd's "One retry is enough": a call that nothing went wrong
\* with fails only if some daemon was killed, never because it met a daemon
\* on its way out.
FailsOnlyIfKilled == refused # {} => killed # {}

\* When the last guest is gone the daemon leaves, and leaves the name free
\* (docs/STATUS.md: "exits ~10 s after the last guest of the rootfs dies").
DaemonsLeave ==
    (\A c \in Clients : ~alive[c])
        ~> (owner = NoDaemon /\ \A d \in Daemons : pc[d] \in {"none", "gone"})
=============================================================================
