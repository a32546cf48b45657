------------------------------- MODULE MsgData -------------------------------
(* Messages, queues and requests of the System V message queues, and the   *)
(* rules of monitor/ipcreg.c for which message a receiver takes and when a *)
(* message fits.                                                           *)
EXTENDS Integers, Sequences, SequencesExt, FiniteSets

CONSTANTS
    Conns,          \* callers: the one connection of each process incarnation
    MaxId,          \* ids are 1..MaxId and wrap (2^31-1 in the code)
    Keys,           \* IPC keys other than IPC_PRIVATE
    Tags,           \* stand for the bytes of a message
    LONG_MAX,       \* greatest message type
    MSGMAX,         \* bytes in one message
    MSGMNB          \* bytes in one queue, unless IPC_SET says otherwise

Ids == 1..MaxId
IPC_PRIVATE == 0
LONG_MIN == -LONG_MAX - 1
Rights == {"read", "write", "own", "root"}

\* struct gmsg
Msg == [mtype : 1..LONG_MAX, size : 0..MSGMAX, tag : Tags]

\* What may befall a caller from a request on until its next one: the request
\* arrives broken, the arena is full, a signal or a ptrace kick ends the wait,
\* the caller is killed, a child of it holds its connection, it is reaped
\* before its request is served, its pid is given away.
FaultKinds == {"broken", "nomem", "signal", "kick", "death", "muted", "early_reap",
               "reuse"}

\* struct cng_breq as far as these operations read it; perm is the outcome of
\* ipc_access / ipc_owner for this caller.
Breq == [op : {"msgget", "msgsnd", "msgrcv", "stat", "ipc_set", "rmid"},
         id : Ids, key : Keys \cup {IPC_PRIVATE}, creat : BOOLEAN,
         excl : BOOLEAN, perm : SUBSET Rights, size : Nat,
         mtype : LONG_MIN..LONG_MAX, nowait : BOOLEAN, noerror : BOOLEAN,
         except : BOOLEAN, tag : Tags, faults : SUBSET FaultKinds]

\* What a caller reads: an errno or "ok", and for msgrcv the message it took
\* and how many of its bytes fitted.
NoMsg == [mtype |-> 0, size |-> 0, tag |-> 0]
Errnos == {"EINVAL", "EACCES", "EPERM", "EEXIST", "ENOENT", "ENOSPC", "EAGAIN",
           "ENOMSG", "E2BIG", "EIDRM", "EINTR"}
Answers == [ret : Errnos \cup {"ok"}, n : Nat, msg : Msg \cup {NoMsg}]
Say(r) == [ret |-> r, n |-> 0, msg |-> NoMsg]

ASSUME MsgDataAssumption ==
    /\ Conns # {} /\ MaxId \in Nat \ {0} /\ Keys \subseteq Nat \ {0}
    /\ LONG_MAX \in Nat \ {0} /\ MSGMAX \in Nat /\ MSGMNB \in Nat \ {0}

\* The message of a msgsnd.
MsgOf(q) == [mtype |-> q.mtype, size |-> q.size, tag |-> q.tag]

\* Which messages a receiver's selector takes: all, one type, all but one, or
\* all up to a limit.
Takes(m, q) ==
    \/ q.mtype = 0
    \/ q.mtype > 0 /\ ~q.except /\ m.mtype = q.mtype
    \/ q.mtype > 0 /\ q.except /\ m.mtype # q.mtype
    \/ q.mtype < 0 /\ m.mtype <= -q.mtype

\* The position of the message a receiver gets, 0 if there is none: the oldest
\* it takes, and with a limit the oldest of the lowest type.
Chosen(msgs, q) ==
    LET M == {k \in 1..Len(msgs) : Takes(msgs[k], q)}
        First(k) == \A j \in M : k <= j
        Lowest(k) == \A j \in M : \/ msgs[k].mtype < msgs[j].mtype
                                  \/ msgs[k].mtype = msgs[j].mtype /\ k <= j
    IN  IF M = {} THEN 0
        ELSE CHOOSE k \in M : IF q.mtype >= 0 THEN First(k) ELSE Lowest(k)

\* IPC_SET needs the owner, and root for more than the default capacity.
MaySet(q) == "own" \in q.perm /\ (q.size <= MSGMNB \/ "root" \in q.perm)

\* The chosen message is refused, and stays, if it is too big for the receiver.
TooBig(m, q) == m.size > q.size /\ ~q.noerror

\* msgrcv's answer for the message m.
Handed(m, q) == [ret |-> "ok", n |-> IF m.size <= q.size THEN m.size ELSE q.size,
                 msg |-> m]
=============================================================================
