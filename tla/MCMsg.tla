-------------------------------- MODULE MCMsg --------------------------------
(* Small instances of MsgReg for TLC: what the guest processes do. *)
EXTENDS MsgReg

CONSTANTS p1, p2, p3

MCConns == Pids \X (1..MaxInc)
Base == [NoReq EXCEPT !.key = 1, !.perm = Rights]
Get == [Base EXCEPT !.op = "msgget", !.creat = TRUE]
Snd(t, n, g) == [Base EXCEPT !.op = "msgsnd", !.mtype = t, !.size = n, !.tag = g]
Rcv(t, n) == [Base EXCEPT !.op = "msgrcv", !.mtype = t, !.size = n]
NoWait(q) == [q EXCEPT !.nowait = TRUE]
NoError(q) == [q EXCEPT !.noerror = TRUE]
Except(q) == [q EXCEPT !.except = TRUE]
Set(n) == [Base EXCEPT !.op = "ipc_set", !.size = n]
Rmid == [Base EXCEPT !.op = "rmid"]
Weak(q) == [q EXCEPT !.perm = {"own"}]
Other(q) == [q EXCEPT !.key = 2, !.id = 2]

Risk(q, F) == [q EXCEPT !.faults = F]
Gives(q) == Risk(q, {"signal", "kick"})
Dies(q) == Risk(q, {"death", "muted"})

Of(a, b, c) == [p \in Pids |-> IF p = p1 THEN a ELSE IF p = p2 THEN b ELSE c]

\* Receivers that sleep, senders that overfill, and calls that are given up.
Exchange ==
    { Of(<<Get, Gives(Rcv(0, 2))>>, <<Snd(1, 1, 1), Gives(Snd(2, 2, 2))>>, <<Gives(Rcv(-2, 1))>>),
      Of(<<Get, Snd(1, 2, 1), Gives(Snd(1, 1, 2))>>, <<Rcv(1, 2)>>, <<Gives(Except(Rcv(1, 2)))>>),
      Of(<<Get, Snd(2, 2, 1), Gives(Rcv(2, 2))>>, <<Gives(Rcv(1, 2))>>, <<Gives(Snd(1, 1, 2))>>) }

\* Selectors of every kind, truncation, zero-length messages, a full table.
Selectors ==
    LET send == <<Get, Snd(2, 1, 1), Risk(Snd(1, 0, 2), {"nomem"}), Snd(1, 1, 3)>>
        recv == {Rcv(LONG_MIN, 2), Rcv(-1, 0), NoError(Rcv(-2, 0)), Except(Rcv(1, 2)),
                 NoWait(Rcv(1, 2)), Weak(Rcv(0, 2))}
    IN  {Of(send, <<r>>, <<t>>) : r \in recv, t \in recv}

\* Queues removed under sleepers, ids used again, capacities changed.
Removal ==
    { Of(<<Get, Rmid, Get>>, <<Risk(Rcv(0, 2), {"broken"})>>, <<Snd(1, 2, 1), Snd(1, 1, 2)>>),
      Of(<<Get, Set(0), Set(1), NoWait(Snd(1, 0, 3))>>, <<Snd(1, 0, 1), Snd(1, 0, 2)>>, <<Rcv(0, 2)>>),
      Of(<<Get, Set(3), Weak(Set(3)), Get>>, <<NoWait(Snd(1, 2, 2)), Snd(1, 3, 1)>>, <<Weak(Snd(1, 1, 2)), Weak(Get)>>) }

\* A receiver dies; its parent then sends, or its pid is used again.
Deaths == { Of(<<Get, Snd(1, 1, 1)>>, <<Dies(Rcv(0, 2))>>, <<Dies(Rcv(0, 2))>>),
            Of(<<Get, Snd(1, 1, 1)>>, <<Risk(Rcv(0, 2), {"death", "muted", "reuse"}), Rcv(0, 2)>>, <<>>) }

Everything == Exchange \cup Selectors \cup Removal \cup Deaths
=============================================================================
