------------------------------- MODULE MCLife --------------------------------
(* Small instances of BrokerLife for TLC: what the clients do. *)
EXTENDS BrokerLife

CONSTANTS g1, g2, g3

C(op) == [op |-> op, faults |-> {}]
Make == C("make")
Join == C("join")
Exit_ == C("exit")
Risk(q, f) == [q EXCEPT !.faults = {f}]
Of(x, y, z) == [k \in Clients |-> IF k = g1 THEN x ELSE IF k = g2 THEN y ELSE z]

\* Clients that come and go, so that a daemon may be leaving when the next
\* call is made; requests that time out, forks that fail.
Coming ==
    { Of(<<Make, Exit_>>, <<Make, Make, Exit_>>, <<>>),
      Of(<<Join, Make, Exit_>>, <<Join, Exit_>>, <<>>),
      Of(<<Risk(Make, "timeout"), Make, Exit_>>, <<Risk(Make, "nofork"), Exit_>>, <<>>) }
=============================================================================
