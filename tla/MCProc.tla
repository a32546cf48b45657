------------------------------- MODULE MCProc --------------------------------
(* Small instances of ProcReg for TLC: what the guest processes do. *)
EXTENDS ProcReg

CONSTANTS q1, q2, q3

ProcC(op, x, v) == [op |-> op, pid |-> x, val |-> v, faults |-> {}]
Exec_(v) == ProcC("exec", q1, v)
Chdir(v) == ProcC("chdir", q1, v)
Setid(v) == ProcC("setid", q1, v)
Fork(x) == ProcC("fork", x, 0)
Get_(x) == ProcC("get", x, 0)
Has_(x) == ProcC("has", x, 0)
Killall == ProcC("killall", q1, 0)
Wait(x) == ProcC("wait", x, 0)
Exit_ == ProcC("exit", q1, 0)
Host == <<ProcC("foreign", q1, 0)>>
ProcMortal(c) == [c EXCEPT !.faults = {"death"}]
Hasty(c) == [c EXCEPT !.faults = {"impatient"}]

Of(a, b, c) == [x \in Processes |-> IF x[2] > 1 THEN <<>>
                                ELSE IF x[1] = q1 THEN a ELSE IF x[1] = q2 THEN b ELSE c]
Then(f, x, s) == [f EXCEPT ![<<x, 2>>] = s]

MCFirst == <<q1, 1>>
\* A child that execs while its parent publishes it, and readers.
Races == {Of(<<Exec_(1), Fork(q3), Fork(q2), Get_(q2)>>, <<Exec_(2), Chdir(1), Setid(2)>>,
             <<Get_(q2), Get_(q2)>>)}

\* A pid that goes to a process of the host.
Strangers ==
    {Then(Of(<<Exec_(1), Fork(q3), Fork(q2), Wait(q2), Has_(q2)>>, <<Exec_(2), Exit_>>,
             <<Has_(q2), Get_(q2)>>), q2, Host)}

\* A pid that goes to another guest, with somebody who looks.
Reuse ==
    {Then(Of(<<Exec_(1), Fork(q3), Fork(q2), Wait(q2), Fork(q2), Get_(q2)>>, <<Exit_>>,
             <<Has_(q2), Get_(q2)>>), q2, <<Exec_(2), Chdir(1)>>)}

\* Writers that are killed with the lock, and their slots.
Deaths ==
    { Of(<<Exec_(1), Fork(q2), Wait(q2), Fork(q3)>>, <<ProcMortal(Exec_(2))>>,
         <<Chdir(2), Exec_(2), Get_(q1)>>),
      Of(<<Exec_(1), Fork(q2), Wait(q2), Fork(q3)>>, <<Exec_(2), Exit_>>, <<Chdir(2), Has_(q1)>>) }

\* A forker that is killed: its child copies the entry of the zombie.
Orphaned == {Of(<<Exec_(1), Fork(q2), Get_(q3)>>, <<ProcMortal(Fork(q3))>>, <<Chdir(1), Exec_(2)>>)}

\* kill(-1) among forks and deaths; a child that takes a slot of its own.
Everyone ==
    { Of(<<Exec_(1), Hasty(Fork(q2)), Fork(q3), Killall>>, <<Chdir(1)>>, <<Exit_>>),
      Of(<<Exec_(1), Fork(q2), Killall>>, <<Fork(q3), Exit_>>, <<Killall>>) }

ProcEverything == Races \cup Strangers \cup Reuse \cup Deaths \cup Orphaned \cup Everyone
=============================================================================
