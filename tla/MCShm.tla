-------------------------------- MODULE MCShm --------------------------------
(* Small instances of ShmReg for TLC: what the guest processes do. *)
EXTENDS ShmReg

CONSTANTS p1, p2, p3

Base == [op |-> "exit", id |-> 1, key |-> 1, size |-> 1, creat |-> TRUE, excl |-> FALSE,
         perm |-> Rights, need |-> {"write"}, pid |-> p1, index |-> 0,
         faults |-> {}]
Get == [Base EXCEPT !.op = "shmget"]
At == [Base EXCEPT !.op = "shmat"]
Dt == [Base EXCEPT !.op = "shmdt"]
Stat == [Base EXCEPT !.op = "stat"]
Index(k) == [Base EXCEPT !.op = "shm_stat", !.index = k]
Info == [Base EXCEPT !.op = "info"]
Rmid == [Base EXCEPT !.op = "rmid"]
Owner(op) == [Base EXCEPT !.op = op]
Fork(p) == [Base EXCEPT !.op = "fork", !.pid = p]
Wait4(p) == [Base EXCEPT !.op = "wait", !.pid = p]
Exec_ == [Base EXCEPT !.op = "exec"]
Exit_ == Base
Id(q, d) == [q EXCEPT !.id = d]
Key(q, k) == [q EXCEPT !.key = k]
Size(q, n) == [q EXCEPT !.size = n]
Only(q, r) == [q EXCEPT !.perm = r]
Excl(q) == [q EXCEPT !.excl = TRUE]
Plain(q) == [q EXCEPT !.creat = FALSE]

\* The scripts of the first and of the second process under p1, p2 and p3.
Of(a, b, c) == [x \in Procs |-> IF x[2] > 1 THEN <<>>
                                ELSE IF x[1] = p1 THEN a ELSE IF x[1] = p2 THEN b ELSE c]
Then(f, p, s) == [f EXCEPT ![<<p, 2>>] = s]

Risk(q, F) == [q EXCEPT !.faults = F]
Mortal(q) == Risk(q, {"death"})

\* Attaches, failed ones among them, forks and execs, with statistics between.
Sharing ==
    { Of(<<Get, At, Fork(p2), Stat, Wait4(p2), Stat, Dt, Rmid>>,
         <<Risk(At, {"nomap"}), Exec_, Exit_>>, <<Risk(At, {"nomap"}), Stat, Dt>>),
      Of(<<Get, At, Risk(At, {"nomap"}), Fork(p2), Dt, Stat>>, <<Dt, Rmid, Exit_>>,
         <<At, Index(0), Info>>) }

\* Attachers that are killed, at any moment, and a second process under the
\* pid of one, which asks how many there are.
Deaths ==
    { Then(Of(<<Get, Fork(p2), Wait4(p2), Fork(p2), Stat>>, <<Mortal(At), Mortal(At), Mortal(Dt)>>,
              <<Mortal(At), Rmid, Stat>>),
           p2, <<Stat, Exit_>>),
      Of(<<Get, At, Mortal(Fork(p2)), Wait4(p2), Stat>>, <<Exec_>>, <<Mortal(At), Index(0)>>) }

\* Every refusal, a full table, ids that come round again.
Edges ==
    { Of(<<Get, Size(Get, 2), Excl(Get), Size(Key(Get, 2), 0), Plain(Key(Get, 2)),
           Risk(Key(Get, 2), {"nomem"}), Rmid, Key(Get, 2)>>,
         <<>>, <<Only(At, {"read"}), Only(Get, {}), Only(Stat, {"own"}), Only(Rmid, {}), Owner("set"), Dt, Info>>),
      Of(<<Get, At, Key(Get, 0), Rmid, Id(Rmid, 2), Key(Get, 0), Id(Rmid, 3), Key(Get, 0)>>,
         <<>>, <<Index(1), Owner("lock"), Risk(At, {"norow"}), Index(0), Get, Dt, Index(2)>>) }

\* A process killed while it has a segment attached that is removed.
Removal ==
    { Of(<<Get, Fork(p2), Rmid, Wait4(p2)>>, <<Mortal(At), Mortal(Dt)>>, <<Mortal(At), Exit_>>),
      Of(<<Get, At, Mortal(Fork(p2)), Rmid, Exec_, Wait4(p2)>>, <<Dt, Exit_>>, <<>>) }

Everything == Sharing \cup Deaths \cup Edges \cup Removal
=============================================================================
