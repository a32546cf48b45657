-------------------------------- MODULE MCSem --------------------------------
(* Small instances of SemReg for TLC: what the guest processes do. *)
EXTENDS SemRegInv, TLC

CONSTANTS p1, p2, p3

Base == [NoReq({}) EXCEPT !.key = 1, !.size = 1, !.perm = Rights]
Op(n, o, nw, u) == [num |-> n, op |-> o, nowait |-> nw, undo |-> u]
Semop(v) == [Base EXCEPT !.op = "semop", !.sops = v]
Timed(q) == [q EXCEPT !.timed = TRUE]
Risk(q, F) == [q EXCEPT !.faults = F]
Get == [Base EXCEPT !.op = "semget", !.creat = TRUE]
GetPair == [Get EXCEPT !.size = 2]
SetVal(n, v) == [Base EXCEPT !.op = "setval", !.num = n, !.val = v]
GetVal == [Base EXCEPT !.op = "getval"]
Rmid == [Base EXCEPT !.op = "rmid"]
Of(a, b, c) == (p1 :> a) @@ (p2 :> b) @@ (p3 :> c)

\* A mutex held with SEM_UNDO, whose holders die.
Lock == Semop(<<Op(0, -1, FALSE, TRUE)>>)
Unlock == Semop(<<Op(0, 1, FALSE, TRUE)>>)
Mutex == { Of(<<Get, SetVal(0, 1), Risk(Lock, {"death"}), Unlock>>,
              <<Risk(Lock, {"death"})>>, <<Risk(Timed(Lock), {"death"}), Unlock>>) }

\* Two callers that are interrupted, kicked, cut off and timed out.
Cancelled ==
    { Of(<<Get, SetVal(0, 1), Risk(Lock, {"signal", "broken"}), Unlock>>,
         <<Risk(Timed(Lock), F), Unlock>>, <<>>) :
        F \in { {"signal", "kick"}, {"death", "muted"} } }

\* Vectors that name a semaphore twice, wait for zero, overflow a value or an
\* adjustment, or exceed the tables; SETALL in their midst.
TwoSteps == Semop(<<Op(0, 1, FALSE, TRUE), Op(1, -1, FALSE, TRUE)>>)
Bounce == Semop(<<Op(0, 2, FALSE, TRUE), Op(0, -2, FALSE, FALSE), Op(0, 2, FALSE, TRUE)>>)
AwaitZero == Semop(<<Op(1, 1, FALSE, FALSE), Op(0, 0, FALSE, FALSE), Op(1, -2, TRUE, TRUE)>>)
SetAll(a, b) == [Base EXCEPT !.op = "setall", !.vals = (0 :> a) @@ (1 :> b)]
Vectors == { Of(<<GetPair, a, b>>, <<c, Risk(d, {"death"})>>, <<>>) :
               a \in {TwoSteps, Bounce}, b \in {Bounce, SetAll(1, 1)},
               c \in {TwoSteps, AwaitZero}, d \in {AwaitZero, Bounce} }

\* A post wakes one sleeper, whose own vector wakes the other; the poster dies
\* with units to take back that are gone.
Relay == { Of(<<GetPair, Risk(Semop(<<Op(0, 1, FALSE, TRUE)>>), {"death"})>>,
              <<Semop(<<Op(1, -1, FALSE, FALSE)>>)>>,
              <<Semop(<<Op(0, -1, FALSE, FALSE), Op(1, 1, FALSE, FALSE)>>)>>) }

\* A set removed under its sleepers and made again.
Removal == { Of(<<Get, Rmid, Get>>,
                <<Semop(<<Op(0, 1, FALSE, TRUE), Op(0, -2, FALSE, FALSE)>>), Get>>,
                <<x>>) : x \in { Lock, Rmid, [Get EXCEPT !.key = IPC_PRIVATE] } }

\* A holder that dies, and a parent that reads the semaphore; F: how it dies.
Parent(F) == Of(<<Get, SetVal(0, 1), GetVal>>, <<Risk(Lock, F)>>, <<>>)
Survived == { Parent({"death", "muted", "reuse"}) }
Reaped == { Parent({"death", "early_reap"}) }

Everything == Mutex \cup Cancelled \cup Vectors \cup Relay \cup Removal \cup Survived
=============================================================================
