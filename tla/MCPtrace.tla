------------------------------ MODULE MCPtrace ------------------------------
(* Instances of Ptrace: scenarios of tracers and tracees.                  *)
EXTENDS Ptrace, TLC

CONSTANTS T, U, A, C

O(op, w, a) == [op |-> op, who |-> w, arg |-> a, sig |-> "", opts |-> {}]
WithOpts(o, s) == [o EXCEPT !.opts = s]
WithSig(o, s) == [o EXCEPT !.sig = s]
Wait(w) == O("wait", w, "")
Resume(m) == O("resume", NONE, m)
Attach(w) == O("attach", w, "")
Seize(w, s) == WithOpts(O("attach", w, "seize"), s)
Exit == O("exit", NONE, "")
Call == O("call", NONE, "")
Run == O("run", NONE, "")

Sc(up, scripts, parents) ==
    [script |-> scripts @@ [t \in Tasks |-> <<>>],
     parent |-> parents @@ [t \in Tasks |-> NONE],
     up |-> up, tgid |-> [t \in Tasks |-> t], blocks |-> {}, mortal |-> {},
     rewrite |-> TRUE]

\* A child traces itself and stops; its parent follows its syscalls.
Traceme == Sc({T, A},
    T :> <<Wait(NONE), Resume("syscall"), Wait(NONE), O("readv", NONE, ""),
           Resume("syscall"), Wait(A), Resume("syscall"), Wait(A),
           Resume("step"), Wait(A)>> @@
    A :> <<O("traceme", NONE, ""), O("kill", A, "stop"), Call, Run, Exit>>,
    A :> T)

\* A stranger is attached to, signalled, and detached from or left.
Stranger == [Sc({T, A},
    T :> <<Attach(A), Wait(A), Resume(""), Wait(A),
           WithSig(Resume(""), "term"), Wait(A)>> @@
    A :> <<Run, O("signal", NONE, "term"), Exit>>, <<>>) EXCEPT !.mortal = {A}]


\* Two tracers want one task; the loser tries a second one.
Rivals == Sc({T, U, A},
    T :> <<Attach(A), Wait(A), O("resume", A, ""), Wait(A)>> @@
    U :> <<Attach(A), Wait(A), O("resume", A, "syscall"), Wait(A)>> @@
    A :> <<Run, Call, Exit>>, <<>>)

\* A traced child forks, and its child is followed.
Turns == <<Wait(NONE), Resume("syscall")>>
Follow == Sc({T, A},
    T :> <<Wait(A), WithOpts(O("setoptions", A, ""), {"fork"}), Resume("syscall")>>
         \o Turns \o Turns \o Turns \o Turns \o Turns @@
    A :> <<O("traceme", NONE, ""), O("kill", A, "stop"), O("fork", C, "fork"),
           Call>> @@
    C :> <<Call, Exit>>, A :> T)

\* A fork nobody follows, its child attached to while it runs its hooks.
Hooks == [Sc({T, A},
    T :> <<Attach(C), Wait(C), Resume(""), Wait(C)>> @@
    A :> <<O("exec", NONE, ""), O("fork", C, "fork"), Exit>> @@
    C :> <<Run>>, <<>>) EXCEPT !.blocks = {C}]

\* A group stop, listened to until somebody continues it.
Listen == Sc({T, U, A},
    T :> <<Seize(A, {}), O("interrupt", A, ""), Wait(A), O("resume", A, ""),
           Wait(A), O("listen", A, ""), O("peek", A, ""),
           O("setoptions", A, ""), Wait(A), O("detach", A, "")>> @@
    U :> <<O("kill", A, "stop"), O("kill", A, "cont")>> @@
    A :> <<Run, Exit>>, <<>>)

\* A tracer that dies, of a task to be killed with it or not.
Orphaned == {[Sc({T, A},
    T :> <<Seize(A, s), O("interrupt", A, ""), Wait(A), Resume("syscall")>> @@
    A :> <<Call, Exit>>, <<>>) EXCEPT !.mortal = {T}] : s \in {{}, {"exitkill"}}}

\* The event stops of an exec, a vfork and an exit, waited for by waitid.
Waitid(s) == WithOpts(Wait(A), s \cup {"id"})
Events == Sc({T, A},
    T :> <<Seize(A, {"exec", "exit", "vforkdone"}), O("interrupt", A, ""),
           Waitid({"stops"}), Resume("step"), Waitid({"stops", "peek"}), Waitid({"stops"}),
           Resume("syscall"), Wait(A), Resume("step"), Wait(A), Resume(""),
           Wait(A), Resume(""), Waitid({"exits", "peek"}), Waitid({"exits"})>> @@
    A :> <<O("exec", NONE, ""), O("fork", C, "vfork"), Exit>> @@
    C :> <<Exit>>, <<>>)

\* One thread of a process is attached to, and the process killed under it.
Thread == [Sc({T, A, C},
    T :> <<Attach(C), WithOpts(Wait(NONE), {"nohang"}), Wait(C), Resume(""),
           O("kill9", C, ""), Wait(C), O("kill9", C, "")>> @@
    A :> <<Call>> @@
    C :> <<Call>>, <<>>) EXCEPT !.tgid = C :> A @@ @]

\* A tracer is traced itself, and attached to in its wait.
Tower == Sc({T, U, A},
    T :> <<Attach(U), Wait(U), O("detach", U, "")>> @@
    U :> <<Attach(A), Wait(A), Resume(""), Wait(A)>> @@
    A :> <<Run, Exit>>, <<>>)

\* One task more is to be traced than the registry has slots.
Full == Sc({T, U, A, C},
    T :> <<Attach(U), Attach(C)>> @@
    A :> <<O("traceme", NONE, ""), Call>> @@
    C :> <<Attach(T)>>, A :> T)

\* The followed fork on the handler's tier.
BornPrograms == {[Follow EXCEPT !.rewrite = FALSE]}

MCPrograms == {Traceme, Stranger, Rivals, Follow, Hooks, Listen,
               Events, Thread, Tower, Full} \cup Orphaned
=============================================================================
