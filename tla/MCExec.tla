------------------------------- MODULE MCExec -------------------------------
(* Instances of Exec: processes of three and four threads.                 *)
EXTENDS Exec, TLC

CONSTANTS L, A, B, D

Do(op) == <<op, NONE>>
Make(t) == <<"clone", t>>
Run(ops_, up) == [script |-> ops_ @@ [t \in Threads |-> <<>>], up |-> up, deaf |-> {},
                 next |-> <<>>, skip |-> FALSE]

\* Two threads exec at once, beside a leader that does too or runs on.
Race == {Run(L :> l @@ A :> <<Do("exec")>> @@ B :> b, {L, A, B}) :
           l \in {<<>>, <<Do("exec")>>, <<Do("sleep")>>, <<Do("exit")>>},
           b \in {<<Do("exec")>>, <<Do("badexec"), Do("exec")>>}}

\* Siblings that clone, trap, hold signals off, leave or wait with all blocked.
Siblings == {Run(L :> <<Do("exec")>> @@ A :> p[1] @@ B :> p[2], {L, A, B}) :
           p \in {<<<<Make(D)>>, <<Do("trap"), Do("leave")>>>>,
                  <<<<Do("leave")>>, <<Do("hold"), Do("trap")>>>>,
                  <<<<Do("sigwait")>>, <<Do("leave")>>>>,
                  <<<<Do("sigwait")>>, <<Make(D)>>>>}}

\* A thread the request cannot reach, beside the leader or the leader itself.
Unreachable == {[Run(L :> (IF L \in d THEN <<>> ELSE <<Do("exec")>>) @@ B :> <<Do("exec")>>,
                     {L, A, B}) EXCEPT !.deaf = d] : d \in {{A}, {L}, {L, A}}}

\* The program that came out makes threads and execs again.
Again == {[Run(L :> l @@ A :> <<Do("exec")>>, {L, A}) EXCEPT
             !.next = <<Make(B), Do("trap"), Do("exec")>>, !.skip = TRUE,
             !.script = B :> <<Make(D), Do("leave")>> @@ @] : l \in {<<>>, <<Do("exit")>>}}

MCScenarios == Race \cup Siblings \cup Unreachable \cup Again

\* The leader takes a trap of its own as the plan is handed to it.
Handoff == {Run(L :> <<Do("trap")>> @@ A :> <<Do("exec")>>, {L, A})}
=============================================================================
