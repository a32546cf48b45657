----------------------------- MODULE ExecProofs -----------------------------
(***************************************************************************)
(* For any number of threads and whatever they do: an exec leaves no       *)
(* thread of the program before it that a signal can reach, and gives back *)
(* no memory that a thread still runs on.                                  *)
(***************************************************************************)
EXTENDS Exec, FiniteSetTheorems, TLAPS

USE DEF tvars, jvars, kvars, pvars

\* The types that the arguments below need.
Kinds ==
    /\ scene \in Scenarios /\ ops \in [Threads -> Seq(Ops)] /\ DOMAIN pc = Threads /\ DOMAIN v = Threads
    /\ life \in [Threads -> {"none", "run", "zombie", "gone"}]
    /\ gen \in [Threads -> Nat] /\ prog.n \in Nat
    /\ \A t \in Threads : "back" \in DOMAIN v[t]

\* A thread no signal reaches takes no part in an exec.
DeafIdle == \A t \in Deaf : ops[t] = <<>> /\ pc[t] \in {"guest", "off"} /\ t \notin held

\* Where a thread is, or goes on after a request that came too late.
Where(t) == IF pc[t] \in {"take", "takeclaim", "takeflag"} THEN v[t].back ELSE pc[t]

\* A call that is under way is still the head of its script.
Midway == \A t \in Threads : Where(t) \in {"mask", "doomed"} => ops[t] # <<>>

\* Only who cannot be reached is given up (dt_round), so that the thread that
\* commits has nobody but those beside it.
Alone ==
    /\ \A o \in Threads : o \in left => o \in Deaf \/ life[o] = "zombie"
    /\ \A t, o \in Threads : Where(t) = "commit" /\ Alive(t) /\ Alive(o) /\ o # t => o \in Deaf

ExecInv == Kinds /\ DeafIdle /\ Midway /\ Alone /\ OneProgram /\ MemoryKept

-----------------------------------------------------------------------------
\* Who takes a step lives, and can be reached.
LEMMA Movers ==
    ASSUME DeafIdle, NEW t \in Threads, Step(t)
    PROVE  Alive(t) /\ t \notin Deaf
<1>1. SUFFICES ASSUME t \in Deaf, Alive(t)
               PROVE  FALSE
  BY Zenon DEF Step, Doing, Clone, Trap, Hold, Sleep, BlockAll, cng_sig_note_mask, Unmap, Exit, sigsys_handler, ExecCall, Claim, Look, Probe, execve_plan, Hand, SendExec, Watch, Take, TakeClaim, TakeFlag, Begin, List, dt_round, Round, execve_commit
<1>2. ops[t] = <<>> /\ pc[t] \in {"guest", "off"} /\ t \notin held
  BY Zenon, <1>1 DEF DeafIdle
<1> QED  BY <1>1, <1>2 DEF Step, Doing, Clone, Trap, Hold, Sleep, BlockAll, cng_sig_note_mask, Unmap, Exit, sigsys_handler, ExecCall, Claim, Look, Probe, execve_plan, Hand, SendExec, Watch, Take, TakeClaim, TakeFlag, Begin, List, dt_round, Round, execve_commit

\* A step of t's own: nobody comes or goes, and it is about to commit only if
\* it was, or has just found everybody gone.
Moves(t) ==
    /\ UNCHANGED <<scene, life, gen, prog, memory>>
    /\ \A o \in Threads \ {t} : pc'[o] = pc[o] /\ v'[o] = v[o] /\ ops'[o] = ops[o]
    /\ DOMAIN pc' = Threads /\ DOMAIN v' = Threads /\ ops' \in [Threads -> Seq(Ops)]
    /\ held' \subseteq held \cup {t}
    /\ Where(t)' = "commit" => Where(t) = "commit" \/ (Round(t) /\ all_gone(t))
    /\ Where(t)' \in {"mask", "doomed"} => ops'[t] # <<>>
    /\ \A o \in Threads : "back" \in DOMAIN v'[o]

LEMMA Rest ==
    ASSUME Kinds, NEW t \in Threads, ops[t] # <<>>
    PROVE  [ops EXCEPT ![t] = Tail(@)] \in [Threads -> Seq(Ops)]
<1>1. ops \in [Threads -> Seq(Ops)] /\ ops[t] \in Seq(Ops)
  BY DEF Kinds
<1>2. Tail(ops[t]) \in Seq(Ops)
  BY <1>1
<1> QED  BY <1>1, <1>2

LEMMA StepShape ==
    ASSUME Kinds, Midway, NEW t \in Threads, Step(t)
    PROVE  Clone(t) \/ Exit(t) \/ execve_commit(t) \/ Moves(t)
<1>1. CASE Trap(t)
  BY <1>1 DEF Trap, Doing, Done, Kinds, Moves, Midway, Where
<1>2. CASE Hold(t)
  <2>1. /\ pc[t] = "guest" /\ ops[t] # <<>> /\ held' \subseteq held \cup {t}
        /\ UNCHANGED <<scene, life, gen, prog, memory, pc, v>>
        /\ UNCHANGED ops \/ ops' = [ops EXCEPT ![t] = Tail(@)]
    BY Zenon, <1>2 DEF Hold, Doing, Done
  <2>2. ops' \in [Threads -> Seq(Ops)]
    BY Zenon, <2>1, Rest DEF Kinds
  <2>3. Where(t)' = "guest"
    BY <2>1 DEF Where
  <2> QED  BY <2>1, <2>2, <2>3 DEF Kinds, Moves
<1>3. CASE Sleep(t)
  BY <1>3 DEF Sleep, Doing, Done, Go, Kinds, Moves, Midway, Where
<1>4. CASE BlockAll(t)
  <2>1. /\ pc[t] = "guest" /\ ops[t] # <<>> /\ pc' = [pc EXCEPT ![t] = "mask"]
        /\ UNCHANGED <<scene, life, gen, prog, memory, ops, v, held>>
    BY Zenon, <1>4 DEF BlockAll, Doing, Go
  <2> QED  BY <2>1 DEF Kinds, Moves, Midway, Where
<1>5. CASE cng_sig_note_mask(t)
  <2>1. UNCHANGED <<scene, life, gen, prog, memory, v, held>>
    BY Zenon, <1>5 DEF cng_sig_note_mask
  <2>2. CASE pc[t] = "mask"
    <3>1. pc' = [pc EXCEPT ![t] = "doomed"] /\ UNCHANGED ops
      BY <1>5, <2>2 DEF cng_sig_note_mask, Go
    <3> QED  BY <2>1, <2>2, <3>1 DEF Kinds, Moves, Midway, Where
  <2>3. CASE pc[t] = "doomed"
    <3>1. ops[t] # <<>>
      BY <2>3 DEF Midway, Where
    <3>2. /\ \E p \in {"exit", "unmap", "asleep"} : pc' = [pc EXCEPT ![t] = p]
          /\ UNCHANGED ops \/ ops' = [ops EXCEPT ![t] = Tail(@)]
      BY <1>5, <2>3 DEF cng_sig_note_mask, Go, Done
    <3>3. ops' \in [Threads -> Seq(Ops)]
      <4>1. ops' = ops \/ ops' = [ops EXCEPT ![t] = Tail(@)]
        BY Zenon, <3>2
      <4>2. [ops EXCEPT ![t] = Tail(@)] \in [Threads -> Seq(Ops)]
        BY Zenon, <3>1, Rest
      <4> QED  BY Zenon, <4>1, <4>2 DEF Kinds
    <3>4. Where(t)' \in {"exit", "unmap", "asleep"}
      BY <3>2 DEF Kinds, Where
    <3> QED  BY <2>1, <3>2, <3>3, <3>4 DEF Kinds, Moves
  <2> QED  BY Zenon, <1>5, <2>2, <2>3 DEF cng_sig_note_mask
<1>6. CASE Unmap(t)
  BY <1>6 DEF Unmap, Go, Kinds, Moves, Midway, Where
<1>7. CASE sigsys_handler(t)
  <2>1. /\ UNCHANGED <<scene, ops, life, gen, prog, memory, held>>
        /\ \/ pc' = [pc EXCEPT ![t] = "dying"] /\ UNCHANGED v
           \/ v' = [v EXCEPT ![t].back = pc[t]] /\ pc' = [pc EXCEPT ![t] = "take"]
           \/ UNCHANGED <<pc, v>>
    BY <1>7 DEF sigsys_handler, Go, pvars
  <2>2. CASE pc' = [pc EXCEPT ![t] = "dying"] /\ UNCHANGED v
    BY <2>1, <2>2 DEF Kinds, Moves, Where
  <2>3. CASE v' = [v EXCEPT ![t].back = pc[t]] /\ pc' = [pc EXCEPT ![t] = "take"]
    BY <1>7, <2>1, <2>3 DEF sigsys_handler, Kinds, Moves, Midway, Where
  <2>4. CASE UNCHANGED <<pc, v>>
    BY <2>1, <2>4 DEF Kinds, Moves, Midway, Where
  <2> QED  BY Zenon, <2>1, <2>2, <2>3, <2>4
<1>8. CASE ExecCall(t)
  BY <1>8 DEF ExecCall, Doing, Done, Go, Locals, Kinds, Moves, Midway, Where
<1>9. CASE Claim(t)
  BY <1>9 DEF Claim, Go, Kinds, Moves, Midway, Where
<1>10. CASE Look(t)
  <2>1. /\ UNCHANGED <<scene, life, gen, prog, memory, ops, held>>
        /\ \/ /\ \E p \in {"take", "exit"} : pc' = [pc EXCEPT ![t] = p]
              /\ v' = [v EXCEPT ![t].back = "exit"]
           \/ pc' = [pc EXCEPT ![t] = "probe"] /\ UNCHANGED v
    BY Zenon, <1>10 DEF Look, Go
  <2> QED  BY <2>1 DEF Kinds, Moves, Midway, Where
<1>11. CASE Probe(t)
  BY <1>11 DEF Probe, Go, Kinds, Moves, Midway, Where
<1>12. CASE execve_plan(t)
  BY <1>12 DEF execve_plan, Go, Kinds, Moves, Midway, Where
<1>13. CASE Hand(t)
  BY <1>13 DEF Hand, Go, Kinds, Moves, Midway, Where
<1>14. CASE SendExec(t)
  BY <1>14 DEF SendExec, Go, Kinds, Moves, Midway, Where
<1>15. CASE Watch(t)
  BY <1>15 DEF Watch, Go, Kinds, Moves, Midway, Where
<1>16. CASE Take(t)
  BY <1>16 DEF Take, Go, Kinds, Moves, Midway, Where
<1>17. CASE TakeClaim(t)
  BY <1>17 DEF TakeClaim, Go, Kinds, Moves, Midway, Where
<1>18. CASE TakeFlag(t)
  BY <1>18 DEF TakeFlag, Go, Kinds, Moves, Midway, Where
<1>19. CASE Begin(t)
  BY <1>19 DEF Begin, Go, Kinds, Moves, Midway, Where
<1>20. CASE List(t)
  BY <1>20 DEF List, Go, Kinds, Moves, Midway, Where
<1>21. CASE dt_round(t)
  BY <1>21 DEF dt_round, Go, Kinds, Moves, Midway, Where
<1>22. CASE Round(t)
  BY <1>22 DEF Round, Go, Kinds, Moves, Midway, Where
<1> QED  BY Zenon, <1>1, <1>2, <1>3, <1>4, <1>5, <1>6, <1>7, <1>8, <1>9, <1>10, <1>11, <1>12, <1>13, <1>14, <1>15, <1>16, <1>17, <1>18, <1>19, <1>20, <1>21, <1>22 DEF Step

\* Clone, exit and commit, as far as the invariants see them.
LEMMA CloneShape ==
    ASSUME Kinds, NEW t \in Threads, Clone(t)
    PROVE  /\ UNCHANGED <<scene, v, left, held, prog, memory>> /\ pc[t] = "guest" /\ ops[t] # <<>>
           /\ ops' = [ops EXCEPT ![t] = Tail(@)] /\ ops' \in [Threads -> Seq(Ops)]
           /\ \/ UNCHANGED <<life, pc, gen>>
              \/ \E c \in Threads : /\ life[c] = "none" /\ life' = [life EXCEPT ![c] = "run"]
                                    /\ pc' = [pc EXCEPT ![c] = "guest"]
                                    /\ gen' = [gen EXCEPT ![c] = gen[t]]
<1>1. /\ UNCHANGED <<scene, v, left, held, prog, memory>> /\ pc[t] = "guest" /\ ops[t] # <<>>
      /\ ops' = [ops EXCEPT ![t] = Tail(@)] /\ Head(ops[t])[1] = "clone"
  BY Zenon DEF Clone, Doing, Done
<1>2. ops' \in [Threads -> Seq(Ops)]
  BY Zenon, <1>1, Rest
<1>3. Head(ops[t]) \in Ops
  BY <1>1 DEF Kinds
<1>4. Head(ops[t])[2] \in Threads
  BY <1>1, <1>3 DEF Ops
<1> QED  BY Zenon, <1>1, <1>2, <1>4 DEF Clone

LEMMA KindsStep ==
    ASSUME Kinds, Midway, NEW t \in Threads, Step(t)
    PROVE  Kinds' /\ Midway' /\ scene' = scene
<1>1. CASE Clone(t)
  <2>1. /\ UNCHANGED <<scene, v, prog>> /\ pc[t] = "guest" /\ ops[t] # <<>>
        /\ ops' = [ops EXCEPT ![t] = Tail(@)] /\ ops' \in [Threads -> Seq(Ops)]
    BY Zenon, <1>1, CloneShape
  <2>2. CASE UNCHANGED <<life, pc, gen>>
    BY <2>1, <2>2 DEF Kinds, Midway, Where
  <2>3. ASSUME NEW c \in Threads, life' = [life EXCEPT ![c] = "run"],
               pc' = [pc EXCEPT ![c] = "guest"], gen' = [gen EXCEPT ![c] = gen[t]]
        PROVE  Kinds' /\ Midway' /\ scene' = scene
    <3>1. Kinds'
      BY <2>1, <2>3 DEF Kinds
    <3>2. ASSUME NEW o \in Threads, Where(o)' \in {"mask", "doomed"}
          PROVE  ops'[o] # <<>>
      <4>1. o # c /\ o # t
        BY <2>1, <2>3, <3>2 DEF Kinds, Where
      <4>2. Where(o) \in {"mask", "doomed"} /\ ops'[o] = ops[o]
        BY <2>1, <2>3, <3>2, <4>1 DEF Kinds, Where
      <4> QED  BY Zenon, <4>2 DEF Midway
    <3> QED  BY Zenon, <2>1, <3>1, <3>2 DEF Midway
  <2>4. \/ UNCHANGED <<life, pc, gen>>
        \/ \E c \in Threads : /\ life' = [life EXCEPT ![c] = "run"]
                              /\ pc' = [pc EXCEPT ![c] = "guest"]
                              /\ gen' = [gen EXCEPT ![c] = gen[t]]
    <3> HIDE DEF Kinds
    <3> QED  BY <1>1, CloneShape
  <2> QED  BY Zenon, <2>2, <2>3, <2>4
<1>2. CASE Exit(t)
  <2>1. /\ life' = [life EXCEPT ![t] = IF t = Leader THEN "zombie" ELSE "gone"]
        /\ pc' = [pc EXCEPT ![t] = "off"]
        /\ UNCHANGED <<scene, ops, v, gen, prog>>
    BY Zenon, <1>2 DEF Exit, Go
  <2> QED  BY <2>1 DEF Kinds, Midway, Where
<1>3. CASE execve_commit(t)
  <2>1. /\ pc' = [pc EXCEPT ![t] = "guest"] /\ prog'.n = prog.n + 1
        /\ gen' = [gen EXCEPT ![t] = prog.n + 1] /\ UNCHANGED <<scene, v, life>>
        /\ ops' = [ops EXCEPT ![t] = IF prog.n + 1 = 1 THEN scene.next ELSE <<>>]
    BY <1>3 DEF execve_commit, Go
  <2>2. scene.next \in Seq(Ops)
    BY ExecConstants DEF Kinds, Scene
  <2> QED  BY <2>1, <2>2 DEF Kinds, Midway, Where
<1>4. CASE Moves(t)
  <2>1. Kinds'
    BY <1>4 DEF Moves, Kinds
  <2>2. \A o \in Threads : Where(o)' \in {"mask", "doomed"} => ops'[o] # <<>>
    BY <1>4 DEF Moves, Midway, Where
  <2> QED  BY Zenon, <1>4, <2>1, <2>2 DEF Moves, Midway
<1> QED  BY Zenon, <1>1, <1>2, <1>3, <1>4, StepShape

\* Who is unreachable is one of the process's threads.
LEMMA DeafThreads ==
    ASSUME Kinds
    PROVE  Deaf \subseteq Threads /\ \A t \in Deaf : scene.script[t] = <<>>
<1>1. scene \in Scene /\ \A t \in scene.deaf : scene.script[t] = <<>>
  BY Zenon, ExecConstants DEF Kinds
<1> QED  BY <1>1 DEF Scene, Deaf

LEMMA DeafStep ==
    ASSUME Kinds, Midway, DeafIdle, NEW t \in Threads, Step(t)
    PROVE  DeafIdle'
<1>1. t \notin Deaf /\ Deaf' = Deaf
  BY Zenon, Movers, KindsStep DEF Deaf
<1>2. SUFFICES ASSUME NEW d \in Deaf
               PROVE  ops'[d] = <<>> /\ pc'[d] \in {"guest", "off"} /\ d \notin held'
  BY Zenon, <1>1 DEF DeafIdle
<1>3. /\ d \in Threads /\ d # t /\ ops[d] = <<>> /\ pc[d] \in {"guest", "off"} /\ d \notin held
  BY Zenon, <1>1, DeafThreads DEF DeafIdle
<1>4. CASE Clone(t)
  <2>1. ops'[d] = ops[d] /\ held' = held
    BY <1>3, <1>4, CloneShape DEF Kinds
  <2>2. pc'[d] \in {pc[d], "guest"}
    <3>1. pc' = pc \/ \E c \in Threads : pc' = [pc EXCEPT ![c] = "guest"]
      BY Zenon, <1>4, CloneShape
    <3> QED  BY <1>3, <3>1 DEF Kinds
  <2> QED  BY <1>3, <2>1, <2>2
<1>5. CASE Exit(t)
  BY <1>3, <1>5 DEF Exit, Go, Kinds
<1>6. CASE execve_commit(t)
  BY <1>3, <1>6 DEF execve_commit, Go, Kinds
<1>7. CASE Moves(t)
  BY <1>3, <1>7 DEF Moves
<1> QED  BY Zenon, <1>4, <1>5, <1>6, <1>7, StepShape

\* The kernel's count leaves nobody out that could still run the program.
LEMMA LastOne ==
    ASSUME Kinds, Alone, NEW t \in Threads, Alive(t), t \notin Deaf, all_gone(t)
    PROVE  \A o \in Threads : Alive(o) /\ o # t => o \in Deaf
<1> DEFINE S == {o \in Threads : Exists(o)}
<1>1. IsFiniteSet(S) /\ t \in S
  <2>1. IsFiniteSet(Threads) /\ S \subseteq Threads
    BY ExecConstants
  <2> QED  BY <2>1, FS_Subset DEF Alive, Exists
<1>2. StillLeft \subseteq S \ {t}
  BY DEF StillLeft, Alone, Alive, Exists, task_state
<1>3. /\ IsFiniteSet(S \ {t}) /\ Cardinality(S \ {t}) = Cardinality(S) - 1
      /\ Cardinality(S) \in Nat
  BY <1>1, FS_RemoveElement, FS_CardinalityType
<1>4. /\ Cardinality(StillLeft) <= Cardinality(S \ {t}) /\ Cardinality(StillLeft) \in Nat
      /\ Cardinality(S \ {t}) = Cardinality(StillLeft) => S \ {t} = StillLeft
  BY <1>2, <1>3, FS_Subset, FS_CardinalityType
<1>5. Cardinality(S) <= 1 + Cardinality(StillLeft)
  BY DEF all_gone, nr_threads
<1>6. S \ {t} = StillLeft
  BY <1>3, <1>4, <1>5
<1> QED  BY <1>6 DEF Alone, StillLeft, Alive, Exists

\* The threads an exec gives up (dt_round, dt_left_revisit).
LEMMA LeftShape ==
    ASSUME NEW t \in Threads, Step(t)
    PROVE  \A o \in Threads : o \in left' => o \in left \/ life[o] = "zombie" \/ o \in Deaf
<1>1. CASE dt_round(t)
  <2>1. PICK o : left' \subseteq left \cup {o} /\ (o \in left' =>
                   o \in left \/ task_state(o) = "zombie" \/ task_unreachable(o))
    BY Zenon, <1>1 DEF dt_round
  <2>2. task_state(o) = "zombie" => life[o] = "zombie"
    BY DEF task_state, Exists
  <2> QED  BY Zenon, <2>1, <2>2 DEF task_unreachable
<1>2. CASE Round(t)
  BY Zenon, <1>2 DEF Round, StillLeft
<1>3. CASE Begin(t)
  BY <1>3 DEF Begin
<1>4. CASE UNCHANGED left
  BY Zenon, <1>4
<1>5. UNCHANGED left \/ dt_round(t) \/ Round(t) \/ Begin(t)
  BY Zenon DEF Step, Clone, Trap, Hold, Sleep, BlockAll, cng_sig_note_mask, Unmap, Exit,
     sigsys_handler, ExecCall, Claim, Look, Probe, execve_plan, Hand, SendExec, Watch, Take,
     TakeClaim, TakeFlag, List, execve_commit
<1> QED  BY Zenon, <1>1, <1>2, <1>3, <1>4, <1>5

LEMMA ExitShape ==
    ASSUME NEW t \in Threads, Exit(t)
    PROVE  /\ life' = [life EXCEPT ![t] = IF t = Leader THEN "zombie" ELSE "gone"]
           /\ pc' = [pc EXCEPT ![t] = "off"] /\ UNCHANGED <<scene, v, gen, prog, memory>>
BY Zenon DEF Exit, Go

LEMMA CommitShape ==
    ASSUME NEW t \in Threads, execve_commit(t)
    PROVE  /\ pc[t] = "commit" /\ pc' = [pc EXCEPT ![t] = "guest"] /\ prog'.n = prog.n + 1
           /\ gen' = [gen EXCEPT ![t] = prog.n + 1] /\ UNCHANGED <<scene, v, life>>
           /\ memory' = IF exec_single_threaded THEN {prog.n + 1} ELSE memory \cup {prog.n + 1}
BY DEF execve_commit, Go

LEMMA AloneStep ==
    ASSUME Kinds, Midway, DeafIdle, Alone, NEW t \in Threads, Step(t)
    PROVE  Alone'
<1>1. Alive(t) /\ t \notin Deaf /\ Deaf' = Deaf
  BY Zenon, Movers, KindsStep DEF Deaf
<1>2. \A o \in Threads : life[o] = "zombie" => life'[o] = "zombie"
  <2>1. CASE Clone(t)
    <3>1. life' = life \/ \E c \in Threads : life[c] = "none" /\ life' = [life EXCEPT ![c] = "run"]
      BY Zenon, <2>1, CloneShape
    <3> QED  BY <3>1 DEF Kinds
  <2>2. CASE Exit(t)
    BY <1>1, <2>2, ExitShape DEF Alive, Kinds
  <2>3. CASE execve_commit(t) \/ Moves(t)
    BY Zenon, <2>3, CommitShape DEF Moves
  <2> QED  BY Zenon, <2>1, <2>2, <2>3, StepShape
<1>3. \A o \in Threads : o \in left' => o \in Deaf \/ life'[o] = "zombie"
  BY Zenon, <1>2, LeftShape DEF Alone
<1>4. \A x \in Threads \ {t} : ~(Where(x) = "commit" /\ Alive(x))
  BY Zenon, <1>1 DEF Alone
<1>5. ASSUME NEW x \in Threads, NEW o \in Threads, Where(x)' = "commit", Alive(x)', Alive(o)', o # x
      PROVE  o \in Deaf
  <2>1. CASE Clone(t)
    <3>1. v' = v /\ pc[t] = "guest"
      BY Zenon, <2>1, CloneShape
    <3>2. CASE UNCHANGED <<life, pc>>
      BY Zenon, <1>5, <3>1, <3>2 DEF Alone, Where, Alive
    <3>3. ASSUME NEW c \in Threads, life' = [life EXCEPT ![c] = "run"], pc' = [pc EXCEPT ![c] = "guest"]
          PROVE  o \in Deaf
      <4>1. x # c
        BY <1>5, <3>3 DEF Where, Kinds
      <4>2. Where(x) = "commit" /\ Alive(x)
        BY <1>5, <3>1, <3>3, <4>1 DEF Where, Alive, Kinds
      <4>3. x # t
        BY <3>1, <4>2 DEF Where
      <4> QED  BY Zenon, <1>4, <4>2, <4>3
    <3>4. \/ UNCHANGED <<life, pc>>
          \/ \E c \in Threads : life' = [life EXCEPT ![c] = "run"] /\ pc' = [pc EXCEPT ![c] = "guest"]
      BY <2>1, CloneShape
    <3> QED  BY Zenon, <3>2, <3>3, <3>4
  <2>2. CASE Exit(t)
    <3>1. x # t
      BY <1>5, <2>2, ExitShape DEF Where, Kinds
    <3>2. Where(x) = "commit" /\ Alive(x)
      BY <1>5, <2>2, <3>1, ExitShape DEF Where, Alive, Kinds
    <3> QED  BY Zenon, <1>4, <3>1, <3>2
  <2>3. CASE execve_commit(t)
    <3>1. x # t
      BY <1>5, <2>3, CommitShape DEF Where, Kinds
    <3>2. Where(x) = "commit" /\ Alive(x)
      BY <1>5, <2>3, <3>1, CommitShape DEF Where, Alive, Kinds
    <3> QED  BY Zenon, <1>4, <3>1, <3>2
  <2>4. CASE Moves(t)
    <3>1. Alive(x) /\ Alive(o)
      BY Zenon, <1>5, <2>4 DEF Moves, Alive
    <3>2. CASE x # t
      <4>1. Where(x) = "commit"
        BY <1>5, <2>4, <3>2 DEF Moves, Where
      <4> QED  BY Zenon, <1>4, <3>1, <3>2, <4>1
    <3>3. CASE x = t
      <4>1. Where(t) = "commit" \/ all_gone(t)
        BY Zenon, <1>5, <2>4, <3>3 DEF Moves
      <4>2. CASE Where(t) = "commit"
        BY Zenon, <1>5, <3>1, <3>3, <4>2 DEF Alone
      <4>3. CASE all_gone(t)
        BY Zenon, <1>1, <1>5, <3>1, <3>3, <4>3, LastOne
      <4> QED  BY Zenon, <4>1, <4>2, <4>3
    <3> QED  BY Zenon, <3>2, <3>3
  <2> QED  BY Zenon, <2>1, <2>2, <2>3, <2>4, StepShape
<1> QED  BY Zenon, <1>1, <1>3, <1>5 DEF Alone

\* exec_single_threaded: the thread that asks is the only one there is.
LEMMA Single ==
    ASSUME NEW t \in Threads, Alive(t), exec_single_threaded
    PROVE  \A o \in Threads : Alive(o) => o = t
<1> DEFINE S == {o \in Threads : Exists(o)}
<1>1. IsFiniteSet(S) /\ t \in S
  <2>1. IsFiniteSet(Threads) /\ S \subseteq Threads
    BY ExecConstants
  <2> QED  BY <2>1, FS_Subset DEF Alive, Exists
<1>2. Cardinality(S) = 1
  BY DEF exec_single_threaded, nr_threads
<1>3. \E x : S = {x}
  BY Zenon, <1>1, <1>2, FS_Singleton
<1>4. \A o \in Threads : Alive(o) => o \in S
  BY DEF Alive, Exists
<1> QED  BY Zenon, <1>1, <1>3, <1>4

LEMMA ProgStep ==
    ASSUME Kinds, Midway, DeafIdle, Alone, OneProgram, MemoryKept, NEW t \in Threads, Step(t)
    PROVE  OneProgram' /\ MemoryKept'
<1>1. Alive(t) /\ t \notin Deaf /\ Deaf' = Deaf
  BY Zenon, Movers, KindsStep DEF Deaf
<1>2. CASE Clone(t)
  <2>1. UNCHANGED <<prog, memory>>
    BY Zenon, <1>2, CloneShape
  <2>2. CASE UNCHANGED <<life, gen>>
    BY Zenon, <1>1, <2>1, <2>2 DEF OneProgram, MemoryKept, Alive
  <2>3. ASSUME NEW c \in Threads, life' = [life EXCEPT ![c] = "run"], gen' = [gen EXCEPT ![c] = gen[t]]
        PROVE  OneProgram' /\ MemoryKept'
    <3>1. gen[t] = prog.n /\ gen[t] \in memory
      BY Zenon, <1>1 DEF OneProgram, MemoryKept
    <3> QED  BY <1>1, <2>1, <2>3, <3>1 DEF OneProgram, MemoryKept, Alive, Kinds
  <2>4. \/ UNCHANGED <<life, gen>>
        \/ \E c \in Threads : life' = [life EXCEPT ![c] = "run"] /\ gen' = [gen EXCEPT ![c] = gen[t]]
    BY Zenon, <1>2, CloneShape
  <2> QED  BY Zenon, <2>2, <2>3, <2>4
<1>3. CASE Exit(t)
  <2>1. UNCHANGED <<gen, prog, memory>> /\ \A o \in Threads : Alive(o)' => Alive(o)
    BY <1>1, <1>3, ExitShape DEF Alive, Kinds
  <2> QED  BY Zenon, <1>1, <2>1 DEF OneProgram, MemoryKept
<1>4. CASE execve_commit(t)
  <2>1. /\ pc[t] = "commit" /\ prog'.n = prog.n + 1 /\ UNCHANGED life
        /\ gen' = [gen EXCEPT ![t] = prog.n + 1]
        /\ memory' = IF exec_single_threaded THEN {prog.n + 1} ELSE memory \cup {prog.n + 1}
    BY Zenon, <1>4, CommitShape
  <2>2. gen'[t] = prog.n + 1 /\ \A o \in Threads \ {t} : gen'[o] = gen[o]
    BY <2>1 DEF Kinds
  <2>3. \A o \in Threads : Alive(o) /\ o # t => o \in Deaf
    BY <1>1, <2>1 DEF Alone, Where
  <2>4. OneProgram'
    BY Zenon, <1>1, <2>1, <2>2, <2>3 DEF OneProgram, Alive
  <2>5. SUFFICES ASSUME NEW o \in Threads, Alive(o)
                 PROVE  gen'[o] \in memory'
    BY Zenon, <2>1, <2>4 DEF MemoryKept, Alive
  <2>6. prog.n + 1 \in memory' /\ (exec_single_threaded \/ memory \subseteq memory')
    BY <2>1
  <2>7. CASE o = t
    BY Zenon, <2>2, <2>6, <2>7
  <2>8. CASE o # t
    <3>1. ~exec_single_threaded
      BY Zenon, <1>1, <2>5, <2>8, Single
    <3>2. gen'[o] = gen[o] /\ gen[o] \in memory
      BY Zenon, <2>2, <2>5, <2>8 DEF MemoryKept
    <3> QED  BY Zenon, <2>6, <3>1, <3>2
  <2> QED  BY Zenon, <2>7, <2>8
<1>5. CASE Moves(t)
  BY Zenon, <1>1, <1>5 DEF Moves, OneProgram, MemoryKept, Alive
<1> QED  BY Zenon, <1>2, <1>3, <1>4, <1>5, StepShape

-----------------------------------------------------------------------------
LEMMA InitInv == EInit => ExecInv
<1> SUFFICES ASSUME EInit PROVE ExecInv
  OBVIOUS
<1>1. scene \in Scene
  BY ExecConstants DEF EInit
<1>2. Kinds
  BY <1>1 DEF EInit, Kinds, Scene, Locals
<1>3. DeafIdle
  BY <1>2, DeafThreads DEF EInit, DeafIdle
<1>4. Midway /\ Alone
  BY DEF EInit, Midway, Alone, Where
<1>5. OneProgram /\ MemoryKept
  BY DEF EInit, OneProgram, MemoryKept
<1> QED  BY Zenon, <1>2, <1>3, <1>4, <1>5 DEF ExecInv

LEMMA StepInv == ExecInv /\ [ENext]_evars => ExecInv'
<1>1. CASE ExecInv /\ ENext
  <2>1. PICK t \in Threads : Step(t)
    BY Zenon, <1>1 DEF ENext
  <2> QED  BY Zenon, <1>1, <2>1, KindsStep, DeafStep, AloneStep, ProgStep DEF ExecInv
<1>2. CASE ExecInv /\ UNCHANGED evars
  <2>1. UNCHANGED <<scene, pc, v, ops, life, gen, held, left, prog, memory>>
    BY Zenon, <1>2 DEF evars
  <2>2. Kinds' /\ DeafIdle' /\ Midway'
    BY Zenon, <1>2, <2>1 DEF ExecInv, Kinds, DeafIdle, Midway, Where, Deaf
  <2>3. Alone' /\ OneProgram' /\ MemoryKept'
    BY Zenon, <1>2, <2>1 DEF ExecInv, Alone, OneProgram, MemoryKept, Where, Deaf, Alive
  <2> QED  BY Zenon, <2>2, <2>3 DEF ExecInv
<1> QED  BY Zenon, <1>1, <1>2

\* The inductive invariant of the in-process execve.
THEOREM ExecInvHolds == ESpec => []ExecInv
<1>1. EInit => ExecInv
  BY InitInv
<1>2. ExecInv /\ [ENext]_evars => ExecInv'
  BY StepInv
<1> QED  BY <1>1, <1>2, PTL DEF ESpec

\* However many threads clone, exit, exec, hold signals off and sleep, every
\* one that lives and that a signal can reach runs the program of the last
\* exec: cng_dethread leaves no thread of the old one in the process.
THEOREM OneProgramAtATime == ESpec => []OneProgram
<1>1. ExecInv => OneProgram
  BY Zenon DEF ExecInv
<1> QED  BY <1>1, ExecInvHolds, PTL

\* exec_single_threaded's gate on giving back the old program's memory: no
\* live thread, reachable or not, ever runs on memory that is gone.
THEOREM MemoryIsKept == ESpec => []MemoryKept
<1>1. ExecInv => MemoryKept
  BY Zenon DEF ExecInv
<1> QED  BY <1>1, ExecInvHolds, PTL

=============================================================================
