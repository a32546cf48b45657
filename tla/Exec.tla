-------------------------------- MODULE Exec --------------------------------
(* The in-process execve of a process with several threads                 *)
(* (src/monitor/execve.c).  One exec at a time holds a claim; a thread     *)
(* that is not the group leader hands its plan to the leader with a        *)
(* SIGSYS; whoever carries the exec first kills every other thread with    *)
(* a SIGSYS each and waits for it to be gone (the kernel's de_thread),     *)
(* and only then replaces the program.                                     *)
(*                                                                         *)
(* SIGSYS is a standard signal: a thread has at most one of them pending,  *)
(* and one sent while another is pending is lost in it.  It is delivered   *)
(* at any point of the guest or of the monitor's own code.                 *)
EXTENDS Naturals, FiniteSets, Sequences

CONSTANTS
    Threads,     \* task ids
    Leader,      \* the group leader, whose tid is the pid
    NONE,        \* no thread
    Scenarios    \* what the guest's threads do

\* Frames of a de_thread request the alternate stack has room for.
ROOM == 3

Ops == ({"clone"} \X Threads)
       \cup ({"trap", "hold", "sleep", "leave", "sigwait", "exit", "exec", "badexec"} \X {NONE})
Scene == [script : [Threads -> Seq(Ops)], up : SUBSET Threads, deaf : SUBSET Threads,
          next : Seq(Ops), skip : BOOLEAN]

\* The threads no SIGSYS reaches are not the guest's (task_state: "which
\* qemu-user's own threads always do"): they make no calls of its.
ASSUME ExecConstants ==
    /\ Leader \in Threads /\ NONE \notin Threads /\ IsFiniteSet(Threads)
    /\ Scenarios \subseteq Scene
    /\ \A s \in Scenarios : \A t \in s.deaf : s.script[t] = <<>>

VARIABLES
    scene,       \* the scenario: scripts, deaf threads, what comes after
    pc, v,       \* each thread's place, and the locals of its exec
    ops,         \* what each thread still does
    life,        \* none (never created), run, zombie (leader only), gone
    gen,         \* the program each thread runs: a count of execs
    sig,         \* the SIGSYS pending at each thread
    full,        \* cng_scr[].sigfull: asked for every signal to be blocked
    held,        \* threads that really hold SIGSYS off, for a moment
    stack,       \* threads that have a stack to take a signal frame on
    frames,      \* request frames a thread has on its alternate stack
    claim,       \* g_exec_claim
    pending,     \* g_job.pending
    requester,   \* g_job.requester
    job,         \* whose plan g_job holds
    killer,      \* g_dt_killer
    told, left,  \* g_dt_told, g_dt_left
    prog,        \* the program in the process: its count, thread, plan
    memory,      \* the generations of program memory still mapped
    fate         \* ok, or killed by the kernel

tvars == <<pc, v, ops, life, gen, sig, full, held, stack, frames>>
jvars == <<claim, pending, requester, job>>
kvars == <<killer, told, left>>
pvars == <<prog, memory>>
evars == <<scene, tvars, jvars, kvars, pvars, fate>>

Places == {"guest", "asleep", "mask", "doomed", "unmap", "exit", "dying",
           "claim", "look", "probe", "plan", "hand", "send", "watch",
           "take", "takeclaim", "takeflag", "dethread", "list", "each",
           "round", "commit", "off"}
\* Where a thread is inside execve, by its own call or a sibling's request.
InExec == {"claim", "look", "probe", "plan", "hand", "send", "watch", "take",
           "takeclaim", "takeflag", "dethread", "list", "each", "round",
           "commit"}
Carrying == {"dethread", "list", "each", "round", "commit"}

Deaf == scene.deaf
Locals == [cur |-> NONE, req |-> NONE, back |-> "exit", age |-> "first", mark |-> TRUE,
           todo |-> {}, live |-> FALSE, good |-> TRUE]

EInit ==
    /\ scene \in Scenarios
    /\ ops = scene.script
    /\ life = [t \in Threads |-> IF t \in scene.up THEN "run" ELSE "none"]
    /\ pc = [t \in Threads |-> IF t \in scene.up THEN "guest" ELSE "off"]
    /\ v = [t \in Threads |-> Locals]
    /\ gen = [t \in Threads |-> 0]
    /\ sig = [t \in Threads |-> "none"]
    /\ full = [t \in Threads |-> FALSE]
    /\ held = {} /\ stack = Threads /\ frames = [t \in Threads |-> 0]
    /\ claim = NONE /\ pending = FALSE /\ requester = NONE /\ job = NONE
    /\ killer = NONE /\ told = {} /\ left = {}
    /\ prog = [n |-> 0, by |-> Leader, plan |-> NONE] /\ memory = {0}
    /\ fate = "ok"

(***************************************************************************)
(* What one thread can learn of another                                    *)
(***************************************************************************)
Alive(t) == life[t] = "run"
Exists(t) == life[t] \in {"run", "zombie"}       \* tgkill does not say ESRCH

task_state(t) ==
    CASE ~Exists(t) -> "none"
      [] life[t] = "zombie" -> "zombie"
      [] Alive(t) /\ (t \in Deaf \/ t \in held) -> "blocked"
      [] OTHER -> "live"

\* The samples of ten milliseconds outlast a moment's hold, not a deaf one.
task_unreachable(t) == life[t] = "zombie" \/ (Alive(t) /\ t \in Deaf)

task_asleep(t) == pc[t] = "asleep"

leader_reachable == task_state(Leader) = "live"

cng_dethread_doomed(t) == killer # NONE /\ killer # t

Go(t, p) == pc' = [pc EXCEPT ![t] = p]

\* A SIGSYS to t, lost where one is pending already.
Queue(t, what) == [sig EXCEPT ![t] = IF @ = "none" THEN what ELSE @]

(***************************************************************************)
(* The guest's threads                                                     *)
(***************************************************************************)
Doing(t, op) ==
    /\ Alive(t) /\ pc[t] = "guest" /\ sig[t] # "trap"
    /\ ops[t] # <<>> /\ Head(ops[t])[1] = op
Done(t) == ops' = [ops EXCEPT ![t] = Tail(@)]

\* clone(2): restarted into the handler where a signal is pending.
Clone(t) ==
    /\ Doing(t, "clone") /\ Done(t)
    /\ LET c == Head(ops[t])[2]
       IN  \/ /\ life[c] = "none" /\ sig[t] = "none"
              /\ life' = [life EXCEPT ![c] = "run"]
              /\ pc' = [pc EXCEPT ![c] = "guest"]
              /\ gen' = [gen EXCEPT ![c] = gen[t]]
           \/ life[c] # "none" /\ UNCHANGED <<life, pc, gen>>
    /\ UNCHANGED <<scene, v, sig, full, held, stack, frames, jvars, kvars, pvars, fate>>

\* A trapped call: its SIGSYS, pending until it is delivered.
Trap(t) ==
    /\ Doing(t, "trap") /\ sig[t] = "none" /\ t \notin Deaf /\ Done(t)
    /\ sig' = Queue(t, "trap")
    /\ UNCHANGED <<scene, pc, v, life, gen, full, held, stack, frames, jvars,
                   kvars, pvars, fate>>

\* A writer of the monitor's holds every signal off, and lets go.
Hold(t) ==
    /\ \/ Doing(t, "hold") /\ t \notin held /\ held' = held \cup {t} /\ UNCHANGED ops
       \/ Doing(t, "hold") /\ t \in held /\ held' = held \ {t} /\ Done(t)
    /\ UNCHANGED <<scene, pc, v, life, gen, sig, full, stack, frames, jvars,
                   kvars, pvars, fate>>

Sleep(t) ==
    /\ Doing(t, "sleep") /\ Done(t) /\ Go(t, "asleep")
    /\ UNCHANGED <<scene, v, life, gen, sig, full, held, stack, frames, jvars,
                   kvars, pvars, fate>>

\* rt_sigprocmask of every signal, by a thread that leaves, or that goes to
\* sleep in sigwait: the mask is noted first, and the exec looked for after.
BlockAll(t) ==
    /\ \/ Doing(t, "leave") \/ Doing(t, "sigwait")
    /\ Go(t, "mask") /\ UNCHANGED <<scene, ops, v, life, gen, sig, full, held,
                                    stack, frames, jvars, kvars, pvars, fate>>

note_mask_store(t) == full' = [full EXCEPT ![t] = TRUE]

note_mask_doomed(t) == cng_dethread_doomed(t)

cng_sig_note_mask(t) ==
    \/ /\ Alive(t) /\ pc[t] = "mask" /\ note_mask_store(t) /\ Go(t, "doomed")
       /\ UNCHANGED <<scene, ops, v, life, gen, sig, held, stack, frames,
                      jvars, kvars, pvars, fate>>
    \/ /\ Alive(t) /\ pc[t] = "doomed"
       /\ IF note_mask_doomed(t) THEN Go(t, "exit") /\ UNCHANGED ops
          ELSE /\ Go(t, IF Head(ops[t])[1] = "leave" THEN "unmap" ELSE "asleep")
               /\ Done(t)
       /\ UNCHANGED <<scene, v, life, gen, sig, full, held, stack, frames,
                      jvars, kvars, pvars, fate>>

\* A detached thread unmaps its own stack and exits (the leader has no such).
Unmap(t) ==
    /\ Alive(t) /\ pc[t] = "unmap" /\ Go(t, "exit")
    /\ stack' = IF t = Leader THEN stack ELSE stack \ {t}
    /\ UNCHANGED <<scene, ops, v, life, gen, sig, full, held, frames, jvars,
                   kvars, pvars, fate>>

\* The thread's exit: a leader stays, a zombie, while others are there.
Exit(t) ==
    /\ Alive(t)
    /\ pc[t] \in {"exit", "dying"} \/ Doing(t, "exit")
    /\ life' = [life EXCEPT ![t] = IF t = Leader THEN "zombie" ELSE "gone"]
    /\ Go(t, "off")
    /\ sig' = [sig EXCEPT ![t] = "none"] /\ held' = held \ {t}
    /\ UNCHANGED <<scene, ops, v, gen, full, stack, frames, jvars, kvars,
                   pvars, fate>>

(***************************************************************************)
(* The SIGSYS handler, as far as an exec has to do with it                 *)
(***************************************************************************)
merged_die(t) == cng_dethread_doomed(t)

sigsys_handler(t) ==
    LET req == IF sig[t] = "exec" THEN "exec"
               ELSE IF sig[t] = "die" \/ merged_die(t) THEN "die" ELSE "trap"
    IN
    /\ Alive(t) /\ sig[t] # "none" /\ t \notin held /\ t \notin Deaf
    /\ sig' = [sig EXCEPT ![t] = "none"]
    /\ fate' = IF t \notin stack \/ (req = "die" /\ frames[t] = ROOM)
               THEN "segv" ELSE fate
    /\ frames' = [frames EXCEPT ![t] = IF req = "die" THEN @ + 1 ELSE @]
    /\ CASE req = "die" -> Go(t, "dying") /\ UNCHANGED v
         [] req = "exec" -> /\ v' = [v EXCEPT ![t].back = pc[t]]
                            /\ Go(t, "take")
         [] OTHER -> UNCHANGED <<pc, v>>
    /\ UNCHANGED <<scene, ops, life, gen, full, held, stack, jvars, kvars, pvars>>

(***************************************************************************)
(* execve_core                                                             *)
(***************************************************************************)
ExecCall(t) ==
    /\ Doing(t, "exec") \/ Doing(t, "badexec")
    /\ v' = [v EXCEPT ![t] = [Locals EXCEPT !.good = Head(ops[t])[1] = "exec"]]
    /\ Done(t) /\ Go(t, "claim")
    /\ UNCHANGED <<scene, life, gen, sig, full, held, stack, frames, jvars,
                   kvars, pvars, fate>>

\* The claim: taken if free, and its holder remembered if not.
Claim(t) ==
    /\ Alive(t) /\ pc[t] = "claim"
    /\ IF claim = NONE
       THEN claim' = t /\ Go(t, "plan") /\ UNCHANGED v
       ELSE /\ v' = [v EXCEPT ![t].cur = claim] /\ Go(t, "look")
            /\ UNCHANGED claim
    /\ UNCHANGED <<scene, ops, life, gen, sig, full, held, stack, frames,
                   pending, requester, job, kvars, pvars, fate>>

\* A plan that waits for the leader is the leader's to carry, or anyone's
\* where the leader is not to be had.
Look(t) ==
    /\ Alive(t) /\ pc[t] = "look"
    /\ IF pending
       THEN /\ Go(t, IF t = Leader \/ ~leader_reachable THEN "take" ELSE "exit")
            /\ v' = [v EXCEPT ![t].back = "exit"]
       ELSE Go(t, "probe") /\ UNCHANGED v
    /\ UNCHANGED <<scene, ops, life, gen, sig, full, held, stack, frames,
                   jvars, kvars, pvars, fate>>

holder_gone(t) == ~Exists(v[t].cur)

\* A claim whose holder is gone is freed; a living one ends this thread,
\* but for the leader, which may yet be handed the plan and asks again.
Probe(t) ==
    /\ Alive(t) /\ pc[t] = "probe"
    /\ IF holder_gone(t)
       THEN claim' = (IF claim = v[t].cur THEN NONE ELSE claim) /\ Go(t, "claim")
       ELSE UNCHANGED claim /\ Go(t, IF t = Leader THEN "claim" ELSE "exit")
    /\ UNCHANGED <<scene, ops, v, life, gen, sig, full, held, stack, frames,
                   pending, requester, job, kvars, pvars, fate>>

\* execve_plan writes g_job; a refusal gives the claim back.
execve_plan(t) ==
    /\ Alive(t) /\ pc[t] = "plan" /\ job' = t
    /\ IF v[t].good
       THEN requester' = t /\ Go(t, "hand") /\ UNCHANGED claim
       ELSE claim' = NONE /\ Go(t, "guest") /\ UNCHANGED requester
    /\ UNCHANGED <<scene, ops, v, life, gen, sig, full, held, stack, frames,
                   pending, kvars, pvars, fate>>

Hand(t) ==
    /\ Alive(t) /\ pc[t] = "hand"
    /\ IF t # Leader /\ leader_reachable
       THEN pending' = TRUE /\ Go(t, "send")
       ELSE Go(t, "dethread") /\ UNCHANGED pending
    /\ UNCHANGED <<scene, ops, v, life, gen, sig, full, held, stack, frames,
                   claim, requester, job, kvars, pvars, fate>>

SendExec(t) ==
    /\ Alive(t) /\ pc[t] = "send" /\ Go(t, "watch")
    /\ sig' = IF Alive(Leader) THEN Queue(Leader, "exec") ELSE sig
    /\ UNCHANGED <<scene, ops, v, life, gen, full, held, stack, frames,
                   jvars, kvars, pvars, fate>>

watch_gone_mutant(t) == FALSE  \* Mutant: a leader that dies is not watched for
watch_gone(t) == task_state(Leader) \in {"none", "zombie"}

\* The requester leaves once the plan is taken; a leader that dies, or that
\* stays deaf for two seconds, leaves the exec to it.
Watch(t) ==
    /\ Alive(t) /\ pc[t] = "watch"
    /\ \/ ~pending /\ Go(t, "exit") /\ UNCHANGED v
       \/ /\ pending /\ (watch_gone(t) \/ Leader \in Deaf)
          /\ Go(t, "take") /\ v' = [v EXCEPT ![t].back = "exit"]
    /\ UNCHANGED <<scene, ops, life, gen, sig, full, held, stack, frames,
                   jvars, kvars, pvars, fate>>

(***************************************************************************)
(* exec_takeover: the claim from the requester first, then the flag.       *)
(***************************************************************************)
\* Nothing to take: the frame goes on as it was, or the thread goes.
Take(t) ==
    /\ Alive(t) /\ pc[t] = "take"
    /\ v' = [v EXCEPT ![t].req = requester]
    /\ Go(t, IF pending THEN "takeclaim" ELSE v[t].back)
    /\ UNCHANGED <<scene, ops, life, gen, sig, full, held, stack, frames,
                   jvars, kvars, pvars, fate>>

TakeClaim(t) ==
    /\ Alive(t) /\ pc[t] = "takeclaim"
    /\ claim' = IF claim = v[t].req THEN t ELSE claim
    /\ Go(t, IF claim \in {v[t].req, t} THEN "takeflag" ELSE v[t].back)
    /\ UNCHANGED <<scene, ops, v, life, gen, sig, full, held, stack, frames,
                   pending, requester, job, kvars, pvars, fate>>

flag_won(t) == pending

TakeFlag(t) ==
    /\ Alive(t) /\ pc[t] = "takeflag" /\ pending' = FALSE
    /\ Go(t, IF flag_won(t) THEN "dethread" ELSE v[t].back)
    /\ UNCHANGED <<scene, ops, v, life, gen, sig, full, held, stack, frames,
                   claim, requester, job, kvars, pvars, fate>>

(***************************************************************************)
(* cng_dethread: rounds over the kernel's list of tasks, one every 100     *)
(* microseconds.  v.age is how long it has been at it: the first round,    *)
(* the grace, the patience of a second, and after it.                      *)
(***************************************************************************)
Begin(t) ==
    /\ Alive(t) /\ pc[t] = "dethread" /\ Go(t, "list")
    /\ killer' = t /\ told' = {} /\ left' = {}
    /\ v' = [v EXCEPT ![t].age = "first", ![t].mark = TRUE]
    /\ UNCHANGED <<scene, ops, life, gen, sig, full, held, stack, frames,
                   jvars, pvars, fate>>

\* A listing of more than one read can miss a thread as others exit under it:
\* once, in the first round, where the scenario has it so.
List(t) ==
    /\ Alive(t) /\ pc[t] = "list"
    /\ \E miss \in {{}} \cup (IF scene.skip /\ v[t].age = "first" THEN {{o} : o \in Threads} ELSE {}) :
         v' = [v EXCEPT ![t].live = FALSE,
                        ![t].todo = {o \in Threads \ miss : Exists(o) /\ o # t} \ left]
    /\ Go(t, "each")
    /\ UNCHANGED <<scene, ops, life, gen, sig, full, held, stack, frames,
                   jvars, kvars, pvars, fate>>

spare_mutant(t, o) == FALSE  \* Mutant: a thread on its way out is told
spare(t, o) == full[o] /\ (v[t].age \in {"first", "grace"} \/
                           (v[t].age = "patient" /\ ~task_asleep(o)))

already(o) == o \in told

\* One listed task: given up on, spared for now, looked for, or told.
dt_round(t) ==
    \E o \in v[t].todo :
       LET st == task_state(o)
           give == v[t].mark /\ (st = "zombie" \/
                     (st = "blocked" /\ v[t].age # "first" /\ task_unreachable(o)))
           gone == v[t].mark /\ st = "none"
           wait == ~give /\ ~gone /\ spare(t, o)
           look == ~give /\ ~gone /\ ~wait /\ already(o)
           tell == ~give /\ ~gone /\ ~wait /\ ~already(o)
           there == wait \/ ((look \/ tell) /\ Exists(o))
       IN
       /\ Alive(t) /\ pc[t] = "each"
       /\ left' = IF give THEN left \cup {o} ELSE left
       /\ told' = IF tell THEN told \cup {o} ELSE told
       /\ sig' = IF tell /\ Alive(o) THEN Queue(o, "die") ELSE sig
       /\ v' = [v EXCEPT ![t].todo = @ \ {o}, ![t].live = @ \/ there]
       /\ UNCHANGED <<scene, pc, ops, life, gen, full, held, stack, frames,
                      jvars, killer, pvars, fate>>

\* dt_left_revisit: those gone, or reachable after all, are not given up.
StillLeft == {o \in Threads : o \in left /\ task_state(o) \in {"zombie", "blocked"}}

nr_threads == Cardinality({o \in Threads : Exists(o)})

\* Nothing listed remains, and nothing unlisted either by the kernel's count.
all_gone_mutant(t) == ~v[t].live  \* Mutant: the listing has the last word
all_gone(t) == ~v[t].live /\ nr_threads <= 1 + Cardinality(StillLeft)

\* A second does not pass while a thread is on its way out, or has taken the
\* request: each needs microseconds.
SecondPasses == \A o \in Threads : Alive(o) =>
                  ~ (pc[o] \in {"unmap", "exit", "dying"} \/ o \in held
                     \/ (sig[o] = "die" /\ o \notin Deaf))

dt_told_unmap == {}

Round(t) ==
    /\ Alive(t) /\ pc[t] = "each" /\ v[t].todo = {}
    /\ IF all_gone(t)
       THEN /\ killer' = NONE /\ told' = dt_told_unmap /\ left' = StillLeft
            /\ Go(t, "commit") /\ UNCHANGED v
       ELSE /\ \/ v[t].age = "first" /\ v' = [v EXCEPT ![t].age = "grace", ![t].mark = FALSE]
               \/ v[t].age = "grace" /\ v' = [v EXCEPT ![t].age = "patient"]
               \/ v[t].age = "patient" /\ ~SecondPasses /\ UNCHANGED v
               \/ v[t].age \in {"patient", "late"} /\ SecondPasses
                    /\ v' = [v EXCEPT ![t].age = "late", ![t].mark = TRUE]
               \/ v[t].age = "late" /\ ~SecondPasses /\ v' = [v EXCEPT ![t].mark = FALSE]
            /\ IF v'[t].mark THEN told' = {} /\ left' = StillLeft
                             ELSE UNCHANGED <<told, left>>
            /\ Go(t, "list") /\ UNCHANGED killer
    /\ UNCHANGED <<scene, ops, life, gen, sig, full, held, stack, frames,
                   jvars, pvars, fate>>

(***************************************************************************)
(* execve_commit, and what it gives back of the outgoing program           *)
(***************************************************************************)
exec_single_threaded == nr_threads = 1

execve_commit(t) ==
    LET n == prog.n + 1 IN
    /\ Alive(t) /\ pc[t] = "commit" /\ Go(t, "guest")
    /\ prog' = [n |-> n, by |-> t, plan |-> job]
    /\ memory' = IF exec_single_threaded THEN {n} ELSE memory \cup {n}
    /\ gen' = [gen EXCEPT ![t] = n]
    /\ claim' = NONE
    /\ ops' = [ops EXCEPT ![t] = IF n = 1 THEN scene.next ELSE <<>>]
    /\ UNCHANGED <<scene, v, life, sig, full, held, stack, frames, pending,
                   requester, job, kvars, fate>>

Step(t) ==
    \/ Clone(t) \/ Trap(t) \/ Hold(t) \/ Sleep(t) \/ BlockAll(t)
    \/ cng_sig_note_mask(t) \/ Unmap(t) \/ Exit(t) \/ sigsys_handler(t)
    \/ ExecCall(t) \/ Claim(t) \/ Look(t) \/ Probe(t) \/ execve_plan(t)
    \/ Hand(t) \/ SendExec(t) \/ Watch(t) \/ Take(t) \/ TakeClaim(t)
    \/ TakeFlag(t) \/ Begin(t) \/ List(t) \/ dt_round(t) \/ Round(t)
    \/ execve_commit(t)

ENext == fate = "ok" /\ \E t \in Threads : Step(t)

(* The kernel runs every thread that can run, and delivers a signal to it   *)
(* in time; a thread asleep only has a step when one comes.                *)
EFairness == \A t \in Threads : /\ WF_evars(fate = "ok" /\ Step(t))
                                /\ WF_evars(fate = "ok" /\ sigsys_handler(t))

ESpec == EInit /\ [][ENext]_evars
EFairSpec == ESpec /\ EFairness

(***************************************************************************)
(* Properties                                                              *)
(***************************************************************************)
\* Every variable has its type.
ETypeOK ==
    /\ pc \in [Threads -> Places] /\ ops \in [Threads -> Seq(Ops)]
    /\ life \in [Threads -> {"none", "run", "zombie", "gone"}] /\ gen \in [Threads -> Nat]
    /\ sig \in [Threads -> {"none", "trap", "die", "exec"}]
    /\ full \in [Threads -> BOOLEAN] /\ held \subseteq Threads
    /\ stack \subseteq Threads /\ frames \in [Threads -> 0..(ROOM + 1)]
    /\ {claim, requester, job, killer} \subseteq Threads \cup {NONE}
    /\ pending \in BOOLEAN /\ told \subseteq Threads /\ left \subseteq Threads
    /\ fate \in {"ok", "segv"}

\* cng_dethread's whole purpose: from the moment an exec replaces the
\* program, no thread the request can reach still runs an earlier one.
OneProgram == \A t \in Threads : Alive(t) /\ t \notin Deaf => gen[t] = prog.n

\* The memory of a program is only given back (exec_single_threaded's gate)
\* once no thread, reachable or not, runs on it.
MemoryKept == \A t \in Threads : Alive(t) => gen[t] \in memory

\* The requests are never the death of the process: none is delivered to a
\* thread that has unmapped its stack (cng_sig_note_mask against dt_round),
\* nor piles frames on one that has yet to run its handler (dt_told).
Survives == fate = "ok"


\* An execve ends: with the new program, an error, or the death of the
\* thread that made it, never with threads waiting for each other.
ExecEnds == \A t \in Threads : []<>(pc[t] \notin InExec)
=============================================================================
