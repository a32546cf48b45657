------------------------------- MODULE Ptrace -------------------------------
(***************************************************************************)
(* The emulated ptrace of src/monitor/ptrace.c: no task is ever traced by  *)
(* the kernel.  A registry of links in memory shared by the session says   *)
(* who traces whom; a tracee parks itself in monitor code and serves its   *)
(* tracer's requests from a mailbox in its link; a tracer's wait looks at   *)
(* the links and at the host's own wait in turn; a request that has to     *)
(* stop a running task is a flag in its link and a signal, the kick.       *)
(*                                                                         *)
(* A task runs a script of operations.  One of an untraced task is one     *)
(* call; one of a tracee is wrapped in the syscall-entry and -exit stops.  *)
(* Each access to the registry other tasks can interleave with is a step.  *)
(***************************************************************************)
EXTENDS Naturals, Sequences, FiniteSets

CONSTANTS
    Tasks,      \* the tids of the session
    NONE,       \* no task: pid 0
    PT_MAX,     \* the slots of the registry
    Programs    \* the scenarios: records of script, tgid, parent, up, blocks, mortal

VARIABLES
    links,      \* the shared registry: struct pt_link of each slot
    self,       \* struct pt_self of each task
    life,       \* "unborn", "live", "zombie" (dead, not reaped) or "gone"
    parent,     \* each task's getppid()
    kicks,      \* pending kicks: "kick" the reserved signal, "sys" the SIGSYS
    pc, v,      \* where each task is, and its locals there
    script,     \* the operations each task has still to make
    prog,       \* the scenario: what never changes of it
    fate,       \* history: how each task died, "" while it has not
    told,       \* history: told[x][t] the deaths of t that x's waits reported
    mine,       \* history: mine[x] the tasks x attached to and has not lost
    pair        \* history: "out" or "in" a syscall the tracer saw entered

vars == <<links, self, life, parent, kicks, pc, v, script, prog, fate, told,
          mine, pair>>
hist == <<fate, told, mine, pair>>
world == <<life, parent, prog>>

Slots == 1..PT_MAX
PIECES == 1      \* pieces of a readv after its first
NoStop == [sig |-> "", ev |-> "", sc |-> ""]
Stop(s, e, c) == [sig |-> s, ev |-> e, sc |-> c]
NoCmd == [by |-> NONE, n |-> 0, op |-> "", arg |-> "", sig |-> ""]

\* A link as pt_claim leaves it: everything but the key cleared.
Cleared(t) ==
    [tracee |-> t, claiming |-> FALSE, tracer |-> NONE, options |-> {},
     seize |-> FALSE, state |-> "running", reported |-> FALSE, stop |-> NoStop,
     attach |-> FALSE, interrupt |-> FALSE, stopsig |-> FALSE,
     listening |-> FALSE, exit |-> "", cmd_seq |-> 0, done_seq |-> 0,
     cmd |-> NoCmd, result |-> NoCmd]

NoSelf == [link |-> 0, active |-> FALSE, armed |-> FALSE, entry_seen |-> FALSE,
           step |-> FALSE, skip_exit_stop |-> FALSE]

Locals == [i |-> 1, j |-> 1, tid |-> NONE, e |-> 0, next |-> "guest",
           seen |-> 0, left |-> 0, stops |-> <<>>, d |-> 0, n |-> 0, asked |-> 0, sig |-> "",
           code |-> "", last |-> NONE, ev |-> "", owed |-> FALSE,
           from |-> [NoCmd EXCEPT !.op = "ESRCH"],
           inherit |-> [tracer |-> NONE, options |-> {}, seize |-> FALSE]]

Init ==
    /\ prog \in Programs
    /\ links = [i \in Slots |-> Cleared(NONE)]
    /\ self = [t \in Tasks |-> NoSelf]
    /\ life = [t \in Tasks |-> IF t \in prog.up THEN "live" ELSE "unborn"]
    /\ parent = prog.parent
    /\ kicks = [t \in Tasks |-> {}]
    /\ pc = [t \in Tasks |-> "guest"]
    /\ v = [t \in Tasks |-> Locals]
    /\ script = prog.script
    /\ fate = [t \in Tasks |-> ""]
    /\ told = [x \in Tasks |-> [t \in Tasks |-> <<>>]]
    /\ mine = [x \in Tasks |-> {}]
    /\ pair = [t \in Tasks |-> "out"]

-----------------------------------------------------------------------------
(* The registry.                                                           *)

Held(i) == links[i].tracee # NONE /\ ~links[i].claiming

\* pt_find: the lowest slot holding the tid, 0 if there is none.
pt_find(t) ==
    LET S == {i \in Slots : Held(i) /\ links[i].tracee = t}
    IN  IF S = {} THEN 0 ELSE CHOOSE i \in S : \A k \in S : i <= k

\* pt_free: the tracer first, then the key.
Freed(l) == [l EXCEPT !.tracer = NONE, !.tracee = NONE]

Live(t) == life[t] = "live"
At(t, l) == Live(t) /\ pc[t] = l
Go(t, l) == pc' = [pc EXCEPT ![t] = l]

\* A kick that is pending and not blocked lands before the next instruction.
Free(t) == /\ At(t, "guest") /\ script[t] # <<>>
           /\ kicks[t] = {} \/ (kicks[t] = {"kick"} /\ t \in prog.blocks)

\* The call a task makes: the head of its script.  A tracee's is in its
\* body once the entry stop is over.
Op(t) == Head(script[t])
Calls(t, op) ==
    /\ At(t, "body") \/ (Free(t) /\ ~self[t].active)
    /\ Op(t).op = op
Done(t) ==
    /\ script' = [script EXCEPT ![t] = Tail(@)]
    /\ Go(t, IF self[t].active THEN "exit" ELSE "guest")

-----------------------------------------------------------------------------
(* pt_claim: find or create the link of v.tid, then go on at v.next with    *)
(* the slot in v.e (0: the registry is full).                              *)

Claim(t, tid, next) ==
    /\ v' = [v EXCEPT ![t].tid = tid, ![t].next = next, ![t].i = 1]
    /\ Go(t, "scan")

Claimed(t, i) ==
    /\ v' = [v EXCEPT ![t].e = i]
    /\ Go(t, v[t].next)

\* A claim of the same tid in progress at slot i is waited out
\* (pt_claim_settled); one whose claimant was killed in it is passed over.
Claiming(i, tid) ==
    /\ links[i].claiming /\ links[i].tracee = tid
    /\ \E x \in Tasks : At(x, "fill") /\ v[x].i = i

\* The tid's link is at slot i already.
Lower(i, tid) == Held(i) /\ links[i].tracee = tid

pt_claim_scan(t) ==
    LET i == v[t].i tid == v[t].tid IN
    /\ At(t, "scan")
    /\ ~Claiming(i, tid)
    /\ IF Held(i) /\ links[i].tracee = tid
       THEN Claimed(t, i)
       ELSE IF i < PT_MAX
            THEN v' = [v EXCEPT ![t].i = i + 1] /\ UNCHANGED pc
            ELSE v' = [v EXCEPT ![t].i = 1] /\ Go(t, "cas")
    /\ UNCHANGED <<links, self, world, kicks, script, hist>>

pt_claim_cas(t) ==
    LET i == v[t].i IN
    /\ At(t, "cas")
    /\ IF links[i].tracee = NONE
       THEN /\ links' = [links EXCEPT ![i].tracee = v[t].tid,
                                      ![i].claiming = TRUE]
            /\ Go(t, "fill")
            /\ UNCHANGED v
       ELSE /\ IF i < PT_MAX
               THEN v' = [v EXCEPT ![t].i = i + 1] /\ UNCHANGED pc
               ELSE Claimed(t, 0)
            /\ UNCHANGED links
    /\ UNCHANGED <<self, world, kicks, script, hist>>

pt_claim_fill(t) ==
    /\ At(t, "fill")
    /\ links' = [links EXCEPT ![v[t].i] = Cleared(v[t].tid)]
    /\ v' = [v EXCEPT ![t].j = 1]
    /\ Go(t, "below")
    /\ UNCHANGED <<self, world, kicks, script, hist>>

\* Publish, then look below: whoever holds the lower slot keeps it.
pt_claim_below(t) ==
    LET i == v[t].i j == v[t].j tid == v[t].tid IN
    /\ At(t, "below")
    /\ j < i => ~Claiming(j, tid)
    /\ IF j = i
       THEN Claimed(t, i) /\ UNCHANGED links
       ELSE IF Lower(j, tid)
            THEN Claimed(t, j) /\ links' = [links EXCEPT ![i].tracee = NONE]
            ELSE v' = [v EXCEPT ![t].j = j + 1] /\ UNCHANGED <<pc, links>>
    /\ UNCHANGED <<self, world, kicks, script, hist>>

-----------------------------------------------------------------------------
(* Stops.                                                                  *)

\* pt_stop up to its service loop: the stop's fields, then the state.
Publish(t, l, stop) ==
    links' = [links EXCEPT ![l].stop = stop, ![l].reported = FALSE,
                           ![l].state = "stopped"]
Park(t, l, next, more) ==
    /\ v' = [v EXCEPT ![t].seen = links[l].cmd_seq, ![t].next = next,
                      ![t].stops = more]
    /\ Go(t, "park")
pt_stop(t, stop, next) ==
    Publish(t, self[t].link, stop) /\ Park(t, self[t].link, next, <<>>)

\* pt_self_detach: the record and the link go, and the tracing with them.
Detached(s) == [s EXCEPT !.link = 0, !.active = FALSE, !.armed = FALSE,
                         !.step = FALSE, !.skip_exit_stop = FALSE]

\* The stop is over: the next one a kick asked for, if this task is still
\* the same link's, or back to where the stop was taken.
pt_stop_over(t) ==
    LET w == v[t] IN
    /\ At(t, "over")
    /\ IF w.stops # <<>> /\ self[t].active
       THEN /\ Publish(t, self[t].link, Head(w.stops))
            /\ Park(t, self[t].link, w.next, Tail(w.stops))
       ELSE /\ v' = [v EXCEPT ![t].stops = <<>>]
            /\ Go(t, w.next)
            /\ UNCHANGED links
    /\ UNCHANGED <<self, world, kicks, script, hist>>

\* pt_service_loop, a command: what it does to the link and the task, before
\* the answer is counted.  A data command leaves its answer in the mailbox.
pt_serve(t) ==
    LET e == self[t].link c == links[e].cmd IN
    /\ At(t, "park") /\ e # 0 /\ links[e].cmd_seq # v[t].seen
    /\ v' = [v EXCEPT ![t].seen = links[e].cmd_seq, ![t].e = e,
                      ![t].sig = c.sig]
    /\ CASE c.op = "resume" ->
              /\ self' = [self EXCEPT ![t].armed = (c.arg = "syscall"),
                                      ![t].step = (c.arg = "step")]
              /\ links' = [links EXCEPT ![e].result = c, ![e].state = "running"]
              /\ pair' = [pair EXCEPT ![t] = IF c.arg = "syscall" THEN @ ELSE "out"]
              /\ Go(t, "ack_leave")
         [] c.op = "detach" ->
              /\ self' = [self EXCEPT ![t] = Detached(@)]
              /\ links' = [links EXCEPT ![e] = Freed([@ EXCEPT
                                     !.result = c, !.state = "running"])]
              /\ pair' = [pair EXCEPT ![t] = "out"]
              /\ Go(t, "ack_leave")
         [] OTHER ->
              /\ links' = [links EXCEPT ![e].result = c]
              /\ Go(t, "ack")
              /\ UNCHANGED <<self, pair>>
    /\ UNCHANGED <<world, kicks, script, fate, told, mine>>

\* ...and the answer counted, in the link the task came with.
pt_serve_ack(t) ==
    /\ At(t, "ack") \/ At(t, "ack_leave")
    /\ links' = [links EXCEPT ![v[t].e].done_seq = @ + 1]
    /\ Go(t, IF pc[t] = "ack" THEN "park" ELSE "over")
    /\ UNCHANGED <<self, world, kicks, v, script, hist>>

\* Mutant: only a link without a tracer is let go.
Deserted_none(e) == links[e].tracer = NONE

Deserted(e) == links[e].tracer = NONE \/ ~Live(links[e].tracer)

\* The 500 ms look: a tracer that died leaves its tracees to themselves,
\* or takes them with it under PTRACE_O_EXITKILL (which exits, not reports).
pt_tracer_gone(t) ==
    LET e == self[t].link IN
    /\ At(t, "park") /\ e # 0 /\ links[e].cmd_seq = v[t].seen
    /\ Deserted(e)
    /\ self' = [self EXCEPT ![t] = Detached(@)]
    /\ links' = [links EXCEPT ![e] = Freed([@ EXCEPT !.state = "running"])]
    /\ v' = [v EXCEPT ![t].sig = "", ![t].code = "exit"]
    /\ Go(t, IF "exitkill" \in links[e].options THEN "dead" ELSE "over")
    /\ fate' = [fate EXCEPT ![t] = IF "exitkill" \in links[e].options
                                   THEN "exit" ELSE @]
    /\ pair' = [pair EXCEPT ![t] = "out"]
    /\ UNCHANGED <<world, kicks, script, told, mine>>

-----------------------------------------------------------------------------
(* What a tracee reports.                                                  *)

Options(t) == links[self[t].link].options

\* cng_pt_syscall_entry: a tracee's call begins.  Only one whose entry stop
\* is reported owes an exit stop.
cng_pt_syscall_entry(t) ==
    /\ Free(t) /\ self[t].active
    /\ Op(t).op \notin {"run", "signal"}
    /\ self' = [self EXCEPT ![t].entry_seen = self[t].armed]
    /\ IF self[t].armed
       THEN /\ pt_stop(t, Stop("trap", "", "entry"), "body")
            /\ pair' = [pair EXCEPT ![t] = IF @ = "out" THEN "in" ELSE "broken"]
       ELSE Go(t, "body") /\ UNCHANGED <<links, v, pair>>
    /\ UNCHANGED <<world, kicks, script, fate, told, mine>>

\* Mutant: a call that had no entry stop has an exit stop.
OwesExit_any(s) == s.active /\ s.armed

OwesExit(s) == s.active /\ s.armed /\ s.entry_seen

\* cng_pt_syscall_exit, and cng_pt_step_report behind it ("ret").
cng_pt_syscall_exit(t) ==
    LET s == self[t] IN
    /\ At(t, "exit")
    /\ IF OwesExit(s)
       THEN /\ self' = [self EXCEPT ![t].entry_seen = FALSE,
                                    ![t].skip_exit_stop = FALSE]
            /\ IF s.skip_exit_stop
               THEN Go(t, "ret") /\ UNCHANGED <<links, v, pair>>
               ELSE /\ pt_stop(t, Stop("trap", "", "exit"), "ret")
                    /\ pair' = [pair EXCEPT ![t] = IF @ = "in" THEN "out"
                                                   ELSE "broken"]
       ELSE Go(t, "ret") /\ UNCHANGED <<links, self, v, pair>>
    /\ UNCHANGED <<world, kicks, script, fate, told, mine>>

cng_pt_step_report(t) ==
    /\ At(t, "ret")
    /\ IF self[t].active /\ self[t].step
       THEN pt_stop(t, Stop("trap", "", ""), "guest")
       ELSE Go(t, "guest") /\ UNCHANGED <<links, v>>
    /\ UNCHANGED <<self, world, kicks, script, hist>>

\* An instruction of the guest's own, the breakpoint of a step behind it.
run(t) ==
    /\ Free(t) /\ Op(t).op = "run"
    /\ script' = [script EXCEPT ![t] = Tail(@)]
    /\ Go(t, "ret")
    /\ UNCHANGED <<links, self, world, kicks, v, hist>>

\* cng_pt_report_signal: a signal for the task, shown to its tracer first.
cng_pt_report_signal(t) ==
    /\ Free(t) /\ Op(t).op = "signal"
    /\ script' = [script EXCEPT ![t] = Tail(@)]
    /\ IF self[t].active
       THEN pt_stop(t, Stop(Op(t).arg, "", ""), "deliver")
       ELSE /\ v' = [v EXCEPT ![t].sig = Op(t).arg]
            /\ Go(t, "deliver")
            /\ UNCHANGED links
    /\ UNCHANGED <<self, world, kicks, hist>>

\* ...and what the tracer left of it is delivered: nothing, the guest's
\* handler, or the death of the process (die_by_signal reports it first).
deliver(t) ==
    /\ At(t, "deliver")
    /\ v' = [v EXCEPT ![t].sig = "", ![t].code = "sig"]
    /\ Go(t, IF v[t].sig = "term" THEN "dying" ELSE "guest")
    /\ UNCHANGED <<links, self, world, kicks, script, hist>>

\* cng_pt_report_exec: an exec's own stop, in place of its exit stop.
exec(t) ==
    /\ Calls(t, "exec")
    /\ script' = [script EXCEPT ![t] = Tail(@)]
    /\ IF self[t].active
       THEN /\ self' = [self EXCEPT ![t].armed = FALSE, ![t].step = FALSE]
            /\ pt_stop(t, Stop("trap", IF "exec" \in Options(t) THEN "exec"
                                       ELSE "", ""), "guest")
            /\ pair' = [pair EXCEPT ![t] = "out"]
       ELSE Go(t, "guest") /\ UNCHANGED <<links, self, v, pair>>
    /\ UNCHANGED <<world, kicks, fate, told, mine>>

\* Any other call: nothing the registry can see.
call(t) ==
    /\ Calls(t, "call")
    /\ Done(t)
    /\ UNCHANGED <<links, self, world, kicks, v, hist>>

\* exit and exit_group: PTRACE_EVENT_EXIT if asked for, then the report.
exit(t) ==
    /\ Calls(t, "exit")
    /\ script' = [script EXCEPT ![t] = <<>>]
    /\ IF self[t].active /\ "exit" \in Options(t)
       THEN /\ Publish(t, self[t].link, Stop("trap", "exit", ""))
            /\ v' = [v EXCEPT ![t].seen = links[self[t].link].cmd_seq,
                              ![t].next = "dying", ![t].code = "exit"]
            /\ Go(t, "park")
       ELSE /\ v' = [v EXCEPT ![t].code = "exit"]
            /\ Go(t, "dying")
            /\ UNCHANGED links
    /\ UNCHANGED <<self, world, kicks, hist>>

\* cng_pt_exit_report: a synthetic exit for a tracer that cannot reap this
\* death itself, or the link dropped for one that can.
cng_pt_exit_report(t) ==
    LET e == self[t].link IN
    /\ At(t, "dying")
    /\ self' = [self EXCEPT ![t] = Detached(@)]
    /\ fate' = [fate EXCEPT ![t] = v[t].code]
    /\ IF e = 0
       THEN UNCHANGED links
       ELSE IF links[e].tracer # NONE
                 /\ (prog.tgid[t] # t \/ links[e].tracer # parent[t])
            THEN links' = [links EXCEPT ![e].exit = v[t].code,
                                        ![e].state = "exited"]
            ELSE links' = [links EXCEPT ![e] = Freed(@)]
    /\ Go(t, "dead")
    /\ UNCHANGED <<world, kicks, v, script, told, mine, pair>>

\* The kernel's part of the deaths of S: zombies for parents that live to
\* reap them, children of the dead left to init.
Die(S) ==
    LET alive(x) == x # NONE /\ life[x] = "live" /\ x \notin S
        keeps(x) == alive(parent[x]) /\ prog.tgid[x] = x IN
    /\ life' = [x \in Tasks |->
                  IF x \in S \/ life[x] = "zombie"
                  THEN IF keeps(x) THEN "zombie" ELSE "gone"
                  ELSE life[x]]
    /\ parent' = [x \in Tasks |-> IF parent[x] \in S THEN NONE ELSE parent[x]]
    /\ kicks' = [x \in Tasks |-> IF x \in S THEN {} ELSE kicks[x]]

dead(t) ==
    /\ At(t, "dead")
    /\ Die({t})
    /\ UNCHANGED <<links, self, pc, v, script, prog, hist>>

\* SIGKILL takes the thread group, and none of it reports anything.
Group(t) == {x \in Tasks : prog.tgid[x] = prog.tgid[t] /\ life[x] = "live"}
Killed(t) ==
    /\ Die(Group(t))
    /\ fate' = [x \in Tasks |-> IF x \in Group(t) /\ fate[x] = "" THEN "killed"
                                ELSE fate[x]]
sigkill(t) ==
    /\ Live(t) /\ t \in prog.mortal
    /\ Killed(t)
    /\ UNCHANGED <<links, self, pc, v, script, prog, told, mine, pair>>

-----------------------------------------------------------------------------
(* A fork: cng_clone_convert's calls into ptrace.c.                        *)

\* cng_pt_clone_event decides whether the child is followed and what it
\* inherits; then the clone.  Both sides run with every signal but SIGSYS
\* blocked until their hooks are done.
fork(t) ==
    LET c == Op(t).who
        ev == IF self[t].active /\ Op(t).arg \in Options(t) THEN Op(t).arg ELSE ""
        l == links[self[t].link]
        heir == IF ev = "" THEN v[t].inherit
                ELSE [tracer |-> l.tracer, options |-> l.options,
                      seize |-> l.seize] IN
    /\ Calls(t, "fork") /\ life[c] = "unborn"
    /\ life' = [life EXCEPT ![c] = "live"]
    /\ parent' = [parent EXCEPT ![c] = t]
    /\ v' = [v EXCEPT ![t].ev = ev, ![t].inherit = heir,
                      ![c].ev = ev, ![c].inherit = heir,
                      ![c].owed = self[t].entry_seen]
    /\ pc' = [pc EXCEPT ![t] = "forked", ![c] = "hooks"]
    /\ UNCHANGED <<links, self, kicks, script, prog, hist>>

\* A SIGSYS of the session's taken inside the window is dropped at its end;
\* its sender sends it again.
Unmask(c) == kicks' = [kicks EXCEPT ![c] = @ \ {"sys"}]

\* cng_pt_fork_child: the per-task table came across describing the parent's
\* threads.  A followed child claims its own link.
cng_pt_fork_child(c) ==
    /\ At(c, "hooks")
    /\ IF v[c].ev = "" \/ v[c].inherit.tracer = NONE
       THEN Go(c, "guest") /\ Unmask(c) /\ UNCHANGED v
       ELSE Claim(c, c, "followed") /\ UNCHANGED kicks
    /\ UNCHANGED <<links, self, world, script, hist>>

\* ...names its parent's tracer in it, and takes the attach stop.
followed(c) ==
    LET e == v[c].e h == v[c].inherit IN
    /\ At(c, "followed")
    /\ IF e = 0
       THEN /\ Go(c, "guest") /\ Unmask(c)
            /\ UNCHANGED <<links, self, v>>
       ELSE /\ links' = [links EXCEPT
                 ![e] = [@ EXCEPT !.options = h.options, !.seize = h.seize,
                           !.tracer = h.tracer, !.reported = FALSE,
                           !.state = "stopped",
                           !.stop = IF h.seize THEN Stop("trap", "stop", "")
                                               ELSE Stop("stop", "", "")]]
            /\ self' = [self EXCEPT ![c].link = e, ![c].active = TRUE]
            /\ Park(c, e, "born", <<>>)
            /\ UNCHANGED kicks
    /\ UNCHANGED <<world, script, hist>>

\* The child returns from the clone it was born from, whose exit stop it is
\* to skip.  On the rewritten tier the call's record says whether an exit
\* stop is owed, and came across the fork; the handler's tier keeps it in
\* the per-task record, which did not.
born(c) ==
    /\ At(c, "born")
    /\ self' = [self EXCEPT ![c].skip_exit_stop = self[c].armed,
                            ![c].entry_seen = prog.rewrite /\ v[c].owed]
    /\ Unmask(c)
    /\ Go(c, "exit")
    /\ UNCHANGED <<links, world, v, script, hist>>

\* cng_pt_report_event in the parent: the child's link first, so that a
\* tracer that waits for it at once finds one.
forked(t) ==
    /\ At(t, "forked")
    /\ IF v[t].ev = ""
       THEN Go(t, "vfork_done") /\ UNCHANGED v
       ELSE Claim(t, Op(t).who, "event")
    /\ UNCHANGED <<links, self, world, kicks, script, hist>>

pt_child_claim(t) ==
    LET e == v[t].e p == self[t].link
        child == IF e = 0 THEN links
                 ELSE [links EXCEPT ![e] = [@ EXCEPT
                         !.options = links[p].options, !.seize = links[p].seize,
                         !.tracer = IF @ = NONE THEN links[p].tracer ELSE @]] IN
    /\ At(t, "event")
    /\ links' = [child EXCEPT ![p].stop = Stop("trap", v[t].ev, ""),
                              ![p].reported = FALSE, ![p].state = "stopped"]
    /\ Park(t, p, "vfork_done", <<>>)
    /\ UNCHANGED <<self, world, kicks, script, hist>>

vfork_done(t) ==
    /\ At(t, "vfork_done")
    /\ script' = [script EXCEPT ![t] = Tail(@)]
    /\ IF Op(t).arg = "vfork" /\ self[t].active /\ "vforkdone" \in Options(t)
       THEN pt_stop(t, Stop("trap", "vforkdone", ""), "exit")
       ELSE Go(t, IF self[t].active THEN "exit" ELSE "guest")
            /\ UNCHANGED <<links, v>>
    /\ UNCHANGED <<self, world, kicks, hist>>

-----------------------------------------------------------------------------
(* Kicks.                                                                  *)

\* pt_kick_attach: the kick, and the SIGSYS when the task holds it blocked,
\* by its own mask or by being in a handler of ours.
Kicked(t) == IF t \in prog.blocks \/ pc[t] # "guest" THEN {"kick", "sys"}
                                                     ELSE {"kick"}
Kick(t) == kicks' = [kicks EXCEPT ![t] = @ \cup IF Live(t) THEN Kicked(t) ELSE {}]

\* cng_pt_service_kick: adopt a pending attach, then the stops asked for.
cng_pt_service_kick(t) ==
    LET s == self[t]
        e == IF s.active THEN s.link ELSE pt_find(t)
        adopt == ~s.active /\ e # 0 /\ links[e].tracer # NONE /\ links[e].attach
        whole == s.active \/ (adopt /\ links[e].seize)
        stops == IF ~s.active /\ ~adopt THEN <<>>
                 ELSE IF ~whole THEN <<Stop("stop", "", "")>>
                 ELSE (IF links[e].interrupt THEN <<Stop("trap", "stop", "")>>
                                             ELSE <<>>)
                   \o (IF links[e].stopsig
                       THEN <<Stop("stop", IF links[e].seize THEN "stop" ELSE "", "")>>
                       ELSE <<>>)
        taken == IF ~s.active /\ ~adopt THEN links
                 ELSE [links EXCEPT ![e] = [@ EXCEPT
                         !.attach = IF adopt THEN FALSE ELSE @,
                         !.interrupt = IF whole THEN FALSE ELSE @,
                         !.stopsig = IF whole THEN FALSE ELSE @]] IN
    /\ At(t, "guest")
    /\ \E k \in kicks[t] : /\ k = "sys" \/ t \notin prog.blocks
                           /\ kicks' = [kicks EXCEPT ![t] = @ \ {k}]
    /\ self' = [self EXCEPT ![t] = IF adopt
                                   THEN [@ EXCEPT !.link = e, !.active = TRUE]
                                   ELSE @]
    /\ IF stops = <<>>
       THEN links' = taken /\ UNCHANGED <<pc, v>>
       ELSE /\ links' = [taken EXCEPT ![e].stop = Head(stops),
                              ![e].reported = FALSE, ![e].state = "stopped"]
            /\ Park(t, e, "guest", Tail(stops))
    /\ UNCHANGED <<world, script, hist>>

\* Taken inside a stop, it finds nothing it may do: no stop inside a stop.
kick_in_stop(t) ==
    /\ At(t, "park")
    /\ \E k \in kicks[t] :
          /\ k = "sys" \/ (v[t].next = "deliver" /\ t \notin prog.blocks)
          /\ kicks' = [kicks EXCEPT ![t] = @ \ {k}]
    /\ UNCHANGED <<links, self, world, pc, v, script, hist>>

-----------------------------------------------------------------------------
(* The tracer's requests: cng_pt_syscall.                                  *)

Target(t) == IF Op(t).who = NONE THEN v[t].last ELSE Op(t).who
Mine(t, w) == pt_find(w) # 0 /\ links[pt_find(w)].tracer = t
Refused(t) ==
    /\ Done(t)
    /\ mine' = [mine EXCEPT ![t] = @ \ {Target(t)}]

\* pt_traceme: the parent traces us from here on.
traceme(t) ==
    /\ Calls(t, "traceme")
    /\ IF self[t].link # 0 THEN Done(t) /\ UNCHANGED v
                           ELSE Claim(t, t, "traceme") /\ UNCHANGED script
    /\ UNCHANGED <<links, self, world, kicks, hist>>

traceme_claimed(t) ==
    LET e == v[t].e IN
    /\ At(t, "traceme")
    /\ IF e = 0 THEN UNCHANGED <<links, self>>
       ELSE /\ links' = [links EXCEPT ![e].tracer = parent[t]]
            /\ self' = [self EXCEPT ![t].link = e, ![t].active = TRUE]
    /\ script' = [script EXCEPT ![t] = Tail(@)]
    /\ Go(t, "guest")
    /\ UNCHANGED <<world, kicks, v, hist>>

\* PTRACE_ATTACH and SEIZE of a live guest task, not of our own group.
attach(t) ==
    LET w == Target(t) IN
    /\ Calls(t, "attach")
    /\ IF Live(prog.tgid[w]) /\ prog.tgid[w] # prog.tgid[t]
       THEN Claim(t, w, "attach") /\ UNCHANGED script
       ELSE Done(t) /\ UNCHANGED v
    /\ UNCHANGED <<links, self, world, kicks, hist>>



Untraced(e) == e # 0 /\ links[e].tracer = NONE

attach_claimed(t) ==
    LET e == v[t].e IN
    /\ At(t, "attach")
    /\ IF Untraced(e)
       THEN /\ links' = [links EXCEPT ![e].tracer = t]
            /\ Go(t, "attach_kick")
            /\ UNCHANGED script
       ELSE Done(t) /\ UNCHANGED links
    /\ UNCHANGED <<self, world, kicks, v, hist>>

attach_kick(t) ==
    LET e == v[t].e seize == Op(t).arg = "seize" IN
    /\ At(t, "attach_kick")
    /\ links' = [links EXCEPT ![e].seize = seize, ![e].attach = TRUE,
                              ![e].options = IF seize THEN Op(t).opts ELSE {}]
    /\ Kick(Target(t))
    /\ mine' = [mine EXCEPT ![t] = @ \cup {Target(t)}]
    /\ v' = [v EXCEPT ![t].last = Target(t)]
    /\ Done(t)
    /\ UNCHANGED <<self, world, fate, told, pair>>

\* PTRACE_INTERRUPT: nothing to do for a task already stopped.
interrupt(t) ==
    LET w == Target(t) e == pt_find(w) IN
    /\ Calls(t, "interrupt")
    /\ IF ~Mine(t, w) THEN Refused(t) /\ UNCHANGED <<links, kicks>>
       ELSE /\ IF links[e].state = "stopped" THEN UNCHANGED <<links, kicks>>
               ELSE /\ links' = [links EXCEPT ![e].interrupt = TRUE]
                    /\ Kick(w)
            /\ Done(t) /\ UNCHANGED mine
    /\ UNCHANGED <<self, world, v, fate, told, pair>>

\* PTRACE_KILL is a SIGKILL, in any state.
ptrace_kill(t) ==
    /\ Calls(t, "kill9")
    /\ IF Mine(t, Target(t)) /\ Live(Target(t))
       THEN Killed(Target(t)) /\ UNCHANGED mine /\ Done(t)
       ELSE Refused(t) /\ UNCHANGED <<life, parent, kicks, fate>>
    /\ UNCHANGED <<links, self, prog, v, told, pair>>

\* The requests a tracee must be parked for: the ones answered from the
\* link, and the ones posted to its mailbox (pt_cmd).
Parked(t, w, op) ==
    /\ Mine(t, w)
    /\ links[pt_find(w)].state = "stopped"
    /\ links[pt_find(w)].listening => op \in {"resume", "detach", "listen"}

setoptions(t) ==
    LET w == Target(t) e == pt_find(w) IN
    /\ Calls(t, "setoptions")
    /\ IF Parked(t, w, "setoptions")
       THEN /\ links' = [links EXCEPT ![e].options = Op(t).opts]
            /\ Done(t) /\ UNCHANGED mine
       ELSE Refused(t) /\ UNCHANGED links
    /\ UNCHANGED <<self, world, kicks, v, fate, told, pair>>

\* PTRACE_LISTEN: for a seized task in a group stop only.
listen(t) ==
    LET w == Target(t) e == pt_find(w) IN
    /\ Calls(t, "listen")
    /\ IF Parked(t, w, "listen")
       THEN /\ links' = IF links[e].seize /\ links[e].stop.ev = "stop"
                        THEN [links EXCEPT ![e].listening = TRUE] ELSE links
            /\ Done(t) /\ UNCHANGED mine
       ELSE Refused(t) /\ UNCHANGED links
    /\ UNCHANGED <<self, world, kicks, v, fate, told, pair>>

\* pt_cmd: the command, then its number.  process_vm_readv ("readv") finds
\* the link and its state once and posts a command for each piece.
Data == {"peek", "readv"}
Post(t, e) ==
    /\ links' = [links EXCEPT
         ![e].cmd = [by |-> t, n |-> v[t].n + 1, op |-> Op(t).op,
                     arg |-> Op(t).arg, sig |-> Op(t).sig],
         ![e].cmd_seq = @ + 1,
         ![e].listening = IF Op(t).op \in Data THEN @ ELSE FALSE]
    /\ v' = [v EXCEPT ![t].e = e, ![t].d = links[e].done_seq, ![t].n = @ + 1,
                      ![t].left = IF pc[t] = "cmd" THEN @ - 1 ELSE PIECES]

pt_cmd(t) ==
    LET w == Target(t) o == Op(t).op IN
    /\ \E op \in Data \cup {"resume", "detach"} : Calls(t, op)
    /\ IF Parked(t, w, o)
       THEN /\ Post(t, pt_find(w))
            /\ mine' = [mine EXCEPT ![t] = IF o = "detach" THEN @ \ {w} ELSE @]
            /\ Go(t, "cmd")
            /\ UNCHANGED script
       ELSE Refused(t) /\ UNCHANGED <<links, v>>
    /\ UNCHANGED <<self, world, kicks, fate, told, pair>>


Answered(t) == links[v[t].e].done_seq # v[t].d

\* ...and waits for done_seq to move, or for the tracee to vanish.  Only a
\* data command's answer is looked at.
pt_cmd_wait(t) ==
    LET l == links[v[t].e] IN
    /\ At(t, "cmd")
    /\ Answered(t) /\ (Op(t).op = "readv" => v[t].left = 0)
    /\ v' = [v EXCEPT ![t].from = IF Op(t).op \in Data THEN l.result ELSE @,
                      ![t].asked = IF Op(t).op \in Data THEN v[t].n ELSE @]
    /\ Done(t)
    /\ UNCHANGED <<links, self, world, kicks, hist>>

pt_cmd_gone(t) ==
    LET l == links[v[t].e] gone == [NoCmd EXCEPT !.op = "ESRCH"] IN
    /\ At(t, "cmd")
    /\ ~Answered(t)
    /\ l.tracee = NONE \/ l.claiming \/ l.state = "exited"
    /\ links' = [links EXCEPT ![v[t].e].result = gone]
    /\ v' = [v EXCEPT ![t].from = gone]
    /\ Done(t)
    /\ UNCHANGED <<self, world, kicks, hist>>

cng_pt_vm_rw(t) ==
    /\ At(t, "cmd") /\ Op(t).op = "readv"
    /\ Answered(t) /\ v[t].left > 0
    /\ Post(t, v[t].e)
    /\ UNCHANGED <<self, world, kicks, pc, script, hist>>

-----------------------------------------------------------------------------
(* The tracer's waits: cng_pt_wait4 and cng_pt_waitid ("id" in the options). *)

Waits(t, l) == At(t, l) /\ Op(t).op = "wait"
Id(t) == "id" \in Op(t).opts
WantStops(t) == Id(t) => "stops" \in Op(t).opts
WantExits(t) == Id(t) => "exits" \in Op(t).opts
For(t, w) == Op(t).who \in {NONE, w}
OurTracee(t, i) == Held(i) /\ links[i].tracer = t /\ For(t, links[i].tracee)

wait(t) ==
    /\ Calls(t, "wait")
    /\ v' = [v EXCEPT ![t].i = 1]
    /\ Go(t, "collect")
    /\ UNCHANGED <<links, self, world, kicks, script, hist>>

\* A death t's wait reports: of whom, how it was told, and whether the task
\* had taken the attach by then.
Tell(t, w, how, adopted) ==
    /\ told' = [told EXCEPT ![t][w] = Append(@, <<how, adopted>>)]
    /\ mine' = [mine EXCEPT ![t] = @ \ {w}]

\* pt_collect, a slot: a published exit, or a stop no wait has consumed.
pt_collect(t) ==
    LET i == v[t].i l == links[i] peek == "peek" \in Op(t).opts
        exit_here == OurTracee(t, i) /\ l.state = "exited" /\ WantExits(t)
        stop_here == /\ OurTracee(t, i) /\ l.state = "stopped" /\ WantStops(t)
                     /\ ~l.reported /\ ~l.listening IN
    /\ Waits(t, "collect")
    /\ IF exit_here
       THEN /\ IF peek THEN UNCHANGED <<links, told, mine>>
               ELSE /\ links' = [links EXCEPT ![i] = Freed(@)]
                    /\ Tell(t, l.tracee, l.exit, TRUE)
            /\ v' = [v EXCEPT ![t].last = l.tracee]
            /\ Done(t)
       ELSE IF stop_here
       THEN /\ links' = [links EXCEPT ![i].reported = ~peek]
            /\ v' = [v EXCEPT ![t].last = l.tracee]
            /\ Done(t)
            /\ UNCHANGED <<told, mine>>
       ELSE /\ IF i < PT_MAX
               THEN v' = [v EXCEPT ![t].i = i + 1] /\ UNCHANGED pc
               ELSE Go(t, "host") /\ UNCHANGED v
            /\ UNCHANGED <<links, script, told, mine>>
    /\ UNCHANGED <<self, world, kicks, fate, pair>>

\* The host's own wait, never blocking: a zombie child, or nothing yet, or
\* no child at all - which is no answer while the registry has a tracee.
Child(t, w) == parent[w] = t /\ prog.tgid[w] = w /\ For(t, w)
host_wait(t) ==
    LET Z == {w \in Tasks : Child(t, w) /\ life[w] = "zombie"}
        kin == \E w \in Tasks : Child(t, w) /\ life[w] \in {"live", "zombie"}
        ours == \E i \in Slots : OurTracee(t, i) IN
    /\ Waits(t, "host")
    /\ IF Z # {} /\ WantExits(t)
       THEN \E w \in Z :
              /\ v' = [v EXCEPT ![t].last = w]
              /\ IF "peek" \in Op(t).opts THEN UNCHANGED <<life, told, mine>>
                 ELSE /\ life' = [life EXCEPT ![w] = "gone"]
                      /\ Tell(t, w, fate[w], TRUE)
              /\ IF Id(t) THEN Done(t) ELSE Go(t, "reaped") /\ UNCHANGED script
       ELSE /\ IF (~kin /\ ~ours) \/ "nohang" \in Op(t).opts
               THEN Done(t) /\ UNCHANGED v
               ELSE /\ v' = [v EXCEPT ![t].i = 1]
                    /\ Go(t, IF Id(t) THEN "sleep" ELSE "reap")
                    /\ UNCHANGED script
            /\ UNCHANGED <<life, told, mine>>
    /\ UNCHANGED <<links, self, parent, prog, kicks, fate, pair>>

\* cng_pt_note_reaped: the host's wait took a tracee of ours.
cng_pt_note_reaped(t) ==
    LET e == pt_find(v[t].last) IN
    /\ Waits(t, "reaped")
    /\ links' = IF e # 0 /\ links[e].tracer = t
                THEN [links EXCEPT ![e] = Freed(@)] ELSE links
    /\ Done(t)
    /\ UNCHANGED <<self, world, kicks, v, hist>>

Unreported(t, i) == OurTracee(t, i) /\ links[i].state = "running"

\* pt_reap_dead, a slot: a running tracee to ask /proc about...
pt_reap_look(t) ==
    LET i == v[t].i IN
    /\ Waits(t, "reap")
    /\ IF Unreported(t, i)
       THEN v' = [v EXCEPT ![t].tid = links[i].tracee] /\ Go(t, "ask")
       ELSE IF i < PT_MAX THEN v' = [v EXCEPT ![t].i = i + 1] /\ UNCHANGED pc
                          ELSE Go(t, "sleep") /\ UNCHANGED v
    /\ UNCHANGED <<links, self, world, kicks, script, hist>>

\* Mutant: the transition is assumed.
StillRunning_any(i) == TRUE

StillRunning(i) == links[i].state = "running"

\* ...and a dead one, no child of ours, whose link says nothing of it: the
\* transition is claimed, and the death told as a SIGKILL.
pt_reap_dead(t) ==
    LET i == v[t].i w == v[t].tid IN
    /\ Waits(t, "ask")
    /\ IF /\ life[w] \in {"zombie", "gone"}
          /\ ~(parent[w] = t /\ life[w] = "zombie")
          /\ StillRunning(i)
       THEN /\ links' = [links EXCEPT ![i] = Freed([@ EXCEPT !.state = "exited"])]
            /\ Tell(t, w, "killed", ~links[i].attach)
            /\ v' = [v EXCEPT ![t].last = w]
            /\ Done(t)
       ELSE /\ IF i < PT_MAX
               THEN v' = [v EXCEPT ![t].i = i + 1] /\ Go(t, "reap")
               ELSE Go(t, "sleep") /\ UNCHANGED v
            /\ UNCHANGED <<links, script, told, mine>>
    /\ UNCHANGED <<self, world, kicks, fate, pair>>

\* Mutant: a kick is sent once.
Rekicked_once(t) == {}

\* The tasks requests of t's are outstanding at that hold the kick blocked.
Rekicked(t) ==
    {w \in Tasks :
       /\ Live(w) /\ (w \in prog.blocks \/ pc[w] # "guest")
       /\ \E i \in Slots :
            /\ Held(i) /\ links[i].tracer = t /\ links[i].tracee = w
            /\ links[i].attach \/ links[i].interrupt \/ links[i].stopsig}

\* The end of a turn: a kick that waits for this task itself has the call
\* made again from its svc; requests still outstanding are sent again to
\* tasks that hold the kick blocked (pt_rekick_blocked).
wait_turn(t) ==
    /\ Waits(t, "sleep")
    /\ IF kicks[t] # {} /\ t \notin prog.blocks
       THEN Go(t, IF self[t].active THEN "exit" ELSE "guest")
            /\ UNCHANGED <<v, kicks>>
       ELSE /\ kicks' = [w \in Tasks |-> IF w \in Rekicked(t)
                                       THEN kicks[w] \cup {"sys"} ELSE kicks[w]]
            /\ v' = [v EXCEPT ![t].i = 1]
            /\ Go(t, "collect")
    /\ UNCHANGED <<links, self, world, script, hist>>

-----------------------------------------------------------------------------
(* cng_pt_signal_route: stop signals and SIGCONT aimed at a tracee's group. *)

Routed(w) ==
    {i \in Slots : /\ Held(i) /\ links[i].tracer # NONE
                   /\ links[i].state # "exited"
                   /\ prog.tgid[links[i].tracee] = prog.tgid[w]}

route_stop(t) ==
    LET R == Routed(Op(t).who) IN
    /\ Calls(t, "kill") /\ Op(t).arg = "stop"
    /\ links' = [i \in Slots |-> IF i \in R
                                 THEN [links[i] EXCEPT !.stopsig = TRUE]
                                 ELSE links[i]]
    /\ kicks' = [w \in Tasks |->
                   IF Live(w) /\ w \in {links[i].tracee : i \in R}
                   THEN kicks[w] \cup Kicked(w) ELSE kicks[w]]
    /\ Done(t)
    /\ UNCHANGED <<self, world, v, hist>>

\* SIGCONT ends a LISTEN, then gives the tracer a fresh event stop.
route_cont(t) ==
    LET R == {i \in Routed(Op(t).who) : links[i].listening} IN
    /\ Calls(t, "kill") /\ Op(t).arg = "cont"
    /\ IF R = {} THEN Done(t) /\ UNCHANGED <<links, v>>
       ELSE \E i \in R : /\ links' = [links EXCEPT ![i].listening = FALSE]
                         /\ v' = [v EXCEPT ![t].e = i]
                         /\ Go(t, "cont") /\ UNCHANGED script
    /\ UNCHANGED <<self, world, kicks, hist>>

route_event(t) ==
    /\ At(t, "cont")
    /\ links' = [links EXCEPT ![v[t].e].stop = Stop("trap", "stop", ""),
                              ![v[t].e].reported = FALSE]
    /\ Done(t)
    /\ UNCHANGED <<self, world, kicks, v, hist>>

-----------------------------------------------------------------------------
Claims(t) == \/ pt_claim_scan(t) \/ pt_claim_cas(t)
             \/ pt_claim_fill(t) \/ pt_claim_below(t)

Stops(t) == \/ pt_stop_over(t) \/ pt_serve(t) \/ pt_serve_ack(t)
            \/ pt_tracer_gone(t)
            \/ cng_pt_service_kick(t) \/ kick_in_stop(t)

Guest(t) == \/ cng_pt_syscall_entry(t) \/ cng_pt_syscall_exit(t)
            \/ cng_pt_step_report(t) \/ run(t)
            \/ cng_pt_report_signal(t) \/ deliver(t)
            \/ exec(t) \/ call(t) \/ exit(t) \/ cng_pt_exit_report(t) \/ dead(t)
            \/ fork(t) \/ cng_pt_fork_child(t) \/ followed(t) \/ born(t)
            \/ forked(t) \/ pt_child_claim(t) \/ vfork_done(t)

Requests(t) == \/ traceme(t) \/ traceme_claimed(t)
               \/ attach(t) \/ attach_claimed(t) \/ attach_kick(t)
               \/ interrupt(t) \/ ptrace_kill(t) \/ setoptions(t) \/ listen(t)
               \/ pt_cmd(t) \/ pt_cmd_wait(t) \/ pt_cmd_gone(t) \/ cng_pt_vm_rw(t)
               \/ route_stop(t) \/ route_cont(t) \/ route_event(t)

Waiting(t) == \/ wait(t) \/ pt_collect(t) \/ host_wait(t)
              \/ cng_pt_note_reaped(t) \/ pt_reap_look(t) \/ pt_reap_dead(t)
              \/ wait_turn(t)

Step(t) == Claims(t) \/ Stops(t) \/ Guest(t) \/ Requests(t) \/ Waiting(t)
Next == \E t \in Tasks : Step(t) \/ sigkill(t)

Spec == Init /\ [][Next]_vars
\* Every live task is scheduled; nobody is owed a SIGKILL.
FairSpec == Spec /\ \A t \in Tasks : WF_vars(Step(t))

-----------------------------------------------------------------------------
(* Properties.                                                             *)

\* The registry is well formed: a task's own link is one that names it, and
\* a stopped link's task is parked in it unless it was killed there.
TypeOK ==
    \A t \in Tasks :
      LET e == self[t].link IN
      Live(t) /\ e # 0 =>
        /\ links[e].tracee = t /\ ~links[e].claiming
        /\ self[t].active
        /\ links[e].state = "stopped" <=> pc[t] \in {"park", "ack"}


\* A wait tells each death once, and as it was: what pt_reap_dead invents
\* for a task that vanished is never told of a tracee that exited by itself.
DeathsTrue ==
    \A x, t \in Tasks :
      /\ Len(told[x][t]) <= 1
      /\ told[x][t] # <<>> /\ told[x][t][1][2] => told[x][t][1][1] = fate[t]

\* An exit stop is reported for a syscall whose entry stop was, and an entry
\* stop resumed with PTRACE_SYSCALL has its exit stop before the next entry.
Paired == \A t \in Tasks : pair[t] # "broken"


\* No tracee stays parked behind a tracer that died: the parked task looks
\* every 500 ms, and lets itself go or dies with it.
NoneLeftParked ==
    []<>(\A t \in Tasks : ~(/\ At(t, "park")
                            /\ links[self[t].link].tracer \in Tasks
                            /\ ~Live(links[self[t].link].tracer)))

\* While its tracer waits, an attach that was answered 0 stops its task,
\* whatever it was doing then: a fork child in its hooks, a task with the
\* kick blocked, one in a handler of ours or in a wait of its own.
InWait == {"collect", "host", "reap", "ask", "sleep"}
AttachStops ==
    []<>(\A x, t \in Tasks : ~(/\ Live(x) /\ pc[x] \in InWait
                               /\ t \in mine[x] /\ Live(t)
                               /\ pt_find(t) # 0 /\ links[pt_find(t)].attach))

=============================================================================
