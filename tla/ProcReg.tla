------------------------------ MODULE ProcReg --------------------------------
(***************************************************************************)
(* The guest-PID registry (monitor/procreg.c): a table in shared memory in *)
(* which every guest process keeps what the others may know of it.  Slots  *)
(* are claimed by CAS on the pid, payloads are written under a sequence    *)
(* lock, and no process says when it dies: the start time of the process   *)
(* that has the pid now tells whether a slot is still its own.             *)
(*                                                                         *)
(* A payload is a program, a working directory and ids, written and read   *)
(* in two halves.  Memory is sequentially consistent.  A process is a pid  *)
(* and an incarnation, which is also its start time: start times of        *)
(* processes under different pids may coincide.                            *)
(***************************************************************************)
EXTENDS Integers, Sequences, FiniteSets, FiniteSetsExt

CONSTANTS
    Pids,
    ProcNobody,         \* no pid: 0
    MaxInc,         \* bound: processes under one pid
    TabSizes,       \* sizes of the table to look at (CNG_PROCREG_MAX)
    ProcFirst,          \* the process the invocation starts with
    Values,         \* programs, directories, ids
    ProcPrograms        \* the scripts the processes may run

Processes == Pids \X (1..MaxInc)

\* faults: what may go wrong during the call.
ProcCall == [op : {"exec", "chdir", "setid", "fork", "get", "has", "killall", "wait",
               "exit", "foreign"},
         pid : Pids, val : Values, faults : SUBSET {"death", "impatient"}]

ASSUME ProcRegAssumption ==
    /\ ProcNobody \notin Pids /\ MaxInc \in Nat \ {0} /\ TabSizes \subseteq Nat \ {0}
    /\ ProcFirst \in Processes /\ ProcPrograms \subseteq [Processes -> Seq(ProcCall)] /\ ProcPrograms # {}

VARIABLES
    g_tab_n,    \* the number of slots
    pid,        \* the claim array
    seq,        \* the sequence lock of each entry
    start,      \* its starttime
    data,       \* its payload
    hint,       \* of each process: g_hint_slot and g_hint_pid
    life,       \* unborn, live, zombie or gone
    parent,     \* who forked it
    proc_script,
    proc_pc,
    reg,        \* locals of the call under way
    self,       \* what a process is: the payload it would publish
    was,        \* history: all a process has been
    found,      \* history: answers of the last call
    lapsed      \* history: processes whose entry was freed by a reader, or whose
                \* registration somebody gave up

table == <<g_tab_n, pid, seq, start, data>>
procs == <<life, parent, proc_script, self, was, lapsed>>
procvars == <<table, hint, life, parent, proc_script, proc_pc, reg, self, was, found, lapsed>>

Slots == 1..g_tab_n

-----------------------------------------------------------------------------
(* Processes.                                                              *)

Payload == [cmd : Values, cwd : Values, ids : Values]
ProcHeld(x) == life[x] \in {"live", "zombie"}

\* The start time of the process that has the pid now, or 0.
cng_proc_starttime(p) ==
    IF \E i \in 1..MaxInc : ProcHeld(<<p, i>>) THEN CHOOSE i \in 1..MaxInc : ProcHeld(<<p, i>>) ELSE 0

Op(x) == Head(proc_script[x])
Foreign(x) == proc_script[x] # <<>> /\ Op(x).op = "foreign"
Guest(x) == life[x] = "live" /\ ~Foreign(x)
ProcAt(x, q) == life[x] = "live" /\ proc_pc[x] = q

\* The forker is still to publish x.
Coming(x) ==
    LET f == parent[x] IN life[f] = "live" /\ reg[f].goal = "fork" /\ reg[f].for = x[1]

Odd(n) == n % 2 = 1

-----------------------------------------------------------------------------
(* Lookup.                                                                 *)

\* The first slot that holds p.
scan_for(p) == IF \E i \in Slots : pid[i] = p THEN Min({i \in Slots : pid[i] = p}) ELSE 0

\* The remembered slot, if it still holds the pid.
slot_of(x, p) ==
    IF hint[x].pid = p /\ hint[x].slot # 0 /\ pid[hint[x].slot] = p THEN hint[x].slot
    ELSE scan_for(p)

Remember(x, p) ==
    hint' = IF slot_of(x, p) = 0 THEN hint ELSE [hint EXCEPT ![x] = [slot |-> slot_of(x, p), pid |-> p]]

-----------------------------------------------------------------------------
(* Locals: goal, what the call is for; of, the pid looked up; for, whose   *)
(* slot is written; i, the slot; want, the pid a claim expects; s, the     *)
(* count of the lock held or read (0: none); t, a start time; snap, a      *)
(* payload; k, seen, fresh, due: of kill_some.                             *)

NoReg == [goal |-> "none", of |-> ProcNobody, for |-> ProcNobody, i |-> 0, want |-> ProcNobody,
          s |-> 0, t |-> 0, snap |-> CHOOSE v \in Payload : TRUE,
          k |-> 0, seen |-> {}, fresh |-> FALSE, due |-> {}]

Goto(x, q) == proc_pc' = [proc_pc EXCEPT ![x] = q]
Set(x, r) == reg' = [reg EXCEPT ![x] = r]

\* The call is over.
Done(x) ==
    /\ Goto(x, "idle") /\ Set(x, NoReg)
    /\ proc_script' = [proc_script EXCEPT ![x] = Tail(@)]

\* What the writers of a slot do when they are done with it, or give it up.
Over(x) ==
    IF reg[x].goal = "inherit" THEN Goto(x, "ids") /\ Set(x, NoReg) /\ UNCHANGED proc_script
    ELSE Done(x)

\* The lock was not to be had.
Lapse(x) == lapsed' = lapsed \cup {y \in Processes : ProcHeld(y) /\ y[1] = reg[x].for}

-----------------------------------------------------------------------------
(* The calls.                                                              *)

\* "ids": the end of cng_procreg_fork_child.
Calling(x, op) == (ProcAt(x, "idle") \/ ProcAt(x, "ids")) /\ proc_script[x] # <<>> /\ Op(x).op = op

\* What the process is now.
Become(x, v) == self' = [self EXCEPT ![x] = v] /\ was' = [was EXCEPT ![x] = @ \cup {v}]

\* cng_procreg_publish: the start time is taken before the slot is looked for.
Exec(x) ==
    /\ Calling(x, "exec") /\ Become(x, [self[x] EXCEPT !.cmd = Op(x).val])
    /\ Goto(x, "find") /\ Set(x, [NoReg EXCEPT !.goal = "publish", !.for = x[1], !.t = x[2]])
    /\ lapsed' = IF Coming(x) THEN lapsed ELSE lapsed \ {x}
    /\ UNCHANGED <<table, hint, life, parent, proc_script, found>>

\* chdir, or a change of ids: our own slot, if there is one.
Refresh(x, op, v) ==
    /\ Calling(x, op) /\ Become(x, v) /\ Remember(x, x[1])
    /\ IF slot_of(x, x[1]) = 0 THEN Done(x)
       ELSE /\ Goto(x, "lock") /\ UNCHANGED proc_script
            /\ Set(x, [NoReg EXCEPT !.goal = op, !.for = x[1], !.i = slot_of(x, x[1])])
    /\ UNCHANGED <<table, life, parent, found, lapsed>>
cng_procreg_set_cwd(x) == Refresh(x, "chdir", [self[x] EXCEPT !.cwd = Op(x).val])
cng_procreg_set_ids(x) == Refresh(x, "setid", [self[x] EXCEPT !.ids = Op(x).val])

\* clone: the child is a copy, its hint included.  The parent publishes it;
\* the child waits for that and then sets its ids, before any guest code.
cng_clone_convert(x) ==
    \E n \in 1..MaxInc :
        LET y == <<Op(x).pid, n>> IN
        /\ Calling(x, "fork") /\ life[y] = "unborn" /\ ~Foreign(y)
        /\ \A k \in 1..(n - 1) : life[<<y[1], k>>] = "gone"
        /\ life' = [life EXCEPT ![y] = "live"] /\ parent' = [parent EXCEPT ![y] = x]
        /\ self' = [self EXCEPT ![y] = self[x]] /\ was' = [was EXCEPT ![y] = {self[x]}]
        /\ proc_script' = [proc_script EXCEPT ![y] = <<[Op(x) EXCEPT !.op = "setid", !.val = self[x].ids]>> \o @]
        /\ proc_pc' = [proc_pc EXCEPT ![x] = "read", ![y] = "born"]
        /\ reg' = [reg EXCEPT ![x] = [NoReg EXCEPT !.goal = "fork", !.for = y[1], !.of = x[1]]]
        /\ hint' = [hint EXCEPT ![y] = hint[x]]
        /\ lapsed' = IF x \in lapsed THEN lapsed \cup {y} ELSE lapsed
        /\ UNCHANGED <<table, found>>

-----------------------------------------------------------------------------
(* slot_for and slot_take.                                                 *)

\* Our slot, or the search for one.
Find(x) ==
    /\ ProcAt(x, "find") /\ Remember(x, reg[x].for)
    /\ LET i == slot_of(x, reg[x].for) IN
       IF i # 0 THEN Goto(x, "stamped") /\ Set(x, [reg[x] EXCEPT !.i = i])
                ELSE Goto(x, "free") /\ UNCHANGED reg
    /\ UNCHANGED <<table, procs, found>>

\* Past slot i, one that is free; past the last, from the first, one whose
\* process is gone.
FreeSlots(x) == {i \in Slots : i > reg[x].i /\ pid[i] = ProcNobody}
FindFree(x) ==
    /\ ProcAt(x, "free")
    /\ IF FreeSlots(x) # {}
       THEN Goto(x, "take") /\ Set(x, [reg[x] EXCEPT !.i = Min(FreeSlots(x)), !.want = ProcNobody])
       ELSE Goto(x, "dead") /\ Set(x, [reg[x] EXCEPT !.i = 0])
    /\ UNCHANGED <<table, hint, procs, found>>

DeadSlots(x) == {i \in Slots : i > reg[x].i /\ pid[i] # ProcNobody /\ cng_proc_starttime(pid[i]) = 0}
FindDead(x) ==
    /\ ProcAt(x, "dead")
    /\ IF DeadSlots(x) # {}
       THEN LET i == Min(DeadSlots(x)) IN
            /\ Goto(x, "take") /\ Set(x, [reg[x] EXCEPT !.i = i, !.want = pid[i]])
            /\ UNCHANGED <<proc_script, lapsed>>
       ELSE Over(x) /\ Lapse(x)
    /\ UNCHANGED <<table, hint, life, parent, self, was, found>>

\* seq_acquire in slot_take: after 1024 spins without the lock, without it.
TakeLock(x) ==
    LET i == reg[x].i IN
    /\ ProcAt(x, "take") /\ Goto(x, "cas")
    /\ IF Odd(seq[i]) THEN Set(x, [reg[x] EXCEPT !.s = 0]) /\ UNCHANGED seq
       ELSE seq' = [seq EXCEPT ![i] = @ + 1] /\ Set(x, [reg[x] EXCEPT !.s = seq[i] + 1])
    /\ UNCHANGED <<g_tab_n, pid, start, data, hint, procs, found>>

Release(x) == seq' = IF reg[x].s = 0 THEN seq ELSE [seq EXCEPT ![reg[x].i] = reg[x].s + 1]

\* The CAS: won, or on to the next slot.
TakeCas(x) ==
    LET i == reg[x].i IN
    /\ ProcAt(x, "cas")
    /\ IF pid[i] = reg[x].want
       THEN pid' = [pid EXCEPT ![i] = reg[x].for] /\ Goto(x, "zero") /\ UNCHANGED <<g_tab_n, seq, reg>>
       ELSE /\ Goto(x, IF reg[x].want = ProcNobody THEN "free" ELSE "dead")
            /\ Release(x) /\ Set(x, [reg[x] EXCEPT !.s = 0]) /\ UNCHANGED pid
    /\ UNCHANGED <<g_tab_n, start, data, hint, procs, found>>

\* Mutant: the start time of the occupant before stays.
TakeZero_not(x) ==
    /\ ProcAt(x, "zero") /\ Goto(x, "stamped") /\ Release(x) /\ Set(x, [reg[x] EXCEPT !.s = 0])
    /\ UNCHANGED <<g_tab_n, pid, start, data, hint, procs, found>>

\* The occupant before is forgotten.
TakeZero(x) ==
    /\ ProcAt(x, "zero") /\ Goto(x, "stamped")
    /\ start' = [start EXCEPT ![reg[x].i] = 0] /\ Release(x)
    /\ Set(x, [reg[x] EXCEPT !.s = 0])
    /\ UNCHANGED <<g_tab_n, pid, data, hint, procs, found>>

-----------------------------------------------------------------------------
(* Writing.                                                                *)

\* fork_copy leaves an entry that its process has stamped itself.
Stamped(x) == reg[x].goal \in {"fork", "inherit"} /\ reg[x].t # 0 /\ start[reg[x].i] = reg[x].t

FirstLook(x) ==
    /\ ProcAt(x, "stamped")
    /\ IF Stamped(x) THEN Over(x) ELSE Goto(x, "lock") /\ UNCHANGED <<reg, proc_script>>
    /\ UNCHANGED <<table, hint, life, parent, self, was, lapsed, found>>

\* The count is even, so that the CAS can take it.
seq_acquire(x) == ~Odd(seq[reg[x].i])

Lock(x) ==
    LET i == reg[x].i IN
    /\ ProcAt(x, "lock") /\ seq_acquire(x) /\ Goto(x, "write")
    /\ seq' = [seq EXCEPT ![i] = @ + 1] /\ Set(x, [reg[x] EXCEPT !.s = seq[i] + 1])
    /\ UNCHANGED <<g_tab_n, pid, start, data, hint, procs, found>>

\* The processes that have the lock of slot i and will let go of it.
Holders(i) == {y \in Processes : life[y] = "live" /\ reg[y].i = i /\ reg[y].s # 0
                             /\ proc_pc[y] \in {"cas", "zero", "write", "write2"}}

\* The spin runs out: a short one (4096) at any time, a long one (1 << 20) if
\* the writer died.  publish resets the count, the others give up.
Spent(x) ==
    LET i == reg[x].i IN
    /\ ProcAt(x, "lock") /\ Odd(seq[i])
    /\ reg[x].goal \in {"publish", "setid"} => Holders(i) = {}
    /\ IF reg[x].goal = "publish"
       THEN seq' = [seq EXCEPT ![i] = @ + 1] /\ UNCHANGED <<proc_pc, reg, proc_script, lapsed>>
       ELSE Over(x) /\ Lapse(x) /\ UNCHANGED seq
    /\ UNCHANGED <<g_tab_n, pid, start, data, hint, life, parent, self, was, found>>

\* Its process has stamped the entry between the first look and the lock.
Overtaken(x) == Stamped(x)

\* What goes into the entry.
Source(x) == IF reg[x].goal \in {"fork", "inherit"} THEN reg[x].snap ELSE self[x]

\* The first half: start time and program; chdir and ids have the second only.
Write(x) ==
    LET i == reg[x].i IN
    /\ ProcAt(x, "write")
    /\ IF Overtaken(x) THEN Release(x) /\ Over(x) /\ UNCHANGED <<g_tab_n, start, data>>
       ELSE /\ Goto(x, "write2") /\ UNCHANGED <<g_tab_n, seq, reg, proc_script>>
            /\ IF reg[x].goal \in {"chdir", "setid"} THEN UNCHANGED <<g_tab_n, start, data>>
               ELSE /\ start' = [start EXCEPT ![i] = reg[x].t]
                    /\ data' = [data EXCEPT ![i].cmd = Source(x).cmd]
    /\ UNCHANGED <<g_tab_n, pid, hint, life, parent, self, was, lapsed, found>>

\* The second half, and the release.
Write2(x) ==
    LET i == reg[x].i
        g == reg[x].goal
    IN
    /\ ProcAt(x, "write2") /\ Release(x) /\ Over(x)
    /\ data' = [data EXCEPT ![i].cwd = IF g = "setid" THEN @ ELSE Source(x).cwd,
                            ![i].ids = IF g = "chdir" THEN @ ELSE Source(x).ids]
    /\ UNCHANGED <<g_tab_n, pid, start, hint, life, parent, self, was, lapsed, found>>

-----------------------------------------------------------------------------
(* The child of a fork: fork_wait.                                        *)

\* The forker has no entry: nothing to wait for.
Born(x) ==
    LET f == parent[x][1]
        i == slot_of(x, f)
    IN
    /\ ProcAt(x, "born") /\ Remember(x, f)
    /\ IF i = 0 \/ start[i] = 0 THEN Goto(x, "ids") ELSE Goto(x, "wait")
    /\ UNCHANGED <<table, reg, procs, found>>

fork_published(x) ==
    LET i == slot_of(x, x[1]) IN i # 0 /\ ~Odd(seq[i]) /\ start[i] = x[2]

\* One look.
Poll(x) ==
    /\ ProcAt(x, "wait") /\ Remember(x, x[1])
    /\ IF fork_published(x) THEN Goto(x, "ids") ELSE UNCHANGED proc_pc
    /\ UNCHANGED <<table, reg, procs, found>>

\* The parent is dead or takes too long: the copy is left to us.
GiveUp(x) ==
    /\ ProcAt(x, "wait") /\ ~fork_published(x) /\ Remember(x, x[1])
    /\ ~Coming(x) \/ "impatient" \in Op(x).faults
    /\ Goto(x, "read")
    /\ Set(x, [NoReg EXCEPT !.goal = "inherit", !.for = x[1], !.of = parent[x][1]])
    /\ lapsed' = IF Coming(x) THEN lapsed \cup {x} ELSE lapsed
    /\ UNCHANGED <<table, life, parent, proc_script, self, was, found>>

-----------------------------------------------------------------------------
(* cng_procreg_get.                                                        *)

Nothing == [kind |-> "none"]
Say(x, r) == found' = [found EXCEPT ![x] = r]

\* No entry: nothing to answer with, nothing to inherit.
Miss(x) == IF reg[x].goal = "get" THEN Say(x, [kind |-> "no"]) /\ Done(x)
                                  ELSE UNCHANGED found /\ Over(x)

Get(x) ==
    /\ Calling(x, "get") /\ Goto(x, "read")
    /\ Set(x, [NoReg EXCEPT !.goal = "get", !.of = Op(x).pid])
    /\ UNCHANGED <<table, hint, procs, found>>

Read(x) ==
    LET i == slot_of(x, reg[x].of) IN
    /\ ProcAt(x, "read") /\ Remember(x, reg[x].of)
    /\ IF i = 0 THEN Miss(x)
       ELSE Goto(x, "load") /\ Set(x, [reg[x] EXCEPT !.i = i]) /\ UNCHANGED <<proc_script, found>>
    /\ UNCHANGED <<table, life, parent, self, was, lapsed>>

\* An even count, the pid, and the first half; after 100 tries, nothing.
Load(x) ==
    LET i == reg[x].i IN
    /\ ProcAt(x, "load")
    /\ IF Odd(seq[i]) THEN Lapse(x) ELSE UNCHANGED lapsed
    /\ IF Odd(seq[i]) \/ pid[i] # reg[x].of THEN Miss(x)
       ELSE /\ Goto(x, "load2") /\ UNCHANGED <<proc_script, found>>
            /\ Set(x, [reg[x] EXCEPT !.s = seq[i], !.t = start[i], !.snap.cmd = data[i].cmd])
    /\ UNCHANGED <<table, hint, life, parent, self, was>>

\* Mutant: whatever the count is now.
Consistent_any(x) == TRUE

\* The count is what it was.
Consistent(x) == seq[reg[x].i] = reg[x].s

\* The second half, and whether it was torn.
Load2(x) ==
    LET i == reg[x].i IN
    /\ ProcAt(x, "load2")
    /\ IF Consistent(x) THEN Goto(x, "check") ELSE Goto(x, "load")
    /\ Set(x, [reg[x] EXCEPT !.s = 0, !.snap.cwd = data[i].cwd, !.snap.ids = data[i].ids])
    /\ UNCHANGED <<table, hint, procs, found>>

\* The pid-reuse guard.
SameProcess(x, p) == p = x[1] \/ (reg[x].t # 0 /\ reg[x].t = cng_proc_starttime(p))

Check(x) ==
    LET p == reg[x].of IN
    /\ ProcAt(x, "check")
    /\ IF ~SameProcess(x, p) THEN Miss(x)
       ELSE IF reg[x].goal = "get"
       THEN Say(x, [kind |-> "got", who |-> <<p, cng_proc_starttime(p)>>, snap |-> reg[x].snap]) /\ Done(x)
       ELSE Goto(x, "sample") /\ UNCHANGED <<reg, proc_script, found>>
    /\ UNCHANGED <<table, hint, life, parent, self, was, lapsed>>

\* fork_copy: the child's start time.
Sample(x) ==
    /\ ProcAt(x, "sample") /\ Goto(x, "find")
    /\ Set(x, [reg[x] EXCEPT !.t = cng_proc_starttime(reg[x].for), !.i = 0])
    /\ UNCHANGED <<table, hint, procs, found>>

-----------------------------------------------------------------------------
(* cng_procreg_has, and kill_some, which asks it of every slot.            *)

\* The answer: to the guest, or to the pass.
ProcAnswer(x, yes) ==
    IF reg[x].goal = "killall"
    THEN /\ Goto(x, IF yes THEN "kill" ELSE "pass") /\ UNCHANGED <<proc_script, found>>
         /\ Set(x, IF yes THEN reg[x] ELSE [reg[x] EXCEPT !.k = @ + 1])
    ELSE /\ Done(x)
         /\ Say(x, IF yes THEN [kind |-> "yes", who |-> <<reg[x].of, cng_proc_starttime(reg[x].of)>>]
                    ELSE [kind |-> "no"])

Has(x) ==
    /\ Calling(x, "has") /\ Goto(x, "has")
    /\ Set(x, [NoReg EXCEPT !.goal = "has", !.of = Op(x).pid])
    /\ UNCHANGED <<table, hint, procs, found>>

HasSlot(x) ==
    LET i == slot_of(x, reg[x].of) IN
    /\ ProcAt(x, "has") /\ Remember(x, reg[x].of)
    /\ IF i = 0 \/ reg[x].of = x[1] THEN ProcAnswer(x, reg[x].of = x[1])
       ELSE Goto(x, "has_start") /\ Set(x, [reg[x] EXCEPT !.i = i]) /\ UNCHANGED <<proc_script, found>>
    /\ UNCHANGED <<table, life, parent, self, was, lapsed>>

HasStart(x) ==
    LET t == start[reg[x].i] IN
    /\ ProcAt(x, "has_start")
    /\ IF t = 0 THEN ProcAnswer(x, FALSE)
       ELSE Goto(x, "has_live") /\ Set(x, [reg[x] EXCEPT !.t = t]) /\ UNCHANGED <<proc_script, found>>
    /\ UNCHANGED <<table, hint, life, parent, self, was, lapsed>>

\* Somebody else has the pid now: the slot is scrubbed.
HasLive(x) ==
    LET t == cng_proc_starttime(reg[x].of) IN
    /\ ProcAt(x, "has_live")
    /\ IF t # reg[x].t /\ t # 0 THEN Goto(x, "scrub") /\ UNCHANGED <<reg, proc_script, found>>
       ELSE ProcAnswer(x, t = reg[x].t)
    /\ UNCHANGED <<table, hint, life, parent, self, was, lapsed>>

Scrub(x) ==
    LET i == reg[x].i
        p == reg[x].of
    IN
    /\ ProcAt(x, "scrub") /\ ProcAnswer(x, FALSE)
    /\ IF pid[i] # p THEN UNCHANGED <<g_tab_n, pid, lapsed>>
       ELSE /\ pid' = [pid EXCEPT ![i] = ProcNobody]
            /\ lapsed' = lapsed \cup {y \in Processes : Guest(y) /\ y[1] = p}
    /\ UNCHANGED <<g_tab_n, seq, start, data, hint, life, parent, self, was>>

Visible(y) == LET i == scan_for(y[1]) IN i # 0 /\ start[i] = y[2] /\ life[y] = "live"
ProcSettled(y) == Visible(y) /\ ~Odd(seq[scan_for(y[1])])

\* kill(-1): pass after pass over the slots, until one finds nobody new.
KillAll(x) ==
    /\ Calling(x, "killall") /\ Goto(x, "pass")
    /\ Set(x, [NoReg EXCEPT !.goal = "killall", !.k = 1, !.due = {y \in Processes \ {x} : ProcSettled(y)}])
    /\ Say(x, [kind |-> "sent", to |-> <<>>])
    /\ UNCHANGED <<table, hint, procs>>

\* Mutant: every slot that has a pid.
pid_at_all(k) == pid[k]

\* The pid in slot k, at the first of the slots that hold it.
pid_at(k) == IF pid[k] # ProcNobody /\ scan_for(pid[k]) = k THEN pid[k] ELSE ProcNobody

Pass(x) ==
    LET k == reg[x].k IN
    /\ ProcAt(x, "pass") /\ k <= g_tab_n
    /\ IF k \in reg[x].seen \/ pid_at(k) \in {ProcNobody, x[1]}
       THEN Set(x, [reg[x] EXCEPT !.k = @ + 1]) /\ UNCHANGED proc_pc
       ELSE Set(x, [reg[x] EXCEPT !.of = pid_at(k)]) /\ Goto(x, "has")
    /\ UNCHANGED <<table, hint, procs, found>>

Kill(x) ==
    LET y == <<reg[x].of, cng_proc_starttime(reg[x].of)>> IN
    /\ ProcAt(x, "kill") /\ Goto(x, "pass")
    /\ Set(x, [reg[x] EXCEPT !.seen = @ \cup {reg[x].k}, !.k = @ + 1, !.fresh = TRUE])
    /\ Say(x, [found[x] EXCEPT !.to = Append(@, y)])
    /\ UNCHANGED <<table, hint, procs>>

\* due: those who were there all the time and did not hear of it.
PassOver(x) ==
    /\ ProcAt(x, "pass") /\ reg[x].k > g_tab_n
    /\ IF reg[x].fresh
       THEN /\ Set(x, [reg[x] EXCEPT !.k = 1, !.fresh = FALSE]) /\ UNCHANGED <<proc_pc, proc_script, found>>
       ELSE /\ Done(x)
            /\ Say(x, [kind |-> "killed", to |-> found[x].to,
                       missed |-> {y \in reg[x].due : Guest(y) /\ y \notin lapsed
                                     /\ \A j \in DOMAIN found[x].to : found[x].to[j] # y}])
    /\ UNCHANGED <<table, hint, life, parent, self, was, lapsed>>

-----------------------------------------------------------------------------
(* Deaths.                                                                 *)

Exit(x) ==
    /\ Calling(x, "exit") \/ (life[x] = "live" /\ proc_script[x] # <<>> /\ "death" \in Op(x).faults)
    /\ life' = [life EXCEPT ![x] = "zombie"] /\ Goto(x, "idle") /\ Set(x, NoReg)
    /\ proc_script' = [proc_script EXCEPT ![x] = <<>>]
    /\ UNCHANGED <<table, hint, parent, self, was, found, lapsed>>

\* wait4 by the parent; by init, once the parent is gone.
Reap(x) ==
    LET f == parent[x] IN
    /\ life[x] = "zombie"
    /\ \/ Calling(f, "wait") /\ Op(f).pid = x[1] /\ proc_script' = [proc_script EXCEPT ![f] = Tail(@)]
       \/ life[f] # "live" /\ UNCHANGED proc_script
    /\ life' = [life EXCEPT ![x] = "gone"]
    /\ UNCHANGED <<table, hint, parent, proc_pc, reg, self, was, found, lapsed>>

\* A process of the host gets a pid that is free.
HostFork(x) ==
    /\ life[x] = "unborn" /\ Foreign(x) /\ \A k \in 1..(x[2] - 1) : life[<<x[1], k>>] = "gone"
    /\ life' = [life EXCEPT ![x] = "live"]
    /\ UNCHANGED <<table, hint, parent, proc_script, proc_pc, reg, self, was, found, lapsed>>

-----------------------------------------------------------------------------
ProcInit ==
    /\ g_tab_n \in TabSizes
    /\ pid = [i \in Slots |-> ProcNobody] /\ seq = [i \in Slots |-> 0]
    /\ start = [i \in Slots |-> 0] /\ data = [i \in Slots |-> NoReg.snap]
    /\ hint = [x \in Processes |-> [slot |-> 0, pid |-> ProcNobody]]
    /\ life = [x \in Processes |-> IF x = ProcFirst THEN "live" ELSE "unborn"]
    /\ parent = [x \in Processes |-> x] /\ proc_script \in ProcPrograms
    /\ proc_pc = [x \in Processes |-> "idle"] /\ reg = [x \in Processes |-> NoReg]
    /\ self = [x \in Processes |-> NoReg.snap] /\ was = [x \in Processes |-> {}]
    /\ found = [x \in Processes |-> Nothing] /\ lapsed = {}

Calls(x) ==
    \/ Exec(x) \/ cng_procreg_set_cwd(x) \/ cng_procreg_set_ids(x) \/ cng_clone_convert(x)
    \/ Get(x) \/ Has(x) \/ KillAll(x)
Steps(x) ==
    \/ Find(x) \/ FindFree(x) \/ FindDead(x) \/ TakeLock(x) \/ TakeCas(x) \/ TakeZero(x)
    \/ FirstLook(x) \/ Lock(x) \/ Spent(x) \/ Write(x) \/ Write2(x)
    \/ Born(x) \/ Poll(x) \/ GiveUp(x)
    \/ Read(x) \/ Load(x) \/ Load2(x) \/ Check(x) \/ Sample(x)
    \/ HasSlot(x) \/ HasStart(x) \/ HasLive(x) \/ Scrub(x)
    \/ Pass(x) \/ Kill(x) \/ PassOver(x)

ProcNext == \E x \in Processes : Calls(x) \/ Steps(x) \/ Exit(x) \/ Reap(x) \/ HostFork(x)

ProcSpec == ProcInit /\ [][ProcNext]_procvars

-----------------------------------------------------------------------------
PCs == {"idle", "find", "free", "dead", "take", "cas", "zero", "stamped", "lock", "write",
        "write2", "born", "wait", "ids", "read", "load", "load2", "check", "sample", "has",
        "has_start", "has_live", "scrub", "pass", "kill"}

ProcTypeOK ==
    /\ pid \in [Slots -> Pids \cup {ProcNobody}] /\ seq \in [Slots -> Nat]
    /\ start \in [Slots -> 0..MaxInc] /\ data \in [Slots -> Payload]
    /\ hint \in [Processes -> [slot : Slots \cup {0}, pid : Pids \cup {ProcNobody}]]
    /\ life \in [Processes -> {"unborn", "live", "zombie", "gone"}] /\ parent \in [Processes -> Processes]
    /\ proc_pc \in [Processes -> PCs] /\ self \in [Processes -> Payload]
    /\ \A x \in Processes : /\ reg[x].i \in Slots \cup {0} /\ reg[x].s \in Nat
                        /\ was[x] \subseteq Payload
    /\ \A i \in Slots : Cardinality(Holders(i)) <= 1
    /\ lapsed \subseteq Processes

\* What cng_procreg_get answers of a pid is what the process that has it was at
\* some time, as a whole: never two halves of different writes, never what the
\* process before it under the pid, or in the slot, had left.
SnapshotGenuine ==
    \A x \in Processes : found[x].kind = "got" => found[x].snap \in was[found[x].who]

\* A guest that is back in its program is in the table, at the first slot with
\* its pid, as what it is: whoever wrote the slot last, its forker or itself,
\* and whoever had the slot or the pid before (unless a writer gave up).
Current ==
    \A x \in Processes :
        Guest(x) /\ proc_pc[x] = "idle" /\ x \notin lapsed /\ was[x] # {} =>
            Visible(x) /\ data[scan_for(x[1])] = self[x]

\* kill(-1) signals everybody who was in the table throughout, and nobody twice,
\* though forks and deaths go on and a process may hold two slots.
KillReachesAll ==
    \A x \in Processes : found[x].kind = "killed" =>
        /\ found[x].missed = {}
        /\ \A j, k \in DOMAIN found[x].to : found[x].to[j] = found[x].to[k] => j = k
=============================================================================
