---------------------------- MODULE Link2Symlink -----------------------------
(***************************************************************************)
(* link2symlink (monitor/l2s.c and the calls of dispatch.c that use it):   *)
(* hard links on a host that refuses link(2).  The linked file moves to a  *)
(* hidden data file named by its inode, every name of it becomes a symlink *)
(* to that, and the name of an empty marker file holds the link count.     *)
(*                                                                         *)
(* A step is one syscall on the host's files, or several that look at one  *)
(* file or at files only the lock's holder changes.  The store can be had, *)
(* so one lock serves the whole tree.  A name holds None, a file or the    *)
(* text of a symlink; the markers of a data file are the set of counts in  *)
(* their names.  Of the groups proot made, one is modelled: pr.            *)
(***************************************************************************)
EXTENDS Naturals, Sequences, FiniteSets

CONSTANTS
    Procs,
    Nobody,
    Names,          \* the names of the guest
    Dirs,
    DirOf,          \* the directory of each name
    Store,          \* <rootfs>/.l2s
    Mounted,        \* directories on another filesystem than the store
    Inos,
    PrIno,          \* the inode of proot's data file
    PR_MAX_COUNT,
    LOOKS,          \* how often a reader looks again at a chain that is cut
    Programs        \* the trees to start from and the calls to make

Places == Dirs \cup {Store}
Paths == Places \X Inos

\* What is under a name.  Abs and Bare: the two texts of a name of ours, Stale: one
\* that spells the store of a tree that was moved since, Ind: a name of proot's.
None == <<"none">>
File(i) == <<"file", i>>
Abs(t) == <<"abs", t[1], t[2]>>
Bare(i) == <<"bare", i>>
Stale(i) == <<"stale", i>>
Ind == <<"ind">>
Sym == <<"sym">>
Nodes == {None, Ind, Sym} \cup {File(i) : i \in Inos \cup {PrIno}} \cup {Abs(t) : t \in Paths}
             \cup {Bare(i) : i \in Inos} \cup {Stale(i) : i \in Inos}
IsFile(x) == x[1] = "file"
IsLink(x) == ~IsFile(x) /\ x # None

\* refused: no symlink can be made at dst (a full disk); mortal: the process may be
\* killed during the call.
Call == [op : {"link", "unlink", "rename", "exchange", "stat"}, src : Names, dst : Names,
         refused : BOOLEAN, mortal : BOOLEAN]

\* ind: the count the indirection's text names (0: there is none), tmp: that of the
\* symlink about to replace it, data: the counts in the names of the data files.
Chains == [ind : 0..PR_MAX_COUNT, tmp : 0..PR_MAX_COUNT, data : SUBSET (1..PR_MAX_COUNT)]

ASSUME L2sAssumption ==
    /\ Nobody \notin Procs /\ Store \notin Dirs /\ Mounted \subseteq Dirs
    /\ DirOf \in [Names -> Dirs] /\ PrIno \notin Inos /\ LOOKS \in Nat
    /\ PR_MAX_COUNT \in Nat \ {0}

VARIABLES
    exchange,   \* the host has RENAME_EXCHANGE
    fs,         \* names and data paths
    mark,       \* markers
    pr,         \* proot's group
    lock,       \* who holds .l2s/.lock
    script,     \* calls to make
    call,       \* the one under way, or the last
    pc,
    v,          \* locals
    ans,        \* history: the answer of the last call
    srcs,       \* history: inodes the source has had during the call
    earned,     \* history: answers a host with hard links could have given the call
    died        \* history: somebody was killed

tree == <<fs, mark, pr>>
hist == <<ans, srcs, earned, died>>
vars == <<exchange, tree, lock, script, call, pc, v, hist>>

-----------------------------------------------------------------------------
(* Locals: n, the name asked about; k, where to go on; text, what it read; *)
(* tries, the looks at a cut chain; isl, dat, cnt: what it is, its data    *)
(* file and count; t, the data path of a first link; dec, dcnt, fix, back: *)
(* what is to follow a removal; up, which way a count goes: 1 for a link,  *)
(* 2 for one taken back, 0 for a name that is gone.                        *)

NoPath == <<Nobody, 0>>
NoAnswer == <<"none", 0>>
V0 == [n |-> Nobody, k |-> "idle", text |-> None, tries |-> 0, isl |-> "no", dat |-> NoPath,
       cnt |-> 0, t |-> NoPath, dec |-> NoPath, dcnt |-> 0, fix |-> NoPath, back |-> NoPath, up |-> 0]

At(p, q) == pc[p] = q
Go(p, q, w) == pc' = [pc EXCEPT ![p] = q] /\ v' = [v EXCEPT ![p] = w]
Jump(p, q) == Go(p, q, v[p])
Keep == UNCHANGED <<fs, mark, pr>>
Put(n, x) == fs' = [fs EXCEPT ![n] = x] /\ UNCHANGED <<mark, pr>>
Swap(a, b) == fs' = [fs EXCEPT ![a] = fs[b], ![b] = fs[a]] /\ UNCHANGED <<mark, pr>>
Move(a, b) == fs' = [fs EXCEPT ![b] = fs[a], ![a] = None] /\ UNCHANGED <<mark, pr>>
Marks(t, s) == mark' = [mark EXCEPT ![t] = s] /\ UNCHANGED <<fs, pr>>
Hold(p) == lock = Nobody /\ lock' = p
Free(p) == lock' = IF lock = p THEN Nobody ELSE lock

\* The call is over, and the lock with it.
Answer(p, r) == Go(p, "idle", V0) /\ Free(p) /\ ans' = [ans EXCEPT ![p] = r]
Return(p, r) == Answer(p, <<r, 0>>)
Still == UNCHANGED <<lock, ans>>

\* cng_l2s_resolve of n, to go on at k.
Resolve(p, n, k, w) == Go(p, "look", [w EXCEPT !.n = n, !.k = k, !.tries = 0])

src(p) == call[p].src
dst(p) == call[p].dst

-----------------------------------------------------------------------------
(* What is under a name.                                                   *)

\* Where the text at n says the data file is.
Target(n, x) ==
    CASE x[1] = "abs" -> <<x[2], x[3]>>
      [] x[1] = "bare" -> <<DirOf[n], x[2]>>
      [] x[1] = "stale" -> <<Store, x[2]>>

\* find_marker; 0 if there is none.
Counts(t) == IF mark[t] = {} THEN {0} ELSE mark[t]

\* lstat and readlink.
Look(p) ==
    /\ At(p, "look") /\ Keep /\ Still
    /\ LET x == fs[v[p].n] IN
       IF IsLink(x) THEN Go(p, "locate", [v[p] EXCEPT !.text = x])
       ELSE Go(p, v[p].k, [v[p] EXCEPT !.isl = IF x = None THEN "err" ELSE "no"])

Found(p, d, c) == [v[p] EXCEPT !.isl = "yes", !.dat = d, !.cnt = c, !.text = None, !.tries = 0]
NotOurs(p) == [v[p] EXCEPT !.isl = "no", !.text = None]

\* l2s_locate: ours where the data file is there.
Locate(p) ==
    /\ At(p, "locate") /\ v[p].text[1] \in {"abs", "bare", "stale", "sym"} /\ Keep /\ Still
    /\ IF v[p].text # Sym /\ IsFile(fs[Target(v[p].n, v[p].text)])
       THEN LET t == Target(v[p].n, v[p].text) IN
            \E c \in Counts(t) : Go(p, IF v[p].text[1] = "stale" THEN "heal" ELSE v[p].k, Found(p, t, c))
       ELSE Go(p, v[p].k, NotOurs(p))

\* pr_member: the chain looked at again while its data file is missing; one that stays
\* cut is a member all the same.
pr_member(p) ==
    /\ At(p, "locate") /\ v[p].text = Ind /\ Keep /\ Still
    /\ IF pr.ind = 0 THEN Go(p, v[p].k, NotOurs(p))
       ELSE IF pr.ind \in pr.data \/ v[p].tries = LOOKS
            THEN Go(p, v[p].k, Found(p, <<"pr", pr.ind>>, pr.ind))
            ELSE Go(p, "locate", [v[p] EXCEPT !.tries = @ + 1])

\* A stale text is replaced: unlink, then symlink.
Heal(p) ==
    /\ Still
    /\ \/ At(p, "heal") /\ Put(v[p].n, None) /\ Jump(p, "healed")
       \/ /\ At(p, "healed") /\ Jump(p, v[p].k)
          /\ IF fs[v[p].n] = None THEN Put(v[p].n, Abs(v[p].dat)) ELSE Keep

OurPath(d) == d \in Paths

-----------------------------------------------------------------------------
(* linkat: cng_l2s_link.                                                   *)

LinkCall(p) ==
    /\ At(p, "link") /\ Keep
    /\ IF fs[dst(p)] # None THEN Return(p, "EEXIST") ELSE Resolve(p, src(p), "asked", v[p]) /\ Still

Join(p) == IF OurPath(v[p].dat) THEN "join" ELSE "pr_lock"

\* A member joins its group; anything else is asked again under the lock.
Asked(p) ==
    /\ At(p, "asked") /\ Keep /\ UNCHANGED ans
    /\ IF v[p].isl = "yes" THEN Go(p, Join(p), [v[p] EXCEPT !.up = 1]) /\ UNCHANGED lock
       ELSE Hold(p) /\ Resolve(p, src(p), "again", v[p])


Again(p) ==
    /\ At(p, "again") /\ Keep
    /\ \/ v[p].isl = "yes" /\ Free(p) /\ Go(p, Join(p), [v[p] EXCEPT !.up = 1]) /\ UNCHANGED ans
       \/ v[p].isl = "err" /\ Return(p, "ENOENT")
       \/ v[p].isl = "no" /\ Jump(p, "first") /\ Still

Text(t) == IF t[1] = Store THEN Abs(t) ELSE Bare(t[2])

\* l2s_first_link: a symlink is copied as itself, unless its text is one of ours; a
\* file moves to the store.
First(p) ==
    /\ At(p, "first") /\ Keep
    /\ LET x == fs[src(p)] IN
       \/ x = None /\ Return(p, "ENOENT")
       \/ IsLink(x) /\ x \notin {Sym, Ind} /\ Return(p, "EPERM")
       \/ x \in {Sym, Ind} /\ Go(p, "copy_sym", [v[p] EXCEPT !.text = x]) /\ Still
       \/ IsFile(x) /\ Go(p, "swap_in", [v[p] EXCEPT !.t = <<Store, x[2]>>]) /\ Still

l2s_copy_symlink(p) ==
    /\ At(p, "copy_sym")
    /\ \/ fs[dst(p)] # None /\ Keep /\ Return(p, "EEXIST")
       \/ fs[dst(p)] = None /\ call[p].refused /\ Keep /\ Return(p, "ENOSPC")
       \/ fs[dst(p)] = None /\ ~call[p].refused /\ Put(dst(p), v[p].text) /\ Return(p, "0")

\* l2s_swap_in: a symlink under the data's name, then the two exchanged.
SwapIn(p) ==
    /\ At(p, "swap_in") /\ Still
    /\ IF fs[v[p].t] = None THEN Put(v[p].t, Text(v[p].t)) /\ Jump(p, "exchange")
       ELSE Keep /\ Jump(p, "two_steps")

CanSwap(p) ==
    exchange /\ fs[src(p)] # None /\ ~(v[p].t[1] = Store /\ DirOf[src(p)] \in Mounted)

Exchange(p) ==
    /\ At(p, "exchange") /\ Still
    /\ IF CanSwap(p) THEN Swap(src(p), v[p].t) /\ Jump(p, "count")
       ELSE Put(v[p].t, None) /\ Jump(p, "two_steps")

\* No store for this file: the group is kept in its directory, or dst is a copy.
NoSwap(p, r) ==
    IF v[p].t[1] # Store THEN Return(p, r)
    ELSE IF DirOf[src(p)] # DirOf[dst(p)] THEN Free(p) /\ Jump(p, "copy") /\ UNCHANGED ans
    ELSE Go(p, "swap_in", [v[p] EXCEPT !.t[1] = DirOf[src(p)]]) /\ Still

\* Without the exchange: the rename, over nothing or over our own symlink, then the
\* symlink.
TwoSteps(p) ==
    /\ At(p, "two_steps")
    /\ LET t == v[p].t IN
       \/ fs[t] \notin {None, Text(t)} /\ Keep /\ NoSwap(p, "EEXIST")
       \/ fs[t] \in {None, Text(t)} /\ fs[src(p)] = None /\ Keep /\ NoSwap(p, "ENOENT")
       \/ /\ fs[t] \in {None, Text(t)} /\ fs[src(p)] # None
          /\ t[1] = Store /\ DirOf[src(p)] \in Mounted /\ Keep /\ NoSwap(p, "EXDEV")
       \/ /\ fs[t] \in {None, Text(t)} /\ fs[src(p)] # None
          /\ ~(t[1] = Store /\ DirOf[src(p)] \in Mounted)
          /\ Move(src(p), t) /\ Jump(p, "symlink") /\ Still

Symlink(p) ==
    /\ At(p, "symlink")
    /\ IF fs[src(p)] = None THEN Put(src(p), Text(v[p].t)) /\ Jump(p, "count") /\ Still
       ELSE Move(v[p].t, src(p)) /\ NoSwap(p, "EEXIST")

\* Mutant: the marker counts the names there are.
Count_one(p) ==
    /\ At(p, "count") /\ Still
    /\ Marks(v[p].t, mark[v[p].t] \cup {1}) /\ Jump(p, "name")

\* The marker, before there is a second name.
Count(p) ==
    /\ At(p, "count") /\ Still
    /\ Marks(v[p].t, mark[v[p].t] \cup {2}) /\ Jump(p, "name")


Name(p) ==
    /\ At(p, "name")
    /\ IF fs[dst(p)] = None /\ ~call[p].refused
       THEN Put(dst(p), Text(v[p].t)) /\ Return(p, "0")
       ELSE Marks(v[p].t, mark[v[p].t] \ {2}) /\ Jump(p, "swap_out") /\ Still

Refusal(p) == IF call[p].refused THEN "ENOSPC" ELSE "EEXIST"

\* l2s_swap_out: the file back under its name.
SwapOut(p) ==
    \/ /\ At(p, "swap_out") /\ Still
       /\ IF CanSwap(p) THEN Swap(src(p), v[p].t) /\ Jump(p, "out_link")
          ELSE Put(src(p), None) /\ Jump(p, "out_file")
    \/ At(p, "out_link") /\ Put(v[p].t, None) /\ Return(p, Refusal(p))
    \/ /\ At(p, "out_file") /\ Return(p, Refusal(p))
       /\ IF fs[v[p].t] = None THEN Keep ELSE Move(v[p].t, src(p))

-----------------------------------------------------------------------------
(* What the emulation cannot group is copied: l2s_materialize.             *)

\* The inode of the file a follow of n reaches, or 0.
Behind(n) ==
    LET x == fs[n] IN
    CASE IsFile(x) -> x[2]
      [] x = Ind -> IF pr.ind \in pr.data THEN PrIno ELSE 0
      [] x[1] \in {"abs", "bare", "stale"} -> LET f == fs[Target(n, x)] IN IF IsFile(f) THEN f[2] ELSE 0
      [] OTHER -> 0

Unused == {i \in Inos : \A x \in Names \cup Paths : fs[x] # File(i)}

l2s_materialize(p) ==
    \/ /\ At(p, "copy") /\ Keep
       /\ IF Behind(src(p)) = 0 THEN Return(p, "ENOENT") ELSE Jump(p, "create") /\ Still
    \/ /\ At(p, "create")
       /\ IF fs[dst(p)] # None THEN Keep /\ Return(p, "EEXIST")
          ELSE Put(dst(p), File(CHOOSE i \in Unused : TRUE)) /\ Jump(p, "contents") /\ Still
    \/ /\ At(p, "contents")
       /\ IF call[p].refused THEN Put(dst(p), None) /\ Return(p, "ENOSPC") ELSE Keep /\ Return(p, "0")

-----------------------------------------------------------------------------
(* One more name of a group of ours.                                       *)

\* The count is read again under the lock.
JoinLock(p) ==
    /\ At(p, "join") /\ Keep /\ UNCHANGED ans /\ Hold(p)
    /\ \E c \in Counts(v[p].dat) : Go(p, "bump", [v[p] EXCEPT !.cnt = c])

Bumped(p) == (IF v[p].cnt = 0 THEN 1 ELSE v[p].cnt) + 1

\* The marker is renamed to the new count, or made if it was lost.
Bump(p) ==
    /\ At(p, "bump") /\ Still
    /\ Marks(v[p].dat, (mark[v[p].dat] \ {v[p].cnt}) \cup {Bumped(p)}) /\ Jump(p, "member")

Member(p) ==
    /\ At(p, "member")
    /\ IF fs[dst(p)] = None /\ ~call[p].refused
       THEN /\ Put(dst(p), IF v[p].dat[1] = DirOf[dst(p)] THEN Bare(v[p].dat[2]) ELSE Abs(v[p].dat))
            /\ Return(p, "0")
       ELSE /\ Marks(v[p].dat, (mark[v[p].dat] \ {Bumped(p)}) \cup ({v[p].cnt} \ {0}))
            /\ Return(p, Refusal(p))

-----------------------------------------------------------------------------
(* proot's group.                                                          *)

Chain(c) == pr' = c /\ UNCHANGED <<fs, mark>>

\* pr_settle: the chain as it is now, a cut one repointed at the one data file there is.
pr_settle(p) ==
    /\ At(p, "pr_lock") /\ Keep
    /\ IF pr.ind # 0 /\ (pr.ind \in pr.data \/ Cardinality(pr.data) = 1)
       THEN LET c == IF pr.ind \in pr.data THEN pr.ind ELSE CHOOSE d \in pr.data : TRUE IN
            /\ Hold(p) /\ UNCHANGED ans
            /\ Go(p, IF pr.ind = c THEN "adjust" ELSE "repoint",
                  [v[p] EXCEPT !.cnt = c, !.k = "adjust"])
       ELSE lock = Nobody /\ IF v[p].up = 1 THEN Return(p, "ENOENT") ELSE Jump(p, "dropped") /\ Still

\* pr_repoint: a fresh symlink, renamed over the indirection.
pr_repoint(p) ==
    /\ Still
    /\ \/ At(p, "repoint") /\ Chain([pr EXCEPT !.tmp = v[p].cnt]) /\ Jump(p, "renamed")
       \/ At(p, "renamed") /\ Chain([pr EXCEPT !.ind = pr.tmp, !.tmp = 0]) /\ Jump(p, v[p].k)

\* What follows a moved count: a new name, or nothing.
AfterMove(p) == IF v[p].up = 1 THEN "pr_name" ELSE "dropped"
Moved(p) == IF v[p].up = 1 THEN v[p].cnt + 1 ELSE v[p].cnt - 1

Capped(p) == v[p].cnt >= PR_MAX_COUNT

\* pr_adjust: the data file renamed to the new count, then the indirection repointed;
\* with the last name both go.
pr_adjust(p) ==
    \/ /\ At(p, "adjust")
       /\ \/ /\ v[p].up # 1 /\ v[p].cnt <= 1 /\ Still
             /\ Chain([pr EXCEPT !.data = @ \ {v[p].cnt}]) /\ Jump(p, "no_ind")
          \/ v[p].up = 1 /\ Capped(p) /\ Keep /\ Return(p, "EMLINK")
          \/ /\ IF v[p].up = 1 THEN ~Capped(p) ELSE v[p].cnt > 1
             /\ Chain([pr EXCEPT !.data = (@ \ {v[p].cnt}) \cup {Moved(p)}]) /\ Still
             /\ Go(p, "repoint", [v[p] EXCEPT !.cnt = Moved(p), !.k = AfterMove(p)])
    \/ At(p, "no_ind") /\ Chain([pr EXCEPT !.ind = 0]) /\ Jump(p, "dropped") /\ Still

\* The member, after the count went up; refused, the count is put back.
pr_link(p) ==
    /\ At(p, "pr_name")
    /\ IF fs[dst(p)] = None /\ ~call[p].refused THEN Put(dst(p), Ind) /\ Return(p, "0")
       ELSE Keep /\ Go(p, "adjust", [v[p] EXCEPT !.up = 2]) /\ Still

-----------------------------------------------------------------------------
(* A name of a group is gone: cng_l2s_decref.                              *)

\* The count of the marker is fresher than the caller's.
Decref(p) ==
    /\ At(p, "decref") /\ Keep /\ UNCHANGED ans
    /\ IF OurPath(v[p].dec)
       THEN Hold(p) /\ \E c \in Counts(v[p].dec) :
            Go(p, "drop", [v[p] EXCEPT !.cnt = IF c = 0 THEN v[p].dcnt ELSE c])
       ELSE Go(p, "pr_lock", [v[p] EXCEPT !.up = 0]) /\ UNCHANGED lock

\* Mutant: the data file goes with the last name but one.
Last_early(p) == v[p].cnt <= 2
Last(p) == v[p].cnt <= 1

Drop(p) ==
    /\ Still
    /\ LET t == v[p].dec  m == mark[v[p].dec] IN
       \/ At(p, "drop") /\ Last(p) /\ Put(t, None) /\ Jump(p, "unmark")
       \/ /\ At(p, "drop") /\ ~Last(p) /\ Jump(p, "dropped")
          /\ IF v[p].cnt \in m THEN Marks(t, (m \ {v[p].cnt}) \cup {v[p].cnt - 1}) ELSE Keep
       \/ At(p, "unmark") /\ Marks(t, m \ {1}) /\ Jump(p, "dropped")

\* Unlocked; a link that was refused has its answer, a rename goes on.
Dropped(p) ==
    /\ At(p, "dropped") /\ Keep
    /\ IF v[p].up = 2 THEN Return(p, Refusal(p))
       ELSE Free(p) /\ Jump(p, "fixup") /\ UNCHANGED ans

-----------------------------------------------------------------------------
(* unlinkat, renameat2 and newfstatat.                                     *)

Dec(p) == IF v[p].isl = "yes" THEN v[p].dat ELSE NoPath

Unlink(p) ==
    /\ At(p, "unlink")
    /\ IF fs[src(p)] = None THEN Keep /\ Return(p, "ENOENT")
       ELSE /\ Put(src(p), None)
            /\ IF v[p].isl = "yes" THEN Go(p, "decref", [v[p] EXCEPT !.dec = v[p].dat, !.dcnt = v[p].cnt]) /\ Still
               ELSE Return(p, "0")

Swapping(p) == call[p].op = "exchange"

\* The destination, then the source: two names of one group are left alone.
RenameDst(p) ==
    /\ At(p, "rename_dst") /\ Keep /\ Still
    /\ LET w == [v[p] EXCEPT !.dec = Dec(p), !.dcnt = v[p].cnt] IN
       IF v[p].isl = "yes" THEN Resolve(p, src(p), "rename_src", w) ELSE Go(p, "prep", w)

RenameSrc(p) ==
    /\ At(p, "rename_src") /\ Keep
    /\ IF v[p].isl = "yes" /\ v[p].dat = v[p].dec THEN Return(p, "0")
       ELSE Go(p, "prep", IF Swapping(p) THEN [v[p] EXCEPT !.dec = NoPath] ELSE v[p]) /\ Still

\* cng_l2s_rename_prep: where the data of a bare name is.
Beside(n) ==
    IF fs[n][1] = "bare" /\ IsFile(fs[Target(n, fs[n])]) THEN Target(n, fs[n]) ELSE NoPath

Prep(p) ==
    /\ Keep /\ Still
    /\ \/ At(p, "prep") /\ Go(p, IF Swapping(p) THEN "prep_back" ELSE "rename",
                              [v[p] EXCEPT !.fix = Beside(src(p))])
       \/ At(p, "prep_back") /\ Go(p, "rename", [v[p] EXCEPT !.back = Beside(dst(p))])

Crosses(p) == DirOf[src(p)] # DirOf[dst(p)] /\ {DirOf[src(p)], DirOf[dst(p)]} \cap Mounted # {}

Rename(p) ==
    /\ At(p, "rename")
    /\ \/ fs[src(p)] = None /\ Keep /\ Return(p, "ENOENT")
       \/ Swapping(p) /\ fs[src(p)] # None /\ fs[dst(p)] = None /\ Keep /\ Return(p, "ENOENT")
       \/ fs[src(p)] # None /\ Crosses(p) /\ Keep /\ Return(p, "EXDEV")
       \/ /\ fs[src(p)] # None /\ (Swapping(p) => fs[dst(p)] # None) /\ ~Crosses(p) /\ Still
          /\ IF Swapping(p) THEN Swap(src(p), dst(p))
             ELSE IF src(p) = dst(p) THEN Keep ELSE Move(src(p), dst(p))
          /\ Jump(p, IF v[p].dec = NoPath THEN "fixup" ELSE "decref")

\* cng_l2s_rename_fixup of the new name, then of the old.
Strays(n, t) == t # NoPath /\ DirOf[n] # t[1]

Fixup(p) ==
    LET n == IF v[p].fix # NoPath THEN dst(p) ELSE src(p)
        t == IF v[p].fix # NoPath THEN v[p].fix ELSE v[p].back
        w == IF v[p].fix # NoPath THEN [v[p] EXCEPT !.fix = NoPath] ELSE [v[p] EXCEPT !.back = NoPath] IN
    \/ At(p, "fixup") /\ t = NoPath /\ Keep /\ Return(p, "0")
    \/ At(p, "fixup") /\ t # NoPath /\ ~Strays(n, t) /\ Keep /\ Go(p, "fixup", w) /\ Still
    \/ At(p, "fixup") /\ Strays(n, t) /\ Put(n, None) /\ Jump(p, "repair") /\ Still
    \/ /\ At(p, "repair") /\ Go(p, "fixup", w) /\ Still
       /\ IF fs[n] = None THEN Put(n, Abs(t)) ELSE Keep

\* cng_l2s_stat: what is at the data path now.
Backing(d) == IF OurPath(d) THEN fs[d] ELSE IF d[2] \in pr.data THEN File(PrIno) ELSE None

\* The data file of a name of ours; else, or where it is gone, what the host says of
\* the name itself.
Stat(p) ==
    /\ At(p, "stat") /\ Keep
    /\ LET ours == v[p].isl = "yes"
           f == IF ours THEN Backing(v[p].dat) ELSE fs[src(p)] IN
       \/ IsFile(f) /\ Answer(p, f)
       \/ ours /\ ~IsFile(f) /\ Go(p, "stat", [v[p] EXCEPT !.isl = "no"]) /\ Still
       \/ ~ours /\ f = None /\ Return(p, "ENOENT")
       \/ ~ours /\ IsLink(f) /\ Return(p, "symlink")

-----------------------------------------------------------------------------
(* What the guest is to find.                                              *)

\* The data path a process is about to put a name back to.
Owed(p, n) ==
    CASE pc[p] \in {"symlink", "out_file"} /\ n = src(p) -> v[p].t
      [] pc[p] = "healed" /\ n = v[p].n -> v[p].dat
      [] pc[p] \in {"decref", "drop", "unmark", "dropped", "fixup", "repair"} /\ v[p].fix # NoPath /\ n = dst(p) -> v[p].fix
      [] pc[p] \in {"decref", "drop", "unmark", "dropped", "fixup", "repair"} /\ n = src(p) -> v[p].back
      [] OTHER -> NoPath

\* The file a name stands for, or 0: the one behind it, that of proot's group though its
\* chain be cut, or the one a process is about to put back.
Held(n) ==
    IF fs[n] = Ind THEN IF pr.ind # 0 /\ pr.data # {} THEN PrIno ELSE 0
    ELSE IF Behind(n) = 0 /\ \E p \in Procs : Owed(p, n) # NoPath
    THEN LET f == fs[Owed(CHOOSE p \in Procs : Owed(p, n) # NoPath, n)] IN IF IsFile(f) THEN f[2] ELSE 0
    ELSE Behind(n)

Copied(q) == DirOf[q.src] \in Mounted /\ DirOf[q.src] # DirOf[q.dst]

\* The answers that a host with hard links could give now to the call of p.
Earns(p) ==
    LET q == call[p]  s == Held(q.src)  d == Held(q.dst) IN
    {<<r, 0>> : r \in {r \in {"0", "ENOENT", "EEXIST", "EPERM", "EMLINK", "EXDEV", "ENOSPC", "symlink"} :
      CASE r = "0" -> \/ q.op # "link"
                      \/ fs[q.dst] \in {Sym, Ind} /\ fs[q.dst] = fs[q.src]
                      \/ d # 0 /\ (d \in srcs[p] \/ Copied(q))
        [] r = "ENOENT" -> s = 0 \/ fs[q.src] = None \/ (q.op = "exchange" /\ d = 0)
        [] r = "EEXIST" -> q.op = "link" /\ fs[q.dst] # None
        [] r = "EPERM" -> q.op = "link" /\ s = 0
        [] r = "EMLINK" -> q.op = "link" /\ PR_MAX_COUNT \in pr.data
        [] r = "ENOSPC" -> q.refused
        [] r = "EXDEV" -> q.op \in {"rename", "exchange"} /\ Crosses(p)
        [] r = "symlink" -> IsLink(fs[q.src]) /\ Behind(q.src) = 0}} \cup {File(s)}

\* The histories of the calls under way; a call that starts has none.
Note(p) ==
    LET before(x, h) == IF pc[x] = "idle" THEN {} ELSE h[x]
        on(x) == pc[x] # "idle" \/ x = p IN
    /\ srcs' = [x \in Procs |-> IF on(x) THEN before(x, srcs) \cup {Held(call[x].src)'} ELSE srcs[x]]
    /\ earned' = [x \in Procs |-> IF on(x) THEN before(x, earned) \cup Earns(x)' ELSE earned[x]]

-----------------------------------------------------------------------------
(* Processes.                                                              *)

\* The text of the tree's own paths is never asked about: the calls name guest names.
Start(p) ==
    /\ At(p, "idle") /\ script[p] # <<>> /\ Keep /\ UNCHANGED lock
    /\ LET q == Head(script[p]) IN
       /\ call' = [call EXCEPT ![p] = q] /\ script' = [script EXCEPT ![p] = Tail(@)]
       /\ ans' = [ans EXCEPT ![p] = NoAnswer] /\ UNCHANGED died
       /\ CASE q.op = "link" -> Go(p, "link", V0)
            [] q.op \in {"unlink", "stat"} -> Resolve(p, q.src, q.op, V0)
            [] q.op \in {"rename", "exchange"} ->
                 IF q.src = q.dst THEN Go(p, "rename", V0) ELSE Resolve(p, q.dst, "rename_dst", V0)

\* Killed: the lock goes with the process.
Die(p) ==
    /\ pc[p] \notin {"idle", "dead"} /\ call[p].mortal
    /\ pc' = [pc EXCEPT ![p] = "dead"] /\ v' = [v EXCEPT ![p] = V0] /\ Free(p)
    /\ ans' = [ans EXCEPT ![p] = NoAnswer] /\ died' = TRUE /\ Keep
    /\ UNCHANGED <<script, call>>

Rest(p) == Note(p) /\ UNCHANGED exchange
Inside(p) == UNCHANGED <<script, call, died>> /\ Rest(p)

Init ==
    \E g \in Programs :
      /\ exchange = g.exchange /\ fs = g.fs /\ mark = g.mark /\ pr = g.pr /\ script = g.script
      /\ lock = Nobody /\ pc = [p \in Procs |-> "idle"] /\ v = [p \in Procs |-> V0]
      /\ call = [p \in Procs |-> CHOOSE c \in Call : TRUE]
      /\ ans = [p \in Procs |-> NoAnswer] /\ died = FALSE
      /\ srcs = [p \in Procs |-> {}] /\ earned = [p \in Procs |-> {}]

Next ==
    \E p \in Procs :
      \/ Look(p) /\ Inside(p)
      \/ Locate(p) /\ Inside(p)
      \/ pr_member(p) /\ Inside(p)
      \/ Heal(p) /\ Inside(p)
      \/ LinkCall(p) /\ Inside(p)
      \/ Asked(p) /\ Inside(p)
      \/ Again(p) /\ Inside(p)
      \/ First(p) /\ Inside(p)
      \/ l2s_copy_symlink(p) /\ Inside(p)
      \/ SwapIn(p) /\ Inside(p)
      \/ Exchange(p) /\ Inside(p)
      \/ TwoSteps(p) /\ Inside(p)
      \/ Symlink(p) /\ Inside(p)
      \/ Count(p) /\ Inside(p)
      \/ Name(p) /\ Inside(p)
      \/ SwapOut(p) /\ Inside(p)
      \/ l2s_materialize(p) /\ Inside(p)
      \/ JoinLock(p) /\ Inside(p)
      \/ Bump(p) /\ Inside(p)
      \/ Member(p) /\ Inside(p)
      \/ pr_settle(p) /\ Inside(p)
      \/ pr_repoint(p) /\ Inside(p)
      \/ pr_adjust(p) /\ Inside(p)
      \/ pr_link(p) /\ Inside(p)
      \/ Decref(p) /\ Inside(p)
      \/ Drop(p) /\ Inside(p)
      \/ Dropped(p) /\ Inside(p)
      \/ Unlink(p) /\ Inside(p)
      \/ RenameDst(p) /\ Inside(p)
      \/ RenameSrc(p) /\ Inside(p)
      \/ Prep(p) /\ Inside(p)
      \/ Rename(p) /\ Inside(p)
      \/ Fixup(p) /\ Inside(p)
      \/ Stat(p) /\ Inside(p)
      \/ Die(p) /\ Rest(p)
      \/ Start(p) /\ Rest(p)

Spec == Init /\ [][Next]_vars

-----------------------------------------------------------------------------
(* Properties.                                                             *)

TypeOK ==
    /\ fs \in [Names \cup Paths -> Nodes] /\ pr \in Chains
    /\ mark \in [Paths -> SUBSET (1..(Cardinality(Names) + 1))]
    /\ lock \in Procs \cup {Nobody} /\ call \in [Procs -> Call]

\* A name's file changes only by the step of a call that is to change it: the one that
\* makes the new name of a link, that removes a name, that renames.  No other name loses
\* its file to a count that runs out, a group being made or taken back, or a death.
Effect(p, n) ==
    /\ pc'[p] # pc[p]
    /\ \/ /\ pc[p] \in {"name", "member", "pr_name", "create"} /\ n = dst(p) /\ Held(n) = 0
          /\ Held(n)' \in srcs[p] \/ At(p, "create")
       \/ At(p, "contents") /\ n = dst(p) /\ Held(n)' = 0
       \/ At(p, "unlink") /\ n = src(p) /\ Held(n)' = 0
       \/ At(p, "rename") /\ n = dst(p) /\ Held(n)' = Held(src(p))
       \/ At(p, "rename") /\ n = src(p) /\ Held(n)' = IF Swapping(p) THEN Held(dst(p)) ELSE 0
NamesKeep == [][\A n \in Names : Held(n)' = Held(n) \/ \E p \in Procs : Effect(p, n)]_vars

\* A group counts no fewer names than it has, at any step and after any death: the count
\* goes up before there is a name and down after the name is gone.
NamesOf(t) == {n \in Names : /\ fs[n][1] \in {"abs", "bare", "stale"} /\ Target(n, fs[n]) = t
                             /\ (fs[n][1] = "stale" => IsFile(fs[t]))}
Members == {n \in Names : fs[n] = Ind}
CountCovers ==
    /\ \A t \in Paths : IsFile(fs[t]) =>
         /\ Cardinality(mark[t]) <= 1
         /\ \A c \in Counts(t) : Cardinality(NamesOf(t)) <= IF c = 0 THEN 1 ELSE c
    /\ Cardinality(pr.data) <= 1 /\ \A c \in pr.data : Cardinality(Members) <= c

\* With no call under way and nobody killed, every count is the number of names, a group
\* with no name has left nothing, and there is no other file in the store.
Exact ==
    /\ \A t \in Paths :
         LET n == Cardinality(NamesOf(t)) IN
         IF n = 0 THEN fs[t] = None /\ mark[t] = {} ELSE IsFile(fs[t]) /\ mark[t] = {n}
    /\ LET n == Cardinality(Members) IN
       pr = [ind |-> n, tmp |-> 0, data |-> IF n = 0 THEN {} ELSE {n}]

=============================================================================
