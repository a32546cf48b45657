-------------------------------- MODULE MCL2s --------------------------------
(* Small instances of Link2Symlink for TLC: trees, and what two processes call. *)
EXTENDS Link2Symlink, TLC

CONSTANTS p1, p2, n1, n2, n3, n4, n5, n6, n7, home, sub, mnt

\* n7 is in another directory, n5 and n6 in one on another filesystem.
MCDirOf == [n \in Names |-> IF n \in {n5, n6} THEN mnt ELSE IF n = n7 THEN sub ELSE home]

C(op, a, b) == [op |-> op, src |-> a, dst |-> b, refused |-> FALSE, mortal |-> FALSE]
Ln(a, b) == C("link", a, b)
Rm(a) == C("unlink", a, a)
Mv(a, b) == C("rename", a, b)
Sw(a, b) == C("exchange", a, b)
St(a) == C("stat", a, a)
Full(c) == [c EXCEPT !.refused = TRUE]
Mortal(c) == [c EXCEPT !.mortal = TRUE]

Tree(o) == [x \in Names \cup Paths |-> IF x \in DOMAIN o THEN o[x] ELSE None]
NoMarks == [t \in Paths |-> {}]
NoChain == [ind |-> 0, tmp |-> 0, data |-> {}]
T(x, f, m, c, a, b) == [exchange |-> x, fs |-> f, mark |-> m, pr |-> c,
                        script |-> [p \in Procs |-> IF p = p1 THEN a ELSE b]]

\* n1 is a file, and so is n4.
Plain == Tree(n1 :> File(1) @@ n4 :> File(2))
\* n1 and n2 are one file, in the store; n4 is another.
G == <<Store, 1>>
Group == Tree(n1 :> Abs(G) @@ n2 :> Abs(G) @@ G :> File(1) @@ n4 :> File(2))
Two == [t \in Paths |-> IF t = G THEN {2} ELSE {}]
\* n1 and n2 are one file of a tree that was moved.
Moved_ == Tree(n1 :> Stale(1) @@ n2 :> Stale(1) @@ G :> File(1))
\* n1 and n2 are one file of proot's.
Proot == Tree(n1 :> Ind @@ n2 :> Ind @@ n4 :> File(2))
Chain2 == [ind |-> 2, tmp |-> 0, data |-> {2}]
\* n1 and n2 are one file, beside its names; n5 is a file over there.
L == <<home, 1>>
Legacy == Tree(n1 :> Bare(1) @@ n2 :> Bare(1) @@ L :> File(1) @@ n4 :> File(2) @@ n5 :> File(3) @@ n7 :> File(4))
Lone == Tree(n1 :> Bare(1) @@ n2 :> Bare(1) @@ L :> File(1) @@ n4 :> File(2))
LegacyTwo == [t \in Paths |-> IF t = L THEN {2} ELSE {}]
\* n5 has the inode number, over there, that n1 and n2 have here.
Twin == Tree(n1 :> Abs(<<Store, 3>>) @@ n2 :> Abs(<<Store, 3>>) @@ <<Store, 3>> :> File(5) @@ n5 :> File(3))
TwinTwo == [t \in Paths |-> IF t = <<Store, 3>> THEN {2} ELSE {}]
\* n4 is a symlink of the guest's.
Symlinked == Tree(n1 :> File(1) @@ n4 :> Sym @@ n5 :> File(3))

Plains(x, a, b) == T(x, Plain, NoMarks, NoChain, a, b)
Groups(a, b) == T(TRUE, Group, Two, NoChain, a, b)
Proots(a, b) == T(TRUE, Proot, NoMarks, Chain2, a, b)
Legacies(a, b) == T(TRUE, Legacy, LegacyTwo, NoChain, a, b)

\* Two first links of one file, one of them refused or killed.
Firsts ==
    UNION {{ Plains(x, <<Ln(n1, n2)>>, <<Ln(n1, n3), Rm(n3)>>),
             Plains(x, <<Full(Ln(n1, n2)), Ln(n1, n3)>>, <<Ln(n4, n2)>>),
             Plains(x, <<Ln(n1, n2)>>, <<Ln(n4, n2)>>),
             Plains(x, <<Ln(n1, n2)>>, <<Mv(n1, n3)>>) } : x \in BOOLEAN}
    \cup { Plains(TRUE, <<Mortal(Ln(n1, n2))>>, <<Ln(n1, n3), Rm(n3)>>) }

\* Links, unlinks and replacements of the names of a group.
Shared ==
    { Groups(<<Rm(n1)>>, <<Rm(n2)>>),
      Groups(<<Ln(n1, n3), Rm(n3)>>, <<Rm(n2), St(n1)>>),
      Groups(<<Full(Ln(n1, n3))>>, <<Rm(n2), St(n1)>>),
      Groups(<<Mv(n4, n1), St(n1)>>, <<Rm(n2)>>),
      Groups(<<Mv(n1, n2), Mv(n1, n1)>>, <<Ln(n2, n3), St(n2)>>),
      Groups(<<Mortal(Rm(n1))>>, <<Mortal(Ln(n2, n3)), St(n2)>>),
      Groups(<<Ln(n1, n3)>>, <<Ln(n4, n3), St(n4)>>) }

\* proot's group, and updates that are killed.
Chained ==
    { Proots(<<Rm(n1)>>, <<Rm(n2)>>),
      Proots(<<Ln(n1, n3), Ln(n1, n7)>>, <<St(n1)>>),
      Proots(<<Ln(n1, n3)>>, <<Rm(n2), Rm(n1)>>),
      Proots(<<Rm(n1), Rm(n2)>>, <<St(n2)>>),
      Proots(<<Mortal(Ln(n1, n3))>>, <<Rm(n2), St(n1)>>),
      Proots(<<Full(Ln(n1, n3))>>, <<Mortal(Rm(n2))>>) }

\* Names beside their data, moved elsewhere and exchanged; another filesystem; symlinks;
\* a tree that was moved.
Legacied ==
    { Legacies(<<Mv(n1, n7), St(n7)>>, <<Ln(n2, n3), St(n2)>>),
      Legacies(<<Sw(n1, n7), St(n7)>>, <<Ln(n2, n3)>>),
      Legacies(<<Sw(n7, n1), Mv(n1, n5)>>, <<Rm(n2)>>),
      Legacies(<<Ln(n5, n6), Rm(n5)>>, <<Ln(n5, n3)>>),
      Legacies(<<Full(Ln(n5, n6)), Ln(n5, n6)>>, <<Ln(n4, n3)>>),
      Legacies(<<Ln(n5, n3)>>, <<Full(Ln(n5, n3))>>),
      Legacies(<<Ln(n5, n3)>>, <<Ln(n4, n3), Rm(n5)>>),
      T(TRUE, Twin, TwinTwo, NoChain, <<Ln(n5, n6)>>, <<Rm(n2)>>),
      T(TRUE, Tree(n1 :> Stale(5)), NoMarks, NoChain, <<Ln(n1, n2)>>, <<St(n1)>>),
      T(TRUE, Symlinked, NoMarks, NoChain,
        <<Ln(n4, n3), Full(Ln(n4, n2))>>, <<Ln(n4, n3), St(n4)>>),
      T(TRUE, Moved_, Two, NoChain, <<St(n1), Rm(n1)>>, <<Ln(n2, n3)>>) }

\* Any call on n1 beside any on n2, the two of one group.
Beside1 == {Rm(n1), Ln(n1, n3), Full(Ln(n1, n3)), Mv(n1, n3), Mv(n4, n1), Sw(n1, n4), St(n1)}
Beside2 == {Rm(n2), Ln(n2, n7), Mv(n2, n7), St(n2)}
Mixed == UNION {{Groups(<<a>>, <<b>>), Proots(<<a>>, <<b>>),
                 T(TRUE, Lone, LegacyTwo, NoChain, <<a>>, <<b>>)} :
                 a \in Beside1, b \in Beside2}

Everything == Mixed \cup Firsts \cup Shared \cup Chained \cup Legacied

\* Two processes replace one name of a group.
Replaced == { Groups(<<Mv(n4, n1)>>, <<Rm(n1), St(n2)>>) }
=============================================================================
