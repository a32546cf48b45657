----------------------------- MODULE CredProofs -----------------------------
(***************************************************************************)
(* For any number of threads, whatever they call: a reader answers from    *)
(* one set that was the process's, the registry follows it, and a root     *)
(* given up does not come back.                                            *)
(***************************************************************************)
EXTENDS Cred, TLAPS

USE DEF cred_shared

-----------------------------------------------------------------------------
\* The rules of the setters give ids for ids.
LEMMA QuadRules ==
    ASSUME NEW q \in Quads, NEW priv \in BOOLEAN, NEW a \in Int \X Int \X Int
    PROVE  /\ do_setuid(q, priv, a[1]) \in [ret : Int, new : Quads]
           /\ do_setreuid(q, priv, a[1], a[2]) \in [ret : Int, new : Quads]
           /\ do_setresuid(q, priv, a[1], a[2], a[3]) \in [ret : Int, new : Quads]
           /\ do_setfsuid(q, priv, a[1]) \in [ret : Int, new : Quads]
<1>1. a[1] \in Int /\ a[2] \in Int /\ a[3] \in Int
  OBVIOUS
<1>2. q.r \in Int /\ q.e \in Int /\ q.s \in Int /\ q.f \in Int
  BY DEF Quads
<1>3. \A i, j, k, l \in Int : Quad(i, j, k, l) \in Quads
  BY DEF Quad, Quads
<1>4. \A i, j \in Int : NewId(i, j) \in Int
  BY DEF NewId
<1>5. do_setuid(q, priv, a[1]) \in [ret : Int, new : Quads]
  BY <1>1, <1>2, <1>3 DEF do_setuid, Refuse, Grant, Same, EINVAL, EPERM
<1>6. do_setreuid(q, priv, a[1], a[2]) \in [ret : Int, new : Quads]
  <2> DEFINE ne == NewId(a[2], q.e)
             moves == a[1] # ID_KEEP \/ a[2] \notin {ID_KEEP, q.r}
             new == Quad(NewId(a[1], q.r), ne, IF moves THEN ne ELSE q.s, ne)
  <2>1. ne \in Int /\ (IF moves THEN ne ELSE q.s) \in Int
    BY <1>1, <1>2, <1>4
  <2>2. new \in Quads
    BY <1>1, <1>2, <1>3, <1>4, <2>1
  <2>3. do_setreuid(q, priv, a[1], a[2]) \in {Grant(new), Refuse(q, EPERM)}
    BY Zenon DEF do_setreuid
  <2> QED  BY <2>2, <2>3 DEF Refuse, Grant, EPERM
<1>7. do_setresuid(q, priv, a[1], a[2], a[3]) \in [ret : Int, new : Quads]
  <2> DEFINE new == Quad(NewId(a[1], q.r), NewId(a[2], q.e), NewId(a[3], q.s), NewId(a[2], q.e))
  <2>1. new \in Quads
    BY <1>1, <1>2, <1>3, <1>4
  <2>2. do_setresuid(q, priv, a[1], a[2], a[3]) \in {Grant(new), Refuse(q, EPERM)}
    BY Zenon DEF do_setresuid
  <2> QED  BY <2>1, <2>2 DEF Refuse, Grant, EPERM
<1>8. do_setfsuid(q, priv, a[1]) \in [ret : Int, new : Quads]
  BY <1>1, <1>2, <1>3 DEF do_setfsuid
<1> QED  BY <1>5, <1>6, <1>7, <1>8

LEMMA GroupRules ==
    ASSUME NEW l \in Seq(Int), NEW priv \in BOOLEAN, NEW x \in CredCalls
    PROVE  do_setgroups(l, priv, x) \in [ret : Int, new : Seq(Int)]
BY DEF do_setgroups, Refuse, Grant, EPERM, EINVAL, EFAULT, CredCalls

\* What a setter or an exec makes of a set is a set.
LEMMA EditedType ==
    ASSUME NEW c \in CredSet, NEW x \in CredCalls, x.op \in Setters \cup {"exec"},
           cred_scene \in CredScenes
    PROVE  Edited(c, x) \in [ret : Int, set : CredSet]
<1>1. CASE x.op = "exec"
  <2>1. \A q \in Quads, b \in BOOLEAN : ExecQuad(q, b) \in Quads
    BY DEF ExecQuad, Quad, Quads
  <2>2. c.u \in Quads /\ c.g \in Quads /\ c.groups \in Seq(Int)
    BY DEF CredSet
  <2> DEFINE nu == ExecQuad(c.u, cred_scene.setuid_root /\ x.setuid)
             ng == ExecQuad(c.g, cred_scene.setgid_root /\ x.setgid)
  <2>3. nu \in Quads /\ ng \in Quads
    BY <2>1, <2>2
  <2>4. Edited(c, x) = [ret |-> 0, set |-> [c EXCEPT !.u = nu, !.g = ng]]
    BY <1>1 DEF Edited
  <2> HIDE DEF nu, ng
  <2>5. [c EXCEPT !.u = nu, !.g = ng] \in CredSet
    BY <2>2, <2>3 DEF CredSet
  <2> QED  BY <2>4, <2>5
<1>2. CASE x.op # "exec"
  <2>1. c.u \in Quads /\ c.g \in Quads /\ c.groups \in Seq(Int) /\ cred_priv(c) \in BOOLEAN
    BY DEF CredSet, cred_priv
  <2>2. x.a \in Int \X Int \X Int
    BY DEF CredCalls
  <2>3. CASE Part(x) = "u" /\ x.op \in {"setuid", "setreuid", "setresuid", "setfsuid"}
    <3>1. Ruled(c.u, cred_priv(c), x) \in [ret : Int, new : Quads]
      BY <2>1, <2>2, <2>3, QuadRules DEF Ruled
    <3> QED  BY <1>2, <2>1, <2>3, <3>1 DEF Edited, CredSet
  <2>4. CASE Part(x) = "g" /\ x.op \in {"setgid", "setregid", "setresgid", "setfsgid"}
    <3>1. Ruled(c.g, cred_priv(c), x) \in [ret : Int, new : Quads]
      BY <2>1, <2>2, <2>4, QuadRules DEF Ruled
    <3> QED  BY <1>2, <2>1, <2>4, <3>1 DEF Edited, CredSet
  <2>5. CASE Part(x) = "groups" /\ x.op = "setgroups"
    <3>1. Ruled(c.groups, cred_priv(c), x) \in [ret : Int, new : Seq(Int)]
      BY <2>1, <2>5, GroupRules DEF Ruled
    <3> QED  BY <1>2, <2>1, <2>5, <3>1 DEF Edited, CredSet
  <2> QED  BY <1>2, <2>3, <2>4, <2>5 DEF Part, Setters
<1> QED  BY <1>1, <1>2

\* Only a set that has a 0 among its uids is made one with a 0, but by the
\* exec of a set-uid file.
LEMMA RootKept ==
    ASSUME NEW c \in CredSet, NEW x \in CredCalls, x.op \in Setters \cup {"exec"},
           cred_scene \in CredScenes, Rooted(Edited(c, x).set)
    PROVE  Rooted(c) \/ (x.op = "exec" /\ cred_scene.setuid_root /\ x.setuid)
<1>1. SUFFICES ASSUME ~Rooted(c) PROVE x.op = "exec" /\ cred_scene.setuid_root /\ x.setuid
  OBVIOUS
<1>2. c.u \in Quads /\ c.u.r # 0 /\ c.u.e # 0 /\ c.u.s # 0 /\ c.u.f # 0 /\ cred_priv(c) = FALSE
  BY <1>1 DEF CredSet, Rooted, cred_priv
<1>3. CASE x.op = "exec"
  <2>1. Edited(c, x).set.u = ExecQuad(c.u, cred_scene.setuid_root /\ x.setuid)
    BY <1>3 DEF Edited, CredSet
  <2> QED  BY <1>2, <1>3, <2>1 DEF Rooted, ExecQuad, Quad
<1>4. CASE x.op # "exec" /\ Part(x) # "u"
  <2>1. Edited(c, x).set.u = c.u
    BY <1>4 DEF Edited, CredSet
  <2> QED  BY <1>1, <2>1 DEF Rooted
<1>5. CASE x.op # "exec" /\ Part(x) = "u"
  <2> DEFINE n == Ruled(c.u, FALSE, x).new
  <2>1. Edited(c, x).set.u = n
    BY <1>2, <1>5 DEF Edited, CredSet
  <2>2. x.op \in {"setuid", "setreuid", "setresuid", "setfsuid"}
    BY <1>5 DEF Part, Setters
  <2>3. n.r # 0 /\ n.e # 0 /\ n.s # 0 /\ n.f # 0
    <3>1. CASE x.op = "setuid"
      BY <1>2, <3>1 DEF Ruled, do_setuid, Refuse, Grant, Quad
    <3>2. CASE x.op = "setreuid"
      BY <1>2, <3>2 DEF Ruled, do_setreuid, Refuse, Grant, Quad, NewId, ID_KEEP
    <3>3. CASE x.op = "setresuid"
      BY <1>2, <3>3 DEF Ruled, do_setresuid, Refuse, Grant, Quad, NewId, ID_KEEP
    <3>4. CASE x.op = "setfsuid"
      BY <1>2, <3>4 DEF Ruled, do_setfsuid, Quad
    <3> QED  BY <2>2, <3>1, <3>2, <3>3, <3>4
  <2> QED  BY <2>1, <2>3 DEF Rooted
<1> QED  BY <1>3, <1>4, <1>5

-----------------------------------------------------------------------------
LEMMA Rest ==
    ASSUME CredTypes, NEW t \in CredThreads, cred_todo[t] # <<>>
    PROVE  /\ [cred_todo EXCEPT ![t] = Tail(@)] \in [CredThreads -> Seq(CredCalls)]
           /\ CredCall(t) \in CredCalls
BY DEF CredTypes, CredCall

LEMMA PartOf ==
    ASSUME NEW c \in CredSet, NEW d \in CredSet, NEW p \in CredParts
    PROVE  [c EXCEPT ![p] = d[p]] \in CredSet
<1>1. CASE p = "u"
  BY <1>1 DEF CredSet
<1>2. CASE p = "g"
  BY <1>2 DEF CredSet
<1>3. CASE p = "groups"
  BY <1>3 DEF CredSet
<1> QED  BY <1>1, <1>2, <1>3 DEF CredParts

LEMMA LocalsOf ==
    ASSUME NEW r \in Locals, NEW a \in {0, 1}, NEW b \in 1..3, NEW c \in CredSet
    PROVE  /\ [r EXCEPT !.w = a, !.k = b] \in Locals
           /\ [r EXCEPT !.c = a, !.k = b] \in Locals
           /\ [r EXCEPT !.k = b, !.got = c] \in Locals
BY DEF Locals

LEMMA LocalsGet ==
    ASSUME NEW r \in Locals, NEW a, NEW b
    PROVE  /\ [r EXCEPT !.w = a, !.k = b].w = a /\ [r EXCEPT !.w = a, !.k = b].k = b
           /\ [r EXCEPT !.c = a, !.k = b].c = a /\ [r EXCEPT !.c = a, !.k = b].k = b
           /\ [r EXCEPT !.c = a, !.k = b].s = r.s
           /\ [r EXCEPT !.k = a, !.got = b].k = a /\ [r EXCEPT !.k = a, !.got = b].got = b
           /\ [r EXCEPT !.k = a, !.got = b].c = r.c /\ [r EXCEPT !.k = a, !.got = b].s = r.s
BY DEF Locals

\* The types, action by action.
LEMMA TypesStep ==
    ASSUME CredTypes, Called, NEW t \in CredThreads, CredStep(t)
    PROVE  CredTypes'
<1> DEFINE Places == Masked \cup Reading \cup {"idle", "unborn", "gone"}
<1>p. /\ \A p \in Places : [cred_at EXCEPT ![t] = p] \in [CredThreads -> Places]
      /\ Alone(t) \in [CredThreads -> Places]
  BY DEF CredTypes, Alone
<1>v. \A r \in Locals : [cred_v EXCEPT ![t] = r] \in [CredThreads -> Locals]
  BY DEF CredTypes
<1>w. cred_v[t] \in Locals
  BY DEF CredTypes
<1>1. CASE CallSetter(t)
  <2>1. cred_at' \in [CredThreads -> Places]
    BY <1>1, <1>p DEF CallSetter, CredGo, Masked
  <2> QED  BY <1>1, <2>1 DEF CallSetter, CredTypes
<1>2. CASE Lock(t)
  <2>1. cred_at' \in [CredThreads -> Places]
    BY <1>2, <1>p DEF Lock, CredGo, Masked
  <2>2. cred_v' \in [CredThreads -> Locals] /\ g_cred_owner' \in CredThreads \cup {CredNobody}
    <3>1. [cred_v[t] EXCEPT !.w = OtherBuf(cng_g_cred), !.k = 1] \in Locals
      <4>1. OtherBuf(cng_g_cred) \in {0, 1} /\ 1 \in 1..3 /\ reg_ids \in CredSet
        BY DEF CredTypes, OtherBuf
      <4> QED  BY <1>w, <4>1, LocalsOf
    <3>2. [cred_v[t] EXCEPT !.owner = g_cred_owner] \in Locals
      BY <1>w DEF CredTypes, Locals
    <3> QED  BY <1>2, <1>v, <3>1, <3>2 DEF Lock, CredTypes
  <2> QED  BY <1>2, <2>1, <2>2 DEF Lock, CredTypes
<1>3. CASE Steal(t)
  <2>1. cred_at' \in [CredThreads -> Places]
    BY <1>3, <1>p DEF Steal, CredGo, Masked
  <2> QED  BY <1>3, <2>1 DEF Steal, CredTypes
<1>4. CASE Copy(t)
  <2>1. cred_at' \in [CredThreads -> Places]
    BY <1>4, <1>p DEF Copy, CredGo, Masked, CredTypes
  <2>2. cred_v' \in [CredThreads -> Locals]
    <3>1. cred_v[t].k < 3 => [cred_v[t] EXCEPT !.k = cred_v[t].k + 1] \in Locals
      BY <1>w DEF Locals
    <3>2. Len(CopyOrder) = 3
      BY DEF CopyOrder
    <3>3. \/ cred_v[t].k < 3 /\ cred_v' = [cred_v EXCEPT ![t] = [cred_v[t] EXCEPT !.k = cred_v[t].k + 1]]
          \/ cred_v' = cred_v
      BY <1>4, <3>2 DEF Copy, CredTypes
    <3> QED  BY <1>v, <3>1, <3>3 DEF CredTypes
  <2>3. g_cred_buf' \in [{0, 1} -> CredSet]
    <3>1. CopyOrder[cred_v[t].k] \in CredParts
      BY <1>w DEF CopyOrder, CredParts, Locals
    <3>2. cred_v[t].w \in {0, 1} /\ g_cred_buf[cred_v[t].w] \in CredSet /\ CredNow \in CredSet
      BY <1>w DEF CredTypes, Locals, CredNow
    <3> QED  BY <1>4, <3>1, <3>2, PartOf DEF Copy, CredTypes
  <2> QED  BY <1>4, <2>1, <2>2, <2>3 DEF Copy, CredTypes
<1>5. CASE Edit(t)
  <2>1. cred_at' \in [CredThreads -> Places]
    BY <1>5, <1>p DEF Edit, CredGo, Masked
  <2>2. Edited(g_cred_buf[cred_v[t].w], CredCall(t)) \in [ret : Int, set : CredSet]
    <3>1. cred_todo[t] # <<>> /\ CredCall(t).op \in Setters \cup {"exec"}
      BY <1>5 DEF Edit, CredAt, Called, Masked
    <3>2. g_cred_buf[cred_v[t].w] \in CredSet
      BY DEF CredTypes, Locals
    <3> QED  BY <3>1, <3>2, Rest, EditedType DEF CredTypes
  <2>3. cred_v' \in [CredThreads -> Locals] /\ g_cred_buf' \in [{0, 1} -> CredSet]
    <3> DEFINE r == Edited(g_cred_buf[cred_v[t].w], CredCall(t))
    <3>1. [cred_v[t] EXCEPT !.ret = r.ret] \in Locals /\ r.set \in CredSet
      BY <1>w, <2>2 DEF Locals
    <3>2. /\ g_cred_buf' = [g_cred_buf EXCEPT ![cred_v[t].w] = r.set]
          /\ cred_v' = [cred_v EXCEPT ![t] = [cred_v[t] EXCEPT !.ret = r.ret]]
      BY <1>5 DEF Edit, CredTypes
    <3> HIDE DEF r
    <3> QED  BY <1>v, <3>1, <3>2 DEF CredTypes
  <2> QED  BY <1>5, <2>1, <2>3 DEF Edit, CredTypes
<1>6. CASE Store(t)
  <2>1. cred_at' \in [CredThreads -> Places]
    BY <1>6, <1>p DEF Store, CredGo, Masked
  <2>2. cng_g_cred' \in {0, 1} /\ cred_seen' \in [CredThreads -> SUBSET CredSet]
    BY <1>6 DEF Store, CredTypes, Locals
  <2> QED  BY <1>6, <2>1, <2>2 DEF Store, CredTypes
<1>7. CASE Bump(t)
  <2>1. cred_at' \in [CredThreads -> Places]
    BY <1>7, <1>p DEF Bump, CredGo, Masked
  <2> QED  BY <1>7, <2>1 DEF Bump, CredTypes
<1>8. CASE Publish(t)
  <2>1. cred_at' \in [CredThreads -> Places]
    BY <1>8, <1>p DEF Publish, CredGo, Masked
  <2> QED  BY <1>8, <2>1 DEF Publish, CredTypes, CredNow
<1>d. ASSUME NEW a, CredDone(t, a), cred_todo[t] # <<>>
      PROVE  /\ cred_at' \in [CredThreads -> Places] /\ DOMAIN cred_ans' = CredThreads
             /\ cred_todo' \in [CredThreads -> Seq(CredCalls)]
  BY <1>d, <1>p, Rest DEF CredDone, CredGo, CredTypes
<1>9. CASE Unlock(t)
  <2>1. cred_todo[t] # <<>>
    BY <1>9 DEF Unlock, CredAt, Called
  <2> QED  BY <1>9, <1>d, <2>1 DEF Unlock, CredTypes
<1>10. CASE CallGetter(t)
  <2>1. /\ cred_at' \in [CredThreads -> Places] /\ DOMAIN cred_ans' = CredThreads
        /\ cred_todo' \in [CredThreads -> Seq(CredCalls)] /\ cred_seen' \in [CredThreads -> SUBSET CredSet]
    <3>1. CASE CredDone(t, Reply(CapHeader(CredCall(t)))) /\ UNCHANGED cred_seen
      BY <1>10, <1>d, <3>1 DEF CallGetter, CredBegin, CredTypes
    <3>2. CASE /\ CredGo(t, "seq") /\ UNCHANGED cred_todo
               /\ cred_ans' = [cred_ans EXCEPT ![t] = Silent]
               /\ cred_seen' = [cred_seen EXCEPT ![t] = {CredNow}]
      BY <1>p, <3>2 DEF CredGo, Reading, CredTypes, CredNow
    <3> QED  BY <1>10, <3>1, <3>2 DEF CallGetter
  <2> QED  BY <1>10, <2>1 DEF CallGetter, CredTypes
<1>11. CASE ReadSeq(t)
  <2>1. cred_at' \in [CredThreads -> Places]
    BY <1>11, <1>p DEF ReadSeq, CredGo, Reading
  <2>2. [cred_v[t] EXCEPT !.s = g_cred_seq] \in Locals
    BY <1>w DEF Locals, CredTypes
  <2> QED  BY <1>11, <1>v, <2>1, <2>2 DEF ReadSeq, CredTypes
<1>12. CASE ReadPtr(t)
  <2>1. cred_at' \in [CredThreads -> Places]
    BY <1>12, <1>p DEF ReadPtr, CredGo, Reading
  <2>2. [cred_v[t] EXCEPT !.c = cng_g_cred, !.k = 1] \in Locals
    <3>1. cng_g_cred \in {0, 1} /\ 1 \in 1..3 /\ reg_ids \in CredSet
      BY DEF CredTypes
    <3> QED  BY <1>w, <3>1, LocalsOf
  <2> QED  BY <1>12, <1>v, <2>1, <2>2 DEF ReadPtr, CredTypes
<1>13. CASE Read(t)
  <2>1. cred_at' \in [CredThreads -> Places]
    BY <1>13, <1>p DEF Read, CredGo, Reading, CredTypes
  <2>2. cred_v' \in [CredThreads -> Locals]
    <3> DEFINE o == ReadOrder(CredCall(t))
               k == cred_v[t].k
               g == [cred_v[t].got EXCEPT ![o[k]] = g_cred_buf[cred_v[t].c][o[k]]]
    <3>1. Len(o) \in {1, 2} /\ \A i \in 1..Len(o) : o[i] \in CredParts
      BY DEF ReadOrder, CredParts
    <3>2. k \in 1..3 /\ cred_v[t].got \in CredSet /\ g_cred_buf[cred_v[t].c] \in CredSet
      BY <1>w DEF Locals, CredTypes
    <3>3. ASSUME k <= Len(o)
          PROVE  [cred_v[t] EXCEPT !.k = k + 1, !.got = g] \in Locals
      <4>1. o[k] \in CredParts /\ k + 1 \in 1..3
        BY <3>1, <3>2, <3>3
      <4>2. g \in CredSet
        BY <3>2, <4>1, PartOf
      <4> HIDE DEF g
      <4> QED  BY <1>w, <4>1, <4>2, LocalsOf
    <3>4. \/ cred_v' = cred_v
          \/ ~(k > Len(o)) /\ cred_v' = [cred_v EXCEPT ![t] = [cred_v[t] EXCEPT !.k = k + 1, !.got = g]]
      BY <1>13, <1>w DEF Read, CredTypes
    <3>5. k <= Len(o) \/ k > Len(o)
      BY <3>1, <3>2
    <3> HIDE DEF g, o
    <3> QED  BY <1>v, <3>2, <3>3, <3>4, <3>5 DEF CredTypes
  <2> QED  BY <1>13, <2>1, <2>2 DEF Read, CredTypes
<1>14. CASE Check(t)
  <2>1. cred_todo[t] # <<>>
    BY <1>14 DEF Check, CredAt, Called
  <2>2. /\ cred_at' \in [CredThreads -> Places] /\ DOMAIN cred_ans' = CredThreads
        /\ cred_todo' \in [CredThreads -> Seq(CredCalls)]
    BY <1>14, <1>d, <1>p, <2>1 DEF Check, CredGo, Reading, CredTypes
  <2> QED  BY <1>14, <2>2 DEF Check, CredTypes
<1>15. CASE CallHost(t)
  <2>1. \E a : CredDone(t, a)
    BY <1>15 DEF CallHost
  <2> QED  BY <1>15, <1>d, <2>1 DEF CallHost, CredBegin, CredTypes
<1>16. CASE Fork(t)
  BY <1>16, <1>p, Rest DEF Fork, CredBegin, CredTypes, CredNow
<1>17. CASE CloneThread(t)
  <2>1. cred_at' \in [CredThreads -> Places]
    BY <1>17 DEF CloneThread, CredTypes
  <2> QED  BY <1>17, <2>1, Rest DEF CloneThread, CredBegin, CredTypes
<1> QED  BY <1>1, <1>2, <1>3, <1>4, <1>5, <1>6, <1>7, <1>8, <1>9, <1>10, <1>11, <1>12, <1>13,
            <1>14, <1>15, <1>16, <1>17 DEF CredStep

-----------------------------------------------------------------------------
\* What a step leaves of another thread: its place, if it is not just born;
\* a place nobody is at, in a fork or an exec; and its locals.
Stays(o) == cred_at'[o] = cred_at[o] \/ (cred_at[o] = "unborn" /\ cred_at'[o] = "idle")
Leaves(o) == cred_at'[o] \in {"unborn", "gone"} /\ cred_at'[o] \in {cred_at[o], "gone"}
Keeps(o) == cred_v'[o] = cred_v[o] /\ cred_todo'[o] = cred_todo[o] /\ cred_ans'[o] = cred_ans[o]
Beside(t) == CredThreads \ {t}

LEMMA Others ==
    ASSUME CredTypes, NEW t \in CredThreads, CredStep(t)
    PROVE  /\ cred_scene' = cred_scene /\ cred_at[t] \notin {"unborn", "gone"}
           /\ (\A o \in Beside(t) : Stays(o)) \/ (\A o \in Beside(t) : Leaves(o))
           /\ \A o \in Beside(t) : Keeps(o)
<1>g. ASSUME NEW p, CredGo(t, p)
      PROVE  \A o \in Beside(t) : Stays(o)
  BY <1>g DEF CredGo, CredTypes, Stays, Leaves, Keeps, Beside
<1>d. ASSUME NEW a, CredDone(t, a)
      PROVE  \A o \in Beside(t) : Stays(o) /\ cred_todo'[o] = cred_todo[o] /\ cred_ans'[o] = cred_ans[o]
  BY <1>d DEF CredDone, CredGo, CredTypes, Stays, Leaves, Keeps, Beside
<1>v. ASSUME NEW r, cred_v' = [cred_v EXCEPT ![t] = r]
      PROVE  \A o \in Beside(t) : cred_v'[o] = cred_v[o]
  BY <1>v DEF CredTypes, Stays, Leaves, Keeps, Beside
<1>a. \A o \in Beside(t) : Alone(t)[o] \in {"unborn", "gone"} /\ Alone(t)[o] \in {cred_at[o], "gone"}
  BY DEF Alone, Stays, Leaves, Keeps, Beside
<1>2. CASE CallSetter(t)
  <2>1. CASE CredGo(t, "lock")
    BY <1>2, <1>g, <2>1 DEF CallSetter, CredBegin, CredAt, Stays, Leaves, Keeps, Beside
  <2>2. CASE cred_at' = [Alone(t) EXCEPT ![t] = "lock"]
    <3>1. \A o \in Beside(t) : cred_at'[o] = Alone(t)[o]
      BY <2>2 DEF Alone, Stays, Leaves, Keeps, Beside
    <3> QED  BY <1>2, <1>a, <3>1 DEF CallSetter, CredBegin, CredAt, Stays, Leaves, Keeps
  <2> QED  BY <1>2, <2>1, <2>2 DEF CallSetter, Stays, Leaves, Keeps, Beside
<1>3. CASE Lock(t)
  BY <1>3, <1>g, <1>v DEF Lock, CredAt, Stays, Leaves, Keeps, Beside
<1>4. CASE Steal(t)
  BY <1>4, <1>g DEF Steal, CredAt, Stays, Leaves, Keeps, Beside
<1>5. CASE Copy(t)
  BY <1>5, <1>g, <1>v DEF Copy, CredAt, Stays, Leaves, Keeps, Beside
<1>6. CASE Edit(t)
  BY <1>6, <1>g, <1>v DEF Edit, CredAt, Stays, Leaves, Keeps, Beside
<1>7. CASE Store(t) \/ Bump(t) \/ Publish(t)
  BY <1>7, <1>g DEF Store, Bump, Publish, CredAt, Stays, Leaves, Keeps, Beside
<1>8. CASE Unlock(t)
  BY <1>8, <1>d DEF Unlock, CredAt, Stays, Leaves, Keeps, Beside
<1>9. CASE CallGetter(t)
  <2>1. (\A o \in Beside(t) : Stays(o)) /\ \A o \in Beside(t) : cred_todo'[o] = cred_todo[o] /\ cred_ans'[o] = cred_ans[o]
    <3>1. CASE CredDone(t, Reply(CapHeader(CredCall(t))))
      BY <1>d, <3>1
    <3>2. CASE CredGo(t, "seq") /\ UNCHANGED cred_todo /\ cred_ans' = [cred_ans EXCEPT ![t] = Silent]
      BY <1>g, <3>2 DEF CredTypes, Stays, Leaves, Keeps, Beside
    <3> QED  BY <1>9, <3>1, <3>2 DEF CallGetter
  <2> QED  BY <1>9, <2>1 DEF CallGetter, CredBegin, CredAt, Stays, Leaves, Keeps, Beside
<1>10. CASE ReadSeq(t) \/ ReadPtr(t)
  BY <1>10, <1>g, <1>v DEF ReadSeq, ReadPtr, CredAt, Stays, Leaves, Keeps, Beside
<1>11. CASE Read(t)
  BY <1>11, <1>g, <1>v DEF Read, CredAt, Stays, Leaves, Keeps, Beside
<1>12. CASE Check(t)
  BY <1>12, <1>g, <1>d DEF Check, CredAt, Stays, Leaves, Keeps, Beside
<1>13. CASE CallHost(t)
  <2>1. \E a : CredDone(t, a)
    BY <1>13 DEF CallHost, Stays, Leaves, Keeps, Beside
  <2> QED  BY <1>13, <1>d, <2>1 DEF CallHost, CredBegin, CredAt, Stays, Leaves, Keeps, Beside
<1>t. ASSUME cred_todo' = [cred_todo EXCEPT ![t] = Tail(@)]
      PROVE  \A o \in Beside(t) : cred_todo'[o] = cred_todo[o]
  BY <1>t DEF CredTypes, Stays, Leaves, Keeps, Beside
<1>14. CASE Fork(t)
  BY <1>14, <1>a, <1>t DEF Fork, CredBegin, CredAt, Stays, Leaves, Keeps, Beside
<1>15. CASE CloneThread(t)
  <2>1. \A o \in Beside(t) : Stays(o)
    BY <1>15 DEF CloneThread, CredAt, CredTypes, Stays, Leaves, Keeps, Beside
  <2> QED  BY <1>15, <1>t, <2>1 DEF CloneThread, CredBegin, CredAt, Stays, Leaves, Keeps, Beside
<1> QED  BY <1>2, <1>3, <1>4, <1>5, <1>6, <1>7, <1>8, <1>9, <1>10, <1>11, <1>12, <1>13, <1>14,
            <1>15 DEF CredStep

\* Where a step of t takes it, and by which action it gets there.
LEMMA Goes ==
    ASSUME CredTypes, NEW t \in CredThreads, CredStep(t)
    PROVE  /\ cred_at'[t] = "lock" => CallSetter(t) \/ Steal(t)
           /\ cred_at'[t] = "dead" => Lock(t) /\ g_cred_owner # CredNobody
           /\ cred_at'[t] = "copy" => (Lock(t) /\ g_cred_owner = CredNobody) \/ Copy(t)
           /\ cred_at'[t] = "edit" => Copy(t)
           /\ cred_at'[t] = "store" => Edit(t)
           /\ cred_at'[t] = "bump" => Store(t)
           /\ cred_at'[t] = "publish" => Bump(t)
           /\ cred_at'[t] = "unlock" => Publish(t) \/ Edit(t)
           /\ cred_at'[t] = "seq" => CallGetter(t) \/ Check(t)
           /\ cred_at'[t] = "ptr" => ReadSeq(t)
           /\ cred_at'[t] = "read" => ReadPtr(t) \/ Read(t)
           /\ cred_at'[t] = "check" => Read(t)
           /\ cred_at'[t] \notin {"unborn", "gone"}
<1>g. ASSUME NEW p, CredGo(t, p)
      PROVE  cred_at'[t] = p
  BY <1>g DEF CredGo, CredTypes
<1>d. ASSUME NEW a, CredDone(t, a)
      PROVE  cred_at'[t] = "idle"
  BY <1>d, <1>g DEF CredDone
<1>2. CASE CallSetter(t)
  <2>1. cred_at'[t] = "lock"
    BY <1>2, <1>g DEF CallSetter, Alone
  <2> QED  BY <1>2, <2>1
<1>3. CASE Lock(t)
  BY <1>3, <1>g DEF Lock
<1>4. CASE Steal(t)
  BY <1>4, <1>g DEF Steal
<1>5. CASE Copy(t)
  BY <1>5, <1>g DEF Copy, CredAt
<1>6. CASE Edit(t)
  BY <1>6, <1>g DEF Edit
<1>7. CASE Store(t) \/ Bump(t) \/ Publish(t)
  BY <1>7, <1>g DEF Store, Bump, Publish
<1>8. CASE Unlock(t)
  BY <1>8, <1>d DEF Unlock
<1>9. CASE CallGetter(t)
  BY <1>9, <1>g, <1>d DEF CallGetter
<1>10. CASE ReadSeq(t) \/ ReadPtr(t)
  BY <1>10, <1>g DEF ReadSeq, ReadPtr
<1>11. CASE Read(t)
  BY <1>11, <1>g DEF Read, CredAt
<1>12. CASE Check(t)
  BY <1>12, <1>g, <1>d DEF Check
<1>13. CASE CallHost(t)
  <2>1. \E a : CredDone(t, a)
    BY <1>13 DEF CallHost
  <2> QED  BY <1>d, <2>1
<1>14. CASE Fork(t)
  BY <1>14 DEF Fork, Alone, CredBegin, CredAt
<1>15. CASE CloneThread(t)
  BY <1>15 DEF CloneThread, CredBegin, CredAt, CredTypes
<1> QED  BY <1>2, <1>3, <1>4, <1>5, <1>6, <1>7, <1>8, <1>9, <1>10, <1>11, <1>12, <1>13, <1>14,
            <1>15 DEF CredStep

-----------------------------------------------------------------------------
LEMMA CalledStep ==
    ASSUME CredTypes, Called, NEW t \in CredThreads, CredStep(t)
    PROVE  Called'
<1> SUFFICES ASSUME NEW o \in CredThreads
             PROVE  /\ cred_at'[o] \in {"idle", "unborn", "gone"} \/ cred_todo'[o] # <<>>
                    /\ cred_at'[o] \in Masked => Head(cred_todo'[o]).op \in Setters \cup {"exec"}
                    /\ cred_at'[o] \in Reading => Head(cred_todo'[o]).op \in Getters
  BY DEF Called, CredAt, CredCall
<1>1. CASE o # t
  BY <1>1, Others DEF Called, CredAt, CredCall, Beside, Stays, Leaves, Keeps, Masked, Reading
<1>2. CASE o = t /\ cred_at'[t] \in Masked
  <2>1. CASE CallSetter(t)
    BY <1>2, <2>1 DEF CallSetter, CredBegin, CredCall, Masked, Reading
  <2>2. CASE Lock(t) \/ Steal(t) \/ Copy(t) \/ Edit(t) \/ Store(t) \/ Bump(t) \/ Publish(t)
    <3>1. cred_at[t] \in Masked /\ cred_todo' = cred_todo
      BY <2>2 DEF Lock, Steal, Copy, Edit, Store, Bump, Publish, CredAt, Masked
    <3> QED  BY <1>2, <3>1 DEF Called, CredAt, CredCall, Masked, Reading
  <2> QED  BY <1>2, <2>1, <2>2, Goes DEF Masked
<1>3. CASE o = t /\ cred_at'[t] \in Reading
  <2>1. CASE CallGetter(t)
    <3>1. cred_at'[t] # "idle"
      BY <1>3 DEF Reading
    <3>2. cred_todo' = cred_todo
      BY <2>1, <3>1 DEF CallGetter, CredDone, CredGo, CredTypes
    <3> QED  BY <1>3, <2>1, <3>2 DEF CallGetter, CredBegin, CredCall, Masked, Reading
  <2>2. CASE ReadSeq(t) \/ ReadPtr(t) \/ Read(t) \/ Check(t)
    <3>1. cred_at[t] \in Reading /\ cred_todo' = cred_todo
      BY <1>3, <2>2 DEF ReadSeq, ReadPtr, Read, Check, CredAt, Reading, CredDone, CredGo, CredTypes
    <3> QED  BY <1>3, <3>1 DEF Called, CredAt, CredCall, Masked, Reading
  <2> QED  BY <1>3, <2>1, <2>2, Goes DEF Reading
<1>4. CASE o = t /\ cred_at'[t] \notin Masked \cup Reading
  <2>1. cred_at'[t] \in Masked \cup Reading \cup {"idle", "unborn", "gone"}
    BY TypesStep DEF CredTypes
  <2> QED  BY <1>4, <2>1
<1> QED  BY <1>1, <1>2, <1>3, <1>4

\* Which actions write the lock, and the set's memory.
LEMMA LockKept ==
    ASSUME NEW t \in CredThreads, CredStep(t)
    PROVE  Lock(t) \/ Steal(t) \/ Unlock(t) \/ g_cred_owner' = g_cred_owner
BY DEF CredStep, CallSetter, Copy, Edit, Store, Bump, Publish, CallGetter, ReadSeq, ReadPtr, Read,
       Check, CallHost, Fork, CloneThread

LEMMA SetKept ==
    ASSUME NEW t \in CredThreads, CredStep(t)
    PROVE  /\ Copy(t) \/ Edit(t) \/ g_cred_buf' = g_cred_buf
           /\ Store(t) \/ cng_g_cred' = cng_g_cred
           /\ Bump(t) \/ g_cred_seq' = g_cred_seq
           /\ Publish(t) \/ Fork(t) \/ reg_ids' = reg_ids
           /\ Store(t) \/ CallGetter(t) \/ cred_seen' = cred_seen
BY DEF CredStep, CallSetter, Lock, Steal, Copy, Edit, Store, Bump, Publish, Unlock, CallGetter,
       ReadSeq, ReadPtr, Read, Check, CallHost, Fork, CloneThread

LEMMA OneWriterStep ==
    ASSUME CredTypes, OneWriter, NEW t \in CredThreads, CredStep(t)
    PROVE  OneWriter'
<1>1. ASSUME NEW o \in CredThreads, cred_at'[o] \in Writing
      PROVE  g_cred_owner' = o
  <2>1. CASE o = t
    <3>1. CASE Lock(t)
      BY <1>1, <2>1, <3>1 DEF Lock, CredGo, CredTypes, Writing
    <3>2. CASE Copy(t) \/ Edit(t) \/ Store(t) \/ Bump(t) \/ Publish(t)
      <4>1. cred_at[t] \in Writing /\ g_cred_owner' = g_cred_owner
        BY <3>2 DEF Copy, Edit, Store, Bump, Publish, CredAt, Writing
      <4> QED  BY <2>1, <4>1 DEF OneWriter
    <3> QED  BY <1>1, <2>1, <3>1, <3>2, Goes DEF Writing
  <2>2. CASE o # t
    <3>1. cred_at[o] \in Writing /\ g_cred_owner = o /\ cred_at[o] # "gone"
      BY <1>1, <2>2, Others DEF Beside, Stays, Leaves, Writing, OneWriter
    <3>2. ~Unlock(t)
      BY <2>2, <3>1 DEF Unlock, CredAt, OneWriter, Writing
    <3>3. Lock(t) => g_cred_owner' = g_cred_owner
      BY <3>1, CredAssumption DEF Lock
    <3>4. Steal(t) => g_cred_owner' = g_cred_owner
      BY <3>1 DEF Steal, OneWriter
    <3> QED  BY <3>1, <3>2, <3>3, <3>4, LockKept
  <2> QED  BY <2>1, <2>2
<1>2. ASSUME g_cred_owner' # CredNobody
      PROVE  cred_at'[g_cred_owner'] # "unborn"
  <2>1. g_cred_owner' = t \/ (g_cred_owner' = g_cred_owner /\ g_cred_owner \in CredThreads)
    BY <1>2, LockKept DEF Lock, Steal, Unlock, CredTypes
  <2>2. CASE g_cred_owner' = t
    BY <2>2, Goes
  <2>3. CASE g_cred_owner' = g_cred_owner /\ g_cred_owner \in CredThreads /\ g_cred_owner # t
    BY <1>2, <2>3, Others DEF OneWriter, Beside, Stays, Leaves
  <2> QED  BY <2>1, <2>2, <2>3
<1>3. ASSUME NEW o \in CredThreads, cred_at'[o] = "dead"
      PROVE  cred_v'[o].owner \in CredThreads /\ cred_at'[cred_v'[o].owner] = "gone"
  <2>1. cred_v'[o].owner \in CredThreads /\ cred_at[cred_v'[o].owner] = "gone"
    <3>1. CASE o = t
      <4>1. Lock(t) /\ g_cred_owner # CredNobody
        BY <1>3, <3>1, Goes
      <4>2. g_cred_owner \in CredThreads /\ cred_at[g_cred_owner] = "gone"
        BY <4>1 DEF Lock, CredLive, OneWriter, CredTypes
      <4>3. cred_v'[t].owner = g_cred_owner
        BY <4>1 DEF Lock, CredTypes, Locals
      <4> QED  BY <3>1, <4>2, <4>3
    <3>2. CASE o # t
      BY <1>3, <3>2, Others DEF Beside, Stays, Leaves, Keeps, OneWriter, CredAt
    <3> QED  BY <3>1, <3>2
  <2>2. cred_v'[o].owner # t
    BY <2>1, Others
  <2> QED  BY <2>1, <2>2, Others DEF Beside, Stays, Leaves
<1> QED  BY <1>1, <1>2, <1>3 DEF OneWriter, CredAt

\* Nobody but its writer touches a draft, and a draft is never the set.
LEMMA Undisturbed ==
    ASSUME CredTypes, OneWriter, NEW t \in CredThreads, CredStep(t),
           NEW o \in CredThreads \ {t}, cred_at[o] \in Writing
    PROVE  g_cred_buf' = g_cred_buf /\ cng_g_cred' = cng_g_cred /\ g_cred_seq' = g_cred_seq
<1>1. cred_at[t] \notin Writing
  BY DEF OneWriter
<1> QED  BY <1>1, SetKept DEF Copy, Edit, Store, Bump, CredAt, Writing

LEMMA NowKept ==
    ASSUME CredTypes, Draft, NEW t \in CredThreads, CredStep(t), ~Store(t)
    PROVE  CredNow' = CredNow
<1>1. cng_g_cred' = cng_g_cred
  BY SetKept
<1>2. g_cred_buf'[cng_g_cred] = g_cred_buf[cng_g_cred]
  <2>1. CASE g_cred_buf' = g_cred_buf
    BY <2>1
  <2>2. CASE Copy(t) \/ Edit(t)
    <3>1. cred_v[t].w = OtherBuf(cng_g_cred)
      BY <2>2 DEF Copy, Edit, CredAt, Draft
    <3>2. cred_v[t].w # cng_g_cred
      BY <3>1 DEF OtherBuf, CredTypes
    <3>3. \E r : g_cred_buf' = [g_cred_buf EXCEPT ![cred_v[t].w] = r]
      BY <2>2 DEF Copy, Edit
    <3> QED  BY <3>2, <3>3 DEF CredTypes
  <2> QED  BY <2>1, <2>2, SetKept
<1> QED  BY <1>1, <1>2 DEF CredNow

LEMMA DraftStep ==
    ASSUME CredTypes, Called, OneWriter, Draft, NEW t \in CredThreads, CredStep(t)
    PROVE  Draft'
<1> DEFINE Drafted(o) == LET w == cred_v[o].w IN
        /\ cred_at[o] \in {"copy", "edit", "store"} => w = OtherBuf(cng_g_cred)
        /\ cred_at[o] = "copy" =>
            \A i \in 1..(cred_v[o].k - 1) : g_cred_buf[w][CopyOrder[i]] = CredNow[CopyOrder[i]]
        /\ cred_at[o] = "edit" => g_cred_buf[w] = CredNow
        /\ cred_at[o] = "store" => g_cred_buf[w] = Edited(CredNow, Head(cred_todo[o])).set
<1>1. \A o \in CredThreads : Drafted(o)
  BY DEF Draft, CredAt, CredCall
<1>2. SUFFICES ASSUME NEW o \in CredThreads PROVE Drafted(o)'
  BY DEF Draft, CredAt, CredCall
<1>3. CASE o # t
  <2>1. SUFFICES ASSUME cred_at'[o] \in {"copy", "edit", "store"} PROVE Drafted(o)'
    OBVIOUS
  <2>2. cred_at'[o] = cred_at[o] /\ cred_at[o] \in Writing
    BY <1>3, <2>1, Others DEF Beside, Stays, Leaves, Writing
  <2>3. /\ cred_v'[o] = cred_v[o] /\ cred_todo'[o] = cred_todo[o] /\ cred_scene' = cred_scene
        /\ g_cred_buf' = g_cred_buf /\ cng_g_cred' = cng_g_cred
    BY <1>3, <2>2, Others, Undisturbed DEF Beside, Keeps
  <2>4. Edited(CredNow, Head(cred_todo[o]))' = Edited(CredNow, Head(cred_todo[o]))
    BY <2>3 DEF Edited, CredNow
  <2> QED  BY <1>1, <2>2, <2>3, <2>4 DEF CredNow, OtherBuf
<1>4. CASE o = t /\ cred_at'[t] = "copy"
  <2>1. CASE Lock(t) /\ g_cred_owner = CredNobody
    <3>1. cred_v'[t].w = OtherBuf(cng_g_cred) /\ cred_v'[t].k = 1 /\ cng_g_cred' = cng_g_cred
      <4>1. cred_v'[t] = [cred_v[t] EXCEPT !.w = OtherBuf(cng_g_cred), !.k = 1]
        BY <2>1 DEF Lock, CredTypes
      <4>2. cred_v[t] \in Locals
        BY DEF CredTypes
      <4> QED  BY <2>1, <4>1, <4>2, LocalsGet DEF Lock
    <3> QED  BY <1>4, <3>1 DEF OtherBuf
  <2>2. CASE Copy(t)
    <3> DEFINE w == cred_v[t].w
               k == cred_v[t].k
    <3>1. /\ w = OtherBuf(cng_g_cred) /\ cng_g_cred' = cng_g_cred /\ w \in {0, 1} /\ k \in 1..3
          /\ g_cred_buf' = [g_cred_buf EXCEPT ![w] = [g_cred_buf[w] EXCEPT ![CopyOrder[k]] = CredNow[CopyOrder[k]]]]
          /\ g_cred_buf[w] \in CredSet
          /\ \A i \in 1..(k - 1) : g_cred_buf[w][CopyOrder[i]] = CredNow[CopyOrder[i]]
      BY <1>1, <2>2 DEF Copy, CredAt, CredTypes, Locals
    <3>2. CredNow' = CredNow
      BY <2>2, NowKept DEF Copy, Store, CredAt
    <3>3. cred_v'[t].w = w /\ cred_v'[t].k = k + 1
      <4>1. cred_v' = [cred_v EXCEPT ![t] = [cred_v[t] EXCEPT !.k = cred_v[t].k + 1]]
        BY <1>4, <2>2 DEF Copy, CredGo, CredTypes
      <4>2. cred_v[t] \in Locals
        BY DEF CredTypes
      <4> QED  BY <4>1, <4>2 DEF CredTypes, Locals
    <3>4. ASSUME NEW i \in 1..k
          PROVE  g_cred_buf'[w][CopyOrder[i]] = CredNow[CopyOrder[i]]
      <4>1. CopyOrder[i] \in DOMAIN g_cred_buf[w] /\ CopyOrder[k] \in DOMAIN g_cred_buf[w]
        BY <3>1, <3>4 DEF CopyOrder, CredSet
      <4>2. g_cred_buf'[w] = [g_cred_buf[w] EXCEPT ![CopyOrder[k]] = CredNow[CopyOrder[k]]]
        BY <3>1 DEF CredTypes
      <4>3. i = k \/ i \in 1..(k - 1)
        BY <3>1, <3>4
      <4> HIDE DEF w, k
      <4> QED  BY <3>1, <4>1, <4>2, <4>3
    <3> HIDE DEF w, k
    <3> QED  BY <1>4, <3>1, <3>2, <3>3, <3>4 DEF OtherBuf
  <2> QED  BY <1>4, <2>1, <2>2, Goes
<1>5. CASE o = t /\ cred_at'[t] = "edit"
  <2> DEFINE w == cred_v[t].w
  <2>1. Copy(t)
    BY <1>5, Goes
  <2>2. CredNow' = CredNow
    BY <2>1, NowKept DEF Copy, Store, CredAt
  <2>3. cred_at[t] = "copy" /\ cred_v[t].k = 3 /\ cred_v' = cred_v
    BY <1>5, <2>1 DEF Copy, CredAt, CredTypes, Locals, CopyOrder
  <2>4. /\ w = OtherBuf(cng_g_cred) /\ cng_g_cred' = cng_g_cred /\ w \in {0, 1}
        /\ g_cred_buf' = [g_cred_buf EXCEPT ![w] = [g_cred_buf[w] EXCEPT !["groups"] = CredNow["groups"]]]
        /\ g_cred_buf[w] \in CredSet /\ CredNow \in CredSet
        /\ g_cred_buf[w].u = CredNow.u /\ g_cred_buf[w].g = CredNow.g
    <3>1. w = OtherBuf(cng_g_cred) /\ cng_g_cred' = cng_g_cred /\ w \in {0, 1}
      BY <1>1, <2>1, <2>3 DEF Copy, CredTypes, Locals
    <3>2. g_cred_buf[w] \in CredSet /\ CredNow \in CredSet
      BY <3>1 DEF CredTypes, CredNow
    <3>3. CopyOrder[1] = "u" /\ CopyOrder[2] = "g" /\ CopyOrder[3] = "groups"
      BY DEF CopyOrder
    <3>4. g_cred_buf' = [g_cred_buf EXCEPT ![w] = [g_cred_buf[w] EXCEPT !["groups"] = CredNow["groups"]]]
      BY <2>1, <2>3, <3>1, <3>3 DEF Copy, CredTypes
    <3>5. \A i \in 1..2 : g_cred_buf[w][CopyOrder[i]] = CredNow[CopyOrder[i]]
      BY <1>1, <2>3
    <3> HIDE DEF w
    <3>6. g_cred_buf[w].u = CredNow.u /\ g_cred_buf[w].g = CredNow.g
      BY <3>3, <3>5
    <3> QED  BY <3>1, <3>2, <3>4, <3>6
  <2>5. [g_cred_buf[w] EXCEPT !["groups"] = CredNow["groups"]] = CredNow
    <3> HIDE DEF w
    <3> QED  BY <2>4 DEF CredSet
  <2>6. g_cred_buf'[w] = CredNow
    BY <2>4, <2>5 DEF CredTypes
  <2> HIDE DEF w
  <2> QED  BY <1>5, <2>2, <2>3, <2>4, <2>6 DEF OtherBuf, w
<1>6. CASE o = t /\ cred_at'[t] = "store"
  <2> DEFINE w == cred_v[t].w
  <2>1. Edit(t)
    BY <1>6, Goes
  <2>2. CredNow' = CredNow
    BY <2>1, NowKept DEF Edit, Store, CredAt
  <2>3. cred_at[t] = "edit" /\ cred_todo' = cred_todo /\ cred_scene' = cred_scene /\ cng_g_cred' = cng_g_cred
    BY <2>1 DEF Edit, CredAt
  <2>4. /\ w = OtherBuf(cng_g_cred) /\ w \in {0, 1} /\ g_cred_buf[w] = CredNow
        /\ cred_v'[t].w = w
    <3>1. cred_v' = [cred_v EXCEPT ![t] = [cred_v[t] EXCEPT !.ret = Edited(g_cred_buf[w], CredCall(t)).ret]]
      BY <2>1 DEF Edit, CredTypes
    <3>2. cred_v[t] \in Locals
      BY DEF CredTypes
    <3>3. cred_v'[t].w = w
      BY <3>1, <3>2 DEF CredTypes, Locals
    <3> QED  BY <1>1, <2>3, <3>2, <3>3 DEF Locals
  <2>5. g_cred_buf'[w] = Edited(CredNow, Head(cred_todo[t])).set
    BY <2>1, <2>4 DEF Edit, CredTypes, CredCall
  <2>6. Edited(CredNow, Head(cred_todo[t]))' = Edited(CredNow, Head(cred_todo[t]))
    BY <2>2, <2>3 DEF Edited
  <2> HIDE DEF w
  <2> QED  BY <1>6, <2>2, <2>3, <2>4, <2>5, <2>6 DEF OtherBuf
<1> QED  BY <1>3, <1>4, <1>5, <1>6

\* A buffer somebody may read from is nobody's draft.
LEMMA BufKept ==
    ASSUME CredTypes, OneWriter, Draft, NEW t \in CredThreads, CredStep(t), NEW c \in {0, 1},
           c = cng_g_cred \/ \E o \in CredThreads : cred_at[o] = "bump"
    PROVE  g_cred_buf'[c] = g_cred_buf[c]
<1>1. CASE g_cred_buf' = g_cred_buf
  BY <1>1
<1>2. CASE Copy(t) \/ Edit(t)
  <2>1. cred_at[t] \in {"copy", "edit"}
    BY <1>2 DEF Copy, Edit, CredAt
  <2>2. c = cng_g_cred
    BY <2>1 DEF OneWriter, Writing
  <2>3. cred_v[t].w # c
    BY <2>1, <2>2 DEF Draft, OtherBuf, CredTypes
  <2>4. \E r : g_cred_buf' = [g_cred_buf EXCEPT ![cred_v[t].w] = r]
    BY <1>2 DEF Copy, Edit
  <2> QED  BY <2>3, <2>4 DEF CredTypes
<1> QED  BY <1>1, <1>2, SetKept

LEMMA SteadyStep ==
    ASSUME CredTypes, Called, OneWriter, Draft, Steady, NEW t \in CredThreads, CredStep(t)
    PROVE  Steady'
<1> DEFINE Seen(o) == cred_at[o] \in Reading => CredNow \in cred_seen[o]
           Order(o) == ReadOrder(Head(cred_todo[o]))
           Held(o) == cred_at[o] \in {"read", "check"} /\ cred_v[o].s = g_cred_seq =>
                /\ g_cred_buf[cred_v[o].c] \in cred_seen[o]
                /\ cred_v[o].c = cng_g_cred \/ \E p \in CredThreads : cred_at[p] = "bump"
                /\ cred_at[o] = "check" => cred_v[o].k > Len(Order(o))
                /\ \A i \in DOMAIN Order(o) : i < cred_v[o].k =>
                        cred_v[o].got[Order(o)[i]] = g_cred_buf[cred_v[o].c][Order(o)[i]]
           Late(o) == cred_at[o] \in Reading \ {"seq"} => cred_v[o].s <= g_cred_seq
<1>1. \A o \in CredThreads : Seen(o) /\ Held(o) /\ Late(o)
  BY DEF Steady, CredAt, CredCall
<1>2. SUFFICES ASSUME NEW o \in CredThreads PROVE Seen(o)' /\ Held(o)' /\ Late(o)'
  BY DEF Steady, CredAt, CredCall
<1>q. g_cred_seq \in Nat /\ (g_cred_seq' = g_cred_seq \/ (Bump(t) /\ g_cred_seq' = g_cred_seq + 1))
  BY SetKept DEF CredTypes, Bump
<1>v. cred_v[o] \in Locals /\ cred_v[o].c \in {0, 1} /\ cred_v[o].s \in Nat /\ cred_v[o].k \in 1..3
  BY DEF CredTypes, Locals
<1>3. CASE o # t
  <2>1. SUFFICES ASSUME cred_at'[o] \in Reading PROVE Seen(o)' /\ Held(o)' /\ Late(o)'
    BY DEF Reading
  <2>2. /\ cred_at'[o] = cred_at[o] /\ cred_at[o] \in Reading
        /\ cred_v'[o] = cred_v[o] /\ cred_todo'[o] = cred_todo[o]
        /\ \A p \in Beside(t) : Stays(p)
    BY <1>3, <2>1, Others DEF Beside, Stays, Leaves, Keeps, Reading
  <2>3. cred_seen[o] \subseteq cred_seen'[o]
    BY <1>3, SetKept DEF Store, CallGetter, CredTypes
  <2>4. Seen(o)'
    <3>1. CASE Store(t)
      <4>1. CredNow' = g_cred_buf[cred_v[t].w]
        BY <3>1 DEF Store, CredNow
      <4> QED  BY <2>2, <3>1, <4>1 DEF Store
    <3>2. CASE ~Store(t)
      BY <1>1, <2>2, <2>3, <3>2, NowKept
    <3> QED  BY <3>1, <3>2
  <2>5. Late(o)'
    BY <1>1, <1>q, <1>v, <2>2
  <2>6. Held(o)'
    <3>1. SUFFICES ASSUME cred_at'[o] \in {"read", "check"}, cred_v'[o].s = g_cred_seq' PROVE Held(o)'
      OBVIOUS
    <3>2. cred_v[o].s = g_cred_seq /\ ~Bump(t)
      BY <1>1, <1>q, <1>v, <2>2, <3>1 DEF Bump, Reading
    <3>3. cred_v[o].c = cng_g_cred \/ \E p \in CredThreads : cred_at[p] = "bump"
      BY <1>1, <2>2, <3>1, <3>2
    <3>4. g_cred_buf'[cred_v[o].c] = g_cred_buf[cred_v[o].c]
      BY <1>v, <3>3, BufKept
    <3>5. cred_v[o].c = cng_g_cred' \/ \E p \in CredThreads : cred_at'[p] = "bump"
      <4>1. CASE Store(t)
        BY <4>1 DEF Store, CredGo, CredTypes
      <4>2. CASE ~Store(t) /\ cred_v[o].c = cng_g_cred
        BY <4>2, SetKept
      <4>3. ASSUME NEW p \in CredThreads, cred_at[p] = "bump"
            PROVE  cred_at'[p] = "bump"
        <5>1. p # t
          BY <3>2, <4>3 DEF CredStep, CallSetter, Lock, Steal, Copy, Edit, Store, Publish, Unlock,
                CallGetter, ReadSeq, ReadPtr, Read, Check, CallHost, Fork, CloneThread, CredAt, CredBegin
        <5> QED  BY <2>2, <4>3, <5>1 DEF Stays, Beside
      <4> QED  BY <3>3, <4>1, <4>2, <4>3
    <3> QED  BY <1>1, <2>2, <2>3, <3>1, <3>2, <3>4, <3>5
  <2> QED  BY <2>4, <2>5, <2>6
<1>4. CASE o = t /\ cred_at'[t] = "seq"
  <2>1. Seen(t)'
    <3>1. CASE CallGetter(t)
      <4>1. cred_seen' = [cred_seen EXCEPT ![t] = {CredNow}]
        BY <1>4, <3>1 DEF CallGetter, CredDone, CredGo, CredTypes
      <4>2. CredNow' = CredNow
        BY <3>1 DEF CallGetter, CredNow
      <4> QED  BY <4>1, <4>2 DEF CredTypes
    <3>2. CASE Check(t)
      BY <1>1, <3>2 DEF Check, CredAt, Reading, CredNow
    <3> QED  BY <1>4, <3>1, <3>2, Goes
  <2> QED  BY <1>4, <2>1
<1>5. CASE o = t /\ cred_at'[t] = "ptr"
  <2>1. ReadSeq(t)
    BY <1>5, Goes
  <2>2. cred_v'[t].s = g_cred_seq
    <3>1. cred_v'[t] = [cred_v[t] EXCEPT !.s = g_cred_seq]
      BY <2>1 DEF ReadSeq, CredTypes
    <3> QED  BY <1>5, <1>v, <3>1 DEF Locals
  <2> QED  BY <1>1, <1>5, <1>q, <2>1, <2>2 DEF ReadSeq, CredAt, Reading, CredNow
<1>6. CASE o = t /\ ReadPtr(t)
  <2>1. cred_v'[t] = [cred_v[t] EXCEPT !.c = cng_g_cred, !.k = 1]
    BY <1>6 DEF ReadPtr, CredTypes
  <2>2. cred_v'[t].c = cng_g_cred /\ cred_v'[t].k = 1 /\ cred_v'[t].s = cred_v[t].s
    BY <1>6, <1>v, <2>1, LocalsGet
  <2>3. /\ cred_at[t] = "ptr" /\ cred_at'[t] = "read"
        /\ UNCHANGED <<g_cred_buf, cng_g_cred, g_cred_seq, cred_seen, cred_todo>>
    BY <1>6 DEF ReadPtr, CredAt, CredGo, CredTypes
  <2>4. Seen(t)' /\ Late(t)'
    BY <1>1, <2>2, <2>3 DEF Reading, CredNow
  <2>5. Held(t)'
    <3>1. g_cred_buf'[cred_v'[t].c] \in cred_seen'[t]
      BY <1>1, <2>2, <2>3 DEF Reading, CredNow
    <3>2. \A i \in DOMAIN Order(t)' : ~(i < cred_v'[t].k)
      BY <2>2 DEF ReadOrder
    <3> QED  BY <2>2, <2>3, <3>1, <3>2
  <2> QED  BY <1>6, <2>4, <2>5
<1>7. CASE o = t /\ Read(t)
  <2> DEFINE ord == Order(t)
             k == cred_v[t].k
             g == [cred_v[t].got EXCEPT ![ord[k]] = g_cred_buf[cred_v[t].c][ord[k]]]
  <2>1. /\ cred_at[t] = "read" /\ Order(t)' = ord
        /\ UNCHANGED <<g_cred_buf, cng_g_cred, g_cred_seq, cred_seen, cred_todo>>
    BY <1>7 DEF Read, CredAt
  <2>2. Len(ord) \in 1..2 /\ \A i \in 1..Len(ord) : ord[i] \in CredParts
    BY DEF ReadOrder, CredParts
  <2>3. DOMAIN ord = 1..Len(ord) /\ \A i, j \in 1..Len(ord) : ord[i] = ord[j] => i = j
    <3>1. CASE ord = <<"groups">>
      <4>1. Len(ord) = 1 /\ DOMAIN ord = 1..1
        BY <3>1
      <4> QED  BY <4>1
    <3>2. CASE ord = <<"u", "g">>
      <4>1. Len(ord) = 2 /\ DOMAIN ord = 1..2 /\ ord[1] = "u" /\ ord[2] = "g"
        BY <3>2
      <4> HIDE DEF ord
      <4> QED  BY <4>1
    <3> QED  BY <3>1, <3>2 DEF ReadOrder
  <2>4. CASE k > Len(ord)
    <3>1. cred_at'[t] = "check" /\ cred_v' = cred_v
      BY <1>7, <2>4 DEF Read, CredGo, CredTypes, CredCall
    <3>2. \A p \in CredThreads \ {t} : cred_at'[p] = cred_at[p]
      BY <1>7 DEF Read, CredGo, CredTypes
    <3>3. cred_v[t].c = cng_g_cred' \/ (\E p \in CredThreads : cred_at'[p] = "bump")
             \/ ~(cred_v[t].s = g_cred_seq)
      BY <1>1, <2>1, <3>2
    <3> QED  BY <1>1, <1>7, <2>1, <2>4, <3>1, <3>3 DEF Reading, CredNow
  <2>5. CASE k <= Len(ord)
    <3>1. cred_at' = cred_at /\ cred_v'[t] = [cred_v[t] EXCEPT !.k = k + 1, !.got = g]
      BY <1>7, <1>v, <2>2, <2>5 DEF Read, CredTypes, CredCall
    <3>2. /\ cred_v'[t].k = k + 1 /\ cred_v'[t].got = g
          /\ cred_v'[t].c = cred_v[t].c /\ cred_v'[t].s = cred_v[t].s
      BY <1>7, <1>v, <3>1, LocalsGet
    <3>3. cred_v[t].got \in CredSet /\ \A p \in CredParts : p \in DOMAIN cred_v[t].got
      BY <1>7, <1>v DEF Locals, CredSet, CredParts
    <3>4. ASSUME cred_v[t].s = g_cred_seq, NEW i \in DOMAIN ord, i < k + 1
          PROVE  g[ord[i]] = g_cred_buf[cred_v[t].c][ord[i]]
      <4>1. i \in 1..Len(ord) /\ k \in 1..Len(ord) /\ ord[i] \in DOMAIN cred_v[t].got
        BY <1>7, <1>v, <2>2, <2>3, <2>5, <3>3, <3>4
      <4>2. CASE i = k
        BY <4>1, <4>2
      <4>3. CASE i # k
        <5>1. i < k /\ ord[i] # ord[k]
          BY <1>7, <1>v, <2>3, <3>4, <4>1, <4>3
        <5>2. g[ord[i]] = cred_v[t].got[ord[i]]
          BY <4>1, <5>1
        <5> QED  BY <1>1, <2>1, <3>4, <5>1, <5>2
      <4> QED  BY <4>2, <4>3
    <3> HIDE DEF g
    <3>5. Seen(t)' /\ Late(t)'
      BY <1>1, <2>1, <3>1, <3>2 DEF CredNow
    <3>6. Held(t)'
      BY <1>1, <2>1, <3>1, <3>2, <3>4
    <3> QED  BY <1>7, <3>5, <3>6
  <2>6. k > Len(ord) \/ k <= Len(ord)
    BY <1>7, <1>v, <2>2
  <2> QED  BY Zenon, <2>4, <2>5, <2>6
<1>8. CASE o = t /\ cred_at'[t] \notin Reading
  BY <1>8 DEF Reading
<1> QED  BY <1>3, <1>4, <1>5, <1>6, <1>7, <1>8, Goes DEF Reading

LEMMA WholeStep ==
    ASSUME CredTypes, Called, Steady, SetsWhole, NEW t \in CredThreads, CredStep(t)
    PROVE  SetsWhole'
<1> SUFFICES ASSUME NEW o \in CredThreads, cred_ans'[o].read # {}
             PROVE  \E c \in cred_seen'[o] : \A p \in cred_ans'[o].read : cred_ans'[o].got[p] = c[p]
  BY DEF SetsWhole
<1>1. CASE cred_ans'[o] = cred_ans[o] /\ cred_seen[o] \subseteq cred_seen'[o]
  BY <1>1 DEF SetsWhole
<1>s. ~CallGetter(t) \/ o # t => cred_seen[o] \subseteq cred_seen'[o]
  <2>1. CASE Store(t)
    BY Zenon, <2>1 DEF Store
  <2>2. CASE CallGetter(t) /\ o # t
    BY <2>2 DEF CallGetter, CredTypes
  <2> QED  BY Zenon, <2>1, <2>2, SetKept
<1>2. CASE o # t
  BY <1>1, <1>2, <1>s, Others DEF Beside, Keeps
<1>r. \A r : Reply(r).read = {}
  BY DEF Reply
<1>d. ASSUME NEW a, CredDone(t, a)
      PROVE  cred_ans'[t] = a
  BY <1>d DEF CredDone, CredTypes
<1>3. CASE o = t /\ Check(t) /\ g_cred_seq = cred_v[t].s
  <2> DEFINE v == cred_v[t]
             c == g_cred_buf[v.c]
             ord == ReadOrder(CredCall(t))
  <2>1. /\ cred_ans'[t].read = PartsRead(CredCall(t)) /\ cred_ans'[t].got = v.got
        /\ cred_seen' = cred_seen /\ cred_at[t] = "check"
    <3>1. CredDone(t, [ret |-> CredAnswer(CredCall(t), v.got), read |-> PartsRead(CredCall(t)), got |-> v.got])
      BY Zenon, <1>3 DEF Check
    <3>2. cred_seen' = cred_seen /\ cred_at[t] = "check"
      BY Zenon, <1>3 DEF Check, CredAt
    <3> HIDE DEF v
    <3> QED  BY <1>d, <3>1, <3>2
  <2>2. c \in cred_seen[t] /\ v.k > Len(ord) /\ v.k \in Nat
        /\ \A i \in DOMAIN ord : i < v.k => v.got[ord[i]] = c[ord[i]]
    <3>1. v \in Locals
      BY DEF CredTypes
    <3>2. v.k \in Nat
      BY <3>1 DEF Locals
    <3> QED  BY <1>3, <2>1, <3>2 DEF Steady, CredAt
  <2>3. ASSUME NEW p \in PartsRead(CredCall(t))
        PROVE  \E i \in DOMAIN ord : i <= Len(ord) /\ p = ord[i]
    <3>1. CASE CredCall(t).op = "getgroups"
      BY <2>3, <3>1 DEF ReadOrder, PartsRead
    <3>2. CASE CredCall(t).op # "getgroups"
      <4>1. ord = <<"u", "g">> /\ p \in {"u", "g"}
        BY <2>3, <3>2 DEF ReadOrder, PartsRead
      <4>2. DOMAIN ord = 1..2 /\ Len(ord) = 2 /\ ord[1] = "u" /\ ord[2] = "g"
        BY <4>1
      <4> HIDE DEF ord
      <4> QED  BY <4>1, <4>2
    <3> QED  BY <3>1, <3>2
  <2>4. Len(ord) \in Nat /\ DOMAIN ord \subseteq Nat
    BY DEF ReadOrder
  <2> HIDE DEF v, c, ord
  <2>5. \A p \in PartsRead(CredCall(t)) : v.got[p] = c[p]
    BY <2>2, <2>3, <2>4
  <2>6. \A p \in cred_ans'[t].read : cred_ans'[t].got[p] = c[p]
    BY Zenon, <2>1, <2>5
  <2>7. c \in cred_seen'[t]
    BY Zenon, <2>1, <2>2
  <2> QED  BY Zenon, <1>3, <2>6, <2>7
<1>4. CASE o = t /\ Check(t) /\ g_cred_seq # cred_v[t].s
  BY <1>1, <1>4, <1>s DEF Check, CallGetter, CredAt, CredBegin
<1>5. CASE o = t /\ CallGetter(t)
  <2>1. cred_ans'[t].read = {}
    BY <1>5, <1>d, <1>r DEF CallGetter, CredTypes, Silent
  <2> QED  BY <1>5, <2>1
<1>6. CASE o = t /\ (CallHost(t) \/ Unlock(t))
  <2>1. \E r : CredDone(t, Reply(r))
    BY <1>6 DEF CallHost, Unlock, Silent
  <2>2. cred_ans'[t].read = {}
    BY <1>d, <1>r, <2>1
  <2> QED  BY <1>6, <2>2
<1>7. CASE o = t /\ ~CallGetter(t) /\ cred_ans' = cred_ans
  BY <1>1, <1>7, <1>s
<1>8. \/ Check(t) \/ CallGetter(t) \/ CallHost(t) \/ Unlock(t) \/ cred_ans' = cred_ans
  BY DEF CredStep, CallSetter, Lock, Steal, Copy, Edit, Store, Bump, Publish, ReadSeq, ReadPtr, Read,
         Fork, CloneThread
<1> QED  BY <1>2, <1>3, <1>4, <1>5, <1>6, <1>7, <1>8

LEMMA PublishedStep ==
    ASSUME CredTypes, OneWriter, Draft, IdsPublished, NEW t \in CredThreads, CredStep(t)
    PROVE  IdsPublished'
<1> SUFFICES ASSUME \A o \in CredThreads : cred_at'[o] \notin {"bump", "publish"}
             PROVE  reg_ids' = CredNow'
  BY DEF IdsPublished
<1>1. ~Store(t) /\ ~Bump(t)
  BY DEF Store, Bump, CredGo, CredTypes
<1>2. CredNow' = CredNow
  BY <1>1, NowKept
<1>3. CASE Publish(t) \/ Fork(t)
  BY <1>2, <1>3 DEF Publish, Fork
<1>4. CASE ~Publish(t) /\ ~Fork(t)
  <2>1. ASSUME NEW o \in CredThreads, cred_at[o] \in {"bump", "publish"}
        PROVE  FALSE
    <3>1. o # t
      BY <1>1, <1>4, <2>1 DEF CredStep, CallSetter, Lock, Steal, Copy, Edit, Unlock, CallGetter,
            ReadSeq, ReadPtr, Read, Check, CallHost, CloneThread, CredAt, CredBegin
    <3>2. cred_at'[o] = cred_at[o]
      <4>1. CASE CallSetter(t)
        BY <2>1, <3>1, <4>1 DEF CallSetter, Masked, CredGo, CredTypes
      <4>2. CASE ~CallSetter(t)
        BY <1>1, <1>4, <2>1, <3>1, <4>2 DEF CredStep, Lock, Steal, Copy, Edit, Unlock, CallGetter,
            ReadSeq, ReadPtr, Read, Check, CallHost, CloneThread, CredAt, CredDone, CredGo, CredTypes
      <4> QED  BY <4>1, <4>2
    <3> QED  BY <2>1, <3>2
  <2>2. reg_ids = CredNow
    BY <2>1 DEF IdsPublished
  <2> QED  BY <1>2, <1>4, <2>2, SetKept
<1> QED  BY <1>3, <1>4

-----------------------------------------------------------------------------
LEMMA InitInv == CredInit => CredInv
<1> SUFFICES ASSUME CredInit PROVE CredInv
  OBVIOUS
<1>0. /\ cred_scene \in CredScenes /\ cred_scene.calls \in [CredThreads -> Seq(CredCalls)]
      /\ cred_scene.fake.u \in Int /\ cred_scene.fake.g \in Int /\ cred_scene.host \in CredSet
  BY CredAssumption DEF CredInit
<1>1. Seeded(cred_scene) \in CredSet /\ Zeroed \in CredSet
  <2>1. \A i \in Int : Same(i) \in Quads
    BY DEF Same, Quad, Quads
  <2>2. <<>> \in Seq(Int)
    OBVIOUS
  <2>3. cred_scene.host.u.r \in Int /\ cred_scene.host.g.r \in Int
    BY <1>0 DEF CredSet, Quads
  <2> QED  BY <1>0, <2>1, <2>2, <2>3 DEF Seeded, Zeroed, CredSet
<1>2. NoLocals \in Locals
  BY <1>1 DEF NoLocals, Locals
<1>3. \A t \in CredThreads : cred_at[t] \in {"idle", "unborn"} /\ cred_ans[t].read = {}
  BY DEF CredInit, Silent, Reply
<1>4. CredTypes
  BY <1>0, <1>1, <1>2 DEF CredInit, CredTypes
<1>5. Called /\ OneWriter /\ Draft /\ Steady
  BY <1>3 DEF Called, OneWriter, Draft, Steady, CredAt, Masked, Reading, Writing, CredInit
<1>6. SetsWhole /\ IdsPublished
  BY <1>3 DEF SetsWhole, IdsPublished, CredInit, CredNow
<1> QED  BY <1>4, <1>5, <1>6 DEF CredInv

LEMMA StepInv == CredInv /\ [CredNext]_credvars => CredInv'
<1> SUFFICES ASSUME CredInv, [CredNext]_credvars PROVE CredInv'
  OBVIOUS
<1>1. ASSUME NEW t \in CredThreads, CredStep(t)
      PROVE  CredInv'
  BY <1>1, TypesStep, CalledStep, OneWriterStep, DraftStep, SteadyStep, WholeStep, PublishedStep
     DEF CredInv
<1>2. CASE UNCHANGED credvars
  <2>0. CredTypes'
    BY <1>2 DEF credvars, CredInv, CredTypes
  <2>1. Called'
    BY <1>2 DEF credvars, CredInv, Called, CredAt, CredCall
  <2>5. SetsWhole' /\ IdsPublished'
    BY <1>2 DEF credvars, CredInv, SetsWhole, IdsPublished, CredNow
  <2>2. OneWriter'
    BY <1>2 DEF credvars, CredInv, OneWriter, CredAt
  <2>3. Draft'
    BY <1>2 DEF credvars, CredInv, Draft, CredAt, CredCall, CredNow, Edited, OtherBuf
  <2>4. Steady'
    BY <1>2 DEF credvars, CredInv, Steady, CredAt, CredCall, CredNow
  <2> QED  BY <2>0, <2>1, <2>2, <2>3, <2>4, <2>5 DEF CredInv
<1> QED  BY <1>1, <1>2 DEF CredNext

\* The inductive invariant: one writer at a time, its draft in the buffer
\* that is not the set, and a reader whose sequence number still holds on a
\* buffer nobody drafts in.
THEOREM CredInvHolds == CredSpec => []CredInv
BY InitInv, StepInv, PTL DEF CredSpec

\* Whatever the threads of a process set at once, a getter answers from one
\* set that was the process's during its call (cng_cred_ids, cng_cred_groups).
THEOREM ReadersSeeWholeSets == CredSpec => []SetsWhole
<1>1. CredInv => SetsWhole
  BY DEF CredInv
<1> QED  BY <1>1, CredInvHolds, PTL

\* The registry has the process's ids whenever no write is being finished.
THEOREM RegistryFollows == CredSpec => []IdsPublished
<1>1. CredInv => IdsPublished
  BY DEF CredInv
<1> QED  BY <1>1, CredInvHolds, PTL

\* A uid of 0 that a process has given up comes back by the exec of a set-uid
\* file alone.
THEOREM RootIsNotRegained == CredSpec => NoRegain
<1>1. ASSUME CredInv, [CredNext]_credvars
      PROVE  [Rooted(CredNow') => Rooted(CredNow) \/ \E t \in CredThreads : SetidExec(t)]_credvars
  <2>1. ASSUME NEW t \in CredThreads, Store(t), Rooted(CredNow')
        PROVE  Rooted(CredNow) \/ SetidExec(t)
    <3>1. cred_at[t] = "store" /\ CredNow' = g_cred_buf[cred_v[t].w]
      BY <2>1 DEF Store, CredAt, CredNow
    <3>2. CredNow' = Edited(CredNow, CredCall(t)).set
      BY <1>1, <3>1 DEF CredInv, Draft, CredAt
    <3>3. CredNow \in CredSet /\ cred_scene \in CredScenes
      BY <1>1 DEF CredInv, CredTypes, CredNow
    <3>4. CredCall(t) \in CredCalls /\ CredCall(t).op \in Setters \cup {"exec"}
      <4>1. cred_todo[t] # <<>> /\ CredCall(t).op \in Setters \cup {"exec"}
        BY <1>1, <3>1 DEF CredInv, Called, CredAt, Masked
      <4> QED  BY <1>1, <4>1, Rest DEF CredInv
    <3> QED  BY <2>1, <3>1, <3>2, <3>3, <3>4, RootKept DEF SetidExec, CredAt
  <2>2. ASSUME NEW t \in CredThreads, CredStep(t), ~Store(t)
        PROVE  CredNow' = CredNow
    BY <1>1, <2>2, NowKept DEF CredInv
  <2>3. CASE UNCHANGED credvars
    BY <2>3
  <2> QED  BY <1>1, <2>1, <2>2, <2>3 DEF CredNext
<1> QED  BY <1>1, CredInvHolds, PTL DEF CredSpec, NoRegain
=============================================================================
