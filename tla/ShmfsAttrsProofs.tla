-------------------------- MODULE ShmfsAttrsProofs --------------------------
(***************************************************************************)
(* Proofs about ShmfsAttrs for every set of vnodes, attributes, names,     *)
(* cookies and iterators, when no attribute is renamed to its own name.    *)
(***************************************************************************)
EXTENDS ShmfsAttrs, OrderLemmas, TLAPS

-----------------------------------------------------------------------------
(* The inductive invariant.                                                *)

\* An attribute that has fallen out of the trees does not come back.
LostStayOut == \A f \in File : fAttrs[f] \cap lost = {}

AttrInv == /\ TypeOK /\ AttrRefsExact /\ AttrsOneTree /\ AttrItersLive
           /\ LostStayOut

-----------------------------------------------------------------------------
(* Counting.                                                               *)

InTree(a) == \E f \in File : a \in fAttrs[f]

LEMMA TreesCount ==
  AttrsOneTree => \A a : Cardinality(Trees(a)) = IF InTree(a) THEN 1 ELSE 0
<1> SUFFICES ASSUME AttrsOneTree, NEW a
             PROVE  Cardinality(Trees(a)) = IF InTree(a) THEN 1 ELSE 0
  OBVIOUS
<1>1. CASE InTree(a)
  <2>1. PICK f \in File : a \in fAttrs[f]
    BY <1>1 DEF InTree
  <2>2. Trees(a) = {f}
    BY <2>1 DEF Trees, AttrsOneTree
  <2> QED BY <1>1, <2>2, FS_Singleton
<1>2. CASE ~InTree(a)
  <2>1. Trees(a) = {}
    BY <1>2 DEF Trees, InTree
  <2> QED BY <1>2, <2>1, FS_EmptySet
<1> QED BY <1>1, <1>2

LEMMA CookiesFinite ==
  AttrsAssumption =>
    \A a : /\ IsFiniteSet(Cookies(a))
           /\ Cardinality(Cookies(a)) \in Nat
           /\ Cardinality(Cookies(a)) = 0 <=> Cookies(a) = {}
<1> SUFFICES ASSUME AttrsAssumption, NEW a
             PROVE  /\ IsFiniteSet(Cookies(a))
                    /\ Cardinality(Cookies(a)) \in Nat
                    /\ Cardinality(Cookies(a)) = 0 <=> Cookies(a) = {}
  OBVIOUS
<1>1. Cookies(a) \in SUBSET Handle /\ IsFiniteSet(Handle)
  BY DEF Cookies, AttrsAssumption
<1>2. IsFiniteSet(Cookies(a))
  BY <1>1, FS_Subset
<1> QED BY <1>2, FS_CardinalityType, FS_EmptySet

\* AttrRefsExact, holder by holder.
RefsByHolder ==
  \A a \in Attr : ref[a] = (IF InTree(a) THEN 1 ELSE 0)
                           + Cardinality(Cookies(a))
                           + (IF a \in lost THEN 1 ELSE 0)

LEMMA RefsHeld == AttrsOneTree => (AttrRefsExact <=> RefsByHolder)
BY TreesCount DEF AttrRefsExact, RefsByHolder

LEMMA PointAdds ==
  ASSUME AttrsAssumption, TypeOK, NEW h \in Handle, Unused(h),
         NEW f \in File, NEW a \in Attr, Point(h, f, a)
  PROVE  /\ handle' \in [Handle -> Handles]
         /\ \A b \in Attr : Cardinality(Cookies(b)') =
              Cardinality(Cookies(b)) + (IF b = a THEN 1 ELSE 0)
<1>1. /\ handle' = [handle EXCEPT ![h] = [file |-> f, attr |-> a]]
      /\ handle \in [Handle -> Handles] /\ handle[h].attr = NoAttr
  BY DEF Point, TypeOK, Unused
<1>2. handle' \in [Handle -> Handles]
  BY <1>1 DEF Handles
<1>3. ASSUME NEW b \in Attr
      PROVE  Cardinality(Cookies(b)') =
               Cardinality(Cookies(b)) + (IF b = a THEN 1 ELSE 0)
  <2>1. IsFiniteSet(Cookies(b)) /\ Cardinality(Cookies(b)) \in Nat
    BY CookiesFinite
  <2>2. h \notin Cookies(b)
    BY <1>1 DEF Cookies, AttrsAssumption
  <2>3. CASE b = a
    <3>1. Cookies(b)' = Cookies(b) \cup {h}
      BY <2>3, <1>1 DEF Cookies
    <3> QED BY <2>1, <2>2, <2>3, <3>1, FS_AddElement
  <2>4. CASE b # a
    <3>1. Cookies(b)' = Cookies(b)
      BY <2>2, <2>4, <1>1 DEF Cookies
    <3> QED BY <2>1, <2>4, <3>1
  <2> QED BY <2>3, <2>4
<1> QED BY <1>2, <1>3

LEMMA PointDrops ==
  ASSUME AttrsAssumption, TypeOK, NEW h \in Handle, ~Unused(h),
         Point(h, handle[h].file, NoAttr)
  PROVE  /\ handle' \in [Handle -> Handles]
         /\ handle[h].attr \in Attr
         /\ \A b \in Attr : Cardinality(Cookies(b)') =
              Cardinality(Cookies(b)) - (IF b = handle[h].attr THEN 1 ELSE 0)
<1>1. /\ handle' = [handle EXCEPT ![h] = [file |-> handle[h].file, attr |-> NoAttr]]
      /\ handle \in [Handle -> Handles] /\ handle[h] \in Handles
      /\ handle[h].attr # NoAttr
  BY DEF Point, TypeOK, Unused
<1>2. handle' \in [Handle -> Handles] /\ handle[h].attr \in Attr
  BY <1>1 DEF Handles
<1>3. ASSUME NEW b \in Attr
      PROVE  Cardinality(Cookies(b)') =
               Cardinality(Cookies(b)) - (IF b = handle[h].attr THEN 1 ELSE 0)
  <2>1. IsFiniteSet(Cookies(b)) /\ Cardinality(Cookies(b)) \in Nat
    BY CookiesFinite
  <2>2. b # NoAttr
    BY DEF AttrsAssumption
  <2>3. CASE b = handle[h].attr
    <3>1. Cookies(b)' = Cookies(b) \ {h} /\ h \in Cookies(b)
      BY <2>2, <2>3, <1>1 DEF Cookies
    <3> QED BY <2>1, <2>3, <3>1, FS_RemoveElement, ZenonT(30)
  <2>4. CASE b # handle[h].attr
    <3>1. Cookies(b)' = Cookies(b)
      BY <2>2, <2>4, <1>1 DEF Cookies
    <3> QED BY <2>1, <2>4, <3>1
  <2> QED BY <2>3, <2>4
<1> QED BY <1>2, <1>3

-----------------------------------------------------------------------------
(* The order of a tree.                                                    *)

LEMMA LeftMostIn ==
  ASSUME AttrsAssumption, TypeOK, NEW tree \in SUBSET Attr
  PROVE  LeftMost(tree) \in tree \cup {NoAttr}
<1>1. CASE tree # {}
  <2> DEFINE S == {name[a] : a \in tree}
  <2>1. S \in SUBSET Nat /\ S # {}
    <3>1. \A a \in tree : name[a] \in Nat
      BY DEF AttrsAssumption, TypeOK
    <3> QED BY <1>1, <3>1
  <2> HIDE DEF S
  <2>2. PICK m \in S : \A k \in S : m <= k
    BY <2>1, LeastNatural
  <2>3. \E a \in tree : \A b \in tree : name[a] <= name[b]
    BY <2>2 DEF S
  <2> QED BY <1>1, <2>3 DEF LeftMost
<1> QED BY <1>1 DEF LeftMost

LEMMA AfterIn ==
  ASSUME AttrsAssumption, TypeOK, NEW tree \in SUBSET Attr, NEW a \in tree
  PROVE  After(tree, a) \in (tree \ {a}) \cup {NoAttr}
<1> DEFINE later == {b \in tree : name[b] > name[a]}
<1>1. later \in SUBSET Attr
  OBVIOUS
<1>2. a \notin later
  <2>1. name[a] \in Nat
    BY DEF TypeOK, AttrsAssumption
  <2> QED BY <2>1
<1>3. later \subseteq tree /\ After(tree, a) = LeftMost(later)
  BY DEF After
<1> HIDE DEF later
<1> QED BY <1>1, <1>2, <1>3, LeftMostIn

\* What RemoveAttr leaves of the iterator it, when it stays well.
Moved(it, was, tree, f, gone) ==
  /\ it \in Iters /\ it.file = was.file /\ it.state = was.state
  /\ \/ /\ it.attr = was.attr
        /\ ~(was.state = "open" /\ was.file = f /\ was.attr \in gone)
     \/ was.file = f /\ it.attr \in (tree \ gone) \cup {NoAttr}

LEMMA RemoveAttrFromLive ==
  ASSUME AttrsAssumption, TypeOK, NEW its \in [Iter -> Iters],
         NEW f \in File, NEW tree \in SUBSET Attr, NEW gone \in SUBSET tree,
         \A a, b \in gone : a = b
  PROVE  /\ RemoveAttrFrom(its, tree, f, gone) \in [Iter -> Iters]
         /\ \A i \in Iter :
              Moved(RemoveAttrFrom(its, tree, f, gone)[i], its[i], tree, f, gone)
<1>1. ASSUME NEW i \in Iter
      PROVE  Moved(RemoveAttrFrom(its, tree, f, gone)[i], its[i], tree, f, gone)
  <2> DEFINE it == RemoveAttrFrom(its, tree, f, gone)[i]
             c == its[i]
  <2>1. c \in Iters
    OBVIOUS
  <2>2. CASE c.state = "open" /\ c.file = f /\ c.attr \in gone
    <3>1. it = [c EXCEPT !.attr = After(tree, @)]
      BY <2>2 DEF RemoveAttrFrom
    <3>2. After(tree, c.attr) \in (tree \ {c.attr}) \cup {NoAttr}
      BY <2>2, AfterIn
    <3>3. gone = {c.attr}
      BY <2>2
    <3> QED BY <2>1, <2>2, <3>1, <3>2, <3>3 DEF Iters, Moved
  <2>3. CASE ~(c.state = "open" /\ c.file = f /\ c.attr \in gone)
    <3>1. it = c
      BY <2>3 DEF RemoveAttrFrom
    <3> QED BY <2>1, <2>3, <3>1 DEF Moved
  <2> QED BY <2>2, <2>3
<1>2. RemoveAttrFrom(its, tree, f, gone) \in [Iter -> Iters]
  BY <1>1 DEF RemoveAttrFrom, Moved
<1> QED BY <1>1, <1>2

\* AttrItersLive of the iterators its and the trees.
Live(its, trees) ==
  \A i \in Iter : its[i].state = "open" =>
    its[i].attr \in trees[its[i].file] \cup {NoAttr}

LEMMA RemoveAttrLive ==
  ASSUME AttrsAssumption, TypeOK, NEW its \in [Iter -> Iters], NEW f \in File,
         NEW trees \in [File -> SUBSET Attr], NEW gone \in SUBSET trees[f],
         \A a, b \in gone : a = b, Live(its, trees)
  PROVE  /\ RemoveAttrFrom(its, trees[f], f, gone) \in [Iter -> Iters]
         /\ Live(RemoveAttrFrom(its, trees[f], f, gone),
                 [trees EXCEPT ![f] = @ \ gone])
<1>1. PICK new : new = RemoveAttrFrom(its, trees[f], f, gone)
  OBVIOUS
<1>2. trees[f] \in SUBSET Attr
  OBVIOUS
<1>3. /\ new \in [Iter -> Iters]
      /\ \A i \in Iter : Moved(new[i], its[i], trees[f], f, gone)
  <2>1. /\ RemoveAttrFrom(its, trees[f], f, gone) \in [Iter -> Iters]
        /\ \A i \in Iter : Moved(RemoveAttrFrom(its, trees[f], f, gone)[i],
                                 its[i], trees[f], f, gone)
    BY <1>2, RemoveAttrFromLive, Zenon
  <2> QED BY <1>1, <2>1
<1>4. \A g \in File : [trees EXCEPT ![f] = @ \ gone][g] =
        IF g = f THEN trees[g] \ gone ELSE trees[g]
  OBVIOUS
<1>5. ASSUME NEW i \in Iter, new[i].state = "open"
      PROVE  new[i].attr \in [trees EXCEPT ![f] = @ \ gone][new[i].file] \cup {NoAttr}
  <2>1. Moved(new[i], its[i], trees[f], f, gone)
    BY <1>3
  <2>2. its[i].file \in File /\ new[i].file = its[i].file
    BY <2>1 DEF Moved, Iters
  <2>3. its[i].attr \in trees[its[i].file] \cup {NoAttr}
    BY <1>5, <2>1 DEF Moved, Live
  <2>4. CASE its[i].file = f
    BY <1>4, <1>5, <2>1, <2>2, <2>3, <2>4 DEF Moved
  <2>5. CASE its[i].file # f
    BY <1>4, <1>5, <2>1, <2>2, <2>3, <2>5 DEF Moved
  <2> QED BY <2>4, <2>5
<1> QED BY <1>1, <1>3, <1>5 DEF Live

-----------------------------------------------------------------------------
(* Steps on cookies.                                                       *)

LEMMA OpenAttrStep ==
  ASSUME AttrsAssumption, AttrInv, NEW f \in File, NEW n, NEW h \in Handle,
         OpenAttr(f, n, h)
  PROVE  AttrInv'
<1> USE DEF AttrInv
<1>1. PICK a \in fAttrs[f] : ref' = [ref EXCEPT ![a] = @ + 1] /\ Point(h, f, a)
  BY DEF OpenAttr, Find
<1>2. Unused(h) /\ UNCHANGED <<name, fAttrs, iter, lost>> /\ a \in Attr
  BY DEF OpenAttr, TypeOK
<1>3. /\ handle' \in [Handle -> Handles]
      /\ \A b \in Attr : Cardinality(Cookies(b)') =
           Cardinality(Cookies(b)) + (IF b = a THEN 1 ELSE 0)
  BY <1>1, <1>2, PointAdds
<1>4. TypeOK'
  BY <1>1, <1>2, <1>3 DEF TypeOK
<1>5. AttrsOneTree' /\ AttrItersLive' /\ LostStayOut'
  BY <1>2 DEF AttrsOneTree, AttrItersLive, LostStayOut
<1>6. RefsByHolder'
  <2>1. \A b \in Attr : InTree(b)' <=> InTree(b)
    BY <1>2 DEF InTree
  <2>2. \A b \in Attr : ref'[b] = ref[b] + (IF b = a THEN 1 ELSE 0)
    BY <1>1, <1>2 DEF TypeOK
  <2>3. \A b \in Attr : Cardinality(Cookies(b)) \in Nat
    BY CookiesFinite
  <2> QED BY <2>1, <2>2, <2>3, <1>2, <1>3, RefsHeld DEF RefsByHolder
<1> QED BY <1>4, <1>5, <1>6, RefsHeld, PTL

LEMMA CreateAttrStep ==
  ASSUME AttrsAssumption, AttrInv, NEW f \in File, NEW n \in Name,
         NEW h \in Handle, NEW a \in Attr, CreateAttr(f, n, h, a)
  PROVE  AttrInv'
<1> USE DEF AttrInv
<1>1. /\ Unused(h) /\ Find(f, n) = {} /\ ref[a] = 0
      /\ name' = [name EXCEPT ![a] = n]
      /\ fAttrs' = [fAttrs EXCEPT ![f] = @ \cup {a}]
      /\ ref' = [ref EXCEPT ![a] = 2]
      /\ Point(h, f, a)
      /\ UNCHANGED <<iter, lost>>
  BY DEF CreateAttr
<1>2. /\ handle' \in [Handle -> Handles]
      /\ \A b \in Attr : Cardinality(Cookies(b)') =
           Cardinality(Cookies(b)) + (IF b = a THEN 1 ELSE 0)
  BY <1>1, PointAdds
<1>3. \A b \in Attr : Cardinality(Cookies(b)) \in Nat
  BY CookiesFinite
<1>4. RefsByHolder
  BY RefsHeld
\* The address is in no tree.
<1>5. ~InTree(a) /\ a \notin lost /\ Cardinality(Cookies(a)) = 0
  BY <1>1, <1>3, <1>4 DEF RefsByHolder
<1>6. /\ \A g \in File : a \notin fAttrs[g]
      /\ \A g \in File : fAttrs'[g] = IF g = f THEN fAttrs[g] \cup {a}
                                      ELSE fAttrs[g]
      /\ \A b \in Attr : name'[b] = IF b = a THEN n ELSE name[b]
  BY <1>1, <1>5 DEF InTree, TypeOK
<1>7. TypeOK'
  BY <1>1, <1>2 DEF TypeOK
<1>8. AttrsOneTree'
  <2>0. /\ \A g, k \in File : fAttrs[g] \cap fAttrs[k] # {} => g = k
        /\ \A g \in File : \A b, c \in fAttrs[g] : name[b] = name[c] => b = c
    BY DEF AttrsOneTree
  <2>1. \A g, k \in File : fAttrs'[g] \cap fAttrs'[k] # {} => g = k
    <3>1. ASSUME NEW g \in File, NEW k \in File,
                 NEW x \in fAttrs'[g], x \in fAttrs'[k]
          PROVE  g = k
      <4>1. CASE x = a
        BY <3>1, <4>1, <1>6
      <4>2. CASE x # a
        <5>1. x \in fAttrs[g] /\ x \in fAttrs[k]
          BY <3>1, <4>2, <1>6
        <5> QED BY <5>1, <2>0
      <4> QED BY <4>1, <4>2
    <3> QED BY <3>1
  <2>2. ASSUME NEW g \in File, NEW b \in fAttrs'[g], NEW c \in fAttrs'[g],
               name'[b] = name'[c]
        PROVE  b = c
    <3>1. \A d \in fAttrs[f] : name[d] # n
      BY <1>1 DEF Find
    <3>2. b \in Attr /\ c \in Attr
      BY <1>7 DEF TypeOK
    <3>3. b \in fAttrs[g] \/ (b = a /\ g = f)
      BY <1>6
    <3>4. c \in fAttrs[g] \/ (c = a /\ g = f)
      BY <1>6
    <3>5. CASE b # a /\ c # a
      BY <2>0, <2>2, <3>2, <3>3, <3>4, <3>5, <1>6
    <3>6. CASE b = a /\ c # a
      BY <2>2, <3>1, <3>2, <3>4, <3>6, <1>6
    <3>7. CASE b # a /\ c = a
      BY <2>2, <3>1, <3>2, <3>3, <3>7, <1>6
    <3> QED BY <3>5, <3>6, <3>7
  <2> QED BY <2>1, <2>2 DEF AttrsOneTree
<1>9. AttrItersLive'
  <2>1. \A i \in Iter : iter[i].file \in File
    BY DEF TypeOK, Iters
  <2> QED BY <2>1, <1>1, <1>6 DEF AttrItersLive
<1>10. LostStayOut'
  BY <1>1, <1>5, <1>6 DEF LostStayOut
<1>11. RefsByHolder'
  <2>1. ASSUME NEW b \in Attr
        PROVE  ref'[b] = (IF InTree(b)' THEN 1 ELSE 0) + Cardinality(Cookies(b)')
                         + (IF b \in lost' THEN 1 ELSE 0)
    <3>1. CASE b = a
      <4>1. InTree(b)'
        BY <3>1, <1>6 DEF InTree
      <4>2. ref'[b] = 2
        BY <3>1, <1>1 DEF TypeOK
      <4> QED BY <3>1, <4>1, <4>2, <1>1, <1>2, <1>5
    <3>2. CASE b # a
      <4>1. InTree(b)' <=> InTree(b)
        BY <3>2, <1>6 DEF InTree
      <4>2. ref'[b] = ref[b]
        BY <3>2, <1>1 DEF TypeOK
      <4> QED BY <3>2, <4>1, <4>2, <1>1, <1>2, <1>3, <1>4 DEF RefsByHolder
    <3> QED BY <3>1, <3>2
  <2> QED BY <2>1 DEF RefsByHolder
<1> QED BY <1>7, <1>8, <1>9, <1>10, <1>11, RefsHeld, PTL

LEMMA FreeAttrCookieStep ==
  ASSUME AttrsAssumption, AttrInv, NEW h \in Handle, FreeAttrCookie(h)
  PROVE  AttrInv'
<1> USE DEF AttrInv
<1>1. PICK a : a = handle[h].attr
  OBVIOUS
<1>2. /\ ~Unused(h) /\ Release({a}) /\ Point(h, handle[h].file, NoAttr)
      /\ UNCHANGED <<name, fAttrs, iter, lost>>
  BY <1>1 DEF FreeAttrCookie
<1>3. /\ handle' \in [Handle -> Handles] /\ a \in Attr
      /\ \A b \in Attr : Cardinality(Cookies(b)') =
           Cardinality(Cookies(b)) - (IF b = a THEN 1 ELSE 0)
  BY <1>1, <1>2, PointDrops
<1>4. \A b \in Attr : /\ Cardinality(Cookies(b)) \in Nat
                      /\ Cardinality(Cookies(b)) = 0 <=> Cookies(b) = {}
  BY CookiesFinite
<1>5. h \in Cookies(a)
  BY <1>1 DEF Cookies
<1>6. RefsByHolder /\ ref[a] > 0
  BY <1>3, <1>4, <1>5, RefsHeld DEF RefsByHolder
<1>7. /\ ref' = [b \in Attr |-> IF b = a THEN ref[b] - 1 ELSE ref[b]]
      /\ \A b \in Attr : ref[b] \in Nat
  BY <1>2 DEF Release, TypeOK
<1>8. TypeOK'
  <2>1. ref' \in [Attr -> Nat]
    BY <1>6, <1>7
  <2> QED BY <2>1, <1>2, <1>3 DEF TypeOK
<1>9. AttrsOneTree' /\ AttrItersLive' /\ LostStayOut'
  BY <1>2 DEF AttrsOneTree, AttrItersLive, LostStayOut
<1>10. RefsByHolder'
  <2>1. \A b \in Attr : InTree(b)' <=> InTree(b)
    BY <1>2 DEF InTree
  <2> QED BY <2>1, <1>2, <1>3, <1>4, <1>6, <1>7 DEF RefsByHolder
<1> QED BY <1>8, <1>9, <1>10, RefsHeld, PTL

-----------------------------------------------------------------------------
(* Removing and renaming.                                                  *)

\* What RemoveAttr finds is one attribute at most.
LEMMA FindOne ==
  ASSUME TypeOK, AttrsOneTree, NEW f \in File, NEW n
  PROVE  /\ Find(f, n) \subseteq fAttrs[f] /\ Find(f, n) \subseteq Attr
         /\ \A a, b \in Find(f, n) : a = b
BY DEF Find, TypeOK, AttrsOneTree

\* Attributes in trees are counted, so the releases do not underflow.
LEMMA ReleaseType ==
  ASSUME AttrsAssumption, AttrInv, NEW as \in SUBSET Attr,
         \A a \in as : InTree(a), Release(as)
  PROVE  /\ ref' \in [Attr -> Nat]
         /\ \A a \in Attr : ref'[a] = ref[a] - (IF a \in as THEN 1 ELSE 0)
<1>1. RefsByHolder /\ \A b \in Attr : Cardinality(Cookies(b)) \in Nat
  BY RefsHeld, CookiesFinite DEF AttrInv
<1>2. ref \in [Attr -> Nat]
  BY DEF AttrInv, TypeOK
<1>3. ref' = [a \in Attr |-> IF a \in as THEN ref[a] - 1 ELSE ref[a]]
  BY DEF Release
<1>4. ASSUME NEW a \in Attr
      PROVE  /\ ref'[a] \in Nat
             /\ ref'[a] = ref[a] - (IF a \in as THEN 1 ELSE 0)
  <2>1. ref[a] \in Nat
    BY <1>2
  <2>2. CASE a \in as
    <3>1. InTree(a) /\ Cardinality(Cookies(a)) \in Nat
      BY <1>1, <2>2
    <3>2. ref[a] > 0
      BY <1>1, <3>1 DEF RefsByHolder
    <3>3. ref'[a] = ref[a] - 1
      BY <1>3, <2>2
    <3> QED BY <2>1, <2>2, <3>2, <3>3
  <2>3. CASE a \notin as
    BY <1>3, <2>1, <2>3
  <2> QED BY <2>2, <2>3
<1>5. ref' \in [Attr -> Nat]
  BY <1>3, <1>4
<1> QED BY <1>4, <1>5

LEMMA RemoveAttrStep ==
  ASSUME AttrsAssumption, AttrInv, NEW f \in File, NEW n, RemoveAttr(f, n)
  PROVE  AttrInv'
<1> USE DEF AttrInv
<1>1. PICK gone : gone = Find(f, n)
  OBVIOUS
<1>2. /\ iter' = RemoveAttrFrom(iter, fAttrs[f], f, gone)
      /\ fAttrs' = [fAttrs EXCEPT ![f] = @ \ gone]
      /\ Release(gone)
      /\ UNCHANGED <<name, handle, lost>>
  BY <1>1 DEF RemoveAttr
<1>3. /\ gone \in SUBSET fAttrs[f] /\ gone \in SUBSET Attr
      /\ \A a, b \in gone : a = b
  BY <1>1, FindOne
<1>4. /\ \A g \in File : fAttrs'[g] = IF g = f THEN fAttrs[g] \ gone ELSE fAttrs[g]
      /\ fAttrs' \in [File -> SUBSET Attr]
      /\ iter \in [Iter -> Iters] /\ fAttrs[f] \in SUBSET Attr
  BY <1>2 DEF TypeOK
<1>5. /\ ref' \in [Attr -> Nat]
      /\ \A a \in Attr : ref'[a] = ref[a] - (IF a \in gone THEN 1 ELSE 0)
  <2>1. \A a \in gone : InTree(a)
    BY <1>3 DEF InTree
  <2> QED BY <1>2, <1>3, <2>1, ReleaseType
<1>6. iter' \in [Iter -> Iters] /\ Live(iter', fAttrs')
  <2>1. fAttrs \in [File -> SUBSET Attr] /\ Live(iter, fAttrs)
    BY DEF TypeOK, AttrItersLive, Live
  <2>2. /\ RemoveAttrFrom(iter, fAttrs[f], f, gone) \in [Iter -> Iters]
        /\ Live(RemoveAttrFrom(iter, fAttrs[f], f, gone),
                [fAttrs EXCEPT ![f] = @ \ gone])
    BY <1>3, <1>4, <2>1, RemoveAttrLive, Zenon
  <2> QED BY <1>2, <2>2
<1>7. TypeOK'
  BY <1>2, <1>4, <1>5, <1>6 DEF TypeOK
<1>8. AttrsOneTree'
  BY <1>2, <1>4 DEF AttrsOneTree
<1>9. AttrItersLive'
  BY <1>6 DEF AttrItersLive, Live
<1>10. LostStayOut'
  BY <1>2, <1>4 DEF LostStayOut
<1>11. RefsByHolder'
  <2>1. Cookies(gone)' = Cookies(gone) /\ \A b : Cookies(b)' = Cookies(b)
    BY <1>2 DEF Cookies
  <2>2. RefsByHolder /\ \A b \in Attr : Cardinality(Cookies(b)) \in Nat
    BY RefsHeld, CookiesFinite
  <2>3. ASSUME NEW b \in Attr
        PROVE  InTree(b)' <=> InTree(b) /\ b \notin gone
    <3>1. CASE b \in gone
      <4>1. \A g \in File : b \in fAttrs[g] => g = f
        BY <3>1, <1>3 DEF AttrsOneTree
      <4> QED BY <3>1, <4>1, <1>4 DEF InTree
    <3>2. CASE b \notin gone
      BY <3>2, <1>4 DEF InTree
    <3> QED BY <3>1, <3>2
  <2>4. \A b \in gone : InTree(b)
    BY <1>3 DEF InTree
  <2>5. \A b \in Attr : ref'[b] = (IF InTree(b)' THEN 1 ELSE 0)
                            + Cardinality(Cookies(b)')
                            + (IF b \in lost' THEN 1 ELSE 0)
    BY <2>1, <2>2, <2>3, <2>4, <1>2, <1>5 DEF RefsByHolder
  <2> QED BY <2>5 DEF RefsByHolder
<1> QED BY <1>7, <1>8, <1>9, <1>10, <1>11, RefsHeld, PTL

\* RenameAttr of a from f to g as l, with what it removes and inserts spelled
\* out: old makes room, a leaves its tree, and is in that of g unless Insert
\* finds its name there.
Renamed(f, g, a, old, l) ==
  /\ a \in Attr /\ a \notin old /\ \A b, c \in old : b = c
  /\ iter' = RemoveAttrFrom(RemoveAttrFrom(iter, fAttrs[g], g, old),
                [fAttrs EXCEPT ![g] = @ \ old][f], f, {a})
  /\ name' = [name EXCEPT ![a] = l]
  /\ fAttrs' \in [File -> SUBSET Attr]
  /\ \A k \in File : fAttrs'[k] =
       IF k = g /\ a \in fAttrs'[g]
       THEN (fAttrs[k] \ (old \cup {a})) \cup {a}
       ELSE fAttrs[k] \ (old \cup {a})
  /\ \/ /\ a \in fAttrs'[g] /\ lost' = lost
        /\ \A b \in fAttrs[g] \ (old \cup {a}) : name'[b] # name'[a]
     \/ /\ a \notin fAttrs'[g] /\ lost' = lost \cup {a}
        /\ name'[a] = name[a]
  /\ Release(old)
  /\ handle' = handle

LEMMA RenameAttrParts ==
  ASSUME AttrsAssumption, SelfRename = FALSE, AttrInv, NEW f \in File,
         NEW m \in Name, NEW g \in File, NEW n \in Name, RenameAttr(f, m, g, n)
  PROVE  \E a \in fAttrs[f], old \in SUBSET fAttrs[g], l \in Name :
           Renamed(f, g, a, old, l)
<1> USE DEF AttrInv
<1>1. PICK old : old = Find(g, n)
  OBVIOUS
<1>2. PICK trees : trees = [fAttrs EXCEPT ![g] = @ \ old]
  OBVIOUS
<1>3. PICK a \in Find(f, m) :
        /\ ~(f = g /\ m = n)
        /\ iter' = RemoveAttrFrom(RemoveAttrFrom(iter, fAttrs[g], g, old),
                                  trees[f], f, {a})
        /\ \E l \in {n} \cup (IF MemoryMayFail THEN {m} ELSE {}) :
             name' = [name EXCEPT ![a] = l]
        /\ fAttrs' = Insert([trees EXCEPT ![f] = @ \ {a}], name', g, a)
        /\ Release(old)
        /\ lost' = IF a \in fAttrs'[g] THEN lost ELSE lost \cup {a}
        /\ handle' = handle
  BY <1>1, <1>2 DEF RenameAttr
<1>4. PICK l \in {n, m} : name' = [name EXCEPT ![a] = l]
  BY <1>3
<1>5. /\ a \in fAttrs[f] /\ name[a] = m /\ a \in Attr
      /\ old \subseteq fAttrs[g] /\ \A b \in fAttrs[g] : b \in old <=> name[b] = n
      /\ \A b, c \in old : b = c
  BY <1>1, <1>3, FindOne DEF Find, TypeOK
<1>6. \A j, k \in File : fAttrs[j] \cap fAttrs[k] # {} => j = k
  BY DEF AttrsOneTree
<1>7. a \notin old
  BY <1>3, <1>5, <1>6
<1>8. PICK mid : mid = [trees EXCEPT ![f] = @ \ {a}]
  OBVIOUS
<1>9. mid \in [File -> SUBSET Attr]
  BY <1>2, <1>8 DEF TypeOK
<1>10. ASSUME NEW k \in File
       PROVE  mid[k] = fAttrs[k] \ (old \cup {a})
  <2>1. trees[k] = IF k = g THEN fAttrs[k] \ old ELSE fAttrs[k]
    BY <1>2 DEF TypeOK
  <2>2. mid[k] = IF k = f THEN trees[k] \ {a} ELSE trees[k]
    BY <1>2, <1>8 DEF TypeOK
  <2>3. k # g => old \cap fAttrs[k] = {}
    BY <1>5, <1>6
  <2>4. k # f => a \notin fAttrs[k]
    BY <1>5, <1>6
  <2> QED BY <2>1, <2>2, <2>3, <2>4
<1>11. a \notin mid[g]
  BY <1>10
<1>12. name'[a] = l /\ \A b \in Attr : b # a => name'[b] = name[b]
  BY <1>4, <1>5 DEF TypeOK
<1>13. CASE \E b \in mid[g] : name'[b] = name'[a]
  <2>1. fAttrs' = mid
    BY <1>3, <1>8, <1>13 DEF Insert
  <2>2. PICK b \in mid[g] : name'[b] = name'[a]
    BY <1>13
  <2>3. b \in Attr /\ b \in fAttrs[g] /\ b \notin old /\ b # a
    BY <1>9, <1>10
  <2>4. name[b] = l /\ name[b] # n
    BY <1>5, <1>12, <2>2, <2>3
  <2>5. name'[a] = name[a]
    BY <1>5, <1>12, <2>4
  <2>6. a \notin fAttrs'[g] /\ lost' = lost \cup {a}
    BY <1>3, <1>11, <2>1
  <2>7. \A k \in File : fAttrs'[k] = fAttrs[k] \ (old \cup {a})
    BY <1>10, <2>1
  <2> QED BY <1>2, <1>3, <1>4, <1>5, <1>7, <1>9, <2>1, <2>5, <2>6, <2>7
       DEF Renamed
<1>14. CASE ~\E b \in mid[g] : name'[b] = name'[a]
  <2>1. fAttrs' = [mid EXCEPT ![g] = @ \cup {a}]
    BY <1>3, <1>8, <1>14 DEF Insert
  <2>2. fAttrs' \in [File -> SUBSET Attr]
    BY <1>5, <1>9, <2>1
  <2>3. \A k \in File : fAttrs'[k] = IF k = g THEN mid[k] \cup {a} ELSE mid[k]
    BY <1>9, <2>1
  <2>4. a \in fAttrs'[g] /\ lost' = lost
    BY <1>3, <2>3
  <2>5. \A k \in File : fAttrs'[k] =
          IF k = g /\ a \in fAttrs'[g]
          THEN (fAttrs[k] \ (old \cup {a})) \cup {a}
          ELSE fAttrs[k] \ (old \cup {a})
    BY <1>10, <2>3, <2>4
  <2>6. \A b \in fAttrs[g] \ (old \cup {a}) : name'[b] # name'[a]
    BY <1>10, <1>14
  <2> QED BY <1>2, <1>3, <1>4, <1>5, <1>7, <2>2, <2>4, <2>5, <2>6
       DEF Renamed
<1> QED BY <1>13, <1>14

LEMMA RenameAttrStep ==
  ASSUME AttrsAssumption, SelfRename = FALSE, AttrInv, NEW f \in File,
         NEW m \in Name, NEW g \in File, NEW n \in Name, RenameAttr(f, m, g, n)
  PROVE  AttrInv'
<1>0. PICK a \in fAttrs[f], old \in SUBSET fAttrs[g], l \in Name :
        Renamed(f, g, a, old, l)
  BY RenameAttrParts, Zenon
<1>1. /\ a \in Attr /\ a \notin old /\ \A b, c \in old : b = c
      /\ iter' = RemoveAttrFrom(RemoveAttrFrom(iter, fAttrs[g], g, old),
                    [fAttrs EXCEPT ![g] = @ \ old][f], f, {a})
      /\ name' = [name EXCEPT ![a] = l]
      /\ fAttrs' \in [File -> SUBSET Attr]
      /\ \A k \in File : fAttrs'[k] =
           IF k = g /\ a \in fAttrs'[g]
           THEN (fAttrs[k] \ (old \cup {a})) \cup {a}
           ELSE fAttrs[k] \ (old \cup {a})
      /\ \/ /\ a \in fAttrs'[g] /\ lost' = lost
            /\ \A b \in fAttrs[g] \ (old \cup {a}) : name'[b] # name'[a]
         \/ a \notin fAttrs'[g] /\ lost' = lost \cup {a}
      /\ Release(old)
      /\ handle' = handle
  BY <1>0 DEF Renamed
<1> USE DEF AttrInv
<1>2. /\ \A j, k \in File : fAttrs[j] \cap fAttrs[k] # {} => j = k
      /\ \A k \in File : \A b, c \in fAttrs[k] : name[b] = name[c] => b = c
      /\ \A k \in File : fAttrs[k] \subseteq Attr
  BY DEF AttrsOneTree, TypeOK
<1>3. \A b \in Attr : b # a => name'[b] = name[b]
  BY <1>1 DEF TypeOK
\* Who is where after the step.
<1>4. \A k \in File : \A x \in fAttrs'[k] :
        \/ x = a /\ k = g /\ a \in fAttrs'[g]
        \/ x # a /\ x \in fAttrs[k] /\ x \notin old
  <2>1. ASSUME NEW k \in File, NEW x \in fAttrs'[k]
        PROVE  \/ x = a /\ k = g /\ a \in fAttrs'[g]
               \/ x # a /\ x \in fAttrs[k] /\ x \notin old
    <3>1. CASE k = g /\ a \in fAttrs'[g]
      BY <1>1, <2>1, <3>1
    <3>2. CASE ~(k = g /\ a \in fAttrs'[g])
      BY <1>1, <2>1, <3>2
    <3> QED BY <3>1, <3>2
  <2> QED BY <2>1
<1>5. \A k \in File : fAttrs[k] \ (old \cup {a}) \subseteq fAttrs'[k]
  BY <1>1
<1>6. /\ ref' \in [Attr -> Nat]
      /\ \A b \in Attr : ref'[b] = ref[b] - (IF b \in old THEN 1 ELSE 0)
  <2>1. \A b \in old : InTree(b)
    BY <1>1 DEF InTree
  <2>2. old \in SUBSET Attr
    BY <1>1, <1>2
  <2> QED BY <1>1, <2>1, <2>2, ReleaseType
<1>7. iter' \in [Iter -> Iters] /\ AttrItersLive'
  <2>1. PICK trees : trees = [fAttrs EXCEPT ![g] = @ \ old]
    OBVIOUS
  <2>2. PICK its : its = RemoveAttrFrom(iter, fAttrs[g], g, old)
    OBVIOUS
  <2>3. /\ fAttrs \in [File -> SUBSET Attr] /\ Live(iter, fAttrs)
        /\ iter \in [Iter -> Iters]
    BY DEF TypeOK, AttrItersLive, Live
  <2>4. its \in [Iter -> Iters] /\ Live(its, trees)
    <3>1. /\ RemoveAttrFrom(iter, fAttrs[g], g, old) \in [Iter -> Iters]
          /\ Live(RemoveAttrFrom(iter, fAttrs[g], g, old),
                  [fAttrs EXCEPT ![g] = @ \ old])
      BY <1>1, <2>3, RemoveAttrLive, Zenon
    <3> QED BY <2>1, <2>2, <3>1
  <2>5. trees \in [File -> SUBSET Attr] /\ {a} \in SUBSET trees[f]
    BY <1>1, <2>1, <2>3
  <2>6. \A b, c \in {a} : b = c
    OBVIOUS
  <2>7. /\ RemoveAttrFrom(its, trees[f], f, {a}) \in [Iter -> Iters]
        /\ Live(RemoveAttrFrom(its, trees[f], f, {a}),
                [trees EXCEPT ![f] = @ \ {a}])
    BY <2>4, <2>5, <2>6, RemoveAttrLive, Zenon
  <2>8. iter' \in [Iter -> Iters] /\ Live(iter', [trees EXCEPT ![f] = @ \ {a}])
    BY <1>1, <2>1, <2>2, <2>7
  <2>9. \A k \in File : [trees EXCEPT ![f] = @ \ {a}][k] \subseteq fAttrs'[k]
    <3>1. ASSUME NEW k \in File
          PROVE  [trees EXCEPT ![f] = @ \ {a}][k] = fAttrs[k] \ (old \cup {a})
      <4>1. trees[k] = IF k = g THEN fAttrs[k] \ old ELSE fAttrs[k]
        BY <2>1, <2>3
      <4>2. [trees EXCEPT ![f] = @ \ {a}][k] = IF k = f THEN trees[k] \ {a} ELSE trees[k]
        BY <2>5
      <4>3. k # g => old \cap fAttrs[k] = {}
        BY <1>1, <1>2
      <4>4. k # f => a \notin fAttrs[k]
        BY <1>1, <1>2
      <4> QED BY <4>1, <4>2, <4>3, <4>4
    <3> QED BY <1>5, <3>1
  <2>10. \A i \in Iter : iter'[i].file \in File
    BY <2>8 DEF Iters
  <2> QED BY <2>8, <2>9, <2>10 DEF AttrItersLive, Live
<1>8. a \notin lost
  BY <1>1 DEF LostStayOut
<1>9. TypeOK'
  <2>1. name' \in [Attr -> Name]
    BY <1>1 DEF TypeOK
  <2>2. lost' \subseteq Attr
    BY <1>1 DEF TypeOK
  <2> QED BY <1>1, <1>6, <1>7, <2>1, <2>2 DEF TypeOK
<1>10. AttrsOneTree'
  <2>1. ASSUME NEW j \in File, NEW k \in File, NEW x \in fAttrs'[j], x \in fAttrs'[k]
        PROVE  j = k
    BY <1>2, <1>4, <2>1
  <2>2. ASSUME NEW k \in File, NEW b \in fAttrs'[k], NEW c \in fAttrs'[k],
               name'[b] = name'[c]
        PROVE  b = c
    <3>1. CASE b # a /\ c # a
      <4>1. b \in fAttrs[k] /\ c \in fAttrs[k]
        BY <1>4, <3>1
      <4> QED BY <1>2, <1>3, <2>2, <3>1, <4>1
    <3>2. CASE b = a /\ c # a
      <4>1. k = g /\ a \in fAttrs'[g] /\ c \in fAttrs[g] \ (old \cup {a})
        BY <1>1, <1>4, <3>2
      <4> QED BY <1>1, <2>2, <3>2, <4>1
    <3>3. CASE b # a /\ c = a
      <4>1. k = g /\ a \in fAttrs'[g] /\ b \in fAttrs[g] \ (old \cup {a})
        BY <1>1, <1>4, <3>3
      <4> QED BY <1>1, <2>2, <3>3, <4>1
    <3> QED BY <3>1, <3>2, <3>3
  <2> QED BY <2>1, <2>2 DEF AttrsOneTree
<1>11. LostStayOut'
  <2>1. ASSUME NEW k \in File, NEW x \in fAttrs'[k], x \in lost'
        PROVE  FALSE
    BY <1>1, <1>4, <1>8, <2>1 DEF LostStayOut
  <2> QED BY <2>1 DEF LostStayOut
<1>12. RefsByHolder'
  <2>1. \A b : Cookies(b)' = Cookies(b)
    BY <1>1 DEF Cookies
  <2>2. RefsByHolder /\ \A b \in Attr : Cardinality(Cookies(b)) \in Nat
    BY RefsHeld, CookiesFinite
  <2>3. ASSUME NEW b \in Attr
        PROVE  ref'[b] = (IF InTree(b)' THEN 1 ELSE 0) + Cardinality(Cookies(b)')
                         + (IF b \in lost' THEN 1 ELSE 0)
    <3>1. CASE b = a
      <4>1. InTree(b) /\ b \notin old /\ b \notin lost
        BY <1>1, <1>8, <3>1 DEF InTree
      <4>2. InTree(b)' <=> a \in fAttrs'[g]
        BY <1>4, <3>1 DEF InTree
      <4>3. b \in lost' <=> a \notin fAttrs'[g]
        BY <1>1, <1>8, <3>1
      <4> QED BY <2>1, <2>2, <4>1, <4>2, <4>3, <1>6 DEF RefsByHolder
    <3>2. CASE b \in old
      <4>1. InTree(b) /\ b # a
        BY <1>1, <3>2 DEF InTree
      <4>2. ~InTree(b)'
        BY <1>4, <4>1, <3>2 DEF InTree
      <4>3. b \in lost' <=> b \in lost
        BY <1>1, <4>1
      <4> QED BY <2>1, <2>2, <3>2, <4>1, <4>2, <4>3, <1>6 DEF RefsByHolder
    <3>3. CASE b # a /\ b \notin old
      <4>1. InTree(b)' <=> InTree(b)
        BY <1>4, <1>5, <3>3 DEF InTree
      <4>2. b \in lost' <=> b \in lost
        BY <1>1, <3>3
      <4> QED BY <2>1, <2>2, <3>3, <4>1, <4>2, <1>6 DEF RefsByHolder
    <3> QED BY <3>1, <3>2, <3>3
  <2> QED BY <2>3 DEF RefsByHolder
<1> QED BY <1>7, <1>9, <1>10, <1>11, <1>12, RefsHeld, PTL

LEMMA DeleteVnodeStep ==
  ASSUME AttrsAssumption, AttrInv, NEW f \in File, DeleteVnode(f)
  PROVE  AttrInv'
<1> USE DEF AttrInv
<1>1. PICK gone : gone = fAttrs[f]
  OBVIOUS
<1>2. /\ \A i \in Iter : iter[i].state # "none" => iter[i].file # f
      /\ fAttrs' = [fAttrs EXCEPT ![f] = {}]
      /\ Release(gone)
      /\ UNCHANGED <<name, handle, iter, lost>>
  BY <1>1 DEF DeleteVnode
<1>3. gone \in SUBSET Attr
  BY <1>1 DEF TypeOK
<1>4. /\ \A g \in File : fAttrs'[g] = IF g = f THEN {} ELSE fAttrs[g]
      /\ fAttrs' \in [File -> SUBSET Attr]
  BY <1>2 DEF TypeOK
<1>5. /\ ref' \in [Attr -> Nat]
      /\ \A a \in Attr : ref'[a] = ref[a] - (IF a \in gone THEN 1 ELSE 0)
  <2>1. \A a \in gone : InTree(a)
    BY <1>1 DEF InTree
  <2> QED BY <1>2, <1>3, <2>1, ReleaseType
<1>6. TypeOK'
  BY <1>2, <1>4, <1>5 DEF TypeOK
<1>7. AttrsOneTree' /\ LostStayOut'
  BY <1>2, <1>4 DEF AttrsOneTree, LostStayOut
<1>8. AttrItersLive'
  <2>1. \A i \in Iter : iter[i].file \in File
    BY DEF TypeOK, Iters
  <2> QED BY <2>1, <1>2, <1>4 DEF AttrItersLive
<1>9. RefsByHolder'
  <2>1. \A b : Cookies(b)' = Cookies(b)
    BY <1>2 DEF Cookies
  <2>2. RefsByHolder /\ \A b \in Attr : Cardinality(Cookies(b)) \in Nat
    BY RefsHeld, CookiesFinite
  <2>3. ASSUME NEW b \in Attr
        PROVE  InTree(b)' <=> InTree(b) /\ b \notin gone
    BY <1>1, <1>4 DEF InTree, AttrsOneTree
  <2>4. \A b \in gone : InTree(b)
    BY <1>1 DEF InTree
  <2>5. \A b \in Attr : ref'[b] = (IF InTree(b)' THEN 1 ELSE 0)
                            + Cardinality(Cookies(b)')
                            + (IF b \in lost' THEN 1 ELSE 0)
    BY <2>1, <2>2, <2>3, <2>4, <1>2, <1>5 DEF RefsByHolder
  <2> QED BY <2>5 DEF RefsByHolder
<1> QED BY <1>6, <1>7, <1>8, <1>9, RefsHeld, PTL

LEMMA SetIterStep ==
  ASSUME AttrsAssumption, AttrInv, NEW i \in Iter, NEW f \in File,
         NEW a \in Attr \cup {NoAttr}, NEW state \in {"none", "open", "closed"},
         state = "open" => a \in fAttrs[f] \cup {NoAttr},
         SetIter(i, f, a, state)
  PROVE  AttrInv'
<1> USE DEF AttrInv
<1>1. /\ iter' = [iter EXCEPT ![i] = [file |-> f, attr |-> a, state |-> state]]
      /\ UNCHANGED <<name, ref, fAttrs, handle, lost>>
  BY DEF SetIter
<1>2. TypeOK'
  BY <1>1 DEF TypeOK, Iters
<1>3. AttrRefsExact' /\ AttrsOneTree' /\ LostStayOut'
  BY <1>1 DEF AttrRefsExact, Trees, Cookies, AttrsOneTree, LostStayOut
<1>4. AttrItersLive'
  BY <1>1 DEF AttrItersLive, TypeOK
<1> QED BY <1>2, <1>3, <1>4

\* Where an iterator can be put: at the start of a tree, or after itself.
LEMMA IterPlaces ==
  ASSUME AttrsAssumption, AttrInv
  PROVE  /\ \A f \in File : LeftMost(fAttrs[f]) \in fAttrs[f] \cup {NoAttr}
         /\ \A i \in Iter :
              iter[i].state = "open" /\ iter[i].attr # NoAttr =>
                After(fAttrs[iter[i].file], iter[i].attr)
                  \in fAttrs[iter[i].file] \cup {NoAttr}
         /\ \A f \in File : fAttrs[f] \subseteq Attr
         /\ \A i \in Iter : iter[i].file \in File /\ iter[i].attr \in Attr \cup {NoAttr}
<1> USE DEF AttrInv
<1>1. /\ \A f \in File : fAttrs[f] \in SUBSET Attr
      /\ \A i \in Iter : iter[i].file \in File /\ iter[i].attr \in Attr \cup {NoAttr}
  BY DEF TypeOK, Iters
<1>2. \A f \in File : LeftMost(fAttrs[f]) \in fAttrs[f] \cup {NoAttr}
  BY <1>1, LeftMostIn
<1>3. ASSUME NEW i \in Iter, iter[i].state = "open", iter[i].attr # NoAttr
      PROVE  After(fAttrs[iter[i].file], iter[i].attr)
               \in fAttrs[iter[i].file] \cup {NoAttr}
  <2>1. iter[i].attr \in fAttrs[iter[i].file] /\ fAttrs[iter[i].file] \in SUBSET Attr
    BY <1>1, <1>3 DEF AttrItersLive
  <2>2. After(fAttrs[iter[i].file], iter[i].attr)
          \in (fAttrs[iter[i].file] \ {iter[i].attr}) \cup {NoAttr}
    BY <2>1, AfterIn, Zenon
  <2> QED BY <2>2
<1> QED BY <1>1, <1>2, <1>3

LEMMA IteratorStep ==
  ASSUME AttrsAssumption, AttrInv, NEW i \in Iter,
         \/ \E f \in File : OpenAttrDir(f, i)
         \/ RewindAttrDir(i) \/ ReadAttrDir(i)
         \/ CloseAttrDir(i) \/ FreeAttrDirCookie(i)
  PROVE  AttrInv'
<1>1. /\ iter[i].file \in File /\ iter[i].attr \in Attr \cup {NoAttr}
      /\ \A f \in File : LeftMost(fAttrs[f]) \in fAttrs[f] \cup {NoAttr}
      /\ \A f \in File : fAttrs[f] \subseteq Attr
  BY IterPlaces
<1>2. CASE \E f \in File : OpenAttrDir(f, i)
  <2>1. PICK f \in File : SetIter(i, f, LeftMost(fAttrs[f]), "open")
    BY <1>2 DEF OpenAttrDir
  <2>2. LeftMost(fAttrs[f]) \in Attr \cup {NoAttr}
    BY <1>1
  <2> QED BY <1>1, <2>1, <2>2, SetIterStep
<1>3. CASE RewindAttrDir(i)
  <2>1. SetIter(i, iter[i].file, LeftMost(fAttrs[iter[i].file]), "open")
    BY <1>3 DEF RewindAttrDir
  <2>2. /\ LeftMost(fAttrs[iter[i].file]) \in Attr \cup {NoAttr}
        /\ LeftMost(fAttrs[iter[i].file]) \in fAttrs[iter[i].file] \cup {NoAttr}
    BY <1>1
  <2> QED BY <1>1, <2>1, <2>2, SetIterStep
<1>4. CASE ReadAttrDir(i)
  <2>1. /\ SetIter(i, iter[i].file, After(fAttrs[iter[i].file], iter[i].attr), "open")
        /\ iter[i].state = "open" /\ iter[i].attr # NoAttr
    BY <1>4 DEF ReadAttrDir
  <2>2. After(fAttrs[iter[i].file], iter[i].attr) \in fAttrs[iter[i].file] \cup {NoAttr}
    BY <2>1, IterPlaces
  <2>3. After(fAttrs[iter[i].file], iter[i].attr) \in Attr \cup {NoAttr}
    BY <1>1, <2>2
  <2> QED BY <1>1, <2>1, <2>2, <2>3, SetIterStep
<1>5. CASE CloseAttrDir(i)
  <2>1. SetIter(i, iter[i].file, iter[i].attr, "closed")
    BY <1>5 DEF CloseAttrDir
  <2> QED BY <1>1, <2>1, SetIterStep
<1>6. CASE FreeAttrDirCookie(i)
  <2>1. SetIter(i, iter[i].file, NoAttr, "none")
    BY <1>6 DEF FreeAttrDirCookie
  <2> QED BY <1>1, <2>1, SetIterStep
<1> QED BY <1>2, <1>3, <1>4, <1>5, <1>6

-----------------------------------------------------------------------------
(* The theorems.                                                           *)

LEMMA AttrInit == AttrsAssumption /\ Init => AttrInv
<1> SUFFICES ASSUME AttrsAssumption, Init
             PROVE  AttrInv
  OBVIOUS
<1>1. TypeOK
  BY DEF Init, TypeOK, Handles, Iters
<1>2. AttrsOneTree /\ AttrItersLive /\ LostStayOut
  BY DEF Init, AttrsOneTree, AttrItersLive, LostStayOut
<1>3. RefsByHolder
  <2>1. ASSUME NEW a \in Attr
        PROVE  /\ ~InTree(a) /\ a \notin lost /\ ref[a] = 0
               /\ Cardinality(Cookies(a)) = 0
    <3>1. Cookies(a) = {}
      BY DEF Init, Cookies, AttrsAssumption
    <3> QED BY <3>1, CookiesFinite DEF Init, InTree
  <2> QED BY <2>1 DEF RefsByHolder
<1> QED BY <1>1, <1>2, <1>3, RefsHeld DEF AttrInv

LEMMA AttrNext ==
  AttrsAssumption /\ SelfRename = FALSE /\ AttrInv /\ [Next]_vars => AttrInv'
<1> SUFFICES ASSUME AttrsAssumption, SelfRename = FALSE, AttrInv, [Next]_vars
             PROVE  AttrInv'
  OBVIOUS
<1>1. ASSUME NEW f \in File, DeleteVnode(f)
      PROVE  AttrInv'
  BY <1>1, DeleteVnodeStep
<1>2. ASSUME NEW f \in File, NEW n \in Name, RemoveAttr(f, n)
      PROVE  AttrInv'
  BY <1>2, RemoveAttrStep
<1>3. ASSUME NEW f \in File, NEW n \in Name, NEW g \in File, NEW m \in Name,
             RenameAttr(f, m, g, n)
      PROVE  AttrInv'
  BY <1>3, RenameAttrStep
<1>4. ASSUME NEW f \in File, NEW n \in Name, NEW h \in Handle, OpenAttr(f, n, h)
      PROVE  AttrInv'
  BY <1>4, OpenAttrStep
<1>5. ASSUME NEW f \in File, NEW n \in Name, NEW h \in Handle, NEW a \in Attr,
             CreateAttr(f, n, h, a)
      PROVE  AttrInv'
  BY <1>5, CreateAttrStep
<1>6. ASSUME NEW h \in Handle, FreeAttrCookie(h)
      PROVE  AttrInv'
  BY <1>6, FreeAttrCookieStep
<1>7. ASSUME NEW i \in Iter,
             \/ \E f \in File : OpenAttrDir(f, i)
             \/ RewindAttrDir(i) \/ ReadAttrDir(i)
             \/ CloseAttrDir(i) \/ FreeAttrDirCookie(i)
      PROVE  AttrInv'
  BY <1>7, IteratorStep
<1>8. CASE UNCHANGED vars
  BY <1>8 DEF vars, AttrInv, TypeOK, AttrRefsExact, Trees, Cookies,
              AttrsOneTree, AttrItersLive, LostStayOut
<1> QED BY <1>1, <1>2, <1>3, <1>4, <1>5, <1>6, <1>7, <1>8 DEF Next

\* Whatever is created, opened, removed and renamed, but for an attribute
\* renamed to its own name, the invariant of trees, counts and iterators
\* holds.
THEOREM AttrInvariance == SelfRename = FALSE /\ Spec => []AttrInv
<1>1. AttrsAssumption
  BY AttrsAssumption
<1>2. AttrsAssumption /\ Init => AttrInv
  BY AttrInit
<1>3. SUFFICES ASSUME SelfRename = FALSE
               PROVE  Spec => []AttrInv
  OBVIOUS
<1>4. AttrsAssumption /\ AttrInv /\ [Next]_vars => AttrInv'
  BY <1>3, AttrNext
<1> QED BY <1>1, <1>2, <1>4, PTL DEF Spec

\* The trees, cookies and iterators are what ShmfsVnode.h declares; no count
\* of references goes below zero.
THEOREM AttrTypeCorrect == SelfRename = FALSE /\ Spec => []TypeOK
<1>1. AttrInv => TypeOK
  BY DEF AttrInv
<1> QED BY <1>1, AttrInvariance, PTL

\* Each attribute is counted once for its tree and once for each cookie, so
\* ReleaseReference deletes it when, and only when, the last has let go.
THEOREM AttrCountsHolders == SelfRename = FALSE /\ Spec => []AttrRefsExact
<1>1. AttrInv => AttrRefsExact
  BY DEF AttrInv
<1> QED BY <1>1, AttrInvariance, PTL

\* RemoveAttr and RenameAttr leave no attribute in two trees, and no name
\* twice in one.
THEOREM AttrInOneTree == SelfRename = FALSE /\ Spec => []AttrsOneTree
<1>1. AttrInv => AttrsOneTree
  BY DEF AttrInv
<1> QED BY <1>1, AttrInvariance, PTL

\* No open iterator of an attribute directory points out of its tree, so
\* ReadAttrDir reads no deleted attribute.
THEOREM AttrIteratorsStayLive == SelfRename = FALSE /\ Spec => []AttrItersLive
<1>1. AttrInv => AttrItersLive
  BY DEF AttrInv
<1> QED BY <1>1, AttrInvariance, PTL

\* An attribute falls out of the trees only when SetName has failed: what
\* bears the new name is always out of the way before Insert.
THEOREM RenameMakesRoom == SelfRename = FALSE /\ Spec => NoAttrLost
<1> SUFFICES ASSUME SelfRename = FALSE
             PROVE  Spec => NoAttrLost
  OBVIOUS
<1>1. ASSUME AttrsAssumption, AttrInv, [Next]_vars,
             NEW a \in lost' \ lost
      PROVE  name'[a] = name[a]
  <2>1. CASE \E f, g \in File : \E m, n \in Name : RenameAttr(f, m, g, n)
    <3>1. PICK f \in File, g \in File, m \in Name, n \in Name : RenameAttr(f, m, g, n)
      BY <2>1
    <3>2. PICK b \in fAttrs[f], old \in SUBSET fAttrs[g], l \in Name :
            Renamed(f, g, b, old, l)
      BY <1>1, <3>1, RenameAttrParts, Zenon
    <3>3. \/ lost' = lost
          \/ lost' = lost \cup {b} /\ name'[b] = name[b]
      BY <3>2 DEF Renamed
    <3> QED BY <1>1, <3>3
  <2>2. CASE ~\E f, g \in File : \E m, n \in Name : RenameAttr(f, m, g, n)
    <3>1. lost' = lost
      BY <1>1, <2>2 DEF Next, vars, DeleteVnode, OpenAttrDir, RewindAttrDir,
         ReadAttrDir, CloseAttrDir, FreeAttrDirCookie, SetIter, RemoveAttr,
         OpenAttr, CreateAttr, FreeAttrCookie
    <3> QED BY <1>1, <3>1
  <2> QED BY <2>1, <2>2
<1>2. AttrsAssumption /\ AttrInv /\ [Next]_vars =>
        [\A a \in lost' \ lost : name'[a] = name[a]]_vars
  BY <1>1
<1>3. AttrsAssumption
  BY AttrsAssumption
<1>4. Spec => []AttrInv
  BY AttrInvariance
<1> QED BY <1>2, <1>3, <1>4, PTL DEF Spec, NoAttrLost
=============================================================================
