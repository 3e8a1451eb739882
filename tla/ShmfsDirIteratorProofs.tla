----------------------- MODULE ShmfsDirIteratorProofs -----------------------
(***************************************************************************)
(* Proofs about ShmfsDirIterator for every set of entries, names and       *)
(* iterators.                                                              *)
(***************************************************************************)
EXTENDS ShmfsDirIterator, OrderLemmas, SequenceTheorems, TLAPS

-----------------------------------------------------------------------------
(* The inductive invariant.                                                *)

Returned(c, n) == \E i \in DOMAIN c.got : c.got[i] = n

\* A scan that was not hit, in a directory with these entries and names.
\* What lasts is returned already or ahead; what is returned is behind.
ScanOK(c, nodes, names) ==
  /\ c.node \in nodes \cup {NoVnode}
  /\ c.idx = 0 => c.got = <<>>
  /\ c.idx = 1 => hasParent /\ c.got = <<Dot>>
  /\ c.idx = 2 => Returned(c, Dot) /\ (hasParent => Returned(c, DotDot))
  /\ \A i, j \in DOMAIN c.got : i < j => c.got[i] < c.got[j]
  /\ c.node # NoVnode => \A i \in DOMAIN c.got : c.got[i] < names[c.node]
  /\ \A n \in c.lasting :
       \/ Returned(c, n)
       \/ c.node # NoVnode /\ names[c.node] <= n
  /\ \A n \in c.lasting : \E v \in nodes : names[v] = n

ScansOK(cs, nodes, names) ==
  \A it \in fIterators : ~cs[it].hit => ScanOK(cs[it], nodes, names)

DirInv == TypeOK /\ ScansOK(cookie, fNodes, name)

-----------------------------------------------------------------------------
(* The order of the entries.                                               *)

LEMMA LeftMostLeast ==
  ASSUME IteratorAssumption, name \in [Vnode -> Name],
         NEW nodes \in SUBSET Vnode
  PROVE  /\ nodes = {} => LeftMost(nodes) = NoVnode
         /\ nodes # {} => /\ LeftMost(nodes) \in nodes
                          /\ \A w \in nodes : name[LeftMost(nodes)] <= name[w]
<1>1. CASE nodes # {}
  <2> DEFINE S == {name[v] : v \in nodes}
  <2>1. S \in SUBSET Nat /\ S # {}
    <3>1. \A v \in nodes : name[v] \in Nat
      BY DEF IteratorAssumption
    <3> QED BY <1>1, <3>1
  <2> HIDE DEF S
  <2>2. PICK m \in S : \A k \in S : m <= k
    BY <2>1, LeastNatural
  <2>3. \E v \in nodes : \A w \in nodes : name[v] <= name[w]
    BY <2>2 DEF S
  <2> QED BY <1>1, <2>3 DEF LeftMost
<1> QED BY <1>1 DEF LeftMost

LEMMA AfterLeast ==
  ASSUME IteratorAssumption, name \in [Vnode -> Name],
         NEW nodes \in SUBSET Vnode, NEW v \in nodes
  PROVE  LET a == After(nodes, v)
         IN  /\ a \in (nodes \ {v}) \cup {NoVnode}
             /\ a # NoVnode => name[v] < name[a]
             /\ \A w \in nodes : name[v] < name[w] =>
                  a # NoVnode /\ name[a] <= name[w]
<1> DEFINE later == {w \in nodes : name[w] > name[v]}
<1>1. /\ later = {} => LeftMost(later) = NoVnode
      /\ later # {} => /\ LeftMost(later) \in later
                       /\ \A w \in later : name[LeftMost(later)] <= name[w]
  <2>1. later \in SUBSET Vnode
    OBVIOUS
  <2> HIDE DEF later
  <2> QED BY <2>1, LeftMostLeast
<1>2. name[v] \in Nat /\ \A w \in nodes : name[w] \in Nat
  BY DEF IteratorAssumption
<1>3. NoVnode \notin nodes
  BY DEF IteratorAssumption
<1>4. After(nodes, v) = LeftMost(later)
  BY DEF After
<1>5. \A w : w \in later <=> w \in nodes /\ name[w] > name[v]
  OBVIOUS
<1> HIDE DEF later
<1> QED BY <1>1, <1>2, <1>3, <1>4, <1>5

-----------------------------------------------------------------------------
(* Pieces of the steps.                                                    *)

LEMMA RewindInv ==
  ASSUME IteratorAssumption, TypeOK
  PROVE  /\ IteratorRewind(fNodes) \in Cookie
         /\ ScanOK(IteratorRewind(fNodes), fNodes, name)
<1>1. LeftMost(fNodes) \in fNodes \cup {NoVnode}
  BY LeftMostLeast DEF TypeOK
<1>2. \A v \in fNodes : LeftMost(fNodes) # NoVnode
                        /\ name[LeftMost(fNodes)] <= name[v]
  BY LeftMostLeast DEF TypeOK, IteratorAssumption
<1>4. IteratorRewind(fNodes) \in Cookie
  BY <1>1 DEF IteratorRewind, Cookie, TypeOK
<1>5. ScanOK(IteratorRewind(fNodes), fNodes, name)
  BY <1>1, <1>2 DEF IteratorRewind, ScanOK
<1> QED BY <1>4, <1>5

\* IteratorNext on an entry that is in the tree, or on "." or "..".
LEMMA NextType ==
  ASSUME IteratorAssumption, name \in [Vnode -> Name], NEW c \in Cookie,
         hasParent \in BOOLEAN,
         NEW nodes \in SUBSET Vnode, NEW junk \in Vnode \cup {NoVnode}
  PROVE  /\ IteratorNext(c, nodes, junk) \in Cookie
         /\ IteratorNext(c, nodes, junk).hit = c.hit
<1>1. c.node \in nodes => After(nodes, c.node) \in Vnode \cup {NoVnode}
  BY AfterLeast
<1> QED BY <1>1, SMTT(30) DEF IteratorNext, Cookie

\* RemoveNode leaves every scan in order, with one entry less.
LEMMA RemoveNodeInv ==
  ASSUME IteratorAssumption, name \in [Vnode -> Name], hasParent \in BOOLEAN,
         NEW cs \in [Iter -> Cookie], fIterators \subseteq Iter,
         NEW nodes \in SUBSET Vnode, ScansOK(cs, nodes, name),
         NEW v \in nodes
  PROVE  /\ RemoveNode(cs, nodes, v) \in [Iter -> Cookie]
         /\ ScansOK(RemoveNode(cs, nodes, v), nodes \ {v}, name)
<1> DEFINE here(it) == it \in fIterators /\ cs[it].node = v
           c(it) == Forget(cs[it], name[v], here(it))
           new(it) == IF here(it) THEN IteratorNext(c(it), nodes, NoVnode)
                      ELSE c(it)
<1>1. RemoveNode(cs, nodes, v) = [it \in Iter |-> new(it)]
  BY DEF RemoveNode
<1>2. ASSUME NEW it \in Iter PROVE c(it) \in Cookie
  <2>1. cs[it] \in Cookie
    OBVIOUS
  <2>2. <<>> \in Seq(Nat) /\ {} \in SUBSET Name
        /\ cs[it].lasting \ {name[v]} \in SUBSET Name
    BY <2>1 DEF Cookie
  <2> QED BY <2>1, <2>2 DEF Forget, Cookie
<1>3. ASSUME NEW it \in Iter PROVE new(it) \in Cookie
  <2>1. c(it) \in Cookie
    BY <1>2
  <2> HIDE DEF c
  <2> QED BY <2>1, NextType
<1>4. ASSUME NEW it \in fIterators, ~new(it).hit
      PROVE  ScanOK(new(it), nodes \ {v}, name)
  <2>1. cs[it] \in Cookie /\ c(it) \in Cookie
    BY <1>2
  <2>2. CASE cs[it].node # v
    <3>1. new(it) = [cs[it] EXCEPT !.lasting = @ \ {name[v]}]
      BY <2>2 DEF Forget
    <3>2. /\ new(it).idx = cs[it].idx /\ new(it).node = cs[it].node
          /\ new(it).got = cs[it].got /\ new(it).hit = cs[it].hit
          /\ new(it).lasting = cs[it].lasting \ {name[v]}
      BY <3>1, <2>1 DEF Cookie
    <3> HIDE DEF new, c, here
    <3>3. ScanOK(cs[it], nodes, name)
      BY <1>4, <3>2 DEF ScansOK
    <3> QED BY <3>2, <3>3, <2>2 DEF ScanOK, Returned
  <2>3. CASE cs[it].node = v
    <3> DEFINE a == After(nodes, v)
    <3>1. new(it).hit = c(it).hit
      <4> HIDE DEF c
      <4> QED BY <2>1, <2>3, NextType
    <3>a. c(it) = IF cs[it].idx < 2
                  THEN [cs[it] EXCEPT !.hit = TRUE, !.got = <<>>, !.lasting = {}]
                  ELSE [cs[it] EXCEPT !.lasting = @ \ {name[v]}]
      BY <2>3 DEF Forget
    <3>b. new(it) = IteratorNext(c(it), nodes, NoVnode)
      BY <2>3
    <3>c. ~c(it).hit
      BY <1>4, <3>1
    <3> HIDE DEF new, c, here, a
    <3>2. ~(cs[it].idx < 2)
      BY <3>a, <3>c, <2>1 DEF Cookie
    <3>d. cs[it].idx = 2 /\ c(it) = [cs[it] EXCEPT !.lasting = @ \ {name[v]}]
      BY <3>2, <3>a, <2>1 DEF Cookie
    <3>e. /\ c(it).idx = 2 /\ c(it).node = v /\ c(it).got = cs[it].got
          /\ c(it).hit = cs[it].hit
          /\ c(it).lasting = cs[it].lasting \ {name[v]}
      BY <3>d, <2>1, <2>3 DEF Cookie
    <3>f. new(it) = [c(it) EXCEPT !.node = a]
      BY <3>b, <3>e DEF IteratorNext, a
    <3>3. /\ new(it).idx = 2 /\ new(it).node = a /\ new(it).got = cs[it].got
          /\ new(it).lasting = cs[it].lasting \ {name[v]}
      BY <3>e, <3>f, <2>1 DEF Cookie
    <3>4. ScanOK(cs[it], nodes, name)
      BY <3>c, <3>e DEF ScansOK
    <3>5. /\ a \in (nodes \ {v}) \cup {NoVnode}
          /\ a # NoVnode => name[v] < name[a]
          /\ \A w \in nodes : name[v] < name[w] =>
               a # NoVnode /\ name[a] <= name[w]
      BY AfterLeast DEF a
    <3>6. \A w \in nodes : name[w] \in Nat
      BY DEF IteratorAssumption
    <3>7. NoVnode \notin nodes
      BY DEF IteratorAssumption
    <3>8. \A i \in DOMAIN cs[it].got : cs[it].got[i] \in Nat
      BY <2>1 DEF Cookie
    <3>9. a # NoVnode => \A i \in DOMAIN cs[it].got : cs[it].got[i] < name[a]
      BY <2>3, <3>4, <3>5, <3>6, <3>7, <3>8 DEF ScanOK
    <3>10. ASSUME NEW n \in cs[it].lasting \ {name[v]}
           PROVE  /\ Returned(cs[it], n) \/ (a # NoVnode /\ name[a] <= n)
                  /\ \E w \in nodes \ {v} : name[w] = n
      BY <2>3, <3>4, <3>5, <3>6, <3>7 DEF ScanOK
    <3> QED BY <3>d, <3>3, <3>4, <3>5, <3>9, <3>10 DEF ScanOK, Returned
  <2> QED BY <2>2, <2>3
<1> HIDE DEF new
<1>5. RemoveNode(cs, nodes, v) \in [Iter -> Cookie]
  BY <1>1, <1>3
<1>6. \A it \in fIterators : RemoveNode(cs, nodes, v)[it] = new(it)
  BY <1>1
<1>7. ScansOK(RemoveNode(cs, nodes, v), nodes \ {v}, name)
  BY <1>4, <1>6 DEF ScansOK
<1> QED BY <1>5, <1>7

\* A new name for an object that is not an entry, which may then become one.
LEMMA InsertInv ==
  ASSUME IteratorAssumption, name \in [Vnode -> Name],
         NEW cs \in [Iter -> Cookie], NEW nodes \in SUBSET Vnode,
         ScansOK(cs, nodes, name), NEW v \in Vnode \ nodes, NEW m \in Name,
         NEW more \in {nodes, nodes \cup {v}}
  PROVE  ScansOK(cs, more, [name EXCEPT ![v] = m])
<1> SUFFICES ASSUME NEW it \in fIterators, ~cs[it].hit
             PROVE  ScanOK(cs[it], more, [name EXCEPT ![v] = m])
  BY DEF ScansOK
<1>1. ScanOK(cs[it], nodes, name)
  BY DEF ScansOK
<1>2. \A w \in nodes : [name EXCEPT ![v] = m][w] = name[w]
  OBVIOUS
<1> QED BY <1>1, <1>2 DEF ScanOK, Returned

\* A turn of ReadDir's loop returns what comes next, and goes on.
LEMMA ReadInv ==
  ASSUME IteratorAssumption, TypeOK, NEW c \in Cookie,
         ScanOK(c, fNodes, name), ~AtEnd(c),
         NEW junk \in Vnode \cup {NoVnode}
  PROVE  ScanOK(IteratorNext([c EXCEPT !.got = Append(@, IteratorGet(c))],
                             fNodes, junk), fNodes, name)
<1> DEFINE g == IteratorGet(c)
           got == Append(c.got, g)
           d == IteratorNext([c EXCEPT !.got = Append(@, IteratorGet(c))],
                             fNodes, junk)
<1>1. \A w \in fNodes : name[w] \in Nat /\ name[w] > 1
  <2>1. \A n \in Name : n \in Nat /\ n # 0 /\ n # 1
    BY DEF IteratorAssumption, Dot, DotDot
  <2>2. \A w \in fNodes : name[w] \in Name
    BY DEF TypeOK
  <2>3. \A n \in Name : n > 1
    BY <2>1
  <2> QED BY <2>1, <2>2, <2>3
<1>2. NoVnode \notin fNodes
  BY DEF IteratorAssumption, TypeOK
<1>3. c.got \in Seq(Nat) /\ c.idx \in 0..2 /\ c.lasting \subseteq Name
  BY DEF Cookie
<1>4. c.idx = 2 => c.node \in fNodes
  BY DEF AtEnd, ScanOK
<1>5. g \in Nat /\ (c.idx = 0 => g = 0) /\ (c.idx = 1 => g = 1)
      /\ (c.idx = 2 => g = name[c.node])
  BY <1>1, <1>3, <1>4 DEF IteratorGet, Dot, DotDot
<1> HIDE DEF g
<1>6. \A i \in DOMAIN c.got : c.got[i] \in Nat /\ c.got[i] < g
  <2>1. \A i \in DOMAIN c.got : c.got[i] \in Nat
    BY <1>3
  <2>2. c.idx = 0 => DOMAIN c.got = {}
    BY DEF ScanOK
  <2>3. c.idx = 1 => \A i \in DOMAIN c.got : c.got[i] = 0
    BY DEF ScanOK, Dot
  <2>4. c.idx = 2 => \A i \in DOMAIN c.got : c.got[i] < g
    BY <1>2, <1>4, <1>5 DEF ScanOK
  <2> QED BY <1>3, <1>5, <2>1, <2>2, <2>3, <2>4
<1>7. /\ DOMAIN got = DOMAIN c.got \cup {Len(c.got) + 1}
      /\ \A i \in DOMAIN c.got : got[i] = c.got[i]
      /\ got[Len(c.got) + 1] = g
      /\ DOMAIN c.got = 1..Len(c.got)
      /\ Len(c.got) \in Nat
  BY <1>3, <1>5
<1> HIDE DEF got
<1>8. \A i, j \in DOMAIN got : i < j => got[i] < got[j]
  BY <1>6, <1>7 DEF ScanOK
<1>9. \A i \in DOMAIN got : got[i] <= g /\ got[i] \in Nat
  BY <1>5, <1>6, <1>7
<1>10. \A n : (\E i \in DOMAIN got : got[i] = n) <=> (Returned(c, n) \/ n = g)
  BY <1>7 DEF Returned
<1>11. \A n \in c.lasting : n \in Nat
  BY <1>3 DEF IteratorAssumption
<1>12. CASE c.idx = 2
  <2> DEFINE a == After(fNodes, c.node)
  <2>1. d = [c EXCEPT !.got = got, !.node = a]
    BY <1>4, <1>12 DEF IteratorNext, got, g, Cookie
  <2>2. /\ a \in fNodes \cup {NoVnode}
        /\ a # NoVnode => name[c.node] < name[a]
        /\ \A w \in fNodes : name[c.node] < name[w] =>
             a # NoVnode /\ name[a] <= name[w]
    BY <1>4, <1>12, AfterLeast DEF TypeOK
  <2> HIDE DEF a, d
  <2>3. a # NoVnode => \A i \in DOMAIN got : got[i] < name[a]
    BY <1>1, <1>4, <1>5, <1>9, <1>12, <2>2
  <2>4. ASSUME NEW n \in c.lasting
        PROVE  \/ \E i \in DOMAIN got : got[i] = n
               \/ a # NoVnode /\ name[a] <= n
    <3>1. Returned(c, n) \/ name[c.node] <= n
      BY DEF ScanOK
    <3>2. PICK w \in fNodes : name[w] = n
      BY DEF ScanOK
    <3>3. n = g \/ Returned(c, n) \/ name[c.node] < name[w]
      BY <3>1, <3>2, <1>1, <1>4, <1>5, <1>12
    <3> QED BY <3>2, <3>3, <2>2, <1>10
  <2>5. d.idx = 2 /\ d.got = got /\ d.node = a /\ d.lasting = c.lasting
    BY <1>12, <2>1 DEF Cookie
  <2>6. Returned(c, Dot) /\ (hasParent => Returned(c, DotDot))
    BY <1>12 DEF ScanOK
  <2>7. Returned(d, Dot) /\ (hasParent => Returned(d, DotDot))
    BY <1>10, <2>5, <2>6 DEF Returned
  <2>8. \A n \in c.lasting : \E v \in fNodes : name[v] = n
    BY DEF ScanOK
  <2>9. /\ \A i, j \in DOMAIN d.got : i < j => d.got[i] < d.got[j]
        /\ d.node # NoVnode => \A i \in DOMAIN d.got : d.got[i] < name[d.node]
    BY <1>8, <2>3, <2>5
  <2>10. \A n \in d.lasting :
           /\ Returned(d, n) \/ (d.node # NoVnode /\ name[d.node] <= n)
           /\ \E v \in fNodes : name[v] = n
    BY <2>4, <2>5, <2>8 DEF Returned
  <2>11. d.node \in fNodes \cup {NoVnode} /\ d.idx # 0 /\ d.idx # 1
    BY <2>2, <2>5
  <2>12. ScanOK(d, fNodes, name)
    BY <2>7, <2>9, <2>10, <2>11 DEF ScanOK
  <2> QED BY <2>12 DEF d
<1>13. CASE c.idx # 2
  <2>1. d = [c EXCEPT !.got = got,
                      !.idx = IF c.idx = 0 /\ hasParent THEN 1 ELSE 2]
    BY <1>13 DEF IteratorNext, got, g, Cookie
  <2> HIDE DEF d
  <2>2. /\ d.idx = IF c.idx = 0 /\ hasParent THEN 1 ELSE 2
        /\ d.got = got /\ d.node = c.node /\ d.lasting = c.lasting
    BY <2>1 DEF Cookie
  <2>3. c.node # NoVnode => \A i \in DOMAIN got : got[i] < name[c.node]
    <3>1. g <= 1
      BY <1>3, <1>5, <1>13
    <3> QED BY <1>1, <1>9, <1>5, <3>1 DEF ScanOK
  <2>4. d.idx = 1 => hasParent /\ d.got = <<Dot>>
    <3>1. d.idx = 1 => c.idx = 0 /\ hasParent
      BY <2>2
    <3>2. c.idx = 0 => c.got = <<>> /\ g = Dot
      BY <1>5 DEF ScanOK, Dot
    <3>3. Append(<<>>, Dot) = <<Dot>>
      OBVIOUS
    <3> QED BY <2>2, <3>1, <3>2, <3>3 DEF got
  <2>5. d.idx = 2 => Returned(d, Dot) /\ (hasParent => Returned(d, DotDot))
    <3>1. c.idx = 1 => Returned(c, 0)
      <4>1. c.idx = 1 => c.got = <<0>>
        BY DEF ScanOK, Dot
      <4> QED BY <4>1 DEF Returned
    <3>2. d.idx = 2 => c.idx = 1 \/ (c.idx = 0 /\ ~hasParent)
      BY <1>3, <1>13, <2>2
    <3>3. \A n : Returned(d, n) <=> Returned(c, n) \/ n = g
      BY <1>10, <2>2 DEF Returned
    <3> QED BY <1>5, <3>1, <3>2, <3>3 DEF Dot, DotDot
  <2>6. \A n \in c.lasting : Returned(d, n)
                             \/ (d.node # NoVnode /\ name[d.node] <= n)
    BY <1>10, <2>2 DEF ScanOK, Returned
  <2>7. d.idx # 0 /\ d.node \in fNodes \cup {NoVnode}
        /\ \A n \in d.lasting : \E v \in fNodes : name[v] = n
    BY <2>2 DEF ScanOK
  <2>8. \A i, j \in DOMAIN d.got : i < j => d.got[i] < d.got[j]
    BY <1>8, <2>2
  <2>9. d.node # NoVnode => \A i \in DOMAIN d.got : d.got[i] < name[d.node]
    BY <2>2, <2>3
  <2>10. \A n \in d.lasting : Returned(d, n)
                              \/ (d.node # NoVnode /\ name[d.node] <= n)
    BY <2>2, <2>6
  <2>11. ScanOK(d, fNodes, name)
    BY <2>4, <2>5, <2>7, <2>8, <2>9, <2>10 DEF ScanOK
  <2> QED BY <2>11 DEF d
<1> QED BY <1>12, <1>13
-----------------------------------------------------------------------------
(* The invariant.                                                          *)

LEMMA DirInit == ASSUME IteratorAssumption, Init PROVE DirInv
<1>1. NewCookie \in Cookie
  BY DEF NewCookie, Cookie
<1> QED BY <1>1 DEF Init, DirInv, TypeOK, ScansOK

\* The iterators after the target of a rename is removed.
LEMMA TargetInv ==
  ASSUME IteratorAssumption, DirInv, NEW n \in Name
  PROVE  /\ RemoveTarget(n) \in [Iter -> Cookie]
         /\ ScansOK(RemoveTarget(n), fNodes \ Find(n), name)
         /\ \A w \in fNodes \ Find(n) : name[w] # n
<1>1. /\ name \in [Vnode -> Name] /\ fNodes \in SUBSET Vnode
      /\ hasParent \in BOOLEAN
      /\ cookie \in [Iter -> Cookie] /\ fIterators \subseteq Iter
      /\ ScansOK(cookie, fNodes, name)
      /\ \A v, w \in fNodes : name[v] = name[w] => v = w
  BY DEF DirInv, TypeOK
<1>2. CASE Find(n) = {}
  BY <1>1, <1>2 DEF RemoveTarget, Find
<1>3. CASE Find(n) # {}
  <2> DEFINE old == CHOOSE w \in fNodes : name[w] = n
  <2>1. old \in fNodes /\ name[old] = n
    BY <1>3 DEF Find
  <2> HIDE DEF old
  <2>2. Find(n) = {old}
    BY <1>1, <2>1 DEF Find
  <2>3. RemoveTarget(n) = RemoveNode(cookie, fNodes, old)
    BY <1>3 DEF RemoveTarget, old
  <2> QED BY <1>1, <2>1, <2>2, <2>3, RemoveNodeInv DEF Find
<1> QED BY <1>2, <1>3

LEMMA DirNext ==
  ASSUME IteratorAssumption, DirInv, [Next]_vars
  PROVE  DirInv'
<1> DEFINE ScansOn == \A it \in fIterators' :
             ~cookie'[it].hit => ScanOK(cookie'[it], fNodes, name)
<1>0. /\ hasParent \in BOOLEAN /\ name \in [Vnode -> Name]
      /\ fNodes \in SUBSET Vnode
      /\ \A v, w \in fNodes : name[v] = name[w] => v = w
      /\ cookies \subseteq Iter /\ fIterators \subseteq cookies
      /\ cookie \in [Iter -> Cookie] /\ reader \in fIterators \cup {NoIter}
      /\ ScansOK(cookie, fNodes, name)
  BY DEF DirInv, TypeOK
\* Steps of the iterators leave the directory alone.
<1>1. ASSUME UNCHANGED <<hasParent, name, fNodes>>,
             cookies' \subseteq Iter, fIterators' \subseteq cookies',
             cookie' \in [Iter -> Cookie],
             reader' \in fIterators' \cup {NoIter}, ScansOn
      PROVE  DirInv'
  BY <1>0, <1>1 DEF DirInv, TypeOK, ScansOK, ScanOK, Returned
<1>2. ASSUME NEW it \in Iter, OpenDir(it) \/ RewindDir(it)
      PROVE  DirInv'
  <2>1. /\ IteratorRewind(fNodes) \in Cookie
        /\ ScanOK(IteratorRewind(fNodes), fNodes, name)
    BY RewindInv DEF DirInv
  <2>2. /\ cookie' = [cookie EXCEPT ![it] = IteratorRewind(fNodes)]
        /\ UNCHANGED <<hasParent, name, fNodes, reader>>
        /\ cookies' \subseteq Iter /\ fIterators' \subseteq cookies'
        /\ fIterators \subseteq fIterators'
        /\ fIterators' \subseteq fIterators \cup {it}
    BY <1>0, <1>2 DEF OpenDir, RewindDir
  <2>3. cookie' \in [Iter -> Cookie]
    BY <1>0, <2>1, <2>2
  <2>4. ScansOn
    BY <1>0, <2>1, <2>2 DEF ScansOK
  <2> QED BY <1>0, <1>1, <2>2, <2>3, <2>4
<1>3. ASSUME NEW it \in Iter,
             \/ CloseDir(it) \/ FreeDirCookie(it)
             \/ BeginReadDir(it) \/ EndReadDir(it)
      PROVE  DirInv'
  <2>1. NewCookie \in Cookie
    BY DEF NewCookie, Cookie
  <2>2. /\ UNCHANGED <<hasParent, name, fNodes>>
        /\ cookies' \subseteq Iter /\ fIterators' \subseteq cookies'
        /\ fIterators' \subseteq fIterators
        /\ cookie' \in [Iter -> Cookie]
        /\ \A i \in fIterators' : cookie'[i] = cookie[i]
    BY <1>0, <1>3, <2>1
       DEF CloseDir, FreeDirCookie, BeginReadDir, EndReadDir
  <2>3. reader' \in fIterators' \cup {NoIter}
    BY <1>0, <1>3
       DEF CloseDir, FreeDirCookie, BeginReadDir, EndReadDir, Locked
  <2>4. ScansOn
    BY <1>0, <2>2 DEF ScansOK
  <2> QED BY <1>1, <2>2, <2>3, <2>4
<1>4. ASSUME NEW it \in Iter, ReadEntry(it)
      PROVE  DirInv'
  <2> DEFINE c == cookie[it]
             d == Note(c)
  <2>1. PICK junk \in Vnode \cup {NoVnode} :
          cookie' = [cookie EXCEPT ![it] = IteratorNext(d, fNodes, junk)]
    BY <1>4 DEF ReadEntry
  <2>2. /\ UNCHANGED <<hasParent, name, fNodes, cookies, fIterators, reader>>
        /\ reader = it /\ ~AtEnd(c)
    BY <1>4 DEF ReadEntry
  <2>3. it \in fIterators /\ c \in Cookie
    BY <1>0, <2>2 DEF IteratorAssumption
  <2> HIDE DEF c
  <2>4. ASSUME ~c.hit
        PROVE  /\ d \in Cookie
               /\ ScanOK(IteratorNext(d, fNodes, junk), fNodes, name)
    <3>0. d = [c EXCEPT !.got = Append(@, IteratorGet(c))]
      BY <2>4 DEF Note
    <3>1. ScanOK(c, fNodes, name)
      BY <1>0, <2>3, <2>4 DEF ScansOK, c
    <3>2. IteratorGet(c) \in Nat
      <4>1. c.idx = 2 => c.node \in Vnode
        BY <1>0, <2>2, <3>1 DEF AtEnd, ScanOK
      <4> QED BY <1>0, <2>3, <4>1
              DEF IteratorGet, Cookie, Dot, DotDot, IteratorAssumption
    <3>3. Append(c.got, IteratorGet(c)) \in Seq(Nat)
      BY <2>3, <3>2, AppendProperties DEF Cookie
    <3>4. d \in Cookie
      BY <2>3, <3>0, <3>3 DEF Cookie
    <3>5. ScanOK(IteratorNext(d, fNodes, junk), fNodes, name)
      BY <2>2, <2>3, <3>0, <3>1, ReadInv DEF DirInv
    <3> QED BY <3>4, <3>5
  <2>5. d \in Cookie /\ d.hit = c.hit
    BY <2>3, <2>4 DEF Cookie, Note
  <2> HIDE DEF d
  <2>6. /\ IteratorNext(d, fNodes, junk) \in Cookie
        /\ IteratorNext(d, fNodes, junk).hit = c.hit
    BY <1>0, <2>5, NextType
  <2>7. cookie' \in [Iter -> Cookie]
    BY <1>0, <2>1, <2>6
  <2>8. ScansOn
    BY <1>0, <2>1, <2>2, <2>3, <2>4, <2>6 DEF ScansOK, c
  <2> QED BY <1>0, <1>1, <2>2, <2>7, <2>8
\* Steps of the directory keep the set of iterators.
<1>5. ASSUME UNCHANGED <<hasParent, cookies, fIterators, reader>>,
             name' \in [Vnode -> Name], fNodes' \in SUBSET Vnode,
             \A v, w \in fNodes' : name'[v] = name'[w] => v = w,
             cookie' \in [Iter -> Cookie], ScansOK(cookie', fNodes', name')
      PROVE  DirInv'
  BY <1>0, <1>5 DEF DirInv, TypeOK, ScansOK, ScanOK, Returned
\* An object outside the tree gets the name m, and enters unless m is taken.
<1>6. ASSUME NEW nodes \in SUBSET fNodes, NEW cs \in [Iter -> Cookie],
             ScansOK(cs, nodes, name), NEW v \in Vnode \ nodes,
             NEW m \in Name, cookie' = cs,
             name' = [name EXCEPT ![v] = m],
             fNodes' = Insert(nodes, name', v),
             UNCHANGED <<hasParent, cookies, fIterators, reader>>
      PROVE  DirInv'
  <2>1. fNodes' \in {nodes, nodes \cup {v}}
    BY <1>6 DEF Insert
  <2>2. ScansOK(cs, fNodes', [name EXCEPT ![v] = m])
    <3>1. nodes \in SUBSET Vnode /\ ScansOK(cs, nodes, name)
      BY <1>0, <1>6
    <3>2. /\ nodes \in {nodes, nodes \cup {v}}
          /\ nodes \cup {v} \in {nodes, nodes \cup {v}}
      OBVIOUS
    <3>3. ScansOK(cs, nodes, [name EXCEPT ![v] = m])
      BY <1>0, <3>1, <3>2, InsertInv
    <3>4. ScansOK(cs, nodes \cup {v}, [name EXCEPT ![v] = m])
      BY <1>0, <3>1, <3>2, InsertInv
    <3> QED BY <2>1, <3>3, <3>4
  <2>3. \A x, y \in fNodes' : name'[x] = name'[y] => x = y
    BY <1>0, <1>6 DEF Insert
  <2>4. name' \in [Vnode -> Name] /\ fNodes' \in SUBSET Vnode
    BY <1>0, <1>6, <2>1
  <2> QED BY <1>5, <1>6, <2>2, <2>3, <2>4
<1>7. ASSUME NEW v \in Vnode, NEW n \in Name, CreateNode(v, n)
      PROVE  DirInv'
  <2>1. Insert(fNodes, name', v) = fNodes'
    BY <1>0, <1>7 DEF CreateNode, Insert, Find
  <2> QED BY <1>0, <1>6, <1>7, <2>1 DEF CreateNode
<1>8. ASSUME NEW v \in Vnode, Unlink(v)
      PROVE  DirInv'
  <2>1. /\ RemoveNode(cookie, fNodes, v) \in [Iter -> Cookie]
        /\ ScansOK(RemoveNode(cookie, fNodes, v), fNodes \ {v}, name)
    BY <1>0, <1>8, RemoveNodeInv DEF Unlink
  <2> QED BY <1>0, <1>5, <1>8, <2>1 DEF Unlink
<1>9. ASSUME NEW v \in Vnode, NEW n \in Name, Rename(v, n)
      PROVE  DirInv'
  <2> DEFINE rest == fNodes \ Find(n)
             cs == RemoveNode(RemoveTarget(n), rest, v)
  <2>1. /\ RemoveTarget(n) \in [Iter -> Cookie]
        /\ ScansOK(RemoveTarget(n), rest, name)
    BY TargetInv
  <2>2. /\ v \in rest /\ cookie' = cs /\ rest \in SUBSET fNodes
        /\ fNodes' = Insert(rest \ {v}, name', v)
        /\ UNCHANGED <<hasParent, cookies, fIterators, reader>>
    BY <1>9 DEF Rename
  <2>3. PICK m \in {n, name[v]} : name' = [name EXCEPT ![v] = m]
    BY <1>9 DEF Rename
  <2>4. m \in Name
    BY <1>0, <2>3
  <2> HIDE DEF rest
  <2>5. cs \in [Iter -> Cookie] /\ ScansOK(cs, rest \ {v}, name)
    BY <1>0, <2>1, <2>2, RemoveNodeInv
  <2> HIDE DEF cs
  <2> QED BY <1>6, <2>2, <2>3, <2>4, <2>5
<1>10. ASSUME NEW v \in Vnode, NEW m \in Name, NEW n \in Name,
              RenameIn(v, m, n)
       PROVE  DirInv'
  <2> DEFINE rest == fNodes \ Find(n)
  <2>1. /\ RemoveTarget(n) \in [Iter -> Cookie]
        /\ ScansOK(RemoveTarget(n), rest, name)
    BY TargetInv
  <2>2. /\ v \notin rest /\ cookie' = RemoveTarget(n)
        /\ rest \in SUBSET fNodes
        /\ fNodes' = Insert(rest, name', v)
        /\ UNCHANGED <<hasParent, cookies, fIterators, reader>>
    BY <1>10 DEF RenameIn
  <2>3. PICK l \in {n, m} : name' = [name EXCEPT ![v] = l]
    BY <1>10 DEF RenameIn
  <2> HIDE DEF rest
  <2> QED BY <1>6, <2>1, <2>2, <2>3
<1>11. CASE UNCHANGED vars
  BY <1>11 DEF vars, DirInv, TypeOK, ScansOK, ScanOK, Returned
<1> QED BY <1>2, <1>3, <1>4, <1>7, <1>8, <1>9, <1>10, <1>11 DEF Next

\* The invariant holds in every reachable state.
THEOREM DirInvariance == Spec => []DirInv
<1>1. Init => DirInv
  BY DirInit, IteratorAssumption
<1>2. DirInv /\ [Next]_vars => DirInv'
  BY DirNext, IteratorAssumption
<1> QED BY <1>1, <1>2, PTL DEF Spec

-----------------------------------------------------------------------------
(* The properties.                                                         *)

LEMMA Consequences ==
  ASSUME DirInv
  PROVE  NodesTracked /\ ScanIncreasing /\ ScanComplete
<1>1. ASSUME NEW it \in Scanning PROVE ScanOK(cookie[it], fNodes, name)
  BY DEF DirInv, ScansOK, Scanning
<1>2. NodesTracked
  BY <1>1 DEF NodesTracked, ScanOK
<1>3. ScanIncreasing
  BY <1>1 DEF ScanIncreasing, ScanOK
<1>4. ScanComplete
  BY <1>1 DEF ScanComplete, ScanOK, Returned, AtEnd
<1> QED BY <1>2, <1>3, <1>4

\* The iterators and the entries keep their types, names stay unique, and a
\* ReadDir that holds the lock works on an open iterator.
THEOREM DirTypeCorrect == Spec => []TypeOK
<1>1. DirInv => TypeOK
  BY DEF DirInv
<1> QED BY <1>1, DirInvariance, PTL

\* An open iterator that was not hit never points to a removed entry.
THEOREM IteratorsTracked == Spec => []NodesTracked
BY Consequences, DirInvariance, PTL

\* No scan returns a name twice, or out of order.
THEOREM ScansIncrease == Spec => []ScanIncreasing
BY Consequences, DirInvariance, PTL

\* A finished scan has returned every entry that lasted.
THEOREM ScansComplete == Spec => []ScanComplete
BY Consequences, DirInvariance, PTL
=============================================================================
