---------------------------- MODULE ShmfsProofs ----------------------------
(***************************************************************************)
(* Proofs about Shmfs for every set of addresses, numbers and names and    *)
(* every bound.                                                            *)
(***************************************************************************)
EXTENDS Shmfs, TLAPS

-----------------------------------------------------------------------------
(* The objects a release deletes.                                          *)

\* A set of vnodes contains the doomed ones if it has the released vnode and,
\* with each directory, the entries that only the directory holds.
LEMMA DoomedLeast ==
  ASSUME NEW v \in Vnode, NEW n, NEW nodes, NEW S \in SUBSET Vnode, v \in S,
         \A d \in S : \A c \in nodes[d] : fRef[c] = 1 => c \in S
  PROVE  Doomed(v, n, nodes) \subseteq S
BY DEF Doomed

\* The destructors run exactly when the released references are the last.
LEMMA DoomedStart ==
  ASSUME NEW v \in Vnode, NEW n, NEW nodes
  PROVE  /\ Doomed(v, n, nodes) \subseteq Vnode
         /\ fRef[v] = n => v \in Doomed(v, n, nodes)
         /\ fRef[v] # n => Doomed(v, n, nodes) = {}
BY DEF Doomed

\* With a directory, every entry that only the directory holds is deleted.
LEMMA DoomedClosed ==
  ASSUME NEW v \in Vnode, NEW n, NEW nodes \in [Vnode -> SUBSET Vnode],
         NEW d \in Doomed(v, n, nodes), NEW c \in nodes[d], fRef[c] = 1
  PROVE  c \in Doomed(v, n, nodes)
<1>1. fRef[v] = n
  BY DoomedStart
<1>2. d \in Vnode /\ c \in Vnode
  BY DoomedStart
<1>3. ASSUME NEW S \in SUBSET Vnode, v \in S,
             \A e \in S : \A x \in nodes[e] : fRef[x] = 1 => x \in S
      PROVE  c \in S
  <2>1. d \in S
    BY <1>3, DoomedLeast
  <2> QED BY <1>3, <2>1
<1> QED BY <1>1, <1>2, <1>3 DEF Doomed

\* Every deleted object but the first was held by a deleted directory alone.
LEMMA DoomedReached ==
  ASSUME NEW v \in Vnode, NEW n, NEW nodes \in [Vnode -> SUBSET Vnode],
         NEW x \in Doomed(v, n, nodes), x # v
  PROVE  fRef[x] = 1 /\ \E d \in Doomed(v, n, nodes) : x \in nodes[d]
<1> DEFINE D == Doomed(v, n, nodes)
<1> SUFFICES ASSUME ~(fRef[x] = 1 /\ \E d \in D : x \in nodes[d])
             PROVE  FALSE
  OBVIOUS
<1>1. fRef[v] = n /\ v \in D /\ D \subseteq Vnode
  BY DoomedStart
<1>2. \A d \in D \ {x} : \A c \in nodes[d] : fRef[c] = 1 => c \in D \ {x}
  <2> SUFFICES ASSUME NEW d \in D \ {x}, NEW c \in nodes[d], fRef[c] = 1
               PROVE  c \in D /\ c # x
    OBVIOUS
  <2>1. c \in D
    BY DoomedClosed
  <2> QED BY <2>1
<1>3. ASSUME NEW S \in SUBSET Vnode, v \in S,
             \A d \in S : \A c \in nodes[d] : fRef[c] = 1 => c \in S
      PROVE  D \subseteq S
  BY <1>3, DoomedLeast
<1> DEFINE S == D \ {x}
<1>4. S \in SUBSET Vnode /\ v \in S
  BY <1>1
<1>5. \A d \in S : \A c \in nodes[d] : fRef[c] = 1 => c \in S
  BY <1>2
<1>6. x \notin S /\ x \in D
  OBVIOUS
<1> HIDE DEF S, D
<1> QED BY <1>3, <1>4, <1>5, <1>6

-----------------------------------------------------------------------------
(* A release preserves the invariant.                                      *)

In(nodes, x) == \E d \in Vnode : x \in nodes[d]

\* The state a handler leaves to Release: the entries nodes form a forest of
\* live directories without the root, every reference has its owner once the
\* n references of v are gone, and the rest of the state fits phase next.
Ready(v, n, nodes, vs, next) ==
  /\ v \in Vnode /\ n \in Nat \ {0}
  /\ nodes \in [Vnode -> SUBSET Vnode] /\ vs \in [Vnode -> Fields]
  /\ \A x \in Vnode : vs[x].kind = vn[x].kind /\ vs[x].id = vn[x].id
  /\ \A d \in Vnode : nodes[d] # {} => IsDir(d)
  /\ \A d, e \in Vnode : nodes[d] \cap nodes[e] # {} => d = e
  /\ \A d \in Vnode : fRootVnode' \notin nodes[d]
  /\ \A x \in Vnode :
       fRef[x] = One(In(nodes, x)) + Others(x)' + (IF x = v THEN n ELSE 0)
  /\ vfsNode' \in [Id -> Vnode \cup {NoVnode}]
  /\ vfsRef' \in [Id -> Nat]
  /\ vfsRemoved' \in [Id -> BOOLEAN]
  /\ \A i \in Id : vfsNode'[i] = IF Cached(i)' THEN vfsNode[i] ELSE NoVnode
  /\ \A i \in Id : ~Cached(i)' => vfsRef'[i] = 0
  /\ fRootVnode' \in Vnode \cup {NoVnode}
  /\ next \in Phases
  /\ next = "idle" => fRootVnode' = NoVnode
  /\ next \in {"mounted", "unmounting"} => fRootVnode' \in Vnode
  /\ leaked' \in SUBSET Vnode
  /\ \A x \in leaked' : ~In(nodes, x)

\* A deleted object has no owner left; its entries have one owner less.
LEMMA DoomedUnowned ==
  ASSUME TypeOK, NEW v, NEW n, NEW nodes, NEW vs, NEW next,
         Ready(v, n, nodes, vs, next),
         NEW x \in Doomed(v, n, nodes)
  PROVE  /\ x \in Vnode
         /\ fRef[x] > 0
         /\ Others(x)' = 0
         /\ \A d \in Vnode : x \in nodes[d] => d \in Doomed(v, n, nodes)
<1> DEFINE D == Doomed(v, n, nodes)
<1>1. v \in Vnode /\ x \in Vnode /\ fRef[v] = n
  BY DoomedStart DEF Ready
<1>2. Others(x)' \in Nat
  BY DEF Others, One
<1>3. fRef[x] = One(In(nodes, x)) + Others(x)' + (IF x = v THEN n ELSE 0)
  BY <1>1 DEF Ready
<1>4. CASE x = v
  <2>1. One(In(nodes, x)) = 0 /\ Others(x)' = 0
    BY <1>1, <1>2, <1>3, <1>4, SMTT(30) DEF One, Ready
  <2> QED BY <1>1, <1>4, <2>1 DEF One, In, Ready
<1>5. CASE x # v
  <2>1. fRef[x] = 1 /\ \E d \in D : x \in nodes[d]
    BY <1>1, <1>5, DoomedReached DEF Ready
  <2>2. D \subseteq Vnode
    BY <1>1, DoomedStart
  <2>3. PICK d \in D : x \in nodes[d]
    BY <2>1
  <2>4. In(nodes, x)
    BY <2>2, <2>3 DEF In
  <2>5. Others(x)' = 0
    BY <1>2, <1>3, <1>5, <2>1, <2>4 DEF One
  <2>6. \A e \in Vnode : x \in nodes[e] => e = d
    BY <2>2, <2>3 DEF Ready
  <2> QED BY <1>1, <2>1, <2>3, <2>5, <2>6
<1> QED BY <1>4, <1>5

\* No number is freed that the pool has not handed out: the volume does not
\* reach the abort() of ExternalAllocator::Free.
LEMMA ReleasePhase ==
  ASSUME TypeOK, RefsExact, IdsExact, NEW v, NEW n, NEW nodes, NEW vs, NEW next,
         Ready(v, n, nodes, vs, next),
         Release(v, n, nodes, vs, next)
  PROVE  phase' = next
<1> DEFINE D == Doomed(v, n, nodes)
           ids == {vs[x].id : x \in D} \ {NoId}
<1>1. ASSUME NEW x \in D
      PROVE  vs[x].id \in idAlloc
  <2>1. x \in Vnode /\ fRef[x] > 0
    BY DoomedUnowned
  <2>2. vn[x].id \in Id /\ fIds[vn[x].id] = x
    BY <2>1 DEF RefsExact, IdsExact
  <2>3. vn[x].id \in idAlloc
    BY <2>1, <2>2, ConstantsAssumption DEF IdsExact
  <2> QED BY <2>1, <2>3 DEF Ready
<1>2. ids \subseteq idAlloc
  BY <1>1
<1> QED BY <1>2 DEF Release, FreeIds

LEMMA ReleaseTypeOK ==
  ASSUME TypeOK, RefsExact, IdsExact, NEW v, NEW n, NEW nodes, NEW vs, NEW next,
         Ready(v, n, nodes, vs, next),
         Release(v, n, nodes, vs, next)
  PROVE  TypeOK'
<1> DEFINE D == Doomed(v, n, nodes)
<1>1. phase' \in Phases
  BY ReleasePhase DEF Ready
<1>2. vn' \in [Vnode -> Fields]
  <2>1. Freed \in Fields
    BY DEF Freed, Fields
  <2> QED BY <2>1 DEF Release, Ready
<1>3. fRef' \in [Vnode -> Nat]
  <2> SUFFICES ASSUME NEW x \in Vnode, x \notin D
               PROVE  (IF x = v THEN fRef[x] - n
                       ELSE IF \E d \in D : x \in nodes[d] THEN fRef[x] - 1
                       ELSE fRef[x]) \in Nat
    BY DEF Release
  <2>1. fRef[x] = One(In(nodes, x)) + Others(x)' + (IF x = v THEN n ELSE 0)
    BY DEF Ready
  <2>2. Others(x)' \in Nat /\ n \in Nat /\ fRef[x] \in Nat
    BY DEF Others, One, Ready, TypeOK
  <2>3. CASE x = v
    BY <2>1, <2>2, <2>3 DEF One
  <2>4. CASE x # v /\ \E d \in D : x \in nodes[d]
    <3>1. D \subseteq Vnode
      BY DoomedUnowned
    <3>2. In(nodes, x)
      BY <2>4, <3>1 DEF In
    <3> QED BY <2>1, <2>2, <2>4, <3>2 DEF One
  <2>5. CASE x # v /\ ~\E d \in D : x \in nodes[d]
    BY <2>2, <2>5
  <2> QED BY <2>3, <2>4, <2>5
<1>4. fNodes' \in [Vnode -> SUBSET Vnode]
  BY DEF Release, Ready
<1>5. fIds' \in [Id -> Vnode \cup {NoVnode}] /\ idAlloc' \in SUBSET Id
  BY DEF Release, TypeOK
<1> QED BY <1>1, <1>2, <1>3, <1>4, <1>5 DEF TypeOK, Ready

LEMMA ReleaseRefs ==
  ASSUME TypeOK, RefsExact, NEW v, NEW n, NEW nodes, NEW vs, NEW next,
         Ready(v, n, nodes, vs, next),
         Release(v, n, nodes, vs, next)
  PROVE  RefsExact'
<1> DEFINE D == Doomed(v, n, nodes)
<1> SUFFICES ASSUME NEW x \in Vnode
             PROVE  /\ fRef'[x] = One(Linked(x)') + Others(x)'
                    /\ Alive(x)' <=> fRef'[x] > 0
  BY DEF RefsExact
<1>1. fRef[x] = One(In(nodes, x)) + Others(x)' + (IF x = v THEN n ELSE 0)
  BY DEF Ready
<1>2. Others(x)' \in Nat /\ n \in Nat \ {0} /\ fRef[x] \in Nat
  BY DEF Others, One, Ready, TypeOK
<1>3. Linked(x)' <=> \E d \in Vnode \ D : x \in nodes[d]
  BY DEF Linked, Release
<1>4. CASE x \in D
  <2>1. Others(x)' = 0 /\ ~Linked(x)'
    BY <1>3, <1>4, DoomedUnowned
  <2>2. fRef'[x] = 0 /\ ~Alive(x)'
    BY <1>4 DEF Release, Alive, Freed
  <2> QED BY <2>1, <2>2 DEF One
<1>5. CASE x \notin D /\ x = v
  <2>1. D = {}
    BY <1>5, DoomedStart
  <2>2. Linked(x)' <=> In(nodes, x)
    BY <1>3, <2>1 DEF In
  <2>3. fRef[x] # n
    BY <1>5, DoomedStart
  <2>4. fRef'[x] = fRef[x] - n
    BY <1>5 DEF Release
  <2>5. vn'[x].kind = vn[x].kind
    BY <1>5 DEF Release, Ready
  <2>6. Alive(x)
    BY <1>1, <1>2, <1>5 DEF RefsExact, One
  <2>7. fRef'[x] = One(Linked(x)') + Others(x)' /\ fRef'[x] > 0
    BY <1>1, <1>2, <1>5, <2>2, <2>3, <2>4 DEF One
  <2> QED BY <2>5, <2>6, <2>7 DEF Alive
<1>6. CASE x \notin D /\ x # v /\ \E d \in D : x \in nodes[d]
  <2>1. PICK d \in D : x \in nodes[d]
    BY <1>6
  <2>2. d \in Vnode
    BY DoomedUnowned
  <2>3. ~Linked(x)'
    BY <1>3, <2>1, <2>2 DEF Ready
  <2>4. In(nodes, x)
    BY <2>1, <2>2 DEF In
  <2>5. fRef[x] # 1
    BY <1>6, <2>1, DoomedClosed DEF Ready
  <2>6. fRef'[x] = fRef[x] - 1
    BY <1>6 DEF Release
  <2>7. vn'[x].kind = vn[x].kind
    BY <1>6 DEF Release, Ready
  <2>8. fRef'[x] = One(Linked(x)') + Others(x)' /\ fRef'[x] > 0 /\ fRef[x] > 0
    BY <1>1, <1>2, <1>6, <2>3, <2>4, <2>5, <2>6 DEF One
  <2> QED BY <2>7, <2>8 DEF Alive, RefsExact
<1>7. CASE x \notin D /\ x # v /\ ~\E d \in D : x \in nodes[d]
  <2>1. Linked(x)' <=> In(nodes, x)
    BY <1>3, <1>7 DEF In
  <2>2. fRef'[x] = fRef[x]
    BY <1>7 DEF Release
  <2>3. vn'[x].kind = vn[x].kind
    BY <1>7 DEF Release, Ready
  <2>4. fRef'[x] = One(Linked(x)') + Others(x)'
    BY <1>1, <1>2, <1>7, <2>1, <2>2 DEF One
  <2> QED BY <2>2, <2>3, <2>4 DEF Alive, RefsExact
<1> QED BY <1>4, <1>5, <1>6, <1>7

LEMMA ReleaseIds ==
  ASSUME TypeOK, RefsExact, IdsExact, NEW v, NEW n, NEW nodes, NEW vs, NEW next,
         Ready(v, n, nodes, vs, next),
         Release(v, n, nodes, vs, next)
  PROVE  IdsExact'
<1> DEFINE D == Doomed(v, n, nodes)
           ids == {vs[x].id : x \in D} \ {NoId}
<1>1. ASSUME NEW x \in D
      PROVE  x \in Vnode /\ vn[x].id \in Id /\ fIds[vn[x].id] = x
  BY DoomedUnowned DEF RefsExact, IdsExact
<1>2. \A x \in D : vs[x].id = vn[x].id
  BY <1>1 DEF Ready
<1>3. \A i \in Id : fIds[i] # NoVnode => Alive(fIds[i]) /\ vn[fIds[i]].id = i
  BY DEF IdsExact
<1>4. \A i \in Id : i \in ids <=> fIds[i] \in D
  <2>1. ASSUME NEW i \in Id, i \in ids
        PROVE  fIds[i] \in D
    BY <1>1, <1>2, <2>1
  <2>2. ASSUME NEW i \in Id, fIds[i] \in D
        PROVE  i \in ids
    BY <1>1, <1>2, <1>3, <2>2, ConstantsAssumption
  <2> QED BY <2>1, <2>2
<1>5. /\ idAlloc' = idAlloc \ ids
      /\ \A i \in Id : fIds'[i] = IF fIds[i] \in D THEN NoVnode ELSE fIds[i]
      /\ \A x \in Vnode : vn'[x] = IF x \in D THEN Freed ELSE vs[x]
  BY DEF Release
<1>6. \A i \in Id : i \in idAlloc' <=> fIds'[i] # NoVnode
  BY <1>1, <1>4, <1>5, ConstantsAssumption DEF IdsExact
<1>7. \A i \in idAlloc' : Alive(fIds[i])' /\ vn'[fIds'[i]].id = i
  <2> SUFFICES ASSUME NEW i \in idAlloc'
               PROVE  vn'[fIds'[i]].kind # "none" /\ vn'[fIds'[i]].id = i
    BY DEF Alive
  <2>1. i \in Id /\ i \in idAlloc /\ fIds[i] \notin D
    BY <1>4, <1>5 DEF TypeOK
  <2>2. fIds'[i] = fIds[i] /\ fIds[i] \in Vnode
    BY <1>5, <2>1 DEF IdsExact, TypeOK
  <2>3. vn'[fIds[i]] = vs[fIds[i]]
    BY <1>5, <2>1, <2>2
  <2> QED BY <2>1, <2>2, <2>3 DEF IdsExact, Alive, Ready
<1>8. \A x \in Vnode : Alive(x)' => vn'[x].id \in Id /\ fIds'[vn'[x].id] = x
  <2> SUFFICES ASSUME NEW x \in Vnode, vn'[x].kind # "none"
               PROVE  vn'[x].id \in Id /\ fIds'[vn'[x].id] = x
    BY DEF Alive
  <2>1. x \notin D /\ vn'[x] = vs[x]
    BY <1>5 DEF Freed
  <2>2. vn[x].id \in Id /\ fIds[vn[x].id] = x
    BY <2>1 DEF Ready, IdsExact, Alive
  <2> QED BY <1>5, <2>1, <2>2 DEF Ready
<1> QED BY <1>6, <1>7, <1>8 DEF IdsExact

\* Release preserves the inductive invariant and leaves the volume in the
\* phase its caller names.
LEMMA ReleaseInv ==
  ASSUME IInv, NEW v, NEW n, NEW nodes, NEW vs, NEW next,
         Ready(v, n, nodes, vs, next),
         Release(v, n, nodes, vs, next)
  PROVE  IInv' /\ phase' = next
<1> DEFINE D == Doomed(v, n, nodes)
<1>1. TypeOK /\ RefsExact /\ IdsExact
  BY DEF IInv
<1>2. phase' = next /\ TypeOK' /\ RefsExact' /\ IdsExact'
  BY <1>1, ReleasePhase, ReleaseTypeOK, ReleaseRefs, ReleaseIds
<1>3. VfsIdentity'
  <2> SUFFICES ASSUME NEW i \in Id, vfsNode'[i] # NoVnode
               PROVE  fIds'[i] = vfsNode'[i]
    BY DEF VfsIdentity, Cached
  <2>1. vfsNode'[i] = vfsNode[i] /\ fIds[i] = vfsNode[i]
    BY DEF Ready, VfsIdentity, IInv, Cached
  <2>2. ASSUME fIds[i] \in D
        PROVE  FALSE
    <3>1. PICK x \in D : x = vfsNode[i]
      BY <2>1, <2>2
    <3>2. Others(x)' = 0
      BY <1>1, <3>1, DoomedUnowned
    <3>3. \E j \in Id : vfsNode'[j] = x
      BY <2>1, <3>1
    <3> QED BY <3>2, <3>3 DEF Others, One
  <2>3. fIds[i] \notin D
    BY <2>2
  <2> QED BY <2>1, <2>3 DEF Release
<1>4. OneLink'
  <2>1. \A d \in Vnode : fNodes'[d] = IF d \in D THEN {} ELSE nodes[d]
    BY DEF Release
  <2>2. \A d \in Vnode : fNodes'[d] # {} => vn'[d].kind = "dir"
    BY <2>1 DEF Release, Ready, IsDir
  <2> QED BY <2>1, <2>2 DEF OneLink, IsDir, Ready
<1>5. Bookkeeping'
  <2>1. \A x \in Vnode : Linked(x)' => In(nodes, x)
    BY DEF Release, Linked, In
  <2>2. \A i \in Id : ~Cached(i)' => vfsRef'[i] = 0
    BY DEF Ready
  <2> QED BY <1>2, <2>1, <2>2 DEF Bookkeeping, Ready
<1> QED BY <1>2, <1>3, <1>4, <1>5 DEF IInv

-----------------------------------------------------------------------------
(* Owners of a vnode.                                                      *)

InVfs(x) == \E i \in Id : vfsNode[i] = x

\* The VFS knows a vnode under at most one number.
LEMMA VfsUnique ==
  ASSUME IInv, NEW i \in Id, Cached(i)
  PROVE  /\ vfsNode[i] \in Vnode
         /\ Alive(vfsNode[i])
         /\ vn[vfsNode[i]].id = i
         /\ \A j \in Id : vfsNode[j] = vfsNode[i] => j = i
<1>1. \A j \in Id : vfsNode[j] = vfsNode[i]
                    => j \in idAlloc /\ fIds[j] = vfsNode[i]
  BY DEF IInv, VfsIdentity, IdsExact, Cached
<1>2. \A j \in Id : vfsNode[j] = vfsNode[i] => vn[vfsNode[i]].id = j
  BY <1>1 DEF IInv, IdsExact
<1>3. vfsNode[i] \in Vnode
  BY DEF IInv, TypeOK, Cached
<1> QED BY <1>1, <1>2, <1>3 DEF IInv, IdsExact

\* Nothing refers to an address without an object.
LEMMA DeadUnowned ==
  ASSUME IInv, NEW v \in Vnode, ~Alive(v)
  PROVE  /\ ~Linked(v)
         /\ ~InVfs(v)
         /\ v # fRootVnode
         /\ v \notin leaked
         /\ fNodes[v] = {}
         /\ \A i \in Id : fIds[i] # v
<1>1. ~(fRef[v] > 0) /\ fRef[v] \in Nat /\ fRef[v] = One(Linked(v)) + Others(v)
  BY DEF IInv, RefsExact, TypeOK
<1>2. One(Linked(v)) = 0 /\ Others(v) = 0
  BY <1>1 DEF One, Others
<1>3. ~Linked(v) /\ ~InVfs(v) /\ v # fRootVnode /\ v \notin leaked
  BY <1>2 DEF One, Others, InVfs
<1>4. fNodes[v] = {}
  BY DEF IInv, OneLink, IsDir, Alive
<1>5. \A i \in Id : fIds[i] # v
  BY ConstantsAssumption DEF IInv, IdsExact
<1> QED BY <1>3, <1>4, <1>5

\* An object with an owner is alive and registered under its number.
LEMMA OwnedAlive ==
  ASSUME IInv, NEW v \in Vnode, Linked(v) \/ Others(v) > 0
  PROVE  Alive(v) /\ vn[v].id \in Id /\ fIds[vn[v].id] = v /\ fRef[v] > 0
<1>1. fRef[v] > 0
  BY DEF IInv, RefsExact, One, Others
<1> QED BY <1>1 DEF IInv, RefsExact, IdsExact

\* Dropping a VFS entry takes one owner from its vnode and none from others.
LEMMA VfsDropOwners ==
  ASSUME IInv, NEW i \in Id, Cached(i), VfsDrop(i), NEW x \in Vnode
  PROVE  One(InVfs(x)) = One(\E j \in Id : vfsNode'[j] = x)
                         + (IF x = vfsNode[i] THEN 1 ELSE 0)
<1>1. \A j \in Id : vfsNode'[j] = IF j = i THEN NoVnode ELSE vfsNode[j]
  BY DEF VfsDrop, IInv, TypeOK
<1>2. CASE x = vfsNode[i]
  <2>1. InVfs(x) /\ ~\E j \in Id : vfsNode'[j] = x
    BY <1>1, <1>2, VfsUnique, ConstantsAssumption DEF InVfs
  <2> QED BY <1>2, <2>1 DEF One
<1>3. CASE x # vfsNode[i]
  <2>1. InVfs(x) <=> \E j \in Id : vfsNode'[j] = x
    BY <1>1, <1>3, ConstantsAssumption DEF InVfs
  <2> QED BY <1>3, <2>1 DEF One
<1> QED BY <1>2, <1>3

-----------------------------------------------------------------------------
(* The steps that release a vnode.                                         *)

LEMMA UnmountStep ==
  ASSUME IInv, Unmount
  PROVE  IInv' /\ phase' = "unmounted"
<1>1. fRootVnode \in Vnode /\ fRootVnode' = NoVnode
  BY DEF Unmount, IInv, Bookkeeping
<1>2. \A x \in Vnode : fRef[x] = One(In(fNodes, x)) + Others(x)'
                                 + (IF x = fRootVnode THEN 1 ELSE 0)
  <2> SUFFICES ASSUME NEW x \in Vnode
               PROVE  fRef[x] = One(In(fNodes, x)) + Others(x)'
                                + (IF x = fRootVnode THEN 1 ELSE 0)
    OBVIOUS
  <2>1. fRef[x] = One(In(fNodes, x)) + Others(x)
    BY DEF IInv, RefsExact, In, Linked
  <2>2. Others(x) = Others(x)' + (IF x = fRootVnode THEN 1 ELSE 0)
    BY <1>1, ConstantsAssumption DEF Unmount, vfsVars, Others, One
  <2> QED BY <2>1, <2>2 DEF One, Others
<1>3. Ready(fRootVnode, 1, fNodes, vn, "unmounted")
  <2>1. \A x \in leaked : ~In(fNodes, x)
    BY DEF IInv, Bookkeeping, Linked, In
  <2> QED
    BY <1>1, <1>2, <2>1, ConstantsAssumption
    DEF Ready, Unmount, vfsVars, IInv, TypeOK, OneLink, Bookkeeping, Phases,
        Cached
<1> QED BY <1>3, ReleaseInv DEF Unmount

\* Dropping a VFS entry and releasing its vnode, through either hook.
LEMMA DropStep ==
  ASSUME IInv, NEW i \in Id, Cached(i), VfsDrop(i),
         Release(vfsNode[i], 1, fNodes, vn, phase),
         UNCHANGED <<fRootVnode, leaked>>
  PROVE  IInv' /\ phase' = phase
<1>1. \A x \in Vnode : fRef[x] = One(In(fNodes, x)) + Others(x)'
                                 + (IF x = vfsNode[i] THEN 1 ELSE 0)
  <2> SUFFICES ASSUME NEW x \in Vnode
               PROVE  fRef[x] = One(In(fNodes, x)) + Others(x)'
                                + (IF x = vfsNode[i] THEN 1 ELSE 0)
    OBVIOUS
  <2>1. fRef[x] = One(In(fNodes, x)) + Others(x)
    BY DEF IInv, RefsExact, In, Linked
  <2>2. One(InVfs(x)) = One(\E j \in Id : vfsNode'[j] = x)
                        + (IF x = vfsNode[i] THEN 1 ELSE 0)
    BY VfsDropOwners
  <2>3. Others(x) = Others(x)' + (IF x = vfsNode[i] THEN 1 ELSE 0)
    BY <2>2 DEF Others, InVfs, One
  <2> QED BY <2>1, <2>3 DEF One, Others
<1>2. Ready(vfsNode[i], 1, fNodes, vn, phase)
  <2>1. \A x \in leaked : ~In(fNodes, x)
    BY DEF IInv, Bookkeeping, Linked, In
  <2>2. vfsNode[i] \in Vnode
    BY VfsUnique
  <2>3. /\ vfsNode' \in [Id -> Vnode \cup {NoVnode}]
        /\ vfsRef' \in [Id -> Nat]
        /\ vfsRemoved' \in [Id -> BOOLEAN]
        /\ \A j \in Id : vfsNode'[j] = IF j = i THEN NoVnode ELSE vfsNode[j]
        /\ \A j \in Id : vfsRef'[j] = IF j = i THEN 0 ELSE vfsRef[j]
    BY DEF VfsDrop, IInv, TypeOK
  <2>4. /\ \A j \in Id : vfsNode'[j] = IF Cached(j)' THEN vfsNode[j] ELSE NoVnode
        /\ \A j \in Id : ~Cached(j)' => vfsRef'[j] = 0
    BY <2>3 DEF Cached, IInv, Bookkeeping
  <2> QED
    BY <1>1, <2>1, <2>2, <2>3, <2>4 DEF Ready, IInv, TypeOK, OneLink, Bookkeeping
<1> QED BY <1>2, ReleaseInv

\* The entries after v left its directory: still a forest of live directories
\* without the root, and of all vnodes only v lost the owner it had there.
Detached(v, nodes, vs) ==
  /\ nodes \in [Vnode -> SUBSET Vnode] /\ vs \in [Vnode -> Fields]
  /\ \A x \in Vnode : vs[x].kind = vn[x].kind /\ vs[x].id = vn[x].id
  /\ \A d \in Vnode : nodes[d] # {} => IsDir(d)
  /\ \A d, e \in Vnode : nodes[d] \cap nodes[e] # {} => d = e
  /\ \A d \in Vnode : fRootVnode \notin nodes[d]
  /\ leaked' \in SUBSET Vnode
  /\ \A x \in leaked' : ~In(nodes, x)
  /\ \A x \in Vnode : One(Linked(x)) + One(x \in leaked)
                      = One(In(nodes, x)) + One(x \in leaked')
                        + (IF x = v THEN 1 ELSE 0)

LEMMA DetachedReady ==
  ASSUME IInv, NEW v \in Vnode, NEW nodes, NEW vs, Detached(v, nodes, vs),
         fRootVnode' = fRootVnode, UNCHANGED <<vfsNode, vfsRef>>,
         vfsRemoved' \in [Id -> BOOLEAN]
  PROVE  Ready(v, 1, nodes, vs, phase)
<1>1. ASSUME NEW x \in Vnode
      PROVE  fRef[x] = One(In(nodes, x)) + Others(x)'
                       + (IF x = v THEN 1 ELSE 0)
  <2>1. fRef[x] = One(Linked(x)) + Others(x)
    BY DEF IInv, RefsExact
  <2>2. One(Linked(x)) + One(x \in leaked)
        = One(In(nodes, x)) + One(x \in leaked') + (IF x = v THEN 1 ELSE 0)
    BY DEF Detached
  <2> QED BY <2>1, <2>2 DEF Others, One
<1> QED
  BY <1>1 DEF Ready, Detached, IInv, TypeOK, Bookkeeping, Cached

LEMMA DetachedDropReady ==
  ASSUME IInv, NEW v \in Vnode, NEW nodes, NEW vs, Detached(v, nodes, vs),
         fRootVnode' = fRootVnode,
         NEW i \in Id, Cached(i), vfsNode[i] = v, VfsDrop(i)
  PROVE  Ready(v, 2, nodes, vs, phase)
<1>1. ASSUME NEW x \in Vnode
      PROVE  fRef[x] = One(In(nodes, x)) + Others(x)'
                       + (IF x = v THEN 2 ELSE 0)
  <2>1. fRef[x] = One(Linked(x)) + Others(x)
    BY DEF IInv, RefsExact
  <2>2. One(Linked(x)) + One(x \in leaked)
        = One(In(nodes, x)) + One(x \in leaked') + (IF x = v THEN 1 ELSE 0)
    BY DEF Detached
  <2>3. One(InVfs(x)) = One(\E j \in Id : vfsNode'[j] = x)
                        + (IF x = v THEN 1 ELSE 0)
    BY VfsDropOwners
  <2> QED BY <2>1, <2>2, <2>3 DEF Others, InVfs, One
<1>2. /\ vfsNode' \in [Id -> Vnode \cup {NoVnode}]
      /\ vfsRef' \in [Id -> Nat]
      /\ vfsRemoved' \in [Id -> BOOLEAN]
      /\ \A j \in Id : vfsNode'[j] = IF j = i THEN NoVnode ELSE vfsNode[j]
      /\ \A j \in Id : vfsRef'[j] = IF j = i THEN 0 ELSE vfsRef[j]
  BY DEF VfsDrop, IInv, TypeOK
<1>3. /\ \A j \in Id : vfsNode'[j] = IF Cached(j)' THEN vfsNode[j] ELSE NoVnode
      /\ \A j \in Id : ~Cached(j)' => vfsRef'[j] = 0
  BY <1>2 DEF Cached, IInv, Bookkeeping
<1> QED
  BY <1>1, <1>2, <1>3 DEF Ready, Detached, IInv, TypeOK, Bookkeeping

\* Unlink and RemoveDir, on their own or from Rename.
LEMMA RemoveEntryStep ==
  ASSUME IInv, NEW v \in Vnode, Linked(v), NEW nodes, NEW vs,
         Detached(v, nodes, vs),
         fRootVnode' = fRootVnode,
         UnlinkVnode(v, nodes, vs) \/ RemoveDirVnode(v, nodes, vs)
  PROVE  IInv' /\ phase' = phase
<1>1. vn[v].id \in Id /\ fIds[vn[v].id] = v
  BY OwnedAlive
<1>2. ASSUME Release(v, 1, nodes, vs, phase), NEW i, VfsRemove(i)
      PROVE  IInv' /\ phase' = phase
  <2>1. vfsRemoved' \in [Id -> BOOLEAN]
    BY <1>2 DEF VfsRemove, IInv, TypeOK, Cached
  <2> QED BY <1>2, <2>1, DetachedReady, ReleaseInv DEF VfsRemove
<1>3. CASE RemoveDirVnode(v, nodes, vs)
  BY <1>2, <1>3 DEF RemoveDirVnode
<1>4. CASE UnlinkVnode(v, nodes, vs)
  <2> DEFINE i == vn[v].id
  <2>1. CASE Cached(i) /\ vfsRef[i] = 0
    <3>1. Release(v, 2, nodes, vs, phase) /\ VfsDrop(i)
      BY <1>4, <2>1 DEF UnlinkVnode
    <3>2. vfsNode[i] = v
      BY <1>1, <2>1 DEF IInv, VfsIdentity
    <3> QED BY <1>1, <2>1, <3>1, <3>2, DetachedDropReady, ReleaseInv
  <2>2. CASE ~(Cached(i) /\ vfsRef[i] = 0)
    BY <1>2, <1>4, <2>2 DEF UnlinkVnode
  <2> QED BY <2>1, <2>2
<1> QED BY <1>3, <1>4

\* An entry taken out of its directory is detached.
LEMMA RemoveNodeDetaches ==
  ASSUME IInv, NEW d \in Vnode, NEW v \in fNodes[d], leaked' = leaked
  PROVE  Detached(v, RemoveNode(fNodes, d, v), vn)
<1> DEFINE nodes == RemoveNode(fNodes, d, v)
<1>1. /\ nodes \in [Vnode -> SUBSET Vnode]
      /\ \A e \in Vnode : nodes[e] = IF e = d THEN fNodes[e] \ {v} ELSE fNodes[e]
  BY DEF RemoveNode, IInv, TypeOK
<1>2. v \in Vnode /\ Linked(v) /\ \A e \in Vnode : v \in fNodes[e] => e = d
  BY DEF IInv, TypeOK, OneLink, Linked
<1>3. ~In(nodes, v) /\ \A x \in Vnode \ {v} : In(nodes, x) <=> Linked(x)
  <2> HIDE DEF nodes
  <2> QED BY <1>1, <1>2 DEF In, Linked
<1>4. \A x \in Vnode : One(Linked(x)) + One(x \in leaked)
                       = One(In(nodes, x)) + One(x \in leaked')
                         + (IF x = v THEN 1 ELSE 0)
  <2> HIDE DEF nodes
  <2> QED BY <1>2, <1>3 DEF One
<1>5. \A x \in leaked' : ~In(nodes, x)
  BY <1>3 DEF IInv, TypeOK, Bookkeeping
<1>6. /\ \A e \in Vnode : nodes[e] # {} => IsDir(e)
      /\ \A e, f \in Vnode : nodes[e] \cap nodes[f] # {} => e = f
      /\ \A e \in Vnode : fRootVnode \notin nodes[e]
  <2> HIDE DEF nodes
  <2> QED BY <1>1 DEF IInv, OneLink
<1> HIDE DEF nodes
<1>7. Detached(v, nodes, vn)
  BY <1>1, <1>4, <1>5, <1>6 DEF Detached, IInv, TypeOK
<1> QED BY <1>7 DEF nodes

-----------------------------------------------------------------------------
(* The steps that only add owners, and Rename.                             *)

\* A registered new vnode that is entered in d, or lost, and that the VFS has
\* got a reference to, or not.
LEMMA NewVnodeStep ==
  ASSUME IInv, NEW d \in Vnode, NEW n \in Name, NEW k \in Kinds,
         NEW v \in Vnode, NEW i \in Id,
         NewVnode(d, n, k, v, i),
         fNodes' = fNodes \/ fNodes' = [fNodes EXCEPT ![d] = @ \cup {v}],
         leaked' = IF v \in fNodes'[d] THEN leaked ELSE leaked \cup {v},
         \/ UNCHANGED vfsVars /\ fRef' = [fRef EXCEPT ![v] = 1]
         \/ /\ vfsNode' = [vfsNode EXCEPT ![i] = v]
            /\ vfsRef' \in [Id -> Nat]
            /\ \A j \in Id \ {i} : vfsRef'[j] = vfsRef[j]
            /\ vfsRemoved' = vfsRemoved
            /\ fRef' = [fRef EXCEPT ![v] = 2]
  PROVE  IInv' /\ phase' = phase
<1>1. /\ IsDir(d) /\ d # v /\ ~Alive(v)
      /\ phase' = phase /\ fRootVnode' = fRootVnode
      /\ i \notin idAlloc /\ idAlloc' = idAlloc \cup {i}
      /\ \A j \in Id : fIds'[j] = IF j = i THEN v ELSE fIds[j]
      /\ \A x \in Vnode \ {v} : vn'[x] = vn[x]
      /\ vn'[v].kind = k /\ vn'[v].id = i
      /\ vn'[v] \in Fields
  BY DEF NewVnode, CalledDir, IsDir, Register, Alive, IInv, TypeOK, Fields
<1>2. /\ ~Linked(v) /\ ~InVfs(v) /\ v # fRootVnode /\ v \notin leaked
      /\ fNodes[v] = {} /\ \A j \in Id : fIds[j] # v
  BY <1>1, DeadUnowned
<1>3. ~Cached(i) /\ fIds[i] = NoVnode
  BY <1>1 DEF IInv, IdsExact, VfsIdentity, Cached
<1>4. /\ \A e \in Vnode : \/ fNodes'[e] = fNodes[e]
                          \/ e = d /\ fNodes'[e] = fNodes[e] \cup {v}
      /\ fNodes' \in [Vnode -> SUBSET Vnode]
  BY DEF IInv, TypeOK
<1>5. /\ \A j \in Id \ {i} : vfsNode'[j] = vfsNode[j] /\ vfsRef'[j] = vfsRef[j]
      /\ vfsNode'[i] \in {NoVnode, v}
      /\ vfsNode'[i] = NoVnode => vfsRef'[i] = 0
      /\ vfsNode'[i] = v <=> fRef'[v] = 2
      /\ fRef'[v] \in {1, 2}
      /\ \A x \in Vnode \ {v} : fRef'[x] = fRef[x]
  BY <1>3, ConstantsAssumption DEF vfsVars, IInv, TypeOK, Cached, Bookkeeping
<1>6. TypeOK'
  <2>1. vn' \in [Vnode -> Fields]
    BY <1>1 DEF NewVnode, IInv, TypeOK
  <2>2. fRef' \in [Vnode -> Nat] /\ leaked' \in SUBSET Vnode
    BY DEF IInv, TypeOK
  <2>3. /\ vfsNode' \in [Id -> Vnode \cup {NoVnode}]
        /\ vfsRef' \in [Id -> Nat] /\ vfsRemoved' \in [Id -> BOOLEAN]
    BY DEF vfsVars, IInv, TypeOK
  <2>4. fIds' \in [Id -> Vnode \cup {NoVnode}] /\ idAlloc' \in SUBSET Id
    BY DEF NewVnode, Register, IInv, TypeOK
  <2> QED BY <1>1, <1>4, <2>1, <2>2, <2>3, <2>4 DEF IInv, TypeOK
<1>7. RefsExact'
  <2> SUFFICES ASSUME NEW x \in Vnode
               PROVE  /\ fRef'[x] = One(Linked(x)') + Others(x)'
                      /\ vn'[x].kind # "none" <=> fRef'[x] > 0
    BY DEF RefsExact, Alive
  <2>1. CASE x = v
    <3>1. Linked(v)' <=> v \in fNodes'[d]
      BY <1>2, <1>4 DEF Linked
    <3>2. v \in leaked' <=> v \notin fNodes'[d]
      BY <1>2
    <3>3. (\E j \in Id : vfsNode'[j] = v) <=> fRef'[v] = 2
      BY <1>2, <1>5 DEF InVfs
    <3>4. v # fRootVnode'
      BY <1>1, <1>2
    <3>5. fRef'[v] = One(Linked(v)') + Others(v)'
      BY <1>5, <3>1, <3>2, <3>3, <3>4 DEF Others, One
    <3> QED BY <1>1, <1>5, <2>1, <3>5 DEF Kinds
  <2>2. CASE x # v
    <3>1. Linked(x)' <=> Linked(x)
      BY <1>4, <2>2 DEF Linked
    <3>2. (\E j \in Id : vfsNode'[j] = x) <=> InVfs(x)
      BY <1>3, <1>5, <2>2, ConstantsAssumption DEF InVfs, Cached
    <3>3. x \in leaked' <=> x \in leaked
      BY <2>2
    <3>4. One(Linked(x)') + Others(x)' = One(Linked(x)) + Others(x)
      BY <1>1, <3>1, <3>2, <3>3 DEF Others, InVfs, One
    <3> QED BY <1>1, <1>5, <2>2, <3>4 DEF IInv, RefsExact, Alive
  <2> QED BY <2>1, <2>2
<1>8. IdsExact'
  <2>1. \A j \in Id : j \in idAlloc' <=> fIds'[j] # NoVnode
    BY <1>1, ConstantsAssumption DEF IInv, IdsExact
  <2>2. ASSUME NEW j \in idAlloc'
        PROVE  vn'[fIds'[j]].kind # "none" /\ vn'[fIds'[j]].id = j
    <3>1. CASE j = i
      BY <1>1, <3>1 DEF Kinds
    <3>2. CASE j # i
      BY <1>1, <1>2, <3>2 DEF IInv, IdsExact, TypeOK, Alive
    <3> QED BY <3>1, <3>2
  <2>3. ASSUME NEW x \in Vnode, vn'[x].kind # "none"
        PROVE  vn'[x].id \in Id /\ fIds'[vn'[x].id] = x
    <3>1. CASE x = v
      BY <1>1, <3>1
    <3>2. CASE x # v
      BY <1>1, <1>3, <2>3, <3>2, ConstantsAssumption DEF IInv, IdsExact, Alive
    <3> QED BY <3>1, <3>2
  <2> QED BY <2>1, <2>2, <2>3 DEF IdsExact, Alive
<1>9. VfsIdentity'
  BY <1>1, <1>3, <1>5 DEF IInv, VfsIdentity, Cached
<1>10. OneLink'
  <2>1. \A e \in Vnode : fNodes'[e] # {} => vn'[e].kind = "dir"
    BY <1>1, <1>2, <1>4 DEF IInv, OneLink, IsDir
  <2>2. \A e, f \in Vnode : fNodes'[e] \cap fNodes'[f] # {} => e = f
    BY <1>2, <1>4 DEF IInv, OneLink, Linked
  <2>3. \A e \in Vnode : fRootVnode' \notin fNodes'[e]
    BY <1>1, <1>2, <1>4 DEF IInv, OneLink
  <2> QED BY <2>1, <2>2, <2>3 DEF OneLink, IsDir
<1>11. Bookkeeping'
  <2>1. \A x \in leaked' : ~Linked(x)'
    BY <1>2, <1>4 DEF IInv, Bookkeeping, Linked
  <2>2. \A j \in Id : ~Cached(j)' => vfsRef'[j] = 0
    BY <1>5 DEF IInv, Bookkeeping, Cached
  <2> QED BY <1>1, <2>1, <2>2 DEF IInv, Bookkeeping
<1> QED BY <1>1, <1>6, <1>7, <1>8, <1>9, <1>10, <1>11 DEF IInv

LEMMA CreateStep ==
  ASSUME IInv, NEW d \in Vnode, NEW n \in Name, NEW v \in Vnode, NEW i \in Id,
         \/ Create(d, n, v, i) \/ CreateInitFails(d, n, v, i)
         \/ CreateDir(d, n, v, i) \/ CreateSymlink(d, n, v, i)
  PROVE  IInv' /\ phase' = phase
<1>1. ASSUME NEW k, NewVnode(d, n, k, v, i)
      PROVE  ~Cached(i) /\ ~Linked(v)
  BY <1>1, DeadUnowned DEF NewVnode, Register, IInv, IdsExact, VfsIdentity, Cached
<1>2. ASSUME Enter(d, v)
      PROVE  /\ fNodes' = fNodes \/ fNodes' = [fNodes EXCEPT ![d] = @ \cup {v}]
             /\ leaked' = IF v \in fNodes'[d] THEN leaked ELSE leaked \cup {v}
  BY <1>2 DEF Enter, Insert, KeepOrLose
<1>3. CASE Create(d, n, v, i)
  <2>1. NewVnode(d, n, "file", v, i) /\ Enter(d, v) /\ "file" \in Kinds
    BY <1>3 DEF Create, Kinds
  <2>2. /\ vfsNode' = [vfsNode EXCEPT ![i] = v]
        /\ vfsRef' \in [Id -> Nat]
        /\ \A j \in Id \ {i} : vfsRef'[j] = vfsRef[j]
        /\ vfsRemoved' = vfsRemoved
        /\ fRef' = [fRef EXCEPT ![v] = 2]
    <3>1. ~Cached(i)
      BY <1>1, <2>1
    <3>2. vfsRef' = [vfsRef EXCEPT ![i] = @ + 1]
      BY <1>3 DEF Create, VfsGet
    <3>3. vfsRef' \in [Id -> Nat] /\ \A j \in Id \ {i} : vfsRef'[j] = vfsRef[j]
      BY <3>2 DEF IInv, TypeOK
    <3> QED BY <1>3, <3>1, <3>3 DEF Create, VfsGet
  <2> QED BY <1>2, <2>1, <2>2, NewVnodeStep
<1>4. CASE CreateInitFails(d, n, v, i)
  <2>1. NewVnode(d, n, "file", v, i) /\ "file" \in Kinds
    BY <1>4 DEF CreateInitFails, Kinds
  <2>2. /\ vfsNode' = [vfsNode EXCEPT ![i] = v]
        /\ vfsRef' \in [Id -> Nat]
        /\ \A j \in Id \ {i} : vfsRef'[j] = vfsRef[j]
        /\ vfsRemoved' = vfsRemoved
        /\ fRef' = [fRef EXCEPT ![v] = 2]
    BY <1>1, <1>4, <2>1 DEF CreateInitFails, IInv, TypeOK
  <2>3. fNodes' = fNodes /\ leaked' = IF v \in fNodes'[d] THEN leaked
                                      ELSE leaked \cup {v}
    BY <1>1, <1>4, <2>1 DEF CreateInitFails, Linked
  <2> QED BY <2>1, <2>2, <2>3, NewVnodeStep
<1>5. CASE CreateDir(d, n, v, i)
  <2>1. NewVnode(d, n, "dir", v, i) /\ Enter(d, v) /\ "dir" \in Kinds
    BY <1>5 DEF CreateDir, Kinds
  <2> QED BY <1>2, <1>5, <2>1, NewVnodeStep DEF CreateDir
<1>6. CASE CreateSymlink(d, n, v, i)
  <2>1. NewVnode(d, n, "symlink", v, i) /\ Enter(d, v) /\ "symlink" \in Kinds
    BY <1>6 DEF CreateSymlink, Kinds
  <2> QED BY <1>2, <1>6, <2>1, NewVnodeStep DEF CreateSymlink
<1> QED BY <1>3, <1>4, <1>5, <1>6

Forest(nodes) ==
  /\ nodes \in [Vnode -> SUBSET Vnode]
  /\ \A d \in Vnode : nodes[d] # {} => IsDir(d)
  /\ \A d, e \in Vnode : nodes[d] \cap nodes[e] # {} => d = e
  /\ \A d \in Vnode : fRootVnode \notin nodes[d]

LEMMA FNodesForest ==
  ASSUME IInv
  PROVE  Forest(fNodes) /\ \A x : In(fNodes, x) <=> Linked(x)
BY DEF IInv, TypeOK, OneLink, Forest, In, Linked

\* Taking out one entry, the trees stay a forest with all other entries.
LEMMA RemoveNodeForest ==
  ASSUME NEW nodes, Forest(nodes), NEW d \in Vnode, NEW v \in nodes[d]
  PROVE  /\ Forest(RemoveNode(nodes, d, v))
         /\ ~In(RemoveNode(nodes, d, v), v)
         /\ \A x \in Vnode \ {v} : In(RemoveNode(nodes, d, v), x) <=> In(nodes, x)
         /\ \A e \in Vnode \ {d} : RemoveNode(nodes, d, v)[e] = nodes[e]
         /\ RemoveNode(nodes, d, v)[d] = nodes[d] \ {v}
<1> DEFINE rest == RemoveNode(nodes, d, v)
<1>1. /\ rest \in [Vnode -> SUBSET Vnode]
      /\ \A e \in Vnode : rest[e] = IF e = d THEN nodes[e] \ {v} ELSE nodes[e]
  BY DEF RemoveNode, Forest
<1>2. \A e \in Vnode : v \in nodes[e] => e = d
  BY DEF Forest
<1> HIDE DEF rest
<1>3. Forest(rest)
  BY <1>1 DEF Forest
<1>4. ~In(rest, v) /\ \A x \in Vnode \ {v} : In(rest, x) <=> In(nodes, x)
  BY <1>1, <1>2 DEF In
<1> QED BY <1>1, <1>3, <1>4 DEF rest

\* So does moving an entry; it is in its new directory or in none.
LEMMA MovedForest ==
  ASSUME NEW nodes, Forest(nodes), NEW d \in Vnode, NEW v \in nodes[d],
         NEW e \in Vnode, IsDir(e), NEW vs
  PROVE  /\ Forest(Moved(nodes, vs, d, e, v))
         /\ In(Moved(nodes, vs, d, e, v), v) <=> v \in Moved(nodes, vs, d, e, v)[e]
         /\ \A x \in Vnode \ {v} : In(Moved(nodes, vs, d, e, v), x) <=> In(nodes, x)
<1> DEFINE rest == RemoveNode(nodes, d, v)
           new == Moved(nodes, vs, d, e, v)
<1>1. /\ Forest(rest) /\ ~In(rest, v)
      /\ \A x \in Vnode \ {v} : In(rest, x) <=> In(nodes, x)
  BY RemoveNodeForest
<1>2. v \in Vnode /\ v # fRootVnode
  BY DEF Forest
<1>3. \/ new = rest
      \/ new = [rest EXCEPT ![e] = @ \cup {v}]
  BY DEF Moved, Insert
<1> HIDE DEF rest, new
<1>4. \A f \in Vnode : v \notin rest[f]
  BY <1>1 DEF In
<1>5. CASE new = rest
  BY <1>1, <1>2, <1>4, <1>5 DEF new, In
<1>6. CASE new = [rest EXCEPT ![e] = @ \cup {v}]
  <2>1. /\ new \in [Vnode -> SUBSET Vnode]
        /\ \A f \in Vnode : new[f] = IF f = e THEN rest[f] \cup {v} ELSE rest[f]
    BY <1>1, <1>2, <1>6 DEF Forest
  <2>2. Forest(new)
    BY <1>1, <1>2, <1>4, <2>1 DEF Forest
  <2>3. In(new, v) <=> v \in new[e]
    BY <1>4, <2>1 DEF In
  <2>4. \A x \in Vnode \ {v} : In(new, x) <=> In(rest, x)
    BY <2>1 DEF In
  <2> QED BY <1>1, <2>2, <2>3, <2>4 DEF new
<1> QED BY <1>3, <1>5, <1>6

LEMMA RenameStep ==
  ASSUME IInv, NEW d \in Vnode, NEW e \in Vnode, NEW n \in Name, NEW m \in Name,
         NEW setName \in BOOLEAN, Rename(d, n, e, m, setName)
  PROVE  IInv' /\ phase' = phase
<1>1. /\ VfsRenames(d, n, e, m) /\ IsDir(e) /\ fRootVnode' = fRootVnode
  BY DEF Rename, CalledDir
<1> DEFINE VS(v) == [vn EXCEPT ![v].name = IF setName THEN m ELSE @]
<1>2. PICK v \in Find(d, n) :
        \/ /\ Find(e, m) = {}
           /\ vn' = VS(v)
           /\ fNodes' = Moved(fNodes, VS(v), d, e, v)
           /\ KeepOrLose(fNodes', e, v)
           /\ UNCHANGED <<fRef, fIds, idAlloc, vfsVars, phase>>
        \/ \E old \in Find(e, m) :
             LET nodes == Moved(RemoveNode(fNodes, e, old), VS(v), d, e, v)
             IN  /\ fNodes[old] = {}
                 /\ RemoveEntry(old, nodes, VS(v))
                 /\ KeepOrLose(nodes, e, v)
  BY DEF Rename
<1>3. v \in fNodes[d] /\ v \in Vnode /\ vn[v].name = n /\ Linked(v)
  BY DEF Find, Linked, IInv, TypeOK
<1>4. v \notin leaked
  BY <1>3 DEF IInv, Bookkeeping
<1> DEFINE vs == VS(v)
<1>5. /\ vs \in [Vnode -> Fields]
      /\ \A x \in Vnode : vs[x].kind = vn[x].kind /\ vs[x].id = vn[x].id
  <2>1. vn \in [Vnode -> Fields]
    BY DEF IInv, TypeOK
  <2>2. \A x \in Vnode \ {v} : vs[x] = vn[x]
    BY <2>1
  <2>3. vs[v] = [vn[v] EXCEPT !.name = IF setName THEN m ELSE @]
    BY <1>3, <2>1
  <2>4. vs[v] \in Fields /\ vs[v].kind = vn[v].kind /\ vs[v].id = vn[v].id
    <3> DEFINE name == IF setName THEN m ELSE vn[v].name
    <3>1. vn[v] \in Fields
      BY <1>3, <2>1
    <3>3. name \in Name \cup {NoName}
      BY <3>1 DEF Fields
    <3>4. vs[v] = [vn[v] EXCEPT !.name = name]
      BY <2>3
    <3> HIDE DEF name, vs
    <3> QED BY <3>1, <3>3, <3>4 DEF Fields
  <2>5. vs = [x \in Vnode |-> vs[x]]
    BY <2>1
  <2> HIDE DEF vs
  <2>6. \A x \in Vnode : vs[x] \in Fields
    BY <2>1, <2>2, <2>4
  <2> QED BY <2>2, <2>4, <2>5, <2>6
<1> HIDE DEF VS
<1>6. Forest(fNodes) /\ \A x : In(fNodes, x) <=> Linked(x)
  BY FNodesForest
<1>7. CASE /\ vn' = vs
           /\ fNodes' = Moved(fNodes, vs, d, e, v)
           /\ KeepOrLose(fNodes', e, v)
           /\ UNCHANGED <<fRef, fIds, idAlloc, vfsVars, phase>>
  <2> DEFINE nodes == Moved(fNodes, vs, d, e, v)
  <2>1. /\ Forest(nodes)
        /\ In(nodes, v) <=> v \in nodes[e]
        /\ \A x \in Vnode \ {v} : In(nodes, x) <=> Linked(x)
    BY <1>1, <1>3, <1>6, MovedForest
  <2> HIDE DEF nodes
  <2>2. fNodes' = nodes
    BY <1>7 DEF nodes
  <2>3. leaked' = IF v \in nodes[e] THEN leaked ELSE leaked \cup {v}
    BY <1>7, <2>2 DEF KeepOrLose
  <2>4. \A x \in Vnode : Linked(x)' <=> In(nodes, x)
    BY <2>2 DEF Linked, In
  <2>5. TypeOK'
    BY <1>3, <1>5, <1>7, <2>1, <2>2, <2>3, <1>1
    DEF IInv, TypeOK, Forest, vfsVars
  <2>6. RefsExact'
    <3> SUFFICES ASSUME NEW x \in Vnode
                 PROVE  /\ fRef'[x] = One(Linked(x)') + Others(x)'
                        /\ vn'[x].kind # "none" <=> fRef'[x] > 0
      BY DEF RefsExact, Alive
    <3>1. (\E j \in Id : vfsNode'[j] = x) <=> InVfs(x)
      BY <1>7 DEF InVfs, vfsVars
    <3>2. One(Linked(x)') + One(x \in leaked') = One(Linked(x)) + One(x \in leaked)
      BY <1>3, <1>4, <2>1, <2>3, <2>4 DEF One
    <3>3. One(Linked(x)') + Others(x)' = One(Linked(x)) + Others(x)
      BY <1>1, <3>1, <3>2 DEF Others, InVfs, One
    <3>4. fRef'[x] = fRef[x] /\ vn'[x].kind = vn[x].kind
      BY <1>5, <1>7
    <3> QED BY <3>3, <3>4 DEF IInv, RefsExact, Alive
  <2>7. IdsExact'
    <3>1. \A x \in Vnode : vn'[x].kind = vn[x].kind /\ vn'[x].id = vn[x].id
      BY <1>5, <1>7
    <3>2. fIds' = fIds /\ idAlloc' = idAlloc
      BY <1>7
    <3>3. \A i \in idAlloc : fIds[i] \in Vnode
      BY DEF IInv, IdsExact, TypeOK
    <3> QED BY <3>1, <3>2, <3>3 DEF IInv, IdsExact, Alive
  <2>8. VfsIdentity'
    BY <1>7 DEF IInv, VfsIdentity, Cached, vfsVars
  <2>9. OneLink'
    BY <1>1, <1>5, <1>7, <2>1, <2>2 DEF OneLink, Forest, IsDir
  <2>10. Bookkeeping'
    <3>1. \A x \in leaked' : ~Linked(x)'
      BY <1>3, <2>1, <2>3, <2>4 DEF IInv, TypeOK, Bookkeeping
    <3> QED BY <1>1, <1>7, <3>1 DEF IInv, Bookkeeping, Cached, vfsVars
  <2> QED BY <1>7, <2>5, <2>6, <2>7, <2>8, <2>9, <2>10 DEF IInv
<1>8. ASSUME NEW old \in Find(e, m),
             LET nodes == Moved(RemoveNode(fNodes, e, old), vs, d, e, v)
             IN  RemoveEntry(old, nodes, vs) /\ KeepOrLose(nodes, e, v)
      PROVE  IInv' /\ phase' = phase
  <2> DEFINE rest == RemoveNode(fNodes, e, old)
             nodes == Moved(rest, vs, d, e, v)
  <2>1. old \in fNodes[e] /\ old \in Vnode /\ vn[old].name = m /\ Linked(old)
    BY DEF Find, Linked, IInv, TypeOK
  <2>2. old # v
    BY <1>1, <1>3, <2>1 DEF VfsRenames, IInv, OneLink
  <2>3. /\ Forest(rest) /\ ~In(rest, old)
        /\ \A x \in Vnode \ {old} : In(rest, x) <=> Linked(x)
        /\ v \in rest[d]
    BY <1>3, <1>6, <2>1, <2>2, RemoveNodeForest
  <2> HIDE DEF rest
  <2>4. /\ Forest(nodes)
        /\ In(nodes, v) <=> v \in nodes[e]
        /\ \A x \in Vnode \ {v} : In(nodes, x) <=> In(rest, x)
    BY <1>1, <2>3, MovedForest
  <2>5. RemoveEntry(old, nodes, vs) /\ KeepOrLose(nodes, e, v)
    BY <1>8 DEF rest
  <2> HIDE DEF nodes
  <2>6. leaked' = IF v \in nodes[e] THEN leaked ELSE leaked \cup {v}
    BY <2>5 DEF KeepOrLose
  <2>7. ASSUME NEW x \in Vnode
        PROVE  One(Linked(x)) + One(x \in leaked)
               = One(In(nodes, x)) + One(x \in leaked')
                 + (IF x = old THEN 1 ELSE 0)
    <3>1. CASE x = v
      BY <1>3, <1>4, <2>2, <2>4, <2>6, <3>1 DEF One
    <3>2. CASE x = old
      BY <2>1, <2>2, <2>3, <2>4, <2>6, <3>2 DEF One
    <3>3. CASE x # v /\ x # old
      BY <2>3, <2>4, <2>6, <3>3 DEF One
    <3> QED BY <3>1, <3>2, <3>3
  <2>8. \A x \in leaked' : ~In(nodes, x)
    <3>1. \A x \in leaked : ~Linked(x) /\ x \in Vnode
      BY DEF IInv, TypeOK, Bookkeeping
    <3> QED BY <1>3, <2>2, <2>3, <2>4, <2>6, <3>1
  <2>9. leaked' \in SUBSET Vnode
    BY <1>3, <2>6 DEF IInv, TypeOK
  <2>10. Detached(old, nodes, vs)
    BY <1>5, <2>4, <2>7, <2>8, <2>9 DEF Detached, Forest
  <2>11. UnlinkVnode(old, nodes, vs) \/ RemoveDirVnode(old, nodes, vs)
    BY <2>5 DEF RemoveEntry
  <2> QED BY <1>1, <2>1, <2>10, <2>11, RemoveEntryStep
<1> QED BY <1>2, <1>7, <1>8

LEMMA EntryStep ==
  ASSUME IInv, NEW d \in Vnode, NEW n \in Name, Unlink(d, n) \/ RemoveDir(d, n)
  PROVE  IInv' /\ phase' = phase
<1>1. PICK v \in fNodes[d] :
        \/ UnlinkVnode(v, RemoveNode(fNodes, d, v), vn)
        \/ RemoveDirVnode(v, RemoveNode(fNodes, d, v), vn)
  BY DEF Unlink, RemoveDir, Find
<1>2. fRootVnode' = fRootVnode /\ leaked' = leaked
  BY DEF Unlink, RemoveDir
<1>3. v \in Vnode /\ Linked(v)
  BY DEF IInv, TypeOK, Linked
<1>4. Detached(v, RemoveNode(fNodes, d, v), vn)
  BY <1>2, RemoveNodeDetaches
<1> QED BY <1>1, <1>2, <1>3, <1>4, RemoveEntryStep

LEMMA MountStep ==
  ASSUME IInv, NEW v \in Vnode, NEW i \in Id, Mount(v, i)
  PROVE  IInv'
<1>1. /\ phase = "idle" /\ ~Alive(v) /\ fRootVnode = NoVnode
      /\ i \notin idAlloc /\ idAlloc' = idAlloc \cup {i}
      /\ \A j \in Id : fIds'[j] = IF j = i THEN v ELSE fIds[j]
      /\ fRootVnode' = v /\ fNodes' = fNodes /\ leaked' = leaked
      /\ phase' = "mounted"
  BY DEF Mount, Register, IInv, TypeOK, Bookkeeping
<1>2. /\ ~Linked(v) /\ ~InVfs(v) /\ v \notin leaked
      /\ fNodes[v] = {} /\ \A j \in Id : fIds[j] # v
  BY <1>1, DeadUnowned
<1>3. ~Cached(i) /\ fIds[i] = NoVnode
  BY <1>1 DEF IInv, IdsExact, VfsIdentity, Cached
<1>4. /\ vfsNode' \in [Id -> Vnode \cup {NoVnode}]
      /\ vfsRef' \in [Id -> Nat] /\ vfsRemoved' = vfsRemoved
      /\ vfsNode'[i] = v
      /\ \A j \in Id \ {i} : vfsNode'[j] = vfsNode[j] /\ vfsRef'[j] = vfsRef[j]
  BY <1>3 DEF Mount, VfsGet, IInv, TypeOK
<1>5. /\ fRef' \in [Vnode -> Nat] /\ fRef'[v] = 2
      /\ \A x \in Vnode \ {v} : fRef'[x] = fRef[x]
  BY <1>3 DEF Mount, IInv, TypeOK
<1>6. /\ vn' \in [Vnode -> Fields] /\ vn'[v].kind = "dir" /\ vn'[v].id = i
      /\ \A x \in Vnode \ {v} : vn'[x] = vn[x]
  <2>1. [Freed EXCEPT !.kind = "dir", !.id = i] \in Fields
    BY DEF Freed, Fields, Kinds
  <2>2. [Freed EXCEPT !.kind = "dir", !.id = i].kind = "dir"
    BY DEF Freed
  <2>3. [Freed EXCEPT !.kind = "dir", !.id = i].id = i
    BY DEF Freed
  <2> QED BY <2>1, <2>2, <2>3 DEF Mount, IInv, TypeOK
<1>7. TypeOK'
  <2>1. fIds' \in [Id -> Vnode \cup {NoVnode}]
    BY DEF Mount, Register, IInv, TypeOK
  <2> QED BY <1>1, <1>4, <1>5, <1>6, <2>1 DEF IInv, TypeOK, Phases
<1>8. RefsExact'
  <2> SUFFICES ASSUME NEW x \in Vnode
               PROVE  /\ fRef'[x] = One(Linked(x)') + Others(x)'
                      /\ vn'[x].kind # "none" <=> fRef'[x] > 0
    BY DEF RefsExact, Alive
  <2>1. Linked(x)' <=> Linked(x)
    BY <1>1 DEF Linked
  <2>2. CASE x = v
    <3>1. \E j \in Id : vfsNode'[j] = v
      BY <1>4
    <3>2. One(Linked(v)') + Others(v)' = 2
      BY <1>1, <1>2, <2>1, <2>2, <3>1 DEF Others, One
    <3> QED BY <1>5, <1>6, <2>2, <3>2
  <2>3. CASE x # v
    <3>1. (\E j \in Id : vfsNode'[j] = x) <=> InVfs(x)
      BY <1>3, <1>4, <2>3, ConstantsAssumption DEF InVfs, Cached
    <3>2. One(Linked(x)') + Others(x)' = One(Linked(x)) + Others(x)
      BY <1>1, <2>1, <2>3, <3>1, ConstantsAssumption DEF Others, InVfs, One
    <3> QED BY <1>5, <1>6, <2>3, <3>2 DEF IInv, RefsExact, Alive
  <2> QED BY <2>2, <2>3
<1>9. IdsExact'
  <2>1. \A j \in Id : j \in idAlloc' <=> fIds'[j] # NoVnode
    BY <1>1, ConstantsAssumption DEF IInv, IdsExact
  <2>2. ASSUME NEW j \in idAlloc'
        PROVE  vn'[fIds'[j]].kind # "none" /\ vn'[fIds'[j]].id = j
    <3>1. CASE j = i
      BY <1>1, <1>6, <3>1
    <3>2. CASE j # i
      BY <1>1, <1>2, <1>6, <3>2 DEF IInv, IdsExact, TypeOK, Alive
    <3> QED BY <3>1, <3>2
  <2>3. ASSUME NEW x \in Vnode, vn'[x].kind # "none"
        PROVE  vn'[x].id \in Id /\ fIds'[vn'[x].id] = x
    <3>1. CASE x = v
      BY <1>1, <1>6, <3>1
    <3>2. CASE x # v
      BY <1>1, <1>3, <1>6, <2>3, <3>2, ConstantsAssumption
      DEF IInv, IdsExact, Alive
    <3> QED BY <3>1, <3>2
  <2> QED BY <2>1, <2>2, <2>3 DEF IdsExact, Alive
<1>10. VfsIdentity'
  BY <1>1, <1>4 DEF IInv, VfsIdentity, Cached
<1>11. OneLink'
  <2>1. \A e \in Vnode : fNodes[e] # {} => vn'[e].kind = "dir"
    BY <1>2, <1>6 DEF IInv, OneLink, IsDir
  <2> QED BY <1>1, <1>2, <2>1 DEF IInv, OneLink, IsDir, Linked
<1>12. Bookkeeping'
  <2>1. \A j \in Id : ~Cached(j)' => vfsRef'[j] = 0
    BY <1>4, ConstantsAssumption DEF IInv, Bookkeeping, Cached
  <2>2. \A x \in leaked' : ~Linked(x)'
    BY <1>1 DEF IInv, Bookkeeping, Linked
  <2> QED BY <1>1, <2>1, <2>2 DEF Bookkeeping
<1> QED BY <1>7, <1>8, <1>9, <1>10, <1>11, <1>12 DEF IInv

\* ShmfsVolume::GetVnode gives the VFS one reference and no second entry.
LEMMA GetVnodeStep ==
  ASSUME IInv, NEW i \in Id, GetVnode(i)
  PROVE  IInv' /\ phase' = phase
<1> DEFINE w == fIds[i]
<1>1. /\ w \in Vnode
      /\ Cached(i) => vfsNode[i] = w
      /\ Alive(w) /\ vn[w].id = i
  BY DEF GetVnode, IInv, TypeOK, IdsExact, VfsIdentity, Cached
<1>2. \A j \in Id : vfsNode[j] = w => j = i
  <2>1. \A j \in Id : vfsNode[j] = w => Cached(j)
    BY <1>1, ConstantsAssumption DEF Cached
  <2> QED BY <1>1, <2>1, VfsUnique
<1>3. /\ UNCHANGED <<vn, fNodes, fIds, idAlloc, fRootVnode, leaked, phase>>
      /\ vfsRemoved' = vfsRemoved
      /\ vfsRef' = [vfsRef EXCEPT ![i] = @ + 1]
      /\ vfsNode' = [vfsNode EXCEPT ![i] = IF Cached(i) THEN @ ELSE w]
      /\ fRef' = [x \in Vnode |-> IF ~Cached(i) /\ x = w
                                  THEN fRef[x] + 1 ELSE fRef[x]]
  BY DEF GetVnode, VfsGet
<1> HIDE DEF w
<1>4. /\ vfsNode'[i] = w
      /\ \A j \in Id \ {i} : vfsNode'[j] = vfsNode[j] /\ vfsRef'[j] = vfsRef[j]
  BY <1>1, <1>3 DEF IInv, TypeOK
<1>5. TypeOK'
  <2>1. vfsRef' \in [Id -> Nat]
    BY <1>3 DEF IInv, TypeOK
  <2>2. vfsNode' \in [Id -> Vnode \cup {NoVnode}]
    BY <1>1, <1>3 DEF IInv, TypeOK
  <2>3. fRef' \in [Vnode -> Nat]
    BY <1>3 DEF IInv, TypeOK
  <2> QED BY <1>3, <2>1, <2>2, <2>3 DEF IInv, TypeOK
<1>6. RefsExact'
  <2> SUFFICES ASSUME NEW x \in Vnode
               PROVE  /\ fRef'[x] = One(Linked(x)') + Others(x)'
                      /\ vn'[x].kind # "none" <=> fRef'[x] > 0
    BY DEF RefsExact, Alive
  <2>1. /\ Linked(x)' <=> Linked(x)
        /\ fRef[x] = One(Linked(x)) + Others(x)
        /\ vn'[x].kind # "none" <=> fRef[x] > 0
        /\ fRef[x] \in Nat
    BY <1>3 DEF Linked, IInv, RefsExact, Alive, TypeOK
  <2>2. CASE ~Cached(i) /\ x = w
    <3>1. ~InVfs(x) /\ \E j \in Id : vfsNode'[j] = x
      BY <1>1, <1>2, <1>4, <2>2, ConstantsAssumption DEF InVfs, Cached
    <3>2. Others(x)' = Others(x) + 1
      BY <1>3, <3>1 DEF Others, InVfs, One
    <3>3. fRef'[x] = fRef[x] + 1 /\ fRef[x] > 0
      BY <1>1, <1>3, <2>2 DEF IInv, RefsExact
    <3>4. One(Linked(x)') = One(Linked(x)) /\ Others(x) \in Nat
          /\ One(Linked(x)) \in Nat
      BY <2>1 DEF One, Others
    <3> QED BY <2>1, <3>2, <3>3, <3>4
  <2>3. CASE ~(~Cached(i) /\ x = w)
    <3>1. (\E j \in Id : vfsNode'[j] = x) <=> InVfs(x)
      BY <1>1, <1>4, <2>3, ConstantsAssumption DEF InVfs, Cached
    <3>2. One(Linked(x)') + Others(x)' = One(Linked(x)) + Others(x)
      BY <1>3, <2>1, <3>1 DEF Others, InVfs, One
    <3> QED BY <1>3, <2>1, <2>3, <3>2
  <2> QED BY <2>2, <2>3
<1>7. IdsExact'
  BY <1>3 DEF IInv, IdsExact, Alive
<1>8. VfsIdentity'
  BY <1>3, <1>4 DEF IInv, VfsIdentity, Cached, w
<1>9. OneLink'
  BY <1>3 DEF IInv, OneLink, IsDir
<1>10. Bookkeeping'
  <2>1. \A j \in Id : ~Cached(j)' => vfsRef'[j] = 0
    BY <1>1, <1>4, ConstantsAssumption DEF IInv, Bookkeeping, Cached
  <2> QED BY <1>3, <2>1 DEF IInv, Bookkeeping, Linked
<1> QED BY <1>3, <1>5, <1>6, <1>7, <1>8, <1>9, <1>10 DEF IInv

LEMMA LookupStep ==
  ASSUME IInv, NEW d \in Vnode,
         (\E n \in Name : Lookup(d, n)) \/ LookupDot(d) \/ LookupDotDot(d)
  PROVE  \E i \in Id : GetVnode(i)
<1>1. \A v \in Vnode : Alive(v) => vn[v].id \in Id
  BY DEF IInv, IdsExact
<1>2. CASE \E n \in Name : Lookup(d, n)
  <2>1. PICK v \in fNodes[d] : GetVnode(vn[v].id)
    BY <1>2 DEF Lookup, Find
  <2>2. v \in Vnode /\ Linked(v)
    BY DEF IInv, TypeOK, Linked
  <2> QED BY <2>1, <2>2, OwnedAlive
<1>3. CASE LookupDot(d)
  <2>1. GetVnode(vn[d].id) /\ Alive(d)
    BY <1>3 DEF LookupDot, CalledDir, IsDir, Alive
  <2>2. vn[d].id \in Id
    BY <1>1, <2>1
  <2> QED BY <2>1, <2>2
<1>4. CASE LookupDotDot(d)
  <2>1. vn[d].parent \in Vnode
    BY <1>4 DEF LookupDotDot, IInv, TypeOK, Fields
  <2>2. ParentId(d) \subseteq Id
    BY <1>1, <2>1 DEF ParentId
  <2> QED BY <1>4, <2>2 DEF LookupDotDot
<1> QED BY <1>2, <1>3, <1>4

\* The VFS changes only its own reference counts.
LEMMA VfsOnlyStep ==
  ASSUME IInv, UNCHANGED <<vn, fRef, fNodes, fIds, idAlloc, fRootVnode, vfsNode,
                           vfsRemoved, leaked>>,
         vfsRef' \in [Id -> Nat], \A i \in Id : ~Cached(i) => vfsRef'[i] = 0,
         phase' = phase \/ (phase = "mounted" /\ phase' = "unmounting")
                        \/ (phase = "idle" /\ phase' = "aborted")
  PROVE  IInv'
<1>1. TypeOK'
  BY DEF IInv, TypeOK, Phases
<1>2. RefsExact'
  <2>1. ASSUME NEW x \in Vnode
        PROVE  One(Linked(x)') = One(Linked(x)) /\ Others(x)' = Others(x)
    BY DEF One, Linked, Others
  <2> QED BY <2>1 DEF IInv, RefsExact, Alive
<1>3. IdsExact' /\ VfsIdentity' /\ OneLink'
  BY DEF IInv, IdsExact, VfsIdentity, OneLink, Alive, Cached, IsDir
<1>4. Bookkeeping'
  BY DEF IInv, Bookkeeping, Cached, Linked
<1> QED BY <1>1, <1>2, <1>3, <1>4 DEF IInv

LEMMA VfsPutStep ==
  ASSUME IInv, NEW i \in Id, VfsPut(i)
  PROVE  IInv' /\ phase' = phase
<1>1. vfsRef[i] \in Nat /\ vfsRef[i] > 0 /\ Cached(i)
  BY DEF VfsPut, IInv, TypeOK, Bookkeeping
<1>2. CASE vfsRef[i] = 1 /\ vfsRemoved[i]
  BY <1>1, <1>2, DropStep DEF VfsPut
<1>3. CASE ~(vfsRef[i] = 1 /\ vfsRemoved[i])
  <2>1. vfsRef' = [vfsRef EXCEPT ![i] = @ - 1]
    BY <1>3 DEF VfsPut
  <2>2. vfsRef' \in [Id -> Nat] /\ \A j \in Id : ~Cached(j) => vfsRef'[j] = 0
    BY <1>1, <2>1 DEF IInv, TypeOK, Bookkeeping
  <2> QED BY <1>3, <2>2, VfsOnlyStep DEF VfsPut
<1> QED BY <1>2, <1>3

-----------------------------------------------------------------------------
(* The theorems.                                                           *)

LEMMA InitIInv == Init => IInv
<1> SUFFICES ASSUME Init PROVE IInv
  OBVIOUS
<1>1. TypeOK
  <2>1. Freed \in Fields
    BY DEF Freed, Fields
  <2> QED BY <2>1 DEF Init, TypeOK, Phases
<1>2. RefsExact
  <2>1. ASSUME NEW x \in Vnode
        PROVE  fRef[x] = 0 /\ ~Linked(x) /\ Others(x) = 0 /\ ~Alive(x)
    BY ConstantsAssumption DEF Init, Linked, Others, One, Alive, Freed
  <2> QED BY <2>1 DEF RefsExact, One
<1>3. IdsExact /\ VfsIdentity /\ OneLink /\ Bookkeeping
  BY ConstantsAssumption
  DEF Init, IdsExact, VfsIdentity, OneLink, Bookkeeping, Alive, Cached, Freed
<1> QED BY <1>1, <1>2, <1>3 DEF IInv

LEMMA MountFailsStep ==
  ASSUME IInv, NEW v \in Vnode, NEW i \in Id, MountGetVnodeFails(v, i)
  PROVE  IInv'
<1>1. phase = "idle" /\ phase' = "aborted"
  BY DEF MountGetVnodeFails, FreeIds
<1>2. vfsRef' \in [Id -> Nat] /\ \A j \in Id : ~Cached(j) => vfsRef'[j] = 0
  BY DEF MountGetVnodeFails, vfsVars, IInv, TypeOK, Bookkeeping
<1> QED BY <1>1, <1>2, VfsOnlyStep DEF MountGetVnodeFails, vfsVars

LEMMA BeginUnmountStep ==
  ASSUME IInv, BeginUnmount
  PROVE  IInv' /\ phase' = "unmounting"
<1>1. vfsRef' \in [Id -> Nat] /\ \A j \in Id : ~Cached(j) => vfsRef'[j] = 0
  BY DEF BeginUnmount
<1> QED BY <1>1, VfsOnlyStep DEF BeginUnmount

\* The volume takes no step after the abort(), and none but the mount before
\* it is mounted.
LEMMA NotAborted ==
  ASSUME Next
  PROVE  /\ phase # "aborted"
         /\ phase = "idle" => \E v \in Vnode, i \in Id :
                                Mount(v, i) \/ MountGetVnodeFails(v, i)
<1>1. ASSUME NEW d, CalledDir(d)
      PROVE  phase = "mounted"
  BY <1>1 DEF CalledDir, Called
<1>2. ASSUME NEW v \in Vnode, NEW i \in Id, Mount(v, i) \/ MountGetVnodeFails(v, i)
      PROVE  phase = "idle"
  BY <1>2 DEF Mount, MountGetVnodeFails
<1>3. CASE BeginUnmount \/ Unmount
  BY <1>3 DEF BeginUnmount, Unmount
<1>4. ASSUME NEW i \in Id, GetVnode(i) \/ VfsPut(i) \/ VfsEvict(i)
      PROVE  phase \in {"mounted", "unmounting"}
  BY <1>4 DEF GetVnode, VfsPut, VfsEvict
<1>5. ASSUME NEW d \in Vnode, LookupDot(d) \/ LookupDotDot(d)
      PROVE  phase = "mounted"
  BY <1>1, <1>5 DEF LookupDot, LookupDotDot
<1>6. ASSUME NEW d \in Vnode, NEW n \in Name,
             Lookup(d, n) \/ Unlink(d, n) \/ RemoveDir(d, n)
      PROVE  phase = "mounted"
  BY <1>1, <1>6 DEF Lookup, Unlink, RemoveDir
<1>7. ASSUME NEW d \in Vnode, NEW v \in Vnode, NEW n \in Name, NEW i \in Id,
             \/ Create(d, n, v, i) \/ CreateInitFails(d, n, v, i)
             \/ CreateDir(d, n, v, i) \/ CreateSymlink(d, n, v, i)
      PROVE  phase = "mounted"
  <2>1. \E k : NewVnode(d, n, k, v, i)
    BY <1>7 DEF Create, CreateInitFails, CreateDir, CreateSymlink
  <2> QED BY <1>1, <2>1 DEF NewVnode
<1>8. ASSUME NEW d \in Vnode, NEW e \in Vnode, NEW n \in Name, NEW m \in Name,
             NEW setName \in BOOLEAN, Rename(d, n, e, m, setName)
      PROVE  phase = "mounted"
  BY <1>1, <1>8 DEF Rename
<1> QED BY <1>2, <1>3, <1>4, <1>5, <1>6, <1>7, <1>8 DEF Next

\* The invariant is inductive, and no step of a volume that is mounted, or
\* being unmounted, reaches the abort() of the number pool.
LEMMA NextIInv ==
  ASSUME IInv, [Next]_vars
  PROVE  IInv' /\ (phase' = "aborted" => phase \in {"idle", "aborted"})
<1>1. CASE UNCHANGED vars
  <2>1. vfsRef' \in [Id -> Nat] /\ \A i \in Id : ~Cached(i) => vfsRef'[i] = 0
    BY <1>1 DEF vars, vfsVars, IInv, TypeOK, Bookkeeping
  <2> QED BY <1>1, <2>1, VfsOnlyStep DEF vars, vfsVars
<1>2. ASSUME NEW v \in Vnode, NEW i \in Id, Mount(v, i)
      PROVE  IInv' /\ phase' = "mounted"
  BY <1>2, MountStep DEF Mount
<1>3. ASSUME NEW v \in Vnode, NEW i \in Id, MountGetVnodeFails(v, i)
      PROVE  IInv' /\ phase = "idle"
  BY <1>3, MountFailsStep DEF MountGetVnodeFails
<1>4. CASE BeginUnmount
  BY <1>4, BeginUnmountStep
<1>5. CASE Unmount
  BY <1>5, UnmountStep
<1>6. ASSUME NEW i \in Id, GetVnode(i)
      PROVE  IInv' /\ phase' = phase
  BY <1>6, GetVnodeStep
<1>7. ASSUME NEW i \in Id, VfsPut(i)
      PROVE  IInv' /\ phase' = phase
  BY <1>7, VfsPutStep
<1>8. ASSUME NEW i \in Id, VfsEvict(i)
      PROVE  IInv' /\ phase' = phase
  BY <1>8, DropStep DEF VfsEvict
<1>9. ASSUME NEW d \in Vnode,
             LookupDot(d) \/ LookupDotDot(d) \/ \E n \in Name : Lookup(d, n)
      PROVE  IInv' /\ phase' = phase
  BY <1>6, <1>9, LookupStep
<1>10. ASSUME NEW d \in Vnode, NEW n \in Name, Unlink(d, n) \/ RemoveDir(d, n)
       PROVE  IInv' /\ phase' = phase
  BY <1>10, EntryStep
<1>11. ASSUME NEW d \in Vnode, NEW v \in Vnode, NEW n \in Name, NEW i \in Id,
              \/ Create(d, n, v, i) \/ CreateInitFails(d, n, v, i)
              \/ CreateDir(d, n, v, i) \/ CreateSymlink(d, n, v, i)
       PROVE  IInv' /\ phase' = phase
  BY <1>11, CreateStep
<1>12. ASSUME NEW d \in Vnode, NEW e \in Vnode, NEW n \in Name, NEW m \in Name,
              NEW setName \in BOOLEAN, Rename(d, n, e, m, setName)
       PROVE  IInv' /\ phase' = phase
  BY <1>12, RenameStep
<1> QED
  BY <1>1, <1>2, <1>3, <1>4, <1>5, <1>6, <1>7, <1>8, <1>9, <1>10, <1>11, <1>12
  DEF Next

\* Every reachable state satisfies the inductive invariant.
THEOREM Invariance == Spec => []IInv
<1>1. Init => IInv
  BY InitIInv
<1>2. IInv /\ [Next]_vars => IInv'
  BY NextIInv
<1> QED BY <1>1, <1>2, PTL DEF Spec

\* The fields, trees, maps and reference counts keep their types; in
\* particular no reference count ever becomes negative.
THEOREM TypeCorrect == Spec => []TypeOK
<1>1. IInv => TypeOK
  BY DEF IInv
<1> QED BY <1>1, Invariance, PTL

\* For any number of vnodes and any interleaving of operations, evictions and
\* failures, every reference count is the number of the vnode's owners, so
\* that nothing a directory or the VFS points to is ever freed.
THEOREM ReferencesExact == Spec => []RefsExact
<1>1. IInv => RefsExact
  BY DEF IInv
<1> QED BY <1>1, Invariance, PTL

\* The id map, the number pool and the fId fields of the vnodes always agree.
THEOREM NumbersExact == Spec => []IdsExact
<1>1. IInv => IdsExact
  BY DEF IInv
<1> QED BY <1>1, Invariance, PTL

\* However Unlink, eviction and creation interleave, the VFS knows no number
\* under which another vnode is registered.
THEOREM IdentityKept == Spec => []VfsIdentity
<1>1. IInv => VfsIdentity
  BY DEF IInv
<1> QED BY <1>1, Invariance, PTL

\* A vnode is never listed twice, by two directories or in a freed one.
THEOREM LinkedOnce == Spec => []OneLink
<1>1. IInv => OneLink
  BY DEF IInv
<1> QED BY <1>1, Invariance, PTL

\* Only a mount that fails can reach the abort() of ExternalAllocator::Free;
\* no operation, eviction or unmount of a mounted volume frees a number twice.
THEOREM MountedNeverAborts == Spec => AbortOnlyInMount
<1>1. IInv /\ [Next]_vars => [phase' = "aborted" => phase = "idle"]_vars
  <2> SUFFICES ASSUME IInv, Next, phase' = "aborted", vars' # vars
               PROVE  phase = "idle"
    BY DEF AbortOnlyInMount
  <2>1. phase \in {"idle", "aborted"}
    BY NextIInv
  <2>2. phase # "aborted"
    BY NotAborted
  <2> QED BY <2>1, <2>2
<1> QED BY <1>1, Invariance, PTL DEF Spec, AbortOnlyInMount

\* With enough memory the volume never reaches the abort() at all.
THEOREM NeverAbortsWithMemory ==
  ASSUME ~MemoryMayFail
  PROVE  Spec => []NeverAborts
<1>1. Init => NeverAborts
  BY DEF Init, NeverAborts
<1>2. IInv /\ NeverAborts /\ [Next]_vars => NeverAborts'
  <2> SUFFICES ASSUME IInv, phase # "aborted", [Next]_vars
               PROVE  phase' # "aborted"
    BY DEF NeverAborts
  <2>1. CASE phase = "idle" /\ Next
    <3>1. \E v \in Vnode, i \in Id : Mount(v, i) \/ MountGetVnodeFails(v, i)
      BY <2>1, NotAborted
    <3>2. \A v, i : ~MountGetVnodeFails(v, i)
      BY DEF MountGetVnodeFails
    <3> QED BY <3>1, <3>2 DEF Mount
  <2>2. CASE phase # "idle" /\ Next
    BY <2>2, NextIInv
  <2>3. CASE UNCHANGED vars
    BY <2>3 DEF vars
  <2> QED BY <2>1, <2>2, <2>3
<1> QED BY <1>1, <1>2, Invariance, PTL DEF Spec

-----------------------------------------------------------------------------
(* What a step does to the trees.                                          *)

\* The key of AVLTree is unique in a tree.
NamesUnique ==
  \A d \in Vnode : \A a, b \in fNodes[d] : vn[a].name = vn[b].name => a = b

\* The entries of gone, and the trees of deleted directories, are taken out.
Prunes(gone) ==
  /\ \A d \in Vnode : \/ fNodes'[d] = fNodes[d] \ gone
                      \/ fNodes'[d] = {} /\ ~Alive(d)'
  /\ \A d \in Vnode : \A x \in fNodes'[d] : vn'[x] = vn[x]
  /\ \A x \in gone : IsDir(x) => fNodes[x] = {}
  /\ leaked' = leaked \/ MemoryMayFail

\* v, which no tree lists, is put into d.
Adds(d, v) ==
  /\ \A k \in Vnode : v \notin fNodes[k]
  /\ \A k \in Vnode : fNodes'[k] = IF k = d THEN fNodes[k] \cup {v} ELSE fNodes[k]
  /\ \A x \in Vnode \ {v} : vn'[x] = vn[x]
  /\ \A x \in fNodes[d] : vn[x].name # vn'[v].name
  /\ leaked' = leaked

\* v is taken out of d, and out makes room for it in e; inserted says whether
\* Insert finds its name free there.
Moves(d, e, v, out, inserted) ==
  /\ v \in fNodes[d]
  /\ \A x \in out : fNodes[x] = {}
  /\ \A k \in Vnode :
       \/ fNodes'[k] = IF k = e /\ inserted THEN (fNodes[k] \ (out \cup {v})) \cup {v}
                       ELSE fNodes[k] \ (out \cup {v})
       \/ k # e /\ fNodes'[k] = {} /\ ~Alive(k)'
  /\ \A k \in Vnode : \A x \in fNodes'[k] : x # v => vn'[x] = vn[x]
  /\ inserted => \A x \in fNodes'[e] \ {v} : vn'[x].name # vn'[v].name
  /\ leaked' = IF inserted THEN leaked ELSE leaked \cup {v}
  /\ inserted \/ MemoryMayFail

StepForm ==
  \/ \E gone \in SUBSET Vnode : Prunes(gone)
  \/ \E d, v \in Vnode : Adds(d, v)
  \/ \E d, e, v \in Vnode : \E out \in SUBSET Vnode : \E inserted \in BOOLEAN :
       Moves(d, e, v, out, inserted)

\* A release deletes directories with their entries, and frees no entry of a
\* directory that stays.
LEMMA ReleaseKeeps ==
  ASSUME IInv', NEW v \in Vnode, NEW n, NEW nodes \in [Vnode -> SUBSET Vnode],
         NEW vs, NEW next, Release(v, n, nodes, vs, next)
  PROVE  /\ \A d \in Vnode :
              \/ fNodes'[d] = nodes[d] /\ d \notin Doomed(v, n, nodes)
              \/ fNodes'[d] = {} /\ d \in Doomed(v, n, nodes) /\ ~Alive(d)'
         /\ \A d \in Vnode : \A x \in fNodes'[d] : vn'[x] = vs[x]
<1>1. PICK D : D = Doomed(v, n, nodes)
  OBVIOUS
<1>2. D \subseteq Vnode
  BY <1>1, DoomedStart
<1>3. /\ vn' = [x \in Vnode |-> IF x \in D THEN Freed ELSE vs[x]]
      /\ fNodes' = [x \in Vnode |-> IF x \in D THEN {} ELSE nodes[x]]
  BY <1>1 DEF Release
<1>4. \A d \in D : ~Alive(d)'
  BY <1>2, <1>3 DEF Alive, Freed
<1>5. ASSUME NEW d \in Vnode, NEW x \in fNodes'[d]
      PROVE  vn'[x] = vs[x]
  <2>1. x \in Vnode
    BY <1>3, <1>5
  <2>2. Linked(x)'
    BY <1>5 DEF Linked
  <2>3. Alive(x)'
    BY <2>1, <2>2 DEF IInv, RefsExact, One, Others
  <2> QED BY <1>3, <1>4, <2>1, <2>3
<1> QED BY <1>1, <1>3, <1>4, <1>5

LEMMA ReleasePrunes ==
  ASSUME IInv', NEW v \in Vnode, NEW n, NEW nodes \in [Vnode -> SUBSET Vnode],
         NEW next, Release(v, n, nodes, vn, next), NEW gone,
         \A d \in Vnode : nodes[d] = fNodes[d] \ gone,
         \A x \in gone : IsDir(x) => fNodes[x] = {},
         leaked' = leaked
  PROVE  Prunes(gone)
<1>1. /\ \A d \in Vnode :
           \/ fNodes'[d] = nodes[d] /\ d \notin Doomed(v, n, nodes)
           \/ fNodes'[d] = {} /\ d \in Doomed(v, n, nodes) /\ ~Alive(d)'
      /\ \A d \in Vnode : \A x \in fNodes'[d] : vn'[x] = vn[x]
  BY ReleaseKeeps
<1> QED BY <1>1 DEF Prunes

\* A vnode of the VFS, or the root, is released.
LEMMA DropForm ==
  ASSUME IInv, IInv', NEW v \in Vnode, NEW n, NEW next,
         Release(v, n, fNodes, vn, next), leaked' = leaked
  PROVE  StepForm
<1>1. fNodes \in [Vnode -> SUBSET Vnode] /\ \A d \in Vnode : fNodes[d] = fNodes[d] \ {}
  BY DEF IInv, TypeOK
<1>2. Prunes({})
  BY <1>1, ReleasePrunes
<1> QED BY <1>2 DEF StepForm

\* A step that leaves the trees and their entries as they are.
LEMMA QuietForm ==
  ASSUME fNodes' = fNodes,
         \A d \in Vnode : \A x \in fNodes[d] : vn'[x] = vn[x],
         leaked' = leaked \/ MemoryMayFail
  PROVE  StepForm
<1>1. Prunes({})
  BY DEF Prunes
<1> QED BY <1>1 DEF StepForm

\* Create, CreateDir and CreateSymlink add an entry.
LEMMA CreateAdds ==
  ASSUME IInv, NEW d \in Vnode, NEW n \in Name, NEW v \in Vnode, NEW i \in Id,
         \/ Create(d, n, v, i) \/ CreateDir(d, n, v, i) \/ CreateSymlink(d, n, v, i)
  PROVE  /\ Adds(d, v) /\ vn'[v].name = n
         /\ ~Alive(v) /\ CalledDir(d) /\ fRootVnode' = fRootVnode
<1>1. PICK k \in Kinds : NewVnode(d, n, k, v, i)
  BY DEF Create, CreateDir, CreateSymlink, Kinds
<1>2. /\ Find(d, n) = {} /\ ~Alive(v) /\ CalledDir(d) /\ fRootVnode' = fRootVnode
      /\ vn' = [vn EXCEPT ![v] = [kind |-> k, id |-> i, name |-> n,
                                  parent |-> d]]
  BY <1>1 DEF NewVnode, Register
<1>3. /\ \A x \in Vnode \ {v} : vn'[x] = vn[x]
      /\ vn'[v].name = n
  BY <1>2 DEF IInv, TypeOK
<1>4. \A x \in Vnode : v \notin fNodes[x]
  BY <1>2, DeadUnowned DEF Linked
<1>5. \A x \in Vnode : fNodes[x] \subseteq Vnode
  BY DEF IInv, TypeOK
<1>6. Enter(d, v)
  BY DEF Create, CreateDir, CreateSymlink
<1>7. \A x \in fNodes[d] : vn[x].name # n /\ vn'[x].name # vn'[v].name
  BY <1>2, <1>3, <1>4, <1>5 DEF Find
<1>8. fNodes' = [fNodes EXCEPT ![d] = @ \cup {v}]
  BY <1>6, <1>7 DEF Enter, Insert
<1>9. \A x \in Vnode : fNodes'[x] = IF x = d THEN fNodes[x] \cup {v} ELSE fNodes[x]
  BY <1>8 DEF IInv, TypeOK
<1>10. leaked' = leaked
  BY <1>6, <1>9 DEF Enter, KeepOrLose
<1>11. Adds(d, v)
  BY <1>3, <1>4, <1>7, <1>9, <1>10 DEF Adds
<1> QED BY <1>2, <1>3, <1>11

LEMMA CreateForm ==
  ASSUME IInv, NEW d \in Vnode, NEW n \in Name, NEW v \in Vnode, NEW i \in Id,
         \/ Create(d, n, v, i) \/ CreateInitFails(d, n, v, i)
         \/ CreateDir(d, n, v, i) \/ CreateSymlink(d, n, v, i)
  PROVE  StepForm
<1>1. CASE CreateInitFails(d, n, v, i)
  <2>1. /\ fNodes' = fNodes /\ MemoryMayFail /\ ~Alive(v)
        /\ \A x \in Vnode \ {v} : vn'[x] = vn[x]
    BY <1>1 DEF CreateInitFails, NewVnode, Register, IInv, TypeOK
  <2>2. \A x \in Vnode : fNodes[x] \subseteq Vnode /\ v \notin fNodes[x]
    BY <2>1, DeadUnowned DEF Linked, IInv, TypeOK
  <2> QED BY <2>1, <2>2, QuietForm
<1>2. CASE ~CreateInitFails(d, n, v, i)
  <2>1. Adds(d, v)
    BY <1>2, CreateAdds
  <2> QED BY <2>1 DEF StepForm
<1> QED BY <1>1, <1>2

\* Unlink and RemoveDir take an entry out.
LEMMA EntryPrunes ==
  ASSUME IInv, IInv', NEW d \in Vnode, NEW n \in Name,
         Unlink(d, n) \/ RemoveDir(d, n)
  PROVE  \E v \in Find(d, n), nodes \in [Vnode -> SUBSET Vnode] :
           /\ Prunes({v})
           /\ UnlinkVnode(v, nodes, vn) \/ RemoveDirVnode(v, nodes, vn)
           /\ fRootVnode' = fRootVnode
<1>1. PICK v \in Find(d, n) :
        /\ \/ UnlinkVnode(v, RemoveNode(fNodes, d, v), vn)
           \/ RemoveDirVnode(v, RemoveNode(fNodes, d, v), vn)
        /\ IsDir(v) => fNodes[v] = {}
        /\ leaked' = leaked
        /\ fRootVnode' = fRootVnode
  BY DEF Unlink, RemoveDir
<1>2. v \in fNodes[d] /\ v \in Vnode
  BY DEF Find, IInv, TypeOK
<1>3. PICK nodes : nodes = RemoveNode(fNodes, d, v)
  OBVIOUS
<1>4. /\ nodes \in [Vnode -> SUBSET Vnode]
      /\ \A x \in Vnode : nodes[x] = fNodes[x] \ {v}
  <2>1. nodes = [fNodes EXCEPT ![d] = @ \ {v}] /\ fNodes \in [Vnode -> SUBSET Vnode]
    BY <1>3 DEF RemoveNode, IInv, TypeOK
  <2>2. \A x \in Vnode : x # d => v \notin fNodes[x]
    BY <1>2 DEF IInv, OneLink
  <2> QED BY <1>2, <2>1, <2>2
<1>5. \E c \in {1, 2} : Release(v, c, nodes, vn, phase)
  BY <1>1, <1>3 DEF UnlinkVnode, RemoveDirVnode
<1>6. Prunes({v})
  BY <1>1, <1>2, <1>4, <1>5, ReleasePrunes
<1>7. UnlinkVnode(v, nodes, vn) \/ RemoveDirVnode(v, nodes, vn)
  BY <1>1, <1>3
<1> QED BY <1>1, <1>4, <1>6, <1>7

LEMMA EntryForm ==
  ASSUME IInv, IInv', NEW d \in Vnode, NEW n \in Name,
         Unlink(d, n) \/ RemoveDir(d, n)
  PROVE  StepForm
<1>1. PICK v \in Find(d, n) : Prunes({v})
  BY EntryPrunes
<1>2. {v} \in SUBSET Vnode
  BY DEF Find, IInv, TypeOK
<1> QED BY <1>1, <1>2 DEF StepForm

\* The fields after SetName and the move of v from d to e.
Renaming(v, m, setName) ==
  [vn EXCEPT ![v].name = IF setName THEN m ELSE @]

\* nodes are the trees without out and with v in e only, if it is inserted.
Placed(nodes, vs, e, v, out, inserted) ==
  /\ \A k \in Vnode : nodes[k] =
       IF k = e /\ inserted THEN (fNodes[k] \ (out \cup {v})) \cup {v}
       ELSE fNodes[k] \ (out \cup {v})
  /\ inserted => \A x \in nodes[e] \ {v} : vs[x].name # vs[v].name
  /\ inserted \/ MemoryMayFail

\* Rename is about to move v from the trees base, from which out is gone
\* already, and where m is the name of no entry of e but perhaps v; it makes
\* nodes of them.
Moving(d, e, v, m, out, base, setName, vs, nodes) ==
  /\ v \in fNodes[d]
  /\ base \in [Vnode -> SUBSET Vnode]
  /\ \A k \in Vnode : base[k] = fNodes[k] \ out
  /\ \A x \in base[e] : vn[x].name = m => x = v
  /\ setName \in BOOLEAN /\ (setName \/ MemoryMayFail)
  /\ vs = Renaming(v, m, setName)
  /\ nodes = Moved(base, vs, d, e, v)

LEMMA MovedParts ==
  ASSUME IInv, NEW d \in Vnode, NEW e \in Vnode, NEW v, NEW m, NEW out, NEW base,
         NEW setName, NEW vs, NEW nodes,
         Moving(d, e, v, m, out, base, setName, vs, nodes)
  PROVE  /\ nodes \in [Vnode -> SUBSET Vnode]
         /\ \A x \in Vnode \ {v} : vs[x] = vn[x]
         /\ \E inserted \in BOOLEAN : Placed(nodes, vs, e, v, out, inserted)
<1> USE DEF Moving
<1>1. /\ v \in Vnode /\ vn \in [Vnode -> Fields]
      /\ \A k \in Vnode : fNodes[k] \subseteq Vnode
      /\ \A k \in Vnode : v \in fNodes[k] => k = d
  BY DEF IInv, TypeOK, OneLink
<1>2. /\ setName => vs[v].name = m
      /\ \A x \in Vnode \ {v} : vs[x] = vn[x]
  BY <1>1 DEF Fields, Renaming
<1>3. PICK rest : rest = RemoveNode(base, d, v)
  OBVIOUS
<1>4. /\ rest \in [Vnode -> SUBSET Vnode]
      /\ \A k \in Vnode : rest[k] = fNodes[k] \ (out \cup {v})
  <2>1. \A k \in Vnode : rest[k] = IF k = d THEN base[k] \ {v} ELSE base[k]
    BY <1>3 DEF RemoveNode
  <2>2. rest \in [Vnode -> SUBSET Vnode]
    BY <1>3 DEF RemoveNode
  <2> QED BY <1>1, <2>1, <2>2
<1>6. CASE \E x \in rest[e] : vs[x].name = vs[v].name
  <2>1. nodes = rest
    BY <1>3, <1>6 DEF Moved, Insert
  <2>2. ~setName
    <3>1. PICK x \in rest[e] : vs[x].name = vs[v].name
      BY <1>6
    <3>2. x \in base[e] /\ x # v /\ x \in Vnode
      BY <1>1, <1>4
    <3> QED BY <1>2, <3>1, <3>2
  <2>3. \A k \in Vnode : nodes[k] = IF k = e /\ FALSE
                                   THEN (fNodes[k] \ (out \cup {v})) \cup {v}
                                   ELSE fNodes[k] \ (out \cup {v})
    BY <1>4, <2>1
  <2>4. Placed(nodes, vs, e, v, out, FALSE)
    BY <2>2, <2>3 DEF Placed
  <2> QED BY <1>2, <1>4, <2>1, <2>4
<1>7. CASE ~\E x \in rest[e] : vs[x].name = vs[v].name
  <2>1. nodes = [rest EXCEPT ![e] = @ \cup {v}]
    BY <1>3, <1>7 DEF Moved, Insert
  <2>2. nodes \in [Vnode -> SUBSET Vnode]
    BY <1>1, <1>4, <2>1
  <2>3. \A k \in Vnode : nodes[k] = IF k = e /\ TRUE
                                   THEN (fNodes[k] \ (out \cup {v})) \cup {v}
                                   ELSE fNodes[k] \ (out \cup {v})
    BY <1>4, <2>1
  <2>4. \A x \in nodes[e] \ {v} : vs[x].name # vs[v].name
    BY <1>4, <1>7, <2>3
  <2>5. Placed(nodes, vs, e, v, out, TRUE)
    BY <2>3, <2>4 DEF Placed
  <2> QED BY <1>2, <2>2, <2>5
<1> QED BY <1>6, <1>7

\* Rename(d, n, e, m) moves v, and takes out what e lists under m.
Renames(d, n, e, m, v, out, inserted) ==
  /\ Moves(d, e, v, out, inserted)
  /\ vn[v].name = n
  /\ MemoryMayFail \/ vn'[v].name = m
  /\ out = Find(e, m)

LEMMA RenameParts ==
  ASSUME IInv, IInv', NamesUnique, NEW d \in Vnode, NEW e \in Vnode,
         NEW n \in Name, NEW m \in Name, NEW setName \in BOOLEAN,
         Rename(d, n, e, m, setName)
  PROVE  \E v \in Vnode : \E out \in SUBSET Vnode : \E inserted \in BOOLEAN :
           Renames(d, n, e, m, v, out, inserted)
<1>1. PICK v \in Find(d, n) :
        \/ /\ Find(e, m) = {}
           /\ vn' = Renaming(v, m, setName)
           /\ fNodes' = Moved(fNodes, Renaming(v, m, setName), d, e, v)
           /\ KeepOrLose(fNodes', e, v)
        \/ \E old \in Find(e, m) :
             LET nodes == Moved(RemoveNode(fNodes, e, old), Renaming(v, m, setName), d, e, v)
             IN  /\ fNodes[old] = {}
                 /\ RemoveEntry(old, nodes, Renaming(v, m, setName))
                 /\ KeepOrLose(nodes, e, v)
  BY DEF Rename, Renaming
<1>2. /\ v \in fNodes[d] /\ v \in Vnode /\ (setName \/ MemoryMayFail)
      /\ vn[v].name = n
  BY DEF Find, Rename, IInv, TypeOK
<1>3. PICK vs : vs = Renaming(v, m, setName)
  OBVIOUS
<1>4. MemoryMayFail \/ vs[v].name = m
  BY <1>2, <1>3 DEF Renaming, IInv, TypeOK, Fields
<1>5. CASE Find(e, m) = {}
  <2>1. PICK nodes : nodes = Moved(fNodes, vs, d, e, v)
    OBVIOUS
  <2>2. vn' = vs /\ fNodes' = nodes /\ KeepOrLose(nodes, e, v)
    BY <1>1, <1>3, <1>5, <2>1
  <2>3. /\ fNodes \in [Vnode -> SUBSET Vnode]
        /\ \A k \in Vnode : fNodes[k] = fNodes[k] \ {}
        /\ \A x \in fNodes[e] : vn[x].name = m => x = v
    BY <1>5 DEF IInv, TypeOK, Find
  <2> Moving(d, e, v, m, {}, fNodes, setName, vs, nodes)
    BY <1>2, <1>3, <2>1, <2>3 DEF Moving
  <2>4. /\ \A x \in Vnode \ {v} : vs[x] = vn[x]
        /\ nodes \in [Vnode -> SUBSET Vnode]
    BY MovedParts
  <2>5. PICK inserted \in BOOLEAN : Placed(nodes, vs, e, v, {}, inserted)
    BY MovedParts
  <2>6. leaked' = IF inserted THEN leaked ELSE leaked \cup {v}
    BY <2>2, <2>5 DEF KeepOrLose, Placed
  <2>7. Moves(d, e, v, {}, inserted)
    BY <1>2, <2>2, <2>4, <2>5, <2>6 DEF Moves, Placed
  <2>8. Renames(d, n, e, m, v, {}, inserted)
    BY <1>2, <1>5, <1>4, <2>2, <2>7 DEF Renames
  <2> QED BY <1>2, <2>8
<1>6. CASE Find(e, m) # {}
  <2>1. PICK old \in Find(e, m) :
          /\ fNodes[old] = {}
          /\ RemoveEntry(old, Moved(RemoveNode(fNodes, e, old), vs, d, e, v), vs)
          /\ KeepOrLose(Moved(RemoveNode(fNodes, e, old), vs, d, e, v), e, v)
    BY <1>1, <1>3, <1>6
  <2>2. old \in fNodes[e] /\ vn[old].name = m /\ old \in Vnode /\ old # e
    BY <2>1 DEF Find, IInv, TypeOK
  <2>3. PICK base : base = RemoveNode(fNodes, e, old)
    OBVIOUS
  <2>4. PICK nodes : nodes = Moved(base, vs, d, e, v)
    OBVIOUS
  <2>5. /\ base \in [Vnode -> SUBSET Vnode]
        /\ \A k \in Vnode : base[k] = fNodes[k] \ {old}
        /\ \A x \in base[e] : vn[x].name = m => x = v
    <3>1. base = [fNodes EXCEPT ![e] = @ \ {old}] /\ fNodes \in [Vnode -> SUBSET Vnode]
      BY <2>3 DEF RemoveNode, IInv, TypeOK
    <3>2. \A k \in Vnode : k # e => old \notin fNodes[k]
      BY <2>2 DEF IInv, OneLink
    <3>3. \A k \in Vnode : base[k] = fNodes[k] \ {old}
      BY <3>1, <3>2
    <3>4. \A x \in base[e] : vn[x].name = m => x = v
      BY <2>2, <3>3 DEF NamesUnique
    <3> QED BY <3>1, <3>3, <3>4
  <2> Moving(d, e, v, m, {old}, base, setName, vs, nodes)
    BY <1>2, <1>3, <2>4, <2>5 DEF Moving
  <2>6. /\ \A x \in Vnode \ {v} : vs[x] = vn[x]
        /\ nodes \in [Vnode -> SUBSET Vnode]
    BY MovedParts
  <2>7. PICK inserted \in BOOLEAN : Placed(nodes, vs, e, v, {old}, inserted)
    BY MovedParts
  <2>8. leaked' = IF inserted THEN leaked ELSE leaked \cup {v}
    BY <2>1, <2>3, <2>4, <2>7 DEF KeepOrLose, Placed
  <2>9. PICK c \in {1, 2} : Release(old, c, nodes, vs, phase)
    BY <2>1, <2>3, <2>4 DEF RemoveEntry, RemoveDirVnode, UnlinkVnode
  <2>10. Doomed(old, c, nodes) \subseteq {old}
    <3>1. nodes[old] = {}
      BY <2>1, <2>2, <2>7 DEF Placed
    <3>2. \A k \in {old} : \A x \in nodes[k] : fRef[x] = 1 => x \in {old}
      BY <3>1
    <3>3. old \in {old} /\ {old} \in SUBSET Vnode
      BY <2>2
    <3> QED BY <2>2, <3>2, <3>3, DoomedLeast, Zenon
  <2>11. /\ \A k \in Vnode :
              \/ fNodes'[k] = nodes[k] /\ k \notin Doomed(old, c, nodes)
              \/ fNodes'[k] = {} /\ k \in Doomed(old, c, nodes) /\ ~Alive(k)'
         /\ \A k \in Vnode : \A x \in fNodes'[k] : vn'[x] = vs[x]
    <3>1. nodes \in [Vnode -> SUBSET Vnode] /\ old \in Vnode
      BY <2>2, <2>6
    <3> QED BY <2>9, <3>1, ReleaseKeeps
  <2>12. \A k \in Vnode : \A x \in fNodes'[k] : vn'[x] = vs[x]
    BY <2>11
  <2>13. \A k \in Vnode : \/ fNodes'[k] = nodes[k]
                          \/ k # e /\ fNodes'[k] = {} /\ ~Alive(k)'
    BY <2>2, <2>10, <2>11, <2>12
  <2>14. fNodes'[e] = nodes[e]
    BY <2>2, <2>10, <2>11
  <2>15. \A k \in Vnode : \A x \in fNodes'[k] :
           x # v => vn'[x] = vn[x]
    <3>1. \A k \in Vnode : fNodes'[k] \subseteq Vnode
      BY <2>6, <2>13
    <3> QED BY <2>6, <2>12, <3>1
  <2>16. inserted => \A x \in fNodes'[e] \ {v} : vn'[x].name # vn'[v].name
    <3>1. inserted => v \in fNodes'[e]
      BY <2>7, <2>14 DEF Placed
    <3> QED BY <2>7, <2>12, <2>14, <3>1 DEF Placed
  <2>17. Moves(d, e, v, {old}, inserted)
    BY <1>2, <2>1, <2>7, <2>8, <2>13, <2>15, <2>16 DEF Moves, Placed
  <2>18. MemoryMayFail \/ vn'[v].name = m
    <3>1. ASSUME inserted PROVE vn'[v] = vs[v]
      BY <2>7, <2>12, <2>14, <3>1 DEF Placed
    <3> QED BY <1>4, <2>17, <3>1 DEF Moves
  <2>19. {old} = Find(e, m)
    BY <2>1 DEF Find, NamesUnique
  <2>20. Renames(d, n, e, m, v, {old}, inserted)
    BY <1>2, <2>17, <2>18, <2>19 DEF Renames
  <2> QED BY <1>2, <2>2, <2>20
<1> QED BY <1>5, <1>6

LEMMA RenameForm ==
  ASSUME IInv, IInv', NamesUnique, NEW d \in Vnode, NEW e \in Vnode,
         NEW n \in Name, NEW m \in Name, NEW setName \in BOOLEAN,
         Rename(d, n, e, m, setName)
  PROVE  StepForm
<1>1. PICK v \in Vnode, out \in SUBSET Vnode, inserted \in BOOLEAN :
        Renames(d, n, e, m, v, out, inserted)
  BY RenameParts
<1> QED BY <1>1 DEF StepForm, Renames

-----------------------------------------------------------------------------
LEMMA NextForm ==
  ASSUME IInv, IInv', NamesUnique, Next
  PROVE  StepForm
<1>1. ASSUME NEW v \in Vnode, NEW i \in Id, Mount(v, i) \/ MountGetVnodeFails(v, i)
      PROVE  StepForm
  <2>1. fNodes' = fNodes /\ leaked' = leaked
    BY <1>1 DEF Mount, MountGetVnodeFails
  <2>2. ~Alive(v) /\ \A x \in Vnode \ {v} : vn'[x] = vn[x]
    BY <1>1 DEF Mount, MountGetVnodeFails, Register, IInv, TypeOK
  <2>3. \A d \in Vnode : fNodes[d] \subseteq Vnode /\ v \notin fNodes[d]
    BY <2>2, DeadUnowned DEF Linked, IInv, TypeOK
  <2> QED BY <2>1, <2>2, <2>3, QuietForm
<1>2. CASE BeginUnmount
  BY <1>2, QuietForm DEF BeginUnmount
<1>3. CASE Unmount
  <2>1. fRootVnode \in Vnode
    BY <1>3 DEF Unmount, IInv, Bookkeeping
  <2> QED BY <1>3, <2>1, DropForm DEF Unmount
<1>4. ASSUME NEW i \in Id, GetVnode(i)
      PROVE  StepForm
  BY <1>4, QuietForm DEF GetVnode
<1>5. ASSUME NEW i \in Id, VfsPut(i) \/ VfsEvict(i)
      PROVE  StepForm
  <2>1. vfsRef[i] > 0 \/ Cached(i) => vfsNode[i] \in Vnode
    BY DEF IInv, TypeOK, Bookkeeping, Cached
  <2>2. CASE \E next : Release(vfsNode[i], 1, fNodes, vn, next)
    <3>1. Cached(i) /\ leaked' = leaked
      BY <1>5 DEF VfsPut, VfsEvict, IInv, TypeOK, Bookkeeping
    <3> QED BY <2>1, <2>2, <3>1, DropForm
  <2>3. CASE ~\E next : Release(vfsNode[i], 1, fNodes, vn, next)
    <3>1. fNodes' = fNodes /\ vn' = vn /\ leaked' = leaked
      BY <1>5, <2>3 DEF VfsPut, VfsEvict
    <3> QED BY <3>1, QuietForm
  <2> QED BY <2>2, <2>3
<1>6. ASSUME NEW d \in Vnode,
             LookupDot(d) \/ LookupDotDot(d) \/ \E n \in Name : Lookup(d, n)
      PROVE  StepForm
  <2>1. fNodes' = fNodes /\ vn' = vn /\ leaked' = leaked
    BY <1>6 DEF LookupDot, LookupDotDot, Lookup, GetVnode
  <2> QED BY <2>1, QuietForm
<1>7. ASSUME NEW d \in Vnode, NEW n \in Name, Unlink(d, n) \/ RemoveDir(d, n)
      PROVE  StepForm
  BY <1>7, EntryForm
<1>8. ASSUME NEW d \in Vnode, NEW v \in Vnode, NEW n \in Name, NEW i \in Id,
             \/ Create(d, n, v, i) \/ CreateInitFails(d, n, v, i)
             \/ CreateDir(d, n, v, i) \/ CreateSymlink(d, n, v, i)
      PROVE  StepForm
  BY <1>8, CreateForm
<1>9. ASSUME NEW d \in Vnode, NEW e \in Vnode, NEW n \in Name, NEW m \in Name,
             NEW setName \in BOOLEAN, Rename(d, n, e, m, setName)
      PROVE  StepForm
  BY <1>9, RenameForm
<1> QED BY <1>1, <1>2, <1>3, <1>4, <1>5, <1>6, <1>7, <1>8, <1>9 DEF Next

-----------------------------------------------------------------------------
(* Names.                                                                  *)

\* Whatever order entries come and go in, and though Rename ignores that
\* SetName failed, no directory lists two vnodes under one name: Find, which
\* looks for any, finds the only one.
THEOREM NamesStayUnique == Spec => []NamesUnique
<1>1. Init => NamesUnique
  BY DEF Init, NamesUnique
<1>2. ASSUME IInv, IInv', NamesUnique, Next
      PROVE  NamesUnique'
  <2> SUFFICES ASSUME NEW d \in Vnode, NEW a \in fNodes'[d], NEW b \in fNodes'[d],
                      vn'[a].name = vn'[b].name
               PROVE  a = b
    BY DEF NamesUnique
  <2>0. a \in Vnode /\ b \in Vnode
    BY <1>2 DEF IInv, TypeOK
  <2>1. ASSUME NEW gone \in SUBSET Vnode, Prunes(gone)
        PROVE  a = b
    <3>1. a \in fNodes[d] /\ b \in fNodes[d] /\ vn'[a] = vn[a] /\ vn'[b] = vn[b]
      BY <2>1 DEF Prunes
    <3> QED BY <1>2, <3>1 DEF NamesUnique
  <2>2. ASSUME NEW e \in Vnode, NEW v \in Vnode, Adds(e, v)
        PROVE  a = b
    <3>1. /\ a \in fNodes[d] \/ (d = e /\ a = v)
          /\ b \in fNodes[d] \/ (d = e /\ b = v)
          /\ a # v => vn'[a] = vn[a]
          /\ b # v => vn'[b] = vn[b]
          /\ \A x \in fNodes[e] : vn[x].name # vn'[v].name
          /\ \A k \in Vnode : v \notin fNodes[k]
      BY <2>0, <2>2, ZenonT(30) DEF Adds
    <3>2. CASE a # v /\ b # v
      BY <1>2, <3>1, <3>2 DEF NamesUnique
    <3>3. CASE a = v /\ b # v
      BY <3>1, <3>3
    <3>4. CASE a # v /\ b = v
      BY <3>1, <3>4
    <3> QED BY <3>2, <3>3, <3>4
  <2>3. ASSUME NEW c \in Vnode, NEW e \in Vnode, NEW v \in Vnode,
               NEW out \in SUBSET Vnode, NEW inserted \in BOOLEAN,
               Moves(c, e, v, out, inserted)
        PROVE  a = b
    <3>1. /\ \A x \in fNodes'[d] \ {v} : x \in fNodes[d] /\ vn'[x] = vn[x]
          /\ v \in fNodes'[d] => d = e /\ inserted
      BY <2>3 DEF Moves
    <3>2. CASE a # v /\ b # v
      BY <1>2, <3>1, <3>2 DEF NamesUnique
    <3>3. CASE a = v \/ b = v
      <4>1. d = e /\ inserted
        BY <3>1, <3>3
      <4>2. \A x \in fNodes'[e] \ {v} : vn'[x].name # vn'[v].name
        BY <2>3, <4>1 DEF Moves
      <4> QED BY <3>3, <4>1, <4>2
    <3> QED BY <3>2, <3>3
  <2> QED BY <1>2, <2>1, <2>2, <2>3, NextForm DEF StepForm
<1>3. NamesUnique /\ UNCHANGED vars => NamesUnique'
  BY DEF NamesUnique, vars
<1> QED BY <1>1, <1>2, <1>3, Invariance, PTL DEF Spec

-----------------------------------------------------------------------------
(* What is lost.                                                           *)

\* With enough memory no reference is lost: Create, CreateDir, CreateSymlink
\* and Rename have made sure that Insert finds the name free.
THEOREM NothingLeaksWithMemory ==
  ASSUME ~MemoryMayFail
  PROVE  Spec => []NothingLeaks
<1>1. Init => NothingLeaks
  BY DEF Init, NothingLeaks
<1>2. ASSUME IInv, IInv', NamesUnique, NothingLeaks, Next
      PROVE  NothingLeaks'
  <2>1. leaked' = leaked
    BY <1>2, NextForm DEF StepForm, Prunes, Adds, Moves
  <2> QED BY <1>2, <2>1 DEF NothingLeaks
<1>3. NothingLeaks /\ UNCHANGED vars => NothingLeaks'
  BY DEF NothingLeaks, vars
<1> QED BY <1>1, <1>2, <1>3, Invariance, NamesStayUnique, PTL DEF Spec

\* A directory goes out of the namespace when it is empty, with the deleted
\* directory that listed it, or because Rename lost it: no step cuts off a
\* subtree that could be reached.
THEOREM DirectoriesLeaveEmpty == Spec => DirsLeaveEmpty
<1>1. ASSUME IInv, IInv', NamesUnique, Next, NEW v \in Vnode,
             IsDir(v), Linked(v), ~Linked(v)'
      PROVE  \/ fNodes[v] = {}
             \/ v \in leaked'
             \/ \E d \in Vnode : v \in fNodes[d] /\ ~Alive(d)'
  <2>1. PICK d \in Vnode : v \in fNodes[d]
    BY <1>1 DEF Linked
  <2>2. \A k \in Vnode : v \notin fNodes'[k]
    BY <1>1 DEF Linked
  <2>3. ASSUME NEW gone \in SUBSET Vnode, Prunes(gone)
        PROVE  fNodes[v] = {} \/ ~Alive(d)'
    <3>1. fNodes'[d] = fNodes[d] \ gone \/ ~Alive(d)'
      BY <2>3 DEF Prunes
    <3>2. v \in gone => fNodes[v] = {}
      BY <1>1, <2>3 DEF Prunes
    <3> QED BY <2>1, <2>2, <3>1, <3>2
  <2>4. ASSUME NEW e \in Vnode, NEW w \in Vnode, Adds(e, w)
        PROVE  FALSE
    BY <2>1, <2>2, <2>4 DEF Adds
  <2>5. ASSUME NEW c \in Vnode, NEW e \in Vnode, NEW w \in Vnode,
               NEW out \in SUBSET Vnode, NEW inserted \in BOOLEAN,
               Moves(c, e, w, out, inserted)
        PROVE  fNodes[v] = {} \/ v \in leaked' \/ ~Alive(d)'
    <3>1. CASE v = w
      <4>1. inserted => w \in fNodes'[e]
        BY <2>5 DEF Moves
      <4>2. ~inserted => w \in leaked'
        BY <2>5 DEF Moves
      <4> QED BY <2>2, <3>1, <4>1, <4>2
    <3>2. CASE v \in out
      BY <2>5, <3>2 DEF Moves
    <3>3. CASE v # w /\ v \notin out
      <4>1. v \in fNodes'[d] \/ ~Alive(d)'
        BY <2>1, <2>5, <3>3 DEF Moves
      <4> QED BY <2>2, <4>1
    <3> QED BY <3>1, <3>2, <3>3
  <2> QED BY <1>1, <2>1, <2>3, <2>4, <2>5, NextForm DEF StepForm
<1>2. IInv /\ IInv' /\ NamesUnique /\ [Next]_vars =>
        [\A v \in Vnode :
           IsDir(v) /\ Linked(v) /\ ~Linked(v)'
           => \/ fNodes[v] = {}
              \/ v \in leaked'
              \/ \E d \in Vnode : v \in fNodes[d] /\ ~Alive(d)']_vars
  BY <1>1
<1> QED BY <1>2, Invariance, NamesStayUnique, PTL DEF Spec, DirsLeaveEmpty

-----------------------------------------------------------------------------
(* What Unmount leaves.                                                    *)

\* Nobody but a directory or a lost pointer owns a vnode of an unmounted
\* volume.
Unowned == phase = "unmounted" =>
             fRootVnode = NoVnode /\ \A i \in Id : ~Cached(i)

LEMMA UnmountedFinal ==
  ASSUME IInv, Next
  PROVE  /\ phase # "unmounted"
         /\ phase' = "unmounted" => Unmount
<1>1. ASSUME NEW d, CalledDir(d)
      PROVE  phase = "mounted"
  BY <1>1 DEF CalledDir, Called
<1>2. ASSUME NEW v \in Vnode, NEW i \in Id, Mount(v, i) \/ MountGetVnodeFails(v, i)
      PROVE  phase = "idle" /\ phase' # "unmounted"
  BY <1>2 DEF Mount, MountGetVnodeFails, FreeIds
<1>3. CASE BeginUnmount
  BY <1>3 DEF BeginUnmount
<1>4. CASE Unmount
  BY <1>4 DEF Unmount
<1>5. ASSUME NEW i \in Id, GetVnode(i) \/ VfsPut(i) \/ VfsEvict(i)
      PROVE  phase # "unmounted" /\ phase' # "unmounted"
  <2>1. phase \in {"mounted", "unmounting"}
    BY <1>5 DEF GetVnode, VfsPut, VfsEvict
  <2>2. phase' \in {phase, "aborted"}
    BY <1>5 DEF GetVnode, VfsPut, VfsEvict, Release, FreeIds
  <2> QED BY <2>1, <2>2
<1>6. ASSUME NEW d \in Vnode,
             LookupDot(d) \/ LookupDotDot(d) \/ \E n \in Name : Lookup(d, n)
      PROVE  phase = "mounted" /\ phase' = "mounted"
  BY <1>1, <1>6 DEF LookupDot, LookupDotDot, Lookup, GetVnode
<1>7. ASSUME NEW d \in Vnode, NEW n \in Name, Unlink(d, n) \/ RemoveDir(d, n)
      PROVE  phase = "mounted" /\ phase' # "unmounted"
  <2>1. phase' = phase
    BY <1>7, EntryStep
  <2> QED BY <1>1, <1>7, <2>1 DEF Unlink, RemoveDir
<1>8. ASSUME NEW d \in Vnode, NEW v \in Vnode, NEW n \in Name, NEW i \in Id,
             \/ Create(d, n, v, i) \/ CreateInitFails(d, n, v, i)
             \/ CreateDir(d, n, v, i) \/ CreateSymlink(d, n, v, i)
      PROVE  phase = "mounted" /\ phase' = "mounted"
  <2>1. \E k : NewVnode(d, n, k, v, i)
    BY <1>8 DEF Create, CreateInitFails, CreateDir, CreateSymlink
  <2> QED BY <1>1, <2>1 DEF NewVnode
<1>9. ASSUME NEW d \in Vnode, NEW e \in Vnode, NEW n \in Name, NEW m \in Name,
             NEW setName \in BOOLEAN, Rename(d, n, e, m, setName)
      PROVE  phase = "mounted" /\ phase' = phase
  <2>1. phase = "mounted"
    BY <1>1, <1>9 DEF Rename
  <2> QED BY <1>9, <2>1, RenameStep
<1> QED BY <1>2, <1>3, <1>4, <1>5, <1>6, <1>7, <1>8, <1>9 DEF Next

\* After Unmount no vnode is left, unless a reference was lost on an error
\* path or a directory was moved below itself, where the destructors do not
\* reach.
THEOREM UnmountFreesEverything == Spec => []UnmountFreesAll
<1>1. Init => Unowned
  BY DEF Init, Unowned
<1>2. IInv /\ Unowned /\ [Next]_vars => Unowned'
  <2>1. ASSUME IInv, Next, phase' = "unmounted"
        PROVE  fRootVnode' = NoVnode /\ \A i \in Id : ~Cached(i)'
    <3>1. Unmount
      BY <2>1, UnmountedFinal
    <3> QED BY <3>1 DEF Unmount, Cached, vfsVars
  <2> QED BY <2>1 DEF Unowned, Cached, vars, vfsVars
<1>3. IInv /\ Unowned => UnmountFreesAll
  <2> SUFFICES ASSUME IInv, Unowned, phase = "unmounted", leaked = {},
                      NEW v \in Vnode, Alive(v)
               PROVE  Cyclic
    BY DEF UnmountFreesAll
  <2>1. PICK S : S = {x \in Vnode : Alive(x)}
    OBVIOUS
  <2>2. ASSUME NEW x \in S
        PROVE  \E d \in S : x \in fNodes[d]
    <3>1. x \in Vnode /\ Alive(x)
      BY <2>1
    <3>2. Others(x) = 0
      BY <3>1, ConstantsAssumption DEF Unowned, Others, One, Cached
    <3>3. Linked(x)
      BY <3>1, <3>2 DEF IInv, RefsExact, One
    <3>4. PICK d \in Vnode : x \in fNodes[d]
      BY <3>3 DEF Linked
    <3>5. Alive(d)
      BY <3>4 DEF IInv, OneLink, IsDir, Alive
    <3> QED BY <2>1, <3>4, <3>5
  <2>3. S \in (SUBSET Vnode) \ {{}}
    <3>1. S \subseteq Vnode /\ v \in S
      BY <2>1
    <3> QED BY <3>1
  <2> QED BY <2>2, <2>3 DEF Cyclic
<1> QED BY <1>1, <1>2, <1>3, Invariance, PTL DEF Spec
-----------------------------------------------------------------------------
(* What a volume promises.                                                 *)

Rec(d, n, v) == [dir |-> d, name |-> n, node |-> v]

LEMMA RecSame ==
  ASSUME NEW d, NEW n, NEW v, NEW e, NEW m, NEW w
  PROVE  Rec(d, n, v) = Rec(e, m, w) <=> d = e /\ n = m /\ v = w
BY DEF Rec

LEMMA RecIs ==
  ASSUME NEW d, NEW n, NEW v
  PROVE  /\ Rec(d, n, v).dir = d /\ Rec(d, n, v).name = n /\ Rec(d, n, v).node = v
         /\ Files!Entry(d, n, v) = Rec(d, n, v)
BY DEF Rec, Files!Entry

LEMMA EntryIs ==
  \A r : r \in TreeEntries <=>
    \E d \in Vnode : \E v \in fNodes[d] : r = Rec(d, vn[v].name, v)
BY DEF TreeEntries, Rec

LEMMA EntryIsNext ==
  \A r : r \in TreeEntries' <=>
    \E d \in Vnode : \E v \in fNodes'[d] : r = Rec(d, vn'[v].name, v)
BY DEF TreeEntries, Rec

\* Directories that list something are alive.
LEMMA ListersLive ==
  ASSUME IInv, NEW d \in Vnode, fNodes[d] # {}
  PROVE  Alive(d)
BY DEF IInv, OneLink, IsDir, Alive

\* The counts keep the promise, whatever the step: what is left to show of it
\* is which entries there are.
LEMMA Settles ==
  ASSUME IInv', NothingLeaks', NEW from, LiveNodes' \subseteq from, NEW es,
         \A r : r \in TreeEntries' <=> r \in es /\ r.dir \in LiveNodes'
  PROVE  Files!Settle(from, es)
<1>1. ASSUME NEW v \in Vnode
      PROVE  v \in LiveNodes' <=> v \in UsedNodes' \/ Linked(v)'
  <2>1. Alive(v)' <=> fRef'[v] > 0
    BY DEF IInv, RefsExact
  <2>2. v \notin leaked'
    BY DEF NothingLeaks
  <2>3. fRef'[v] > 0 <=>
          Linked(v)' \/ (\E i \in Id : vfsNode'[i] = v) \/ v = fRootVnode'
    BY <2>2 DEF IInv, RefsExact, Others, One
  <2> QED BY <2>1, <2>3 DEF LiveNodes, UsedNodes
<1>2. ASSUME NEW v \in Vnode, Linked(v)'
      PROVE  \E r \in es : r.node = v /\ r.dir \in LiveNodes'
  <2>1. PICK d \in Vnode : v \in fNodes'[d]
    BY <1>2 DEF Linked
  <2>2. d \in LiveNodes'
    BY <2>1 DEF LiveNodes, Alive, IsDir, IInv, OneLink
  <2>3. Rec(d, vn'[v].name, v) \in TreeEntries'
    BY <2>1, EntryIsNext
  <2> QED BY <2>2, <2>3, RecIs
<1>3. ASSUME NEW v \in Vnode, NEW r \in es, r.node = v, r.dir \in LiveNodes'
      PROVE  Linked(v)'
  <2>1. r \in TreeEntries'
    BY <1>3
  <2>2. PICK d \in Vnode : \E w \in fNodes'[d] : r = Rec(d, vn'[w].name, w)
    BY <2>1, EntryIsNext
  <2> QED BY <1>3, <2>2, RecIs DEF Linked
<1>4. TreeEntries' = {r \in es : r.dir \in LiveNodes'}
  BY ZenonT(20)
<1> QED BY <1>1, <1>2, <1>3, <1>4 DEF Files!Settle

LEMMA PrunedEntries ==
  ASSUME IInv, IInv', NEW gone, Prunes(gone)
  PROVE  \A r : r \in TreeEntries' <=>
           r \in TreeEntries /\ r.node \notin gone /\ r.dir \in LiveNodes'
<1>1. ASSUME NEW r \in TreeEntries'
      PROVE  r \in TreeEntries /\ r.node \notin gone /\ r.dir \in LiveNodes'
  <2>1. PICK d, v : d \in Vnode /\ v \in fNodes'[d] /\ r = Rec(d, vn'[v].name, v)
    BY <1>1, EntryIsNext
  <2>2. fNodes'[d] = fNodes[d] \ gone /\ vn'[v] = vn[v]
    BY <2>1 DEF Prunes
  <2>3. d \in LiveNodes'
    BY <2>1 DEF LiveNodes, Alive, IsDir, IInv, OneLink
  <2>4. r \in TreeEntries
    BY <2>1, <2>2, EntryIs
  <2> QED BY <2>1, <2>2, <2>3, <2>4, RecIs
<1>2. ASSUME NEW r \in TreeEntries, r.node \notin gone, r.dir \in LiveNodes'
      PROVE  r \in TreeEntries'
  <2>1. PICK d, v : d \in Vnode /\ v \in fNodes[d] /\ r = Rec(d, vn[v].name, v)
    BY <1>2, EntryIs
  <2>2. v \notin gone /\ Alive(d)'
    BY <1>2, <2>1, RecIs DEF LiveNodes
  <2>3. v \in fNodes'[d] /\ vn'[v] = vn[v]
    BY <2>1, <2>2 DEF Prunes
  <2> QED BY <2>1, <2>3, EntryIsNext
<1> QED BY <1>1, <1>2

LEMMA ReferAbstract ==
  ASSUME IInv, IInv', NothingLeaks', Prunes({}), NEW v \in Vnode,
         Files!UsesOnly(v), LiveNodes' \subseteq LiveNodes \cup {v}
  PROVE  Files!Next
<1>1. \A r : r \in TreeEntries' <=> r \in TreeEntries /\ r.dir \in LiveNodes'
  BY PrunedEntries
<1>2. Files!Settle(LiveNodes \cup {v}, TreeEntries)
  BY <1>1, Settles
<1> QED BY <1>2 DEF Files!Next, Files!Refer

\* A vnode has one entry.
LEMMA NodeEntry ==
  ASSUME IInv, NEW d \in Vnode, NEW v \in fNodes[d], NEW r \in TreeEntries
  PROVE  r.node = v <=> r = Rec(d, vn[v].name, v)
<1>1. PICK k, w : k \in Vnode /\ w \in fNodes[k] /\ r = Rec(k, vn[w].name, w)
  BY EntryIs
<1>2. w = v => k = d
  BY <1>1 DEF IInv, OneLink
<1> QED BY <1>1, <1>2, RecIs, RecSame

\* A vnode without entries is the directory of none.
LEMMA LeafIs ==
  ASSUME NEW v \in Vnode, fNodes[v] = {}
  PROVE  Files!Leaf(v)
<1>1. ASSUME NEW r \in TreeEntries, r.dir = v PROVE FALSE
  <2>1. PICK k, w : k \in Vnode /\ w \in fNodes[k] /\ r = Rec(k, vn[w].name, w)
    BY <1>1, EntryIs
  <2> QED BY <1>1, <2>1, RecIs
<1> QED BY <1>1 DEF Files!Leaf

LEMMA UnlinkAbstract ==
  ASSUME IInv, IInv', NothingLeaks', NEW d \in Vnode, NEW v \in fNodes[d],
         vn[v].name \in Name, Prunes({v}), Files!UsesOnly(v),
         LiveNodes' \subseteq LiveNodes
  PROVE  Files!Next
<1>1. v \in Vnode
  BY DEF IInv, TypeOK
<1>2. PICK old : old = Rec(d, vn[v].name, v)
  OBVIOUS
<1>3. old \in TreeEntries /\ old = Files!Entry(d, vn[v].name, v)
  BY <1>2, EntryIs, RecIs
<1>4. fNodes[v] = {}
  BY <1>1 DEF Prunes, IInv, OneLink, IsDir
<1>5. Files!Leaf(v)
  BY <1>1, <1>4, LeafIs
<1>6. \A r \in TreeEntries : r.node = v <=> r = old
  BY <1>2, NodeEntry
<1>7. \A r : r \in TreeEntries' <=>
               r \in TreeEntries \ {old} /\ r.dir \in LiveNodes'
  BY <1>6, PrunedEntries
<1>8. Files!Settle(LiveNodes, TreeEntries \ {old})
  BY <1>7, Settles
<1>9. Files!Unlink(d, vn[v].name, v)
  BY <1>3, <1>5, <1>8 DEF Files!Unlink
<1> QED BY <1>1, <1>9 DEF Files!Next

LEMMA LinkAbstract ==
  ASSUME IInv, IInv', NothingLeaks', NEW d \in Vnode, NEW v \in Vnode, Alive(d),
         ~Alive(v), vn'[v].name \in Name, Adds(d, v), Files!UsesOnly(v),
         LiveNodes' \subseteq LiveNodes \cup {v}
  PROVE  Files!Next
<1>1. PICK n \in Name : n = vn'[v].name
  OBVIOUS
<1>2. PICK new : new = Rec(d, n, v)
  OBVIOUS
<1>3. new = Files!Entry(d, n, v)
  BY <1>2, RecIs
<1>4. \A k \in Vnode : v \notin fNodes[k]
  BY DEF Adds
<1>5. Files!Listed(v) => FALSE
  <2>1. ASSUME NEW r \in TreeEntries, r.node = v PROVE FALSE
    <3>1. PICK k, w : k \in Vnode /\ w \in fNodes[k] /\ r = Rec(k, vn[w].name, w)
      BY <2>1, EntryIs
    <3> QED BY <1>4, <2>1, <3>1, RecIs
  <2> QED BY <2>1 DEF Files!Listed
<1>6. Files!Leaf(v)
  BY ListersLive, LeafIs
<1>7. Files!Free(d, n)
  <2>1. ASSUME NEW r \in TreeEntries, r.dir = d, r.name = n PROVE FALSE
    <3>1. PICK k, w : k \in Vnode /\ w \in fNodes[k] /\ r = Rec(k, vn[w].name, w)
      BY <2>1, EntryIs
    <3>2. k = d /\ vn[w].name = n
      BY <2>1, <3>1, RecIs
    <3> QED BY <1>1, <3>1, <3>2 DEF Adds
  <2> QED BY <2>1 DEF Files!Free
<1>8. \A k \in Vnode : \A w \in fNodes[k] : vn'[w] = vn[w] /\ w \in Vnode
  BY <1>4 DEF Adds, IInv, TypeOK
<1>9. \A r : r \in TreeEntries' <=>
               r \in TreeEntries \cup {new} /\ r.dir \in LiveNodes'
  <2>1. ASSUME NEW r \in TreeEntries'
        PROVE  r \in TreeEntries \cup {new} /\ r.dir \in LiveNodes'
    <3>1. PICK k, w : k \in Vnode /\ w \in fNodes'[k] /\ r = Rec(k, vn'[w].name, w)
      BY <2>1, EntryIsNext
    <3>2. r.dir \in LiveNodes'
      BY <3>1, RecIs DEF LiveNodes, Alive, IsDir, IInv, OneLink
    <3>3. w \in fNodes[k] \/ (k = d /\ w = v)
      <4>1. \A x \in Vnode : fNodes'[x] \subseteq fNodes[x] \cup IF x = d THEN {v} ELSE {}
        BY DEF Adds
      <4>2. w \in fNodes[k] \cup IF k = d THEN {v} ELSE {}
        BY <3>1, <4>1, Zenon
      <4> QED BY <4>2
    <3>4. r \in TreeEntries \cup {new}
      BY <1>1, <1>2, <1>8, <3>1, <3>3, EntryIs
    <3> QED BY <3>2, <3>4
  <2>2. ASSUME NEW r \in TreeEntries PROVE r \in TreeEntries'
    <3>1. PICK k, w : k \in Vnode /\ w \in fNodes[k] /\ r = Rec(k, vn[w].name, w)
      BY <2>2, EntryIs
    <3>2. w \in fNodes'[k] /\ vn'[w] = vn[w]
      BY <1>8, <3>1 DEF Adds
    <3> QED BY <3>1, <3>2, EntryIsNext
  <2>3. new \in TreeEntries'
    <3>1. v \in fNodes'[d]
      BY DEF Adds
    <3> QED BY <1>1, <1>2, <3>1, EntryIsNext
  <2> QED BY <2>1, <2>2, <2>3
<1>10. Files!Settle(LiveNodes \cup {v}, TreeEntries \cup {new})
  BY <1>9, Settles
<1>11. d \in LiveNodes /\ d # v
  BY DEF LiveNodes
<1>12. Files!Link(d, n, v)
  BY <1>3, <1>5, <1>6, <1>7, <1>10, <1>11 DEF Files!Link
<1> QED BY <1>1, <1>12 DEF Files!Next

LEMMA MovedEntries ==
  ASSUME IInv, IInv', NEW d \in Vnode, NEW e \in Vnode, NEW v \in Vnode, NEW out,
         Moves(d, e, v, out, TRUE)
  PROVE  \A r : r \in TreeEntries' <=>
           \/ r \in TreeEntries /\ r.node \notin out \cup {v} /\ r.dir \in LiveNodes'
           \/ r = Rec(e, vn'[v].name, v)
<1>1. \A k \in Vnode : \A w \in fNodes'[k] :
        \/ w = v /\ k = e
        \/ w \in fNodes[k] \ (out \cup {v}) /\ vn'[w] = vn[w]
  <2> SUFFICES ASSUME NEW k \in Vnode, NEW w \in fNodes'[k]
               PROVE  \/ w = v /\ k = e
                      \/ w \in fNodes[k] \ (out \cup {v}) /\ vn'[w] = vn[w]
    OBVIOUS
  <2>1. \/ w \in fNodes[k] \ (out \cup {v})
        \/ k = e /\ w = v
    BY Zenon DEF Moves
  <2>2. w # v => vn'[w] = vn[w]
    BY Zenon DEF Moves
  <2> QED BY <2>1, <2>2
<1>2. v \in fNodes'[e]
  BY DEF Moves
<1>3. \A k \in Vnode : Alive(k)' =>
        \A w \in fNodes[k] \ (out \cup {v}) : w \in fNodes'[k] /\ vn'[w] = vn[w]
  BY DEF Moves
<1>4. ASSUME NEW r \in TreeEntries', r # Rec(e, vn'[v].name, v)
      PROVE  r \in TreeEntries /\ r.node \notin out \cup {v} /\ r.dir \in LiveNodes'
  <2>1. PICK k, w : k \in Vnode /\ w \in fNodes'[k] /\ r = Rec(k, vn'[w].name, w)
    BY <1>4, EntryIsNext
  <2>2. w \in fNodes[k] \ (out \cup {v}) /\ vn'[w] = vn[w]
    BY <1>1, <1>4, <2>1
  <2>3. k \in LiveNodes'
    BY <2>1 DEF LiveNodes, Alive, IsDir, IInv, OneLink
  <2>4. r \in TreeEntries
    BY <2>1, <2>2, EntryIs
  <2> QED BY <2>1, <2>2, <2>3, <2>4, RecIs
<1>5. ASSUME NEW r \in TreeEntries, r.node \notin out \cup {v}, r.dir \in LiveNodes'
      PROVE  r \in TreeEntries'
  <2>1. PICK k, w : k \in Vnode /\ w \in fNodes[k] /\ r = Rec(k, vn[w].name, w)
    BY <1>5, EntryIs
  <2>2. Alive(k)' /\ w \in fNodes[k] \ (out \cup {v})
    BY <1>5, <2>1, RecIs DEF LiveNodes
  <2>3. w \in fNodes'[k] /\ vn'[w] = vn[w]
    BY <1>3, <2>1, <2>2
  <2> QED BY <2>1, <2>3, EntryIsNext
<1>6. Rec(e, vn'[v].name, v) \in TreeEntries'
  BY <1>2, EntryIsNext
<1> QED BY <1>4, <1>5, <1>6

LEMMA MoveAbstract ==
  ASSUME IInv, IInv', NamesUnique, NothingLeaks', ~MemoryMayFail,
         NEW d \in Vnode, NEW e \in Vnode, NEW n \in Name, NEW m \in Name,
         NEW v \in Vnode, NEW out \in SUBSET Vnode, Renames(d, n, e, m, v, out, TRUE),
         ~(d = e /\ n = m), Alive(e), LiveNodes' \subseteq LiveNodes,
         out = {} => UsedNodes' = UsedNodes,
         \A w \in out : Files!UsesOnly(w)
  PROVE  Files!Next
<1>1. /\ Moves(d, e, v, out, TRUE) /\ v \in fNodes[d]
      /\ vn[v].name = n /\ vn'[v].name = m /\ out = Find(e, m)
  BY DEF Renames, Moves
<1>2. PICK old, new : old = Rec(d, n, v) /\ new = Rec(e, m, v)
  OBVIOUS
<1>3. /\ old = Files!Entry(d, n, v) /\ new = Files!Entry(e, m, v)
      /\ new # old /\ new.dir = e /\ e \in LiveNodes
  BY <1>2, RecIs, RecSame DEF LiveNodes
<1>4. old \in TreeEntries /\ \A r \in TreeEntries : r.node = v <=> r = old
  BY <1>1, <1>2, NodeEntry, EntryIs
<1>5. new \in TreeEntries' /\ e \in LiveNodes'
  <2>1. v \in fNodes'[e]
    BY <1>1 DEF Moves
  <2>2. e \in LiveNodes'
    BY <2>1 DEF LiveNodes, Alive, IsDir, IInv, OneLink
  <2> QED BY <1>1, <1>2, <2>1, <2>2, EntryIsNext
<1>6. \A r : r \in TreeEntries' <=>
        \/ r \in TreeEntries /\ r.node \notin out \cup {v} /\ r.dir \in LiveNodes'
        \/ r = new
  BY <1>1, <1>2, MovedEntries
<1>7. CASE out = {}
  <2>1. Files!Free(e, m)
    <3>1. ASSUME NEW r \in TreeEntries, r.dir = e, r.name = m PROVE FALSE
      <4>1. PICK k, w : k \in Vnode /\ w \in fNodes[k] /\ r = Rec(k, vn[w].name, w)
        BY EntryIs
      <4>2. w \in Find(e, m)
        BY <3>1, <4>1, RecIs DEF Find
      <4> QED BY <1>1, <1>7, <4>2
    <3> QED BY <3>1 DEF Files!Free
  <2>2. \A r : r \in TreeEntries' <=>
          r \in (TreeEntries \ {old}) \cup {new} /\ r.dir \in LiveNodes'
    BY <1>3, <1>4, <1>5, <1>6, <1>7
  <2>3. Files!Settle(LiveNodes, (TreeEntries \ {old}) \cup {new})
    BY <2>2, Settles
  <2>4. Files!Move(d, n, e, m, v)
    BY <1>3, <1>4, <1>7, <2>1, <2>3 DEF Files!Move
  <2> QED BY <2>4 DEF Files!Next
<1>8. CASE out # {}
  <2>1. PICK w : w \in out
    BY <1>8
  <2>2. /\ w \in Vnode /\ w \in fNodes[e] /\ vn[w].name = m /\ fNodes[w] = {}
        /\ out = {w} /\ w # v
    BY <1>1, <2>1 DEF Find, NamesUnique, Moves, IInv, OneLink
  <2>3. PICK gone : gone = Rec(e, m, w)
    OBVIOUS
  <2>4. /\ gone \in TreeEntries /\ gone = Files!Entry(e, m, w)
        /\ \A r \in TreeEntries : r.node = w <=> r = gone
    BY <2>2, <2>3, NodeEntry, EntryIs, RecIs
  <2>5. new # gone
    BY <1>2, <2>2, <2>3, RecSame
  <2>6. Files!Leaf(w)
    BY <2>2, LeafIs
  <2>7. \A r : r \in TreeEntries' <=>
          r \in (TreeEntries \ {old, gone}) \cup {new} /\ r.dir \in LiveNodes'
    BY <1>3, <1>4, <1>5, <1>6, <2>2, <2>4, <2>5
  <2>8. Files!Settle(LiveNodes, (TreeEntries \ {old, gone}) \cup {new})
    BY <2>7, Settles
  <2>9. Files!Move(d, n, e, m, v)
    BY <1>3, <1>4, <2>1, <2>2, <2>4, <2>6, <2>8 DEF Files!Move
  <2> QED BY <2>9 DEF Files!Next
<1> QED BY <1>7, <1>8

-----------------------------------------------------------------------------
(* Who uses vnodes, and which are alive, after a step.                     *)

LEMMA ReleaseLive ==
  ASSUME NEW v, NEW n, NEW nodes, NEW vs, NEW next, Release(v, n, nodes, vs, next)
  PROVE  LiveNodes' \subseteq {x \in Vnode : vs[x].kind # "none"}
BY DEF Release, LiveNodes, Alive, Freed

LEMMA SameUsers ==
  ASSUME NEW v, vfsNode' = vfsNode, fRootVnode' = fRootVnode
  PROVE  Files!UsesOnly(v) /\ UsedNodes' = UsedNodes
BY DEF Files!UsesOnly, UsedNodes

\* The VFS begins to use v, if it does not know the number.
LEMMA GetUses ==
  ASSUME IInv, NEW i \in Id, NEW v \in Vnode, VfsGet(i, v), fRootVnode' = fRootVnode
  PROVE  Files!UsesOnly(v)
<1>1. \A j \in Id : vfsNode'[j] = vfsNode[j] \/ (vfsNode'[j] = v /\ vfsNode[j] = NoVnode)
  BY DEF VfsGet, Cached, IInv, TypeOK
<1> QED BY <1>1, ConstantsAssumption DEF Files!UsesOnly, UsedNodes

\* The VFS forgets the number of v.
LEMMA DropUses ==
  ASSUME IInv, NEW i \in Id, NEW v \in Vnode, VfsDrop(i), vfsNode[i] \in {v, NoVnode},
         fRootVnode' = fRootVnode
  PROVE  Files!UsesOnly(v)
<1>1. \A j \in Id : \/ vfsNode'[j] = vfsNode[j]
                    \/ vfsNode'[j] = NoVnode /\ vfsNode[j] \in {v, NoVnode}
  BY DEF VfsDrop, IInv, TypeOK
<1> QED BY <1>1, ConstantsAssumption DEF Files!UsesOnly, UsedNodes

LEMMA OwnNumber ==
  ASSUME IInv, NEW v \in Vnode, Alive(v)
  PROVE  vn[v].id \in Id /\ vfsNode[vn[v].id] \in {v, NoVnode}
BY DEF IInv, IdsExact, VfsIdentity, Cached

\* Unlink and RemoveDir, and Rename of what is in its way.
LEMMA RemoveUses ==
  ASSUME IInv, NEW v \in Vnode, Alive(v), NEW nodes, NEW vs,
         UnlinkVnode(v, nodes, vs) \/ RemoveDirVnode(v, nodes, vs),
         fRootVnode' = fRootVnode
  PROVE  /\ Files!UsesOnly(v)
         /\ LiveNodes' \subseteq {x \in Vnode : vs[x].kind # "none"}
<1>1. PICK i : i = vn[v].id
  OBVIOUS
<1>2. i \in Id /\ vfsNode[i] \in {v, NoVnode}
  BY <1>1, OwnNumber
<1>3. VfsDrop(i) \/ vfsNode' = vfsNode
  BY <1>1 DEF UnlinkVnode, RemoveDirVnode, VfsRemove
<1>4. Files!UsesOnly(v)
  BY <1>2, <1>3, DropUses, SameUsers
<1>5. \E n : Release(v, n, nodes, vs, phase)
  BY DEF UnlinkVnode, RemoveDirVnode
<1> QED BY <1>4, <1>5, ReleaseLive

-----------------------------------------------------------------------------
(* Each operation is one of the promise.                                   *)

\* Nothing that a directory lists changes.
LEMMA QuietAbstract ==
  ASSUME IInv, IInv', NothingLeaks, NothingLeaks', fNodes' = fNodes,
         \A d \in Vnode : \A x \in fNodes[d] : vn'[x] = vn[x],
         NEW v \in Vnode, Files!UsesOnly(v), LiveNodes' \subseteq LiveNodes \cup {v}
  PROVE  Files!Next
<1>1. Prunes({})
  BY DEF Prunes, NothingLeaks
<1> QED BY <1>1, ReferAbstract

\* The VFS, or the volume, gives v up.
LEMMA GiveUpAbstract ==
  ASSUME IInv, IInv', NothingLeaks, NothingLeaks', NEW v \in Vnode, NEW n, NEW next,
         Release(v, n, fNodes, vn, next), Files!UsesOnly(v)
  PROVE  Files!Next
<1>1. fNodes \in [Vnode -> SUBSET Vnode] /\ \A d \in Vnode : fNodes[d] = fNodes[d] \ {}
  BY DEF IInv, TypeOK
<1>2. leaked' = leaked
  BY DEF NothingLeaks
<1>3. Prunes({})
  BY <1>1, <1>2, ReleasePrunes
<1>4. LiveNodes' \subseteq LiveNodes
  BY ReleaseLive DEF LiveNodes, Alive
<1> QED BY <1>3, <1>4, ReferAbstract

LEMMA MountAbstract ==
  ASSUME IInv, IInv', NothingLeaks, NothingLeaks', NEW v \in Vnode, NEW i \in Id,
         Mount(v, i)
  PROVE  Files!Next
<1>1. /\ ~Alive(v) /\ fNodes' = fNodes /\ fRootVnode = NoVnode /\ fRootVnode' = v
      /\ \A x \in Vnode \ {v} : vn'[x] = vn[x]
  BY DEF Mount, Register, IInv, TypeOK, Bookkeeping
<1>2. \A d \in Vnode : fNodes[d] \subseteq Vnode /\ v \notin fNodes[d]
  BY <1>1, DeadUnowned DEF Linked, IInv, TypeOK
<1>3. \A j \in Id : vfsNode'[j] = vfsNode[j] \/ (vfsNode'[j] = v /\ vfsNode[j] = NoVnode)
  BY DEF Mount, VfsGet, Cached, IInv, TypeOK
<1>4. Files!UsesOnly(v)
  BY <1>1, <1>3, ConstantsAssumption DEF Files!UsesOnly, UsedNodes
<1>5. LiveNodes' \subseteq LiveNodes \cup {v}
  BY <1>1 DEF LiveNodes, Alive
<1> QED BY <1>1, <1>2, <1>4, <1>5, QuietAbstract

LEMMA UnmountAbstract ==
  ASSUME IInv, IInv', NothingLeaks, NothingLeaks', BeginUnmount \/ Unmount
  PROVE  Files!Next
<1>1. fRootVnode \in Vnode
  BY DEF BeginUnmount, Unmount, IInv, Bookkeeping
<1>2. CASE BeginUnmount
  <2>1. Files!UsesOnly(fRootVnode) /\ LiveNodes' = LiveNodes
    BY <1>2, SameUsers DEF BeginUnmount, LiveNodes, Alive
  <2> QED BY <1>1, <1>2, <2>1, QuietAbstract DEF BeginUnmount
<1>3. CASE Unmount
  <2>1. Files!UsesOnly(fRootVnode)
    BY <1>1, <1>3, ConstantsAssumption DEF Unmount, vfsVars, Files!UsesOnly, UsedNodes
  <2> QED BY <1>1, <1>3, <2>1, GiveUpAbstract DEF Unmount
<1> QED BY <1>2, <1>3

LEMMA GetVnodeAbstract ==
  ASSUME IInv, IInv', NothingLeaks, NothingLeaks', NEW i \in Id, GetVnode(i)
  PROVE  Files!Next
<1>1. fIds[i] \in Vnode
  BY DEF GetVnode, Cached, IInv, TypeOK, VfsIdentity
<1>2. Files!UsesOnly(fIds[i])
  BY <1>1, GetUses DEF GetVnode
<1>3. LiveNodes' = LiveNodes
  BY DEF GetVnode, LiveNodes, Alive
<1> QED BY <1>1, <1>2, <1>3, QuietAbstract DEF GetVnode

LEMMA VfsPutAbstract ==
  ASSUME IInv, IInv', NothingLeaks, NothingLeaks', NEW i \in Id,
         VfsPut(i) \/ VfsEvict(i)
  PROVE  Files!Next
<1>1. Cached(i) /\ vfsNode[i] \in Vnode
  BY DEF VfsPut, VfsEvict, IInv, TypeOK, Bookkeeping, Cached
<1>2. fRootVnode' = fRootVnode
  BY DEF VfsPut, VfsEvict
<1>3. CASE Release(vfsNode[i], 1, fNodes, vn, phase) /\ VfsDrop(i)
  <2>1. Files!UsesOnly(vfsNode[i])
    BY <1>1, <1>2, <1>3, DropUses
  <2> QED BY <1>1, <1>3, <2>1, GiveUpAbstract
<1>4. CASE fNodes' = fNodes /\ vn' = vn /\ vfsNode' = vfsNode
  <2>1. Files!UsesOnly(vfsNode[i]) /\ LiveNodes' = LiveNodes
    BY <1>2, <1>4, SameUsers DEF LiveNodes, Alive
  <2> QED BY <1>1, <1>4, <2>1, QuietAbstract
<1> QED BY <1>3, <1>4 DEF VfsPut, VfsEvict
LEMMA LookupAbstract ==
  ASSUME IInv, IInv', NothingLeaks, NothingLeaks', NEW d \in Vnode,
         (\E n \in Name : Lookup(d, n)) \/ LookupDot(d) \/ LookupDotDot(d)
  PROVE  Files!Next
BY LookupStep, GetVnodeAbstract

LEMMA CreateAbstract ==
  ASSUME IInv, IInv', NothingLeaks', NEW d \in Vnode, NEW n \in Name,
         NEW v \in Vnode, NEW i \in Id,
         \/ Create(d, n, v, i) \/ CreateDir(d, n, v, i) \/ CreateSymlink(d, n, v, i)
  PROVE  Files!Next
<1>1. /\ Adds(d, v) /\ vn'[v].name = n
      /\ ~Alive(v) /\ CalledDir(d) /\ fRootVnode' = fRootVnode
  BY CreateAdds
<1>2. Alive(d)
  BY <1>1 DEF CalledDir, IsDir, Alive
<1>3. VfsGet(i, v) \/ vfsNode' = vfsNode
  BY DEF Create, CreateDir, CreateSymlink, vfsVars
<1>4. Files!UsesOnly(v)
  BY <1>1, <1>3, GetUses, SameUsers
<1>5. LiveNodes' \subseteq LiveNodes \cup {v}
  BY <1>1 DEF Adds, LiveNodes, Alive
<1> QED BY <1>1, <1>2, <1>4, <1>5, LinkAbstract

LEMMA EntryAbstract ==
  ASSUME IInv, IInv', NothingLeaks', NEW d \in Vnode, NEW n \in Name,
         Unlink(d, n) \/ RemoveDir(d, n)
  PROVE  Files!Next
<1>1. PICK v \in Find(d, n), nodes \in [Vnode -> SUBSET Vnode] :
        /\ Prunes({v})
        /\ UnlinkVnode(v, nodes, vn) \/ RemoveDirVnode(v, nodes, vn)
        /\ fRootVnode' = fRootVnode
  BY EntryPrunes
<1>2. v \in fNodes[d] /\ v \in Vnode /\ vn[v].name = n
  BY <1>1 DEF Find, IInv, TypeOK
<1>3. Alive(v)
  BY <1>2, OwnedAlive DEF Linked
<1>4. Files!UsesOnly(v) /\ LiveNodes' \subseteq LiveNodes
  BY <1>1, <1>2, <1>3, RemoveUses DEF LiveNodes, Alive
<1> QED BY <1>1, <1>2, <1>4, UnlinkAbstract

\* Who uses vnodes and which live when Rename moves v.
LEMMA RenameUses ==
  ASSUME IInv, NamesUnique, NEW d \in Vnode, NEW e \in Vnode, NEW n \in Name,
         NEW m \in Name, NEW setName \in BOOLEAN, Rename(d, n, e, m, setName)
  PROVE  /\ LiveNodes' \subseteq LiveNodes
         /\ Find(e, m) = {} => UsedNodes' = UsedNodes
         /\ \A w \in Find(e, m) : Files!UsesOnly(w)
<1>1. PICK v \in Find(d, n) :
        \/ /\ Find(e, m) = {}
           /\ vn' = Renaming(v, m, setName)
           /\ vfsNode' = vfsNode
        \/ \E old \in Find(e, m) :
             RemoveEntry(old,
                         Moved(RemoveNode(fNodes, e, old), Renaming(v, m, setName),
                               d, e, v),
                         Renaming(v, m, setName))
  BY DEF Rename, Renaming, vfsVars
<1>2. fRootVnode' = fRootVnode
  BY DEF Rename
<1>3. PICK vs : vs = Renaming(v, m, setName)
  OBVIOUS
<1>4. \A x \in Vnode : vs[x].kind = vn[x].kind
  BY <1>3 DEF Renaming, IInv, TypeOK, Fields
<1>5. CASE Find(e, m) = {}
  <2>1. vn' = vs /\ vfsNode' = vfsNode
    BY <1>1, <1>3, <1>5
  <2>2. UsedNodes' = UsedNodes
    BY <1>2, <2>1, SameUsers
  <2> QED BY <1>4, <1>5, <2>1, <2>2 DEF LiveNodes, Alive
<1>6. CASE Find(e, m) # {}
  <2>1. PICK old \in Find(e, m) :
          RemoveEntry(old, Moved(RemoveNode(fNodes, e, old), vs, d, e, v), vs)
    BY <1>1, <1>3, <1>6
  <2>2. PICK nodes : nodes = Moved(RemoveNode(fNodes, e, old), vs, d, e, v)
    OBVIOUS
  <2>3. UnlinkVnode(old, nodes, vs) \/ RemoveDirVnode(old, nodes, vs)
    BY <2>1, <2>2 DEF RemoveEntry
  <2>4. old \in Vnode /\ old \in fNodes[e]
    BY <2>1 DEF Find, IInv, TypeOK
  <2>5. Alive(old)
    BY <2>4, OwnedAlive DEF Linked
  <2>6. Files!UsesOnly(old) /\ LiveNodes' \subseteq {x \in Vnode : vs[x].kind # "none"}
    BY <1>2, <2>3, <2>4, <2>5, RemoveUses
  <2>7. \A w \in Find(e, m) : w = old
    BY <2>1 DEF Find, NamesUnique
  <2> QED BY <1>4, <1>6, <2>6, <2>7 DEF LiveNodes, Alive
<1> QED BY <1>5, <1>6

LEMMA RenameAbstract ==
  ASSUME IInv, IInv', NamesUnique, NothingLeaks', ~MemoryMayFail,
         NEW d \in Vnode, NEW e \in Vnode, NEW n \in Name, NEW m \in Name,
         NEW setName \in BOOLEAN, Rename(d, n, e, m, setName)
  PROVE  Files!Next
<1>1. PICK v \in Vnode, out \in SUBSET Vnode, inserted \in BOOLEAN :
        Renames(d, n, e, m, v, out, inserted)
  BY RenameParts
<1>2. inserted = TRUE /\ out = Find(e, m)
  BY <1>1 DEF Renames, Moves
<1>3. ~(d = e /\ n = m) /\ Alive(e)
  BY DEF Rename, VfsRenames, CalledDir, IsDir, Alive
<1>4. /\ LiveNodes' \subseteq LiveNodes
      /\ out = {} => UsedNodes' = UsedNodes
      /\ \A w \in out : Files!UsesOnly(w)
  BY <1>2, RenameUses
<1>5. Renames(d, n, e, m, v, out, TRUE)
  BY <1>1, <1>2
<1> QED BY <1>3, <1>4, <1>5, MoveAbstract

LEMMA NextAbstract ==
  ASSUME IInv, IInv', NamesUnique, NothingLeaks, NothingLeaks', ~MemoryMayFail, Next
  PROVE  Files!Next
<1>1. ASSUME NEW v \in Vnode, NEW i \in Id, Mount(v, i) \/ MountGetVnodeFails(v, i)
      PROVE  Files!Next
  BY <1>1, MountAbstract DEF MountGetVnodeFails
<1>2. CASE BeginUnmount \/ Unmount
  BY <1>2, UnmountAbstract
<1>3. ASSUME NEW i \in Id, GetVnode(i) \/ VfsPut(i) \/ VfsEvict(i)
      PROVE  Files!Next
  BY <1>3, GetVnodeAbstract, VfsPutAbstract
<1>4. ASSUME NEW d \in Vnode,
             LookupDot(d) \/ LookupDotDot(d) \/ \E n \in Name : Lookup(d, n)
      PROVE  Files!Next
  BY <1>4, LookupAbstract
<1>5. ASSUME NEW d \in Vnode, NEW n \in Name, Unlink(d, n) \/ RemoveDir(d, n)
      PROVE  Files!Next
  BY <1>5, EntryAbstract
<1>6. ASSUME NEW d \in Vnode, NEW v \in Vnode, NEW n \in Name, NEW i \in Id,
             \/ Create(d, n, v, i) \/ CreateInitFails(d, n, v, i)
             \/ CreateDir(d, n, v, i) \/ CreateSymlink(d, n, v, i)
      PROVE  Files!Next
  BY <1>6, CreateAbstract DEF CreateInitFails
<1>7. ASSUME NEW d \in Vnode, NEW e \in Vnode, NEW n \in Name, NEW m \in Name,
             NEW setName \in BOOLEAN, Rename(d, n, e, m, setName)
      PROVE  Files!Next
  BY <1>7, RenameAbstract
<1> QED BY <1>1, <1>2, <1>3, <1>4, <1>5, <1>6, <1>7 DEF Next

\* When nothing fails, the volume keeps its promise, however the operations and
\* the VFS's gets, puts and evictions interleave: each hook changes the entries
\* it names and no other, and a vnode is there exactly as long as the VFS, the
\* volume or a directory that is itself there points to it.
THEOREM VolumeImplementsNamespace ==
  ASSUME ~MemoryMayFail
  PROVE  Spec => ImplementsNamespace
<1>1. Init => Files!Init
  <2> SUFFICES ASSUME Init PROVE Files!Init
    OBVIOUS
  <2>1. LiveNodes = {} /\ UsedNodes = {}
    BY ConstantsAssumption DEF Init, LiveNodes, UsedNodes, Alive, Freed
  <2>2. TreeEntries = {}
    <3>1. \A r : r \notin TreeEntries
      BY EntryIs DEF Init
    <3> QED BY <3>1
  <2> QED BY <2>1, <2>2 DEF Files!Init
<1>2. ASSUME IInv, IInv', NamesUnique, NothingLeaks, NothingLeaks', [Next]_vars
      PROVE  [Files!Next]_(Files!vars)
  <2>1. CASE Next
    BY <1>2, <2>1, NextAbstract
  <2>2. CASE UNCHANGED vars
    BY <2>2 DEF vars, vfsVars, Files!vars, LiveNodes, UsedNodes, TreeEntries, Alive
  <2> QED BY <1>2, <2>1, <2>2
<1>3. Spec => []NothingLeaks
  BY NothingLeaksWithMemory
<1> QED
  BY <1>1, <1>2, <1>3, Invariance, NamesStayUnique, PTL
     DEF Spec, ImplementsNamespace, Files!Spec


=============================================================================
