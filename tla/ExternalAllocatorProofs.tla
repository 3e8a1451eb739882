---------------------- MODULE ExternalAllocatorProofs ----------------------
(***************************************************************************)
(* Proofs about ExternalAllocator for every range, every set of lengths    *)
(* and every set of alignments.                                            *)
(***************************************************************************)
EXTENDS ExternalAllocator, OrderLemmas, TLAPS

-----------------------------------------------------------------------------
(* The inductive invariant.                                                *)

\* Addresses that are not blocks, and get one later, are not marked.
AllocatedAreBlocks == \A a \in Adr : fAllocated[a] => a \in fAdrMap

AllocInv == TypeOK /\ Tiled /\ SizeMapExact /\ Coalesced /\ AllocatedAreBlocks

\* SizeMapExact, pair by pair.
SizeMapPairs ==
  \A s, a : <<s, a>> \in fSizeMap <=>
              a \in fAdrMap /\ ~fAllocated[a] /\ s = fSize[a]

LEMMA SizeMapByPairs == TypeOK => (SizeMapExact <=> SizeMapPairs)
<1> SUFFICES ASSUME TypeOK PROVE SizeMapExact <=> SizeMapPairs
  OBVIOUS
<1> DEFINE Listed == {<<fSize[a], a>> : a \in {b \in fAdrMap : ~fAllocated[b]}}
<1>1. \A s, a : <<s, a>> \in Listed <=>
                  a \in fAdrMap /\ ~fAllocated[a] /\ s = fSize[a]
  OBVIOUS
<1>2. \A e : e \in fSizeMap \/ e \in Listed => \E s, a : e = <<s, a>>
  BY DEF TypeOK
<1>3. SizeMapExact <=> fSizeMap = Listed
  BY DEF SizeMapExact
<1> HIDE DEF Listed
<1>4. ASSUME \A s, a : <<s, a>> \in fSizeMap <=> <<s, a>> \in Listed
      PROVE  fSizeMap = Listed
  <2>1. ASSUME NEW e PROVE e \in fSizeMap <=> e \in Listed
    BY <1>2, <1>4
  <2> QED BY <2>1
<1>5. SizeMapExact => SizeMapPairs
  BY <1>1, <1>3 DEF SizeMapPairs
<1>6. SizeMapPairs => SizeMapExact
  BY <1>1, <1>3, <1>4 DEF SizeMapPairs
<1> QED BY <1>5, <1>6

\* What the invariant says of one block.
LEMMA BlockBounds ==
  ASSUME ParametersAssumption, TypeOK, Tiled, NEW a \in fAdrMap
  PROVE  /\ a \in Adr /\ a \in Int
         /\ fSize[a] \in 1 .. Size
         /\ End(a) \in Int /\ a < End(a) /\ End(a) <= Base + Size
         /\ End(a) # Base + Size => End(a) \in fAdrMap
<1>1. a \in Adr /\ fSize[a] \in 0 .. Size /\ fSize[a] > 0
  BY DEF TypeOK, Tiled
<1>2. End(a) = Base + Size \/ End(a) \in Adr
  BY DEF TypeOK, Tiled
<1> QED BY <1>1, <1>2 DEF ParametersAssumption, Adr, End, Tiled

\* An entry of fSizeMap is a free block under its size.
LEMMA EntryBlock ==
  ASSUME TypeOK, SizeMapExact, NEW e \in fSizeMap
  PROVE  /\ e[2] \in fAdrMap /\ ~fAllocated[e[2]]
         /\ e[1] = fSize[e[2]]
BY DEF TypeOK, SizeMapExact

LEMMA FreeBlockListed ==
  ASSUME TypeOK, SizeMapExact, NEW a \in fAdrMap, ~fAllocated[a]
  PROVE  <<fSize[a], a>> \in fSizeMap
BY DEF SizeMapExact

-----------------------------------------------------------------------------
(* Taking a range out of a free block.                                     *)

\* The allocated blocks before and after, and their sizes.
Grants(p, s) ==
  /\ p \in fAdrMap' /\ fAllocated'[p] /\ fSize'[p] = s
  /\ \A x : x \in fAdrMap' /\ fAllocated'[x] <=>
             x = p \/ (x \in fAdrMap /\ fAllocated[x])
  /\ \A x \in fAdrMap : fAllocated[x] => x # p /\ fSize'[x] = fSize[x]

TakesBack(p) ==
  /\ \A x : x \in fAdrMap' /\ fAllocated'[x] <=>
             x # p /\ x \in fAdrMap /\ fAllocated[x]
  /\ \A x \in fAdrMap : fAllocated[x] /\ x # p => fSize'[x] = fSize[x]

\* AllocBlock is Carve at the start of the block.
LEMMA AllocBlockCarves ==
  ASSUME ParametersAssumption, TypeOK, Tiled, SizeMapExact,
         NEW e \in fSizeMap, NEW s \in Nat \ {0}, e[1] >= s, NEW call,
         AllocBlock(e, s, call)
  PROVE  /\ Fits(e[2], e[2], s)
         /\ Carve(e[2], e[2], s, call)
<1> DEFINE a == e[2]
<1>1. a \in fAdrMap /\ ~fAllocated[a] /\ fSize[a] >= s
  BY EntryBlock
<1>2. a \in Adr /\ a \in Int /\ fSize[a] \in 1 .. Size
  BY <1>1, BlockBounds
<1>3. Fits(a, a, s)
  BY <1>1, <1>2 DEF Fits, End, ParametersAssumption
<1>4. /\ a - a = 0
      /\ End(a) - (a + s) = fSize[a] - s
      /\ ~(fSize[a] - s > 0) => fSize[a] = s
  BY <1>1, <1>2 DEF End, ParametersAssumption
<1>5. s # 0 /\ ~(a - a > 0) /\ a + s # a
  BY <1>2, <1>4 DEF ParametersAssumption
<1> HIDE DEF a
<1>6. Carve(a, a, s, call)
  <2> DEFINE rest == fSize[a] - s
  <2>1. /\ fSizeMap' = (fSizeMap \ {<<fSize[a], a>>})
                     \cup (IF rest > 0 THEN {<<rest, a + s>>} ELSE {})
        /\ fAdrMap' = fAdrMap \cup (IF rest > 0 THEN {a + s} ELSE {})
        /\ fSize' = [x \in Adr |-> IF rest > 0 /\ x = a + s THEN rest
                                 ELSE IF rest > 0 /\ x = a THEN s
                                 ELSE fSize[x]]
        /\ fAllocated' = [fAllocated EXCEPT ![a] = TRUE]
        /\ ret' = Answer(call, a, s)
    BY DEF AllocBlock, a
  <2>2. fAdrMap' = fAdrMap \cup {a} \cup (IF rest > 0 THEN {a + s} ELSE {})
    BY <2>1, <1>1
  <2>3. fSizeMap' = (fSizeMap \ {<<fSize[a], a>>})
                     \cup (IF a - a > 0 THEN {<<a - a, a>>} ELSE {})
                     \cup (IF rest > 0 THEN {<<rest, a + s>>} ELSE {})
    BY <2>1, <1>5
  <2>4. fSize' = [x \in Adr |-> IF x = a THEN s
                                 ELSE IF x = a THEN a - a
                                 ELSE IF rest > 0 /\ x = a + s THEN rest
                                 ELSE fSize[x]]
    <3>1. ASSUME NEW x \in Adr
          PROVE  (IF rest > 0 /\ x = a + s THEN rest
                                 ELSE IF rest > 0 /\ x = a THEN s
                                 ELSE fSize[x])
                 = (IF x = a THEN s
                                 ELSE IF x = a THEN a - a
                                 ELSE IF rest > 0 /\ x = a + s THEN rest
                                 ELSE fSize[x])
      <4>1. CASE x = a
        BY <4>1, <1>4, <1>5
      <4>2. CASE x # a
        BY <4>2
      <4> QED BY <4>1, <4>2
    <3> QED BY <3>1, <2>1, Zenon
  <2>5. rest = End(a) - (a + s)
    BY <1>4
  <2> QED BY <2>1, <2>2, <2>3, <2>4, <2>5, Zenon DEF Carve
<1> QED BY <1>3, <1>6 DEF a

\* The parts of a block that is cut in up to three.
LEMMA CarveStep ==
  ASSUME ParametersAssumption, AllocInv,
         NEW a \in fAdrMap, NEW p \in Int, NEW s \in Nat \ {0},
         NEW call \in Calls, Fits(a, p, s), Carve(a, p, s, call)
  PROVE  AllocInv' /\ Grants(p, s)
<1>a. PICK left, right, b :
        left = p - a /\ right = End(a) - (p + s) /\ b = p + s
  OBVIOUS
<1> USE DEF AllocInv
<1>0. /\ a \in Adr /\ fSize[a] \in 1 .. Size /\ End(a) = a + fSize[a]
      /\ Base \in Nat /\ Size \in Nat \ {0}
      /\ a <= p /\ p + s <= End(a) /\ End(a) <= Base + Size
      /\ End(a) # Base + Size => End(a) \in fAdrMap
      /\ ~fAllocated[a] /\ Base <= a
  BY BlockBounds DEF Fits, End, ParametersAssumption, Adr
<1>1. /\ left \in Nat /\ right \in Nat /\ left + s + right = fSize[a]
      /\ p \in Adr /\ s \in 1 .. Size /\ left < Size /\ right < Size
      /\ right > 0 => b \in Adr
      /\ b = End(a) - right /\ p < b
  BY <1>a, <1>0 DEF Adr
<1>2. \A x \in fAdrMap : x <= a \/ End(a) <= x
  BY DEF Tiled
<1>3. /\ p = a \/ p \notin fAdrMap
      /\ right > 0 => b \notin fAdrMap
      /\ left > 0 <=> p # a
  <2>1. \A x \in fAdrMap : x \in Int
    BY BlockBounds
  <2>2. End(a) \in Int /\ a \in Int /\ b \in Int /\ right \in Int
    BY <1>a, <1>0, <1>1 DEF Adr
  <2>a. a <= p /\ p < b /\ b = End(a) - right /\ right >= 0
    BY <1>0, <1>1
  <2>3. a <= p /\ p < End(a) /\ a < b /\ b = End(a) - right
    BY <2>a, <2>2
  <2>4. p \in fAdrMap => p = a
    BY <1>2, <2>2, <2>3
  <2>5. right > 0 => b \notin fAdrMap
    BY <1>2, <2>2, <2>3
  <2>6. left > 0 <=> p # a
    BY <1>a, <1>0, <2>2
  <2> QED BY <2>4, <2>5, <2>6
<1>4. /\ fAdrMap' = fAdrMap \cup {p} \cup (IF right > 0 THEN {b} ELSE {})
      /\ fSizeMap' = (fSizeMap \ {<<fSize[a], a>>})
                     \cup (IF left > 0 THEN {<<left, a>>} ELSE {})
                     \cup (IF right > 0 THEN {<<right, b>>} ELSE {})
      /\ fSize' = [x \in Adr |-> IF x = p THEN s
                                 ELSE IF x = a THEN left
                                 ELSE IF right > 0 /\ x = b THEN right
                                 ELSE fSize[x]]
      /\ fAllocated' = [fAllocated EXCEPT ![p] = TRUE]
      /\ ret' = Answer(call, p, s)
  BY <1>a DEF Carve
<1>5. /\ \A x : x \in fAdrMap' <=> x \in fAdrMap \/ x = p \/ (right > 0 /\ x = b)
      /\ \A x \in Adr : fAllocated'[x] <=> x = p \/ fAllocated[x]
      /\ \A x \in Adr : fSize'[x] = IF x = p THEN s
                                 ELSE IF x = a THEN left
                                 ELSE IF right > 0 /\ x = b THEN right
                                 ELSE fSize[x]
  <2>1. \A x : x \in fAdrMap' <=> x \in fAdrMap \/ x = p \/ (right > 0 /\ x = b)
    BY <1>4
  <2>2. \A x \in Adr : fAllocated'[x] <=> x = p \/ fAllocated[x]
    BY <1>4, <1>1 DEF TypeOK
  <2>3. \A x \in Adr : fSize'[x] = IF x = p THEN s
                                 ELSE IF x = a THEN left
                                 ELSE IF right > 0 /\ x = b THEN right
                                 ELSE fSize[x]
    BY <1>4
  <2> QED BY <2>1, <2>2, <2>3
<1>6. TypeOK'
  <2>1. fAdrMap' \subseteq Adr
    BY <1>5, <1>1 DEF TypeOK
  <2>2. fSizeMap' \subseteq (1 .. Size) \X Adr
    <3>1. left > 0 => <<left, a>> \in (1 .. Size) \X Adr
      BY <1>0, <1>1
    <3>2. right > 0 => <<right, b>> \in (1 .. Size) \X Adr
      BY <1>0, <1>1
    <3> QED BY <3>1, <3>2, <1>4 DEF TypeOK
  <2>3. fSize' \in [Adr -> 0 .. Size]
    <3>1. \A x \in Adr : fSize'[x] \in 0 .. Size
      BY <1>5, <1>1, <1>0 DEF TypeOK
    <3> QED BY <3>1, <1>4
  <2>4. fAllocated' \in [Adr -> BOOLEAN]
    BY <1>4, <1>1 DEF TypeOK
  <2>5. ret' \in [call : Calls, range : [adr : Adr, size : 0 .. Size]]
    BY <1>4, <1>1, <1>0 DEF Answer
  <2> QED BY <2>1, <2>2, <2>3, <2>4, <2>5 DEF TypeOK
\* The sizes of the blocks before and after.
<1>7. /\ fSize'[p] = s
      /\ p # a => fSize'[a] = left
      /\ right > 0 => fSize'[b] = right
      /\ \A x \in fAdrMap : x # a => fSize'[x] = fSize[x]
  BY <1>0, <1>1, <1>3, <1>5 DEF TypeOK
<1>8. /\ \A x \in fAdrMap : x \in Adr /\ x \in Int /\ fSize[x] \in 1 .. Size
      /\ p \in Int /\ b \in Int /\ a \in Int
  BY <1>0, <1>1, BlockBounds
<1>9. /\ \A x \in fAdrMap : x # a => End(x)' = End(x)
      /\ End(p)' = b
      /\ p # a => End(a)' = p
      /\ right > 0 => End(b)' = End(a)
  <2>1. \A x : End(x)' = x + fSize'[x] /\ End(x) = x + fSize[x]
    BY DEF End
  <2>2. \A x \in fAdrMap : x # a => End(x)' = End(x)
    BY <2>1, <1>7
  <2>3. End(p)' = b
    BY <2>1, <1>7, <1>a
  <2>4. p # a => End(a)' = p
    BY <2>1, <1>7, <1>a, <1>8
  <2>5. right > 0 => End(b)' = End(a)
    <3>1. right > 0 => End(b)' = b + right
      BY <2>1, <1>7
    <3>2. b = End(a) - right /\ right \in Int /\ End(a) \in Int
      BY <1>0, <1>1, <1>8
    <3> QED BY <3>1, <3>2, <1>8
  <2> QED BY <2>2, <2>3, <2>4, <2>5
<1>10. Tiled'
  <2>1. Base \in fAdrMap'
    BY <1>5 DEF Tiled
  <2>2. \A x \in Adr : fSize'[x] > 0 <=> x \in fAdrMap'
    BY <1>5, <1>1, <1>0, <1>3 DEF Tiled
  <2>3. \A x \in fAdrMap' : End(x)' = Base + Size \/ End(x)' \in fAdrMap'
    <3>1. b = End(a) \/ right > 0
      BY <1>1, <1>0
    <3> QED BY <1>5, <1>9, <1>0, <3>1 DEF Tiled
  <2>4. ASSUME NEW x \in fAdrMap', NEW y \in fAdrMap', x < y
        PROVE  End(x)' <= y
    <3>1. \A u, v \in fAdrMap : u < v => End(u) <= v
      BY DEF Tiled
    <3>2. \A u \in fAdrMap : u < a => End(u) <= a /\ End(u) \in Int
      BY <3>1, BlockBounds
    <3>3. \A u \in fAdrMap : u > a => u >= End(a) /\ u \in Int
      BY <3>1, <1>8
    <3>4. /\ End(a) \in Int /\ End(p)' = b
          /\ a <= p /\ p < b /\ b <= End(a)
          /\ right > 0 => b < End(a) \/ b = End(a) - right
          /\ ~(right > 0) => b = End(a)
      BY <1>0, <1>1, <1>8, <1>9
    <3>a. (y \in fAdrMap /\ y # a /\ y # p) \/ y = a \/ y = p \/ (right > 0 /\ y = b)
      BY <1>5
    <3>5. CASE x \in fAdrMap /\ x # a /\ x # p
      <4>1. End(x)' = End(x) /\ x \in Int /\ End(x) \in Int
        BY <3>5, <1>9, BlockBounds
      <4>2. CASE y \in fAdrMap
        BY <4>1, <4>2, <3>1, <3>5, <2>4
      <4>3. CASE y = p \/ (right > 0 /\ y = b)
        <5>1. x < End(a)
          BY <4>1, <4>3, <3>4, <2>4, <1>8
        <5>2. x < a
          BY <5>1, <3>3, <3>5, <4>1, <1>8, <3>4
        <5> QED BY <5>2, <3>2, <3>4, <3>5, <4>1, <4>3, <1>8
      <4> QED BY <3>a, <4>2, <4>3
    <3>6. CASE x = p
      <4>1. CASE y \in fAdrMap
        BY <4>1, <3>6, <2>4, <3>3, <3>4, <1>8
      <4> QED BY <4>1, <3>6, <2>4, <3>a, <3>4, <1>8
    <3>7. CASE x = a /\ p # a
      <4>1. End(x)' = p
        BY <3>7, <1>9
      <4>2. CASE y \in fAdrMap
        <5>1. y > a /\ y >= End(a) /\ y \in Int
          BY <4>2, <3>7, <2>4, <3>3
        <5> QED BY <4>1, <5>1, <3>4, <1>8
      <4> QED BY <4>1, <4>2, <3>7, <2>4, <3>a, <3>4, <1>8
    <3>8. CASE right > 0 /\ x = b
      <4>1. End(x)' = End(a)
        BY <3>8, <1>9
      <4>2. CASE y \in fAdrMap
        <5>a. y \in Int /\ b < y
          BY <4>2, <3>8, <2>4, <1>8
        <5>1. y \in Int /\ y > a
          BY <5>a, <3>4, <1>8
        <5>2. y >= End(a)
          BY <4>2, <5>1, <3>3
        <5> QED BY <4>1, <5>2
      <4> QED BY <4>1, <4>2, <3>8, <2>4, <3>a, <3>4, <1>8
    <3> QED BY <3>5, <3>6, <3>7, <3>8, <1>5
  <2> QED BY <2>1, <2>2, <2>3, <2>4 DEF Tiled
<1>11. SizeMapExact'
  <2>1. \A n, x : <<n, x>> \in fSizeMap <=>
                    x \in fAdrMap /\ ~fAllocated[x] /\ n = fSize[x]
    BY SizeMapByPairs DEF SizeMapPairs
  <2>2. ASSUME NEW n, NEW x
        PROVE  <<n, x>> \in fSizeMap' <=>
                 x \in fAdrMap' /\ ~fAllocated'[x] /\ n = fSize'[x]
    <3>1. <<n, x>> \in fSizeMap' <=>
            \/ x \in fAdrMap /\ ~fAllocated[x] /\ n = fSize[x] /\ x # a
            \/ left > 0 /\ n = left /\ x = a
            \/ right > 0 /\ n = right /\ x = b
      BY <1>4, <2>1
    <3>2. x \in fAdrMap' => x \in Adr
      BY <1>6 DEF TypeOK
    <3>3. fAllocated'[p]
      BY <1>5, <1>1
    <3>4. right > 0 => ~fAllocated'[b]
      BY <1>1, <1>3, <1>5 DEF AllocatedAreBlocks
    <3>5. p # a => ~fAllocated'[a]
      BY <1>0, <1>5
    <3>6. x \in fAdrMap /\ x # p => (fAllocated'[x] <=> fAllocated[x])
      BY <1>5, <1>8
    <3> QED BY <3>1, <3>2, <3>3, <3>4, <3>5, <3>6, <1>3, <1>5, <1>7, <1>1
  <2>3. TypeOK' => (SizeMapExact' <=> SizeMapPairs')
    BY SizeMapByPairs, PTL
  <2>4. SizeMapPairs'
    BY <2>2 DEF SizeMapPairs
  <2> QED BY <2>3, <2>4, <1>6
<1>12. Coalesced'
  <2>1. \A x \in fAdrMap : x # a => End(x)' = End(x)
    BY <1>9
  <2>2. ASSUME NEW x \in fAdrMap', NEW y \in fAdrMap', End(x)' = y,
               ~fAllocated'[x], ~fAllocated'[y]
        PROVE  FALSE
    <3>1. x # p /\ y # p
      BY <1>1, <1>5, <2>2
    <3>2. \A u \in fAdrMap : u # p => (fAllocated'[u] <=> fAllocated[u])
      BY <1>5, <1>8
    <3>3. CASE x \in fAdrMap /\ x # a
      <4>1. End(x) = y /\ ~fAllocated[x]
        BY <3>3, <2>2, <1>9, <3>2, <3>1
      <4>2. y \notin fAdrMap
        BY <4>1, <3>3, <3>2, <3>1, <2>2 DEF Coalesced
      <4>3. right > 0 /\ y = b
        BY <4>2, <3>1, <1>5
      <4>4. End(x) \in fAdrMap \/ End(x) = Base + Size
        BY <3>3 DEF Tiled
      <4> QED BY <4>1, <4>2, <4>3, <4>4, <1>1, <1>0
    <3>4. CASE x = a
      BY <3>4, <3>1, <2>2, <1>9
    <3>5. CASE right > 0 /\ x = b
      <4>1. y = End(a)
        BY <3>5, <1>9, <2>2
      <4>2. y # b /\ y \in fAdrMap
        BY <4>1, <3>1, <3>5, <1>0, <1>1, <1>5, <2>2
      <4>3. fAllocated[y]
        BY <4>1, <4>2, <1>0 DEF Coalesced
      <4> QED BY <4>2, <4>3, <3>1, <3>2, <2>2
    <3> QED BY <3>1, <3>3, <3>4, <3>5, <1>5
  <2> QED BY <2>2 DEF Coalesced
<1>13. AllocatedAreBlocks'
  BY <1>5 DEF AllocatedAreBlocks
<1>14. Grants(p, s)
  <2>1. \A x \in fAdrMap : fAllocated[x] => x # a /\ x # p
    BY <1>0, <1>3
  <2>2. right > 0 => ~fAllocated'[b]
    BY <1>1, <1>3, <1>5 DEF AllocatedAreBlocks
  <2>3. p \in fAdrMap' /\ fAllocated'[p]
    BY <1>1, <1>5
  <2>4. ASSUME NEW x
        PROVE  x \in fAdrMap' /\ fAllocated'[x] <=>
                 x = p \/ (x \in fAdrMap /\ fAllocated[x])
    <3>1. CASE x = p
      BY <3>1, <2>3
    <3>2. CASE x # p /\ x \in fAdrMap
      BY <3>2, <1>5, <1>8
    <3>3. CASE x # p /\ x \notin fAdrMap
      BY <3>3, <2>2, <1>5
    <3> QED BY <3>1, <3>2, <3>3
  <2> QED BY <2>1, <2>3, <2>4, <1>7 DEF Grants
<1> QED BY <1>6, <1>10, <1>11, <1>12, <1>13, <1>14

-----------------------------------------------------------------------------
(* Giving a range back.                                                    *)

\* The neighbours in fAdrMap are the blocks that touch.
LEMMA Neighbours ==
  ASSUME ParametersAssumption, TypeOK, Tiled, NEW p \in fAdrMap
  PROVE  /\ \A b : b \in Previous(p) <=> b \in fAdrMap /\ End(b) = p
         /\ \A b : b \in NextBlock(p) <=> b \in fAdrMap /\ b = End(p)
<1>1. /\ \A x \in fAdrMap : /\ x \in Int /\ End(x) \in Int /\ x < End(x)
                            /\ End(x) # Base + Size => End(x) \in fAdrMap
                            /\ x < Base + Size /\ End(x) <= Base + Size
      /\ Base + Size \in Int
  BY BlockBounds DEF Adr, ParametersAssumption
<1>2. \A x, y \in fAdrMap : x < y => End(x) <= y
  BY DEF Tiled
<1>3. ASSUME NEW b \in Previous(p) PROVE b \in fAdrMap /\ End(b) = p
  <2>1. b \in fAdrMap /\ b < p /\ \A c \in fAdrMap : c < p => c <= b
    BY DEF Previous
  <2>2. End(b) <= p /\ End(b) \in fAdrMap
    BY <2>1, <1>1, <1>2
  <2> QED BY <2>1, <2>2, <1>1
<1>4. ASSUME NEW b \in fAdrMap, End(b) = p PROVE b \in Previous(p)
  <2>1. b < p
    BY <1>1, <1>4
  <2>2. ASSUME NEW c \in fAdrMap, c < p PROVE c <= b
    BY <2>2, <1>1, <1>2, <1>4
  <2> QED BY <2>1, <2>2 DEF Previous
<1>5. ASSUME NEW b \in NextBlock(p) PROVE b \in fAdrMap /\ b = End(p)
  <2>1. b \in fAdrMap /\ p < b /\ \A c \in fAdrMap : c > p => c >= b
    BY DEF NextBlock
  <2>2. End(p) <= b /\ End(p) \in fAdrMap
    BY <2>1, <1>1, <1>2
  <2> QED BY <2>1, <2>2, <1>1
<1>6. ASSUME NEW b \in fAdrMap, b = End(p) PROVE b \in NextBlock(p)
  <2>1. b > p
    BY <1>1, <1>6
  <2>2. \A c \in fAdrMap : c > p => c >= b
    BY <1>1, <1>2, <1>6
  <2> QED BY <2>1, <2>2 DEF NextBlock
<1> QED BY <1>3, <1>4, <1>5, <1>6

\* Free replaces a run of blocks, of which only p is allocated, by one free
\* block from start to end whose neighbours are allocated.
Joined(p, start, end, gone) ==
  /\ start \in fAdrMap /\ start <= p /\ end \in Int /\ p < end
  /\ end <= Base + Size /\ (end = Base + Size \/ end \in fAdrMap)
  /\ \A x : x \in gone <=> x \in fAdrMap /\ start < x /\ x < end
  /\ \A x \in fAdrMap : start <= x /\ x < end => x = p \/ ~fAllocated[x]
  /\ \A x \in fAdrMap : End(x) = start => fAllocated[x]
  /\ end \in fAdrMap => fAllocated[end]
  /\ fAdrMap' = fAdrMap \ gone
  /\ \A n, x : <<n, x>> \in fSizeMap' <=>
       \/ <<n, x>> \in fSizeMap /\ ~(start <= x /\ x < end)
       \/ n = end - start /\ x = start
  /\ fSize' = [x \in Adr |-> IF x = start THEN end - start
                             ELSE IF x \in gone THEN 0
                             ELSE fSize[x]]
  /\ fAllocated' = [fAllocated EXCEPT ![p] = FALSE]
  /\ ret' = Answer(<<"Free", p>>, p, fSize[p])

LEMMA FreeJoins ==
  ASSUME ParametersAssumption, AllocInv, NEW p \in fAdrMap, Free(p)
  PROVE  \E start, end, gone :
           /\ Joined(p, start, end, gone)
           /\ fSizeMap' \subseteq fSizeMap \cup {<<end - start, start>>}
<1> USE DEF AllocInv
<1> DEFINE prev == {b \in Previous(p) : ~fAllocated[b]}
           next == {b \in NextBlock(p) : ~fAllocated[b]}
           start == IF prev = {} THEN p ELSE CHOOSE b \in prev : TRUE
           end == IF next = {} THEN End(p) ELSE End(CHOOSE b \in next : TRUE)
           gone == (next \cup {p}) \ {start}
<1>1. /\ fAdrMap' = fAdrMap \ gone
      /\ fSizeMap' = (fSizeMap \ {<<fSize[b], b>> : b \in prev \cup next})
                      \cup {<<end - start, start>>}
      /\ fSize' = [x \in Adr |-> IF x = start THEN end - start
                                  ELSE IF x \in gone THEN 0
                                  ELSE fSize[x]]
      /\ fAllocated' = [fAllocated EXCEPT ![p] = FALSE]
      /\ ret' = Answer(<<"Free", p>>, p, fSize[p])
      /\ prev = {b \in Previous(p) : ~fAllocated[b]}
      /\ next = {b \in NextBlock(p) : ~fAllocated[b]}
      /\ start = IF prev = {} THEN p ELSE CHOOSE b \in prev : TRUE
      /\ end = IF next = {} THEN End(p) ELSE End(CHOOSE b \in next : TRUE)
      /\ gone = (next \cup {p}) \ {start}
  BY DEF Free
<1> HIDE DEF prev, next, start, end, gone
<1>2. /\ \A x \in fAdrMap : /\ x \in Int /\ End(x) \in Int /\ x < End(x)
                            /\ End(x) # Base + Size => End(x) \in fAdrMap
                            /\ x < Base + Size /\ End(x) <= Base + Size
      /\ Base + Size \in Int
  BY BlockBounds DEF Adr, ParametersAssumption
<1>3. \A x, y \in fAdrMap : x < y => End(x) <= y
  BY DEF Tiled
<1>4. \A x, y \in fAdrMap : End(x) = y => fAllocated[x] \/ fAllocated[y]
  BY DEF Coalesced
<1>5. fAllocated[p]
  BY DEF Free
<1>6. /\ \A b : b \in prev <=> b \in fAdrMap /\ End(b) = p /\ ~fAllocated[b]
      /\ \A b : b \in next <=> b \in fAdrMap /\ b = End(p) /\ ~fAllocated[b]
  BY <1>1, Neighbours
\* The left end.
<1>7. \/ /\ prev = {} /\ start = p
         /\ \A x \in fAdrMap : End(x) = p => fAllocated[x]
      \/ /\ prev = {start} /\ start \in fAdrMap /\ start < p /\ End(start) = p
         /\ ~fAllocated[start]
         /\ \A x \in fAdrMap : End(x) = start => fAllocated[x]
  <2>1. CASE prev = {}
    BY <2>1, <1>1, <1>6
  <2>2. CASE prev # {}
    <3>1. start \in prev
      BY <2>2, <1>1
    <3>2. start \in fAdrMap /\ End(start) = p /\ ~fAllocated[start]
      BY <3>1, <1>6
    <3>3. start < p
      BY <3>2, <1>2
    <3>4. ASSUME NEW b \in prev PROVE b = start
      <4>1. b \in fAdrMap /\ End(b) = p
        BY <1>6
      <4> QED BY <4>1, <3>2, <3>3, <1>2, <1>3
    <3> QED BY <3>1, <3>2, <3>3, <3>4, <1>4
  <2> QED BY <2>1, <2>2
\* The right end.
<1>8. \/ /\ next = {} /\ end = End(p)
         /\ end \in fAdrMap => fAllocated[end]
      \/ /\ next = {End(p)} /\ End(p) \in fAdrMap /\ end = End(End(p))
         /\ ~fAllocated[End(p)]
         /\ end \in fAdrMap => fAllocated[end]
  <2>1. CASE next = {}
    BY <2>1, <1>1, <1>6
  <2>2. CASE next # {}
    <3>1. next = {End(p)} /\ (CHOOSE b \in next : TRUE) = End(p)
      BY <2>2, <1>6
    <3>2. End(p) \in fAdrMap /\ ~fAllocated[End(p)]
      BY <3>1, <1>6
    <3>3. end = End(End(p))
      BY <2>2, <3>1, <1>1
    <3> QED BY <3>1, <3>2, <3>3, <1>4
  <2> QED BY <2>1, <2>2
<1>9. /\ start \in fAdrMap /\ start \in Int /\ start <= p
      /\ end \in Int /\ p < end /\ End(p) <= end
      /\ end <= Base + Size /\ (end = Base + Size \/ end \in fAdrMap)
  BY <1>2, <1>7, <1>8
<1>10. \A x \in fAdrMap : start <= x /\ x < end <=> x \in gone \/ x = start
  <2>1. ASSUME NEW x \in fAdrMap, start <= x, x < end
        PROVE  x = start \/ x = p \/ x \in next
    <3>1. CASE x < p
      BY <3>1, <2>1, <1>2, <1>3, <1>7
    <3>2. CASE x > p
      <4>1. End(p) <= x
        BY <3>2, <1>3
      <4>2. next = {End(p)} /\ end = End(End(p)) /\ End(p) \in fAdrMap
        BY <4>1, <2>1, <1>2, <1>8
      <4>3. ~(End(p) < x)
        BY <4>2, <2>1, <1>2, <1>3
      <4> QED BY <4>1, <4>2, <4>3, <1>2
    <3> QED BY <3>1, <3>2, <1>2
  <2>2. ASSUME NEW x \in next PROVE start <= x /\ x < end
    <3>1. x = End(p) /\ x \in fAdrMap /\ end = End(End(p))
      BY <1>6, <1>8
    <3> QED BY <3>1, <1>2, <1>9
  <2>3. \A x : x \in gone <=> (x \in next \/ x = p) /\ x # start
    BY <1>1
  <2> QED BY <2>1, <2>2, <2>3, <1>9
<1>11. \A x : x \in gone <=> x \in fAdrMap /\ start < x /\ x < end
  <2>1. \A x : x \in gone => x \in fAdrMap /\ x # start
    BY <1>1, <1>6
  <2>2. \A x \in fAdrMap : start < x <=> start <= x /\ x # start
    BY <1>9, <1>2
  <2> QED BY <2>1, <2>2, <1>10
<1>12. \A x \in fAdrMap : start <= x /\ x < end => x = p \/ ~fAllocated[x]
  BY <1>1, <1>6, <1>7, <1>10
<1>13. ASSUME NEW n, NEW x
       PROVE  <<n, x>> \in fSizeMap' <=>
                \/ <<n, x>> \in fSizeMap /\ ~(start <= x /\ x < end)
                \/ n = end - start /\ x = start
  <2>1. <<n, x>> \in fSizeMap =>
          x \in fAdrMap /\ ~fAllocated[x] /\ n = fSize[x]
    BY SizeMapByPairs DEF SizeMapPairs
  <2>2. x \in fAdrMap /\ ~fAllocated[x] =>
          (x \in prev \cup next <=> start <= x /\ x < end)
    <3>1. \A y : y \in prev => y = start
      BY <1>7
    <3>2. \A y : y \in gone => y \in next \/ y = p
      BY <1>1
    <3>3. \A y : y \in next => y \in gone \/ y = start
      BY <1>1
    <3>4. start \in prev \/ start = p
      BY <1>7
    <3> QED BY <3>1, <3>2, <3>3, <3>4, <1>5, <1>9, <1>10
  <2>3. <<n, x>> \in {<<fSize[b], b>> : b \in prev \cup next} <=>
          x \in prev \cup next /\ n = fSize[x]
    OBVIOUS
  <2> QED BY <2>1, <2>2, <2>3, <1>1
<1>14. Joined(p, start, end, gone)
  BY <1>1, <1>7, <1>8, <1>9, <1>11, <1>12, <1>13 DEF Joined
<1> QED BY <1>1, <1>14

LEMMA FreeStep ==
  ASSUME ParametersAssumption, AllocInv, NEW p \in fAdrMap, Free(p)
  PROVE  AllocInv' /\ TakesBack(p)
<1> USE DEF AllocInv
<1>1. PICK start, end, gone :
        /\ Joined(p, start, end, gone)
        /\ fSizeMap' \subseteq fSizeMap \cup {<<end - start, start>>}
  BY FreeJoins
<1>2. /\ start \in fAdrMap /\ start <= p /\ end \in Int /\ p < end
      /\ end <= Base + Size /\ (end = Base + Size \/ end \in fAdrMap)
      /\ \A x : x \in gone <=> x \in fAdrMap /\ start < x /\ x < end
      /\ \A x \in fAdrMap : start <= x /\ x < end => x = p \/ ~fAllocated[x]
      /\ \A x \in fAdrMap : End(x) = start => fAllocated[x]
      /\ end \in fAdrMap => fAllocated[end]
  BY <1>1 DEF Joined
<1>3. /\ fAdrMap' = fAdrMap \ gone
      /\ \A n, x : <<n, x>> \in fSizeMap' <=>
           \/ <<n, x>> \in fSizeMap /\ ~(start <= x /\ x < end)
           \/ n = end - start /\ x = start
      /\ fSize' = [x \in Adr |-> IF x = start THEN end - start
                                 ELSE IF x \in gone THEN 0
                                 ELSE fSize[x]]
      /\ fAllocated' = [fAllocated EXCEPT ![p] = FALSE]
      /\ ret' = Answer(<<"Free", p>>, p, fSize[p])
  BY <1>1 DEF Joined
<1>4. /\ \A x \in fAdrMap : /\ x \in Adr /\ x \in Int /\ fSize[x] \in 1 .. Size
                            /\ End(x) \in Int /\ x < End(x)
                            /\ End(x) # Base + Size => End(x) \in fAdrMap
                            /\ Base <= x /\ x < Base + Size
                            /\ End(x) <= Base + Size
      /\ Base \in Int /\ Size \in Int /\ Base + Size \in Int
  BY BlockBounds DEF Adr, ParametersAssumption
<1>5. \A x, y \in fAdrMap : x < y => End(x) <= y
  BY DEF Tiled
<1>6. end - start \in 1 .. Size /\ start \in Int
  BY <1>2, <1>4
\* Of the blocks that stay, start alone changes.
<1>7. /\ \A x \in fAdrMap' : x \in fAdrMap /\ (x = start \/ x < start \/ end <= x)
      /\ \A x \in fAdrMap : x < start \/ end <= x => x \in fAdrMap'
      /\ start \in fAdrMap'
  BY <1>2, <1>3, <1>4
<1>8. /\ End(start)' = end /\ fSize'[start] = end - start
      /\ \A x \in fAdrMap' : x # start => /\ End(x)' = End(x)
                                          /\ fSize'[x] = fSize[x]
  <2>1. \A x : End(x)' = x + fSize'[x] /\ End(x) = x + fSize[x]
    BY DEF End
  <2>2. fSize'[start] = end - start
    BY <1>2, <1>3, <1>4
  <2>3. \A x \in fAdrMap' : x # start => fSize'[x] = fSize[x]
    BY <1>3, <1>4
  <2>4. End(start)' = end
    BY <2>1, <2>2, <1>2, <1>6
  <2> QED BY <2>1, <2>2, <2>3, <2>4
<1>9. \A x \in Adr : fAllocated'[x] <=> x # p /\ fAllocated[x]
  BY <1>3 DEF TypeOK
<1>10. TypeOK'
  <2>1. fAdrMap' \subseteq Adr
    BY <1>3, <1>4
  <2>2. fSizeMap' \subseteq (1 .. Size) \X Adr
    <3>1. <<end - start, start>> \in (1 .. Size) \X Adr
      BY <1>2, <1>4, <1>6
    <3> QED BY <3>1, <1>1 DEF TypeOK
  <2>3. fSize' \in [Adr -> 0 .. Size]
    <3>1. \A x \in Adr : fSize'[x] \in 0 .. Size
      <4>1. 0 \in 0 .. Size /\ end - start \in 0 .. Size
        BY <1>6, <1>4
      <4>2. \A x \in Adr : fSize[x] \in 0 .. Size
        BY DEF TypeOK
      <4> QED BY <4>1, <4>2, <1>3
    <3> QED BY <3>1, <1>3
  <2>4. fAllocated' \in [Adr -> BOOLEAN]
    BY <1>3 DEF TypeOK
  <2>5. ret' \in [call : Calls, range : [adr : Adr, size : 0 .. Size]]
    <3>1. <<"Free", p>> \in Calls
      BY <1>4 DEF Calls
    <3>2. fSize[p] \in 0 .. Size
      BY <1>4
    <3> QED BY <3>1, <3>2, <1>3, <1>4 DEF Answer
  <2> QED BY <2>1, <2>2, <2>3, <2>4, <2>5 DEF TypeOK
<1>11. Tiled'
  <2>1. Base \in fAdrMap'
    BY <1>2, <1>4, <1>7 DEF Tiled
  <2>2. ASSUME NEW x \in Adr PROVE fSize'[x] > 0 <=> x \in fAdrMap'
    <3>1. CASE x \in gone
      BY <3>1, <1>2, <1>3, <1>4, <1>6
    <3>2. CASE x = start
      BY <3>2, <1>6, <1>7, <1>8
    <3>3. CASE x # start /\ x \notin gone
      BY <3>3, <1>3 DEF Tiled
    <3> QED BY <3>1, <3>2, <3>3
  <2>3. ASSUME NEW x \in fAdrMap'
        PROVE  End(x)' = Base + Size \/ End(x)' \in fAdrMap'
    <3>1. CASE x = start
      BY <3>1, <1>2, <1>7, <1>8
    <3>2. CASE x < start
      <4>1. End(x) <= start
        BY <3>2, <1>2, <1>5, <1>7
      <4>2. End(x) \in fAdrMap
        BY <4>1, <1>2, <1>4, <1>7
      <4> QED BY <4>1, <4>2, <1>2, <1>4, <1>7, <1>8, <3>2
    <3>3. CASE end <= x
      BY <3>3, <1>2, <1>4, <1>7, <1>8
    <3> QED BY <3>1, <3>2, <3>3, <1>7
  <2>4. ASSUME NEW x \in fAdrMap', NEW y \in fAdrMap', x < y
        PROVE  End(x)' <= y
    <3>1. CASE x = start
      BY <3>1, <2>4, <1>4, <1>6, <1>7, <1>8
    <3>2. CASE x # start
      BY <3>2, <2>4, <1>5, <1>7, <1>8
    <3> QED BY <3>1, <3>2
  <2> QED BY <2>1, <2>2, <2>3, <2>4 DEF Tiled
<1>12. SizeMapExact'
  <2>1. ASSUME NEW n, NEW x
        PROVE  <<n, x>> \in fSizeMap' <=>
                 x \in fAdrMap' /\ ~fAllocated'[x] /\ n = fSize'[x]
    <3>1. <<n, x>> \in fSizeMap <=>
            x \in fAdrMap /\ ~fAllocated[x] /\ n = fSize[x]
      BY SizeMapByPairs DEF SizeMapPairs
    <3>2. ~fAllocated'[start]
      BY <1>2, <1>4, <1>6, <1>9
    <3>3. CASE x = start
      BY <3>2, <3>3, <1>2, <1>3, <1>6, <1>7, <1>8
    <3>4. CASE x # start
      <4>1. <<n, x>> \in fSizeMap' <=>
              x \in fAdrMap' /\ ~fAllocated[x] /\ n = fSize[x]
        BY <3>1, <3>4, <1>2, <1>3, <1>4
      <4>2. x \in fAdrMap' => (fAllocated'[x] <=> fAllocated[x])
        <5>1. x \in fAdrMap' => x # p
          BY <3>4, <1>2, <1>4, <1>7
        <5> QED BY <5>1, <1>4, <1>7, <1>9
      <4> QED BY <4>1, <4>2, <3>4, <1>8
    <3> QED BY <3>3, <3>4
  <2>2. SizeMapPairs'
    BY <2>1 DEF SizeMapPairs
  <2>3. TypeOK' => (SizeMapExact' <=> SizeMapPairs')
    BY SizeMapByPairs, PTL
  <2> QED BY <2>2, <2>3, <1>10
<1>13. Coalesced'
  <2>1. ASSUME NEW x \in fAdrMap', NEW y \in fAdrMap', End(x)' = y
        PROVE  fAllocated'[x] \/ fAllocated'[y]
    <3>1. \A u \in fAdrMap' : u # start => (fAllocated'[u] <=> fAllocated[u])
      <4>1. ASSUME NEW u \in fAdrMap', u # start PROVE u # p /\ u \in Adr
        BY <4>1, <1>2, <1>4, <1>7
      <4> QED BY <4>1, <1>9
    <3>2. CASE x = start
      <4>1. y = end /\ y # start
        BY <3>2, <2>1, <1>8, <1>2, <1>6
      <4> QED BY <4>1, <3>1, <1>2, <1>7
    <3>3. CASE x # start
      <4>1. End(x) = y /\ x \in fAdrMap
        BY <3>3, <2>1, <1>7, <1>8
      <4>2. CASE y = start
        BY <4>1, <4>2, <3>1, <3>3, <1>2
      <4>3. CASE y # start
        BY <4>1, <4>3, <3>1, <3>3, <1>7 DEF Coalesced
      <4> QED BY <4>2, <4>3
    <3> QED BY <3>2, <3>3
  <2> QED BY <2>1 DEF Coalesced
<1>14. AllocatedAreBlocks'
  <2>1. ASSUME NEW x \in Adr, fAllocated'[x] PROVE x \in fAdrMap'
    <3>1. x # p /\ fAllocated[x] /\ x \in fAdrMap
      BY <2>1, <1>9 DEF AllocatedAreBlocks
    <3> QED BY <3>1, <1>2, <1>3, <1>4, <1>6
  <2> QED BY <2>1 DEF AllocatedAreBlocks
<1>15. TakesBack(p)
  <2>1. ~fAllocated'[start]
    BY <1>2, <1>4, <1>6, <1>9
  <2>2. ASSUME NEW x
        PROVE  x \in fAdrMap' /\ fAllocated'[x] <=>
                 x # p /\ x \in fAdrMap /\ fAllocated[x]
    <3>1. x \in fAdrMap /\ fAllocated[x] /\ x # p => x \in fAdrMap'
      BY <1>2, <1>3, <1>4, <1>6
    <3> QED BY <3>1, <1>4, <1>7, <1>9
  <2>3. ASSUME NEW x \in fAdrMap, fAllocated[x], x # p
        PROVE  fSize'[x] = fSize[x]
    <3>1. x \in fAdrMap' /\ fAllocated'[x]
      BY <2>2, <2>3
    <3> QED BY <3>1, <2>1, <1>8
  <2> QED BY <2>2, <2>3 DEF TakesBack
<1> QED BY <1>10, <1>11, <1>12, <1>13, <1>14, <1>15

-----------------------------------------------------------------------------
(* The whole allocator.                                                    *)

LEMMA AllocInit == ASSUME ParametersAssumption, Init PROVE AllocInv
<1>1. Base \in Adr /\ Size \in 1 .. Size /\ Base \in Int
  BY DEF ParametersAssumption, Adr
<1>2. \A x \in Adr : fSize[x] = (IF x = Base THEN Size ELSE 0) /\ ~fAllocated[x]
  BY DEF Init
<1>3. TypeOK
  <2>1. fSizeMap \subseteq (1 .. Size) \X Adr
    BY <1>1 DEF Init
  <2>2. fSize \in [Adr -> 0 .. Size]
    BY <1>1 DEF Init, ParametersAssumption
  <2>3. ret \in [call : Calls, range : [adr : Adr, size : 0 .. Size]]
    BY <1>1 DEF Init, Answer, Calls, ParametersAssumption
  <2> QED BY <1>1, <2>1, <2>2, <2>3 DEF Init, TypeOK
<1>4. Tiled
  BY <1>1, <1>2 DEF Init, Tiled, End, ParametersAssumption
<1>5. SizeMapExact
  <2>1. {b \in fAdrMap : ~fAllocated[b]} = {Base} /\ fSize[Base] = Size
    BY <1>1, <1>2 DEF Init
  <2> QED BY <2>1 DEF Init, SizeMapExact
<1>6. Coalesced /\ AllocatedAreBlocks
  <2>1. End(Base) # Base
    BY <1>1, <1>2 DEF End, ParametersAssumption
  <2> QED BY <2>1, <1>2 DEF Init, Coalesced, AllocatedAreBlocks
<1> QED BY <1>3, <1>4, <1>5, <1>6 DEF AllocInv

\* A call that fails changes its answer alone.
LEMMA FailStep ==
  ASSUME ParametersAssumption, AllocInv, NEW call \in Calls, Fail(call)
  PROVE  AllocInv'
<1>1. UNCHANGED <<fAdrMap, fSizeMap, fSize, fAllocated>>
  BY DEF Fail
<1>2. ret' \in [call : Calls, range : [adr : Adr, size : 0 .. Size]]
  <2>1. Base \in Adr /\ 0 \in 0 .. Size
    BY DEF ParametersAssumption, Adr
  <2> QED BY <2>1 DEF Fail, Answer
<1> QED BY <1>1, <1>2 DEF AllocInv, TypeOK, Tiled, SizeMapExact, Coalesced,
                          AllocatedAreBlocks, End

\* A call that has placed a range at p, or failed because it fits nowhere.
LEMMA PlaceStep ==
  ASSUME ParametersAssumption, AllocInv, NEW p \in Int, NEW s \in Nat \ {0},
         NEW call \in Calls, Place(p, s, call)
  PROVE  AllocInv'
<1>1. ASSUME NEW a \in Floor(p), Fits(a, p, s), Carve(a, p, s, call)
      PROVE  AllocInv'
  <2>1. a \in fAdrMap
    BY DEF Floor
  <2> QED BY <2>1, <1>1, CarveStep
<1>2. ASSUME Fail(call) PROVE AllocInv'
  BY <1>2, FailStep
<1> QED BY <1>1, <1>2 DEF Place

LEMMA DivMod ==
  ASSUME NEW n \in Nat, NEW k \in Nat \ {0}
  PROVE  /\ n \div k \in Nat /\ n % k \in 0 .. k - 1
         /\ n = k * (n \div k) + (n % k)
<1>1. n \div k \in Int /\ n % k \in 0 .. k - 1
  OBVIOUS
<1>2. n = k * (n \div k) + (n % k)
  OBVIOUS
<1>3. ASSUME n \div k <= -1 PROVE FALSE
  <2>1. k * (n \div k) <= -k
    BY <1>1, <1>3
  <2> QED BY <1>1, <1>2, <2>1
<1> QED BY <1>1, <1>2, <1>3

LEMMA RoundUpBounds ==
  ASSUME NEW a \in Nat, NEW align \in Nat \ {0}
  PROVE  /\ RoundUp(a, align) \in Nat
         /\ a <= RoundUp(a, align) /\ RoundUp(a, align) <= a + align - 1
         /\ RoundUp(a, align) % align = 0
<1> DEFINE q == (a + align - 1) \div align
<1>1. /\ q \in Nat
      /\ a + align - 1 = align * q + ((a + align - 1) % align)
      /\ (a + align - 1) % align \in 0 .. align - 1
  OBVIOUS
<1>2. q * align = align * q
  BY <1>1
<1> HIDE DEF q
<1>3. (q * align) % align = 0
  <2> DEFINE n == q * align
             d == n \div align
             m == n % align
  <2>1. n \in Nat /\ d \in Int /\ m \in 0 .. align - 1 /\ n = align * d + m
    <3>1. n \in Nat
      BY <1>1
    <3> HIDE DEF n
    <3> QED BY <3>1, DivMod
  <2>2. align * q = align * d + m
    BY <1>2, <2>1
  <2> HIDE DEF n, d, m
  <2>3. m = align * (q - d)
    BY <1>1, <2>1, <2>2
  <2>4. q - d >= 1 => align * (q - d) >= align
    BY <1>1, <2>1
  <2>5. q - d <= -1 => align * (q - d) <= -align
    BY <1>1, <2>1
  <2>6. q - d = 0
    BY <1>1, <2>1, <2>3, <2>4, <2>5
  <2>7. m = 0
    BY <2>3, <2>6
  <2> QED BY <2>7 DEF m, n
<1> QED BY <1>1, <1>2, <1>3 DEF RoundUp, q

LEMMA AllocNext ==
  ASSUME ParametersAssumption, AllocInv, [Next]_vars
  PROVE  AllocInv'
<1>0. /\ \A s \in Sizes : s \in Nat \ {0} /\ <<"Alloc", s>> \in Calls
      /\ \A s \in Sizes, p \in Adr : <<"AllocAt", p, s>> \in Calls
      /\ \A s \in Sizes, align \in Aligns :
           <<"AllocAligned", s, align>> \in Calls /\ align \in Nat \ {0}
      /\ \A a \in fAdrMap : a \in Nat
      /\ \A a \in Adr : a \in Int
  <2>1. /\ \A s \in Sizes : s \in Nat \ {0}
        /\ \A align \in Aligns : align \in Nat \ {0}
    BY DEF ParametersAssumption
  <2>2. /\ \A s \in Sizes : <<"Alloc", s>> \in Calls
        /\ \A s \in Sizes, p \in Adr : <<"AllocAt", p, s>> \in Calls
        /\ \A s \in Sizes, align \in Aligns :
             <<"AllocAligned", s, align>> \in Calls
    BY DEF Calls
  <2>3. \A a \in Adr : a \in Nat /\ a \in Int
    BY DEF ParametersAssumption, Adr
  <2>4. fAdrMap \subseteq Adr
    BY DEF AllocInv, TypeOK
  <2> QED BY <2>1, <2>2, <2>3, <2>4
<1>1. ASSUME NEW s \in Sizes, Alloc(s) PROVE AllocInv'
  <2>1. ASSUME NEW e \in BestFit(s), AllocBlock(e, s, <<"Alloc", s>>)
        PROVE  AllocInv'
    <3>1. e \in fSizeMap /\ e[1] >= s
      BY DEF BestFit
    <3>2. Fits(e[2], e[2], s) /\ Carve(e[2], e[2], s, <<"Alloc", s>>)
      BY <2>1, <3>1, <1>0, AllocBlockCarves DEF AllocInv
    <3>3. e[2] \in fAdrMap
      BY <3>1, EntryBlock DEF AllocInv
    <3> QED BY <3>2, <3>3, <1>0, CarveStep
  <2>2. ASSUME Fail(<<"Alloc", s>>) PROVE AllocInv'
    BY <2>2, <1>0, FailStep
  <2> QED BY <2>1, <2>2, <1>1 DEF Alloc
<1>2. ASSUME NEW p \in Adr, NEW s \in Sizes, AllocAt(p, s) PROVE AllocInv'
  BY <1>0, <1>2, PlaceStep DEF AllocAt
<1>3. ASSUME NEW s \in Sizes, NEW align \in Aligns, AllocAligned(s, align)
      PROVE  AllocInv'
  <2> DEFINE call == <<"AllocAligned", s, align>>
  <2>1. ASSUME NEW e \in BestFit(s + align - 1),
               Place(RoundUp(e[2], align), s, call)
        PROVE  AllocInv'
    <3>1. e[2] \in fAdrMap
      BY EntryBlock DEF AllocInv, BestFit
    <3>2. RoundUp(e[2], align) \in Int
      <4>1. e[2] \in Nat /\ align \in Nat \ {0}
        BY <3>1, <1>0
      <4>2. RoundUp(e[2], align) \in Nat
        BY <4>1, RoundUpBounds, Zenon
      <4> QED BY <4>2
    <3> QED BY <2>1, <3>2, <1>0, PlaceStep
  <2>2. ASSUME Fail(call) PROVE AllocInv'
    BY <2>2, <1>0, FailStep
  <2> QED BY <2>1, <2>2, <1>3 DEF AllocAligned
<1>4. ASSUME NEW p \in fAdrMap, Free(p) PROVE AllocInv'
  BY <1>4, FreeStep
<1>5. CASE UNCHANGED vars
  BY <1>5 DEF vars, AllocInv, TypeOK, Tiled, SizeMapExact, Coalesced,
              AllocatedAreBlocks, End
<1> QED BY <1>1, <1>2, <1>3, <1>4, <1>5 DEF Next

\* Whatever is registered, allocated and freed, at any place and alignment,
\* the blocks and both trees of ExternalAllocator stay as they should be.
THEOREM AllocInvariance == Spec => []AllocInv
<1>1. Init => AllocInv
  BY ParametersAssumption, AllocInit
<1>2. AllocInv /\ [Next]_vars => AllocInv'
  BY ParametersAssumption, AllocNext
<1> QED BY <1>1, <1>2, PTL DEF Spec

\* Addresses and lengths stay those that Register gave.
THEOREM AllocTypeCorrect == Spec => []TypeOK
BY AllocInvariance, PTL DEF AllocInv

\* The blocks of fAddrMap lie side by side: none overlaps another, and no
\* address falls out when Alloc cuts a block or Free joins three.
THEOREM BlocksTile == Spec => []Tiled
BY AllocInvariance, PTL DEF AllocInv

\* fSizeMap has each free block, once, under the size that the block has: it
\* is taken out before its size changes and put in again after.
THEOREM FreeBlocksListed == Spec => []SizeMapExact
BY AllocInvariance, PTL DEF AllocInv

\* Free joins what it frees with both neighbours: no two free blocks touch.
THEOREM FreeSpaceCoalesced == Spec => []Coalesced
BY AllocInvariance, PTL DEF AllocInv

-----------------------------------------------------------------------------
(* The pool of ranges.                                                     *)

LEMMA PoolTakes ==
  ASSUME ParametersAssumption, AllocInv,
         NEW a \in fAdrMap, NEW p \in Int, NEW s \in Nat \ {0},
         NEW call \in Calls, Fits(a, p, s), Carve(a, p, s, call)
  PROVE  p \in Adr /\ Pool!Take(call, p, s)
<1>1. Grants(p, s)
  BY CarveStep
<1>2. /\ \A x \in fAdrMap : /\ x \in Int /\ fSize[x] \in Int
                            /\ End(x) = x + fSize[x] /\ End(x) <= Base + Size
                            /\ Base <= x
      /\ Base \in Int /\ Size \in Int
  BY BlockBounds DEF AllocInv, End, Adr, ParametersAssumption
<1>3. ~fAllocated[a] /\ a <= p /\ p + s <= End(a)
  BY DEF Fits
<1>4. \A x \in fAdrMap : x < a => End(x) <= a
  BY DEF AllocInv, Tiled
<1>5. \A x \in fAdrMap : x > a => End(a) <= x
  BY DEF AllocInv, Tiled
<1>6. p .. p + s - 1 \subseteq Adr
  BY <1>2, <1>3 DEF Adr
<1>7. ASSUME NEW x \in fAdrMap, fAllocated[x]
      PROVE  (x .. x + fSize[x] - 1) \cap (p .. p + s - 1) = {}
  <2>1. x # a
    BY <1>3, <1>7
  <2>2. CASE x < a
    BY <2>2, <1>2, <1>3, <1>4
  <2>3. CASE x > a
    BY <2>3, <1>2, <1>3, <1>5
  <2> QED BY <2>1, <2>2, <2>3, <1>2
<1>8. Pool!Free(p, s)
  BY <1>6, <1>7 DEF Pool!Free, Pool!Adr, Pool!Cells, Taken, Adr
<1>9. Taken' = Taken \cup {Pool!Range(p, s)}
  <2>1. ASSUME NEW t PROVE t \in Taken' => t \in Taken \cup {Pool!Range(p, s)}
    BY <1>1 DEF Taken, Grants, Pool!Range
  <2>2. ASSUME NEW t \in Taken PROVE t \in Taken'
    BY <1>1 DEF Taken, Grants
  <2>3. Pool!Range(p, s) \in Taken'
    BY <1>1 DEF Taken, Grants, Pool!Range
  <2> QED BY <2>1, <2>2, <2>3
<1>10. ret' = Pool!Answer(call, Pool!Range(p, s))
  BY DEF Carve, Answer, Pool!Answer, Pool!Range
<1>11. p \in Adr
  BY <1>2, <1>3 DEF Adr
<1> QED BY <1>8, <1>9, <1>10, <1>11 DEF Pool!Take

\* The search of fAdrMap finds the block that has the address.
LEMMA FloorHas ==
  ASSUME ParametersAssumption, AllocInv, NEW p \in Adr
  PROVE  \E a \in Floor(p) : a \in fAdrMap /\ a <= p /\ p < End(a)
<1> DEFINE Below == {a \in fAdrMap : a <= p}
<1>1. p \in Int /\ Below \in SUBSET Int /\ Below # {} /\ \A a \in Below : a <= p
  <2>1. p \in Int /\ Base <= p
    BY DEF Adr, ParametersAssumption
  <2>2. \A a \in fAdrMap : a \in Int
    BY BlockBounds DEF AllocInv
  <2>3. Base \in Below
    BY <2>1 DEF AllocInv, Tiled
  <2> QED BY <2>1, <2>2, <2>3
<1> HIDE DEF Below
<1>2. PICK a \in Below : \A b \in Below : b <= a
  BY <1>1, GreatestInteger
<1>3. a \in fAdrMap /\ a <= p /\ \A b \in fAdrMap : b <= p => b <= a
  BY <1>2 DEF Below
<1>4. /\ End(a) \in Int /\ a < End(a) /\ a \in Int
      /\ End(a) = Base + Size \/ End(a) \in fAdrMap
      /\ p < Base + Size
  BY <1>3, BlockBounds DEF AllocInv, Adr, ParametersAssumption
<1>5. p < End(a)
  BY <1>1, <1>3, <1>4
<1> QED BY <1>3, <1>5 DEF Floor

\* Where the pool has room, AllocAt finds a block that fits.
LEMMA RoomFits ==
  ASSUME ParametersAssumption, AllocInv, NEW p \in Int, NEW s \in Nat \ {0},
         Pool!Free(p, s)
  PROVE  \E a \in Floor(p) : a \in fAdrMap /\ Fits(a, p, s)
<1>1. /\ p .. p + s - 1 \subseteq Adr
      /\ \A x \in fAdrMap : fAllocated[x] =>
           (x .. x + fSize[x] - 1) \cap (p .. p + s - 1) = {}
  <2>1. ASSUME NEW x \in fAdrMap, fAllocated[x]
        PROVE  (x .. x + fSize[x] - 1) \cap (p .. p + s - 1) = {}
    <3>1. [adr |-> x, size |-> fSize[x]] \in Taken
      BY <2>1 DEF Taken
    <3> QED BY <3>1 DEF Pool!Free, Pool!Cells
  <2> QED BY <2>1 DEF Pool!Free, Pool!Adr, Adr
<1>2. p \in Adr /\ p + s - 1 \in Adr
  BY <1>1
<1>3. PICK a \in Floor(p) : a \in fAdrMap /\ a <= p /\ p < End(a)
  BY <1>2, FloorHas
<1>4. /\ \A x \in fAdrMap : /\ x \in Int /\ fSize[x] \in Int
                            /\ End(x) = x + fSize[x] /\ x < End(x)
      /\ End(a) = Base + Size \/ End(a) \in fAdrMap
  BY <1>3, BlockBounds DEF AllocInv, End
<1>5. ~fAllocated[a]
  <2>1. p \in (a .. a + fSize[a] - 1) /\ p \in (p .. p + s - 1)
    BY <1>3, <1>4
  <2> QED BY <2>1, <1>1, <1>3
<1>6. p + s <= End(a)
  <2> SUFFICES ASSUME ~(p + s <= End(a)) PROVE FALSE
    OBVIOUS
  <2>1. End(a) \in (p .. p + s - 1) /\ End(a) \in Adr
    BY <1>1, <1>3, <1>4
  <2>2. End(a) # Base + Size
    BY <2>1 DEF Adr, ParametersAssumption
  <2>3. End(a) \in fAdrMap /\ fAllocated[End(a)]
    BY <2>2, <1>3, <1>4, <1>5 DEF AllocInv, Coalesced
  <2>4. End(a) \in (End(a) .. End(a) + fSize[End(a)] - 1)
    BY <2>3, <1>4
  <2> QED BY <2>1, <2>3, <2>4, <1>1
<1> QED BY <1>3, <1>5, <1>6 DEF Fits

LEMMA BestFitFound ==
  ASSUME ParametersAssumption, AllocInv, NEW e \in fSizeMap, NEW s \in Nat,
         e[1] >= s
  PROVE  BestFit(s) # {}
<1> DEFINE Enough == {f[1] : f \in {g \in fSizeMap : g[1] >= s}}
<1>1. \A f \in fSizeMap : f[1] \in Nat
  BY DEF AllocInv, TypeOK
<1>2. Enough \in SUBSET Nat /\ Enough # {}
  BY <1>1
<1> HIDE DEF Enough
<1>3. PICK n \in Enough : \A k \in Enough : n <= k
  BY <1>2, LeastNatural
<1>4. PICK f \in fSizeMap : f[1] >= s /\ f[1] = n
  BY DEF Enough
<1>5. \A g \in fSizeMap : g[1] >= s => g[1] >= f[1]
  <2>1. ASSUME NEW g \in fSizeMap, g[1] >= s PROVE g[1] >= f[1]
    <3>1. g[1] \in Enough
      BY <2>1 DEF Enough
    <3> QED BY <3>1, <1>1, <1>3, <1>4
  <2> QED BY <2>1
<1> QED BY <1>4, <1>5 DEF BestFit

\* So without a best fit there is no room anywhere.
LEMMA NoFitNoRoom ==
  ASSUME ParametersAssumption, AllocInv, NEW s \in Nat \ {0}, BestFit(s) = {}
  PROVE  \A p \in Adr : ~Pool!Free(p, s)
<1> SUFFICES ASSUME NEW p \in Adr, Pool!Free(p, s) PROVE FALSE
  OBVIOUS
<1>1. p \in Int
  BY DEF Adr
<1>2. PICK a \in fAdrMap : Fits(a, p, s)
  BY <1>1, RoomFits
<1>3. ~fAllocated[a] /\ fSize[a] >= s
  BY <1>1, <1>2, BlockBounds DEF Fits, End, AllocInv
<1>4. <<fSize[a], a>> \in fSizeMap
  BY <1>3, FreeBlockListed DEF AllocInv
<1> QED BY <1>3, <1>4, BestFitFound

\* An aligned address in a block with room for every position fits.
LEMMA AlignedFits ==
  ASSUME ParametersAssumption, AllocInv, NEW s \in Nat \ {0},
         NEW align \in Nat \ {0}, NEW e \in BestFit(s + align - 1)
  PROVE  LET p == RoundUp(e[2], align)
         IN  p \in Int /\ p % align = 0 /\ e[2] \in Floor(p) /\ Fits(e[2], p, s)
<1> DEFINE a == e[2]
           p == RoundUp(e[2], align)
<1>1. e \in fSizeMap /\ e[1] >= s + align - 1
  BY DEF BestFit
<1>2. a \in fAdrMap /\ ~fAllocated[a] /\ e[1] = fSize[a]
  BY <1>1, EntryBlock DEF AllocInv
<1>3. a \in Nat /\ fSize[a] \in Int /\ End(a) = a + fSize[a]
  BY <1>2, BlockBounds DEF AllocInv, Adr, End, ParametersAssumption
<1>4. p \in Nat /\ a <= p /\ p <= a + align - 1 /\ p % align = 0
  BY <1>3, RoundUpBounds, Zenon
<1> HIDE DEF a, p
<1>5. p + s <= End(a) /\ p < End(a)
  BY <1>1, <1>2, <1>3, <1>4
<1>6. ASSUME NEW b \in fAdrMap, b <= p PROVE b <= a
  <2>1. b \in Int
    BY BlockBounds DEF AllocInv
  <2>2. b > a => End(a) <= b
    BY <1>2 DEF AllocInv, Tiled
  <2> QED BY <2>1, <2>2, <1>3, <1>4, <1>5, <1>6
<1> QED BY <1>2, <1>4, <1>5, <1>6 DEF Floor, Fits, a, p

LEMMA PoolRefuses ==
  ASSUME NEW call, Fail(call)
  PROVE  Pool!Refuse(call)
BY DEF Fail, Answer, Pool!Refuse, Pool!Answer, Pool!None, Pool!Range, Taken

LEMMA PoolGivesBack ==
  ASSUME ParametersAssumption, AllocInv, NEW p \in fAdrMap, Free(p)
  PROVE  \E r \in Taken : Pool!GiveBack(r)
<1> DEFINE r == [adr |-> p, size |-> fSize[p]]
<1>1. TakesBack(p)
  BY FreeStep
<1>2. fAllocated[p] /\ ret' = Answer(<<"Free", p>>, p, fSize[p])
  BY DEF Free
<1>3. r \in Taken
  BY <1>2 DEF Taken
<1>4. Taken' = Taken \ {r}
  <2>1. ASSUME NEW t \in Taken', t = r PROVE FALSE
    BY <1>1, <2>1 DEF Taken, TakesBack
  <2>2. ASSUME NEW t \in Taken' PROVE t \in Taken
    BY <1>1 DEF Taken, TakesBack
  <2>3. ASSUME NEW t \in Taken, t # r PROVE t \in Taken'
    BY <1>1, <2>3 DEF Taken, TakesBack
  <2> QED BY <2>1, <2>2, <2>3
<1>5. ret' = Pool!Answer(<<"Free", r.adr>>, r)
  BY <1>2 DEF Answer, Pool!Answer
<1> QED BY <1>3, <1>4, <1>5 DEF Pool!GiveBack

\* Every call of the allocator is one of the pool.
LEMMA PoolNext ==
  ASSUME ParametersAssumption, AllocInv, [Next]_vars
  PROVE  [Pool!Next]_(Pool!vars)
<1>0. /\ \A s \in Sizes : s \in Nat \ {0} /\ <<"Alloc", s>> \in Calls
      /\ \A s \in Sizes, p \in Adr : <<"AllocAt", p, s>> \in Calls
      /\ \A s \in Sizes, align \in Aligns :
           <<"AllocAligned", s, align>> \in Calls /\ align \in Nat \ {0}
      /\ Adr = Pool!Adr /\ \A p \in Adr : p \in Int
      /\ \A p : Floor(p) \subseteq fAdrMap
  BY DEF ParametersAssumption, Calls, Adr, Pool!Adr, Floor
<1>1. ASSUME NEW s \in Sizes, Alloc(s) PROVE Pool!Alloc(s)
  <2>1. ASSUME NEW e \in BestFit(s), AllocBlock(e, s, <<"Alloc", s>>)
        PROVE  \E p \in Adr : Pool!Take(<<"Alloc", s>>, p, s)
    <3>1. e \in fSizeMap /\ e[1] >= s
      BY DEF BestFit
    <3>2. Fits(e[2], e[2], s) /\ Carve(e[2], e[2], s, <<"Alloc", s>>)
      BY <2>1, <3>1, <1>0, AllocBlockCarves DEF AllocInv
    <3>3. e[2] \in fAdrMap /\ e[2] \in Int
      BY <3>1, EntryBlock, BlockBounds DEF AllocInv
    <3> QED BY <3>2, <3>3, <1>0, PoolTakes
  <2>2. ASSUME BestFit(s) = {}, Fail(<<"Alloc", s>>)
        PROVE  (\A p \in Adr : ~Pool!Free(p, s)) /\ Pool!Refuse(<<"Alloc", s>>)
    BY <2>2, <1>0, NoFitNoRoom, PoolRefuses
  <2> QED BY <2>1, <2>2, <1>0, <1>1 DEF Alloc, Pool!Alloc
<1>2. ASSUME NEW p \in Adr, NEW s \in Sizes, AllocAt(p, s)
      PROVE  Pool!AllocAt(p, s)
  <2> DEFINE call == <<"AllocAt", p, s>>
  <2>1. ASSUME NEW a \in Floor(p), Fits(a, p, s), Carve(a, p, s, call)
        PROVE  Pool!Take(call, p, s)
    BY <2>1, <1>0, PoolTakes
  <2>2. ASSUME \A a \in Floor(p) : ~Fits(a, p, s), Fail(call)
        PROVE  ~Pool!Free(p, s) /\ Pool!Refuse(call)
    BY <2>2, <1>0, RoomFits, PoolRefuses
  <2> QED BY <2>1, <2>2, <1>2 DEF AllocAt, Place, Pool!AllocAt
<1>3. ASSUME NEW s \in Sizes, NEW align \in Aligns, AllocAligned(s, align)
      PROVE  Pool!AllocAligned(s, align)
  <2> DEFINE call == <<"AllocAligned", s, align>>
  <2>1. ASSUME NEW e \in BestFit(s + align - 1),
               Place(RoundUp(e[2], align), s, call)
        PROVE  \E p \in Adr : p % align = 0 /\ Pool!Take(call, p, s)
    <3> DEFINE p == RoundUp(e[2], align)
    <3>1. p \in Int /\ p % align = 0 /\ e[2] \in Floor(p) /\ Fits(e[2], p, s)
      BY <1>0, AlignedFits
    <3> HIDE DEF p
    <3>2. PICK a \in Floor(p) : Fits(a, p, s) /\ Carve(a, p, s, call)
      BY <2>1, <3>1 DEF Place, p
    <3> QED BY <3>1, <3>2, <1>0, PoolTakes
  <2>2. ASSUME BestFit(s + align - 1) = {}, Fail(call)
        PROVE  /\ \A p \in Adr : ~Pool!Free(p, s + align - 1)
               /\ Pool!Refuse(call)
    <3>1. s + align - 1 \in Nat \ {0}
      BY <1>0
    <3> QED BY <2>2, <3>1, NoFitNoRoom, PoolRefuses
  <2> QED BY <2>1, <2>2, <1>0, <1>3 DEF AllocAligned, Pool!AllocAligned
<1>4. ASSUME NEW p \in fAdrMap, Free(p)
      PROVE  \E r \in Taken : Pool!GiveBack(r)
  BY <1>4, PoolGivesBack
<1>5. CASE UNCHANGED vars
  BY <1>5 DEF vars, Pool!vars, Taken
<1> QED BY <1>0, <1>1, <1>2, <1>3, <1>4, <1>5 DEF Next, Pool!Next

\* ExternalAllocator implements RangePool: it grants disjoint ranges of the
\* length and alignment that were asked for, and takes back what it granted.
\* It refuses a length when no range of it is free, an address when the range
\* from there is not free, and an aligned length when no range of
\* length + alignment - 1 is free, and in no other case: an aligned range of
\* the length alone may be free then (ExternalAllocator.cpp).
THEOREM AllocatorImplementsPool == Spec => ImplementsPool
<1>1. Init => Pool!Init
  <2>1. ASSUME Init PROVE Taken = {}
    <3>1. \A x \in fAdrMap : ~fAllocated[x]
      BY <2>1, ParametersAssumption DEF Init, Adr, ParametersAssumption
    <3> QED BY <3>1 DEF Taken
  <2> QED BY <2>1 DEF Init, Answer, Pool!Init, Pool!Answer, Pool!None, Pool!Range
<1>2. AllocInv /\ [Next]_vars => [Pool!Next]_(Pool!vars)
  BY ParametersAssumption, PoolNext
<1> QED BY <1>1, <1>2, AllocInvariance, PTL DEF Spec, ImplementsPool, Pool!Spec
=============================================================================
