------------------------- MODULE ExternalAllocator -------------------------
(***************************************************************************)
(* The best-fit allocator of address ranges that hands out the inode       *)
(* numbers of a volume.  It splits its range into blocks kept in two AVL   *)
(* trees: fAdrMap has all of them by address, fSizeMap the free ones by    *)
(* size.  fSizeMap orders its nodes by a field that Alloc, AllocAt and     *)
(* Free change, so an entry here carries the size it was inserted with:    *)
(* removing a block under another size finds nothing.                      *)
(***************************************************************************)
EXTENDS Integers

CONSTANTS
  Base,    \* address passed to Register
  Size,    \* size passed to Register
  Sizes,   \* lengths clients ask for
  Aligns   \* alignments clients ask for

ASSUME ParametersAssumption ==
  /\ Base \in Nat
  /\ Size \in Nat \ {0}
  /\ Sizes \subseteq Nat \ {0}
  /\ Aligns \subseteq Nat \ {0}

VARIABLES
  fAdrMap,     \* addresses of the blocks
  fSizeMap,    \* the free blocks, as pairs <<size, address>>
  fSize,       \* size of the block at an address (0: no block)
  fAllocated,  \* whether the block at an address is allocated
  ret          \* the last call and the range it returned

vars == <<fAdrMap, fSizeMap, fSize, fAllocated, ret>>

Adr == Base .. Base + Size - 1
End(a) == a + fSize[a]

Answer(call, a, s) == [call |-> call, range |-> [adr |-> a, size |-> s]]

Calls == {<<"Register", Base>>} \cup ({"Alloc"} \X Sizes)
         \cup ({"AllocAt"} \X Adr \X Sizes)
         \cup ({"AllocAligned"} \X Sizes \X Aligns) \cup ({"Free"} \X Adr)

TypeOK ==
  /\ fAdrMap \in SUBSET Adr
  /\ fSizeMap \in SUBSET ((1 .. Size) \X Adr)
  /\ fSize \in [Adr -> 0 .. Size]
  /\ fAllocated \in [Adr -> BOOLEAN]
  /\ ret \in [call : Calls, range : [adr : Adr, size : 0 .. Size]]

-----------------------------------------------------------------------------
(* Tree searches.                                                          *)

\* Bug: a block of exactly the size is passed over.
BestFitLarger(s) ==
  {e \in fSizeMap : /\ e[1] > s
                    /\ \A f \in fSizeMap : f[1] > s => f[1] >= e[1]}

\* fSizeMap.FindClosest(s, false): a smallest block of at least s; which one
\* among equals depends on the shape of the tree.
BestFit(s) ==
  {e \in fSizeMap : /\ e[1] >= s
                    /\ \A f \in fSizeMap : f[1] >= s => f[1] >= e[1]}

\* fAdrMap.FindClosest(p, true): the last block at or before p.
Floor(p) == {a \in fAdrMap : a <= p /\ \A b \in fAdrMap : b <= p => b <= a}

Previous(a) == {b \in fAdrMap : b < a /\ \A c \in fAdrMap : c < a => c <= b}
NextBlock(a) == {b \in fAdrMap : b > a /\ \A c \in fAdrMap : c > a => c >= b}

-----------------------------------------------------------------------------

\* Register(Base, Size), the only range the volume registers.
Init ==
  /\ fAdrMap = {Base}
  /\ fSizeMap = {<<Size, Base>>}
  /\ fSize = [a \in Adr |-> IF a = Base THEN Size ELSE 0]
  /\ fAllocated = [a \in Adr |-> FALSE]
  /\ ret = Answer(<<"Register", Base>>, Base, 0)

Fail(call) ==
  /\ ret' = Answer(call, Base, 0)
  /\ UNCHANGED <<fAdrMap, fSizeMap, fSize, fAllocated>>

\* Bug: the block is cut even when nothing remains.
AllocBlockSplits(e, s, call) ==
  LET a == e[2]
      rest == fSize[a] - s
  IN  /\ fSizeMap' = (fSizeMap \ {<<fSize[a], a>>}) \cup {<<rest, a + s>>}
      /\ fAdrMap' = fAdrMap \cup {a + s}
      /\ fSize' = [x \in Adr |-> IF x = a + s THEN rest
                                 ELSE IF x = a THEN s ELSE fSize[x]]
      /\ fAllocated' = [fAllocated EXCEPT ![a] = TRUE]
      /\ ret' = Answer(call, a, s)

\* Block e leaves fSizeMap; what exceeds s becomes a new free block.
AllocBlock(e, s, call) ==
  LET a == e[2]
      rest == fSize[a] - s
  IN  /\ fSizeMap' = (fSizeMap \ {<<fSize[a], a>>})
                     \cup (IF rest > 0 THEN {<<rest, a + s>>} ELSE {})
      /\ fAdrMap' = fAdrMap \cup (IF rest > 0 THEN {a + s} ELSE {})
      /\ fSize' = [x \in Adr |-> IF rest > 0 /\ x = a + s THEN rest
                                 ELSE IF rest > 0 /\ x = a THEN s
                                 ELSE fSize[x]]
      /\ fAllocated' = [fAllocated EXCEPT ![a] = TRUE]
      /\ ret' = Answer(call, a, s)

Alloc(s) ==
  \/ \E e \in BestFit(s) : AllocBlock(e, s, <<"Alloc", s>>)
  \/ BestFit(s) = {} /\ Fail(<<"Alloc", s>>)

\* Bug: the left part is resized without taking it out of fSizeMap first.
CarveResizesInTree(a, p, s, call) ==
  LET left == p - a
      right == End(a) - (p + s)
  IN  /\ fAdrMap' = fAdrMap \cup {p} \cup (IF right > 0 THEN {p + s} ELSE {})
      /\ fSizeMap' = fSizeMap
                     \cup (IF left > 0 THEN {<<left, a>>} ELSE {})
                     \cup (IF right > 0 THEN {<<right, p + s>>} ELSE {})
      /\ fSize' = [x \in Adr |-> IF x = p THEN s
                                 ELSE IF x = a THEN left
                                 ELSE IF right > 0 /\ x = p + s THEN right
                                 ELSE fSize[x]]
      /\ fAllocated' = [fAllocated EXCEPT ![p] = TRUE]
      /\ ret' = Answer(call, p, s)

\* The block a, free and large enough for s from p on, is cut in up to three:
\* the free part before p, the allocated part, the free part behind it.
Carve(a, p, s, call) ==
  LET left == p - a
      right == End(a) - (p + s)
  IN  /\ fAdrMap' = fAdrMap \cup {p} \cup (IF right > 0 THEN {p + s} ELSE {})
      /\ fSizeMap' = (fSizeMap \ {<<fSize[a], a>>})
                     \cup (IF left > 0 THEN {<<left, a>>} ELSE {})
                     \cup (IF right > 0 THEN {<<right, p + s>>} ELSE {})
      /\ fSize' = [x \in Adr |-> IF x = p THEN s
                                 ELSE IF x = a THEN left
                                 ELSE IF right > 0 /\ x = p + s THEN right
                                 ELSE fSize[x]]
      /\ fAllocated' = [fAllocated EXCEPT ![p] = TRUE]
      /\ ret' = Answer(call, p, s)

\* Bug: one address too many.
FitsBeyond(a, p, s) == ~fAllocated[a] /\ a <= p /\ p + s <= End(a) + 1

Fits(a, p, s) == ~fAllocated[a] /\ a <= p /\ p + s <= End(a)

\* The body of AllocAt, on behalf of a call.
Place(p, s, call) ==
  \/ \E a \in Floor(p) : Fits(a, p, s) /\ Carve(a, p, s, call)
  \/ (\A a \in Floor(p) : ~Fits(a, p, s)) /\ Fail(call)

AllocAt(p, s) == Place(p, s, <<"AllocAt", p, s>>)

RoundUp(a, align) == ((a + align - 1) \div align) * align

AllocAligned(s, align) ==
  LET call == <<"AllocAligned", s, align>>
  IN  \/ \E e \in BestFit(s + align - 1) :
            Place(RoundUp(e[2], align), s, call)
      \/ BestFit(s + align - 1) = {} /\ Fail(call)

\* Bug: only the previous block is merged.
FreeMergesLeft(p) ==
  /\ p \in fAdrMap
  /\ fAllocated[p]
  /\ LET prev == {b \in Previous(p) : ~fAllocated[b]}
         start == IF prev = {} THEN p ELSE CHOOSE b \in prev : TRUE
         gone == {p} \ {start}
     IN  /\ fAdrMap' = fAdrMap \ gone
         /\ fSizeMap' = (fSizeMap \ {<<fSize[b], b>> : b \in prev})
                        \cup {<<End(p) - start, start>>}
         /\ fSize' = [x \in Adr |-> IF x = start THEN End(p) - start
                                    ELSE IF x \in gone THEN 0
                                    ELSE fSize[x]]
  /\ fAllocated' = [fAllocated EXCEPT ![p] = FALSE]
  /\ ret' = Answer(<<"Free", p>>, p, fSize[p])

\* A client frees an address it got from the allocator; for another address
\* Free calls abort().  The block merges with a free neighbour on each side.
Free(p) ==
  /\ p \in fAdrMap
  /\ fAllocated[p]
  /\ LET prev == {b \in Previous(p) : ~fAllocated[b]}
         next == {b \in NextBlock(p) : ~fAllocated[b]}
         start == IF prev = {} THEN p ELSE CHOOSE b \in prev : TRUE
         end == IF next = {} THEN End(p) ELSE End(CHOOSE b \in next : TRUE)
         gone == (next \cup {p}) \ {start}
     IN  /\ fAdrMap' = fAdrMap \ gone
         /\ fSizeMap' = (fSizeMap \ {<<fSize[b], b>> : b \in prev \cup next})
                        \cup {<<end - start, start>>}
         /\ fSize' = [x \in Adr |-> IF x = start THEN end - start
                                    ELSE IF x \in gone THEN 0
                                    ELSE fSize[x]]
  /\ fAllocated' = [fAllocated EXCEPT ![p] = FALSE]
  /\ ret' = Answer(<<"Free", p>>, p, fSize[p])

Next ==
  \/ \E s \in Sizes : Alloc(s)
  \/ \E p \in Adr, s \in Sizes : AllocAt(p, s)
  \/ \E s \in Sizes, align \in Aligns : AllocAligned(s, align)
  \/ \E p \in fAdrMap : Free(p)

Spec == Init /\ [][Next]_vars

-----------------------------------------------------------------------------
(* Properties.                                                             *)

\* The blocks tile the registered range: each has a positive size and ends
\* where the next one begins or at the end of the range; none overlap.
Tiled ==
  /\ Base \in fAdrMap
  /\ \A a \in Adr : fSize[a] > 0 <=> a \in fAdrMap
  /\ \A a \in fAdrMap : End(a) = Base + Size \/ End(a) \in fAdrMap
  /\ \A a, b \in fAdrMap : a < b => End(a) <= b

\* fSizeMap has exactly the free blocks, each under its present size: no
\* block is resized while the tree orders it by its old size.
SizeMapExact ==
  fSizeMap = {<<fSize[a], a>> : a \in {b \in fAdrMap : ~fAllocated[b]}}

\* Free merges with both neighbours, so no two free blocks touch: a request is
\* not refused because free space is split.
Coalesced ==
  \A a, b \in fAdrMap : End(a) = b => fAllocated[a] \/ fAllocated[b]

\* The ranges that clients have.
Taken == {[adr |-> a, size |-> fSize[a]] : a \in {b \in fAdrMap : fAllocated[b]}}

\* The allocator implements the pool of ranges: disjoint grants of what was
\* asked for, a length refused only when no range of it is free, an address
\* only when a part of the range from there is not free, and an aligned length
\* only when no range of length + alignment - 1 is free.
Pool == INSTANCE RangePool WITH taken <- Taken
ImplementsPool == Pool!Spec

=============================================================================
