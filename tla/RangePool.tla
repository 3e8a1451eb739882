----------------------------- MODULE RangePool -----------------------------
(***************************************************************************)
(* What ExternalAllocator promises its clients: it hands out ranges of one *)
(* registered range that never overlap, it takes back only ranges it       *)
(* handed out, and it refuses a length only when no range of that length   *)
(* is free.  A length that is to be aligned it may refuse although an      *)
(* aligned range of that length is free: it promises only to serve it      *)
(* while a range of length + alignment - 1 is free.                        *)
(***************************************************************************)
EXTENDS Integers

CONSTANTS
  Base,    \* first address of the registered range
  Size,    \* its length
  Sizes,   \* lengths that are requested
  Aligns   \* alignments that are requested

VARIABLES
  taken,   \* the ranges handed out
  ret      \* the last call and the range it returned

vars == <<taken, ret>>

Adr == Base .. Base + Size - 1
Range(a, s) == [adr |-> a, size |-> s]
Cells(r) == r.adr .. r.adr + r.size - 1

Answer(call, r) == [call |-> call, range |-> r]
None == Range(Base, 0)

\* The s addresses from a are registered and none of them is taken.
Free(a, s) ==
  /\ a .. a + s - 1 \subseteq Adr
  /\ \A r \in taken : Cells(r) \cap (a .. a + s - 1) = {}

Take(call, a, s) ==
  /\ Free(a, s)
  /\ taken' = taken \cup {Range(a, s)}
  /\ ret' = Answer(call, Range(a, s))

Refuse(call) ==
  /\ ret' = Answer(call, None)
  /\ UNCHANGED taken

Alloc(s) ==
  \/ \E a \in Adr : Take(<<"Alloc", s>>, a, s)
  \/ (\A a \in Adr : ~Free(a, s)) /\ Refuse(<<"Alloc", s>>)

AllocAt(a, s) ==
  \/ Take(<<"AllocAt", a, s>>, a, s)
  \/ ~Free(a, s) /\ Refuse(<<"AllocAt", a, s>>)

\* Refused only when no range is free that is long enough wherever the aligned
\* address falls in it.  Of a shorter one that is free, and has an aligned
\* address with s addresses behind it, nothing is promised.
AllocAligned(s, align) ==
  \/ \E a \in Adr : a % align = 0 /\ Take(<<"AllocAligned", s, align>>, a, s)
  \/ /\ \A a \in Adr : ~Free(a, s + align - 1)
     /\ Refuse(<<"AllocAligned", s, align>>)

GiveBack(r) ==
  /\ r \in taken
  /\ taken' = taken \ {r}
  /\ ret' = Answer(<<"Free", r.adr>>, r)

Init == taken = {} /\ ret = Answer(<<"Register", Base>>, None)

Next ==
  \/ \E s \in Sizes : Alloc(s)
  \/ \E a \in Adr, s \in Sizes : AllocAt(a, s)
  \/ \E s \in Sizes, align \in Aligns : AllocAligned(s, align)
  \/ \E r \in taken : GiveBack(r)

Spec == Init /\ [][Next]_vars

=============================================================================
