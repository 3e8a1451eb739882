--------------------------- MODULE ShmfsFileProofs ---------------------------
(***************************************************************************)
(* Proofs about ShmfsFile for every page size, every size of the file and  *)
(* every call, when no mapping of the file faults in the hole that a write *)
(* is filling.                                                             *)
(***************************************************************************)
EXTENDS ShmfsFile, FiniteSetTheorems, TLAPS

-----------------------------------------------------------------------------
(* Arithmetic of pages.                                                    *)

LEMMA DivModFacts ==
  ASSUME NEW n \in Nat, NEW k \in Nat \ {0}
  PROVE  /\ n \div k \in Nat /\ n % k \in 0 .. k - 1
         /\ n = k * (n \div k) + (n % k)
<1>1. n \div k \in Int /\ n % k \in 0 .. k - 1
  OBVIOUS
<1>2. n = k * (n \div k) + (n % k)
  OBVIOUS
<1>3. ASSUME n \div k <= -1 PROVE FALSE
  <2>1. k * (n \div k) <= -k
    BY <1>1, <1>3
  <2> QED BY <1>1, <1>2, <2>1
<1> QED BY <1>1, <1>2, <1>3

\* A number by its quotient and remainder.
LEMMA Divided ==
  ASSUME NEW d \in Nat \ {0}, NEW n \in Nat
  PROVE  \E q \in Nat, r \in 0..(d - 1) :
           q = n \div d /\ r = n % d /\ n = d * q + r
<1>1. n \div d \in Nat /\ n % d \in 0 .. d - 1
  BY DivModFacts
<1>2. n = d * (n \div d) + (n % d)
  BY DivModFacts
<1> QED BY <1>1, <1>2, Zenon

LEMMA TimesOrder ==
  ASSUME NEW d \in Nat \ {0}, NEW a \in Int, NEW b \in Int
  PROVE  /\ a <= b => d * a <= d * b
         /\ a < b => d * a + d <= d * b
<1>1. ASSUME a <= b PROVE d * a <= d * b
  <2>1. PICK k \in Nat : b = a + k
    <3>1. b - a \in Nat /\ b = a + (b - a)
      BY <1>1
    <3> QED BY <3>1
  <2>2. d * b = d * a + d * k /\ d * k >= 0 /\ d * a \in Int /\ d * k \in Int
    BY <2>1
  <2> QED BY <2>2
<1>2. ASSUME a < b PROVE d * a + d <= d * b
  <2>1. PICK k \in Nat : b = a + 1 + k
    <3>1. b - a - 1 \in Nat /\ b = a + 1 + (b - a - 1)
      BY <1>2
    <3> QED BY <3>1
  <2>2. d * b = d * a + d + d * k /\ d * k >= 0 /\ d * a \in Int /\ d * k \in Int
    BY <2>1
  <2> QED BY <2>2
<1> QED BY <1>1, <1>2

LEMMA DivUnique ==
  ASSUME NEW d \in Nat \ {0}, NEW n \in Nat, NEW q \in Int, NEW r \in 0..(d - 1),
         n = d * q + r
  PROVE  n \div d = q /\ n % d = r
<1>1. PICK e \in Nat : e = n \div d
  BY Divided
<1>2. PICK m \in 0..(d - 1) : m = n % d
  BY Divided
<1>3. d * q + r = d * e + m
  BY <1>1, <1>2, Divided
<1>4. d * q \in Int /\ d * e \in Int
  BY <1>1
<1>5. ~(q < e)
  <2>1. q < e => d * q + d <= d * e
    BY <1>1, TimesOrder
  <2> QED BY <1>2, <1>3, <1>4, <2>1
<1>6. ~(e < q)
  <2>1. e < q => d * e + d <= d * q
    BY <1>1, TimesOrder
  <2> QED BY <1>2, <1>3, <1>4, <2>1
<1>7. q = e
  BY <1>1, <1>5, <1>6
<1>8. m = r
  BY <1>2, <1>3, <1>4, <1>7
<1> QED BY <1>1, <1>2, <1>7, <1>8

LEMMA DivMonotone ==
  ASSUME NEW d \in Nat \ {0}, NEW a \in Nat, NEW b \in Nat, a <= b
  PROVE  a \div d <= b \div d
<1>1. PICK e \in Nat, m \in 0..(d - 1) : e = a \div d /\ a = d * e + m
  BY Divided
<1>2. PICK f \in Nat, r \in 0..(d - 1) : f = b \div d /\ b = d * f + r
  BY Divided
<1>3. f < e => d * f + d <= d * e
  BY TimesOrder
<1>4. d * f \in Int /\ d * e \in Int
  BY <1>1, <1>2
<1>5. ~(f < e)
  BY <1>1, <1>2, <1>3, <1>4
<1> QED BY <1>1, <1>2, <1>5

\* The pages are those that begin within the largest file.
LEMMA PageNumbers ==
  ASSUME FileAssumption
  PROVE  /\ PageNo \subseteq Nat
         /\ \A p \in Nat : p * PageSize < MaxSize => p \in PageNo
         /\ \A o \in Offset : /\ o \in Nat /\ o \div PageSize \in PageNo
                              /\ o % PageSize \in 0..(PageSize - 1)
                              /\ o = (o \div PageSize) * PageSize + (o % PageSize)
         /\ IsFiniteSet(PageNo)
<1>1. PageSize \in Nat \ {0} /\ MaxSize \in Nat
  BY DEF FileAssumption
<1>2. ASSUME NEW o \in Offset
      PROVE  /\ o \in Nat /\ o \div PageSize \in Nat
             /\ o % PageSize \in 0..(PageSize - 1)
             /\ o = (o \div PageSize) * PageSize + (o % PageSize)
  <2>1. o \in Nat
    BY <1>1 DEF Offset
  <2>2. PICK e \in Nat, m \in 0..(PageSize - 1) :
          /\ e = o \div PageSize /\ m = o % PageSize /\ o = PageSize * e + m
    BY <1>1, <2>1, Divided
  <2>3. o \div PageSize \in Nat /\ o % PageSize \in 0..(PageSize - 1)
    BY <2>2, Zenon
  <2>4. o = (o \div PageSize) * PageSize + (o % PageSize)
    <3>1. o = PageSize * (o \div PageSize) + (o % PageSize)
      BY <1>1, <2>1, DivModFacts
    <3>2. PICK q \in Nat, r \in Nat, k \in Nat :
            q = o \div PageSize /\ r = o % PageSize /\ k = PageSize
      BY <1>1, <2>3
    <3>3. o = k * q + r
      BY <3>1, <3>2, Zenon
    <3>4. o = q * k + r
      BY ONLY <2>1, <3>3, q \in Nat, r \in Nat, k \in Nat
    <3> QED BY <3>2, <3>4, Zenon
  <2> QED BY <2>1, <2>3, <2>4, Zenon
<1>3. ASSUME NEW p \in Nat, p * PageSize < MaxSize
      PROVE  p \in PageNo
  <2>1. PICK o : o = PageSize * p
    OBVIOUS
  <2>2. o \in Nat /\ o < MaxSize /\ o = PageSize * p + 0 /\ 0 \in 0..(PageSize - 1)
    BY <1>1, <1>3, <2>1
  <2>3. o \div PageSize = p
    BY <1>1, <2>2, DivUnique
  <2>4. o \in Offset
    BY <1>1, <2>2 DEF Offset
  <2> QED BY <2>3, <2>4 DEF PageNo
<1>4. IsFiniteSet(PageNo)
  <2>1. ASSUME NEW o \in Offset
        PROVE  o \div PageSize \in 0..MaxSize
    <3>1. PICK e \in Nat, m \in 0..(PageSize - 1) :
            e = o \div PageSize /\ m = o % PageSize /\ o = PageSize * e + m
      BY <1>1, <1>2, Divided
    <3>2. PageSize * e >= e /\ PageSize * e \in Nat
      BY <1>1
    <3>3. o < MaxSize
      BY <1>1 DEF Offset
    <3> QED BY <1>1, <3>1, <3>2, <3>3
  <2>2. PageNo \subseteq 0..MaxSize
    BY <2>1 DEF PageNo
  <2>3. IsFiniteSet(0..MaxSize)
    <3>1. 0 \in Int /\ MaxSize \in Int
      BY <1>1
    <3> QED BY <3>1, FS_Interval, Zenon
  <2> QED BY <2>2, <2>3, FS_Subset
<1> QED BY <1>2, <1>3, <1>4 DEF PageNo

\* The bytes of a call are in its pages, and each of its pages begins before
\* its last byte.
LEMMA CallPages ==
  ASSUME FileAssumption, NEW c, c.pos \in Nat, c.len \in Nat
  PROVE  /\ First(c) \in Nat /\ PageCount(c) \in Nat
         /\ \A p \in PagesOf(c) : p \in Nat /\ p * PageSize < c.pos + c.len
         /\ \A o \in c.pos..(c.pos + c.len - 1) :
              o \in Nat /\ o \div PageSize \in PagesOf(c)
<1>1. PICK d \in Nat \ {0} : d = PageSize
  BY DEF FileAssumption
<1>2. PICK f \in Nat, m \in 0..(d - 1) :
        f = c.pos \div d /\ m = c.pos % d /\ c.pos = d * f + m
  BY Divided
<1>3. PICK k \in Nat : k = c.len + m
  <2>1. m \in Nat
    OBVIOUS
  <2>2. c.len + m \in Nat
    BY ONLY <2>1, c.len \in Nat
  <2> QED BY <2>2
<1>4. PICK q \in Nat, r \in 0..(d - 1) :
        /\ q = (k + d - 1) \div d /\ r = (k + d - 1) % d
        /\ k + d - 1 = d * q + r
  <2>1. k + d - 1 \in Nat
    BY <1>3
  <2> QED BY <2>1, Divided
<1>5. PICK df \in Nat, dq \in Nat : df = d * f /\ dq = d * q /\ d * (f + q) = df + dq
  <2>1. d * f \in Nat /\ d * q \in Nat /\ d * (f + q) = d * f + d * q
    OBVIOUS
  <2> QED BY <2>1
<1>6. c.pos = df + m /\ k + d - 1 = dq + r
  BY <1>2, <1>4, <1>5
<1>7. First(c) = f /\ PageCount(c) = q
  <2>1. dq = d * q + 0 /\ 0 \in 0..(d - 1)
    BY <1>5
  <2>2. dq \div d = q
    BY <1>5, <2>1, DivUnique
  <2>3. q * d = dq
    BY <1>5
  <2>4. RoundUp(k) = dq
    BY <1>1, <1>4, <2>3 DEF RoundUp
  <2> QED BY <1>1, <1>2, <1>3, <2>2, <2>4 DEF First, PageCount
<1>8. PagesOf(c) = f..(f + q - 1)
  BY <1>7 DEF PagesOf
<1>9. ASSUME NEW p \in PagesOf(c)
      PROVE  p \in Nat /\ p * PageSize < c.pos + c.len
  <2>1. p \in Nat /\ p < f + q
    BY ONLY <1>8, <1>9, f \in Nat, q \in Nat
  <2>2. PICK dp \in Nat : dp = d * p
    BY <2>1
  <2>3. dp + d <= df + dq
    BY <1>5, <2>1, <2>2, TimesOrder
  <2>4. dp < c.pos + c.len
    BY <1>3, <1>6, <2>3
  <2>5. p * d = dp
    BY <2>1, <2>2
  <2> QED BY <1>1, <2>1, <2>4, <2>5
<1>10. ASSUME NEW o \in c.pos..(c.pos + c.len - 1)
       PROVE  o \in Nat /\ o \div PageSize \in PagesOf(c)
  <2>1. o \in Nat /\ c.pos <= o /\ o < c.pos + c.len
    OBVIOUS
  <2>2. PICK e \in Nat, s \in 0..(d - 1) :
          e = o \div d /\ s = o % d /\ o = d * e + s
    BY <2>1, Divided
  <2>3. f <= e
    BY <1>2, <2>1, <2>2, DivMonotone
  <2>4. PICK de \in Nat : de = d * e
    <3>1. d * e \in Nat
      OBVIOUS
    <3> QED BY <3>1
  <2>5. f + q <= e => df + dq <= de
    BY <1>5, <2>4, TimesOrder
  <2>6. o = de + s
    BY <2>2, <2>4
  <2>7. e < f + q
    BY <1>3, <1>6, <2>1, <2>5, <2>6
  <2>8. e \in PagesOf(c)
    BY ONLY <1>8, <2>3, <2>7, f \in Nat, q \in Nat, e \in Nat
  <2> QED BY <1>1, <2>1, <2>2, <2>8
<1> QED BY <1>7, <1>9, <1>10
-----------------------------------------------------------------------------
(* The inductive invariant.                                                *)

\* Where byte o is kept.
PageOf(o) == o \div PageSize
ByteOf(o) == o % PageSize

Bytes(c) == c.pos..(c.pos + c.len - 1)
Writing == io.op = "write"

\* The call has looked the page up.
Looked(p) == p \in PagesOf(io) /\ (io.stage = "get" => p < Current)

\* The bytes of a call are in the file.
CallInside == io # Idle => io.pos + io.len <= fDataSize

\* Only pages in the cache are busy, and only those that the call in progress
\* has looked up are busy for it.
BusyOK ==
  \A p \in PageNo : /\ busy[p] # "no" => Present(p)
                    /\ busy[p] = "io" => io # Idle /\ Looked(p)

\* A write in progress has a new page for each that it found missing.
FreshOK ==
  \A p \in PageNo : fresh[p] # Absent <=> /\ Writing /\ io.stage # "get"
                                          /\ p \in PagesOf(io) /\ busy[p] # "io"

\* What a write found missing stays missing.
HolesStay ==
  Writing => \A p \in PageNo : Looked(p) /\ busy[p] # "io" => ~Present(p)

\* A byte that was written is in its page with a value it may have, which is
\* the one of a write in progress as soon as that has stored it.
WrittenKept ==
  \A o \in written :
    /\ o < fDataSize
    /\ Present(PageOf(o))
    /\ \/ page[PageOf(o)][ByteOf(o)] \in allowed[o]
       \/ Writing /\ o \in Bytes(io) /\ page[PageOf(o)][ByteOf(o)] = io.datum

\* The call has found the pages of all bytes that were written.
WrittenHeld ==
  io # Idle => \A o \in written : Looked(PageOf(o)) => busy[PageOf(o)] = "io"

\* The write has stored the byte, in the new page if there is one.
Copied(o) == IF fresh[PageOf(o)] # Absent
             THEN fresh[PageOf(o)][ByteOf(o)] = io.datum
             ELSE page[PageOf(o)][ByteOf(o)] = io.datum

\* A write has stored the bytes before its current page, and in the end all.
CopiedOK ==
  Writing => \A o \in Bytes(io) :
               \/ io.stage = "copy" /\ PageOf(o) < Current
               \/ io.stage = "put" /\ io.ok
               => Copied(o)

\* A write delivers nothing, a read what a reader may be given.
GotOK ==
  /\ Writing => io.got = [o \in Offset |-> NotRead]
  /\ WrittenSurvives

FileInv ==
  /\ TypeOK
  /\ CallInside
  /\ BusyOK
  /\ FreshOK
  /\ HolesStay
  /\ PagesAccounted
  /\ WrittenKept
  /\ WrittenHeld
  /\ CopiedOK
  /\ GotOK

-----------------------------------------------------------------------------
(* What the conjuncts of the invariant need of pages and calls.            *)

LEMMA Place ==
  ASSUME FileAssumption
  PROVE  /\ PageNo \subseteq Nat
         /\ IsFiniteSet(PageNo)
         /\ \A o \in Offset : /\ o \in Nat /\ o < MaxSize
                              /\ PageOf(o) \in PageNo
                              /\ ByteOf(o) \in 0..(PageSize - 1)
                              /\ PageOf(o) * PageSize + ByteOf(o) = o
                              /\ PageOf(o) * PageSize \in Nat
                              /\ PageOf(o) * PageSize <= o
         /\ \A p \in PageNo : p * PageSize \in Nat
<1>1. PageSize \in Nat \ {0} /\ MaxSize \in Nat
  BY DEF FileAssumption
<1>2. ASSUME NEW o \in Offset
      PROVE  /\ o \in Nat /\ o < MaxSize
             /\ PageOf(o) \in PageNo
             /\ ByteOf(o) \in 0..(PageSize - 1)
             /\ PageOf(o) * PageSize + ByteOf(o) = o
             /\ PageOf(o) * PageSize \in Nat
             /\ PageOf(o) * PageSize <= o
  <2>1. /\ o \in Nat /\ PageOf(o) \in PageNo
        /\ ByteOf(o) \in 0..(PageSize - 1)
        /\ o = PageOf(o) * PageSize + ByteOf(o)
    BY PageNumbers, Zenon DEF PageOf, ByteOf
  <2>2. PageOf(o) \in Nat
    BY <2>1, PageNumbers
  <2>3. PICK t \in Nat : t = PageOf(o) * PageSize
    BY <1>1, <2>2
  <2>4. o = t + ByteOf(o)
    BY <2>1, <2>3
  <2>5. t <= o
    BY <2>1, <2>4
  <2>6. o < MaxSize
    BY <1>1 DEF Offset
  <2> QED BY <2>1, <2>3, <2>5, <2>6
<1>3. ASSUME NEW p \in PageNo PROVE p * PageSize \in Nat
  BY <1>1, PageNumbers
<1> QED BY <1>2, <1>3, PageNumbers

\* Where the call in progress is.
CallOK ==
  /\ io \in Calls
  /\ First(io) \in Nat /\ PageCount(io) \in Nat /\ Current \in Nat
  /\ PagesOf(io) = First(io)..(First(io) + PageCount(io) - 1)
  /\ PagesOf(io) \subseteq PageNo
  /\ Bytes(io) \subseteq Offset
  /\ \A p \in PagesOf(io) : p * PageSize < fDataSize
  /\ \A o \in Bytes(io) : PageOf(o) \in PagesOf(io) /\ o < fDataSize
  /\ Chunk = {o \in Bytes(io) : PageOf(o) = Current}

LEMMA CallFacts ==
  ASSUME FileAssumption, TypeOK, CallInside, io # Idle
  PROVE  CallOK
<1>1. /\ io \in Calls /\ io.pos \in Nat /\ io.len \in Nat /\ io.index \in Nat
      /\ fDataSize \in 0..MaxSize /\ io.pos + io.len <= fDataSize /\ MaxSize \in Nat
      /\ PageSize \in Nat \ {0}
  BY DEF TypeOK, Calls, CallInside, FileAssumption
<1>2. /\ First(io) \in Nat /\ PageCount(io) \in Nat
      /\ \A p \in PagesOf(io) : p \in Nat /\ p * PageSize < io.pos + io.len
      /\ \A o \in io.pos..(io.pos + io.len - 1) :
           o \in Nat /\ o \div PageSize \in PagesOf(io)
  BY <1>1, CallPages
<1>3. Current \in Nat
  <2>1. PICK f \in Nat, i \in Nat : f = First(io) /\ i = io.index
    BY <1>1, <1>2
  <2>2. Current = f + i
    BY <2>1 DEF Current
  <2> QED BY <2>1, <2>2
<1>4. ASSUME NEW p \in PagesOf(io)
      PROVE  p \in PageNo /\ p * PageSize < fDataSize
  <2>1. p \in Nat /\ p * PageSize < io.pos + io.len
    BY <1>2
  <2>2. PICK t \in Nat : t = p * PageSize
    BY <1>1, <2>1
  <2>3. t < fDataSize /\ t < MaxSize
    BY <1>1, <2>1, <2>2
  <2> QED BY <2>1, <2>2, <2>3, PageNumbers
<1>5. ASSUME NEW o \in Bytes(io)
      PROVE  o \in Offset /\ PageOf(o) \in PagesOf(io) /\ o < fDataSize
  <2>1. o \in Nat /\ o < io.pos + io.len
    BY <1>1 DEF Bytes
  <2>2. o \in Offset /\ o < fDataSize
    BY <1>1, <2>1 DEF Offset
  <2>3. o \div PageSize \in PagesOf(io)
    BY <1>2, Zenon DEF Bytes
  <2> QED BY <2>2, <2>3 DEF PageOf
<1>6. Chunk = {o \in Bytes(io) : PageOf(o) = Current}
  BY Zenon DEF Chunk, Bytes, PageOf
<1> QED BY <1>1, <1>2, <1>3, <1>4, <1>5, <1>6 DEF CallOK, PagesOf

\* The parts of the invariant that the pages and the call determine.
Parts == /\ CallInside /\ BusyOK /\ FreshOK /\ HolesStay /\ PagesAccounted
         /\ WrittenKept /\ WrittenHeld /\ CopiedOK /\ GotOK

\* The pages of the cache, and those that a write has in hand.
Cached == {p \in PageNo : Present(p)}
New == {p \in PageNo : fresh[p] # Absent}

LEMMA Accounting ==
  /\ PagesAccounted <=> /\ \A p \in Cached : p * PageSize < fDataSize
                        /\ used = Cardinality(Cached) + Cardinality(New)
  /\ FileAssumption => /\ IsFiniteSet(Cached) /\ Cardinality(Cached) \in Nat
                       /\ IsFiniteSet(New) /\ Cardinality(New) \in Nat
<1>1. PagesAccounted <=> /\ \A p \in Cached : p * PageSize < fDataSize
                         /\ used = Cardinality(Cached) + Cardinality(New)
  BY DEF PagesAccounted, Cached, New
<1>2. ASSUME FileAssumption
      PROVE  IsFiniteSet(Cached) /\ IsFiniteSet(New)
  BY <1>2, Place, FS_Subset DEF Cached, New
<1> QED BY <1>1, <1>2, FS_CardinalityType

LEMMA FileInvIsParts == FileInv <=> TypeOK /\ Parts
BY DEF FileInv, Parts

LEMMA SamePages ==
  ASSUME Parts, UNCHANGED <<fDataSize, page, busy, fresh, used, io, allowed, written>>
  PROVE  Parts'
BY DEF Parts, CallInside, BusyOK, FreshOK, HolesStay, PagesAccounted, WrittenKept,
       WrittenHeld, CopiedOK, GotOK, WrittenSurvives, Delivered, Looked, Current,
       Present, Writing, Copied

-----------------------------------------------------------------------------
(* The steps of the VM.                                                    *)

\* The VM has made a page busy or not.
LEMMA VmBusyStep ==
  ASSUME FileAssumption, TypeOK, Parts, NEW p \in PageNo, VmTake(p) \/ VmRelease(p)
  PROVE  TypeOK' /\ Parts'
<1>1. UNCHANGED <<fDataSize, page, fresh, used, io, cookie, allowed, written, misreported>>
  BY DEF VmTake, VmRelease, history
<1>2. PICK v \in {"no", "vm"} : busy' = [busy EXCEPT ![p] = v]
  BY DEF VmTake, VmRelease
<1>3. busy[p] # "io" /\ Present(p)
  BY DEF VmTake, VmRelease, Parts, BusyOK
<1>4. busy \in [PageNo -> {"no", "io", "vm"}]
  BY DEF TypeOK
<1>5. \A q \in PageNo : /\ busy'[q] = "io" <=> busy[q] = "io"
                        /\ busy'[q] # "no" => Present(q)
  BY <1>2, <1>3, <1>4 DEF Parts, BusyOK
<1>6. faults' \in 0..MaxFaults
  BY DEF VmTake, VmRelease, TypeOK, FileAssumption
<1>7. TypeOK'
  <2>1. busy' \in [PageNo -> {"no", "io", "vm"}]
    BY <1>2, <1>4
  <2> QED BY <1>1, <1>6, <2>1 DEF TypeOK
<1>8. CallInside' /\ HolesStay' /\ PagesAccounted' /\ WrittenKept' /\ CopiedOK' /\ GotOK'
  BY <1>1, <1>5 DEF Parts, CallInside, HolesStay, PagesAccounted, WrittenKept,
       CopiedOK, GotOK, WrittenSurvives, Delivered, Looked, Current, Present,
       Writing, Copied
<1>9. BusyOK' /\ FreshOK'
  BY <1>1, <1>5 DEF Parts, BusyOK, FreshOK, Looked, Current, Present, Writing
<1>10. WrittenHeld'
  <2>1. \A o \in written : PageOf(o) \in PageNo
    BY Place DEF TypeOK
  <2> QED BY <1>1, <1>5, <2>1 DEF Parts, WrittenHeld, Looked, Current
<1> QED BY <1>7, <1>8, <1>9, <1>10 DEF Parts

\* A page has come into the cache, where no write is filling a hole.
LEMMA VmFaultStep ==
  ASSUME FileAssumption, FaultsInWrites = FALSE, TypeOK, Parts,
         NEW p \in PageNo, VmFault(p)
  PROVE  TypeOK' /\ Parts'
<1>1. UNCHANGED <<fDataSize, busy, fresh, io, cookie, allowed, written, misreported>>
  BY DEF VmFault, history
<1>2. /\ page' = [page EXCEPT ![p] = Filled(Zero)]
      /\ ~Present(p) /\ used' = used + 1 /\ p \notin Filling
  BY DEF VmFault
<1>3. p * PageSize < fDataSize
  BY DEF VmFault
<1>4. page \in [PageNo -> Content \cup {Absent}] /\ used \in Nat
  BY DEF TypeOK
<1>5. Filled(Zero) \in Content /\ Filled(Zero) # Absent
  BY DEF Filled, Content, Byte, FileAssumption
<1>6. \A q \in PageNo : /\ q # p => page'[q] = page[q] /\ (Present(q)' <=> Present(q))
                        /\ q = p => Present(q)'
  BY <1>2, <1>4, <1>5 DEF Present
<1>7. TypeOK'
  <2>1. faults' \in 0..MaxFaults
    BY DEF VmFault, TypeOK, FileAssumption
  <2>2. page' \in [PageNo -> Content \cup {Absent}] /\ used' \in Nat
    BY <1>2, <1>4, <1>5
  <2> QED BY <1>1, <2>1, <2>2 DEF TypeOK
<1>8. \A o \in written : PageOf(o) \in PageNo /\ PageOf(o) # p /\ Present(PageOf(o))
  BY <1>2, Place DEF Parts, WrittenKept, TypeOK
<1>9. CallInside' /\ BusyOK' /\ FreshOK' /\ WrittenHeld' /\ GotOK'
  BY <1>1, <1>6 DEF Parts, CallInside, BusyOK, FreshOK, WrittenHeld, GotOK,
       WrittenSurvives, Delivered, Looked, Current, Writing
<1>10. Writing => p \notin PagesOf(io)
  BY <1>2 DEF Writing, Filling
<1>11. HolesStay'
  BY <1>1, <1>6, <1>10 DEF Parts, HolesStay, Looked, Current, Writing
<1>12. WrittenKept'
  BY <1>1, <1>6, <1>8 DEF Parts, WrittenKept, Writing
<1>13. CopiedOK'
  <2>1. ASSUME Writing, NEW o \in Bytes(io)
        PROVE  PageOf(o) \in PageNo /\ PageOf(o) # p
    <3>1. io # Idle
      BY <2>1 DEF Writing, Idle
    <3>2. CallOK
      BY <3>1, CallFacts DEF Parts
    <3> QED BY <1>10, <2>1, <3>2 DEF CallOK
  <2>2. Writing => \A o \in Bytes(io) : Copied(o)' <=> Copied(o)
    BY <1>1, <1>6, <2>1 DEF Copied
  <2> QED BY <1>1, <2>2 DEF Parts, CopiedOK, Writing, Current
<1>14. PagesAccounted'
  <2>1. Cached' = Cached \cup {p} /\ p \notin Cached /\ New' = New
    BY <1>1, <1>2, <1>6 DEF Cached, New
  <2>2. Cardinality(Cached') = Cardinality(Cached) + 1
    BY <2>1, Accounting, FS_AddElement
  <2>3. PagesAccounted
    BY DEF Parts
  <2>4. used' = Cardinality(Cached') + Cardinality(New')
    BY <1>2, <2>1, <2>2, <2>3, Accounting
  <2>5. \A q \in Cached' : q * PageSize < fDataSize'
    BY <1>1, <1>3, <2>1, <2>3, Accounting
  <2> QED BY <2>4, <2>5 DEF PagesAccounted, Cached, New
<1> QED BY <1>7, <1>9, <1>11, <1>12, <1>13, <1>14 DEF Parts

-----------------------------------------------------------------------------
(* Between calls.                                                          *)

\* What is left of the invariant between calls.
Settled ==
  /\ \A p \in PageNo : /\ busy[p] # "io" /\ fresh[p] = Absent
                       /\ busy[p] # "no" => Present(p)
  /\ PagesAccounted
  /\ \A o \in written : /\ o < fDataSize
                        /\ Present(PageOf(o))
                        /\ page[PageOf(o)][ByteOf(o)] \in allowed[o]

LEMMA IdleParts == io = Idle => (Parts <=> Settled)
<1> SUFFICES ASSUME io = Idle PROVE Parts <=> Settled
  OBVIOUS
<1>1. ~Writing /\ Delivered = {}
  BY DEF Writing, Idle, Delivered
<1>2. Parts => Settled
  BY <1>1 DEF Parts, BusyOK, FreshOK, WrittenKept, Settled
<1>3. Settled => Parts
  BY <1>1 DEF Parts, CallInside, BusyOK, FreshOK, HolesStay, WrittenKept,
       WrittenHeld, CopiedOK, GotOK, WrittenSurvives, Settled
<1> QED BY <1>2, <1>3

\* A call that has not looked up a page.
Begun == /\ io \in Calls /\ io.stage = "get" /\ io.index = 0
         /\ io.got = [o \in Offset |-> NotRead]
         /\ io.pos + io.len <= fDataSize

LEMMA BegunParts == FileAssumption /\ TypeOK /\ Begun /\ Settled => Parts
<1> SUFFICES ASSUME FileAssumption, TypeOK, Begun, Settled PROVE Parts
  OBVIOUS
<1>1. io # Idle
  BY DEF Begun, Calls, Idle
<1>2. CallInside
  BY DEF Begun, CallInside
<1>3. CallOK
  BY <1>1, <1>2, CallFacts
<1>4. Current = First(io)
  BY <1>3 DEF CallOK, Begun, Current
<1>5. \A p \in PagesOf(io) : ~Looked(p)
  BY <1>3, <1>4 DEF CallOK, Begun, Looked
<1>6. BusyOK /\ FreshOK
  BY DEF Settled, Begun, BusyOK, FreshOK
<1>7. HolesStay /\ WrittenHeld
  BY <1>5 DEF HolesStay, WrittenHeld, Looked
<1>8. WrittenKept
  BY DEF Settled, WrittenKept
<1>9. CopiedOK
  BY DEF Begun, CopiedOK
<1>10. GotOK
  BY DEF Begun, GotOK, WrittenSurvives, Delivered
<1> QED BY <1>2, <1>6, <1>7, <1>8, <1>9, <1>10 DEF Parts, Settled

\* The pages that Resize frees.
Gone(n) == {p \in PageNo : Present(p) /\ p * PageSize >= n}

\* What Resize does to the cache.
Resized(n) ==
  /\ fDataSize' = n /\ busy' = busy
  /\ page' \in [PageNo -> Content \cup {Absent}]
  /\ used' = used - Cardinality(Gone(n))
  /\ \A p \in Gone(n) : busy[p] = "no"
  /\ \A p \in PageNo : Present(p)' <=> Present(p) /\ p \notin Gone(n)
  /\ \A o \in Offset : o < n /\ Present(PageOf(o)) =>
       PageOf(o) \notin Gone(n) /\ page'[PageOf(o)][ByteOf(o)] = page[PageOf(o)][ByteOf(o)]

LEMMA ResizeFacts ==
  ASSUME FileAssumption, TypeOK, NEW n \in Nat, Resize(n)
  PROVE  Resized(n)
<1>1. /\ fDataSize' = n /\ busy' = busy
      /\ used' = used - Cardinality(Gone(n))
      /\ \A p \in Gone(n) : busy[p] = "no"
  BY DEF Resize, Gone
<1>2. PICK clears \in BOOLEAN :
        page' = [p \in PageNo |->
          IF p \in Gone(n) THEN Absent
          ELSE IF clears /\ Present(p)
          THEN [k \in 0..(PageSize - 1) |->
                  IF p * PageSize + k >= n THEN Zero ELSE page[p][k]]
          ELSE page[p]]
  BY DEF Resize, Gone
<1>3. page \in [PageNo -> Content \cup {Absent}] /\ Absent \notin Content
  BY DEF TypeOK, FileAssumption, Content, Byte
<1>4. ASSUME NEW p \in PageNo
      PROVE  /\ page'[p] \in Content \cup {Absent}
             /\ page'[p] # Absent <=> Present(p) /\ p \notin Gone(n)
  <2>1. CASE p \in Gone(n) \/ ~(clears /\ Present(p))
    BY <1>2, <1>3, <2>1 DEF Present, Gone
  <2>2. CASE p \notin Gone(n) /\ clears /\ Present(p)
    <3>1. page'[p] = [k \in 0..(PageSize - 1) |->
                        IF p * PageSize + k >= n THEN Zero ELSE page[p][k]]
      BY <1>2, <2>2
    <3>2. page[p] \in Content
      BY <1>3, <2>2 DEF Present
    <3>3. page'[p] \in Content
      BY <3>1, <3>2 DEF Content, Byte
    <3> QED BY <1>3, <2>2, <3>3
  <2> QED BY <2>1, <2>2
<1>5. ASSUME NEW o \in Offset, o < n, Present(PageOf(o))
      PROVE  /\ PageOf(o) \notin Gone(n)
             /\ page'[PageOf(o)][ByteOf(o)] = page[PageOf(o)][ByteOf(o)]
  <2>1. /\ PageOf(o) \in PageNo /\ ByteOf(o) \in 0..(PageSize - 1)
        /\ PageOf(o) * PageSize + ByteOf(o) = o
        /\ PageOf(o) * PageSize \in Nat /\ PageOf(o) * PageSize <= o /\ o \in Nat
    BY Place
  <2>2. PICK t \in Nat : t = PageOf(o) * PageSize
    BY <2>1
  <2>3. ~(PageOf(o) * PageSize >= n) /\ ~(PageOf(o) * PageSize + ByteOf(o) >= n)
    BY <1>5, <2>1, <2>2
  <2>4. PageOf(o) \notin Gone(n)
    BY <2>3, Zenon DEF Gone
  <2>5. CASE clears
    <3>1. page'[PageOf(o)] = [k \in 0..(PageSize - 1) |->
             IF PageOf(o) * PageSize + k >= n THEN Zero ELSE page[PageOf(o)][k]]
      BY <1>2, <1>5, <2>1, <2>4, <2>5
    <3> QED BY <2>1, <2>3, <2>4, <3>1
  <2>6. CASE ~clears
    BY <1>2, <2>1, <2>4, <2>6
  <2> QED BY <2>4, <2>5, <2>6
<1>6. page' \in [PageNo -> Content \cup {Absent}]
  BY <1>2, <1>4
<1> QED BY <1>1, <1>4, <1>5, <1>6 DEF Resized, Present

\* The history after Forget, or after a resize that leaves every byte.
KeepsHistory(n) == \/ Forget(n)
                   \/ UNCHANGED <<allowed, written>> /\ fDataSize <= n

LEMMA ResizeSettled ==
  ASSUME FileAssumption, TypeOK, Settled, NEW n \in 0..MaxSize, Resized(n),
         fresh' = fresh, KeepsHistory(n)
  PROVE  /\ Settled'
         /\ used' \in Nat
         /\ allowed' \in [Offset -> SUBSET Byte] /\ written' \subseteq Offset
<1>1. /\ fDataSize' = n /\ busy' = busy
      /\ used' = used - Cardinality(Gone(n))
      /\ \A p \in Gone(n) : busy[p] = "no"
      /\ \A p \in PageNo : Present(p)' <=> Present(p) /\ p \notin Gone(n)
  BY DEF Resized
<1>2. fDataSize \in 0..MaxSize /\ written \subseteq Offset /\ MaxSize \in Nat
      /\ allowed \in [Offset -> SUBSET Byte] /\ used \in Nat
  BY DEF TypeOK, FileAssumption
<1>3. /\ written' \subseteq written
      /\ \A o \in written' : o < n
      /\ \A o \in written' : allowed'[o] = allowed[o]
      /\ allowed' \in [Offset -> SUBSET Byte]
  <2>1. CASE Forget(n)
    <3>1. \A o \in Offset : o \in Nat
      BY Place
    <3>2. written' = {o \in written : o < n}
      BY <2>1 DEF Forget
    <3>3. allowed' = [o \in Offset |-> IF o >= n THEN {Zero} ELSE allowed[o]]
      BY <2>1 DEF Forget
    <3>4. ASSUME NEW o \in written' PROVE o < n /\ allowed'[o] = allowed[o]
      <4>1. o \in Offset /\ o \in Nat /\ o < n /\ ~(o >= n)
        BY <1>2, <3>1, <3>2
      <4> QED BY <3>3, <4>1
    <3>5. allowed' \in [Offset -> SUBSET Byte]
      BY <1>2, <3>3 DEF Byte
    <3> QED BY <3>2, <3>4, <3>5
  <2>2. CASE UNCHANGED <<allowed, written>> /\ fDataSize <= n
    <3>1. \A o \in written : o \in Nat /\ o < fDataSize
      BY <1>2, Place DEF Settled
    <3> QED BY <1>2, <2>2, <3>1
  <2> QED BY <2>1, <2>2 DEF KeepsHistory
<1>4. \A p \in PageNo : /\ busy'[p] # "io" /\ fresh'[p] = Absent
                        /\ busy'[p] # "no" => Present(p)'
  BY <1>1 DEF Settled
<1>5. ASSUME NEW o \in written'
      PROVE  /\ o < fDataSize'
             /\ Present(PageOf(o))'
             /\ page'[PageOf(o)][ByteOf(o)] \in allowed'[o]
  <2>1. o \in written /\ o \in Offset /\ o < n /\ PageOf(o) \in PageNo
    BY <1>2, <1>3, Place
  <2>2. Present(PageOf(o)) /\ page[PageOf(o)][ByteOf(o)] \in allowed[o]
    BY <2>1 DEF Settled
  <2>3. /\ PageOf(o) \notin Gone(n)
        /\ page'[PageOf(o)][ByteOf(o)] = page[PageOf(o)][ByteOf(o)]
    BY <2>1, <2>2 DEF Resized
  <2>4. Present(PageOf(o))'
    BY <1>1, <2>1, <2>2, <2>3
  <2>5. allowed'[o] = allowed[o]
    BY <1>3
  <2> QED BY <1>1, <2>1, <2>2, <2>3, <2>4, <2>5
<1>6. Cached' = Cached \ Gone(n) /\ Gone(n) \subseteq Cached /\ New' = New /\ New = {}
  BY <1>1 DEF Cached, Gone, New, Settled
<1>7. /\ Cardinality(Gone(n)) \in Nat /\ Cardinality(Cached) \in Nat
      /\ Cardinality(Cached') = Cardinality(Cached) - Cardinality(Gone(n))
      /\ Cardinality(Cached') \in Nat /\ Cardinality(New) = 0
  <2>1. IsFiniteSet(Cached) /\ IsFiniteSet(Gone(n)) /\ IsFiniteSet(Cached \ Gone(n))
    BY <1>6, Accounting, FS_Subset
  <2>2. Cached \cap Gone(n) = Gone(n)
    BY <1>6
  <2>3. Cardinality(Cached \ Gone(n)) = Cardinality(Cached) - Cardinality(Cached \cap Gone(n))
    BY <2>1, FS_Difference
  <2> QED BY <1>6, <2>1, <2>2, <2>3, FS_CardinalityType, FS_EmptySet
<1>8. PagesAccounted
  BY DEF Settled
<1>9. used' = Cardinality(Cached') + Cardinality(New')
  BY <1>1, <1>6, <1>7, <1>8, Accounting
<1>10. \A p \in Cached' : p * PageSize < fDataSize'
  <2>1. ASSUME NEW p \in Cached' PROVE p * PageSize < n
    <3>1. p \in PageNo /\ Present(p) /\ p \notin Gone(n) /\ p * PageSize \in Nat
      BY <1>6, <2>1, Place DEF Cached
    <3>2. PICK t \in Nat : t = p * PageSize
      BY <3>1
    <3>3. ~(t >= n)
      BY <3>1, <3>2 DEF Gone
    <3> QED BY <3>2, <3>3
  <2> QED BY <1>1, <2>1
<1>11. PagesAccounted'
  BY <1>9, <1>10 DEF PagesAccounted, Cached, New
<1>12. used' \in Nat
  <2>1. Cardinality(New') = 0
    BY <1>6, <1>7
  <2> QED BY <1>7, <1>9, <2>1
<1> QED BY <1>2, <1>3, <1>4, <1>5, <1>11, <1>12 DEF Settled

\* A cookie that opens, truncating the file or not, and a change of its size.
LEMMA ResizeStep ==
  ASSUME FileAssumption, TypeOK, Parts, NEW n \in 0..MaxSize,
         Locked, Resize(n), Forget(n), UNCHANGED <<fresh, io, faults, misreported>>,
         cookie' \in [Cookie -> {"none", "plain", "append"}]
  PROVE  TypeOK' /\ Parts'
<1>1. io = Idle /\ io' = Idle
  BY DEF Locked
<1>2. Resized(n)
  BY ResizeFacts DEF FileAssumption
<1>3. /\ Settled' /\ used' \in Nat
      /\ allowed' \in [Offset -> SUBSET Byte] /\ written' \subseteq Offset
  BY <1>1, <1>2, IdleParts, ResizeSettled DEF KeepsHistory
<1>4. Parts'
  <2>1. (io = Idle => (Parts <=> Settled))'
    BY IdleParts, PTL
  <2> QED BY <1>1, <1>3, <2>1
<1>5. TypeOK'
  BY <1>2, <1>3 DEF TypeOK, Resized
<1> QED BY <1>4, <1>5

LEMMA OpenStep ==
  ASSUME FileAssumption, TypeOK, Parts, NEW c \in Cookie, NEW append \in BOOLEAN,
         NEW trunc \in BOOLEAN, Open(c, append, trunc)
  PROVE  TypeOK' /\ Parts'
<1>1. cookie' \in [Cookie -> {"none", "plain", "append"}]
  BY DEF Open, TypeOK
<1>2. CASE trunc /\ fDataSize > 0
  <2>1. /\ Locked /\ Resize(0) /\ Forget(0)
        /\ UNCHANGED <<fresh, io, faults, misreported>>
    BY <1>2 DEF Open
  <2>2. 0 \in 0..MaxSize
    BY DEF FileAssumption
  <2> QED BY <1>1, <2>1, <2>2, ResizeStep
<1>3. CASE ~(trunc /\ fDataSize > 0)
  <2>1. UNCHANGED <<fDataSize, page, busy, fresh, used, io, faults, allowed, written,
                    misreported>>
    BY <1>3 DEF Open
  <2>2. TypeOK'
    BY <1>1, <2>1 DEF TypeOK
  <2> QED BY <2>1, <2>2, SamePages
<1> QED BY <1>2, <1>3

-----------------------------------------------------------------------------
(* Calls that begin.                                                       *)

\* A sum that is positive did not wrap.
LEMMA PositiveSum ==
  ASSUME FileAssumption, NEW p \in 0..(OffMod \div 2 - 1), NEW n \in 0..(OffMod \div 2 - 1),
         OffSum(p, n) > 0
  PROVE  OffSum(p, n) = p + n
<1>1. OffMod \in Nat \ {0} /\ OffMod % 2 = 0
  BY DEF FileAssumption
<1>2. PICK h \in Nat : h = OffMod \div 2 /\ OffMod = 2 * h
  <2>1. PICK q \in Nat, r \in 0..(2 - 1) :
          q = OffMod \div 2 /\ r = OffMod % 2 /\ OffMod = 2 * q + r
    BY <1>1, Divided
  <2>2. OffMod = 2 * q
    BY <1>1, <2>1
  <2> QED BY <2>1, <2>2
<1>3. PICK s \in Nat : s = p + n /\ s < OffMod
  BY <1>2
<1>4. s % OffMod = s
  <2>1. s = OffMod * 0 + s /\ s \in 0..(OffMod - 1)
    BY <1>1, <1>3
  <2> QED BY <1>1, <2>1, DivUnique
<1>5. OffSum(p, n) = IF s < h THEN s ELSE s - OffMod
  BY <1>2, <1>3, <1>4 DEF OffSum
<1> QED BY <1>1, <1>3, <1>5

LEMMA StartBegins ==
  ASSUME NEW op \in {"read", "write"}, NEW c \in Cookie, NEW pos \in Nat, NEW len \in Nat,
         NEW d \in Datum \cup {Zero}, Start(op, c, pos, len, d), pos + len <= fDataSize'
  PROVE  Begun'
<1>1. PICK b \in PageNo \cup {NoPage} :
        io' = [op |-> op, stage |-> "get", by |-> c, pos |-> pos, len |-> len,
               index |-> 0, datum |-> d, buf |-> b,
               got |-> [o \in Offset |-> NotRead], ok |-> TRUE]
  BY DEF Start, Buffers
<1>2. io' \in Calls
  BY <1>1 DEF Calls
<1> QED BY <1>1, <1>2 DEF Begun

\* A call has begun on a file that is settled.
LEMMA BegunStep ==
  ASSUME FileAssumption, Settled', TypeOK', Begun'
  PROVE  Parts'
<1>1. (FileAssumption /\ TypeOK /\ Begun /\ Settled => Parts)'
  BY BegunParts, PTL
<1> QED BY <1>1

LEMMA ReadStep ==
  ASSUME FileAssumption, TypeOK, Parts, NEW c \in Cookie, NEW p \in Position,
         NEW n \in Length, Read(c, p, n)
  PROVE  TypeOK' /\ Parts'
<1>1. io = Idle /\ UNCHANGED <<fileVars, cookie, faults, history>>
  BY DEF Read, Locked
<1>2. PICK size \in Nat : size = fDataSize /\ size = fDataSize'
  BY <1>1 DEF TypeOK, fileVars
<1>3. p \in Nat /\ n \in Nat
  BY DEF FileAssumption
<1>4. PICK pos \in Nat, len \in Nat :
        /\ pos = Least(p, fDataSize) /\ len = Least(n, fDataSize - pos)
        /\ pos + len <= size
  <2>1. PICK pos \in Nat : pos = Least(p, size) /\ pos <= size
    BY <1>3 DEF Least
  <2>2. PICK len \in Nat : len = Least(n, size - pos) /\ pos + len <= size
    <3>1. PICK rest \in Nat : rest = size - pos /\ pos + rest = size
      BY <2>1
    <3>2. Least(n, rest) \in Nat /\ Least(n, rest) <= rest
      BY <1>3, <3>1 DEF Least
    <3>3. PICK len \in Nat : len = Least(n, rest) /\ len <= rest
      BY <3>2
    <3>4. pos + len <= size
      BY <2>1, <3>1, <3>3
    <3> QED BY <3>1, <3>3, <3>4, Zenon
  <2> QED BY <1>2, <2>1, <2>2, Zenon
<1>5. Start("read", c, pos, len, Zero)
  BY <1>4, Zenon DEF Read
<1>6. Begun'
  BY <1>2, <1>4, <1>5, StartBegins
<1>7. TypeOK'
  BY <1>1, <1>6 DEF TypeOK, Begun, fileVars, history
<1>8. Settled'
  <2>1. Settled
    BY <1>1, IdleParts
  <2> QED BY <1>1, <2>1 DEF Settled, fileVars, history, PagesAccounted, Present
<1> QED BY <1>6, <1>7, <1>8, BegunStep

LEMMA WriteStep ==
  ASSUME FileAssumption, TypeOK, Parts, NEW c \in Cookie, NEW p \in Position,
         NEW n \in Length, NEW d \in Datum, Write(c, p, n, d)
  PROVE  TypeOK' /\ Parts'
<1>1. io = Idle /\ UNCHANGED <<fresh, cookie, faults, history>>
  BY DEF Write, Locked
<1>2. MaxSize \in Nat /\ MaxSize < OffMod \div 2 /\ OffMod \div 2 \in Int
      /\ fDataSize \in 0..MaxSize
  BY DEF FileAssumption, TypeOK
<1>3. PICK pos \in 0..(OffMod \div 2 - 1) : pos = WritePos(c, p)
  BY <1>2 DEF WritePos, FileAssumption
<1>4. n \in 0..(OffMod \div 2 - 1)
  BY DEF FileAssumption
<1>5. PICK size \in 0..MaxSize : size = OffSum(pos, n) /\ size > 0
  <2>1. OffSum(pos, n) > 0 /\ OffSum(pos, n) <= MaxSize
    BY <1>3 DEF Write
  <2>2. OffSum(pos, n) = pos + n
    BY <1>4, <2>1, PositiveSum
  <2> QED BY <1>2, <1>4, <2>1, <2>2
<1>6. size = pos + n
  BY <1>4, <1>5, PositiveSum
<1>7. Grow(size)
  BY <1>3, <1>5, Zenon DEF Write
<1>8. Start("write", c, pos, n, d) \/ io' = io
  BY <1>3 DEF Write
<1>9. Settled
  BY <1>1, IdleParts
<1>10. /\ Settled' /\ used' \in Nat /\ fDataSize' \in 0..MaxSize /\ size <= fDataSize'
       /\ page' \in [PageNo -> Content \cup {Absent}] /\ busy' = busy
  <2>1. CASE size > fDataSize
    <3>1. Resize(size)
      BY <1>7, <2>1 DEF Grow
    <3>2. Resized(size)
      BY <3>1, ResizeFacts
    <3>3. KeepsHistory(size)
      BY <1>1, <1>2, <2>1 DEF KeepsHistory, history
    <3>4. Settled' /\ used' \in Nat
      BY <1>1, <1>9, <3>2, <3>3, ResizeSettled
    <3> QED BY <3>2, <3>4 DEF Resized
  <2>2. CASE ~(size > fDataSize)
    <3>1. UNCHANGED <<fDataSize, page, busy, used>>
      BY <1>7, <2>2 DEF Grow
    <3>2. Settled'
      BY <1>1, <1>9, <3>1 DEF Settled, history, PagesAccounted, Present
    <3> QED BY <1>2, <2>2, <3>1, <3>2 DEF TypeOK
  <2> QED BY <2>1, <2>2
<1>11. CASE Start("write", c, pos, n, d)
  <2>1. pos \in Nat /\ n \in Nat /\ pos + n <= fDataSize'
    BY <1>4, <1>6, <1>10
  <2>2. Begun'
    BY <1>11, <2>1, StartBegins
  <2>3. TypeOK'
    BY <1>1, <1>10, <2>2 DEF TypeOK, Begun, history
  <2> QED BY <1>10, <2>2, <2>3, BegunStep
<1>12. CASE io' = io
  <2>1. TypeOK'
    BY <1>1, <1>10, <1>12 DEF TypeOK, history
  <2>2. (io = Idle => (Parts <=> Settled))'
    BY IdleParts, PTL
  <2> QED BY <1>1, <1>10, <1>12, <2>1, <2>2
<1> QED BY <1>8, <1>11, <1>12

-----------------------------------------------------------------------------
(* The turns of _GetPages.                                                 *)

\* A step of the call does not move it.
Stays == /\ io # Idle /\ io' \in Calls
         /\ io'.op = io.op /\ io'.pos = io.pos /\ io'.len = io.len /\ io'.datum = io.datum

LEMMA StaysFacts ==
  ASSUME Stays
  PROVE  /\ First(io)' = First(io) /\ PageCount(io)' = PageCount(io)
         /\ PagesOf(io)' = PagesOf(io) /\ Bytes(io)' = Bytes(io)
         /\ Writing' <=> Writing
         /\ io' # Idle
<1>1. First(io)' = First(io) /\ PageCount(io)' = PageCount(io)
  BY Zenon DEF Stays, First, PageCount
<1>2. PagesOf(io)' = PagesOf(io)
  BY <1>1, Zenon DEF PagesOf
<1>3. Bytes(io)' = Bytes(io)
  BY Zenon DEF Stays, Bytes
<1>4. io' # Idle
  BY DEF Stays, Calls, Idle
<1> QED BY <1>1, <1>2, <1>3, <1>4 DEF Stays, Writing

LEMMA GetPageStep ==
  ASSUME FileAssumption, TypeOK, Parts, GetPage
  PROVE  TypeOK' /\ Parts'
<1>1. /\ io # Idle /\ io.stage = "get" /\ io.index < PageCount(io)
      /\ busy[Current] = "no"
      /\ busy' = [busy EXCEPT ![Current] = IF Present(Current) THEN "io" ELSE @]
      /\ io' = [io EXCEPT !.index = @ + 1]
      /\ UNCHANGED <<fDataSize, page, fresh, used, cookie, faults, allowed, written,
                     misreported>>
  BY DEF GetPage, Stage, history
<1>2. CallOK
  BY <1>1, CallFacts DEF Parts
<1>3. /\ Stays /\ io'.stage = "get" /\ io'.index = io.index + 1 /\ io'.got = io.got
  <2>1. io \in Calls
    BY <1>2 DEF CallOK
  <2>2. io' \in Calls /\ io'.stage = "get" /\ io'.index = io.index + 1
    <3>1. PICK k \in Nat : k = io.index + 1
      BY <2>1 DEF Calls
    <3>2. io' = [io EXCEPT !.index = k]
      BY <1>1, <3>1
    <3>3. io' \in Calls
      BY <2>1, <3>1, <3>2 DEF Calls
    <3>4. io'.index = k /\ io'.stage = io.stage
      BY <2>1, <3>2 DEF Calls
    <3> QED BY <1>1, <3>1, <3>3, <3>4
  <2>3. /\ io'.op = io.op /\ io'.pos = io.pos /\ io'.len = io.len
        /\ io'.datum = io.datum /\ io'.got = io.got
    BY <1>1, <2>1 DEF Calls
  <2> QED BY <1>1, <2>2, <2>3 DEF Stays
<1>4. Current' = Current + 1 /\ Current \in PagesOf(io) /\ Current \in PageNo
  <2>1. PICK f \in Nat, i \in Nat, k \in Nat :
          f = First(io) /\ i = io.index /\ k = PageCount(io)
    BY <1>2 DEF CallOK, Calls
  <2>2. Current = f + i /\ Current' = f + (i + 1)
    BY <1>3, <2>1, StaysFacts DEF Current
  <2>3. PagesOf(io) = f..(f + k - 1) /\ i < k
    BY <1>1, <1>2, <2>1 DEF CallOK
  <2> QED BY <1>2, <2>2, <2>3 DEF CallOK
<1>5. /\ PagesOf(io)' = PagesOf(io) /\ Bytes(io)' = Bytes(io) /\ io' # Idle
      /\ Writing' <=> Writing
  BY <1>3, StaysFacts
<1>6. \A p \in PageNo : Looked(p)' <=> Looked(p) \/ p = Current
  <2>1. Current \in Nat /\ PageNo \subseteq Nat
    BY <1>2, Place DEF CallOK
  <2> QED BY <1>1, <1>3, <1>4, <1>5, <2>1 DEF Looked
<1>7. /\ \A p \in PageNo : p # Current => busy'[p] = busy[p]
      /\ busy'[Current] = IF Present(Current) THEN "io" ELSE "no"
      /\ busy' \in [PageNo -> {"no", "io", "vm"}]
  BY <1>1, <1>4 DEF TypeOK
<1>8. TypeOK'
  BY <1>1, <1>3, <1>7 DEF TypeOK, Stays
<1>9. CallInside' /\ PagesAccounted' /\ GotOK'
  BY <1>1, <1>3, <1>5 DEF Parts, CallInside, PagesAccounted, GotOK, WrittenSurvives,
       Delivered, Stays, Present
<1>10. BusyOK'
  BY <1>1, <1>5, <1>6, <1>7 DEF Parts, BusyOK, Present
<1>11. FreshOK'
  BY <1>1, <1>3, <1>5 DEF Parts, FreshOK
<1>12. HolesStay'
  BY <1>1, <1>5, <1>6, <1>7 DEF Parts, HolesStay, Present
<1>13. WrittenKept'
  BY <1>1, <1>3, <1>5 DEF Parts, WrittenKept, Present, Stays
<1>14. WrittenHeld'
  <2>1. \A o \in written : PageOf(o) \in PageNo /\ Present(PageOf(o))
    BY Place DEF TypeOK, Parts, WrittenKept
  <2> QED BY <1>1, <1>5, <1>6, <1>7, <2>1 DEF Parts, WrittenHeld
<1>15. CopiedOK'
  BY <1>3 DEF CopiedOK
<1> QED BY <1>8, <1>9, <1>10, <1>11, <1>12, <1>13, <1>14, <1>15 DEF Parts

LEMMA AllocatePagesStep ==
  ASSUME FileAssumption, TypeOK, Parts, AllocatePages
  PROVE  TypeOK' /\ Parts'
<1>1. /\ io # Idle /\ io.stage = "get" /\ io.index = PageCount(io)
      /\ io' = [io EXCEPT !.stage = "copy", !.index = 0]
      /\ UNCHANGED <<fDataSize, page, busy, cookie, faults, allowed, written, misreported>>
  BY DEF AllocatePages, Stage, history
<1>2. CallOK
  BY <1>1, CallFacts DEF Parts
<1>3. /\ Stays /\ io'.stage = "copy" /\ io'.index = 0 /\ io'.got = io.got
  <2>1. io \in Calls
    BY <1>2 DEF CallOK
  <2>2. io' \in Calls /\ io'.stage = "copy" /\ io'.index = 0
    BY <1>1, <2>1 DEF Calls
  <2>3. /\ io'.op = io.op /\ io'.pos = io.pos /\ io'.len = io.len
        /\ io'.datum = io.datum /\ io'.got = io.got
    BY <1>1, <2>1 DEF Calls
  <2> QED BY <1>1, <2>2, <2>3 DEF Stays
<1>4. /\ PagesOf(io)' = PagesOf(io) /\ Bytes(io)' = Bytes(io) /\ io' # Idle
      /\ First(io)' = First(io)
      /\ Writing' <=> Writing
  BY <1>3, StaysFacts
<1>5. \A p : Looked(p) <=> p \in PagesOf(io)
  <2>1. PICK f \in Nat, k \in Nat : f = First(io) /\ k = PageCount(io)
    BY <1>2 DEF CallOK
  <2>2. Current = f + k /\ PagesOf(io) = f..(f + k - 1)
    BY <1>1, <1>2, <2>1 DEF CallOK, Current
  <2> QED BY <2>1, <2>2 DEF Looked
<1>6. \A p : Looked(p)' <=> p \in PagesOf(io)
  BY <1>3, <1>4 DEF Looked
<1>7. PICK new : /\ new = IF Writing THEN Missing ELSE {}
                 /\ fresh' = [p \in PageNo |-> IF p \in new THEN Filled(Junk) ELSE fresh[p]]
                 /\ used' = used + Cardinality(new)
  BY Zenon DEF AllocatePages, Writing
<1>8. /\ new \subseteq PageNo
      /\ \A p \in PageNo : p \in new <=> Writing /\ p \in PagesOf(io) /\ busy[p] # "io"
  BY <1>2, <1>7 DEF CallOK, Missing
<1>9. /\ Filled(Junk) \in Content /\ Filled(Junk) # Absent
      /\ \A p \in PageNo : fresh[p] = Absent
  <2>1. Filled(Junk) \in Content /\ Filled(Junk) # Absent
    BY DEF Filled, Content, Byte, FileAssumption
  <2> QED BY <1>1, <2>1 DEF Parts, FreshOK
<1>10. /\ fresh' \in [PageNo -> Content \cup {Absent}]
       /\ \A p \in PageNo : fresh'[p] # Absent <=> p \in new
  BY <1>7, <1>9
<1>11. /\ New = {} /\ New' = new /\ Cached' = Cached
  BY <1>1, <1>8, <1>9, <1>10 DEF New, Cached, Present
<1>12. Cardinality(new) \in Nat
  BY <1>8, Place, FS_Subset, FS_CardinalityType
<1>13. PagesAccounted'
  <2>1. PagesAccounted
    BY DEF Parts
  <2>2. used = Cardinality(Cached) + 0
    BY <1>11, <2>1, Accounting, FS_EmptySet
  <2>3. used' = Cardinality(Cached') + Cardinality(New')
    BY <1>7, <1>11, <1>12, <2>2, Accounting
  <2>4. \A p \in Cached' : p * PageSize < fDataSize'
    BY <1>1, <1>11, <2>1, Accounting
  <2> QED BY <2>3, <2>4 DEF PagesAccounted, Cached, New
<1>14. TypeOK'
  <2>1. used' \in Nat
    BY <1>7, <1>12 DEF TypeOK
  <2> QED BY <1>1, <1>3, <1>10, <2>1 DEF TypeOK, Stays
<1>15. CallInside' /\ GotOK' /\ WrittenKept'
  <2>1. CallInside' /\ GotOK'
    BY <1>1, <1>3, <1>4 DEF Parts, CallInside, GotOK, WrittenSurvives, Delivered, Stays
  <2>2. WrittenKept'
    BY <1>1, <1>3, <1>4 DEF Parts, Stays, WrittenKept, Present
  <2> QED BY <2>1, <2>2
<1>16. BusyOK' /\ HolesStay' /\ WrittenHeld'
  BY <1>1, <1>4, <1>5, <1>6 DEF Parts, BusyOK, HolesStay, WrittenHeld, Present
<1>17. FreshOK'
  <2>1. io'.stage # "get" /\ busy' = busy
    BY <1>1, <1>3
  <2> QED BY <1>4, <1>8, <1>10, <2>1 DEF FreshOK
<1>18. CopiedOK'
  <2>1. Current' = First(io)
    <3>1. First(io) \in Nat
      BY <1>2 DEF CallOK
    <3>2. Current' = First(io) + 0
      BY <1>3, <1>4, Zenon DEF Current
    <3> QED BY <3>1, <3>2
  <2>2. \A o \in Bytes(io) : PageOf(o) \in Nat /\ ~(PageOf(o) < First(io))
    BY <1>2 DEF CallOK
  <2> QED BY <1>3, <1>4, <2>1, <2>2 DEF CopiedOK
<1> QED BY <1>13, <1>14, <1>15, <1>16, <1>17, <1>18 DEF Parts

-----------------------------------------------------------------------------
(* The turns of _DoCacheIO.                                                *)

\* What no turn changes.
Turns ==
  /\ Stays /\ io.stage = "copy" /\ io'.stage \in {"copy", "put"}
  /\ UNCHANGED <<fDataSize, busy, used, cookie, faults, history>>

\* A turn changes the content of pages, not which there are.
SamePresence ==
  \A p \in PageNo : /\ Present(p)' <=> Present(p)
                    /\ fresh'[p] # Absent <=> fresh[p] # Absent

LEMMA TurnFrame ==
  ASSUME Parts, Turns, SamePresence
  PROVE  /\ CallInside' /\ BusyOK' /\ FreshOK' /\ HolesStay'
         /\ PagesAccounted' /\ WrittenHeld'
<1>1. /\ Stays /\ io # Idle
      /\ io.stage # "get" /\ io'.stage # "get"
      /\ UNCHANGED <<fDataSize, busy, used, allowed, written>>
  BY DEF Turns, Stays, history
<1>2. /\ PagesOf(io)' = PagesOf(io) /\ Bytes(io)' = Bytes(io) /\ io' # Idle
      /\ Writing' <=> Writing
  BY <1>1, StaysFacts
<1>3. \A p : Looked(p)' <=> Looked(p)
  BY <1>1, <1>2 DEF Looked
<1>4. CallInside'
  BY <1>1 DEF Parts, CallInside, Stays
<1>5. BusyOK' /\ HolesStay'
  BY <1>1, <1>2, <1>3 DEF Parts, BusyOK, HolesStay, SamePresence
<1>6. FreshOK'
  BY <1>1, <1>2 DEF Parts, FreshOK, SamePresence
<1>7. WrittenHeld'
  BY <1>1, <1>2, <1>3 DEF Parts, WrittenHeld
<1>8. PagesAccounted'
  <2>1. Cached' = Cached /\ New' = New
    BY DEF SamePresence, Cached, New
  <2>2. PagesAccounted
    BY DEF Parts
  <2> QED BY <1>1, <2>1, <2>2, Accounting DEF PagesAccounted, Cached, New
<1> QED BY <1>4, <1>5, <1>6, <1>7, <1>8

\* The write has its datum in the given bytes, and everything else as before.
Stores(bytes) ==
  /\ page' \in [PageNo -> Content \cup {Absent}]
  /\ fresh' \in [PageNo -> Content \cup {Absent}]
  /\ SamePresence
  /\ \A o \in Offset :
       /\ o \in bytes => IF fresh[PageOf(o)] # Absent
                         THEN fresh'[PageOf(o)][ByteOf(o)] = io.datum
                         ELSE page'[PageOf(o)][ByteOf(o)] = io.datum
       /\ o \notin bytes => fresh'[PageOf(o)][ByteOf(o)] = fresh[PageOf(o)][ByteOf(o)]
       /\ o \notin bytes => page'[PageOf(o)][ByteOf(o)] = page[PageOf(o)][ByteOf(o)]
       /\ \/ page'[PageOf(o)][ByteOf(o)] = page[PageOf(o)][ByteOf(o)]
          \/ o \in bytes /\ page'[PageOf(o)][ByteOf(o)] = io.datum

LEMMA StoredFacts ==
  ASSUME FileAssumption, io \in Calls, NEW content \in Content, NEW bytes
  PROVE  /\ Stored(content, bytes) \in Content
         /\ Stored(content, bytes) # Absent
         /\ \A o \in Offset : PageOf(o) = Current =>
              /\ o \in bytes => Stored(content, bytes)[ByteOf(o)] = io.datum
              /\ o \notin bytes => Stored(content, bytes)[ByteOf(o)] = content[ByteOf(o)]
<1>1. io.datum \in Byte
  BY DEF Calls, Byte
<1>2. Stored(content, bytes) \in Content
  BY <1>1 DEF Stored, Content
<1>3. Absent \notin Content
  BY DEF FileAssumption, Content, Byte
<1>4. ASSUME NEW o \in Offset, PageOf(o) = Current
      PROVE  /\ o \in bytes => Stored(content, bytes)[ByteOf(o)] = io.datum
             /\ o \notin bytes => Stored(content, bytes)[ByteOf(o)] = content[ByteOf(o)]
  <2>1. ByteOf(o) \in 0..(PageSize - 1) /\ Current * PageSize + ByteOf(o) = o
    BY <1>4, Place
  <2>2. Stored(content, bytes)[ByteOf(o)] =
          IF Current * PageSize + ByteOf(o) \in bytes THEN io.datum ELSE content[ByteOf(o)]
    BY <2>1, Zenon DEF Stored
  <2> QED BY <2>1, <2>2, Zenon
<1> QED BY <1>2, <1>3, <1>4

LEMMA CopyToFacts ==
  ASSUME FileAssumption, TypeOK, Parts, Writing, io.stage = "copy", Chunk # {},
         NEW bytes \in SUBSET Chunk, CopyTo(bytes)
  PROVE  Stores(bytes)
<1>1. CallOK
  BY CallFacts DEF Parts, Writing, Idle
<1>2. /\ Current \in PagesOf(io) /\ Current \in PageNo
      /\ \A o \in bytes : PageOf(o) = Current
  BY <1>1 DEF CallOK
<1>3. /\ page \in [PageNo -> Content \cup {Absent}]
      /\ fresh \in [PageNo -> Content \cup {Absent}]
      /\ \A o \in Offset : PageOf(o) \in PageNo
      /\ io \in Calls
  BY <1>1, Place DEF TypeOK, CallOK
<1>4. CASE fresh[Current] # Absent
  <2>1. fresh[Current] \in Content
    BY <1>2, <1>3, <1>4
  <2>2. PICK stored : stored = Stored(fresh[Current], bytes)
    OBVIOUS
  <2>3. /\ stored \in Content /\ stored # Absent
        /\ \A o \in Offset : PageOf(o) = Current =>
             /\ o \in bytes => stored[ByteOf(o)] = io.datum
             /\ o \notin bytes => stored[ByteOf(o)] = fresh[Current][ByteOf(o)]
    BY <1>3, <2>1, <2>2, StoredFacts
  <2>4. fresh' = [fresh EXCEPT ![Current] = stored] /\ page' = page
    BY <1>4, <2>2 DEF CopyTo
  <2>5. \A p \in PageNo : fresh'[p] = IF p = Current THEN stored ELSE fresh[p]
    BY <1>3, <2>4
  <2>6. SamePresence
    BY <1>4, <2>3, <2>4, <2>5 DEF SamePresence, Present
  <2>7. fresh' \in [PageNo -> Content \cup {Absent}]
    BY <1>3, <2>3, <2>4
  <2> QED BY <1>2, <1>3, <1>4, <2>3, <2>4, <2>5, <2>6, <2>7 DEF Stores
<1>5. CASE fresh[Current] = Absent
  <2>1. busy[Current] = "io"
    BY <1>2, <1>5 DEF Parts, FreshOK
  <2>2. page[Current] \in Content /\ page[Current] # Absent
    BY <1>2, <1>3, <2>1 DEF Parts, BusyOK, Present
  <2>3. PICK stored : stored = Stored(page[Current], bytes)
    OBVIOUS
  <2>4. /\ stored \in Content /\ stored # Absent
        /\ \A o \in Offset : PageOf(o) = Current =>
             /\ o \in bytes => stored[ByteOf(o)] = io.datum
             /\ o \notin bytes => stored[ByteOf(o)] = page[Current][ByteOf(o)]
    BY <1>3, <2>2, <2>3, StoredFacts
  <2>5. page' = [page EXCEPT ![Current] = stored] /\ fresh' = fresh
    BY <1>5, <2>3 DEF CopyTo
  <2>6. \A p \in PageNo : page'[p] = IF p = Current THEN stored ELSE page[p]
    BY <1>3, <2>5
  <2>7. SamePresence
    BY <2>2, <2>4, <2>5, <2>6 DEF SamePresence, Present
  <2>8. page' \in [PageNo -> Content \cup {Absent}]
    BY <1>3, <2>4, <2>5
  <2> QED BY <1>2, <1>3, <1>5, <2>4, <2>5, <2>6, <2>7, <2>8 DEF Stores
<1> QED BY <1>4, <1>5

\* A turn of a write, which is the last one if the user's memory faulted.
LEMMA WriteTurn ==
  ASSUME FileAssumption, TypeOK, Parts, Turns, Writing, io'.got = io.got,
         NEW bytes \in SUBSET Chunk, Stores(bytes),
         \/ io'.stage = "copy" /\ io'.index = io.index + 1 /\ bytes = Chunk
         \/ io'.stage = "put" /\ ~io'.ok
  PROVE  TypeOK' /\ Parts'
<1>1. /\ Stays /\ io' \in Calls /\ io'.datum = io.datum
      /\ io.stage = "copy" /\ io # Idle
      /\ UNCHANGED <<fDataSize, busy, used, cookie, faults, allowed, written, misreported>>
  BY DEF Turns, Stays, history
<1>2. /\ PagesOf(io)' = PagesOf(io) /\ Bytes(io)' = Bytes(io) /\ First(io)' = First(io)
      /\ Writing' <=> Writing
  BY <1>1, StaysFacts
<1>3. CallOK
  BY <1>1, CallFacts DEF Parts
<1>4. /\ bytes \subseteq Bytes(io) /\ bytes \subseteq Offset
      /\ \A o \in bytes : PageOf(o) = Current
      /\ \A o \in Bytes(io) : PageOf(o) = Current => o \in Chunk
  BY <1>3 DEF CallOK
<1>5. TypeOK'
  BY <1>1 DEF TypeOK, Stores
<1>6. /\ CallInside' /\ BusyOK' /\ FreshOK' /\ HolesStay'
      /\ PagesAccounted' /\ WrittenHeld'
  BY TurnFrame DEF Stores
<1>7. WrittenKept'
  <2>1. ASSUME NEW o \in written
        PROVE  /\ o < fDataSize' /\ Present(PageOf(o))'
               /\ \/ page'[PageOf(o)][ByteOf(o)] \in allowed'[o]
                  \/ Writing' /\ o \in Bytes(io)' /\ page'[PageOf(o)][ByteOf(o)] = io'.datum
    <3>1. o \in Offset /\ PageOf(o) \in PageNo
      BY Place DEF TypeOK
    <3>2. /\ o < fDataSize /\ Present(PageOf(o))
          /\ \/ page[PageOf(o)][ByteOf(o)] \in allowed[o]
             \/ Writing /\ o \in Bytes(io) /\ page[PageOf(o)][ByteOf(o)] = io.datum
      BY DEF Parts, WrittenKept
    <3>3. Present(PageOf(o))'
      BY <3>1, <3>2 DEF Stores, SamePresence
    <3>4. \/ page'[PageOf(o)][ByteOf(o)] = page[PageOf(o)][ByteOf(o)]
          \/ o \in bytes /\ page'[PageOf(o)][ByteOf(o)] = io.datum
      BY <3>1 DEF Stores
    <3> QED BY <1>1, <1>2, <1>4, <3>2, <3>3, <3>4
  <2> QED BY <1>1, <2>1 DEF WrittenKept
<1>8. CopiedOK'
  <2>1. CASE io'.stage = "put" /\ ~io'.ok
    BY <2>1 DEF CopiedOK
  <2>2. CASE io'.stage = "copy" /\ io'.index = io.index + 1 /\ bytes = Chunk
    <3>1. Current' = Current + 1
      <4>1. PICK f \in Nat, i \in Nat : f = First(io) /\ i = io.index
        BY <1>3 DEF CallOK, Calls
      <4>2. Current = f + i /\ Current' = f + (i + 1)
        BY <1>2, <2>2, <4>1 DEF Current
      <4> QED BY <4>1, <4>2
    <3>2. ASSUME NEW o \in Bytes(io), PageOf(o) < Current + 1
          PROVE  Copied(o)'
      <4>1. o \in Offset /\ PageOf(o) \in PageNo /\ PageOf(o) \in Nat /\ Current \in Nat
        BY <1>3, Place DEF CallOK
      <4>2. fresh'[PageOf(o)] # Absent <=> fresh[PageOf(o)] # Absent
        BY <4>1 DEF Stores, SamePresence
      <4>3. CASE PageOf(o) = Current
        BY <1>1, <1>4, <2>2, <4>1, <4>2, <4>3 DEF Stores, Copied
      <4>4. CASE PageOf(o) # Current
        <5>1. PageOf(o) < Current /\ o \notin bytes
          BY <1>4, <3>2, <4>1, <4>4
        <5>2. Copied(o)
          BY <1>1, <5>1 DEF Parts, CopiedOK
        <5>3. /\ fresh'[PageOf(o)][ByteOf(o)] = fresh[PageOf(o)][ByteOf(o)]
              /\ page'[PageOf(o)][ByteOf(o)] = page[PageOf(o)][ByteOf(o)]
          BY <4>1, <5>1 DEF Stores
        <5> QED BY <1>1, <4>2, <5>2, <5>3 DEF Copied
      <4> QED BY <4>3, <4>4
    <3> QED BY <1>2, <2>2, <3>1, <3>2 DEF CopiedOK
  <2> QED BY <2>1, <2>2
<1>9. GotOK'
  BY <1>1, <1>2 DEF Parts, GotOK, WrittenSurvives, Delivered, Stays
<1> QED BY <1>5, <1>6, <1>7, <1>8, <1>9 DEF Parts

\* A turn of a read, or the end of the turns.
LEMMA ReadTurn ==
  ASSUME FileAssumption, TypeOK, Parts, Turns, ~Writing, UNCHANGED <<page, fresh>>,
         io'.got \in {io.got, Got}
  PROVE  TypeOK' /\ Parts'
<1>1. /\ Stays /\ io' \in Calls /\ io.stage = "copy" /\ io # Idle /\ io' # Idle
      /\ UNCHANGED <<fDataSize, busy, used, cookie, faults, allowed, written, misreported>>
  BY StaysFacts DEF Turns, Stays, history
<1>2. ~Writing'
  BY <1>1, StaysFacts
<1>3. CallOK
  BY <1>1, CallFacts DEF Parts
<1>4. TypeOK'
  BY <1>1 DEF TypeOK
<1>5. /\ CallInside' /\ BusyOK' /\ FreshOK' /\ HolesStay'
      /\ PagesAccounted' /\ WrittenHeld'
  BY TurnFrame DEF SamePresence, Present
<1>6. WrittenKept' /\ CopiedOK'
  BY <1>1, <1>2 DEF Parts, WrittenKept, CopiedOK, Present
<1>7. ASSUME NEW o \in Delivered' \cap written'
      PROVE  io'.got[o] \in allowed'[o]
  <2>1. o \in Offset /\ o \in written /\ io'.got[o] # NotRead
    BY <1>1 DEF Delivered
  <2>2. CASE io'.got[o] = io.got[o]
    <3>1. o \in Delivered
      BY <1>1, <2>1, <2>2 DEF Delivered
    <3> QED BY <1>1, <2>1, <2>2, <3>1 DEF Parts, GotOK, WrittenSurvives
  <2>3. CASE io'.got[o] # io.got[o]
    <3>1. o \in Chunk /\ io'.got[o] = ByteAt(o)
      BY <2>1, <2>3 DEF Got
    <3>2. PageOf(o) \in PagesOf(io)
      BY <1>3, <3>1 DEF CallOK
    <3>3. busy[PageOf(o)] = "io"
      BY <1>1, <2>1, <3>2 DEF Parts, WrittenHeld, Looked
    <3>4. ByteAt(o) = page[PageOf(o)][ByteOf(o)]
      BY <3>3, Zenon DEF ByteAt, Missing, PageOf, ByteOf
    <3>5. page[PageOf(o)][ByteOf(o)] \in allowed[o]
      BY <2>1 DEF Parts, WrittenKept
    <3> QED BY <1>1, <3>1, <3>4, <3>5
  <2> QED BY <2>2, <2>3
<1>8. GotOK'
  BY <1>2, <1>7 DEF GotOK, WrittenSurvives
<1> QED BY <1>4, <1>5, <1>6, <1>8 DEF Parts

LEMMA GotType ==
  ASSUME FileAssumption, TypeOK, Parts, io # Idle, io.stage = "copy"
  PROVE  Got \in [Offset -> Byte \cup {NotRead}]
<1>1. CallOK
  BY CallFacts DEF Parts
<1>2. io.got \in [Offset -> Byte \cup {NotRead}]
  BY <1>1 DEF CallOK, Calls
<1>3. ASSUME NEW o \in Chunk
      PROVE  ByteAt(o) \in Byte
  <2>1. /\ o \in Offset /\ PageOf(o) \in PagesOf(io) /\ PageOf(o) \in PageNo
        /\ ByteOf(o) \in 0..(PageSize - 1)
    BY <1>1, Place DEF CallOK
  <2>2. ByteAt(o) = IF busy[PageOf(o)] # "io" THEN Zero ELSE page[PageOf(o)][ByteOf(o)]
    BY <2>1, Zenon DEF ByteAt, Missing, PageOf, ByteOf
  <2>3. busy[PageOf(o)] = "io" => page[PageOf(o)] \in Content
    BY <2>1 DEF TypeOK, Parts, BusyOK, Present
  <2> QED BY <2>1, <2>2, <2>3 DEF Content, Byte
<1> QED BY <1>2, <1>3 DEF Got

LEMMA CopyPageStep ==
  ASSUME FileAssumption, TypeOK, Parts, CopyPage
  PROVE  TypeOK' /\ Parts'
<1>1. /\ io # Idle /\ io.stage = "copy" /\ Chunk # {}
      /\ io' = [io EXCEPT !.index = @ + 1, !.got = Got]
      /\ UNCHANGED <<fDataSize, busy, used, cookie, faults, history>>
  BY DEF CopyPage, Stage
<1>2. io \in Calls /\ Got \in [Offset -> Byte \cup {NotRead}]
  BY <1>1, GotType, CallFacts DEF Parts, CallOK
<1>3. io' \in Calls /\ io'.index = io.index + 1 /\ io'.got = Got
  <2>1. PICK got \in [Offset -> Byte \cup {NotRead}] : got = Got
    BY <1>2
  <2>2. io' = [io EXCEPT !.index = @ + 1, !.got = got]
    BY <1>1, <2>1
  <2>3. PICK i \in Nat : i = io.index + 1
    BY <1>2 DEF Calls
  <2>4. io' = [io EXCEPT !.index = i, !.got = got]
    BY <2>2, <2>3
  <2>5. io' \in Calls
    BY <1>2, <2>1, <2>4 DEF Calls
  <2>6. io'.index = i
    BY <1>2, <2>4 DEF Calls
  <2>7. io'.got = got
    BY <1>2, <2>4 DEF Calls
  <2> QED BY <2>1, <2>3, <2>5, <2>6, <2>7
<1>4. /\ io'.op = io.op /\ io'.pos = io.pos /\ io'.len = io.len
      /\ io'.datum = io.datum /\ io'.stage = io.stage
  BY <1>1, <1>2 DEF Calls
<1>5. Turns
  BY <1>1, <1>3, <1>4 DEF Turns, Stays
<1>6. CASE Writing
  <2>1. CopyTo(Chunk) /\ io'.got = io.got
    BY <1>3, <1>6 DEF CopyPage, Writing, Got
  <2>2. Stores(Chunk)
    BY <1>1, <1>6, <2>1, CopyToFacts
  <2> QED BY <1>1, <1>3, <1>4, <1>5, <1>6, <2>1, <2>2, WriteTurn
<1>7. CASE ~Writing
  <2>1. UNCHANGED <<page, fresh>>
    BY <1>7 DEF CopyPage, Writing
  <2> QED BY <1>3, <1>5, <1>7, <2>1, ReadTurn
<1> QED BY <1>6, <1>7

LEMMA CopyFailsStep ==
  ASSUME FileAssumption, TypeOK, Parts, CopyFails
  PROVE  TypeOK' /\ Parts'
<1>1. /\ io # Idle /\ io.stage = "copy" /\ Chunk # {}
      /\ io' = [io EXCEPT !.stage = "put", !.ok = FALSE]
      /\ UNCHANGED <<fDataSize, busy, used, cookie, faults, history>>
  BY DEF CopyFails, Stage
<1>2. io \in Calls
  BY <1>1, CallFacts DEF Parts, CallOK
<1>3. io' \in Calls /\ io'.stage = "put" /\ ~io'.ok /\ io'.got = io.got
  <2>1. io' \in Calls /\ io'.stage = "put" /\ io'.ok = FALSE
    BY <1>1, <1>2 DEF Calls
  <2>2. io'.got = io.got
    BY <1>1, <1>2 DEF Calls
  <2> QED BY <2>1, <2>2
<1>4. /\ io'.op = io.op /\ io'.pos = io.pos /\ io'.len = io.len /\ io'.datum = io.datum
  BY <1>1, <1>2 DEF Calls
<1>5. Turns
  BY <1>1, <1>3, <1>4 DEF Turns, Stays
<1>6. PICK bytes \in SUBSET Chunk :
        IF io.op = "write" THEN CopyTo(bytes) ELSE UNCHANGED <<page, fresh>>
  BY DEF CopyFails
<1>7. CASE Writing
  <2>1. Stores(bytes)
    BY <1>1, <1>6, <1>7, CopyToFacts DEF Writing
  <2> QED BY <1>3, <1>5, <1>7, <2>1, WriteTurn
<1>8. CASE ~Writing
  BY <1>3, <1>5, <1>6, <1>8, ReadTurn DEF Writing
<1> QED BY <1>7, <1>8

\* When there is nothing in the current page, there is nothing behind it.
LEMMA ChunkEnds ==
  ASSUME FileAssumption, CallOK, Chunk = {}, NEW o \in Bytes(io)
  PROVE  PageOf(o) < Current
<1>1. PICK d \in Nat \ {0}, pos \in Nat, len \in Nat, f \in Nat, k \in Nat, e \in Nat :
        /\ d = PageSize /\ pos = io.pos /\ len = io.len /\ f = First(io)
        /\ k = Current /\ e = PageOf(o)
  <2>1. PageSize \in Nat \ {0} /\ io.pos \in Nat /\ io.len \in Nat /\ First(io) \in Nat
        /\ Current \in Nat /\ PageOf(o) \in Nat
    BY DEF FileAssumption, CallOK, Calls
  <2> QED BY <2>1
<1>2. PICK i \in Nat : k = f + i
  BY <1>1 DEF Current, CallOK, Calls
<1>3. \A b \in pos..(pos + len - 1) : b \div d # k
  BY <1>1 DEF CallOK, Bytes, PageOf
<1>4. o \in pos..(pos + len - 1) /\ o \in Nat /\ e = o \div d
  BY <1>1 DEF Bytes, PageOf
<1>5. SUFFICES ASSUME k < e PROVE FALSE
  BY <1>1, <1>3, <1>4
<1>6. f = pos \div d
  BY <1>1 DEF First
<1>7. PICK m \in 0..(d - 1) : pos = d * f + m
  <2>1. PICK q \in Nat, r \in 0..(d - 1) : q = pos \div d /\ r = pos % d /\ pos = d * q + r
    BY Divided
  <2> QED BY <1>6, <2>1
<1>8. PICK s \in 0..(d - 1) : o = d * e + s
  <2>1. PICK q \in Nat, r \in 0..(d - 1) : q = o \div d /\ r = o % d /\ o = d * q + r
    BY <1>4, Divided
  <2> QED BY <1>4, <2>1
<1>9. PICK df \in Nat, dk \in Nat, de \in Nat : df = d * f /\ dk = d * k /\ de = d * e
  <2>1. d * f \in Nat /\ d * k \in Nat /\ d * e \in Nat
    OBVIOUS
  <2> QED BY <2>1
<1>10. dk + d <= de
  BY <1>5, <1>9, TimesOrder
<1>11. CASE f = k
  <2>1. pos \in pos..(pos + len - 1)
    BY <1>4
  <2> QED BY <1>3, <1>6, <1>11, <2>1
<1>12. CASE f # k
  <2>1. df + d <= dk
    BY <1>2, <1>9, <1>12, TimesOrder
  <2>2. dk \in pos..(pos + len - 1)
    BY <1>4, <1>7, <1>8, <1>9, <1>10, <2>1
  <2>3. dk \div d = k
    <3>1. dk = d * k + 0 /\ 0 \in 0..(d - 1)
      BY <1>9
    <3> QED BY <1>9, <3>1, DivUnique
  <2> QED BY <1>3, <2>2, <2>3
<1> QED BY <1>11, <1>12

LEMMA CopyEndsStep ==
  ASSUME FileAssumption, TypeOK, Parts, CopyEnds
  PROVE  TypeOK' /\ Parts'
<1>1. /\ io # Idle /\ io.stage = "copy" /\ Chunk = {}
      /\ io' = [io EXCEPT !.stage = "put"]
      /\ UNCHANGED <<fDataSize, page, busy, fresh, used, cookie, faults, history>>
  BY DEF CopyEnds, Stage, fileVars
<1>2. CallOK /\ io \in Calls
  BY <1>1, CallFacts DEF Parts, CallOK
<1>3. io' \in Calls /\ io'.stage = "put" /\ io'.got = io.got
  BY <1>1, <1>2 DEF Calls
<1>4. /\ io'.op = io.op /\ io'.pos = io.pos /\ io'.len = io.len /\ io'.datum = io.datum
  BY <1>1, <1>2 DEF Calls
<1>5. Turns
  BY <1>1, <1>3, <1>4 DEF Turns, Stays
<1>6. CASE Writing
  <2>1. Bytes(io)' = Bytes(io)
    BY <1>5, StaysFacts DEF Turns
  <2>2. \A o \in Bytes(io) : Copied(o)
    BY <1>1, <1>2, <1>6, ChunkEnds DEF Parts, CopiedOK
  <2>3. CopiedOK'
    BY <1>1, <1>4, <2>1, <2>2 DEF CopiedOK, Copied
  <2>4. TypeOK'
    BY <1>1, <1>3 DEF TypeOK, history
  <2>5. /\ CallInside' /\ BusyOK' /\ FreshOK' /\ HolesStay'
        /\ PagesAccounted' /\ WrittenHeld'
    BY <1>1, <1>5, TurnFrame DEF SamePresence, Present
  <2>6. WrittenKept' /\ GotOK'
    BY <1>1, <1>3, <1>4, <1>6, <2>1 DEF Parts, WrittenKept, GotOK, WrittenSurvives,
         Delivered, Writing, Present, history
  <2> QED BY <2>3, <2>4, <2>5, <2>6 DEF Parts
<1>7. CASE ~Writing
  BY <1>1, <1>3, <1>5, <1>7, ReadTurn
<1> QED BY <1>6, <1>7

-----------------------------------------------------------------------------
(* The end of a call.                                                      *)

\* What _PutPages does to the pages.
LEMMA PutFacts ==
  ASSUME FileAssumption, TypeOK, Parts, PutPages
  PROVE  /\ io # Idle /\ io' = Idle /\ io.stage = "put" /\ CallOK
         /\ UNCHANGED <<fDataSize, cookie, faults, misreported>>
         /\ New \cap Cached = {}
         /\ \A p \in New : p \in PageNo /\ Writing /\ p * PageSize < fDataSize
         /\ \A p \in PageNo : page'[p] = IF p \in New /\ io.ok THEN fresh[p] ELSE page[p]
         /\ page' \in [PageNo -> Content \cup {Absent}]
         /\ fresh' = [p \in PageNo |-> Absent]
         /\ busy' \in [PageNo -> {"no", "io", "vm"}]
         /\ \A p \in PageNo : busy'[p] # "io" /\ (busy'[p] # "no" => busy'[p] = busy[p])
         /\ used' = used - IF io.ok THEN 0 ELSE Cardinality(New)
         /\ Record
<1>1. /\ io # Idle /\ io' = Idle /\ io.stage = "put"
      /\ UNCHANGED <<fDataSize, cookie, faults, misreported>>
      /\ fresh' = [p \in PageNo |-> Absent]
      /\ Record
  BY DEF PutPages, Stage
<1>2. CallOK
  BY <1>1, CallFacts DEF Parts
<1>3. ASSUME NEW p \in New
      PROVE  p \in PageNo /\ Writing /\ p * PageSize < fDataSize /\ p \notin Cached
  <2>1. p \in PageNo /\ Writing /\ p \in PagesOf(io) /\ busy[p] # "io"
    BY DEF New, Parts, FreshOK
  <2>2. Looked(p)
    BY <1>1, <2>1 DEF Looked
  <2>3. ~Present(p)
    BY <2>1, <2>2 DEF Parts, HolesStay
  <2>4. p * PageSize < fDataSize
    BY <1>2, <2>1 DEF CallOK
  <2> QED BY <2>1, <2>3, <2>4 DEF Cached
<1>4. page' = [p \in PageNo |-> IF p \in New /\ io.ok THEN fresh[p] ELSE page[p]]
  BY DEF PutPages, New
<1>5. page' \in [PageNo -> Content \cup {Absent}]
  BY <1>4 DEF TypeOK
<1>6. busy' = [p \in PageNo |-> IF busy[p] = "io" THEN "no" ELSE busy[p]]
  BY DEF PutPages, MarkUnbusy
<1>7. /\ busy' \in [PageNo -> {"no", "io", "vm"}]
      /\ \A p \in PageNo : busy'[p] # "io" /\ (busy'[p] # "no" => busy'[p] = busy[p])
  BY <1>6 DEF TypeOK
<1>8. used' = used - IF io.ok THEN 0 ELSE Cardinality(New)
  BY DEF PutPages, FreeNew, New
<1> QED BY <1>1, <1>2, <1>3, <1>4, <1>5, <1>7, <1>8

\* Inserted or freed, the new pages are accounted for.
LEMMA PutAccounts ==
  ASSUME FileAssumption, TypeOK, Parts, PutPages
  PROVE  PagesAccounted' /\ used' \in Nat
<1>1. /\ New \cap Cached = {}
      /\ \A p \in New : p \in PageNo /\ p * PageSize < fDataSize
      /\ \A p \in PageNo : page'[p] = IF p \in New /\ io.ok THEN fresh[p] ELSE page[p]
      /\ fresh' = [p \in PageNo |-> Absent]
      /\ used' = used - IF io.ok THEN 0 ELSE Cardinality(New)
      /\ fDataSize' = fDataSize
  BY PutFacts
<1>2. New' = {}
  BY <1>1 DEF New
<1>3. Cached' = IF io.ok THEN Cached \cup New ELSE Cached
  BY <1>1 DEF Cached, New, Present
<1>4. /\ \A p \in Cached : p * PageSize < fDataSize
      /\ used = Cardinality(Cached) + Cardinality(New)
      /\ IsFiniteSet(Cached) /\ IsFiniteSet(New)
      /\ Cardinality(Cached) \in Nat /\ Cardinality(New) \in Nat
  BY Accounting DEF Parts
<1>5. Cardinality(Cached \cup New) = Cardinality(Cached) + Cardinality(New)
  <2>1. Cardinality(Cached \cup New) =
          Cardinality(Cached) + Cardinality(New) - Cardinality(Cached \cap New)
    BY <1>4, FS_Union
  <2>2. Cardinality(Cached \cap New) = 0
    BY <1>1, FS_EmptySet
  <2> QED BY <1>4, <2>1, <2>2
<1>6. Cardinality({}) = 0
  BY FS_EmptySet
<1>7. used' = Cardinality(Cached') + Cardinality(New') /\ used' \in Nat
  <2>1. CASE io.ok
    <3>1. used' = used - 0 /\ Cached' = Cached \cup New
      BY <1>1, <1>3, <2>1
    <3>2. Cardinality(Cached') = Cardinality(Cached) + Cardinality(New)
      BY <1>5, <3>1
    <3>3. Cardinality(New') = 0
      BY <1>2, <1>6
    <3> QED BY <1>4, <3>1, <3>2, <3>3
  <2>2. CASE ~io.ok
    <3>1. used' = used - Cardinality(New) /\ Cardinality(Cached') = Cardinality(Cached)
      BY <1>1, <1>3, <2>2
    <3>2. Cardinality(New') = 0
      BY <1>2, <1>6
    <3> QED BY <1>4, <3>1, <3>2
  <2> QED BY <2>1, <2>2
<1>8. \A p \in Cached' : p * PageSize < fDataSize'
  BY <1>1, <1>3, <1>4
<1> QED BY <1>7, <1>8 DEF PagesAccounted, Cached, New

\* The bytes of a write that succeeds have its datum and nothing else, those
\* of one that fails may have it, and every other byte is as before.
LEMMA PutKeeps ==
  ASSUME FileAssumption, TypeOK, Parts, PutPages
  PROVE  /\ allowed' \in [Offset -> SUBSET Byte] /\ written' \subseteq Offset
         /\ \A o \in written' : /\ o < fDataSize'
                                /\ Present(PageOf(o))'
                                /\ page'[PageOf(o)][ByteOf(o)] \in allowed'[o]
<1>1. /\ io # Idle /\ io.stage = "put" /\ CallOK
      /\ fDataSize' = fDataSize
      /\ New \cap Cached = {}
      /\ \A p \in New : Writing
      /\ \A p \in PageNo : page'[p] = IF p \in New /\ io.ok THEN fresh[p] ELSE page[p]
      /\ Record
  BY PutFacts
<1>2. /\ allowed \in [Offset -> SUBSET Byte] /\ written \subseteq Offset
      /\ Bytes(io) \subseteq Offset /\ io.datum \in Byte
      /\ \A o \in Offset : PageOf(o) \in PageNo
  BY <1>1, Place DEF TypeOK, CallOK, Calls, Byte
<1>3. ASSUME NEW o \in written
      PROVE  /\ o < fDataSize /\ Present(PageOf(o))
             /\ page'[PageOf(o)] = page[PageOf(o)] /\ Present(PageOf(o))'
             /\ \/ page'[PageOf(o)][ByteOf(o)] \in allowed[o]
                \/ Writing /\ o \in Bytes(io) /\ page'[PageOf(o)][ByteOf(o)] = io.datum
  <2>1. /\ o < fDataSize /\ Present(PageOf(o))
        /\ \/ page[PageOf(o)][ByteOf(o)] \in allowed[o]
           \/ Writing /\ o \in Bytes(io) /\ page[PageOf(o)][ByteOf(o)] = io.datum
    BY DEF Parts, WrittenKept
  <2>2. PageOf(o) \in PageNo /\ PageOf(o) \notin New
    BY <1>1, <1>2, <2>1 DEF Cached
  <2>3. page'[PageOf(o)] = page[PageOf(o)]
    BY <1>1, <2>2
  <2> QED BY <2>1, <2>3 DEF Present
<1>4. CASE ~Writing
  <2>1. UNCHANGED <<allowed, written>>
    BY <1>1, <1>4 DEF Record, Writing
  <2> QED BY <1>1, <1>2, <1>3, <1>4, <2>1
<1>5. CASE Writing /\ ~io.ok
  <2>1. /\ allowed' = [o \in Offset |-> IF o \notin Bytes(io) THEN allowed[o]
                                        ELSE allowed[o] \cup {io.datum}]
        /\ written' = written
    BY <1>1, <1>5 DEF Record, Writing, Bytes
  <2>2. \A o \in Offset : /\ allowed'[o] \in SUBSET Byte
                          /\ allowed[o] \subseteq allowed'[o]
                          /\ o \in Bytes(io) => io.datum \in allowed'[o]
    BY <1>2, <2>1
  <2>3. allowed' \in [Offset -> SUBSET Byte]
    BY <2>1, <2>2
  <2> QED BY <1>1, <1>2, <1>3, <2>1, <2>2, <2>3
<1>6. CASE Writing /\ io.ok
  <2>1. /\ allowed' = [o \in Offset |-> IF o \notin Bytes(io) THEN allowed[o]
                                        ELSE {io.datum}]
        /\ written' = written \cup Bytes(io)
    BY <1>1, <1>6 DEF Record, Writing, Bytes
  <2>2. /\ allowed' \in [Offset -> SUBSET Byte]
        /\ \A o \in Offset : /\ o \notin Bytes(io) => allowed'[o] = allowed[o]
                             /\ o \in Bytes(io) => allowed'[o] = {io.datum}
    BY <1>2, <2>1
  <2>3. ASSUME NEW o \in Bytes(io)
        PROVE  /\ o < fDataSize'
               /\ Present(PageOf(o))'
               /\ page'[PageOf(o)][ByteOf(o)] \in allowed'[o]
    <3>1. o < fDataSize /\ PageOf(o) \in PagesOf(io) /\ PageOf(o) \in PageNo
      BY <1>1 DEF CallOK
    <3>2. Copied(o)
      BY <1>1, <1>6 DEF Parts, CopiedOK
    <3>3. CASE fresh[PageOf(o)] # Absent
      <4>1. page'[PageOf(o)] = fresh[PageOf(o)]
        BY <1>1, <1>6, <3>1, <3>3 DEF New
      <4> QED BY <1>1, <1>2, <2>2, <3>1, <3>2, <3>3, <4>1 DEF Copied, Present
    <3>4. CASE fresh[PageOf(o)] = Absent
      <4>1. busy[PageOf(o)] = "io"
        BY <1>1, <1>6, <3>1, <3>4 DEF Parts, FreshOK
      <4>2. Present(PageOf(o)) /\ page'[PageOf(o)] = page[PageOf(o)]
        BY <1>1, <3>1, <3>4, <4>1 DEF Parts, BusyOK, New
      <4> QED BY <1>1, <1>2, <2>2, <3>1, <3>2, <3>4, <4>2 DEF Copied, Present
    <3> QED BY <3>3, <3>4
  <2>4. ASSUME NEW o \in written, o \notin Bytes(io)
        PROVE  /\ o < fDataSize'
               /\ Present(PageOf(o))'
               /\ page'[PageOf(o)][ByteOf(o)] \in allowed'[o]
    BY <1>1, <1>2, <1>3, <2>2, <2>4
  <2> QED BY <1>2, <2>1, <2>2, <2>3, <2>4
<1> QED BY <1>4, <1>5, <1>6

LEMMA PutPagesStep ==
  ASSUME FileAssumption, TypeOK, Parts, PutPages
  PROVE  TypeOK' /\ Parts'
<1>1. /\ io' = Idle
      /\ UNCHANGED <<fDataSize, cookie, faults, misreported>>
      /\ page' \in [PageNo -> Content \cup {Absent}]
      /\ fresh' = [p \in PageNo |-> Absent]
      /\ busy' \in [PageNo -> {"no", "io", "vm"}]
      /\ \A p \in PageNo : busy'[p] # "io" /\ (busy'[p] # "no" => busy'[p] = busy[p])
      /\ New \cap Cached = {}
      /\ \A p \in PageNo : page'[p] = IF p \in New /\ io.ok THEN fresh[p] ELSE page[p]
  BY PutFacts
<1>2. PagesAccounted' /\ used' \in Nat
  BY PutAccounts
<1>3. /\ allowed' \in [Offset -> SUBSET Byte] /\ written' \subseteq Offset
      /\ \A o \in written' : /\ o < fDataSize'
                             /\ Present(PageOf(o))'
                             /\ page'[PageOf(o)][ByteOf(o)] \in allowed'[o]
  BY PutKeeps
<1>4. \A p \in PageNo : busy'[p] # "no" => Present(p)'
  <2>1. ASSUME NEW p \in PageNo, busy'[p] # "no"
        PROVE  Present(p)'
    <3>1. Present(p)
      BY <1>1, <2>1 DEF Parts, BusyOK
    <3>2. page'[p] = page[p]
      BY <1>1, <3>1 DEF Cached
    <3> QED BY <3>1, <3>2 DEF Present
  <2> QED BY <2>1
<1>5. Settled'
  BY <1>1, <1>2, <1>3, <1>4 DEF Settled
<1>6. TypeOK'
  BY <1>1, <1>2, <1>3 DEF TypeOK
<1>7. (io = Idle => (Parts <=> Settled))'
  BY IdleParts, PTL
<1> QED BY <1>1, <1>5, <1>6, <1>7

-----------------------------------------------------------------------------
(* The invariant.                                                          *)

LEMMA FileInit == FileAssumption /\ Init => FileInv
<1> SUFFICES ASSUME FileAssumption, Init PROVE FileInv
  OBVIOUS
<1>1. MaxSize \in Nat /\ MaxFaults \in Nat
  BY DEF FileAssumption
<1>2. TypeOK
  <2>1. /\ fDataSize \in 0..MaxSize /\ used \in Nat /\ io = Idle /\ faults \in 0..MaxFaults
        /\ written \subseteq Offset
    BY <1>1 DEF Init
  <2>2. /\ page \in [PageNo -> Content \cup {Absent}]
        /\ fresh \in [PageNo -> Content \cup {Absent}]
        /\ busy \in [PageNo -> {"no", "io", "vm"}]
    BY DEF Init
  <2>3. /\ cookie \in [Cookie -> {"none", "plain", "append"}]
        /\ allowed \in [Offset -> SUBSET Byte]
    BY DEF Init, Byte
  <2>4. misreported \in BOOLEAN
    BY Zenon DEF Init
  <2> QED BY <2>1, <2>2, <2>3, <2>4 DEF TypeOK
<1>3. Cached = {} /\ New = {}
  BY DEF Init, Cached, New, Present
<1>4. PagesAccounted
  <2>1. Cardinality(Cached) = 0 /\ Cardinality(New) = 0
    BY <1>3, FS_EmptySet
  <2>2. used = Cardinality(Cached) + Cardinality(New)
    BY <2>1 DEF Init
  <2> QED BY <1>3, <2>2, Accounting
<1>5. Settled
  BY <1>4 DEF Init, Settled
<1>6. io = Idle
  BY DEF Init
<1> QED BY <1>2, <1>5, <1>6, IdleParts, FileInvIsParts

LEMMA FileNext ==
  ASSUME FileAssumption, FaultsInWrites = FALSE, FileInv, [Next]_vars
  PROVE  FileInv'
<1>1. TypeOK /\ Parts
  BY FileInvIsParts
<1>2. SUFFICES TypeOK' /\ Parts'
  BY FileInvIsParts DEF FileInv, Parts
<1>3. CASE UNCHANGED vars
  BY <1>1, <1>3, SamePages DEF vars, fileVars, history, TypeOK
<1>4. CASE \E c \in Cookie, append \in BOOLEAN : SetFlags(c, append)
  <2>1. PICK c \in Cookie, append \in BOOLEAN : SetFlags(c, append)
    BY <1>4
  <2>2. UNCHANGED <<fDataSize, page, busy, fresh, used, io, faults, allowed, written,
                    misreported>>
    BY <2>1 DEF SetFlags, fileVars, history
  <2>3. cookie' \in [Cookie -> {"none", "plain", "append"}]
    BY <1>1, <2>1 DEF SetFlags, TypeOK
  <2>4. TypeOK'
    BY <1>1, <2>2, <2>3 DEF TypeOK
  <2> QED BY <1>1, <2>2, <2>4, SamePages
<1>5. CASE \E c \in Cookie, append \in BOOLEAN, trunc \in BOOLEAN : Open(c, append, trunc)
  BY <1>1, <1>5, OpenStep
<1>6. CASE \E c \in Cookie : FreeCookie(c)
  <2>1. PICK c \in Cookie : FreeCookie(c)
    BY <1>6
  <2>2. UNCHANGED <<fDataSize, page, busy, fresh, used, io, faults, allowed, written,
                    misreported>>
    BY <2>1 DEF FreeCookie, fileVars, history
  <2>3. cookie' \in [Cookie -> {"none", "plain", "append"}]
    BY <1>1, <2>1 DEF FreeCookie, TypeOK
  <2>4. TypeOK'
    BY <1>1, <2>2, <2>3 DEF TypeOK
  <2> QED BY <1>1, <2>2, <2>4, SamePages
<1>7. CASE \E c \in Cookie, p \in Position, n \in Length : Read(c, p, n)
  BY <1>1, <1>7, ReadStep
<1>8. CASE \E c \in Cookie, p \in Position, n \in Length : WriteNothing(c, p, n)
  <2>1. PICK c \in Cookie, p \in Position, n \in Length : WriteNothing(c, p, n)
    BY <1>8
  <2>2. UNCHANGED <<fDataSize, page, busy, fresh, used, io, cookie, faults, allowed,
                    written>>
    BY <2>1 DEF WriteNothing, fileVars
  <2>3. misreported' \in BOOLEAN
    <3>1. misreported' = (misreported \/ n > 0)
      BY <2>1 DEF WriteNothing
    <3> QED BY <3>1, Zenon
  <2>4. TypeOK'
    BY <1>1, <2>2, <2>3 DEF TypeOK
  <2> QED BY <1>1, <2>2, <2>4, SamePages
<1>9. CASE \E c \in Cookie, p \in Position, n \in Length, d \in Datum : Write(c, p, n, d)
  BY <1>1, <1>9, WriteStep
<1>10. CASE \E n \in 0..MaxSize : WriteStat(n)
  <2>1. PICK n \in 0..MaxSize : WriteStat(n)
    BY <1>10
  <2>2. cookie' \in [Cookie -> {"none", "plain", "append"}]
    BY <1>1, <2>1 DEF WriteStat, TypeOK
  <2> QED BY <1>1, <2>1, <2>2, ResizeStep DEF WriteStat
<1>11. CASE Step \/ CopyFails
  BY <1>1, <1>11, GetPageStep, AllocatePagesStep, CopyPageStep, CopyEndsStep,
     CopyFailsStep, PutPagesStep DEF Step
<1>12. CASE \E p \in PageNo : VmTake(p) \/ VmRelease(p) \/ VmFault(p)
  BY <1>1, <1>12, VmBusyStep, VmFaultStep
<1>13. CASE Next
  BY <1>4, <1>5, <1>6, <1>7, <1>8, <1>9, <1>10, <1>11, <1>12, <1>13 DEF Next
<1> QED BY <1>3, <1>13

\* Whatever is read, written, truncated, grown and faulted in, and whatever
\* fails: the calls stay inside the file, busy and new pages belong to the
\* call in progress, and what was written is in its page.
THEOREM FileInvariance ==
  FaultsInWrites = FALSE /\ Spec => []FileInv
<1> SUFFICES ASSUME FaultsInWrites = FALSE PROVE Spec => []FileInv
  OBVIOUS
<1>1. Init => FileInv
  BY FileAssumption, FileInit
<1>2. FileInv /\ [Next]_vars => FileInv'
  BY FileAssumption, FileNext
<1> QED BY <1>1, <1>2, PTL DEF Spec

\* A call finds its state, the pages of the cache and the history of the
\* bytes as its steps left them.
THEOREM FileTypeCorrect ==
  FaultsInWrites = FALSE /\ Spec => []TypeOK
<1>1. FileInv => TypeOK
  BY DEF FileInv
<1> QED BY <1>1, FileInvariance, PTL

\* No page is lost by a write, a failure or a truncation, and none outlives
\* the bytes of the file in it (ShmfsFileVnode.cpp:163-200).
THEOREM NoPageLost ==
  FaultsInWrites = FALSE /\ Spec => []PagesAccounted
<1>1. FileInv => PagesAccounted
  BY DEF FileInv
<1> QED BY <1>1, FileInvariance, PTL

\* A byte that was written is read with its last value as long as it is in
\* the file (ShmfsFileVnode.cpp:263-307).
THEOREM ReadGivesWritten ==
  FaultsInWrites = FALSE /\ Spec => []WrittenSurvives
<1>1. FileInv => WrittenSurvives
  BY DEF FileInv, GotOK
<1> QED BY <1>1, FileInvariance, PTL

-----------------------------------------------------------------------------
(* What a step may not do.                                                 *)

\* What BusyExclusive says of a step.
KeepsBusy ==
  \A p \in PageNo : /\ busy[p] = "vm" => page'[p] # Absent /\ busy'[p] # "io"
                    /\ io' = Idle => busy'[p] # "io"

LEMMA ResizeKeepsBusy ==
  ASSUME FileAssumption, TypeOK, Parts, NEW n \in Nat, Resize(n), NEW p \in PageNo,
         busy[p] = "vm"
  PROVE  page'[p] # Absent /\ busy'[p] = "vm"
<1>1. Resized(n)
  BY ResizeFacts
<1>2. Present(p) /\ p \notin Gone(n)
  BY <1>1 DEF Resized, Parts, BusyOK
<1> QED BY <1>1, <1>2 DEF Resized, Present

LEMMA CallKeepsBusy ==
  ASSUME FileAssumption, TypeOK, Parts, Step \/ CopyFails, NEW p \in PageNo, busy[p] = "vm"
  PROVE  page'[p] # Absent /\ busy'[p] # "io"
<1>1. page[p] # Absent
  BY DEF Parts, BusyOK, Present
<1>2. busy \in [PageNo -> {"no", "io", "vm"}]
  BY DEF TypeOK
<1>3. CASE GetPage
  <2>1. page' = page /\ busy[Current] = "no"
    BY <1>3 DEF GetPage
  <2>2. busy'[p] = busy[p]
    BY <1>2, <1>3, <2>1 DEF GetPage
  <2> QED BY <1>1, <2>1, <2>2
<1>4. CASE AllocatePages \/ CopyEnds
  BY <1>1, <1>4 DEF AllocatePages, CopyEnds, fileVars
<1>5. ASSUME NEW bytes \in SUBSET Chunk, io # Idle, io.stage = "copy", Chunk # {},
             IF io.op = "write" THEN CopyTo(bytes) ELSE UNCHANGED <<page, fresh>>
      PROVE  page'[p] # Absent
  <2>1. CASE Writing
    <3>1. Stores(bytes)
      BY <1>5, <2>1, CopyToFacts DEF Writing
    <3> QED BY <1>1, <3>1 DEF Stores, SamePresence, Present
  <2>2. CASE ~Writing
    BY <1>1, <1>5, <2>2 DEF Writing
  <2> QED BY <2>1, <2>2
<1>6. CASE CopyPage
  <2>1. Chunk \in SUBSET Chunk
    OBVIOUS
  <2> QED BY <1>5, <1>6, <2>1 DEF CopyPage, Stage
<1>7. CASE CopyFails
  <2>1. PICK bytes \in SUBSET Chunk :
          IF io.op = "write" THEN CopyTo(bytes) ELSE UNCHANGED <<page, fresh>>
    BY <1>7 DEF CopyFails
  <2>2. io # Idle /\ io.stage = "copy" /\ Chunk # {} /\ busy' = busy
    BY <1>7 DEF CopyFails, Stage
  <2> QED BY <1>5, <2>1, <2>2
<1>8. CASE PutPages
  <2>1. /\ New \cap Cached = {} /\ busy'[p] # "io"
        /\ page'[p] = IF p \in New /\ io.ok THEN fresh[p] ELSE page[p]
    BY <1>8, PutFacts
  <2> QED BY <1>1, <2>1 DEF Cached, Present
<1> QED BY <1>3, <1>4, <1>6, <1>7, <1>8 DEF Step

LEMMA NextKeepsBusy ==
  ASSUME FileAssumption, FaultsInWrites = FALSE, FileInv, [Next]_vars
  PROVE  KeepsBusy
<1>1. FileInv' /\ TypeOK /\ Parts
  BY FileNext, FileInvIsParts
<1>2. ASSUME NEW p \in PageNo, io' = Idle
      PROVE  busy'[p] # "io"
  BY <1>1, <1>2 DEF FileInv, BusyOK
<1>3. ASSUME NEW p \in PageNo, busy[p] = "vm"
      PROVE  page'[p] # Absent /\ busy'[p] # "io"
  <2>1. page[p] # Absent
    BY <1>1, <1>3 DEF Parts, BusyOK, Present
  <2>2. CASE UNCHANGED <<page, busy>>
    BY <1>3, <2>1, <2>2
  <2>3. CASE UNCHANGED vars
    BY <2>2, <2>3 DEF vars, fileVars
  <2>4. CASE \E c \in Cookie, append \in BOOLEAN, trunc \in BOOLEAN : Open(c, append, trunc)
    <3>1. PICK c \in Cookie, append \in BOOLEAN, trunc \in BOOLEAN : Open(c, append, trunc)
      BY <2>4
    <3>2. Resize(0) \/ UNCHANGED <<page, busy>>
      BY <3>1 DEF Open
    <3> QED BY <1>1, <1>3, <2>2, <3>2, ResizeKeepsBusy
  <2>5. CASE \E c \in Cookie, p1 \in Position, n \in Length, d \in Datum : Write(c, p1, n, d)
    <3>1. PICK c \in Cookie, p1 \in Position, n \in Length, d \in Datum : Write(c, p1, n, d)
      BY <2>5
    <3>2. PICK size : size = OffSum(WritePos(c, p1), n)
      OBVIOUS
    <3>3. Grow(size)
      BY <3>1, <3>2, Zenon DEF Write
    <3>4. CASE size > fDataSize
      <4>1. Resize(size)
        BY <3>3, <3>4 DEF Grow
      <4>2. size \in Nat
        <5>1. \A q \in 0..(OffMod \div 2 - 1), m \in 0..(OffMod \div 2 - 1) :
                OffSum(q, m) > 0 => OffSum(q, m) = q + m
          BY FileAssumption, PositiveSum
        <5>2. WritePos(c, p1) \in 0..(OffMod \div 2 - 1) /\ n \in 0..(OffMod \div 2 - 1)
          <6>1. /\ MaxSize \in Nat /\ MaxSize < OffMod \div 2 /\ OffMod \div 2 \in Int
                /\ fDataSize \in 0..MaxSize
            BY <1>1 DEF FileAssumption, TypeOK
          <6> QED BY <6>1 DEF WritePos, FileAssumption
        <5>3. size > 0
          BY <3>1, <3>2, Zenon DEF Write
        <5> QED BY <3>2, <5>1, <5>2, <5>3
      <4> QED BY <1>1, <1>3, <4>1, <4>2, ResizeKeepsBusy
    <3>5. CASE ~(size > fDataSize)
      BY <2>2, <3>3, <3>5 DEF Grow
    <3> QED BY <3>4, <3>5
  <2>6. CASE \E n \in 0..MaxSize : WriteStat(n)
    <3>1. PICK n \in 0..MaxSize : Resize(n)
      BY <2>6 DEF WriteStat
    <3>2. n \in Nat
      BY DEF FileAssumption
    <3> QED BY <1>1, <1>3, <3>1, <3>2, ResizeKeepsBusy
  <2>7. CASE Step \/ CopyFails
    BY <1>1, <1>3, <2>7, CallKeepsBusy
  <2>8. CASE \E q \in PageNo : VmTake(q) \/ VmRelease(q) \/ VmFault(q)
    <3>1. PICK q \in PageNo : VmTake(q) \/ VmRelease(q) \/ VmFault(q)
      BY <2>8
    <3>2. CASE VmFault(q)
      BY <1>3, <2>1, <3>2 DEF VmFault, Present
    <3>3. CASE VmTake(q) \/ VmRelease(q)
      <4>1. page' = page /\ busy \in [PageNo -> {"no", "io", "vm"}]
        BY <1>1, <3>3 DEF VmTake, VmRelease, TypeOK
      <4>2. busy'[p] # "io"
        BY <1>3, <3>3, <4>1 DEF VmTake, VmRelease
      <4> QED BY <2>1, <4>1, <4>2
    <3> QED BY <3>1, <3>2, <3>3
  <2>9. CASE \/ \E c \in Cookie, append \in BOOLEAN : SetFlags(c, append)
             \/ \E c \in Cookie : FreeCookie(c)
             \/ \E c \in Cookie, q \in Position, n \in Length :
                  Read(c, q, n) \/ WriteNothing(c, q, n)
    <3>1. UNCHANGED <<page, busy>>
      BY <2>9 DEF SetFlags, FreeCookie, Read, WriteNothing, fileVars
    <3> QED BY <2>2, <3>1
  <2>10. CASE Next
    BY <2>4, <2>5, <2>6, <2>7, <2>8, <2>9, <2>10 DEF Next
  <2> QED BY <2>3, <2>10
<1> QED BY <1>2, <1>3 DEF KeepsBusy

\* A page is busy for the call in progress or for the VM, never for both
\* (ShmfsFileVnode.cpp:124-131, :170-189).
THEOREM BusyForOne ==
  FaultsInWrites = FALSE /\ Spec => BusyExclusive
<1> SUFFICES ASSUME FaultsInWrites = FALSE PROVE Spec => BusyExclusive
  OBVIOUS
<1>1. FileInv /\ [Next]_vars => [KeepsBusy]_vars
  BY FileAssumption, NextKeepsBusy
<1>2. Spec => [][KeepsBusy]_vars
  BY <1>1, FileInvariance, PTL DEF Spec
<1>3. [KeepsBusy]_vars =>
        [\A p \in PageNo : /\ busy[p] = "vm" => page'[p] # Absent /\ busy'[p] # "io"
                           /\ io' = Idle => busy'[p] # "io"]_vars
  BY DEF KeepsBusy
<1> QED BY <1>2, <1>3, PTL DEF BusyExclusive
=============================================================================
