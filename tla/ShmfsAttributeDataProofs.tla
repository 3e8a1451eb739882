---------------------- MODULE ShmfsAttributeDataProofs ----------------------
(***************************************************************************)
(* Proofs about ShmfsAttributeData for every number of threads, calls and  *)
(* buffers, and every size and interleaving.                               *)
(***************************************************************************)
EXTENDS ShmfsAttributeData, SequenceTheorems, TLAPS

-----------------------------------------------------------------------------
(* Arithmetic.                                                             *)

LEMMA ModSmall == \A m, n \in Nat : m < n => m % n = m
OBVIOUS

LEMMA OffSumExact ==
  ASSUME DataAssumption, NEW p \in Nat, NEW n \in Nat, p + n < OffMod \div 2
  PROVE  OffSum(p, n) = p + n
<1>1. OffMod \in Nat /\ p + n \in Nat /\ p + n < OffMod
  BY DEF DataAssumption
<1>2. (p + n) % OffMod = p + n
  BY <1>1, ModSmall
<1> QED BY <1>1, <1>2 DEF OffSum

LEMMA TargetExact ==
  ASSUME DataAssumption, NEW r \in Writes \cup Resizes, Fits(r)
  PROVE  /\ r.pos \in Nat /\ r.len \in Nat
         /\ Target(r) = r.pos + r.len /\ Target(r) \in Word
         /\ Target(r) % WordMod = Target(r)
         /\ Capacity(Target(r)) \in Word /\ Capacity(Target(r)) >= Target(r)
<1>1. WordMod \in Nat \ {0}
  BY DEF DataAssumption
<1>2. CASE r \in Resizes
  <2>1. r.op = "resize" /\ r.pos = 0 /\ r.len \in Size /\ r.len \in Nat
    BY <1>2 DEF Resizes, DataAssumption
  <2>2. Target(r) = r.len /\ r.len + (r.len \div 2) < WordMod
    BY <2>1 DEF Target, Fits
  <2>3. r.len < WordMod /\ r.len + (r.len \div 2) \in Nat
    BY <1>1, <2>1, <2>2
  <2>4. r.len % WordMod = r.len /\ (r.len + (r.len \div 2)) % WordMod = r.len + (r.len \div 2)
    BY <1>1, <2>1, <2>2, <2>3, ModSmall
  <2> QED BY <1>1, <2>1, <2>2, <2>3, <2>4 DEF Capacity, Word
<1>3. CASE r \in Writes
  <2>1. /\ r.op = "write" /\ r.pos \in Position /\ r.len \in Length
        /\ r.pos \in Nat /\ r.len \in Nat
    BY <1>3 DEF Writes, DataAssumption
  <2>2. PICK s : s = r.pos + r.len
    OBVIOUS
  <2>3. s \in Nat /\ s < OffMod \div 2 /\ s + (s \div 2) < WordMod
    BY <2>1, <2>2 DEF Fits
  <2>4. Target(r) = s
    BY <2>1, <2>2, <2>3, OffSumExact DEF Target
  <2>5. s < WordMod /\ s + (s \div 2) \in Nat
    BY <1>1, <2>3
  <2>6. s % WordMod = s /\ (s + (s \div 2)) % WordMod = s + (s \div 2)
    BY <1>1, <2>3, <2>5, ModSmall
  <2> QED BY <1>1, <2>1, <2>2, <2>3, <2>4, <2>5, <2>6 DEF Capacity, Word
<1> QED BY <1>2, <1>3

-----------------------------------------------------------------------------
(* Memory.                                                                 *)

LEMMA FcnIsSeq ==
  ASSUME NEW S, NEW n \in Nat, NEW f \in [1..n -> S]
  PROVE  f \in Seq(S) /\ Len(f) = n
<1>1. f \in Seq(S)
  BY SeqDef
<1> QED BY <1>1

LEMMA SeqIsFcn ==
  ASSUME NEW S, NEW f \in Seq(S)
  PROVE  /\ Len(f) \in Nat /\ DOMAIN f = 1..Len(f)
         /\ \A i \in 1..Len(f) : f[i] \in S
         /\ f = [i \in 1..Len(f) |-> f[i]]
OBVIOUS

LEMMA ByteAtType ==
  ASSUME TypeOK, NEW a \in Addr \cup {Null}, NEW i
  PROVE  ByteAt(a, i) \in Byte
<1>1. CASE a # Null /\ heap[a] # Free /\ i \in DOMAIN heap[a]
  <2>1. heap[a] \in Seq(Byte)
    BY <1>1 DEF TypeOK
  <2>2. i \in 1..Len(heap[a]) /\ heap[a][i] \in Byte
    BY <1>1, <2>1, SeqIsFcn
  <2> QED BY <1>1, <2>2 DEF ByteAt
<1>2. CASE ~(a # Null /\ heap[a] # Free /\ i \in DOMAIN heap[a])
  BY <1>2 DEF ByteAt, Byte
<1> QED BY <1>1, <1>2

\* The same buffers, of the same lengths.
SameShape(mem) ==
  /\ mem \in [Addr -> {Free} \cup Seq(Byte)]
  /\ \A a \in Addr : /\ mem[a] = Free <=> heap[a] = Free
                     /\ heap[a] # Free => Len(mem[a]) = Len(heap[a])

\* The count bytes of a behind from are b, the others what they were.
Overwritten(mem, a, from, count, b) ==
  \A x \in Addr : heap[x] # Free =>
    \A i \in 1..Len(heap[x]) :
      /\ x = a /\ i \in (from + 1)..(from + count) => mem[x][i] = b
      /\ ~(x = a /\ i \in (from + 1)..(from + count)) => mem[x][i] = heap[x][i]

LEMMA StoredShape ==
  ASSUME MarksAssumption, TypeOK, NEW a, NEW from \in Nat, NEW count, NEW b \in Byte
  PROVE  /\ SameShape(Stored(a, from, count, b))
         /\ Overwritten(Stored(a, from, count, b), a, from, count, b)
<1>1. PICK mem : mem = Stored(a, from, count, b)
  OBVIOUS
<1>2. ASSUME NEW x \in Addr
      PROVE  /\ mem[x] \in {Free} \cup Seq(Byte)
             /\ mem[x] = Free <=> heap[x] = Free
             /\ heap[x] # Free =>
                  /\ Len(mem[x]) = Len(heap[x])
                  /\ \A i \in 1..Len(heap[x]) : mem[x][i] =
                       IF x = a /\ i \in (from + 1)..(from + count) THEN b ELSE heap[x][i]
  <2>1. CASE x = a /\ heap[a] # Free
    <3>1. heap[x] \in Seq(Byte)
      BY <2>1 DEF TypeOK
    <3>2. PICK n \in Nat : n = Len(heap[x]) /\ DOMAIN heap[x] = 1..n
      BY <3>1, SeqIsFcn
    <3>3. mem[x] = [i \in 1..n |->
                      IF i \in (from + 1)..(from + count) THEN b ELSE heap[a][i]]
      BY <1>1, <2>1, <3>2 DEF Stored
    <3>4. mem[x] \in [1..n -> Byte]
      BY <2>1, <3>1, <3>2, <3>3, SeqIsFcn
    <3>5. mem[x] \in Seq(Byte) /\ Len(mem[x]) = n
      BY <3>4, FcnIsSeq
    <3>6. mem[x] # Free
      BY <3>5 DEF MarksAssumption
    <3> QED BY <2>1, <3>2, <3>3, <3>5, <3>6
  <2>2. CASE ~(x = a /\ heap[a] # Free)
    <3>1. mem[x] = heap[x]
      BY <1>1, <2>2 DEF Stored
    <3> QED BY <2>2, <3>1 DEF TypeOK
  <2> QED BY <2>1, <2>2
<1>3. mem \in [Addr -> {Free} \cup Seq(Byte)]
  <2>1. mem = [x \in Addr |-> mem[x]]
    BY <1>1 DEF Stored
  <2> QED BY <1>2, <2>1
<1> QED BY <1>1, <1>2, <1>3 DEF SameShape, Overwritten

-----------------------------------------------------------------------------
(* The inductive invariant.                                                *)

Growing == {"ensure", "carry", "swap", "extend", "fill", "size"}

\* A call that may change the size, or the buffer, when size is fDataSize.
Exclusive(c, size) == \/ c.at \in Growing
                      \/ c.at = "test" /\ Target(c.request) > size

\* What a call knows at each stage, when the buffer is data, of alloc bytes,
\* and the size is size; a read and a write first.
ReadOK(c, data, size) ==
  /\ c.at \in {"clip", "length", "load"} => c.request \in Reads
  /\ c.at = "clip" => c.from = c.request.pos /\ c.count = c.request.len
  /\ c.at = "length" => /\ c.from = Least(c.request.pos, size)
                        /\ c.count = c.request.len
  /\ c.at = "load" => /\ c.base = data
                      /\ c.from = Least(c.request.pos, size)
                      /\ c.count = Least(c.request.len, size - c.from)

WriteOK(c, data, size) ==
  /\ c.at \in {"test", "store"} => c.request \in Writes
  /\ c.at = "store" => /\ c.base = data
                       /\ c.from = c.request.pos /\ c.count = c.request.len
                       /\ Target(c.request) <= size

\* EnsureSize has a buffer that is long enough, and copies to it; WriteStat
\* sets to zero what comes behind the old end.
GrowOK(c, mem, data, size, alloc) ==
  /\ c.at \in Growing => /\ c.request \in Writes \cup Resizes
                         /\ c.request \in Writes => Target(c.request) > size
  /\ c.at \notin {"carry", "swap"} => c.new = Null
  /\ c.at \in {"carry", "swap"} =>
       /\ c.new \in Addr /\ c.new # data /\ mem[c.new] \in Seq(Byte)
       /\ Len(mem[c.new]) = Capacity(Target(c.request))
       /\ Target(c.request) > alloc
  /\ c.at = "carry" => c.base = data /\ c.from = 0 /\ c.count = size
  /\ c.at = "swap" => \A i \in 1..size : mem[c.new][i] = mem[data][i]
  /\ c.at \in {"extend", "fill", "size"} => Target(c.request) <= alloc
  /\ c.at = "fill" => /\ c.base = data /\ c.from = size
                      /\ Target(c.request) > size
                      /\ c.count = Target(c.request) - size
  /\ c.at = "size" => \A i \in (size + 1)..Target(c.request) : mem[data][i] = Zero

CallOK(c, mem, data, size, alloc) ==
  /\ Fits(c.request)
  /\ ReadOK(c, data, size) /\ WriteOK(c, data, size)
  /\ GrowOK(c, mem, data, size, alloc)

\* The buffer is as long as fDataAllocSize says.
BufferExact ==
  /\ fData \in Addr => heap[fData] \in Seq(Byte) /\ Len(heap[fData]) = fDataAllocSize
  /\ fData = Null => fDataAllocSize = 0

CallsOK ==
  \A t \in Active : CallOK(thread[t], heap, fData, fDataSize, fDataAllocSize)

\* Who changes the size or the buffer is alone.
Alone == \A t \in Active : Exclusive(thread[t], fDataSize) => Active = {t}

DataInv ==
  kept /\ TypeOK /\ BufferExact /\ CallsOK /\ Alone /\ BuffersOwned

-----------------------------------------------------------------------------
(* Steps.                                                                  *)

New(c) == IF c = Idle THEN Null ELSE c.new

Idles == {Idle} \cup Calls

\* The call of t becomes c.
Turns(t, c) ==
  /\ thread' \in [Thread -> Idles] /\ thread'[t] = c
  /\ \A u \in Thread \ {t} : thread'[u] = thread[u]

LEMMA TurnsByExcept ==
  ASSUME TypeOK, NEW t \in Thread, NEW c \in Idles,
         thread' = [thread EXCEPT ![t] = c]
  PROVE  Turns(t, c)
BY DEF TypeOK, Turns, Idles

Owned == {New(thread[t]) : t \in Thread}

LEMMA OwnedByNew ==
  TypeOK /\ kept => (BuffersOwned <=>
               {a \in Addr : heap[a] # Free} = ({fData} \cup Owned) \ {Null})
BY DEF Active, New, Owned, BuffersOwned

LEMMA OwnedByNewLater ==
  TypeOK' /\ kept' => (BuffersOwned' <=>
               {a \in Addr : heap'[a] # Free} = ({fData'} \cup Owned') \ {Null})
<1>1. (TypeOK /\ kept => (BuffersOwned <=>
               {a \in Addr : heap[a] # Free} = ({fData} \cup Owned) \ {Null}))'
  BY OwnedByNew, PTL
<1> QED BY <1>1

\* A step of a thread that leaves the memory of all calls alone.
LEMMA ThreadStep ==
  ASSUME MarksAssumption, DataInv, kept' = kept, NEW t \in Thread, NEW c \in Idles,
         Turns(t, c),
         \/ heap' = heap
         \/ SameShape(heap') /\ \A u \in Active : ~Exclusive(thread[u], fDataSize),
         UNCHANGED attr, answer' \in [Thread -> SUBSET (Nat \X Byte)],
         New(c) = New(thread[t]),
         c # Idle => /\ CallOK(c, heap', fData, fDataSize, fDataAllocSize)
                     /\ Exclusive(c, fDataSize) => Active \subseteq {t}
                     /\ \A u \in Active \ {t} : ~Exclusive(thread[u], fDataSize)
  PROVE  DataInv'
<1> USE DEF DataInv
<1>1. fData' = fData /\ fDataSize' = fDataSize /\ fDataAllocSize' = fDataAllocSize
  BY DEF attr
<1>2. TypeOK' /\ SameShape(heap')
  BY <1>1 DEF TypeOK, Turns, Idles, SameShape
<1>3. BufferExact'
  <2>1. fData \in Addr => heap'[fData] \in Seq(Byte) /\ Len(heap'[fData]) = fDataAllocSize
    BY <1>2 DEF BufferExact, SameShape, MarksAssumption
  <2> QED BY <1>1, <2>1 DEF BufferExact
<1>4. /\ Active' \ {t} = Active \ {t}
      /\ t \in Active' <=> c # Idle
      /\ \A u \in Active' \ {t} : thread'[u] = thread[u]
  BY DEF Active, Turns
<1>5. CallsOK'
  <2>1. ASSUME NEW u \in Active'
        PROVE  CallOK(thread'[u], heap', fData, fDataSize, fDataAllocSize)
    <3>1. CASE u = t
      BY <1>4, <3>1 DEF Turns
    <3>2. CASE u # t
      <4>1. u \in Active /\ thread'[u] = thread[u]
        BY <1>4, <3>2
      <4>2. CallOK(thread[u], heap, fData, fDataSize, fDataAllocSize)
        BY <4>1 DEF CallsOK
      <4>3. ~Exclusive(thread[u], fDataSize) =>
              CallOK(thread[u], heap', fData, fDataSize, fDataAllocSize)
        BY <4>2 DEF CallOK, GrowOK, Exclusive, Growing
      <4> QED BY <4>1, <4>2, <4>3
    <3> QED BY <3>1, <3>2
  <2> QED BY <1>1, <2>1 DEF CallsOK
<1>6. Alone'
  <2>1. ASSUME NEW u \in Active', Exclusive(thread'[u], fDataSize)
        PROVE  Active' = {u}
    <3>1. CASE u = t
      BY <1>4, <2>1, <3>1 DEF Turns
    <3>2. CASE u # t
      <4>1. u \in Active /\ thread'[u] = thread[u]
        BY <1>4, <3>2
      <4>2. c = Idle /\ Active = {u}
        BY <2>1, <3>2, <4>1 DEF Alone
      <4> QED BY <1>4, <2>1, <4>2
    <3> QED BY <3>1, <3>2
  <2> QED BY <1>1, <2>1 DEF Alone
<1>7. BuffersOwned'
  <2>1. Owned' = Owned
    BY DEF Turns, Owned
  <2>2. {a \in Addr : heap'[a] # Free} = {a \in Addr : heap[a] # Free}
    BY <1>2 DEF SameShape
  <2> QED BY <1>1, <1>2, <2>1, <2>2, OwnedByNew, OwnedByNewLater
<1> QED BY <1>2, <1>3, <1>5, <1>6, <1>7

\* A step of the only call there is.
LEMMA AloneStep ==
  ASSUME MarksAssumption, DataInv, kept' = kept, NEW t \in Thread, Active = {t},
         NEW c \in Idles, Turns(t, c), TypeOK', BufferExact',
         c # Idle => CallOK(c, heap', fData', fDataSize', fDataAllocSize'),
         {a \in Addr : heap'[a] # Free} = {fData', New(c)} \ {Null}
  PROVE  DataInv'
<1>1. \A u \in Thread \ {t} : thread[u] = Idle /\ thread'[u] = Idle
  BY DEF Active, Turns
<1>2. Active' = IF c = Idle THEN {} ELSE {t}
  BY <1>1 DEF Active, Turns
<1>3. CallsOK' /\ Alone'
  BY <1>2 DEF CallsOK, Alone, Turns
<1>4. BuffersOwned'
  <2>1. Owned' \ {Null} = {New(c)} \ {Null}
    <3>1. \A u \in Thread \ {t} : New(thread'[u]) = Null
      BY <1>1 DEF New
    <3> QED BY <3>1 DEF Turns, Owned
  <2>2. ({fData'} \cup Owned') \ {Null} = {fData', New(c)} \ {Null}
    BY <2>1
  <2> QED BY <2>2, OwnedByNewLater DEF DataInv
<1> QED BY <1>3, <1>4 DEF DataInv

LEMMA ExclusiveResizes ==
  ASSUME NEW c, CallOK(c, heap, fData, fDataSize, fDataAllocSize),
         Exclusive(c, fDataSize)
  PROVE  Resizing(c.request)
<1>1. c.request \in Writes => c.request.op = "write" /\ Target(c.request) > fDataSize
  BY DEF CallOK, GrowOK, Exclusive, Writes
<1>2. c.request \in Resizes => c.request.op = "resize"
  BY DEF Resizes
<1>3. c.request \in Writes \cup Resizes
  BY DEF CallOK, WriteOK, GrowOK, Exclusive
<1> QED BY <1>1, <1>2, <1>3 DEF Resizing

\* What a thread in a call may rely on.
LEMMA Acting ==
  ASSUME MarksAssumption, DataInv, NEW t \in Thread, NEW stage, At(t, stage)
  PROVE  /\ t \in Active /\ thread[t] \in Calls /\ thread[t] # Idle
         /\ thread[t].at = stage /\ New(thread[t]) = thread[t].new
         /\ CallOK(thread[t], heap, fData, fDataSize, fDataAllocSize)
         /\ Exclusive(thread[t], fDataSize) => Active = {t}
         /\ \A u \in Active \ {t} : ~Exclusive(thread[u], fDataSize)
<1>1. t \in Active /\ thread[t] \in Calls /\ thread[t] # Idle /\ thread[t].at = stage
  BY DEF DataInv, TypeOK, At, Active
<1> QED BY <1>1 DEF DataInv, CallsOK, Alone, New

LEMMA StartStep ==
  ASSUME DataAssumption, MarksAssumption, DataInv, kept', NEW t \in Thread,
         NEW r, \/ r \in Reads /\ Read(t, r)
                \/ r \in Writes /\ Write(t, r)
                \/ r \in Resizes /\ WriteStat(t, r)
  PROVE  DataInv'
<1>1. PICK at : /\ Start(t, r, at)
                /\ \/ r \in Reads /\ at = "clip"
                   \/ r \in Writes /\ at = "test"
                   \/ r \in Resizes /\ at = "ensure"
  BY DEF Read, Write, WriteStat
<1>2. /\ r.pos \in Nat /\ r.len \in Nat
      /\ r \in Reads => r.op = "read"
      /\ r \in Writes => r.op = "write"
      /\ r \in Resizes => r.op = "resize"
  BY <1>1 DEF Reads, Writes, Resizes, DataAssumption
<1>3. \A k \in {"clip", "test", "ensure"} : Call(r, k) \in Calls /\ Call(r, k) # Idle
  BY <1>1, <1>2 DEF Call, Calls, MarksAssumption
<1>4. PICK c : c = Call(r, at)
  OBVIOUS
<1>5. /\ c \in Calls /\ c # Idle /\ c \in Idles
      /\ c.request = r /\ c.at = at /\ c.new = Null
      /\ c.from = r.pos /\ c.count = r.len
  BY <1>1, <1>3, <1>4 DEF Call, Idles
<1>6. /\ thread[t] = Idle /\ thread' = [thread EXCEPT ![t] = c]
      /\ heap' = heap /\ UNCHANGED attr /\ answer' = [answer EXCEPT ![t] = {}]
      /\ kept' = kept /\ Fits(r)
      /\ Resizing(r) => Active = {}
      /\ \A u \in Active : ~Resizing(thread[u].request)
  <2>1. /\ thread[t] = Idle /\ thread' = [thread EXCEPT ![t] = c]
        /\ heap' = heap /\ UNCHANGED attr /\ answer' = [answer EXCEPT ![t] = {}]
        /\ kept' = (kept /\ Fits(r) /\ ~Races(r))
    BY <1>1, <1>4 DEF Start
  <2>2. kept' = kept
    BY <2>1 DEF DataInv, TypeOK
  <2> QED BY <2>1, <2>2 DEF Races
<1>7. Turns(t, c)
  BY <1>5, <1>6, TurnsByExcept DEF DataInv
<1>8. CallOK(c, heap, fData, fDataSize, fDataAllocSize)
  <2>1. ReadOK(c, fData, fDataSize) /\ WriteOK(c, fData, fDataSize)
    BY <1>1, <1>5 DEF ReadOK, WriteOK
  <2>2. GrowOK(c, heap, fData, fDataSize, fDataAllocSize)
    BY <1>1, <1>2, <1>5 DEF GrowOK, Growing
  <2> QED BY <1>5, <1>6, <2>1, <2>2 DEF CallOK
<1>9. Exclusive(c, fDataSize) => Active \subseteq {t}
  BY <1>5, <1>6, <1>8, ExclusiveResizes
<1>10. \A u \in Active \ {t} : ~Exclusive(thread[u], fDataSize)
  BY <1>6, ExclusiveResizes DEF DataInv, CallsOK
<1>11. New(c) = New(thread[t])
  BY <1>5, <1>6 DEF New
<1>12. answer' \in [Thread -> SUBSET (Nat \X Byte)]
  BY <1>6 DEF DataInv, TypeOK
<1> QED BY <1>5, <1>6, <1>7, <1>8, <1>9, <1>10, <1>11, <1>12, ThreadStep

\* The steps of Read.
LEMMA ReadStep ==
  ASSUME DataAssumption, MarksAssumption, DataInv, NEW t \in Thread,
         ClipPos(t) \/ ClipLength(t)
  PROVE  DataInv'
<1>1. PICK stage \in {"clip", "length"} : At(t, stage)
  BY DEF ClipPos, ClipLength
<1>2. /\ thread[t] \in Calls /\ thread[t] # Idle /\ thread[t].at = stage
      /\ New(thread[t]) = thread[t].new
      /\ CallOK(thread[t], heap, fData, fDataSize, fDataAllocSize)
      /\ \A u \in Active \ {t} : ~Exclusive(thread[u], fDataSize)
  BY <1>1, Acting
<1>3. PICK old : old = thread[t]
  OBVIOUS
<1>4. /\ old.request \in Reads /\ old.request.pos \in Nat /\ old.request.len \in Nat
      /\ old.new = Null /\ old.from \in Nat /\ old.count \in Nat
      /\ fDataSize \in Nat /\ fData \in Addr \cup {Null}
  <2>1. old.request \in Reads /\ old.new = Null
    BY <1>1, <1>2, <1>3 DEF CallOK, ReadOK, GrowOK
  <2>2. old.request.pos \in Nat /\ old.request.len \in Nat
    BY <2>1 DEF Reads, DataAssumption
  <2> QED BY <1>2, <1>3, <2>1, <2>2 DEF Calls, DataInv, TypeOK, Word
<1>5. PICK c : \/ /\ stage = "clip"
                  /\ c = [old EXCEPT !.from = Least(@, fDataSize), !.at = "length"]
               \/ /\ stage = "length"
                  /\ c = [old EXCEPT
                            !.count = IF fDataSize >= old.from
                                      THEN Least(@, fDataSize - old.from) ELSE @,
                            !.base = fData, !.at = "load"]
  BY <1>1
<1>6. c \in Calls
  <2>1. CASE stage = "clip"
    <3>1. Least(old.from, fDataSize) \in Nat
      BY <1>4 DEF Least
    <3> QED BY <1>2, <1>3, <1>4, <1>5, <2>1, <3>1, ZenonT(30) DEF Calls
  <2>2. CASE stage = "length"
    <3>1. PICK k : k = IF fDataSize >= old.from
                       THEN Least(old.count, fDataSize - old.from) ELSE old.count
      OBVIOUS
    <3>2. k \in Nat
      BY <1>4, <3>1 DEF Least
    <3>3. c = [old EXCEPT !.count = k, !.base = fData, !.at = "load"]
      BY <1>5, <2>2, <3>1
    <3> QED BY <1>2, <1>3, <1>4, <2>2, <3>2, <3>3 DEF Calls
  <2> QED BY <2>1, <2>2
<1>7. /\ thread' = [thread EXCEPT ![t] = c] /\ heap' = heap /\ UNCHANGED attr
      /\ answer' = answer /\ kept' = kept
  <2>1. CASE stage = "clip"
    <3>1. ClipPos(t)
      BY <1>1, <2>1 DEF ClipPos, ClipLength, At
    <3> QED BY <1>2, <1>3, <1>5, <2>1, <3>1 DEF ClipPos, DataInv, TypeOK, Calls
  <2>2. CASE stage = "length"
    <3>1. ClipLength(t)
      BY <1>1, <2>2 DEF ClipPos, ClipLength, At
    <3> QED BY <1>2, <1>3, <1>5, <2>2, <3>1 DEF ClipLength, DataInv, TypeOK, Calls
  <2> QED BY <2>1, <2>2
<1>8. c \in Idles /\ c # Idle
  BY <1>6 DEF Idles, MarksAssumption
<1>9. Turns(t, c)
  BY <1>7, <1>8, TurnsByExcept DEF DataInv
<1>10. /\ c.at \in {"length", "load"} /\ c.new = Null /\ c.request = old.request
  <2>1. CASE stage = "clip"
    <3>1. c = [old EXCEPT !.from = Least(old.from, fDataSize), !.at = "length"]
      BY <1>5, <2>1
    <3>2. c.at = "length" /\ c.request = old.request /\ c.new = old.new
      BY <1>2, <1>3, <3>1 DEF Calls
    <3> QED BY <1>4, <3>2
  <2>2. CASE stage = "length"
    <3>1. PICK k : k = IF fDataSize >= old.from
                       THEN Least(old.count, fDataSize - old.from) ELSE old.count
      OBVIOUS
    <3>0. c = [old EXCEPT !.count = k, !.base = fData, !.at = "load"]
      BY <1>5, <2>2, <3>1
    <3>2. c.at = "load" /\ c.request = old.request /\ c.new = old.new
      BY <1>2, <1>3, <3>0 DEF Calls
    <3> QED BY <1>4, <3>2
  <2> QED BY <2>1, <2>2
<1>11. ReadOK(c, fData, fDataSize)
  <2>1. CASE stage = "clip"
    <3>1. old.from = old.request.pos /\ old.count = old.request.len
      BY <1>2, <1>3, <2>1 DEF CallOK, ReadOK
    <3>2. c = [old EXCEPT !.from = Least(old.from, fDataSize), !.at = "length"]
      BY <1>5, <2>1
    <3>3. /\ c.at = "length" /\ c.request = old.request
          /\ c.from = Least(old.request.pos, fDataSize) /\ c.count = old.request.len
      BY <1>2, <1>3, <3>1, <3>2 DEF Calls
    <3> QED BY <1>4, <3>3 DEF ReadOK
  <2>2. CASE stage = "length"
    <3>1. old.from = Least(old.request.pos, fDataSize) /\ old.count = old.request.len
      BY <1>2, <1>3, <2>2 DEF CallOK, ReadOK
    <3>2. fDataSize >= old.from
      BY <1>4, <3>1 DEF Least
    <3>3. c = [old EXCEPT !.count = Least(old.count, fDataSize - old.from),
                          !.base = fData, !.at = "load"]
      BY <1>5, <2>2, <3>2
    <3>4. /\ c.at = "load" /\ c.request = old.request /\ c.base = fData
          /\ c.from = old.from /\ c.count = Least(old.count, fDataSize - old.from)
      BY <1>2, <1>3, <3>3 DEF Calls
    <3> QED BY <1>4, <3>1, <3>4 DEF ReadOK
  <2> QED BY <2>1, <2>2
<1>12. CallOK(c, heap, fData, fDataSize, fDataAllocSize) /\ ~Exclusive(c, fDataSize)
  BY <1>2, <1>3, <1>10, <1>11 DEF CallOK, WriteOK, GrowOK, Exclusive, Growing
<1>13. New(c) = New(thread[t]) /\ answer' \in [Thread -> SUBSET (Nat \X Byte)]
  BY <1>2, <1>3, <1>4, <1>7, <1>8, <1>10 DEF New, DataInv, TypeOK
<1> QED BY <1>2, <1>7, <1>8, <1>9, <1>12, <1>13, ThreadStep

\* A copy goes on with one more byte.
OneMore(c, i) == [c EXCEPT !.copied = @ \cup {i}]

LEMMA OneMoreCall ==
  ASSUME MarksAssumption, NEW c \in Calls, NEW i \in Nat
  PROVE  /\ OneMore(c, i) \in Calls /\ OneMore(c, i) # Idle /\ OneMore(c, i) \in Idles
         /\ OneMore(c, i).request = c.request /\ OneMore(c, i).at = c.at
         /\ OneMore(c, i).base = c.base /\ OneMore(c, i).from = c.from
         /\ OneMore(c, i).count = c.count /\ OneMore(c, i).new = c.new
         /\ OneMore(c, i).copied = c.copied \cup {i}
<1>1. c.copied \cup {i} \in SUBSET Nat
  BY DEF Calls
<1>2. OneMore(c, i) \in Calls
  BY <1>1 DEF Calls, OneMore
<1> QED BY <1>2 DEF OneMore, Calls, MarksAssumption, Idles

\* What a thread that copies for Read or Write may rely on.
LEMMA Copying ==
  ASSUME MarksAssumption, DataInv, NEW t \in Thread,
         At(t, "load") \/ At(t, "store")
  PROVE  /\ thread[t] \in Calls /\ thread[t] # Idle /\ thread[t].new = Null
         /\ CallOK(thread[t], heap, fData, fDataSize, fDataAllocSize)
         /\ \A u \in Active : ~Exclusive(thread[u], fDataSize)
         /\ \A i \in Bytes(t) : i \in Nat
<1>1. PICK stage \in {"load", "store"} : At(t, stage)
  OBVIOUS
<1>2. /\ thread[t] \in Calls /\ thread[t] # Idle /\ thread[t].at = stage
      /\ CallOK(thread[t], heap, fData, fDataSize, fDataAllocSize)
      /\ \A u \in Active \ {t} : ~Exclusive(thread[u], fDataSize)
  BY <1>1, Acting
<1>3. thread[t].new = Null /\ ~Exclusive(thread[t], fDataSize)
  BY <1>2 DEF CallOK, GrowOK, Exclusive, Growing
<1>4. \A i \in Bytes(t) : i \in Nat
  <2>1. thread[t].from \in Nat /\ thread[t].count \in Nat
    BY <1>2 DEF Calls
  <2> QED BY <2>1 DEF Bytes
<1> QED BY <1>2, <1>3, <1>4

LEMMA CopyStep ==
  ASSUME MarksAssumption, DataInv, kept' = kept, NEW t \in Thread,
         At(t, "load") \/ At(t, "store"), NEW i \in Bytes(t),
         thread' = [thread EXCEPT ![t] = OneMore(thread[t], i)],
         heap' = heap \/ SameShape(heap'), UNCHANGED attr,
         answer' \in [Thread -> SUBSET (Nat \X Byte)]
  PROVE  DataInv'
<1>1. PICK old : old = thread[t]
  OBVIOUS
<1>2. PICK c : c = OneMore(old, i)
  OBVIOUS
<1>3. /\ old \in Calls /\ old # Idle /\ old.new = Null /\ i \in Nat
      /\ CallOK(old, heap, fData, fDataSize, fDataAllocSize)
      /\ \A u \in Active : ~Exclusive(thread[u], fDataSize)
      /\ old.at \in {"load", "store"}
  BY <1>1, Copying DEF At
<1>4. /\ c \in Idles /\ c # Idle /\ c.request = old.request /\ c.at = old.at
      /\ c.base = old.base /\ c.from = old.from /\ c.count = old.count
      /\ c.new = Null
  BY <1>2, <1>3, OneMoreCall
<1>5. CallOK(c, heap', fData, fDataSize, fDataAllocSize) /\ ~Exclusive(c, fDataSize)
  BY <1>3, <1>4 DEF CallOK, ReadOK, WriteOK, GrowOK, Exclusive, Growing
<1>6. Turns(t, c)
  BY <1>1, <1>2, <1>4, TurnsByExcept DEF DataInv
<1>7. New(c) = New(thread[t])
  BY <1>1, <1>3, <1>4 DEF New
<1> QED BY <1>3, <1>4, <1>5, <1>6, <1>7, ThreadStep

LEMMA LoadStep ==
  ASSUME MarksAssumption, DataInv, NEW t \in Thread, Load(t)
  PROVE  DataInv'
<1>1. At(t, "load") /\ heap' = heap /\ UNCHANGED attr /\ kept' = kept
  BY DEF Load
<1>2. PICK i \in Bytes(t) :
         /\ answer' = [answer EXCEPT ![t] = @ \cup {<<i, ByteAt(thread[t].base, i)>>}]
         /\ thread' = [thread EXCEPT ![t].copied = @ \cup {i}]
  BY DEF Load
<1>3. /\ thread[t] \in Calls /\ i \in Nat /\ thread[t].base \in Addr \cup {Null}
  BY <1>1, Copying DEF Calls
<1>4. thread' = [thread EXCEPT ![t] = OneMore(thread[t], i)]
  BY <1>2, <1>3 DEF OneMore, DataInv, TypeOK
<1>5. ByteAt(thread[t].base, i) \in Byte
  BY <1>3, ByteAtType DEF DataInv
<1>6. answer' \in [Thread -> SUBSET (Nat \X Byte)]
  BY <1>2, <1>3, <1>5 DEF DataInv, TypeOK
<1> QED BY <1>1, <1>4, <1>6, CopyStep

LEMMA ReturnStep ==
  ASSUME MarksAssumption, DataInv, NEW t \in Thread, Return(t)
  PROVE  DataInv'
<1>1. At(t, "load") \/ At(t, "store")
  BY DEF Return
<1>2. /\ thread' = [thread EXCEPT ![t] = Idle] /\ heap' = heap /\ UNCHANGED attr
      /\ answer' = answer /\ kept' = kept
  BY DEF Return
<1>3. New(Idle) = New(thread[t])
  BY <1>1, Copying DEF New
<1>4. Turns(t, Idle) /\ Idle \in Idles
  BY <1>2, TurnsByExcept DEF DataInv, Idles
<1>5. answer' \in [Thread -> SUBSET (Nat \X Byte)]
  BY <1>2 DEF DataInv, TypeOK
<1> QED BY <1>2, <1>3, <1>4, <1>5, ThreadStep

LEMMA AtStoreCall ==
  ASSUME MarksAssumption, DataAssumption, TypeOK, NEW old \in Calls,
         old.request \in Writes
  PROVE  /\ AtStore(old) \in Calls /\ AtStore(old) # Idle /\ AtStore(old) \in Idles
         /\ AtStore(old).request = old.request /\ AtStore(old).at = "store"
         /\ AtStore(old).new = old.new /\ AtStore(old).base = fData
         /\ AtStore(old).from = old.request.pos
         /\ AtStore(old).count = old.request.len
         /\ AtStore(old).copied = old.copied
<1>1. old.request.pos \in Nat /\ old.request.len \in Nat
  BY DEF Writes, DataAssumption
<1>2. AtStore(old) \in Calls
  BY <1>1 DEF Calls, AtStore, TypeOK
<1> QED BY <1>2 DEF AtStore, Calls, MarksAssumption, Idles

LEMMA TestStep ==
  ASSUME DataAssumption, MarksAssumption, DataInv, NEW t \in Thread, TestSize(t)
  PROVE  DataInv'
<1>1. At(t, "test")
  BY DEF TestSize
<1>2. PICK old : old = thread[t]
  OBVIOUS
<1>3. /\ old \in Calls /\ old # Idle /\ old.at = "test" /\ New(old) = old.new
      /\ CallOK(old, heap, fData, fDataSize, fDataAllocSize)
      /\ Exclusive(old, fDataSize) => Active = {t}
      /\ \A u \in Active \ {t} : ~Exclusive(thread[u], fDataSize)
  BY <1>1, <1>2, Acting
<1>4. /\ old.request \in Writes /\ old.new = Null
      /\ Target(old.request) \in Word /\ fDataSize \in Word /\ WordMod \in Nat
  <2>1. Fits(old.request) /\ old.request \in Writes /\ old.new = Null
    BY <1>3 DEF CallOK, GrowOK, WriteOK
  <2> QED BY <2>1, TargetExact DEF DataInv, TypeOK, DataAssumption
<1>5. PICK c : c = IF Target(old.request) > fDataSize THEN [old EXCEPT !.at = "ensure"]
                   ELSE AtStore(old)
  OBVIOUS
<1>6. /\ thread' = [thread EXCEPT ![t] = c] /\ heap' = heap /\ UNCHANGED attr
      /\ answer' = answer /\ kept' = kept
  BY <1>2, <1>3, <1>5 DEF TestSize, DataInv, TypeOK
<1>7. /\ c \in Idles /\ c # Idle /\ c.new = Null
      /\ CallOK(c, heap, fData, fDataSize, fDataAllocSize)
      /\ Exclusive(c, fDataSize) => Active \subseteq {t}
  <2>1. CASE Target(old.request) > fDataSize
    <3>1. c = [old EXCEPT !.at = "ensure"]
      BY <1>5, <2>1
    <3>2. c \in Calls /\ c.at = "ensure" /\ c.request = old.request /\ c.new = Null
      BY <1>3, <1>4, <3>1 DEF Calls
    <3>3. CallOK(c, heap, fData, fDataSize, fDataAllocSize)
      BY <1>3, <1>4, <2>1, <3>2 DEF CallOK, ReadOK, WriteOK, GrowOK
    <3>4. Active = {t}
      BY <1>3, <2>1 DEF Exclusive
    <3> QED BY <3>2, <3>3, <3>4 DEF Idles, MarksAssumption
  <2>2. CASE ~(Target(old.request) > fDataSize)
    <3>1. c = AtStore(old)
      BY <1>5, <2>2
    <3>2. /\ c \in Idles /\ c # Idle /\ c.request = old.request /\ c.at = "store"
          /\ c.new = Null /\ c.base = fData /\ c.from = old.request.pos
          /\ c.count = old.request.len
      BY <1>3, <1>4, <3>1, AtStoreCall DEF DataInv
    <3>3. Target(c.request) <= fDataSize
      BY <1>4, <2>2, <3>2 DEF Word
    <3>4. CallOK(c, heap, fData, fDataSize, fDataAllocSize)
      BY <1>3, <1>4, <3>2, <3>3 DEF CallOK, ReadOK, WriteOK, GrowOK, Growing
    <3> QED BY <3>2, <3>4 DEF Exclusive, Growing
  <2> QED BY <2>1, <2>2
<1>8. Turns(t, c)
  BY <1>6, <1>7, TurnsByExcept DEF DataInv
<1>9. New(c) = New(thread[t]) /\ answer' \in [Thread -> SUBSET (Nat \X Byte)]
  BY <1>2, <1>3, <1>4, <1>6, <1>7 DEF New, DataInv, TypeOK
<1> QED BY <1>3, <1>6, <1>7, <1>8, <1>9, ThreadStep

LEMMA StoreStep ==
  ASSUME DataAssumption, MarksAssumption, DataInv, NEW t \in Thread, Store(t)
  PROVE  DataInv'
<1>1. At(t, "store") /\ UNCHANGED attr /\ answer' = answer /\ kept' = kept
  BY DEF Store
<1>2. PICK i \in Bytes(t) :
         /\ heap' = Stored(thread[t].base, i - 1, 1, thread[t].request.datum)
         /\ thread' = [thread EXCEPT ![t].copied = @ \cup {i}]
  BY DEF Store
<1>3. /\ thread[t] \in Calls /\ i \in Nat /\ i - 1 \in Nat
      /\ thread[t].request.datum \in Byte
  <2>1. /\ thread[t] \in Calls /\ i \in Nat /\ thread[t].at = "store"
        /\ CallOK(thread[t], heap, fData, fDataSize, fDataAllocSize)
    BY <1>1, Copying DEF At
  <2>2. thread[t].request \in Writes /\ thread[t].from \in Nat /\ thread[t].count \in Nat
    BY <2>1 DEF CallOK, WriteOK, Calls
  <2>3. i - 1 \in Nat
    BY <2>2 DEF Bytes
  <2> QED BY <2>1, <2>2, <2>3 DEF Writes, Byte
<1>4. thread' = [thread EXCEPT ![t] = OneMore(thread[t], i)]
  BY <1>2, <1>3 DEF OneMore, DataInv, TypeOK
<1>5. SameShape(heap')
  BY <1>2, <1>3, StoredShape DEF DataInv
<1>6. answer' \in [Thread -> SUBSET (Nat \X Byte)]
  BY <1>1 DEF DataInv, TypeOK
<1> QED BY <1>1, <1>4, <1>5, <1>6, CopyStep

-----------------------------------------------------------------------------
(* The steps of EnsureSize and WriteStat.                                  *)

Premises == DataAssumption /\ MarksAssumption

\* What a call that grows the array may rely on.
LEMMA GrowingCall ==
  ASSUME Premises, DataInv, NEW t \in Thread, NEW stage \in Growing, At(t, stage)
  PROVE  /\ Active = {t} /\ thread[t] \in Calls /\ thread[t] # Idle
         /\ thread[t].at = stage
         /\ CallOK(thread[t], heap, fData, fDataSize, fDataAllocSize)
         /\ thread[t].request \in Writes \cup Resizes
         /\ thread[t].request \in Writes => Target(thread[t].request) > fDataSize
         /\ Target(thread[t].request) \in Word /\ Wanted(t) = Target(thread[t].request)
         /\ Capacity(Target(thread[t].request)) \in Word
         /\ Capacity(Target(thread[t].request)) >= Target(thread[t].request)
         /\ New(thread[t]) = thread[t].new
         /\ {a \in Addr : heap[a] # Free} = {fData, thread[t].new} \ {Null}
<1>1. /\ t \in Active /\ thread[t] \in Calls /\ thread[t] # Idle
      /\ thread[t].at = stage /\ New(thread[t]) = thread[t].new
      /\ CallOK(thread[t], heap, fData, fDataSize, fDataAllocSize)
      /\ Exclusive(thread[t], fDataSize) => Active = {t}
  BY Acting DEF Premises
<1>2. Active = {t}
  BY <1>1 DEF Exclusive
<1>3. /\ thread[t].request \in Writes \cup Resizes
      /\ thread[t].request \in Writes => Target(thread[t].request) > fDataSize
  BY <1>1 DEF CallOK, GrowOK
<1>4. /\ Target(thread[t].request) \in Word /\ Wanted(t) = Target(thread[t].request)
      /\ Capacity(Target(thread[t].request)) \in Word
      /\ Capacity(Target(thread[t].request)) >= Target(thread[t].request)
  BY <1>1, <1>3, TargetExact DEF Premises, Wanted, CallOK
<1>5. {a \in Addr : heap[a] # Free} = {fData, thread[t].new} \ {Null}
  BY <1>2 DEF DataInv, BuffersOwned
<1> QED BY <1>1, <1>2, <1>3, <1>4, <1>5

LEMMA EnoughRoomStep ==
  ASSUME Premises, DataInv, NEW t \in Thread, EnoughRoom(t)
  PROVE  DataInv'
<1>1. At(t, "ensure") /\ "ensure" \in Growing
  BY DEF EnoughRoom, Growing
<1>2. PICK old : old = thread[t]
  OBVIOUS
<1>3. /\ old \in Calls /\ old # Idle /\ old.at = "ensure" /\ New(old) = old.new
      /\ CallOK(old, heap, fData, fDataSize, fDataAllocSize)
      /\ Active = {t} /\ Wanted(t) = Target(old.request)
      /\ old.request \in Writes \cup Resizes
      /\ old.request \in Writes => Target(old.request) > fDataSize
  BY <1>1, <1>2, GrowingCall
<1>4. old.new = Null
  BY <1>3 DEF CallOK, GrowOK
<1>5. PICK c : c = [old EXCEPT !.at = "extend"]
  OBVIOUS
<1>6. /\ c \in Calls /\ c.at = "extend" /\ c.request = old.request /\ c.new = Null
  BY <1>3, <1>4, <1>5 DEF Calls
<1>7. /\ thread' = [thread EXCEPT ![t] = c] /\ heap' = heap /\ UNCHANGED attr
      /\ answer' = answer /\ kept' = kept /\ Target(old.request) <= fDataAllocSize
  BY <1>2, <1>3, <1>5 DEF EnoughRoom, DataInv, TypeOK
<1>8. CallOK(c, heap, fData, fDataSize, fDataAllocSize)
  BY <1>3, <1>6, <1>7 DEF CallOK, ReadOK, WriteOK, GrowOK
<1>9. c \in Idles /\ Turns(t, c)
  BY <1>6, <1>7, TurnsByExcept DEF Idles, DataInv
<1>10. New(c) = New(thread[t]) /\ answer' \in [Thread -> SUBSET (Nat \X Byte)]
  BY <1>2, <1>3, <1>4, <1>6, <1>7 DEF New, DataInv, TypeOK, Premises, MarksAssumption
<1> QED BY <1>3, <1>7, <1>8, <1>9, <1>10, ThreadStep DEF Premises

LEMMA NoMemoryStep ==
  ASSUME Premises, DataInv, NEW t \in Thread, NoMemory(t)
  PROVE  DataInv'
<1>1. At(t, "ensure") /\ "ensure" \in Growing
  BY DEF NoMemory, Growing
<1>2. CallOK(thread[t], heap, fData, fDataSize, fDataAllocSize) /\ thread[t].at = "ensure"
      /\ New(thread[t]) = thread[t].new
  BY <1>1, GrowingCall
<1>3. New(Idle) = New(thread[t])
  BY <1>2 DEF CallOK, GrowOK, New
<1>4. /\ thread' = [thread EXCEPT ![t] = Idle] /\ heap' = heap /\ UNCHANGED attr
      /\ answer' = answer /\ kept' = kept
  BY DEF NoMemory
<1>5. Turns(t, Idle) /\ Idle \in Idles /\ answer' \in [Thread -> SUBSET (Nat \X Byte)]
  BY <1>4, TurnsByExcept DEF DataInv, Idles, TypeOK
<1> QED BY <1>3, <1>4, <1>5, ThreadStep DEF Premises

LEMMA BeginFillStep ==
  ASSUME Premises, DataInv, NEW t \in Thread, BeginFill(t)
  PROVE  DataInv'
<1>1. At(t, "extend") /\ "extend" \in Growing
  BY DEF BeginFill, Growing
<1>2. PICK old : old = thread[t]
  OBVIOUS
<1>3. /\ old \in Calls /\ old # Idle /\ old.at = "extend" /\ New(old) = old.new
      /\ CallOK(old, heap, fData, fDataSize, fDataAllocSize)
      /\ Active = {t}
      /\ old.request \in Writes \cup Resizes
      /\ old.request \in Writes => Target(old.request) > fDataSize
      /\ Target(old.request) \in Word
  BY <1>1, <1>2, GrowingCall
<1>4. /\ old.new = Null /\ Target(old.request) <= fDataAllocSize
      /\ fDataSize \in Word /\ WordMod \in Nat /\ fData \in Addr \cup {Null}
  BY <1>3 DEF CallOK, GrowOK, DataInv, TypeOK, Premises, DataAssumption
<1>5. PICK growth : growth = Target(old.request) - fDataSize
  OBVIOUS
<1>6. growth \in Int /\ (growth > 0 <=> Target(old.request) > fDataSize)
  BY <1>3, <1>4, <1>5 DEF Word
<1>7. PICK c : c = IF growth > 0
                   THEN [old EXCEPT !.base = fData, !.from = fDataSize,
                                    !.count = growth, !.at = "fill"]
                   ELSE [old EXCEPT !.at = "size"]
  OBVIOUS
<1>8. /\ thread' = [thread EXCEPT ![t] = c] /\ heap' = heap /\ UNCHANGED attr
      /\ answer' = answer /\ kept' = kept
  BY <1>2, <1>5, <1>7 DEF BeginFill, DataInv, TypeOK
<1>9. /\ c \in Calls /\ c.new = Null
      /\ CallOK(c, heap, fData, fDataSize, fDataAllocSize)
  <2>1. CASE growth > 0
    <3>1. c = [old EXCEPT !.base = fData, !.from = fDataSize,
                          !.count = growth, !.at = "fill"]
      BY <1>7, <2>1
    <3>2. fDataSize \in Nat /\ growth \in Nat
      BY <1>4, <1>6, <2>1 DEF Word
    <3>3. /\ c \in Calls /\ c.at = "fill" /\ c.request = old.request /\ c.new = Null
          /\ c.base = fData /\ c.from = fDataSize /\ c.count = growth
      BY <1>3, <1>4, <3>1, <3>2 DEF Calls
    <3>4. GrowOK(c, heap, fData, fDataSize, fDataAllocSize)
      BY <1>3, <1>4, <1>5, <1>6, <2>1, <3>3 DEF GrowOK
    <3> QED BY <1>3, <3>3, <3>4 DEF CallOK, ReadOK, WriteOK
  <2>2. CASE ~(growth > 0)
    <3>1. c = [old EXCEPT !.at = "size"]
      BY <1>7, <2>2
    <3>2. /\ c \in Calls /\ c.at = "size" /\ c.request = old.request /\ c.new = Null
      BY <1>3, <1>4, <3>1 DEF Calls
    <3>3. (fDataSize + 1)..Target(old.request) = {}
      BY <1>3, <1>4, <1>6, <2>2 DEF Word
    <3>4. GrowOK(c, heap, fData, fDataSize, fDataAllocSize)
      BY <1>3, <1>4, <3>2, <3>3 DEF GrowOK
    <3> QED BY <1>3, <3>2, <3>4 DEF CallOK, ReadOK, WriteOK
  <2> QED BY <2>1, <2>2
<1>10. c \in Idles /\ Turns(t, c)
  BY <1>8, <1>9, TurnsByExcept DEF Idles, DataInv
<1>11. New(c) = New(thread[t]) /\ answer' \in [Thread -> SUBSET (Nat \X Byte)]
  BY <1>2, <1>3, <1>4, <1>8, <1>9 DEF New, DataInv, TypeOK, Premises, MarksAssumption
<1> QED BY <1>3, <1>8, <1>9, <1>10, <1>11, ThreadStep DEF Premises

LEMMA NewBufferStep ==
  ASSUME Premises, DataInv, NEW t \in Thread, NEW a \in Addr, NewBuffer(t, a)
  PROVE  DataInv'
<1>1. At(t, "ensure") /\ "ensure" \in Growing
  BY DEF NewBuffer, Growing
<1>2. PICK old : old = thread[t]
  OBVIOUS
<1>3. /\ old \in Calls /\ old # Idle /\ old.at = "ensure"
      /\ CallOK(old, heap, fData, fDataSize, fDataAllocSize)
      /\ Active = {t} /\ Wanted(t) = Target(old.request)
      /\ Capacity(Target(old.request)) \in Word
      /\ old.request \in Writes \cup Resizes
      /\ old.request \in Writes => Target(old.request) > fDataSize
      /\ {x \in Addr : heap[x] # Free} = {fData, old.new} \ {Null}
  BY <1>1, <1>2, GrowingCall
<1>4. /\ old.new = Null /\ fDataSize \in Word /\ WordMod \in Nat
      /\ fData \in Addr \cup {Null} /\ Null \notin Addr
  BY <1>3 DEF CallOK, GrowOK, DataInv, TypeOK, Premises, DataAssumption
<1>5. PICK cap \in Nat : cap = Capacity(Target(old.request))
  BY <1>3 DEF Word
<1>6. PICK bytes : bytes = [i \in 1..cap |-> Junk]
  OBVIOUS
<1>7. bytes \in Seq(Byte) /\ Len(bytes) = cap /\ bytes # Free
  <2>1. bytes \in [1..cap -> Byte]
    BY <1>6 DEF Byte
  <2> QED BY <2>1, FcnIsSeq DEF Premises, MarksAssumption
<1>8. /\ heap[a] = Free /\ Target(old.request) > fDataAllocSize
      /\ heap' = [heap EXCEPT ![a] = bytes]
      /\ UNCHANGED attr /\ answer' = answer /\ kept' = kept
  BY <1>3, <1>5, <1>6 DEF NewBuffer
<1>9. PICK c : c = [old EXCEPT !.new = a, !.base = fData, !.from = 0,
                               !.count = fDataSize, !.at = "carry"]
  OBVIOUS
<1>10. /\ c \in Calls /\ c.at = "carry" /\ c.request = old.request /\ c.new = a
       /\ c.base = fData /\ c.from = 0 /\ c.count = fDataSize
  <2>1. fDataSize \in Nat
    BY <1>4 DEF Word
  <2> QED BY <1>3, <1>4, <1>9, <2>1 DEF Calls
<1>11. thread' = [thread EXCEPT ![t] = c]
  BY <1>2, <1>3, <1>9 DEF NewBuffer, DataInv, TypeOK
<1>12. c \in Idles /\ c # Idle /\ Turns(t, c)
  BY <1>10, <1>11, TurnsByExcept DEF Idles, DataInv, Premises, MarksAssumption
<1>13. fData' = fData /\ fDataSize' = fDataSize /\ fDataAllocSize' = fDataAllocSize
  BY <1>8 DEF attr
<1>14. TypeOK'
  BY <1>7, <1>8, <1>12, <1>13 DEF DataInv, TypeOK, Turns, Idles
<1>15. fData # a
  BY <1>4, <1>8 DEF DataInv, BufferExact, Premises, MarksAssumption
<1>16. /\ heap'[a] = bytes /\ \A x \in Addr \ {a} : heap'[x] = heap[x]
  BY <1>8 DEF DataInv, TypeOK
<1>17. BufferExact'
  BY <1>4, <1>13, <1>15, <1>16 DEF DataInv, BufferExact
<1>18. GrowOK(c, heap', fData, fDataSize, fDataAllocSize)
  BY <1>3, <1>5, <1>7, <1>8, <1>10, <1>15, <1>16 DEF GrowOK
<1>19. CallOK(c, heap', fData', fDataSize', fDataAllocSize')
  BY <1>3, <1>10, <1>13, <1>18 DEF CallOK, ReadOK, WriteOK
<1>20. {x \in Addr : heap'[x] # Free} = {fData', New(c)} \ {Null}
  <2>1. New(c) = a
    BY <1>10, <1>12 DEF New
  <2>2. {x \in Addr : heap'[x] # Free} = {x \in Addr : heap[x] # Free} \cup {a}
    BY <1>7, <1>16
  <2> QED BY <1>3, <1>4, <1>13, <2>1, <2>2
<1> QED BY <1>3, <1>8, <1>12, <1>14, <1>17, <1>19, <1>20, AloneStep DEF Premises

LEMMA CarryStep ==
  ASSUME Premises, DataInv, NEW t \in Thread, Carry(t)
  PROVE  DataInv'
<1>1. At(t, "carry") /\ "carry" \in Growing
  BY DEF Carry, Growing
<1>2. PICK old : old = thread[t]
  OBVIOUS
<1>3. /\ old \in Calls /\ old # Idle /\ old.at = "carry"
      /\ CallOK(old, heap, fData, fDataSize, fDataAllocSize)
      /\ Active = {t} /\ Target(old.request) \in Word
      /\ Capacity(Target(old.request)) \in Word
      /\ Capacity(Target(old.request)) >= Target(old.request)
      /\ old.request \in Writes \cup Resizes
      /\ old.request \in Writes => Target(old.request) > fDataSize
      /\ {x \in Addr : heap[x] # Free} = {fData, old.new} \ {Null}
  BY <1>1, <1>2, GrowingCall
<1>4. /\ fDataSize \in Word /\ fDataAllocSize \in Word /\ WordMod \in Nat
      /\ fDataSize <= fDataAllocSize /\ (fDataAllocSize > 0 => fData # Null)
      /\ fData \in Addr \cup {Null} /\ Null \notin Addr
  BY DEF DataInv, TypeOK, Premises, DataAssumption
<1>5. /\ old.new \in Addr /\ old.new # fData /\ heap[old.new] \in Seq(Byte)
      /\ Len(heap[old.new]) = Capacity(Target(old.request))
      /\ Target(old.request) > fDataAllocSize
      /\ old.base = fData /\ old.count = fDataSize
  BY <1>3 DEF CallOK, GrowOK
<1>6. PICK cap \in Nat : /\ cap = Len(heap[old.new]) /\ DOMAIN heap[old.new] = 1..cap
                         /\ \A i \in 1..cap : heap[old.new][i] \in Byte
  BY <1>5, SeqIsFcn
<1>7. PICK bytes : bytes = [i \in 1..cap |-> IF i <= fDataSize THEN ByteAt(fData, i)
                                             ELSE heap[old.new][i]]
  OBVIOUS
<1>8. bytes \in Seq(Byte) /\ Len(bytes) = cap /\ bytes # Free
  <2>1. \A i \in 1..cap : ByteAt(fData, i) \in Byte
    BY <1>4, ByteAtType DEF DataInv
  <2>2. bytes \in [1..cap -> Byte]
    BY <1>6, <1>7, <2>1
  <2> QED BY <2>2, FcnIsSeq DEF Premises, MarksAssumption
<1>9. /\ heap' = [x \in Addr |-> IF x = old.new THEN bytes ELSE heap[x]]
      /\ UNCHANGED attr /\ answer' = answer /\ kept' = kept
  <2>1. heap[old.new] # Free
    BY <1>5 DEF Premises, MarksAssumption
  <2>2. bytes = [i \in DOMAIN heap[old.new] |->
                   IF i <= old.count THEN ByteAt(old.base, i) ELSE heap[old.new][i]]
    BY <1>5, <1>6, <1>7
  <2>3. /\ heap' = [x \in Addr |->
              IF x = old.new /\ heap[x] # Free
              THEN [i \in DOMAIN heap[x] |->
                      IF i <= old.count THEN ByteAt(old.base, i) ELSE heap[x][i]]
              ELSE heap[x]]
        /\ UNCHANGED attr /\ answer' = answer /\ kept' = kept
    BY <1>2 DEF Carry
  <2> QED BY <2>1, <2>2, <2>3
<1>10. PICK c : c = [old EXCEPT !.at = "swap"]
  OBVIOUS
<1>11. /\ c \in Calls /\ c.at = "swap" /\ c.request = old.request /\ c.new = old.new
  BY <1>3, <1>10 DEF Calls
<1>12. thread' = [thread EXCEPT ![t] = c]
  BY <1>2, <1>3, <1>10 DEF Carry, DataInv, TypeOK
<1>13. c \in Idles /\ c # Idle /\ Turns(t, c)
  BY <1>11, <1>12, TurnsByExcept DEF Idles, DataInv, Premises, MarksAssumption
<1>14. fData' = fData /\ fDataSize' = fDataSize /\ fDataAllocSize' = fDataAllocSize
  BY <1>9 DEF attr
<1>15. TypeOK'
  BY <1>8, <1>9, <1>13, <1>14 DEF DataInv, TypeOK, Turns, Idles
<1>16. /\ heap'[old.new] = bytes /\ \A x \in Addr \ {old.new} : heap'[x] = heap[x]
  BY <1>5, <1>9 DEF DataInv, TypeOK
<1>17. BufferExact'
  BY <1>4, <1>5, <1>14, <1>16 DEF DataInv, BufferExact
<1>18. \A i \in 1..fDataSize : heap'[old.new][i] = heap'[fData][i]
  <2> SUFFICES ASSUME NEW i \in 1..fDataSize
               PROVE  bytes[i] = heap'[fData][i]
    BY <1>16
  <2>1. i \in 1..cap /\ i \in 1..fDataAllocSize /\ i <= fDataSize
    BY <1>3, <1>4, <1>5, <1>6 DEF Word
  <2>2. fData \in Addr /\ fData # Null /\ heap[fData] \in Seq(Byte)
        /\ Len(heap[fData]) = fDataAllocSize
    BY <1>4, <2>1 DEF DataInv, BufferExact, Word
  <2>3. heap[fData] # Free /\ i \in DOMAIN heap[fData]
    BY <2>1, <2>2 DEF Premises, MarksAssumption
  <2>4. ByteAt(fData, i) = heap[fData][i]
    BY <2>2, <2>3 DEF ByteAt
  <2> QED BY <1>5, <1>7, <1>16, <2>1, <2>2, <2>4
<1>19. GrowOK(c, heap', fData, fDataSize, fDataAllocSize)
  BY <1>3, <1>5, <1>6, <1>8, <1>11, <1>16, <1>18 DEF GrowOK
<1>20. CallOK(c, heap', fData', fDataSize', fDataAllocSize')
  BY <1>3, <1>11, <1>14, <1>19 DEF CallOK, ReadOK, WriteOK
<1>21. {x \in Addr : heap'[x] # Free} = {fData', New(c)} \ {Null}
  <2>1. New(c) = old.new
    BY <1>11, <1>13 DEF New
  <2>2. heap[old.new] # Free
    BY <1>5 DEF Premises, MarksAssumption
  <2>3. {x \in Addr : heap'[x] # Free} = {x \in Addr : heap[x] # Free}
    BY <1>8, <1>16, <2>2
  <2> QED BY <1>3, <1>14, <2>1, <2>3
<1> QED BY <1>3, <1>9, <1>13, <1>15, <1>17, <1>20, <1>21, AloneStep DEF Premises

LEMMA SwapStep ==
  ASSUME Premises, DataInv, NEW t \in Thread, Swap(t)
  PROVE  DataInv'
<1>1. At(t, "swap") /\ "swap" \in Growing
  BY DEF Swap, Growing
<1>2. PICK old : old = thread[t]
  OBVIOUS
<1>3. /\ old \in Calls /\ old # Idle /\ old.at = "swap"
      /\ CallOK(old, heap, fData, fDataSize, fDataAllocSize)
      /\ Active = {t} /\ Wanted(t) = Target(old.request)
      /\ Target(old.request) \in Word
      /\ Capacity(Target(old.request)) \in Word
      /\ Capacity(Target(old.request)) >= Target(old.request)
      /\ old.request \in Writes \cup Resizes
      /\ old.request \in Writes => Target(old.request) > fDataSize
      /\ {x \in Addr : heap[x] # Free} = {fData, old.new} \ {Null}
  BY <1>1, <1>2, GrowingCall
<1>4. /\ fDataSize \in Word /\ fDataAllocSize \in Word /\ WordMod \in Nat
      /\ fDataSize <= fDataAllocSize
      /\ fData \in Addr \cup {Null} /\ Null \notin Addr
  BY DEF DataInv, TypeOK, Premises, DataAssumption
<1>5. /\ old.new \in Addr /\ old.new # fData /\ heap[old.new] \in Seq(Byte)
      /\ Len(heap[old.new]) = Capacity(Target(old.request))
      /\ Target(old.request) > fDataAllocSize
  BY <1>3 DEF CallOK, GrowOK
<1>6. /\ heap' = [x \in Addr |-> IF x = fData THEN Free ELSE heap[x]]
      /\ fData' = old.new /\ fDataSize' = fDataSize
      /\ fDataAllocSize' = Capacity(Target(old.request)) /\ answer' = answer /\ kept' = kept
  BY <1>2, <1>3 DEF Swap, SetTo
<1>7. PICK c : c = [old EXCEPT !.new = Null, !.at = "extend"]
  OBVIOUS
<1>8. /\ c \in Calls /\ c.at = "extend" /\ c.request = old.request /\ c.new = Null
  BY <1>3, <1>7 DEF Calls
<1>9. thread' = [thread EXCEPT ![t] = c]
  BY <1>2, <1>3, <1>7 DEF Swap, DataInv, TypeOK
<1>10. c \in Idles /\ c # Idle /\ Turns(t, c)
  BY <1>8, <1>9, TurnsByExcept DEF Idles, DataInv, Premises, MarksAssumption
<1>11. heap' \in [Addr -> {Free} \cup Seq(Byte)]
  BY <1>6 DEF DataInv, TypeOK
<1>12. fDataSize' <= fDataAllocSize' /\ fData' # Null
  BY <1>3, <1>4, <1>5, <1>6 DEF Word
<1>13. TypeOK'
  BY <1>3, <1>4, <1>5, <1>6, <1>10, <1>11, <1>12 DEF DataInv, TypeOK, Turns, Idles
<1>14. heap'[old.new] = heap[old.new]
  BY <1>5, <1>6
<1>15. BufferExact'
  BY <1>5, <1>6, <1>12, <1>14 DEF BufferExact
<1>16. GrowOK(c, heap', fData', fDataSize', fDataAllocSize')
  BY <1>3, <1>6, <1>8 DEF GrowOK
<1>17. CallOK(c, heap', fData', fDataSize', fDataAllocSize')
  BY <1>3, <1>8, <1>16 DEF CallOK, ReadOK, WriteOK
<1>18. {x \in Addr : heap'[x] # Free} = {fData', New(c)} \ {Null}
  <2>1. New(c) = Null
    BY <1>8, <1>10 DEF New
  <2>2. {x \in Addr : heap'[x] # Free} = {x \in Addr : heap[x] # Free} \ {fData}
    BY <1>6
  <2> QED BY <1>3, <1>4, <1>5, <1>6, <2>1, <2>2
<1> QED BY <1>3, <1>6, <1>10, <1>13, <1>15, <1>17, <1>18, AloneStep DEF Premises

LEMMA FillStep ==
  ASSUME Premises, DataInv, NEW t \in Thread, Fill(t)
  PROVE  DataInv'
<1>1. At(t, "fill") /\ "fill" \in Growing
  BY DEF Fill, Growing
<1>2. PICK old : old = thread[t]
  OBVIOUS
<1>3. /\ old \in Calls /\ old # Idle /\ old.at = "fill" /\ New(old) = old.new
      /\ CallOK(old, heap, fData, fDataSize, fDataAllocSize)
      /\ Active = {t} /\ Target(old.request) \in Word
      /\ old.request \in Writes \cup Resizes
      /\ old.request \in Writes => Target(old.request) > fDataSize
      /\ {x \in Addr : heap[x] # Free} = {fData, old.new} \ {Null}
  BY <1>1, <1>2, GrowingCall
<1>4. /\ fDataSize \in Nat /\ fDataAllocSize \in Nat /\ Target(old.request) \in Nat
      /\ fDataSize <= fDataAllocSize /\ (fDataAllocSize > 0 => fData # Null)
      /\ fData \in Addr \cup {Null} /\ Null \notin Addr
  BY <1>3 DEF DataInv, TypeOK, Premises, DataAssumption, Word
<1>5. /\ old.new = Null /\ old.base = fData /\ old.from = fDataSize
      /\ Target(old.request) > fDataSize /\ Target(old.request) <= fDataAllocSize
      /\ old.count = Target(old.request) - fDataSize
  BY <1>3 DEF CallOK, GrowOK
<1>6. /\ heap' = Stored(fData, fDataSize, old.count, Zero)
      /\ UNCHANGED attr /\ answer' = answer /\ kept' = kept
  BY <1>2, <1>5 DEF Fill
<1>7. SameShape(heap') /\ Overwritten(heap', fData, fDataSize, old.count, Zero)
  <2>1. Zero \in Byte /\ MarksAssumption /\ TypeOK
    BY DEF Byte, Premises, DataInv
  <2> QED BY <1>4, <1>6, <2>1, StoredShape
<1>8. PICK c : c = [old EXCEPT !.at = "size"]
  OBVIOUS
<1>9. /\ c \in Calls /\ c.at = "size" /\ c.request = old.request /\ c.new = Null
  BY <1>3, <1>5, <1>8 DEF Calls
<1>10. thread' = [thread EXCEPT ![t] = c]
  BY <1>2, <1>3, <1>8 DEF Fill, DataInv, TypeOK
<1>11. c \in Idles /\ c # Idle /\ Turns(t, c)
  BY <1>9, <1>10, TurnsByExcept DEF Idles, DataInv, Premises, MarksAssumption
<1>12. fData' = fData /\ fDataSize' = fDataSize /\ fDataAllocSize' = fDataAllocSize
  BY <1>6 DEF attr
<1>13. TypeOK'
  BY <1>6, <1>7, <1>11, <1>12 DEF DataInv, TypeOK, Turns, Idles, SameShape
<1>14. BufferExact'
  <2>1. fData \in Addr => heap'[fData] \in Seq(Byte) /\ Len(heap'[fData]) = fDataAllocSize
    BY <1>7 DEF DataInv, BufferExact, SameShape, Premises, MarksAssumption
  <2> QED BY <1>12, <2>1 DEF DataInv, BufferExact
<1>15. \A i \in (fDataSize + 1)..Target(old.request) : heap'[fData][i] = Zero
  <2> SUFFICES ASSUME NEW i \in (fDataSize + 1)..Target(old.request)
               PROVE  heap'[fData][i] = Zero
    OBVIOUS
  <2>1. fData \in Addr /\ i \in 1..fDataAllocSize
    BY <1>4, <1>5
  <2>2. heap[fData] # Free /\ i \in 1..Len(heap[fData])
    BY <2>1 DEF DataInv, BufferExact, Premises, MarksAssumption
  <2>3. i \in (fDataSize + 1)..(fDataSize + old.count)
    BY <1>4, <1>5
  <2> QED BY <1>7, <2>1, <2>2, <2>3 DEF Overwritten
<1>16. GrowOK(c, heap', fData, fDataSize, fDataAllocSize)
  BY <1>3, <1>5, <1>9, <1>15 DEF GrowOK
<1>17. CallOK(c, heap', fData', fDataSize', fDataAllocSize')
  BY <1>3, <1>9, <1>12, <1>16 DEF CallOK, ReadOK, WriteOK
<1>18. {x \in Addr : heap'[x] # Free} = {fData', New(c)} \ {Null}
  <2>1. New(c) = Null
    BY <1>9, <1>11 DEF New
  <2>2. {x \in Addr : heap'[x] # Free} = {x \in Addr : heap[x] # Free}
    BY <1>7 DEF SameShape
  <2> QED BY <1>3, <1>5, <1>12, <2>1, <2>2
<1> QED BY <1>3, <1>6, <1>11, <1>13, <1>14, <1>17, <1>18, AloneStep DEF Premises

\* The call after SetSize: a write goes on to its copy, a resize is over.
AfterSize(c) == IF c.request.op = "write" THEN AtStore(c) ELSE Idle

LEMMA SetSizeStep ==
  ASSUME Premises, DataInv, NEW t \in Thread, SetSize(t)
  PROVE  DataInv'
<1>1. At(t, "size") /\ "size" \in Growing
  BY DEF SetSize, Growing
<1>2. PICK old : old = thread[t]
  OBVIOUS
<1>3. /\ old \in Calls /\ old # Idle /\ old.at = "size" /\ New(old) = old.new
      /\ CallOK(old, heap, fData, fDataSize, fDataAllocSize)
      /\ Active = {t} /\ Target(old.request) \in Word
      /\ Wanted(t) = Target(old.request)
      /\ old.request \in Writes \cup Resizes
      /\ {x \in Addr : heap[x] # Free} = {fData, old.new} \ {Null}
  BY <1>1, <1>2, GrowingCall
<1>4. old.new = Null /\ Target(old.request) <= fDataAllocSize
  BY <1>3 DEF CallOK, GrowOK
<1>5. PICK c : c = AfterSize(old)
  OBVIOUS
<1>6. /\ heap' = heap /\ fData' = fData /\ fDataAllocSize' = fDataAllocSize
      /\ answer' = answer /\ kept' = kept /\ fDataSize' = Target(old.request)
  BY <1>3 DEF SetSize
<1>7. thread' = [thread EXCEPT ![t] = c]
  BY <1>2, <1>5 DEF SetSize, AfterSize, DataInv, TypeOK
<1>8. /\ c \in Idles /\ New(c) = Null
      /\ c # Idle => CallOK(c, heap, fData, Target(old.request), fDataAllocSize)
  <2>1. CASE old.request \in Writes
    <3>1. old.request.op = "write" /\ c = AtStore(old)
      BY <1>5, <2>1 DEF Writes, AfterSize
    <3>2. /\ c \in Idles /\ c # Idle /\ c.request = old.request /\ c.at = "store"
          /\ c.new = Null /\ c.base = fData /\ c.from = old.request.pos
          /\ c.count = old.request.len
      BY <1>3, <1>4, <2>1, <3>1, AtStoreCall DEF DataInv, Premises
    <3>3. Target(c.request) <= Target(old.request)
      BY <1>3, <3>2 DEF Word
    <3>4. WriteOK(c, fData, Target(old.request))
      BY <2>1, <3>2, <3>3 DEF WriteOK
    <3>5. CallOK(c, heap, fData, Target(old.request), fDataAllocSize)
      BY <1>3, <3>2, <3>4 DEF CallOK, ReadOK, GrowOK, Growing
    <3> QED BY <3>2, <3>5 DEF New
  <2>2. CASE old.request \in Resizes
    <3>1. c = Idle
      BY <1>5, <2>2 DEF Resizes, AfterSize
    <3> QED BY <3>1 DEF Idles, New
  <2> QED BY <1>3, <2>1, <2>2
<1>9. Turns(t, c)
  BY <1>7, <1>8, TurnsByExcept DEF DataInv
<1>10. TypeOK'
  BY <1>3, <1>4, <1>6, <1>9 DEF DataInv, TypeOK, Turns, Idles
<1>11. BufferExact'
  BY <1>6 DEF DataInv, BufferExact
<1>12. {x \in Addr : heap'[x] # Free} = {fData', New(c)} \ {Null}
  BY <1>3, <1>4, <1>6, <1>8
<1> QED BY <1>3, <1>6, <1>8, <1>9, <1>10, <1>11, <1>12, AloneStep DEF Premises

-----------------------------------------------------------------------------
(* The invariant.                                                          *)

LEMMA InitInv ==
  ASSUME Premises, Init
  PROVE  DataInv
<1>1. Active = {} /\ {a \in Addr : heap[a] # Free} = {}
  BY DEF Init, Active
<1>2. <<>> \in Seq(Byte) /\ 0 \in Word
  BY DEF Premises, DataAssumption, Word
<1>3. TypeOK
  BY <1>2 DEF Init, TypeOK
<1>4. BufferExact /\ CallsOK /\ Alone /\ BuffersOwned
  BY <1>1 DEF Init, BufferExact, CallsOK, Alone, BuffersOwned, Premises, DataAssumption
<1> QED BY <1>3, <1>4 DEF DataInv, Init

LEMMA NextInv ==
  ASSUME Premises, DataInv, kept', [Next]_vars
  PROVE  DataInv'
<1>1. CASE Next
  <2>1. PICK t \in Thread :
          \/ \E r \in Reads : Read(t, r)
          \/ \E r \in Writes : Write(t, r)
          \/ \E r \in Resizes : WriteStat(t, r)
          \/ ClipPos(t) \/ ClipLength(t) \/ Load(t)
          \/ TestSize(t) \/ Store(t) \/ Return(t)
          \/ \E a \in Addr : NewBuffer(t, a)
          \/ EnoughRoom(t) \/ NoMemory(t) \/ Carry(t) \/ Swap(t)
          \/ BeginFill(t) \/ Fill(t) \/ SetSize(t)
    BY <1>1 DEF Next
  <2>2. CASE \/ \E r \in Reads : Read(t, r)
             \/ \E r \in Writes : Write(t, r)
             \/ \E r \in Resizes : WriteStat(t, r)
    BY <2>2, StartStep DEF Premises
  <2>3. CASE ClipPos(t) \/ ClipLength(t)
    BY <2>3, ReadStep DEF Premises
  <2>4. CASE Load(t)
    BY <2>4, LoadStep DEF Premises
  <2>5. CASE TestSize(t)
    BY <2>5, TestStep DEF Premises
  <2>6. CASE Store(t)
    BY <2>6, StoreStep DEF Premises
  <2>7. CASE \E a \in Addr : NewBuffer(t, a)
    BY <2>7, NewBufferStep
  <2>8. CASE EnoughRoom(t)
    BY <2>8, EnoughRoomStep
  <2>9. CASE NoMemory(t)
    BY <2>9, NoMemoryStep
  <2>10. CASE Carry(t)
    BY <2>10, CarryStep
  <2>11. CASE Swap(t)
    BY <2>11, SwapStep
  <2>12. CASE BeginFill(t)
    BY <2>12, BeginFillStep
  <2>13. CASE Fill(t)
    BY <2>13, FillStep
  <2>14. CASE SetSize(t)
    BY <2>14, SetSizeStep
  <2>15. CASE Return(t)
    BY <2>15, ReturnStep DEF Premises
  <2> QED BY <2>1, <2>2, <2>3, <2>4, <2>5, <2>6, <2>7, <2>8, <2>9, <2>10, <2>11,
             <2>12, <2>13, <2>14, <2>15
<1>2. CASE UNCHANGED vars
  BY <1>2 DEF vars, attr, DataInv, TypeOK, BufferExact, CallsOK, Alone, Active,
              BuffersOwned
<1> QED BY <1>1, <1>2

-----------------------------------------------------------------------------
(* The types, and what holds while the data is kept.                       *)

\* What TypeOK says whether or not the data is kept.
Types ==
  /\ heap \in [Addr -> {Free} \cup Seq(Byte)]
  /\ fData \in Addr \cup {Null}
  /\ fDataSize \in Word /\ fDataAllocSize \in Word
  /\ thread \in [Thread -> Idles]
  /\ answer \in [Thread -> SUBSET (Nat \X Byte)]
  /\ kept \in BOOLEAN

LostOrSound == Types /\ (kept => DataInv)

LEMMA TargetIsInt ==
  ASSUME DataAssumption, NEW r \in Reads \cup Writes \cup Resizes
  PROVE  /\ r.pos \in Nat /\ r.len \in Nat
         /\ Target(r) \in Int /\ Target(r) % WordMod \in Word
         /\ Capacity(Target(r) % WordMod) \in Word
<1>1. /\ r.pos \in Nat /\ r.len \in Nat /\ WordMod \in Nat \ {0} /\ OffMod \in Nat
  BY DEF Reads, Writes, Resizes, DataAssumption
<1>2. Target(r) \in Int
  <2>1. CASE r.op = "resize"
    BY <1>1, <2>1 DEF Target
  <2>2. CASE r.op # "resize"
    <3>1. r.pos < OffMod \div 2
      BY <2>2 DEF Reads, Writes, Resizes, DataAssumption
    <3>2. OffMod \in Nat \ {0} /\ r.pos + r.len \in Nat
      BY <1>1, <3>1
    <3>3. (r.pos + r.len) % OffMod \in Nat
      BY <3>2
    <3>4. OffSum(r.pos, r.len) \in Int
      BY <3>2, <3>3 DEF OffSum
    <3> QED BY <2>2, <3>4 DEF Target
  <2> QED BY <2>1, <2>2
<1>3. Target(r) % WordMod \in 0..(WordMod - 1)
  BY <1>1, <1>2
<1>4. PICK n \in Nat : n = Target(r) % WordMod
  BY <1>1, <1>3
<1>5. n + (n \div 2) \in Nat
  OBVIOUS
<1>6. (n + (n \div 2)) % WordMod \in 0..(WordMod - 1)
  BY <1>1, <1>5
<1> QED BY <1>1, <1>2, <1>3, <1>4, <1>6 DEF Word, Capacity

LEMMA ByteAtInTypes ==
  ASSUME Types, NEW a \in Addr \cup {Null}, NEW i
  PROVE  ByteAt(a, i) \in Byte
<1>1. CASE a # Null /\ heap[a] # Free /\ i \in DOMAIN heap[a]
  <2>1. heap[a] \in Seq(Byte)
    BY <1>1 DEF Types
  <2>2. i \in 1..Len(heap[a]) /\ heap[a][i] \in Byte
    BY <1>1, <2>1, SeqIsFcn
  <2> QED BY <1>1, <2>2 DEF ByteAt
<1>2. CASE ~(a # Null /\ heap[a] # Free /\ i \in DOMAIN heap[a])
  BY <1>2 DEF ByteAt, Byte
<1> QED BY <1>1, <1>2

LEMMA StoredInTypes ==
  ASSUME Types, NEW a, NEW from \in Nat, NEW count, NEW b \in Byte
  PROVE  Stored(a, from, count, b) \in [Addr -> {Free} \cup Seq(Byte)]
<1> SUFFICES ASSUME NEW x \in Addr
             PROVE  Stored(a, from, count, b)[x] \in {Free} \cup Seq(Byte)
  <2>1. Stored(a, from, count, b) = [x \in Addr |-> Stored(a, from, count, b)[x]]
    BY DEF Stored
  <2> QED BY <2>1
<1>1. CASE x = a /\ heap[a] # Free
  <2>1. heap[x] \in Seq(Byte)
    BY <1>1 DEF Types
  <2>2. PICK n \in Nat : DOMAIN heap[x] = 1..n /\ \A i \in 1..n : heap[x][i] \in Byte
    BY <2>1, SeqIsFcn
  <2>3. Stored(a, from, count, b)[x] =
          [i \in 1..n |-> IF i \in (from + 1)..(from + count) THEN b ELSE heap[x][i]]
    BY <1>1, <2>2 DEF Stored
  <2>4. Stored(a, from, count, b)[x] \in [1..n -> Byte]
    BY <2>2, <2>3
  <2> QED BY <2>4, FcnIsSeq
<1>2. CASE ~(x = a /\ heap[a] # Free)
  BY <1>2 DEF Stored, Types
<1> QED BY <1>1, <1>2

LEMMA ThreadTyped ==
  ASSUME Types, NEW t \in Thread, NEW c \in Idles, thread' = [thread EXCEPT ![t] = c]
  PROVE  thread' \in [Thread -> Idles]
BY DEF Types

LEMMA TypesNext ==
  ASSUME Premises, Types, [Next]_vars
  PROVE  Types'
<1> USE DEF Premises
<1>1. CASE UNCHANGED vars
  BY <1>1 DEF vars, attr, Types
<1>2. CASE Next
  <2>1. PICK t \in Thread :
          \/ \E r \in Reads : Read(t, r)
          \/ \E r \in Writes : Write(t, r)
          \/ \E r \in Resizes : WriteStat(t, r)
          \/ ClipPos(t) \/ ClipLength(t) \/ Load(t)
          \/ TestSize(t) \/ Store(t) \/ Return(t)
          \/ \E a \in Addr : NewBuffer(t, a)
          \/ EnoughRoom(t) \/ NoMemory(t) \/ Carry(t) \/ Swap(t)
          \/ BeginFill(t) \/ Fill(t) \/ SetSize(t)
    BY <1>2 DEF Next
  <2>2. ASSUME NEW r \in Reads \cup Writes \cup Resizes,
               NEW at \in {"clip", "test", "ensure"}, Start(t, r, at)
        PROVE  Types'
    <3>1. r.pos \in Nat /\ r.len \in Nat
      BY TargetIsInt
    <3>2. Call(r, at) \in Idles
      BY <3>1 DEF Call, Calls, Idles
    <3>3. thread' \in [Thread -> Idles]
      BY <2>2, <3>2, ThreadTyped DEF Start
    <3>4. kept' \in BOOLEAN
      BY <2>2 DEF Start
    <3> QED BY <2>2, <3>3, <3>4 DEF Start, attr, Types
  <2>3. CASE \/ \E r \in Reads : Read(t, r)
             \/ \E r \in Writes : Write(t, r)
             \/ \E r \in Resizes : WriteStat(t, r)
    BY <2>2, <2>3 DEF Read, Write, WriteStat
  <2>4. CASE thread[t] # Idle
    <3>1. PICK old \in Calls : old = thread[t]
      BY <2>4 DEF Types, Idles
    <3>2. /\ old.request \in Reads \cup Writes \cup Resizes
          /\ old.base \in Addr \cup {Null} /\ old.from \in Nat /\ old.count \in Nat
          /\ old.copied \in SUBSET Nat /\ old.new \in Addr \cup {Null}
      BY DEF Calls
    <3>3. /\ old.request.pos \in Nat /\ old.request.len \in Nat
          /\ Target(old.request) \in Int /\ Wanted(t) \in Word
          /\ Capacity(Wanted(t)) \in Word
          /\ WordMod \in Nat \ {0} /\ fDataSize \in Nat /\ fDataAllocSize \in Nat
      BY <3>1, <3>2, TargetIsInt DEF Wanted, Types, Word, DataAssumption
    <3>4. AtStore(old) \in Calls
      BY <3>2, <3>3 DEF AtStore, Calls, Types
    <3>5. ASSUME NEW c \in Calls \cup {Idle}, thread' = [thread EXCEPT ![t] = c]
          PROVE  thread' \in [Thread -> Idles]
      BY <3>5, ThreadTyped DEF Idles
    <3>6. CASE ClipPos(t)
      <4>1. Least(old.from, fDataSize) \in Nat
        BY <3>2, <3>3 DEF Least
      <4>2. PICK c : c = [old EXCEPT !.from = Least(old.from, fDataSize), !.at = "length"]
        OBVIOUS
      <4>3. c \in Calls
        BY <3>2, <4>1, <4>2 DEF Calls
      <4>4. thread' = [thread EXCEPT ![t] = c]
        BY <3>1, <3>6, <4>2 DEF ClipPos, Types
      <4> QED BY <3>5, <3>6, <4>3, <4>4 DEF ClipPos, attr, Types
    <3>7. CASE ClipLength(t)
      <4>1. PICK k : k = IF fDataSize >= old.from
                         THEN Least(old.count, fDataSize - old.from) ELSE old.count
        OBVIOUS
      <4>2. k \in Nat
        BY <3>2, <3>3, <4>1 DEF Least
      <4>3. PICK c : c = [old EXCEPT !.count = k, !.base = fData, !.at = "load"]
        OBVIOUS
      <4>4. c \in Calls
        BY <3>2, <4>2, <4>3 DEF Calls, Types
      <4>5. thread' = [thread EXCEPT ![t] = c]
        BY <3>1, <3>7, <4>1, <4>3 DEF ClipLength, Types
      <4> QED BY <3>5, <3>7, <4>4, <4>5 DEF ClipLength, attr, Types
    <3>8. CASE Load(t)
      <4>1. PICK i \in Bytes(t) :
               /\ answer' = [answer EXCEPT ![t] = @ \cup {<<i, ByteAt(old.base, i)>>}]
               /\ thread' = [thread EXCEPT ![t].copied = @ \cup {i}]
        BY <3>1, <3>8 DEF Load
      <4>2. i \in Nat
        BY <3>1, <3>2 DEF Bytes
      <4>3. thread' = [thread EXCEPT ![t] = OneMore(old, i)] /\ OneMore(old, i) \in Calls
        BY <3>1, <4>1, <4>2, OneMoreCall DEF OneMore, Types
      <4>4. ByteAt(old.base, i) \in Byte
        BY <3>2, ByteAtInTypes
      <4>5. answer' \in [Thread -> SUBSET (Nat \X Byte)]
        BY <4>1, <4>2, <4>4 DEF Types
      <4> QED BY <3>5, <3>8, <4>3, <4>5 DEF Load, attr, Types
    <3>9. CASE TestSize(t)
      <4>1. PICK c : c = IF Target(old.request) > fDataSize
                         THEN [old EXCEPT !.at = "ensure"] ELSE AtStore(old)
        OBVIOUS
      <4>2. c \in Calls
        BY <3>2, <3>4, <4>1 DEF Calls
      <4>3. thread' = [thread EXCEPT ![t] = c]
        BY <3>1, <3>9, <4>1 DEF TestSize, Types
      <4> QED BY <3>5, <3>9, <4>2, <4>3 DEF TestSize, attr, Types
    <3>10. CASE Store(t)
      <4>1. PICK i \in Bytes(t) :
               /\ heap' = Stored(old.base, i - 1, 1, old.request.datum)
               /\ thread' = [thread EXCEPT ![t].copied = @ \cup {i}]
        BY <3>1, <3>10 DEF Store
      <4>2. i \in Nat /\ i - 1 \in Nat
        BY <3>1, <3>2 DEF Bytes
      <4>3. thread' = [thread EXCEPT ![t] = OneMore(old, i)] /\ OneMore(old, i) \in Calls
        BY <3>1, <4>1, <4>2, OneMoreCall DEF OneMore, Types
      <4>4. old.request.datum \in Byte
        BY <3>2 DEF Reads, Writes, Resizes, Byte
      <4>5. heap' \in [Addr -> {Free} \cup Seq(Byte)]
        BY <4>1, <4>2, <4>4, StoredInTypes
      <4> QED BY <3>5, <3>10, <4>3, <4>5 DEF Store, attr, Types
    <3>11. CASE Return(t)
      BY <3>5, <3>11 DEF Return, attr, Types
    <3>12. CASE \E a \in Addr : NewBuffer(t, a)
      <4>1. PICK a \in Addr : NewBuffer(t, a)
        BY <3>12
      <4>2. PICK n \in Nat : n = Capacity(Wanted(t))
        BY <3>3 DEF Word
      <4>3. PICK bytes : bytes = [i \in 1..n |-> Junk]
        OBVIOUS
      <4>4. bytes \in Seq(Byte)
        <5>1. bytes \in [1..n -> Byte]
          BY <4>3 DEF Byte
        <5> QED BY <5>1, FcnIsSeq
      <4>5. heap' \in [Addr -> {Free} \cup Seq(Byte)]
        BY <4>1, <4>2, <4>3, <4>4 DEF NewBuffer, Types
      <4>6. PICK c : c = [old EXCEPT !.new = a, !.base = fData, !.from = 0,
                                     !.count = fDataSize, !.at = "carry"]
        OBVIOUS
      <4>7. c \in Calls
        BY <3>2, <3>3, <4>6 DEF Calls, Types
      <4>8. thread' = [thread EXCEPT ![t] = c]
        BY <3>1, <4>1, <4>6 DEF NewBuffer, Types
      <4> QED BY <3>5, <4>1, <4>5, <4>7, <4>8 DEF NewBuffer, attr, Types
    <3>13. CASE EnoughRoom(t)
      <4>1. [old EXCEPT !.at = "extend"] \in Calls
        BY <3>2 DEF Calls
      <4>2. thread' = [thread EXCEPT ![t] = [old EXCEPT !.at = "extend"]]
        BY <3>1, <3>13 DEF EnoughRoom, Types
      <4> QED BY <3>5, <3>13, <4>1, <4>2 DEF EnoughRoom, attr, Types
    <3>14. CASE NoMemory(t)
      BY <3>5, <3>14 DEF NoMemory, attr, Types
    <3>15. CASE Carry(t)
      <4>1. [old EXCEPT !.at = "swap"] \in Calls
        BY <3>2 DEF Calls
      <4>2. thread' = [thread EXCEPT ![t] = [old EXCEPT !.at = "swap"]]
        BY <3>1, <3>15 DEF Carry, Types
      <4>3. heap' = [x \in Addr |->
              IF x = old.new /\ heap[x] # Free
              THEN [i \in DOMAIN heap[x] |-> IF i <= old.count
                                            THEN ByteAt(old.base, i) ELSE heap[x][i]]
              ELSE heap[x]]
        BY <3>1, <3>15 DEF Carry
      <4>4. ASSUME NEW x \in Addr, heap[x] # Free
            PROVE  [i \in DOMAIN heap[x] |-> IF i <= old.count
                                            THEN ByteAt(old.base, i) ELSE heap[x][i]]
                     \in Seq(Byte)
        <5>1. heap[x] \in Seq(Byte)
          BY <4>4 DEF Types
        <5>2. PICK n \in Nat : DOMAIN heap[x] = 1..n /\ \A i \in 1..n : heap[x][i] \in Byte
          BY <5>1, SeqIsFcn
        <5>3. \A i \in 1..n : ByteAt(old.base, i) \in Byte
          BY <3>2, ByteAtInTypes
        <5>4. PICK bytes : bytes = [i \in 1..n |-> IF i <= old.count
                                              THEN ByteAt(old.base, i) ELSE heap[x][i]]
          OBVIOUS
        <5>5. bytes \in [1..n -> Byte]
          BY <5>2, <5>3, <5>4
        <5> QED BY <5>2, <5>4, <5>5, FcnIsSeq
      <4>5. heap' \in [Addr -> {Free} \cup Seq(Byte)]
        BY <4>3, <4>4 DEF Types
      <4> QED BY <3>5, <3>15, <4>1, <4>2, <4>5 DEF Carry, attr, Types
    <3>16. CASE Swap(t)
      <4>1. [old EXCEPT !.new = Null, !.at = "extend"] \in Calls
        BY <3>2 DEF Calls
      <4>2. thread' = [thread EXCEPT ![t] = [old EXCEPT !.new = Null, !.at = "extend"]]
        BY <3>1, <3>16 DEF Swap, Types
      <4>3. heap' \in [Addr -> {Free} \cup Seq(Byte)] /\ fData' \in Addr \cup {Null}
        BY <3>1, <3>2, <3>16 DEF Swap, SetTo, Types
      <4> QED BY <3>3, <3>5, <3>16, <4>1, <4>2, <4>3 DEF Swap, Types
    <3>17. CASE BeginFill(t)
      <4>1. PICK growth \in Int : growth = Target(old.request) - fDataSize
        BY <3>3
      <4>2. PICK c : c = IF growth > 0
                         THEN [old EXCEPT !.base = fData, !.from = fDataSize,
                                          !.count = growth, !.at = "fill"]
                         ELSE [old EXCEPT !.at = "size"]
        OBVIOUS
      <4>3. c \in Calls
        <5>1. CASE growth > 0
          <6>1. growth \in Nat
            BY <5>1
          <6> QED BY <3>2, <3>3, <4>2, <5>1, <6>1 DEF Calls, Types
        <5>2. CASE ~(growth > 0)
          BY <3>2, <4>2, <5>2 DEF Calls
        <5> QED BY <5>1, <5>2
      <4>4. thread' = [thread EXCEPT ![t] = c]
        BY <3>1, <3>17, <4>1, <4>2 DEF BeginFill, Types
      <4> QED BY <3>5, <3>17, <4>3, <4>4 DEF BeginFill, attr, Types
    <3>18. CASE Fill(t)
      <4>1. [old EXCEPT !.at = "size"] \in Calls
        BY <3>2 DEF Calls
      <4>2. thread' = [thread EXCEPT ![t] = [old EXCEPT !.at = "size"]]
        BY <3>1, <3>18 DEF Fill, Types
      <4>3. heap' \in [Addr -> {Free} \cup Seq(Byte)]
        <5>1. Zero \in Byte
          BY DEF Byte
        <5> QED BY <3>1, <3>2, <3>18, <5>1, StoredInTypes DEF Fill
      <4> QED BY <3>5, <3>18, <4>1, <4>2, <4>3 DEF Fill, attr, Types
    <3>19. CASE SetSize(t)
      <4>1. PICK c \in Calls \cup {Idle} :
               c = IF old.request.op = "write" THEN AtStore(old) ELSE Idle
        BY <3>4
      <4>2. thread' = [thread EXCEPT ![t] = c]
        BY <3>1, <3>19, <4>1 DEF SetSize, Types
      <4> QED BY <3>3, <3>5, <3>19, <4>2 DEF SetSize, Types
    <3> QED BY <2>1, <2>3, <3>6, <3>7, <3>8, <3>9, <3>10, <3>11, <3>12, <3>13, <3>14,
               <3>15, <3>16, <3>17, <3>18, <3>19
  <2>5. CASE thread[t] = Idle
    BY <2>1, <2>3, <2>5 DEF ClipPos, ClipLength, Load, TestSize, Store, Return,
       NewBuffer, EnoughRoom, NoMemory, Carry, Swap, BeginFill, Fill, SetSize, At
  <2> QED BY <2>4, <2>5
<1> QED BY <1>1, <1>2

\* The start of a call, if it is the one that t makes in this step.
Starts(t) == \/ \E r \in Reads : Read(t, r)
             \/ \E r \in Writes : Write(t, r)
             \/ \E r \in Resizes : WriteStat(t, r)

\* Only the start of a call changes what is said of the history.
LEMMA OnlyStarts ==
  ASSUME [Next]_vars
  PROVE  kept' = kept \/ \E t \in Thread : Starts(t)
<1>1. CASE UNCHANGED vars
  BY <1>1 DEF vars
<1>2. ASSUME NEW t \in Thread, ClipPos(t) \/ ClipLength(t) \/ Load(t)
      PROVE  kept' = kept
  BY <1>2 DEF ClipPos, ClipLength, Load
<1>3. ASSUME NEW t \in Thread, TestSize(t) \/ Store(t) \/ Return(t)
      PROVE  kept' = kept
  BY <1>3 DEF TestSize, Store, Return
<1>4. ASSUME NEW t \in Thread, NEW a \in Addr, NewBuffer(t, a)
      PROVE  kept' = kept
  BY <1>4 DEF NewBuffer
<1>5. ASSUME NEW t \in Thread, EnoughRoom(t) \/ NoMemory(t) \/ Carry(t) \/ Swap(t)
      PROVE  kept' = kept
  BY <1>5 DEF EnoughRoom, NoMemory, Carry, Swap
<1>6. ASSUME NEW t \in Thread, BeginFill(t) \/ Fill(t) \/ SetSize(t)
      PROVE  kept' = kept
  BY <1>6 DEF BeginFill, Fill, SetSize
<1> QED BY <1>1, <1>2, <1>3, <1>4, <1>5, <1>6 DEF Next, Starts

\* What is not kept stays so.
LEMMA NeverKeptAgain ==
  ASSUME [Next]_vars, kept'
  PROVE  kept
<1>1. ASSUME NEW t \in Thread, Starts(t)
      PROVE  kept
  BY <1>1 DEF Starts, Read, Write, WriteStat, Start
<1> QED BY <1>1, OnlyStarts

\* A call that meets another one, or a size that does not fit, ends what is
\* promised; until then the invariant says at each stage what a call of
\* WriteStat, Write or Read holds, and that nobody else changes it.
THEOREM DataInvariance == Spec => []LostOrSound
<1>1. Premises
  BY DataAssumption, MarksAssumption DEF Premises
<1>2. Init => LostOrSound
  <2>1. Init => DataInv
    BY <1>1, InitInv
  <2> QED BY <2>1 DEF LostOrSound, Types, DataInv, TypeOK, Idles
<1>3. LostOrSound /\ [Next]_vars => LostOrSound'
  <2> SUFFICES ASSUME LostOrSound, [Next]_vars
               PROVE  LostOrSound'
    OBVIOUS
  <2>1. Types'
    BY <1>1, TypesNext DEF LostOrSound
  <2>2. kept' => kept
    BY NeverKeptAgain
  <2>3. kept' => DataInv'
    BY <1>1, <2>2, NextInv DEF LostOrSound
  <2> QED BY <2>1, <2>3 DEF LostOrSound
<1> QED BY <1>2, <1>3, PTL DEF Spec

\* However calls interleave and whatever sizes they ask for, sizes are words
\* and a buffer holds bytes; while the data is kept, its size never exceeds
\* what is allocated, and there is a buffer when there are bytes.
THEOREM DataTypeCorrect == Spec => []TypeOK
<1>1. LostOrSound => TypeOK
  BY DEF LostOrSound, Types, DataInv, TypeOK, Idles
<1> QED BY <1>1, DataInvariance, PTL

\* EnsureSize frees the buffer it replaces and loses none, whether memory is
\* found or not.
THEOREM NoBufferLost == Spec => []BuffersOwned
<1>1. LostOrSound => BuffersOwned
  BY DEF LostOrSound, DataInv, BuffersOwned
<1> QED BY <1>1, DataInvariance, PTL

-----------------------------------------------------------------------------
(* The refinement of ByteArray.                                            *)

\* What ByteArray sees of the data and of the calls.
Content == [i \in 1..fDataSize |-> ByteAt(fData, i)]

Requested(c) == IF c = Idle THEN Idle ELSE c.request
Requests == [t \in Thread |-> Requested(thread[t])]

CopiedBy(c) == IF c = Idle THEN {} ELSE c.copied
Copies == [t \in Thread |-> CopiedBy(thread[t])]

ContentFacts ==
  /\ fDataSize \in Nat
  /\ Content = [i \in 1..fDataSize |-> heap[fData][i]]
  /\ Content \in Seq(Byte) /\ Len(Content) = fDataSize
  /\ \A i \in 1..fDataSize :
       fData \in Addr /\ heap[fData] # Free /\ i \in 1..Len(heap[fData])

LEMMA ContentIs == Premises /\ DataInv => ContentFacts
<1> SUFFICES ASSUME Premises, DataInv
             PROVE  ContentFacts
  OBVIOUS
<1>1. /\ fDataSize \in Nat /\ fDataAllocSize \in Nat /\ fDataSize <= fDataAllocSize
      /\ (fDataAllocSize > 0 => fData # Null) /\ fData \in Addr \cup {Null}
  BY DEF DataInv, TypeOK, Premises, DataAssumption, Word
<1>2. ASSUME NEW i \in 1..fDataSize
      PROVE  /\ fData \in Addr /\ heap[fData] # Free /\ i \in 1..Len(heap[fData])
             /\ ByteAt(fData, i) = heap[fData][i]
             /\ heap[fData][i] \in Byte
  <2>1. fData \in Addr /\ fData # Null
    BY <1>1
  <2>2. /\ heap[fData] \in Seq(Byte) /\ Len(heap[fData]) = fDataAllocSize
        /\ heap[fData] # Free
    BY <2>1 DEF DataInv, BufferExact, Premises, MarksAssumption
  <2>3. i \in 1..Len(heap[fData])
    BY <1>1, <2>2
  <2>4. i \in DOMAIN heap[fData] /\ heap[fData][i] \in Byte
    BY <2>2, <2>3, SeqIsFcn
  <2> QED BY <2>1, <2>2, <2>3, <2>4 DEF ByteAt
<1>3. Content = [i \in 1..fDataSize |-> heap[fData][i]]
  BY <1>2 DEF Content
<1>4. Content \in [1..fDataSize -> Byte]
  BY <1>2, <1>3
<1>5. Content \in Seq(Byte) /\ Len(Content) = fDataSize
  BY <1>1, <1>4, FcnIsSeq
<1> QED BY <1>1, <1>2, <1>3, <1>5 DEF ContentFacts

\* The array afterwards, too.
LEMMA ContentLater ==
  ASSUME Premises, DataInv'
  PROVE  /\ ContentFacts' /\ fDataSize' \in Nat
         /\ Content' = [i \in 1..fDataSize' |-> heap'[fData'][i]]
<1>1. (Premises /\ DataInv => ContentFacts)'
  BY ContentIs, PTL
<1>2. Premises'
  BY DEF Premises, DataAssumption, MarksAssumption
<1>3. ContentFacts'
  BY <1>1, <1>2
<1> QED BY <1>3 DEF ContentFacts

LEMMA RequestsTurn ==
  ASSUME NEW t \in Thread, NEW c, thread \in [Thread -> Idles],
         thread' = [thread EXCEPT ![t] = c]
  PROVE  /\ Requests' = [Requests EXCEPT ![t] = Requested(c)]
         /\ Requests[t] = Requested(thread[t])
         /\ Copies' = [Copies EXCEPT ![t] = CopiedBy(c)]
         /\ Copies[t] = CopiedBy(thread[t])
<1>1. \A u \in Thread : thread'[u] = IF u = t THEN c ELSE thread[u]
  OBVIOUS
<1>2. \A u \in Thread : Requested(thread'[u]) =
                          IF u = t THEN Requested(c) ELSE Requested(thread[u])
  BY <1>1
<1>3. \A u \in Thread : CopiedBy(thread'[u]) =
                          IF u = t THEN CopiedBy(c) ELSE CopiedBy(thread[u])
  BY <1>1
<1> QED BY <1>2, <1>3 DEF Requests, Copies

\* ByteArray sees neither the steps within EnsureSize nor those that only
\* evaluate arguments.
LEMMA QuietStep ==
  ASSUME Premises, DataInv, DataInv', NEW t \in Thread, NEW c,
         thread[t] # Idle, c # Idle, c.request = thread[t].request,
         c.copied = thread[t].copied,
         thread' = [thread EXCEPT ![t] = c],
         fDataSize' = fDataSize,
         \A i \in 1..fDataSize : heap'[fData'][i] = heap[fData][i]
  PROVE  Content' = Content /\ Requests' = Requests /\ Copies' = Copies
<1>1. Content' = Content
  BY ContentIs, ContentLater DEF ContentFacts
<1>2. /\ Requests' = [Requests EXCEPT ![t] = Requested(c)]
      /\ Requests[t] = Requested(thread[t])
      /\ Copies' = [Copies EXCEPT ![t] = CopiedBy(c)]
      /\ Copies[t] = CopiedBy(thread[t])
  BY RequestsTurn DEF DataInv, TypeOK, Idles
<1>3. Requested(c) = Requested(thread[t]) /\ CopiedBy(c) = CopiedBy(thread[t])
  BY DEF Requested, CopiedBy
<1>4. Requests' = Requests /\ Copies' = Copies
  BY <1>2, <1>3 DEF Requests, Copies
<1> QED BY <1>1, <1>4

Quiet(t) == \/ ClipPos(t) \/ ClipLength(t) \/ TestSize(t)
            \/ EnoughRoom(t) \/ (\E a \in Addr : NewBuffer(t, a))
            \/ Carry(t) \/ Swap(t) \/ BeginFill(t) \/ Fill(t)

LEMMA QuietSteps ==
  ASSUME Premises, DataInv, DataInv', NEW t \in Thread, Quiet(t)
  PROVE  /\ Content' = Content /\ Requests' = Requests /\ Copies' = Copies
         /\ answer' = answer /\ kept' = kept
<1>1. PICK old : old = thread[t]
  OBVIOUS
<1>2. old \in Calls /\ old # Idle
  BY <1>1 DEF Quiet, ClipPos, ClipLength, TestSize, EnoughRoom, NewBuffer, Carry,
              Swap, BeginFill, Fill, At, DataInv, TypeOK
<1>3. fDataSize' = fDataSize /\ answer' = answer /\ kept' = kept
  BY DEF Quiet, ClipPos, ClipLength, TestSize, EnoughRoom, NewBuffer, Carry,
         Swap, BeginFill, Fill, attr
<1>4. \E c : /\ thread' = [thread EXCEPT ![t] = c]
             /\ c.request = old.request /\ c.copied = old.copied /\ c # Idle
  <2>1. PICK c : c = thread'[t]
    OBVIOUS
  <2>2. thread' = [thread EXCEPT ![t] = c]
    BY <2>1 DEF Quiet, ClipPos, ClipLength, TestSize, EnoughRoom, NewBuffer, Carry,
                Swap, BeginFill, Fill, DataInv, TypeOK
  <2>3. c \in Calls /\ c.request = old.request /\ c.copied = old.copied
    <3>1. /\ old.from \in Nat /\ old.count \in Nat /\ fDataSize \in Nat
          /\ fData \in Addr \cup {Null} /\ old.base \in Addr \cup {Null}
          /\ old.copied \in SUBSET Nat
      BY <1>2, ContentIs DEF ContentFacts, Calls, DataInv, TypeOK
    <3>2. CASE ClipPos(t)
      <4>1. c = [old EXCEPT !.from = Least(old.from, fDataSize), !.at = "length"]
        BY <1>1, <1>2, <2>1, <3>2 DEF ClipPos, DataInv, TypeOK
      <4>2. Least(old.from, fDataSize) \in Nat
        BY <3>1 DEF Least
      <4> QED BY <1>2, <3>1, <4>1, <4>2 DEF Calls
    <3>3. CASE ClipLength(t)
      <4>1. PICK n : n = IF fDataSize >= old.from
                         THEN Least(old.count, fDataSize - old.from) ELSE old.count
        OBVIOUS
      <4>2. n \in Nat
        BY <3>1, <4>1 DEF Least
      <4>3. c = [old EXCEPT !.count = n, !.base = fData, !.at = "load"]
        BY <1>1, <1>2, <2>1, <3>3, <4>1 DEF ClipLength, DataInv, TypeOK
      <4> QED BY <1>2, <3>1, <4>2, <4>3 DEF Calls
    <3>4. CASE TestSize(t)
      <4>1. At(t, "test")
        BY <3>4 DEF TestSize
      <4>2. old.request \in Writes
        BY <1>1, <4>1, Acting DEF Premises, CallOK, WriteOK
      <4>3. c = [old EXCEPT !.at = "ensure"] \/ c = AtStore(old)
        BY <1>1, <1>2, <2>1, <3>4 DEF TestSize, DataInv, TypeOK
      <4>4. CASE c = [old EXCEPT !.at = "ensure"]
        BY <1>2, <4>4 DEF Calls
      <4>5. CASE c = AtStore(old)
        BY <1>2, <4>2, <4>5, AtStoreCall DEF Premises, DataInv
      <4> QED BY <4>3, <4>4, <4>5
    <3>5. CASE EnoughRoom(t)
      <4>1. c = [old EXCEPT !.at = "extend"]
        BY <1>1, <1>2, <2>1, <3>5 DEF EnoughRoom, DataInv, TypeOK
      <4> QED BY <1>2, <4>1 DEF Calls
    <3>6. CASE \E a \in Addr : NewBuffer(t, a)
      <4>1. PICK a \in Addr : c = [old EXCEPT !.new = a, !.base = fData, !.from = 0,
                                              !.count = fDataSize, !.at = "carry"]
        BY <1>1, <1>2, <2>1, <3>6 DEF NewBuffer, DataInv, TypeOK
      <4> QED BY <1>2, <3>1, <4>1 DEF Calls
    <3>7. CASE Carry(t)
      <4>1. c = [old EXCEPT !.at = "swap"]
        BY <1>1, <1>2, <2>1, <3>7 DEF Carry, DataInv, TypeOK
      <4> QED BY <1>2, <4>1 DEF Calls
    <3>8. CASE Swap(t)
      <4>1. c = [old EXCEPT !.new = Null, !.at = "extend"]
        BY <1>1, <1>2, <2>1, <3>8 DEF Swap, DataInv, TypeOK
      <4> QED BY <1>2, <4>1 DEF Calls
    <3>9. CASE BeginFill(t)
      <4>1. PICK growth : growth = Target(old.request) - fDataSize
        OBVIOUS
      <4>2. At(t, "extend") /\ "extend" \in Growing
        BY <3>9 DEF BeginFill, Growing
      <4>3. Target(old.request) \in Nat
        BY <1>1, <4>2, GrowingCall DEF Premises, DataAssumption, Word
      <4>4. growth > 0 => growth \in Nat
        BY <3>1, <4>1, <4>3
      <4>5. \/ growth > 0 /\ c = [old EXCEPT !.base = fData, !.from = fDataSize,
                                            !.count = growth, !.at = "fill"]
            \/ c = [old EXCEPT !.at = "size"]
        BY <1>1, <1>2, <2>1, <3>9, <4>1 DEF BeginFill, DataInv, TypeOK
      <4> QED BY <1>2, <3>1, <4>4, <4>5 DEF Calls
    <3>10. CASE Fill(t)
      <4>1. c = [old EXCEPT !.at = "size"]
        BY <1>1, <1>2, <2>1, <3>10 DEF Fill, DataInv, TypeOK
      <4> QED BY <1>2, <4>1 DEF Calls
    <3> QED BY <3>2, <3>3, <3>4, <3>5, <3>6, <3>7, <3>8, <3>9, <3>10 DEF Quiet
  <2>4. c # Idle
    BY <2>3 DEF Premises, MarksAssumption
  <2> QED BY <2>2, <2>3, <2>4
<1>5. \A i \in 1..fDataSize : heap'[fData'][i] = heap[fData][i]
  <2>1. CASE heap' = heap /\ fData' = fData
    BY <2>1
  <2>2. CASE \E a \in Addr : NewBuffer(t, a)
    <3>1. PICK a \in Addr : NewBuffer(t, a)
      BY <2>2
    <3>2. /\ heap[a] = Free /\ fData' = fData
          /\ \A x \in Addr \ {a} : heap'[x] = heap[x]
      BY <3>1 DEF NewBuffer, attr, DataInv, TypeOK
    <3> QED BY <3>2, ContentIs DEF ContentFacts
  <2>3. CASE Carry(t)
    <3>1. At(t, "carry") /\ "carry" \in Growing
      BY <2>3 DEF Carry, Growing
    <3>2. old.new # fData
      BY <1>1, <3>1, GrowingCall DEF CallOK, GrowOK
    <3>3. fData' = fData /\ (fData \in Addr => heap'[fData] = heap[fData])
      BY <1>1, <2>3, <3>2 DEF Carry, attr, DataInv, TypeOK
    <3> QED BY <3>3, ContentIs DEF ContentFacts
  <2>4. CASE Swap(t)
    <3>1. At(t, "swap") /\ "swap" \in Growing
      BY <2>4 DEF Swap, Growing
    <3>2. /\ old.new \in Addr /\ old.new # fData
          /\ \A i \in 1..fDataSize : heap[old.new][i] = heap[fData][i]
      BY <1>1, <3>1, GrowingCall DEF CallOK, GrowOK
    <3>3. fData' = old.new /\ heap'[old.new] = heap[old.new]
      BY <1>1, <2>4, <3>2 DEF Swap, SetTo
    <3> QED BY <3>2, <3>3
  <2>5. CASE Fill(t)
    <3>1. At(t, "fill") /\ "fill" \in Growing
      BY <2>5 DEF Fill, Growing
    <3>2. old.base = fData /\ old.from = fDataSize
      BY <1>1, <3>1, GrowingCall DEF CallOK, GrowOK
    <3>3. heap' = Stored(fData, fDataSize, old.count, Zero) /\ fData' = fData
      BY <1>1, <2>5, <3>2 DEF Fill, attr
    <3>4. fDataSize \in Nat /\ Zero \in Byte /\ MarksAssumption /\ TypeOK
      BY ContentIs DEF ContentFacts, Byte, Premises, DataInv
    <3>5. Overwritten(heap', fData, fDataSize, old.count, Zero)
      BY <3>3, <3>4, StoredShape
    <3>6. \A i \in 1..fDataSize : ~(i \in (fDataSize + 1)..(fDataSize + old.count))
      BY <3>4
    <3> QED BY <3>3, <3>5, <3>6, ContentIs DEF ContentFacts, Overwritten
  <2> QED BY <2>1, <2>2, <2>3, <2>4, <2>5
         DEF Quiet, ClipPos, ClipLength, TestSize, EnoughRoom, BeginFill, attr
<1> QED BY <1>1, <1>2, <1>3, <1>4, <1>5, QuietStep

\* What is there of the range of a call.
Span(t) ==
  (Requests[t].pos + 1)
    ..(IF Requests[t].pos + Requests[t].len < Len(Content)
       THEN Requests[t].pos + Requests[t].len ELSE Len(Content))

\* The actions of ByteArray in these words.
LEMMA AskHere ==
  ASSUME NEW t \in Thread, NEW r, Requests[t] = Idle,
         Requests' = [Requests EXCEPT ![t] = r], Content' = Content,
         Copies' = Copies, answer' = [answer EXCEPT ![t] = {}],
         kept' = /\ kept
                 /\ r.op = "read" \/ Array!End(r) \in
                      {n \in Nat : n < OffMod \div 2 /\ n + n \div 2 < WordMod}
                 /\ \A u \in Thread : Requests[u] # Idle =>
                      ~Array!Resizing(r) /\ ~Array!Resizing(Requests[u])
  PROVE  Array!Ask(t, r)
BY DEF Array!Ask, Content, Requests, Requested, Copies, CopiedBy

LEMMA ReadByteHere ==
  ASSUME NEW t \in Thread, Requests[t] # Idle, Requests[t].op = "read",
         NEW i, i \in Span(t) \ Copies[t],
         answer' = [answer EXCEPT ![t] = @ \cup {<<i, Content[i]>>}],
         Copies' = [Copies EXCEPT ![t] = @ \cup {i}],
         Content' = Content, Requests' = Requests, kept' = kept
  PROVE  Array!ReadByte(t)
BY DEF Array!ReadByte, Array!Asked, Array!Present, Array!End, Span,
       Content, Requests, Requested, Copies, CopiedBy

LEMMA ExtendHere ==
  ASSUME NEW t \in Thread, Requests[t] # Idle, Requests[t].op = "write",
         Requests[t].pos + Requests[t].len > Len(Content),
         Content' = [i \in 1..(Requests[t].pos + Requests[t].len) |->
                       IF i <= Len(Content) THEN Content[i] ELSE Zero],
         Requests' = Requests, Copies' = Copies, answer' = answer, kept' = kept
  PROVE  Array!Extend(t)
BY DEF Array!Extend, Array!Asked, Array!End, Array!Resized, Content, Requests,
       Requested, Copies, CopiedBy

LEMMA WriteByteHere ==
  ASSUME NEW t \in Thread, Requests[t] # Idle, Requests[t].op = "write",
         Requests[t].pos + Requests[t].len <= Len(Content),
         NEW i, i \in Span(t) \ Copies[t],
         Content' = [Content EXCEPT ![i] = Requests[t].datum],
         Copies' = [Copies EXCEPT ![t] = @ \cup {i}],
         Requests' = Requests, answer' = answer, kept' = kept
  PROVE  Array!WriteByte(t)
BY DEF Array!WriteByte, Array!Asked, Array!Present, Array!End, Span,
       Content, Requests, Requested, Copies, CopiedBy

LEMMA ReturnHere ==
  ASSUME NEW t \in Thread, Requests[t] # Idle,
         \/ Requests[t].op = "read"
         \/ /\ Requests[t].op = "write"
            /\ Requests[t].pos + Requests[t].len <= Len(Content),
         Copies[t] = Span(t),
         Requests' = [Requests EXCEPT ![t] = Idle], Copies' = [Copies EXCEPT ![t] = {}],
         Content' = Content, answer' = answer, kept' = kept
  PROVE  Array!Return(t)
BY DEF Array!Return, Array!Asked, Array!Done, Array!Present, Array!End, Span,
       Content, Requests, Requested, Copies, CopiedBy

LEMMA ResizeHere ==
  ASSUME NEW t \in Thread, Requests[t] # Idle, Requests[t].op = "resize",
         Content' = [i \in 1..Requests[t].len |->
                       IF i <= Len(Content) THEN Content[i] ELSE Zero],
         Requests' = [Requests EXCEPT ![t] = Idle], Copies' = [Copies EXCEPT ![t] = {}],
         answer' = answer, kept' = kept
  PROVE  Array!Resize(t)
BY DEF Array!Resize, Array!Asked, Array!Done, Array!Resized, Content, Requests,
       Requested, Copies, CopiedBy

LEMMA RefuseHere ==
  ASSUME NEW t \in Thread, Requests[t] # Idle, Requests[t].op \in {"write", "resize"},
         Requests[t].pos + Requests[t].len > Len(Content),
         Requests' = [Requests EXCEPT ![t] = Idle], Copies' = [Copies EXCEPT ![t] = {}],
         Content' = Content, answer' = answer, kept' = kept
  PROVE  Array!Refuse(t)
BY DEF Array!Refuse, Array!Asked, Array!Done, Array!End, Content, Requests,
       Requested, Copies, CopiedBy

\* A call is made, or is over; the array is what it was unless that says more.
LEMMA SameContent ==
  ASSUME heap' = heap, UNCHANGED attr
  PROVE  Content' = Content
BY DEF attr, Content, ByteAt

LEMMA CallEnds ==
  ASSUME DataInv, NEW t \in Thread, thread' = [thread EXCEPT ![t] = Idle]
  PROVE  /\ Requests' = [Requests EXCEPT ![t] = Idle]
         /\ Copies' = [Copies EXCEPT ![t] = {}]
<1>1. /\ Requests' = [Requests EXCEPT ![t] = Requested(Idle)]
      /\ Copies' = [Copies EXCEPT ![t] = CopiedBy(Idle)]
  BY RequestsTurn DEF DataInv, TypeOK, Idles
<1> QED BY <1>1 DEF Requested, CopiedBy

LEMMA RequestOf ==
  ASSUME Premises, NEW t \in Thread, thread[t] # Idle, thread[t] \in Calls
  PROVE  /\ Requests[t] = thread[t].request /\ Requests[t] # Idle
         /\ Copies[t] = thread[t].copied
<1>1. Requests[t] = thread[t].request /\ Copies[t] = thread[t].copied
  BY DEF Requests, Requested, Copies, CopiedBy
<1> QED BY <1>1 DEF Calls, Premises, MarksAssumption

\* ByteArray and the code agree on the size behind a call that fits, and so on
\* whether it changes the size.
LEMMA SameResizing ==
  ASSUME Premises, DataInv, NEW r \in Reads \cup Writes \cup Resizes, Fits(r)
  PROVE  Resizing(r) <=> Array!Resizing(r)
<1>1. Len(Content) = fDataSize
  BY ContentIs DEF ContentFacts
<1>2. CASE r \in Reads
  BY <1>2 DEF Reads, Resizing, Array!Resizing
<1>3. CASE r \in Writes \cup Resizes
  <2>1. Target(r) = r.pos + r.len
    BY <1>3, TargetExact DEF Premises
  <2> QED BY <1>1, <2>1 DEF Resizing, Array!Resizing, Array!End, Content
<1> QED BY <1>2, <1>3

LEMMA SameFits ==
  ASSUME Premises, NEW r \in Reads \cup Writes \cup Resizes
  PROVE  Fits(r) <=> \/ r.op = "read"
                     \/ Array!End(r) \in
                          {n \in Nat : n < OffMod \div 2 /\ n + n \div 2 < WordMod}
<1>1. r.pos + r.len \in Nat
  <2>1. r.pos \in Nat /\ r.len \in Nat
    BY DEF Premises, Reads, Writes, Resizes, DataAssumption
  <2> QED BY <2>1
<1> QED BY <1>1 DEF Fits, Array!End

LEMMA StartRefines ==
  ASSUME Premises, DataInv, NEW t \in Thread,
         NEW r \in Reads \cup Writes \cup Resizes,
         NEW at \in {"clip", "test", "ensure"}, Start(t, r, at)
  PROVE  Array!Ask(t, r)
<1>1. /\ thread[t] = Idle /\ thread' = [thread EXCEPT ![t] = Call(r, at)]
      /\ heap' = heap /\ UNCHANGED attr /\ answer' = [answer EXCEPT ![t] = {}]
      /\ kept' = (kept /\ Fits(r) /\ ~Races(r))
  BY DEF Start
<1>2. /\ Requests' = [Requests EXCEPT ![t] = Requested(Call(r, at))]
      /\ Requests[t] = Requested(thread[t])
      /\ Copies' = [Copies EXCEPT ![t] = CopiedBy(Call(r, at))]
      /\ Copies[t] = CopiedBy(thread[t])
  BY <1>1, RequestsTurn DEF DataInv, TypeOK, Idles
<1>3. /\ Requested(Call(r, at)) = r \/ Call(r, at) = Idle
      /\ CopiedBy(Call(r, at)) = {}
      /\ Requested(thread[t]) = Idle /\ CopiedBy(thread[t]) = {}
  BY <1>1 DEF Requested, CopiedBy, Call
<1>4. Content' = Content
  BY <1>1, SameContent
<1>5. Copies' = Copies
  BY <1>2, <1>3 DEF Copies
<1>6. \A u \in Thread : /\ u \in Active <=> Requests[u] # Idle
                        /\ u \in Active => /\ Requests[u] = thread[u].request
                                           /\ Requests[u] \in Reads \cup Writes \cup Resizes
                                           /\ Fits(Requests[u])
  <2> SUFFICES ASSUME NEW u \in Thread
               PROVE  /\ u \in Active <=> Requests[u] # Idle
                      /\ u \in Active => /\ Requests[u] = thread[u].request
                                         /\ Requests[u] \in Reads \cup Writes \cup Resizes
                                         /\ Fits(Requests[u])
    OBVIOUS
  <2>1. CASE u \in Active
    <3>1. /\ thread[u] # Idle /\ thread[u] \in Calls
          /\ CallOK(thread[u], heap, fData, fDataSize, fDataAllocSize)
      BY <2>1 DEF Active, DataInv, TypeOK, CallsOK
    <3>2. Requests[u] = thread[u].request /\ Requests[u] # Idle
      BY <3>1, RequestOf
    <3> QED BY <2>1, <3>1, <3>2 DEF Calls, CallOK
  <2>2. CASE u \notin Active
    BY <2>2 DEF Active, Requests, Requested
  <2> QED BY <2>1, <2>2
<1>7. Call(r, at) # Idle
  <2>1. r.pos \in Nat /\ r.len \in Nat
    BY DEF Premises, Reads, Writes, Resizes, DataAssumption
  <2>2. Call(r, at) \in Calls
    BY <2>1 DEF Call, Calls
  <2> QED BY <2>2 DEF Premises, MarksAssumption
<1>9. Fits(r) => (~Races(r) <=> \A u \in Thread : Requests[u] # Idle =>
                    ~Array!Resizing(r) /\ ~Array!Resizing(Requests[u]))
  <2> SUFFICES ASSUME Fits(r)
               PROVE  ~Races(r) <=> \A u \in Thread : Requests[u] # Idle =>
                        ~Array!Resizing(r) /\ ~Array!Resizing(Requests[u])
    OBVIOUS
  <2>1. Resizing(r) <=> Array!Resizing(r)
    BY SameResizing
  <2>2. \A u \in Active : Resizing(thread[u].request) <=> Array!Resizing(Requests[u])
    <3> SUFFICES ASSUME NEW u \in Active
                 PROVE  Resizing(thread[u].request) <=> Array!Resizing(Requests[u])
      OBVIOUS
    <3>1. /\ u \in Thread /\ Requests[u] = thread[u].request
          /\ Requests[u] \in Reads \cup Writes \cup Resizes /\ Fits(Requests[u])
      BY <1>6 DEF Active
    <3> QED BY <3>1, SameResizing
  <2>3. \A u \in Active : u \in Thread
    BY DEF Active
  <2> QED BY <1>6, <2>1, <2>2, <2>3 DEF Races
<1>10. (kept /\ Fits(r) /\ ~Races(r)) <=>
         /\ kept
         /\ r.op = "read" \/ Array!End(r) \in
              {n \in Nat : n < OffMod \div 2 /\ n + n \div 2 < WordMod}
         /\ \A u \in Thread : Requests[u] # Idle =>
              ~Array!Resizing(r) /\ ~Array!Resizing(Requests[u])
  BY <1>9, SameFits
<1>11. kept' = /\ kept
               /\ r.op = "read" \/ Array!End(r) \in
                    {n \in Nat : n < OffMod \div 2 /\ n + n \div 2 < WordMod}
               /\ \A u \in Thread : Requests[u] # Idle =>
                    ~Array!Resizing(r) /\ ~Array!Resizing(Requests[u])
  BY <1>1, <1>10
<1> QED BY <1>1, <1>2, <1>3, <1>4, <1>5, <1>7, <1>11, AskHere

LEMMA NoMemoryRefines ==
  ASSUME Premises, DataInv, NEW t \in Thread, NoMemory(t)
  PROVE  Array!Refuse(t)
<1>1. At(t, "ensure") /\ "ensure" \in Growing
  BY DEF NoMemory, Growing
<1>2. PICK r : r = thread[t].request
  OBVIOUS
<1>3. /\ r \in Writes \cup Resizes /\ Wanted(t) = Target(r)
      /\ thread[t] \in Calls /\ thread[t] # Idle
  BY <1>1, <1>2, GrowingCall
<1>4. Requests[t] = r /\ r # Idle /\ r.op \in {"write", "resize"}
  BY <1>2, <1>3, RequestOf DEF Writes, Resizes
<1>5. r.pos + r.len = Target(r) /\ Target(r) \in Nat
  <2>1. CallOK(thread[t], heap, fData, fDataSize, fDataAllocSize)
    BY <1>1, GrowingCall
  <2>2. Fits(r)
    BY <1>2, <2>1 DEF CallOK
  <2>3. Target(r) \in Nat
    BY <1>3, <2>2, TargetExact DEF Premises, Word, DataAssumption
  <2> QED BY <1>3, <2>2, <2>3, TargetExact DEF Premises
<1>6. Target(r) > fDataAllocSize /\ fDataSize <= fDataAllocSize /\ fDataAllocSize \in Nat
  BY <1>3 DEF NoMemory, DataInv, TypeOK, Word, Premises, DataAssumption
<1>7. Len(Content) = fDataSize /\ fDataSize \in Nat
  BY ContentIs DEF ContentFacts
<1>8. /\ Requests' = [Requests EXCEPT ![t] = Idle]
      /\ Copies' = [Copies EXCEPT ![t] = {}]
  BY CallEnds DEF NoMemory
<1>9. Content' = Content /\ answer' = answer /\ kept' = kept
  BY SameContent DEF NoMemory
<1>10. Requests[t].pos + Requests[t].len > Len(Content)
  BY <1>4, <1>5, <1>6, <1>7
<1>11. Requests[t] # Idle /\ Requests[t].op \in {"write", "resize"}
  BY <1>4
<1> QED BY <1>8, <1>9, <1>10, <1>11, RefuseHere

\* A thread that copies: what it has asked for, and the range it copies.
LEMMA CopyRange ==
  ASSUME Premises, DataInv, NEW t \in Thread, At(t, "load") \/ At(t, "store")
  PROVE  /\ thread[t] \in Calls /\ Requests[t] = thread[t].request
         /\ Requests[t] # Idle /\ Copies[t] = thread[t].copied
         /\ thread[t].base = fData
         /\ Bytes(t) = Span(t) /\ Span(t) \subseteq 1..fDataSize
         /\ thread[t].at = "load" => Requests[t].op = "read"
         /\ thread[t].at = "store" =>
              /\ Requests[t].op = "write" /\ Requests[t].datum \in Byte
              /\ Requests[t].pos + Requests[t].len <= Len(Content)
<1>1. PICK old : old = thread[t]
  OBVIOUS
<1>2. /\ old \in Calls /\ old # Idle /\ old.at \in {"load", "store"}
      /\ CallOK(old, heap, fData, fDataSize, fDataAllocSize)
  BY <1>1, Copying DEF Premises, At
<1>3. PICK r : r = old.request
  OBVIOUS
<1>4. Requests[t] = r /\ Requests[t] # Idle /\ Copies[t] = old.copied
  BY <1>1, <1>2, <1>3, RequestOf
<1>5. fDataSize \in Nat /\ Len(Content) = fDataSize
  BY ContentIs DEF ContentFacts
<1>6. CASE old.at = "load"
  <2>1. /\ r \in Reads /\ old.base = fData /\ old.from = Least(r.pos, fDataSize)
        /\ old.count = Least(r.len, fDataSize - old.from)
    BY <1>2, <1>3, <1>6 DEF CallOK, ReadOK
  <2>2. r.op = "read" /\ r.pos \in Nat /\ r.len \in Nat
    BY <2>1 DEF Reads, Premises, DataAssumption
  <2>3. PICK last : last = IF r.pos + r.len < fDataSize THEN r.pos + r.len ELSE fDataSize
    OBVIOUS
  <2>4. last \in Nat /\ last <= fDataSize
    BY <1>5, <2>2, <2>3
  <2>5. (old.from + 1)..(old.from + old.count) = (r.pos + 1)..last
    <3>1. CASE r.pos <= fDataSize
      <4>1. old.from = r.pos /\ old.from + old.count = last
        BY <1>5, <2>1, <2>2, <2>3, <3>1 DEF Least
      <4> QED BY <4>1
    <3>2. CASE r.pos > fDataSize
      <4>1. old.from = fDataSize /\ old.count = 0 /\ last = fDataSize
        BY <1>5, <2>1, <2>2, <2>3, <3>2 DEF Least
      <4> QED BY <1>5, <2>2, <3>2, <4>1
    <3> QED BY <1>5, <2>2, <3>1, <3>2
  <2>6. (r.pos + 1)..last \subseteq 1..fDataSize
    BY <1>5, <2>2, <2>4
  <2>7. Span(t) = (r.pos + 1)..last
    BY <1>4, <1>5, <2>3 DEF Span
  <2> QED BY <1>1, <1>2, <1>3, <1>4, <1>6, <2>1, <2>2, <2>5, <2>6, <2>7 DEF Bytes
<1>7. CASE old.at = "store"
  <2>1. /\ r \in Writes /\ old.base = fData /\ old.from = r.pos /\ old.count = r.len
        /\ Target(r) <= fDataSize /\ Fits(r)
    BY <1>2, <1>3, <1>7 DEF CallOK, WriteOK
  <2>2. r.pos \in Nat /\ r.len \in Nat /\ Target(r) = r.pos + r.len
    BY <2>1, TargetExact DEF Premises
  <2>3. r.op = "write" /\ r.datum \in Byte
    BY <2>1 DEF Writes, Byte
  <2>4. Span(t) = (r.pos + 1)..(r.pos + r.len)
    <3>1. (IF r.pos + r.len < fDataSize THEN r.pos + r.len ELSE fDataSize) = r.pos + r.len
      BY <1>5, <2>1, <2>2
    <3> QED BY <1>4, <1>5, <3>1 DEF Span
  <2>5. (r.pos + 1)..(r.pos + r.len) \subseteq 1..fDataSize
    BY <1>5, <2>1, <2>2
  <2> QED BY <1>1, <1>2, <1>3, <1>4, <1>5, <1>7, <2>1, <2>2, <2>3, <2>4, <2>5 DEF Bytes
<1> QED BY <1>2, <1>6, <1>7

\* One more byte is copied, and the call is what it was.
LEMMA CopyTurns ==
  ASSUME Premises, DataInv, NEW t \in Thread, At(t, "load") \/ At(t, "store"),
         NEW i \in Bytes(t), thread' = [thread EXCEPT ![t].copied = @ \cup {i}]
  PROVE  Requests' = Requests /\ Copies' = [Copies EXCEPT ![t] = @ \cup {i}]
<1>1. thread[t] \in Calls /\ thread[t] # Idle /\ i \in Nat
  BY Copying DEF Premises
<1>2. PICK c : c = OneMore(thread[t], i)
  OBVIOUS
<1>3. c # Idle /\ c.request = thread[t].request /\ c.copied = thread[t].copied \cup {i}
  BY <1>1, <1>2, OneMoreCall DEF Premises
<1>4. thread' = [thread EXCEPT ![t] = c]
  BY <1>1, <1>2 DEF OneMore, DataInv, TypeOK
<1>5. /\ Requests' = [Requests EXCEPT ![t] = Requested(c)]
      /\ Requests[t] = Requested(thread[t])
      /\ Copies' = [Copies EXCEPT ![t] = CopiedBy(c)]
      /\ Copies[t] = CopiedBy(thread[t])
  BY <1>4, RequestsTurn DEF DataInv, TypeOK, Idles
<1>6. Requested(c) = Requests[t] /\ CopiedBy(c) = Copies[t] \cup {i}
  BY <1>1, <1>3, <1>5 DEF Requested, CopiedBy
<1> QED BY <1>5, <1>6 DEF Requests, Copies

LEMMA LoadRefines ==
  ASSUME Premises, DataInv, NEW t \in Thread, Load(t)
  PROVE  Array!ReadByte(t)
<1>1. At(t, "load") /\ thread[t].at = "load" /\ heap' = heap /\ UNCHANGED attr
      /\ kept' = kept
  BY DEF Load, At
<1>2. PICK i \in Bytes(t) \ thread[t].copied :
         /\ answer' = [answer EXCEPT ![t] = @ \cup {<<i, ByteAt(thread[t].base, i)>>}]
         /\ thread' = [thread EXCEPT ![t].copied = @ \cup {i}]
  BY DEF Load
<1>3. /\ Requests[t] # Idle /\ Requests[t].op = "read"
      /\ i \in Span(t) \ Copies[t] /\ i \in 1..fDataSize /\ thread[t].base = fData
  BY <1>1, <1>2, CopyRange
<1>4. Content[i] = ByteAt(thread[t].base, i)
  BY <1>3 DEF Content
<1>5. Requests' = Requests /\ Copies' = [Copies EXCEPT ![t] = @ \cup {i}]
  BY <1>1, <1>2, CopyTurns
<1>6. Content' = Content
  BY <1>1, SameContent
<1> QED BY <1>1, <1>2, <1>3, <1>4, <1>5, <1>6, ReadByteHere

LEMMA StoreRefines ==
  ASSUME Premises, DataInv, DataInv', NEW t \in Thread, Store(t)
  PROVE  Array!WriteByte(t)
<1>1. At(t, "store") /\ thread[t].at = "store" /\ UNCHANGED attr /\ answer' = answer
      /\ kept' = kept
  BY DEF Store, At
<1>2. PICK i \in Bytes(t) \ thread[t].copied :
         /\ heap' = Stored(thread[t].base, i - 1, 1, thread[t].request.datum)
         /\ thread' = [thread EXCEPT ![t].copied = @ \cup {i}]
  BY DEF Store
<1>3. PICK b : b = Requests[t].datum
  OBVIOUS
<1>4. /\ Requests[t] # Idle /\ Requests[t].op = "write" /\ b \in Byte
      /\ Requests[t].pos + Requests[t].len <= Len(Content)
      /\ i \in Span(t) \ Copies[t] /\ i \in 1..fDataSize
      /\ heap' = Stored(fData, i - 1, 1, b)
  BY <1>1, <1>2, <1>3, CopyRange
<1>5. Requests' = Requests /\ Copies' = [Copies EXCEPT ![t] = @ \cup {i}]
  BY <1>1, <1>2, CopyTurns
<1>6. ContentFacts
  BY ContentIs
<1>7. fDataSize \in Nat /\ i - 1 \in Nat /\ fData' = fData /\ fDataSize' = fDataSize
  BY <1>1, <1>4, <1>6 DEF ContentFacts, attr
<1>8. Overwritten(heap', fData, i - 1, 1, b)
  BY <1>4, <1>7, StoredShape DEF Premises, DataInv
<1>9. Content' = [k \in 1..fDataSize |-> heap'[fData][k]]
  BY <1>7, ContentLater
<1>10. ASSUME NEW k \in 1..fDataSize
       PROVE  heap'[fData][k] = IF k = i THEN b ELSE Content[k]
  <2>1. /\ fData \in Addr /\ heap[fData] # Free /\ k \in 1..Len(heap[fData])
        /\ Content[k] = heap[fData][k]
    BY <1>6 DEF ContentFacts
  <2>2. k \in (i - 1 + 1)..(i - 1 + 1) <=> k = i
    BY <1>4, <1>7
  <2> QED BY <1>8, <2>1, <2>2 DEF Overwritten
<1>11. Content = [k \in 1..fDataSize |-> Content[k]]
  BY <1>6 DEF ContentFacts
<1>12. Content' = [Content EXCEPT ![i] = b]
  BY <1>9, <1>10, <1>11
<1> QED BY <1>1, <1>3, <1>4, <1>5, <1>12, WriteByteHere

LEMMA ReturnRefines ==
  ASSUME Premises, DataInv, NEW t \in Thread, Return(t)
  PROVE  Array!Return(t)
<1>1. /\ At(t, "load") \/ At(t, "store")
      /\ Bytes(t) = thread[t].copied /\ thread' = [thread EXCEPT ![t] = Idle]
      /\ heap' = heap /\ UNCHANGED attr /\ answer' = answer /\ kept' = kept
  BY DEF Return
<1>2. /\ Requests[t] # Idle /\ Copies[t] = Span(t)
      /\ thread[t].at = "load" => Requests[t].op = "read"
      /\ thread[t].at = "store" =>
              /\ Requests[t].op = "write"
              /\ Requests[t].pos + Requests[t].len <= Len(Content)
  BY <1>1, CopyRange
<1>3. thread[t].at = "load" \/ thread[t].at = "store"
  BY <1>1 DEF At
<1>4. /\ Requests' = [Requests EXCEPT ![t] = Idle]
      /\ Copies' = [Copies EXCEPT ![t] = {}]
  BY <1>1, CallEnds
<1>5. Content' = Content
  BY <1>1, SameContent
<1> QED BY <1>1, <1>2, <1>3, <1>4, <1>5, ReturnHere

\* WriteStat's last step shows the caller the whole change at once.
LEMMA SetSizeRefines ==
  ASSUME Premises, DataInv, DataInv', NEW t \in Thread, SetSize(t)
  PROVE  Array!Extend(t) \/ Array!Resize(t)
<1>1. At(t, "size") /\ "size" \in Growing
  BY DEF SetSize, Growing
<1>2. PICK old : old = thread[t]
  OBVIOUS
<1>3. PICK r : r = old.request
  OBVIOUS
<1>4. /\ old \in Calls /\ old # Idle /\ old.at = "size"
      /\ CallOK(old, heap, fData, fDataSize, fDataAllocSize)
      /\ Wanted(t) = Target(r) /\ r \in Writes \cup Resizes
      /\ r \in Writes => Target(r) > fDataSize
  BY <1>1, <1>2, <1>3, GrowingCall
<1>5. r.pos \in Nat /\ r.len \in Nat /\ Target(r) = r.pos + r.len
  BY <1>3, <1>4, TargetExact DEF Premises, CallOK
<1>6. \A i \in (fDataSize + 1)..Target(r) : heap[fData][i] = Zero
  BY <1>3, <1>4 DEF CallOK, GrowOK
<1>7. /\ heap' = heap /\ fData' = fData /\ fDataSize' = Target(r)
      /\ answer' = answer /\ kept' = kept
      /\ thread' = [thread EXCEPT ![t] = AfterSize(old)]
  BY <1>2, <1>4 DEF SetSize, AfterSize, DataInv, TypeOK
<1>8. Requests[t] = r /\ Requests[t] # Idle
  BY <1>2, <1>3, <1>4, RequestOf
<1>9. ContentFacts
  BY ContentIs
<1>10. Len(Content) = fDataSize /\ fDataSize \in Nat
  BY <1>9 DEF ContentFacts
<1>11. Content' = [i \in 1..Target(r) |-> heap[fData][i]]
  BY <1>7, ContentLater
<1>12. ASSUME NEW i \in 1..Target(r)
       PROVE  heap[fData][i] = IF i <= Len(Content) THEN Content[i] ELSE Zero
  <2>1. CASE i <= fDataSize
    <3>1. i \in 1..fDataSize
      BY <1>5, <1>10, <2>1
    <3>2. Content[i] = heap[fData][i]
      BY <1>9, <3>1 DEF ContentFacts
    <3> QED BY <1>10, <2>1, <3>2
  <2>2. CASE ~(i <= fDataSize)
    <3>1. i \in (fDataSize + 1)..Target(r)
      BY <1>5, <1>10, <2>2
    <3> QED BY <1>6, <1>10, <2>2, <3>1
  <2> QED BY <2>1, <2>2
<1>13. Content' = [i \in 1..Target(r) |-> IF i <= Len(Content) THEN Content[i] ELSE Zero]
  BY <1>11, <1>12
<1>14. /\ Requests' = [Requests EXCEPT ![t] = Requested(AfterSize(old))]
       /\ Copies' = [Copies EXCEPT ![t] = CopiedBy(AfterSize(old))]
       /\ Copies[t] = CopiedBy(old)
  BY <1>2, <1>7, RequestsTurn DEF DataInv, TypeOK, Idles
<1>15. CASE r \in Writes
  <2>1. r.op = "write" /\ AfterSize(old) = AtStore(old)
    BY <1>3, <1>15 DEF Writes, AfterSize
  <2>2. /\ AtStore(old).request = r /\ AtStore(old) # Idle
        /\ AtStore(old).copied = old.copied
    BY <1>3, <1>4, <1>15, AtStoreCall DEF Premises, DataInv
  <2>3. Requested(AfterSize(old)) = Requests[t] /\ CopiedBy(AfterSize(old)) = Copies[t]
    BY <1>4, <1>8, <1>14, <2>1, <2>2 DEF Requested, CopiedBy
  <2>4. Requests' = Requests /\ Copies' = Copies
    BY <1>14, <2>3 DEF Requests, Copies
  <2>5. Requests[t].pos + Requests[t].len > Len(Content)
    BY <1>4, <1>5, <1>8, <1>10, <1>15
  <2>6. Content' = [i \in 1..(Requests[t].pos + Requests[t].len) |->
                      IF i <= Len(Content) THEN Content[i] ELSE Zero]
    BY <1>5, <1>8, <1>13
  <2>7. Requests[t].op = "write"
    BY <1>8, <2>1
  <2> QED BY <1>7, <1>8, <2>4, <2>5, <2>6, <2>7, ExtendHere
<1>16. CASE r \in Resizes
  <2>1. r.op = "resize" /\ r.pos = 0 /\ AfterSize(old) = Idle
    BY <1>3, <1>16 DEF Resizes, AfterSize
  <2>2. /\ Requests' = [Requests EXCEPT ![t] = Idle]
        /\ Copies' = [Copies EXCEPT ![t] = {}]
    BY <1>14, <2>1 DEF Requested, CopiedBy
  <2>3. Target(r) = Requests[t].len /\ Requests[t].op = "resize"
    BY <1>5, <1>8, <2>1
  <2>4. Content' = [i \in 1..Requests[t].len |->
                      IF i <= Len(Content) THEN Content[i] ELSE Zero]
    BY <1>13, <2>3
  <2> QED BY <1>7, <1>8, <2>2, <2>3, <2>4, ResizeHere
<1> QED BY <1>4, <1>15, <1>16

LEMMA InitRefines ==
  ASSUME Premises, Init
  PROVE  Array!Init
<1>1. [i \in 1..0 |-> ByteAt(Null, i)] = << >>
  OBVIOUS
<1>2. Requests = [t \in Thread |-> Idle] /\ Copies = [t \in Thread |-> {}]
  BY DEF Init, Requests, Requested, Copies, CopiedBy
<1> QED BY <1>1, <1>2 DEF Init, Array!Init, Requests, Requested, Copies, CopiedBy

LEMMA AskRefines ==
  ASSUME Premises, DataInv, NEW t \in Thread,
         \/ \E r \in Reads : Read(t, r)
         \/ \E r \in Writes : Write(t, r)
         \/ \E r \in Resizes : WriteStat(t, r)
  PROVE  Array!Next
<1>1. PICK r \in Reads \cup Writes \cup Resizes, at \in {"clip", "test", "ensure"} :
        Start(t, r, at)
  BY DEF Read, Write, WriteStat
<1>2. Array!Ask(t, r)
  BY <1>1, StartRefines
<1>3. r \in Array!Reads \cup Array!Writes \cup Array!Resizes
  BY <1>1 DEF Array!Reads, Array!Writes, Array!Resizes, Reads, Writes, Resizes
<1> QED BY <1>2, <1>3 DEF Array!Next

\* While the data is kept, before and after the step.
LEMMA KeptRefines ==
  ASSUME Premises, DataInv, DataInv', [Next]_vars
  PROVE  [Array!Next]_(Array!arrayVars)
<1>1. CASE Next
  <2>1. PICK t \in Thread :
          \/ \E r \in Reads : Read(t, r)
          \/ \E r \in Writes : Write(t, r)
          \/ \E r \in Resizes : WriteStat(t, r)
          \/ Load(t) \/ Store(t) \/ Return(t) \/ NoMemory(t) \/ SetSize(t)
          \/ Quiet(t)
    BY <1>1 DEF Next, Quiet
  <2>2. CASE \/ \E r \in Reads : Read(t, r)
             \/ \E r \in Writes : Write(t, r)
             \/ \E r \in Resizes : WriteStat(t, r)
    BY <2>2, AskRefines
  <2>3. CASE Load(t)
    BY <2>3, LoadRefines DEF Array!Next
  <2>4. CASE Store(t)
    BY <2>4, StoreRefines DEF Array!Next
  <2>5. CASE Return(t)
    BY <2>5, ReturnRefines DEF Array!Next
  <2>6. CASE NoMemory(t)
    BY <2>6, NoMemoryRefines DEF Array!Next
  <2>7. CASE SetSize(t)
    BY <2>7, SetSizeRefines DEF Array!Next
  <2>8. CASE Quiet(t)
    <3>1. /\ Content' = Content /\ Requests' = Requests /\ Copies' = Copies
          /\ answer' = answer /\ kept' = kept
      BY <2>8, QuietSteps
    <3> QED BY <3>1 DEF Array!arrayVars, Content, Requests, Requested, Copies, CopiedBy
  <2> QED BY <2>1, <2>2, <2>3, <2>4, <2>5, <2>6, <2>7, <2>8
<1>2. CASE UNCHANGED vars
  <2>1. /\ thread' = thread /\ answer' = answer /\ heap' = heap /\ UNCHANGED attr
        /\ kept' = kept
    BY <1>2 DEF vars
  <2>2. Content' = Content /\ Requests' = Requests /\ Copies' = Copies
    BY <2>1, SameContent DEF Requests, Copies
  <2> QED BY <2>1, <2>2 DEF Array!arrayVars, Content, Requests, Requested, Copies, CopiedBy
<1> QED BY <1>1, <1>2

LEMMA NextRefines ==
  ASSUME Premises, LostOrSound, LostOrSound', [Next]_vars
  PROVE  [Array!Next]_(Array!arrayVars)
<1>1. CASE kept /\ kept'
  BY <1>1, KeptRefines DEF LostOrSound
<1>2. CASE kept /\ ~kept'
  <2>1. PICK t \in Thread : Starts(t)
    BY <1>2, OnlyStarts
  <2> QED BY <1>2, <2>1, AskRefines DEF LostOrSound, Starts
<1>3. CASE ~kept
  <2>1. ~kept'
    BY <1>3, NeverKeptAgain
  <2> QED BY <1>3, <2>1 DEF Array!Next, Array!Lost
<1> QED BY <1>1, <1>2, <1>3

\* Read, Write and WriteStat implement an array of bytes, whatever calls are
\* made and however they interleave, as long as those that change the size
\* have it to themselves and no size wraps: a read finds at each position what
\* is there, growth is zeros, and a call for which there is no memory changes
\* nothing.  What their callers must keep is part of ByteArray.
THEOREM DataImplementsByteArray == Spec => ImplementsByteArray
<1>1. Premises
  BY DataAssumption, MarksAssumption DEF Premises
<1>2. Init => Array!Init
  BY <1>1, InitRefines
<1>3. LostOrSound /\ LostOrSound' /\ [Next]_vars => [Array!Next]_(Array!arrayVars)
  BY <1>1, NextRefines
<1>4. Spec => []LostOrSound
  BY DataInvariance
<1> QED BY <1>2, <1>3, <1>4, PTL DEF Spec, ImplementsByteArray, Array!Spec

=============================================================================
