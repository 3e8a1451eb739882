------------------------- MODULE ShmfsAttributeData -------------------------
(***************************************************************************)
(* The data of one attribute: a buffer that grows, and the calls that read,*)
(* write and resize it.  None of them takes a lock, so the calls of        *)
(* several threads interleave in every way.  The copies of Read and Write  *)
(* evaluate their arguments, and are made later, byte by byte in any order.*)
(* The copies of EnsureSize and WriteStat, and ArrayDeleter::SetTo, are one*)
(* step each: while the data is kept (see below) nobody else is there to   *)
(* see them half made, and nothing is promised afterwards.                 *)
(***************************************************************************)
EXTENDS Integers, Sequences

CONSTANTS
  Thread,
  Addr,        \* addresses of buffers
  Null,
  Free,        \* no buffer
  Idle,        \* no call
  WordMod,     \* uint32 has this many values
  OffMod,      \* off_t and size_t have this many values, a power of two
  Position, Length, Size,
               \* the positions, lengths and sizes that callers ask for
  Datum,       \* the bytes that callers write
  Zero,        \* the byte 0
  Junk         \* whatever memory held before it was allocated

ASSUME DataAssumption ==
  /\ WordMod \in Nat \ {0} /\ OffMod \in Nat /\ OffMod % (2 * WordMod) = 0
  /\ \A n \in Position \cup Length \cup Size : n \in Nat /\ n < OffMod \div 2
  /\ Null \notin Addr /\ Zero # Junk /\ {Zero, Junk} \cap Datum = {}

VARIABLES
  heap,           \* the content of each buffer, or Free
  fData,
  fDataSize,
  fDataAllocSize,
  thread,         \* the call of each thread, or Idle
  answer,         \* what the last call of each thread read: the positions,
                  \* and the byte found at each
  kept            \* history: no call that changes the size was ever in
                  \* progress together with another call, and no size that
                  \* was asked for is too large for the arithmetic

attr == <<fData, fDataSize, fDataAllocSize>>
vars == <<heap, attr, thread, answer, kept>>

Byte == Datum \cup {Zero, Junk}
Word == 0..(WordMod - 1)

Reads == [op : {"read"}, pos : Position, len : Length, datum : {Zero}]
Writes == [op : {"write"}, pos : Position, len : Length, datum : Datum]
Resizes == [op : {"resize"}, pos : {0}, len : Size, datum : {Zero}]

Calls == [request : Reads \cup Writes \cup Resizes,
          at : {"clip", "length", "load", "test", "ensure", "carry", "swap",
                "extend", "fill", "size", "store"},
          base : Addr \cup {Null},  \* the buffer of the next copy,
          from : Nat, count : Nat,  \* and its bytes,
          copied : SUBSET Nat,      \* those that Read or Write has copied
          new : Addr \cup {Null}]   \* newData

\* The marks for no call and no buffer are neither.
ASSUME MarksAssumption ==
  /\ Idle \notin Calls \cup Reads \cup Writes \cup Resizes
  /\ Free \notin Seq(Byte)

TypeOK ==
  /\ heap \in [Addr -> {Free} \cup Seq(Byte)]
  /\ fData \in Addr \cup {Null}
  /\ fDataSize \in Word /\ fDataAllocSize \in Word
  /\ thread \in [Thread -> {Idle} \cup Calls]
  /\ answer \in [Thread -> SUBSET (Nat \X Byte)]
  /\ kept \in BOOLEAN
  /\ kept => fDataSize <= fDataAllocSize /\ (fDataAllocSize > 0 => fData # Null)

-----------------------------------------------------------------------------
(* Arithmetic and memory.                                                  *)

Least(m, n) == IF m < n THEN m ELSE n

\* The sum of an off_t and a size_t, as an off_t.
OffSum(p, n) == LET s == (p + n) % OffMod
                IN  IF s < OffMod \div 2 THEN s ELSE s - OffMod

\* newSize of EnsureSize.
Capacity(size) == (size + size \div 2) % WordMod

\* newSize of Write, st_size of WriteStat.
Target(r) == IF r.op = "resize" THEN r.len ELSE OffSum(r.pos, r.len)

\* Where a copy leaves its buffer it finds anything.
ByteAt(a, i) == IF a # Null /\ heap[a] # Free /\ i \in DOMAIN heap[a]
                THEN heap[a][i] ELSE Junk

\* Memory after b is stored to the count bytes of a behind from.
Stored(a, from, count, b) ==
  [x \in Addr |->
     IF x = a /\ heap[a] # Free
     THEN [i \in DOMAIN heap[a] |->
             IF i \in (from + 1)..(from + count) THEN b ELSE heap[a][i]]
     ELSE heap[x]]

-----------------------------------------------------------------------------
(* The calls.                                                              *)

Resizing(r) == r.op = "resize" \/ (r.op = "write" /\ Target(r) > fDataSize)

Active == {t \in Thread : thread[t] # Idle}

\* No sum or capacity that the size behind call r leads to wraps.
Fits(r) == r.op = "read" \/ LET n == r.pos + r.len
                            IN  n < OffMod \div 2 /\ n + n \div 2 < WordMod

\* Call r, made now, would be in progress together with another call, and one
\* of them changes the size.
Races(r) == \E u \in Active : Resizing(r) \/ Resizing(thread[u].request)

Call(r, at) == [request |-> r, at |-> at, base |-> Null, from |-> r.pos,
                count |-> r.len, copied |-> {}, new |-> Null]

Start(t, r, at) ==
  /\ thread[t] = Idle
  /\ thread' = [thread EXCEPT ![t] = Call(r, at)]
  /\ answer' = [answer EXCEPT ![t] = {}]
  /\ kept' = (kept /\ Fits(r) /\ ~Races(r))
  /\ UNCHANGED <<heap, attr>>

Read(t, r) == Start(t, r, "clip")

WriteStat(t, r) == Start(t, r, "ensure")

Write(t, r) == Target(r) > 0 /\ Start(t, r, "test")

At(t, stage) == thread[t] # Idle /\ thread[t].at = stage

\* Read: the position, and then the length, are cut to the size.
ClipPos(t) ==
  /\ At(t, "clip")
  /\ thread' = [thread EXCEPT ![t].from = Least(@, fDataSize), ![t].at = "length"]
  /\ UNCHANGED <<heap, attr, answer, kept>>

\* The length against size_t(fDataSize - pos), which is large when negative.
ClipLength(t) ==
  /\ At(t, "length")
  /\ thread' = [thread EXCEPT
       ![t].count = IF fDataSize >= thread[t].from
                    THEN Least(@, fDataSize - thread[t].from) ELSE @,
       ![t].base = fData,
       ![t].at = "load"]
  /\ UNCHANGED <<heap, attr, answer, kept>>

\* The bytes of the copy of thread t.
Bytes(t) == (thread[t].from + 1)..(thread[t].from + thread[t].count)

\* Read's memcpy copies a byte.
Load(t) ==
  /\ At(t, "load")
  /\ \E i \in Bytes(t) \ thread[t].copied :
       /\ answer' = [answer EXCEPT ![t] = @ \cup {<<i, ByteAt(thread[t].base, i)>>}]
       /\ thread' = [thread EXCEPT ![t].copied = @ \cup {i}]
  /\ UNCHANGED <<heap, attr, kept>>

\* Read and Write return when the copy is made.
Return(t) ==
  /\ At(t, "load") \/ At(t, "store")
  /\ Bytes(t) = thread[t].copied
  /\ thread' = [thread EXCEPT ![t] = Idle]
  /\ UNCHANGED <<heap, attr, answer, kept>>

\* The call of a thread when it has evaluated the arguments of Write's memcpy.
AtStore(c) == [c EXCEPT !.base = fData, !.from = c.request.pos,
                        !.count = c.request.len, !.at = "store"]

\* Write's test of the size.
TestSize(t) ==
  /\ At(t, "test")
  /\ thread' = [thread EXCEPT ![t] =
       IF Target(@.request) > fDataSize THEN [@ EXCEPT !.at = "ensure"]
       ELSE AtStore(@)]
  /\ UNCHANGED <<heap, attr, answer, kept>>

\* Write's memcpy copies a byte.
Store(t) ==
  /\ At(t, "store")
  /\ \E i \in Bytes(t) \ thread[t].copied :
       /\ heap' = Stored(thread[t].base, i - 1, 1, thread[t].request.datum)
       /\ thread' = [thread EXCEPT ![t].copied = @ \cup {i}]
  /\ UNCHANGED <<attr, answer, kept>>

-----------------------------------------------------------------------------
(* EnsureSize and WriteStat.                                               *)

\* The size that EnsureSize is asked for, a uint32.
Wanted(t) == Target(thread[t].request) % WordMod

EnoughRoom(t) ==
  /\ At(t, "ensure")
  /\ Wanted(t) <= fDataAllocSize
  /\ thread' = [thread EXCEPT ![t].at = "extend"]
  /\ UNCHANGED <<heap, attr, answer, kept>>

NewBuffer(t, a) ==
  /\ At(t, "ensure")
  /\ Wanted(t) > fDataAllocSize
  /\ heap[a] = Free
  /\ heap' = [heap EXCEPT ![a] = [i \in 1..Capacity(Wanted(t)) |-> Junk]]
  /\ thread' = [thread EXCEPT ![t].new = a, ![t].base = fData, ![t].from = 0,
                              ![t].count = fDataSize, ![t].at = "carry"]
  /\ UNCHANGED <<attr, answer, kept>>

NoMemory(t) ==
  /\ At(t, "ensure")
  /\ Wanted(t) > fDataAllocSize
  /\ thread' = [thread EXCEPT ![t] = Idle]
  /\ UNCHANGED <<heap, attr, answer, kept>>

\* EnsureSize's memcpy.
Carry(t) ==
  /\ At(t, "carry")
  /\ heap' = [x \in Addr |->
       IF x = thread[t].new /\ heap[x] # Free
       THEN [i \in DOMAIN heap[x] |-> IF i <= thread[t].count
                                     THEN ByteAt(thread[t].base, i) ELSE heap[x][i]]
       ELSE heap[x]]
  /\ thread' = [thread EXCEPT ![t].at = "swap"]
  /\ UNCHANGED <<attr, answer, kept>>

\* ArrayDeleter::SetTo
SetTo(a) ==
  /\ heap' = [x \in Addr |-> IF x = fData THEN Free ELSE heap[x]]
  /\ fData' = a

\* Bug: fDataAllocSize is not updated.
SwapOnly(t) ==
  /\ At(t, "swap")
  /\ SetTo(thread[t].new)
  /\ thread' = [thread EXCEPT ![t].new = Null, ![t].at = "extend"]
  /\ UNCHANGED <<fDataSize, fDataAllocSize, answer, kept>>

\* Bug: the pointer moves and the old buffer stays.
SwapKeeps(t) ==
  /\ At(t, "swap")
  /\ fData' = thread[t].new
  /\ fDataAllocSize' = Capacity(Wanted(t))
  /\ thread' = [thread EXCEPT ![t].new = Null, ![t].at = "extend"]
  /\ UNCHANGED <<heap, fDataSize, answer, kept>>

Swap(t) ==
  /\ At(t, "swap")
  /\ SetTo(thread[t].new)
  /\ fDataAllocSize' = Capacity(Wanted(t))
  /\ thread' = [thread EXCEPT ![t].new = Null, ![t].at = "extend"]
  /\ UNCHANGED <<fDataSize, answer, kept>>

\* WriteStat compares the sizes and evaluates the arguments of memset.
BeginFill(t) ==
  /\ At(t, "extend")
  /\ LET growth == Target(thread[t].request) - fDataSize
     IN  thread' = IF growth > 0
                   THEN [thread EXCEPT ![t].base = fData, ![t].from = fDataSize,
                                       ![t].count = growth, ![t].at = "fill"]
                   ELSE [thread EXCEPT ![t].at = "size"]
  /\ UNCHANGED <<heap, attr, answer, kept>>

\* Bug: what the array grows by keeps what was there.
FillNone(t) ==
  /\ At(t, "fill")
  /\ thread' = [thread EXCEPT ![t].at = "size"]
  /\ UNCHANGED <<heap, attr, answer, kept>>

\* WriteStat's memset.
Fill(t) ==
  /\ At(t, "fill")
  /\ heap' = Stored(thread[t].base, thread[t].from, thread[t].count, Zero)
  /\ thread' = [thread EXCEPT ![t].at = "size"]
  /\ UNCHANGED <<attr, answer, kept>>

\* The end of WriteStat, and the return to Write if that called it.
SetSize(t) ==
  /\ At(t, "size")
  /\ fDataSize' = Wanted(t)
  /\ thread' = [thread EXCEPT ![t] =
       IF @.request.op = "write" THEN AtStore(@) ELSE Idle]
  /\ UNCHANGED <<heap, fData, fDataAllocSize, answer, kept>>

-----------------------------------------------------------------------------
Init ==
  /\ heap = [a \in Addr |-> Free]
  /\ fData = Null
  /\ fDataSize = 0
  /\ fDataAllocSize = 0
  /\ thread = [t \in Thread |-> Idle]
  /\ answer = [t \in Thread |-> {}]
  /\ kept = TRUE

Next ==
  \E t \in Thread :
    \/ \E r \in Reads : Read(t, r)
    \/ \E r \in Writes : Write(t, r)
    \/ \E r \in Resizes : WriteStat(t, r)
    \/ ClipPos(t) \/ ClipLength(t) \/ Load(t)
    \/ TestSize(t) \/ Store(t) \/ Return(t)
    \/ \E a \in Addr : NewBuffer(t, a)
    \/ EnoughRoom(t) \/ NoMemory(t) \/ Carry(t) \/ Swap(t)
    \/ BeginFill(t) \/ Fill(t) \/ SetSize(t)

Spec == Init /\ [][Next]_vars

-----------------------------------------------------------------------------
(* Properties.                                                             *)

\* The bytes of buffer a from the one behind from are there.
Inside(a, from, count) ==
  count > 0 => a # Null /\ heap[a] # Free /\ from + count <= Len(heap[a])

\* A copy stays in a buffer that is allocated, from when its arguments are
\* evaluated until it is made.  The code does not have this: a call that
\* changes the size frees the buffer others are about to copy from, or wraps.
MemorySafe ==
  \A t \in Active :
    /\ thread[t].at \in {"load", "store", "fill", "carry"} =>
         Inside(thread[t].base, thread[t].from, thread[t].count)
    /\ thread[t].at = "carry" => Inside(thread[t].new, 0, thread[t].count)

\* Growing, failing and shrinking leave no buffer behind: while the data is
\* kept, what is allocated is the data of the attribute, or about to be.
BuffersOwned ==
  kept => {a \in Addr : heap[a] # Free}
            = ({fData} \cup {thread[t].new : t \in Active}) \ {Null}

\* Read, Write and WriteStat work on an array of bytes as ByteArray has it:
\* whatever the buffer held, growth is zeros, a refused call changes nothing,
\* and every byte that is read is one that the array had there meanwhile -
\* until a call that changes the size meets another call, or a size wraps.
Array == INSTANCE ByteArray WITH
  Caller <- Thread,
  None <- Idle,
  Fitting <- {n \in Nat : n < OffMod \div 2 /\ n + n \div 2 < WordMod},
  content <- [i \in 1..fDataSize |-> ByteAt(fData, i)],
  request <- [t \in Thread |->
                IF thread[t] = Idle THEN Idle ELSE thread[t].request],
  copied <- [t \in Thread |-> IF thread[t] = Idle THEN {} ELSE thread[t].copied]

ImplementsByteArray == Array!Spec
=============================================================================
