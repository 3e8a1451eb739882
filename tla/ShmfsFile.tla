------------------------------ MODULE ShmfsFile ------------------------------
(***************************************************************************)
(* One regular file: its size, the pages of its cache, and the calls that  *)
(* read, write and resize it.  A call holds the volume lock from its first *)
(* step to its last, so there is one at a time, io.  It gives up the lock  *)
(* of the cache between its steps, and then the VM, which has the cache    *)
(* through vfs_set_vnode_cache(), can fault pages in and hold them busy.   *)
(*                                                                         *)
(* Stores through a mapping are left out: they are not calls of shmfs.     *)
(***************************************************************************)
EXTENDS Integers, FiniteSets

CONSTANTS
  PageSize,      \* B_PAGE_SIZE
  MaxSize,       \* the size that VMCache::Resize finds memory for
  OffMod,        \* off_t and size_t have this many values, a power of two
  Position,      \* the positions that callers ask for
  Length,        \* the lengths that callers ask for
  Datum,         \* the bytes that callers write
  Zero,          \* the byte 0
  Junk,          \* whatever a page held before it was allocated
  NotRead,       \* no byte
  Absent,        \* no page
  Cookie,        \* addresses of ShmfsFileCookie objects
  MaxFaults,     \* bound on what the VM does to the cache
  MayFail,       \* whether allocations and user buffers may fail
  FaultsInWrites, \* whether the VM may fill a hole that a write is filling
  BufferMapped   \* whether a caller's buffer may be a mapping of the file

ASSUME FileAssumption ==
  /\ PageSize \in Nat \ {0} /\ MaxSize \in Nat /\ MaxFaults \in Nat
  /\ OffMod \in Nat \ {0, 1} /\ OffMod % 2 = 0 /\ MaxSize < OffMod \div 2
  /\ Position \subseteq 0..(OffMod \div 2 - 1)
  /\ Length \subseteq 0..(OffMod \div 2 - 1)
  /\ Cardinality({Zero, Junk, NotRead}) = 3
  /\ {Zero, Junk, NotRead} \cap Datum = {}
  /\ Absent \notin [0..(PageSize - 1) -> Datum \cup {Zero, Junk}]
  /\ {MayFail, FaultsInWrites, BufferMapped} \subseteq BOOLEAN

VARIABLES
  fDataSize,  \* the size of the file
  page,       \* the pages in fCache: the content of each, or Absent
  busy,       \* who has made each page in fCache busy
  fresh,      \* the pages that a write has allocated and not yet inserted
  used,       \* the number of pages that are allocated
  io,         \* the call in progress
  cookie,     \* the open files, and whether they append
  faults,     \* how often the VM has come
  allowed,    \* history: what a reader of each byte may be given
  written,    \* history: the bytes that were written, and are in the file
  misreported \* history: whether a call reported success and did nothing

fileVars == <<fDataSize, page, busy, fresh, used>>
history == <<allowed, written, misreported>>
vars == <<fileVars, io, cookie, faults, history>>

Byte == Datum \cup {Zero, Junk}
Content == [0..(PageSize - 1) -> Byte]
NoPage == -1

Offset == 0..(MaxSize - 1)
PageNo == {o \div PageSize : o \in Offset}
Filled(b) == [k \in 0..(PageSize - 1) |-> b]

Idle == [op |-> "none"]
Calls == [op : {"read", "write"}, stage : {"get", "copy", "put"},
          by : Cookie, pos : Nat, len : Nat, index : Nat,
          datum : Datum \cup {Zero}, buf : PageNo \cup {NoPage},
          got : [Offset -> Byte \cup {NotRead}], ok : BOOLEAN]

TypeOK ==
  /\ fDataSize \in 0..MaxSize
  /\ page \in [PageNo -> Content \cup {Absent}]
  /\ busy \in [PageNo -> {"no", "io", "vm"}]
  /\ fresh \in [PageNo -> Content \cup {Absent}]
  /\ used \in Nat
  /\ io = Idle \/ io \in Calls
  /\ cookie \in [Cookie -> {"none", "plain", "append"}]
  /\ faults \in 0..MaxFaults
  /\ allowed \in [Offset -> SUBSET Byte]
  /\ written \subseteq Offset
  /\ misreported \in BOOLEAN

-----------------------------------------------------------------------------
(* Arithmetic.                                                             *)

RoundUp(n) == ((n + PageSize - 1) \div PageSize) * PageSize

\* The sum of an off_t and a size_t, as an off_t.
OffSum(p, n) == LET s == (p + n) % OffMod
                IN  IF s < OffMod \div 2 THEN s ELSE s - OffMod

Least(m, n) == IF m < n THEN m ELSE n

First(c) == c.pos \div PageSize

\* rounded_len / B_PAGE_SIZE
PageCount(c) == RoundUp(c.len + (c.pos % PageSize)) \div PageSize

PagesOf(c) == First(c)..(First(c) + PageCount(c) - 1)

\* The page at the index of the call, and the bytes of the call in it.
Current == First(io) + io.index
Chunk == {o \in io.pos..(io.pos + io.len - 1) : o \div PageSize = Current}

Present(p) == page[p] # Absent

-----------------------------------------------------------------------------
(* The cache.                                                              *)

\* Bug: the pages beyond the new end stay.
ResizeKeepsPages(n) == fDataSize' = n /\ UNCHANGED <<page, busy, used>>

\* VMCache::Resize, and the new fDataSize: pages beyond the end are freed,
\* after a wait for those that are busy.  The rest of the last page may be
\* cleared or not.
Resize(n) ==
  LET gone == {p \in PageNo : Present(p) /\ p * PageSize >= n}
  IN  /\ \A p \in gone : busy[p] = "no"
      /\ \E clears \in BOOLEAN :
           page' = [p \in PageNo |->
             IF p \in gone THEN Absent
             ELSE IF clears /\ Present(p)
             THEN [k \in 0..(PageSize - 1) |->
                     IF p * PageSize + k >= n THEN Zero ELSE page[p][k]]
             ELSE page[p]]
      /\ used' = used - Cardinality(gone)
      /\ fDataSize' = n
      /\ UNCHANGED busy

\* History: the bytes from n on leave the file, or were not in it.
Forget(n) ==
  /\ allowed' = [o \in Offset |-> IF o >= n THEN {Zero} ELSE allowed[o]]
  /\ written' = {o \in written : o < n}

-----------------------------------------------------------------------------
(* Calls of one step.                                                      *)

Locked == io = Idle

\* Open reads fDataSize before it takes the lock, so that a write in progress
\* comes after it as a whole, or before.
Open(c, append, trunc) ==
  /\ Locked
  /\ cookie[c] = "none"
  /\ cookie' = [cookie EXCEPT ![c] = IF append THEN "append" ELSE "plain"]
  /\ IF trunc /\ fDataSize > 0
     THEN Resize(0) /\ Forget(0)
     ELSE UNCHANGED <<fDataSize, page, busy, used, allowed, written>>
  /\ UNCHANGED <<fresh, io, faults, misreported>>

SetFlags(c, append) ==
  /\ Locked
  /\ cookie[c] # "none"
  /\ cookie' = [cookie EXCEPT ![c] = IF append THEN "append" ELSE "plain"]
  /\ UNCHANGED <<fileVars, io, faults, history>>

\* A cookie whose call is in progress is still held by the VFS.
InUse(c) == io # Idle /\ io.by = c

FreeCookie(c) ==
  /\ cookie[c] # "none"
  /\ ~InUse(c)
  /\ cookie' = [cookie EXCEPT ![c] = "none"]
  /\ UNCHANGED <<fileVars, io, faults, history>>

\* WriteStat with a size.  The code takes any st_size, also a negative one,
\* which is left out here: what VMCache::Resize does with it is the kernel's.
WriteStat(n) ==
  /\ Locked
  /\ Resize(n)
  /\ Forget(n)
  /\ UNCHANGED <<fresh, io, cookie, faults, misreported>>

-----------------------------------------------------------------------------
(* Read and Write, up to the call of _DoCacheIO.                           *)

Buffers == {NoPage} \cup IF BufferMapped THEN {p \in PageNo : Present(p)} ELSE {}

Start(op, c, pos, len, d) ==
  \E b \in Buffers :
    io' = [op |-> op, stage |-> "get", by |-> c, pos |-> pos, len |-> len, index |-> 0,
           datum |-> d, buf |-> b, got |-> [o \in Offset |-> NotRead],
           ok |-> TRUE]

\* Bug: a position beyond the end is kept.
ReadBeyond(c, p, n) ==
  /\ Locked
  /\ cookie[c] # "none"
  /\ Start("read", c, p, Least(n, fDataSize - p), Zero)
  /\ UNCHANGED <<fileVars, cookie, faults, history>>

Read(c, p, n) ==
  LET pos == Least(p, fDataSize)
  IN  /\ Locked
      /\ cookie[c] # "none"
      /\ Start("read", c, pos, Least(n, fDataSize - pos), Zero)
      /\ UNCHANGED <<fileVars, cookie, faults, history>>

WritePos(c, p) == IF cookie[c] = "append" THEN fDataSize ELSE p

\* Bug: a write ends the file.
GrowAlways(newSize) == Resize(newSize)

\* The part of Write that grows the file.
Grow(newSize) ==
  IF newSize > fDataSize
  THEN Resize(newSize) ELSE UNCHANGED <<fDataSize, page, busy, used>>

\* A write whose end is not positive: its length is set to zero, but not the
\* one that the caller gets.
WriteNothing(c, p, n) ==
  /\ Locked
  /\ cookie[c] # "none"
  /\ OffSum(WritePos(c, p), n) <= 0
  /\ misreported' = (misreported \/ n > 0)
  /\ UNCHANGED <<fileVars, io, cookie, faults, allowed, written>>

Write(c, p, n, d) ==
  LET pos == WritePos(c, p)
      newSize == OffSum(pos, n)
  IN  /\ Locked
      /\ cookie[c] # "none"
      /\ newSize > 0 /\ newSize <= MaxSize
      /\ Grow(newSize)
      /\ \/ Start("write", c, pos, n, d)
         \/ MayFail /\ UNCHANGED io   \* no memory for the array of pages
      /\ UNCHANGED <<fresh, cookie, faults, history>>

-----------------------------------------------------------------------------
(* _DoCacheIO.                                                             *)

Stage(s) == io # Idle /\ io.stage = s

\* Bug: a page is taken while somebody else has it.
GetPageBusy ==
  /\ Stage("get")
  /\ io.index < PageCount(io)
  /\ busy' = [busy EXCEPT ![Current] = IF Present(Current) THEN "io" ELSE @]
  /\ io' = [io EXCEPT !.index = @ + 1]
  /\ UNCHANGED <<fDataSize, page, fresh, used, cookie, faults, history>>

\* One turn of the loop of _GetPages; it waits while the page is busy.
GetPage ==
  /\ Stage("get")
  /\ io.index < PageCount(io)
  /\ busy[Current] = "no"
  /\ busy' = [busy EXCEPT ![Current] = IF Present(Current) THEN "io" ELSE @]
  /\ io' = [io EXCEPT !.index = @ + 1]
  /\ UNCHANGED <<fDataSize, page, fresh, used, cookie, faults, history>>

\* pages[i] = fCache->LookupPage(offset), when GetPage looked.
Missing == {p \in PagesOf(io) : busy[p] # "io"}

\* The locker is unlocked: a write allocates the missing pages.
AllocatePages ==
  /\ Stage("get")
  /\ io.index = PageCount(io)
  /\ LET new == IF io.op = "write" THEN Missing ELSE {}
     IN  /\ fresh' = [p \in PageNo |->
                        IF p \in new THEN Filled(Junk) ELSE fresh[p]]
         /\ used' = used + Cardinality(new)
  /\ io' = [io EXCEPT !.stage = "copy", !.index = 0]
  /\ UNCHANGED <<fDataSize, page, busy, cookie, faults, history>>

\* A page with the datum of the call in the given bytes.
Stored(content, bytes) ==
  [k \in 0..(PageSize - 1) |->
     IF Current * PageSize + k \in bytes THEN io.datum ELSE content[k]]

\* The user's buffer can be reached without a fault, or the fault finds its
\* page not busy.  A buffer that maps the file is one whose page table entry
\* has still to be made.
BufferReady == \A p \in {io.buf} \ {NoPage} : busy[p] = "no"

\* Bug: the offset in the first page is not subtracted from its bytes.
CopyBeyond(bytes) ==
  IF fresh[Current] # Absent
  THEN /\ fresh' = [fresh EXCEPT ![Current] = Stored(@, bytes)]
       /\ UNCHANGED page
  ELSE /\ page' = [page EXCEPT ![Current] = Filled(io.datum)]
       /\ UNCHANGED fresh

\* vm_memcpy_to_physical into the page of the call.
CopyTo(bytes) ==
  IF fresh[Current] # Absent
  THEN /\ fresh' = [fresh EXCEPT ![Current] = Stored(@, bytes)]
       /\ UNCHANGED page
  ELSE /\ page' = [page EXCEPT ![Current] = Stored(@, bytes)]
       /\ UNCHANGED fresh

\* What a read finds in its page, which is NULL if there was none.
ByteAt(o) == IF o \div PageSize \in Missing THEN Zero
             ELSE page[o \div PageSize][o % PageSize]

\* The bytes that a read has after its turn of the loop.
Got == IF io.op = "write" THEN io.got
       ELSE [o \in Offset |-> IF o \in Chunk THEN ByteAt(o) ELSE io.got[o]]

\* Bug: the turn of a hole does not count.
CopyPageHole ==
  /\ Stage("copy")
  /\ Chunk # {}
  /\ BufferReady
  /\ io' = [io EXCEPT !.index = IF Current \in Missing /\ io.op = "read"
                                THEN @ ELSE @ + 1,
                      !.got = Got]
  /\ IF io.op = "write" THEN CopyTo(Chunk) ELSE UNCHANGED <<page, fresh>>
  /\ UNCHANGED <<fDataSize, busy, used, cookie, faults, history>>

\* One turn of the loop of _DoCacheIO.
CopyPage ==
  /\ Stage("copy")
  /\ Chunk # {}
  /\ BufferReady
  /\ io' = [io EXCEPT !.index = @ + 1, !.got = Got]
  /\ IF io.op = "write" THEN CopyTo(Chunk) ELSE UNCHANGED <<page, fresh>>
  /\ UNCHANGED <<fDataSize, busy, used, cookie, faults, history>>

\* The user's memory faults after some bytes of the page.
CopyFails ==
  /\ MayFail
  /\ Stage("copy")
  /\ Chunk # {}
  /\ \E bytes \in {{o \in Chunk : o < e} : e \in Chunk} :
       IF io.op = "write" THEN CopyTo(bytes) ELSE UNCHANGED <<page, fresh>>
  /\ io' = [io EXCEPT !.stage = "put", !.ok = FALSE]
  /\ UNCHANGED <<fDataSize, busy, used, cookie, faults, history>>

CopyEnds ==
  /\ Stage("copy")
  /\ Chunk = {}
  /\ io' = [io EXCEPT !.stage = "put"]
  /\ UNCHANGED <<fileVars, cookie, faults, history>>

\* History: the bytes of a write that ends have its datum, or may have it.
Record ==
  LET range == io.pos..(io.pos + io.len - 1)
  IN  IF io.op = "write"
      THEN /\ allowed' = [o \in Offset |->
                            IF o \notin range THEN allowed[o]
                            ELSE IF io.ok THEN {io.datum}
                            ELSE allowed[o] \cup {io.datum}]
           /\ written' = IF io.ok THEN written \cup range ELSE written
      ELSE UNCHANGED <<allowed, written>>

\* Bug: the pages of a failed write are neither inserted nor freed.
FreeNone(new) == UNCHANGED used

\* vm_page_free of new pages after an error.
FreeNew(new) == used' = used - IF io.ok THEN 0 ELSE Cardinality(new)

\* Bug: a failure leaves the pages busy.
MarkUnbusySuccess ==
  busy' = [p \in PageNo |-> IF busy[p] = "io" /\ io.ok THEN "no" ELSE busy[p]]

MarkUnbusy ==
  busy' = [p \in PageNo |-> IF busy[p] = "io" THEN "no" ELSE busy[p]]

\* _PutPages, the result, and the end of the call: new pages are inserted,
\* or freed after an error; the others are marked unbusy.
PutPages ==
  LET new == {p \in PageNo : fresh[p] # Absent}
  IN  /\ Stage("put")
      /\ page' = [p \in PageNo |->
                    IF p \in new /\ io.ok THEN fresh[p] ELSE page[p]]
      /\ MarkUnbusy
      /\ FreeNew(new)
      /\ fresh' = [p \in PageNo |-> Absent]
      /\ io' = Idle
      /\ Record
      /\ UNCHANGED <<fDataSize, cookie, faults, misreported>>

-----------------------------------------------------------------------------
(* The VM.                                                                 *)

\* A fault, or the page daemon, makes a page busy.
VmTake(p) ==
  /\ faults < MaxFaults
  /\ Present(p)
  /\ busy[p] = "no"
  /\ busy' = [busy EXCEPT ![p] = "vm"]
  /\ faults' = faults + 1
  /\ UNCHANGED <<fDataSize, page, fresh, used, io, cookie, history>>

VmRelease(p) ==
  /\ busy[p] = "vm"
  /\ busy' = [busy EXCEPT ![p] = "no"]
  /\ UNCHANGED <<fDataSize, page, fresh, used, io, cookie, faults, history>>

\* The pages that a write in progress may find missing.
Filling == IF io.op = "write" THEN PagesOf(io) ELSE {}

\* A fault of a mapping in a hole inserts a cleared page.
VmFault(p) ==
  /\ faults < MaxFaults
  /\ ~Present(p)
  /\ p * PageSize < fDataSize
  /\ FaultsInWrites \/ p \notin Filling
  /\ page' = [page EXCEPT ![p] = Filled(Zero)]
  /\ used' = used + 1
  /\ faults' = faults + 1
  /\ UNCHANGED <<fDataSize, busy, fresh, io, cookie, history>>

-----------------------------------------------------------------------------
Init ==
  /\ fDataSize = 0
  /\ page = [p \in PageNo |-> Absent]
  /\ busy = [p \in PageNo |-> "no"]
  /\ fresh = [p \in PageNo |-> Absent]
  /\ used = 0
  /\ io = Idle
  /\ cookie = [c \in Cookie |-> "none"]
  /\ faults = 0
  /\ allowed = [o \in Offset |-> {Zero}]
  /\ written = {}
  /\ misreported = FALSE

\* The steps of the call in progress, if its memory does not fault.
Step == GetPage \/ AllocatePages \/ CopyPage \/ CopyEnds \/ PutPages

Next ==
  \/ \E c \in Cookie, append \in BOOLEAN :
       \/ SetFlags(c, append)
       \/ \E trunc \in BOOLEAN : Open(c, append, trunc)
  \/ \E c \in Cookie :
       \/ FreeCookie(c)
       \/ \E p \in Position, n \in Length :
            \/ Read(c, p, n)
            \/ WriteNothing(c, p, n)
            \/ \E d \in Datum : Write(c, p, n, d)
  \/ \E n \in 0..MaxSize : WriteStat(n)
  \/ Step \/ CopyFails
  \/ \E p \in PageNo : VmTake(p) \/ VmRelease(p) \/ VmFault(p)

\* A thread in a call is scheduled, and what the VM has made busy it lets go.
Fairness == WF_vars(Step) /\ \A p \in PageNo : WF_vars(VmRelease(p))

Spec == Init /\ [][Next]_vars /\ Fairness

-----------------------------------------------------------------------------
(* Properties.                                                             *)

Delivered == IF io = Idle THEN {} ELSE {o \in Offset : io.got[o] # NotRead}

\* Read gives back what Write stored: a byte that was written, and has been in
\* the file since, has its last value whatever happened to the bytes around
\* it, was truncated and grown behind it, or failed; only a write that fails
\* over it leaves it undecided, and then it has the old value or the new.
WrittenSurvives == \A o \in Delivered \cap written : io.got[o] \in allowed[o]

\* _DoCacheIO reads a hole as zeros (ShmfsFileVnode.cpp:88-92): so does every
\* byte that was not written.
HolesReadZero == \A o \in Delivered : io.got[o] \in allowed[o]

\* Every page that is allocated is in the hands of a write, or in the cache
\* at bytes of the file: after any sequence of writes, failures and
\* truncations no page is lost, and none outlives the bytes in it.
PagesAccounted ==
  LET cached == {p \in PageNo : Present(p)}
  IN  /\ \A p \in cached : p * PageSize < fDataSize
      /\ used = Cardinality(cached) + Cardinality({p \in PageNo : fresh[p] # Absent})

\* A page is busy for one at a time: a call neither takes nor frees a page
\* that the VM has busy, and when it ends it has given back all it took.
BusyExclusive ==
  [][\A p \in PageNo :
       /\ busy[p] = "vm" => page'[p] # Absent /\ busy'[p] # "io"
       /\ io' = Idle => busy'[p] # "io"]_vars

\* ShmfsFileVnode.cpp:142, "For a write we need to reserve the missing
\* pages": a new page is inserted where the cache has none.
InsertsIntoHoles ==
  [][\A p \in PageNo : fresh[p] # Absent /\ fresh'[p] = Absent
                       /\ page'[p] = fresh[p] => ~Present(p)]_vars

\* A call that succeeds has read or written as many bytes as it reports.
ReportsExact == ~misreported

\* ShmfsFileVnode.cpp:170, "Mark all pages unbusy": a call that began ends,
\* and gives up the volume lock with its pages.
CallsEnd == io # Idle ~> io = Idle
=============================================================================
