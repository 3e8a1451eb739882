# shmfs: a verification project

shmfs is an in-memory file system for the Haiku kernel. A mounted volume is a
tree of reference-counted C++ objects; nothing is stored on disk. The kernel's
VFS calls it through a table of hooks, from any thread, and calls it back when
it drops what it had cached. This directory models that code in TLA+, checks
the models with TLC and proves their invariants and refinements with TLAPS.

## 1. Inventory

| part | source | state | operations |
|---|---|---|---|
| volume | `ShmfsVolume.cpp` | `fRootVnode`, `fIds` (number to vnode), `fIdPool`, one recursive lock | `Mount`, `Unmount`, `RegisterVnode`, `GetVnode`, `ReadFsInfo` |
| vnodes | `ShmfsVnode.cpp` | reference count, `fId`, `fName`, `fParent` (a raw pointer), stat fields | `PutVnode`, `RemoveVnode`, destructor, `SetName`, `ReadStat`, `WriteStat` |
| directories | `ShmfsDirectoryVnode.cpp` | `fNodes` (entries by name, each owns a reference), `fIterators` | `Create`, `CreateDir`, `CreateSymlink`, `Unlink`, `RemoveDir`, `Rename`, `Lookup` |
| directory iterators | `ShmfsDirectoryVnode.cpp` | `idx` (at ".", "..", or an entry), `node` | `OpenDir`, `ReadDir`, `RewindDir`, `CloseDir`, `FreeDirCookie` |
| range allocator | `ExternalAllocator.cpp` | blocks in a tree by address and a tree by size | `Register`, `Alloc`, `AllocAligned`, `AllocAt`, `Free` |
| files | `ShmfsFileVnode.cpp` | `fDataSize`, a page cache of the kernel | `Init`, `Open`, `Read`, `Write`, `WriteStat`, `_GetPages`, `_PutPages`, `_DoCacheIO` |
| attributes | `ShmfsVnode.cpp` | `fAttrs` by name, cookies (references), iterators | `CreateAttr`, `OpenAttr`, `RenameAttr`, `RemoveAttr`, `ReadAttrDir`, ... |
| attribute data | `ShmfsAttribute.cpp` | `fData`, `fDataSize`, `fDataAllocSize` | `Read`, `Write`, `WriteStat`, `EnsureSize` |
| symbolic links | `ShmfsSymlinkVnode.cpp` | `fPath`, set once | `SetPath`, `ReadSymlink` |
| kernel interface | `kernel_interface.cpp` | none | forwards each hook to a method |

How they interact:

- The volume lock serialises nearly every hook. It is recursive, because
  hooks call the VFS (`get_vnode`, `put_vnode`), which calls hooks again, and
  because destructors take it. `PutVnode` and `RemoveVnode` do not take it, nor
  do the attribute reads and writes.
- Three kinds of pointer own a vnode: the entry in a directory's `fNodes`, the
  private pointer of the VFS's own vnode, and `fRootVnode`. `fIds` and `fParent`
  do not.
- Inode numbers come from the allocator and go back in the vnode's destructor.
- The VFS keeps at most one entry per number. It calls `GetVnode` when it makes
  the entry, and `PutVnode` or `RemoveVnode` once when it drops it: at an
  unpredictable time after the last user has gone, or at once when
  `remove_vnode()` has marked the entry.

What is hard, and the properties that answer it:

| part | what can go wrong | correct when |
|---|---|---|
| lifecycle | the last release comes from an operation, an eviction, a put, or a parent's destructor, in any order | each count is the number of owners (`RefsExact`); unmount frees all (`UnmountFreesAll`) |
| numbers | a number reused while the VFS still knows the old vnode; freed twice | `IdsExact`, `VfsIdentity`, `NeverAborts` |
| namespace | a vnode in two trees or none, a subtree lost | `ImplementsNamespace`, `DirsLeaveEmpty` |
| failures | every error return leaves something half done | the same under `MemoryMayFail`, `AbortOnlyInMount` |
| allocator | two trees ordered by fields that change | `Tiled`, `SizeMapExact`, `Coalesced`, `ImplementsPool` |
| iterators | an entry removed or renamed under an iterator, at any point of a scan | `NodesTracked`, `ScanIncreasing`, `ScanComplete` |
| attributes | cookies and iterators outlive entries; renames between vnodes | `AttrRefsExact`, `AttrsOneTree`, `AttrItersLive`, `NoAttrLost` |
| files | a call fails at any page; the VM takes pages in between; truncation and growth | `WrittenSurvives`, `PagesAccounted`, `BusyExclusive`, `CallsEnd` |
| attribute data | copies that mix, a buffer that moves, stale bytes in a buffer that is kept | `BuffersOwned`, `ImplementsByteArray` |
| locking | releases without the lock, waits for busy entries with it | `CountsExact`, `NumbersLive`, `NoResurrection`, `NoWaitForDestructor`, `HooksReturn`, `ImplementsNamespace` |

`PROJECT.json` lists each hazard at its line, with the properties that cover it
or why none does. Several are errors that the code has: an instance of section 4 shows
each of those, outside of the runs, and the properties above do not cover them.

## 2. Plan

The modules were written in this order: `Shmfs`, `ExternalAllocator` with `RangePool`,
`ShmfsDirIterator`, `ShmfsAttrs`, `ShmfsFile`, `ShmfsAttributeData` with `ByteArray`,
`ShmfsConcurrency`, and `Namespace`, each with its proofs. `RangePool`, `ByteArray` and
`Namespace` are the abstract specifications. `Namespace` is implemented twice, by `Shmfs`
with operations that are atomic and may be renames, and by `ShmfsConcurrency` with
operations that overlap, so the two have no refinement between them: they differ in
what they have of the VFS, and both keep the same promise.

What would come next: `Rename` between the steps of other threads, and stores
through a mapping of a file.

## 3. Modules

`Shmfs.tla` is the core: one action per hook, each atomic, as the volume lock
makes it. A vnode is its address, so memory is reused and a raw pointer can
outlive its object. `vn` holds the fields of the object at each address, `fRef`
its `BReferenceable` count, `fNodes`, `fIds`, `fRootVnode` are the fields of these
names, `idAlloc` the numbers that the pool has given out (any free number: which
one the pool picks is the business of `ExternalAllocator`). `vfsNode`, `vfsRef` and
`vfsRemoved` are the kernel's table of vnodes, modelled from how the hooks use it.
`leaked` is history: the vnodes whose reference an error path dropped. `phase`
is the life of the volume.

- `Release` is `ReleaseReference` and everything it sets off: if it was the last
  reference, the destructors of the vnode and of all it alone held (`Doomed`),
  their removal from `fIds`, and the return of their numbers. `Doomed` is a least
  fixed point and not a recursion, so that it can be proved about.
- `Unlink` has the kernel calls `acquire_vnode`, `remove_vnode`, `put_vnode` in it,
  with the hook that the last one may call. `RemoveDir` reads the number after
  the release, as the code does, so the number may be any.
- `Rename` removes what is in the way, moves the entry, ignores a failing
  `SetName`, and lets `Insert` refuse a duplicate, as the code does. It does not
  touch `fParent`, which may then name a directory that is deleted (`ParentsAlive`).
- A failed creation before `RegisterVnode` frees an object nobody has seen, and
  `Create` on an existing name opens it: neither changes this state.

Operators named after a definition with a suffix (`RemoveNodeForgets`,
`DoomedAlone`, ...) are plausible bugs. No specification uses them; each is put
in the place of its definition to see that a property notices
(`PROJECT.json`, "mutants").

`Namespace.tla` is what a user of the volume may rely on: nodes, who is used by
somebody, and the entries of the directories. `Link`, `Unlink` and `Move` add, take out
and move one entry (a move may replace one); `Refer` is a node that is made, used or
given up. In each of them `Settle` says what lives afterwards: what is used, and what a
living directory lists. There are no counts, numbers, caches or destructors in
it. In `Shmfs` a node is live when its object is, and used when the VFS or the volume
has a reference to it; in `ShmfsConcurrency` it is live until its last reference is
released, whenever the destructor gets the lock, and used when it has a reference
besides that of its entry. Creations are a `Link` in `Shmfs`, and a `Refer` followed by a
`Link` between threads, `Unlink` and `RemoveDir` are an `Unlink` and the releases that
follow are `Refer`, and so are what the VFS does, a mount and an unmount; `Rename` is a
`Move`. A directory that `Rename` has moved below itself is listed by what it lists, so
`Settle` lets it stay or go. Where a step fails, `Shmfs` leaves vnodes that nobody
uses or lists, so it implements `Namespace` only when nothing fails.

`ExternalAllocator.tla` is the allocator alone. An entry of `fSizeMap` carries the
size it was inserted with, because the tree is ordered by a field that the code
changes. `RangePool.tla` is what its clients may rely on: ranges that do not
overlap, no refusal of a length while a range of that length is free, and no refusal
of an aligned length while a range of length + alignment - 1 is. An aligned range of
the length alone is not enough: `AllocAligned` looks for a block that is long enough
wherever the aligned address falls in it, so that 3 addresses aligned to 4 are refused
while 4 to 6 are free.

`ShmfsDirIterator.tla` is one directory seen by its iterators. `idx` and `node` are
the fields of the code; `got`, `lasting` and `hit` are history since the last
rewind: what was returned, which names have been there all the time, and whether
`RemoveNode` has moved the iterator past "." or "..". `ReadDir` is shown turn by
turn, with `reader` holding the lock. An iterator whose node is not in the tree
reads memory that may hold anything, so `IteratorNext` takes it anywhere (`junk`).
`Unlink` stands for all that takes an entry out, `RenameIn` and `Rename` for the two
sides of `Rename` that put one in.

`ShmfsAttrs.tla` is the attribute trees of several vnodes, the cookies (`handle`) and
iterators opened on them, and the count of each attribute. `RenameAttr` is one
formula for both cases: when the attribute is itself in the way, it is released
and inserted again, which takes the second removal for one without effect. The
constant `SelfRename` says whether that is ever asked for.

`ShmfsFile.tla` is one regular file: `fDataSize`, the pages of its cache with their
content (`page`), who has each page busy, the pages that a write has allocated and not
yet inserted (`fresh`), and the call in progress (`io`), which has the volume lock
from its first step to its last. `Read` and `Write` do what comes before
`_DoCacheIO`; then `GetPage` is a turn of the loop of `_GetPages`, `AllocatePages` its
unlocked end, `CopyPage` and `CopyFails` a turn of the loop of `_DoCacheIO`, and
`PutPages` the end of the call. Between them the lock of the cache is free, and the VM
takes pages, lets them go, and fills holes (`VmTake`, `VmRelease`, `VmFault`). A new
page holds `Junk`. `allowed` and `written` are history: what a reader of each byte may
be given, and which bytes were written. The external `VMCache::Resize` frees the pages
beyond the end; it may or may not clear the rest of the last page.

`ShmfsAttributeData.tla` is the data of one attribute in `heap`, a set of buffers that
are allocated, freed and used again. No call takes a lock, and none waits for another:
each step is one access to shared memory of `Read`, `Write`, `WriteStat` or
`EnsureSize`. The position is cut to the size, then the length, with the size read
each time; a copy evaluates its arguments at one step, and copies its bytes later, one
at a step and in any order (`Load`, `Store`; `copied` has those that are done), so that
the copies of two calls tear each other. `Word` and `OffMod` give the widths: `Capacity`
is computed in the narrow one, positions in the wide one, and both wrap. A copy that
leaves its buffer, or finds it freed, reads junk and stores nothing that the model has. The copies inside of `EnsureSize` and `WriteStat` (`Carry`, `Fill`), and the free and
the assignment in `ArrayDeleter::SetTo`, are one step each: they belong to a call that
changes the size, and what comes of that meeting another call is described no further.

`kept` is history: it is true until a call that changes the size is in progress together
with any other call (`Races`), or asks for a size that the arithmetic wraps (`Fits`), and
false for ever from then on. It guards nothing. `ByteArray.tla` is what callers may rely on,
as a contract: reads and writes copy byte by byte, growth is zeros, a refused call
changes nothing, and after callers have broken the contract (its own `kept`) anything
may happen. What the code does then is shown by two instances of section 4.

`ShmfsConcurrency.tla` takes apart what `Shmfs` has for atomic. The call of a thread is
a `plan`, the steps that it has still to take, and `todo` is the stack of destructors
that it is in. `lock` is the volume lock; `entry` is the VFS's table, where `busy` is
the thread that runs `GetVnode` for a new entry, or `PutVnode` or `RemoveVnode` for
one that is dropped. `Release` takes no lock in the drop of an entry; `Delete` takes
it for `fIds`, and `ReleaseEntry`, the loop of `~ShmfsDirectoryVnode`, does not
(`MayRelease` and `MayDestroy` are these guards). `Get` is
`get_vnode()` from within a hook: it waits for a busy entry with the lock in its hands,
and `GiveUp` is the VFS giving up. `LookupDots` is `Lookup` of "." and "..": the second follows
`parent`, the directory that the vnode was created in, which may be busy, removed, or
deleted, and then the number it reads may be any (`ParentIds`). A vnode that fails before it is
registered has no volume: its destructor faults, with the lock held by the hook, and
the thread stays there (`Delete`). `owed` is history: what callers were told that they
hold. No guard depends on it but that a caller puts what it has, of which there is always
as much as the VFS counts, so the run threads leaves it out of the view of the state.
Of the VFS it assumes that it holds a directory referenced while a hook runs on it
(`CallOn`), that `acquire_vnode()` and `remove_vnode()` in `Unlink` act on an entry that
is ready only, and that an entry is dropped by one thread. `Unlink` and `RemoveDir`
stand for all that takes out entries; `Rename`, which has their lock structure, is in
`Shmfs` only. Once a vnode is acquired while it is being deleted, what follows uses
freed memory, and says nothing: the instance that lets this happen stops there
(`NobodyResurrected` in `MCShmfsConcurrency`).

The theorems about a module are in the module named after it with `Proofs` at the
end; `OrderLemmas.tla` has two facts about orders that several of them need. The
modules whose names begin with `MC` are the instances for TLC.

## 4. Runs

| run | instance | shows |
|---|---|---|
| lifecycle (`MCShmfs.cfg`) | 3 vnodes, 3 numbers, 2 names, VFS counts up to 2, no failures | counts and numbers are exact in every interleaving, and the namespace is implemented |
| deep (`MCShmfsDeep.cfg`) | 4 vnodes, every allocation and kernel call failing or not; no symlinks, no entry that is marked and dropped late, one vnode changing its directory | subdirectories: renames over and below them, lost subtrees, cycles, and what unmount frees; a mounted volume does not abort |
| allocator (`MCExternalAllocator.cfg`) | 7 addresses, lengths 1 to 3, alignments 2 and 4 | the trees agree, free space is coalesced, and the pool is implemented |
| dir_scan (`MCShmfsDirIterator.cfg`) | 3 entries, 3 names, 2 iterators, root or not | scans return what lasts, once, in order |
| dir_dangling (`MCShmfsDirDangling.cfg`) | the same | violation: an iterator at "." points to a removed entry |
| attrs (`MCShmfsAttrs.cfg`) | 2 vnodes, 3 attributes, 2 names, 2 cookies, 2 iterators, failures | counts are exact, iterators never dangle, only a failing `SetName` loses an attribute |
| file (`MCShmfsFile.cfg`) | 2 pages of 2 bytes, sizes up to 3, positions 0 to 2, lengths 0 and 2, 2 values, one action of the VM, failures | what was written is read again, pages are neither lost nor left behind nor taken from the VM, and calls end |
| file_holes (`MCShmfsFileHoles.cfg`) | one value, the VM idle, positions and lengths 0 to 3 | violation: a hole that a write of length 0 has left reads as what the page held before |
| attr_data (`MCShmfsAttributeData.cfg`) | 2 threads, 2 buffers, 4-bit words and 5-bit offsets, positions and lengths 0 and 2, sizes 1 and 11 (whose capacity wraps) | while calls keep the contract an array of bytes is implemented, copied byte by byte, and no buffer is lost |
| threads (`MCShmfsConcurrency.cfg`) | 2 threads, 3 vnodes, 3 numbers, one name in each directory, VFS counts up to 2 and 3 references in all, entries in removed directories, until a vnode is resurrected | counts are exact between the steps, no number leads to freed memory, `Lookup` of a name and `Create` never wait with the lock for a destructor |
| threads_live (`MCShmfsConcurrencyLive.cfg`) | 2 threads, 2 vnodes; creations fail, existing files are created again, removed directories stay empty | each hook returns, unless a destructor has faulted; nothing is acquired after its last release; the namespace is implemented |
| removed_dir (`MCShmfsConcurrencyRemoved.cfg`) | 2 threads, 2 vnodes, VFS counts up to 2, entries in removed directories | violation: an entry of a removed directory is acquired while it is deleted |

These instances end in a violation too: each shows what the code does not have. They
are not among the runs, because a run has the same property with a side condition,
or because they show one missing line.

| instance | property | what happens |
|---|---|---|
| `MCShmfsMountFails.cfg` | `NeverAborts` | a failing mount frees a number of an empty pool |
| `MCShmfsParents.cfg` | `ParentsAlive` | `fParent` of a directory in use is freed memory |
| `MCShmfsCycle.cfg` | `UnmountLeavesNothing` | a directory was moved below itself |
| `MCShmfsRenameFails.cfg` | `DirsNeverLost` | `SetName` fails in `Rename`, and the old name is taken |
| `MCShmfsAttrsSelf.cfg` | `AttrRefsExact` | an attribute is renamed to its own name |
| `MCShmfsAttributeDataRace.cfg` | `MemorySafe` | a call that grows the data meets a copy |
| `MCShmfsAttributeDataWrap.cfg` | `MemorySafe` | one thread; words of 3 bits, and the capacity wraps |
| `MCShmfsFileMapped.cfg` | `InsertsIntoHoles` | a mapping faults while a write fills a hole |
| `MCShmfsFileSelf.cfg` | `CallsEnd` | the buffer of a write is a mapping of the file |
| `MCShmfsFileWrap.cfg` | `ReportsExact` | offsets of 3 bits, and the end of a write wraps |
| `MCShmfsConcurrencyExisting.cfg` | `CallersCounted` | `Create` on a name that exists |
| `MCShmfsConcurrencyUnregistered.cfg` | `DestructorsLock` | a creation fails before `RegisterVnode` |
| `MCShmfsConcurrencyDotDot.cfg` | `DotsDoNotWait` | ".." is looked up in a removed directory whose parent is dropped |

The first four are configurations of `MCShmfs`, the others of the module they are named
after.

Bounds. Three vnodes are the root, an entry and the entry that replaces it, or a
directory with an entry; with as many numbers, each freed number is reused.
Two names allow a rename to a free and to a taken name. A VFS count of 2 tells
the last put from another. Four vnodes add a directory below a directory. Seven
addresses leave free blocks on both sides of an allocated one with room to cut
any of them. Three entries are the one an iterator stands on and one on each
side. Three attributes are one that moves, the one it replaces and one more,
in two vnodes. Two pages of two bytes have calls that begin and end within a page,
cover one, or cross from one to the other, with room for a page beyond the end of
the file; two values tell the old byte from the new. Two threads are enough for
every race on the data of an attribute, two buffers for the old one and the new one;
a write of 2 bytes at 2 leaves a gap, size 1 cuts what was written, and the sums that
overlapping calls lead to are within and beyond the words. A thread that drops a
vnode and one that looks it up, or creates under its number, are the two of every
wait, since only the holder of the lock waits for a busy entry; three vnodes are a
directory, its entry and another.
More threads than two are left to the theorems of section 6.

Addresses, numbers, threads and names are interchangeable, so most runs use
symmetry (not of names, where their order matters); the two that check liveness,
file and threads_live, do not. A volume stops for good when it is unmounted or
aborted, and a destructor that faults keeps the lock for ever, so the runs of `Shmfs`
and threads_live do not check for deadlock; all other passing runs
do, and so show that the lock and the busy pages never stop everybody.

What the runs found:

- Mount, `ShmfsVolume.cpp:56`. If `get_vnode()` fails, the volume is deleted with
  the root registered. Members are destroyed in reverse order, so the pool goes
  before the root, and the root's destructor frees its number in the empty pool:
  `abort()`, in the kernel.
- `RemoveNode`, `ShmfsDirectoryVnode.cpp:91`. An iterator that is still at "." or ".."
  has its node at the first entry already. When that entry is removed,
  `IteratorNext` advances `idx` instead: the dot is skipped, and the node is left
  on the removed entry, which a later `ReadDir` reads. Scans not hit by this are
  proved right.
- `RenameAttr`, `ShmfsVnode.cpp:430`. An attribute renamed to its own name is
  released as the one in the way, then used and inserted again.
- `_GetPages`, `ShmfsFileVnode.cpp:152`. A page allocated for a hole is not cleared,
  and what a write does not cover of it stays as it was: later reads return what
  the memory held before, where a hole reads as zeros. The shortest case is a write of
  no bytes at an offset beyond the end: it grows the file and inserts a page.
- `_GetPages` and `_PutPages`, `ShmfsFileVnode.cpp:140` and `178`. The lock of the cache is
  given up between finding a page missing and inserting one; the file is given to the
  VFS for mapping, and a page fault in between inserts a second page.
- `_DoCacheIO`, `ShmfsFileVnode.cpp:83`. A write from a mapping of the page that it
  writes waits for the page that it has made busy itself, with the volume lock.
- `Write`, `ShmfsFileVnode.cpp:288`. When the end of a write wraps, the length set to
  zero is a local copy: the caller is told that all was written.
- `ShmfsVnode.cpp:400-418`. The data of attributes has no lock: a thread that grows it
  frees the buffer that another copies to or from. `EnsureSize`,
  `ShmfsAttribute.cpp:12`, computes the capacity in 32 bits, so that it wraps for
  sizes above two thirds of 2^32, and the copy leaves the buffer.
- `~ShmfsDirectoryVnode`, `ShmfsDirectoryVnode.cpp:20`. The last put of a removed
  directory takes no lock, and releases what was created in it after its removal.
  Until the destructor of such an entry gets the lock, `GetVnode` finds it in
  `fIds` with a count of zero, acquires it, and has a pointer to freed memory.
  Without such entries the releases that take no lock are safe (`NoResurrection`):
  an entry that leaves the tree does so under the lock, and while the VFS drops
  its own, `GetVnode` is not called for that number.
- `Create`, `ShmfsDirectoryVnode.cpp:218`. On a name that exists by then it returns the
  number without `get_vnode()`, so that a reference is put that was never got.
- `Lookup`, `ShmfsDirectoryVnode.cpp:312`. A directory that was removed and is still open
  knows its parent by a raw pointer. ".." follows it, and may wait in `get_vnode()`, with
  the lock, for an entry whose thread is in `~ShmfsVnode` and waits for the lock; it ends
  when the VFS gives up. If the parent is gone, its number is read from freed memory. So is
  what `WriteStat`, `Read` and `Write` tell listeners of the parent.
- `Rename`, `ShmfsDirectoryVnode.cpp:182-183`. It goes on when `SetName` has failed, and a
  directory whose old name is taken in the target leaves the tree with all its entries.
  It does not look whether the target is below what it moves: that makes a cycle
  which nobody reaches and nothing frees.
- `~ShmfsVnode`, `ShmfsVnode.cpp:23`. A vnode that was not registered has no volume, and
  its destructor locks the lock of a null one: so does every creation that fails
  in `SetName`, `SetPath`, `Open` or `RegisterVnode`.
- What holds only with a side condition is stated with it: `UnmountFreesAll`
  excepts directories that `Rename` has moved below themselves and what error
  paths lost, `DirsLeaveEmpty` a directory lost by a failing `SetName`, `HooksReturn` what
  follows a destructor that has faulted; `BuffersOwned` and the order of the sizes in
  `TypeOK` hold while the data of an attribute is `kept`.

## 5. Fairness and liveness

The code starts no thread of its own, and a hook runs when the kernel calls it.
Nothing justifies that the VFS evicts an entry, calls a hook or unmounts, so no
specification is fair to these; what is assumed begins once a call has begun.

- `ShmfsFile`: weak fairness of `Step`, the progress of the call that has the volume
  lock (a thread in a call is scheduled), and of each `VmRelease` (the VM lets go of a
  page that it has busy: it is busy only during I/O or a fault). `CopyFails`, a
  fault of the user's memory, is not in `Step`: nothing depends on it. The actions of
  the VM are bounded by `MaxFaults`: a VM that comes back for ever could starve a
  call, and nothing in this code prevents it. `CallsEnd` follows if the buffer is not
  a mapping of the file.
- `ShmfsConcurrency`: strong fairness of each thread's `Step`: a thread in a call is
  scheduled, and gets the lock if it is free over and over again (the lock of the
  kernel queues its waiters). `HooksReturn` needs that `get_vnode()` gives up on a busy
  entry (`VfsGivesUp`), as is assumed of the kernel here: without that,
  `Lookup` with the lock waits for a `GetVnode` that waits for the lock, and ".." also for a
  destructor that does. `NoWaitForDestructor` says that for `Lookup` of a name and for `Create`
  there is no circle but the first. A destructor that faults never gives the lock back, so
  `HooksReturn` excepts what comes after it.

The other modules are safety specifications.

## 6. Proofs

All theorems hold for any values of the constants that the assumptions of the
modules admit: any sets of addresses, numbers, names and threads, finite or not
(where counts of a set are taken, it is finite), any sizes and widths. The
assumptions say that null values and marks are not among the values, that
names are ordered, that sizes fit into the types that hold them. Where a theorem
needs more, it is a hypothesis of the theorem, named below, and an instance of
section 4 shows what goes wrong without it, or the text below says so. Each invariant
of a run was checked by TLC on its instance before it was proved.

| proofs | of `Spec` | if |
|---|---|---|
| `ShmfsProofs` | `TypeOK`, `RefsExact`, `IdsExact`, `VfsIdentity`, `OneLink`, `DirsLeaveEmpty`, `UnmountFreesAll`, `AbortOnlyInMount` | |
| | `ImplementsNamespace`, `NeverAborts`, `NothingLeaks` | nothing fails (`~MemoryMayFail`) |
| `ExternalAllocatorProofs` | `TypeOK`, `Tiled`, `SizeMapExact`, `Coalesced`, `ImplementsPool` | |
| `ShmfsDirIteratorProofs` | `TypeOK`, `NodesTracked`, `ScanIncreasing`, `ScanComplete` | |
| `ShmfsAttrsProofs` | `TypeOK`, `AttrRefsExact`, `AttrsOneTree`, `AttrItersLive`, `NoAttrLost` | no attribute is renamed to its own name (`SelfRename = FALSE`) |
| `ShmfsFileProofs` | `TypeOK`, `PagesAccounted`, `WrittenSurvives`, `BusyExclusive` | no mapping faults in a hole that a write fills (`FaultsInWrites = FALSE`) |
| `ShmfsAttributeDataProofs` | `TypeOK`, `BuffersOwned`, `ImplementsByteArray` | |
| `ShmfsConcurrencyProofs` | `TypeOK`, `CountsExact`, `NumbersLive`, `NoResurrection`, `NoWaitForDestructor`, `ImplementsNamespace` | no entry is made in a removed directory (`CreateInRemoved = FALSE`) |

### Vnodes and the namespace

The inductive invariant `IInv` is the conjunction of `TypeOK`, `RefsExact`, `IdsExact`,
`VfsIdentity` and `OneLink` with `Bookkeeping`. None is inductive alone. That a count
is right after an object is freed needs that the object was in one tree only
(`OneLink`). That the freed number was allocated, and is the vnode's own, needs
`IdsExact`, which needs the counts to know that the vnode was alive. That dropping a
VFS entry takes away one owner and not two needs that a vnode is known under one
number, from `VfsIdentity` and `IdsExact`. `Bookkeeping` says that an absent VFS entry
has no count, that a lost vnode is in no tree, and when the root is set.

`DoomedLeast` to `DoomedReached` give what is needed of the least fixed point: the
released vnode is in it exactly when its last references go, it is closed under
entries held once, and every other member was held once, by a member.
`DoomedUnowned` concludes that a deleted object has no owner outside the deleted
ones. `ReleaseInv` then shows once, for any state that is `Ready` (entries form a
forest, and all counts are right once n references of v are gone), that `Release`
restores the invariant. Every action that releases is reduced to it, through
`Detached` for those that take out an entry; the others are proved directly.

The properties of the trees use `IInv` as known and ask of a step only its form:
each step takes out entries (`Prunes`), adds one (`Adds`) or moves one (`Moves`), and
`StepForm` says so for all actions. `NamesUnique` follows by form, and is what
`DirsLeaveEmpty` needs: an `Insert` that finds its name taken loses the
vnode, so that the name is free is what keeps it. `UnmountFreesAll` needs `Unowned`:
after the unmount neither the volume nor the VFS owns anything, so by `RefsExact` an
object that is alive is owned by a directory or lost.

`ImplementsNamespace` puts both together. `Settles` shows once that after any step `IInv`
and `NothingLeaks` are what `Settle` asks for: a vnode has a reference exactly when
it is used or listed, by `RefsExact`, and is alive exactly when it has one. So what
is left of each action is which entries there are, which its form tells
(`PrunedEntries`, `MovedEntries`), and that it changes the users of one vnode at most
(`RemoveUses` and the lemmas around it): `Prunes` of nothing is `Refer`, of an entry
`Unlink`; `Adds` is `Link`, `Moves` is `Move`. The hypothesis
`~MemoryMayFail` is in `NothingLeaks`: what an error path has lost lives, though nobody uses
or lists it. `OneLink` is in the inductive invariant and holds under failures; the run
has no failures, and `Link` asks there that a vnode is not listed yet.

The run lifecycle has no failures: that the counts, the numbers and the links
are right under failures too is what the proofs show, for all of them.

### The allocator

`AllocInv` adds to the checked invariants that only blocks are marked as allocated
(`AllocatedAreBlocks`), without which a block that `Alloc` splits off could come out as
allocated. `Tiled` is what makes `Free` right: the block before and the one after are
the neighbours in the address tree. For `ImplementsPool` an allocation that succeeds is
`Take` of the pool, `Free` is `GiveBack`, a failure is `Refuse`. The last is the hard one:
the pool refuses a length only when no range of it is free (for an aligned length: none of
length + alignment - 1), so from such a free range it is shown that one block of the
allocator holds it (`Coalesced` and `Tiled`), and that the search by size would have come to
a block as long. Of an aligned range that is free and shorter nothing is shown, because
the allocator may refuse it.

### Directory iterators

`DirInv` adds to the checked invariants, for each scan that was not hit (`ScanOK`):
what it has returned is less than the name of its node, and each lasting name is
returned already or not less than that name. `RemoveNodeInv` is the core: moving off
an entry leaves no lasting name behind, because only the removed one lies between
the node and the next. `LeastNatural` of `OrderLemmas` replaces an induction: it takes
the least element from the well-foundedness of inclusion among finite sets.

### Attributes

`AttrInv` adds `LostStayOut`, that an attribute that fell out of the trees is in none:
else the release of its last cookie would leave a tree with a freed attribute. Counts
are compared tree by tree (`TreesCount`) and cookie by cookie; the cookies are a finite
set. An attribute of its own name in the way of `RenameAttr` breaks this argument, and
the code (section 4).

### Files

`FileInv` says what a call in progress relies on between its steps, with the lock of the
cache free: its bytes are in the file (`CallInside`, as nobody else resizes); each page
that it has looked up is busy for it or was missing (`BusyOK`, `WrittenHeld`); a write
has a new page for each that was missing (`FreshOK`), and those are missing still
(`HolesStay`, where `FaultsInWrites = FALSE` is used); what it has stored is there
(`CopiedOK`); and each byte that was written is in its page with a value it may
have, or the new one of the write in progress (`WrittenKept`). Between calls this comes
down to `Settled`. `ChunkEnds` is why a write that ends well has stored all its bytes: the
bytes are an interval, so when none is in the current page, none is behind it.
`CallPages` and the lemmas before it are the arithmetic of `RoundUp`, and `PositiveSum`
is why no assumption about wrapping is needed: a wrapped sum is not positive. What is
wrong with a wrapped sum is only what `Write` reports of it (`MCShmfsFileWrap.cfg`).

### Attribute data

The theorems have no condition: they are about every interleaving of any calls. The
invariant is `LostOrSound`: the types always (`Types`, preserved by `TypesNext` for calls that
race and sums that wrap), and `DataInv` as long as the data is `kept`. `DataInv` adds that the
buffer is as long as `fDataAllocSize` says (`BufferExact`), what each call has computed and
still relies on (`CallsOK`), and that a call which changes the size is alone (`Alone`): that
follows from `kept`, because the start of a call which is not ends it. From `Alone` comes
that the buffer which a copy has taken as its argument is the one that is there when
each of its bytes is copied. So no copy leaves its buffer while the data is kept, and
copies mix only among calls that change no size.

For `ImplementsByteArray` the start of a call is `Ask` of the array, with the same `kept`
(`SameFits`, `SameResizing`); `Load` is `ReadByte`, `SetSize` is `Extend` or `Resize`, `Store` is
`WriteByte`, `Return` is `Return`, `NoMemory` is `Refuse`, and all other steps stutter, because the
content of the array is what is below `fDataSize`, and no other step changes that. After
the contract is broken every step is `Lost`, which `OnlyStarts` and `NeverKeptAgain` allow:
nothing makes `kept` true again.

### Calls between threads

The proofs are for any number of threads, vnodes, numbers and names. A thread is in
one of nineteen stages, the plans that actions make and what their steps leave of
them (`PlanOf`, `Planned`). `ConcInv` says what is a call's in each stage: the lock
(`LockHeld`), the entry that is busy for it (`EntryHeld`, `BusyOwned`), the reference
of the tree that it has yet to give or to release (`TreeHeld`), that of the VFS
(`VfsHeld`), and the object that it destroys (`Destroys`).

`RefsExact` is the core, and stronger than `CountsExact`: a vnode has at most one
reference of the tree (its link, or a call that has the lock) and at most one of
the VFS (its ready entry, or the call for which the entry is busy). So a count is
at most two, a release finds what it releases, and the last one leaves nobody who
could reach the vnode: `TreeOK` and `EntriesLive` say that whatever can be reached has
a reference, `Doomed` and `DoomedOnce` that an object without one is destroyed by
exactly one call. With that, `NoResurrection` is a matter of each step:
an acquisition goes through an entry that is linked (`Looks`), or through the number
of an entry that is busy. `Reachable` is where `CreateInRemoved = FALSE` is needed: an
entry made in a removed directory dies with it, by `ReleaseEntry` without the lock,
while `Lookup` may find it (the run removed_dir).

Most steps are reduced to lemmas by what they change: nothing but the call
(`StayStep`), a reference and who has it (`CountStep`), an entry put in (`LinkStep`) or
taken out (`TakeStep`), a new object (`NewStep`). `CountsExact` follows from `RefsExact` by
counting: the references that memory names (`Named`) are at most two, and of those that calls have
(`Pending`) the tree's is one at most and the VFS's another (`TreePart`, `VfsPart`).

`NoWaitForDestructor` follows from `ConcInv` without more. Of the threads that have an entry
busy and not the lock, the one that waits for the lock other than for `GetVnode` is one
that deletes the vnode of the entry. The hook that waits for it has the lock, and found
the vnode through the tree or is about to insert it: the tree has a reference to that
vnode, or the hook holds the one that is to become it, so nobody deletes it. The number
that ".." reads came from no tree, so the argument says nothing of it, and the instance
`MCShmfsConcurrencyDotDot.cfg` shows the wait. A creation that fails
before its vnode is registered stays in the stage `takeDelete` for ever, with the lock: the
theorems hold with such failures too.

For `ImplementsNamespace`, `SettlesAfter` does what `Settles` does for `Shmfs`: `RefsExact` and
`TreeOK` after the step are what `Settle` asks for. `InsertLinks` is a `Link`, `TakeUnlinks` an
`Unlink`, and all other steps change no directory and one count at most (`ReferStep`).
`ReleaseEntry` is never taken, because a directory that is destroyed is empty when
`CreateInRemoved = FALSE`. So what overlaps is not seen: it is at one of its steps that a
hook takes effect. TLC checked `ConcInv` on 2 threads, 3 vnodes and 3 numbers
before the proof.

### Only model-checked

The liveness properties `CallsEnd` and `HooksReturn` are out of the prover's reach; every
other property of a run that passes is a theorem. What happens in a removed
directory between threads is checked by the run threads, up to the step that
resurrects a vnode.

## 7. Not modelled

- A negative `st_size` in `WriteStat` of a file: `ShmfsFileVnode.cpp:219-222` takes it unchecked.
  The models ask for sizes that a file can have.
- Times, modes and owners of vnodes (`ReadStat`, `WriteStat` of the base class),
  `ReadFsInfo`, access checks and string copies (`ReadSymlink`): no property depends
  on them.
- `kernel_interface.cpp` casts private pointers and forwards; the headers of
  debugging and tracing settings and the makefile have no state.
- Notifications: the code promises listeners no order.
- A `read_dir` that is still in flight when `close_dir` is called: whether that can
  be depends on the VFS's counting of file descriptors.
- The cookie that `Open` allocates and a creation that fails later leaks.
- `Rename` between the steps of other threads; stores through a mapping of a file.
- The AVL trees, `BReferenceable`, the VFS, the VM and its caches are outside the
  repository and are modelled, where needed, from how this code uses them.
