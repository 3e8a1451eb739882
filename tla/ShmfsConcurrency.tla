-------------------------- MODULE ShmfsConcurrency --------------------------
(***************************************************************************)
(* The steps that Shmfs takes for atomic, with threads between them: the   *)
(* volume lock, the entries of the VFS that are busy while a hook makes or *)
(* drops them, and the releases that take no lock.                         *)
(*                                                                         *)
(* A call is a plan, the sequence of steps it has still to take.  Unlink   *)
(* and RemoveDir stand for all that takes out an entry, Rename included.   *)
(***************************************************************************)
EXTENDS Naturals, Sequences, FiniteSets

CONSTANTS
  Thread,
  Vnode,           \* addresses of vnodes, except for the root
  Root,            \* the root directory
  Id,              \* inode numbers, except for that of the root
  Name,
  Null,
  Nobody,          \* no thread
  Absent,          \* no entry, no object
  MaxVfsRef,       \* from this count on no call asks for more references
  VfsGivesUp,      \* whether get_vnode() gives up waiting for a busy entry
  CreateInRemoved, \* whether Create is called on directories that are removed
  SetupFails       \* whether a new vnode may fail before it is registered

ASSUME ConcurrencyAssumption ==
  /\ Root \notin Vnode /\ Null \notin Vnode \cup {Root} \cup Id
  /\ IsFiniteSet(Thread) /\ Nobody \notin Thread
  /\ Absent \notin [kind : {"dir", "file"}, id : Id \cup {Null},
                    parent : Vnode \cup {Root, Null}]
  /\ Absent \notin [vnode : Vnode \cup {Null}, ref : Nat, removed : BOOLEAN,
                    busy : Thread \cup {Nobody}]
  /\ MaxVfsRef \in Nat
  /\ {VfsGivesUp, CreateInRemoved, SetupFails} \subseteq BOOLEAN

VARIABLES
  vn,      \* the object at each address, or Absent
  fRef,    \* its BReferenceable count
  fNodes,  \* the entries of each directory
  fIds,    \* ShmfsVolume::fIds
  entry,   \* the VFS's entry of each number, or Absent
  lock,    \* the thread that has the volume lock
  thread,  \* the call of each thread
  owed     \* history: how often callers were told that they have a vnode

objects == <<vn, fRef, fNodes, fIds>>
vars == <<objects, entry, lock, thread, owed>>

Steps == {"GetVnode", "publish", "get", "getDots", "insert", "release", "delete",
          "drop", "mark", "unlock"}

Idle == [plan |-> <<>>, id |-> Null, vnode |-> Null, dir |-> Null,
         name |-> Null, todo |-> <<>>]

\* vnode is what the call is about; todo is the destructors it is in, the
\* innermost first.
Calls == [plan : Seq(Steps), id : Id \cup {Null}, vnode : Vnode \cup {Null},
          dir : Vnode \cup {Root, Null}, name : Name \cup {Null},
          todo : Seq(Vnode)]

\* A vnode with no number has no volume either: it is not registered.  parent
\* is fParent of a directory; that of a file is read for notifications only,
\* which are left out.
Objects == [kind : {"dir", "file"}, id : Id \cup {Null},
            parent : Vnode \cup {Root, Null}]

\* busy is the thread that makes or drops the entry.
Entries == [vnode : Vnode \cup {Null}, ref : Nat, removed : BOOLEAN,
            busy : Thread \cup {Nobody}]

TypeOK ==
  /\ \A v \in Vnode : vn[v] = Absent \/ vn[v] \in Objects
  /\ fRef \in [Vnode -> Nat]
  /\ fNodes \in [Vnode \cup {Root} -> [Name -> Vnode \cup {Null}]]
  /\ fIds \in [Id -> Vnode \cup {Null}]
  /\ \A i \in Id : entry[i] = Absent \/ entry[i] \in Entries
  /\ lock \in Thread \cup {Nobody}
  /\ \A t \in Thread : thread[t] \in Calls
  /\ owed \in [Id -> Nat]

-----------------------------------------------------------------------------
(* Reading the state.                                                      *)

Alive(v) == vn[v] # Absent
Kind(v) == vn[v].kind
IdOf(v) == vn[v].id

Entry(v, n, r, b) == [vnode |-> v, ref |-> n, removed |-> r, busy |-> b]

Known(i) == entry[i] # Absent
Busy(i) == Known(i) /\ entry[i].busy # Nobody
Ready(i) == Known(i) /\ entry[i].busy = Nobody

Empty(d) == \A n \in Name : fNodes[d][n] = Null
Linked(v) == \E d \in Vnode \cup {Root}, n \in Name : fNodes[d][n] = v

\* The VFS calls a directory while it holds a reference to it.
Called(d) == d = Root \/ \E i \in Id : Ready(i) /\ entry[i].vnode = d
                                       /\ entry[i].ref > 0 /\ Kind(d) = "dir"

Free(t) == thread[t] = Idle
Object(k, i, d) ==
  [kind |-> k, id |-> i, parent |-> IF k = "dir" THEN d ELSE Null]

Doing(t, step) == thread[t].plan # <<>> /\ Head(thread[t].plan) = step
MayLock(t) == lock \in {t, Nobody}

Plan(t, plan) == [thread EXCEPT ![t].plan = plan]

\* The call of t after its step: idle when no step is left.
After(t) ==
  LET rest == Tail(thread[t].plan)
  IN  [thread EXCEPT ![t] = IF rest = <<>> THEN Idle ELSE [@ EXCEPT !.plan = rest]]

Call(t, plan, i, v) ==
  [thread EXCEPT ![t] = [plan |-> plan, id |-> i, vnode |-> v, dir |-> Null,
                         name |-> Null, todo |-> <<>>]]

\* A hook on directory d, which the VFS has a reference to until it returns.
CallOn(t, d, plan, i, v) == [Call(t, plan, i, v) EXCEPT ![t].dir = d]

-----------------------------------------------------------------------------
(* The VFS, outside of hooks.                                              *)

\* get_vnode() by number: an entry that is there gets a reference, for one
\* that is not a hook is called.
GetByNumber(t, i) ==
  /\ Free(t)
  /\ \/ /\ Ready(i)
        /\ entry[i].ref < MaxVfsRef
        /\ entry' = [entry EXCEPT ![i].ref = @ + 1]
        /\ owed' = [owed EXCEPT ![i] = @ + 1]
        /\ UNCHANGED thread
     \/ /\ ~Known(i)
        /\ entry' = [entry EXCEPT ![i] = Entry(Null, 0, FALSE, t)]
        /\ thread' = Call(t, <<"GetVnode", "publish">>, i, Null)
        /\ UNCHANGED owed
  /\ UNCHANGED <<objects, lock>>

\* The entry is made, or forgotten when the hook has found nothing.
Publish(t) ==
  LET i == thread[t].id
      v == thread[t].vnode
  IN  /\ Doing(t, "publish")
      /\ entry' = [entry EXCEPT ![i] =
                     IF v = Null THEN Absent ELSE Entry(v, 1, FALSE, Nobody)]
      /\ owed' = [owed EXCEPT ![i] = IF v = Null THEN @ ELSE @ + 1]
      /\ thread' = After(t)
      /\ UNCHANGED <<objects, lock>>

\* Thread t drops entry i: PutVnode or RemoveVnode is called.
StartDrop(t, i) ==
  /\ entry' = [entry EXCEPT ![i] = Entry(@.vnode, 0, @.removed, t)]
  /\ thread' = Call(t, <<"release", "delete", "drop">>, i, entry[i].vnode)

\* The references to directory d that hooks in progress rely on.
InUse(d) == {t \in Thread : thread[t].dir = d}

\* A caller puts the vnode; the last one drops an entry that is removed.
Put(t, i) ==
  /\ Free(t)
  /\ Ready(i)
  /\ entry[i].ref > Cardinality(InUse(entry[i].vnode)) /\ owed[i] > 0
  /\ owed' = [owed EXCEPT ![i] = @ - 1]
  /\ IF entry[i].ref = 1 /\ entry[i].removed
     THEN StartDrop(t, i)
     ELSE entry' = [entry EXCEPT ![i].ref = @ - 1] /\ UNCHANGED thread
  /\ UNCHANGED <<objects, lock>>

Evict(t, i) ==
  /\ Free(t)
  /\ Ready(i)
  /\ entry[i].ref = 0
  /\ StartDrop(t, i)
  /\ UNCHANGED <<objects, lock, owed>>

\* The hook has returned, and the VFS forgets the entry.
Drop(t) ==
  /\ Doing(t, "drop")
  /\ entry' = [entry EXCEPT ![thread[t].id] = Absent]
  /\ thread' = After(t)
  /\ UNCHANGED <<objects, lock, owed>>

Getting(t) == Doing(t, "get") \/ Doing(t, "getDots")

\* Bug: get_vnode() is called again until it succeeds.
GiveUpRetries(t) ==
  /\ VfsGivesUp
  /\ Getting(t)
  /\ Busy(thread[t].id)
  /\ UNCHANGED vars

\* get_vnode() inside of a hook gives up waiting, and the hook fails; a vnode
\* that is being created is released.
GiveUp(t) ==
  /\ VfsGivesUp
  /\ Getting(t)
  /\ Busy(thread[t].id)
  /\ thread' = IF "insert" \in {thread[t].plan[k] : k \in DOMAIN thread[t].plan}
               THEN Plan(t, <<"release", "delete", "unlock">>)
               ELSE Plan(t, <<"unlock">>)
  /\ UNCHANGED <<objects, entry, lock, owed>>

-----------------------------------------------------------------------------
(* Releases and destructors.                                               *)

\* Bug: PutVnode and RemoveVnode take the lock.
MayReleaseLocked(t) == Doing(t, "release") /\ MayLock(t)

\* PutVnode and RemoveVnode release without the lock.
MayRelease(t) == Doing(t, "release")

\* Bug: the caller's reference is released with the hook's own.
ReleaseTwice(t) ==
  LET v == thread[t].vnode
  IN  /\ MayRelease(t)
      /\ fRef' = [fRef EXCEPT ![v] = @ - 2]
      /\ thread' = [After(t) EXCEPT ![t].todo =
                      IF fRef[v] <= 2 THEN <<v>> ELSE <<>>]
      /\ UNCHANGED <<vn, fNodes, fIds, entry, lock, owed>>

\* ReleaseReference in PutVnode and RemoveVnode, which take no lock, and in
\* the hooks that do.
Release(t) ==
  LET v == thread[t].vnode
  IN  /\ MayRelease(t)
      /\ fRef' = [fRef EXCEPT ![v] = @ - 1]
      /\ thread' = [After(t) EXCEPT ![t].todo =
                      IF fRef[v] = 1 THEN <<v>> ELSE <<>>]
      /\ UNCHANGED <<vn, fNodes, fIds, entry, lock, owed>>

Destroyed(t) == Head(thread[t].todo)

\* A turn of the loop of ~ShmfsDirectoryVnode, without the lock: an entry is
\* taken out and released.
ReleaseEntry(t, n) ==
  /\ Doing(t, "delete")
  /\ thread[t].todo # <<>>
  /\ LET d == Destroyed(t)
         v == fNodes[d][n]
     IN  /\ v # Null
         /\ fNodes' = [fNodes EXCEPT ![d][n] = Null]
         /\ fRef' = [fRef EXCEPT ![v] = @ - 1]
         /\ thread' = [thread EXCEPT ![t].todo =
                         IF fRef[v] = 1 THEN <<v>> \o @ ELSE @]
  /\ UNCHANGED <<vn, fIds, entry, lock, owed>>

\* ~ShmfsVnode waits for the lock.
MayDestroy(t) == Doing(t, "delete") /\ thread[t].todo # <<>> /\ MayLock(t)

\* Bug: the vnode stays in fIds.
DeleteForgets(t) ==
  /\ MayDestroy(t)
  /\ LET v == Destroyed(t)
     IN  /\ Empty(v)
         /\ vn' = [vn EXCEPT ![v] = Absent]
  /\ thread' = [thread EXCEPT ![t].todo = Tail(@)]
  /\ UNCHANGED <<fRef, fNodes, fIds, entry, lock, owed>>

\* ~ShmfsVnode, with the lock: the vnode leaves fIds and frees its number.  A
\* vnode that was never registered has no volume to take the lock of: its
\* destructor faults, and the thread goes no further.
Delete(t) ==
  /\ MayDestroy(t)
  /\ LET v == Destroyed(t)
     IN  /\ IdOf(v) # Null
         /\ Empty(v)
         /\ fIds' = [i \in Id |-> IF i = IdOf(v) THEN Null ELSE fIds[i]]
         /\ vn' = [vn EXCEPT ![v] = Absent]
  /\ thread' = [thread EXCEPT ![t].todo = Tail(@)]
  /\ UNCHANGED <<fRef, fNodes, entry, lock, owed>>

DeleteEnds(t) ==
  /\ Doing(t, "delete")
  /\ thread[t].todo = <<>>
  /\ thread' = After(t)
  /\ UNCHANGED <<objects, entry, lock, owed>>

-----------------------------------------------------------------------------
(* Hooks.                                                                  *)

\* Bug: the reference is taken before the lock.
GetVnodeEarly(t) ==
  LET v == fIds[thread[t].id]
  IN  /\ Doing(t, "GetVnode")
      /\ fRef' = [u \in Vnode |-> IF u = v THEN fRef[u] + 1 ELSE fRef[u]]
      /\ thread' = [After(t) EXCEPT ![t].vnode = v]
      /\ UNCHANGED <<vn, fNodes, fIds, entry, lock, owed>>

\* Bug: no AcquireReference.
GetVnodeUnreferenced(t) ==
  /\ Doing(t, "GetVnode")
  /\ lock = Nobody
  /\ thread' = [After(t) EXCEPT ![t].vnode = fIds[thread[t].id]]
  /\ UNCHANGED <<objects, entry, lock, owed>>

\* ShmfsVolume::GetVnode
GetVnode(t) ==
  LET v == fIds[thread[t].id]
  IN  /\ Doing(t, "GetVnode")
      /\ lock = Nobody
      /\ fRef' = [u \in Vnode |-> IF u = v THEN fRef[u] + 1 ELSE fRef[u]]
      /\ thread' = [After(t) EXCEPT ![t].vnode = v]
      /\ UNCHANGED <<vn, fNodes, fIds, entry, lock, owed>>

Lock(t) == Free(t) /\ lock = Nobody /\ lock' = t

Unlock(t) ==
  /\ Doing(t, "unlock")
  /\ lock' = Nobody
  /\ thread' = After(t)
  /\ UNCHANGED <<objects, entry, owed>>

\* The hook on d calls get_vnode() for i.
LookupId(t, d, step, i) ==
  /\ Lock(t)
  /\ Called(d)
  /\ Known(i) => entry[i].ref < MaxVfsRef
  /\ thread' = CallOn(t, d, <<step, "unlock">>, i, Null)
  /\ UNCHANGED <<objects, entry, owed>>

Lookup(t, d, n) ==
  /\ fNodes[d][n] # Null
  /\ LookupId(t, d, "get", IdOf(fNodes[d][n]))

\* What vn[d].parent->Id() reads: the parent may have been deleted, and then
\* the memory may hold any number.
ParentIds(d) ==
  LET p == vn[d].parent
  IN  IF Alive(p) THEN {IdOf(p)} \ {Null} ELSE Id

\* Lookup of "." and "..".  The references to the root are not modelled: its
\* number has no entry here.
LookupDots(t, d) ==
  /\ d # Root /\ Alive(d) /\ Kind(d) = "dir"
  /\ \/ LookupId(t, d, "getDots", IdOf(d))
     \/ /\ vn[d].parent \in Vnode
        /\ \E i \in ParentIds(d) : LookupId(t, d, "getDots", i)

\* get_vnode() of Lookup and Create: it waits while the entry is busy; when
\* there is none, GetVnode runs in the same thread, with the lock.
Get(t) ==
  LET i == thread[t].id
      v == fIds[i]
  IN  /\ Getting(t)
      /\ ~Busy(i)
      /\ Known(i) \/ v # Null
      /\ entry' = [entry EXCEPT ![i] =
                     IF Known(i) THEN [@ EXCEPT !.ref = entry[i].ref + 1]
                     ELSE Entry(v, 1, FALSE, Nobody)]
      /\ fRef' = [u \in Vnode |->
                    IF u = v /\ ~Known(i) THEN fRef[u] + 1 ELSE fRef[u]]
      /\ owed' = [owed EXCEPT ![i] = @ + 1]
      /\ thread' = After(t)
      /\ UNCHANGED <<vn, fNodes, fIds, lock>>

\* The number that ".." has found is of no vnode, and the hook fails.
GetFails(t) ==
  LET i == thread[t].id
  IN  /\ Doing(t, "getDots")
      /\ ~Known(i) /\ fIds[i] = Null
      /\ thread' = After(t)
      /\ UNCHANGED <<objects, entry, lock, owed>>

\* RegisterVnode in a hook that creates an entry; the number may be one that
\* the VFS has not forgotten.
NewVnode(t, d, n, k, v, i) ==
  /\ Lock(t)
  /\ Called(d)
  /\ fNodes[d][n] = Null
  /\ CreateInRemoved \/ d = Root \/ Linked(d)
  /\ ~Alive(v) /\ fIds[i] = Null
  /\ vn' = [vn EXCEPT ![v] = Object(k, i, d)]
  /\ fRef' = [fRef EXCEPT ![v] = 1]
  /\ fIds' = [fIds EXCEPT ![i] = v]
  /\ UNCHANGED <<fNodes, entry, owed>>

\* SetName, SetPath, Open or RegisterVnode fails, and the BReference in the
\* hook releases the vnode.
NewVnodeFails(t, d, n, k, v) ==
  /\ SetupFails
  /\ Lock(t)
  /\ Called(d)
  /\ fNodes[d][n] = Null
  /\ ~Alive(v)
  /\ vn' = [vn EXCEPT ![v] = Object(k, Null, d)]
  /\ fRef' = [fRef EXCEPT ![v] = 1]
  /\ thread' = CallOn(t, d, <<"release", "delete", "unlock">>, Null, v)
  /\ UNCHANGED <<fNodes, fIds, entry, owed>>

Creation(t, d, n, v, i, plan) ==
  thread' = [CallOn(t, d, plan, i, v) EXCEPT ![t].name = n]

Create(t, d, n, v, i) ==
  /\ NewVnode(t, d, n, "file", v, i)
  /\ Creation(t, d, n, v, i, <<"get", "insert", "unlock">>)

\* CreateDir; CreateSymlink differs in the kind alone.
CreateDir(t, d, n, v, i) ==
  /\ NewVnode(t, d, n, "dir", v, i)
  /\ Creation(t, d, n, v, i, <<"insert", "unlock">>)

Insert(t) ==
  LET c == thread[t]
  IN  /\ Doing(t, "insert")
      /\ fNodes' = [fNodes EXCEPT ![c.dir][c.name] = c.vnode]
      /\ thread' = After(t)
      /\ UNCHANGED <<vn, fRef, fIds, entry, lock, owed>>

\* Create of a file that exists opens it and returns its number; the VFS takes
\* that for one acquired for it.
CreateOpens(t, d, n) ==
  LET v == fNodes[d][n]
  IN  /\ Free(t) /\ lock = Nobody
      /\ Called(d)
      /\ v # Null /\ Kind(v) = "file"
      /\ owed[IdOf(v)] < MaxVfsRef
      /\ owed' = [owed EXCEPT ![IdOf(v)] = @ + 1]
      /\ UNCHANGED <<objects, entry, lock, thread>>

\* acquire_vnode(), remove_vnode() and put_vnode() of Unlink on an entry that
\* is ready: it is marked, and dropped by the put when nobody else has it.
Unlink(t, d, n) ==
  LET v == fNodes[d][n]
      i == IdOf(v)
      rest == <<"release", "delete", "unlock">>
  IN  /\ Lock(t)
      /\ Called(d)
      /\ v # Null /\ Kind(v) = "file"
      /\ fNodes' = [fNodes EXCEPT ![d][n] = Null]
      /\ IF Ready(i) /\ entry[i].ref = 0
         THEN /\ entry' = [entry EXCEPT ![i] = Entry(v, 0, TRUE, t)]
              /\ thread' = CallOn(t, d, <<"release", "delete", "drop">> \o rest,
                                  i, v)
         ELSE /\ entry' = [entry EXCEPT ![i] =
                   IF Ready(i) THEN [@ EXCEPT !.removed = TRUE] ELSE @]
              /\ thread' = CallOn(t, d, rest, i, v)
      /\ UNCHANGED <<vn, fRef, fIds, owed>>

RemoveDir(t, d, n) ==
  LET v == fNodes[d][n]
  IN  /\ Lock(t)
      /\ Called(d)
      /\ v # Null /\ Kind(v) = "dir"
      /\ Empty(v)
      /\ fNodes' = [fNodes EXCEPT ![d][n] = Null]
      /\ thread' = CallOn(t, d, <<"release", "delete", "mark", "unlock">>,
                          IdOf(v), v)
      /\ UNCHANGED <<vn, fRef, fIds, entry, owed>>

\* remove_vnode(vnode->Id()): of a vnode that was deleted, any number.
Mark(t, i) ==
  /\ Doing(t, "mark")
  /\ Alive(thread[t].vnode) => i = IdOf(thread[t].vnode)
  /\ entry' = [entry EXCEPT ![i] =
                 IF Known(i) THEN [@ EXCEPT !.removed = TRUE] ELSE @]
  /\ thread' = After(t)
  /\ UNCHANGED <<objects, lock, owed>>

-----------------------------------------------------------------------------
Init ==
  /\ vn = [v \in Vnode |-> Absent]
  /\ fRef = [v \in Vnode |-> 0]
  /\ fNodes = [d \in Vnode \cup {Root} |-> [n \in Name |-> Null]]
  /\ fIds = [i \in Id |-> Null]
  /\ entry = [i \in Id |-> Absent]
  /\ lock = Nobody
  /\ thread = [t \in Thread |-> Idle]
  /\ owed = [i \in Id |-> 0]

\* What a thread in a call does next.
Step(t) ==
  \/ Publish(t) \/ Drop(t) \/ GiveUp(t)
  \/ Release(t) \/ Delete(t) \/ DeleteEnds(t)
  \/ GetVnode(t) \/ Get(t) \/ GetFails(t) \/ Insert(t) \/ Unlock(t)
  \/ \E n \in Name : ReleaseEntry(t, n)
  \/ \E i \in Id : Mark(t, i)

Next ==
  \E t \in Thread :
    \/ Step(t)
    \/ \E i \in Id : GetByNumber(t, i) \/ Put(t, i) \/ Evict(t, i)
    \/ \E d \in Vnode : LookupDots(t, d)
    \/ \E d \in Vnode \cup {Root}, n \in Name :
         \/ Lookup(t, d, n) \/ CreateOpens(t, d, n)
         \/ Unlink(t, d, n) \/ RemoveDir(t, d, n)
         \/ \E v \in Vnode :
              \/ \E i \in Id : Create(t, d, n, v, i) \/ CreateDir(t, d, n, v, i)
              \/ \E k \in {"dir", "file"} : NewVnodeFails(t, d, n, k, v)

\* A thread in a call is scheduled, and gets the lock when it is free over and
\* over again.
Fairness == \A t \in Thread : SF_vars(Step(t))

Spec == Init /\ [][Next]_vars /\ Fairness

-----------------------------------------------------------------------------
(* Properties.                                                             *)

Named(v) ==
  {at \in (Vnode \cup {Root}) \X Name : fNodes[at[1]][at[2]] = v}

\* The references that the VFS has to v, or is about to get or give up.
Holders(v) ==
  {i \in Id : Ready(i) /\ entry[i].vnode = v}
  \cup {t \in Thread : Doing(t, "publish") /\ thread[t].vnode = v}

\* The references that a hook still has to release, or to hand to the tree.
Pending(v) ==
  {at \in Thread \X (1..6) :
     /\ thread[at[1]].vnode = v
     /\ at[2] \in DOMAIN thread[at[1]].plan
     /\ thread[at[1]].plan[at[2]] \in {"release", "insert"}}

\* Whatever steps interleave, and without a lock around the releases, each
\* count is the number of those who will release the vnode.
CountsExact ==
  \A v \in Vnode : Alive(v) =>
    fRef[v] = Cardinality(Named(v)) + Cardinality(Holders(v))
              + Cardinality(Pending(v))

\* No number leads to freed memory: fIds, the trees and what the VFS uses are
\* of objects that exist, and have that number.
NumbersLive ==
  /\ \A i \in Id : fIds[i] # Null => Alive(fIds[i]) /\ IdOf(fIds[i]) = i
  /\ \A i \in Id :
       Ready(i) => Alive(entry[i].vnode) /\ IdOf(entry[i].vnode) = i
  /\ \A d \in Vnode \cup {Root}, n \in Name :
       fNodes[d][n] # Null => Alive(fNodes[d][n])

\* ~ShmfsVnode takes the lock to leave fIds (ShmfsVnode.cpp:23, 33) after the
\* count has reached zero: nobody finds the vnode in between and acquires it.
NoResurrection ==
  [][\A v \in Vnode : Alive(v) /\ fRef[v] = 0 => fRef'[v] = 0]_vars

\* The next step of a call that has an entry can be taken: it needs no lock, or
\* can take it.
Unhindered(t) ==
  \/ Doing(t, "publish") \/ MayRelease(t) \/ MayDestroy(t)
  \/ Doing(t, "delete") /\ thread[t].todo = <<>>
  \/ Doing(t, "drop")

\* Thread t has called step in a hook, with the lock, and waits for u.
WaitsFor(t, u, step) ==
  /\ Doing(t, step) /\ Busy(thread[t].id)
  /\ u # t /\ entry[thread[t].id].busy = u

\* A hook that looks up a name or creates a file, and waits for a busy entry
\* with the lock in its hands (ShmfsDirectoryVnode.cpp:233, 323), waits for a
\* thread in GetVnode, or for one that needs no lock: never for the drop of a
\* vnode whose destructor waits for the lock.
NoWaitForDestructor ==
  \A t, u \in Thread :
    WaitsFor(t, u, "get") => Doing(u, "GetVnode") \/ Unhindered(u)

\* The same for "..", which the code does not have: the parent of a directory
\* that was removed, and is still open, may be dropped at that moment.
DotsDoNotWait ==
  \A t, u \in Thread :
    WaitsFor(t, u, "getDots") => Doing(u, "GetVnode") \/ Unhindered(u)

\* Callers have as many references as the VFS counts.  The code does not have
\* this: Create of a file that exists (ShmfsDirectoryVnode.cpp:218) returns a
\* number without get_vnode().
CallersCounted ==
  \A i \in Id : owed[i] = IF Ready(i) THEN entry[i].ref ELSE 0

\* ~ShmfsVnode locks the lock of its volume (ShmfsVnode.cpp:23): a vnode that
\* is destroyed was registered.  The code does not have this when SetName,
\* SetPath or Open fails.
DestructorsLock ==
  \A t \in Thread : thread[t].todo # <<>> => IdOf(Destroyed(t)) # Null

\* The promise that Shmfs gives with operations that are atomic, kept by calls
\* that are not: a vnode is there until its last reference is released, and
\* is used as long as there is one besides that of its entry.
LiveNodes == {Root} \cup {v \in Vnode : Alive(v) /\ fRef[v] > 0}
UsedNodes == {Root} \cup {v \in Vnode : Alive(v) /\
                             fRef[v] > IF Linked(v) THEN 1 ELSE 0}
TreeEntries == UNION {{[dir |-> d, name |-> n, node |-> fNodes[d][n]] :
                         n \in {m \in Name : fNodes[d][m] # Null}} :
                           d \in Vnode \cup {Root}}

Files == INSTANCE Namespace WITH
  Node <- Vnode \cup {Root},
  live <- LiveNodes, used <- UsedNodes, entries <- TreeEntries

ImplementsNamespace == Files!Spec

\* Each call ends, with no thread left behind in a wait, unless a destructor
\* has faulted with the lock held.
HooksReturn ==
  \A t \in Thread : thread[t] # Idle ~> thread[t] = Idle \/ ~DestructorsLock
=============================================================================
