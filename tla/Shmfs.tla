------------------------------- MODULE Shmfs -------------------------------
(***************************************************************************)
(* The vnodes of a mounted shmfs volume: which objects exist, who holds a  *)
(* reference to them, which inode numbers they own and which directory     *)
(* lists them.  Every operation that takes the volume lock is one atomic   *)
(* action; the VFS, which is outside the repository, is the environment:   *)
(* it keeps at most one entry per inode number, calls get_vnode when it    *)
(* creates the entry and put_vnode or remove_vnode once when it drops it.  *)
(*                                                                         *)
(* A vnode is identified by its address, so that freed memory can be       *)
(* reused and a raw pointer (fParent) can outlive the object it names.     *)
(***************************************************************************)
EXTENDS Naturals

CONSTANTS
  Vnode,          \* addresses a ShmfsVnode object can have
  Id,             \* inode numbers fIdPool manages
  Name,           \* entry names other than "." and ".."
  NoVnode,        \* the null pointer
  NoId,           \* fId = 0, a vnode that was never registered
  NoName,         \* fName not set
  MaxVfsRef,      \* bound on the reference count of a VFS entry
  MemoryMayFail   \* whether new(std::nothrow) and the kernel may fail

ASSUME ConstantsAssumption ==
  /\ NoVnode \notin Vnode
  /\ NoId \notin Id
  /\ NoName \notin Name
  /\ MaxVfsRef \in Nat
  /\ MemoryMayFail \in BOOLEAN

VARIABLES
  vn,          \* the fields of the object at each address (Freed: no object)
  fRef,        \* BReferenceable's count of each object
  fNodes,      \* the entries of each directory, ShmfsDirectoryVnode::fNodes
  fIds,        \* ShmfsVolume::fIds, the vnode registered under each number
  idAlloc,     \* the numbers fIdPool has handed out
  fRootVnode,  \* ShmfsVolume::fRootVnode
  vfsNode,     \* the private_node of the VFS entry of each number
  vfsRef,      \* the reference count of that entry
  vfsRemoved,  \* whether remove_vnode() has marked that entry
  leaked,      \* history: objects whose directory reference nobody owns
  phase        \* life of the volume

vfsVars == <<vfsNode, vfsRef, vfsRemoved>>
vars == <<vn, fRef, fNodes, fIds, idAlloc, fRootVnode, vfsVars, leaked, phase>>

Kinds == {"dir", "file", "symlink"}
Phases == {"idle", "mounted", "unmounting", "unmounted", "aborted"}
Freed == [kind |-> "none", id |-> NoId, name |-> NoName, parent |-> NoVnode]

\* The fields of an object.
Fields == [kind : Kinds \cup {"none"}, id : Id \cup {NoId},
           name : Name \cup {NoName}, parent : Vnode \cup {NoVnode}]

TypeOK ==
  /\ vn \in [Vnode -> Fields]
  /\ fRef \in [Vnode -> Nat]
  /\ fNodes \in [Vnode -> SUBSET Vnode]
  /\ fIds \in [Id -> Vnode \cup {NoVnode}]
  /\ idAlloc \in SUBSET Id
  /\ fRootVnode \in Vnode \cup {NoVnode}
  /\ vfsNode \in [Id -> Vnode \cup {NoVnode}]
  /\ vfsRef \in [Id -> Nat]
  /\ vfsRemoved \in [Id -> BOOLEAN]
  /\ leaked \in SUBSET Vnode
  /\ phase \in Phases

-----------------------------------------------------------------------------
(* Reading the state.                                                      *)

Alive(v) == vn[v].kind # "none"
IsDir(v) == vn[v].kind = "dir"
Linked(v) == \E d \in Vnode : v \in fNodes[d]
Cached(i) == vfsNode[i] # NoVnode

\* fNodes.Find(name), as a set of at most one vnode.
Find(d, n) == {v \in fNodes[d] : vn[v].name = n}

\* The VFS calls a hook on a vnode only while it holds a reference to it.
Called(d) == /\ phase = "mounted"
             /\ \E i \in Id : vfsNode[i] = d /\ vfsRef[i] > 0

CalledDir(d) == Called(d) /\ IsDir(d)

-----------------------------------------------------------------------------
(* Pieces of the handlers.                                                 *)

\* Bug: the entry stays in the tree.
RemoveNodeForgets(nodes, d, v) == nodes

RemoveNode(nodes, d, v) == [nodes EXCEPT ![d] = @ \ {v}]

\* AVLTree::Insert leaves the tree alone when it already has the key.
Insert(nodes, vs, d, v) ==
  IF \E x \in nodes[d] : vs[x].name = vs[v].name
  THEN nodes
  ELSE [nodes EXCEPT ![d] = @ \cup {v}]

\* Bug: ~ShmfsDirectoryVnode does not release the entries.
DoomedAlone(v, n, nodes) == IF fRef[v] # n THEN {} ELSE {v}

\* The objects the destructors delete once v loses its last n references: v,
\* and every entry of a deleted directory that the directory alone held.
Doomed(v, n, nodes) ==
  IF fRef[v] # n THEN {}
  ELSE {x \in Vnode :
          \A S \in SUBSET Vnode :
            (/\ v \in S
             /\ \A d \in S : \A c \in nodes[d] : fRef[c] = 1 => c \in S)
            => x \in S}

\* ExternalAllocator::Free of each number: the abort() when one of them is not
\* allocated, and otherwise the phase next.
FreeIds(ids, pool, next) == IF ids \subseteq pool THEN next ELSE "aborted"

\* Bug: ~ShmfsVnode frees its number but stays in fIds.
ReleaseKeepsIds(v, n, nodes, vs, next) ==
  LET D == Doomed(v, n, nodes)
      ids == {vs[x].id : x \in D} \ {NoId}
  IN  /\ vn' = [x \in Vnode |-> IF x \in D THEN Freed ELSE vs[x]]
      /\ fRef' = [x \in Vnode |->
                    IF x \in D THEN 0
                    ELSE IF x = v THEN fRef[x] - n
                    ELSE IF \E d \in D : x \in nodes[d] THEN fRef[x] - 1
                    ELSE fRef[x]]
      /\ fNodes' = [x \in Vnode |-> IF x \in D THEN {} ELSE nodes[x]]
      /\ idAlloc' = idAlloc \ ids
      /\ phase' = FreeIds(ids, idAlloc, next)
      /\ UNCHANGED fIds

\* ReleaseReference() n times on v, with the destructors that follow when
\* nodes are the entries and vs the fields at that moment; next is the phase
\* of the volume afterwards.
Release(v, n, nodes, vs, next) ==
  LET D == Doomed(v, n, nodes)
      ids == {vs[x].id : x \in D} \ {NoId}
  IN  /\ vn' = [x \in Vnode |-> IF x \in D THEN Freed ELSE vs[x]]
      /\ fRef' = [x \in Vnode |->
                    IF x \in D THEN 0
                    ELSE IF x = v THEN fRef[x] - n
                    ELSE IF \E d \in D : x \in nodes[d] THEN fRef[x] - 1
                    ELSE fRef[x]]
      /\ fNodes' = [x \in Vnode |-> IF x \in D THEN {} ELSE nodes[x]]
      /\ fIds' = [i \in Id |-> IF fIds[i] \in D THEN NoVnode ELSE fIds[i]]
      /\ idAlloc' = idAlloc \ ids
      /\ phase' = FreeIds(ids, idAlloc, next)

\* get_vnode() on a number that fIds maps to v: the VFS adds a reference to
\* its entry, or makes one after ShmfsVolume::GetVnode acquired the vnode.
VfsGet(i, v) ==
  /\ vfsRef[i] < MaxVfsRef
  /\ vfsNode' = [vfsNode EXCEPT ![i] = IF Cached(i) THEN @ ELSE v]
  /\ vfsRef' = [vfsRef EXCEPT ![i] = @ + 1]
  /\ UNCHANGED vfsRemoved

\* The VFS forgets entry i.
VfsDrop(i) ==
  /\ vfsNode' = [vfsNode EXCEPT ![i] = NoVnode]
  /\ vfsRef' = [vfsRef EXCEPT ![i] = 0]
  /\ vfsRemoved' = [vfsRemoved EXCEPT ![i] = FALSE]

\* remove_vnode(): it only marks the entry, if there is one.
VfsRemove(i) ==
  /\ vfsRemoved' = [j \in Id |-> (j = i /\ Cached(j)) \/ vfsRemoved[j]]
  /\ UNCHANGED <<vfsNode, vfsRef>>

-----------------------------------------------------------------------------
(* Mount and unmount.                                                      *)

Init ==
  /\ vn = [v \in Vnode |-> Freed]
  /\ fRef = [v \in Vnode |-> 0]
  /\ fNodes = [v \in Vnode |-> {}]
  /\ fIds = [i \in Id |-> NoVnode]
  /\ idAlloc = {}
  /\ fRootVnode = NoVnode
  /\ vfsNode = [i \in Id |-> NoVnode]
  /\ vfsRef = [i \in Id |-> 0]
  /\ vfsRemoved = [i \in Id |-> FALSE]
  /\ leaked = {}
  /\ phase = "idle"

\* Bug: the number is not taken from the pool.
RegisterUnallocated(v, i) ==
  /\ ~Alive(v)
  /\ i \notin idAlloc
  /\ fIds' = [fIds EXCEPT ![i] = v]
  /\ UNCHANGED idAlloc

\* RegisterVnode(v) when the pool hands out i.
Register(v, i) ==
  /\ ~Alive(v)
  /\ i \notin idAlloc
  /\ idAlloc' = idAlloc \cup {i}
  /\ fIds' = [fIds EXCEPT ![i] = v]

Mount(v, i) ==
  /\ phase = "idle"
  /\ Register(v, i)
  /\ vn' = [vn EXCEPT ![v] = [Freed EXCEPT !.kind = "dir", !.id = i]]
  /\ VfsGet(i, v)
  /\ fRef' = [fRef EXCEPT ![v] = IF Cached(i) THEN 1 ELSE 2]
  /\ fRootVnode' = v
  /\ phase' = "mounted"
  /\ UNCHANGED <<fNodes, leaked>>

\* The kernel has no memory for the root's VFS entry: ~ShmfsVolume destroys
\* its members in reverse order, fIdPool (which is then empty) before
\* fRootVnode, whose release frees the root and its number.
MountGetVnodeFails(v, i) ==
  /\ MemoryMayFail
  /\ phase = "idle"
  /\ ~Alive(v)
  /\ phase' = FreeIds({i}, {}, "unmounted")
  /\ UNCHANGED <<vn, fRef, fNodes, fIds, idAlloc, fRootVnode, vfsVars, leaked>>

\* The VFS unmounts a volume nobody uses and gives up its own reference to
\* the root; what is left are unreferenced entries, dropped by VfsEvict.
BeginUnmount ==
  /\ phase = "mounted"
  /\ \A i \in Id : vfsRef[i] = IF vfsNode[i] = fRootVnode THEN 1 ELSE 0
  /\ vfsRef' = [i \in Id |-> 0]
  /\ phase' = "unmounting"
  /\ UNCHANGED <<vn, fRef, fNodes, fIds, idAlloc, fRootVnode, vfsNode,
                 vfsRemoved, leaked>>

Unmount ==
  /\ phase = "unmounting"
  /\ \A i \in Id : ~Cached(i)
  /\ Release(fRootVnode, 1, fNodes, vn, "unmounted")
  /\ fRootVnode' = NoVnode
  /\ UNCHANGED <<vfsVars, leaked>>

-----------------------------------------------------------------------------
(* What the VFS does with vnodes.                                          *)

\* Bug: no AcquireReference() for the new VFS entry.
GetVnodeUnreferenced(i) ==
  /\ phase = "mounted"
  /\ Cached(i) \/ fIds[i] # NoVnode
  /\ VfsGet(i, fIds[i])
  /\ UNCHANGED <<vn, fRef, fNodes, fIds, idAlloc, fRootVnode, leaked, phase>>

\* ShmfsVolume::GetVnode through get_vnode(): fails when i is not registered.
GetVnode(i) ==
  /\ phase = "mounted"
  /\ Cached(i) \/ fIds[i] # NoVnode
  /\ VfsGet(i, fIds[i])
  /\ fRef' = [v \in Vnode |-> IF ~Cached(i) /\ v = fIds[i]
                              THEN fRef[v] + 1 ELSE fRef[v]]
  /\ UNCHANGED <<vn, fNodes, fIds, idAlloc, fRootVnode, leaked, phase>>

Lookup(d, n) ==
  /\ CalledDir(d)
  /\ \E v \in Find(d, n) : GetVnode(vn[v].id)

LookupDot(d) ==
  /\ CalledDir(d)
  /\ GetVnode(vn[d].id)

\* fParent->Id(): the parent may have been deleted since, and then the memory
\* may hold any value.
ParentId(d) ==
  IF Alive(vn[d].parent) THEN {vn[vn[d].parent].id} ELSE Id

LookupDotDot(d) ==
  /\ CalledDir(d)
  /\ vn[d].parent # NoVnode
  /\ \E i \in ParentId(d) : GetVnode(i)

\* The last put of an entry marked removed ends in the remove_vnode hook,
\* which releases the vnode; other entries stay cached.
VfsPut(i) ==
  /\ phase = "mounted"
  /\ vfsRef[i] > IF vfsNode[i] = fRootVnode THEN 1 ELSE 0
  /\ IF vfsRef[i] = 1 /\ vfsRemoved[i]
     THEN /\ Release(vfsNode[i], 1, fNodes, vn, phase)
          /\ VfsDrop(i)
     ELSE /\ vfsRef' = [vfsRef EXCEPT ![i] = @ - 1]
          /\ UNCHANGED <<vn, fRef, fNodes, fIds, idAlloc, phase, vfsNode,
                         vfsRemoved>>
  /\ UNCHANGED <<fRootVnode, leaked>>

\* The VFS drops an entry nobody references: the put_vnode hook, or the
\* remove_vnode hook if the entry is marked; both release the vnode.
VfsEvict(i) ==
  /\ phase \in {"mounted", "unmounting"}
  /\ Cached(i)
  /\ vfsRef[i] = 0
  /\ Release(vfsNode[i], 1, fNodes, vn, phase)
  /\ VfsDrop(i)
  /\ UNCHANGED <<fRootVnode, leaked>>

-----------------------------------------------------------------------------
(* Creating entries.                                                       *)

\* What Create, CreateDir and CreateSymlink share: a new registered vnode.
NewVnode(d, n, k, v, i) ==
  /\ CalledDir(d)
  /\ Find(d, n) = {}
  /\ Register(v, i)
  /\ vn' = [vn EXCEPT ![v] = [kind |-> k, id |-> i, name |-> n,
                              parent |-> d]]
  /\ UNCHANGED <<fRootVnode, phase>>

\* The reference of v's entry passes to the tree, unless Insert left v out.
KeepOrLose(nodes, d, v) ==
  leaked' = IF v \in nodes[d] THEN leaked ELSE leaked \cup {v}

\* fNodes.Insert(vnode); vnode.Detach().
Enter(d, v) ==
  /\ fNodes' = Insert(fNodes, vn', d, v)
  /\ KeepOrLose(fNodes', d, v)

Create(d, n, v, i) ==
  /\ NewVnode(d, n, "file", v, i)
  /\ VfsGet(i, v)
  /\ fRef' = [fRef EXCEPT ![v] = IF Cached(i) THEN 1 ELSE 2]
  /\ Enter(d, v)

\* ShmfsFileVnode::Init fails: the VFS reference is put back, the entry stays
\* cached, and Detach() drops the pointer to the vnode without a release.
CreateInitFails(d, n, v, i) ==
  /\ MemoryMayFail
  /\ NewVnode(d, n, "file", v, i)
  /\ vfsNode' = [vfsNode EXCEPT ![i] = IF Cached(i) THEN @ ELSE v]
  /\ fRef' = [fRef EXCEPT ![v] = IF Cached(i) THEN 1 ELSE 2]
  /\ leaked' = leaked \cup {v}
  /\ UNCHANGED <<fNodes, vfsRef, vfsRemoved>>

CreateDir(d, n, v, i) ==
  /\ NewVnode(d, n, "dir", v, i)
  /\ fRef' = [fRef EXCEPT ![v] = 1]
  /\ Enter(d, v)
  /\ UNCHANGED vfsVars

CreateSymlink(d, n, v, i) ==
  /\ NewVnode(d, n, "symlink", v, i)
  /\ fRef' = [fRef EXCEPT ![v] = 1]
  /\ Enter(d, v)
  /\ UNCHANGED vfsVars

-----------------------------------------------------------------------------
(* Removing and renaming entries.                                          *)

\* Bug: put_vnode() although acquire_vnode() found no entry.
UnlinkVnodeUnchecked(v, nodes, vs) ==
  Release(v, 2, nodes, vs, phase) /\ VfsDrop(vn[v].id)

\* The body of Unlink once the entry is out of the directory: if the VFS has
\* an entry it is marked, and if nobody uses it the put drops it at once.
UnlinkVnode(v, nodes, vs) ==
  LET i == vn[v].id
  IN  IF Cached(i) /\ vfsRef[i] = 0
      THEN Release(v, 2, nodes, vs, phase) /\ VfsDrop(i)
      ELSE Release(v, 1, nodes, vs, phase) /\ VfsRemove(i)

\* The body of RemoveDir once the entry is out: vnode->Id() is read after the
\* release, so it may be read from freed memory.
RemoveDirVnode(v, nodes, vs) ==
  /\ Release(v, 1, nodes, vs, phase)
  /\ \E i \in (IF fRef[v] = 1 THEN Id \cup {NoId} ELSE {vn[v].id}) :
       VfsRemove(i)

RemoveEntry(v, nodes, vs) ==
  IF IsDir(v) THEN RemoveDirVnode(v, nodes, vs)
              ELSE UnlinkVnode(v, nodes, vs)

Unlink(d, n) ==
  /\ CalledDir(d)
  /\ \E v \in Find(d, n) :
       /\ ~IsDir(v)
       /\ UnlinkVnode(v, RemoveNode(fNodes, d, v), vn)
  /\ UNCHANGED <<fRootVnode, leaked>>

\* Bug: the directory may have entries.
RemoveDirUnchecked(d, n) ==
  /\ CalledDir(d)
  /\ \E v \in Find(d, n) :
       /\ IsDir(v)
       /\ RemoveDirVnode(v, RemoveNode(fNodes, d, v), vn)
  /\ UNCHANGED <<fRootVnode, leaked>>

RemoveDir(d, n) ==
  /\ CalledDir(d)
  /\ \E v \in Find(d, n) :
       /\ IsDir(v)
       /\ fNodes[v] = {}
       /\ RemoveDirVnode(v, RemoveNode(fNodes, d, v), vn)
  /\ UNCHANGED <<fRootVnode, leaked>>

\* The VFS refuses to rename an entry onto itself before it calls the hook.
VfsRenames(d, n, e, m) == ~(d = e /\ n = m)

\* Bug: the vnode stays listed under its old name.
RenameKeepsEntry(d, n, e, m, setName) ==
  /\ CalledDir(d)
  /\ CalledDir(e)
  /\ Find(e, m) = {}
  /\ \E v \in Find(d, n) :
       /\ vn' = [vn EXCEPT ![v].name = m]
       /\ fNodes' = Insert(fNodes, vn', e, v)
  /\ UNCHANGED <<fRef, fIds, idAlloc, fRootVnode, vfsVars, leaked, phase>>

\* RemoveNode(vnode); dstDirVnode->fNodes.Insert(vnode), under the name in vs.
Moved(nodes, vs, d, e, v) == Insert(RemoveNode(nodes, d, v), vs, e, v)

\* Rename(d, n, e, m): an entry in the way is removed first.  SetName can
\* fail, which is ignored: the vnode then enters e under its old name, and if
\* that name is taken no tree holds it.  fParent is not touched.
Rename(d, n, e, m, setName) ==
  /\ CalledDir(d)
  /\ CalledDir(e)
  /\ VfsRenames(d, n, e, m)
  /\ setName \/ MemoryMayFail
  /\ \E v \in Find(d, n) :
       LET vs == [vn EXCEPT ![v].name = IF setName THEN m ELSE @]
       IN  \/ /\ Find(e, m) = {}
              /\ vn' = vs
              /\ fNodes' = Moved(fNodes, vs, d, e, v)
              /\ KeepOrLose(fNodes', e, v)
              /\ UNCHANGED <<fRef, fIds, idAlloc, vfsVars, phase>>
           \/ \E old \in Find(e, m) :
                LET nodes == Moved(RemoveNode(fNodes, e, old), vs, d, e, v)
                IN  /\ fNodes[old] = {}
                    /\ RemoveEntry(old, nodes, vs)
                    /\ KeepOrLose(nodes, e, v)
  /\ UNCHANGED fRootVnode

-----------------------------------------------------------------------------

Next ==
  \/ \E v \in Vnode, i \in Id : Mount(v, i) \/ MountGetVnodeFails(v, i)
  \/ BeginUnmount
  \/ Unmount
  \/ \E i \in Id : GetVnode(i) \/ VfsPut(i) \/ VfsEvict(i)
  \/ \E d \in Vnode : LookupDot(d) \/ LookupDotDot(d)
  \/ \E d \in Vnode, n \in Name :
       \/ Lookup(d, n)
       \/ Unlink(d, n)
       \/ RemoveDir(d, n)
  \/ \E d, v \in Vnode, n \in Name, i \in Id :
       \/ Create(d, n, v, i)
       \/ CreateInitFails(d, n, v, i)
       \/ CreateDir(d, n, v, i)
       \/ CreateSymlink(d, n, v, i)
  \/ \E d, e \in Vnode, n, m \in Name, setName \in BOOLEAN :
       Rename(d, n, e, m, setName)

Spec == Init /\ [][Next]_vars

-----------------------------------------------------------------------------
(* Properties.                                                             *)

One(P) == IF P THEN 1 ELSE 0

\* The pointers that own a reference to v, other than its directory entry.
Others(v) == One(\E i \in Id : vfsNode[i] = v) + One(v = fRootVnode)
             + One(v \in leaked)

\* Every object's reference count is the number of pointers that own it: the
\* directory entry, the VFS entry, the volume's root pointer, and a pointer
\* lost on an error path.  So nothing is deleted while a directory or the VFS
\* still points to it, and nothing unowned survives.
RefsExact ==
  \A v \in Vnode : /\ fRef[v] = One(Linked(v)) + Others(v)
                   /\ Alive(v) <=> fRef[v] > 0

\* The inode number of a live object is registered to it alone and is
\* allocated, and an allocated number belongs to a live object: fIds, fIdPool
\* and the fId fields never disagree.
IdsExact ==
  /\ \A i \in Id : i \in idAlloc <=> fIds[i] # NoVnode
  /\ \A i \in idAlloc : Alive(fIds[i]) /\ vn[fIds[i]].id = i
  /\ \A v \in Vnode : Alive(v) => vn[v].id \in Id /\ fIds[vn[v].id] = v

\* An inode number is not given to another vnode while the VFS still knows it
\* under the old one, however Unlink, eviction and creation interleave.
VfsIdentity == \A i \in Id : Cached(i) => fIds[i] = vfsNode[i]

\* A vnode is in at most one fNodes tree (it has one fNameNode link), the tree
\* of a live directory, and it is not the root.
OneLink ==
  /\ \A d \in Vnode : fNodes[d] # {} => IsDir(d)
  /\ \A d, e \in Vnode : fNodes[d] \cap fNodes[e] # {} => d = e
  /\ \A d \in Vnode : fRootVnode \notin fNodes[d]

\* What the proofs need besides: an absent VFS entry has no references, the
\* root is set exactly while the volume is mounted, and a vnode whose
\* reference was lost is in no tree.
Bookkeeping ==
  /\ \A i \in Id : ~Cached(i) => vfsRef[i] = 0
  /\ phase = "idle" => fRootVnode = NoVnode
  /\ phase \in {"mounted", "unmounting"} => fRootVnode \in Vnode
  /\ \A v \in leaked : ~Linked(v)

\* The inductive invariant.
IInv == TypeOK /\ RefsExact /\ IdsExact /\ VfsIdentity /\ OneLink /\ Bookkeeping

\* fParent of a vnode in use is a vnode, not freed memory.  The code does not
\* have this: fParent holds no reference, and Rename does not change it.
ParentsAlive ==
  \A v \in Vnode : Called(v) /\ vn[v].parent # NoVnode => Alive(vn[v].parent)

\* A set of vnodes each of which is an entry of another: what Rename makes of
\* a directory moved below itself.
Cyclic == \E S \in (SUBSET Vnode) \ {{}} :
            \A v \in S : \E d \in S : v \in fNodes[d]

\* After Unmount no object is left, unless an error path lost a reference or a
\* directory was moved below itself.
UnmountFreesAll ==
  phase = "unmounted" /\ leaked = {} /\ ~Cyclic => \A v \in Vnode : ~Alive(v)

\* The same with cycles, which the code does not have: Rename lets a directory
\* move below itself, and nothing releases it then.
UnmountLeavesNothing ==
  phase = "unmounted" /\ leaked = {} => \A v \in Vnode : ~Alive(v)

\* A directory leaves the namespace only when it is empty, or together with
\* the deleted directory that listed it: no step loses a subtree that could
\* still be reached.
DirsLeaveEmpty ==
  [][\A v \in Vnode :
       IsDir(v) /\ Linked(v) /\ ~Linked(v)'
       => \/ fNodes[v] = {}
          \/ v \in leaked'
          \/ \E d \in Vnode : v \in fNodes[d] /\ ~Alive(d)']_vars

\* The same when SetName fails, which the code does not have: Rename goes on,
\* and a directory whose old name is taken in the target is in no tree.
DirsNeverLost ==
  [][\A v \in Vnode :
       IsDir(v) /\ Linked(v) /\ ~Linked(v)'
       => \/ fNodes[v] = {}
          \/ \E d \in Vnode : v \in fNodes[d] /\ ~Alive(d)']_vars

\* ExternalAllocator.cpp:105, "if (block == NULL || !block->fAllocated)
\* abort();": no vnode frees a number that is not allocated.
NeverAborts == phase # "aborted"

\* The same for a mounted volume, whatever fails: only a failing mount can
\* reach the abort().
AbortOnlyInMount == [][phase' = "aborted" => phase = "idle"]_vars

\* Create, CreateDir, CreateSymlink and Rename check for the name first, so
\* that Insert never meets a duplicate: without failures no vnode loses its
\* place in the tree while keeping the reference of one.
NothingLeaks == leaked = {}

\* What a volume promises, with the VFS and fRootVnode as the users of vnodes:
\* each operation changes the entries that it names and no other, directories
\* are empty when they are removed or replaced, and a vnode is deleted in the
\* step in which nobody uses or lists it any more.
LiveNodes == {v \in Vnode : Alive(v)}
UsedNodes == {v \in Vnode : v = fRootVnode \/ \E i \in Id : vfsNode[i] = v}
TreeEntries == UNION {{[dir |-> d, name |-> vn[v].name, node |-> v] :
                         v \in fNodes[d]} : d \in Vnode}

Files == INSTANCE Namespace WITH
  Node <- Vnode, live <- LiveNodes, used <- UsedNodes, entries <- TreeEntries

\* The promise, when nothing fails.
ImplementsNamespace == Files!Spec

=============================================================================
