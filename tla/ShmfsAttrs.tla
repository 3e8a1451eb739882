----------------------------- MODULE ShmfsAttrs -----------------------------
(***************************************************************************)
(* The extended attributes of a few vnodes: the tree fAttrs of each, the   *)
(* references that trees and cookies hold, and the iterators of attribute  *)
(* directories.  The data of an attribute is not looked at here.           *)
(*                                                                         *)
(* Every hook but FreeAttrCookie holds the volume lock, and FreeAttrCookie *)
(* is one atomic decrement, so each is one action.  An attribute is its    *)
(* address; it exists while its count is positive.  A name is its place in *)
(* the order of strcmp.                                                    *)
(***************************************************************************)
EXTENDS Naturals, FiniteSets

CONSTANTS
  File,           \* vnodes
  Attr,           \* addresses a ShmfsAttribute can have
  Name,           \* attribute names
  Handle,         \* attribute cookies the VFS can hold
  Iter,           \* addresses of ShmfsAttrDirIterator objects
  NoAttr,         \* the null pointer
  MemoryMayFail,  \* whether SetName may fail
  SelfRename      \* whether an attribute is ever renamed to its own name

ASSUME AttrsAssumption ==
  /\ Name \subseteq Nat /\ IsFiniteSet(Handle)
  /\ NoAttr \notin Attr
  /\ MemoryMayFail \in BOOLEAN
  /\ SelfRename \in BOOLEAN

VARIABLES
  name,    \* fName of each attribute
  ref,     \* BReferenceable's count of each attribute
  fAttrs,  \* the tree of each vnode
  handle,  \* what each cookie points to, and the vnode it was opened on
  iter,    \* the attribute directory iterators
  lost     \* history: attributes whose tree reference nobody owns

vars == <<name, ref, fAttrs, handle, iter, lost>>

Handles == [file : File, attr : Attr \cup {NoAttr}]
Iters == [file : File, attr : Attr \cup {NoAttr},
          state : {"none", "open", "closed"}]

TypeOK ==
  /\ name \in [Attr -> Name]
  /\ ref \in [Attr -> Nat]
  /\ fAttrs \in [File -> SUBSET Attr]
  /\ handle \in [Handle -> Handles]
  /\ iter \in [Iter -> Iters]
  /\ lost \subseteq Attr

-----------------------------------------------------------------------------
(* Pieces of the hooks.                                                    *)

Find(f, n) == {a \in fAttrs[f] : name[a] = n}

LeftMost(tree) ==
  IF tree = {} THEN NoAttr
  ELSE CHOOSE a \in tree : \A b \in tree : name[a] <= name[b]

After(tree, a) == LeftMost({b \in tree : name[b] > name[a]})

\* AVLTree::Insert leaves the tree alone when it already has the key.
Insert(trees, names, f, a) ==
  IF \E b \in trees[f] : names[b] = names[a] THEN trees
  ELSE [trees EXCEPT ![f] = @ \cup {a}]

\* Bug: the iterators stay where they are.
RemoveAttrFromForgets(its, tree, f, gone) == its

\* The iterators of f after RemoveAttr of each of gone, at most one.
RemoveAttrFrom(its, tree, f, gone) ==
  [i \in Iter |->
     IF its[i].state = "open" /\ its[i].file = f /\ its[i].attr \in gone
     THEN [its[i] EXCEPT !.attr = After(tree, @)]
     ELSE its[i]]

\* ReleaseReference of each of as; the last one deletes the attribute.
Release(as) == ref' = [a \in Attr |-> IF a \in as THEN ref[a] - 1 ELSE ref[a]]

-----------------------------------------------------------------------------
(* Cookies.                                                                *)

Unused(h) == handle[h].attr = NoAttr
Point(h, f, a) == handle' = [handle EXCEPT ![h] = [file |-> f, attr |-> a]]

\* Bug: the cookie has no reference of its own.
OpenAttrUnreferenced(f, n, h) ==
  /\ Unused(h)
  /\ \E a \in Find(f, n) : Point(h, f, a)
  /\ UNCHANGED <<name, ref, fAttrs, iter, lost>>

\* OpenAttr, and CreateAttr on a name that exists.
OpenAttr(f, n, h) ==
  /\ Unused(h)
  /\ \E a \in Find(f, n) :
       /\ ref' = [ref EXCEPT ![a] = @ + 1]
       /\ Point(h, f, a)
  /\ UNCHANGED <<name, fAttrs, iter, lost>>

\* Bug: the name is not looked up first.
CreateAttrUnchecked(f, n, h, a) ==
  /\ Unused(h)
  /\ ref[a] = 0
  /\ name' = [name EXCEPT ![a] = n]
  /\ fAttrs' = [fAttrs EXCEPT ![f] = @ \cup {a}]
  /\ ref' = [ref EXCEPT ![a] = 2]
  /\ Point(h, f, a)
  /\ UNCHANGED <<iter, lost>>

CreateAttr(f, n, h, a) ==
  /\ Unused(h)
  /\ Find(f, n) = {}
  /\ ref[a] = 0
  /\ name' = [name EXCEPT ![a] = n]
  /\ fAttrs' = [fAttrs EXCEPT ![f] = @ \cup {a}]
  /\ ref' = [ref EXCEPT ![a] = 2]
  /\ Point(h, f, a)
  /\ UNCHANGED <<iter, lost>>

\* Bug: the cookie keeps its reference.
FreeAttrCookieKeeps(h) ==
  /\ ~Unused(h)
  /\ Point(h, handle[h].file, NoAttr)
  /\ UNCHANGED <<name, ref, fAttrs, iter, lost>>

FreeAttrCookie(h) ==
  /\ ~Unused(h)
  /\ Release({handle[h].attr})
  /\ Point(h, handle[h].file, NoAttr)
  /\ UNCHANGED <<name, fAttrs, iter, lost>>

-----------------------------------------------------------------------------
(* Removing and renaming.                                                  *)

RemoveAttr(f, n) ==
  LET gone == Find(f, n)
  IN  /\ gone # {}
      /\ iter' = RemoveAttrFrom(iter, fAttrs[f], f, gone)
      /\ fAttrs' = [fAttrs EXCEPT ![f] = @ \ gone]
      /\ Release(gone)
      /\ UNCHANGED <<name, handle, lost>>

\* Bug: the attribute enters the target before what is in the way is out.
RenameAttrInsertsFirst(f, m, g, n) ==
  LET old == Find(g, n)
      trees == [fAttrs EXCEPT ![g] = @ \ old]
  IN  \E a \in Find(f, m) :
        /\ SelfRename \/ ~(f = g /\ m = n)
        /\ iter' = RemoveAttrFrom(RemoveAttrFrom(iter, fAttrs[g], g, old),
                                  trees[f], f, {a})
        /\ name' = [name EXCEPT ![a] = n]
        /\ fAttrs' = [Insert([fAttrs EXCEPT ![f] = @ \ {a}], name', g, a)
                        EXCEPT ![g] = @ \ old]
        /\ Release(old)
        /\ lost' = IF a \in fAttrs'[g] THEN lost ELSE lost \cup {a}
        /\ UNCHANGED handle

\* RenameAttr of m in f to n in g: what is in the way is removed, then m is
\* taken out and inserted under its new name, or its old one if SetName
\* fails.  When m is the one in the way it is released, and inserted again.
RenameAttr(f, m, g, n) ==
  LET old == Find(g, n)
      trees == [fAttrs EXCEPT ![g] = @ \ old]
  IN  \E a \in Find(f, m) :
        /\ SelfRename \/ ~(f = g /\ m = n)
        /\ iter' = RemoveAttrFrom(RemoveAttrFrom(iter, fAttrs[g], g, old),
                                  trees[f], f, {a})
        /\ \E l \in {n} \cup (IF MemoryMayFail THEN {m} ELSE {}) :
             name' = [name EXCEPT ![a] = l]
        /\ fAttrs' = Insert([trees EXCEPT ![f] = @ \ {a}], name', g, a)
        /\ Release(old)
        /\ lost' = IF a \in fAttrs'[g] THEN lost ELSE lost \cup {a}
        /\ UNCHANGED handle

\* ~ShmfsVnode: the VFS has closed everything that was opened on f.  The
\* address is then that of a new vnode without attributes.
DeleteVnode(f) ==
  /\ \A h \in Handle : ~Unused(h) => handle[h].file # f
  /\ \A i \in Iter : iter[i].state # "none" => iter[i].file # f
  /\ Release(fAttrs[f])
  /\ fAttrs' = [fAttrs EXCEPT ![f] = {}]
  /\ UNCHANGED <<name, handle, iter, lost>>

-----------------------------------------------------------------------------
(* Iterators.                                                              *)

SetIter(i, f, a, state) ==
  /\ iter' = [iter EXCEPT ![i] = [file |-> f, attr |-> a, state |-> state]]
  /\ UNCHANGED <<name, ref, fAttrs, handle, lost>>

OpenAttrDir(f, i) ==
  iter[i].state = "none" /\ SetIter(i, f, LeftMost(fAttrs[f]), "open")

RewindAttrDir(i) ==
  LET f == iter[i].file
  IN  iter[i].state = "open" /\ SetIter(i, f, LeftMost(fAttrs[f]), "open")

\* One entry; a call with room for several is several of these in a row.
ReadAttrDir(i) ==
  LET f == iter[i].file
  IN  /\ iter[i].state = "open"
      /\ iter[i].attr # NoAttr
      /\ SetIter(i, f, After(fAttrs[f], iter[i].attr), "open")

CloseAttrDir(i) ==
  iter[i].state = "open" /\ SetIter(i, iter[i].file, iter[i].attr, "closed")

FreeAttrDirCookie(i) ==
  iter[i].state = "closed" /\ SetIter(i, iter[i].file, NoAttr, "none")

-----------------------------------------------------------------------------
Init ==
  /\ name \in [Attr -> Name]
  /\ ref = [a \in Attr |-> 0]
  /\ fAttrs = [f \in File |-> {}]
  /\ handle \in [Handle -> [file : File, attr : {NoAttr}]]
  /\ iter \in [Iter -> [file : File, attr : {NoAttr}, state : {"none"}]]
  /\ lost = {}

Next ==
  \/ \E f \in File :
       \/ DeleteVnode(f)
       \/ \E i \in Iter : OpenAttrDir(f, i)
       \/ \E n \in Name :
            \/ RemoveAttr(f, n)
            \/ \E g \in File, m \in Name : RenameAttr(f, m, g, n)
            \/ \E h \in Handle :
                 \/ OpenAttr(f, n, h)
                 \/ \E a \in Attr : CreateAttr(f, n, h, a)
  \/ \E h \in Handle : FreeAttrCookie(h)
  \/ \E i \in Iter :
       \/ RewindAttrDir(i) \/ ReadAttrDir(i)
       \/ CloseAttrDir(i) \/ FreeAttrDirCookie(i)

Spec == Init /\ [][Next]_vars

-----------------------------------------------------------------------------
(* Properties.                                                             *)

Trees(a) == {f \in File : a \in fAttrs[f]}
Cookies(a) == {h \in Handle : handle[h].attr = a}

\* An attribute is counted once for its tree and once for each cookie, so it
\* is deleted when the last of them lets go, and not before: a cookie never
\* points to a deleted attribute, whatever is removed or renamed over.
AttrRefsExact ==
  \A a \in Attr :
    ref[a] = Cardinality(Trees(a)) + Cardinality(Cookies(a))
             + (IF a \in lost THEN 1 ELSE 0)

\* Removals and renames, within a vnode and between two, leave no attribute
\* in two trees and no name twice in one.
AttrsOneTree ==
  /\ \A f, g \in File : fAttrs[f] \cap fAttrs[g] # {} => f = g
  /\ \A f \in File : \A a, b \in fAttrs[f] : name[a] = name[b] => a = b

\* No open iterator points to an attribute that is no longer in its tree,
\* so that ReadAttrDir follows no pointer to a deleted one.
AttrItersLive ==
  \A i \in Iter : iter[i].state = "open" =>
    iter[i].attr \in fAttrs[iter[i].file] \cup {NoAttr}

\* A rename makes room for the new name before it inserts: an attribute falls
\* out of the trees, with their reference, only when SetName fails and Insert
\* meets the old name in the other vnode.
NoAttrLost == [][\A a \in lost' \ lost : name'[a] = name[a]]_vars
=============================================================================
