-------------------------- MODULE ShmfsDirIterator --------------------------
(***************************************************************************)
(* The open iterators of one directory while its entries come and go.      *)
(* fNodes is ordered by name; an iterator stands at ".", at ".." or at an  *)
(* entry, and RemoveNode moves the iterators off an entry it takes out.    *)
(*                                                                         *)
(* The volume lock makes every hook atomic but ReadDir, which is shown     *)
(* entry by entry, with the lock held.  A name is its place in the order   *)
(* of strcmp; "." and "..", which every scan returns first, come before.   *)
(***************************************************************************)
EXTENDS Naturals, Sequences

CONSTANTS
  Vnode,      \* addresses the entries can have
  Name,       \* entry names
  Iter,       \* addresses of ShmfsDirIterator objects
  NoVnode,    \* the null pointer
  NoIter      \* the lock is not held by a ReadDir

Dot == 0
DotDot == 1

ASSUME IteratorAssumption ==
  /\ Name \subseteq Nat \ {Dot, DotDot}
  /\ NoVnode \notin Vnode
  /\ NoIter \notin Iter

VARIABLES
  hasParent,   \* fParent # NULL: false in the root only
  name,        \* the name of the object at each address
  fNodes,      \* the entries of the directory
  cookies,     \* the iterators that exist
  fIterators,  \* those of them RemoveNode looks at
  cookie,      \* the fields of each iterator
  reader       \* the iterator of the ReadDir that holds the lock

vars == <<hasParent, name, fNodes, cookies, fIterators, cookie, reader>>

\* idx and node are the fields of the code.  The others are history since the
\* last rewind: the names returned, the names that have been there all the
\* time, and whether RemoveNode has moved this iterator past "." or "..".
Cookie == [idx : 0..2, node : Vnode \cup {NoVnode}, got : Seq(Nat),
           lasting : SUBSET Name, hit : BOOLEAN]

NewCookie == [idx |-> 0, node |-> NoVnode, got |-> <<>>, lasting |-> {},
              hit |-> FALSE]

TypeOK ==
  /\ hasParent \in BOOLEAN
  /\ name \in [Vnode -> Name]
  /\ fNodes \subseteq Vnode
  /\ \A v, w \in fNodes : name[v] = name[w] => v = w
  /\ cookies \subseteq Iter
  /\ fIterators \subseteq cookies
  /\ cookie \in [Iter -> Cookie]
  /\ reader \in fIterators \cup {NoIter}

-----------------------------------------------------------------------------
(* The tree of entries.                                                    *)

Find(n) == {v \in fNodes : name[v] = n}

LeftMost(nodes) ==
  IF nodes = {} THEN NoVnode
  ELSE CHOOSE v \in nodes : \A w \in nodes : name[v] <= name[w]

After(nodes, v) == LeftMost({w \in nodes : name[w] > name[v]})

\* AVLTree::Insert leaves the tree alone when it already has the key.
Insert(nodes, names, v) ==
  IF \E w \in nodes : names[w] = names[v] THEN nodes ELSE nodes \cup {v}

-----------------------------------------------------------------------------
(* Iterators.                                                              *)

IteratorRewind(nodes) ==
  [idx |-> 0, node |-> LeftMost(nodes), got |-> <<>>,
   lasting |-> {name[v] : v \in nodes}, hit |-> FALSE]

AtEnd(c) == c.idx = 2 /\ c.node = NoVnode

\* What IteratorGet returns, unless AtEnd(c).
IteratorGet(c) ==
  CASE c.idx = 0 -> Dot
    [] c.idx = 1 -> DotDot
    [] c.idx = 2 -> name[c.node]

\* Bug: the case of "." has no break.
IteratorNextFallsThrough(c, nodes, junk) ==
  IF c.idx = 2
  THEN [c EXCEPT !.node = IF @ \in nodes THEN After(nodes, @) ELSE junk]
  ELSE [c EXCEPT !.idx = IF @ = 0 /\ ~hasParent THEN 3 ELSE 2]

\* junk is where the links of an object that is not in the tree lead.
IteratorNext(c, nodes, junk) ==
  IF c.idx = 2
  THEN [c EXCEPT !.node = IF @ \in nodes THEN After(nodes, @) ELSE junk]
  ELSE [c EXCEPT !.idx = IF @ = 0 /\ hasParent THEN 1 ELSE 2]

\* History of a removal: the name no longer lasts, and an iterator that has
\* not reached the entries but has its node here is hit.
Forget(c, n, here) ==
  IF here /\ c.idx < 2
  THEN [c EXCEPT !.hit = TRUE, !.got = <<>>, !.lasting = {}]
  ELSE [c EXCEPT !.lasting = @ \ {n}]

\* Bug: the iterators are not looked at.
RemoveNodeOnly(cs, nodes, v) ==
  [it \in Iter |-> Forget(cs[it], name[v], FALSE)]

\* Bug: the entry is out of the tree before the iterators move on.
RemoveNodeFirst(cs, nodes, v) ==
  [it \in Iter |->
     LET here == it \in fIterators /\ cs[it].node = v
         c == Forget(cs[it], name[v], here)
     IN  IF here THEN IteratorNext(c, nodes \ {v}, NoVnode) ELSE c]

\* Bug: an iterator at the entry goes back to the first one that is left.
RemoveNodeRestarts(cs, nodes, v) ==
  [it \in Iter |->
     LET here == it \in fIterators /\ cs[it].node = v
         c == Forget(cs[it], name[v], here)
     IN  IF here THEN [c EXCEPT !.node = LeftMost(nodes \ {v})] ELSE c]

\* The iterators after RemoveNode(v), which then takes v out of nodes.
RemoveNode(cs, nodes, v) ==
  [it \in Iter |->
     LET here == it \in fIterators /\ cs[it].node = v
         c == Forget(cs[it], name[v], here)
     IN  IF here THEN IteratorNext(c, nodes, NoVnode) ELSE c]

-----------------------------------------------------------------------------
(* Hooks on the iterators.                                                 *)

Locked == reader # NoIter

OpenDir(it) ==
  /\ ~Locked
  /\ it \notin cookies
  /\ cookies' = cookies \cup {it}
  /\ fIterators' = fIterators \cup {it}
  /\ cookie' = [cookie EXCEPT ![it] = IteratorRewind(fNodes)]
  /\ UNCHANGED <<hasParent, name, fNodes, reader>>

RewindDir(it) ==
  /\ ~Locked
  /\ it \in fIterators
  /\ cookie' = [cookie EXCEPT ![it] = IteratorRewind(fNodes)]
  /\ UNCHANGED <<hasParent, name, fNodes, cookies, fIterators, reader>>

CloseDir(it) ==
  /\ ~Locked
  /\ it \in fIterators
  /\ fIterators' = fIterators \ {it}
  /\ UNCHANGED <<hasParent, name, fNodes, cookies, cookie, reader>>

\* No lock; the VFS calls it once the iterator is closed.
FreeDirCookie(it) ==
  /\ it \in cookies \ fIterators
  /\ cookies' = cookies \ {it}
  /\ cookie' = [cookie EXCEPT ![it] = NewCookie]
  /\ UNCHANGED <<hasParent, name, fNodes, fIterators, reader>>

BeginReadDir(it) ==
  /\ ~Locked
  /\ it \in fIterators
  /\ reader' = it
  /\ UNCHANGED <<hasParent, name, fNodes, cookies, fIterators, cookie>>

\* History of an entry returned.
Note(c) == IF c.hit THEN c ELSE [c EXCEPT !.got = Append(@, IteratorGet(c))]

\* One turn of the loop of ReadDir.
ReadEntry(it) ==
  /\ reader = it
  /\ ~AtEnd(cookie[it])
  /\ \E junk \in Vnode \cup {NoVnode} :
       cookie' = [cookie EXCEPT ![it] = IteratorNext(Note(@), fNodes, junk)]
  /\ UNCHANGED <<hasParent, name, fNodes, cookies, fIterators, reader>>

\* The loop ends at the end of the directory, or after any turn, because
\* the caller's buffer is full.
EndReadDir(it) ==
  /\ reader = it
  /\ reader' = NoIter
  /\ UNCHANGED <<hasParent, name, fNodes, cookies, fIterators, cookie>>

-----------------------------------------------------------------------------
(* Hooks on the entries.                                                   *)

\* Create, CreateDir and CreateSymlink.
CreateNode(v, n) ==
  /\ ~Locked
  /\ v \notin fNodes
  /\ Find(n) = {}
  /\ name' = [name EXCEPT ![v] = n]
  /\ fNodes' = fNodes \cup {v}
  /\ UNCHANGED <<hasParent, cookies, fIterators, cookie, reader>>

\* Unlink, RemoveDir, and Rename to another directory: the entry goes.
Unlink(v) ==
  /\ ~Locked
  /\ v \in fNodes
  /\ cookie' = RemoveNode(cookie, fNodes, v)
  /\ fNodes' = fNodes \ {v}
  /\ UNCHANGED <<hasParent, name, cookies, fIterators, reader>>

\* The part of Rename that clears the target name: the iterators afterwards.
RemoveTarget(n) ==
  IF Find(n) = {} THEN cookie
  ELSE RemoveNode(cookie, fNodes, CHOOSE w \in fNodes : name[w] = n)

\* Rename within the directory; if SetName fails the entry keeps its name.
Rename(v, n) ==
  LET rest == fNodes \ Find(n)
  IN  /\ ~Locked
      /\ v \in rest
      /\ cookie' = RemoveNode(RemoveTarget(n), rest, v)
      /\ \E m \in {n, name[v]} : name' = [name EXCEPT ![v] = m]
      /\ fNodes' = Insert(rest \ {v}, name', v)
      /\ UNCHANGED <<hasParent, cookies, fIterators, reader>>

\* Rename from another directory, where the entry had the name m.
RenameIn(v, m, n) ==
  LET rest == fNodes \ Find(n)
  IN  /\ ~Locked
      /\ v \notin fNodes
      /\ cookie' = RemoveTarget(n)
      /\ \E l \in {n, m} : name' = [name EXCEPT ![v] = l]
      /\ fNodes' = Insert(rest, name', v)
      /\ UNCHANGED <<hasParent, cookies, fIterators, reader>>

-----------------------------------------------------------------------------
Init ==
  /\ hasParent \in BOOLEAN
  /\ name \in [Vnode -> Name]
  /\ fNodes = {}
  /\ cookies = {}
  /\ fIterators = {}
  /\ cookie = [it \in Iter |-> NewCookie]
  /\ reader = NoIter

Next ==
  \/ \E it \in Iter :
       \/ OpenDir(it) \/ RewindDir(it) \/ CloseDir(it) \/ FreeDirCookie(it)
       \/ BeginReadDir(it) \/ ReadEntry(it) \/ EndReadDir(it)
  \/ \E v \in Vnode :
       \/ Unlink(v)
       \/ \E n \in Name :
            \/ CreateNode(v, n)
            \/ Rename(v, n)
            \/ \E m \in Name : RenameIn(v, m, n)

Spec == Init /\ [][Next]_vars

-----------------------------------------------------------------------------
(* Properties.                                                             *)

Scanning == {it \in fIterators : ~cookie[it].hit}

\* What RemoveNode is for: no open iterator points to an entry that has been
\* removed, so ReadDir never follows a pointer to a deleted vnode.
NoDangling ==
  \A it \in fIterators : cookie[it].node \in fNodes \cup {NoVnode}

\* The same, except for iterators hit before they reached the entries.
NodesTracked ==
  \A it \in Scanning : cookie[it].node \in fNodes \cup {NoVnode}

\* However entries are created, removed and renamed meanwhile, a scan returns
\* names in increasing order, and so none twice.
ScanIncreasing ==
  \A it \in Scanning :
    LET got == cookie[it].got
    IN  \A i, j \in DOMAIN got : i < j => got[i] < got[j]

\* A scan that has reached the end has returned ".", ".." (not in the root)
\* and every entry that was there all the time, whatever else was removed.
ScanComplete ==
  \A it \in Scanning :
    LET c == cookie[it]
        due == {Dot} \cup (IF hasParent THEN {DotDot} ELSE {}) \cup c.lasting
    IN  AtEnd(c) => \A n \in due : \E i \in DOMAIN c.got : c.got[i] = n
=============================================================================
