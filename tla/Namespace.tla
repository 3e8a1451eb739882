------------------------------ MODULE Namespace ------------------------------
(***************************************************************************)
(* What a volume promises to who uses it: a graph of directories whose     *)
(* entries change one operation at a time.  A node lives exactly as long   *)
(* as somebody uses it or a living directory lists it; counts, numbers and *)
(* caches are of no interest.                                              *)
(***************************************************************************)
CONSTANTS Node, Name

VARIABLES
  live,    \* the nodes that exist
  used,    \* those that somebody uses, other than the directory that lists them
  entries  \* the entries of all directories

vars == <<live, used, entries>>

Entry(d, n, v) == [dir |-> d, name |-> n, node |-> v]

Free(d, n) == \A x \in entries : ~(x.dir = d /\ x.name = n)
Listed(v) == \E x \in entries : x.node = v
Leaf(v) == \A x \in entries : x.dir # v

\* When es are the entries, those nodes of from stay that are used or listed
\* by one that stays, and directories that go take their entries with them.
\* Directories that are moved below themselves may stay or go.
Settle(from, es) ==
  /\ live' \subseteq from
  /\ \A v \in Node : v \in live' <=>
       v \in used' \/ \E x \in es : x.node = v /\ x.dir \in live'
  /\ entries' = {x \in es : x.dir \in live'}

\* Whether others than v are used does not change.
UsesOnly(v) == used' \ {v} = used \ {v}

\* Somebody makes v, begins to use it or gives it up.
Refer(v) ==
  /\ UsesOnly(v)
  /\ Settle(live \cup {v}, entries)

\* v, which is new or just used, is listed under a name that is free.
Link(d, n, v) ==
  /\ d \in live /\ d # v
  /\ Free(d, n) /\ ~Listed(v) /\ Leaf(v)
  /\ UsesOnly(v)
  /\ Settle(live \cup {v}, entries \cup {Entry(d, n, v)})

\* An entry is taken out, of a directory only when it is empty.
Unlink(d, n, v) ==
  /\ Entry(d, n, v) \in entries
  /\ Leaf(v)
  /\ UsesOnly(v)
  /\ Settle(live, entries \ {Entry(d, n, v)})

\* An entry gets another directory and name, where nothing is in the way or w,
\* which is taken out at the same moment.
Move(d, n, e, m, v) ==
  LET old == Entry(d, n, v)
      new == Entry(e, m, v)
  IN  /\ old \in entries /\ new # old /\ e \in live
      /\ \/ /\ Free(e, m)
            /\ used' = used
            /\ Settle(live, (entries \ {old}) \cup {new})
         \/ \E w \in Node :
              /\ Entry(e, m, w) \in entries
              /\ Leaf(w)
              /\ UsesOnly(w)
              /\ Settle(live, (entries \ {old, Entry(e, m, w)}) \cup {new})

\* The nodes that are there from the start are in use.
Init == used \subseteq Node /\ live = used /\ entries = {}

Next ==
  \E v \in Node :
    \/ Refer(v)
    \/ \E d \in Node, n \in Name : Link(d, n, v) \/ Unlink(d, n, v)
    \/ \E d, e \in Node, n, m \in Name : Move(d, n, e, m, v)

Spec == Init /\ [][Next]_vars
=============================================================================
