------------------------- MODULE MCShmfsConcurrency -------------------------
(* Instances of ShmfsConcurrency for TLC.                                  *)
EXTENDS ShmfsConcurrency, TLC

Symmetry == Permutations(Thread) \cup Permutations(Vnode) \cup Permutations(Id)
            \cup Permutations(Name)

\* No guard of a step that changes anything else depends on owed: the number of
\* references that a put needs is never more than what callers are owed.
WithoutHistory == <<objects, entry, lock, thread>>

\* What follows when a vnode is acquired while it is being deleted is use of
\* freed memory: the runs in which that can happen stop there.
NobodyResurrected ==
  \A t \in Thread : \A k \in DOMAIN thread[t].todo : fRef[thread[t].todo[k]] = 0

\* The callers of get_vnode() hold at most three references at a time: states
\* with three are checked, and not continued.
FewReferences ==
  Cardinality({<<i, n>> \in Id \X (1..MaxVfsRef) :
                 Known(i) /\ n <= entry[i].ref}) <= 2
=============================================================================
