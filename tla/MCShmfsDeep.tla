---------------------------- MODULE MCShmfsDeep ----------------------------
(* Shmfs for TLC with one more vnode, so that a directory below the root    *)
(* can hold another directory.  To keep the run small it leaves out what    *)
(* the runs of MCShmfs cover: symlinks, and entries the VFS drops late; and *)
(* at most one entry is in another directory than the one it was made in.   *)
EXTENDS Shmfs, TLC

Symmetry == Permutations(Vnode) \cup Permutations(Id) \cup Permutations(Name)

Displaced(v) == \E d \in Vnode : v \in fNodes[d] /\ vn[v].parent # d

Shape ==
  /\ \A v \in Vnode : vn[v].kind # "symlink"
  /\ \A i \in Id : ~vfsRemoved[i]
  /\ \A v, w \in Vnode : Displaced(v) /\ Displaced(w) => v = w

=============================================================================
