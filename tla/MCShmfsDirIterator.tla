------------------------ MODULE MCShmfsDirIterator ------------------------
(* An instance of ShmfsDirIterator for TLC. *)
EXTENDS ShmfsDirIterator, TLC

Symmetry == Permutations(Vnode) \cup Permutations(Iter)
=============================================================================
