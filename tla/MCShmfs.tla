------------------------------ MODULE MCShmfs ------------------------------
(* Shmfs for TLC.  Addresses, numbers and names are interchangeable.       *)
EXTENDS Shmfs, TLC

Symmetry == Permutations(Vnode) \cup Permutations(Id) \cup Permutations(Name)

=============================================================================
