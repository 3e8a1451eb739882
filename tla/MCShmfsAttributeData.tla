------------------------ MODULE MCShmfsAttributeData ------------------------
(* Instances of ShmfsAttributeData for TLC. *)
EXTENDS ShmfsAttributeData, TLC

Symmetry == Permutations(Addr) \cup Permutations(Thread) \cup Permutations(Datum)
=============================================================================
