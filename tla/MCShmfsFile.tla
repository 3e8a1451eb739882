---------------------------- MODULE MCShmfsFile ----------------------------
(* Instances of ShmfsFile for TLC. *)
EXTENDS ShmfsFile, TLC

Symmetry == Permutations(Datum)
=============================================================================
