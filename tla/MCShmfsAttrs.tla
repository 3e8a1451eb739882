---------------------------- MODULE MCShmfsAttrs ----------------------------
(* An instance of ShmfsAttrs for TLC. *)
EXTENDS ShmfsAttrs, TLC

Symmetry == Permutations(File) \cup Permutations(Attr)
            \cup Permutations(Handle) \cup Permutations(Iter)
=============================================================================
