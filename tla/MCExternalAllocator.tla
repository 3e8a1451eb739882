------------------------ MODULE MCExternalAllocator ------------------------
(* ExternalAllocator for TLC, on a range of a few addresses.               *)
EXTENDS ExternalAllocator

=============================================================================
