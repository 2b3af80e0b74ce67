--------------------------- MODULE MCPageAllocator ---------------------------
(* Model of PageAllocator for TLC; the constants are in MCPageAllocator.cfg. *)
EXTENDS PageAllocator
=============================================================================
