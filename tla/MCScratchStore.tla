--------------------------- MODULE MCScratchStore ---------------------------
(* ScratchStore on small instances. *)
EXTENDS ScratchStore
=============================================================================
