------------------------- MODULE MCFrameCallbacks --------------------------
(* Three callbacks: two in the list while a third is committed. *)
EXTENDS FrameCallbacks
=============================================================================
