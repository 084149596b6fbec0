--------------------------- MODULE MCPointerFocus ---------------------------
(* Two windows, one of them with a subsurface that takes its own input, one *)
(* button and one wl_pointer.                                               *)
EXTENDS PointerFocus, TLC

CONSTANTS a, b, c, left, p

(* The view of b is in the window of a. *)
Windows == (a :> a) @@ (b :> a) @@ (c :> c)

Themselves == [s \in {a, b, c} |-> s]
=============================================================================
