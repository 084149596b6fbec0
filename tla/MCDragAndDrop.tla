--------------------------- MODULE MCDragAndDrop ---------------------------
(* Two windows, two buttons, and one source, used for drag after drag.      *)
EXTENDS DragAndDrop, TLC

CONSTANTS a, b, left, right, r

Apart == [s \in {a, b} |-> s]

(* Neither windows nor buttons are told apart. *)
AnyOrder == Permutations({a, b}) \cup Permutations({left, right})
=============================================================================
