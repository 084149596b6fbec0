-------------------------- MODULE MCXdgPositioner ---------------------------
(* Small instances of XdgPositioner for TLC. *)
EXTENDS XdgPositioner

(* A popup that fits the work area, and one that is wider than it. *)
MCSize == {[width |-> 3, height |-> 2], [width |-> 9, height |-> 4]}

(* An anchor near the middle, and one that crosses the area's corner. *)
MCAnchorRect == {[x |-> 2, y |-> 3, width |-> 2, height |-> 1],
                 [x |-> 5, y |-> 6, width |-> 3, height |-> 2]}

MCOffset == {[x |-> 1, y |-> -1]}

MCSide == {[x |-> -1, y |-> -1], [x |-> 1, y |-> 1], [x |-> 0, y |-> 1]}

MCAdjustment == {{"flipX", "flipY"}, {"flipX", "slideX", "slideY"}, Flag}

MCWorkArea == {[left |-> 0, top |-> 0, right |-> 7, bottom |-> 7]}
=============================================================================
