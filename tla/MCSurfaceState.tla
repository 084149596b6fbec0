-------------------------- MODULE MCSurfaceState ----------------------------
(* A small instance of SurfaceState for TLC: a window with a subsurface.     *)
(* Its client draws both, and either moves the subsurface or writes anew     *)
(* into what it drew; or it draws the root once and asks for a viewport of   *)
(* the subsurface.                                                           *)
EXTENDS SurfaceState

CONSTANT MaxSerials \* bound on the content serials of both together

(* Source and destination, one at a time. *)
Viewport == {<<"viewportSrc", 1>>, <<"viewportDst", 1>>}

ContentOnly(s) ==
    /\ \A m \in Member \ {"buffer"} : fState[s][m] = Default /\ fPendingState[s][m] = Default
    /\ fPendingFields[s] \subseteq {"buffer", "offset"}

WrittenOnce == \A b \in Buffer : pixels[b] = 0
InPlace == unplaced = {} /\ \A c \in Child : position[c] = Default

Drawing ==
    /\ \A s \in Surface : ContentOnly(s)
    /\ \A c \in Child : fContentSerial[Root] + fContentSerial[c] <= MaxSerials
    /\ WrittenOnce \/ InPlace

Arranging ==
    /\ ContentOnly(Root)
    /\ fPendingFields[Root] = {} /\ ~fContentChanged[Root] /\ fContentSerial[Root] <= 2
    /\ WrittenOnce /\ InPlace

InstanceNext == Next /\ (Drawing' \/ Arranging')

InstanceSpec == Init /\ [][InstanceNext]_vars
=============================================================================
