--------------------------- MODULE XdgPositioner ----------------------------
(***************************************************************************)
(* Where a popup goes: the position an xdg_positioner asks for, adjusted   *)
(* by flipping and sliding so that it stays in the work area               *)
(* (HaikuXdgPositioner.cpp), and the popup that takes it                   *)
(* (HaikuXdgPopup.cpp).                                                    *)
(*                                                                         *)
(* Anchors and gravities are the edges they name on each axis: -1 left or  *)
(* top, 1 right or bottom, 0 neither.  A BRect spans [left, right] and     *)
(* [top, bottom], both ends included.  Coordinates are integers.           *)
(***************************************************************************)
EXTENDS Integers

CONSTANTS
    Size,        \* sizes a client asks for
    AnchorRect,  \* anchor rectangles, relative to the parent's geometry
    Offset,      \* offsets from the anchor
    Side,        \* anchors and gravities
    Adjustment,  \* constraint adjustments: sets of the flags below
    WorkArea,    \* the screen's frame in the parent's coordinates
    None         \* no positioner, no popup

Edge == {-1, 0, 1}
Direction == [x : Edge, y : Edge]
Flag == {"slideX", "slideY", "flipX", "flipY", "resizeX", "resizeY"}
Rect == [left : Int, top : Int, right : Int, bottom : Int]
State == [size : [width : Nat, height : Nat],
          anchorRect : [x : Int, y : Int, width : Nat, height : Nat],
          anchor : Direction, gravity : Direction,
          adjustment : SUBSET Flag,
          offset : [x : Int, y : Int]]

ASSUME SizeAssumption == Size \subseteq [width : Nat, height : Nat]
ASSUME AnchorRectAssumption == AnchorRect \subseteq [x : Int, y : Int, width : Nat, height : Nat]
ASSUME OffsetAssumption == Offset \subseteq [x : Int, y : Int]
ASSUME SideAssumption == Side \subseteq Direction
ASSUME AdjustmentAssumption == Adjustment \subseteq SUBSET Flag
ASSUME WorkAreaAssumption == WorkArea \subseteq Rect

VARIABLES
    fState,    \* HaikuXdgPositioner::fState of the client's positioner
    fPosition  \* HaikuXdgPopup::fPosition

vars == <<fState, fPosition>>

OffsetBy(r, dx, dy) ==
    [left |-> r.left + dx, top |-> r.top + dy, right |-> r.right + dx, bottom |-> r.bottom + dy]

(* The point of [from, from + length] an anchor edge names. *)
AnchorPoint(edge, from, length) ==
    CASE edge = -1 -> from
      [] edge = 1  -> from + length
      [] OTHER     -> from + length \div 2

(* How far gravity moves a popup of the given extent off its anchor. *)
GravityShift(edge, extent) ==
    CASE edge = -1 -> -extent
      [] edge = 1  -> 0
      [] OTHER     -> -(extent \div 2)

GetPosition(s) ==
    OffsetBy([left |-> s.offset.x, top |-> s.offset.y,
              right |-> s.offset.x + s.size.width - 1, bottom |-> s.offset.y + s.size.height - 1],
             AnchorPoint(s.anchor.x, s.anchorRect.x, s.anchorRect.width)
                 + GravityShift(s.gravity.x, s.size.width),
             AnchorPoint(s.anchor.y, s.anchorRect.y, s.anchorRect.height)
                 + GravityShift(s.gravity.y, s.size.height))

(* How far a rectangle sticks out of the work area on each side. *)
GetConstrainedOffsets(pos, area) ==
    [left |-> area.left - pos.left, top |-> area.top - pos.top,
     right |-> pos.right - area.right, bottom |-> pos.bottom - area.bottom]

IsUnconstrained(o) == o.left <= 0 /\ o.top <= 0 /\ o.right <= 0 /\ o.bottom <= 0

Flipped(d, flipX, flipY) == [x |-> IF flipX THEN -d.x ELSE d.x, y |-> IF flipY THEN -d.y ELSE d.y]

(* Faulty: the flip is taken for both axes or for neither. *)
FlipTogether(s, pos, area) ==
    LET o     == GetConstrainedOffsets(pos, area)
        flipX == (o.left > 0) # (o.right > 0) /\ "flipX" \in s.adjustment
        flipY == (o.top > 0) # (o.bottom > 0) /\ "flipY" \in s.adjustment
        fpos  == GetPosition([s EXCEPT !.anchor = Flipped(s.anchor, flipX, flipY),
                                       !.gravity = Flipped(s.gravity, flipX, flipY)])
    IN  IF IsUnconstrained(GetConstrainedOffsets(fpos, area)) THEN fpos ELSE pos

(* Each axis takes the flipped position only where that one fits. *)
UnconstrainByFlip(s, pos, area) ==
    LET o     == GetConstrainedOffsets(pos, area)
        flipX == (o.left > 0) # (o.right > 0) /\ "flipX" \in s.adjustment
        flipY == (o.top > 0) # (o.bottom > 0) /\ "flipY" \in s.adjustment
        fpos  == GetPosition([s EXCEPT !.anchor = Flipped(s.anchor, flipX, flipY),
                                       !.gravity = Flipped(s.gravity, flipX, flipY)])
        fo    == GetConstrainedOffsets(fpos, area)
        fitsX == fo.left <= 0 /\ fo.right <= 0
        fitsY == fo.top <= 0 /\ fo.bottom <= 0
    IN  IF ~flipX /\ ~flipY THEN pos
        ELSE [left   |-> IF fitsX THEN fpos.left ELSE pos.left,
              right  |-> IF fitsX THEN fpos.right ELSE pos.right,
              top    |-> IF fitsY THEN fpos.top ELSE pos.top,
              bottom |-> IF fitsY THEN fpos.bottom ELSE pos.bottom]

Abs(n) == IF n < 0 THEN -n ELSE n

(* Faulty: what sticks out at the high end slides it on. *)
SlideByOnward(edge, low, high) == IF Abs(low) < Abs(high) THEN low ELSE high

(* How far to slide a popup that sticks out by low and high. *)
SlideBy(edge, low, high) ==
    IF low > 0 /\ high > 0
    THEN IF edge = -1 THEN -high ELSE low
    ELSE IF Abs(low) < Abs(high) THEN low ELSE -high

UnconstrainBySlide(s, pos, area) ==
    LET o      == GetConstrainedOffsets(pos, area)
        slideX == (o.left > 0 \/ o.right > 0) /\ "slideX" \in s.adjustment
        slideY == (o.top > 0 \/ o.bottom > 0) /\ "slideY" \in s.adjustment
    IN  OffsetBy(pos, IF slideX THEN SlideBy(s.gravity.x, o.left, o.right) ELSE 0,
                      IF slideY THEN SlideBy(s.gravity.y, o.top, o.bottom) ELSE 0)

(* UnconstrainByResize computes a smaller rectangle and drops it: it leaves *)
(* the position alone whatever the resize flags say.                        *)
UnconstrainByResize(s, pos, area) == pos

UnconstrainPosition(s, pos, area) ==
    LET flipped == UnconstrainByFlip(s, pos, area)
        slid    == UnconstrainBySlide(s, flipped, area)
        Fits(p) == IsUnconstrained(GetConstrainedOffsets(p, area))
    IN  IF Fits(pos) THEN pos
        ELSE IF Fits(flipped) THEN flipped
        ELSE IF Fits(slid) THEN slid
        ELSE UnconstrainByResize(s, slid, area)

Position(s, area) == UnconstrainPosition(s, GetPosition(s), area)

-----------------------------------------------------------------------------
Init == fState = None /\ fPosition = None

(* HaikuXdgPositioner::fState{} starts as zeros. *)
Create ==
    /\ fState = None
    /\ fState' = [size |-> [width |-> 0, height |-> 0],
                  anchorRect |-> [x |-> 0, y |-> 0, width |-> 0, height |-> 0],
                  anchor |-> [x |-> 0, y |-> 0], gravity |-> [x |-> 0, y |-> 0],
                  adjustment |-> {}, offset |-> [x |-> 0, y |-> 0]]
    /\ UNCHANGED fPosition

Destroy == fState # None /\ fState' = None /\ UNCHANGED fPosition

HandleSetSize(v)   == fState # None /\ fState' = [fState EXCEPT !.size = v] /\ UNCHANGED fPosition
HandleSetAnchorRect(v) ==
    fState # None /\ fState' = [fState EXCEPT !.anchorRect = v] /\ UNCHANGED fPosition
HandleSetAnchor(v) == fState # None /\ fState' = [fState EXCEPT !.anchor = v] /\ UNCHANGED fPosition
HandleSetGravity(v) ==
    fState # None /\ fState' = [fState EXCEPT !.gravity = v] /\ UNCHANGED fPosition
HandleSetConstraintAdjustment(v) ==
    fState # None /\ fState' = [fState EXCEPT !.adjustment = v] /\ UNCHANGED fPosition
HandleSetOffset(v) == fState # None /\ fState' = [fState EXCEPT !.offset = v] /\ UNCHANGED fPosition

(* HaikuXdgPopup::UpdatePosition, by Create and by HandleReposition. *)
UpdatePosition(area) ==
    /\ fState # None
    /\ fPosition' = Position(fState, area)
    /\ UNCHANGED fState

Next ==
    \/ Create \/ Destroy
    \/ \E v \in Size : HandleSetSize(v)
    \/ \E v \in AnchorRect : HandleSetAnchorRect(v)
    \/ \E v \in Side : HandleSetAnchor(v) \/ HandleSetGravity(v)
    \/ \E v \in Adjustment : HandleSetConstraintAdjustment(v)
    \/ \E v \in Offset : HandleSetOffset(v)
    \/ \E area \in WorkArea : UpdatePosition(area)

Spec == Init /\ [][Next]_vars
-----------------------------------------------------------------------------
(* Properties *)

(* The positioner holds what its requests set, and a popup has a rectangle. *)
TypeOK == fState \in State \cup {None} /\ fPosition \in Rect \cup {None}

(* The sides of an axis the popup may be moved along, by the protocol's     *)
(* rules alone: [lo, hi] is the work area, p where the popup's low edge is  *)
(* asked to be, f where a flip would put it.                                *)
AxisPosition(p, f, size, edge, flip, slide, lo, hi) ==
    LET Fits(l)  == lo <= l /\ l + size - 1 <= hi
        oneSided == (p < lo) # (p + size - 1 > hi)
        atLow    == lo
        atHigh   == hi - size + 1
    IN  IF Fits(p) THEN p
        ELSE IF flip /\ oneSided /\ Fits(f) THEN f
        ELSE IF ~slide THEN p
        ELSE IF size <= hi - lo + 1 THEN (IF p < lo THEN atLow ELSE atHigh)
        ELSE IF oneSided THEN (IF p < lo THEN atHigh ELSE atLow)
        ELSE (IF edge = -1 THEN atHigh ELSE atLow)

(* The two axes do not disturb each other, though the code tests and        *)
(* replaces the rectangle as a whole: each ends up where the rules for one  *)
(* axis put it.                                                             *)
AxesIndependent == [][\A area \in WorkArea : UpdatePosition(area) =>
    LET s == fState
        p == GetPosition(s)
        f == GetPosition([s EXCEPT !.anchor = Flipped(@, TRUE, TRUE),
                                   !.gravity = Flipped(@, TRUE, TRUE)])
    IN  /\ fPosition'.left =
             AxisPosition(p.left, f.left, s.size.width, s.gravity.x, "flipX" \in s.adjustment,
                          "slideX" \in s.adjustment, area.left, area.right)
        /\ fPosition'.top =
             AxisPosition(p.top, f.top, s.size.height, s.gravity.y, "flipY" \in s.adjustment,
                          "slideY" \in s.adjustment, area.top, area.bottom)]_vars

(* Flipping and sliding move a popup and never resize it: its configure     *)
(* event carries the size the client asked for.                             *)
SizeKept == [][\A area \in WorkArea : UpdatePosition(area) =>
    /\ fPosition'.right - fPosition'.left + 1 = fState.size.width
    /\ fPosition'.bottom - fPosition'.top + 1 = fState.size.height]_vars

(* A popup that may slide along an axis and is no longer than the work area *)
(* ends inside the work area on that axis.                                  *)
SlideFits == [][\A area \in WorkArea : UpdatePosition(area) =>
    /\ "slideX" \in fState.adjustment /\ fState.size.width <= area.right - area.left + 1 =>
         area.left <= fPosition'.left /\ fPosition'.right <= area.right
    /\ "slideY" \in fState.adjustment /\ fState.size.height <= area.bottom - area.top + 1 =>
         area.top <= fPosition'.top /\ fPosition'.bottom <= area.bottom]_vars
=============================================================================
