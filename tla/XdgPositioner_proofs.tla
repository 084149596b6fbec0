------------------------ MODULE XdgPositioner_proofs ------------------------
(***************************************************************************)
(* Proofs about XdgPositioner for every positioner state and work area.    *)
(***************************************************************************)
EXTENDS XdgPositioner, TLAPS

(* The rectangles that are as large as the positioner says. *)
Sized(s, r) ==
    /\ r \in Rect
    /\ r.right = r.left + s.size.width - 1
    /\ r.bottom = r.top + s.size.height - 1

(* An anchor point and a shift by gravity are whole numbers. *)
LEMMA AxisTypes ==
  ASSUME NEW e \in Edge, NEW from \in Int, NEW n \in Nat
  PROVE  AnchorPoint(e, from, n) \in Int /\ GravityShift(e, n) \in Int
<1>1. n \div 2 \in Int
  OBVIOUS
<1> QED
  BY <1>1 DEF Edge, AnchorPoint, GravityShift

(* Moving a rectangle keeps its size. *)
LEMMA OffsetKeepsSize ==
  ASSUME NEW s \in State, NEW r, Sized(s, r), NEW dx \in Int, NEW dy \in Int
  PROVE  Sized(s, OffsetBy(r, dx, dy))
  BY DEF State, Sized, Rect, OffsetBy

(* The position asked for has the size asked for. *)
LEMMA PositionSized == ASSUME NEW s \in State PROVE Sized(s, GetPosition(s))
<1> DEFINE r == [left |-> s.offset.x, top |-> s.offset.y,
                 right |-> s.offset.x + s.size.width - 1,
                 bottom |-> s.offset.y + s.size.height - 1]
           dx == AnchorPoint(s.anchor.x, s.anchorRect.x, s.anchorRect.width)
                   + GravityShift(s.gravity.x, s.size.width)
           dy == AnchorPoint(s.anchor.y, s.anchorRect.y, s.anchorRect.height)
                   + GravityShift(s.gravity.y, s.size.height)
<1>1. /\ s.anchor.x \in Edge /\ s.anchor.y \in Edge /\ s.gravity.x \in Edge /\ s.gravity.y \in Edge
      /\ s.anchorRect.x \in Int /\ s.anchorRect.y \in Int
      /\ s.anchorRect.width \in Nat /\ s.anchorRect.height \in Nat
      /\ s.size.width \in Nat /\ s.size.height \in Nat
      /\ s.offset.x \in Int /\ s.offset.y \in Int
  BY DEF State, Direction
<1>2. dx \in Int /\ dy \in Int
  <2>1. /\ AnchorPoint(s.anchor.x, s.anchorRect.x, s.anchorRect.width) \in Int
        /\ GravityShift(s.gravity.x, s.size.width) \in Int
        /\ AnchorPoint(s.anchor.y, s.anchorRect.y, s.anchorRect.height) \in Int
        /\ GravityShift(s.gravity.y, s.size.height) \in Int
    BY <1>1, AxisTypes
  <2> QED
    BY <2>1
<1>3. Sized(s, r)
  BY <1>1 DEF Sized, Rect
<1>4. GetPosition(s) = OffsetBy(r, dx, dy)
  BY DEF GetPosition
<1> HIDE DEF r, dx, dy
<1> QED
  BY <1>2, <1>3, <1>4, OffsetKeepsSize

(* A flipped positioner is a positioner of the same size. *)
LEMMA FlippedState ==
  ASSUME NEW s \in State, NEW fx \in BOOLEAN, NEW fy \in BOOLEAN
  PROVE  LET f == [s EXCEPT !.anchor = Flipped(s.anchor, fx, fy),
                            !.gravity = Flipped(s.gravity, fx, fy)]
         IN  f \in State /\ f.size = s.size
<1>1. ASSUME NEW d \in Direction PROVE Flipped(d, fx, fy) \in Direction
  BY DEF Direction, Edge, Flipped
<1>2. s.anchor \in Direction /\ s.gravity \in Direction
  BY DEF State
<1>3. Flipped(s.anchor, fx, fy) \in Direction /\ Flipped(s.gravity, fx, fy) \in Direction
  BY <1>1, <1>2
<1> QED
  BY <1>3 DEF State

LEMMA FlipKeepsSize ==
  ASSUME NEW s \in State, NEW pos, Sized(s, pos), NEW area
  PROVE  Sized(s, UnconstrainByFlip(s, pos, area))
<1> DEFINE o     == GetConstrainedOffsets(pos, area)
           flipX == (o.left > 0) # (o.right > 0) /\ "flipX" \in s.adjustment
           flipY == (o.top > 0) # (o.bottom > 0) /\ "flipY" \in s.adjustment
           f     == [s EXCEPT !.anchor = Flipped(s.anchor, flipX, flipY),
                              !.gravity = Flipped(s.gravity, flipX, flipY)]
           fpos  == GetPosition(f)
           fo    == GetConstrainedOffsets(fpos, area)
           fitsX == fo.left <= 0 /\ fo.right <= 0
           fitsY == fo.top <= 0 /\ fo.bottom <= 0
<1>1. f \in State /\ f.size = s.size
  <2>1. flipX \in BOOLEAN /\ flipY \in BOOLEAN
    OBVIOUS
  <2> HIDE DEF flipX, flipY
  <2> QED
    BY <2>1, FlippedState
<1>2. Sized(s, fpos)
  <2> HIDE DEF f
  <2>1. Sized(f, fpos)
    BY <1>1, PositionSized
  <2> QED
    BY <1>1, <2>1 DEF Sized
<1>3. UnconstrainByFlip(s, pos, area) =
        IF ~flipX /\ ~flipY THEN pos
        ELSE [left   |-> IF fitsX THEN fpos.left ELSE pos.left,
              right  |-> IF fitsX THEN fpos.right ELSE pos.right,
              top    |-> IF fitsY THEN fpos.top ELSE pos.top,
              bottom |-> IF fitsY THEN fpos.bottom ELSE pos.bottom]
  BY DEF UnconstrainByFlip
<1> HIDE DEF flipX, flipY, fpos, fitsX, fitsY
<1> QED
  BY <1>2, <1>3 DEF Sized, Rect

LEMMA SlideKeepsSize ==
  ASSUME NEW s \in State, NEW pos, Sized(s, pos), NEW area \in Rect
  PROVE  Sized(s, UnconstrainBySlide(s, pos, area))
<1> DEFINE o      == GetConstrainedOffsets(pos, area)
           slideX == (o.left > 0 \/ o.right > 0) /\ "slideX" \in s.adjustment
           slideY == (o.top > 0 \/ o.bottom > 0) /\ "slideY" \in s.adjustment
           dx     == IF slideX THEN SlideBy(s.gravity.x, o.left, o.right) ELSE 0
           dy     == IF slideY THEN SlideBy(s.gravity.y, o.top, o.bottom) ELSE 0
<1>1. o.left \in Int /\ o.right \in Int /\ o.top \in Int /\ o.bottom \in Int
  BY DEF GetConstrainedOffsets, Sized, Rect
<1>2. dx \in Int /\ dy \in Int
  <2> HIDE DEF o, slideX, slideY
  <2> QED
    BY <1>1 DEF SlideBy, Abs
<1>3. UnconstrainBySlide(s, pos, area) = OffsetBy(pos, dx, dy)
  BY DEF UnconstrainBySlide
<1> HIDE DEF dx, dy
<1> QED
  BY <1>2, <1>3, OffsetKeepsSize

(* Wherever the popup ends up, it has the size asked for. *)
LEMMA PopupSized ==
  ASSUME NEW s \in State, NEW area \in Rect
  PROVE  Sized(s, Position(s, area))
<1> DEFINE pos     == GetPosition(s)
           flipped == UnconstrainByFlip(s, pos, area)
           slid    == UnconstrainBySlide(s, flipped, area)
<1>1. Sized(s, pos)
  BY PositionSized
<1>2. Sized(s, flipped)
  BY <1>1, FlipKeepsSize
<1>3. Sized(s, slid)
  BY <1>2, SlideKeepsSize
<1>4. Position(s, area) \in {pos, flipped, slid}
  BY DEF Position, UnconstrainPosition, UnconstrainByResize
<1> QED
  BY <1>1, <1>2, <1>3, <1>4

(* Sliding brings an axis into the work area that is long enough for it. *)
LEMMA SlideAxis ==
  ASSUME NEW s \in State, NEW pos, Sized(s, pos), NEW area \in Rect
  PROVE  LET p == UnconstrainBySlide(s, pos, area) IN
         /\ "slideX" \in s.adjustment /\ s.size.width <= area.right - area.left + 1 =>
              area.left <= p.left /\ p.right <= area.right
         /\ "slideY" \in s.adjustment /\ s.size.height <= area.bottom - area.top + 1 =>
              area.top <= p.top /\ p.bottom <= area.bottom
<1>1. /\ s.size.width \in Nat /\ s.size.height \in Nat
      /\ pos.left \in Int /\ pos.top \in Int /\ pos.right \in Int /\ pos.bottom \in Int
      /\ area.left \in Int /\ area.top \in Int /\ area.right \in Int /\ area.bottom \in Int
      /\ pos.right = pos.left + s.size.width - 1 /\ pos.bottom = pos.top + s.size.height - 1
  BY DEF State, Sized, Rect
<1> DEFINE p == UnconstrainBySlide(s, pos, area)
<1>2. ASSUME "slideX" \in s.adjustment, s.size.width <= area.right - area.left + 1
      PROVE  area.left <= p.left /\ p.right <= area.right
  BY <1>1, <1>2 DEF UnconstrainBySlide, GetConstrainedOffsets, OffsetBy, SlideBy, Abs
<1>3. ASSUME "slideY" \in s.adjustment, s.size.height <= area.bottom - area.top + 1
      PROVE  area.top <= p.top /\ p.bottom <= area.bottom
  BY <1>1, <1>3 DEF UnconstrainBySlide, GetConstrainedOffsets, OffsetBy, SlideBy, Abs
<1> QED
  BY <1>2, <1>3

LEMMA PopupSlides ==
  ASSUME NEW s \in State, NEW area \in Rect
  PROVE  LET p == Position(s, area) IN
         /\ "slideX" \in s.adjustment /\ s.size.width <= area.right - area.left + 1 =>
              area.left <= p.left /\ p.right <= area.right
         /\ "slideY" \in s.adjustment /\ s.size.height <= area.bottom - area.top + 1 =>
              area.top <= p.top /\ p.bottom <= area.bottom
<1> DEFINE pos     == GetPosition(s)
           flipped == UnconstrainByFlip(s, pos, area)
           slid    == UnconstrainBySlide(s, flipped, area)
           p       == Position(s, area)
           Fits(r) == IsUnconstrained(GetConstrainedOffsets(r, area))
<1>1. Sized(s, pos) /\ Sized(s, flipped)
  BY PositionSized, FlipKeepsSize
<1>2. p = slid \/ (p \in {pos, flipped} /\ Fits(p))
  BY DEF Position, UnconstrainPosition, UnconstrainByResize
<1>3. CASE p = slid
  BY <1>1, <1>3, SlideAxis
<1>4. CASE Sized(s, p) /\ Fits(p)
  BY <1>4 DEF Sized, Rect, IsUnconstrained, GetConstrainedOffsets
<1> HIDE DEF pos, flipped, slid, p, Fits
<1> QED
  BY <1>1, <1>2, <1>3, <1>4
(* One axis of UnconstrainByFlip and of UnconstrainBySlide. *)
FlippedAxis(p, f, size, flip, lo, hi) ==
    IF flip /\ (p < lo) # (p + size - 1 > hi) /\ lo <= f /\ f + size - 1 <= hi THEN f ELSE p
SlidAxis(q, size, edge, slide, lo, hi) ==
    IF slide /\ (lo - q > 0 \/ q + size - 1 - hi > 0)
    THEN q + SlideBy(edge, lo - q, q + size - 1 - hi) ELSE q

(* Flipping first and sliding then is what the rules for an axis say, and  *)
(* what was not needed changes nothing.                                     *)
AxisRule(p, f, size, edge, flip, slide, lo, hi) ==
    LET q == FlippedAxis(p, f, size, flip, lo, hi)
        r == SlidAxis(q, size, edge, slide, lo, hi)
    IN  /\ AxisPosition(p, f, size, edge, flip, slide, lo, hi) = r
        /\ lo <= q /\ q + size - 1 <= hi => r = q
        /\ lo <= p /\ p + size - 1 <= hi => q = p

LEMMA AxisRules ==
  ASSUME NEW p, NEW f, NEW size, NEW edge, NEW flip, NEW slide, NEW lo, NEW hi,
         p \in Int, f \in Int, size \in Nat, edge \in Edge, lo \in Int, hi \in Int
  PROVE  AxisRule(p, f, size, edge, flip, slide, lo, hi)
  BY DEF AxisRule, FlippedAxis, SlidAxis, AxisPosition, SlideBy, Abs, Edge

(* The positioner flipped as the code does it. *)
FlippedBy(s, fx, fy) ==
    [s EXCEPT !.anchor = Flipped(s.anchor, fx, fy), !.gravity = Flipped(s.gravity, fx, fy)]

(* Where a flip puts one axis does not depend on the flip of the other.     *)
LEMMA FlipsApart ==
  ASSUME NEW s \in State, NEW fx \in BOOLEAN, NEW fy \in BOOLEAN
  PROVE  LET f == GetPosition(FlippedBy(s, fx, fy))
             both == GetPosition(FlippedBy(s, TRUE, TRUE)) IN
         /\ f.left = IF fx THEN both.left ELSE GetPosition(s).left
         /\ f.top = IF fy THEN both.top ELSE GetPosition(s).top
  BY DEF FlippedBy, Flipped, GetPosition, OffsetBy, State, Direction

(* UnconstrainByFlip, axis by axis. *)
LEMMA FlipByAxes ==
  ASSUME NEW s \in State, NEW area \in Rect
  PROVE  LET pos == GetPosition(s)
             both == GetPosition(FlippedBy(s, TRUE, TRUE))
             flipped == UnconstrainByFlip(s, pos, area) IN
         /\ flipped.left = FlippedAxis(pos.left, both.left, s.size.width,
                                       "flipX" \in s.adjustment, area.left, area.right)
         /\ flipped.top = FlippedAxis(pos.top, both.top, s.size.height,
                                      "flipY" \in s.adjustment, area.top, area.bottom)
<1> DEFINE pos   == GetPosition(s)
           both  == GetPosition(FlippedBy(s, TRUE, TRUE))
           o     == GetConstrainedOffsets(pos, area)
           flipX == (o.left > 0) # (o.right > 0) /\ "flipX" \in s.adjustment
           flipY == (o.top > 0) # (o.bottom > 0) /\ "flipY" \in s.adjustment
           fpos  == GetPosition(FlippedBy(s, flipX, flipY))
           fo    == GetConstrainedOffsets(fpos, area)
           fitsX == fo.left <= 0 /\ fo.right <= 0
           fitsY == fo.top <= 0 /\ fo.bottom <= 0
<1>1. Sized(s, pos)
  BY PositionSized
<1>2. /\ Sized(s, fpos)
      /\ fpos.left = IF flipX THEN both.left ELSE pos.left
      /\ fpos.top = IF flipY THEN both.top ELSE pos.top
  <2>1. flipX \in BOOLEAN /\ flipY \in BOOLEAN
    OBVIOUS
  <2> HIDE DEF flipX, flipY
  <2>2. FlippedBy(s, flipX, flipY) \in State /\ FlippedBy(s, flipX, flipY).size = s.size
    BY <2>1, FlippedState DEF FlippedBy
  <2>3. Sized(FlippedBy(s, flipX, flipY), fpos)
    BY <2>2, PositionSized
  <2> QED
    BY <2>1, <2>2, <2>3, FlipsApart DEF Sized
<1>3. UnconstrainByFlip(s, pos, area) =
        IF ~flipX /\ ~flipY THEN pos
        ELSE [left   |-> IF fitsX THEN fpos.left ELSE pos.left,
              right  |-> IF fitsX THEN fpos.right ELSE pos.right,
              top    |-> IF fitsY THEN fpos.top ELSE pos.top,
              bottom |-> IF fitsY THEN fpos.bottom ELSE pos.bottom]
  BY DEF UnconstrainByFlip, FlippedBy
<1>4. /\ flipX = (((pos.left < area.left) # (pos.left + s.size.width - 1 > area.right))
                  /\ "flipX" \in s.adjustment)
      /\ flipY = (((pos.top < area.top) # (pos.top + s.size.height - 1 > area.bottom))
                  /\ "flipY" \in s.adjustment)
  BY <1>1 DEF GetConstrainedOffsets, Sized, Rect, State
<1>5. /\ fitsX = (area.left <= fpos.left /\ fpos.left + s.size.width - 1 <= area.right)
      /\ fitsY = (area.top <= fpos.top /\ fpos.top + s.size.height - 1 <= area.bottom)
  <2>1. Sized(s, fpos)
    BY <1>2
  <2> HIDE DEF fpos
  <2> QED
    BY <2>1 DEF GetConstrainedOffsets, Sized, Rect, State
<1>6. /\ UnconstrainByFlip(s, pos, area).left = IF flipX /\ fitsX THEN both.left ELSE pos.left
      /\ UnconstrainByFlip(s, pos, area).top = IF flipY /\ fitsY THEN both.top ELSE pos.top
  <2> HIDE DEF pos, both, flipX, flipY, fpos, fitsX, fitsY
  <2> QED
    BY <1>2, <1>3
<1>7. UnconstrainByFlip(s, pos, area).left
        = FlippedAxis(pos.left, both.left, s.size.width, "flipX" \in s.adjustment,
                      area.left, area.right)
  <2> HIDE DEF pos, both, flipX, flipY, fpos, fitsX, fitsY
  <2> QED
    BY <1>2, <1>4, <1>5, <1>6 DEF FlippedAxis
<1>8. UnconstrainByFlip(s, pos, area).top
        = FlippedAxis(pos.top, both.top, s.size.height, "flipY" \in s.adjustment,
                      area.top, area.bottom)
  <2> HIDE DEF pos, both, flipX, flipY, fpos, fitsX, fitsY
  <2> QED
    BY <1>2, <1>4, <1>5, <1>6 DEF FlippedAxis
<1> QED
  BY <1>7, <1>8

(* UnconstrainBySlide, axis by axis. *)
LEMMA SlideByAxes ==
  ASSUME NEW s \in State, NEW pos, Sized(s, pos), NEW area \in Rect
  PROVE  LET slid == UnconstrainBySlide(s, pos, area) IN
         /\ slid.left = SlidAxis(pos.left, s.size.width, s.gravity.x,
                                 "slideX" \in s.adjustment, area.left, area.right)
         /\ slid.top = SlidAxis(pos.top, s.size.height, s.gravity.y,
                                "slideY" \in s.adjustment, area.top, area.bottom)
<1>1. /\ pos.left \in Int /\ pos.top \in Int
      /\ pos.right = pos.left + s.size.width - 1
      /\ pos.bottom = pos.top + s.size.height - 1
      /\ s.size.width \in Nat /\ s.size.height \in Nat
      /\ area.left \in Int /\ area.top \in Int /\ area.right \in Int /\ area.bottom \in Int
  BY DEF Sized, Rect, State
<1> DEFINE slideX == (area.left - pos.left > 0 \/ pos.left + s.size.width - 1 - area.right > 0)
                       /\ "slideX" \in s.adjustment
           slideY == (area.top - pos.top > 0 \/ pos.top + s.size.height - 1 - area.bottom > 0)
                       /\ "slideY" \in s.adjustment
           dx == IF slideX THEN SlideBy(s.gravity.x, area.left - pos.left,
                                        pos.left + s.size.width - 1 - area.right) ELSE 0
           dy == IF slideY THEN SlideBy(s.gravity.y, area.top - pos.top,
                                        pos.top + s.size.height - 1 - area.bottom) ELSE 0
<1>2. UnconstrainBySlide(s, pos, area) = OffsetBy(pos, dx, dy)
  <2> DEFINE o == GetConstrainedOffsets(pos, area)
  <2>1. /\ o.left = area.left - pos.left /\ o.right = pos.left + s.size.width - 1 - area.right
        /\ o.top = area.top - pos.top /\ o.bottom = pos.top + s.size.height - 1 - area.bottom
    BY <1>1 DEF GetConstrainedOffsets
  <2>2. UnconstrainBySlide(s, pos, area)
          = OffsetBy(pos, IF (o.left > 0 \/ o.right > 0) /\ "slideX" \in s.adjustment
                          THEN SlideBy(s.gravity.x, o.left, o.right) ELSE 0,
                          IF (o.top > 0 \/ o.bottom > 0) /\ "slideY" \in s.adjustment
                          THEN SlideBy(s.gravity.y, o.top, o.bottom) ELSE 0)
    BY DEF UnconstrainBySlide
  <2> HIDE DEF o
  <2> QED
    BY <2>1, <2>2
<1>3. pos.left + dx = SlidAxis(pos.left, s.size.width, s.gravity.x, "slideX" \in s.adjustment,
                               area.left, area.right)
  BY <1>1 DEF SlidAxis
<1>4. pos.top + dy = SlidAxis(pos.top, s.size.height, s.gravity.y, "slideY" \in s.adjustment,
                              area.top, area.bottom)
  BY <1>1 DEF SlidAxis
<1> HIDE DEF dx, dy
<1> QED
  BY <1>2, <1>3, <1>4 DEF OffsetBy

LEMMA PopupByAxes ==
  ASSUME NEW s \in State, NEW area \in Rect
  PROVE  LET p == GetPosition(s)
             f == GetPosition(FlippedBy(s, TRUE, TRUE)) IN
         /\ Position(s, area).left =
              AxisPosition(p.left, f.left, s.size.width, s.gravity.x, "flipX" \in s.adjustment,
                           "slideX" \in s.adjustment, area.left, area.right)
         /\ Position(s, area).top =
              AxisPosition(p.top, f.top, s.size.height, s.gravity.y, "flipY" \in s.adjustment,
                           "slideY" \in s.adjustment, area.top, area.bottom)
<1> DEFINE p       == GetPosition(s)
           f       == GetPosition(FlippedBy(s, TRUE, TRUE))
           flipped == UnconstrainByFlip(s, p, area)
           slid    == UnconstrainBySlide(s, flipped, area)
           flipX   == "flipX" \in s.adjustment
           flipY   == "flipY" \in s.adjustment
           slideX  == "slideX" \in s.adjustment
           slideY  == "slideY" \in s.adjustment
           Fits(r) == IsUnconstrained(GetConstrainedOffsets(r, area))
           Within(r) == /\ area.left <= r.left /\ r.left + s.size.width - 1 <= area.right
                        /\ area.top <= r.top /\ r.top + s.size.height - 1 <= area.bottom
<1>1. /\ s.size.width \in Nat /\ s.size.height \in Nat
      /\ s.gravity.x \in Edge /\ s.gravity.y \in Edge
      /\ area.left \in Int /\ area.top \in Int /\ area.right \in Int /\ area.bottom \in Int
  BY DEF State, Direction, Rect
<1>2. Sized(s, p) /\ Sized(s, flipped)
  BY PositionSized, FlipKeepsSize
<1>3. f.left \in Int /\ f.top \in Int
  <2>1. FlippedBy(s, TRUE, TRUE) \in State
    BY FlippedState DEF FlippedBy
  <2> QED
    BY <2>1, PositionSized DEF Sized, Rect
<1>4. p.left \in Int /\ p.top \in Int
  BY <1>2 DEF Sized, Rect
<1>5. Fits(p) => Within(p)
  BY <1>1, <1>2 DEF Sized, Rect, IsUnconstrained, GetConstrainedOffsets
<1>6. Fits(flipped) => Within(flipped)
  <2> HIDE DEF flipped
  <2> QED
    BY <1>1, <1>2 DEF Sized, Rect, IsUnconstrained, GetConstrainedOffsets
<1>7. Position(s, area) = IF Fits(p) THEN p ELSE IF Fits(flipped) THEN flipped ELSE slid
  BY DEF Position, UnconstrainPosition, UnconstrainByResize
<1>8. /\ flipped.left = FlippedAxis(p.left, f.left, s.size.width, flipX, area.left, area.right)
      /\ flipped.top = FlippedAxis(p.top, f.top, s.size.height, flipY, area.top, area.bottom)
  BY FlipByAxes
<1>9. /\ slid.left = SlidAxis(flipped.left, s.size.width, s.gravity.x, slideX,
                              area.left, area.right)
      /\ slid.top = SlidAxis(flipped.top, s.size.height, s.gravity.y, slideY,
                             area.top, area.bottom)
  <2> HIDE DEF flipped
  <2> QED
    BY <1>2, SlideByAxes
<1> HIDE DEF p, f, flipped, slid, Fits, flipX, flipY, slideX, slideY
<1>10. Position(s, area).left = slid.left
         /\ slid.left = AxisPosition(p.left, f.left, s.size.width, s.gravity.x, flipX, slideX,
                                      area.left, area.right)
  <2>1. AxisRule(p.left, f.left, s.size.width, s.gravity.x, flipX, slideX, area.left, area.right)
    BY <1>1, <1>3, <1>4, AxisRules
  <2>2. /\ AxisPosition(p.left, f.left, s.size.width, s.gravity.x, flipX,
                        slideX, area.left, area.right) = slid.left
        /\ area.left <= flipped.left /\ flipped.left + s.size.width - 1 <= area.right =>
             slid.left = flipped.left
        /\ area.left <= p.left /\ p.left + s.size.width - 1 <= area.right => flipped.left = p.left
    BY <2>1, <1>8, <1>9 DEF AxisRule
  <2>3. Fits(p) => slid.left = p.left
    BY <1>5, <2>2
  <2>4. Fits(flipped) => slid.left = flipped.left
    BY <1>6, <2>2
  <2> QED
    BY <1>7, <2>2, <2>3, <2>4
<1>11. Position(s, area).top = slid.top
         /\ slid.top = AxisPosition(p.top, f.top, s.size.height, s.gravity.y, flipY, slideY,
                                     area.top, area.bottom)
  <2>1. AxisRule(p.top, f.top, s.size.height, s.gravity.y, flipY, slideY, area.top, area.bottom)
    BY <1>1, <1>3, <1>4, AxisRules
  <2>2. /\ AxisPosition(p.top, f.top, s.size.height, s.gravity.y, flipY,
                        slideY, area.top, area.bottom) = slid.top
        /\ area.top <= flipped.top /\ flipped.top + s.size.height - 1 <= area.bottom =>
             slid.top = flipped.top
        /\ area.top <= p.top /\ p.top + s.size.height - 1 <= area.bottom => flipped.top = p.top
    BY <2>1, <1>8, <1>9 DEF AxisRule
  <2>3. Fits(p) => slid.top = p.top
    BY <1>5, <2>2
  <2>4. Fits(flipped) => slid.top = flipped.top
    BY <1>6, <2>2
  <2> QED
    BY <1>7, <2>2, <2>3, <2>4
<1> USE DEF p, f, flipX, flipY, slideX, slideY
<1> QED
  BY <1>10, <1>11
-----------------------------------------------------------------------------
LEMMA TypeStep == ASSUME TypeOK, [Next]_vars PROVE TypeOK'
<1> USE SizeAssumption, AnchorRectAssumption, OffsetAssumption, SideAssumption,
        AdjustmentAssumption, WorkAreaAssumption DEF TypeOK
<1>1. ASSUME Create PROVE TypeOK'
  BY <1>1 DEF Create, State, Direction, Edge
<1>2. ASSUME Destroy PROVE TypeOK'
  BY <1>2 DEF Destroy
<1>3. ASSUME NEW v \in Size, HandleSetSize(v) PROVE TypeOK'
  BY <1>3 DEF HandleSetSize, State
<1>4. ASSUME NEW v \in AnchorRect, HandleSetAnchorRect(v) PROVE TypeOK'
  BY <1>4 DEF HandleSetAnchorRect, State
<1>5. ASSUME NEW v \in Side, HandleSetAnchor(v) PROVE TypeOK'
  BY <1>5 DEF HandleSetAnchor, State
<1>6. ASSUME NEW v \in Side, HandleSetGravity(v) PROVE TypeOK'
  BY <1>6 DEF HandleSetGravity, State
<1>7. ASSUME NEW v \in Adjustment, HandleSetConstraintAdjustment(v) PROVE TypeOK'
  BY <1>7 DEF HandleSetConstraintAdjustment, State
<1>8. ASSUME NEW v \in Offset, HandleSetOffset(v) PROVE TypeOK'
  BY <1>8 DEF HandleSetOffset, State
<1>9. ASSUME NEW area \in WorkArea, UpdatePosition(area) PROVE TypeOK'
  BY <1>9, PopupSized DEF UpdatePosition, Sized
<1>10. CASE UNCHANGED vars
  BY <1>10 DEF vars
<1> QED
  BY <1>1, <1>2, <1>3, <1>4, <1>5, <1>6, <1>7, <1>8, <1>9, <1>10 DEF Next

(* A positioner holds well-formed values, and a popup a rectangle. *)
THEOREM TypeCorrect == Spec => []TypeOK
<1>1. Init => TypeOK
  BY DEF Init, TypeOK
<1>2. TypeOK /\ [Next]_vars => TypeOK'
  BY TypeStep
<1> QED
  BY <1>1, <1>2, PTL DEF Spec

(* The adjustments never resize a popup, whatever the positioner says. *)
THEOREM PopupsKeepTheirSize == Spec => SizeKept
<1> DEFINE A == \A area \in WorkArea : UpdatePosition(area) =>
                  /\ fPosition'.right - fPosition'.left + 1 = fState.size.width
                  /\ fPosition'.bottom - fPosition'.top + 1 = fState.size.height
<1>1. TypeOK /\ [Next]_vars => [A]_vars
  <2> SUFFICES ASSUME TypeOK, NEW area \in WorkArea, UpdatePosition(area)
               PROVE  /\ fPosition'.right - fPosition'.left + 1 = fState.size.width
                      /\ fPosition'.bottom - fPosition'.top + 1 = fState.size.height
    OBVIOUS
  <2>1. fState \in State /\ fPosition' = Position(fState, area) /\ area \in Rect
    BY WorkAreaAssumption DEF TypeOK, UpdatePosition
  <2>2. Sized(fState, fPosition')
    BY <2>1, PopupSized
  <2> QED
    BY <2>1, <2>2 DEF Sized, Rect, State
<1> QED
  BY <1>1, TypeCorrect, PTL DEF Spec, SizeKept

(* A popup that may slide ends inside every work area it is no larger than. *)
THEOREM SlidingPopupsFit == Spec => SlideFits
<1> DEFINE In(area) ==
      /\ "slideX" \in fState.adjustment /\ fState.size.width <= area.right - area.left + 1 =>
           area.left <= fPosition'.left /\ fPosition'.right <= area.right
      /\ "slideY" \in fState.adjustment /\ fState.size.height <= area.bottom - area.top + 1 =>
           area.top <= fPosition'.top /\ fPosition'.bottom <= area.bottom
<1>1. TypeOK /\ [Next]_vars => [\A area \in WorkArea : UpdatePosition(area) => In(area)]_vars
  <2> SUFFICES ASSUME TypeOK, NEW area \in WorkArea, UpdatePosition(area) PROVE In(area)
    OBVIOUS
  <2>1. fState \in State /\ fPosition' = Position(fState, area) /\ area \in Rect
    BY WorkAreaAssumption DEF TypeOK, UpdatePosition
  <2> QED
    BY <2>1, PopupSlides
<1> QED
  BY <1>1, TypeCorrect, PTL DEF Spec, SlideFits

(* Each axis of a popup ends up where the rules for that axis alone put it,  *)
(* for every positioner and work area, although the code replaces and tests *)
(* the rectangle as a whole.                                                *)
THEOREM AxesAreIndependent == Spec => AxesIndependent
<1> DEFINE In(area) ==
      LET s == fState
          p == GetPosition(s)
          f == GetPosition([s EXCEPT !.anchor = Flipped(@, TRUE, TRUE),
                                     !.gravity = Flipped(@, TRUE, TRUE)])
      IN  /\ fPosition'.left =
               AxisPosition(p.left, f.left, s.size.width, s.gravity.x, "flipX" \in s.adjustment,
                            "slideX" \in s.adjustment, area.left, area.right)
          /\ fPosition'.top =
               AxisPosition(p.top, f.top, s.size.height, s.gravity.y, "flipY" \in s.adjustment,
                            "slideY" \in s.adjustment, area.top, area.bottom)
<1>1. TypeOK /\ [Next]_vars => [\A area \in WorkArea : UpdatePosition(area) => In(area)]_vars
  <2> SUFFICES ASSUME TypeOK, NEW area \in WorkArea, UpdatePosition(area) PROVE In(area)
    OBVIOUS
  <2>1. fState \in State /\ fPosition' = Position(fState, area) /\ area \in Rect
    BY WorkAreaAssumption DEF TypeOK, UpdatePosition
  <2>2. FlippedBy(fState, TRUE, TRUE)
          = [fState EXCEPT !.anchor = Flipped(@, TRUE, TRUE), !.gravity = Flipped(@, TRUE, TRUE)]
    BY <2>1 DEF FlippedBy, State
  <2> QED
    BY <2>1, <2>2, PopupByAxes
<1> QED
  BY <1>1, TypeCorrect, PTL DEF Spec, AxesIndependent
=============================================================================
