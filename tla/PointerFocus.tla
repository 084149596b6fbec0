---------------------------- MODULE PointerFocus ----------------------------
(***************************************************************************)
(* The pointer of the seat: which surface has its focus, what it is        *)
(* tracked for, and what the client is told (HaikuSeatGlobal in            *)
(* HaikuSeat.cpp).                                                         *)
(*                                                                         *)
(* Every WaylandView asks for all pointer events, so a move, a press and a *)
(* release reach every view, in the queue of its window's thread; what one *)
(* thread handles late another may have handled long ago.  A window hands  *)
(* a message to its views one after the other.  Each time the handler runs *)
(* under the server lock and is one step.                                  *)
(*                                                                         *)
(* The server lives in the process of its only client, so the comparisons  *)
(* of Client() are always true.  Positions, motion and wheel events and    *)
(* the geometry of moves and resizes are left out.                         *)
(***************************************************************************)
EXTENDS Naturals, Sequences, FiniteSets

CONSTANTS
    Surface, NoSurface,
    Button,     \* the mouse buttons
    Pointer,    \* wl_pointer objects the client may create
    Window,     \* the surface whose window a surface's view is in
    Target,     \* the surface a view's messages go to: itself, or the
                \* ancestor whose input region contains the pointer
    MaxMail     \* bound on the messages waiting for one window

ASSUME SurfaceAssumption == NoSurface \notin Surface
ASSUME TargetAssumption == Window \in [Surface -> Surface] /\ Target \in [Surface -> Surface]
(* A window is its root's, and messages are passed on inside it. *)
ASSUME WindowAssumption ==
    \A s \in Surface : Window[Window[s]] = Window[s] /\ Window[Target[s]] = Window[s]
ASSUME BoundAssumption == MaxMail \in Nat

VARIABLES
    pointers,   \* fPointerIfaces
    seat,       \* fPointerFocus, fTrack, fOldMouseBtns and what the client
                \* was told: the surface each pointer entered, the buttons
                \* down on it, the surface its data device entered
    viewed,     \* the surfaces that have a view
    mail,       \* per window, the pointer messages waiting; each with the
                \* views it is still to be handed to
    over, held, dragging, \* the user's mouse
    calm,       \* the user's last act was a move without buttons, all
                \* messages of earlier ones handled, the focus not orphaned
    orphaned    \* the surface in focus lost a view it had messages from

mouseVars == <<over, held, dragging>>
history == <<calm, orphaned>>
vars == <<pointers, seat, viewed, mail, mouseVars, history>>

Init ==
    /\ pointers = {} /\ viewed = {}
    /\ seat = [focus |-> NoSurface, id |-> "none", captured |-> FALSE, inside |-> FALSE,
               btns |-> {}, told |-> [p \in Pointer |-> NoSurface], pressed |-> {},
               offered |-> NoSurface]
    /\ mail = [s \in Surface |-> <<>>]
    /\ over = NoSurface /\ held = {} /\ dragging = FALSE
    /\ calm = FALSE /\ orphaned = FALSE
-----------------------------------------------------------------------------
(* SetPointerFocus *)

(* Faulty: no leave for the pointers. *)
LeftDragOnly(w) == IF w.id = "drag" THEN [w EXCEPT !.offered = NoSurface] ELSE w

(* The leave events, to those who were sent the enter events. *)
Left(w) ==
    CASE w.focus # NoSurface /\ w.id = "client" ->
            [w EXCEPT !.told = [p \in Pointer |-> IF p \in pointers THEN NoSurface ELSE @[p]],
                      !.pressed = {}]
      [] w.focus # NoSurface /\ w.id = "drag" -> [w EXCEPT !.offered = NoSurface]
      [] OTHER -> w

Retargeted(w, s, id, buttons) ==
    [w EXCEPT !.focus = s, !.id = id,
              !.captured = @ /\ s # NoSurface,
              !.inside = @ /\ s # NoSurface,
              !.btns = IF w.focus = s THEN @ ELSE IF s = NoSurface THEN {} ELSE buttons]

Entered(w) ==
    CASE w.id = "client" ->
            [w EXCEPT !.told = [p \in Pointer |-> IF p \in pointers THEN w.focus ELSE @[p]]]
      [] w.id = "drag" -> [w EXCEPT !.offered = w.focus]
      [] OTHER -> w

Focused(w, s, id, buttons) ==
    IF w.focus = s /\ w.id = id THEN w
    ELSE Entered(Retargeted(Left(w), s, id, buttons))

(* With setFocus; s is a surface. *)
SetPointerFocus(w, s, id, buttons) == Focused(w, s, id, buttons)

(* Without setFocus. *)
DropPointerFocus(w, s) == IF w.focus = s THEN Focused(w, NoSurface, "none", {}) ELSE w
-----------------------------------------------------------------------------
(* MessageReceived *)

(* Faulty: only the view the mouse enters takes the focus. *)
WithinEntering == {"entered"}

Within == {"entered", "inside"}

(* The focus a move gives. *)
Followed(w, s, transit, m) ==
    CASE m.drag /\ w.id # "drag" ->
            SetPointerFocus([w EXCEPT !.captured = TRUE], s, "drag", m.buttons)
      [] ~m.drag /\ ~w.captured /\ transit \in Within ->
            SetPointerFocus(w, s, "client", m.buttons)
      [] ~m.drag /\ ~w.captured /\ transit = "exited" -> DropPointerFocus(w, s)
      [] OTHER -> w

Moved(w, s, transit, m) ==
    LET v == Followed(w, s, transit, m)
    IN  CASE v.focus # s -> v
          [] v.focus = s /\ transit \in Within -> [v EXCEPT !.inside = TRUE]
          [] v.focus = s /\ transit \notin Within /\ v.id # "drag" ->
                [v EXCEPT !.inside = FALSE]
          [] OTHER -> DropPointerFocus([v EXCEPT !.inside = FALSE, !.captured = FALSE], s)

Pressed(w, s, m) ==
    IF w.focus # s THEN w
    ELSE [w EXCEPT !.captured = @ \/ (w.btns = {} /\ m.buttons # {}),
                   !.btns = m.buttons,
                   !.pressed = IF w.id \in {"none", "client"}
                               THEN @ \cup (m.buttons \ w.btns) ELSE @]

(* Faulty: the grab of a move or resize outlives its button. *)
UngrabbedClient(w, m) ==
    [w EXCEPT !.captured = @ /\ ~(w.btns # {} /\ m.buttons = {} /\ w.id = "client")]

(* The grab ends with the last button. *)
Ungrabbed(w, m) ==
    [w EXCEPT !.captured = @ /\ ~(w.btns # {} /\ m.buttons = {} /\ w.id # "drag")]

(* Faulty: the sides of the difference are swapped. *)
GoneUpSwapped(w, m) == m.buttons \ w.btns

GoneUp(w, m) == w.btns \ m.buttons

Released(w, s, m) ==
    IF w.focus # s THEN w
    ELSE LET v == Ungrabbed([w EXCEPT !.pressed = IF w.id \in {"none", "client"}
                                                  THEN @ \ GoneUp(w, m) ELSE @], m)
             u == IF v.captured THEN v
                  ELSE IF v.inside THEN SetPointerFocus(v, s, "client", m.buttons)
                  ELSE DropPointerFocus(v, s)
         IN  [u EXCEPT !.btns = m.buttons]

(* A drop ends a drag; others are taken and ignored. *)
EndsDrag(w, m) == m.drag \/ w.id = "drag"

Dropped(w, s, m) ==
    IF EndsDrag(w, m) THEN SetPointerFocus([w EXCEPT !.captured = FALSE], s, "client", {}) ELSE w

(* be:transit, for each of the views. *)
Transit(view, m) ==
    CASE view = m.to /\ view = m.from -> "inside"
      [] view = m.to /\ view # m.from -> "entered"
      [] view # m.to /\ view = m.from -> "exited"
      [] OTHER -> "outside"

Handled(w, view, m) ==
    LET s == Target[view]
    IN  CASE m.what = "moved" -> Moved(w, s, Transit(view, m), m)
          [] m.what = "down" -> Pressed(w, s, m)
          [] m.what = "up" -> Released(w, s, m)
          [] m.what = "drop" -> Dropped(w, s, m)

(* What is left of a window's messages when a view has had the first. *)
Rest(queue, view) ==
    IF Head(queue).views = {view} THEN Tail(queue)
    ELSE [queue EXCEPT ![1].views = @ \ {view}]

MessageReceived(view) ==
    LET queue == mail[Window[view]]
    IN  /\ queue # <<>> /\ view \in Head(queue).views
        /\ seat' = Handled(seat, view, Head(queue))
        /\ mail' = [mail EXCEPT ![Window[view]] = Rest(queue, view)]
    /\ orphaned' = (orphaned /\ seat'.focus = seat.focus)
    /\ UNCHANGED <<pointers, viewed, mouseVars, calm>>

(* A message none of whose views is left. *)
DispatchNothing(window) ==
    /\ mail[window] # <<>> /\ Head(mail[window]).views = {}
    /\ mail' = [mail EXCEPT ![window] = Tail(@)]
    /\ UNCHANGED <<pointers, seat, viewed, mouseVars, history>>
-----------------------------------------------------------------------------
(* Requests *)

HandleGetPointer(p) ==
    /\ p \notin pointers
    /\ pointers' = pointers \cup {p}
    /\ UNCHANGED <<seat, viewed, mail, mouseVars, history>>

DestroyPointer(p) ==
    /\ p \in pointers
    /\ pointers' = pointers \ {p}
    /\ seat' = [seat EXCEPT !.told[p] = NoSurface]
    /\ UNCHANGED <<viewed, mail, mouseVars, history>>

(* xdg_toplevel.move and xdg_toplevel.resize. *)
DoTrack(id) ==
    /\ seat.id = "client" /\ seat.btns # {} /\ seat.focus # NoSurface
    /\ seat' = SetPointerFocus(seat, seat.focus, id, {})
    /\ UNCHANGED <<pointers, viewed, mail, mouseVars, history>>

CreateView(s) ==
    /\ s \notin viewed /\ Window[s] \in viewed \cup {s}
    /\ viewed' = viewed \cup {s}
    /\ UNCHANGED <<pointers, seat, mail, mouseVars, history>>

(* The views that go with that of a surface. *)
Removed(s) == {t \in Surface : s \in {t, Window[t]}}

(* A window hands a message only to the views it still has. *)
Delisted(queue, s) == [i \in 1..Len(queue) |-> [queue[i] EXCEPT !.views = @ \ {s}]]

(* The surface loses its view; with the view of a window goes the window.   *)
Detach(s) ==
    /\ viewed' = viewed \ Removed(s)
    /\ mail' = [mail EXCEPT ![Window[s]] = IF Window[s] = s THEN <<>> ELSE Delisted(@, s)]
    /\ over' = IF over \in Removed(s) THEN NoSurface ELSE over
    /\ calm' = FALSE
    /\ UNCHANGED <<pointers, held, dragging>>

(* A view whose messages went to the surface in focus is removed. *)
Orphans(s) == \E t \in Removed(s) : seat.focus \in {t, Target[t]}

DestroyRole(s) ==
    /\ s \in viewed
    /\ Detach(s)
    /\ orphaned' = (orphaned \/ Orphans(s))
    /\ UNCHANGED seat

(* ~HaikuSurface; the same name stands for the next surface from here on. *)
DestroySurface(s) ==
    /\ s \in viewed \/ seat.focus = s
    /\ Detach(s)
    /\ seat' = DropPointerFocus(seat, s)
    /\ orphaned' = (seat'.focus # NoSurface /\ (orphaned \/ Orphans(s)))
-----------------------------------------------------------------------------
(* The user *)

Room == \A s \in Surface : Len(mail[s]) < MaxMail

Views(window) == {s \in viewed : Window[s] = window}

(* The mail when every window gets the message for all of its views. *)
Posted(message) ==
    [s \in Surface |-> IF Views(s) = {} THEN mail[s]
                       ELSE Append(mail[s], [message EXCEPT !.views = Views(s)])]

Plain(what, buttons) ==
    [what |-> what, from |-> NoSurface, to |-> NoSurface, buttons |-> buttons, drag |-> FALSE,
     views |-> {}]

Settled == \A s \in Surface : mail[s] = <<>>

Move(to) ==
    /\ Room
    /\ mail' = Posted([what |-> "moved", from |-> over, to |-> to, buttons |-> held,
                       drag |-> dragging, views |-> {}])
    /\ over' = to
    /\ calm' = (Settled /\ held = {} /\ ~dragging /\ ~orphaned)
    /\ UNCHANGED <<pointers, seat, viewed, held, dragging, orphaned>>

Press(b) ==
    /\ b \notin held /\ Room
    /\ mail' = Posted(Plain("down", held \cup {b}))
    /\ held' = held \cup {b}
    /\ calm' = FALSE
    /\ UNCHANGED <<pointers, seat, viewed, over, dragging, orphaned>>

(* The mail when the view under the mouse gets what was dragged as well,    *)
(* before or after the release.  Drag is whether be:drag_message is in it,  *)
(* which the app_server puts into moves and another application may put     *)
(* into what it drags.                                                      *)
DropPosted(window, up, drag) ==
    LET drop == [Plain("drop", {}) EXCEPT !.drag = drag, !.views = {over}]
    IN  {[up EXCEPT ![window] = Append(@, drop)],
         [up EXCEPT ![window] = Append(mail[window], drop) \o <<@[Len(@)]>>]}

Release(b) ==
    /\ b \in held /\ Room
    /\ LET up == Posted(Plain("up", held \ {b}))
       IN  IF dragging /\ held = {b} /\ over # NoSurface
           THEN \E drag \in BOOLEAN : mail' \in DropPosted(Window[over], up, drag)
           ELSE mail' = up
    /\ held' = held \ {b}
    /\ dragging' = (dragging /\ held # {b})
    /\ calm' = FALSE
    /\ UNCHANGED <<pointers, seat, viewed, over, orphaned>>

(* A view or another application starts to drag something. *)
StartDrag ==
    /\ held # {} /\ ~dragging
    /\ dragging' = TRUE
    /\ calm' = FALSE
    /\ UNCHANGED <<pointers, seat, viewed, mail, over, held, orphaned>>

Next ==
    \/ \E s \in Surface : MessageReceived(s) \/ DispatchNothing(s) \/ CreateView(s)
                          \/ DestroyRole(s) \/ DestroySurface(s)
    \/ \E p \in Pointer : HandleGetPointer(p) \/ DestroyPointer(p)
    \/ \E id \in {"move", "resize"} : DoTrack(id)
    \/ \E to \in viewed \cup {NoSurface} : Move(to)
    \/ \E b \in Button : Press(b) \/ Release(b)
    \/ StartDrag

Spec == Init /\ [][Next]_vars
-----------------------------------------------------------------------------
(* Properties *)

Message ==
    [what : {"moved", "down", "up", "drop"}, from : Surface \cup {NoSurface},
     to : Surface \cup {NoSurface}, buttons : SUBSET Button, drag : BOOLEAN,
     views : SUBSET Surface]

Seat ==
    [focus : Surface \cup {NoSurface}, id : {"none", "client", "move", "resize", "drag"},
     captured : BOOLEAN, inside : BOOLEAN, btns : SUBSET Button,
     told : [Pointer -> Surface \cup {NoSurface}], pressed : SUBSET Button,
     offered : Surface \cup {NoSurface}]

TypeOK ==
    /\ pointers \subseteq Pointer
    /\ seat \in Seat
    /\ viewed \subseteq Surface
    /\ mail \in [Surface -> Seq(Message)]
    /\ over \in viewed \cup {NoSurface} /\ held \subseteq Button /\ dragging \in BOOLEAN
    /\ calm \in BOOLEAN /\ orphaned \in BOOLEAN

(* Enter and leave come in pairs: a pointer has entered the surface that    *)
(* has the focus for the client, or, if it was created after that, none;    *)
(* the data device has entered the one that has it for a drag.  Whoever is  *)
(* told nothing more was told to leave.                                     *)
FocusTold ==
    /\ \A p \in Pointer :
         seat.told[p] \in {NoSurface, IF seat.id = "client" THEN seat.focus ELSE NoSurface}
    /\ seat.offered = IF seat.id = "drag" THEN seat.focus ELSE NoSurface

(* A grab belongs to a surface: without a focus there is neither a track nor *)
(* a grab, which would keep the focus from everyone for ever.               *)
GrabHasFocus ==
    /\ seat.focus = NoSurface <=> seat.id = "none"
    /\ seat.focus = NoSurface => ~seat.captured /\ ~seat.inside

(* A grab ends: none is left without a surface that has it, and once every  *)
(* message is handled and no button is down, none is left at all, whatever  *)
(* the order the threads handled the messages in, as long as the surface    *)
(* that has it has a view to hear of the release.                           *)
GrabEnds ==
    /\ GrabHasFocus
    /\ Settled /\ held = {} /\ ~orphaned => ~seat.captured

(* The client is not left with a button down that the user has let go.      *)
NoStuckButton ==
    Settled /\ ~orphaned => seat.pressed \subseteq held

(* However the messages crossed, one more move that finds them all handled  *)
(* gives the focus to the surface under the mouse, or to none.              *)
FocusFollowsMouse ==
    Settled /\ calm => seat.focus = over
=============================================================================
