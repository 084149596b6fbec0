------------------------- MODULE PointerFocus_proofs -------------------------
(***************************************************************************)
(* What holds of the pointer focus for every set of surfaces, windows and  *)
(* buttons, and queues of any length.  That enter and leave come in pairs  *)
(* and that a grab has a surface are facts about the seat alone, whatever  *)
(* the messages say, so their proof goes through the functions that take   *)
(* one seat to the next.  That grabs end and that buttons come up rests on *)
(* what the messages still waiting promise the surface in focus: that what *)
(* one makes of the seat a later one undoes, and that its views are yet to *)
(* hear of the release that ends its grab.  The focus follows the mouse by *)
(* the same promises: they leave a move that finds all messages handled    *)
(* neither a grab nor another surface in focus.                            *)
(*                                                                         *)
(* DragAndDrop is the seat with the data device beside it: it takes no     *)
(* step that either would not take alone, so what is proved of the seat    *)
(* holds with drags.  How a drag ends follows from the promises of its     *)
(* queues when the mouse is let go: whoever finds the drag over it will    *)
(* find it gone or dropped, and the release comes after that.              *)
(***************************************************************************)
EXTENDS DragAndDrop, TLAPS

Anyone == Surface \cup {NoSurface}
Id == {"none", "client", "move", "resize", "drag"}

(* FocusTold and GrabHasFocus of any seat, and what they rest on: a pointer *)
(* that does not exist is nowhere.                                          *)
Paired(w) ==
    /\ w \in Seat
    /\ \A p \in Pointer :
         w.told[p] \in {NoSurface, IF w.id = "client" THEN w.focus ELSE NoSurface}
    /\ \A p \in Pointer \ pointers : w.told[p] = NoSurface
    /\ w.offered = IF w.id = "drag" THEN w.focus ELSE NoSurface
    /\ w.focus = NoSurface <=> w.id = "none"

Sound(w) == Paired(w) /\ (w.focus = NoSurface => ~w.captured /\ ~w.inside)

(* Nobody has entered anything. *)
Away(w) ==
    /\ w \in Seat
    /\ \A p \in Pointer : w.told[p] = NoSurface
    /\ w.offered = NoSurface

LEMMA LeftAway == \A w : Paired(w) => Away(Left(w))
<1> SUFFICES ASSUME NEW w, Paired(w) PROVE Away(Left(w))
    OBVIOUS
<1> USE DEF Paired, Away, Seat
<1>1. CASE w.focus # NoSurface /\ w.id = "client"
    BY <1>1 DEF Left
<1>2. CASE w.focus # NoSurface /\ w.id = "drag"
    BY <1>2 DEF Left
<1>3. CASE ~(w.focus # NoSurface /\ w.id \in {"client", "drag"})
    BY <1>3 DEF Left
<1> QED
    BY <1>1, <1>2, <1>3

LEMMA RetargetedTyped ==
    ASSUME NEW l \in Seat, NEW s \in Anyone, NEW id \in Id, NEW buttons \in SUBSET Button
    PROVE  Retargeted(l, s, id, buttons) \in Seat
<1> DEFINE b == IF l.focus = s THEN l.btns ELSE IF s = NoSurface THEN {} ELSE buttons
           c == l.captured /\ s # NoSurface
           i == l.inside /\ s # NoSurface
<1>1. b \in SUBSET Button /\ c \in BOOLEAN /\ i \in BOOLEAN
    BY DEF Seat
<1>2. Retargeted(l, s, id, buttons)
        = [l EXCEPT !.focus = s, !.id = id, !.captured = c, !.inside = i, !.btns = b]
    BY DEF Retargeted, Seat
<1> HIDE DEF b, c, i
<1> QED
    BY <1>1, <1>2 DEF Seat, Anyone, Id

LEMMA FocusedSound ==
    ASSUME NEW w, Paired(w), NEW s \in Anyone, s = NoSurface => Sound(w),
           NEW id \in Id, s = NoSurface <=> id = "none",
           NEW buttons \in SUBSET Button
    PROVE  Sound(Focused(w, s, id, buttons))
<1>1. CASE w.focus = s /\ w.id = id
    BY <1>1 DEF Focused, Sound
<1>2. CASE ~(w.focus = s /\ w.id = id)
  <2> DEFINE l == Left(w)
             r == Retargeted(l, s, id, buttons)
  <2>1. Away(l)
    BY LeftAway
  <2> HIDE DEF l
  <2>2. /\ Away(r) /\ r.focus = s /\ r.id = id
        /\ s = NoSurface => ~r.captured /\ ~r.inside
    <3>1. l \in Seat
        BY <2>1 DEF Away
    <3>2. /\ r.focus = s /\ r.id = id /\ r.told = l.told /\ r.offered = l.offered
          /\ s = NoSurface => ~r.captured /\ ~r.inside
        BY <3>1 DEF Retargeted, Seat
    <3>3. r \in Seat
        BY <3>1, RetargetedTyped
    <3> QED
        BY <2>1, <3>2, <3>3 DEF Away
  <2> HIDE DEF r
  <2>3. Sound(Entered(r))
    <3>1. CASE id = "client"
        BY <2>2, <3>1, SurfaceAssumption DEF Entered, Sound, Paired, Away, Seat, Anyone
    <3>2. CASE id = "drag"
        BY <2>2, <3>2, SurfaceAssumption DEF Entered, Sound, Paired, Away, Seat, Anyone
    <3>3. CASE id \notin {"client", "drag"}
        BY <2>2, <3>3, SurfaceAssumption DEF Entered, Sound, Paired, Away, Seat, Anyone
    <3> QED
        BY <3>1, <3>2, <3>3
  <2> QED
    BY <1>2, <2>3 DEF Focused, l, r
<1> QED
    BY <1>1, <1>2

LEMMA SetSound ==
    ASSUME NEW w, Paired(w), NEW s \in Surface, NEW id \in Id \ {"none"},
           NEW buttons \in SUBSET Button
    PROVE  Sound(SetPointerFocus(w, s, id, buttons))
BY FocusedSound, SurfaceAssumption DEF SetPointerFocus, Anyone

LEMMA DropSound == ASSUME NEW w, Sound(w), NEW s PROVE Sound(DropPointerFocus(w, s))
BY FocusedSound DEF DropPointerFocus, Anyone, Id, Sound

(* The fields of the seat that a handler sets itself. *)
LEMMA CapturedPaired ==
    ASSUME NEW w, Paired(w), NEW captured \in BOOLEAN
    PROVE  LET v == [w EXCEPT !.captured = captured]
           IN  Paired(v) /\ v.focus = w.focus /\ v.id = w.id /\ v.inside = w.inside
               /\ v.captured = captured /\ v.btns = w.btns
BY DEF Paired, Seat

LEMMA InsidePaired ==
    ASSUME NEW w, Paired(w), NEW inside \in BOOLEAN
    PROVE  LET v == [w EXCEPT !.inside = inside]
           IN  Paired(v) /\ v.focus = w.focus /\ v.id = w.id /\ v.captured = w.captured
               /\ v.inside = inside
BY DEF Paired, Seat

LEMMA ButtonsPaired ==
    ASSUME NEW w, Paired(w), NEW btns \in SUBSET Button
    PROVE  LET v == [w EXCEPT !.btns = btns]
           IN  Paired(v) /\ v.focus = w.focus /\ v.captured = w.captured /\ v.inside = w.inside
BY DEF Paired, Seat

LEMMA PressedPaired ==
    ASSUME NEW w, Paired(w), NEW pressed \in SUBSET Button
    PROVE  LET v == [w EXCEPT !.pressed = pressed]
           IN  Paired(v) /\ v.focus = w.focus /\ v.id = w.id /\ v.captured = w.captured
               /\ v.inside = w.inside /\ v.btns = w.btns
BY DEF Paired, Seat
-----------------------------------------------------------------------------
(* The handlers *)

LEMMA FollowedSound ==
    ASSUME NEW w, Sound(w), NEW s \in Surface, NEW transit, NEW m \in Message
    PROVE  Sound(Followed(w, s, transit, m))
<1> m.buttons \in SUBSET Button
    BY DEF Message
<1>1. Paired(w) /\ Paired([w EXCEPT !.captured = TRUE])
    BY CapturedPaired DEF Sound
<1> QED
    BY <1>1, SetSound, DropSound DEF Followed, Id

LEMMA MovedSound ==
    ASSUME NEW w, Sound(w), NEW s \in Surface, NEW transit, NEW m \in Message
    PROVE  Sound(Moved(w, s, transit, m))
<1> DEFINE v == Followed(w, s, transit, m)
           gone == [v EXCEPT !.inside = FALSE, !.captured = FALSE]
<1>1. Sound(v)
    BY FollowedSound
<1> HIDE DEF v
<1>2. ASSUME v.focus = s, NEW inside \in BOOLEAN PROVE Sound([v EXCEPT !.inside = inside])
  <2> DEFINE u == [v EXCEPT !.inside = inside]
  <2>1. Paired(v) /\ s # NoSurface
    BY <1>1, SurfaceAssumption DEF Sound
  <2>2. Paired(u) /\ u.focus = v.focus
    BY <2>1, InsidePaired
  <2> HIDE DEF u
  <2>3. Sound(u)
    BY <1>2, <2>1, <2>2 DEF Sound
  <2> QED
    BY <2>3 DEF u
<1>3. v.focus = s => Sound([v EXCEPT !.inside = TRUE]) /\ Sound([v EXCEPT !.inside = FALSE])
    BY <1>2
<1>4. Sound(gone)
    BY <1>1 DEF Sound, Paired, Seat
<1>5. Sound(DropPointerFocus(gone, s))
    BY <1>4, DropSound
<1> HIDE DEF gone
<1> QED
    BY <1>1, <1>3, <1>5 DEF Moved, v, gone

LEMMA PressedSound ==
    ASSUME NEW w, Sound(w), NEW s \in Surface, NEW m \in Message
    PROVE  Sound(Pressed(w, s, m))
<1>1. m.buttons \in SUBSET Button
    BY DEF Message
<1>2. CASE w.focus # s
    BY <1>2 DEF Pressed
<1>3. CASE w.focus = s
  <2> DEFINE captured == w.captured \/ (w.btns = {} /\ m.buttons # {})
             pressed == IF w.id \in {"none", "client"} THEN w.pressed \cup (m.buttons \ w.btns)
                        ELSE w.pressed
             u == [w EXCEPT !.captured = captured, !.btns = m.buttons, !.pressed = pressed]
  <2>1. w \in Seat /\ captured \in BOOLEAN /\ pressed \in SUBSET Button /\ s # NoSurface
    BY <1>1, SurfaceAssumption DEF Sound, Paired, Seat
  <2>2. Pressed(w, s, m) = u
    BY <1>3 DEF Pressed
  <2> HIDE DEF captured, pressed
  <2>3. /\ u \in Seat /\ u.focus = w.focus /\ u.id = w.id /\ u.told = w.told
        /\ u.offered = w.offered
    BY <1>1, <2>1 DEF Seat
  <2> HIDE DEF u
  <2> QED
    BY <1>3, <2>1, <2>2, <2>3 DEF Sound, Paired
<1> QED
    BY <1>2, <1>3

LEMMA ReleasedSound ==
    ASSUME NEW w, Sound(w), NEW s \in Surface, NEW m \in Message
    PROVE  Sound(Released(w, s, m))
<1> DEFINE pressed == IF w.id \in {"none", "client"} THEN w.pressed \ GoneUp(w, m)
                      ELSE w.pressed
           x == [w EXCEPT !.pressed = pressed]
           v == Ungrabbed(x, m)
           u == IF v.captured THEN v
                ELSE IF v.inside THEN SetPointerFocus(v, s, "client", m.buttons)
                ELSE DropPointerFocus(v, s)
<1>1. m.buttons \in SUBSET Button
    BY DEF Message
<1>2. CASE w.focus # s
    BY <1>2 DEF Released
<1>3. CASE w.focus = s
  <2>1. pressed \in SUBSET Button
    BY DEF Sound, Paired, Seat
  <2> HIDE DEF pressed
  <2>2. Sound(x)
    BY <2>1, PressedPaired DEF Sound
  <2> HIDE DEF x
  <2>3. Sound(v)
    BY <2>2 DEF Ungrabbed, Sound, Paired, Seat
  <2> HIDE DEF v
  <2>4. Sound(u)
    BY <1>1, <2>3, SetSound, DropSound DEF Sound, Id
  <2> HIDE DEF u
  <2>5. Sound([u EXCEPT !.btns = m.buttons])
    BY <1>1, <2>4, ButtonsPaired DEF Sound
  <2>6. Released(w, s, m) = [u EXCEPT !.btns = m.buttons]
    BY <1>3 DEF Released, u, v, x, pressed
  <2> QED
    BY <2>5, <2>6
<1> QED
    BY <1>2, <1>3

LEMMA DroppedSound ==
    ASSUME NEW w, Sound(w), NEW s \in Surface, NEW m PROVE Sound(Dropped(w, s, m))
BY CapturedPaired, SetSound DEF Dropped, Sound, Id

LEMMA HandledSound ==
    ASSUME NEW w, Sound(w), NEW view \in Surface, NEW m \in Message
    PROVE  Sound(Handled(w, view, m))
<1> Target[view] \in Surface
    BY TargetAssumption
<1> m.what \in {"moved", "down", "up", "drop"}
    BY DEF Message
<1> QED
    BY MovedSound, PressedSound, ReleasedSound, DroppedSound DEF Handled
-----------------------------------------------------------------------------
(* The mail *)

LEMMA RestTyped ==
    ASSUME NEW queue \in Seq(Message), queue # <<>>, NEW view
    PROVE  Rest(queue, view) \in Seq(Message)
<1>1. Tail(queue) \in Seq(Message) /\ queue[1] \in Message /\ Len(queue) \in Nat \ {0}
    OBVIOUS
<1>2. [queue[1] EXCEPT !.views = @ \ {view}] \in Message
    BY <1>1 DEF Message
<1> DEFINE m == [queue[1] EXCEPT !.views = @ \ {view}]
<1> HIDE DEF m
<1>3. [queue EXCEPT ![1] = m] \in Seq(Message)
    BY <1>1, <1>2 DEF m
<1> QED
    BY <1>1, <1>3 DEF Rest, m

LEMMA DelistedTyped ==
    ASSUME NEW queue \in Seq(Message), NEW s
    PROVE  Delisted(queue, s) \in Seq(Message)
<1>1. \A i \in 1..Len(queue) : [queue[i] EXCEPT !.views = @ \ {s}] \in Message
  <2> TAKE i \in 1..Len(queue)
  <2>1. queue[i] \in Message
    OBVIOUS
  <2> QED
    BY <2>1 DEF Message
<1> QED
    BY <1>1 DEF Delisted

LEMMA PostedTyped ==
    ASSUME TypeOK, NEW message \in Message
    PROVE  Posted(message) \in [Surface -> Seq(Message)]
<1>1. \A s \in Surface : [message EXCEPT !.views = Views(s)] \in Message
    BY DEF Message, Views, TypeOK
<1>2. \A s \in Surface : Append(mail[s], [message EXCEPT !.views = Views(s)]) \in Seq(Message)
  <2> TAKE s \in Surface
  <2> DEFINE m == [message EXCEPT !.views = Views(s)]
  <2>1. m \in Message /\ mail[s] \in Seq(Message)
    BY <1>1 DEF TypeOK
  <2> HIDE DEF m
  <2> QED
    BY <2>1 DEF m
<1> QED
    BY <1>2 DEF Posted, TypeOK

LEMMA PlainTyped ==
    \A what \in {"down", "up", "drop"}, buttons \in SUBSET Button : Plain(what, buttons) \in Message
BY DEF Plain, Message
-----------------------------------------------------------------------------
(* The theorems *)

IInv == TypeOK /\ Sound(seat)

LEMMA MessageReceivedKeeps ==
    ASSUME IInv, NEW view \in Surface, MessageReceived(view) PROVE IInv'
<1> DEFINE queue == mail[Window[view]]
<1>1. Window[view] \in Surface /\ queue \in Seq(Message)
    BY TargetAssumption DEF IInv, TypeOK
<1>2. queue # <<>> /\ Head(queue) \in Message
    BY <1>1 DEF MessageReceived
<1>3. Sound(seat)'
  <2>1. Sound(Handled(seat, view, Head(queue)))
    BY <1>2, HandledSound DEF IInv
  <2> HIDE DEF queue
  <2>2. seat' = Handled(seat, view, Head(queue)) /\ pointers' = pointers
    BY DEF MessageReceived, queue
  <2> QED
    BY <2>1, <2>2 DEF Sound, Paired
<1>4. mail' \in [Surface -> Seq(Message)]
  <2>1. Rest(queue, view) \in Seq(Message)
    BY <1>1, <1>2, RestTyped
  <2>2. mail' = [mail EXCEPT ![Window[view]] = Rest(queue, view)]
    BY DEF MessageReceived
  <2> HIDE DEF queue
  <2> QED
    BY <1>1, <2>1, <2>2 DEF IInv, TypeOK
<1> QED
    BY <1>3, <1>4 DEF IInv, TypeOK, Sound, Paired, MessageReceived, mouseVars

LEMMA DetachKeeps ==
    ASSUME IInv, NEW s \in Surface, Detach(s), Sound(seat)', orphaned' \in BOOLEAN PROVE IInv'
<1>1. mail' \in [Surface -> Seq(Message)]
  <2>1. Window[s] \in Surface /\ mail[Window[s]] \in Seq(Message) /\ <<>> \in Seq(Message)
    BY TargetAssumption DEF IInv, TypeOK
  <2> QED
    BY <2>1, DelistedTyped DEF Detach, IInv, TypeOK
<1> QED
    BY <1>1 DEF Detach, IInv, TypeOK, Sound, Paired

LEMMA UserKeeps ==
    ASSUME IInv, mail' \in [Surface -> Seq(Message)], held' \subseteq Button,
           dragging' \in BOOLEAN, over' \in viewed \cup {NoSurface}, calm' \in BOOLEAN,
           UNCHANGED <<pointers, seat, viewed, orphaned>>
    PROVE  IInv'
BY DEF IInv, TypeOK, Sound, Paired

LEMMA ReleaseTyped ==
    ASSUME IInv, NEW b \in Button, Release(b) PROVE mail' \in [Surface -> Seq(Message)]
<1> DEFINE up == Posted(Plain("up", held \ {b}))
           w == Window[over]
<1>1. up \in [Surface -> Seq(Message)]
    BY PostedTyped, PlainTyped DEF IInv, TypeOK
<1>2. CASE mail' = up
    BY <1>1, <1>2
<1>3. ASSUME over # NoSurface, NEW drag \in BOOLEAN, mail' \in DropPosted(w, up, drag)
      PROVE  mail' \in [Surface -> Seq(Message)]
  <2> DEFINE drop == [Plain("drop", {}) EXCEPT !.drag = drag, !.views = {over}]
  <2>1. over \in viewed /\ over \in Surface /\ w \in Surface
    BY <1>3, TargetAssumption DEF IInv, TypeOK
  <2>2. drop \in Message
    BY <2>1 DEF Plain, Message
  <2>3. Views(w) # {} => Len(up[w]) \in Nat \ {0}
    <3>1. mail[w] \in Seq(Message)
        BY <2>1 DEF IInv, TypeOK
    <3> QED
        BY <1>1, <2>1, <3>1 DEF Posted
  <2>4. Views(w) # {}
    BY <2>1 DEF Views
  <2> HIDE DEF up, drop, w
  <2>5. up[w] \in Seq(Message) /\ mail[w] \in Seq(Message)
    BY <1>1, <2>1 DEF IInv, TypeOK
  <2>6. up[w][Len(up[w])] \in Message
    BY <2>3, <2>4, <2>5
  <2>7. /\ Append(up[w], drop) \in Seq(Message)
        /\ Append(mail[w], drop) \o <<up[w][Len(up[w])]>> \in Seq(Message)
    BY <2>2, <2>5, <2>6
  <2>8. DropPosted(w, up, drag) = {[up EXCEPT ![w] = Append(up[w], drop)],
                                   [up EXCEPT ![w] = Append(mail[w], drop) \o <<up[w][Len(up[w])]>>]}
    BY <1>1, <2>1 DEF DropPosted, drop
  <2> QED
    BY <1>1, <1>3, <2>1, <2>7, <2>8
<1> QED
    BY <1>2, <1>3 DEF Release

LEMMA InitTyped == Init => IInv
<1> SUFFICES ASSUME Init PROVE IInv
    OBVIOUS
<1>1. seat \in Seat /\ [s \in Surface |-> <<>>] \in [Surface -> Seq(Message)]
    BY DEF Init, Seat
<1> QED
    BY <1>1 DEF Init, IInv, TypeOK, Sound, Paired

LEMMA Invariance == Spec => []IInv
<1>1. Init => IInv
    BY InitTyped
<1>2. IInv /\ [Next]_vars => IInv'
  <2> SUFFICES ASSUME IInv, [Next]_vars PROVE IInv'
    OBVIOUS
  <2>1. CASE \E s \in Surface : MessageReceived(s)
    BY <2>1, MessageReceivedKeeps
  <2>2. CASE \E s \in Surface : DispatchNothing(s)
    <3>1. PICK s \in Surface : DispatchNothing(s)
        BY <2>2
    <3>2. mail[s] \in Seq(Message) /\ Tail(mail[s]) \in Seq(Message)
        BY <3>1 DEF DispatchNothing, IInv, TypeOK
    <3> QED
        BY <3>1, <3>2 DEF DispatchNothing, IInv, TypeOK, Sound, Paired, mouseVars, history
  <2>3. CASE \E s \in Surface : CreateView(s)
    BY <2>3 DEF CreateView, IInv, TypeOK, Sound, Paired, mouseVars, history
  <2>4. CASE \E s \in Surface : DestroyRole(s)
    <3>1. PICK s \in Surface : DestroyRole(s)
        BY <2>4
    <3>2. Sound(seat)' /\ orphaned' \in BOOLEAN
        BY <3>1 DEF DestroyRole, Detach, IInv, TypeOK, Sound, Paired
    <3> QED
        BY <3>1, <3>2, DetachKeeps DEF DestroyRole
  <2>5. CASE \E s \in Surface : DestroySurface(s)
    <3>1. PICK s \in Surface : DestroySurface(s)
        BY <2>5
    <3>2. Sound(DropPointerFocus(seat, s))
        BY DropSound DEF IInv
    <3>3. seat' = DropPointerFocus(seat, s) /\ pointers' = pointers
        BY <3>1 DEF DestroySurface, Detach
    <3>4. Sound(seat)'
        BY <3>2, <3>3 DEF Sound, Paired
    <3>5. orphaned' \in BOOLEAN
        BY <3>1, Zenon DEF DestroySurface
    <3> QED
        BY <3>1, <3>4, <3>5, DetachKeeps DEF DestroySurface
  <2>6. CASE \E p \in Pointer : HandleGetPointer(p)
    BY <2>6 DEF HandleGetPointer, IInv, TypeOK, Sound, Paired, mouseVars, history
  <2>7. CASE \E p \in Pointer : DestroyPointer(p)
    <3>1. PICK p \in Pointer : DestroyPointer(p)
        BY <2>7
    <3>2. Sound(seat)'
        BY <3>1 DEF DestroyPointer, IInv, TypeOK, Sound, Paired, Seat
    <3> QED
        BY <3>1, <3>2 DEF DestroyPointer, IInv, TypeOK, Sound, Paired, mouseVars, history
  <2>8. CASE \E id \in {"move", "resize"} : DoTrack(id)
    <3>1. PICK id \in {"move", "resize"} : DoTrack(id)
        BY <2>8
    <3>2. seat.focus \in Surface /\ Paired(seat)
        BY <3>1 DEF DoTrack, IInv, Sound, Paired, Seat
    <3>3. Sound(SetPointerFocus(seat, seat.focus, id, {}))
        BY <3>2, SetSound DEF Id
    <3>4. Sound(seat)'
        BY <3>1, <3>3 DEF DoTrack, Sound, Paired
    <3> QED
        BY <3>1, <3>4 DEF DoTrack, IInv, TypeOK, Sound, Paired, mouseVars, history
  <2>9. CASE \E to \in viewed \cup {NoSurface} : Move(to)
    <3>1. PICK to \in viewed \cup {NoSurface} : Move(to)
        BY <2>9
    <3> DEFINE m == [what |-> "moved", from |-> over, to |-> to, buttons |-> held,
                     drag |-> dragging, views |-> {}]
    <3>2. m \in Message
        BY <3>1 DEF Message, IInv, TypeOK
    <3>3. mail' = Posted(m)
        BY <3>1 DEF Move
    <3> HIDE DEF m
    <3>4. mail' \in [Surface -> Seq(Message)]
        BY <3>2, <3>3, PostedTyped DEF IInv
    <3> QED
        BY <3>1, <3>4, UserKeeps DEF Move, IInv, TypeOK
  <2>10. CASE \E b \in Button : Press(b)
    <3>1. PICK b \in Button : Press(b)
        BY <2>10
    <3>2. mail' \in [Surface -> Seq(Message)]
        BY <3>1, PostedTyped, PlainTyped DEF Press, IInv, TypeOK
    <3> QED
        BY <3>1, <3>2, UserKeeps DEF Press, IInv, TypeOK
  <2>11. CASE \E b \in Button : Release(b)
    <3>1. PICK b \in Button : Release(b)
        BY <2>11
    <3>2. mail' \in [Surface -> Seq(Message)]
        BY <3>1, ReleaseTyped
    <3> QED
        BY <3>1, <3>2, UserKeeps DEF Release, IInv, TypeOK
  <2>12. CASE StartDrag
    BY <2>12, UserKeeps DEF StartDrag, IInv, TypeOK
  <2>13. CASE UNCHANGED vars
    BY <2>13 DEF vars, mouseVars, history, IInv, TypeOK, Sound, Paired
  <2> QED
    BY <2>1, <2>2, <2>3, <2>4, <2>5, <2>6, <2>7, <2>8, <2>9, <2>10, <2>11, <2>12, <2>13
       DEF Next
<1> QED
    BY <1>1, <1>2, PTL DEF Spec

(* Type correctness, for any sets of surfaces and buttons.                  *)
THEOREM TypeCorrect == Spec => []TypeOK
<1>1. IInv => TypeOK
    BY DEF IInv
<1> QED
    BY <1>1, Invariance, PTL

(* Pointers and the data device were told to enter what has the focus, and  *)
(* nothing else, whatever order the messages are handled in.                *)
THEOREM EnterAndLeavePair == Spec => []FocusTold
<1>1. IInv => FocusTold
    BY DEF IInv, Sound, Paired, FocusTold
<1> QED
    BY <1>1, Invariance, PTL

(* Without a focus there is no grab, so somebody can take the focus.        *)
THEOREM GrabsHaveAFocus == Spec => []GrabHasFocus
<1>1. IInv => GrabHasFocus
    BY DEF IInv, Sound, Paired, GrabHasFocus
<1> QED
    BY <1>1, Invariance, PTL
-----------------------------------------------------------------------------
(* What the queues promise.  Everything is said of the messages of a queue  *)
(* q after the n-th, as a view v finds them, and of the user's mouse: h is  *)
(* held, o is over, d is dragging.                                          *)

Out(m, v) == m.what = "moved" /\ v \in m.views /\ m.to # v
Exit(m, v) == Out(m, v) /\ m.from = v

(* Messages about buttons of which button x is down. *)
Down(m, x) == m.what \in {"down", "up"} => x \in m.buttons

(* v hears of it when x goes up, before anything else says that x is not down. *)
LetGo(q, n, v, x, h) ==
    \/ x \in h /\ \A k \in (n + 1) .. Len(q) : Down(q[k], x)
    \/ \E j \in (n + 1) .. Len(q) :
         /\ q[j].what = "up" /\ x \notin q[j].buttons /\ v \in q[j].views
         /\ \A k \in (n + 1) .. (j - 1) : Down(q[k], x)

(* The mouse is over v or leaves it. *)
Leaves(q, n, v, o) == o = v \/ \E j \in (n + 1) .. Len(q) : Exit(q[j], v)

(* What is dragged over v is taken away or dropped. *)
DragEnds(q, n, v, o, d) ==
    \/ o = v /\ d
    \/ \E j \in (n + 1) .. Len(q) : Out(q[j], v) \/ (q[j].what = "drop" /\ v \in q[j].views)

(* What the i-th message makes v do is undone by a later one. *)
Kept(q, i, v, h, o, d) ==
    /\ \A x \in q[i].buttons : LetGo(q, i, v, x, h)
    /\ q[i].what = "moved" /\ q[i].to = v =>
         Leaves(q, i, v, o) /\ (q[i].drag => DragEnds(q, i, v, o, d))
    /\ q[i].what = "drop" => Leaves(q, i, v, o)

(* V are the views of the window. *)
KeptQueue(q, V, h, o, d) == \A i \in 1 .. Len(q) :
    /\ q[i].views \subseteq V
    /\ q[i].what = "down" => q[i].buttons # {}
    /\ \A v \in q[i].views : Kept(q, i, v, h, o, d)

MailInv == \A w \in Surface : KeptQueue(mail[w], Views(w), held, over, dragging)

(* The same of the views of the surface in focus. *)
Ups == {p \in Button \X Surface :
          \E v \in viewed : Target[v] = p[2] /\ LetGo(mail[Window[v]], 0, v, p[1], held)}
Exits == {f \in Surface : \E v \in viewed : Target[v] = f /\ Leaves(mail[Window[v]], 0, v, over)}
Ends == {f \in Surface :
           \E v \in viewed : Target[v] = f /\ DragEnds(mail[Window[v]], 0, v, over, dragging)}

(* A seat whose focus will hear of what ends its grab, and of the mouse     *)
(* when it leaves.                                                          *)
Hearing(w, ups, exits, ends) == w.focus # NoSurface =>
    /\ w.pressed \subseteq w.btns
    /\ \A x \in w.btns : <<x, w.focus>> \in ups
    /\ w.id = "drag" => w.focus \in ends
    /\ ~w.captured \/ w.inside => w.focus \in exits

Track(w) ==
    /\ w.id # "client" => w.pressed = {}
    /\ w.id \in {"move", "resize"} => w.btns # {}
    /\ w.id # "drag" /\ w.captured => w.btns # {}

HearInv == ~orphaned => Hearing(seat, Ups, Exits, Ends)

QInv ==
    /\ IInv /\ MailInv /\ Track(seat) /\ HearInv
    /\ dragging => held # {}
-----------------------------------------------------------------------------
(* Queues *)

(* r is q without its first d messages: v finds the same after the n-th. *)
Alike(q, r, d, n, v) ==
    /\ Len(r) = Len(q) - d
    /\ \A k \in (n - d + 1) .. Len(r) :
         /\ r[k].what = q[k + d].what /\ r[k].from = q[k + d].from /\ r[k].to = q[k + d].to
         /\ r[k].buttons = q[k + d].buttons /\ r[k].drag = q[k + d].drag
         /\ v \in r[k].views <=> v \in q[k + d].views

LEMMA AlikePromises ==
    ASSUME NEW q, NEW r, NEW d \in Nat, NEW n \in Nat, d =< n, NEW v, Alike(q, r, d, n, v),
           Len(q) \in Nat, Len(r) \in Nat, NEW e \in Nat, e = n - d
    PROVE  /\ \A x, h : LetGo(q, n, v, x, h) => LetGo(r, e, v, x, h)
           /\ \A o : Leaves(q, n, v, o) => Leaves(r, e, v, o)
           /\ \A o, b : DragEnds(q, n, v, o, b) => DragEnds(r, e, v, o, b)
<1>0. Len(r) = Len(q) - d
    BY DEF Alike
<1>1. \A j \in (n + 1) .. Len(q) : j - d \in (n - d + 1) .. Len(r) /\ (j - d) + d = j
    BY <1>0
<1>2. \A k \in (n - d + 1) .. Len(r) : k + d \in (n + 1) .. Len(q)
    BY <1>0
<1>3. ASSUME NEW x, NEW h, LetGo(q, n, v, x, h) PROVE LetGo(r, n - d, v, x, h)
  <2>1. \A k \in (n - d + 1) .. Len(r) : Down(q[k + d], x) => Down(r[k], x)
    BY DEF Alike, Down
  <2>2. CASE x \in h /\ \A k \in (n + 1) .. Len(q) : Down(q[k], x)
    BY <2>1, <2>2, <1>2 DEF LetGo
  <2>3. CASE \E j \in (n + 1) .. Len(q) :
               /\ q[j].what = "up" /\ x \notin q[j].buttons /\ v \in q[j].views
               /\ \A k \in (n + 1) .. (j - 1) : Down(q[k], x)
    <3>1. PICK j \in (n + 1) .. Len(q) :
               /\ q[j].what = "up" /\ x \notin q[j].buttons /\ v \in q[j].views
               /\ \A k \in (n + 1) .. (j - 1) : Down(q[k], x)
        BY <2>3
    <3>2. /\ j - d \in (n - d + 1) .. Len(r)
          /\ r[j - d].what = "up" /\ x \notin r[j - d].buttons /\ v \in r[j - d].views
        BY <3>1, <1>1 DEF Alike
    <3>3. \A k \in (n - d + 1) .. ((j - d) - 1) : Down(r[k], x)
      <4> TAKE k \in (n - d + 1) .. ((j - d) - 1)
      <4>1. k \in (n - d + 1) .. Len(r) /\ k + d \in (n + 1) .. (j - 1)
        BY <1>0
      <4> QED
        BY <4>1, <3>1, <2>1
    <3> QED
        BY <3>2, <3>3 DEF LetGo
  <2> QED
    BY <1>3, <2>2, <2>3 DEF LetGo
<1>4. ASSUME NEW j \in (n + 1) .. Len(q)
      PROVE  /\ Exit(q[j], v) => Exit(r[j - d], v)
             /\ Out(q[j], v) => Out(r[j - d], v)
             /\ q[j].what = "drop" /\ v \in q[j].views => r[j - d].what = "drop" /\ v \in r[j - d].views
    BY <1>1 DEF Alike, Exit, Out
<1>5. /\ \A o : Leaves(q, n, v, o) => Leaves(r, n - d, v, o)
      /\ \A o, b : DragEnds(q, n, v, o, b) => DragEnds(r, n - d, v, o, b)
    BY <1>1, <1>4 DEF Leaves, DragEnds
<1> QED
    BY <1>3, <1>5

(* The same for every message v has not had yet. *)
LEMMA AlikeKept ==
    ASSUME NEW q, NEW r, NEW d \in Nat, NEW i \in Nat, d < i, i =< Len(q), NEW v,
           Alike(q, r, d, i - 1, v), Len(q) \in Nat, Len(r) \in Nat,
           NEW h, NEW o, NEW b, Kept(q, i, v, h, o, b)
    PROVE  Kept(r, i - d, v, h, o, b)
<1>1. Alike(q, r, d, i, v)
    BY DEF Alike
<1>2. i - d \in ((i - 1) - d + 1) .. Len(r) /\ (i - d) + d = i
    BY DEF Alike
<1>3. /\ r[i - d].what = q[i].what /\ r[i - d].to = q[i].to
      /\ r[i - d].buttons = q[i].buttons /\ r[i - d].drag = q[i].drag
    BY <1>2 DEF Alike
<1>4. /\ \A x : LetGo(q, i, v, x, h) => LetGo(r, i - d, v, x, h)
      /\ Leaves(q, i, v, o) => Leaves(r, i - d, v, o)
      /\ DragEnds(q, i, v, o, b) => DragEnds(r, i - d, v, o, b)
    BY <1>1, AlikePromises
<1> QED
    BY <1>3, <1>4 DEF Kept

(* A queue that a window has handed the first message of to a view. *)
LEMMA TailAlike ==
    ASSUME NEW q \in Seq(Message), q # <<>>, NEW n \in Nat \ {0}, NEW v
    PROVE  Alike(q, Tail(q), 1, n, v)
BY DEF Alike

Struck(q, u) == [q EXCEPT ![1].views = @ \ {u}]

LEMMA StruckAlike ==
    ASSUME NEW q \in Seq(Message), q # <<>>, NEW n \in Nat, NEW u, NEW v, n > 0 \/ v # u
    PROVE  Alike(q, [q EXCEPT ![1].views = @ \ {u}], 0, n, v)
<1> DEFINE r == [q EXCEPT ![1].views = @ \ {u}]
<1>1. Len(r) = Len(q)
    OBVIOUS
<1>2. ASSUME NEW k \in 1 .. Len(q), k > n
      PROVE  /\ r[k].what = q[k].what /\ r[k].from = q[k].from /\ r[k].to = q[k].to
             /\ r[k].buttons = q[k].buttons /\ r[k].drag = q[k].drag
             /\ v \in r[k].views <=> v \in q[k].views
  <2>1. q[k] \in Message
    OBVIOUS
  <2>2. CASE k # 1
    BY <2>2
  <2>3. CASE k = 1
    BY <2>3, <2>1, <1>2 DEF Message
  <2> QED
    BY <2>2, <2>3
<1> QED
    BY <1>1, <1>2 DEF Alike

LEMMA TailPromises ==
    ASSUME NEW q \in Seq(Message), q # <<>>, NEW v
    PROVE  /\ \A x, h : LetGo(q, 1, v, x, h) => LetGo(Tail(q), 0, v, x, h)
           /\ \A o : Leaves(q, 1, v, o) => Leaves(Tail(q), 0, v, o)
           /\ \A o, b : DragEnds(q, 1, v, o, b) => DragEnds(Tail(q), 0, v, o, b)
<1>1. Alike(q, Tail(q), 1, 1, v)
    BY TailAlike
<1>2. Len(Tail(q)) \in Nat /\ Len(q) \in Nat
    OBVIOUS
<1>3. 1 \in Nat /\ 0 \in Nat /\ 1 =< 1 /\ 0 = 1 - 1
    OBVIOUS
<1> DEFINE r == Tail(q)
<1> HIDE DEF r
<1> QED
    BY <1>1, <1>2, <1>3, AlikePromises

LEMMA StruckPromises ==
    ASSUME NEW q \in Seq(Message), q # <<>>, NEW n \in Nat, NEW u, NEW v, n > 0 \/ v # u
    PROVE  /\ \A x, h : LetGo(q, n, v, x, h) => LetGo(Struck(q, u), n, v, x, h)
           /\ \A o : Leaves(q, n, v, o) => Leaves(Struck(q, u), n, v, o)
           /\ \A o, b : DragEnds(q, n, v, o, b) => DragEnds(Struck(q, u), n, v, o, b)
<1>1. Alike(q, Struck(q, u), 0, n, v)
    BY StruckAlike DEF Struck
<1>2. Len(Struck(q, u)) \in Nat /\ Len(q) \in Nat
    BY DEF Struck
<1>3. 0 \in Nat /\ 0 =< n /\ n = n - 0
    OBVIOUS
<1> DEFINE r == Struck(q, u)
<1> HIDE DEF r
<1> QED
    BY <1>1, <1>2, <1>3, AlikePromises

(* What a view that the first message is not for still hears. *)
LEMMA SkipHead ==
    ASSUME NEW q \in Seq(Message), q # <<>>, NEW v, v \notin Head(q).views
    PROVE  /\ \A x, h : LetGo(q, 0, v, x, h) => LetGo(q, 1, v, x, h)
           /\ \A o : Leaves(q, 0, v, o) => Leaves(q, 1, v, o)
           /\ \A o, b : DragEnds(q, 0, v, o, b) => DragEnds(q, 1, v, o, b)
<1>1. v \notin q[1].views /\ Len(q) \in Nat \ {0}
    OBVIOUS
<1>2. \A j \in (0 + 1) .. Len(q) : v \in q[j].views => j \in (1 + 1) .. Len(q)
    BY <1>1
<1>3. ASSUME NEW x, NEW h, LetGo(q, 0, v, x, h) PROVE LetGo(q, 1, v, x, h)
  <2>1. \A n : \A k \in (1 + 1) .. n : k \in (0 + 1) .. n
    OBVIOUS
  <2>2. CASE x \in h /\ \A k \in (0 + 1) .. Len(q) : Down(q[k], x)
    BY <2>1, <2>2 DEF LetGo
  <2>3. CASE \E j \in (0 + 1) .. Len(q) :
               /\ q[j].what = "up" /\ x \notin q[j].buttons /\ v \in q[j].views
               /\ \A k \in (0 + 1) .. (j - 1) : Down(q[k], x)
    BY <1>2, <2>1, <2>3 DEF LetGo
  <2> QED
    BY <1>3, <2>2, <2>3 DEF LetGo
<1> QED
    BY <1>2, <1>3 DEF Leaves, DragEnds, Exit, Out

(* Handing the first message to u, or dropping it when nobody is left to    *)
(* have it, breaks no promise to later messages.                            *)
LEMMA TailKept ==
    ASSUME NEW q \in Seq(Message), q # <<>>, NEW V, NEW h, NEW o, NEW d, KeptQueue(q, V, h, o, d)
    PROVE  KeptQueue(Tail(q), V, h, o, d)
<1> DEFINE r == Tail(q)
<1>1. r \in Seq(Message) /\ Len(r) = Len(q) - 1 /\ Len(r) \in Nat /\ Len(q) \in Nat
      /\ \A i \in 1 .. Len(r) : r[i] = q[i + 1]
    OBVIOUS
<1>2. \A v : \A n \in Nat \ {0} : Alike(q, r, 1, n, v)
    BY TailAlike
<1> HIDE DEF r
<1>3. ASSUME NEW i \in 1 .. Len(r)
      PROVE  /\ r[i].views \subseteq V
             /\ r[i].what = "down" => r[i].buttons # {}
             /\ \A v \in r[i].views : Kept(r, i, v, h, o, d)
  <2>1. i + 1 \in 1 .. Len(q) /\ r[i] = q[i + 1] /\ (i + 1) - 1 = i /\ i + 1 \in Nat /\ 1 < i + 1
        /\ i + 1 =< Len(q)
    BY <1>1
  <2>2. /\ q[i + 1].views \subseteq V
        /\ q[i + 1].what = "down" => q[i + 1].buttons # {}
        /\ \A v \in q[i + 1].views : Kept(q, i + 1, v, h, o, d)
    BY <2>1 DEF KeptQueue
  <2>3. ASSUME NEW v \in r[i].views PROVE Kept(r, i, v, h, o, d)
    <3> DEFINE j == i + 1
    <3>1. j \in Nat /\ 1 < j /\ j =< Len(q) /\ j - 1 = i /\ j - 1 \in Nat \ {0}
        BY <2>1
    <3>2. Kept(q, j, v, h, o, d)
        BY <2>1, <2>2
    <3> HIDE DEF j
    <3>3. Alike(q, r, 1, j - 1, v)
        BY <1>2, <3>1
    <3>4. Kept(r, j - 1, v, h, o, d)
        BY <1>1, <3>1, <3>2, <3>3, AlikeKept
    <3> QED
        BY <3>1, <3>4
  <2> QED
    BY <2>1, <2>2, <2>3
<1> QED
    BY <1>3 DEF KeptQueue, r

LEMMA StruckKept ==
    ASSUME NEW q \in Seq(Message), q # <<>>, NEW u, NEW V, NEW h, NEW o, NEW d,
           KeptQueue(q, V, h, o, d)
    PROVE  KeptQueue([q EXCEPT ![1].views = @ \ {u}], V, h, o, d)
<1> DEFINE r == [q EXCEPT ![1].views = @ \ {u}]
<1>1. Len(r) = Len(q) /\ Len(q) \in Nat
    OBVIOUS
<1>2. \A v : \A n \in Nat : n > 0 \/ v # u => Alike(q, r, 0, n, v)
    BY StruckAlike
<1>3. ASSUME NEW i \in 1 .. Len(q)
      PROVE  /\ r[i].views \subseteq q[i].views /\ (i = 1 => u \notin r[i].views)
             /\ r[i].what = q[i].what /\ r[i].buttons = q[i].buttons
  <2>1. q[i] \in Message
    OBVIOUS
  <2>2. CASE i # 1
    BY <2>2
  <2>3. CASE i = 1
    BY <2>3, <2>1 DEF Message
  <2> QED
    BY <2>2, <2>3
<1> HIDE DEF r
<1>4. ASSUME NEW i \in 1 .. Len(r)
      PROVE  /\ r[i].views \subseteq V
             /\ r[i].what = "down" => r[i].buttons # {}
             /\ \A v \in r[i].views : Kept(r, i, v, h, o, d)
  <2>1. /\ q[i].views \subseteq V
        /\ q[i].what = "down" => q[i].buttons # {}
        /\ \A v \in q[i].views : Kept(q, i, v, h, o, d)
    BY <1>1 DEF KeptQueue
  <2>2. ASSUME NEW v \in r[i].views PROVE Kept(r, i, v, h, o, d)
    <3>1. i \in Nat /\ 0 < i /\ i =< Len(q) /\ i - 1 \in Nat /\ (i - 1 > 0 \/ v # u) /\ i - 0 = i
        BY <1>1, <1>3
    <3>2. Alike(q, r, 0, i - 1, v)
        BY <1>2, <3>1
    <3>3. Kept(q, i, v, h, o, d)
        BY <1>1, <1>3, <2>1
    <3>4. Kept(r, i - 0, v, h, o, d)
        BY <1>1, <3>1, <3>2, <3>3, AlikeKept, SMTT(30)
    <3> QED
        BY <3>1, <3>4
  <2> QED
    BY <1>1, <1>3, <2>1, <2>2
<1> QED
    BY <1>4 DEF KeptQueue, r

LEMMA RestKept ==
    ASSUME NEW q \in Seq(Message), q # <<>>, NEW u, NEW V, NEW h, NEW o, NEW d,
           KeptQueue(q, V, h, o, d)
    PROVE  KeptQueue(Rest(q, u), V, h, o, d)
BY TailKept, StruckKept DEF Rest

(* Removing a view that is not the one. *)
LEMMA DelistedKept ==
    ASSUME NEW q \in Seq(Message), NEW s, NEW V, NEW h, NEW o, NEW p, NEW d,
           KeptQueue(q, V, h, o, d), \A v \in V \ {s} : o = v => p = v
    PROVE  /\ KeptQueue(Delisted(q, s), V \ {s}, h, p, d)
           /\ \A v : v # s => Alike(q, Delisted(q, s), 0, 0, v)
<1> DEFINE r == Delisted(q, s)
<1>1. Len(r) = Len(q) /\ Len(q) \in Nat
    BY DEF Delisted
<1>2. ASSUME NEW i \in 1 .. Len(q)
      PROVE  /\ r[i].views = q[i].views \ {s} /\ r[i].what = q[i].what /\ r[i].from = q[i].from
             /\ r[i].to = q[i].to /\ r[i].buttons = q[i].buttons /\ r[i].drag = q[i].drag
  <2>1. q[i] \in Message /\ r[i] = [q[i] EXCEPT !.views = @ \ {s}]
    BY DEF Delisted
  <2> QED
    BY <2>1 DEF Message
<1> HIDE DEF r
<1>3. \A v : \A n \in Nat : v # s => Alike(q, r, 0, n, v)
    BY <1>1, <1>2 DEF Alike
<1>4. ASSUME NEW i \in 1 .. Len(r)
      PROVE  /\ r[i].views \subseteq V \ {s}
             /\ r[i].what = "down" => r[i].buttons # {}
             /\ \A v \in r[i].views : Kept(r, i, v, h, p, d)
  <2>1. /\ q[i].views \subseteq V
        /\ q[i].what = "down" => q[i].buttons # {}
        /\ \A v \in q[i].views : Kept(q, i, v, h, o, d)
    BY <1>1 DEF KeptQueue
  <2>2. ASSUME NEW v \in r[i].views PROVE Kept(r, i, v, h, p, d)
    <3>1. v \in V \ {s} /\ Kept(q, i, v, h, o, d)
        BY <1>1, <1>2, <2>1
    <3>2. i \in Nat /\ 0 < i /\ i =< Len(q) /\ i - 1 \in Nat /\ i - 0 = i
        BY <1>1
    <3>3. Alike(q, r, 0, i - 1, v)
        BY <1>3, <3>1, <3>2
    <3>4. Kept(r, i - 0, v, h, o, d)
        BY <1>1, <3>1, <3>2, <3>3, AlikeKept, SMTT(30)
    <3>5. o = v => p = v
        BY <3>1
    <3> QED
        BY <3>2, <3>4, <3>5 DEF Kept, Leaves, DragEnds
  <2> QED
    BY <1>1, <1>2, <2>1, <2>2
<1> QED
    BY <1>3, <1>4 DEF KeptQueue, r

(* The user's next act: h, o and d become hh, oo and dd, and m says so.     *)
Says(m, V, h, o, d, hh, oo, dd) ==
    /\ m.views \subseteq V /\ m.buttons \subseteq hh
    /\ m.what = "down" => h \subseteq m.buttons /\ m.buttons # {}
    /\ m.what = "up" => m.views = V
    /\ \A x \in h : x \in hh \/ (m.what = "up" /\ x \notin m.buttons)
    /\ m.what = "up" => hh \subseteq m.buttons
    /\ oo = o \/ (m.what = "moved" /\ m.from = o /\ m.to = oo /\ m.views = V)
    /\ d /\ o \in V => \/ dd /\ (oo = o \/ m.what = "moved")
                       \/ m.what = "drop" /\ o \in m.views
    /\ m.what = "moved" => m.to = oo /\ (m.drag => dd)
    /\ m.what = "drop" => \A v \in m.views : oo = v

LEMMA AppendPromises ==
    ASSUME NEW q \in Seq(Message), NEW m \in Message, NEW V, NEW h, NEW o, NEW d,
           NEW hh, NEW oo, NEW dd, Says(m, V, h, o, d, hh, oo, dd), NEW v \in V, NEW n \in 0 .. Len(q)
    PROVE  /\ \A x : LetGo(q, n, v, x, h) => LetGo(Append(q, m), n, v, x, hh)
           /\ Leaves(q, n, v, o) => Leaves(Append(q, m), n, v, oo)
           /\ DragEnds(q, n, v, o, d) => DragEnds(Append(q, m), n, v, oo, dd)
<1> DEFINE r == Append(q, m)
           l == Len(q) + 1
<1>1. /\ Len(q) \in Nat /\ Len(r) = l /\ r[l] = m /\ l \in (n + 1) .. Len(r)
      /\ \A i \in 1 .. Len(q) : r[i] = q[i]
      /\ \A i \in (n + 1) .. Len(q) : i \in 1 .. Len(q) /\ i \in (n + 1) .. Len(r)
      /\ \A i \in (n + 1) .. Len(r) : i = l \/ i \in (n + 1) .. Len(q)
    OBVIOUS
<1> HIDE DEF r
<1>2. ASSUME NEW x, LetGo(q, n, v, x, h) PROVE LetGo(r, n, v, x, hh)
  <2>1. CASE x \in h /\ \A k \in (n + 1) .. Len(q) : Down(q[k], x)
    <3>1. \A k \in (n + 1) .. (l - 1) : Down(r[k], x)
        BY <1>1, <2>1
    <3>2. CASE m.what = "up" /\ x \notin m.buttons
        BY <1>1, <3>1, <3>2 DEF LetGo, Says
    <3>3. CASE ~(m.what = "up" /\ x \notin m.buttons)
      <4>1. x \in hh /\ Down(m, x)
        BY <2>1, <3>3 DEF Says, Down
      <4>2. \A k \in (n + 1) .. Len(r) : Down(r[k], x)
        BY <1>1, <2>1, <4>1
      <4> QED
        BY <4>1, <4>2 DEF LetGo
    <3> QED
        BY <3>2, <3>3
  <2>2. CASE \E j \in (n + 1) .. Len(q) :
               /\ q[j].what = "up" /\ x \notin q[j].buttons /\ v \in q[j].views
               /\ \A k \in (n + 1) .. (j - 1) : Down(q[k], x)
    <3>1. PICK j \in (n + 1) .. Len(q) :
               /\ q[j].what = "up" /\ x \notin q[j].buttons /\ v \in q[j].views
               /\ \A k \in (n + 1) .. (j - 1) : Down(q[k], x)
        BY <2>2
    <3>2. r[j] = q[j] /\ j \in (n + 1) .. Len(r)
        BY <1>1
    <3>3. \A k \in (n + 1) .. (j - 1) : Down(r[k], x)
      <4> TAKE k \in (n + 1) .. (j - 1)
      <4>1. k \in 1 .. Len(q)
        BY <1>1
      <4> QED
        BY <1>1, <3>1, <4>1
    <3> QED
        BY <3>1, <3>2, <3>3 DEF LetGo
  <2> QED
    BY <1>2, <2>1, <2>2 DEF LetGo
<1>3. Leaves(q, n, v, o) => Leaves(r, n, v, oo)
    BY <1>1 DEF Leaves, Exit, Out, Says
<1>4. DragEnds(q, n, v, o, d) => DragEnds(r, n, v, oo, dd)
    BY <1>1 DEF DragEnds, Out, Says
<1> QED
    BY <1>2, <1>3, <1>4 DEF r

LEMMA AppendKept ==
    ASSUME NEW q \in Seq(Message), NEW m \in Message, NEW V, NEW h, NEW o, NEW d,
           NEW hh, NEW oo, NEW dd, Says(m, V, h, o, d, hh, oo, dd), KeptQueue(q, V, h, o, d)
    PROVE  KeptQueue(Append(q, m), V, hh, oo, dd)
<1> DEFINE r == Append(q, m)
           l == Len(q) + 1
<1>1. /\ Len(q) \in Nat /\ Len(r) = l /\ r[l] = m
      /\ \A i \in 1 .. Len(q) : r[i] = q[i] /\ i \in 0 .. Len(q)
      /\ \A i \in 1 .. Len(r) : i = l \/ i \in 1 .. Len(q)
      /\ \A k \in (l + 1) .. Len(r) : FALSE
    OBVIOUS
<1>2. \A v \in V, n \in 0 .. Len(q) :
           /\ \A x : LetGo(q, n, v, x, h) => LetGo(r, n, v, x, hh)
           /\ Leaves(q, n, v, o) => Leaves(r, n, v, oo)
           /\ DragEnds(q, n, v, o, d) => DragEnds(r, n, v, oo, dd)
    BY AppendPromises
<1> HIDE DEF r
<1>3. ASSUME NEW i \in 1 .. Len(q)
      PROVE  /\ r[i].views \subseteq V
             /\ r[i].what = "down" => r[i].buttons # {}
             /\ \A v \in r[i].views : Kept(r, i, v, hh, oo, dd)
  <2>1. /\ q[i].views \subseteq V
        /\ q[i].what = "down" => q[i].buttons # {}
        /\ \A v \in q[i].views : Kept(q, i, v, h, o, d)
    BY DEF KeptQueue
  <2> QED
    BY <1>1, <1>2, <2>1 DEF Kept
<1>4. /\ m.views \subseteq V
      /\ m.what = "down" => m.buttons # {}
      /\ \A v \in m.views : Kept(r, l, v, hh, oo, dd)
  <2>1. ASSUME NEW v \in m.views PROVE Kept(r, l, v, hh, oo, dd)
    <3>1. \A x \in m.buttons : LetGo(r, l, v, x, hh)
        BY <1>1 DEF LetGo, Says
    <3> QED
        BY <1>1, <3>1 DEF Kept, Leaves, DragEnds, Says
  <2> QED
    BY <2>1 DEF Says
<1> QED
    BY <1>1, <1>3, <1>4 DEF KeptQueue, r
-----------------------------------------------------------------------------
(* The seat, when u is handed m: what the views of a surface were promised  *)
(* (ups, exits and ends) they still are (ups2, exits2 and ends2), but for   *)
(* what m itself fulfils, and u is promised more by m.                      *)

Delivered(u, m, ups, exits, ends, ups2, exits2, ends2) ==
    /\ \A x, f : <<x, f>> \in ups =>
         <<x, f>> \in ups2 \/ (f = Target[u] /\ m.what = "up" /\ x \notin m.buttons)
    /\ \A f \in exits : f \in exits2 \/ (f = Target[u] /\ m.what = "moved" /\ m.to # u /\ m.from = u)
    /\ \A f \in ends :
         f \in ends2 \/ (f = Target[u] /\ ((m.what = "moved" /\ m.to # u) \/ m.what = "drop"))
    /\ m.what = "down" => m.buttons # {} /\ \A x : <<x, Target[u]>> \in ups => x \in m.buttons
    /\ \A x \in m.buttons : <<x, Target[u]>> \in ups2
    /\ m.what = "moved" /\ m.to = u =>
         Target[u] \in exits2 /\ (m.drag => Target[u] \in ends2)
    /\ m.what = "drop" => Target[u] \in exits2

LEMMA FocusedFields ==
    ASSUME NEW w, Paired(w), w.id # "client" => w.pressed = {}, NEW s \in Anyone, NEW id \in Id,
           NEW buttons \in SUBSET Button
    PROVE  LET v == Focused(w, s, id, buttons)
           IN  /\ v.focus = s /\ v.id = id
               /\ s # NoSurface => v.captured = w.captured /\ v.inside = w.inside
               /\ v.btns = IF w.focus = s THEN w.btns
                           ELSE IF s = NoSurface THEN {} ELSE buttons
               /\ v.pressed = IF w.focus = s /\ w.id = id THEN w.pressed ELSE {}
<1>1. CASE w.focus = s /\ w.id = id
    BY <1>1 DEF Focused
<1>2. CASE ~(w.focus = s /\ w.id = id)
  <2> DEFINE l == Left(w)
             r == Retargeted(l, s, id, buttons)
  <2>1. /\ l \in Seat
        /\ l.focus = w.focus /\ l.captured = w.captured /\ l.inside = w.inside /\ l.btns = w.btns
        /\ l.pressed = {}
    <3>1. l \in Seat
        BY LeftAway DEF Away
    <3>0. w \in Seat
        BY DEF Paired
    <3>2. CASE w.focus # NoSurface /\ w.id = "client"
      <4> DEFINE told == [p \in Pointer |-> IF p \in pointers THEN NoSurface ELSE w.told[p]]
      <4>1. l = [w EXCEPT !.told = told, !.pressed = {}]
        BY <3>0, <3>2 DEF Left, Seat
      <4> HIDE DEF told, l
      <4> QED
        BY <3>0, <3>1, <4>1 DEF Seat
    <3>3. CASE w.focus # NoSurface /\ w.id = "drag"
        BY <3>3, <3>0 DEF Left, Seat
    <3>4. CASE ~(w.focus # NoSurface /\ w.id \in {"client", "drag"})
        BY <3>1, <3>4 DEF Left, Paired
    <3> QED
        BY <3>1, <3>2, <3>3, <3>4
  <2> HIDE DEF l
  <2>2. /\ r.focus = s /\ r.id = id /\ r.pressed = {}
        /\ s # NoSurface => r.captured = w.captured /\ r.inside = w.inside
        /\ r.btns = IF w.focus = s THEN w.btns ELSE IF s = NoSurface THEN {} ELSE buttons
    <3>1. /\ r.focus = s /\ r.id = id /\ r.pressed = {}
          /\ r.captured = (l.captured /\ s # NoSurface) /\ r.inside = (l.inside /\ s # NoSurface)
          /\ r.btns = IF l.focus = s THEN l.btns ELSE IF s = NoSurface THEN {} ELSE buttons
        BY <2>1 DEF Retargeted, Seat
    <3>2. l.captured \in BOOLEAN /\ l.inside \in BOOLEAN
        BY <2>1 DEF Seat
    <3> QED
        BY <2>1, <3>1, <3>2
  <2>3. r \in Seat
    <3> DEFINE c == l.captured /\ s # NoSurface
               n == l.inside /\ s # NoSurface
               b == IF l.focus = s THEN l.btns ELSE IF s = NoSurface THEN {} ELSE buttons
    <3>1. l \in Seat /\ c \in BOOLEAN /\ n \in BOOLEAN /\ b \in SUBSET Button
        BY <2>1 DEF Seat
    <3>2. r = [l EXCEPT !.focus = s, !.id = id, !.captured = c, !.inside = n, !.btns = b]
        BY <3>1 DEF Retargeted, Seat
    <3> HIDE DEF c, n, b, r
    <3> QED
        BY <3>1, <3>2 DEF Seat, Anyone, Id
  <2> HIDE DEF r
  <2> DEFINE e == Entered(r)
  <2>4. /\ e.focus = r.focus /\ e.id = r.id /\ e.captured = r.captured /\ e.inside = r.inside
        /\ e.btns = r.btns /\ e.pressed = r.pressed
    BY <2>3 DEF Entered, Seat
  <2> QED
    BY <1>2, <2>2, <2>4 DEF Focused, l, r
<1> QED
    BY <1>1, <1>2

(* Who loses the focus has nothing pressed and no grab. *)
LEMMA FreedTrack ==
    ASSUME NEW w, Sound(w), w.id # "client" => w.pressed = {}, NEW s \in Surface, w.focus = s
    PROVE  LET v == DropPointerFocus(w, s)
           IN  v.focus = NoSurface /\ v.id = "none" /\ v.captured = FALSE /\ v.pressed = {} /\ Track(v)
<1> DEFINE v == DropPointerFocus(w, s)
<1>1. v = Focused(w, NoSurface, "none", {}) /\ NoSurface # s
    BY SurfaceAssumption DEF DropPointerFocus
<1>2. v.focus = NoSurface /\ v.id = "none" /\ v.pressed = {}
  <2>1. /\ NoSurface \in Anyone /\ "none" \in Id /\ {} \in SUBSET Button /\ Paired(w)
        /\ w.focus # NoSurface
    BY <1>1 DEF Sound, Anyone, Id
  <2> QED
    BY <1>1, <2>1, FocusedFields
<1>3. v.captured = FALSE
    BY <1>1, <1>2, DropSound DEF Sound, Paired, Seat
<1> QED
    BY <1>2, <1>3 DEF Track

Hears(w, v, ups, exits, ends, ups2, exits2, ends2) ==
    /\ Track(v)
    /\ v.focus # w.focus \/ Hearing(w, ups, exits, ends) => Hearing(v, ups2, exits2, ends2)

LEMMA PressedHears ==
    ASSUME NEW w, Sound(w), Track(w), NEW u \in Surface, NEW m \in Message, m.what = "down",
           NEW ups, NEW exits, NEW ends, NEW ups2, NEW exits2, NEW ends2,
           Delivered(u, m, ups, exits, ends, ups2, exits2, ends2)
    PROVE  Hears(w, Pressed(w, Target[u], m), ups, exits, ends, ups2, exits2, ends2)
<1> DEFINE s == Target[u]
           v == Pressed(w, s, m)
<1>1. CASE w.focus # s
    BY <1>1 DEF Pressed, Hears, Hearing, Delivered
<1>2. CASE w.focus = s
  <2>1. /\ v.focus = s /\ v.id = w.id /\ v.inside = w.inside /\ v.btns = m.buttons
        /\ v.captured = (w.captured \/ (w.btns = {} /\ m.buttons # {}))
        /\ v.pressed = IF w.id \in {"none", "client"} THEN w.pressed \cup (m.buttons \ w.btns)
                       ELSE w.pressed
    BY <1>2 DEF Pressed, Sound, Paired, Seat
  <2>2. s # NoSurface /\ w.id # "none"
    BY <1>2, SurfaceAssumption, TargetAssumption DEF Sound, Paired
  <2>3. Track(v)
    BY <2>1, <2>2 DEF Track, Delivered
  <2>4. ASSUME Hearing(w, ups, exits, ends) PROVE Hearing(v, ups2, exits2, ends2)
    <3>1. w.btns \subseteq m.buttons /\ v.pressed \subseteq m.buttons
        BY <1>2, <2>1, <2>2, <2>4 DEF Hearing, Delivered
    <3>2. ~v.captured \/ v.inside => ~w.captured \/ w.inside
        BY <2>1
    <3> QED
        BY <1>2, <2>1, <2>2, <2>4, <3>1, <3>2 DEF Hearing, Delivered
  <2> QED
    BY <1>2, <2>1, <2>3, <2>4 DEF Hears
<1> QED
    BY <1>1, <1>2

LEMMA DroppedHears ==
    ASSUME NEW w, Sound(w), Track(w), NEW u \in Surface, NEW m \in Message, m.what = "drop",
           NEW ups, NEW exits, NEW ends, NEW ups2, NEW exits2, NEW ends2,
           Delivered(u, m, ups, exits, ends, ups2, exits2, ends2)
    PROVE  Hears(w, Dropped(w, Target[u], m), ups, exits, ends, ups2, exits2, ends2)
<1> DEFINE s == Target[u]
           x == [w EXCEPT !.captured = FALSE]
           v == SetPointerFocus(x, s, "client", {})
<1>1. CASE ~EndsDrag(w, m)
    BY <1>1 DEF Dropped, EndsDrag, Hears, Hearing, Delivered
<1>2. CASE EndsDrag(w, m)
  <2>1. /\ Paired(x) /\ x.focus = w.focus /\ x.id = w.id /\ x.captured = FALSE /\ x.btns = w.btns
        /\ x.pressed = w.pressed /\ (x.id # "client" => x.pressed = {})
    <3>1. Paired(w) /\ w \in Seat
      BY DEF Sound, Paired
    <3>2. /\ Paired(x) /\ x.focus = w.focus /\ x.id = w.id /\ x.captured = FALSE
          /\ x.btns = w.btns
      BY <3>1, CapturedPaired
    <3>3. x.pressed = w.pressed
      BY <3>1 DEF Seat
    <3> QED
      BY <3>2, <3>3 DEF Track
  <2> HIDE DEF x
  <2>2. s \in Surface /\ s # NoSurface
    BY SurfaceAssumption, TargetAssumption
  <2>3. /\ v.focus = s /\ v.id = "client" /\ v.captured = FALSE
        /\ v.pressed = {} \/ (w.focus = s /\ v.pressed = w.pressed)
        /\ v.btns = IF w.focus = s THEN w.btns ELSE {}
    BY <2>1, <2>2, FocusedFields DEF SetPointerFocus, Anyone, Id
  <2> HIDE DEF v
  <2>4. Dropped(w, s, m) = v
    BY <1>2 DEF Dropped, v, x
  <2>5. Track(v)
    BY <2>3 DEF Track
  <2>6. s \in exits2
    BY DEF Delivered
  <2>7. w.focus = s => \A y : <<y, s>> \in ups => <<y, s>> \in ups2
    BY DEF Delivered
  <2> QED
    BY <2>2, <2>3, <2>4, <2>5, <2>6, <2>7 DEF Hears, Hearing
<1> QED
    BY <1>1, <1>2

LEMMA ReleasedHears ==
    ASSUME NEW w, Sound(w), Track(w), NEW u \in Surface, NEW m \in Message, m.what = "up",
           NEW ups, NEW exits, NEW ends, NEW ups2, NEW exits2, NEW ends2,
           Delivered(u, m, ups, exits, ends, ups2, exits2, ends2)
    PROVE  Hears(w, Released(w, Target[u], m), ups, exits, ends, ups2, exits2, ends2)
<1> DEFINE s == Target[u]
           pressed == IF w.id \in {"none", "client"} THEN w.pressed \ GoneUp(w, m)
                      ELSE w.pressed
           x == [w EXCEPT !.pressed = pressed]
           v == Ungrabbed(x, m)
           y == IF v.captured THEN v
                ELSE IF v.inside THEN SetPointerFocus(v, s, "client", m.buttons)
                ELSE DropPointerFocus(v, s)
           z == [y EXCEPT !.btns = m.buttons]
<1>1. CASE w.focus # s
    BY <1>1 DEF Released, Hears, Hearing, Delivered
<1>2. CASE w.focus = s
  <2>1. s \in Surface /\ s # NoSurface /\ w.id # "none" /\ m.buttons \in SUBSET Button
    BY <1>2, SurfaceAssumption, TargetAssumption DEF Sound, Paired, Message
  <2>2. /\ pressed \in SUBSET Button /\ (w.id # "client" => pressed = {})
        /\ w.pressed \subseteq w.btns => pressed \subseteq m.buttons
    BY <2>1 DEF Track, GoneUp, Sound, Paired, Seat
  <2> HIDE DEF pressed
  <2>3. Sound(x)
    BY <2>2, PressedPaired DEF Sound
  <2>40. Sound(v)
    <3> HIDE DEF x
    <3> QED
        BY <2>3 DEF Ungrabbed, Sound, Paired, Seat
  <2>4. /\ v.focus = s /\ v.id = w.id /\ v.inside = w.inside /\ v.btns = w.btns
        /\ v.pressed = pressed
        /\ v.captured = (w.captured /\ ~(w.btns # {} /\ m.buttons = {} /\ w.id # "drag"))
    <3>1. w \in Seat /\ x \in Seat
        BY <2>3 DEF Sound, Paired
    <3>2. /\ x.focus = s /\ x.id = w.id /\ x.inside = w.inside /\ x.btns = w.btns
          /\ x.pressed = pressed /\ x.captured = w.captured
        BY <1>2, <3>1 DEF Seat
    <3> HIDE DEF x
    <3> QED
        BY <3>1, <3>2 DEF Ungrabbed, Seat
  <2> HIDE DEF v
  <2>5. Sound(y)
    BY <2>1, <2>4, <2>40, SetSound, DropSound DEF Sound, Id
  <2>6. Released(w, s, m) = z
    BY <1>2 DEF Released, z, y, v, x, pressed
  <2>7. /\ z.focus = y.focus /\ z.id = y.id /\ z.captured = y.captured /\ z.inside = y.inside
        /\ z.pressed = y.pressed /\ z.btns = m.buttons
    BY <2>5 DEF Sound, Paired, Seat
  <2>8. \A b \in m.buttons : <<b, s>> \in ups2
    BY DEF Delivered
  <2>9. Hearing(w, ups, exits, ends) =>
          /\ w.pressed \subseteq w.btns /\ (w.id = "drag" => s \in ends2)
          /\ ~w.captured \/ w.inside => s \in exits2
    BY <1>2, <2>1 DEF Hearing, Delivered
  <2>10. CASE v.captured
    <3>1. y = v
        BY <2>10
    <3> HIDE DEF y, z
    <3>2. w.captured /\ (w.id # "drag" => m.buttons # {})
        BY <2>4, <2>10 DEF Track
    <3>3. w.id \in {"move", "resize"} => m.buttons # {}
        BY <3>2
    <3>4. Track(z)
        BY <2>2, <2>4, <2>7, <3>1, <3>2, <3>3 DEF Track
    <3>5. ASSUME Hearing(w, ups, exits, ends) PROVE Hearing(z, ups2, exits2, ends2)
        BY <2>2, <2>4, <2>7, <2>8, <2>9, <2>10, <3>1, <3>2, <3>5 DEF Hearing
    <3> QED
        BY <1>2, <2>4, <2>6, <2>7, <3>1, <3>4, <3>5 DEF Hears
  <2>11. CASE ~v.captured /\ v.inside
    <3>1. y = Focused(v, s, "client", m.buttons)
        BY <2>11 DEF SetPointerFocus
    <3>2. /\ y.focus = s /\ y.id = "client" /\ y.captured = v.captured /\ y.inside = v.inside
          /\ y.pressed = IF v.id = "client" THEN v.pressed ELSE {}
        BY <2>1, <2>2, <2>4, <2>40, <3>1, FocusedFields DEF Anyone, Id, Sound
    <3> HIDE DEF y, z
    <3>3. Track(z)
        BY <2>7, <2>11, <3>2 DEF Track
    <3>4. ASSUME Hearing(w, ups, exits, ends) PROVE Hearing(z, ups2, exits2, ends2)
        BY <2>2, <2>4, <2>7, <2>8, <2>9, <2>11, <3>2, <3>4 DEF Hearing
    <3> QED
        BY <1>2, <2>6, <2>7, <3>2, <3>3, <3>4 DEF Hears
  <2>12. CASE ~v.captured /\ ~v.inside
    <3>1. y = DropPointerFocus(v, s)
        BY <2>12
    <3>2. y.focus = NoSurface /\ y.id = "none" /\ y.captured = FALSE /\ y.pressed = {}
      <4>1. v.id # "client" => v.pressed = {}
        BY <2>2, <2>4
      <4> HIDE DEF y
      <4> QED
        BY <2>1, <2>4, <2>40, <3>1, <4>1, FreedTrack
    <3> HIDE DEF y, z
    <3> QED
        BY <2>6, <2>7, <3>2 DEF Hears, Hearing, Track
  <2> QED
    BY <2>10, <2>11, <2>12
<1> QED
    BY <1>1, <1>2

LEMMA InsideFields ==
    ASSUME NEW w \in Seat, NEW inside \in BOOLEAN
    PROVE  LET v == [w EXCEPT !.inside = inside]
           IN  /\ v.focus = w.focus /\ v.id = w.id /\ v.captured = w.captured
               /\ v.inside = inside /\ v.btns = w.btns /\ v.pressed = w.pressed
BY DEF Seat

(* A drag that leaves the surface. *)
Gone(w) == [w EXCEPT !.inside = FALSE, !.captured = FALSE]

LEMMA GoneTrack ==
    ASSUME NEW w, Paired(w), w.id # "client" => w.pressed = {}, NEW s \in Surface, w.focus = s
    PROVE  LET v == DropPointerFocus(Gone(w), s)
           IN  v.focus = NoSurface /\ Track(v)
<1> DEFINE g == Gone(w)
<1>1. Sound(g) /\ g.id = w.id /\ g.pressed = w.pressed /\ g.focus = s
    BY DEF Sound, Paired, Seat, Gone
<1> HIDE DEF g
<1>2. g.id # "client" => g.pressed = {}
    BY <1>1
<1>3. DropPointerFocus(g, s).focus = NoSurface /\ Track(DropPointerFocus(g, s))
    BY <1>1, <1>2, FreedTrack
<1> QED
    BY <1>3 DEF g

LEMMA MovedHears ==
    ASSUME NEW w, Sound(w), Track(w), NEW u \in Surface, NEW m \in Message, m.what = "moved",
           NEW ups, NEW exits, NEW ends, NEW ups2, NEW exits2, NEW ends2,
           Delivered(u, m, ups, exits, ends, ups2, exits2, ends2)
    PROVE  Hears(w, Moved(w, Target[u], Transit(u, m), m), ups, exits, ends, ups2, exits2, ends2)
<1> DEFINE s == Target[u]
           t == Transit(u, m)
           f == Followed(w, s, t, m)
           c == [w EXCEPT !.captured = TRUE]
           x == Focused(c, s, "drag", m.buttons)
           y == Focused(w, s, "client", m.buttons)
           z == Moved(w, s, t, m)
<1>0. SUFFICES Hears(w, z, ups, exits, ends, ups2, exits2, ends2)
    OBVIOUS
<1>1. /\ s \in Surface /\ s # NoSurface /\ s \in Anyone /\ m.buttons \in SUBSET Button
      /\ "drag" \in Id /\ "client" \in Id /\ w \in Seat /\ Paired(w) /\ Sound(w)
      /\ s = Target[u]
    BY SurfaceAssumption, TargetAssumption DEF Message, Anyone, Id, Sound, Paired
<1>2. /\ t \in Within <=> m.to = u
      /\ t = "exited" <=> m.to # u /\ m.from = u
    BY DEF Transit, Within
<1>3. w.id # "client" => w.pressed = {}
    BY DEF Track
<1>4. /\ Paired(c) /\ c.focus = w.focus /\ c.id = w.id /\ c.captured = TRUE /\ c.btns = w.btns
      /\ c.pressed = w.pressed
    BY <1>1 DEF Paired, Seat
<1> HIDE DEF s, t, c
<1>5. /\ x.focus = s /\ x.id = "drag" /\ x.captured = TRUE
      /\ x.btns = IF w.focus = s THEN w.btns ELSE m.buttons
      /\ x.pressed = IF w.focus = s /\ w.id = "drag" THEN w.pressed ELSE {}
  <2>1. c.id # "client" => c.pressed = {}
    BY <1>3, <1>4
  <2> QED
    BY <1>1, <1>4, <2>1, FocusedFields
<1>6. /\ y.focus = s /\ y.id = "client" /\ y.captured = w.captured
      /\ y.btns = IF w.focus = s THEN w.btns ELSE m.buttons
      /\ y.pressed = IF w.focus = s /\ w.id = "client" THEN w.pressed ELSE {}
    BY <1>1, <1>3, FocusedFields
<1>7. Sound(x) /\ Sound(y) /\ x \in Seat /\ y \in Seat
  <2>1. Sound(x)
    BY <1>1, <1>4, FocusedSound
  <2>2. Sound(y)
    BY <1>1, FocusedSound
  <2> QED
    BY <2>1, <2>2 DEF Sound, Paired
<1>8. /\ f = IF m.drag /\ w.id # "drag" THEN x
             ELSE IF ~m.drag /\ ~w.captured /\ t \in Within THEN y
             ELSE IF ~m.drag /\ ~w.captured /\ t = "exited" THEN DropPointerFocus(w, s) ELSE w
  <2>1. m.drag \in BOOLEAN /\ w.captured \in BOOLEAN
    BY <1>1 DEF Message, Seat
  <2>2. CASE m.drag /\ w.id # "drag"
    BY <2>2 DEF Followed, SetPointerFocus, x, c
  <2>3. CASE ~m.drag /\ ~w.captured /\ t \in Within
    BY <2>1, <2>3 DEF Followed, SetPointerFocus, y, Within
  <2>4. CASE ~m.drag /\ ~w.captured /\ t \notin Within /\ t = "exited"
    BY <2>4 DEF Followed
  <2>5. CASE ~(m.drag /\ w.id # "drag") /\ ~(~m.drag /\ ~w.captured /\ (t \in Within \/ t = "exited"))
    BY <2>1, <2>5 DEF Followed
  <2> QED
    BY <2>1, <2>2, <2>3, <2>4, <2>5
<1>9. z = IF f.focus # s THEN f
          ELSE IF t \in Within THEN [f EXCEPT !.inside = TRUE]
          ELSE IF f.id # "drag" THEN [f EXCEPT !.inside = FALSE]
          ELSE DropPointerFocus(Gone(f), s)
    BY DEF Moved, Gone
<1> HIDE DEF f, x, y, z
<1>10. \A b \in m.buttons : <<b, s>> \in ups2
    BY DEF Delivered, s
<1>11. ASSUME Hearing(w, ups, exits, ends), w.focus # NoSurface
       PROVE  /\ w.pressed \subseteq w.btns
              /\ \A b \in w.btns : <<b, w.focus>> \in ups2
              /\ w.id = "drag" => w.focus \in ends2 \/ (w.focus = s /\ m.to # u)
              /\ ~w.captured \/ w.inside =>
                   w.focus \in exits2 \/ (w.focus = s /\ m.to # u /\ m.from = u)
  <2>1. /\ w.pressed \subseteq w.btns
        /\ \A b \in w.btns : <<b, w.focus>> \in ups
        /\ w.id = "drag" => w.focus \in ends
        /\ ~w.captured \/ w.inside => w.focus \in exits
    BY <1>11 DEF Hearing
  <2>2. /\ \A b : <<b, w.focus>> \in ups => <<b, w.focus>> \in ups2
        /\ w.focus \in exits => w.focus \in exits2 \/ (w.focus = s /\ m.to # u /\ m.from = u)
        /\ w.focus \in ends => w.focus \in ends2 \/ (w.focus = s /\ m.to # u)
    <3>1. \A b, f0 : <<b, f0>> \in ups => <<b, f0>> \in ups2
        BY Zenon DEF Delivered
    <3>2. \A f0 \in exits : f0 \in exits2 \/ (f0 = s /\ m.to # u /\ m.from = u)
        BY Zenon DEF Delivered, s
    <3>3. \A f0 \in ends : f0 \in ends2 \/ (f0 = s /\ m.to # u)
        BY SMT DEF Delivered, s
    <3> QED
        BY <3>1, <3>2, <3>3
  <2> QED
    BY <2>1, <2>2
<1>12. CASE m.to = u
  <2>1. s \in exits2 /\ (m.drag => s \in ends2) /\ t \in Within
    BY <1>2, <1>12 DEF Delivered, s
  <2>2. CASE m.drag /\ w.id # "drag"
    <3>1. z = [x EXCEPT !.inside = TRUE]
        BY <1>5, <1>8, <1>9, <2>1, <2>2
    <3>2. /\ z.focus = s /\ z.id = "drag" /\ z.pressed = {}
          /\ z.btns = IF w.focus = s THEN w.btns ELSE m.buttons
        BY <1>5, <1>7, <2>2, <3>1, InsideFields
    <3> QED
        BY <1>1, <1>10, <1>11, <2>1, <2>2, <3>2 DEF Hears, Hearing, Track
  <2>3. CASE ~m.drag /\ ~w.captured
    <3>1. z = [y EXCEPT !.inside = TRUE]
        BY <1>6, <1>8, <1>9, <2>1, <2>3
    <3>2. /\ z.focus = s /\ z.id = "client" /\ z.captured = w.captured
          /\ z.btns = IF w.focus = s THEN w.btns ELSE m.buttons
          /\ z.pressed = IF w.focus = s /\ w.id = "client" THEN w.pressed ELSE {}
        BY <1>6, <1>7, <3>1, InsideFields
    <3> QED
        BY <1>1, <1>10, <1>11, <2>1, <2>3, <3>2 DEF Hears, Hearing, Track
  <2>4. CASE ~(m.drag /\ w.id # "drag") /\ ~(~m.drag /\ ~w.captured)
    <3>1. f = w
        BY <1>8, <2>4
    <3>2. CASE w.focus # s
        BY <1>9, <1>11, <3>1, <3>2 DEF Hears, Hearing
    <3>3. CASE w.focus = s
      <4>1. z = [w EXCEPT !.inside = TRUE]
        BY <1>9, <2>1, <3>1, <3>3
      <4>2. /\ z.focus = w.focus /\ z.id = w.id /\ z.captured = w.captured
            /\ z.btns = w.btns /\ z.pressed = w.pressed
        BY <1>1, <4>1, InsideFields
      <4> QED
        BY <1>1, <1>11, <1>12, <2>1, <3>3, <4>2 DEF Hears, Hearing, Track
    <3> QED
        BY <3>2, <3>3
  <2> QED
    BY <2>2, <2>3, <2>4
<1>13. CASE m.to # u
  <2>1. t \notin Within
    BY <1>2, <1>13
  <2>2. CASE m.drag /\ w.id # "drag"
    <3>1. z = DropPointerFocus(Gone(x), s)
        BY <1>5, <1>8, <1>9, <2>1, <2>2
    <3>2. Paired(x) /\ (x.id # "client" => x.pressed = {})
        BY <1>5, <1>7, <2>2 DEF Sound
    <3>3. z.focus = NoSurface /\ Track(z)
      <4> DEFINE g == DropPointerFocus(Gone(x), s)
      <4>1. g.focus = NoSurface /\ Track(g)
        BY <1>1, <1>5, <3>2, GoneTrack
      <4> QED
        BY <3>1, <4>1, Zenon
    <3> QED
        BY <3>3 DEF Hears, Hearing
  <2>3. CASE ~(m.drag /\ w.id # "drag") /\ w.focus # s
    <3>1. f = w
        BY <1>8, <2>1, <2>3 DEF DropPointerFocus
    <3> QED
        BY <1>9, <1>11, <2>3, <3>1 DEF Hears, Hearing
  <2>4. CASE ~m.drag /\ ~w.captured /\ m.from = u /\ w.focus = s
    <3>1. f = DropPointerFocus(w, s)
        BY <1>2, <1>8, <2>1, <2>4, <1>13
    <3>2. f.focus = NoSurface /\ Track(f)
      <4> DEFINE g == DropPointerFocus(w, s)
      <4>1. g.focus = NoSurface /\ Track(g)
        BY <1>1, <1>3, <2>4, FreedTrack
      <4> QED
        BY <3>1, <4>1, Zenon
    <3>3. z = f
        BY <1>1, <1>9, <3>2
    <3> QED
        BY <3>2, <3>3 DEF Hears, Hearing
  <2>5. CASE ~(m.drag /\ w.id # "drag") /\ ~(~m.drag /\ ~w.captured /\ m.from = u) /\ w.focus = s
    <3>1. f = w
        BY <1>2, <1>8, <2>1, <2>5
    <3>2. CASE w.id = "drag"
      <4>1. z = DropPointerFocus(Gone(w), s)
        BY <1>9, <2>1, <2>5, <3>1, <3>2
      <4>2. z.focus = NoSurface /\ Track(z)
        <5> DEFINE g == DropPointerFocus(Gone(w), s)
        <5>1. g.focus = NoSurface /\ Track(g)
            BY <1>1, <1>3, <2>5, GoneTrack
        <5> QED
            BY <4>1, <5>1, Zenon
      <4> QED
        BY <4>2 DEF Hears, Hearing
    <3>3. CASE w.id # "drag"
      <4>1. z = [w EXCEPT !.inside = FALSE]
        BY <1>9, <2>1, <2>5, <3>1, <3>3
      <4>2. /\ z.focus = w.focus /\ z.id = w.id /\ z.captured = w.captured /\ z.inside = FALSE
            /\ z.btns = w.btns /\ z.pressed = w.pressed
        BY <1>1, <4>1, InsideFields
      <4> QED
        BY <1>1, <1>11, <2>5, <3>3, <4>2 DEF Hears, Hearing, Track
    <3> QED
        BY <3>2, <3>3
  <2> QED
    BY <2>2, <2>3, <2>4, <2>5
<1> QED
    BY <1>12, <1>13

LEMMA HandledHears ==
    ASSUME NEW w, Sound(w), Track(w), NEW u \in Surface, NEW m \in Message,
           NEW ups, NEW exits, NEW ends, NEW ups2, NEW exits2, NEW ends2,
           Delivered(u, m, ups, exits, ends, ups2, exits2, ends2)
    PROVE  Hears(w, Handled(w, u, m), ups, exits, ends, ups2, exits2, ends2)
<1>1. m.what \in {"moved", "down", "up", "drop"}
    BY DEF Message
<1> QED
    BY <1>1, MovedHears, PressedHears, ReleasedHears, DroppedHears DEF Handled
-----------------------------------------------------------------------------
(* The actions *)

(* A step of the windows' threads: mail r is left of the queue q of u's     *)
(* window, whose first message m is handed to u.                            *)
LEMMA RestPromises ==
    ASSUME NEW q \in Seq(Message), q # <<>>, NEW u, u \in Head(q).views, NEW V, NEW h, NEW o, NEW d,
           KeptQueue(q, V, h, o, d)
    PROVE  LET r == Rest(q, u)
               m == Head(q)
           IN  /\ \A v, x : LetGo(q, 0, v, x, h) =>
                    LetGo(r, 0, v, x, h) \/ (v = u /\ m.what = "up" /\ x \notin m.buttons)
               /\ \A v : Leaves(q, 0, v, o) => Leaves(r, 0, v, o) \/ (v = u /\ Exit(m, u))
               /\ \A v : DragEnds(q, 0, v, o, d) =>
                    DragEnds(r, 0, v, o, d) \/ (v = u /\ (Out(m, u) \/ m.what = "drop"))
               /\ \A x \in m.buttons : LetGo(r, 0, u, x, h)
               /\ m.what = "moved" /\ m.to = u =>
                    Leaves(r, 0, u, o) /\ (m.drag => DragEnds(r, 0, u, o, d))
               /\ m.what = "drop" => Leaves(r, 0, u, o)
               /\ m.what = "down" => m.buttons # {}
<1> DEFINE r == Rest(q, u)
           m == Head(q)
<1>1. Len(q) \in Nat \ {0} /\ m = q[1] /\ m \in Message /\ 1 \in 1 .. Len(q)
    OBVIOUS
<1>2. m.what = "down" => m.buttons # {}
    BY <1>1 DEF KeptQueue
<1>3. Kept(q, 1, u, h, o, d)
    BY <1>1 DEF KeptQueue
<1>4. /\ \A x : LetGo(q, 1, u, x, h) /\ Down(m, x) => LetGo(r, 0, u, x, h)
      /\ Leaves(q, 1, u, o) => Leaves(r, 0, u, o)
      /\ DragEnds(q, 1, u, o, d) => DragEnds(r, 0, u, o, d)
  <2>1. CASE m.views = {u}
    <3>1. r = Tail(q) /\ Len(Tail(q)) \in Nat
        BY <1>1, <2>1 DEF Rest
    <3> HIDE DEF r, m
    <3> QED
        BY <3>1, TailPromises
  <2>2. CASE m.views # {u}
    <3>1. r = Struck(q, u) /\ Len(r) = Len(q)
        BY <2>2 DEF Rest, Struck
    <3>3. r[1].buttons = m.buttons /\ r[1].what = m.what
        BY <1>1, <3>1 DEF Message, Struck
    <3> HIDE DEF r, m
    <3>4. /\ \A x : LetGo(q, 1, u, x, h) => LetGo(r, 1, u, x, h)
          /\ Leaves(q, 1, u, o) => Leaves(r, 1, u, o)
          /\ DragEnds(q, 1, u, o, d) => DragEnds(r, 1, u, o, d)
      <4>1. 1 \in Nat /\ 1 > 0
        OBVIOUS
      <4> QED
        BY <3>1, <4>1, StruckPromises
    <3>5. \A k \in (1 + 1) .. Len(r) : k \in (0 + 1) .. Len(r)
        OBVIOUS
    <3>6. \A k \in (0 + 1) .. Len(r) : k = 1 \/ k \in (1 + 1) .. Len(r)
        BY <1>1, <3>1
    <3>7. ASSUME NEW x, LetGo(r, 1, u, x, h), Down(m, x) PROVE LetGo(r, 0, u, x, h)
      <4>1. Down(r[1], x)
        BY <3>3, <3>7 DEF Down
      <4>2. \A j \in Nat : \A k \in (0 + 1) .. (j - 1) : k = 1 \/ k \in (1 + 1) .. (j - 1)
        OBVIOUS
      <4>3. \A j \in (1 + 1) .. Len(r) : j \in Nat
        OBVIOUS
      <4> QED
        BY <3>5, <3>6, <3>7, <4>1, <4>2, <4>3 DEF LetGo
    <3> QED
        BY <3>4, <3>5, <3>7 DEF Leaves, DragEnds
  <2> QED
    BY <2>1, <2>2
<1>5. ASSUME NEW v, v # u
      PROVE  /\ \A x : LetGo(q, 0, v, x, h) => LetGo(r, 0, v, x, h)
             /\ Leaves(q, 0, v, o) => Leaves(r, 0, v, o)
             /\ DragEnds(q, 0, v, o, d) => DragEnds(r, 0, v, o, d)
  <2>1. CASE m.views = {u}
    <3>1. r = Tail(q) /\ Len(Tail(q)) \in Nat
        BY <1>1, <2>1 DEF Rest
    <3>3. /\ \A x : LetGo(q, 0, v, x, h) => LetGo(q, 1, v, x, h)
          /\ Leaves(q, 0, v, o) => Leaves(q, 1, v, o)
          /\ DragEnds(q, 0, v, o, d) => DragEnds(q, 1, v, o, d)
        BY <1>5, <2>1, SkipHead
    <3> HIDE DEF r, m
    <3>4. /\ \A x : LetGo(q, 1, v, x, h) => LetGo(r, 0, v, x, h)
          /\ Leaves(q, 1, v, o) => Leaves(r, 0, v, o)
          /\ DragEnds(q, 1, v, o, d) => DragEnds(r, 0, v, o, d)
        BY <3>1, TailPromises
    <3> QED
        BY <3>3, <3>4
  <2>2. CASE m.views # {u}
    <3>1. r = Struck(q, u)
        BY <2>2 DEF Rest, Struck
    <3> HIDE DEF r, m
    <3> QED
        BY <1>5, <3>1, StruckPromises
  <2> QED
    BY <2>1, <2>2
<1>6. ASSUME NEW x, LetGo(q, 0, u, x, h)
      PROVE  (LetGo(q, 1, u, x, h) /\ Down(m, x)) \/ (m.what = "up" /\ x \notin m.buttons)
  <2>1. CASE x \in h /\ \A k \in (0 + 1) .. Len(q) : Down(q[k], x)
    BY <1>1, <2>1 DEF LetGo
  <2>2. CASE \E j \in (0 + 1) .. Len(q) :
               /\ q[j].what = "up" /\ x \notin q[j].buttons /\ u \in q[j].views
               /\ \A k \in (0 + 1) .. (j - 1) : Down(q[k], x)
    BY <1>1, <2>2 DEF LetGo
  <2> QED
    BY <1>6, <2>1, <2>2 DEF LetGo
<1>7. \A j \in (0 + 1) .. Len(q) : j = 1 \/ j \in (1 + 1) .. Len(q)
    BY <1>1
<1> HIDE DEF r, m
<1>8. Leaves(q, 0, u, o) => Leaves(q, 1, u, o) \/ Exit(m, u)
    BY <1>1, <1>7 DEF Leaves
<1>9. DragEnds(q, 0, u, o, d) => DragEnds(q, 1, u, o, d) \/ Out(m, u) \/ m.what = "drop"
    BY <1>1, <1>7 DEF DragEnds
<1>10. /\ \A x \in m.buttons : LetGo(q, 1, u, x, h) /\ Down(m, x)
       /\ m.what = "moved" /\ m.to = u =>
            Leaves(q, 1, u, o) /\ (m.drag => DragEnds(q, 1, u, o, d))
       /\ m.what = "drop" => Leaves(q, 1, u, o)
    BY <1>1, <1>3 DEF Kept, Down
<1>11. /\ \A v, x : LetGo(q, 0, v, x, h) =>
            LetGo(r, 0, v, x, h) \/ (v = u /\ m.what = "up" /\ x \notin m.buttons)
       /\ \A v : Leaves(q, 0, v, o) => Leaves(r, 0, v, o) \/ (v = u /\ Exit(m, u))
       /\ \A v : DragEnds(q, 0, v, o, d) =>
            DragEnds(r, 0, v, o, d) \/ (v = u /\ (Out(m, u) \/ m.what = "drop"))
    BY <1>4, <1>5, <1>6, <1>8, <1>9
<1>12. /\ \A x \in m.buttons : LetGo(r, 0, u, x, h)
       /\ m.what = "moved" /\ m.to = u =>
            Leaves(r, 0, u, o) /\ (m.drag => DragEnds(r, 0, u, o, d))
       /\ m.what = "drop" => Leaves(r, 0, u, o)
    BY <1>4, <1>10
<1> QED
    BY <1>2, <1>11, <1>12 DEF r, m

LEMMA HearingGrows ==
    ASSUME NEW w, NEW a, NEW b, NEW c, NEW a2, NEW b2, NEW c2, Hearing(w, a, b, c),
           \A x : <<x, w.focus>> \in a => <<x, w.focus>> \in a2,
           w.focus \in b => w.focus \in b2, w.focus \in c => w.focus \in c2
    PROVE  Hearing(w, a2, b2, c2)
BY DEF Hearing

(* Before anything else, v hears that x is down from whatever is next. *)
LEMMA NextDown ==
    ASSUME NEW q \in Seq(Message), q # <<>>, NEW v, NEW x, NEW h, LetGo(q, 0, v, x, h),
           Head(q).what = "down"
    PROVE  x \in Head(q).buttons
<1>1. Len(q) \in Nat \ {0} /\ Head(q) = q[1] /\ q[1].what = "down" /\ 1 \in (0 + 1) .. Len(q)
    OBVIOUS
<1>2. CASE \A k \in (0 + 1) .. Len(q) : Down(q[k], x)
    BY <1>1, <1>2 DEF Down
<1>3. CASE \E j \in (0 + 1) .. Len(q) :
             /\ q[j].what = "up" /\ x \notin q[j].buttons /\ v \in q[j].views
             /\ \A k \in (0 + 1) .. (j - 1) : Down(q[k], x)
  <2>1. PICK j \in (0 + 1) .. Len(q) :
             /\ q[j].what = "up" /\ \A k \in (0 + 1) .. (j - 1) : Down(q[k], x)
    BY <1>3
  <2>2. j # 1 /\ 1 \in (0 + 1) .. (j - 1)
    BY <1>1, <2>1
  <2> QED
    BY <1>1, <2>1, <2>2 DEF Down
<1> QED
    BY <1>2, <1>3 DEF LetGo

LEMMA DeliveredNow ==
    ASSUME QInv, NEW u \in Surface, MessageReceived(u)
    PROVE  Delivered(u, Head(mail[Window[u]]), Ups, Exits, Ends, Ups', Exits', Ends')
<1> DEFINE k == Window[u]
           q == mail[k]
           m == Head(q)
           r == Rest(q, u)
           s == Target[u]
<1>1. k \in Surface /\ q \in Seq(Message) /\ q # <<>> /\ u \in m.views /\ s \in Surface
      /\ mail \in [Surface -> Seq(Message)]
    BY TargetAssumption DEF MessageReceived, QInv, IInv, TypeOK
<1>2. KeptQueue(q, Views(k), held, over, dragging)
    BY <1>1 DEF QInv, MailInv
<1>3. m = q[1] /\ 1 \in 1 .. Len(q) /\ m \in Message /\ m.buttons \subseteq Button
  <2> HIDE DEF q
  <2>1. m = q[1] /\ 1 \in 1 .. Len(q) /\ m \in Message
    BY <1>1
  <2> QED
    BY <2>1 DEF Message
<1>4. u \in viewed
    BY <1>1, <1>2, <1>3 DEF KeptQueue, Views
<1>5. /\ mail' = [mail EXCEPT ![k] = r] /\ viewed' = viewed /\ held' = held /\ over' = over
      /\ dragging' = dragging
    BY DEF MessageReceived, mouseVars
<1>6. mail'[k] = r /\ \A w \in Surface : w # k => mail'[w] = mail[w]
    BY <1>1, <1>5
<1> HIDE DEF q, r, m
<1>7. /\ \A v, x : LetGo(q, 0, v, x, held) =>
           LetGo(r, 0, v, x, held) \/ (v = u /\ m.what = "up" /\ x \notin m.buttons)
      /\ \A v : Leaves(q, 0, v, over) => Leaves(r, 0, v, over) \/ (v = u /\ Exit(m, u))
      /\ \A v : DragEnds(q, 0, v, over, dragging) =>
           DragEnds(r, 0, v, over, dragging) \/ (v = u /\ (Out(m, u) \/ m.what = "drop"))
      /\ \A x \in m.buttons : LetGo(r, 0, u, x, held)
      /\ m.what = "moved" /\ m.to = u =>
           Leaves(r, 0, u, over) /\ (m.drag => DragEnds(r, 0, u, over, dragging))
      /\ m.what = "drop" => Leaves(r, 0, u, over)
      /\ m.what = "down" => m.buttons # {}
    BY <1>1, <1>2, RestPromises DEF r, m
<1>8. ASSUME NEW x, NEW f, <<x, f>> \in Ups
      PROVE  <<x, f>> \in Ups' \/ (f = s /\ m.what = "up" /\ x \notin m.buttons)
  <2>1. PICK v \in viewed : Target[v] = f /\ LetGo(mail[Window[v]], 0, v, x, held)
    BY <1>8 DEF Ups
  <2>2. x \in Button /\ f \in Surface /\ Window[v] \in Surface
    BY <1>8, TargetAssumption DEF Ups, QInv, IInv, TypeOK
  <2>3. LetGo(mail'[Window[v]], 0, v, x, held) \/ (v = u /\ m.what = "up" /\ x \notin m.buttons)
    BY <1>6, <1>7, <2>1, <2>2 DEF q
  <2> QED
    BY <1>5, <2>1, <2>2, <2>3 DEF Ups
<1>9. ASSUME NEW f \in Exits
      PROVE  f \in Exits' \/ (f = s /\ m.what = "moved" /\ m.to # u /\ m.from = u)
  <2>1. PICK v \in viewed : Target[v] = f /\ Leaves(mail[Window[v]], 0, v, over)
    BY <1>9 DEF Exits
  <2>2. f \in Surface /\ Window[v] \in Surface
    BY <1>9, TargetAssumption DEF Exits, QInv, IInv, TypeOK
  <2>3. Leaves(mail'[Window[v]], 0, v, over) \/ (v = u /\ Exit(m, u))
    BY <1>6, <1>7, <2>1, <2>2 DEF q
  <2> QED
    BY <1>5, <2>1, <2>2, <2>3 DEF Exits, Exit, Out
<1>10. ASSUME NEW f \in Ends
       PROVE  f \in Ends' \/ (f = s /\ ((m.what = "moved" /\ m.to # u) \/ m.what = "drop"))
  <2>1. PICK v \in viewed : Target[v] = f /\ DragEnds(mail[Window[v]], 0, v, over, dragging)
    BY <1>10 DEF Ends
  <2>2. f \in Surface /\ Window[v] \in Surface
    BY <1>10, TargetAssumption DEF Ends, QInv, IInv, TypeOK
  <2>3. DragEnds(mail'[Window[v]], 0, v, over, dragging) \/ (v = u /\ (Out(m, u) \/ m.what = "drop"))
    BY <1>6, <1>7, <2>1, <2>2 DEF q
  <2> QED
    BY <1>5, <2>1, <2>2, <2>3 DEF Ends, Out
<1>11. ASSUME m.what = "down", NEW x, <<x, s>> \in Ups PROVE x \in m.buttons
  <2>1. PICK v \in viewed : Target[v] = s /\ LetGo(mail[Window[v]], 0, v, x, held)
    BY <1>11 DEF Ups
  <2>2. Window[v] = k
    BY <2>1, WindowAssumption DEF QInv, IInv, TypeOK
  <2> QED
    BY <1>1, <1>11, <2>1, <2>2, NextDown DEF q, m
<1>12. \A x \in m.buttons : <<x, s>> \in Ups'
    BY <1>1, <1>3, <1>4, <1>5, <1>6, <1>7 DEF Ups
<1>13. m.what = "moved" /\ m.to = u => s \in Exits' /\ (m.drag => s \in Ends')
    BY <1>1, <1>4, <1>5, <1>6, <1>7 DEF Exits, Ends
<1>14. m.what = "drop" => s \in Exits'
    BY <1>1, <1>4, <1>5, <1>6, <1>7 DEF Exits
<1> QED
    BY <1>7, <1>8, <1>9, <1>10, <1>11, <1>12, <1>13, <1>14 DEF Delivered, m, q

LEMMA ReceivedKeeps ==
    ASSUME QInv, NEW u \in Surface, MessageReceived(u) PROVE QInv'
<1> DEFINE k == Window[u]
           q == mail[k]
           m == Head(q)
           r == Rest(q, u)
<1>1. k \in Surface /\ q \in Seq(Message) /\ q # <<>> /\ mail \in [Surface -> Seq(Message)]
      /\ m \in Message
  <2>1. k \in Surface /\ q \in Seq(Message) /\ q # <<>> /\ mail \in [Surface -> Seq(Message)]
    BY TargetAssumption DEF MessageReceived, QInv, IInv, TypeOK
  <2> HIDE DEF q
  <2> QED
    BY <2>1
<1>2. /\ mail' = [mail EXCEPT ![k] = r] /\ viewed' = viewed /\ held' = held /\ over' = over
      /\ dragging' = dragging
    BY DEF MessageReceived, mouseVars
<1>3. seat' = Handled(seat, u, m) /\ orphaned' = (orphaned /\ seat'.focus = seat.focus)
    BY DEF MessageReceived
<1>4. MailInv'
  <2>1. ASSUME NEW w \in Surface PROVE KeptQueue(mail'[w], Views(w), held, over, dragging)
    <3>1. KeptQueue(mail[w], Views(w), held, over, dragging)
        BY DEF QInv, MailInv
    <3>2. CASE w = k
        BY <1>1, <1>2, <3>1, <3>2, RestKept
    <3>3. CASE w # k
        BY <1>1, <1>2, <3>1, <3>3
    <3> QED
        BY <3>2, <3>3
  <2> QED
    BY <1>2, <2>1 DEF MailInv, Views
<1>5. Hears(seat, Handled(seat, u, m), Ups, Exits, Ends, Ups', Exits', Ends')
  <2>1. Sound(seat) /\ Track(seat)
    BY DEF QInv, IInv
  <2>2. Delivered(u, m, Ups, Exits, Ends, Ups', Exits', Ends')
    BY DeliveredNow
  <2> HIDE DEF m
  <2> QED
    BY <1>1, <2>1, <2>2, HandledHears
<1> HIDE DEF m
<1>6. Track(seat')
    BY <1>3, <1>5 DEF Hears
<1>7. HearInv'
    BY <1>3, <1>5 DEF Hears, HearInv, QInv
<1>8. IInv'
    BY MessageReceivedKeeps DEF QInv
<1> QED
    BY <1>2, <1>4, <1>6, <1>7, <1>8 DEF QInv

(* v is there, and what it was promised it still is. *)
Stays(v) ==
    /\ v \in viewed'
    /\ \A x : LetGo(mail[Window[v]], 0, v, x, held) => LetGo(mail[Window[v]], 0, v, x, held)'
    /\ Leaves(mail[Window[v]], 0, v, over) => Leaves(mail[Window[v]], 0, v, over)'
    /\ DragEnds(mail[Window[v]], 0, v, over, dragging) =>
         DragEnds(mail[Window[v]], 0, v, over, dragging)'

LEMMA HearStays ==
    ASSUME IInv, Hearing(seat, Ups, Exits, Ends),
           \A v \in viewed : Target[v] = seat.focus => Stays(v)
    PROVE  Hearing(seat, Ups', Exits', Ends')
<1>1. CASE seat.focus = NoSurface
    BY <1>1 DEF Hearing
<1>2. CASE seat.focus # NoSurface
  <2> DEFINE f == seat.focus
  <2>1. f \in Surface
    BY <1>2 DEF IInv, TypeOK, Seat
  <2> HIDE DEF f
  <2>2. ASSUME NEW x, <<x, f>> \in Ups PROVE <<x, f>> \in Ups'
    <3>1. PICK v \in viewed : Target[v] = f /\ LetGo(mail[Window[v]], 0, v, x, held)
        BY <2>2 DEF Ups
    <3>2. x \in Button
        BY <2>2 DEF Ups
    <3>3. Stays(v)
        BY <3>1 DEF f
    <3> QED
        BY <2>1, <3>1, <3>2, <3>3 DEF Ups, Stays
  <2>3. ASSUME f \in Exits PROVE f \in Exits'
    <3>1. PICK v \in viewed : Target[v] = f /\ Leaves(mail[Window[v]], 0, v, over)
        BY <2>3 DEF Exits
    <3>2. Stays(v)
        BY <3>1 DEF f
    <3> QED
        BY <2>1, <3>1, <3>2 DEF Exits, Stays
  <2>4. ASSUME f \in Ends PROVE f \in Ends'
    <3>1. PICK v \in viewed : Target[v] = f /\ DragEnds(mail[Window[v]], 0, v, over, dragging)
        BY <2>4 DEF Ends
    <3>2. Stays(v)
        BY <3>1 DEF f
    <3> QED
        BY <2>1, <3>1, <3>2 DEF Ends, Stays
  <2> QED
    BY <2>2, <2>3, <2>4, HearingGrows DEF f
<1> QED
    BY <1>1, <1>2

LEMMA DispatchKeeps ==
    ASSUME QInv, IInv', NEW k \in Surface, DispatchNothing(k) PROVE QInv'
<1> DEFINE q == mail[k]
<1>1. q \in Seq(Message) /\ q # <<>> /\ mail \in [Surface -> Seq(Message)] /\ Head(q).views = {}
    BY DEF DispatchNothing, QInv, IInv, TypeOK
<1>2. /\ mail' = [mail EXCEPT ![k] = Tail(q)] /\ viewed' = viewed /\ held' = held /\ over' = over
      /\ dragging' = dragging /\ seat' = seat /\ orphaned' = orphaned
    BY DEF DispatchNothing, mouseVars, history
<1>3. mail'[k] = Tail(q) /\ \A w \in Surface : w # k => mail'[w] = mail[w]
    BY <1>1, <1>2
<1>4. MailInv'
  <2>1. ASSUME NEW w \in Surface PROVE KeptQueue(mail'[w], Views(w), held, over, dragging)
    <3>1. KeptQueue(mail[w], Views(w), held, over, dragging)
        BY DEF QInv, MailInv
    <3>2. CASE w = k
      <4>1. mail[w] = q /\ mail'[w] = Tail(q)
        BY <1>3, <3>2
      <4> HIDE DEF q
      <4> QED
        BY <1>1, <3>1, <4>1, TailKept
    <3>3. CASE w # k
        BY <1>3, <3>1, <3>3
    <3> QED
        BY <3>2, <3>3
  <2> QED
    BY <1>2, <2>1 DEF MailInv, Views
<1>5. ASSUME NEW w \in Surface, NEW v
      PROVE  /\ \A x, h : LetGo(mail[w], 0, v, x, h) => LetGo(mail'[w], 0, v, x, h)
             /\ \A o : Leaves(mail[w], 0, v, o) => Leaves(mail'[w], 0, v, o)
             /\ \A o, b : DragEnds(mail[w], 0, v, o, b) => DragEnds(mail'[w], 0, v, o, b)
  <2>1. CASE w # k
    BY <1>3, <2>1
  <2>2. CASE w = k
    <3>1. v \notin Head(q).views /\ mail[w] = q /\ mail'[w] = Tail(q)
        BY <1>1, <1>3, <2>2
    <3> HIDE DEF q
    <3>2. /\ \A x, h : LetGo(q, 0, v, x, h) => LetGo(q, 1, v, x, h)
          /\ \A o : Leaves(q, 0, v, o) => Leaves(q, 1, v, o)
          /\ \A o, b : DragEnds(q, 0, v, o, b) => DragEnds(q, 1, v, o, b)
        BY <1>1, <3>1, SkipHead
    <3>3. /\ \A x, h : LetGo(q, 1, v, x, h) => LetGo(Tail(q), 0, v, x, h)
          /\ \A o : Leaves(q, 1, v, o) => Leaves(Tail(q), 0, v, o)
          /\ \A o, b : DragEnds(q, 1, v, o, b) => DragEnds(Tail(q), 0, v, o, b)
        BY <1>1, TailPromises
    <3> QED
        BY <3>1, <3>2, <3>3
  <2> QED
    BY <2>1, <2>2
<1>6. \A v \in viewed : Window[v] \in Surface
    BY TargetAssumption DEF QInv, IInv, TypeOK
<1>7. \A v \in viewed : Stays(v)
    BY <1>2, <1>5, <1>6 DEF Stays
<1>8. HearInv'
  <2>1. ASSUME ~orphaned' PROVE Hearing(seat, Ups', Exits', Ends')
    BY <1>2, <1>7, <2>1, HearStays DEF QInv, HearInv
  <2> QED
    BY <1>2, <2>1 DEF HearInv
<1> QED
    BY <1>2, <1>4, <1>8 DEF QInv

(* Steps that touch neither the mail nor the mouse. *)
LEMMA RequestKeeps ==
    ASSUME QInv, IInv', Track(seat'), viewed \subseteq viewed', UNCHANGED <<mail, over, held, dragging>>,
           ~orphaned' => ~orphaned,
           seat'.focus = seat.focus /\ seat'.btns = seat.btns /\ seat'.inside = seat.inside,
           seat'.captured = seat.captured, seat'.pressed \subseteq seat.pressed,
           seat'.id = "drag" => seat.id = "drag"
    PROVE  QInv'
<1>1. MailInv'
  <2>1. \A w \in Surface : Views(w) \subseteq Views(w)'
    BY DEF Views
  <2> QED
    BY <2>1 DEF MailInv, QInv, KeptQueue
<1>2. \A v \in viewed : Stays(v)
    BY DEF Stays
<1>3. HearInv'
  <2>1. ASSUME ~orphaned' PROVE Hearing(seat, Ups', Exits', Ends')
    BY <1>2, <2>1, HearStays DEF QInv, HearInv
  <2> QED
    BY <2>1 DEF HearInv, Hearing
<1> QED
    BY <1>1, <1>3 DEF QInv

LEMMA TrackKeeps ==
    ASSUME QInv, IInv', NEW id \in {"move", "resize"}, DoTrack(id) PROVE QInv'
<1>1. /\ seat.id = "client" /\ seat.btns # {} /\ seat.focus \in Surface /\ Paired(seat)
      /\ seat' = Focused(seat, seat.focus, id, {})
      /\ UNCHANGED <<pointers, viewed, mail, over, held, dragging, orphaned>>
    BY DEF DoTrack, SetPointerFocus, mouseVars, history, QInv, IInv, TypeOK, Seat, Sound
<1>2. /\ seat.focus \in Anyone /\ id \in Id /\ {} \in SUBSET Button /\ seat.focus # NoSurface
      /\ seat.id # "client" => seat.pressed = {}
    BY <1>1, SurfaceAssumption DEF Anyone, Id
<1> DEFINE v == Focused(seat, seat.focus, id, {})
<1>3. /\ v.focus = seat.focus /\ v.id = id /\ v.captured = seat.captured /\ v.inside = seat.inside
      /\ v.btns = seat.btns /\ v.pressed = {}
    BY <1>1, <1>2, FocusedFields
<1> HIDE DEF v
<1>4. seat' = v
    BY <1>1 DEF v
<1>5. Track(seat')
    BY <1>1, <1>3, <1>4 DEF Track
<1> QED
    BY <1>1, <1>3, <1>4, <1>5, RequestKeeps

(* A surface loses its view. *)
LEMMA DetachPromises ==
    ASSUME QInv, NEW s \in Surface, Detach(s)
    PROVE  MailInv' /\ \A v \in viewed \ Removed(s) : Stays(v)
<1> DEFINE k == Window[s]
<1>1. /\ k \in Surface /\ mail \in [Surface -> Seq(Message)] /\ viewed \subseteq Surface
      /\ viewed' = viewed \ Removed(s) /\ held' = held /\ dragging' = dragging
      /\ mail' = [mail EXCEPT ![k] = IF k = s THEN <<>> ELSE Delisted(@, s)]
      /\ over' = IF over \in Removed(s) THEN NoSurface ELSE over
    BY TargetAssumption DEF Detach, QInv, IInv, TypeOK
<1>2. \A v \in viewed \ Removed(s) : over = v => over' = v
    BY <1>1
<1>3. /\ mail'[k] = IF k = s THEN <<>> ELSE Delisted(mail[k], s)
      /\ \A w \in Surface : w # k => mail'[w] = mail[w]
    BY <1>1
<1>4. ASSUME NEW w \in Surface
      PROVE  KeptQueue(mail'[w], Views(w)', held', over', dragging')
  <2>1. KeptQueue(mail[w], Views(w), held, over, dragging)
    BY DEF QInv, MailInv
  <2>2. CASE w # k
    <3>1. Views(w)' = Views(w)
        BY <1>1, <2>2, WindowAssumption DEF Views, Removed
    <3>2. \A v \in Views(w) : over = v => over' = v
        BY <1>1, <1>2, <3>1 DEF Views
    <3> QED
        BY <1>1, <1>3, <2>1, <2>2, <3>1, <3>2
           DEF KeptQueue, Kept, Leaves, DragEnds
  <2>3. CASE w = k /\ k = s
    BY <1>3, <2>3 DEF KeptQueue
  <2>4. CASE w = k /\ k # s
    <3>1. Views(w)' = Views(w) \ {s}
        BY <1>1, <2>4, WindowAssumption DEF Views, Removed
    <3>2. \A v \in Views(w) \ {s} : over = v => over' = v
        BY <1>1, <1>2, <3>1 DEF Views
    <3>3. mail'[w] = Delisted(mail[w], s) /\ mail[w] \in Seq(Message)
        BY <1>1, <1>3, <2>4
    <3> DEFINE V == Views(w)
               q == mail[w]
               o == over'
    <3>4. q \in Seq(Message) /\ KeptQueue(q, V, held, over, dragging)
        BY <2>1, <3>3
    <3>5. \A v \in V \ {s} : over = v => o = v
        BY <3>2
    <3> HIDE DEF V, q, o
    <3>6. KeptQueue(Delisted(q, s), V \ {s}, held, o, dragging)
        BY <3>4, <3>5, DelistedKept
    <3> QED
        BY <1>1, <3>1, <3>3, <3>6 DEF V, q, o
  <2> QED
    BY <2>2, <2>3, <2>4
<1>5. ASSUME NEW v \in viewed \ Removed(s) PROVE Stays(v)
  <2>1. v \in Surface /\ Window[v] \in Surface /\ v # s /\ Window[v] # s
    BY <1>1, TargetAssumption DEF Removed
  <2>2. CASE Window[v] # k
    BY <1>1, <1>2, <1>3, <2>1, <2>2 DEF Stays, Leaves, DragEnds
  <2>3. CASE Window[v] = k
    <3> DEFINE q == mail[k]
               r == Delisted(q, s)
    <3>1. q \in Seq(Message) /\ mail'[k] = r
        BY <1>1, <1>3, <2>1, <2>3
    <3>2. KeptQueue(q, Views(k), held, over, dragging)
        BY <1>1 DEF QInv, MailInv
    <3> HIDE DEF q
    <3>3. Alike(q, r, 0, 0, v)
        BY <2>1, <3>1, <3>2, DelistedKept
    <3>4. Len(q) \in Nat /\ Len(r) \in Nat /\ 0 \in Nat /\ 0 =< 0 /\ 0 = 0 - 0
        BY <3>1 DEF Delisted
    <3> HIDE DEF r
    <3>5. /\ \A x, h : LetGo(q, 0, v, x, h) => LetGo(r, 0, v, x, h)
          /\ \A o : Leaves(q, 0, v, o) => Leaves(r, 0, v, o)
          /\ \A o, b : DragEnds(q, 0, v, o, b) => DragEnds(r, 0, v, o, b)
        BY <3>3, <3>4, AlikePromises
    <3>6. /\ Leaves(r, 0, v, over) => Leaves(r, 0, v, over')
          /\ DragEnds(r, 0, v, over, dragging) => DragEnds(r, 0, v, over', dragging)
        BY <1>2 DEF Leaves, DragEnds
    <3> QED
        BY <1>1, <2>3, <3>1, <3>5, <3>6 DEF Stays, q
  <2> QED
    BY <2>2, <2>3
<1> QED
    BY <1>4, <1>5 DEF MailInv

LEMMA DestroyRoleKeeps ==
    ASSUME QInv, IInv', NEW s \in Surface, DestroyRole(s) PROVE QInv'
<1>1. Detach(s) /\ orphaned' = (orphaned \/ Orphans(s)) /\ seat' = seat
    BY DEF DestroyRole
<1>2. MailInv' /\ \A v \in viewed \ Removed(s) : Stays(v)
    BY <1>1, DetachPromises
<1>3. ASSUME ~orphaned' PROVE Hearing(seat, Ups', Exits', Ends')
  <2>1. \A v \in viewed : Target[v] = seat.focus => v \notin Removed(s)
    BY <1>1, <1>3 DEF Orphans
  <2>2. Hearing(seat, Ups, Exits, Ends)
    BY <1>1, <1>3 DEF QInv, HearInv
  <2> QED
    BY <1>2, <2>1, <2>2, HearStays DEF QInv
<1>4. HearInv'
    BY <1>1, <1>3 DEF HearInv
<1> QED
    BY <1>1, <1>2, <1>4 DEF QInv, Detach

LEMMA DestroySurfaceKeeps ==
    ASSUME QInv, IInv', NEW s \in Surface, DestroySurface(s) PROVE QInv'
<1>1. /\ Detach(s) /\ seat' = DropPointerFocus(seat, s)
      /\ orphaned' = (seat'.focus # NoSurface /\ (orphaned \/ Orphans(s)))
    BY DEF DestroySurface
<1>2. MailInv' /\ \A v \in viewed \ Removed(s) : Stays(v)
    BY <1>1, DetachPromises
<1>3. CASE seat.focus = s
  <2> DEFINE g == DropPointerFocus(seat, s)
  <2>1. g.focus = NoSurface /\ Track(g)
    <3>1. Sound(seat) /\ (seat.id # "client" => seat.pressed = {})
        BY DEF QInv, IInv, Track
    <3>2. \A w : Sound(w) /\ (w.id # "client" => w.pressed = {}) /\ w.focus = s
                => /\ DropPointerFocus(w, s).focus = NoSurface
                   /\ Track(DropPointerFocus(w, s))
        BY FreedTrack
    <3> QED
        BY <1>3, <3>1, <3>2, Zenon
  <2>2. HearInv' /\ Track(seat')
    BY <1>1, <2>1 DEF HearInv, Hearing
  <2> QED
    BY <1>1, <1>2, <2>2 DEF QInv, Detach
<1>4. CASE seat.focus # s
  <2>1. seat' = seat
    BY <1>1, <1>4 DEF DropPointerFocus
  <2>2. ASSUME ~orphaned', seat.focus # NoSurface PROVE Hearing(seat, Ups', Exits', Ends')
    <3>1. ~orphaned /\ ~Orphans(s)
        BY <1>1, <2>1, <2>2
    <3>2. \A v \in viewed : Target[v] = seat.focus => v \notin Removed(s)
        BY <3>1 DEF Orphans
    <3>3. Hearing(seat, Ups, Exits, Ends)
        BY <3>1 DEF QInv, HearInv
    <3> QED
        BY <1>2, <3>2, <3>3, HearStays DEF QInv
  <2>3. HearInv'
    BY <2>1, <2>2 DEF HearInv, Hearing
  <2> QED
    BY <1>1, <1>2, <2>1, <2>3 DEF QInv, Detach
<1> QED
    BY <1>3, <1>4
-----------------------------------------------------------------------------
(* The user *)

(* The queue q of a window with views V has become r.                       *)
Goes(q, r, V, h, o, d, hh, oo, dd) ==
    /\ KeptQueue(r, V, hh, oo, dd)
    /\ \A v \in V :
         /\ \A x : LetGo(q, 0, v, x, h) => LetGo(r, 0, v, x, hh)
         /\ Leaves(q, 0, v, o) => Leaves(r, 0, v, oo)
         /\ DragEnds(q, 0, v, o, d) => DragEnds(r, 0, v, oo, dd)

LEMMA SaysGoes ==
    ASSUME NEW q \in Seq(Message), NEW m \in Message, NEW V, NEW h, NEW o, NEW d,
           NEW hh, NEW oo, NEW dd, Says(m, V, h, o, d, hh, oo, dd), KeptQueue(q, V, h, o, d)
    PROVE  Goes(q, Append(q, m), V, h, o, d, hh, oo, dd)
<1>1. KeptQueue(Append(q, m), V, hh, oo, dd)
    BY AppendKept
<1>2. 0 \in 0 .. Len(q)
    OBVIOUS
<1> QED
    BY <1>1, <1>2, AppendPromises DEF Goes

LEMMA GoesOn ==
    ASSUME NEW q, NEW r, NEW t, NEW V, NEW h, NEW o, NEW d, NEW h1, NEW o1, NEW d1,
           NEW h2, NEW o2, NEW d2,
           Goes(q, r, V, h, o, d, h1, o1, d1), Goes(r, t, V, h1, o1, d1, h2, o2, d2)
    PROVE  Goes(q, t, V, h, o, d, h2, o2, d2)
BY DEF Goes

LEMMA ActKeeps ==
    ASSUME QInv, IInv', UNCHANGED <<seat, viewed, orphaned>>, dragging' => held' # {},
           \A k \in Surface :
             IF Views(k) = {} THEN mail'[k] = mail[k]
             ELSE Goes(mail[k], mail'[k], Views(k), held, over, dragging, held', over', dragging')
    PROVE  QInv'
<1>1. ASSUME NEW k \in Surface PROVE KeptQueue(mail'[k], Views(k), held', over', dragging')
  <2>1. CASE Views(k) = {}
    <3>1. KeptQueue(mail[k], Views(k), held, over, dragging) /\ mail'[k] = mail[k]
        BY <2>1 DEF QInv, MailInv
    <3> QED
        BY <2>1, <3>1 DEF KeptQueue
  <2>2. CASE Views(k) # {}
    BY <2>2 DEF Goes
  <2> QED
    BY <2>1, <2>2
<1>2. MailInv'
    BY <1>1 DEF MailInv, Views
<1>3. ASSUME NEW v \in viewed PROVE Stays(v)
  <2>1. Window[v] \in Surface /\ v \in Views(Window[v])
    BY TargetAssumption DEF QInv, IInv, TypeOK, Views
  <2> QED
    BY <2>1 DEF Stays, Goes
<1>4. HearInv'
    BY <1>3, HearStays DEF QInv, HearInv
<1> QED
    BY <1>2, <1>4 DEF QInv

(* Every window gets the message. *)
LEMMA PostedKeeps ==
    ASSUME QInv, IInv', UNCHANGED <<seat, viewed, orphaned>>, dragging' => held' # {},
           NEW message \in Message, mail' = Posted(message),
           \A k \in Surface : Says([message EXCEPT !.views = Views(k)], Views(k),
                                   held, over, dragging, held', over', dragging')
    PROVE  QInv'
<1>1. ASSUME NEW k \in Surface, Views(k) # {}
      PROVE  Goes(mail[k], mail'[k], Views(k), held, over, dragging, held', over', dragging')
  <2> DEFINE q == mail[k]
             V == Views(k)
             m == [message EXCEPT !.views = V]
             hh == held'
             oo == over'
             dd == dragging'
  <2>1. q \in Seq(Message) /\ V \subseteq Surface /\ KeptQueue(q, V, held, over, dragging)
    BY DEF QInv, IInv, TypeOK, MailInv, Views
  <2>2. m \in Message /\ Says(m, V, held, over, dragging, hh, oo, dd)
    BY <2>1 DEF Message
  <2>3. mail'[k] = Append(q, m)
    BY <1>1 DEF Posted
  <2> HIDE DEF q, V, m, hh, oo, dd
  <2>4. Goes(q, Append(q, m), V, held, over, dragging, hh, oo, dd)
    BY <2>1, <2>2, SaysGoes
  <2> QED
    BY <2>3, <2>4 DEF q, V, hh, oo, dd
<1>2. \A k \in Surface : Views(k) = {} => mail'[k] = mail[k]
    BY DEF Posted
<1> QED
    BY <1>1, <1>2, ActKeeps

LEMMA MoveKeeps ==
    ASSUME QInv, IInv', NEW to \in viewed \cup {NoSurface}, Move(to) PROVE QInv'
<1> DEFINE m == [what |-> "moved", from |-> over, to |-> to, buttons |-> held,
                 drag |-> dragging, views |-> {}]
<1>1. /\ mail' = Posted(m) /\ over' = to
      /\ UNCHANGED <<pointers, seat, viewed, held, dragging, orphaned>>
    BY DEF Move
<1>2. m \in Message
    BY DEF Message, QInv, IInv, TypeOK
<1>3. \A V : Says([m EXCEPT !.views = V], V, held, over, dragging, held', over', dragging')
    BY <1>1 DEF Says
<1>4. dragging' => held' # {}
    BY <1>1 DEF QInv
<1> HIDE DEF m
<1> QED
    BY <1>1, <1>2, <1>3, <1>4, PostedKeeps

LEMMA PressKeeps ==
    ASSUME QInv, IInv', NEW b \in Button, Press(b) PROVE QInv'
<1> DEFINE m == Plain("down", held \cup {b})
<1>1. /\ mail' = Posted(m) /\ held' = held \cup {b}
      /\ UNCHANGED <<pointers, seat, viewed, over, dragging, orphaned>>
    BY DEF Press
<1>2. m \in Message
    BY PlainTyped DEF QInv, IInv, TypeOK
<1>3. \A V : Says([m EXCEPT !.views = V], V, held, over, dragging, held', over', dragging')
    BY <1>1 DEF Says, Plain
<1>4. dragging' => held' # {}
    BY <1>1
<1> HIDE DEF m
<1> QED
    BY <1>1, <1>2, <1>3, <1>4, PostedKeeps

LEMMA StartDragKeeps ==
    ASSUME QInv, IInv', StartDrag PROVE QInv'
<1>1. /\ UNCHANGED <<pointers, seat, viewed, mail, over, held, orphaned>> /\ dragging' = TRUE
      /\ held # {}
    BY DEF StartDrag
<1>2. ASSUME NEW k \in Surface
      PROVE  Goes(mail[k], mail'[k], Views(k), held, over, dragging, held', over', dragging')
  <2>1. KeptQueue(mail[k], Views(k), held, over, dragging)
    BY DEF QInv, MailInv
  <2>2. \A q, n, v : DragEnds(q, n, v, over, dragging) => DragEnds(q, n, v, over, TRUE)
    BY DEF DragEnds
  <2>3. KeptQueue(mail[k], Views(k), held, over, TRUE)
    BY <2>1, <2>2 DEF KeptQueue, Kept
  <2> QED
    BY <1>1, <2>2, <2>3 DEF Goes
<1> QED
    BY <1>1, <1>2, ActKeeps

(* Without a drop, or with one before or after the release. *)
LEMMA ReleaseKeeps ==
    ASSUME QInv, IInv', NEW b \in Button, Release(b) PROVE QInv'
<1> DEFINE m == Plain("up", held \ {b})
           up == Posted(m)
<1>1. /\ held' = held \ {b} /\ dragging' = (dragging /\ held # {b}) /\ over' = over /\ b \in held
      /\ UNCHANGED <<pointers, seat, viewed, orphaned>>
    BY DEF Release
<1>2. m \in Message
    BY PlainTyped DEF QInv, IInv, TypeOK
<1>3. dragging' => held' # {}
    BY <1>1 DEF QInv
<1>4. CASE ~(dragging /\ held = {b} /\ over # NoSurface)
  <2>1. mail' = up
    BY <1>4 DEF Release
  <2>2. dragging => dragging' \/ over = NoSurface
    BY <1>1, <1>4
  <2>3. \A k \in Surface : NoSurface \notin Views(k)
    BY SurfaceAssumption DEF Views, QInv, IInv, TypeOK
  <2>4. ASSUME NEW k \in Surface
        PROVE  Says([m EXCEPT !.views = Views(k)], Views(k), held, over, dragging,
                    held', over', dragging')
    BY <1>1, <2>2, <2>3 DEF Says, Plain
  <2> HIDE DEF m
  <2> QED
    BY <1>1, <1>2, <1>3, <2>1, <2>4, PostedKeeps
<1>5. CASE dragging /\ held = {b} /\ over # NoSurface
  <2> DEFINE w == Window[over]
  <2>1. over \in Surface /\ over \in Views(w) /\ w \in Surface /\ mail \in [Surface -> Seq(Message)]
    BY <1>5, TargetAssumption DEF QInv, IInv, TypeOK, Views
  <2>2. PICK drag \in BOOLEAN : mail' \in DropPosted(w, up, drag)
    BY <1>5 DEF Release
  <2> DEFINE drop == [Plain("drop", {}) EXCEPT !.drag = drag, !.views = {over}]
  <2>3. dragging' = FALSE /\ dragging = TRUE
    BY <1>1, <1>5 DEF QInv, IInv, TypeOK
  <2>4. drop \in Message
    BY <2>1 DEF Plain, Message
  <2>5. ASSUME NEW k \in Surface, Views(k) # {}
        PROVE  Goes(mail[k], mail'[k], Views(k), held, over, dragging, held', over', dragging')
    <3> DEFINE q == mail[k]
               V == Views(k)
               n == [m EXCEPT !.views = V]
               hh == held'
    <3>1. q \in Seq(Message) /\ V \subseteq Surface /\ KeptQueue(q, V, held, over, dragging)
        BY DEF QInv, IInv, TypeOK, MailInv, Views
    <3>2. n \in Message /\ up[k] = Append(q, n) /\ up \in [Surface -> Seq(Message)]
      <4>1. n \in Message
        BY <1>2, <3>1 DEF Message
      <4>2. up \in [Surface -> Seq(Message)]
        BY <1>2, PostedTyped DEF QInv, IInv
      <4>3. up[k] = Append(q, n)
        BY <2>5 DEF Posted
      <4> QED
        BY <4>1, <4>2, <4>3
    <3>3. CASE k # w
      <4>1. mail'[k] = up[k]
        BY <2>1, <2>2, <3>2, <3>3 DEF DropPosted
      <4>2. over \notin V
        BY <3>3 DEF Views
      <4>3. Says(n, V, held, over, dragging, hh, over, FALSE)
        BY <1>1, <4>2 DEF Says, Plain
      <4> HIDE DEF q, V, n, hh, up
      <4>4. Goes(q, Append(q, n), V, held, over, dragging, hh, over, FALSE)
        BY <3>1, <3>2, <4>3, SaysGoes
      <4> QED
        BY <1>1, <2>3, <3>2, <4>1, <4>4 DEF q, V, hh
    <3>4. CASE k = w
      <4>1. over \in V
        BY <2>1, <3>4
      <4>2. Len(up[k]) \in Nat \ {0} /\ up[k][Len(up[k])] = n
        BY <3>1, <3>2
      <4>3. \/ mail'[k] = Append(Append(q, n), drop)
            \/ mail'[k] = Append(Append(q, drop), n)
        <5>1. \/ mail'[k] = Append(up[k], drop)
              \/ mail'[k] = Append(q, drop) \o <<up[k][Len(up[k])]>>
          <6> HIDE DEF drop, up
          <6> QED
            BY <2>1, <2>2, <3>2, <3>4 DEF DropPosted, drop
        <5>2. Append(q, drop) \o <<n>> = Append(Append(q, drop), n)
            BY <2>4, <3>1, <3>2
        <5> QED
            BY <3>2, <4>2, <5>1, <5>2
      <4>4. /\ Says(n, V, held, over, dragging, hh, over, dragging)
            /\ Says(drop, V, hh, over, dragging, hh, over, FALSE)
            /\ Says(drop, V, held, over, dragging, held, over, FALSE)
            /\ Says(n, V, held, over, FALSE, hh, over, FALSE)
        BY <1>1, <4>1 DEF Says, Plain
      <4>5. Append(q, n) \in Seq(Message) /\ Append(q, drop) \in Seq(Message)
        BY <2>4, <3>1, <3>2
      <4> HIDE DEF q, V, n, hh, up, drop
      <4>6. Goes(q, Append(q, n), V, held, over, dragging, hh, over, dragging)
        BY <3>1, <3>2, <4>4, SaysGoes
      <4>7. KeptQueue(Append(q, n), V, hh, over, dragging)
        BY <4>6 DEF Goes
      <4>8. Goes(Append(q, n), Append(Append(q, n), drop), V, hh, over, dragging, hh, over, FALSE)
        BY <2>4, <4>4, <4>5, <4>7, SaysGoes
      <4>9. Goes(q, Append(q, drop), V, held, over, dragging, held, over, FALSE)
        BY <2>4, <3>1, <4>4, SaysGoes
      <4>10. KeptQueue(Append(q, drop), V, held, over, FALSE)
        BY <4>9 DEF Goes
      <4>11. Goes(Append(q, drop), Append(Append(q, drop), n), V, held, over, FALSE, hh, over, FALSE)
        BY <3>2, <4>4, <4>5, <4>10, SaysGoes
      <4>12. Goes(q, mail'[k], V, held, over, dragging, hh, over, FALSE)
        <5>1. Goes(q, Append(Append(q, n), drop), V, held, over, dragging, hh, over, FALSE)
            BY <4>6, <4>8, GoesOn
        <5>2. Goes(q, Append(Append(q, drop), n), V, held, over, dragging, hh, over, FALSE)
            BY <4>9, <4>11, GoesOn
        <5> QED
            BY <4>3, <5>1, <5>2, Zenon
      <4> QED
        BY <1>1, <2>3, <4>12 DEF q, V, hh
    <3> QED
        BY <3>3, <3>4
  <2>6. ASSUME NEW k \in Surface, Views(k) = {} PROVE mail'[k] = mail[k]
    <3>1. up \in [Surface -> Seq(Message)]
        BY <1>2, PostedTyped DEF QInv, IInv
    <3>2. k # w /\ mail'[k] = up[k]
        BY <2>1, <2>2, <2>6, <3>1 DEF DropPosted
    <3> QED
        BY <2>6, <3>2 DEF Posted
  <2> QED
    BY <1>1, <1>3, <2>5, <2>6, ActKeeps
<1> QED
    BY <1>4, <1>5

LEMMA QueueInvariance == Spec => []QInv
<1>1. Init => QInv
  <2> SUFFICES ASSUME Init PROVE QInv
    OBVIOUS
  <2>1. IInv
    BY InitTyped
  <2>2. MailInv
    BY DEF Init, MailInv, KeptQueue
  <2>3. Track(seat) /\ HearInv
    BY DEF Init, Track, HearInv, Hearing
  <2> QED
    BY <2>1, <2>2, <2>3 DEF QInv, Init
<1>2. IInv' /\ QInv /\ [Next]_vars => QInv'
  <2> SUFFICES ASSUME IInv', QInv, [Next]_vars PROVE QInv'
    OBVIOUS
  <2>1. CASE \E s \in Surface : MessageReceived(s)
    BY <2>1, ReceivedKeeps
  <2>2. CASE \E s \in Surface : DispatchNothing(s)
    BY <2>2, DispatchKeeps
  <2>3. CASE \E s \in Surface : CreateView(s)
    BY <2>3, RequestKeeps DEF CreateView, mouseVars, history, QInv
  <2>4. CASE \E s \in Surface : DestroyRole(s)
    BY <2>4, DestroyRoleKeeps
  <2>5. CASE \E s \in Surface : DestroySurface(s)
    BY <2>5, DestroySurfaceKeeps
  <2>6. CASE \E p \in Pointer : HandleGetPointer(p)
    BY <2>6, RequestKeeps DEF HandleGetPointer, mouseVars, history, QInv
  <2>7. CASE \E p \in Pointer : DestroyPointer(p)
    <3>1. PICK p \in Pointer : DestroyPointer(p)
        BY <2>7
    <3>2. /\ seat'.focus = seat.focus /\ seat'.btns = seat.btns /\ seat'.inside = seat.inside
          /\ seat'.captured = seat.captured /\ seat'.pressed = seat.pressed /\ seat'.id = seat.id
        BY <3>1 DEF DestroyPointer, QInv, IInv, TypeOK, Seat
    <3>3. Track(seat')
        BY <3>2 DEF QInv, Track
    <3> QED
        BY <3>1, <3>2, <3>3, RequestKeeps DEF DestroyPointer, mouseVars, history
  <2>8. CASE \E id \in {"move", "resize"} : DoTrack(id)
    BY <2>8, TrackKeeps
  <2>9. CASE \E to \in viewed \cup {NoSurface} : Move(to)
    BY <2>9, MoveKeeps
  <2>10. CASE \E b \in Button : Press(b)
    BY <2>10, PressKeeps
  <2>11. CASE \E b \in Button : Release(b)
    BY <2>11, ReleaseKeeps
  <2>12. CASE StartDrag
    BY <2>12, StartDragKeeps
  <2>13. CASE UNCHANGED vars
    BY <2>13, RequestKeeps DEF vars, mouseVars, history, QInv
  <2> QED
    BY <2>1, <2>2, <2>3, <2>4, <2>5, <2>6, <2>7, <2>8, <2>9, <2>10, <2>11, <2>12, <2>13
       DEF Next
<1> QED
    BY <1>1, <1>2, Invariance, PTL DEF Spec

(* However the windows' threads interleave, with the user, with drags and   *)
(* with requests: with all messages handled and no button down, no grab is  *)
(* left, unless the surface that has it lost a view.                        *)
THEOREM GrabsEnd == Spec => []GrabEnds
<1>1. QInv => GrabEnds
  <2> SUFFICES ASSUME QInv PROVE GrabEnds
    OBVIOUS
  <2>1. GrabHasFocus
    BY DEF QInv, IInv, Sound, Paired, GrabHasFocus
  <2>2. ASSUME Settled, held = {}, ~orphaned, seat.captured PROVE FALSE
    <3>1. seat.focus # NoSurface /\ Hearing(seat, Ups, Exits, Ends) /\ ~dragging
        BY <2>1, <2>2 DEF GrabHasFocus, QInv, HearInv
    <3>2. \A v \in viewed : mail[Window[v]] = <<>>
        BY <2>2, TargetAssumption DEF Settled, QInv, IInv, TypeOK
    <3>3. CASE seat.id = "drag"
      <4>1. seat.focus \in Ends
        BY <3>1, <3>3 DEF Hearing
      <4> QED
        BY <3>1, <3>2, <4>1 DEF Ends, DragEnds
    <3>4. CASE seat.id # "drag"
      <4>1. PICK x \in seat.btns : <<x, seat.focus>> \in Ups
        BY <2>2, <3>1, <3>4 DEF Hearing, QInv, Track
      <4> QED
        BY <2>2, <3>2, <4>1 DEF Ups, LetGo
    <3> QED
        BY <3>3, <3>4
  <2> QED
    BY <2>1, <2>2 DEF GrabEnds, QInv, IInv, TypeOK, Seat
<1> QED
    BY <1>1, QueueInvariance, PTL

(* The client has no button down that the user has let go, once all         *)
(* messages are handled and whatever order they were handled in.            *)
THEOREM ButtonsComeUp == Spec => []NoStuckButton
<1>1. QInv => NoStuckButton
  <2> SUFFICES ASSUME QInv, Settled, ~orphaned, NEW x \in seat.pressed PROVE x \in held
    BY DEF NoStuckButton
  <2>1. seat.focus # NoSurface
    BY DEF QInv, Track, IInv, Sound, Paired
  <2>2. <<x, seat.focus>> \in Ups
    BY <2>1 DEF QInv, HearInv, Hearing
  <2>3. \A v \in viewed : mail[Window[v]] = <<>>
    BY TargetAssumption DEF Settled, QInv, IInv, TypeOK
  <2> QED
    BY <2>2, <2>3 DEF Ups, LetGo
<1> QED
    BY <1>1, QueueInvariance, PTL
-----------------------------------------------------------------------------
(* The focus after a move                                                   *)

(* Nothing waits but a move to o. *)
Lone(q, o) == \A i \in 1 .. Len(q) :
    i = 1 /\ q[i].what = "moved" /\ q[i].to = o /\ q[i].buttons = {} /\ ~q[i].drag

Leaving(q, f) == \E i \in 1 .. Len(q) : Exit(q[i], f)
Reaching(q, v) == \E i \in 1 .. Len(q) : v \in q[i].views

(* Nobody grabs the mouse. *)
Free(w) ==
    w.captured = FALSE /\ w.id \in {"none", "client"} /\ (w.focus # NoSurface => w.btns = {})

(* From a move that finds all messages handled up to the user's next act:   *)
(* the only messages are those of the move, and the surface that has the    *)
(* focus and the one that should have it are still to get theirs.           *)
CalmInv == calm =>
    /\ Free(seat)
    /\ \A w \in Surface : Lone(mail[w], over)
    /\ seat.focus \notin {over, NoSurface} => Leaving(mail[Window[seat.focus]], seat.focus)
    /\ over \notin {seat.focus, NoSurface} => Reaching(mail[Window[over]], over)

LEMMA RestLone ==
    ASSUME NEW q \in Seq(Message), q # <<>>, NEW u, u \in Head(q).views, NEW o, Lone(q, o)
    PROVE  LET r == Rest(q, u)
           IN  /\ Lone(r, o)
               /\ \A v : v # u => /\ Leaving(q, v) => Leaving(r, v)
                                  /\ Reaching(q, v) => Reaching(r, v)
<1>1. Len(q) = 1 /\ Head(q) = q[1] /\ 1 \in 1 .. Len(q) /\ q[1] \in Message
  <2>1. Len(q) \in Nat /\ Len(q) # 0
    OBVIOUS
  <2>2. 2 \notin 1 .. Len(q)
    BY DEF Lone
  <2>3. \A n \in Nat : n # 0 /\ ~(2 <= n) => n = 1
    OBVIOUS
  <2>4. ~(2 <= Len(q))
    BY <2>1, <2>2
  <2>5. Len(q) = 1
    BY <2>1, <2>3, <2>4
  <2> QED
    BY <2>5
<1>2. CASE Head(q).views = {u}
  <2>1. Rest(q, u) = Tail(q) /\ Len(Tail(q)) = 0
    BY <1>1, <1>2 DEF Rest
  <2>2. Lone(Tail(q), o)
    BY <2>1 DEF Lone
  <2>3. ASSUME NEW v, v # u PROVE ~Leaving(q, v) /\ ~Reaching(q, v)
    BY <1>1, <1>2, <2>3 DEF Leaving, Reaching, Exit, Out
  <2> QED
    BY <2>1, <2>2, <2>3
<1>3. CASE Head(q).views # {u}
  <2> DEFINE m == [q[1] EXCEPT !.views = @ \ {u}]
             r == [q EXCEPT ![1] = m]
  <2>1. Rest(q, u) = r
    BY <1>1, <1>3 DEF Rest
  <2>2. /\ m.what = q[1].what /\ m.from = q[1].from /\ m.to = q[1].to /\ m.buttons = q[1].buttons
        /\ m.drag = q[1].drag /\ m.views = q[1].views \ {u}
    BY <1>1 DEF Message
  <2> HIDE DEF m
  <2>3. Len(r) = 1 /\ r[1] = m
    BY <1>1
  <2> HIDE DEF r
  <2>4. Lone(r, o)
    BY <1>1, <2>2, <2>3 DEF Lone
  <2>5. ASSUME NEW v, v # u
        PROVE  (Leaving(q, v) => Leaving(r, v)) /\ (Reaching(q, v) => Reaching(r, v))
    BY <1>1, <2>2, <2>3, <2>5 DEF Leaving, Reaching, Exit, Out
  <2> QED
    BY <2>1, <2>4, <2>5
<1> QED
    BY <1>2, <1>3

LEMMA MovedFree ==
    ASSUME NEW w, Sound(w), Track(w), Free(w), NEW u \in Surface, Target[u] = u,
           NEW m \in Message, m.what = "moved", ~m.drag, m.buttons = {}
    PROVE  LET v == Handled(w, u, m)
           IN  /\ Free(v)
               /\ v.focus = IF m.to = u THEN u
                            ELSE IF m.from = u /\ w.focus = u THEN NoSurface ELSE w.focus
<1> DEFINE t == Transit(u, m)
           f == Followed(w, u, t, m)
           y == Focused(w, u, "client", {})
           g == Focused(w, NoSurface, "none", {})
           z == Moved(w, u, t, m)
<1>1. /\ u # NoSurface /\ u \in Anyone /\ NoSurface \in Anyone /\ {} \in SUBSET Button
      /\ "none" \in Id /\ "client" \in Id /\ w \in Seat /\ Paired(w)
    BY SurfaceAssumption DEF Anyone, Id, Sound, Paired
<1>2. /\ t \in Within <=> m.to = u
      /\ t = "exited" <=> m.to # u /\ m.from = u
    BY DEF Transit, Within
<1>3. w.id # "client" => w.pressed = {}
    BY DEF Track
<1>4. Handled(w, u, m) = z
    BY DEF Handled
<1>5. ~m.drag /\ m.drag \in BOOLEAN /\ w.captured = FALSE /\ (w.focus # NoSurface => w.btns = {})
    BY DEF Free, Message
<1> HIDE DEF t, z
<1>6. CASE m.to = u
  <2>1. f = y
    BY <1>2, <1>5, <1>6 DEF Followed, SetPointerFocus, Within
  <2>2. y.focus = u /\ y.id = "client" /\ y.captured = FALSE /\ y.btns = {}
    BY <1>1, <1>3, <1>5, FocusedFields
  <2>3. y \in Seat
    BY <1>1, FocusedSound DEF Sound, Paired
  <2> HIDE DEF f, y
  <2>4. z = [y EXCEPT !.inside = TRUE]
    BY <1>2, <1>6, <2>1, <2>2 DEF Moved, f, z
  <2>5. z.focus = u /\ z.id = "client" /\ z.captured = FALSE /\ z.btns = {}
    BY <2>2, <2>3, <2>4, InsideFields
  <2> QED
    BY <1>4, <1>6, <2>5 DEF Free
<1>7. CASE m.to # u /\ m.from = u /\ w.focus = u
  <2>1. f = g
    BY <1>1, <1>2, <1>5, <1>7 DEF Followed, DropPointerFocus
  <2>2. g.focus = NoSurface /\ g.id = "none"
    BY <1>1, <1>3, <1>7, FocusedFields
  <2>3. g.captured = FALSE
    BY <1>1, <1>3, <1>7, FreedTrack DEF DropPointerFocus
  <2> HIDE DEF f, g
  <2>4. z = g
    BY <1>1, <2>1, <2>2 DEF Moved, f, z
  <2> QED
    BY <1>4, <1>7, <2>2, <2>3, <2>4 DEF Free
<1>8. CASE m.to # u /\ ~(m.from = u /\ w.focus = u)
  <2>1. f = w
    BY <1>2, <1>5, <1>8 DEF Followed, DropPointerFocus
  <2> HIDE DEF f
  <2>2. z = w \/ z = [w EXCEPT !.inside = FALSE]
    BY <1>2, <1>8, <2>1 DEF Moved, Free, f, z
  <2>3. /\ z.focus = w.focus /\ z.id = w.id /\ z.captured = w.captured /\ z.btns = w.btns
    BY <1>1, <2>2, InsideFields
  <2> QED
    BY <1>4, <1>8, <2>3 DEF Free
<1> QED
    BY <1>6, <1>7, <1>8

LEMMA ReceivedCalm ==
    ASSUME QInv, CalmInv, NEW u \in Surface, Target[u] = u, MessageReceived(u) PROVE CalmInv'
<1> SUFFICES ASSUME calm PROVE CalmInv'
    BY DEF CalmInv, MessageReceived
<1> DEFINE k == Window[u]
           q == mail[k]
           m == Head(q)
           r == Rest(q, u)
           f == seat.focus
<1>1. k \in Surface /\ q \in Seq(Message) /\ q # <<>> /\ u \in m.views /\ mail \in [Surface -> Seq(Message)]
    BY TargetAssumption DEF MessageReceived, QInv, IInv, TypeOK
<1>2. /\ seat' = Handled(seat, u, m) /\ mail' = [mail EXCEPT ![k] = r]
      /\ over' = over /\ calm' = calm
    BY DEF MessageReceived, mouseVars
<1>3. Free(seat) /\ Sound(seat) /\ Track(seat) /\ Lone(q, over)
    BY <1>1 DEF CalmInv, QInv, IInv
<1>4. /\ m \in Message /\ m.what = "moved" /\ m.to = over /\ m.buttons = {} /\ ~m.drag
      /\ \A v : Leaving(q, v) => Exit(m, v)
  <2>1. 1 \in 1 .. Len(q) /\ m = q[1]
    BY <1>1
  <2> QED
    BY <1>1, <1>3, <2>1 DEF Lone, Leaving
<1>5. /\ Lone(r, over)
      /\ \A v : v # u => /\ Leaving(q, v) => Leaving(r, v)
                         /\ Reaching(q, v) => Reaching(r, v)
    BY <1>1, <1>3, RestLone
<1>6. /\ Free(seat')
      /\ seat'.focus = IF over = u THEN u ELSE IF m.from = u /\ f = u THEN NoSurface ELSE f
    BY <1>2, <1>3, <1>4, MovedFree
<1>7. f \in Anyone /\ over \in Anyone
    BY DEF QInv, IInv, TypeOK, Seat, Anyone
<1> HIDE DEF r, m
<1>8. \A w \in Surface : Lone(mail'[w], over)
    BY <1>1, <1>2, <1>5 DEF CalmInv
<1>9. ASSUME NEW v \in Surface, v # u
      PROVE  /\ Leaving(mail[Window[v]], v) => Leaving(mail'[Window[v]], v)
             /\ Reaching(mail[Window[v]], v) => Reaching(mail'[Window[v]], v)
  <2>1. Window[v] \in Surface
    BY TargetAssumption
  <2>2. mail'[Window[v]] = IF Window[v] = k THEN r ELSE mail[Window[v]]
    BY <1>1, <1>2, <2>1
  <2> QED
    BY <1>5, <1>9, <2>2
<1> HIDE DEF q, k
<1>10. ASSUME seat'.focus \notin {over, NoSurface}
       PROVE  Leaving(mail'[Window[seat'.focus]], seat'.focus)
  <2>1. /\ seat'.focus = f /\ over # u /\ ~(m.from = u /\ f = u)
        /\ Leaving(mail[Window[f]], f) /\ f \in Surface
    BY <1>6, <1>7, <1>10 DEF CalmInv, Anyone
  <2>2. f # u
    BY <1>4, <2>1 DEF Exit, q, k
  <2> QED
    BY <1>9, <2>1, <2>2
<1>11. ASSUME over \notin {seat'.focus, NoSurface} PROVE Reaching(mail'[Window[over]], over)
  <2>1. over # u /\ over \in Surface /\ f # over
    BY <1>6, <1>7, <1>11 DEF Anyone
  <2>2. Reaching(mail[Window[over]], over)
    BY <1>11, <2>1 DEF CalmInv
  <2> QED
    BY <1>9, <2>1, <2>2
<1> QED
    BY <1>2, <1>6, <1>8, <1>10, <1>11 DEF CalmInv

LEMMA DispatchCalm ==
    ASSUME QInv, CalmInv, NEW s \in Surface, DispatchNothing(s) PROVE CalmInv'
<1> SUFFICES ASSUME calm PROVE CalmInv'
    BY DEF CalmInv, DispatchNothing, history
<1> DEFINE q == mail[s]
           r == Tail(q)
<1>1. q \in Seq(Message) /\ q # <<>> /\ q[1].views = {} /\ mail \in [Surface -> Seq(Message)]
    BY DEF DispatchNothing, QInv, IInv, TypeOK
<1>2. mail' = [mail EXCEPT ![s] = r] /\ UNCHANGED <<seat, over, calm>>
    BY DEF DispatchNothing, mouseVars, history
<1>3. Lone(q, over)
    BY DEF CalmInv
<1>4. Len(q) \in Nat /\ Len(r) = Len(q) - 1 /\ \A i \in 1 .. Len(q) : i = 1
    BY <1>1, <1>3 DEF Lone
<1>5. 1 .. Len(r) = {}
  <2>1. ~(2 <= Len(q))
    BY <1>4
  <2> QED
    BY <1>4, <2>1
<1>6. Lone(r, over) /\ \A v : ~Leaving(q, v) /\ ~Reaching(q, v)
    BY <1>1, <1>4, <1>5 DEF Lone, Leaving, Reaching, Exit, Out
<1> HIDE DEF q, r
<1>7. \A k \in Surface : mail'[k] = IF k = s THEN r ELSE mail[k]
    BY <1>1, <1>2
<1>8. \A k \in Surface : Lone(mail'[k], over)
    BY <1>6, <1>7 DEF CalmInv
<1>9. ASSUME NEW v \in Surface
      PROVE  /\ Leaving(mail[Window[v]], v) => Leaving(mail'[Window[v]], v)
             /\ Reaching(mail[Window[v]], v) => Reaching(mail'[Window[v]], v)
    BY <1>6, <1>7, TargetAssumption DEF q
<1>10. seat.focus \in Anyone /\ over \in Anyone
    BY DEF QInv, IInv, TypeOK, Seat, Anyone
<1> QED
    BY <1>2, <1>8, <1>9, <1>10 DEF CalmInv, Anyone

LEMMA MoveCalm ==
    ASSUME QInv, \A v \in Surface : Target[v] = v,
           NEW to \in viewed \cup {NoSurface}, Move(to) PROVE CalmInv'
<1> SUFFICES ASSUME calm' PROVE CalmInv'
    BY DEF CalmInv
<1> DEFINE m == [what |-> "moved", from |-> over, to |-> to, buttons |-> held,
                 drag |-> dragging, views |-> {}]
           f == seat.focus
<1>1. /\ mail' = Posted(m) /\ over' = to /\ seat' = seat
      /\ Settled /\ held = {} /\ ~dragging /\ ~orphaned
    BY DEF Move
<1>2. /\ \A k \in Surface : mail[k] = <<>>
      /\ \A v \in viewed : v \in Surface /\ mail[Window[v]] = <<>> /\ Target[v] = v
    BY <1>1, TargetAssumption DEF Settled, QInv, IInv, TypeOK
<1>3. f # NoSurface => Hearing(seat, Ups, Exits, Ends)
    BY <1>1 DEF QInv, HearInv
<1>4. Ups = {} /\ Ends = {} /\ Exits \subseteq {over}
  <2>1. \A v \in viewed : \A x : ~LetGo(mail[Window[v]], 0, v, x, held)
    BY <1>1, <1>2 DEF LetGo
  <2>2. \A v \in viewed : ~DragEnds(mail[Window[v]], 0, v, over, dragging)
    BY <1>1, <1>2 DEF DragEnds
  <2>3. \A v \in viewed : Leaves(mail[Window[v]], 0, v, over) => v = over
    BY <1>1, <1>2 DEF Leaves
  <2> QED
    BY <1>2, <2>1, <2>2, <2>3 DEF Ups, Ends, Exits
<1>5. f = NoSurface => Free(seat)
    BY DEF QInv, IInv, Sound, Paired, Free, Seat
<1>6. f # NoSurface => Free(seat) /\ f = over
    BY <1>3, <1>4 DEF QInv, Track, IInv, Sound, Paired, Free, Seat, Hearing
<1>7. ASSUME NEW k \in Surface
      PROVE  /\ Lone(mail'[k], to)
             /\ \A v \in Views(k) : /\ Reaching(mail'[k], v)
                                    /\ v = over /\ v # to => Leaving(mail'[k], v)
  <2> DEFINE n == [m EXCEPT !.views = Views(k)]
             q == mail'[k]
  <2>1. q = IF Views(k) = {} THEN <<>> ELSE Append(<<>>, n)
    BY <1>1, <1>2 DEF Posted
  <2>2. /\ n.what = "moved" /\ n.from = over /\ n.to = to /\ n.buttons = {} /\ n.drag = dragging
        /\ n.views = Views(k)
    BY <1>1
  <2> HIDE DEF n, q, m
  <2>3. CASE Views(k) = {}
    BY <2>1, <2>3 DEF Lone, q
  <2>4. CASE Views(k) # {}
    <3>1. q = <<n>> /\ Len(q) = 1 /\ q[1] = n
        BY <2>1, <2>4
    <3>2. Lone(q, to)
        BY <1>1, <2>2, <3>1 DEF Lone
    <3>3. 1 \in 1 .. Len(q)
        BY <3>1
    <3> QED
        BY <2>2, <3>1, <3>2, <3>3 DEF Reaching, Leaving, Exit, Out, q
  <2> QED
    BY <2>3, <2>4
<1>8. \A v \in viewed : v \in Views(Window[v]) /\ Window[v] \in Surface
    BY TargetAssumption DEF Views, QInv, IInv, TypeOK
<1>9. over \in viewed \cup {NoSurface}
    BY DEF QInv, IInv, TypeOK
<1>10. \A k \in Surface : Lone(mail'[k], to)
    BY <1>7
<1>11. f \notin {to, NoSurface} => Leaving(mail'[Window[f]], f)
    BY <1>6, <1>7, <1>8, <1>9
<1>12. to # NoSurface => Reaching(mail'[Window[to]], to)
    BY <1>7, <1>8
<1> QED
    BY <1>1, <1>5, <1>6, <1>10, <1>11, <1>12 DEF CalmInv

(* However the threads handled what came before, a move that finds all of   *)
(* it handled gives the focus to the surface under the mouse, or takes it   *)
(* away; for views that pass no messages on.                                *)
THEOREM FocusGoesWithMouse ==
    ASSUME \A s \in Surface : Target[s] = s PROVE Spec => []FocusFollowsMouse
<1>1. Init => CalmInv
    BY DEF Init, CalmInv
<1>2. QInv /\ CalmInv /\ [Next]_vars => CalmInv'
  <2> SUFFICES ASSUME QInv, CalmInv, [Next]_vars PROVE CalmInv'
    OBVIOUS
  <2>1. CASE \E s \in Surface : MessageReceived(s)
    BY <2>1, ReceivedCalm
  <2>2. CASE \E s \in Surface : DispatchNothing(s)
    BY <2>2, DispatchCalm
  <2>3. CASE \E s \in Surface : CreateView(s)
    BY <2>3 DEF CreateView, mouseVars, history, CalmInv
  <2>4. CASE \E s \in Surface : DestroyRole(s) \/ DestroySurface(s)
    BY <2>4 DEF DestroyRole, DestroySurface, Detach, CalmInv
  <2>5. CASE \E p \in Pointer : HandleGetPointer(p)
    BY <2>5 DEF HandleGetPointer, mouseVars, history, CalmInv
  <2>6. CASE \E p \in Pointer : DestroyPointer(p)
    <3>1. PICK p \in Pointer : DestroyPointer(p)
        BY <2>6
    <3>2. /\ seat'.focus = seat.focus /\ seat'.btns = seat.btns
          /\ seat'.captured = seat.captured /\ seat'.id = seat.id
        BY <3>1 DEF DestroyPointer, QInv, IInv, TypeOK, Seat
    <3> QED
        BY <3>1, <3>2 DEF DestroyPointer, mouseVars, history, CalmInv, Free
  <2>7. CASE \E id \in {"move", "resize"} : DoTrack(id)
    BY <2>7 DEF DoTrack, mouseVars, history, CalmInv, Free
  <2>8. CASE \E to \in viewed \cup {NoSurface} : Move(to)
    BY <2>8, MoveCalm
  <2>9. CASE \E b \in Button : Press(b) \/ Release(b)
    BY <2>9 DEF Press, Release, CalmInv
  <2>10. CASE StartDrag
    BY <2>10 DEF StartDrag, CalmInv
  <2>11. CASE UNCHANGED vars
    BY <2>11 DEF vars, mouseVars, history, CalmInv
  <2> QED
    BY <2>1, <2>2, <2>3, <2>4, <2>5, <2>6, <2>7, <2>8, <2>9, <2>10, <2>11 DEF Next
<1>3. QInv /\ CalmInv => FocusFollowsMouse
  <2> SUFFICES ASSUME QInv, CalmInv, Settled, calm PROVE seat.focus = over
    BY DEF FocusFollowsMouse
  <2>1. \A k \in Surface : \A v : ~Leaving(mail[k], v) /\ ~Reaching(mail[k], v)
    BY DEF Settled, Leaving, Reaching
  <2>2. seat.focus \in Anyone /\ over \in Anyone
    BY DEF QInv, IInv, TypeOK, Seat, Anyone
  <2> QED
    BY <2>1, <2>2, TargetAssumption DEF CalmInv, Anyone
<1> QED
    BY <1>1, <1>2, <1>3, QueueInvariance, PTL DEF Spec
-----------------------------------------------------------------------------
(* Drags: the seat with the data device *)

(* What the drags' steps do to the seat and to the device. *)
LEMMA DragSteps ==
    ASSUME [NextDrag]_<<vars, deviceVars, dragVars>>
    PROVE  [Next]_vars /\ [device!Next]_(device!deviceVars)
<1> USE DEF deviceVars, device!deviceVars, device!clipVars
<1>1. CASE \E s \in Surface : MessageForView(s)
  <2>1. PICK s \in Surface : MessageForView(s)
    BY <1>1
  <2>2. [Next]_vars
    BY <2>1 DEF MessageForView, Next
  <2>3. PICK m : Hook(m)
    BY <2>1 DEF MessageForView
  <2>4. (seat.id = "drag") \in BOOLEAN
    OBVIOUS
  <2>5. [device!Next]_(device!deviceVars)
    <3>1. CASE m.what = "up"
        BY <2>3, <2>4, <3>1 DEF Hook, device!Next
    <3>2. CASE m.what = "drop" /\ EndsDrag(seat, m)
        BY <2>3, <3>2 DEF Hook, device!Next
    <3>3. CASE m.what # "up" /\ ~(m.what = "drop" /\ EndsDrag(seat, m))
        BY <2>3, <3>3 DEF Hook
    <3> QED
        BY <3>1, <3>2, <3>3
  <2> QED
    BY <2>2, <2>5
<1>2. CASE \E s \in Surface : ViewLost(s)
    BY <1>2 DEF ViewLost, Next
<1>3. CASE \E s \in Surface : (DispatchNothing(s) \/ CreateView(s)) /\ UNCHANGED <<deviceVars, dragVars>>
    BY <1>3 DEF Next
<1>4. CASE \E to \in viewed \cup {NoSurface} : Move(to) /\ UNCHANGED <<deviceVars, dragVars>>
    BY <1>4 DEF Next
<1>5. CASE \E b \in Button : ReleaseMaybeDrop(b)
    BY <1>5 DEF ReleaseMaybeDrop, Next
<1>6. CASE \E b \in Button : Press(b) /\ UNCHANGED <<deviceVars, dragVars>>
    BY <1>6 DEF Next
<1>7. CASE \E s \in Source \cup {NoSource} : HandleStartDrag(s)
    BY <1>7 DEF HandleStartDrag, Next, device!Next
<1>8. CASE ForeignDrag
    BY <1>8 DEF ForeignDrag, Next
<1>9. CASE Elsewhere
    BY <1>9 DEF Elsewhere, device!Next
<1>10. CASE UNCHANGED <<vars, deviceVars, dragVars>>
    BY <1>10
<1> QED
    BY <1>1, <1>2, <1>3, <1>4, <1>5, <1>6, <1>7, <1>8, <1>9, <1>10 DEF NextDrag

(* With the data device beside it the seat does what it does by itself. *)
THEOREM DragKeepsSeat == SpecDrag => Spec
<1>1. InitDrag => Init
    BY DEF InitDrag
<1>2. [NextDrag]_<<vars, deviceVars, dragVars>> => [Next]_vars
    BY DragSteps
<1> QED
    BY <1>1, <1>2, PTL DEF SpecDrag, Spec

(* So drags, drops and sources that end at any moment break no promise of   *)
(* the seat: enter and leave pair, grabs have a focus and end, and buttons  *)
(* come up.                                                                 *)
THEOREM SeatKeepsPromises ==
    SpecDrag => [](FocusTold /\ GrabHasFocus /\ GrabEnds /\ NoStuckButton)
  BY DragKeepsSeat, EnterAndLeavePair, GrabsHaveAFocus, GrabsEnd, ButtonsComeUp, PTL

(* What the hooks of the seat, drags, drops and the client's requests make  *)
(* of the data device are steps it takes by itself.                         *)
THEOREM DragKeepsDevice == SpecDrag => device!Spec
<1>1. InitDrag => device!Init
    BY DEF InitDrag
<1>2. [NextDrag]_<<vars, deviceVars, dragVars>> => [device!Next]_(device!deviceVars)
    BY DragSteps
<1> QED
    BY <1>1, <1>2, PTL DEF SpecDrag, device!Spec
-----------------------------------------------------------------------------
(* What the queues still bring a drag.  The release reaches v by the k-th   *)
(* message; what is dragged leaves v after the n-th, and the release comes. *)
UpAt(q, k, v) == q[k].what = "up" /\ v \in q[k].views

Comes(q, v) == \E k \in 1 .. Len(q) : UpAt(q, k, v)

Taken(q, n, v) == \E j, k \in 1 .. Len(q) : n < j /\ j < k /\ Out(q[j], v) /\ UpAt(q, k, v)

DropFree(q) == \A i \in 1 .. Len(q) : q[i].what # "drop"

(* Whoever finds that something is dragged over it will find it gone, and   *)
(* then hear of the release.                                                *)
AllTaken(q) == \A i \in 1 .. Len(q) : \A v \in q[i].views :
    q[i].what = "moved" /\ q[i].drag /\ q[i].to = v => Taken(q, i, v)

(* A drop comes, and before it nothing but the release. *)
Drops(q) == \E k \in 1 .. Len(q) :
    /\ q[k].what = "drop" /\ q[k].views # {}
    /\ \A i \in 1 .. Len(q) : i < k => q[i].what = "up"

(* r is what is left of q, d messages shorter, when u has had the first.    *)
Leftover(q, r, d, u) ==
    /\ d \in {0, 1} /\ Len(r) \in Nat /\ Len(q) \in Nat /\ Len(r) = Len(q) - d
    /\ \A i \in 1 .. Len(r) :
         /\ r[i].what = q[i + d].what /\ r[i].to = q[i + d].to /\ r[i].drag = q[i + d].drag
         /\ r[i].views \subseteq q[i + d].views
    /\ \A i \in 1 .. Len(q) : \A v \in q[i].views :
         (i = 1 /\ v = u) \/ (i - d \in 1 .. Len(r) /\ v \in r[i - d].views)

LEMMA TailLeftover ==
    ASSUME NEW q \in Seq(Message), q # <<>>, NEW u, Head(q).views \subseteq {u}
    PROVE  Leftover(q, Tail(q), 1, u)
<1> DEFINE r == Tail(q)
<1>1. Len(q) \in Nat /\ Len(r) \in Nat /\ Len(r) = Len(q) - 1 /\ Head(q) = q[1]
      /\ \A i \in 1 .. Len(r) : r[i] = q[i + 1]
    OBVIOUS
<1> HIDE DEF r
<1>2. ASSUME NEW i \in 1 .. Len(q), NEW v \in q[i].views
      PROVE  (i = 1 /\ v = u) \/ (i - 1 \in 1 .. Len(r) /\ v \in r[i - 1].views)
  <2>1. CASE i = 1
    BY <1>1, <2>1
  <2>2. CASE i # 1
    <3>1. i - 1 \in 1 .. Len(r) /\ (i - 1) + 1 = i
        BY <1>1, <2>2
    <3>2. r[i - 1] = q[i]
        BY <1>1, <3>1
    <3> QED
        BY <3>1, <3>2
  <2> QED
    BY <2>1, <2>2
<1>3. 1 \in {0, 1}
    OBVIOUS
<1> QED
    BY <1>1, <1>2, <1>3 DEF Leftover, r

LEMMA RestLeftover ==
    ASSUME NEW q \in Seq(Message), q # <<>>, NEW u
    PROVE  \E d \in {0, 1} : Leftover(q, Rest(q, u), d, u)
<1>1. CASE Head(q).views = {u}
    BY <1>1, TailLeftover DEF Rest
<1>2. CASE Head(q).views # {u}
  <2> DEFINE r == [q EXCEPT ![1].views = @ \ {u}]
  <2>1. Len(q) \in Nat /\ Len(r) = Len(q) /\ 0 \in {0, 1} /\ Len(r) = Len(q) - 0
    OBVIOUS
  <2>2. ASSUME NEW i \in 1 .. Len(q)
        PROVE  /\ r[i].what = q[i].what /\ r[i].to = q[i].to /\ r[i].drag = q[i].drag
               /\ r[i].views \subseteq q[i].views
               /\ \A v \in q[i].views : (i = 1 /\ v = u) \/ v \in r[i].views
    <3>1. q[i] \in Message
        OBVIOUS
    <3>2. CASE i # 1
        BY <3>2
    <3>3. CASE i = 1
        BY <3>1, <3>3 DEF Message
    <3> QED
        BY <3>2, <3>3
  <2> HIDE DEF r
  <2>3. \A i \in 1 .. Len(q) : i + 0 = i /\ i - 0 = i
    OBVIOUS
  <2>4. Leftover(q, r, 0, u)
    BY <2>1, <2>2, <2>3 DEF Leftover
  <2> QED
    BY <1>2, <2>4 DEF Rest, r
<1> QED
    BY <1>1, <1>2

(* What is left brings all that u has not just had. *)
LEMMA LeftoverBrings ==
    ASSUME NEW q, NEW r, NEW d, NEW u, Leftover(q, r, d, u)
    PROVE  /\ \A v : Comes(q, v) => Comes(r, v) \/ (v = u /\ q[1].what = "up")
           /\ \A v : Taken(q, 0, v) => Taken(r, 0, v) \/ (v = u /\ Out(q[1], u))
           /\ \A v, k : k \in 1 .. Len(q) /\ UpAt(q, k, v) /\ k > 1 => Comes(r, v)
           /\ \A v : Taken(q, 1, v) => Taken(r, 0, v)
           /\ DropFree(q) => DropFree(r)
           /\ AllTaken(q) => AllTaken(r)
           /\ Drops(q) => Drops(r) \/ q[1].what = "drop"
<1>1. d \in {0, 1} /\ Len(r) \in Nat /\ Len(q) \in Nat /\ Len(r) = Len(q) - d
    BY DEF Leftover
<1>2. ASSUME NEW i \in 1 .. Len(q), NEW v, v \in q[i].views, i # 1 \/ v # u
      PROVE  /\ i - d \in 1 .. Len(r) /\ (i - d) + d = i /\ v \in r[i - d].views
             /\ r[i - d].what = q[i].what /\ r[i - d].to = q[i].to
  <2>1. i - d \in 1 .. Len(r) /\ v \in r[i - d].views
    BY <1>2 DEF Leftover
  <2>2. (i - d) + d = i
    BY <1>1
  <2> QED
    BY <2>1, <2>2 DEF Leftover
<1>3. ASSUME NEW v, NEW e \in Nat, NEW j \in 1 .. Len(q), NEW k \in 1 .. Len(q),
             j < k, Out(q[j], v), UpAt(q, k, v), j # 1 \/ v # u, e + d < j
      PROVE  Taken(r, e, v)
  <2>1. v \in q[j].views /\ v \in q[k].views
    BY <1>3 DEF Out, UpAt
  <2>2. k # 1
    BY <1>3
  <2>3. /\ j - d \in 1 .. Len(r) /\ v \in r[j - d].views
        /\ r[j - d].what = q[j].what /\ r[j - d].to = q[j].to
    BY <1>2, <1>3, <2>1
  <2>4. k - d \in 1 .. Len(r) /\ v \in r[k - d].views /\ r[k - d].what = q[k].what
    BY <1>2, <2>1, <2>2
  <2>5. e < j - d /\ j - d < k - d
    BY <1>1, <1>3
  <2> QED
    BY <1>3, <2>3, <2>4, <2>5 DEF Taken, Out, UpAt
<1>4. ASSUME NEW v, NEW k \in 1 .. Len(q), UpAt(q, k, v), k # 1 \/ v # u PROVE Comes(r, v)
    BY <1>2, <1>4 DEF Comes, UpAt
<1>5. ASSUME NEW v, Comes(q, v) PROVE Comes(r, v) \/ (v = u /\ q[1].what = "up")
    BY <1>4, <1>5 DEF Comes, UpAt
<1>6. ASSUME NEW v, Taken(q, 0, v) PROVE Taken(r, 0, v) \/ (v = u /\ Out(q[1], u))
  <2>1. PICK j, k \in 1 .. Len(q) : 0 < j /\ j < k /\ Out(q[j], v) /\ UpAt(q, k, v)
    BY <1>6 DEF Taken
  <2>2. CASE j = 1 /\ v = u
    BY <2>1, <2>2
  <2>3. CASE j # 1 \/ v # u
    <3>1. j - d \in 1 .. Len(r)
        BY <1>2, <2>1, <2>3 DEF Out
    <3>2. 0 + d < j /\ 0 \in Nat
        BY <1>1, <3>1
    <3> QED
        BY <1>3, <2>1, <2>3, <3>2
  <2> QED
    BY <2>2, <2>3
<1>7. ASSUME NEW v, Taken(q, 1, v) PROVE Taken(r, 0, v)
  <2>1. PICK j, k \in 1 .. Len(q) : 1 < j /\ j < k /\ Out(q[j], v) /\ UpAt(q, k, v)
    BY <1>7 DEF Taken
  <2>2. 0 + d < j /\ 0 \in Nat /\ j # 1
    BY <1>1, <2>1
  <2> QED
    BY <1>3, <2>1, <2>2
<1>8. \A i \in 1 .. Len(r) : i + d \in 1 .. Len(q) /\ (i + d) - d = i
    BY <1>1
<1>9. DropFree(q) => DropFree(r)
    BY <1>8 DEF DropFree, Leftover
<1>10. ASSUME AllTaken(q), NEW i \in 1 .. Len(r), NEW v \in r[i].views,
              r[i].what = "moved", r[i].drag, r[i].to = v
       PROVE  Taken(r, i, v)
  <2>1. /\ i + d \in 1 .. Len(q) /\ v \in q[i + d].views
        /\ q[i + d].what = "moved" /\ q[i + d].drag /\ q[i + d].to = v
    BY <1>8, <1>10 DEF Leftover
  <2>2. Taken(q, i + d, v)
    BY <1>10, <2>1 DEF AllTaken
  <2>3. PICK j, k \in 1 .. Len(q) : i + d < j /\ j < k /\ Out(q[j], v) /\ UpAt(q, k, v)
    BY <2>2 DEF Taken
  <2>4. j # 1 /\ i \in Nat
    BY <1>1, <2>3
  <2> QED
    BY <1>3, <2>3, <2>4
<1>11. ASSUME Drops(q), q[1].what # "drop" PROVE Drops(r)
  <2>1. PICK k \in 1 .. Len(q) :
              /\ q[k].what = "drop" /\ q[k].views # {}
              /\ \A i \in 1 .. Len(q) : i < k => q[i].what = "up"
    BY <1>11 DEF Drops
  <2>2. PICK v : v \in q[k].views
    BY <2>1
  <2>3. k - d \in 1 .. Len(r) /\ v \in r[k - d].views /\ r[k - d].what = "drop"
    BY <1>2, <1>11, <2>1, <2>2
  <2>4. ASSUME NEW i \in 1 .. Len(r), i < k - d PROVE r[i].what = "up"
    <3>1. i + d \in 1 .. Len(q) /\ i + d < k
        BY <1>1, <1>8, <2>4
    <3> QED
        BY <2>1, <3>1 DEF Leftover
  <2> QED
    BY <2>3, <2>4 DEF Drops
<1>12. \A v, k : k \in 1 .. Len(q) /\ UpAt(q, k, v) /\ k > 1 => Comes(r, v)
  <2> TAKE v, k
  <2> HAVE k \in 1 .. Len(q) /\ UpAt(q, k, v) /\ k > 1
  <2>1. k # 1
    OBVIOUS
  <2> QED
    BY <1>4, <2>1
<1> QED
    BY <1>5, <1>6, <1>7, <1>9, <1>10, <1>11, <1>12 DEF AllTaken

(* What is put behind takes nothing away. *)
LEMMA AppendBrings ==
    ASSUME NEW q \in Seq(Message), NEW m \in Message
    PROVE  LET r == Append(q, m)
           IN  /\ \A v : Comes(q, v) => Comes(r, v)
               /\ \A v, n : Taken(q, n, v) => Taken(r, n, v)
               /\ \A v : \A j \in 1 .. Len(q) : \A n : 
                    n < j /\ Out(q[j], v) /\ m.what = "up" /\ v \in m.views => Taken(r, n, v)
               /\ \A v : m.what = "up" /\ v \in m.views => Comes(r, v)
               /\ DropFree(q) /\ m.what # "drop" => DropFree(r)
               /\ AllTaken(q) /\ ~m.drag => AllTaken(r)
               /\ Drops(q) => Drops(r)
<1> DEFINE r == Append(q, m)
           l == Len(q) + 1
<1>1. /\ Len(q) \in Nat /\ Len(r) = l /\ r[l] = m /\ l \in 1 .. Len(r)
      /\ \A i \in 1 .. Len(q) : r[i] = q[i] /\ i \in 1 .. Len(r) /\ i < l
      /\ \A i \in 1 .. Len(r) : i = l \/ i \in 1 .. Len(q)
    OBVIOUS
<1> HIDE DEF r
<1>2. \A v : Comes(q, v) => Comes(r, v)
    BY <1>1 DEF Comes, UpAt
<1>3. \A v, n : Taken(q, n, v) => Taken(r, n, v)
    BY <1>1 DEF Taken, UpAt
<1>4. \A v : \A j \in 1 .. Len(q) : \A n :
        n < j /\ Out(q[j], v) /\ m.what = "up" /\ v \in m.views => Taken(r, n, v)
    BY <1>1 DEF Taken, UpAt
<1>5. \A v : m.what = "up" /\ v \in m.views => Comes(r, v)
    BY <1>1 DEF Comes, UpAt
<1>6. DropFree(q) /\ m.what # "drop" => DropFree(r)
    BY <1>1 DEF DropFree
<1>7. AllTaken(q) /\ ~m.drag => AllTaken(r)
    BY <1>1, <1>3 DEF AllTaken
<1>8. ASSUME Drops(q) PROVE Drops(r)
  <2>1. PICK k \in 1 .. Len(q) :
              /\ q[k].what = "drop" /\ q[k].views # {}
              /\ \A i \in 1 .. Len(q) : i < k => q[i].what = "up"
    BY <1>8 DEF Drops
  <2>2. \A i \in 1 .. Len(r) : i < k => i \in 1 .. Len(q)
    BY <1>1
  <2> QED
    BY <1>1, <2>1, <2>2 DEF Drops
<1> QED
    BY <1>2, <1>3, <1>4, <1>5, <1>6, <1>7, <1>8 DEF r
-----------------------------------------------------------------------------
(* The seat and a drag *)

(* A drag is tracked with a grab. *)
Grabs(w) == w.id = "drag" => w.captured

(* The focus is given up. *)
LEMMA DropFields ==
    ASSUME NEW w, Sound(w), NEW s \in Surface, w.focus = s
    PROVE  DropPointerFocus(w, s).focus = NoSurface /\ DropPointerFocus(w, s).id = "none"
<1> DEFINE v == DropPointerFocus(w, s)
<1>1. w.focus # NoSurface
    BY SurfaceAssumption
<1>2. v.focus = NoSurface
    BY <1>1, SurfaceAssumption DEF DropPointerFocus, Focused, Entered, Retargeted, Left, Sound, Paired, Seat
<1>3. Sound(v)
    BY DropSound
<1> QED
    BY <1>2, <1>3 DEF Sound, Paired

LEMMA SetFields ==
    ASSUME NEW w, Paired(w), NEW s \in Surface, NEW id \in Id \ {"none"},
           NEW buttons \in SUBSET Button
    PROVE  LET v == SetPointerFocus(w, s, id, buttons)
           IN  v.focus = s /\ v.id = id /\ v.captured = w.captured /\ v.inside = w.inside
<1>1. CASE w.focus = s /\ w.id = id
    BY <1>1 DEF SetPointerFocus, Focused
<1>2. CASE ~(w.focus = s /\ w.id = id)
  <2> DEFINE l == Left(w)
             e == Retargeted(l, s, id, buttons)
  <2>1. l \in Seat /\ l.captured = w.captured /\ l.inside = w.inside
    <3>1. l \in Seat
        BY LeftAway DEF Away
    <3>2. l.captured = w.captured /\ l.inside = w.inside
        BY DEF Left, Paired, Seat
    <3> QED
        BY <3>1, <3>2
  <2> HIDE DEF l
  <2>2. /\ e.focus = s /\ e.id = id /\ e.captured = w.captured /\ e.inside = w.inside
        /\ DOMAIN e = DOMAIN l
    BY <2>1, SurfaceAssumption DEF Retargeted, Seat
  <2>3. e \in Seat
    BY <2>1, RetargetedTyped DEF Anyone
  <2> HIDE DEF e
  <2>4. LET v == Entered(e)
        IN  v.focus = s /\ v.id = id /\ v.captured = w.captured /\ v.inside = w.inside
    BY <2>2, <2>3 DEF Entered, Seat
  <2> QED
    BY <1>2, <2>4 DEF SetPointerFocus, Focused, e, l
<1> QED
    BY <1>1, <1>2

(* When u is handed m: a drag is tracked from then on only if it was before *)
(* and m does not take it away from u, or if m brings it over u.            *)
DragsOn(w, u, m, v) ==
    \/ /\ w.id = "drag" /\ v.focus = w.focus /\ m.what # "drop"
       /\ Target[u] = w.focus => ~Out(m, u) \/ u \notin m.views
    \/ m.what = "moved" /\ m.drag /\ m.to = u /\ v.focus = Target[u]

LEMMA MovedDrags ==
    ASSUME NEW w, Sound(w), Grabs(w), NEW u \in Surface, NEW m \in Message, m.what = "moved"
    PROVE  LET v == Moved(w, Target[u], Transit(u, m), m)
           IN  /\ Grabs(v)
               /\ v.id = "drag" => DragsOn(w, u, m, v)
               /\ w.id = "drag" /\ Target[u] # w.focus => v.id = "drag" /\ v.focus = w.focus
<1> DEFINE s == Target[u]
           t == Transit(u, m)
           c == [w EXCEPT !.captured = TRUE]
           f == Followed(w, s, t, m)
           v == Moved(w, s, t, m)
<1>1. s \in Surface /\ m.buttons \in SUBSET Button /\ Paired(w) /\ m.drag \in BOOLEAN
    BY TargetAssumption DEF Sound, Message
<1>2. Sound(f)
    BY <1>1, FollowedSound
<1>3. t \in Within <=> m.to = u
    BY DEF Transit, Within
<1>4. f.focus # s => v = f
    BY DEF Moved
<1> HIDE DEF t
<1>5. ASSUME f.focus = s, t \in Within PROVE v = [f EXCEPT !.inside = TRUE]
    BY <1>5 DEF Moved
<1>6. ASSUME f.focus = s, t \notin Within, f.id # "drag" PROVE v = [f EXCEPT !.inside = FALSE]
    BY <1>6 DEF Moved
<1>7. ASSUME f.focus = s, t \notin Within, f.id = "drag"
      PROVE  v.id = "none"
  <2> DEFINE g == [f EXCEPT !.inside = FALSE, !.captured = FALSE]
  <2>1. v = DropPointerFocus(g, s)
    BY <1>7 DEF Moved
  <2>2. Sound(g) /\ g.focus = s
    BY <1>2, <1>7 DEF Sound, Paired, Seat
  <2> HIDE DEF g
  <2> QED
    BY <1>1, <2>1, <2>2, DropFields
<1>8. Grabs(f) /\ (f.id = "drag" => \/ f = w
                                    \/ m.drag /\ w.id # "drag" /\ f.focus = s)
      /\ (w.id = "drag" /\ w.focus # s => f = w)
  <2>1. CASE m.drag /\ w.id # "drag"
    <3>1. f = SetPointerFocus(c, s, "drag", m.buttons) /\ Paired(c) /\ c.captured = TRUE
        BY <1>1, <2>1, CapturedPaired DEF Followed
    <3>2. "drag" \in Id \ {"none"}
        BY DEF Id
    <3> HIDE DEF c, f
    <3>3. f.focus = s /\ f.captured = TRUE
        BY <1>1, <3>1, <3>2, SetFields
    <3> QED
        BY <2>1, <3>3 DEF Grabs
  <2>2. CASE ~(m.drag /\ w.id # "drag") /\ ~m.drag /\ ~w.captured /\ t \in Within
    <3>1. f = SetPointerFocus(w, s, "client", m.buttons)
        BY <2>2 DEF Followed, Within
    <3>2. "client" \in Id \ {"none"}
        BY DEF Id
    <3> HIDE DEF f
    <3>3. f.id = "client"
        BY <1>1, <3>1, <3>2, SetFields
    <3> QED
        BY <2>2, <3>3 DEF Grabs
  <2>3. CASE ~(m.drag /\ w.id # "drag") /\ ~m.drag /\ ~w.captured /\ t = "exited"
    <3>1. f = DropPointerFocus(w, s)
        BY <2>3 DEF Followed, Within
    <3>2. w.id # "drag"
        BY <2>3 DEF Grabs
    <3>3. CASE w.focus = s
        BY <1>1, <3>1, <3>2, <3>3, DropFields DEF Grabs
    <3>4. CASE w.focus # s
        BY <3>1, <3>2, <3>4 DEF Grabs, DropPointerFocus
    <3> QED
        BY <3>3, <3>4
  <2>4. CASE /\ ~(m.drag /\ w.id # "drag") /\ ~(~m.drag /\ ~w.captured /\ t \in Within)
             /\ ~(~m.drag /\ ~w.captured /\ t = "exited")
    BY <2>4 DEF Followed
  <2> QED
    BY <2>1, <2>2, <2>3, <2>4
<1>9. /\ [f EXCEPT !.inside = TRUE].focus = f.focus /\ [f EXCEPT !.inside = TRUE].id = f.id
      /\ [f EXCEPT !.inside = TRUE].captured = f.captured
      /\ [f EXCEPT !.inside = FALSE].id = f.id
    BY <1>2 DEF Sound, Paired, Seat
<1> HIDE DEF f, v
<1>10. Grabs(v)
    BY <1>4, <1>5, <1>6, <1>7, <1>8, <1>9 DEF Grabs
<1>11. ASSUME v.id = "drag" PROVE DragsOn(w, u, m, v)
  <2>1. f.id = "drag" /\ v.focus = f.focus /\ (f.focus = s => m.to = u)
    BY <1>3, <1>4, <1>5, <1>6, <1>7, <1>9, <1>11
  <2> QED
    BY <1>8, <2>1 DEF DragsOn, Out
<1>12. w.id = "drag" /\ s # w.focus => v.id = "drag" /\ v.focus = w.focus
    BY <1>4, <1>8
<1> QED
    BY <1>10, <1>11, <1>12 DEF v, t

LEMMA HandledDrags ==
    ASSUME NEW w, Sound(w), Grabs(w), NEW u \in Surface, NEW m \in Message
    PROVE  LET v == Handled(w, u, m)
           IN  /\ Grabs(v)
               /\ v.id = "drag" => DragsOn(w, u, m, v)
               /\ w.id = "drag" /\ (m.what = "up" \/ (m.what # "drop" /\ Target[u] # w.focus)) =>
                    v.id = "drag" /\ v.focus = w.focus
<1> DEFINE s == Target[u]
<1>1. s \in Surface /\ m.buttons \in SUBSET Button /\ Paired(w) /\ w \in Seat
      /\ m.what \in {"moved", "down", "up", "drop"}
    BY TargetAssumption DEF Sound, Message, Paired
<1>2. CASE m.what = "moved"
  <2>1. Handled(w, u, m) = Moved(w, s, Transit(u, m), m)
    BY <1>2 DEF Handled
  <2> QED
    BY <1>2, <2>1, MovedDrags
<1>3. CASE m.what = "down"
  <2> DEFINE v == Pressed(w, s, m)
  <2>1. v.focus = w.focus /\ v.id = w.id /\ (w.captured => v.captured)
    BY <1>1 DEF Pressed, Seat
  <2>2. Handled(w, u, m) = v
    BY <1>3 DEF Handled
  <2> HIDE DEF v
  <2> QED
    BY <1>3, <2>1, <2>2 DEF Grabs, DragsOn, Out
<1>4. CASE m.what = "up"
  <2> DEFINE v == Released(w, s, m)
  <2>1. Handled(w, u, m) = v
    BY <1>4 DEF Handled
  <2>2. CASE w.focus # s
    <3>1. v = w
        BY <2>2 DEF Released
    <3> QED
        BY <1>4, <2>1, <2>2, <3>1 DEF DragsOn, Out
  <2>3. CASE w.focus = s
    <3> DEFINE x == [w EXCEPT !.pressed = IF w.id \in {"none", "client"} THEN @ \ GoneUp(w, m) ELSE @]
               g == Ungrabbed(x, m)
               y == IF g.captured THEN g
                    ELSE IF g.inside THEN SetPointerFocus(g, s, "client", m.buttons)
                    ELSE DropPointerFocus(g, s)
    <3>1. Sound(x) /\ x.focus = s /\ x.id = w.id /\ x.captured = w.captured
        BY <1>1, <2>3 DEF Sound, Paired, Seat
    <3> HIDE DEF x
    <3>2. /\ Paired(g) /\ g.focus = s /\ g.id = w.id
          /\ w.id = "drag" => g.captured = w.captured
          /\ Sound(g)
        <4> DEFINE c == x.captured /\ ~(x.btns # {} /\ m.buttons = {} /\ x.id # "drag")
        <4>1. g = [x EXCEPT !.captured = c] /\ Paired(x)
            BY <3>1 DEF Ungrabbed, Sound, Paired, Seat
        <4>2. s # NoSurface /\ c \in BOOLEAN /\ (x.id = "drag" => c = x.captured)
          <5>1. x.captured \in BOOLEAN
            BY <3>1 DEF Sound, Paired, Seat
          <5> QED
            BY <1>1, <5>1, SurfaceAssumption
        <4> HIDE DEF c
        <4>3. Paired(g) /\ g.focus = s /\ g.id = x.id /\ g.captured = c
            BY <3>1, <4>1, <4>2, CapturedPaired
        <4> QED
            BY <3>1, <4>2, <4>3 DEF Sound
    <3> HIDE DEF g
    <3>3. (y.id = "drag" => y.captured /\ w.id = "drag" /\ y.focus = s)
          /\ (w.id = "drag" => y.id = "drag")
        <4>1. CASE g.captured
            BY <3>2, <4>1
        <4>2. CASE ~g.captured /\ g.inside
            <5>1. "client" \in Id \ {"none"}
                BY DEF Id
            <5>2. y.id = "client"
                BY <1>1, <3>2, <4>2, <5>1, SetFields
            <5> QED
                BY <3>1, <3>2, <4>2, <5>2 DEF Grabs
        <4>3. CASE ~g.captured /\ ~g.inside
            <5>1. y.id = "none"
                BY <1>1, <3>2, <4>3, DropFields
            <5> QED
                BY <3>1, <3>2, <4>3, <5>1 DEF Grabs
        <4> QED
            BY <4>1, <4>2, <4>3
    <3>4. Sound(y)
        BY <1>1, <3>2, SetSound, DropSound DEF Id
    <3>5. v = [y EXCEPT !.btns = m.buttons]
        BY <2>3 DEF Released, x, g
    <3> HIDE DEF y
    <3>6. v.id = y.id /\ v.focus = y.focus /\ v.captured = y.captured
        BY <3>4, <3>5 DEF Sound, Paired, Seat
    <3> HIDE DEF v
    <3> QED
        BY <1>4, <2>1, <2>3, <3>3, <3>6 DEF Grabs, DragsOn, Out
  <2> QED
    BY <2>2, <2>3
<1>5. CASE m.what = "drop"
  <2> DEFINE v == Dropped(w, s, m)
             c == [w EXCEPT !.captured = FALSE]
  <2>1. Handled(w, u, m) = v
    BY <1>5 DEF Handled
  <2>2. v.id # "drag"
    <3>1. CASE EndsDrag(w, m)
        <4>1. v = SetPointerFocus(c, s, "client", {}) /\ Paired(c)
            BY <1>1, <3>1, CapturedPaired DEF Dropped
        <4>2. "client" \in Id \ {"none"} /\ {} \in SUBSET Button
            BY DEF Id
        <4> HIDE DEF c, v
        <4> QED
            BY <1>1, <4>1, <4>2, SetFields
    <3>2. CASE ~EndsDrag(w, m)
        BY <3>2 DEF Dropped, EndsDrag
    <3> QED
        BY <3>1, <3>2
  <2> QED
    BY <1>5, <2>1, <2>2 DEF Grabs
<1> QED
    BY <1>1, <1>2, <1>3, <1>4, <1>5
-----------------------------------------------------------------------------
(* Until a drag that began with all messages handled is let go of away from *)
(* the views, nothing is dropped.  From then on, as long as its source was  *)
(* not told, a view is still to hear of the release; and the one the seat   *)
(* tracks it over, now or by a message to come, after it has heard that the *)
(* drag has left.                                                           *)
AwayInv == sound /\ fate = "away" /\ dragged # NoSource /\ fDataSource = dragged =>
    /\ \E v \in viewed : Comes(mail[Window[v]], v)
    /\ seat.id = "drag" =>
         \E v \in viewed : Target[v] = seat.focus /\ Taken(mail[Window[v]], 0, v)
    /\ \A w \in Surface : AllTaken(mail[w])

SoundInv == sound =>
    /\ ~orphaned /\ viewed # {}
    /\ dragging <=> fate = "none"
    /\ fate # "view" => ~fDropPending /\ \A w \in Surface : DropFree(mail[w])

(* The seat tracks the drag until its drop is handled, before which only    *)
(* the release can come.                                                    *)
Awaits ==
    /\ seat.id = "drag"
    /\ Drops(mail[Window[seat.focus]])
    /\ \A w \in Surface : w # Window[seat.focus] => DropFree(mail[w])

CleanInv ==
    /\ clean => sound /\ fate = "view"
    /\ clean /\ dragged # NoSource /\ fDataSource = dragged => fDropPending \/ Awaits
    /\ ~early

DragInv == Grabs(seat) /\ SoundInv /\ AwayInv /\ CleanInv

(* The queues of the windows still bring what they did. *)
Carries ==
    /\ \A v \in viewed :
         /\ v \in viewed'
         /\ Comes(mail[Window[v]], v) => Comes(mail[Window[v]], v)'
         /\ Taken(mail[Window[v]], 0, v) => Taken(mail[Window[v]], 0, v)'
    /\ \A w \in Surface :
         /\ DropFree(mail[w]) => DropFree(mail[w])'
         /\ ~dragging => (AllTaken(mail[w]) => AllTaken(mail[w])')
         /\ Drops(mail[w]) => Drops(mail[w])'

LEMMA CarriesKeeps ==
    ASSUME QInv, DragInv, Carries, UNCHANGED <<seat, dragging, orphaned, deviceVars, dragVars>>
    PROVE  DragInv'
<1> USE DEF deviceVars, dragVars
<1>1. Grabs(seat)'
    BY DEF DragInv, Grabs
<1>2. SoundInv'
    BY DEF DragInv, SoundInv, Carries
<1>3. AwayInv'
  <2> SUFFICES ASSUME sound, fate = "away", dragged # NoSource, fDataSource = dragged
               PROVE  AwayInv'
    BY DEF AwayInv
  <2>1. ~dragging
    BY DEF DragInv, SoundInv
  <2> QED
    BY <2>1 DEF DragInv, AwayInv, Carries
<1>4. CleanInv'
  <2>1. Awaits => Awaits'
    <3> SUFFICES ASSUME Awaits PROVE Awaits'
        OBVIOUS
    <3>1. Window[seat.focus] \in Surface
        BY TargetAssumption DEF Awaits, QInv, IInv, Sound, Paired, Seat
    <3> QED
        BY <3>1 DEF Awaits, Carries
  <2> QED
    BY <2>1 DEF DragInv, CleanInv
<1> QED
    BY <1>1, <1>2, <1>3, <1>4 DEF DragInv

LEMMA SameCarries ==
    ASSUME UNCHANGED mail, viewed \subseteq viewed' PROVE Carries
BY DEF Carries

LEMMA PostedCarries ==
    ASSUME QInv, UNCHANGED viewed, NEW message \in Message, message.what # "drop",
           message.drag => dragging, mail' = Posted(message)
    PROVE  Carries
<1>1. ASSUME NEW w \in Surface
      PROVE  /\ \A v : Comes(mail[w], v) => Comes(mail'[w], v)
             /\ \A v, n : Taken(mail[w], n, v) => Taken(mail'[w], n, v)
             /\ DropFree(mail[w]) => DropFree(mail'[w])
             /\ ~dragging => (AllTaken(mail[w]) => AllTaken(mail'[w]))
             /\ Drops(mail[w]) => Drops(mail'[w])
  <2> DEFINE q == mail[w]
             m == [message EXCEPT !.views = Views(w)]
  <2>1. q \in Seq(Message) /\ m \in Message /\ m.what # "drop" /\ (m.drag => dragging)
    BY DEF QInv, IInv, TypeOK, Views, Message
  <2>2. mail'[w] = q \/ mail'[w] = Append(q, m)
    BY DEF Posted
  <2> HIDE DEF q, m
  <2>3. CASE mail'[w] = Append(q, m)
    BY <2>1, <2>3, AppendBrings DEF q
  <2> QED
    BY <2>2, <2>3 DEF q
<1>2. \A v \in viewed : Window[v] \in Surface
    BY TargetAssumption DEF QInv, IInv, TypeOK
<1> QED
    BY <1>1, <1>2 DEF Carries

LEMMA DispatchCarries ==
    ASSUME QInv, NEW k \in Surface, DispatchNothing(k) PROVE Carries
<1> DEFINE q == mail[k]
<1>1. /\ q \in Seq(Message) /\ q # <<>> /\ mail \in [Surface -> Seq(Message)] /\ Head(q).views = {}
      /\ mail' = [mail EXCEPT ![k] = Tail(q)] /\ viewed' = viewed
    BY DEF DispatchNothing, QInv, IInv, TypeOK
<1>2. mail'[k] = Tail(q) /\ \A w \in Surface : w # k => mail'[w] = mail[w]
    BY <1>1
<1> HIDE DEF q
<1>3. \A u : Leftover(q, Tail(q), 1, u)
    BY <1>1, TailLeftover
<1>4. q[1].views = {}
  <2>1. q \in Seq(Message) /\ q # <<>>
    BY <1>1
  <2>2. Head(q) = q[1]
    BY <2>1
  <2> QED
    BY <1>1, <2>2
<1>5. /\ \A v : Comes(q, v) => Comes(Tail(q), v)
      /\ \A v : Taken(q, 0, v) => Taken(Tail(q), 0, v)
      /\ DropFree(q) => DropFree(Tail(q))
      /\ AllTaken(q) => AllTaken(Tail(q))
      /\ Drops(q) => Drops(Tail(q))
  <2> DEFINE r == Tail(q)
  <2>1. \A u : Leftover(q, r, 1, u)
    BY <1>3
  <2> HIDE DEF r
  <2>2. \A u :
          /\ \A v : Comes(q, v) => Comes(r, v) \/ (v = u /\ q[1].what = "up")
          /\ \A v : Taken(q, 0, v) => Taken(r, 0, v) \/ (v = u /\ Out(q[1], u))
          /\ DropFree(q) => DropFree(r)
          /\ AllTaken(q) => AllTaken(r)
          /\ Drops(q) => Drops(r) \/ q[1].what = "drop"
    <3> TAKE u
    <3>1. Leftover(q, r, 1, u)
        BY <2>1
    <3> QED
        BY <3>1, LeftoverBrings
  <2>3. \A v : Comes(q, v) => Comes(r, v)
    <3> TAKE v
    <3>1. PICK u : u # v
        BY SurfaceAssumption
    <3> QED
        BY <2>2, <3>1
  <2>4. \A v : ~Out(q[1], v)
    BY <1>4 DEF Out
  <2>5. Drops(q) => Drops(r)
    <3> SUFFICES ASSUME Drops(q), ~Drops(r), q[1].what = "drop" PROVE FALSE
        BY <2>2
    <3>1. PICK i \in 1 .. Len(q) : /\ q[i].views # {}
                                   /\ \A j \in 1 .. Len(q) : j < i => q[j].what = "up"
        BY DEF Drops
    <3>2. i # 1 /\ 1 \in 1 .. Len(q) /\ 1 < i
        BY <1>4, <3>1
    <3> QED
        BY <3>1, <3>2
  <2> QED
    BY <2>2, <2>3, <2>4, <2>5 DEF r
<1>6. \A v \in viewed : Window[v] \in Surface
    BY TargetAssumption DEF QInv, IInv, TypeOK
<1> QED
    BY <1>1, <1>2, <1>5, <1>6 DEF Carries, q

(* What the queues bring when u was handed m. *)
Received(u, m) ==
    /\ m \in Message /\ u \in viewed /\ u \in m.views
    /\ \A v \in viewed :
         /\ Comes(mail[Window[v]], v) => Comes(mail[Window[v]], v)' \/ (v = u /\ m.what = "up")
         /\ Taken(mail[Window[v]], 0, v) => Taken(mail[Window[v]], 0, v)' \/ (v = u /\ Out(m, u))
         /\ Taken(mail[Window[v]], 0, v) /\ m.what = "up" => Comes(mail[Window[v]], v)'
    /\ AllTaken(mail[Window[u]]) /\ m.what = "moved" /\ m.drag /\ m.to = u =>
         Taken(mail[Window[u]], 0, u)'
    /\ \A w \in Surface :
         /\ DropFree(mail[w]) => DropFree(mail[w])' /\ (w = Window[u] => m.what # "drop")
         /\ AllTaken(mail[w]) => AllTaken(mail[w])'
         /\ Drops(mail[w]) =>
              /\ Drops(mail[w])' \/ (w = Window[u] /\ m.what = "drop")
              /\ w = Window[u] => m.what \in {"up", "drop"}

LEMMA ReceivedBrings ==
    ASSUME QInv, NEW u \in Surface, MessageReceived(u)
    PROVE  Received(u, Head(mail[Window[u]]))
<1> DEFINE k == Window[u]
           q == mail[k]
           m == Head(q)
           r == Rest(q, u)
<1>1. /\ k \in Surface /\ q \in Seq(Message) /\ q # <<>> /\ u \in m.views
      /\ mail \in [Surface -> Seq(Message)] /\ mail' = [mail EXCEPT ![k] = r] /\ viewed' = viewed
    BY TargetAssumption DEF MessageReceived, QInv, IInv, TypeOK
<1>2. KeptQueue(q, Views(k), held, over, dragging)
    BY <1>1 DEF QInv, MailInv
<1>3. mail'[k] = r /\ \A w \in Surface : w # k => mail'[w] = mail[w]
    BY <1>1
<1>4. \A v \in viewed : Window[v] \in Surface
    BY TargetAssumption DEF QInv, IInv, TypeOK
<1> HIDE DEF q
<1>5. m = q[1] /\ 1 \in 1 .. Len(q) /\ m \in Message /\ Len(q) \in Nat
    BY <1>1
<1>6. u \in viewed
    BY <1>1, <1>2, <1>5 DEF KeptQueue, Views
<1>7. PICK d \in {0, 1} : Leftover(q, r, d, u)
    BY <1>1, RestLeftover
<1> HIDE DEF m, r
<1>8. /\ \A v : Comes(q, v) => Comes(r, v) \/ (v = u /\ m.what = "up")
      /\ \A v : Taken(q, 0, v) => Taken(r, 0, v) \/ (v = u /\ Out(m, u))
      /\ \A v, i : i \in 1 .. Len(q) /\ UpAt(q, i, v) /\ i > 1 => Comes(r, v)
      /\ \A v : Taken(q, 1, v) => Taken(r, 0, v)
      /\ DropFree(q) => DropFree(r)
      /\ AllTaken(q) => AllTaken(r)
      /\ Drops(q) => Drops(r) \/ m.what = "drop"
  <2>1. m = q[1]
    BY <1>5
  <2> QED
    BY <1>7, <2>1, LeftoverBrings
<1>9. ASSUME NEW v, Taken(q, 0, v), m.what = "up" PROVE Comes(r, v)
  <2>1. PICK j, i \in 1 .. Len(q) : 0 < j /\ j < i /\ UpAt(q, i, v)
    BY <1>9 DEF Taken
  <2>2. i > 1
    BY <2>1
  <2> QED
    BY <1>8, <2>1, <2>2
<1>10. ASSUME NEW v \in viewed, Window[v] # k, Taken(mail[Window[v]], 0, v)
       PROVE  Comes(mail'[Window[v]], v)
    BY <1>3, <1>4, <1>10 DEF Taken, Comes
<1>11. DropFree(q) => m.what # "drop"
    BY <1>5 DEF DropFree
<1>12. AllTaken(q) /\ m.what = "moved" /\ m.drag /\ m.to = u => Taken(r, 0, u)
    BY <1>1, <1>5, <1>8 DEF AllTaken
<1>13. Drops(q) => m.what \in {"up", "drop"}
  <2> SUFFICES ASSUME Drops(q) PROVE m.what \in {"up", "drop"}
    OBVIOUS
  <2>1. PICK i \in 1 .. Len(q) : /\ q[i].what = "drop"
                                 /\ \A j \in 1 .. Len(q) : j < i => q[j].what = "up"
    BY DEF Drops
  <2>2. i = 1 \/ 1 < i
    BY <2>1
  <2> QED
    BY <1>5, <2>1, <2>2
<1>14. ASSUME NEW v \in viewed
       PROVE  /\ Comes(mail[Window[v]], v) => Comes(mail'[Window[v]], v) \/ (v = u /\ m.what = "up")
              /\ Taken(mail[Window[v]], 0, v) =>
                   Taken(mail'[Window[v]], 0, v) \/ (v = u /\ Out(m, u))
              /\ Taken(mail[Window[v]], 0, v) /\ m.what = "up" => Comes(mail'[Window[v]], v)
  <2>1. CASE Window[v] = k
    <3>1. mail[Window[v]] = q /\ mail'[Window[v]] = r
        BY <1>3, <2>1 DEF q
    <3> QED
        BY <1>8, <1>9, <3>1
  <2>2. CASE Window[v] # k
    BY <1>3, <1>4, <1>10, <2>2
  <2> QED
    BY <2>1, <2>2
<1>15. ASSUME NEW w \in Surface
       PROVE  /\ DropFree(mail[w]) => DropFree(mail'[w]) /\ (w = k => m.what # "drop")
              /\ AllTaken(mail[w]) => AllTaken(mail'[w])
              /\ Drops(mail[w]) => /\ Drops(mail'[w]) \/ (w = k /\ m.what = "drop")
                                   /\ w = k => m.what \in {"up", "drop"}
  <2>1. CASE w = k
    <3>1. mail[w] = q /\ mail'[w] = r
        BY <1>3, <2>1 DEF q
    <3> QED
        BY <1>8, <1>11, <1>13, <2>1, <3>1
  <2>2. CASE w # k
    BY <1>3, <2>2
  <2> QED
    BY <2>1, <2>2
<1>16. AllTaken(mail[k]) /\ m.what = "moved" /\ m.drag /\ m.to = u => Taken(mail'[k], 0, u)
    BY <1>3, <1>12 DEF q
<1>17. m \in Message /\ u \in viewed /\ u \in m.views
    BY <1>1, <1>5, <1>6 DEF m
<1>18. Received(u, m)
    BY <1>14, <1>15, <1>16, <1>17 DEF Received
<1> QED
    BY <1>18 DEF m, q

(* The device, when a message was handed over. *)
LEMMA Hooked ==
    ASSUME NEW m, Hook(m)
    PROVE  /\ \/ fDataSource' = fDataSource
              \/ fDataSource' = NoSource /\ m.what = "up" /\ seat.id # "drag" /\ ~fDropPending
           /\ m.what = "up" /\ seat.id # "drag" /\ fDataSource # NoSource /\ ~fDropPending =>
                fDataSource' = NoSource
           /\ fDropPending => fDropPending'
           /\ fDropPending' => fDropPending \/ m.what = "drop"
           /\ m.what = "drop" /\ seat.id = "drag" => fDropPending'
<1>1. CASE m.what = "up"
  <2>1. device!MouseUp(seat.id = "drag")
    BY <1>1 DEF Hook
  <2>2. CASE fDataSource # NoSource /\ ~fDropPending /\ seat.id # "drag"
    BY <1>1, <2>1, <2>2 DEF device!MouseUp, device!FinishDrag, device!Ends
  <2>3. CASE ~(fDataSource # NoSource /\ ~fDropPending /\ seat.id # "drag")
    BY <1>1, <2>1, <2>3 DEF device!MouseUp, device!deviceVars
  <2> QED
    BY <2>2, <2>3
<1>2. CASE m.what = "drop" /\ EndsDrag(seat, m)
    BY <1>2 DEF Hook, device!Dropped
<1>3. CASE m.what # "up" /\ ~(m.what = "drop" /\ EndsDrag(seat, m))
    BY <1>3 DEF Hook, EndsDrag, deviceVars
<1> QED
    BY <1>1, <1>2, <1>3

LEMMA ReceivedDrag ==
    ASSUME QInv, DragInv, NEW u \in Surface, MessageForView(u) PROVE DragInv'
<1> DEFINE m == Head(mail[Window[u]])
<1>1. /\ MessageReceived(u) /\ Hook(m) /\ UNCHANGED <<dragged, fate, sound, clean>>
      /\ early' = (early \/ (/\ clean /\ m.what = "up"
                             /\ fDataSource = dragged /\ fDataSource' # dragged))
    BY DEF MessageForView
<1>2. /\ seat' = Handled(seat, u, m) /\ viewed' = viewed /\ dragging' = dragging
      /\ orphaned' => orphaned
    BY <1>1 DEF MessageReceived, mouseVars
<1>3. Received(u, m)
    BY <1>1, ReceivedBrings
<1> HIDE DEF m
<1>4. m \in Message /\ u \in viewed /\ u \in m.views
    BY <1>3 DEF Received
<1>5. /\ Grabs(seat')
      /\ seat'.id = "drag" => DragsOn(seat, u, m, seat')
      /\ seat.id = "drag" /\ (m.what = "up" \/ (m.what # "drop" /\ Target[u] # seat.focus)) =>
           seat'.id = "drag" /\ seat'.focus = seat.focus
  <2>1. Sound(seat) /\ Grabs(seat)
    BY DEF QInv, IInv, DragInv
  <2> QED
    BY <1>2, <1>4, <2>1, HandledDrags
<1>6. /\ \/ fDataSource' = fDataSource
         \/ fDataSource' = NoSource /\ m.what = "up" /\ seat.id # "drag" /\ ~fDropPending
      /\ m.what = "up" /\ seat.id # "drag" /\ fDataSource # NoSource /\ ~fDropPending =>
           fDataSource' = NoSource
      /\ fDropPending => fDropPending'
      /\ fDropPending' => fDropPending \/ m.what = "drop"
      /\ m.what = "drop" /\ seat.id = "drag" => fDropPending'
    BY <1>1, Hooked
<1>7. Window[u] \in Surface
    BY TargetAssumption
<1>8. SoundInv'
  <2> SUFFICES ASSUME sound PROVE SoundInv'
    BY <1>1 DEF SoundInv
  <2>1. SoundInv
    BY DEF DragInv
  <2>2. fate # "view" => m.what # "drop" /\ \A w \in Surface : DropFree(mail[w])'
    BY <1>3, <1>7, <2>1 DEF SoundInv, Received
  <2> QED
    BY <1>1, <1>2, <1>6, <2>1, <2>2 DEF SoundInv
<1>9. AwayInv'
  <2> SUFFICES ASSUME sound, fate = "away", dragged # NoSource, fDataSource' = dragged
               PROVE  /\ \E v \in viewed : Comes(mail[Window[v]], v)'
                      /\ seat'.id = "drag" =>
                           \E v \in viewed : Target[v] = seat'.focus /\ Taken(mail[Window[v]], 0, v)'
                      /\ \A w \in Surface : AllTaken(mail[w])'
    BY <1>1, <1>2 DEF AwayInv
  <2>1. fDataSource = dragged /\ ~fDropPending
    BY <1>6 DEF DragInv, SoundInv
  <2>2. /\ \E v \in viewed : Comes(mail[Window[v]], v)
        /\ seat.id = "drag" =>
             \E v \in viewed : Target[v] = seat.focus /\ Taken(mail[Window[v]], 0, v)
        /\ \A w \in Surface : AllTaken(mail[w])
    BY <2>1 DEF DragInv, AwayInv
  <2>3. \E v \in viewed : Comes(mail[Window[v]], v)'
    <3>1. PICK v \in viewed : Comes(mail[Window[v]], v)
        BY <2>2
    <3>2. Comes(mail[Window[v]], v)' \/ m.what = "up"
        BY <1>3, <3>1 DEF Received
    <3>3. ASSUME m.what = "up" PROVE \E t \in viewed : Comes(mail[Window[t]], t)'
        <4>1. seat.id = "drag"
            BY <1>6, <2>1, <3>3
        <4>2. PICK t \in viewed : Taken(mail[Window[t]], 0, t)
            BY <2>2, <4>1
        <4> QED
            BY <1>3, <3>3, <4>2 DEF Received
    <3> QED
        BY <3>2, <3>3
  <2>4. ASSUME seat'.id = "drag"
        PROVE  \E v \in viewed : Target[v] = seat'.focus /\ Taken(mail[Window[v]], 0, v)'
    <3>1. DragsOn(seat, u, m, seat')
        BY <1>5, <2>4
    <3>2. CASE /\ seat.id = "drag" /\ seat'.focus = seat.focus
               /\ Target[u] = seat.focus => ~Out(m, u)
        <4>1. PICK v \in viewed : Target[v] = seat.focus /\ Taken(mail[Window[v]], 0, v)
            BY <2>2, <3>2
        <4>2. ~(v = u /\ Out(m, u))
            BY <3>2, <4>1
        <4> QED
            BY <1>3, <3>2, <4>1, <4>2 DEF Received
    <3>3. CASE m.what = "moved" /\ m.drag /\ m.to = u /\ seat'.focus = Target[u]
        BY <1>3, <1>4, <1>7, <2>2, <3>3 DEF Received
    <3> QED
        BY <1>4, <3>1, <3>2, <3>3 DEF DragsOn
  <2>5. \A w \in Surface : AllTaken(mail[w])'
    BY <1>3, <2>2 DEF Received
  <2> QED
    BY <2>3, <2>4, <2>5
<1>10. ASSUME clean, dragged # NoSource, fDataSource = dragged
       PROVE  (fDropPending \/ seat.id = "drag") /\ (fDropPending' \/ Awaits')
  <2>1. CASE fDropPending
    BY <1>6, <2>1
  <2>2. CASE ~fDropPending
    <3>1. Awaits
        BY <1>10, <2>2 DEF DragInv, CleanInv
    <3> DEFINE k == Window[seat.focus]
    <3>2. seat.id = "drag" /\ Drops(mail[k]) /\ \A w \in Surface : w # k => DropFree(mail[w])
        BY <3>1 DEF Awaits
    <3>3. k \in Surface
        BY <3>2, TargetAssumption DEF QInv, IInv, Sound, Paired, Seat
    <3>4. CASE m.what = "drop"
        BY <1>6, <3>2, <3>4
    <3>5. CASE m.what # "drop"
        <4>1. m.what = "up" \/ Target[u] # seat.focus
            BY <1>3, <3>2, <3>3, <3>5, WindowAssumption DEF Received
        <4>2. seat'.id = "drag" /\ seat'.focus = seat.focus
            BY <1>5, <3>2, <3>5, <4>1
        <4>3. Drops(mail[k])' /\ \A w \in Surface : w # k => DropFree(mail[w])'
            BY <1>3, <3>2, <3>3, <3>5, <4>2 DEF Received
        <4> QED
            BY <3>2, <4>2, <4>3 DEF Awaits
    <3> QED
        BY <3>4, <3>5
  <2> QED
    BY <2>1, <2>2
<1>11. CleanInv'
  <2>1. ~early'
    <3> SUFFICES ASSUME clean, m.what = "up", fDataSource = dragged, fDataSource' # dragged
                 PROVE  FALSE
        BY <1>1 DEF DragInv, CleanInv
    <3> QED
        BY <1>6, <1>10
  <2>2. ASSUME clean, dragged # NoSource, fDataSource' = dragged PROVE fDropPending' \/ Awaits'
    BY <1>6, <1>10, <2>2
  <2> QED
    BY <1>1, <2>1, <2>2 DEF DragInv, CleanInv
<1> QED
    BY <1>5, <1>8, <1>9, <1>11 DEF DragInv, Grabs

LEMMA ReleaseDrag ==
    ASSUME QInv, DragInv, NEW b \in Button, ReleaseMaybeDrop(b) PROVE DragInv'
<1> DEFINE m == Plain("up", held \ {b})
           up == Posted(m)
<1>1. /\ b \in held /\ dragging' = (dragging /\ held # {b})
      /\ UNCHANGED <<seat, viewed, over, orphaned, deviceVars, dragged, sound, early>>
    BY DEF ReleaseMaybeDrop, Release
<1>2. m \in Message /\ m.what = "up" /\ m.drag = FALSE
    BY PlainTyped DEF QInv, IInv, TypeOK, Plain
<1>3. ASSUME NEW w \in Surface, Views(w) # {}
      PROVE  LET n == [m EXCEPT !.views = Views(w)]
             IN  up[w] = Append(mail[w], n) /\ n \in Message /\ n.what = "up" /\ n.views = Views(w)
                 /\ n.drag = FALSE
    BY <1>2, <1>3 DEF Posted, Message, Views, QInv, IInv, TypeOK
<1>4. dragging \in BOOLEAN /\ mail \in [Surface -> Seq(Message)] /\ viewed \subseteq Surface
      /\ (over # NoSurface => over \in viewed) /\ NoSurface \notin viewed
    BY SurfaceAssumption DEF QInv, IInv, TypeOK
<1>5. Grabs(seat)'
    BY <1>1 DEF DragInv, Grabs
<1>6. CASE dragging' = dragging
  <2>1. mail' = up
    BY <1>1, <1>4, <1>6 DEF ReleaseMaybeDrop, Release
  <2>2. UNCHANGED <<fate, clean>>
    BY <1>4, <1>6 DEF ReleaseMaybeDrop
  <2>3. Carries
    BY <1>1, <1>2, <2>1, PostedCarries
  <2> QED
    BY <1>1, <1>6, <2>2, <2>3, CarriesKeeps DEF dragVars
<1>7. CASE dragging' # dragging /\ over = NoSurface
  <2>1. mail' = up /\ dragging /\ ~dragging'
    BY <1>1, <1>4, <1>7 DEF ReleaseMaybeDrop, Release
  <2>2. fate' = "away" /\ clean' = FALSE
    BY <1>7, <2>1 DEF ReleaseMaybeDrop
  <2> SUFFICES ASSUME sound PROVE DragInv'
    BY <1>1, <1>5, <2>2 DEF DragInv, SoundInv, AwayInv, CleanInv
  <2>3. /\ ~orphaned /\ viewed # {} /\ ~fDropPending /\ \A w \in Surface : DropFree(mail[w])
    BY <2>1 DEF DragInv, SoundInv
  <2> HIDE DEF m, up
  <2>4. ASSUME NEW w \in Surface, Views(w) # {}
        PROVE  /\ DropFree(mail[w])'
               /\ \A v \in Views(w) : Comes(mail[w], v)'
               /\ \A v \in Views(w), i \in Nat : DragEnds(mail[w], i, v, over, dragging) =>
                    Taken(mail[w], i, v)'
    <3> DEFINE q == mail[w]
               n == [m EXCEPT !.views = Views(w)]
               r == Append(q, n)
    <3>1. q \in Seq(Message) /\ n \in Message /\ n.what = "up" /\ n.views = Views(w) /\ mail'[w] = r
        BY <1>3, <1>4, <2>1, <2>4
    <3> HIDE DEF q, n, r
    <3>2. /\ \A v : n.what = "up" /\ v \in n.views => Comes(r, v)
          /\ DropFree(q) /\ n.what # "drop" => DropFree(r)
          /\ \A v : \A j \in 1 .. Len(q) : \A i :
               i < j /\ Out(q[j], v) /\ n.what = "up" /\ v \in n.views => Taken(r, i, v)
        BY <3>1, AppendBrings DEF r
    <3>3. DropFree(q)
        BY <2>3 DEF q
    <3>4. ASSUME NEW v \in Views(w), NEW i \in Nat, DragEnds(q, i, v, over, dragging)
          PROVE  Taken(r, i, v)
        <4>1. v # over
            BY <1>4, <1>7 DEF Views
        <4>2. PICK j \in (i + 1) .. Len(q) : Out(q[j], v) \/ q[j].what = "drop"
            BY <3>4, <4>1 DEF DragEnds
        <4>3. j \in 1 .. Len(q) /\ i < j
            BY <4>2
        <4>4. Out(q[j], v)
            BY <3>3, <4>2, <4>3 DEF DropFree
        <4> QED
            BY <3>1, <3>2, <4>3, <4>4
    <3> QED
        BY <3>1, <3>2, <3>3, <3>4 DEF q
  <2>6. \A w \in Surface : Views(w) = {} => mail'[w] = mail[w]
    BY <2>1 DEF up, Posted
  <2>7. \A w \in Surface : DropFree(mail[w])'
    BY <2>3, <2>4, <2>6
  <2>8. \A v \in viewed : Window[v] \in Surface /\ v \in Views(Window[v])
    BY <1>4, TargetAssumption DEF Views
  <2>9. \E v \in viewed : Comes(mail[Window[v]], v)'
    BY <2>3, <2>4, <2>8
  <2>10. ASSUME seat.id = "drag"
         PROVE  \E v \in viewed : Target[v] = seat.focus /\ Taken(mail[Window[v]], 0, v)'
    <3>1. seat.focus \in Ends
        BY <2>3, <2>10 DEF QInv, IInv, Sound, Paired, HearInv, Hearing
    <3>2. PICK v \in viewed : /\ Target[v] = seat.focus
                              /\ DragEnds(mail[Window[v]], 0, v, over, dragging)
        BY <3>1 DEF Ends
    <3>3. 0 \in Nat
        OBVIOUS
    <3> QED
        BY <2>4, <2>8, <3>2, <3>3
  <2>11. ASSUME NEW w \in Surface PROVE AllTaken(mail[w])'
    <3>1. CASE Views(w) = {}
        <4>1. AllTaken(mail[w])
            BY <3>1 DEF QInv, MailInv, KeptQueue, AllTaken
        <4> QED
            BY <2>6, <3>1, <4>1
    <3>2. CASE Views(w) # {}
        <4> DEFINE q == mail[w]
                   n == [m EXCEPT !.views = Views(w)]
                   r == Append(q, n)
        <4>1. /\ q \in Seq(Message) /\ n \in Message /\ n.what = "up" /\ mail'[w] = r
              /\ KeptQueue(q, Views(w), held, over, dragging)
            BY <1>3, <1>4, <2>1, <3>2 DEF QInv, MailInv
        <4>2. \A v \in Views(w), i \in Nat : DragEnds(q, i, v, over, dragging) => Taken(r, i, v)
            BY <2>4, <3>2, <4>1
        <4> HIDE DEF q, n
        <4>3. /\ \A i \in 1 .. Len(q) : r[i] = q[i]
              /\ \A i \in 1 .. Len(r) : i \in 1 .. Len(q) \/ r[i].what = "up"
              /\ \A i \in 1 .. Len(q) : i \in Nat
            BY <4>1
        <4> HIDE DEF r
        <4>4. AllTaken(r)
            BY <4>1, <4>2, <4>3 DEF AllTaken, KeptQueue, Kept
        <4> QED
            BY <4>1, <4>4
    <3> QED
        BY <3>1, <3>2
  <2>12. AwayInv'
    BY <1>1, <2>9, <2>10, <2>11 DEF AwayInv
  <2>13. SoundInv'
    BY <1>1, <2>1, <2>2, <2>3, <2>7 DEF SoundInv, deviceVars
  <2>14. CleanInv'
    BY <1>1, <2>2 DEF CleanInv, DragInv
  <2> QED
    BY <1>5, <2>12, <2>13, <2>14 DEF DragInv
<1>8. CASE dragging' # dragging /\ over # NoSurface
  <2>1. dragging /\ ~dragging' /\ held = {b}
    BY <1>1, <1>4, <1>8
  <2>2. /\ fate' = "view" /\ \E drag \in BOOLEAN : mail' \in DropPosted(Window[over], up, drag)
        /\ clean' = (sound /\ Settled /\ seat.id = "drag" /\ seat.focus = over)
    BY <1>8, <2>1 DEF ReleaseMaybeDrop, Release
  <2>3. ASSUME clean' PROVE Awaits'
    <3>0. PICK drag \in BOOLEAN : mail' \in DropPosted(Window[over], up, drag)
        BY <2>2
    <3> DEFINE k == Window[over]
               drop == [Plain("drop", {}) EXCEPT !.drag = drag, !.views = {over}]
               n == [m EXCEPT !.views = Views(k)]
    <3>1. k \in Surface /\ Views(k) # {}
        BY <1>4, <1>8, TargetAssumption DEF Views
    <3>2. \A w \in Surface : mail[w] = <<>>
        BY <2>2, <2>3 DEF Settled
    <3>3. up[k] = <<n>> /\ n.what = "up" /\ n \in Message
      <4>1. up[k] = Append(mail[k], n) /\ n.what = "up" /\ n \in Message
        BY <1>3, <3>1
      <4> HIDE DEF n, up
      <4>2. Append(<<>>, n) = <<n>>
        BY <4>1
      <4> QED
        BY <3>1, <3>2, <4>1, <4>2
    <3>4. drop.what = "drop" /\ drop.views # {} /\ drop \in Message
        BY <1>4, <1>8 DEF Plain, Message
    <3>5. up \in [Surface -> Seq(Message)]
        BY <1>2, PostedTyped DEF QInv, IInv
    <3> HIDE DEF n, up, drop
    <3>6. \A x, y \in Message :
            /\ Len(<<x>>) = 1 /\ <<x>>[1] = x
            /\ Len(Append(<<x>>, y)) = 2 /\ Append(<<x>>, y)[1] = x /\ Append(<<x>>, y)[2] = y
            /\ Append(<<>>, x) = <<x>>
            /\ Len(<<x>> \o <<y>>) = 2 /\ (<<x>> \o <<y>>)[1] = x /\ (<<x>> \o <<y>>)[2] = y
        OBVIOUS
    <3>7. \/ mail' = [up EXCEPT ![k] = Append(<<n>>, drop)]
          \/ mail' = [up EXCEPT ![k] = <<drop>> \o <<n>>]
      <4>1. \/ mail' = [up EXCEPT ![k] = Append(up[k], drop)]
            \/ mail' = [up EXCEPT ![k] = Append(mail[k], drop) \o <<up[k][Len(up[k])]>>]
        BY <3>0 DEF DropPosted, drop
      <4>2. up[k][Len(up[k])] = n
        BY <3>3, <3>6
      <4>3. Append(mail[k], drop) = <<drop>>
        BY <3>1, <3>2, <3>4, <3>6
      <4> QED
        BY <3>3, <4>1, <4>2, <4>3
    <3>8. /\ mail'[k] \in {Append(<<n>>, drop), <<drop>> \o <<n>>}
          /\ \A w \in Surface : w # k => mail'[w] = up[w]
        BY <3>1, <3>5, <3>7
    <3>9. Drops(mail'[k])
      <4> DEFINE q == mail'[k]
      <4>1. Len(q) = 2 /\ (q[1] = drop \/ (q[2] = drop /\ q[1] = n))
        <5>1. CASE q = Append(<<n>>, drop)
            BY <3>3, <3>4, <3>6, <5>1
        <5>2. CASE q = <<drop>> \o <<n>>
            BY <3>3, <3>4, <3>6, <5>2
        <5> QED
            BY <3>8, <5>1, <5>2
      <4> HIDE DEF q
      <4>2. /\ 1 \in 1 .. Len(q) /\ 2 \in 1 .. Len(q)
            /\ \A i \in 1 .. Len(q) : ~(i < 1) /\ (i < 2 => i = 1)
        BY <4>1
      <4>3. Drops(q)
        BY <3>3, <3>4, <4>1, <4>2 DEF Drops
      <4> QED
        BY <4>3 DEF q
    <3>10. ASSUME NEW w \in Surface, w # k PROVE DropFree(mail'[w])
      <4>1. CASE Views(w) = {}
        <5>1. mail'[w] = <<>>
            BY <3>2, <3>8, <3>10, <4>1 DEF up, Posted
        <5> QED
            BY <5>1 DEF DropFree
      <4>2. CASE Views(w) # {}
        <5> DEFINE x == [m EXCEPT !.views = Views(w)]
        <5>1. up[w] = Append(mail[w], x) /\ x.what = "up" /\ x \in Message
            BY <1>3, <4>2
        <5>2. Append(<<>>, x) = <<x>>
            BY <5>1
        <5>3. mail'[w] = <<x>>
            BY <3>2, <3>8, <3>10, <5>1, <5>2
        <5> HIDE DEF x
        <5>4. \A i \in 1 .. Len(<<x>>) : <<x>>[i].what = "up"
            BY <5>1
        <5> QED
            BY <5>3, <5>4 DEF DropFree
      <4> QED
        BY <4>1, <4>2
    <3>11. seat'.id = "drag" /\ Window[seat'.focus] = k
        BY <1>1, <2>2, <2>3
    <3> QED
        BY <3>9, <3>10, <3>11 DEF Awaits
  <2>4. SoundInv' /\ AwayInv' /\ CleanInv'
    <3>1. SoundInv'
        BY <1>1, <2>1, <2>2 DEF SoundInv, DragInv
    <3>2. AwayInv'
        BY <2>2 DEF AwayInv
    <3>3. CleanInv'
        BY <1>1, <2>2, <2>3 DEF CleanInv, DragInv
    <3> QED
        BY <3>1, <3>2, <3>3
  <2> QED
    BY <1>5, <2>4 DEF DragInv
<1> QED
    BY <1>6, <1>7, <1>8

LEMMA StartDragDrag ==
    ASSUME QInv, DragInv, NEW s \in Source \cup {NoSource}, HandleStartDrag(s) PROVE DragInv'
<1>1. /\ UNCHANGED <<seat, viewed, mail, orphaned, early>> /\ viewed # {}
      /\ dragging' = TRUE /\ fDropPending' = FALSE /\ fate' = "none" /\ clean' = FALSE
      /\ sound' = (Settled /\ ~orphaned)
    BY DEF HandleStartDrag, StartDrag, device!HandleStartDrag
<1>2. DropFree(<<>>)
    BY DEF DropFree
<1>3. SoundInv' /\ AwayInv' /\ CleanInv'
  <2>1. SoundInv'
    BY <1>1, <1>2 DEF SoundInv, Settled
  <2> QED
    BY <1>1, <2>1 DEF AwayInv, CleanInv, DragInv
<1> QED
    BY <1>1, <1>2, <1>3 DEF DragInv, Grabs

(* What begins a drag that is not the client's, or loses a view. *)
LEMMA UnsoundDrag ==
    ASSUME QInv, DragInv, ForeignDrag \/ \E s \in Surface : ViewLost(s) PROVE DragInv'
<1>1. sound' = FALSE /\ clean' = FALSE /\ early' = early
    BY DEF ForeignDrag, ViewLost
<1>2. SoundInv' /\ AwayInv' /\ CleanInv'
    BY <1>1 DEF SoundInv, AwayInv, CleanInv, DragInv
<1>3. Grabs(seat')
  <2>1. CASE ForeignDrag
    BY <2>1 DEF ForeignDrag, StartDrag, DragInv
  <2>2. CASE \E s \in Surface : ViewLost(s)
    <3>1. PICK s \in Surface : seat' = seat \/ seat' = DropPointerFocus(seat, s)
        BY <2>2 DEF ViewLost, DestroyRole, DestroySurface
    <3>2. CASE seat.focus = s /\ seat' = DropPointerFocus(seat, s)
        BY <3>2, DropFields DEF QInv, IInv, Grabs
    <3>3. CASE seat' = seat
        BY <3>3 DEF DragInv
    <3>4. CASE seat.focus # s /\ seat' = DropPointerFocus(seat, s)
        BY <3>4 DEF DropPointerFocus, DragInv
    <3> QED
        BY <3>1, <3>2, <3>3, <3>4
  <2> QED
    BY <2>1, <2>2
<1> QED
    BY <1>2, <1>3 DEF DragInv, Grabs

LEMMA ElsewhereDrag == ASSUME QInv, DragInv, Elsewhere PROVE DragInv'
<1>1. UNCHANGED <<vars, fate, sound, clean, early>> /\ dragged' \in {dragged, NoSource}
    BY DEF Elsewhere
<1>2. /\ fDataSource' \in {fDataSource, NoSource} /\ (fDropPending' => fDropPending)
      /\ fDataSource' # NoSource => fDropPending' = fDropPending
    BY DEF Elsewhere, device!HandleCreateDataSource, device!DestroySource,
           device!HandleCopyTargetReply, device!FinishDrag, device!HandleFinish, device!Ends,
           device!clipVars
<1>3. UNCHANGED <<seat, viewed, mail, dragging, orphaned>>
    BY <1>1 DEF vars, mouseVars, history
<1>4. dragged' # NoSource /\ fDataSource' = dragged' =>
        dragged' = dragged /\ fDataSource' = fDataSource /\ fDropPending' = fDropPending
    BY <1>1, <1>2
<1>5. SoundInv'
    BY <1>1, <1>2, <1>3 DEF SoundInv, DragInv
<1>6. AwayInv'
    BY <1>1, <1>3, <1>4 DEF AwayInv, DragInv
<1>7. CleanInv'
  <2>1. Awaits' <=> Awaits
    BY <1>3 DEF Awaits
  <2> QED
    BY <1>1, <1>4, <2>1 DEF CleanInv, DragInv
<1> QED
    BY <1>3, <1>5, <1>6, <1>7 DEF DragInv, Grabs

LEMMA DragInvariance == SpecDrag => [](QInv /\ DragInv)
<1>1. InitDrag => DragInv
    BY DEF InitDrag, Init, DragInv, Grabs, SoundInv, AwayInv, CleanInv
<1>2. QInv /\ DragInv /\ [NextDrag]_<<vars, deviceVars, dragVars>> => DragInv'
  <2> SUFFICES ASSUME QInv, DragInv, [NextDrag]_<<vars, deviceVars, dragVars>> PROVE DragInv'
    OBVIOUS
  <2> DEFINE Alone == UNCHANGED <<deviceVars, dragVars>>
  <2>1. CASE \E s \in Surface : MessageForView(s)
    BY <2>1, ReceivedDrag
  <2>2. CASE ForeignDrag \/ \E s \in Surface : ViewLost(s)
    BY <2>2, UnsoundDrag
  <2>3. CASE \E s \in Surface : DispatchNothing(s) /\ Alone
    <3>1. PICK s \in Surface : DispatchNothing(s) /\ Alone
        BY <2>3
    <3>2. Carries /\ UNCHANGED <<seat, dragging, orphaned>>
        BY <3>1, DispatchCarries DEF DispatchNothing, mouseVars, history
    <3> QED
        BY <3>1, <3>2, CarriesKeeps
  <2>4. CASE \E s \in Surface : CreateView(s) /\ Alone
    <3>1. UNCHANGED <<seat, mail, dragging, orphaned>> /\ viewed \subseteq viewed' /\ Alone
        BY <2>4 DEF CreateView, mouseVars, history
    <3> QED
        BY <3>1, SameCarries, CarriesKeeps DEF SoundInv
  <2>5. CASE \E to \in viewed \cup {NoSurface} : Move(to) /\ Alone
    <3>1. PICK to \in viewed \cup {NoSurface} : Move(to) /\ Alone
        BY <2>5
    <3> DEFINE m == [what |-> "moved", from |-> over, to |-> to, buttons |-> held,
                     drag |-> dragging, views |-> {}]
    <3>2. /\ mail' = Posted(m) /\ m \in Message /\ m.what # "drop" /\ (m.drag => dragging)
          /\ UNCHANGED <<seat, viewed, dragging, orphaned>>
        BY <3>1 DEF Move, Message, QInv, IInv, TypeOK
    <3> HIDE DEF m
    <3> QED
        BY <3>1, <3>2, PostedCarries, CarriesKeeps
  <2>6. CASE \E b \in Button : Press(b) /\ Alone
    <3>1. PICK b \in Button : Press(b) /\ Alone
        BY <2>6
    <3> DEFINE m == Plain("down", held \cup {b})
    <3>2. /\ mail' = Posted(m) /\ m \in Message /\ m.what # "drop" /\ (m.drag => dragging)
          /\ UNCHANGED <<seat, viewed, dragging, orphaned>>
        BY <3>1, PlainTyped DEF Press, Plain, QInv, IInv, TypeOK
    <3> HIDE DEF m
    <3> QED
        BY <3>1, <3>2, PostedCarries, CarriesKeeps
  <2>7. CASE \E b \in Button : ReleaseMaybeDrop(b)
    BY <2>7, ReleaseDrag
  <2>8. CASE \E s \in Source \cup {NoSource} : HandleStartDrag(s)
    BY <2>8, StartDragDrag
  <2>9. CASE Elsewhere
    BY <2>9, ElsewhereDrag
  <2>10. CASE UNCHANGED <<vars, deviceVars, dragVars>>
    <3>1. UNCHANGED <<seat, mail, dragging, orphaned>> /\ viewed \subseteq viewed' /\ Alone
        BY <2>10 DEF vars, mouseVars, history
    <3> QED
        BY <3>1, SameCarries, CarriesKeeps
  <2> QED
    BY <2>1, <2>2, <2>3, <2>4, <2>5, <2>6, <2>7, <2>8, <2>9, <2>10 DEF NextDrag
<1> QED
    BY <1>1, <1>2, DragKeepsSeat, QueueInvariance, PTL DEF SpecDrag

(* The source of a drag that is let go of away from our views is told, once *)
(* all messages are handled, whichever window hears of the release first.   *)
THEOREM LostDragsEnd == SpecDrag => []LostDragEnds
<1>1. QInv /\ DragInv => LostDragEnds
  <2> SUFFICES ASSUME QInv, DragInv, Settled, sound, fate = "away", dragged # NoSource,
                      fDataSource = dragged
               PROVE  FALSE
    BY DEF LostDragEnds
  <2>1. PICK v \in viewed : Comes(mail[Window[v]], v)
    BY DEF DragInv, AwayInv
  <2>2. Window[v] \in Surface
    BY <2>1, TargetAssumption DEF QInv, IInv, TypeOK
  <2> QED
    BY <2>1, <2>2 DEF Settled, Comes
<1> QED
    BY <1>1, DragInvariance, PTL

(* No release ends a drag that was dropped on the view it is tracked over,  *)
(* in whatever order drop and release come.                                 *)
THEOREM CleanDropsWait == SpecDrag => []CleanDropWaits
<1>1. DragInv => CleanDropWaits
    BY DEF DragInv, CleanInv, CleanDropWaits
<1> QED
    BY <1>1, DragInvariance, PTL
=============================================================================
