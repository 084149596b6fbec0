---------------------------- MODULE DragAndDrop ----------------------------
(***************************************************************************)
(* The data device together with the seat: which release of a button ends  *)
(* a drag (HaikuSeatGlobal::MessageReceived in HaikuSeat.cpp and           *)
(* HaikuDataDevice in HaikuDataDeviceManager.cpp).                         *)
(*                                                                         *)
(* Every view hears of a release, in the queue of its window's thread, and *)
(* each of them may end the drag, unless the seat tracks it over a view or *)
(* a drop was handled.  The drop and the release are two messages.         *)
(***************************************************************************)
EXTENDS PointerFocus

CONSTANTS Source, NoSource, Other, MaxUses, MaxChanges

VARIABLES
    sources, linked, fDataSource, fDropPending, owed,
    clipboard, changes, selection, missed,
    dragged,  \* the source of the client's last drag, while it exists
    fate,     \* how that drag ended: "none" (not yet), "view", "away"
    sound,    \* it began with all messages handled, and no view was lost since
    clean,    \* it was dropped on the view the seat tracked it over, all
              \* messages handled
    early     \* a release ended it although

device == INSTANCE DataDevice

deviceVars == <<sources, linked, fDataSource, fDropPending, owed, clipboard, changes, selection, missed>>
dragVars == <<dragged, fate, sound, clean, early>>

InitDrag ==
    /\ Init /\ device!Init
    /\ dragged = NoSource /\ fate = "none"
    /\ sound = FALSE /\ clean = FALSE /\ early = FALSE
-----------------------------------------------------------------------------
(* The hooks of the seat run before the message is handled. *)
Hook(m) ==
    CASE m.what = "up" -> device!MouseUp(seat.id = "drag")
      [] m.what = "drop" /\ EndsDrag(seat, m) -> device!Dropped
      [] OTHER -> UNCHANGED deviceVars

MessageForView(view) ==
    /\ MessageReceived(view)
    /\ LET m == Head(mail[Window[view]])
       IN  /\ Hook(m)
           /\ early' = (early \/ (/\ clean /\ m.what = "up"
                                  /\ fDataSource = dragged /\ fDataSource' # dragged))
    /\ UNCHANGED <<dragged, fate, sound, clean>>

(* start_drag from a surface with a view. *)
HandleStartDrag(s) ==
    /\ viewed # {} /\ StartDrag
    /\ device!HandleStartDrag(s)
    /\ dragged' = s /\ fate' = "none"
    /\ sound' = (Settled /\ ~orphaned) /\ clean' = FALSE
    /\ UNCHANGED early

(* Another application drags something. *)
ForeignDrag ==
    /\ StartDrag
    /\ dragged' = NoSource /\ fate' = "none" /\ sound' = FALSE /\ clean' = FALSE
    /\ UNCHANGED <<deviceVars, early>>

ReleaseMaybeDrop(b) ==
    /\ Release(b)
    /\ IF dragging /\ ~dragging'
       THEN /\ fate' = IF over = NoSurface THEN "away" ELSE "view"
            /\ clean' = (/\ sound /\ Settled /\ over # NoSurface
                         /\ seat.id = "drag" /\ seat.focus = over)
       ELSE UNCHANGED <<fate, clean>>
    /\ UNCHANGED <<deviceVars, dragged, sound, early>>

(* A view or its window is gone. *)
ViewLost(s) ==
    /\ DestroyRole(s) \/ DestroySurface(s)
    /\ sound' = FALSE /\ clean' = FALSE
    /\ UNCHANGED <<deviceVars, dragged, fate, early>>

(* What else the client and the file manager do to the device and its       *)
(* source.  Left to DataDevice are the clipboard and the request to drag    *)
(* from a surface without a view.                                           *)
Elsewhere ==
    /\ \/ \E s \in Source : device!HandleCreateDataSource(s) \/ device!DestroySource(s)
       \/ device!HandleCopyTargetReply \/ device!HandleFinish
    /\ dragged' = IF dragged \in sources' THEN dragged ELSE NoSource
    /\ UNCHANGED <<vars, fate, sound, clean, early>>

NextDrag ==
    \/ \E s \in Surface :
         \/ MessageForView(s) \/ ViewLost(s)
         \/ (DispatchNothing(s) \/ CreateView(s)) /\ UNCHANGED <<deviceVars, dragVars>>
    \/ \E to \in viewed \cup {NoSurface} : Move(to) /\ UNCHANGED <<deviceVars, dragVars>>
    \/ \E b \in Button :
         ReleaseMaybeDrop(b) \/ (Press(b) /\ UNCHANGED <<deviceVars, dragVars>>)
    \/ \E s \in Source \cup {NoSource} : HandleStartDrag(s)
    \/ ForeignDrag \/ Elsewhere

SpecDrag == InitDrag /\ [][NextDrag]_<<vars, deviceVars, dragVars>>
-----------------------------------------------------------------------------
(* Properties *)

(* A drag that was let go of away from our views ends: when all its messages *)
(* are handled its source was told, whichever window hears of the release   *)
(* before it has heard that the drag has left it.                           *)
LostDragEnds ==
    Settled /\ sound /\ fate = "away" => dragged = NoSource \/ fDataSource # dragged

(* A drag that is dropped on the view it is tracked over is not ended by    *)
(* the release, in whatever order drop and release come and whichever       *)
(* window hears of them first: the source waits for the target to finish.   *)
CleanDropWaits == ~early
=============================================================================
