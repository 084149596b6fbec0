---------------------------- MODULE DataDevice ----------------------------
(***************************************************************************)
(* The data sources of a client and its data device: who is told that a    *)
(* drag or a selection is over, and which selection the client is offered  *)
(* (HaikuDataDeviceManager.cpp).                                           *)
(*                                                                         *)
(* The device has one fDataSource for the drag and the selection.  Requests *)
(* and the clipboard watcher run in the server's looper, the hooks of the  *)
(* seat (MouseUp, Dropped) in the threads of the windows under the server  *)
(* lock; each is one step.  The device is there from the start and is not  *)
(* released.  The data itself is in DataTransfer; events that neither end  *)
(* the use of a source nor offer a selection are left out.                 *)
(***************************************************************************)
EXTENDS Integers

CONSTANTS
    Source, NoSource,
    Other,      \* whoever else writes to the clipboard
    MaxUses,    \* bound on the uses of a source that are not over
    MaxChanges  \* bound on the clipboard notifications under way

ASSUME SourceAssumption == NoSource \notin Source /\ Other \notin Source \cup {NoSource}
ASSUME BoundAssumption == MaxUses \in Nat /\ MaxChanges \in Nat

VARIABLES
    sources,     \* the HaikuDataSource objects
    linked,      \* those whose fDataDevice is set
    fDataSource, fDropPending, \* of the device
    owed,        \* uses of each source, less the ends its client was told of
    clipboard,   \* who wrote to the clipboard last
    changes,     \* B_CLIPBOARD_CHANGED messages under way to the watcher
    selection,   \* whose data the client was offered last
    missed       \* the watcher could not read the clipboard the last time

clipVars == <<clipboard, changes, selection, missed>>
deviceVars == <<sources, linked, fDataSource, fDropPending, owed, clipVars>>

Init ==
    /\ sources = {} /\ linked = {}
    /\ fDataSource = NoSource /\ fDropPending = FALSE
    /\ owed = [s \in Source |-> 0]
    /\ clipboard = Other /\ changes = 0 /\ selection = NoSource /\ missed = FALSE
-----------------------------------------------------------------------------
(* Data sources *)

HandleCreateDataSource(s) ==
    /\ s \notin sources
    /\ sources' = sources \cup {s}
    /\ UNCHANGED <<linked, fDataSource, fDropPending, owed, clipVars>>

(* Faulty: the device is not told. *)
DestroySourceUntold(s) ==
    /\ s \in sources
    /\ sources' = sources \ {s} /\ linked' = linked \ {s}
    /\ owed' = [owed EXCEPT ![s] = 0]
    /\ UNCHANGED <<fDataSource, fDropPending, clipVars>>

(* The same name stands for the next source from here on. *)
DestroySource(s) ==
    /\ s \in sources
    /\ sources' = sources \ {s} /\ linked' = linked \ {s}
    /\ fDataSource' = IF s \in linked /\ fDataSource = s THEN NoSource ELSE fDataSource
    /\ owed' = [owed EXCEPT ![s] = 0]
    /\ UNCHANGED <<fDropPending, clipVars>>
-----------------------------------------------------------------------------
(* The use of a source begins *)

Uses(s) ==
    /\ s \in sources /\ owed[s] < MaxUses
    /\ fDataSource' = s
    /\ linked' = linked \cup {s}
    /\ owed' = [owed EXCEPT ![s] = @ + 1]

(* Faulty: the drop of the drag before is still pending. *)
HandleStartDragPending(s) ==
    /\ Uses(s) \/ (s = NoSource /\ UNCHANGED <<linked, fDataSource, owed>>)
    /\ UNCHANGED <<sources, fDropPending, clipVars>>

(* A drag of the client's own, without a source, leaves fDataSource alone.  *)
HandleStartDrag(s) ==
    /\ fDropPending' = FALSE
    /\ \/ Uses(s)
       \/ s = NoSource /\ UNCHANGED <<linked, fDataSource, owed>>
    /\ UNCHANGED <<sources, clipVars>>

(* The origin has no view. *)
HandleStartDragNowhere ==
    /\ fDropPending' = FALSE
    /\ UNCHANGED <<sources, linked, fDataSource, owed, clipVars>>

(* Whoever watches the clipboard is told that it was written. *)
Committed(who) == changes < MaxChanges /\ clipboard' = who /\ changes' = changes + 1

(* A NULL source, or a clipboard that cannot be locked, changes nothing.    *)
HandleSetSelection(s) ==
    /\ Uses(s)
    /\ Committed(s)
    /\ UNCHANGED <<sources, fDropPending, selection, missed>>
-----------------------------------------------------------------------------
(* ... and ends *)

(* The source is told that it is done with, whether by cancelled or by      *)
(* dnd_finished, and forgotten.                                             *)
Ends ==
    /\ fDataSource' = NoSource
    /\ owed' = IF fDataSource = NoSource THEN owed ELSE [owed EXCEPT ![fDataSource] = @ - 1]

(* Faulty: the source is told, and may be told again. *)
FinishDragKept ==
    /\ fDropPending' = FALSE
    /\ owed' = IF fDataSource = NoSource THEN owed ELSE [owed EXCEPT ![fDataSource] = @ - 1]
    /\ UNCHANGED <<sources, linked, fDataSource, clipVars>>

FinishDrag ==
    /\ fDropPending' = FALSE
    /\ Ends
    /\ linked' = linked \ {fDataSource}
    /\ UNCHANGED <<sources, clipVars>>

(* Faulty: the drop that was handled is forgotten. *)
MouseUpAnyway(tracking) ==
    IF fDataSource # NoSource /\ ~tracking THEN FinishDrag ELSE UNCHANGED deviceVars

(* A button is released; the seat tracks a drag over a view, or not. *)
MouseUp(tracking) ==
    IF fDataSource # NoSource /\ ~fDropPending /\ ~tracking THEN FinishDrag
    ELSE UNCHANGED deviceVars

Dropped ==
    /\ fDropPending' = TRUE
    /\ UNCHANGED <<sources, linked, fDataSource, owed, clipVars>>

(* The file manager saved a bookmark that was dragged to it. *)
HandleCopyTargetReply == FinishDrag

(* The client is done with the data that was dropped on it. *)
HandleFinish ==
    /\ fDataSource # NoSource
    /\ Ends
    /\ linked' = linked \ {fDataSource}
    /\ UNCHANGED <<sources, fDropPending, clipVars>>
-----------------------------------------------------------------------------
(* The clipboard *)

(* Faulty: the client's own selection is not offered to it. *)
ReadClipboardOwn ==
    /\ Ends
    /\ selection' = IF fDataSource = NoSource THEN clipboard ELSE selection
    /\ missed' = FALSE

(* The clipboard is read as it is now.  The source that wrote it, too, is   *)
(* told that it was replaced.                                               *)
ReadClipboard ==
    /\ Ends
    /\ selection' = clipboard
    /\ missed' = FALSE

(* The watcher returns when it cannot lock the clipboard. *)
ClipboardChanged ==
    /\ changes > 0 /\ changes' = changes - 1
    /\ \/ ReadClipboard
       \/ missed' = TRUE /\ UNCHANGED <<fDataSource, owed, selection>>
    /\ UNCHANGED <<sources, linked, fDropPending, clipboard>>

(* Another application writes to the clipboard. *)
Copy ==
    /\ Committed(Other)
    /\ UNCHANGED <<sources, linked, fDataSource, fDropPending, owed, selection, missed>>

Next ==
    \/ \E s \in Source :
         \/ HandleCreateDataSource(s) \/ DestroySource(s)
         \/ HandleSetSelection(s)
    \/ \E s \in Source \cup {NoSource} : HandleStartDrag(s)
    \/ HandleStartDragNowhere
    \/ \E tracking \in BOOLEAN : MouseUp(tracking)
    \/ Dropped \/ HandleCopyTargetReply \/ HandleFinish
    \/ ClipboardChanged \/ Copy

Spec == Init /\ [][Next]_deviceVars
-----------------------------------------------------------------------------
(* Properties *)

TypeOK ==
    /\ sources \subseteq Source /\ linked \subseteq sources
    /\ fDataSource \in Source \cup {NoSource} /\ fDropPending \in BOOLEAN
    /\ owed \in [Source -> Int]
    /\ clipboard \in Source \cup {Other}
    /\ changes \in Nat
    /\ selection \in Source \cup {Other, NoSource} /\ missed \in BOOLEAN

(* The device's source is one that exists and knows the device, and will    *)
(* therefore take itself away when the client destroys it, whichever of     *)
(* drag, selection and clipboard the source was used for or lost to.        *)
SourceKnown == fDataSource # NoSource => fDataSource \in linked

(* Drops, releases, the target's finish, the clipboard and the file manager *)
(* may each end the use of a source: it is told no more than once for each. *)
EndsOnce == \A s \in Source : owed[s] >= 0

(* When no notification is under way, and the clipboard could be read at the *)
(* last one, the client has been offered what is in the clipboard, or       *)
(* nothing, if it was written before the client came.  The watcher does not *)
(* try again: a clipboard it could not read is offered at the next change.  *)
SelectionCurrent ==
    changes = 0 /\ ~missed =>
        selection = clipboard \/ (selection = NoSource /\ clipboard = Other)
=============================================================================
