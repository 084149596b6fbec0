--------------------------- MODULE SurfaceState -----------------------------
(***************************************************************************)
(* The double-buffered state of the surfaces in one window: what clients   *)
(* request, what a commit makes of it, when the window is drawn again, the *)
(* rendered copy of a surface (the native cache) and the buffers' lives    *)
(* (HaikuCompositor.cpp, HaikuShm.h).                                      *)
(*                                                                         *)
(* Requests and Draw hold the server lock (WaylandEnv), so each is one     *)
(* step.  The tree is fixed: Child are subsurfaces of Root.  Coordinates   *)
(* and regions are values of a small set.  Of the frame callbacks there is  *)
(* only the field bit that tells them apart in a commit.                   *)
(***************************************************************************)
EXTENDS Naturals, FiniteSets

CONSTANTS
    Root,       \* the surface with a window
    Child,      \* its subsurfaces
    Buffer,     \* wl_buffers, by address
    None,       \* no buffer, no cache
    Value,      \* values of the other members of a surface's state
    Default,    \* the value they start with
    Painted,    \* surfaces the client of an instance gives content
    Asked,      \* members and values it asks for, on these surfaces
    AsksFrames, \* it asks for frame callbacks
    NativeCache,    \* HAIWAY_NATIVE_CACHE is set
    AttachesEarly,  \* the window attaches the subsurfaces it finds: popups do
    MaxWrite,   \* bound on the client's writes into a buffer
    MaxSerial   \* bound on fContentSerial

Surface == {Root} \cup Child

Member == {"buffer", "offset", "transform", "scale", "opaqueRgn", "inputRgn",
           "viewportSrc", "viewportDst"}
Bit == {"buffer", "offset", "transform", "scale", "opaqueRgn", "inputRgn",
        "frameCallbacks", "viewport"}

BitOf(m) == IF m \in {"viewportSrc", "viewportDst"} THEN "viewport" ELSE m

(* A commit of these alone does not draw the surface again. *)
NonVisual == {"frameCallbacks", "inputRgn"}

StateOf == [buffer : Buffer \cup {None}, offset : Value, transform : Value, scale : Value,
            opaqueRgn : Value, inputRgn : Value, viewportSrc : Value, viewportDst : Value]

ASSUME SurfaceAssumption == Root \notin Child /\ IsFiniteSet(Child)
ASSUME BufferAssumption == None \notin Buffer
ASSUME ValueAssumption == Default \in Value
ASSUME AskedAssumption ==
    Painted \subseteq Surface /\ Asked \subseteq (Member \ {"buffer"}) \X Value
ASSUME FlagAssumption ==
    NativeCache \in BOOLEAN /\ AttachesEarly \in BOOLEAN /\ AsksFrames \in BOOLEAN
ASSUME BoundAssumption == MaxWrite \in Nat /\ MaxSerial \in Nat

VARIABLES
    fState, fPendingState,  \* HaikuSurface's, member by member
    fPendingFields,         \* bits set since the last commit
    fContentChanged, fContentSerial,
    fNativeCache,           \* what was rendered, or None
    position,               \* HaikuSubsurface::fState
    viewPosition,           \* where the subsurface's view was moved to
    view,                   \* surfaces with a WaylandView
    bounds,                 \* the surface's view has valid bounds
    fSurfaceInitalized,     \* HaikuXdgSurface's: a window was shown for it
    open,                   \* the window is not hidden
    invalid,                \* the app_server owes the root view a Draw
    drawing,                \* Draw was called and waits for the server lock
    shown,                  \* what the last Draw put on the screen
    pixels,                 \* the version of a buffer's content
    named,                  \* buffers whose wl_buffer the client still has
    refs,                   \* HaikuShmBuffer's reference count; 0: freed
    committed,              \* version the last commit with content covered
    unplaced,               \* subsurfaces moved since the root's last commit
    owed                    \* releases the surface owes for each buffer

windowVars == <<view, bounds, fSurfaceInitalized, open>>
surfaceVars == <<fState, fPendingState, fPendingFields, fContentChanged, fContentSerial>>
screenVars == <<windowVars, viewPosition, invalid, drawing, shown, fNativeCache>>
bufferVars == <<pixels, named, refs>>
historyVars == <<committed, unplaced, owed>>
vars == <<surfaceVars, screenVars, bufferVars, historyVars, position>>

One(p) == IF p THEN 1 ELSE 0

(* BReference assignment: one more for the buffer it now names, one less *)
(* for the buffer it named before.                                       *)
Reassigned(old, new) == [b \in Buffer |-> refs[b] + One(b = new) - One(b = old)]

SurfaceList(s) == IF s = Root THEN Child ELSE {}

Init ==
    LET blank == [m \in Member |-> IF m = "buffer" THEN None ELSE Default]
    IN  /\ fState = [s \in Surface |-> blank]
        /\ fPendingState = fState
        /\ fPendingFields = [s \in Surface |-> {}]
        /\ fContentChanged = [s \in Surface |-> FALSE]
        /\ fContentSerial = [s \in Surface |-> 1]
        /\ fNativeCache = [s \in Surface |-> None]
        /\ position = [c \in Child |-> Default]
        /\ viewPosition = [c \in Child |-> Default]
        /\ view = {}
        /\ bounds = [s \in Surface |-> FALSE]
        /\ fSurfaceInitalized = FALSE
        /\ open = FALSE
        /\ invalid = FALSE
        /\ drawing = FALSE
        /\ shown = [s \in Surface |-> None]
        /\ pixels = [b \in Buffer |-> 0]
        /\ named = {}
        /\ refs = [b \in Buffer |-> 0]
        /\ committed = [s \in Surface |-> 0]
        /\ unplaced = {}
        /\ owed = [s \in Surface |-> [b \in Buffer |-> 0]]
-----------------------------------------------------------------------------
(* Buffers *)

CreateBuffer(b) ==
    /\ refs[b] = 0
    /\ named' = named \cup {b}
    /\ refs' = [refs EXCEPT ![b] = 1]
    /\ UNCHANGED <<surfaceVars, screenVars, historyVars, pixels, position>>

(* HaikuShmBuffer::HandleDestroy: the client's reference goes. *)
DestroyBuffer(b) ==
    /\ b \in named
    /\ named' = named \ {b}
    /\ refs' = [refs EXCEPT ![b] = @ - 1]
    /\ UNCHANGED <<surfaceVars, screenVars, historyVars, pixels, position>>

(* The client draws into the shared memory. *)
WriteBuffer(b) ==
    /\ b \in named
    /\ pixels[b] < MaxWrite
    /\ pixels' = [pixels EXCEPT ![b] = @ + 1]
    /\ UNCHANGED <<surfaceVars, screenVars, historyVars, named, refs, position>>
-----------------------------------------------------------------------------
(* Requests *)

HandleAttach(s, b, offset) ==
    /\ b \in named \cup {None}
    /\ fContentChanged' = [fContentChanged EXCEPT ![s] = TRUE]
    /\ fPendingState' = [fPendingState EXCEPT ![s].buffer = b, ![s].offset = offset]
    /\ fPendingFields' = [fPendingFields EXCEPT ![s] = @ \cup {"buffer", "offset"}]
    /\ refs' = Reassigned(fPendingState[s].buffer, b)
    /\ UNCHANGED <<screenVars, historyVars, fState, fContentSerial, pixels, named, position>>

(* HandleDamage and HandleDamageBuffer; fDirty is collected and not used. *)
HandleDamage(s) ==
    /\ fContentChanged' = [fContentChanged EXCEPT ![s] = TRUE]
    /\ UNCHANGED <<screenVars, bufferVars, historyVars, fState, fPendingState, fPendingFields,
                   fContentSerial, position>>

HandleFrame(s) ==
    /\ fPendingFields' = [fPendingFields EXCEPT ![s] = @ \cup {"frameCallbacks"}]
    /\ UNCHANGED <<screenVars, bufferVars, historyVars, fState, fPendingState, fContentChanged,
                   fContentSerial, position>>

(* HandleSetOpaqueRegion, HandleSetInputRegion, HandleSetBufferTransform, *)
(* HandleSetBufferScale, HandleOffset, SetViewportSrc, SetViewportDst: a  *)
(* member and its bit.  A scale that is not positive is refused.          *)
SetPending(s, m, v) ==
    /\ fPendingState' = [fPendingState EXCEPT ![s][m] = v]
    /\ fPendingFields' = [fPendingFields EXCEPT ![s] = @ \cup {BitOf(m)}]
    /\ UNCHANGED <<screenVars, bufferVars, historyVars, fState, fContentChanged, fContentSerial,
                   position>>

(* HaikuSubsurface::HandleSetPosition takes effect at once. *)
HandleSetPosition(c, v) ==
    /\ position' = [position EXCEPT ![c] = v]
    /\ unplaced' = unplaced \cup {c}
    /\ UNCHANGED <<surfaceVars, screenVars, bufferVars, committed, owed>>

(* The state a commit makes current. *)
Applied(s) == [m \in Member |->
    IF BitOf(m) \in fPendingFields[s] THEN fPendingState[s][m] ELSE fState[s][m]]

(* The regions are moved out of the pending state: what they leave behind *)
(* is some value.                                                         *)
LeftBehind(s, m) == IF m \in fPendingFields[s] THEN Value ELSE {fPendingState[s][m]}

MovedFrom(s) == {[fPendingState[s] EXCEPT !.opaqueRgn = left.opaqueRgn, !.inputRgn = left.inputRgn] :
    left \in [opaqueRgn : LeftBehind(s, "opaqueRgn"), inputRgn : LeftBehind(s, "inputRgn")]}

(* Faulty: it forgets that subsurfaces may have moved. *)
RepaintAlone(s) == fContentChanged[s] \/ fPendingFields[s] \ NonVisual # {}

Repaint(s) ==
    \/ fContentChanged[s]
    \/ fPendingFields[s] \ NonVisual # {}
    \/ SurfaceList(s) # {}

(* HaikuSurface::Size: a viewport that was set or a buffer gives an extent. *)
HasSize(state) ==
    state.viewportDst # Default \/ state.viewportSrc # Default \/ state.buffer # None

(* Faulty: the pending state starts anew after each commit. *)
CommitAndReset(s) ==
    /\ fState' = [fState EXCEPT ![s] = Applied(s)]
    /\ fPendingState' = [fPendingState EXCEPT ![s] =
           [m \in Member |-> IF m = "buffer" THEN None ELSE Default]]
    /\ fPendingFields' = [fPendingFields EXCEPT ![s] = {}]

CommitState(s) ==
    /\ fState' = [fState EXCEPT ![s] = Applied(s)]
    /\ \E left \in MovedFrom(s) : fPendingState' = [fPendingState EXCEPT ![s] = left]
    /\ fPendingFields' = [fPendingFields EXCEPT ![s] = {}]

(* Faulty: damage alone is no new content. *)
CommitAttached(s) ==
    /\ fContentSerial[s] < MaxSerial \/ ~fContentChanged[s]
    /\ fContentSerial' = [fContentSerial EXCEPT ![s] =
           @ + One(fContentChanged[s] /\ "buffer" \in fPendingFields[s])]
    /\ fContentChanged' = [fContentChanged EXCEPT ![s] = FALSE]
    /\ committed' = [committed EXCEPT ![s] =
           LET b == Applied(s).buffer
           IN  IF fContentChanged[s] /\ b # None THEN pixels[b] ELSE @]

CommitContent(s) ==
    /\ fContentSerial[s] < MaxSerial \/ ~fContentChanged[s]
    /\ fContentSerial' = [fContentSerial EXCEPT ![s] = @ + One(fContentChanged[s])]
    /\ fContentChanged' = [fContentChanged EXCEPT ![s] = FALSE]
    /\ committed' = [committed EXCEPT ![s] =
           LET b == Applied(s).buffer
           IN  IF fContentChanged[s] /\ b # None THEN pixels[b] ELSE @]

(* Faulty: the buffer shown before keeps its reference. *)
CommitBufferKept(s) ==
    IF "buffer" \in fPendingFields[s]
    THEN /\ refs' = Reassigned(None, fPendingState[s].buffer)
         /\ owed' = [owed EXCEPT ![s] = [b \in Buffer |->
                @[b] + One(b = fPendingState[s].buffer) - One(b = fState[s].buffer)]]
    ELSE UNCHANGED <<refs, owed>>

(* Faulty: a buffer that is replaced by itself is not released. *)
CommitSameBuffer(s) ==
    IF "buffer" \in fPendingFields[s]
    THEN LET old == fState[s].buffer
             new == fPendingState[s].buffer
         IN  /\ refs' = Reassigned(old, new)
             /\ owed' = [owed EXCEPT ![s] = [b \in Buffer |->
                    @[b] + One(b = new) - One(b = old /\ old # new)]]
    ELSE UNCHANGED <<refs, owed>>

(* The buffer attached before gets its release when a buffer was attached, *)
(* be it the same one.                                                     *)
CommitBuffer(s) ==
    IF "buffer" \in fPendingFields[s]
    THEN LET old == fState[s].buffer
             new == fPendingState[s].buffer
         IN  /\ refs' = Reassigned(old, new)
             /\ owed' = [owed EXCEPT ![s] = [b \in Buffer |-> @[b] + One(b = new) - One(b = old)]]
    ELSE UNCHANGED <<refs, owed>>

(* The view moves where the subsurface is and takes the surface's size.  A  *)
(* size that changes without becoming valid or invalid is in fields that    *)
(* repaint.                                                                 *)
FrameChanged(s) ==
    \/ s \in Child /\ viewPosition[s] # position[s]
    \/ bounds[s] # HasSize(Applied(s))

(* XdgSurfaceHook::HandleCommit shows the window when there is content. *)
Shows(s) ==
    /\ s = Root /\ Root \in view
    /\ ~fSurfaceInitalized
    /\ Applied(s).buffer # None

(* HaikuSurface::Invalidate and Show have the root's view drawn. *)
CommitView(s) ==
    /\ viewPosition' = IF s \in view \cap Child THEN [viewPosition EXCEPT ![s] = position[s]]
                       ELSE viewPosition
    /\ bounds' = IF s \in view THEN [bounds EXCEPT ![s] = HasSize(Applied(s))] ELSE bounds
    /\ fSurfaceInitalized' = (fSurfaceInitalized \/ Shows(s))
    /\ open' = (open \/ Shows(s))
    /\ invalid' = (invalid \/ (s \in view /\ (Repaint(s) \/ FrameChanged(s))) \/ Shows(s))
    /\ unplaced' = unplaced \ SurfaceList(s)

HandleCommit(s) ==
    /\ CommitState(s)
    /\ CommitContent(s)
    /\ CommitBuffer(s)
    /\ CommitView(s)
    /\ UNCHANGED <<view, drawing, shown, fNativeCache, pixels, named, position>>
-----------------------------------------------------------------------------
(* The window *)

(* The root gets a window, hidden and with new views.  Its xdg_surface may  *)
(* be the one that had a window before, or a new one.                       *)
AttachWindow ==
    /\ Root \notin view
    /\ view' = {Root} \cup (IF AttachesEarly THEN Child ELSE {})
    /\ viewPosition' = IF AttachesEarly THEN [c \in Child |-> Default] ELSE viewPosition
    /\ bounds' = [s \in Surface |-> FALSE]
    /\ open' = FALSE
    /\ fSurfaceInitalized' \in {fSurfaceInitalized, FALSE}
    /\ UNCHANGED <<surfaceVars, bufferVars, historyVars, invalid, drawing, shown, fNativeCache,
                   position>>

(* The root loses its role: Detach removes its view and those below it, and *)
(* waits for a Draw in progress; the window goes.                           *)
Detach ==
    /\ Root \in view
    /\ ~drawing
    /\ view' = {}
    /\ bounds' = [s \in Surface |-> FALSE]
    /\ open' = FALSE
    /\ invalid' = FALSE
    /\ UNCHANGED <<surfaceVars, bufferVars, historyVars, fSurfaceInitalized, drawing, shown,
                   fNativeCache, viewPosition, position>>

(* The looper of a window that is not hidden calls Draw, which asks for the *)
(* server lock.                                                             *)
BeginUpdate ==
    /\ open /\ invalid
    /\ invalid' = FALSE
    /\ drawing' = TRUE
    /\ UNCHANGED <<windowVars, surfaceVars, bufferVars, historyVars, viewPosition, shown,
                   fNativeCache, position>>

Origin(s) == IF s = Root THEN Default ELSE position[s]

(* What a cached rendering depends on besides the content serial: the       *)
(* bitmap's address, its source rectangle and its destination rectangle.    *)
CacheKey(s) == <<fState[s].buffer, fState[s].viewportSrc, fState[s].scale,
                 fState[s].viewportDst, Origin(s)>>

CacheHit(s) ==
    /\ fNativeCache[s] # None
    /\ fNativeCache[s].serial = fContentSerial[s]
    /\ fNativeCache[s].key = CacheKey(s)

(* EnsureNativeCache: on, and found or rendered anew; an allocation may fail. *)
EnsureNativeCache(s, allocates) ==
    IF CacheHit(s) THEN fNativeCache[s]
    ELSE IF allocates
    THEN [serial |-> fContentSerial[s], key |-> CacheKey(s), version |-> pixels[fState[s].buffer]]
    ELSE None

(* A surface as it is on the screen; opaque regions matter without a cache. *)
Picture(s, version, cached) ==
    [state |-> [fState[s] EXCEPT !.offset = Default, !.transform = Default,
                                 !.inputRgn = Default,
                                 !.opaqueRgn = IF cached THEN Default ELSE @],
     origin |-> Origin(s), version |-> version]

(* DrawSurfaceTree draws each surface that has a buffer, whether or not it  *)
(* has a view.                                                              *)
DrawSurfaceTree(allocates) ==
    LET drawn == {s \in Surface : fState[s].buffer # None}
        cache == [s \in Surface |->
            IF NativeCache /\ s \in drawn THEN EnsureNativeCache(s, allocates)
            ELSE fNativeCache[s]]
    IN  /\ fNativeCache' = cache
        /\ shown' = [s \in Surface |->
               IF s \notin drawn THEN None
               ELSE IF NativeCache /\ cache[s] # None
               THEN Picture(s, cache[s].version, TRUE)
               ELSE Picture(s, pixels[fState[s].buffer], FALSE)]

(* WaylandView::Draw of the root, which returns when the bounds are invalid: *)
(* then no subsurface is drawn either.  An offscreen bitmap is allocated.    *)
Draw ==
    /\ drawing
    /\ drawing' = FALSE
    /\ \/ ~bounds[Root] /\ UNCHANGED <<fNativeCache, shown>>
       \/ /\ bounds[Root]
          /\ \E allocates \in IF NativeCache THEN BOOLEAN ELSE {FALSE} : DrawSurfaceTree(allocates)
    /\ UNCHANGED <<windowVars, surfaceVars, bufferVars, historyVars, viewPosition, invalid, position>>

AttachOffset == {Default} \cup {v \in Value : <<"offset", v>> \in Asked}

Next ==
    \/ \E b \in Buffer : CreateBuffer(b) \/ DestroyBuffer(b) \/ WriteBuffer(b)
    \/ \E s \in Surface : HandleCommit(s)
    \/ \E s \in Painted : HandleDamage(s) \/ (AsksFrames /\ HandleFrame(s))
    \/ \E s \in Painted, b \in Buffer \cup {None}, v \in AttachOffset : HandleAttach(s, b, v)
    \/ \E s \in Painted, a \in Asked : SetPending(s, a[1], a[2])
    \/ \E c \in Child, v \in Value : HandleSetPosition(c, v)
    \/ AttachWindow \/ Detach \/ BeginUpdate \/ Draw

Spec == Init /\ [][Next]_vars
-----------------------------------------------------------------------------
(* Properties *)

(* The variables hold values of their types. *)
TypeOK ==
    /\ fState \in [Surface -> StateOf] /\ fPendingState \in [Surface -> StateOf]
    /\ fPendingFields \in [Surface -> SUBSET Bit]
    /\ fContentChanged \in [Surface -> BOOLEAN] /\ fContentSerial \in [Surface -> Nat]
    /\ position \in [Child -> Value] /\ viewPosition \in [Child -> Value]
    /\ view \subseteq Surface /\ bounds \in [Surface -> BOOLEAN]
    /\ fSurfaceInitalized \in BOOLEAN /\ open \in BOOLEAN /\ invalid \in BOOLEAN /\ drawing \in BOOLEAN
    /\ pixels \in [Buffer -> 0 .. MaxWrite] /\ named \subseteq Buffer /\ refs \in [Buffer -> Nat]
    /\ committed \in [Surface -> Nat] /\ unplaced \subseteq Child
    /\ owed \in [Surface -> [Buffer -> Nat]]

(* The state a commit would make current, as the double buffer sees it. *)
Buffered == INSTANCE DoubleBuffer WITH
    Request <- {{"buffer", "offset"}} \cup {{m} : m \in Member \ {"buffer"}},
    state <- fState,
    pending <- [s \in Surface |-> Applied(s)]

(* The bits, the member two requests share and the moved regions make a     *)
(* double buffer: no commit loses, reverts or invents state (HandleCommit). *)
ImplementsDoubleBuffer == Buffered!Spec

(* The screen has a picture of the surface, wherever it was drawn. *)
Pictured(s) == \E v \in 0 .. MaxWrite, cached \in {FALSE, NativeCache}, o \in Value :
    shown[s] = [Picture(s, v, cached) EXCEPT !.origin = o]

(* It is where the subsurface is, unless that moved since the root's commit. *)
Placed(s) == s \in unplaced \/ shown[s].origin = Origin(s)

(* The window is shown and its view has an extent, and no Draw is owed or *)
(* under way.                                                             *)
Settled == Root \in view /\ open /\ bounds[Root] /\ ~invalid /\ ~drawing

(* A settled window shows every surface that has a view as last committed,  *)
(* though HandleCommit skips the drawing of commits it takes for unchanged  *)
(* and Draw returns early: the buffer, everything that decides how it is    *)
(* drawn, and the place the root's last commit gave it.                     *)
ScreenCurrent == Settled => \A s \in view :
    IF fState[s].buffer = None THEN shown[s] = None ELSE Pictured(s) /\ Placed(s)

(* What a client wrote before it damaged or attached and committed is on    *)
(* the screen, also when the rendered copy of the surface is used.          *)
ContentShown == Settled => \A s \in view :
    fState[s].buffer # None /\ shown[s] # None => shown[s].version >= committed[s]

(* A buffer is freed when nothing names it any more, and not before: the    *)
(* reference count is the number of those that hold it.                     *)
CountsHolders == \A b \in Buffer :
    refs[b] = One(b \in named) + Cardinality({s \in Surface : fState[s].buffer = b})
                  + Cardinality({s \in Surface : fPendingState[s].buffer = b})

(* A surface owes one release for the buffer it shows and none for others:  *)
(* each commit of a buffer is answered by one release, even when the client *)
(* commits the same buffer twice.                                           *)
ReleasesBalance == \A s \in Surface, b \in Buffer : owed[s][b] = One(fState[s].buffer = b)
=============================================================================
