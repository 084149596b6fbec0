---------------------------- MODULE XdgConfigure ----------------------------
(***************************************************************************)
(* The size of a toplevel: configure events, acks, the window geometry a   *)
(* commit applies, the resizes of its BWindow by the user, and the server  *)
(* decoration that decides which of them leads (XdgSurfaceHook in          *)
(* HaikuXdgSurface.cpp, WaylandWindow and HaikuXdgToplevel in              *)
(* HaikuXdgToplevel.cpp, HaikuServerDecoration.cpp, HaikuScale.h).         *)
(*                                                                         *)
(* Width and height go the same way: a size is one number.  Sizes of the   *)
(* client are logical pixels, sizes of the window native ones; the float   *)
(* DesktopScale() is a ratio.  The geometry's offset, which moves the view *)
(* or the window, is left out.                                             *)
(*                                                                         *)
(* Every handler runs under the server lock.  FrameResized is a step of    *)
(* its own behind the dispatch of its message: WaylandEnv gives the window *)
(* lock up while it waits for the server, and a commit may come first.     *)
(***************************************************************************)
EXTENDS Integers, Sequences

CONSTANTS
    ScaleNum, ScaleDen,  \* DesktopScale() as a ratio, never below 1
    Size,       \* logical sizes the client chooses by itself
    UserSize,   \* native sizes the user gives the window
    Screen,     \* native size of the screen
    Drag,       \* native distances the mouse moves while the client lets it resize
    Limit,      \* <<minimum, maximum>> sizes the client sets, 0 for none
    Request,    \* decoration modes the client requests
    MaxAsked,   \* bound on resizes and activations by the user, mouse moves that
                \* resize, and resize, fullscreen and size limit requests
    MaxWish     \* bound on the sizes and modes the client chooses

ASSUME ScaleAssumption == ScaleDen \in Nat \ {0} /\ ScaleNum \in Nat /\ ScaleNum >= ScaleDen
ASSUME SizeAssumption == Size \subseteq Nat \ {0} /\ UserSize \subseteq Nat \ {0}
                         /\ Screen \in Nat \ {0}
ASSUME DragAssumption == Drag \subseteq Int
ASSUME LimitAssumption == Limit \subseteq Nat \X Nat
ASSUME RequestAssumption == Request \subseteq {"None", "Client", "Server"}
ASSUME BoundAssumption == MaxAsked \in Nat /\ MaxWish \in Nat

VARIABLES
    fSerial, fAckSerial, fResizeSerial,
    fConfigureCalled, fSurfaceInitalized,
    fGeometry, fPendingGeometry,  \* sizes; 0: not valid
    fWidth,
    fActivated, fFullscreen, fSavedPos,
    limits,     \* fMinWidth, fMaxWidth and fSizeLimitsDirty
    fMode,      \* of the server decoration; "Absent" without one, "Initial"
                \* for the None it is created with, until a mode is requested
    fBitmap,    \* size of the committed buffer; 0 without one
    track,      \* the seat's fTrack, of a resize request: edge and wndWidth
    window,     \* the BWindow
    handling,   \* size of the FrameResized that waits for the server
    wire,       \* configure events on their way to the client
    read,       \* the last configure the client read
    answered,   \* the client has set the geometry that configure asks for
    inOrder,    \* the client chose its decoration and geometry when it mapped,
                \* no ResizeTo ran into its size limits, and no resize by the
                \* seat came while another was unanswered
    asked, wishes  \* what the bounds count

xdgVars == <<fSerial, fAckSerial, fResizeSerial, fConfigureCalled, fSurfaceInitalized,
             fGeometry, fPendingGeometry>>
toplevelVars == <<fWidth, fActivated, fFullscreen, fSavedPos, limits>>
clientVars == <<wire, read, answered>>
counters == <<asked, wishes>>
vars == <<xdgVars, toplevelVars, clientVars, fMode, fBitmap, track, window, handling, inOrder,
          counters>>

Nothing == -1

NoTrack == [edge |-> "none", width |-> 0]

Look == [m \in {"Absent", "Initial", "None", "Client", "Server"} |->
            IF m = "Server" THEN "titled" ELSE "noBorder"]

(* std::round of n / d for n >= 0. *)
Rounded(n, d) == (2 * n + d) \div (2 * d)
NativeCount(c) == Rounded(c * ScaleNum, ScaleDen)
LogicalCount(n) == Rounded(n * ScaleDen, ScaleNum)

HasServerDecoration == fGeometry # 0 /\ fMode = "Server"

(* Faulty: the ack is not waited for. *)
ResizeUnseenNever == FALSE

(* The client has not seen the user's last resize yet. *)
ResizeUnseen == fResizeSerial - fAckSerial > 0

Init ==
    /\ fSerial = 1 /\ fAckSerial = 1 /\ fResizeSerial = 0
    /\ fConfigureCalled = FALSE /\ fSurfaceInitalized = FALSE
    /\ fGeometry = 0 /\ fPendingGeometry = 0
    /\ fWidth = 0 /\ fActivated = FALSE /\ fFullscreen = FALSE /\ fSavedPos = 0
    /\ limits = [min |-> 0, max |-> 0, dirty |-> FALSE]
    /\ fMode = "Absent"
    /\ fBitmap = 0
    /\ track = NoTrack
    /\ window = [frame |-> 0, bounds |-> 0, resized |-> Nothing, min |-> 0, max |-> 32768,
                 resizable |-> TRUE, look |-> "noBorder", shown |-> FALSE, created |-> FALSE]
    /\ handling = Nothing
    /\ wire = <<>> /\ read = [width |-> 0, serial |-> 1] /\ answered = TRUE
    /\ inOrder = TRUE
    /\ asked = 0 /\ wishes = 0
-----------------------------------------------------------------------------
(* The window: frame is the app_server's idea of the size, bounds the       *)
(* BWindow's, which follows when it dispatches B_WINDOW_RESIZED; of those   *)
(* that are pending only the last, resized, counts.                         *)

Clamped(win, n) == IF n < win.min THEN win.min ELSE IF n > win.max THEN win.max ELSE n
Allows(win, n) == Clamped(win, n) = n

Framed(win, n) ==
    IF n = win.frame THEN win
    ELSE [win EXCEPT !.frame = n, !.resized = n]

ResizeTo(win, n) ==
    LET size == Clamped(win, n)
    IN  IF size = win.bounds THEN win ELSE [Framed(win, size) EXCEPT !.bounds = size]

SetSizeLimits(win, min, max) ==
    LET limited == [win EXCEPT !.min = min, !.max = max]
    IN  Framed(limited, Clamped(limited, win.frame))

(* The user drags the border of a titled window. *)
UserResize(n) ==
    /\ asked < MaxAsked
    /\ window.shown /\ window.look = "titled" /\ window.resizable
    /\ Allows(window, n) /\ n # window.frame
    /\ window' = Framed(window, n)
    /\ asked' = asked + 1
    /\ UNCHANGED <<xdgVars, toplevelVars, clientVars, fMode, inOrder, fBitmap, track, handling, wishes>>

(* BWindow takes all pending B_WINDOW_RESIZED at once and calls FrameResized. *)
DispatchResized ==
    /\ handling = Nothing /\ window.resized # Nothing
    /\ handling' = window.resized
    /\ window' = [window EXCEPT !.bounds = window.resized, !.resized = Nothing]
    /\ UNCHANGED <<xdgVars, toplevelVars, clientVars, fMode, inOrder, fBitmap, track, asked, wishes>>
-----------------------------------------------------------------------------
(* The window's thread *)

(* DoSendConfigure and xdg_surface.configure with NextSerial. *)
Configure(width) ==
    /\ wire' = Append(wire, [width |-> width, serial |-> fSerial])
    /\ fSerial' = fSerial + 1

WindowActivated ==
    /\ handling = Nothing /\ asked < MaxAsked /\ window.shown
    /\ fActivated' = ~fActivated
    /\ Configure(fWidth)
    /\ asked' = asked + 1
    /\ UNCHANGED <<fAckSerial, fResizeSerial, fConfigureCalled, fSurfaceInitalized, fGeometry,
                   fPendingGeometry, fWidth, fFullscreen, fSavedPos, limits, read, answered,
                   fMode, inOrder, fBitmap, track, window, handling, wishes>>

(* Faulty: the size is compared with the client's geometry. *)
ResizeIsKnownByGeometry ==
    \/ window.bounds # handling
    \/ ~HasServerDecoration
    \/ LogicalCount(handling) = fGeometry

(* Faulty: a size the server gave the window is reported as well. *)
ResizeIsKnownNever == window.bounds # handling \/ ~HasServerDecoration

(* Whether FrameResized leaves at one of its early returns. *)
ResizeIsKnown ==
    \/ window.bounds # handling
    \/ ~HasServerDecoration
    \/ LogicalCount(handling) = fWidth

FrameResized ==
    /\ handling # Nothing
    /\ handling' = Nothing
    /\ IF ResizeIsKnown
       THEN UNCHANGED <<fWidth, fResizeSerial, wire, fSerial>>
       ELSE /\ fWidth' = LogicalCount(handling)
            /\ fResizeSerial' = fSerial
            /\ Configure(LogicalCount(handling))
    /\ UNCHANGED <<fAckSerial, fConfigureCalled, fSurfaceInitalized, fGeometry, fPendingGeometry,
                   fActivated, fFullscreen, fSavedPos, limits, read, answered, fMode, inOrder,
                   fBitmap, track, window, counters>>
-----------------------------------------------------------------------------
(* Requests *)

HandleCreateDecoration ==
    /\ fMode = "Absent"
    /\ fMode' = "Initial"
    /\ UNCHANGED <<xdgVars, toplevelVars, clientVars, inOrder, fBitmap, track, window, handling, counters>>

(* In order before the client maps its window. *)
HandleRequestMode(m) ==
    /\ fMode # "Absent" /\ wishes < MaxWish
    /\ fMode' = m
    /\ inOrder' = (inOrder /\ ((m = "Server" <=> fMode = "Server") \/ (fBitmap = 0 /\ fGeometry = 0)))
    /\ window' = IF window.created THEN [window EXCEPT !.look = Look[m]] ELSE window
    /\ wishes' = wishes + 1
    /\ UNCHANGED <<xdgVars, toplevelVars, clientVars, fBitmap, track, handling, asked>>

HandleGetToplevel ==
    /\ ~window.created
    /\ window' = [window EXCEPT !.created = TRUE]
    /\ UNCHANGED <<xdgVars, toplevelVars, clientVars, fMode, inOrder, fBitmap, track, handling,
                   counters>>

HandleSetSizeLimits(min, max) ==
    /\ window.created /\ asked < MaxAsked
    /\ limits' = [min |-> min, max |-> max, dirty |-> TRUE]
    /\ asked' = asked + 1
    /\ UNCHANGED <<xdgVars, clientVars, fWidth, fActivated, fFullscreen, fSavedPos, fMode, inOrder,
                   fBitmap, track, window, handling, wishes>>

HandleSetFullscreen ==
    /\ ~fFullscreen /\ asked < MaxAsked /\ window.created
    /\ fFullscreen' = TRUE
    /\ fSavedPos' = window.bounds
    /\ window' = ResizeTo(window, Screen)
    /\ inOrder' = (inOrder /\ window.shown /\ Allows(window, Screen))
    /\ fWidth' = LogicalCount(Screen)
    /\ Configure(LogicalCount(Screen))
    /\ asked' = asked + 1
    /\ UNCHANGED <<fAckSerial, fResizeSerial, fConfigureCalled, fSurfaceInitalized, fGeometry,
                   fPendingGeometry, fActivated, limits, read, answered, fMode, fBitmap, track,
                   handling, wishes>>

HandleUnsetFullscreen ==
    /\ fFullscreen /\ asked < MaxAsked
    /\ fFullscreen' = FALSE
    /\ window' = ResizeTo(window, fSavedPos)
    /\ inOrder' = (inOrder /\ Allows(window, fSavedPos))
    /\ fWidth' = LogicalCount(fSavedPos)
    /\ Configure(LogicalCount(fSavedPos))
    /\ asked' = asked + 1
    /\ UNCHANGED <<fAckSerial, fResizeSerial, fConfigureCalled, fSurfaceInitalized, fGeometry,
                   fPendingGeometry, fActivated, fSavedPos, limits, read, answered, fMode,
                   fBitmap, track, handling, wishes>>

HandleAckConfigure ==
    /\ fAckSerial # read.serial
    /\ fAckSerial' = read.serial
    /\ UNCHANGED <<fSerial, fResizeSerial, fConfigureCalled, fSurfaceInitalized, fGeometry,
                   fPendingGeometry, toplevelVars, clientVars, fMode, inOrder, fBitmap, track, window, handling,
                   asked, wishes>>

(* The client takes the size a configure it acked asks for, or one of its   *)
(* own when it owes no answer and has committed what it set before.         *)
HandleSetWindowGeometry(size) ==
    /\ IF answered
       THEN /\ wishes < MaxWish /\ size \in Size /\ fPendingGeometry = fGeometry
            /\ wishes' = wishes + 1
       ELSE fAckSerial = read.serial /\ size = read.width /\ UNCHANGED wishes
    /\ fPendingGeometry' = size
    /\ answered' = TRUE
    /\ UNCHANGED <<fSerial, fAckSerial, fResizeSerial, fConfigureCalled, fSurfaceInitalized,
                   fGeometry, toplevelVars, wire, read, fMode, inOrder, fBitmap, track, window,
                   handling, asked>>

(* The client reads the next configure; one of size 0 leaves it the choice. *)
ReadConfigure ==
    /\ wire # <<>>
    /\ read' = Head(wire)
    /\ wire' = Tail(wire)
    /\ answered' = (Head(wire).width = 0)
    /\ UNCHANGED <<xdgVars, toplevelVars, fMode, inOrder, fBitmap, track, window, handling, counters>>
-----------------------------------------------------------------------------
(* The resize a client leaves to the seat: DoTrack, then the mouse until the *)
(* button is up.  Of the edges there are two, the others do nothing.  A drag *)
(* leaves a width: beyond the far edge the code asks for 0, which lets the   *)
(* client choose, or for less.                                               *)

HandleResize(edge) ==
    /\ window.shown /\ track = NoTrack /\ asked < MaxAsked
    /\ track' = [edge |-> edge, width |-> fGeometry]
    /\ asked' = asked + 1
    /\ UNCHANGED <<xdgVars, toplevelVars, clientVars, fMode, inOrder, fBitmap, window, handling,
                   wishes>>

(* The width the track had, larger by d native pixels. *)
Stretched(d) == (track.width * ScaleNum + d * ScaleDen) \div ScaleNum

(* The window follows the mouse, so d counts from where it is now; no limits. *)
DragTopLeft(d) ==
    /\ track.edge = "topLeft" /\ Stretched(-d) > 0
    /\ track' = [track EXCEPT !.width = Stretched(-d)]
    /\ Configure(Stretched(-d))

DragBottomRight(d) ==
    /\ track.edge = "bottomRight" /\ Stretched(d) > 0
    /\ LET atLeast == IF Stretched(d) < limits.min THEN limits.min ELSE Stretched(d)
       IN  Configure(IF limits.max # 0 /\ atLeast > limits.max THEN limits.max ELSE atLeast)
    /\ UNCHANGED track

(* In order when no resize is unseen or unanswered: a size the client        *)
(* committed meanwhile, which was not applied, never is when this asks for   *)
(* it.                                                                       *)
MouseMoved(d) ==
    /\ handling = Nothing /\ asked < MaxAsked
    /\ DragTopLeft(d) \/ DragBottomRight(d)
    /\ inOrder' = (inOrder /\ (HasServerDecoration => ~ResizeUnseen /\ fWidth = fGeometry))
    /\ asked' = asked + 1
    /\ UNCHANGED <<fAckSerial, fResizeSerial, fConfigureCalled, fSurfaceInitalized, fGeometry,
                   fPendingGeometry, toplevelVars, read, answered, fMode, fBitmap, window,
                   handling, wishes>>

MouseUp ==
    /\ handling = Nothing /\ track # NoTrack
    /\ track' = NoTrack
    /\ UNCHANGED <<xdgVars, toplevelVars, clientVars, fMode, inOrder, fBitmap, window, handling,
                   counters>>
-----------------------------------------------------------------------------
(* XdgSurfaceHook::HandleCommit *)

LimitsApply == HasServerDecoration /\ limits.dirty

(* The window after the size limits the client set. *)
Limited ==
    IF ~LimitsApply THEN window
    ELSE [SetSizeLimits(window,
              IF limits.min = 0 THEN 0 ELSE NativeCount(limits.min),
              IF limits.max = 0 THEN 32768 ELSE NativeCount(limits.max))
          EXCEPT !.resizable = ~(limits.min # 0 /\ limits.min = limits.max)]

GeometryLeads == HasServerDecoration /\ ~ResizeUnseen /\ fGeometry # fPendingGeometry

Sized(win, bitmap) ==
    IF HasServerDecoration
    THEN IF GeometryLeads /\ fWidth # fPendingGeometry
         THEN ResizeTo(win, NativeCount(fPendingGeometry)) ELSE win
    ELSE IF bitmap # 0 THEN ResizeTo(win, NativeCount(bitmap)) ELSE win

(* Faulty: the look is left as it was. *)
ShownPlain(win, bitmap) ==
    IF fSurfaceInitalized \/ bitmap = 0 THEN win ELSE [win EXCEPT !.shown = TRUE]

(* The window once the surface has a buffer. *)
Shown(win, bitmap) ==
    IF fSurfaceInitalized \/ bitmap = 0 THEN win
    ELSE [win EXCEPT !.look = IF fMode = "Absent" THEN @ ELSE Look[fMode], !.shown = TRUE]

(* bitmap is the size the surface has after the commit.  A client maps   *)
(* its window in order when it commits its first geometry with its first    *)
(* buffer.                                                                  *)
HandleCommit(bitmap) ==
    /\ window.created
    /\ inOrder' = (inOrder /\ (bitmap # 0 <=> fPendingGeometry # 0)
                           /\ Allows(Limited, NativeCount(fPendingGeometry)))
    /\ fBitmap' = bitmap
    /\ window' = Shown(Sized(Limited, bitmap), bitmap)
    /\ limits' = [limits EXCEPT !.dirty = @ /\ ~LimitsApply]
    /\ fWidth' = IF GeometryLeads THEN fPendingGeometry ELSE fWidth
    /\ fGeometry' = fPendingGeometry
    /\ fSurfaceInitalized' = (fSurfaceInitalized \/ bitmap # 0)
    /\ fConfigureCalled' = TRUE
    /\ IF fConfigureCalled THEN UNCHANGED <<wire, fSerial>> ELSE Configure(fWidth')
    /\ UNCHANGED <<fAckSerial, fResizeSerial, fPendingGeometry, fActivated, fFullscreen,
                   fSavedPos, read, answered, fMode, track, handling, counters>>

Next ==
    \/ \E n \in UserSize : UserResize(n)
    \/ DispatchResized \/ FrameResized \/ WindowActivated
    \/ HandleCreateDecoration \/ HandleGetToplevel
    \/ \E m \in Request : HandleRequestMode(m)
    \/ \E l \in Limit : HandleSetSizeLimits(l[1], l[2])
    \/ HandleSetFullscreen \/ HandleUnsetFullscreen
    \/ \E edge \in {"topLeft", "bottomRight"} : HandleResize(edge)
    \/ \E d \in Drag : MouseMoved(d)
    \/ MouseUp
    \/ ReadConfigure \/ HandleAckConfigure
    \/ \E size \in Size \cup {read.width} : HandleSetWindowGeometry(size)
    \/ \E bitmap \in Size \cup {0, fBitmap} : HandleCommit(bitmap)

Spec == Init /\ [][Next]_vars
-----------------------------------------------------------------------------
(* Properties *)

TypeOK ==
    /\ fSerial \in Nat /\ fAckSerial \in Nat /\ fResizeSerial \in Nat
    /\ fConfigureCalled \in BOOLEAN /\ fSurfaceInitalized \in BOOLEAN
    /\ fGeometry \in Nat /\ fPendingGeometry \in Nat /\ fWidth \in Nat
    /\ fActivated \in BOOLEAN /\ fFullscreen \in BOOLEAN /\ fSavedPos \in Nat
    /\ limits \in [min : Nat, max : Nat, dirty : BOOLEAN]
    /\ fMode \in {"Absent", "Initial", "None", "Client", "Server"}
    /\ fBitmap \in Nat
    /\ track \in [edge : {"none", "topLeft", "bottomRight"}, width : Nat]
    /\ window \in [frame : Nat, bounds : Nat, resized : Nat \cup {Nothing}, min : Nat, max : Nat,
                   resizable : BOOLEAN, look : {"titled", "noBorder"}, shown : BOOLEAN,
                   created : BOOLEAN]
    /\ handling \in Nat \cup {Nothing}
    /\ wire \in Seq([width : Nat, serial : Nat])
    /\ read \in [width : Nat, serial : Nat] /\ answered \in BOOLEAN
    /\ inOrder \in BOOLEAN
    /\ asked \in Nat /\ wishes \in Nat

Quiet ==
    /\ wire = <<>> /\ answered /\ fAckSerial = read.serial
    /\ window.resized = Nothing /\ handling = Nothing
    /\ fPendingGeometry = fGeometry

(* When every configure is answered and every resize handled, the window,   *)
(* the size the server remembers and the client's geometry are the same     *)
(* size, whoever resized last and however the messages crossed.             *)
SizesSettle ==
    Quiet /\ HasServerDecoration /\ inOrder =>
        LogicalCount(window.frame) = fGeometry /\ fWidth = fGeometry

(* No feedback: when a commit sizes the window, its FrameResized does not   *)
(* come back to the client as a configure.  There is one for the first      *)
(* commit, one after the window is mapped, and one for each time somebody   *)
(* asked for another size or the window was activated.                      *)
NoResizeLoop == inOrder => fSerial <= 3 + asked

(* While the client has not read the configure of the user's last resize,   *)
(* no commit of its gives the window another size, except through new size  *)
(* limits.                                                                  *)
UnseenResizeStands ==
    [][HasServerDecoration /\ read.serial < fResizeSerial /\ asked' = asked /\ ~LimitsApply
       => window'.frame = window.frame]_vars

(* A window that was shown has the look its client asked for last, or no    *)
(* border when there is no decoration, whether mode, toplevel or buffer     *)
(* came first.                                                              *)
LookFollowsMode == window.shown /\ fMode # "Initial" => window.look = Look[fMode]

(* What protocols/server-decoration.xml says of a decoration whose mode     *)
(* nobody requested: it is in the default mode, and the one announced is    *)
(* Server.  HaikuServerDecoration starts in None.                           *)
DefaultModeUntilAsked == window.shown /\ fMode = "Initial" => window.look = Look["Server"]
=============================================================================
