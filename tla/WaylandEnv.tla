----------------------------- MODULE WaylandEnv -----------------------------
(***************************************************************************)
(* The locking discipline between the wayland server looper and the Haiku  *)
(* window loopers, and the teardown of the views that bridge the two.      *)
(*                                                                         *)
(* Client requests run one at a time on the server looper and may take a   *)
(* window's looper lock while they hold the server's (AppKitPtrs.h).       *)
(* Window messages run on the window's looper; a handler that touches      *)
(* wayland objects opens a WaylandEnv, which gives the window lock back    *)
(* before it waits for the server lock (WaylandEnv.h).  While it waits the *)
(* client may destroy the role of the very surface the message is for, so  *)
(* WaylandView::RemoveDescendantsAndSelf waits for the env to close.       *)
(***************************************************************************)
EXTENDS Naturals

CONSTANTS
    Surface,    \* wl_surface objects
    Window,     \* BWindow objects, each with a looper thread of its own
    Popup,      \* the windows that are WaylandPopupWindow
    UserQuits,  \* the windows the desktop may ask to quit
    Parent,     \* the parent the client gives a surface's wl_subsurface, or None
    Server,     \* the thread of the "wayland" looper
    Orphan,     \* a view that was removed from its window but not yet deleted
    None        \* a NULL pointer, a free lock

ASSUME PopupAssumption == Popup \subseteq Window
ASSUME ParentAssumption == Parent \in [Surface -> Surface \cup {None}]
ASSUME DistinctAssumption ==
    /\ None \notin Surface \cup Window \cup {Server, Orphan}
    /\ Server \notin Window
    /\ Orphan \notin Window

VARIABLES
    alive,        \* surfaces whose wl_surface exists
    sub,          \* HaikuSurface::fSubsurface and its fParent
    view,         \* HaikuSurface::fView: None, Orphan, or the window it is in
    window,       \* life of a BWindow: not created, created but not shown, running
    root,         \* the surface of the window's fToplevel or fPopup, None for NULL
    quitPosted,   \* B_QUIT_REQUESTED is in the window's queue
    active,       \* views whose fActiveWlEnv is not NULL
    waitSem,      \* views whose fActiveWlEnv->fWaitSem is not NULL
    sem,          \* count of the semaphore WaylandEnv::Wait sleeps on
    server,       \* owner of the server looper's lock
    looper,       \* owner and nesting count of each window looper's lock
    pc,           \* where each thread is
    op,           \* which destructor called HaikuSurface::Detach
    subject,      \* the surface of the request in progress
    target,       \* the view RemoveDescendantsAndSelf is at
    detachLooper, \* the looper local of HaikuSurface::Detach
    localLocked,  \* the localLocked local of WaylandEnv::Wait
    unlocked,     \* the wasLooperUnlocked local of WaylandEnv::Wait
    handling,     \* the view whose handler the window thread runs, None for a window hook
    routed,       \* the surface local of WaylandView::MessageReceived
    quits,        \* QuitRequested answered true
    kfocus,       \* HaikuSeatGlobal::fKeyboardFocus
    pfocus        \* HaikuSeatGlobal::fPointerFocus

surfaceVars == <<alive, sub, view>>
windowVars  == <<window, root, quitPosted>>
envVars     == <<active, waitSem, sem>>
lockVars    == <<server, looper>>
detachVars  == <<op, subject, target, detachLooper, localLocked, unlocked>>
handlerVars == <<handling, routed, quits>>
seatVars    == <<kfocus, pfocus>>
vars == <<surfaceVars, windowVars, envVars, lockVars, pc, detachVars, handlerVars, seatVars>>

Thread == Window \cup {Server}

Free == [owner |-> None, count |-> 0]

(* BLooper's lock nests: a thread may take it again while it owns it. *)
CanLock(t, w) == looper[w].owner \in {None, t}
Locked(t, w)  == [looper EXCEPT ![w] = [owner |-> t, count |-> @.count + 1]]
Unlocked(w)   == [looper EXCEPT ![w] =
                    IF looper[w].count = 1 THEN Free
                    ELSE [owner |-> looper[w].owner, count |-> looper[w].count - 1]]

Goto(t, label) == pc' = [pc EXCEPT ![t] = label]

Init ==
    /\ alive = {}
    /\ sub = [s \in Surface |-> "none"]
    /\ view = [s \in Surface |-> None]
    /\ window = [w \in Window |-> "none"]
    /\ root = [w \in Window |-> None]
    /\ quitPosted = [w \in Window |-> FALSE]
    /\ active = {} /\ waitSem = {} /\ sem = 0
    /\ server = None
    /\ looper = [w \in Window |-> Free]
    /\ pc = [t \in Thread |-> "idle"]
    /\ op = "none" /\ subject = None /\ target = None
    /\ detachLooper = None /\ localLocked = 0 /\ unlocked = FALSE
    /\ handling = [w \in Window |-> None]
    /\ routed = [w \in Window |-> None]
    /\ quits = [w \in Window |-> FALSE]
    /\ kfocus = None /\ pfocus = None

-----------------------------------------------------------------------------
(* The server thread: one client request at a time, under the server lock. *)

(* ServerHandler::MessageReceived takes the next closure off the queue. *)
Dispatch ==
    /\ pc[Server] = "idle"
    /\ server = None
    /\ server' = Server
    /\ Goto(Server, "request")
    /\ UNCHANGED <<surfaceVars, windowVars, envVars, looper, detachVars, handlerVars, seatVars>>

EndRequest == server' = None /\ Goto(Server, "idle")

HasRole(s) == sub[s] # "none" \/ \E w \in Window : root[w] = s

(* The subsurfaces in a surface's SurfaceList. *)
SubsurfacesOf(s) == {c \in Surface : sub[c] = "linked" /\ Parent[c] = s}

CreateSurface(s) ==
    /\ pc[Server] = "request"
    /\ s \notin alive
    /\ alive' = alive \cup {s}
    /\ EndRequest
    /\ UNCHANGED <<sub, view, windowVars, envVars, looper, detachVars, handlerVars, seatVars>>

(* Faulty: the seat keeps its pointer to the surface. *)
DestroyUnderFocus(s) ==
    /\ pc[Server] = "request"
    /\ s \in alive
    /\ ~HasRole(s)
    /\ alive' = alive \ {s}
    /\ sub' = [c \in Surface |-> IF c \in SubsurfacesOf(s) THEN "unlinked" ELSE sub[c]]
    /\ EndRequest
    /\ UNCHANGED <<view, windowVars, envVars, looper, detachVars, handlerVars, seatVars>>

(* ~HaikuSurface.  A client destroys the role object first, as xdg-shell    *)
(* demands, so the branch that calls Detach is not reached here.            *)
DestroySurface(s) ==
    /\ pc[Server] = "request"
    /\ s \in alive
    /\ ~HasRole(s)
    /\ alive' = alive \ {s}
    /\ pfocus' = IF pfocus = s THEN None ELSE pfocus
    /\ kfocus' = IF kfocus = s THEN None ELSE kfocus
    /\ sub' = [c \in Surface |-> IF c \in SubsurfacesOf(s) THEN "unlinked" ELSE sub[c]]
    /\ EndRequest
    /\ UNCHANGED <<view, windowVars, envVars, looper, detachVars, handlerVars>>

(* HaikuXdgToplevel::Create and HaikuXdgPopup::Create: a new BWindow is     *)
(* locked by its creator until it is first shown, and only a popup attaches *)
(* the subsurfaces that were there before it.  The object is new: no role   *)
(* points to it yet.                                                        *)
CreateWindow(s, w) ==
    /\ pc[Server] = "request"
    /\ s \in alive /\ ~HasRole(s) /\ Parent[s] = None
    /\ window[w] = "none" /\ root[w] = None
    /\ window' = [window EXCEPT ![w] = "hidden"]
    /\ root' = [root EXCEPT ![w] = s]
    /\ view' = [c \in Surface |->
                  IF c = s \/ (w \in Popup /\ c \in SubsurfacesOf(s)) THEN w ELSE view[c]]
    /\ looper' = Locked(Server, w)
    /\ EndRequest
    /\ UNCHANGED <<alive, sub, quitPosted, envVars, detachVars, handlerVars, seatVars>>

(* The first commit with a bitmap shows the window, which runs its looper. *)
ShowWindow(w) ==
    /\ pc[Server] = "request"
    /\ window[w] = "hidden" /\ root[w] # None
    /\ window' = [window EXCEPT ![w] = "open"]
    /\ looper' = Unlocked(w)
    /\ EndRequest
    /\ UNCHANGED <<surfaceVars, root, quitPosted, envVars, detachVars, handlerVars, seatVars>>

(* Any other request that works on a window through LockedPtr. *)
BeginLockedRequest(s) ==
    /\ pc[Server] = "request"
    /\ s \in alive /\ view[s] \in Window
    /\ subject' = s
    /\ Goto(Server, "locked")
    /\ UNCHANGED <<surfaceVars, windowVars, envVars, lockVars, op, target, detachLooper,
                   localLocked, unlocked, handlerVars, seatVars>>

LockedRequest ==
    /\ pc[Server] = "locked"
    /\ CanLock(Server, view[subject])
    /\ subject' = None
    /\ EndRequest
    /\ UNCHANGED <<surfaceVars, windowVars, envVars, looper, op, target, detachLooper,
                   localLocked, unlocked, handlerVars, seatVars>>

(* HaikuSubsurface::Create.  BView::AddChild locks the window it adds to. *)
CreateSubsurface(s) ==
    /\ pc[Server] = "request"
    /\ s \in alive /\ ~HasRole(s) /\ Parent[s] \in alive
    /\ sub' = [sub EXCEPT ![s] = "linked"]
    /\ IF view[Parent[s]] = None
       THEN EndRequest /\ UNCHANGED subject
       ELSE Goto(Server, "attach") /\ subject' = s /\ UNCHANGED server
    /\ UNCHANGED <<alive, view, windowVars, envVars, looper, op, target, detachLooper,
                   localLocked, unlocked, handlerVars, seatVars>>

AttachView ==
    LET where == view[Parent[subject]] IN
    /\ pc[Server] = "attach"
    /\ where \in Window => CanLock(Server, where)
    /\ view' = [c \in Surface |->
                  IF c = subject \/ c \in SubsurfacesOf(subject) THEN where ELSE view[c]]
    /\ subject' = None
    /\ EndRequest
    /\ UNCHANGED <<alive, sub, windowVars, envVars, looper, op, target, detachLooper,
                   localLocked, unlocked, handlerVars, seatVars>>

(* HaikuSurface::Detach, up to the point where it holds the looper. *)
BeginDetach(s, what) ==
    /\ pc[Server] = "request"
    /\ op' = what
    /\ subject' = s
    /\ target' = s
    /\ Goto(Server, CASE view[s] = None      -> "detached"
                      [] view[s] = Orphan    -> "remove"
                      [] OTHER               -> "detach")
    /\ detachLooper' = IF view[s] \in Window THEN view[s] ELSE None
    /\ UNCHANGED <<surfaceVars, windowVars, envVars, lockVars, localLocked, unlocked,
                   handlerVars, seatVars>>

(* ~HaikuSubsurface. *)
DestroySubsurface(s) == s \in alive /\ sub[s] # "none" /\ BeginDetach(s, "subsurface")

(* ~HaikuXdgToplevel and ~HaikuXdgPopup. *)
DestroyWindowRole(w) == root[w] # None /\ BeginDetach(root[w], "window")

DetachLock ==
    /\ pc[Server] = "detach"
    /\ CanLock(Server, detachLooper)
    /\ looper' = Locked(Server, detachLooper)
    /\ Goto(Server, "remove")
    /\ UNCHANGED <<surfaceVars, windowVars, envVars, server, detachVars, handlerVars, seatVars>>

(* ChildAt(0): the views of the subsurfaces, children first. *)
ChildViews(s) == {c \in SubsurfacesOf(s) : view[c] \in Window /\ view[c] = view[s]}

RemoveDescendant ==
    /\ pc[Server] = "remove"
    /\ target' \in ChildViews(target)
    /\ UNCHANGED <<surfaceVars, windowVars, envVars, lockVars, pc, op, subject, detachLooper,
                   localLocked, unlocked, handlerVars, seatVars>>

(* Faulty: the removal does not wait for the view's env. *)
RemovedWithoutWait ==
    /\ pc[Server] = "remove"
    /\ ChildViews(target) = {}
    /\ Goto(Server, "removeSelf")
    /\ UNCHANGED <<surfaceVars, windowVars, envVars, lockVars, detachVars, handlerVars, seatVars>>

DescendantsRemoved ==
    /\ pc[Server] = "remove"
    /\ ChildViews(target) = {}
    /\ Goto(Server, IF target \in active THEN "waitRelease" ELSE "removeSelf")
    /\ UNCHANGED <<surfaceVars, windowVars, envVars, lockVars, detachVars, handlerVars, seatVars>>

RemoveSelf ==
    /\ pc[Server] = "removeSelf"
    /\ view' = [view EXCEPT ![target] = Orphan]
    /\ IF target = subject
       THEN Goto(Server, "delete") /\ UNCHANGED target
       ELSE Goto(Server, "remove") /\ target' = Parent[target]
    /\ UNCHANGED <<alive, sub, windowVars, envVars, lockVars, op, subject, detachLooper,
                   localLocked, unlocked, handlerVars, seatVars>>

DeleteView ==
    /\ pc[Server] = "delete"
    /\ view' = [view EXCEPT ![subject] = None]
    /\ looper' = IF detachLooper = None THEN looper ELSE Unlocked(detachLooper)
    /\ Goto(Server, "detached")
    /\ UNCHANGED <<alive, sub, windowVars, envVars, server, detachVars, handlerVars, seatVars>>

(* Faulty: the window is not asked to quit. *)
DetachedSilently ==
    /\ pc[Server] = "detached"
    /\ sub' = IF op = "subsurface" THEN [sub EXCEPT ![subject] = "none"] ELSE sub
    /\ root' = [w \in Window |-> IF op = "window" /\ root[w] = subject THEN None ELSE root[w]]
    /\ op' = "none" /\ subject' = None /\ target' = None /\ detachLooper' = None
    /\ EndRequest
    /\ UNCHANGED <<alive, view, window, quitPosted, envVars, looper, localLocked, unlocked,
                   handlerVars, seatVars>>

(* What the destructors do once HaikuSurface::Detach has returned. *)
Detached ==
    /\ pc[Server] = "detached"
    /\ \/ /\ op = "subsurface"
          /\ sub' = [sub EXCEPT ![subject] = "none"]
          /\ UNCHANGED windowVars
       \/ /\ op = "window"
          /\ root' = [w \in Window |-> IF root[w] = subject THEN None ELSE root[w]]
          /\ quitPosted' = [w \in Window |-> quitPosted[w] \/ root[w] = subject]
          /\ UNCHANGED <<sub, window>>
    /\ op' = "none" /\ subject' = None /\ target' = None /\ detachLooper' = None
    /\ EndRequest
    /\ UNCHANGED <<alive, view, envVars, looper, localLocked, unlocked, handlerVars, seatVars>>

-----------------------------------------------------------------------------
(* WaylandEnv::Wait, called with both locks held. *)

(* Faulty: the server lock is kept for the wait. *)
WaitHoldingServer ==
    /\ pc[Server] = "waitRelease"
    /\ localLocked' = looper[detachLooper].count - 1
    /\ looper' = [looper EXCEPT ![detachLooper].count = 1]
    /\ Goto(Server, "waitPoll")
    /\ UNCHANGED <<surfaceVars, windowVars, envVars, server, op, subject, target, detachLooper,
                   unlocked, handlerVars, seatVars>>

(* The server looper is locked once here: no request nests it. *)
WaitRelease ==
    /\ pc[Server] = "waitRelease"
    /\ server' = None
    /\ localLocked' = looper[detachLooper].count - 1
    /\ looper' = [looper EXCEPT ![detachLooper].count = 1]
    /\ Goto(Server, "waitPoll")
    /\ UNCHANGED <<surfaceVars, windowVars, envVars, op, subject, target, detachLooper,
                   unlocked, handlerVars, seatVars>>

(* Faulty: it sleeps without looking whether the env is still open. *)
WaitPollBlindly ==
    /\ pc[Server] = "waitPoll"
    /\ sem' = 0
    /\ waitSem' = waitSem \cup {target}
    /\ looper' = Unlocked(detachLooper)
    /\ Goto(Server, "waitSem")
    /\ UNCHANGED <<surfaceVars, windowVars, active, server, detachVars, handlerVars, seatVars>>

WaitPoll ==
    /\ pc[Server] = "waitPoll"
    /\ target \in active
    /\ sem' = 0
    /\ waitSem' = waitSem \cup {target}
    /\ looper' = Unlocked(detachLooper)
    /\ Goto(Server, "waitSem")
    /\ UNCHANGED <<surfaceVars, windowVars, active, server, detachVars, handlerVars, seatVars>>

WaitSem ==
    /\ pc[Server] = "waitSem"
    /\ sem > 0
    /\ sem' = sem - 1
    /\ Goto(Server, "waitRelock")
    /\ UNCHANGED <<surfaceVars, windowVars, active, waitSem, lockVars, detachVars, handlerVars,
                   seatVars>>

WaitRelock ==
    /\ pc[Server] = "waitRelock"
    /\ CanLock(Server, detachLooper)
    /\ looper' = Locked(Server, detachLooper)
    /\ Goto(Server, "waitPoll")
    /\ UNCHANGED <<surfaceVars, windowVars, envVars, server, detachVars, handlerVars, seatVars>>

(* LockWithTimeout(0): with the looper held the server lock is only tried. *)
WaitTry ==
    /\ pc[Server] = "waitPoll"
    /\ target \notin active
    /\ \/ /\ server = None
          /\ server' = Server
          /\ unlocked' = FALSE
          /\ Goto(Server, "waitLooper")
          /\ UNCHANGED <<looper, localLocked>>
       \/ /\ server # None
          /\ looper' = Unlocked(detachLooper)
          /\ localLocked' = localLocked + 1
          /\ unlocked' = TRUE
          /\ Goto(Server, "waitServer")
          /\ UNCHANGED server
    /\ UNCHANGED <<surfaceVars, windowVars, envVars, op, subject, target, detachLooper,
                   handlerVars, seatVars>>

WaitServer ==
    /\ pc[Server] = "waitServer"
    /\ server = None
    /\ server' = Server
    /\ Goto(Server, "waitLooper")
    /\ UNCHANGED <<surfaceVars, windowVars, envVars, looper, detachVars, handlerVars, seatVars>>

WaitLooper ==
    /\ pc[Server] = "waitLooper"
    /\ localLocked # 0
    /\ CanLock(Server, detachLooper)
    /\ looper' = Locked(Server, detachLooper)
    /\ localLocked' = localLocked - 1
    /\ UNCHANGED <<surfaceVars, windowVars, envVars, server, pc, op, subject, target,
                   detachLooper, unlocked, handlerVars, seatVars>>

(* Faulty: it does not look again after it unlocked the looper. *)
WaitWithoutRecheck ==
    /\ pc[Server] = "waitLooper"
    /\ localLocked = 0
    /\ Goto(Server, "removeSelf")
    /\ unlocked' = FALSE
    /\ UNCHANGED <<surfaceVars, windowVars, envVars, lockVars, op, subject, target, detachLooper,
                   localLocked, handlerVars, seatVars>>

(* A handler may have opened an env while the looper was unlocked. *)
WaitRecheck ==
    /\ pc[Server] = "waitLooper"
    /\ localLocked = 0
    /\ Goto(Server, IF unlocked /\ target \in active THEN "waitRelease" ELSE "removeSelf")
    /\ unlocked' = FALSE
    /\ UNCHANGED <<surfaceVars, windowVars, envVars, lockVars, op, subject, target, detachLooper,
                   localLocked, handlerVars, seatVars>>

-----------------------------------------------------------------------------
(* The looper thread of window w. *)

(* BLooper's loop locks the looper around every message it dispatches. *)
TakeMessage(w) ==
    /\ pc[w] = "idle"
    /\ window[w] = "open"
    /\ looper[w].owner = None
    /\ looper' = Locked(w, w)
    /\ Goto(w, "dispatch")
    /\ UNCHANGED <<surfaceVars, windowVars, envVars, server, detachVars, handlerVars, seatVars>>

(* Faulty: the looper stays locked while the handler waits for the server. *)
OpenEnvLocked(w, v) ==
    /\ pc[w] = "dispatch"
    /\ active' = IF v = None THEN active ELSE active \cup {v}
    /\ handling' = [handling EXCEPT ![w] = v]
    /\ routed' = [routed EXCEPT ![w] = v]
    /\ UNCHANGED <<surfaceVars, window, root, waitSem, sem, lockVars, detachVars, quits, seatVars>>

(* WaylandEnv's constructor up to the wait for the server lock. *)
OpenEnv(w, v) ==
    /\ pc[w] = "dispatch"
    /\ active' = IF v = None THEN active ELSE active \cup {v}
    /\ handling' = [handling EXCEPT ![w] = v]
    /\ routed' = [routed EXCEPT ![w] = v]
    /\ looper' = Unlocked(w)
    /\ UNCHANGED <<surfaceVars, window, root, waitSem, sem, server, detachVars, quits, seatVars>>

(* WindowActivated, MessageReceived and Draw of a view in the window. *)
ViewMessage(w, v) ==
    /\ view[v] = w
    /\ OpenEnv(w, v)
    /\ Goto(w, "enter")
    /\ UNCHANGED quitPosted

(* WindowActivated and FrameResized of the window itself. *)
WindowMessage(w) ==
    /\ OpenEnv(w, None)
    /\ Goto(w, "enter")
    /\ UNCHANGED quitPosted

QuitMessage(w) ==
    /\ \/ quitPosted[w] /\ quitPosted' = [quitPosted EXCEPT ![w] = FALSE]
       \/ w \in UserQuits /\ UNCHANGED quitPosted
    /\ OpenEnv(w, None)
    /\ Goto(w, "enterQuit")

EnterServer(w) ==
    /\ pc[w] \in {"enter", "enterQuit"}
    /\ server = None
    /\ server' = w
    /\ Goto(w, IF pc[w] = "enter" THEN "body" ELSE "quit")
    /\ UNCHANGED <<surfaceVars, windowVars, envVars, looper, detachVars, handlerVars, seatVars>>

(* WaylandView::WindowActivated and HaikuSeatGlobal::SetKeyboardFocus. *)
ViewActivated(w) ==
    LET s == handling[w] IN
    /\ pc[w] = "body" /\ s # None /\ sub[s] = "none"
    /\ kfocus' \in {s, IF kfocus = s THEN None ELSE kfocus}
    /\ Goto(w, "leave")
    /\ UNCHANGED <<surfaceVars, windowVars, envVars, lockVars, detachVars, handlerVars, pfocus>>

(* WaylandView::MessageReceived walks up from a view whose input region    *)
(* misses the point; converting the point locks the window.                *)
RouteToParent(w) ==
    /\ pc[w] = "body" /\ handling[w] # None
    /\ sub[routed[w]] = "linked"
    /\ CanLock(w, w)
    /\ routed' = [routed EXCEPT ![w] = Parent[routed[w]]]
    /\ UNCHANGED <<surfaceVars, windowVars, envVars, lockVars, pc, detachVars, handling, quits,
                   seatVars>>

(* HaikuSeatGlobal::MessageReceived gives the pointer focus or takes it. *)
PointerMessage(w) ==
    /\ pc[w] = "body" /\ handling[w] # None
    /\ pfocus' \in {routed[w], IF pfocus = routed[w] THEN None ELSE pfocus}
    /\ Goto(w, "leave")
    /\ UNCHANGED <<surfaceVars, windowVars, envVars, lockVars, detachVars, handlerVars, kfocus>>

(* WaylandView::Draw and others nest LockedPtr(this) inside the env. *)
NestLock(w) ==
    /\ pc[w] = "body"
    /\ Goto(w, "nested")
    /\ UNCHANGED <<surfaceVars, windowVars, envVars, lockVars, detachVars, handlerVars, seatVars>>

Nested(w) ==
    /\ pc[w] = "nested"
    /\ CanLock(w, w)
    /\ Goto(w, "leave")
    /\ UNCHANGED <<surfaceVars, windowVars, envVars, lockVars, detachVars, handlerVars, seatVars>>

(* Faulty: the window quits whether its role object is there or not. *)
QuitAlways(w) ==
    /\ pc[w] = "quit"
    /\ quits' = [quits EXCEPT ![w] = TRUE]
    /\ Goto(w, "leave")
    /\ UNCHANGED <<surfaceVars, windowVars, envVars, lockVars, detachVars, handling, routed,
                   seatVars>>

(* WaylandWindow::QuitRequested and WaylandPopupWindow::QuitRequested. *)
QuitRequested(w) ==
    /\ pc[w] = "quit"
    /\ quits' = [quits EXCEPT ![w] = root[w] = None \/ w \in Popup]
    /\ Goto(w, "leave")
    /\ UNCHANGED <<surfaceVars, windowVars, envVars, lockVars, detachVars, handling, routed,
                   seatVars>>

(* WaylandEnv's destructor: the server lock goes first, then the looper is *)
(* taken back, the pointer cleared and a waiting Wait woken.               *)
LeaveServer(w) ==
    /\ pc[w] = "leave"
    /\ server' = None
    /\ Goto(w, "close")
    /\ UNCHANGED <<surfaceVars, windowVars, envVars, looper, detachVars, handlerVars, seatVars>>

(* Faulty: fActiveWlEnv keeps pointing to the env. *)
CloseEnvKept(w) ==
    /\ pc[w] = "close"
    /\ CanLock(w, w)
    /\ looper' = Locked(w, w)
    /\ waitSem' = waitSem \ {handling[w]}
    /\ sem' = IF handling[w] \in waitSem THEN sem + 1 ELSE sem
    /\ Goto(w, "return")
    /\ UNCHANGED <<surfaceVars, windowVars, active, server, detachVars, handlerVars, seatVars>>

(* Faulty: the env closes without waking who waits for it. *)
CloseEnvSilently(w) ==
    /\ pc[w] = "close"
    /\ CanLock(w, w)
    /\ looper' = Locked(w, w)
    /\ active' = active \ {handling[w]}
    /\ waitSem' = waitSem \ {handling[w]}
    /\ Goto(w, "return")
    /\ UNCHANGED <<surfaceVars, windowVars, sem, server, detachVars, handlerVars, seatVars>>

CloseEnv(w) ==
    /\ pc[w] = "close"
    /\ CanLock(w, w)
    /\ looper' = Locked(w, w)
    /\ active' = active \ {handling[w]}
    /\ waitSem' = waitSem \ {handling[w]}
    /\ sem' = IF handling[w] \in waitSem THEN sem + 1 ELSE sem
    /\ Goto(w, "return")
    /\ UNCHANGED <<surfaceVars, windowVars, server, detachVars, handlerVars, seatVars>>

(* The handler returns; a window that agreed to quit deletes itself. *)
HandlerReturns(w) ==
    /\ pc[w] = "return"
    /\ window' = [window EXCEPT ![w] = IF quits[w] THEN "none" ELSE @]
    /\ quitPosted' = [quitPosted EXCEPT ![w] = @ /\ ~quits[w]]
    /\ looper' = Unlocked(w)
    /\ handling' = [handling EXCEPT ![w] = None]
    /\ routed' = [routed EXCEPT ![w] = None]
    /\ quits' = [quits EXCEPT ![w] = FALSE]
    /\ Goto(w, "idle")
    /\ UNCHANGED <<surfaceVars, root, envVars, server, detachVars, seatVars>>

-----------------------------------------------------------------------------
ClientRequest ==
    \/ \E s \in Surface : CreateSurface(s) \/ DestroySurface(s) \/ CreateSubsurface(s)
                          \/ DestroySubsurface(s) \/ BeginLockedRequest(s)
    \/ \E s \in Surface, w \in Window : CreateWindow(s, w)
    \/ \E w \in Window : ShowWindow(w) \/ DestroyWindowRole(w)

DetachStep == RemoveDescendant \/ DescendantsRemoved \/ RemoveSelf \/ DeleteView \/ Detached

WaitStep == WaitRelease \/ WaitPoll \/ WaitSem \/ WaitTry \/ WaitRecheck

(* The steps of the server thread that block on a lock. *)
ServerLockStep == LockedRequest \/ AttachView \/ DetachLock \/ WaitRelock \/ WaitServer \/ WaitLooper

Body(w) ==
    ViewActivated(w) \/ RouteToParent(w) \/ PointerMessage(w) \/ NestLock(w) \/ QuitRequested(w)

Receive(w) == (\E v \in Surface : ViewMessage(w, v)) \/ WindowMessage(w) \/ QuitMessage(w)

WindowStep(w) ==
    \/ TakeMessage(w) \/ Receive(w) \/ EnterServer(w) \/ Body(w) \/ Nested(w)
    \/ LeaveServer(w) \/ CloseEnv(w) \/ HandlerReturns(w)

ServerStep == Dispatch \/ ClientRequest \/ DetachStep \/ WaitStep \/ ServerLockStep

Next == ServerStep \/ \E w \in Window : WindowStep(w)

Spec == Init /\ [][Next]_vars

(* The steps a window thread takes once it has a message, and taking one    *)
(* when a quit request waits in its queue.                                  *)
HandlerStep(w) ==
    \/ TakeMessage(w) /\ quitPosted[w]
    \/ Receive(w) \/ EnterServer(w)
    \/ ViewActivated(w) \/ PointerMessage(w) \/ NestLock(w) \/ QuitRequested(w)
    \/ Nested(w) \/ LeaveServer(w) \/ CloseEnv(w) \/ HandlerReturns(w)

(* A thread inside a request or a handler keeps running, and a lock goes to *)
(* its waiters in turn (Haiku's semaphores queue them), so a thread offered *)
(* its next step again and again takes it.  A posted quit request reaches   *)
(* the head of its window's queue.  Nothing makes new messages come.        *)
Fairness ==
    /\ SF_vars(ClientRequest \/ DetachStep \/ WaitStep \/ ServerLockStep)
    /\ \A w \in Window : SF_vars(HandlerStep(w)) /\ SF_vars(QuitMessage(w) /\ quitPosted[w])

FairSpec == Spec /\ Fairness
-----------------------------------------------------------------------------
(* Properties *)

Label == {"idle", "request", "locked", "attach", "detach", "remove", "removeSelf", "delete",
          "detached", "waitRelease", "waitPoll", "waitSem", "waitRelock", "waitServer",
          "waitLooper", "dispatch", "enter", "enterQuit", "body", "quit", "nested", "leave",
          "close", "return"}

(* Every variable stays in its type. *)
TypeOK ==
    /\ alive \subseteq Surface
    /\ sub \in [Surface -> {"none", "linked", "unlinked"}]
    /\ view \in [Surface -> Window \cup {None, Orphan}]
    /\ window \in [Window -> {"none", "hidden", "open"}]
    /\ root \in [Window -> Surface \cup {None}]
    /\ quitPosted \in [Window -> BOOLEAN]
    /\ active \subseteq Surface
    /\ waitSem \subseteq Surface
    /\ sem \in Nat
    /\ server \in Thread \cup {None}
    /\ looper \in [Window -> [owner : Thread \cup {None}, count : Nat]]
    /\ pc \in [Thread -> Label]
    /\ op \in {"none", "subsurface", "window"}
    /\ subject \in Surface \cup {None}
    /\ target \in Surface \cup {None}
    /\ detachLooper \in Window \cup {None}
    /\ localLocked \in Nat
    /\ unlocked \in BOOLEAN
    /\ handling \in [Window -> Surface \cup {None}]
    /\ routed \in [Window -> Surface \cup {None}]
    /\ quits \in [Window -> BOOLEAN]
    /\ kfocus \in Surface \cup {None}
    /\ pfocus \in Surface \cup {None}

(* A window thread is inside a WaylandEnv it opened for a view. *)
InEnv(w) == pc[w] \in {"enter", "body", "nested", "leave", "close"}

(* The view a handler runs on is neither removed nor deleted, and its       *)
(* surface not destroyed, from the moment the handler gives its looper lock *)
(* away until it has it back: Detach waits for fActiveWlEnv to be NULL.     *)
EnvKeepsView ==
    \A w \in Window : InEnv(w) /\ handling[w] # None =>
        /\ view[handling[w]] = w
        /\ handling[w] \in alive
        /\ handling[w] \in active

(* The Asserts of WaylandEnv.h that abort the program never fail: a view    *)
(* has no env when a handler opens one, the looper is locked exactly once   *)
(* when it does, and nobody else waits on the env that Wait wants to end.   *)
EnvAsserts ==
    /\ \A w \in Window : pc[w] = "dispatch" =>
          /\ looper[w] = [owner |-> w, count |-> 1]
          /\ \A v \in active : view[v] # w
    /\ pc[Server] = "waitPoll" => target \notin waitSem

(* A surface without a role has no view: AttachWindow's Assert(fView ==     *)
(* NULL) holds for the next role, and ~HaikuSurface leaves no view behind.  *)
RolelessHasNoView == \A s \in Surface : ~HasRole(s) => view[s] = None

(* The seat never keeps a pointer to a destroyed surface, whatever handler  *)
(* was waiting for the server lock when the client tore the surface down.   *)
FocusAlive == {kfocus, pfocus} \subseteq alive \cup {None}

(* A window deletes itself only when no WaylandView is left in it: the      *)
(* debugger call "bad deletion" in ~WaylandView is never reached.           *)
NoBadDeletion ==
    \A w \in Window : pc[w] = "return" /\ quits[w] => \A s \in Surface : view[s] # w

(* The lock order is server before looper: whoever waits for the server     *)
(* lock holds no window's looper, except the creator of a hidden window.    *)
LockOrder ==
    /\ \A w \in Window : pc[w] \in {"enter", "enterQuit"} => looper[w].owner # w
    /\ pc[Server] \in {"idle", "waitServer", "waitSem"} =>
          \A w \in Window : window[w] = "open" => looper[w].owner # Server

(* The windows whose looper lock a thread is about to take. *)
AtLooper(t) ==
    {w \in Window :
        \/ t = w /\ pc[w] \in {"body", "nested", "close"}
        \/ t = w /\ pc[w] = "idle" /\ window[w] = "open"
        \/ t = Server /\ pc[t] = "locked" /\ view[subject] = w
        \/ t = Server /\ pc[t] = "attach" /\ view[Parent[subject]] = w
        \/ t = Server /\ pc[t] \in {"detach", "waitRelock"} /\ detachLooper = w
        \/ t = Server /\ pc[t] = "waitLooper" /\ localLocked # 0 /\ detachLooper = w}

AtServer(t) ==
    \/ t \in Window /\ pc[t] \in {"enter", "enterQuit"}
    \/ t = Server /\ pc[t] \in {"idle", "waitServer"}

(* The threads that must do something before t goes on: give back the lock  *)
(* it is about to take, or close the env that Wait sleeps on.               *)
WaitsFor(t) ==
    {o \in Thread \ {t} :
        \/ AtServer(t) /\ server = o
        \/ \E w \in AtLooper(t) : looper[w].owner = o
        \/ t = Server /\ pc[t] = "waitSem" /\ sem = 0 /\ o \in Window /\ handling[o] = target}

(* Nobody waits for himself, over any number of threads: whichever threads  *)
(* are looked at, one of them waits for none of the others.  The locks and  *)
(* the sleep in Wait together never block the server and the windows.       *)
NoCircularWait == \A T \in SUBSET Thread : T # {} => \E t \in T : WaitsFor(t) \cap T = {}

(* The sleep in Wait is never lost: a post is pending, or the env it waits  *)
(* for is still open and knows the semaphore.                               *)
WakeupNotLost ==
    pc[Server] = "waitSem" => sem > 0 \/ target \in active \cap waitSem

(* The locking, waiting and teardown implement the views' lifecycle: no view *)
(* leaves its window under a running handler, no surface is destroyed while  *)
(* shown, and focus only ever goes to a surface on screen.                   *)
Lifecycle == INSTANCE ViewLifecycle WITH
    live  <- alive,
    shown <- {s \in Surface : view[s] \in Window},
    busy  <- active,
    focus <- {kfocus, pfocus} \ {None}

ImplementsLifecycle == Lifecycle!Spec

(* Detach ends, though it gives up both locks to wait for handlers, unless *)
(* messages for views keep coming for ever: each may open an env before    *)
(* Wait has the looper back.                                               *)
DetachCompletes ==
    \/ []<><<\E w \in Window, v \in Surface : ViewMessage(w, v)>>_vars
    \/ pc[Server] \in {"detach", "remove"} ~> pc[Server] = "idle"

(* A handler that gave up its looper for the server lock returns. *)
EnvCloses == \A w \in Window : pc[w] \in {"enter", "enterQuit"} ~> pc[w] = "idle"

(* A shown window closes once its role object is destroyed. *)
WindowCloses ==
    \A w \in Window : window[w] = "open" /\ root[w] = None ~> window[w] = "none"
=============================================================================
