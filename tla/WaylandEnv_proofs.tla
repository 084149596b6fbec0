------------------------- MODULE WaylandEnv_proofs --------------------------
(***************************************************************************)
(* Proofs about WaylandEnv for every set of surfaces and windows: its      *)
(* invariants, and that it implements ViewLifecycle.                       *)
(***************************************************************************)
EXTENDS WaylandEnv, TLAPS

(* Surfaces and windows: roles are held by live surfaces, one window each, *)
(* and a surface has a view only under a role.                             *)
RoleInv ==
    /\ \A s \in Surface : sub[s] # "none" => s \in alive /\ Parent[s] # None
    /\ \A s \in Surface : sub[s] = "linked" => Parent[s] \in alive
    /\ \A w \in Window : root[w] # None => root[w] \in alive /\ Parent[root[w]] = None
    /\ \A w, x \in Window : root[w] = root[x] /\ root[w] # None => w = x
    /\ RolelessHasNoView

(* A view in a window is the root's, or below its parent's view. *)
TreeInv ==
    \A s \in Surface : view[s] \in Window =>
        \/ sub[s] = "none" /\ root[view[s]] = s
        \/ sub[s] = "linked" /\ view[Parent[s]] = view[s]

(* The server thread owns detachLooper's lock in these places. *)
HoldsLooper ==
    \/ pc[Server] \in {"remove", "removeSelf", "delete", "waitRelease", "waitPoll"}
    \/ pc[Server] = "waitLooper" /\ localLocked = 0

Depth(w) == (IF window[w] = "hidden" THEN 1 ELSE 0)
             + (IF detachLooper = w /\ HoldsLooper THEN 1 ELSE 0)

(* Who owns each looper, and how often, is a function of the places. *)
LooperInv ==
    \A w \in Window :
        /\ looper[w] = IF pc[w] \in {"dispatch", "return"} THEN [owner |-> w, count |-> 1]
                       ELSE IF Depth(w) = 0 THEN Free
                       ELSE [owner |-> Server, count |-> Depth(w)]
        /\ pc[w] \in {"dispatch", "return"} => Depth(w) = 0
        /\ window[w] # "open" => pc[w] = "idle"

(* fActiveWlEnv is set exactly while the window's thread is in that env. *)
ActiveInv ==
    /\ \A w \in Window : InEnv(w) /\ handling[w] # None => handling[w] \in active /\ view[handling[w]] = w
    /\ \A s \in active : view[s] \in Window /\ InEnv(view[s]) /\ handling[view[s]] = s
    /\ \A w \in Window : pc[w] \in {"enterQuit", "quit"} => handling[w] = None

Waiting == {"waitRelease", "waitPoll", "waitSem", "waitRelock", "waitServer", "waitLooper"}

(* S is the way from s up to t along SurfaceList links, in window w, for    *)
(* the views v and the subsurface roles m.                                  *)
Path(v, m, S, s, t, w) ==
    /\ s \in S /\ t \in S
    /\ \A p \in S : v[p] = w
    /\ \A p \in S : p = t \/ (m[p] = "linked" /\ Parent[p] \in S)
    /\ \A p \in S : p = s \/ \E c \in S : m[c] = "linked" /\ Parent[c] = p

Below(v, m, s, t, w) == \E S \in SUBSET Surface : Path(v, m, S, s, t, w)

(* Where the server thread is in Detach, and what that says of the views. *)
DetachInv ==
    /\ pc[Server] \in {"detach", "remove", "removeSelf", "delete", "detached"} \cup Waiting =>
         /\ subject \in Surface /\ HasRole(subject)
         /\ op \in {"subsurface", "window"}
         /\ op = "subsurface" => sub[subject] # "none"
         /\ op = "window" => \E w \in Window : root[w] = subject
    /\ pc[Server] \in {"detach", "remove", "removeSelf"} \cup Waiting =>
         \/ detachLooper = None /\ target = subject /\ view[target] = Orphan
            /\ pc[Server] \in {"remove", "removeSelf"}
         \/ detachLooper \in Window
            /\ Below(view, sub, target, subject, detachLooper)
    /\ pc[Server] = "detach" => target = subject
    /\ pc[Server] = "delete" => view[subject] = Orphan
    /\ pc[Server] = "detached" => view[subject] = None
    /\ pc[Server] \in {"removeSelf"} \cup Waiting => ChildViews(target) = {}
    /\ pc[Server] = "removeSelf" => target \notin active
    /\ pc[Server] = "waitRelease" => target \in active

(* The other requests that work in two steps. *)
RequestInv ==
    /\ pc[Server] = "attach" => /\ subject \in alive /\ sub[subject] = "linked"
                                /\ view[subject] = None /\ view[Parent[subject]] # None
    /\ pc[Server] = "locked" => subject \in alive /\ view[subject] \in Window

(* The semaphore handshake, and the locals of WaylandEnv::Wait. *)
WaitInv ==
    /\ \A s \in waitSem : s \in active /\ s = target /\ pc[Server] = "waitSem"
    /\ pc[Server] = "waitSem" =>
         \/ sem = 0 /\ target \in waitSem
         \/ sem = 1 /\ waitSem = {}
    /\ pc[Server] = "waitServer" => localLocked = 1 /\ unlocked
    /\ pc[Server] = "waitLooper" => localLocked = 0 \/ (localLocked = 1 /\ unlocked)
    /\ pc[Server] = "waitLooper" /\ ~unlocked => target \notin active
    /\ pc[Server] \notin {"waitServer", "waitLooper"} => localLocked = 0

(* What a window thread keeps while it is in an env: a way from the view of *)
(* its handler up to the view it routed the message to.                     *)
RouteInv ==
    \A w \in Window : InEnv(w) /\ handling[w] # None =>
        Below(view, sub, handling[w], routed[w], w)

QuitInv ==
    /\ \A w \in Window : quits[w] => pc[w] \in {"leave", "close", "return"}
    /\ UserQuits \cap Popup = {} =>
         \A w \in Window :
           /\ root[w] # None => window[w] # "none"
           /\ quitPosted[w] => root[w] = None /\ window[w] # "none"
           /\ quits[w] => root[w] = None
           /\ w \in Popup /\ pc[w] \in {"enterQuit", "quit"} => root[w] = None

IInv ==
    /\ TypeOK /\ RoleInv /\ TreeInv /\ LooperInv /\ ActiveInv /\ DetachInv /\ RequestInv
    /\ WaitInv /\ RouteInv /\ FocusAlive /\ QuitInv
-----------------------------------------------------------------------------
USE DistinctAssumption, ParentAssumption DEF Thread, Label,
    surfaceVars, windowVars, envVars, lockVars, detachVars, handlerVars, seatVars,
    Goto, EndRequest

(* The ends of a way, and its first link. *)
LEMMA BelowEnds ==
  ASSUME NEW v, NEW m, NEW s, NEW t, NEW w, Below(v, m, s, t, w)
  PROVE  /\ s \in Surface /\ t \in Surface /\ v[s] = w /\ v[t] = w
         /\ s # t => m[s] = "linked" /\ Parent[s] \in Surface /\ v[Parent[s]] = w
  BY DEF Below, Path

LEMMA BelowSelf ==
  ASSUME NEW v, NEW m, NEW s \in Surface, NEW w, v[s] = w
  PROVE  Below(v, m, s, s, w)
<1>1. Path(v, m, {s}, s, s, w)
  BY DEF Path
<1> QED
  BY <1>1 DEF Below

(* The way grows by a link at either end. *)
LEMMA BelowUp ==
  ASSUME NEW v, NEW m, NEW s, NEW t, NEW w, Below(v, m, s, t, w),
         m[t] = "linked", Parent[t] \in Surface, v[Parent[t]] = w
  PROVE  Below(v, m, s, Parent[t], w)
<1>1. PICK S \in SUBSET Surface : Path(v, m, S, s, t, w)
  BY DEF Below
<1>2. Path(v, m, S \cup {Parent[t]}, s, Parent[t], w)
  BY <1>1 DEF Path
<1> QED
  BY <1>1, <1>2 DEF Below

LEMMA BelowDown ==
  ASSUME NEW v, NEW m, NEW s, NEW t, NEW w, Below(v, m, s, t, w),
         NEW c \in Surface, m[c] = "linked", Parent[c] = s, v[c] = w
  PROVE  Below(v, m, c, t, w)
<1>1. PICK S \in SUBSET Surface : Path(v, m, S, s, t, w)
  BY DEF Below
<1>2. Path(v, m, S \cup {c}, c, t, w)
  BY <1>1 DEF Path
<1> QED
  BY <1>1, <1>2 DEF Below

(* Nothing on the way changes when the window's views do not. *)
LEMMA BelowKept ==
  ASSUME NEW v, NEW m, NEW s, NEW t, NEW w, Below(v, m, s, t, w), NEW vv, NEW mm,
         \A p \in Surface : v[p] = w => vv[p] = v[p] /\ mm[p] = m[p]
  PROVE  Below(vv, mm, s, t, w)
<1>1. PICK S \in SUBSET Surface : Path(v, m, S, s, t, w)
  BY DEF Below
<1>2. \A p \in S : p \in Surface /\ v[p] = w
  BY <1>1 DEF Path
<1>3. \A p \in S : vv[p] = v[p] /\ mm[p] = m[p]
  BY <1>2
<1>4. Path(vv, mm, S, s, t, w)
  BY <1>1, <1>3 DEF Path
<1> QED
  BY <1>1, <1>4 DEF Below

(* A view without child views lies on no way, except where one starts. *)
LEMMA BelowRemove ==
  ASSUME NEW v, NEW m, NEW s, NEW t, NEW w, Below(v, m, s, t, w), NEW x \in Surface, NEW vv,
         \A c \in Surface : m[c] = "linked" /\ Parent[c] = x => v[c] # w,
         \A p \in Surface : p # x => vv[p] = v[p],
         s # x
  PROVE  Below(vv, m, s, t, w)
<1>1. PICK S \in SUBSET Surface : Path(v, m, S, s, t, w)
  BY DEF Below
<1>2. x \notin S
  BY <1>1 DEF Path
<1>3. \A p \in S : vv[p] = v[p]
  BY <1>2
<1>4. Path(vv, m, S, s, t, w)
  BY <1>1, <1>3 DEF Path
<1> QED
  BY <1>1, <1>4 DEF Below

(* Removing the view a way starts at leaves the way from its parent. *)
LEMMA BelowDrop ==
  ASSUME NEW v, NEW m, NEW s, NEW t, NEW w, Below(v, m, s, t, w), NEW vv,
         \A c \in Surface : m[c] = "linked" /\ Parent[c] = s => v[c] # w,
         \A p \in Surface : p # s => vv[p] = v[p],
         s # t
  PROVE  Below(vv, m, Parent[s], t, w)
<1>1. PICK S \in SUBSET Surface : Path(v, m, S, s, t, w)
  BY DEF Below
<1>2. \A p \in S : p = t \/ Parent[p] # s
  BY <1>1 DEF Path
<1>3. Parent[s] \in S \ {s}
  BY <1>1, <1>2 DEF Path
<1>4. Path(vv, m, S \ {s}, Parent[s], t, w)
  BY <1>1, <1>2, <1>3 DEF Path
<1> QED
  BY <1>1, <1>4 DEF Below

LEMMA TreeStep == ASSUME IInv, [Next]_vars PROVE TreeInv'
<1> USE DEF IInv, TypeOK, TreeInv
<1>1. ASSUME NEW s \in Surface, DestroySurface(s) PROVE TreeInv'
  BY <1>1 DEF DestroySurface, SubsurfacesOf, RoleInv, RolelessHasNoView
<1>2. ASSUME NEW s \in Surface, CreateSubsurface(s) PROVE TreeInv'
  BY <1>2 DEF CreateSubsurface, RoleInv, RolelessHasNoView
<1>3. ASSUME NEW s \in Surface, NEW w \in Window, CreateWindow(s, w) PROVE TreeInv'
  BY <1>3 DEF CreateWindow, SubsurfacesOf, RoleInv, RolelessHasNoView, HasRole
<1>4. ASSUME AttachView PROVE TreeInv'
  <2> DEFINE where == view[Parent[subject]]
  <2>1. /\ subject \in Surface /\ sub[subject] = "linked" /\ view[subject] = None
        /\ where # None /\ Parent[subject] \in Surface
        /\ \A c \in SubsurfacesOf(subject) : view[c] \notin Window
    BY <1>4 DEF AttachView, RequestInv, RoleInv, SubsurfacesOf
  <2>2. view' = [c \in Surface |->
                  IF c = subject \/ c \in SubsurfacesOf(subject) THEN where ELSE view[c]]
        /\ UNCHANGED <<sub, root>>
    BY <1>4 DEF AttachView
  <2> QED
    BY <2>1, <2>2 DEF SubsurfacesOf, RoleInv
<1>5. ASSUME RemoveSelf PROVE TreeInv'
  BY <1>5 DEF RemoveSelf, DetachInv, ChildViews, SubsurfacesOf, Waiting
<1>6. ASSUME DeleteView PROVE TreeInv'
  BY <1>6 DEF DeleteView, DetachInv
<1>7. ASSUME Detached PROVE TreeInv'
  BY <1>7 DEF Detached, DetachInv, RoleInv
<1>8. CASE UNCHANGED <<sub, view, root>>
  BY <1>8
<1> HIDE DEF IInv, TypeOK, TreeInv
<1> QED
  <2>1. CASE ServerStep
    BY <2>1, <1>1, <1>2, <1>3, <1>4, <1>5, <1>6, <1>7, <1>8 DEF ServerStep, ClientRequest,
       DetachStep, WaitStep, ServerLockStep, Dispatch, CreateSurface, ShowWindow,
       BeginLockedRequest, LockedRequest, BeginDetach, DestroySubsurface, DestroyWindowRole,
       DetachLock, RemoveDescendant, DescendantsRemoved, WaitRelease, WaitPoll, WaitSem,
       WaitRelock, WaitTry, WaitServer, WaitLooper, WaitRecheck
  <2>2. CASE \E win \in Window : WindowStep(win)
    BY <2>2, <1>1, <1>2, <1>3, <1>4, <1>5, <1>6, <1>7, <1>8 DEF WindowStep, Receive, Body,
       TakeMessage, OpenEnv, ViewMessage, WindowMessage, QuitMessage, EnterServer,
       ViewActivated, RouteToParent, PointerMessage, NestLock, Nested, QuitRequested,
       LeaveServer, CloseEnv, HandlerReturns
  <2>3. CASE UNCHANGED vars
    BY <2>3, <1>1, <1>2, <1>3, <1>4, <1>5, <1>6, <1>7, <1>8 DEF vars
  <2> QED
    BY <2>1, <2>2, <2>3 DEF Next

LEMMA InitInv == Init => IInv
<1> SUFFICES ASSUME Init PROVE IInv
  OBVIOUS
<1> USE DEF Init
<1>1. TypeOK
  <2>1. looper \in [Window -> [owner : Thread \cup {None}, count : Nat]]
    BY DEF Free
  <2>2. pc \in [Thread -> Label]
    OBVIOUS
  <2> QED
    BY <2>1, <2>2 DEF TypeOK
<1>2. RoleInv /\ TreeInv
  BY DEF RoleInv, RolelessHasNoView, HasRole, TreeInv
<1>3. LooperInv
  <2>1. \A w \in Window : pc[w] = "idle" /\ Depth(w) = 0
    BY DEF Depth, HoldsLooper
  <2> QED
    BY <2>1 DEF LooperInv
<1>4. ActiveInv /\ RouteInv /\ FocusAlive
  BY DEF ActiveInv, RouteInv, InEnv, FocusAlive
<1>5. DetachInv
  BY DEF DetachInv, Waiting
<1>6. RequestInv
  BY DEF RequestInv
<1>7. WaitInv
  BY DEF WaitInv
<1>8. QuitInv
  BY DEF QuitInv
<1> QED
  BY <1>1, <1>2, <1>3, <1>4, <1>5, <1>6, <1>7, <1>8 DEF IInv

LooperType == [Window -> [owner : Thread \cup {None}, count : Nat]]

(* Taking a lock, and giving one back, keep the locks well typed. *)
LEMMA LockedType ==
  ASSUME looper \in LooperType, NEW t \in Thread, NEW w \in Window
  PROVE  Locked(t, w) \in LooperType
  BY DEF LooperType, Locked

LEMMA UnlockedType ==
  ASSUME looper \in LooperType, NEW w \in Window, looper[w].count # 0
  PROVE  Unlocked(w) \in LooperType
<1>1. ASSUME NEW x \in Window
      PROVE  Unlocked(w)[x] \in [owner : Thread \cup {None}, count : Nat]
  <2>1. CASE x = w /\ looper[w].count = 1
    BY <2>1 DEF LooperType, Unlocked, Free
  <2>2. CASE x = w /\ looper[w].count # 1
    <3>1. looper[w] \in [owner : Thread \cup {None}, count : Nat] /\ looper[w].count - 1 \in Nat
      BY <2>2 DEF LooperType
    <3> QED
      BY <2>2, <3>1 DEF LooperType, Unlocked
  <2>3. CASE x # w
    BY <2>3 DEF LooperType, Unlocked
  <2> QED
    BY <2>1, <2>2, <2>3
<1> QED
  BY <1>1 DEF LooperType, Unlocked

(* The looper local of Detach and the view it is at are real objects. *)
LEMMA DetachTypes ==
  ASSUME IInv
  PROVE  /\ pc[Server] \in {"detach"} \cup Waiting => detachLooper \in Window
         /\ pc[Server] \in {"detach", "remove", "removeSelf"} \cup Waiting => target \in Surface
         /\ pc[Server] = "removeSelf" /\ target # subject => Parent[target] \in Surface
  BY BelowEnds DEF IInv, TypeOK, DetachInv, Waiting

(* Whoever gives a looper lock back has it. *)
LEMMA HeldLocks ==
  ASSUME IInv
  PROVE  /\ \A w \in Window : window[w] = "hidden" => looper[w].count # 0
         /\ \A w \in Window : pc[w] \in {"dispatch", "return"} => looper[w].count # 0
         /\ HoldsLooper /\ detachLooper \in Window =>
              looper[detachLooper].count \in Nat \ {0} /\ looper[detachLooper].owner = Server
  BY DEF IInv, TypeOK, LooperInv, Depth

(* Type correctness. *)
LEMMA TypeStep == ASSUME IInv, [Next]_vars PROVE TypeOK'
<1> USE DEF IInv, TypeOK, LooperType
<1>1. ASSUME Dispatch PROVE TypeOK'
  BY <1>1 DEF Dispatch
<1>2. ASSUME NEW s \in Surface, CreateSurface(s) PROVE TypeOK'
  BY <1>2 DEF CreateSurface
<1>3. ASSUME NEW s \in Surface, DestroySurface(s) PROVE TypeOK'
  BY <1>3 DEF DestroySurface
<1>4. ASSUME NEW s \in Surface, CreateSubsurface(s) PROVE TypeOK'
  BY <1>4 DEF CreateSubsurface
<1>5. ASSUME NEW s \in Surface, DestroySubsurface(s) PROVE TypeOK'
  BY <1>5 DEF DestroySubsurface, BeginDetach
<1>6. ASSUME NEW s \in Surface, BeginLockedRequest(s) PROVE TypeOK'
  BY <1>6 DEF BeginLockedRequest
<1>7. ASSUME NEW s \in Surface, NEW w \in Window, CreateWindow(s, w) PROVE TypeOK'
  BY <1>7, LockedType DEF CreateWindow
<1>8. ASSUME NEW w \in Window, ShowWindow(w) PROVE TypeOK'
  BY <1>8, UnlockedType, HeldLocks DEF ShowWindow
<1>9. ASSUME NEW w \in Window, DestroyWindowRole(w) PROVE TypeOK'
  BY <1>9 DEF DestroyWindowRole, BeginDetach
<1>10. ASSUME LockedRequest PROVE TypeOK'
  BY <1>10 DEF LockedRequest
<1>11. ASSUME AttachView PROVE TypeOK'
  BY <1>11 DEF AttachView, RequestInv, RoleInv
<1>12. ASSUME DetachLock PROVE TypeOK'
  BY <1>12, LockedType, DetachTypes DEF DetachLock, Waiting
<1>13. ASSUME RemoveDescendant PROVE TypeOK'
  BY <1>13, DetachTypes DEF RemoveDescendant, ChildViews, SubsurfacesOf
<1>14. ASSUME DescendantsRemoved PROVE TypeOK'
  BY <1>14 DEF DescendantsRemoved
<1>15. ASSUME RemoveSelf PROVE TypeOK'
  BY <1>15, DetachTypes DEF RemoveSelf, Waiting
<1>16. ASSUME DeleteView PROVE TypeOK'
  <2>1. looper' \in LooperType
    BY <1>16, UnlockedType, HeldLocks DEF DeleteView, HoldsLooper
  <2>2. view' \in [Surface -> Window \cup {None, Orphan}]
    BY <1>16 DEF DeleteView
  <2>3. pc' \in [Thread -> Label]
    BY <1>16 DEF DeleteView
  <2> QED
    BY <1>16, <2>1, <2>2, <2>3 DEF DeleteView
<1>17. ASSUME Detached PROVE TypeOK'
  <2>1. quitPosted' \in [Window -> BOOLEAN]
    <3>1. \/ quitPosted' = quitPosted
          \/ quitPosted' = [w \in Window |-> quitPosted[w] \/ root[w] = subject]
        BY <1>17 DEF Detached, windowVars
    <3>2. [w \in Window |-> quitPosted[w] \/ root[w] = subject] \in [Window -> BOOLEAN]
        OBVIOUS
    <3>3. quitPosted \in [Window -> BOOLEAN]
        OBVIOUS
    <3> QED
        BY <3>1, <3>2, <3>3, Zenon
  <2>2. root' \in [Window -> Surface \cup {None}] /\ sub' \in [Surface -> {"none", "linked", "unlinked"}]
    BY <1>17 DEF Detached
  <2>3. pc' \in [Thread -> Label]
    BY <1>17 DEF Detached
  <2>4. window' = window /\ op' = "none" /\ server' = None
    BY <1>17 DEF Detached
  <2>5. subject' = None /\ target' = None /\ detachLooper' = None
        /\ UNCHANGED <<alive, view, envVars, looper, localLocked, unlocked, handlerVars, seatVars>>
    BY <1>17 DEF Detached
  <2> QED
    BY <2>1, <2>2, <2>3, <2>4, <2>5
<1>18. ASSUME WaitRelease PROVE TypeOK'
  <2>1. /\ detachLooper \in Window
        /\ looper[detachLooper] \in [owner : Thread \cup {None}, count : Nat]
        /\ looper[detachLooper].count \in Nat /\ looper[detachLooper].count # 0
    BY <1>18, HeldLocks, DetachTypes DEF WaitRelease, HoldsLooper, Waiting
  <2>2. localLocked' \in Nat
    <3>1. localLocked' = looper[detachLooper].count - 1
      BY <1>18 DEF WaitRelease
    <3> HIDE DEF IInv, TypeOK, LooperType
    <3> QED
      BY <2>1, <3>1
  <2>3. looper' \in LooperType
    BY <1>18, <2>1 DEF WaitRelease
  <2> QED
    BY <1>18, <2>2, <2>3 DEF WaitRelease
<1>19. ASSUME WaitPoll PROVE TypeOK'
  BY <1>19, UnlockedType, HeldLocks, DetachTypes DEF WaitPoll, HoldsLooper, Waiting
<1>20. ASSUME WaitSem PROVE TypeOK'
  BY <1>20 DEF WaitSem
<1>21. ASSUME WaitTry PROVE TypeOK'
  <2>1. looper' \in LooperType
    BY <1>21, UnlockedType, HeldLocks, DetachTypes DEF WaitTry, HoldsLooper, Waiting
  <2>2. server' \in Thread \cup {None} /\ unlocked' \in BOOLEAN
    BY <1>21 DEF WaitTry
  <2>3. pc' \in [Thread -> Label]
    BY <1>21 DEF WaitTry
  <2>4. localLocked' \in Nat
    BY <1>21 DEF WaitTry
  <2> QED
    BY <1>21, <2>1, <2>2, <2>3, <2>4 DEF WaitTry
<1>22. ASSUME WaitRelock PROVE TypeOK'
  BY <1>22, LockedType, DetachTypes DEF WaitRelock, Waiting
<1>23. ASSUME WaitServer PROVE TypeOK'
  BY <1>23 DEF WaitServer
<1>24. ASSUME WaitLooper PROVE TypeOK'
  BY <1>24, LockedType, DetachTypes DEF WaitLooper, Waiting
<1>25. ASSUME WaitRecheck PROVE TypeOK'
  <2>1. pc' \in [Thread -> Label]
    BY <1>25 DEF WaitRecheck
  <2>2. unlocked' \in BOOLEAN
    BY <1>25, Zenon DEF WaitRecheck
  <2>3. UNCHANGED <<surfaceVars, windowVars, envVars, lockVars, op, subject, target,
                    detachLooper, localLocked, handlerVars, seatVars>>
    BY <1>25 DEF WaitRecheck
  <2> QED
    BY <2>1, <2>2, <2>3
<1>26. ASSUME NEW w \in Window, TakeMessage(w) PROVE TypeOK'
  BY <1>26, LockedType DEF TakeMessage
<1>27. ASSUME NEW w \in Window, NEW v \in Surface, ViewMessage(w, v) PROVE TypeOK'
  BY <1>27, UnlockedType, HeldLocks DEF ViewMessage, OpenEnv
<1>28. ASSUME NEW w \in Window, WindowMessage(w) PROVE TypeOK'
  BY <1>28, UnlockedType, HeldLocks DEF WindowMessage, OpenEnv
<1>29. ASSUME NEW w \in Window, QuitMessage(w) PROVE TypeOK'
  <2>1. looper' \in LooperType
    BY <1>29, UnlockedType, HeldLocks DEF QuitMessage, OpenEnv
  <2>2. quitPosted' \in [Window -> BOOLEAN]
    BY <1>29 DEF QuitMessage
  <2>3. pc' \in [Thread -> Label]
    BY <1>29 DEF QuitMessage
  <2>4. OpenEnv(w, None)
    BY <1>29 DEF QuitMessage
  <2> QED
    BY <2>1, <2>2, <2>3, <2>4 DEF OpenEnv
<1>30. ASSUME NEW w \in Window, EnterServer(w) PROVE TypeOK'
  BY <1>30 DEF EnterServer
<1>31. ASSUME NEW w \in Window, ViewActivated(w) PROVE TypeOK'
  BY <1>31 DEF ViewActivated
<1>32. ASSUME NEW w \in Window, RouteToParent(w) PROVE TypeOK'
  BY <1>32, BelowEnds DEF RouteToParent, RouteInv, RoleInv, InEnv
<1>33. ASSUME NEW w \in Window, PointerMessage(w) PROVE TypeOK'
  BY <1>33 DEF PointerMessage
<1>34. ASSUME NEW w \in Window, NestLock(w) PROVE TypeOK'
  BY <1>34 DEF NestLock
<1>35. ASSUME NEW w \in Window, QuitRequested(w) PROVE TypeOK'
  BY <1>35 DEF QuitRequested
<1>36. ASSUME NEW w \in Window, Nested(w) PROVE TypeOK'
  BY <1>36 DEF Nested
<1>37. ASSUME NEW w \in Window, LeaveServer(w) PROVE TypeOK'
  BY <1>37 DEF LeaveServer
<1>38. ASSUME NEW w \in Window, CloseEnv(w) PROVE TypeOK'
  BY <1>38, LockedType DEF CloseEnv
<1>39. ASSUME NEW w \in Window, HandlerReturns(w) PROVE TypeOK'
  BY <1>39, UnlockedType, HeldLocks DEF HandlerReturns
<1>40. CASE UNCHANGED vars
  BY <1>40 DEF vars
<1> QED
  BY <1>1, <1>2, <1>3, <1>4, <1>5, <1>6, <1>7, <1>8, <1>9, <1>10, <1>11, <1>12, <1>13, <1>14,
     <1>15, <1>16, <1>17, <1>18, <1>19, <1>20, <1>21, <1>22, <1>23, <1>24, <1>25, <1>26, <1>27,
     <1>28, <1>29, <1>30, <1>31, <1>32, <1>33, <1>34, <1>35, <1>36, <1>37, <1>38, <1>39, <1>40
     DEF Next, ServerStep, ClientRequest, DetachStep, WaitStep, ServerLockStep, WindowStep,
     Receive, Body

(* Roles and views change together. *)
LEMMA RoleStep == ASSUME IInv, [Next]_vars PROVE RoleInv'
<1> USE DEF IInv, TypeOK, RoleInv, RolelessHasNoView, HasRole
<1>1. ASSUME NEW s \in Surface, CreateSurface(s) PROVE RoleInv'
  BY <1>1 DEF CreateSurface
<1>2. ASSUME NEW s \in Surface, DestroySurface(s) PROVE RoleInv'
  BY <1>2 DEF DestroySurface, SubsurfacesOf
<1>3. ASSUME NEW s \in Surface, NEW w \in Window, CreateWindow(s, w) PROVE RoleInv'
  BY <1>3 DEF CreateWindow, SubsurfacesOf
<1>4. ASSUME NEW s \in Surface, CreateSubsurface(s) PROVE RoleInv'
  BY <1>4 DEF CreateSubsurface
<1>5. ASSUME AttachView PROVE RoleInv'
  BY <1>5 DEF AttachView, RequestInv, SubsurfacesOf
<1>6. ASSUME RemoveSelf PROVE RoleInv'
  BY <1>6, BelowEnds DEF RemoveSelf, DetachInv
<1>7. ASSUME DeleteView PROVE RoleInv'
  BY <1>7 DEF DeleteView
<1>8. ASSUME Detached PROVE RoleInv'
  BY <1>8 DEF Detached, DetachInv
<1>9. CASE UNCHANGED <<alive, sub, view, root>>
  BY <1>9
<1> HIDE DEF IInv, TypeOK, RoleInv, RolelessHasNoView, HasRole
<1> QED
  <2>1. CASE ServerStep
    BY <2>1, <1>1, <1>2, <1>3, <1>4, <1>5, <1>6, <1>7, <1>8, <1>9 DEF ServerStep,
       ClientRequest, DetachStep, WaitStep, ServerLockStep, Dispatch, ShowWindow,
       BeginLockedRequest, LockedRequest, BeginDetach, DestroySubsurface, DestroyWindowRole,
       DetachLock, RemoveDescendant, DescendantsRemoved, WaitRelease, WaitPoll, WaitSem,
       WaitRelock, WaitTry, WaitServer, WaitLooper, WaitRecheck
  <2>2. CASE \E win \in Window : WindowStep(win)
    BY <2>2, <1>1, <1>2, <1>3, <1>4, <1>5, <1>6, <1>7, <1>8, <1>9 DEF WindowStep, Receive,
       Body, TakeMessage, OpenEnv, ViewMessage, WindowMessage, QuitMessage, EnterServer,
       ViewActivated, RouteToParent, PointerMessage, NestLock, Nested, QuitRequested,
       LeaveServer, CloseEnv, HandlerReturns
  <2>3. CASE UNCHANGED vars
    BY <2>3, <1>1, <1>2, <1>3, <1>4, <1>5, <1>6, <1>7, <1>8, <1>9 DEF vars
  <2> QED
    BY <2>1, <2>2, <2>3 DEF Next

(* Quit requests follow the end of the role. *)
LEMMA QuitStep == ASSUME IInv, [Next]_vars PROVE QuitInv'
<1> USE DEF IInv, TypeOK, QuitInv
<1>1. ASSUME NEW s \in Surface, NEW w \in Window, CreateWindow(s, w) PROVE QuitInv'
  BY <1>1 DEF CreateWindow, LooperInv
<1>2. ASSUME NEW w \in Window, ShowWindow(w) PROVE QuitInv'
  BY <1>2 DEF ShowWindow
<1>3. ASSUME Detached PROVE QuitInv'
  BY <1>3 DEF Detached, DetachInv, Waiting
<1>4. ASSUME NEW w \in Window, NEW v \in Surface, ViewMessage(w, v) PROVE QuitInv'
  BY <1>4 DEF ViewMessage, OpenEnv
<1>5. ASSUME NEW w \in Window, WindowMessage(w) PROVE QuitInv'
  BY <1>5 DEF WindowMessage, OpenEnv
<1>6. ASSUME NEW w \in Window, QuitMessage(w) PROVE QuitInv'
  BY <1>6 DEF QuitMessage, OpenEnv, LooperInv
<1>7. ASSUME NEW w \in Window, TakeMessage(w) PROVE QuitInv'
  BY <1>7 DEF TakeMessage
<1>8. ASSUME NEW w \in Window, EnterServer(w) PROVE QuitInv'
  BY <1>8 DEF EnterServer
<1>9. ASSUME NEW w \in Window, ViewActivated(w) PROVE QuitInv'
  BY <1>9 DEF ViewActivated
<1>10. ASSUME NEW w \in Window, PointerMessage(w) PROVE QuitInv'
  BY <1>10 DEF PointerMessage
<1>11. ASSUME NEW w \in Window, NestLock(w) PROVE QuitInv'
  BY <1>11 DEF NestLock
<1>12. ASSUME NEW w \in Window, Nested(w) PROVE QuitInv'
  BY <1>12 DEF Nested
<1>13. ASSUME NEW w \in Window, LeaveServer(w) PROVE QuitInv'
  BY <1>13 DEF LeaveServer
<1>14. ASSUME NEW w \in Window, CloseEnv(w) PROVE QuitInv'
  BY <1>14 DEF CloseEnv
<1>15. ASSUME NEW w \in Window, QuitRequested(w) PROVE QuitInv'
  BY <1>15 DEF QuitRequested
<1>16. ASSUME NEW w \in Window, HandlerReturns(w) PROVE QuitInv'
  <2>1. QuitInv
    OBVIOUS
  <2>2. /\ \A x \in Window : x # w => window'[x] = window[x] /\ pc'[x] = pc[x]
        /\ window'[w] = IF quits[w] THEN "none" ELSE window[w]
        /\ pc'[w] = "idle" /\ root' = root
    BY <1>16 DEF HandlerReturns
  <2>3. /\ \A x \in Window : x # w => quitPosted'[x] = quitPosted[x]
        /\ quitPosted'[w] => quitPosted[w] /\ ~quits[w]
    BY <1>16 DEF HandlerReturns
  <2>4. ~quits'[w] /\ \A x \in Window : x # w => quits'[x] = quits[x]
    BY <1>16 DEF HandlerReturns
  <2> HIDE DEF IInv, TypeOK
  <2> QED
    BY <2>1, <2>2, <2>3, <2>4
<1>17. CASE UNCHANGED <<window, root, quitPosted, quits>> /\ \A w \in Window : UNCHANGED pc[w]
  BY <1>17
<1> HIDE DEF QuitInv
<1>18. pc \in [Thread -> Label]
  OBVIOUS
<1> HIDE DEF IInv, TypeOK
<1> QED
  <2>1. CASE ServerStep
    BY <2>1, <1>18, <1>1, <1>2, <1>3, <1>17 DEF ServerStep, ClientRequest, DetachStep,
       WaitStep, ServerLockStep, Dispatch, CreateSurface, DestroySurface, BeginLockedRequest,
       LockedRequest, CreateSubsurface, AttachView, BeginDetach, DestroySubsurface,
       DestroyWindowRole, DetachLock, RemoveDescendant, DescendantsRemoved, RemoveSelf,
       DeleteView, WaitRelease, WaitPoll, WaitSem, WaitRelock, WaitTry, WaitServer, WaitLooper,
       WaitRecheck
  <2>2. CASE \E win \in Window : WindowStep(win)
    BY <2>2, <1>18, <1>4, <1>5, <1>6, <1>7, <1>8, <1>9, <1>10, <1>11, <1>12, <1>13, <1>14,
       <1>15, <1>16, <1>17 DEF WindowStep, Receive, Body, OpenEnv, RouteToParent
  <2>3. CASE UNCHANGED vars
    BY <2>3, <1>17 DEF vars
  <2> QED
    BY <2>1, <2>2, <2>3 DEF Next

(* fActiveWlEnv follows the handler. *)
LEMMA ActiveStep == ASSUME IInv, [Next]_vars PROVE ActiveInv'
<1> USE DEF IInv, TypeOK, ActiveInv, InEnv
<1>1. ASSUME NEW s \in Surface, NEW w \in Window, CreateWindow(s, w) PROVE ActiveInv'
  <2>1. \A p \in Surface : view[p] \in Window => view'[p] = view[p]
    BY <1>1 DEF CreateWindow, SubsurfacesOf, HasRole, RoleInv, RolelessHasNoView, TreeInv
  <2>2. active' = active /\ handling' = handling /\ \A x \in Window : pc'[x] = pc[x]
    BY <1>1 DEF CreateWindow
  <2> QED
    BY <2>1, <2>2
<1>2. ASSUME AttachView PROVE ActiveInv'
  <2>1. \A p \in Surface : view[p] \in Window => view'[p] = view[p]
    BY <1>2 DEF AttachView, RequestInv, SubsurfacesOf, TreeInv
  <2>2. active' = active /\ handling' = handling /\ \A x \in Window : pc'[x] = pc[x]
    BY <1>2 DEF AttachView
  <2> QED
    BY <2>1, <2>2
<1>3. ASSUME RemoveSelf PROVE ActiveInv'
  BY <1>3 DEF RemoveSelf, DetachInv
<1>4. ASSUME DeleteView PROVE ActiveInv'
  BY <1>4 DEF DeleteView, DetachInv
<1>5. ASSUME NEW w \in Window, TakeMessage(w) PROVE ActiveInv'
  BY <1>5 DEF TakeMessage
<1>6. ASSUME NEW w \in Window, NEW v \in Surface, ViewMessage(w, v) PROVE ActiveInv'
  BY <1>6 DEF ViewMessage, OpenEnv
<1>7. ASSUME NEW w \in Window, WindowMessage(w) PROVE ActiveInv'
  BY <1>7 DEF WindowMessage, OpenEnv
<1>8. ASSUME NEW w \in Window, QuitMessage(w) PROVE ActiveInv'
  BY <1>8 DEF QuitMessage, OpenEnv
<1>9. ASSUME NEW w \in Window, EnterServer(w) PROVE ActiveInv'
  BY <1>9 DEF EnterServer
<1>10. ASSUME NEW w \in Window, ViewActivated(w) PROVE ActiveInv'
  BY <1>10 DEF ViewActivated
<1>11. ASSUME NEW w \in Window, PointerMessage(w) PROVE ActiveInv'
  BY <1>11 DEF PointerMessage
<1>12. ASSUME NEW w \in Window, NestLock(w) PROVE ActiveInv'
  BY <1>12 DEF NestLock
<1>13. ASSUME NEW w \in Window, Nested(w) PROVE ActiveInv'
  BY <1>13 DEF Nested
<1>14. ASSUME NEW w \in Window, LeaveServer(w) PROVE ActiveInv'
  BY <1>14 DEF LeaveServer
<1>15. ASSUME NEW w \in Window, CloseEnv(w) PROVE ActiveInv'
  BY <1>15 DEF CloseEnv
<1>16. ASSUME NEW w \in Window, QuitRequested(w) PROVE ActiveInv'
  BY <1>16 DEF QuitRequested
<1>17. ASSUME NEW w \in Window, HandlerReturns(w) PROVE ActiveInv'
  BY <1>17 DEF HandlerReturns
<1>18. CASE UNCHANGED <<active, view, handling>> /\ \A w \in Window : UNCHANGED pc[w]
  BY <1>18
<1> HIDE DEF ActiveInv, InEnv
<1>19. pc \in [Thread -> Label]
  OBVIOUS
<1> HIDE DEF IInv, TypeOK
<1> QED
  <2>1. CASE ServerStep
    BY <2>1, <1>19, <1>1, <1>2, <1>3, <1>4, <1>18 DEF ServerStep, ClientRequest, DetachStep,
       WaitStep, ServerLockStep, Dispatch, CreateSurface, DestroySurface, ShowWindow,
       BeginLockedRequest, LockedRequest, CreateSubsurface, BeginDetach, DestroySubsurface,
       DestroyWindowRole, DetachLock, RemoveDescendant, DescendantsRemoved, Detached,
       WaitRelease, WaitPoll, WaitSem, WaitRelock, WaitTry, WaitServer, WaitLooper, WaitRecheck
  <2>2. CASE \E win \in Window : WindowStep(win)
    BY <2>2, <1>19, <1>5, <1>6, <1>7, <1>8, <1>9, <1>10, <1>11, <1>12, <1>13, <1>14, <1>15,
       <1>16, <1>17, <1>18 DEF WindowStep, Receive, Body, OpenEnv, RouteToParent
  <2>3. CASE UNCHANGED vars
    BY <2>3, <1>18 DEF vars
  <2> QED
    BY <2>1, <2>2, <2>3 DEF Next

(* Wait is called once per looper lock: the window is shown, so Detach's    *)
(* lock is the only one the server thread has on it.                        *)
LEMMA WaitCount ==
  ASSUME IInv, pc[Server] = "waitRelease"
  PROVE  /\ detachLooper \in Window /\ window[detachLooper] = "open"
         /\ looper[detachLooper] = [owner |-> Server, count |-> 1]
<1> USE DEF IInv
<1>1. target \in active /\ detachLooper \in Window /\ view[target] = detachLooper
  BY BelowEnds DEF DetachInv, Waiting, ActiveInv, TypeOK
<1>2. InEnv(detachLooper)
  BY <1>1 DEF ActiveInv
<1>3. window[detachLooper] = "open" /\ pc[detachLooper] \notin {"dispatch", "return"}
  BY <1>1, <1>2 DEF LooperInv, InEnv
<1>4. Depth(detachLooper) = 1
  BY <1>1, <1>3 DEF Depth, HoldsLooper
<1>5. looper[detachLooper] = [owner |-> Server, count |-> Depth(detachLooper)]
  <2>1. looper[detachLooper] =
          IF pc[detachLooper] \in {"dispatch", "return"} THEN [owner |-> detachLooper, count |-> 1]
          ELSE IF Depth(detachLooper) = 0 THEN Free
          ELSE [owner |-> Server, count |-> Depth(detachLooper)]
    BY <1>1 DEF LooperInv
  <2> QED
    BY <1>3, <1>4, <2>1
<1> QED
  BY <1>1, <1>3, <1>4, <1>5

(* Every looper is owned by the thread the places say. *)
LEMMA LooperStep == ASSUME IInv, [Next]_vars PROVE LooperInv'
<1> USE DEF IInv, TypeOK, LooperInv, Depth, HoldsLooper, CanLock, Locked, Unlocked, Free
<1>1. ASSUME Dispatch PROVE LooperInv'
  BY <1>1 DEF Dispatch
<1>2. ASSUME NEW s \in Surface, CreateSurface(s) PROVE LooperInv'
  BY <1>2 DEF CreateSurface
<1>3. ASSUME NEW s \in Surface, DestroySurface(s) PROVE LooperInv'
  BY <1>3 DEF DestroySurface
<1>4. ASSUME NEW s \in Surface, CreateSubsurface(s) PROVE LooperInv'
  BY <1>4 DEF CreateSubsurface
<1>5. ASSUME NEW s \in Surface, DestroySubsurface(s) PROVE LooperInv'
  BY <1>5 DEF DestroySubsurface, BeginDetach
<1>6. ASSUME NEW s \in Surface, BeginLockedRequest(s) PROVE LooperInv'
  BY <1>6 DEF BeginLockedRequest
<1>7. ASSUME NEW s \in Surface, NEW w \in Window, CreateWindow(s, w) PROVE LooperInv'
  BY <1>7 DEF CreateWindow
<1>8. ASSUME NEW w \in Window, ShowWindow(w) PROVE LooperInv'
  BY <1>8 DEF ShowWindow
<1>9. ASSUME NEW w \in Window, DestroyWindowRole(w) PROVE LooperInv'
  BY <1>9 DEF DestroyWindowRole, BeginDetach
<1>10. ASSUME LockedRequest PROVE LooperInv'
  BY <1>10 DEF LockedRequest
<1>11. ASSUME AttachView PROVE LooperInv'
  BY <1>11 DEF AttachView
<1>12. ASSUME DetachLock PROVE LooperInv'
  <2>1. /\ detachLooper \in Window /\ looper' = Locked(Server, detachLooper)
        /\ UNCHANGED <<window, detachLooper, localLocked>>
        /\ pc' = [pc EXCEPT ![Server] = "remove"] /\ pc[Server] = "detach"
    BY <1>12, DetachTypes DEF DetachLock
  <2>2. \A w \in Window : w # Server /\ pc'[w] = pc[w]
    BY <2>1
  <2>3. pc[detachLooper] \notin {"dispatch", "return"}
    BY <1>12, <2>1, <2>2 DEF DetachLock
  <2>4. \A w \in Window : w # detachLooper => Depth(w)' = Depth(w) /\ looper'[w] = looper[w]
    BY <2>1
  <2>5. /\ Depth(detachLooper) = (IF window[detachLooper] = "hidden" THEN 1 ELSE 0)
        /\ Depth(detachLooper)' = Depth(detachLooper) + 1
    BY <2>1
  <2>6. looper'[detachLooper] = [owner |-> Server, count |-> Depth(detachLooper)']
    BY <2>1, <2>3, <2>5
  <2> HIDE DEF Depth, HoldsLooper
  <2> QED
    BY <2>1, <2>2, <2>3, <2>4, <2>5, <2>6
<1>13. ASSUME RemoveDescendant PROVE LooperInv'
  BY <1>13 DEF RemoveDescendant
<1>14. ASSUME DescendantsRemoved PROVE LooperInv'
  BY <1>14 DEF DescendantsRemoved, DetachInv, WaitInv, Waiting
<1>15. ASSUME RemoveSelf PROVE LooperInv'
  BY <1>15 DEF RemoveSelf
<1>16. ASSUME DeleteView PROVE LooperInv'
  BY <1>16 DEF DeleteView, DetachInv, WaitInv, Waiting
<1>17. ASSUME Detached PROVE LooperInv'
  BY <1>17 DEF Detached
<1>18. ASSUME WaitRelease PROVE LooperInv'
  <2>1. looper' = looper /\ localLocked' = 0
    BY <1>18, WaitCount DEF WaitRelease
  <2> QED
    BY <1>18, <2>1 DEF WaitRelease, WaitInv
<1>19. ASSUME WaitPoll PROVE LooperInv'
  BY <1>19 DEF WaitPoll, DetachInv, WaitInv, Waiting
<1>20. ASSUME WaitSem PROVE LooperInv'
  BY <1>20 DEF WaitSem
<1>21. ASSUME WaitTry PROVE LooperInv'
  BY <1>21 DEF WaitTry, DetachInv, WaitInv, Waiting
<1>22. ASSUME WaitRelock PROVE LooperInv'
  BY <1>22 DEF WaitRelock, DetachInv, WaitInv, Waiting
<1>23. ASSUME WaitServer PROVE LooperInv'
  BY <1>23 DEF WaitServer, DetachInv, WaitInv, Waiting
<1>24. ASSUME WaitLooper PROVE LooperInv'
  BY <1>24 DEF WaitLooper, DetachInv, WaitInv, Waiting
<1>25. ASSUME WaitRecheck PROVE LooperInv'
  BY <1>25 DEF WaitRecheck, DetachInv, WaitInv, Waiting
<1>26. ASSUME NEW w \in Window, TakeMessage(w) PROVE LooperInv'
  BY <1>26 DEF TakeMessage
<1>0. ASSUME NEW w \in Window, NEW v, OpenEnv(w, v), NEW place \in {"enter", "enterQuit"},
             Goto(w, place)
      PROVE  LooperInv'
  <2>1. pc[w] = "dispatch" /\ looper' = Unlocked(w) /\ UNCHANGED <<window, detachVars>>
    BY <1>0 DEF OpenEnv
  <2>2. looper[w].count = 1 /\ Depth(w) = 0 /\ window[w] = "open"
    BY <2>1
  <2>3. looper' = [looper EXCEPT ![w] = Free]
    BY <2>1, <2>2
  <2>4. pc' = [pc EXCEPT ![w] = place]
    BY <1>0
  <2> QED
    BY <2>1, <2>2, <2>3, <2>4
<1>27. ASSUME NEW w \in Window, NEW v \in Surface, ViewMessage(w, v) PROVE LooperInv'
  BY <1>0, <1>27 DEF ViewMessage
<1>28. ASSUME NEW w \in Window, WindowMessage(w) PROVE LooperInv'
  BY <1>0, <1>28 DEF WindowMessage
<1>29. ASSUME NEW w \in Window, QuitMessage(w) PROVE LooperInv'
  BY <1>0, <1>29 DEF QuitMessage
<1>30. ASSUME NEW w \in Window, EnterServer(w) PROVE LooperInv'
  BY <1>30 DEF EnterServer
<1>31. ASSUME NEW w \in Window, ViewActivated(w) PROVE LooperInv'
  BY <1>31 DEF ViewActivated
<1>32. ASSUME NEW w \in Window, RouteToParent(w) PROVE LooperInv'
  BY <1>32 DEF RouteToParent
<1>33. ASSUME NEW w \in Window, PointerMessage(w) PROVE LooperInv'
  BY <1>33 DEF PointerMessage
<1>34. ASSUME NEW w \in Window, NestLock(w) PROVE LooperInv'
  BY <1>34 DEF NestLock
<1>35. ASSUME NEW w \in Window, QuitRequested(w) PROVE LooperInv'
  BY <1>35 DEF QuitRequested
<1>36. ASSUME NEW w \in Window, Nested(w) PROVE LooperInv'
  BY <1>36 DEF Nested
<1>37. ASSUME NEW w \in Window, LeaveServer(w) PROVE LooperInv'
  BY <1>37 DEF LeaveServer
<1>38. ASSUME NEW w \in Window, CloseEnv(w) PROVE LooperInv'
  BY <1>38 DEF CloseEnv
<1>39. ASSUME NEW w \in Window, HandlerReturns(w) PROVE LooperInv'
  BY <1>39 DEF HandlerReturns
<1>40. CASE UNCHANGED vars
  BY <1>40 DEF vars
<1> QED
  BY <1>1, <1>2, <1>3, <1>4, <1>5, <1>6, <1>7, <1>8, <1>9, <1>10, <1>11, <1>12, <1>13, <1>14,
     <1>15, <1>16, <1>17, <1>18, <1>19, <1>20, <1>21, <1>22, <1>23, <1>24, <1>25, <1>26, <1>27,
     <1>28, <1>29, <1>30, <1>31, <1>32, <1>33, <1>34, <1>35, <1>36, <1>37, <1>38, <1>39, <1>40
     DEF Next, ServerStep, ClientRequest, DetachStep, WaitStep, ServerLockStep, WindowStep,
     Receive, Body

(* The semaphore handshake. *)
LEMMA WaitStepInv == ASSUME IInv, [Next]_vars PROVE WaitInv'
<1> USE DEF IInv, TypeOK, WaitInv
<1>1. ASSUME Dispatch PROVE WaitInv'
  BY <1>1 DEF Dispatch
<1>2. ASSUME NEW s \in Surface, CreateSurface(s) PROVE WaitInv'
  BY <1>2 DEF CreateSurface
<1>3. ASSUME NEW s \in Surface, DestroySurface(s) PROVE WaitInv'
  BY <1>3 DEF DestroySurface
<1>4. ASSUME NEW s \in Surface, NEW w \in Window, CreateWindow(s, w) PROVE WaitInv'
  BY <1>4 DEF CreateWindow
<1>5. ASSUME NEW w \in Window, ShowWindow(w) PROVE WaitInv'
  BY <1>5 DEF ShowWindow
<1>6. ASSUME NEW s \in Surface, BeginLockedRequest(s) PROVE WaitInv'
  BY <1>6 DEF BeginLockedRequest
<1>7. ASSUME LockedRequest PROVE WaitInv'
  BY <1>7 DEF LockedRequest
<1>8. ASSUME NEW s \in Surface, CreateSubsurface(s) PROVE WaitInv'
  BY <1>8 DEF CreateSubsurface
<1>9. ASSUME AttachView PROVE WaitInv'
  BY <1>9 DEF AttachView
<1>10. ASSUME NEW s \in Surface, DestroySubsurface(s) PROVE WaitInv'
  BY <1>10 DEF DestroySubsurface, BeginDetach
<1>11. ASSUME NEW w \in Window, DestroyWindowRole(w) PROVE WaitInv'
  BY <1>11 DEF DestroyWindowRole, BeginDetach
<1>12. ASSUME DetachLock PROVE WaitInv'
  BY <1>12 DEF DetachLock
<1>13. ASSUME RemoveDescendant PROVE WaitInv'
  BY <1>13 DEF RemoveDescendant
<1>14. ASSUME DescendantsRemoved PROVE WaitInv'
  BY <1>14 DEF DescendantsRemoved
<1>15. ASSUME RemoveSelf PROVE WaitInv'
  BY <1>15 DEF RemoveSelf
<1>16. ASSUME DeleteView PROVE WaitInv'
  BY <1>16 DEF DeleteView
<1>17. ASSUME Detached PROVE WaitInv'
  BY <1>17 DEF Detached
<1>18. ASSUME WaitPoll PROVE WaitInv'
  BY <1>18 DEF WaitPoll
<1>19. ASSUME WaitSem PROVE WaitInv'
  BY <1>19 DEF WaitSem
<1>20. ASSUME WaitTry PROVE WaitInv'
  BY <1>20 DEF WaitTry
<1>21. ASSUME WaitRelock PROVE WaitInv'
  BY <1>21 DEF WaitRelock
<1>22. ASSUME WaitServer PROVE WaitInv'
  BY <1>22 DEF WaitServer
<1>23. ASSUME WaitLooper PROVE WaitInv'
  BY <1>23 DEF WaitLooper
<1>24. ASSUME WaitRecheck PROVE WaitInv'
  BY <1>24 DEF WaitRecheck
<1>25. ASSUME NEW w \in Window, NEW v \in Surface, ViewMessage(w, v) PROVE WaitInv'
  BY <1>25, BelowEnds DEF ViewMessage, OpenEnv, LooperInv, Depth, HoldsLooper, DetachInv, Waiting
<1>26. ASSUME NEW w \in Window, WindowMessage(w) PROVE WaitInv'
  BY <1>26 DEF WindowMessage, OpenEnv
<1>27. ASSUME NEW w \in Window, QuitMessage(w) PROVE WaitInv'
  BY <1>27 DEF QuitMessage, OpenEnv
<1>28. ASSUME NEW w \in Window, CloseEnv(w) PROVE WaitInv'
  BY <1>28 DEF CloseEnv, ActiveInv, InEnv
<1>29. ASSUME WaitRelease PROVE WaitInv'
  BY <1>29, WaitCount DEF WaitRelease
<1>30. CASE UNCHANGED <<active, waitSem, sem, target, localLocked, unlocked>> /\ UNCHANGED pc[Server]
  BY <1>30
<1>0. pc \in [Thread -> Label]
  OBVIOUS
<1> HIDE DEF IInv, TypeOK, WaitInv
<1> QED
  <2>1. CASE ServerStep
    BY <2>1, <1>0, <1>1, <1>2, <1>3, <1>4, <1>5, <1>6, <1>7, <1>8, <1>9, <1>10, <1>11, <1>12, <1>13,
       <1>14, <1>15, <1>16, <1>17, <1>18, <1>19, <1>20, <1>21, <1>22, <1>23, <1>24, <1>25,
       <1>26, <1>27, <1>28, <1>29, <1>30 DEF ServerStep, ClientRequest, DetachStep, WaitStep,
       ServerLockStep, BeginDetach
  <2>2. CASE \E win \in Window : WindowStep(win)
    BY <2>2, <1>0, <1>1, <1>2, <1>3, <1>4, <1>5, <1>6, <1>7, <1>8, <1>9, <1>10, <1>11, <1>12, <1>13,
       <1>14, <1>15, <1>16, <1>17, <1>18, <1>19, <1>20, <1>21, <1>22, <1>23, <1>24, <1>25,
       <1>26, <1>27, <1>28, <1>29, <1>30 DEF WindowStep, Receive, Body, TakeMessage, OpenEnv,
       EnterServer, ViewActivated, RouteToParent, PointerMessage, NestLock, Nested,
       QuitRequested, LeaveServer, HandlerReturns
  <2>3. CASE UNCHANGED vars
    BY <2>3, <1>1, <1>2, <1>3, <1>4, <1>5, <1>6, <1>7, <1>8, <1>9, <1>10, <1>11, <1>12, <1>13,
       <1>14, <1>15, <1>16, <1>17, <1>18, <1>19, <1>20, <1>21, <1>22, <1>23, <1>24, <1>25,
       <1>26, <1>27, <1>28, <1>29, <1>30 DEF vars
  <2> QED
    BY <2>1, <2>2, <2>3 DEF Next

(* The requests in progress keep what they were issued on. *)
LEMMA RequestStep == ASSUME IInv, [Next]_vars PROVE RequestInv'
<1> USE DEF IInv, TypeOK, RequestInv
<1>1. ASSUME Dispatch PROVE RequestInv'
  BY <1>1 DEF Dispatch
<1>2. ASSUME NEW s \in Surface, CreateSurface(s) PROVE RequestInv'
  BY <1>2 DEF CreateSurface
<1>3. ASSUME NEW s \in Surface, DestroySurface(s) PROVE RequestInv'
  BY <1>3 DEF DestroySurface
<1>4. ASSUME NEW s \in Surface, NEW w \in Window, CreateWindow(s, w) PROVE RequestInv'
  BY <1>4 DEF CreateWindow
<1>5. ASSUME NEW w \in Window, ShowWindow(w) PROVE RequestInv'
  BY <1>5 DEF ShowWindow
<1>6. ASSUME NEW s \in Surface, BeginLockedRequest(s) PROVE RequestInv'
  BY <1>6 DEF BeginLockedRequest
<1>7. ASSUME LockedRequest PROVE RequestInv'
  BY <1>7 DEF LockedRequest
<1>8. ASSUME NEW s \in Surface, CreateSubsurface(s) PROVE RequestInv'
  BY <1>8 DEF CreateSubsurface, RoleInv, RolelessHasNoView
<1>9. ASSUME AttachView PROVE RequestInv'
  BY <1>9 DEF AttachView
<1>10. ASSUME NEW s \in Surface, DestroySubsurface(s) PROVE RequestInv'
  BY <1>10 DEF DestroySubsurface, BeginDetach
<1>11. ASSUME NEW w \in Window, DestroyWindowRole(w) PROVE RequestInv'
  BY <1>11 DEF DestroyWindowRole, BeginDetach
<1>12. ASSUME DetachLock PROVE RequestInv'
  BY <1>12 DEF DetachLock
<1>13. ASSUME RemoveDescendant PROVE RequestInv'
  BY <1>13 DEF RemoveDescendant
<1>14. ASSUME DescendantsRemoved PROVE RequestInv'
  BY <1>14 DEF DescendantsRemoved
<1>15. ASSUME RemoveSelf PROVE RequestInv'
  BY <1>15 DEF RemoveSelf
<1>16. ASSUME DeleteView PROVE RequestInv'
  BY <1>16 DEF DeleteView
<1>17. ASSUME Detached PROVE RequestInv'
  BY <1>17 DEF Detached
<1>18. ASSUME WaitRelease PROVE RequestInv'
  BY <1>18 DEF WaitRelease
<1>19. ASSUME WaitPoll PROVE RequestInv'
  BY <1>19 DEF WaitPoll
<1>20. ASSUME WaitSem PROVE RequestInv'
  BY <1>20 DEF WaitSem
<1>21. ASSUME WaitTry PROVE RequestInv'
  BY <1>21 DEF WaitTry
<1>22. ASSUME WaitRelock PROVE RequestInv'
  BY <1>22 DEF WaitRelock
<1>23. ASSUME WaitServer PROVE RequestInv'
  BY <1>23 DEF WaitServer
<1>24. ASSUME WaitLooper PROVE RequestInv'
  BY <1>24 DEF WaitLooper
<1>25. ASSUME WaitRecheck PROVE RequestInv'
  BY <1>25 DEF WaitRecheck
<1>26. CASE UNCHANGED <<alive, sub, view, subject>> /\ UNCHANGED pc[Server]
  BY <1>26
<1>0. pc \in [Thread -> Label]
  OBVIOUS
<1> HIDE DEF IInv, TypeOK, RequestInv
<1> QED
  <2>1. CASE ServerStep
    BY <2>1, <1>0, <1>1, <1>2, <1>3, <1>4, <1>5, <1>6, <1>7, <1>8, <1>9, <1>10, <1>11, <1>12, <1>13,
       <1>14, <1>15, <1>16, <1>17, <1>18, <1>19, <1>20, <1>21, <1>22, <1>23, <1>24, <1>25,
       <1>26 DEF ServerStep, ClientRequest, DetachStep, WaitStep, ServerLockStep, BeginDetach
  <2>2. CASE \E win \in Window : WindowStep(win)
    BY <2>2, <1>0, <1>1, <1>2, <1>3, <1>4, <1>5, <1>6, <1>7, <1>8, <1>9, <1>10, <1>11, <1>12, <1>13,
       <1>14, <1>15, <1>16, <1>17, <1>18, <1>19, <1>20, <1>21, <1>22, <1>23, <1>24, <1>25,
       <1>26 DEF WindowStep, Receive, Body, TakeMessage, OpenEnv, ViewMessage, WindowMessage,
       QuitMessage, EnterServer, ViewActivated, RouteToParent, PointerMessage, NestLock,
       Nested, QuitRequested, LeaveServer, CloseEnv, HandlerReturns
  <2>3. CASE UNCHANGED vars
    BY <2>3, <1>1, <1>2, <1>3, <1>4, <1>5, <1>6, <1>7, <1>8, <1>9, <1>10, <1>11, <1>12, <1>13,
       <1>14, <1>15, <1>16, <1>17, <1>18, <1>19, <1>20, <1>21, <1>22, <1>23, <1>24, <1>25,
       <1>26 DEF vars
  <2> QED
    BY <2>1, <2>2, <2>3 DEF Next

(* Only RemoveSelf takes a view out of a window. *)
LEMMA ViewsKept ==
  ASSUME IInv, [Next]_vars, ~RemoveSelf
  PROVE  \A p \in Surface : view[p] \in Window => view'[p] = view[p] /\ sub'[p] = sub[p]
<1> DEFINE Kept == \A p \in Surface : view[p] \in Window => view'[p] = view[p] /\ sub'[p] = sub[p]
<1> USE DEF IInv, TypeOK
<1>1. ASSUME NEW s \in Surface, DestroySurface(s) PROVE Kept
  BY <1>1 DEF DestroySurface, RoleInv, RolelessHasNoView, HasRole, TreeInv, SubsurfacesOf
<1>2. ASSUME NEW s \in Surface, NEW w \in Window, CreateWindow(s, w) PROVE Kept
  BY <1>2 DEF CreateWindow, RoleInv, RolelessHasNoView, HasRole, TreeInv, SubsurfacesOf
<1>3. ASSUME NEW s \in Surface, CreateSubsurface(s) PROVE Kept
  BY <1>3 DEF CreateSubsurface, RoleInv, RolelessHasNoView, HasRole
<1>4. ASSUME AttachView PROVE Kept
  BY <1>4 DEF AttachView, RequestInv, RoleInv, TreeInv, SubsurfacesOf
<1>5. ASSUME DeleteView PROVE Kept
  BY <1>5 DEF DeleteView, DetachInv
<1>6. ASSUME Detached PROVE Kept
  BY <1>6 DEF Detached, DetachInv
<1>7. CASE UNCHANGED <<sub, view>>
  BY <1>7
<1> HIDE DEF IInv, TypeOK
<1> QED
  <2>1. CASE ServerStep
    BY <2>1, <1>1, <1>2, <1>3, <1>4, <1>5, <1>6, <1>7 DEF ServerStep, ClientRequest,
       DetachStep, WaitStep, ServerLockStep, Dispatch, CreateSurface, ShowWindow,
       BeginLockedRequest, LockedRequest, BeginDetach, DestroySubsurface, DestroyWindowRole,
       DetachLock, RemoveDescendant, DescendantsRemoved, RemoveSelf, WaitRelease, WaitPoll,
       WaitSem, WaitRelock, WaitTry, WaitServer, WaitLooper, WaitRecheck
  <2>2. CASE \E win \in Window : WindowStep(win)
    BY <2>2, <1>1, <1>2, <1>3, <1>4, <1>5, <1>6, <1>7 DEF WindowStep, Receive, Body,
       TakeMessage, OpenEnv, ViewMessage, WindowMessage, QuitMessage, EnterServer,
       ViewActivated, RouteToParent, PointerMessage, NestLock, Nested, QuitRequested,
       LeaveServer, CloseEnv, HandlerReturns
  <2>3. CASE UNCHANGED vars
    BY <2>3, <1>1, <1>2, <1>3, <1>4, <1>5, <1>6, <1>7 DEF vars
  <2> QED
    BY <2>1, <2>2, <2>3 DEF Next

LEMMA FocusStep == ASSUME IInv, [Next]_vars PROVE FocusAlive'
<1> USE DEF IInv, TypeOK, FocusAlive
<1>0. \A p \in Surface : view[p] \in Window => p \in alive
  BY DEF RoleInv, RolelessHasNoView, HasRole
<1>1. ASSUME NEW s \in Surface, CreateSurface(s) PROVE FocusAlive'
  BY <1>1 DEF CreateSurface
<1>2. ASSUME NEW s \in Surface, DestroySurface(s) PROVE FocusAlive'
  BY <1>2 DEF DestroySurface
<1>3. ASSUME NEW w \in Window, ViewActivated(w) PROVE FocusAlive'
  BY <1>0, <1>3 DEF ViewActivated, ActiveInv, InEnv
<1>4. ASSUME NEW w \in Window, PointerMessage(w) PROVE FocusAlive'
  BY <1>0, <1>4, BelowEnds DEF PointerMessage, RouteInv, InEnv
<1>5. CASE UNCHANGED <<alive, kfocus, pfocus>>
  BY <1>5
<1>6. pc \in [Thread -> Label]
  OBVIOUS
<1> HIDE DEF IInv, TypeOK
<1> QED
  <2>1. CASE ServerStep
    BY <2>1, <1>6, <1>1, <1>2, <1>5 DEF ServerStep, ClientRequest, DetachStep, WaitStep,
       ServerLockStep, Dispatch, CreateWindow, ShowWindow, BeginLockedRequest, LockedRequest,
       CreateSubsurface, AttachView, BeginDetach, DestroySubsurface, DestroyWindowRole,
       DetachLock, RemoveDescendant, DescendantsRemoved, RemoveSelf, DeleteView, Detached,
       WaitRelease, WaitPoll, WaitSem, WaitRelock, WaitTry, WaitServer, WaitLooper, WaitRecheck
  <2>2. CASE \E win \in Window : WindowStep(win)
    BY <2>2, <1>6, <1>3, <1>4, <1>5 DEF WindowStep, Receive, Body, TakeMessage, OpenEnv,
       ViewMessage, WindowMessage, QuitMessage, EnterServer, RouteToParent, NestLock, Nested,
       QuitRequested, LeaveServer, CloseEnv, HandlerReturns
  <2>3. CASE UNCHANGED vars
    BY <2>3, <1>5 DEF vars
  <2> QED
    BY <2>1, <2>2, <2>3 DEF Next

(* A handler that is in an env afterwards just opened it, moved its route   *)
(* up, or was in it before.                                                 *)
LEMMA HandlerKept ==
  ASSUME IInv, [Next]_vars, NEW w \in Window, InEnv(w)', handling'[w] # None
  PROVE  \/ \E v \in Surface : ViewMessage(w, v)
         \/ RouteToParent(w)
         \/ InEnv(w) /\ handling'[w] = handling[w] /\ routed'[w] = routed[w]
<1> USE DEF IInv, TypeOK, InEnv
<1>1. ASSUME NEW x \in Window, NEW v \in Surface, ViewMessage(x, v), x # w
      PROVE  UNCHANGED <<pc[w], handling[w], routed[w]>>
  BY <1>1 DEF ViewMessage, OpenEnv
<1>2. ASSUME NEW x \in Window, RouteToParent(x), x # w
      PROVE  UNCHANGED <<pc[w], handling[w], routed[w]>>
  BY <1>2 DEF RouteToParent
<1>3. ASSUME NEW x \in Window, TakeMessage(x)
      PROVE  InEnv(w) /\ handling'[w] = handling[w] /\ routed'[w] = routed[w]
  BY <1>3 DEF TakeMessage
<1>4. ASSUME NEW x \in Window, WindowMessage(x)
      PROVE  InEnv(w) /\ handling'[w] = handling[w] /\ routed'[w] = routed[w]
  BY <1>4 DEF WindowMessage, OpenEnv
<1>5. ASSUME NEW x \in Window, QuitMessage(x)
      PROVE  InEnv(w) /\ handling'[w] = handling[w] /\ routed'[w] = routed[w]
  BY <1>5 DEF QuitMessage, OpenEnv
<1>6. ASSUME NEW x \in Window, EnterServer(x)
      PROVE  InEnv(w) /\ handling'[w] = handling[w] /\ routed'[w] = routed[w]
  BY <1>6 DEF EnterServer, ActiveInv
<1>7. ASSUME NEW x \in Window, ViewActivated(x)
      PROVE  InEnv(w) /\ handling'[w] = handling[w] /\ routed'[w] = routed[w]
  BY <1>7 DEF ViewActivated
<1>8. ASSUME NEW x \in Window, PointerMessage(x)
      PROVE  InEnv(w) /\ handling'[w] = handling[w] /\ routed'[w] = routed[w]
  BY <1>8 DEF PointerMessage
<1>9. ASSUME NEW x \in Window, NestLock(x)
      PROVE  InEnv(w) /\ handling'[w] = handling[w] /\ routed'[w] = routed[w]
  BY <1>9 DEF NestLock
<1>10. ASSUME NEW x \in Window, Nested(x)
      PROVE  InEnv(w) /\ handling'[w] = handling[w] /\ routed'[w] = routed[w]
  BY <1>10 DEF Nested
<1>11. ASSUME NEW x \in Window, LeaveServer(x)
      PROVE  InEnv(w) /\ handling'[w] = handling[w] /\ routed'[w] = routed[w]
  BY <1>11 DEF LeaveServer
<1>12. ASSUME NEW x \in Window, CloseEnv(x)
      PROVE  InEnv(w) /\ handling'[w] = handling[w] /\ routed'[w] = routed[w]
  BY <1>12 DEF CloseEnv
<1>13. ASSUME NEW x \in Window, QuitRequested(x)
      PROVE  InEnv(w) /\ handling'[w] = handling[w] /\ routed'[w] = routed[w]
  BY <1>13 DEF QuitRequested, ActiveInv
<1>14. ASSUME NEW x \in Window, HandlerReturns(x)
      PROVE  InEnv(w) /\ handling'[w] = handling[w] /\ routed'[w] = routed[w]
  BY <1>14 DEF HandlerReturns
<1>15. CASE UNCHANGED <<handling, routed>> /\ \A x \in Window : UNCHANGED pc[x]
  BY <1>15
<1>0. pc \in [Thread -> Label]
  OBVIOUS
<1> HIDE DEF IInv, TypeOK
<1> QED
  <2>1. CASE ServerStep
    BY <2>1, <1>0, <1>15 DEF ServerStep, ClientRequest, DetachStep, WaitStep, ServerLockStep,
       Dispatch, CreateSurface, DestroySurface, CreateWindow, ShowWindow, BeginLockedRequest,
       LockedRequest, CreateSubsurface, AttachView, BeginDetach, DestroySubsurface,
       DestroyWindowRole, DetachLock, RemoveDescendant, DescendantsRemoved, RemoveSelf,
       DeleteView, Detached, WaitRelease, WaitPoll, WaitSem, WaitRelock, WaitTry, WaitServer,
       WaitLooper, WaitRecheck
  <2>2. CASE \E win \in Window : WindowStep(win)
    BY <2>2, <1>0, <1>1, <1>2, <1>3, <1>4, <1>5, <1>6, <1>7, <1>8, <1>9, <1>10, <1>11, <1>12, <1>13,
       <1>14, <1>15 DEF WindowStep, Receive, Body, OpenEnv
  <2>3. CASE UNCHANGED vars
    BY <2>3, <1>1, <1>2, <1>3, <1>4, <1>5, <1>6, <1>7, <1>8, <1>9, <1>10, <1>11, <1>12, <1>13,
       <1>14, <1>15 DEF vars
  <2> QED
    BY <2>1, <2>2, <2>3 DEF Next

LEMMA RouteStep == ASSUME IInv, [Next]_vars PROVE RouteInv'
<1> SUFFICES ASSUME NEW w \in Window, InEnv(w)', handling'[w] # None
             PROVE  Below(view', sub', handling'[w], routed'[w], w)
  BY DEF RouteInv
<1> USE DEF IInv
<1>1. InEnv(w) /\ handling[w] # None => Below(view, sub, handling[w], routed[w], w)
  BY DEF RouteInv
<1>2. CASE RemoveSelf
  <2>1. /\ InEnv(w) /\ handling'[w] = handling[w] /\ routed'[w] = routed[w]
        /\ sub' = sub /\ view' = [view EXCEPT ![target] = Orphan]
    BY <1>2 DEF RemoveSelf, InEnv, TypeOK
  <2>2. handling[w] \in active /\ target \notin active /\ target \in Surface
    BY <1>2, <2>1, DetachTypes DEF RemoveSelf, ActiveInv, DetachInv
  <2>3. CASE view[target] = w
    <3>1. \A c \in Surface : sub[c] = "linked" /\ Parent[c] = target => view[c] # w
      BY <1>2, <2>2, <2>3 DEF RemoveSelf, DetachInv, ChildViews, SubsurfacesOf
    <3>2. \A p \in Surface : p # target => view'[p] = view[p]
      BY <2>1 DEF TypeOK
    <3>3. Below(view, sub, handling[w], routed[w], w) /\ handling[w] # target
      BY <1>1, <2>1, <2>2
    <3>4. Below(view', sub, handling[w], routed[w], w)
      BY <2>2, <3>1, <3>2, <3>3, BelowRemove
    <3> QED
      BY <2>1, <3>4
  <2>4. CASE view[target] # w
    <3>1. \A p \in Surface : view[p] = w => view'[p] = view[p] /\ sub'[p] = sub[p]
      BY <2>1, <2>4 DEF TypeOK
    <3>2. Below(view, sub, handling[w], routed[w], w)
      BY <1>1, <2>1
    <3>3. Below(view', sub', handling[w], routed[w], w)
      BY <3>1, <3>2, BelowKept
    <3> QED
      BY <2>1, <3>3
  <2> QED
    BY <2>3, <2>4
<1>3. CASE ~RemoveSelf
  <2>1. \A p \in Surface : view[p] = w => view'[p] = view[p] /\ sub'[p] = sub[p]
    BY <1>3, ViewsKept
  <2>2. ASSUME NEW v \in Surface, ViewMessage(w, v)
        PROVE  Below(view', sub', handling'[w], routed'[w], w)
    <3>1. handling'[w] = v /\ routed'[w] = v /\ view'[v] = w
      BY <2>2 DEF ViewMessage, OpenEnv, TypeOK
    <3> QED
      BY <3>1, BelowSelf
  <2>3. CASE RouteToParent(w)
    <3>1. /\ Below(view, sub, handling[w], routed[w], w)
          /\ handling'[w] = handling[w] /\ routed'[w] = Parent[routed[w]]
          /\ sub[routed[w]] = "linked"
      BY <1>1, <2>3 DEF RouteToParent, InEnv, TypeOK
    <3>2. Parent[routed[w]] \in Surface /\ view[Parent[routed[w]]] = w
      BY <3>1, BelowEnds DEF TreeInv, RoleInv, TypeOK
    <3>3. Below(view, sub, handling[w], Parent[routed[w]], w)
      BY <3>1, <3>2, BelowUp
    <3> QED
      BY <2>1, <3>1, <3>3, BelowKept
  <2>4. CASE InEnv(w) /\ handling'[w] = handling[w] /\ routed'[w] = routed[w]
    BY <1>1, <2>1, <2>4, BelowKept
  <2> QED
    BY <2>2, <2>3, <2>4, HandlerKept
<1> QED
  BY <1>2, <1>3

(* Where Detach is keeps its meaning: the views it removes hang together from *)
(* the one it is at up to the one it was called for, and all of them are in *)
(* the window whose looper it found there.                                   *)
LEMMA DetachInvStep == ASSUME IInv, [Next]_vars PROVE DetachInv'
<1> USE DEF IInv, TypeOK, DetachInv, Waiting, HasRole, ChildViews, SubsurfacesOf
<1>1. ASSUME Dispatch PROVE DetachInv'
  BY <1>1 DEF Dispatch
<1>2. ASSUME NEW s \in Surface, CreateSurface(s) PROVE DetachInv'
  BY <1>2 DEF CreateSurface
<1>3. ASSUME NEW s \in Surface, DestroySurface(s) PROVE DetachInv'
  BY <1>3 DEF DestroySurface
<1>4. ASSUME NEW s \in Surface, NEW w \in Window, CreateWindow(s, w) PROVE DetachInv'
  BY <1>4 DEF CreateWindow
<1>5. ASSUME NEW w \in Window, ShowWindow(w) PROVE DetachInv'
  BY <1>5 DEF ShowWindow
<1>6. ASSUME NEW s \in Surface, BeginLockedRequest(s) PROVE DetachInv'
  BY <1>6 DEF BeginLockedRequest
<1>7. ASSUME LockedRequest PROVE DetachInv'
  BY <1>7 DEF LockedRequest
<1>8. ASSUME NEW s \in Surface, CreateSubsurface(s) PROVE DetachInv'
  BY <1>8 DEF CreateSubsurface
<1>9. ASSUME AttachView PROVE DetachInv'
  BY <1>9 DEF AttachView
<1>10. ASSUME NEW s \in Surface, DestroySubsurface(s) PROVE DetachInv'
  <2>1. /\ subject' = s /\ target' = s /\ s \in Surface /\ UNCHANGED <<view, sub, root, active>>
        /\ op' = "subsurface" /\ sub[s] # "none"
    BY <1>10 DEF DestroySubsurface, BeginDetach
  <2>2. CASE view[s] = None
    BY <1>10, <2>1, <2>2 DEF DestroySubsurface, BeginDetach
  <2>3. CASE view[s] = Orphan
    BY <1>10, <2>1, <2>3 DEF DestroySubsurface, BeginDetach
  <2>4. CASE view[s] \in Window
    <3>1. pc'[Server] = "detach" /\ detachLooper' = view[s]
      BY <1>10, <2>4 DEF DestroySubsurface, BeginDetach
    <3>2. Below(view, sub, s, s, view[s])
      BY <2>1, BelowSelf
    <3> QED
      BY <2>1, <2>4, <3>1, <3>2
  <2>5. view[s] \in Window \cup {None, Orphan}
    OBVIOUS
  <2> HIDE DEF IInv, TypeOK, DetachInv
  <2> QED
    BY <2>2, <2>3, <2>4, <2>5
<1>11. ASSUME NEW w \in Window, DestroyWindowRole(w) PROVE DetachInv'
  <2>1. /\ subject' = root[w] /\ target' = root[w] /\ root[w] \in Surface /\ UNCHANGED <<view, sub, root, active>>
        /\ op' = "window" /\ root[w] # None
    BY <1>11 DEF DestroyWindowRole, BeginDetach
  <2>2. CASE view[root[w]] = None
    BY <1>11, <2>1, <2>2 DEF DestroyWindowRole, BeginDetach
  <2>3. CASE view[root[w]] = Orphan
    BY <1>11, <2>1, <2>3 DEF DestroyWindowRole, BeginDetach
  <2>4. CASE view[root[w]] \in Window
    <3>1. pc'[Server] = "detach" /\ detachLooper' = view[root[w]]
      BY <1>11, <2>4 DEF DestroyWindowRole, BeginDetach
    <3>2. Below(view, sub, root[w], root[w], view[root[w]])
      BY <2>1, BelowSelf
    <3> QED
      BY <2>1, <2>4, <3>1, <3>2
  <2>5. view[root[w]] \in Window \cup {None, Orphan}
    BY <2>1
  <2> HIDE DEF IInv, TypeOK, DetachInv
  <2> QED
    BY <2>2, <2>3, <2>4, <2>5
<1>12. ASSUME DetachLock PROVE DetachInv'
  BY <1>12 DEF DetachLock
<1>13. ASSUME RemoveDescendant PROVE DetachInv'
  BY <1>13, BelowDown, BelowEnds DEF RemoveDescendant
<1>14. ASSUME DescendantsRemoved PROVE DetachInv'
  BY <1>14 DEF DescendantsRemoved, ActiveInv
<1>15. ASSUME RemoveSelf PROVE DetachInv'
  <2>1. /\ view' = [view EXCEPT ![target] = Orphan] /\ target \in Surface
        /\ UNCHANGED <<sub, root, op, subject, detachLooper>>
    BY <1>15, BelowEnds DEF RemoveSelf
  <2>2. CASE target = subject
    BY <1>15, <2>1, <2>2 DEF RemoveSelf
  <2>3. CASE target # subject
    <3>1. detachLooper \in Window /\ Below(view, sub, target, subject, detachLooper)
      BY <1>15, <2>3 DEF RemoveSelf
    <3>2. \A c \in Surface : sub[c] = "linked" /\ Parent[c] = target => view[c] # detachLooper
      BY <1>15, <3>1, BelowEnds DEF RemoveSelf
    <3>3. Below(view', sub, Parent[target], subject, detachLooper)
      BY <2>1, <2>3, <3>1, <3>2, BelowDrop
    <3> QED
      BY <1>15, <2>1, <2>3, <3>1, <3>3 DEF RemoveSelf
  <2> QED
    BY <2>2, <2>3
<1>16. ASSUME DeleteView PROVE DetachInv'
  BY <1>16 DEF DeleteView
<1>17. ASSUME Detached PROVE DetachInv'
  BY <1>17 DEF Detached
<1>18. ASSUME WaitRelease PROVE DetachInv'
  BY <1>18 DEF WaitRelease
<1>19. ASSUME WaitPoll PROVE DetachInv'
  BY <1>19 DEF WaitPoll
<1>20. ASSUME WaitSem PROVE DetachInv'
  BY <1>20 DEF WaitSem
<1>21. ASSUME WaitRelock PROVE DetachInv'
  BY <1>21 DEF WaitRelock
<1>22. ASSUME WaitTry PROVE DetachInv'
  BY <1>22 DEF WaitTry
<1>23. ASSUME WaitServer PROVE DetachInv'
  BY <1>23 DEF WaitServer
<1>24. ASSUME WaitLooper PROVE DetachInv'
  BY <1>24 DEF WaitLooper
<1>25. ASSUME WaitRecheck PROVE DetachInv'
  BY <1>25 DEF WaitRecheck, WaitInv
<1>26. ASSUME NEW w \in Window, NEW v \in Surface, ViewMessage(w, v) PROVE DetachInv'
  BY <1>26, BelowEnds DEF ViewMessage, OpenEnv, LooperInv, Depth, HoldsLooper
<1>27. ASSUME NEW w \in Window, WindowMessage(w) PROVE DetachInv'
  BY <1>27 DEF WindowMessage, OpenEnv
<1>28. ASSUME NEW w \in Window, QuitMessage(w) PROVE DetachInv'
  BY <1>28 DEF QuitMessage, OpenEnv
<1>29. ASSUME NEW w \in Window, CloseEnv(w) PROVE DetachInv'
  BY <1>29, BelowEnds DEF CloseEnv, LooperInv, Depth, HoldsLooper, ActiveInv, InEnv, CanLock, Free
<1>30. CASE UNCHANGED <<active, view, sub, root, op, subject, target, detachLooper>> /\ UNCHANGED pc[Server]
  BY <1>30
<1> HIDE DEF DetachInv
<1>31. pc \in [Thread -> Label]
  OBVIOUS
<1> HIDE DEF IInv, TypeOK
<1> QED
  <2>1. CASE ServerStep
    BY <2>1, <1>31, <1>1, <1>2, <1>3, <1>4, <1>5, <1>6, <1>7, <1>8, <1>9, <1>10, <1>11,
       <1>12, <1>13, <1>14, <1>15, <1>16, <1>17, <1>18, <1>19, <1>20, <1>21, <1>22, <1>23,
       <1>24, <1>25, <1>30 DEF ServerStep, ClientRequest, DetachStep, WaitStep, ServerLockStep,
       BeginDetach
  <2>2. CASE \E win \in Window : WindowStep(win)
    BY <2>2, <1>31, <1>26, <1>27, <1>28, <1>29, <1>30 DEF WindowStep, Receive, Body,
       TakeMessage, OpenEnv, EnterServer, ViewActivated, RouteToParent, PointerMessage,
       NestLock, Nested, QuitRequested, LeaveServer, HandlerReturns
  <2>3. CASE UNCHANGED vars
    BY <2>3, <1>30 DEF vars
  <2> QED
    BY <2>1, <2>2, <2>3 DEF Next

(* The invariant is inductive. *)
LEMMA IndStep == ASSUME IInv, [Next]_vars PROVE IInv'
  BY TypeStep, RoleStep, TreeStep, LooperStep, ActiveStep, DetachInvStep, RequestStep,
     WaitStepInv, RouteStep, FocusStep, QuitStep DEF IInv

THEOREM Invariance == Spec => []IInv
<1>1. Init => IInv
  BY InitInv
<1>2. IInv /\ [Next]_vars => IInv'
  BY IndStep
<1> QED
  BY <1>1, <1>2, PTL DEF Spec
-----------------------------------------------------------------------------
(* The state of every thread, lock, view and window stays in its type. *)
THEOREM TypeCorrect == Spec => []TypeOK
<1>1. IInv => TypeOK
  BY DEF IInv
<1> QED
  BY <1>1, Invariance, PTL

(* While a handler is in its WaylandEnv its view stays in the window and its *)
(* surface stays alive, whatever roles the client destroys meanwhile.        *)
THEOREM HandlersKeepTheirView == Spec => []EnvKeepsView
<1>1. ASSUME IInv PROVE EnvKeepsView
  <2> USE <1>1 DEF IInv
  <2>1. \A s \in Surface : view[s] # None => s \in alive
    BY DEF RoleInv, RolelessHasNoView, HasRole
  <2>2. \A w \in Window : InEnv(w) /\ handling[w] # None =>
          handling[w] \in Surface /\ view[handling[w]] = w /\ handling[w] \in active
    BY DEF ActiveInv, TypeOK
  <2> QED
    BY <2>1, <2>2 DEF EnvKeepsView
<1>2. IInv => EnvKeepsView
  BY <1>1
<1> QED
  BY <1>2, Invariance, PTL

(* No Assert of WaylandEnv.h fails: handlers of one view never overlap, the *)
(* looper is locked once when an env opens, and one thread waits per env.   *)
THEOREM AssertsHold == Spec => []EnvAsserts
<1>1. IInv => EnvAsserts
  BY DEF IInv, ActiveInv, InEnv, LooperInv, WaitInv, EnvAsserts
<1> QED
  BY <1>1, Invariance, PTL

(* Detach and the attach calls leave no view with a surface that lost its   *)
(* role, so the next role finds fView NULL.                                 *)
THEOREM RolesOwnViews == Spec => []RolelessHasNoView
<1>1. IInv => RolelessHasNoView
  BY DEF IInv, RoleInv
<1> QED
  BY <1>1, Invariance, PTL

(* The focus pointers of HaikuSeatGlobal never dangle. *)
THEOREM FocusNeverDangles == Spec => []FocusAlive
<1>1. IInv => FocusAlive
  BY DEF IInv
<1> QED
  BY <1>1, Invariance, PTL

(* WaylandEnv::Wait never sleeps on a semaphore nobody will post. *)
THEOREM NoLostWakeup == Spec => []WakeupNotLost
<1>1. IInv => WakeupNotLost
  BY DEF IInv, WaitInv, WakeupNotLost
<1> QED
  BY <1>1, Invariance, PTL

(* The lock order is server before looper on every path of the code. *)
THEOREM LocksInOrder == Spec => []LockOrder
<1>1. ASSUME IInv PROVE LockOrder
  <2> USE <1>1 DEF IInv
  <2> DEFINE Taken(w) == pc[w] \in {"dispatch", "return"}
  <2>0. \A w \in Window :
          looper[w] = IF Taken(w) THEN [owner |-> w, count |-> 1]
                      ELSE IF Depth(w) = 0 THEN Free ELSE [owner |-> Server, count |-> Depth(w)]
    BY DEF LooperInv
  <2>1. ASSUME NEW w \in Window, pc[w] \in {"enter", "enterQuit"} PROVE looper[w].owner # w
    <3>1. looper[w] = Free \/ looper[w] = [owner |-> Server, count |-> Depth(w)]
      BY <2>0, <2>1
    <3>2. looper[w].owner \in {None, Server}
      BY <3>1 DEF Free
    <3> QED
      BY <3>2
  <2>2. ASSUME pc[Server] \in {"idle", "waitServer", "waitSem"},
               NEW w \in Window, window[w] = "open"
        PROVE  looper[w].owner # Server
    <3>1. Depth(w) = 0
      BY <2>2 DEF Depth, HoldsLooper
    <3>2. looper[w] = Free \/ looper[w] = [owner |-> w, count |-> 1]
      BY <2>0, <3>1
    <3>3. looper[w].owner \in {None, w}
      BY <3>2 DEF Free
    <3> QED
      BY <3>3
  <2> QED
    BY <2>1, <2>2 DEF LockOrder
<1>2. IInv => LockOrder
  BY <1>1
<1> QED
  BY <1>2, Invariance, PTL

(* Who has the server lock, as a function of where the threads are. *)
InServer == {"body", "quit", "nested", "leave"}
OutOfServer == {"idle", "waitPoll", "waitSem", "waitRelock", "waitServer"}

ServerInv ==
    /\ server \in Window => pc[server] \in InServer
    /\ server = Server => pc[Server] \notin OutOfServer
    /\ \A w \in Window : pc[w] \in InServer => server = w
    /\ pc[Server] \notin OutOfServer => server = Server

LEMMA ServerStepInv == ASSUME TypeOK, ServerInv, ServerStep PROVE ServerInv'
<1> USE DEF TypeOK, ServerInv, InServer, OutOfServer
<1>1. CASE Dispatch
  BY <1>1 DEF Dispatch
<1>2. ASSUME NEW s \in Surface,
             CreateSurface(s) \/ DestroySurface(s) \/ CreateSubsurface(s)
             \/ BeginLockedRequest(s) \/ DestroySubsurface(s)
      PROVE  ServerInv'
  BY <1>2 DEF CreateSurface, DestroySurface, CreateSubsurface, BeginLockedRequest,
     DestroySubsurface, BeginDetach
<1>3. ASSUME NEW s \in Surface, NEW w \in Window, CreateWindow(s, w) PROVE ServerInv'
  BY <1>3 DEF CreateWindow
<1>4. ASSUME NEW w \in Window, ShowWindow(w) \/ DestroyWindowRole(w) PROVE ServerInv'
  BY <1>4 DEF ShowWindow, DestroyWindowRole, BeginDetach
<1>5. CASE DetachStep
  BY <1>5 DEF DetachStep, RemoveDescendant, DescendantsRemoved, RemoveSelf, DeleteView, Detached
<1>6. CASE WaitStep
  BY <1>6 DEF WaitStep, WaitRelease, WaitPoll, WaitSem, WaitTry, WaitRecheck
<1>7. CASE ServerLockStep
  BY <1>7 DEF ServerLockStep, LockedRequest, AttachView, DetachLock, WaitRelock, WaitServer,
     WaitLooper
<1> QED
  BY <1>1, <1>2, <1>3, <1>4, <1>5, <1>6, <1>7 DEF ServerStep, ClientRequest

LEMMA WindowStepInv ==
  ASSUME TypeOK, ServerInv, NEW w \in Window, WindowStep(w) PROVE ServerInv'
<1> USE DEF TypeOK, ServerInv, InServer, OutOfServer
<1>1. CASE TakeMessage(w)
  BY <1>1 DEF TakeMessage
<1>2. CASE Receive(w)
  BY <1>2 DEF Receive, ViewMessage, WindowMessage, QuitMessage, OpenEnv
<1>3. CASE EnterServer(w)
  BY <1>3 DEF EnterServer
<1>4. CASE Body(w) \/ Nested(w)
  BY <1>4 DEF Body, ViewActivated, RouteToParent, PointerMessage, NestLock, QuitRequested, Nested
<1>5. CASE LeaveServer(w)
  BY <1>5 DEF LeaveServer
<1>6. CASE CloseEnv(w) \/ HandlerReturns(w)
  BY <1>6 DEF CloseEnv, HandlerReturns
<1> QED
  BY <1>1, <1>2, <1>3, <1>4, <1>5, <1>6 DEF WindowStep

LEMMA ServerInvariance == Spec => []ServerInv
<1>1. Init => ServerInv
  BY DEF Init, ServerInv, InServer, OutOfServer
<1>2. TypeOK /\ ServerInv /\ [Next]_vars => ServerInv'
  <2>1. CASE UNCHANGED vars
    BY <2>1 DEF vars, ServerInv
  <2> QED
    BY <2>1, ServerStepInv, WindowStepInv DEF Next
<1> QED
  BY <1>1, <1>2, TypeCorrect, PTL DEF Spec

(* Whom a window waits for has the server lock, if it is not the server     *)
(* thread with the window's own lock; so it is a window that waits for      *)
(* the server thread at most.                                               *)
LEMMA WindowWaits ==
  ASSUME IInv, ServerInv, NEW w \in Window, NEW o \in WaitsFor(w)
  PROVE  \/ o = Server
         \/ o \in Window /\ server = o /\ WaitsFor(o) \subseteq {Server}
<1> USE DEF IInv, TypeOK
<1>1. ASSUME NEW x \in Window PROVE looper[x].owner \in {None, Server, x}
  BY <1>1 DEF LooperInv, Free
<1>2. \A x \in Window : AtLooper(x) \subseteq {x}
  BY DEF AtLooper
<1>3. CASE o # Server
  <2>1. o \in Window /\ o # w /\ server = o
    BY <1>1, <1>2, <1>3 DEF WaitsFor
  <2>2. pc[o] \in InServer
    BY <2>1 DEF ServerInv
  <2>3. ~AtServer(o)
    BY <2>1, <2>2 DEF AtServer, InServer
  <2>4. ASSUME NEW p \in WaitsFor(o) PROVE p = Server
    BY <1>1, <1>2, <2>1, <2>3 DEF WaitsFor
  <2> QED
    BY <2>1, <2>4
<1> QED
  BY <1>3

(* When the server thread waits it has no window's lock but those of        *)
(* windows that are not shown, and whom it waits for waits for no one, or   *)
(* for one who does not.                                                    *)
LEMMA ServerWaits ==
  ASSUME IInv, ServerInv, NEW o \in WaitsFor(Server)
  PROVE  o \in Window /\ Server \notin WaitsFor(o)
         /\ \A p \in WaitsFor(o) : Server \notin WaitsFor(p)
<1> USE DEF IInv, TypeOK
<1>1. o \in Window
  BY DEF WaitsFor
<1>2. ~HoldsLooper
  <2>1. CASE AtServer(Server)
    BY <2>1 DEF AtServer, HoldsLooper
  <2>2. CASE AtLooper(Server) # {}
    BY <2>2 DEF AtLooper, HoldsLooper
  <2>3. CASE pc[Server] = "waitSem"
    BY <2>3 DEF HoldsLooper
  <2> QED
    BY <2>1, <2>2, <2>3 DEF WaitsFor
<1>3. ASSUME NEW x \in Window, window[x] = "open" PROVE looper[x].owner # Server
  <2>1. Depth(x) = 0
    BY <1>2, <1>3 DEF Depth
  <2> QED
    BY <2>1 DEF LooperInv, Free
<1>4. ASSUME NEW x \in Window, AtLooper(x) # {} PROVE window[x] = "open"
  BY <1>4 DEF AtLooper, LooperInv
<1>5. \A x \in Window : AtLooper(x) \subseteq {x}
  BY DEF AtLooper
<1>6. ASSUME NEW x \in Window, server # Server PROVE Server \notin WaitsFor(x)
  BY <1>3, <1>4, <1>5, <1>6 DEF WaitsFor
<1>7. CASE server # Server
  <2>1. Server \notin WaitsFor(o)
    BY <1>1, <1>6, <1>7
  <2>2. \A p \in WaitsFor(o) : p \in Window \/ p = Server
    BY DEF WaitsFor
  <2> QED
    BY <1>1, <1>6, <1>7, <2>1, <2>2
<1>8. CASE server = Server
  <2>1. pc[Server] \notin OutOfServer
    BY <1>8 DEF ServerInv
  <2>2. PICK x \in Window : looper[x].owner = o
    <3>1. ~AtServer(Server) /\ pc[Server] # "waitSem"
      BY <2>1 DEF AtServer, OutOfServer
    <3>2. AtLooper(Server) \subseteq Window
      BY DEF AtLooper
    <3> QED
      BY <3>1, <3>2 DEF WaitsFor
  <2>3. x = o /\ pc[o] \in {"dispatch", "return"}
    BY <1>1, <2>2 DEF LooperInv, Free
  <2>4. WaitsFor(o) = {}
    BY <1>1, <2>3 DEF WaitsFor, AtServer, AtLooper
  <2> QED
    BY <1>1, <2>4
<1> QED
  BY <1>7, <1>8

(* Whichever threads are looked at, of any number of windows and the        *)
(* server, one of them waits for none of the others.                        *)
THEOREM NobodyWaitsInCircles == Spec => []NoCircularWait
<1>1. IInv /\ ServerInv => NoCircularWait
  <2> SUFFICES ASSUME IInv, ServerInv, NEW T \in SUBSET Thread, T # {},
                      \A t \in T : \E o \in T : o \in WaitsFor(t)
               PROVE  FALSE
    BY DEF NoCircularWait
  <2>1. CASE Server \in T
    <3>1. PICK o \in T : o \in WaitsFor(Server)
      BY <2>1
    <3>2. o \in Window /\ Server \notin WaitsFor(o) /\ \A p \in WaitsFor(o) : Server \notin WaitsFor(p)
      BY <3>1, ServerWaits
    <3>3. PICK p \in T : p \in WaitsFor(o)
      BY <3>1
    <3>4. WaitsFor(p) \subseteq {Server} /\ Server \notin WaitsFor(p)
      BY <3>2, <3>3, WindowWaits
    <3> QED
      BY <3>3, <3>4
  <2>2. CASE Server \notin T
    <3>1. PICK w \in T : w \in Window
      BY <2>2
    <3>2. PICK o \in T : o \in WaitsFor(w)
      BY <3>1
    <3>3. WaitsFor(o) \subseteq {Server}
      BY <2>2, <3>1, <3>2, WindowWaits
    <3> QED
      BY <2>2, <3>2, <3>3
  <2> QED
    BY <2>1, <2>2
<1> QED
  BY <1>1, Invariance, ServerInvariance, PTL

(* A client makes no loop of subsurfaces. *)
NoParentLoop == \A T \in SUBSET Surface : T # {} => \E s \in T : Parent[s] \notin T

(* A window deletes itself with no WaylandView in it, so long as the desktop *)
(* asks no popup to quit: WaylandPopupWindow::QuitRequested always agrees.   *)
THEOREM DeletionIsGood ==
  ASSUME UserQuits \cap Popup = {}, NoParentLoop
  PROVE  Spec => []NoBadDeletion
<1>1. ASSUME IInv PROVE NoBadDeletion
  <2> USE <1>1 DEF IInv
  <2> SUFFICES ASSUME NEW w \in Window, quits[w], NEW s \in Surface, view[s] = w PROVE FALSE
    BY DEF NoBadDeletion
  <2> DEFINE T == {c \in Surface : view[c] = w}
  <2>1. root[w] = None
    BY DEF QuitInv
  <2>2. \A c \in T : Parent[c] \in T
    BY <2>1 DEF TreeInv, RoleInv, TypeOK
  <2>3. T \in SUBSET Surface /\ T # {}
    OBVIOUS
  <2> QED
    BY <2>2, <2>3 DEF NoParentLoop
<1>2. IInv => NoBadDeletion
  BY <1>1
<1> QED
  BY <1>2, Invariance, PTL
-----------------------------------------------------------------------------
(* WaylandEnv implements ViewLifecycle: each step of the locking, waiting    *)
(* and teardown is a step of the views' lifecycle or changes none of it.     *)

Shown == {s \in Surface : view[s] \in Window}

(* A surface with a view in a window exists. *)
LEMMA ShownLives == IInv => Shown \subseteq alive
  BY DEF IInv, RoleInv, RolelessHasNoView, HasRole, Shown

LEMMA LifecycleInit == Init => Lifecycle!Init
  BY DEF Init, Lifecycle!Init

LEMMA LifecycleStep ==
  ASSUME IInv, [Next]_vars
  PROVE  Lifecycle!Next \/ UNCHANGED Lifecycle!lifeVars
<1> DEFINE Step == Lifecycle!Next \/ UNCHANGED Lifecycle!lifeVars
<1> USE DEF IInv, TypeOK
<1>1. ASSUME NEW s \in Surface, CreateSurface(s) PROVE Step
  <2>1. Lifecycle!Create(s)
    BY <1>1 DEF CreateSurface, Lifecycle!Create
  <2> QED
    BY <2>1 DEF Lifecycle!Next
<1>2. ASSUME NEW s \in Surface, DestroySurface(s) PROVE Step
  <2>1. Lifecycle!Destroy(s)
    BY <1>2 DEF DestroySurface, Lifecycle!Destroy, RoleInv, RolelessHasNoView
  <2> QED
    BY <2>1 DEF Lifecycle!Next
<1>3. ASSUME NEW s \in Surface, NEW w \in Window, CreateWindow(s, w) PROVE Step
  <2> DEFINE S == {c \in Surface : c = s \/ (w \in Popup /\ c \in SubsurfacesOf(s))}
  <2>1. view[s] \notin Window /\ \A c \in SubsurfacesOf(s) : view[c] \notin Window /\ c \in alive
    BY <1>3 DEF CreateWindow, SubsurfacesOf, RoleInv, RolelessHasNoView, TreeInv
  <2>2. S \cap Shown = {} /\ S \subseteq alive
    BY <1>3, <2>1 DEF CreateWindow, Shown
  <2>3. {c \in Surface : view'[c] \in Window} = Shown \cup S
    BY <1>3 DEF CreateWindow, Shown
  <2>4. Lifecycle!Show(S)
    BY <1>3, <2>2, <2>3 DEF CreateWindow, Lifecycle!Show, Shown
  <2>5. S \in SUBSET Surface
    OBVIOUS
  <2>6. \E U \in SUBSET Surface : Lifecycle!Show(U)
    BY <2>4, <2>5 DEF Lifecycle!Show
  <2> QED
    BY <2>6 DEF Lifecycle!Next
<1>4. ASSUME AttachView PROVE Step
  <2> DEFINE where == view[Parent[subject]]
             S == {c \in Surface : c = subject \/ c \in SubsurfacesOf(subject)}
  <2>1. /\ subject \in alive /\ view[subject] = None /\ where \in Window \cup {Orphan}
        /\ \A c \in SubsurfacesOf(subject) : view[c] \notin Window /\ c \in alive
    BY <1>4 DEF AttachView, RequestInv, SubsurfacesOf, RoleInv, TreeInv
  <2>2. CASE where \in Window
    <3>1. S \cap Shown = {} /\ S \subseteq alive
      BY <2>1 DEF Shown
    <3>2. {c \in Surface : view'[c] \in Window} = Shown \cup S
      BY <1>4, <2>2 DEF AttachView, Shown
    <3>3. Lifecycle!Show(S)
      BY <1>4, <3>1, <3>2 DEF AttachView, Lifecycle!Show, Shown
    <3>4. S \in SUBSET Surface
      OBVIOUS
    <3>5. \E U \in SUBSET Surface : Lifecycle!Show(U)
      BY <3>3, <3>4 DEF Lifecycle!Show
    <3> QED
      BY <3>5 DEF Lifecycle!Next
  <2>3. CASE where = Orphan
    <3>1. {c \in Surface : view'[c] \in Window} = Shown
      BY <1>4, <2>1, <2>3 DEF AttachView, Shown
    <3> QED
      BY <1>4, <3>1 DEF AttachView, Lifecycle!lifeVars, Shown
  <2> QED
    BY <2>1, <2>2, <2>3
<1>5. ASSUME RemoveSelf PROVE Step
  <2>1. target \in Surface /\ target \notin active
    BY <1>5, DetachTypes DEF RemoveSelf, DetachInv
  <2>2. {c \in Surface : view'[c] \in Window} = Shown \ {target}
    BY <1>5, <2>1 DEF RemoveSelf, Shown
  <2>3. CASE view[target] \in Window
    <3>1. Lifecycle!Remove(target)
      BY <1>5, <2>1, <2>2, <2>3 DEF RemoveSelf, Lifecycle!Remove, Shown
    <3>2. \E s \in Surface : Lifecycle!Remove(s)
      BY <2>1, <3>1 DEF Lifecycle!Remove
    <3> QED
      BY <3>2 DEF Lifecycle!Next
  <2>4. CASE view[target] \notin Window
    <3>1. Shown \ {target} = Shown
      BY <2>4 DEF Shown
    <3> QED
      BY <1>5, <2>2, <3>1 DEF RemoveSelf, Lifecycle!lifeVars, Shown
  <2> QED
    BY <2>3, <2>4
<1>6. ASSUME DeleteView PROVE Step
  <2>1. {c \in Surface : view'[c] \in Window} = Shown
    BY <1>6 DEF DeleteView, DetachInv, Shown
  <2> QED
    BY <1>6, <2>1 DEF DeleteView, Lifecycle!lifeVars, Shown
<1>7. ASSUME NEW w \in Window, NEW v \in Surface, ViewMessage(w, v) PROVE Step
  <2>1. v \in Shown \ active
    BY <1>7 DEF ViewMessage, OpenEnv, ActiveInv, InEnv, Shown
  <2>2. Lifecycle!Enter(v)
    BY <1>7, <2>1 DEF ViewMessage, OpenEnv, Lifecycle!Enter, Shown
  <2> QED
    BY <2>2 DEF Lifecycle!Next
<1>8. ASSUME NEW w \in Window, WindowMessage(w) \/ QuitMessage(w) PROVE Step
  BY <1>8 DEF WindowMessage, QuitMessage, OpenEnv, Lifecycle!lifeVars
<1>9. ASSUME NEW w \in Window, CloseEnv(w) PROVE Step
  <2>1. CASE handling[w] = None
    BY <1>9, <2>1 DEF CloseEnv, Lifecycle!lifeVars
  <2>2. CASE handling[w] # None
    <3>1. handling[w] \in Surface /\ handling[w] \in active
      BY <1>9, <2>2 DEF CloseEnv, ActiveInv, InEnv
    <3>2. Lifecycle!Leave(handling[w])
      BY <1>9, <3>1 DEF CloseEnv, Lifecycle!Leave
    <3> QED
      BY <3>1, <3>2 DEF Lifecycle!Next
  <2> QED
    BY <2>1, <2>2
<1>10. ASSUME NEW w \in Window, ViewActivated(w) \/ PointerMessage(w) PROVE Step
  <2> DEFINE F == {kfocus', pfocus'} \ {None}
  <2>1. /\ pc[w] = "body" /\ handling[w] # None /\ handling[w] \in active
        /\ handling[w] \in Shown /\ routed[w] \in Shown
    BY <1>10, BelowEnds DEF ViewActivated, PointerMessage, ActiveInv, RouteInv, InEnv, Shown
  <2>2. F \subseteq (({kfocus, pfocus} \ {None}) \cup Shown) /\ F \in SUBSET Surface
    BY <1>10, <2>1 DEF ViewActivated, PointerMessage, Shown
  <2>3. Lifecycle!Focus(F)
    BY <1>10, <2>1, <2>2 DEF ViewActivated, PointerMessage, Lifecycle!Focus, Shown
  <2> QED
    BY <2>2, <2>3 DEF Lifecycle!Next
<1>11. CASE UNCHANGED <<alive, view, active, kfocus, pfocus>>
  BY <1>11 DEF Lifecycle!lifeVars
<1> QED
  BY <1>1, <1>2, <1>3, <1>4, <1>5, <1>6, <1>7, <1>8, <1>9, <1>10, <1>11 DEF
     Next, ServerStep, ClientRequest, DetachStep, WaitStep, ServerLockStep, WindowStep, Receive,
     Body, vars, Dispatch, ShowWindow, BeginLockedRequest, LockedRequest, CreateSubsurface,
     BeginDetach, DestroySubsurface, DestroyWindowRole, DetachLock, RemoveDescendant,
     DescendantsRemoved, Detached, WaitRelease, WaitPoll, WaitSem, WaitRelock, WaitTry,
     WaitServer, WaitLooper, WaitRecheck, TakeMessage, EnterServer, RouteToParent, NestLock,
     Nested, QuitRequested, LeaveServer, HandlerReturns

(* The server with its locks, waits and two-step teardown does what the      *)
(* lifecycle promises: no view leaves its window under a running handler, no *)
(* surface dies while it is shown, and focus never outlives its surface.     *)
THEOREM LifecycleImplemented == Spec => ImplementsLifecycle
<1>1. Init => Lifecycle!Init
  BY LifecycleInit
<1>2. IInv /\ [Next]_vars => [Lifecycle!Next]_(Lifecycle!lifeVars)
  BY LifecycleStep
<1> QED
  BY <1>1, <1>2, Invariance, PTL DEF Spec, ImplementsLifecycle, Lifecycle!Spec
=============================================================================
