------------------------ MODULE XdgConfigure_proofs -------------------------
(***************************************************************************)
(* Proofs about XdgConfigure: a logical size survives the way to native    *)
(* pixels and back, so that the window's answer to a size the client chose *)
(* is that size; the safety of a resize the client has not seen yet; that  *)
(* no commit feeds back into another configure; and that the sizes agree   *)
(* once every message is answered.                                         *)
(***************************************************************************)
EXTENDS XdgConfigure, TLAPS

(* Rounding is what its name says: off by half a unit at most. *)
LEMMA RoundedNear ==
    ASSUME NEW n \in Nat, NEW d \in Nat \ {0}
    PROVE  /\ Rounded(n, d) \in Nat
           /\ 2 * d * Rounded(n, d) <= 2 * n + d
           /\ 2 * n + d < 2 * d * Rounded(n, d) + 2 * d
<1> DEFINE a == 2 * n + d
           b == 2 * d
           q == a \div b
<1>1. a \in Nat /\ b \in Nat /\ b > 0
    OBVIOUS
<1> HIDE DEF a, b
<1>2. q \in Int /\ b * q <= a /\ a < b * q + b
    BY <1>1, Z3
<1>3. q >= 0
    BY <1>1, <1>2, Z3
<1> QED
    BY <1>2, <1>3 DEF Rounded, a, b

LEMMA RoundedUnique ==
    ASSUME NEW n \in Nat, NEW d \in Nat \ {0}, NEW c \in Nat,
           2 * d * c <= 2 * n + d, 2 * n + d < 2 * d * c + 2 * d
    PROVE  Rounded(n, d) = c
<1> DEFINE r == Rounded(n, d)
<1>1. r \in Nat /\ 2 * d * r <= 2 * n + d /\ 2 * n + d < 2 * d * r + 2 * d
    BY RoundedNear
<1> HIDE DEF r
<1>2. 2 * d * r < 2 * d * (c + 1) /\ 2 * d * c < 2 * d * (r + 1)
    BY <1>1
<1>3. r < c + 1 /\ c < r + 1
    BY <1>1, <1>2, Z3
<1> QED
    BY <1>1, <1>3 DEF r

(* A size in logical pixels is the logical size of its native size: the     *)
(* FrameResized that follows a ResizeTo of HandleCommit finds the size      *)
(* HandleCommit remembered in fWidth, for every scale HaikuScale.h allows.  *)
THEOREM SizesRoundTrip == \A c \in Nat : LogicalCount(NativeCount(c)) = c
<1> SUFFICES ASSUME NEW c \in Nat PROVE LogicalCount(NativeCount(c)) = c
    OBVIOUS
<1> DEFINE P == ScaleNum
           Q == ScaleDen
           n == NativeCount(c)
<1>1. P \in Nat \ {0} /\ Q \in Nat \ {0} /\ P >= Q
    BY ScaleAssumption
<1>2. c * P \in Nat
    BY <1>1
<1>3. n \in Nat /\ 2 * Q * n <= 2 * (c * P) + Q /\ 2 * (c * P) + Q < 2 * Q * n + 2 * Q
    BY <1>1, <1>2, RoundedNear DEF NativeCount
<1> HIDE DEF P, Q, n
<1>4. n * Q \in Nat /\ 2 * Q * n = 2 * (n * Q) /\ 2 * P * c = 2 * (c * P)
    BY <1>1, <1>3
<1>5. 2 * P * c <= 2 * (n * Q) + P
    BY <1>1, <1>2, <1>3, <1>4
<1>6. 2 * (n * Q) + P < 2 * P * c + 2 * P
  <2>1. CASE P > Q
    BY <2>1, <1>1, <1>2, <1>3, <1>4
  <2>2. CASE P = Q
    <3>1. 2 * (n * Q) <= 2 * (c * Q) + Q
        BY <2>2, <1>3, <1>4
    <3>2. n <= c
      <4>1. 2 * (n * Q) < 2 * (c * Q) + 2 * Q
        BY <3>1, <1>1, <1>4, <1>2, <2>2
      <4>2. n * Q < (c + 1) * Q
        BY <4>1, <1>1, <1>3, Z3
      <4> QED
        BY <4>2, <1>1, <1>3, Z3
    <3>3. n * Q <= c * P
        BY <3>2, <2>2, <1>1, <1>3, Z3
    <3> QED
        BY <3>3, <1>1, <1>2, <1>4
  <2> QED
    BY <1>1, <2>1, <2>2
<1> QED
  <2>1. Rounded(n * Q, P) = c
    BY <1>1, <1>4, <1>5, <1>6, RoundedUnique
  <2> QED
    BY <2>1 DEF LogicalCount, n, P, Q
-----------------------------------------------------------------------------
(* Types *)

BWindow == [frame : Nat, bounds : Nat, resized : Nat \cup {Nothing}, min : Nat, max : Nat,
            resizable : BOOLEAN, look : {"titled", "noBorder"}, shown : BOOLEAN,
            created : BOOLEAN]
Mode == {"Absent", "Initial", "None", "Client", "Server"}
Event == [width : Nat, serial : Nat]
Track == [edge : {"none", "topLeft", "bottomRight"}, width : Nat]

LEMMA Rounds == \A n \in Nat : NativeCount(n) \in Nat /\ LogicalCount(n) \in Nat
<1> TAKE n \in Nat
<1>1. n * ScaleNum \in Nat /\ n * ScaleDen \in Nat /\ ScaleNum \in Nat \ {0}
      /\ ScaleDen \in Nat \ {0}
    BY ScaleAssumption
<1> QED
    BY <1>1, RoundedNear DEF NativeCount, LogicalCount

LEMMA Looks == \A m \in Mode : Look[m] \in {"titled", "noBorder"}
BY DEF Look, Mode

LEMMA ResizeTyped ==
    ASSUME NEW win \in BWindow, NEW n \in Nat
    PROVE  /\ Clamped(win, n) \in Nat
           /\ Framed(win, n) \in BWindow
           /\ ResizeTo(win, n) \in BWindow
<1>1. Clamped(win, n) \in Nat
    BY DEF Clamped, BWindow
<1>2. \A size \in Nat : Framed(win, size) \in BWindow
    BY DEF Framed, BWindow
<1>3. \A size \in Nat : [Framed(win, size) EXCEPT !.bounds = size] \in BWindow
    BY <1>2 DEF BWindow
<1> QED
    BY <1>1, <1>2, <1>3 DEF ResizeTo

LEMMA LimitsTyped ==
    ASSUME NEW win \in BWindow, NEW min \in Nat, NEW max \in Nat
    PROVE  SetSizeLimits(win, min, max) \in BWindow
<1> DEFINE limited == [win EXCEPT !.min = min, !.max = max]
<1>1. limited \in BWindow
    BY DEF BWindow
<1>2. limited.frame \in Nat /\ win.frame \in Nat
    BY <1>1 DEF BWindow
<1>3. Clamped(limited, win.frame) \in Nat
    BY <1>1, <1>2, ResizeTyped
<1> QED
    BY <1>1, <1>3, ResizeTyped DEF SetSizeLimits

LEMMA ConfigureTyped ==
    ASSUME TypeOK, NEW width \in Nat, Configure(width)
    PROVE  wire' \in Seq(Event) /\ fSerial' \in Nat
<1>1. wire \in Seq(Event) /\ [width |-> width, serial |-> fSerial] \in Event
    BY DEF TypeOK, Event
<1> QED
    BY <1>1 DEF Configure, TypeOK

LEMMA DragTyped ==
    ASSUME TypeOK, NEW d \in Drag, DragTopLeft(d) \/ DragBottomRight(d)
    PROVE  /\ wire' \in Seq(Event) /\ fSerial' \in Nat /\ track' \in Track
           /\ \E width \in Nat \ {0} : Configure(width)
<1>1. d \in Int /\ -d \in Int /\ track \in Track /\ limits.min \in Nat /\ limits.max \in Nat
    BY DragAssumption DEF TypeOK, Track
<1>2. \A n \in Int : Stretched(n) \in Int
  <2> TAKE n \in Int
  <2> DEFINE a == track.width * ScaleNum + n * ScaleDen
  <2>1. a \in Int /\ ScaleNum \in Nat \ {0}
    BY <1>1, ScaleAssumption DEF Track
  <2> HIDE DEF a
  <2>2. a \div ScaleNum \in Int
    BY <2>1
  <2> QED
    BY <2>2 DEF Stretched, a
<1>3. CASE DragTopLeft(d)
  <2>1. Stretched(-d) \in Nat \ {0} /\ Configure(Stretched(-d))
    BY <1>1, <1>2, <1>3 DEF DragTopLeft
  <2> DEFINE w == Stretched(-d)
  <2>2. track' = [track EXCEPT !.width = w] /\ w \in Nat
    BY <1>3, <2>1 DEF DragTopLeft
  <2> HIDE DEF w
  <2>3. track' \in Track
    BY <1>1, <2>2 DEF Track
  <2> QED
    BY <2>1, <2>3, ConfigureTyped
<1>4. CASE DragBottomRight(d)
  <2> DEFINE atLeast == IF Stretched(d) < limits.min THEN limits.min ELSE Stretched(d)
             w == IF limits.max # 0 /\ atLeast > limits.max THEN limits.max ELSE atLeast
  <2>1. Stretched(d) \in Nat \ {0}
    BY <1>1, <1>2, <1>4 DEF DragBottomRight
  <2>2. w \in Nat \ {0}
    BY <1>1, <2>1
  <2>3. Configure(w) /\ track' = track
    BY <1>4 DEF DragBottomRight
  <2> QED
    BY <1>1, <2>2, <2>3, ConfigureTyped
<1> QED
    BY <1>3, <1>4

LEMMA CommitTyped ==
    ASSUME TypeOK, NEW bitmap \in Nat
    PROVE  Shown(Sized(Limited, bitmap), bitmap) \in BWindow
<1> DEFINE min == IF limits.min = 0 THEN 0 ELSE NativeCount(limits.min)
           max == IF limits.max = 0 THEN 32768 ELSE NativeCount(limits.max)
<1>1. window \in BWindow /\ limits.min \in Nat /\ limits.max \in Nat
    BY DEF TypeOK, BWindow
<1>2. min \in Nat /\ max \in Nat
    BY <1>1, Rounds
<1>3. SetSizeLimits(window, min, max) \in BWindow
    BY <1>1, <1>2, LimitsTyped
<1>4. Limited \in BWindow
  <2>1. \A win \in BWindow, fixed \in BOOLEAN : [win EXCEPT !.resizable = fixed] \in BWindow
    BY DEF BWindow
  <2>2. (~(limits.min # 0 /\ limits.min = limits.max)) \in BOOLEAN
    OBVIOUS
  <2> DEFINE limited == SetSizeLimits(window, min, max)
             fixed == ~(limits.min # 0 /\ limits.min = limits.max)
  <2>3. Limited = IF ~LimitsApply THEN window ELSE [limited EXCEPT !.resizable = fixed]
    BY DEF Limited
  <2> HIDE DEF limited, fixed
  <2>4. limited \in BWindow /\ fixed \in BOOLEAN
    BY <1>3, <2>2 DEF limited, fixed
  <2>5. [limited EXCEPT !.resizable = fixed] \in BWindow
    BY <2>1, <2>4
  <2> QED
    BY <1>1, <2>3, <2>5
<1>5. Sized(Limited, bitmap) \in BWindow
    BY <1>4, Rounds, ResizeTyped DEF Sized, TypeOK
<1>6. \A win \in BWindow, look \in {"titled", "noBorder"} :
          [win EXCEPT !.look = look, !.shown = TRUE] \in BWindow /\ win.look \in {"titled", "noBorder"}
    BY DEF BWindow
<1>7. Look[fMode] \in {"titled", "noBorder"}
    BY Looks DEF TypeOK, Mode
<1> HIDE DEF BWindow
<1> QED
    BY <1>5, <1>6, <1>7 DEF Shown

(* Type correctness of every reachable state.                               *)
THEOREM TypeCorrect == Spec => []TypeOK
<1>1. Init => TypeOK
  <2>1. <<>> \in Seq([width : Nat, serial : Nat])
    OBVIOUS
  <2>2. Init => window \in BWindow /\ handling \in Nat \cup {Nothing}
    BY DEF Init, BWindow, Nothing
  <2>3. Init => limits \in [min : Nat, max : Nat, dirty : BOOLEAN]
                /\ read \in [width : Nat, serial : Nat] /\ track \in Track
    BY DEF Init, NoTrack, Track
  <2>4. Init => wire = <<>>
    BY DEF Init
  <2>5. Init => /\ fSerial \in Nat /\ fAckSerial \in Nat /\ fResizeSerial \in Nat
                /\ fGeometry \in Nat /\ fPendingGeometry \in Nat /\ fWidth \in Nat
                /\ fSavedPos \in Nat /\ fBitmap \in Nat /\ asked \in Nat /\ wishes \in Nat
                /\ fMode \in {"Absent", "Initial", "None", "Client", "Server"}
    BY DEF Init
  <2>6. Init => /\ fConfigureCalled \in BOOLEAN /\ fSurfaceInitalized \in BOOLEAN
                /\ fActivated \in BOOLEAN /\ fFullscreen \in BOOLEAN
                /\ answered \in BOOLEAN /\ inOrder \in BOOLEAN
    <3>1. Init => /\ fConfigureCalled = FALSE /\ fSurfaceInitalized = FALSE
                  /\ fActivated = FALSE /\ fFullscreen = FALSE
                  /\ answered = TRUE /\ inOrder = TRUE
        BY DEF Init
    <3>2. FALSE \in BOOLEAN /\ TRUE \in BOOLEAN
        OBVIOUS
    <3> QED
        BY <3>1, <3>2, Zenon
  <2> QED
    BY <2>1, <2>2, <2>3, <2>4, <2>5, <2>6 DEF TypeOK, BWindow, Track
<1>2. TypeOK /\ [Next]_vars => TypeOK'
  <2> SUFFICES ASSUME TypeOK, [Next]_vars PROVE TypeOK'
    OBVIOUS
  <2> USE DEF TypeOK
  <2>0. window \in BWindow
    BY DEF BWindow
  <2>1. CASE \E n \in UserSize : UserResize(n)
    <3>1. PICK n \in UserSize : UserResize(n)
        BY <2>1
    <3>2. window' \in BWindow
        BY <3>1, <2>0, SizeAssumption, ResizeTyped DEF UserResize
    <3>3. asked' \in Nat /\ UNCHANGED <<xdgVars, toplevelVars, clientVars, fMode, inOrder, fBitmap,
                                       track, handling, wishes>>
        BY <3>1 DEF UserResize
    <3> HIDE DEF TypeOK
    <3>4. TypeOK /\ window' \in BWindow
        BY <3>2
    <3> QED
        BY <3>3, <3>4 DEF TypeOK, xdgVars, toplevelVars, clientVars, BWindow
  <2>2. CASE DispatchResized
    <3>1. handling' \in Nat /\ window' \in BWindow
        BY <2>2, <2>0 DEF DispatchResized, BWindow
    <3>2. UNCHANGED <<xdgVars, toplevelVars, clientVars, fMode, inOrder, fBitmap, track,
                      asked, wishes>>
        BY <2>2 DEF DispatchResized
    <3> QED
        BY <3>1, <3>2 DEF xdgVars, toplevelVars, clientVars, BWindow
  <2>3. CASE FrameResized
    <3>1. handling \in Nat /\ LogicalCount(handling) \in Nat
        BY <2>3, Rounds DEF FrameResized
    <3>2. wire' \in Seq(Event) /\ fSerial' \in Nat
        BY <2>3, <3>1, ConfigureTyped DEF FrameResized, Event
    <3>3. /\ fWidth' \in Nat /\ fResizeSerial' \in Nat /\ handling' = Nothing
          /\ UNCHANGED <<fAckSerial, fConfigureCalled, fSurfaceInitalized, fGeometry,
                         fPendingGeometry, fActivated, fFullscreen, fSavedPos>>
          /\ UNCHANGED <<limits, read, answered, fMode, inOrder, fBitmap, track, window>>
          /\ UNCHANGED <<asked, wishes>>
        BY <2>3, <3>1 DEF FrameResized, counters
    <3> QED
        BY <3>2, <3>3 DEF Event
  <2>4. CASE WindowActivated
    <3>1. wire' \in Seq(Event) /\ fSerial' \in Nat
        BY <2>4, ConfigureTyped DEF WindowActivated
    <3> QED
        BY <2>4, <3>1 DEF WindowActivated, Event
  <2>5. CASE HandleCreateDecoration
    BY <2>5 DEF HandleCreateDecoration, xdgVars, toplevelVars, clientVars, counters
  <2>6. CASE HandleGetToplevel
    <3>1. window' \in BWindow
        BY <2>0, <2>6 DEF HandleGetToplevel, BWindow
    <3> QED
        BY <2>6, <3>1 DEF HandleGetToplevel, xdgVars, toplevelVars, clientVars, counters, BWindow
  <2>7. CASE \E m \in Request : HandleRequestMode(m)
    <3>1. PICK m \in Request : HandleRequestMode(m)
        BY <2>7
    <3>2. m \in Mode /\ Look[m] \in {"titled", "noBorder"}
        BY RequestAssumption, Looks DEF Mode
    <3>3. window' \in BWindow
      <4>1. \A look \in {"titled", "noBorder"} : [window EXCEPT !.look = look] \in BWindow
        BY <2>0 DEF BWindow
      <4> QED
        BY <2>0, <3>1, <3>2, <4>1 DEF HandleRequestMode
    <3>4. m \in {"Absent", "Initial", "None", "Client", "Server"}
        BY <3>2 DEF Mode
    <3>5. inOrder' \in BOOLEAN
        BY <3>1 DEF HandleRequestMode
    <3>6. fMode' = m /\ wishes' = wishes + 1 /\ wishes \in Nat
      <4>1. wishes \in Nat
        OBVIOUS
      <4> HIDE DEF TypeOK
      <4> QED
        BY <3>1, <4>1 DEF HandleRequestMode
    <3>7. UNCHANGED <<xdgVars, toplevelVars, clientVars, fBitmap, track, handling, asked>>
        BY <3>1 DEF HandleRequestMode
    <3> QED
        BY <3>3, <3>4, <3>5, <3>6, <3>7 DEF xdgVars, toplevelVars, clientVars, BWindow
  <2>8. CASE \E l \in Limit : HandleSetSizeLimits(l[1], l[2])
    <3>1. PICK l \in Limit : HandleSetSizeLimits(l[1], l[2])
        BY <2>8
    <3>2. l[1] \in Nat /\ l[2] \in Nat
        BY LimitAssumption
    <3> QED
        BY <3>1, <3>2 DEF HandleSetSizeLimits, xdgVars, clientVars
  <2>9. CASE HandleSetFullscreen
    <3>1. Screen \in Nat /\ LogicalCount(Screen) \in Nat
        BY SizeAssumption, Rounds
    <3>2. window' \in BWindow
        BY <2>0, <2>9, <3>1, ResizeTyped DEF HandleSetFullscreen
    <3>3. wire' \in Seq(Event) /\ fSerial' \in Nat
        BY <2>9, <3>1, ConfigureTyped DEF HandleSetFullscreen
    <3>4. inOrder' \in BOOLEAN /\ fSavedPos' \in Nat
        BY <2>9 DEF HandleSetFullscreen
    <3> QED
        BY <2>9, <3>1, <3>2, <3>3, <3>4 DEF HandleSetFullscreen, BWindow, Event
  <2>10. CASE HandleUnsetFullscreen
    <3>1. LogicalCount(fSavedPos) \in Nat
        BY Rounds
    <3>2. window' \in BWindow
        BY <2>0, <2>10, ResizeTyped DEF HandleUnsetFullscreen
    <3>3. wire' \in Seq(Event) /\ fSerial' \in Nat
        BY <2>10, <3>1, ConfigureTyped DEF HandleUnsetFullscreen
    <3>4. inOrder' \in BOOLEAN /\ fSavedPos' \in Nat /\ fWidth' \in Nat
        BY <2>10, <3>1 DEF HandleUnsetFullscreen
    <3>5. fFullscreen' \in BOOLEAN
        BY <2>10, Zenon DEF HandleUnsetFullscreen
    <3>6. asked' \in Nat
        BY <2>10 DEF HandleUnsetFullscreen
    <3> QED
        BY <2>10, <3>2, <3>3, <3>4, <3>5, <3>6 DEF HandleUnsetFullscreen, BWindow, Event
  <2>11. CASE ReadConfigure
    <3>1. wire \in Seq(Event) /\ wire # <<>>
        BY <2>11 DEF ReadConfigure, Event
    <3>2. Head(wire) \in Event /\ Tail(wire) \in Seq(Event)
        BY <3>1
    <3> QED
      <4>1. read' \in Event /\ wire' \in Seq(Event)
        BY <2>11, <3>2 DEF ReadConfigure
      <4>2. answered' \in BOOLEAN
        BY <2>11, Zenon DEF ReadConfigure
      <4>3. UNCHANGED <<xdgVars, toplevelVars, fMode, fBitmap, track, window, handling, inOrder,
                        counters>>
        BY <2>11 DEF ReadConfigure
      <4> QED
        BY <4>1, <4>2, <4>3 DEF xdgVars, toplevelVars, counters, Event
  <2>12. CASE HandleAckConfigure
    BY <2>12 DEF HandleAckConfigure, toplevelVars, clientVars, counters
  <2>13. CASE \E size \in Size \cup {read.width} : HandleSetWindowGeometry(size)
    <3>1. PICK size \in Size \cup {read.width} : HandleSetWindowGeometry(size)
        BY <2>13
    <3>2. size \in Nat
        BY SizeAssumption
    <3>3. fPendingGeometry' = size /\ answered' = TRUE /\ wishes' \in {wishes, wishes + 1}
        BY <3>1 DEF HandleSetWindowGeometry
    <3>4. UNCHANGED <<fSerial, fAckSerial, fResizeSerial, fConfigureCalled, fSurfaceInitalized,
                      fGeometry, toplevelVars, wire, read, fMode, inOrder, fBitmap, track,
                      window, handling, asked>>
        BY <3>1 DEF HandleSetWindowGeometry
    <3> QED
        BY <3>2, <3>3, <3>4 DEF toplevelVars
  <2>14. CASE \E bitmap \in Size \cup {0, fBitmap} : HandleCommit(bitmap)
    <3>1. PICK bitmap \in Size \cup {0, fBitmap} : HandleCommit(bitmap)
        BY <2>14
    <3>2. bitmap \in Nat
        BY SizeAssumption
    <3>3. window' \in BWindow
        BY <3>1, <3>2, CommitTyped DEF HandleCommit
    <3>4. fWidth' \in Nat /\ fGeometry' \in Nat
        BY <3>1 DEF HandleCommit
    <3>5. wire' \in Seq([width : Nat, serial : Nat]) /\ fSerial' \in Nat
        BY <3>1, <3>4, ConfigureTyped DEF HandleCommit, Event
    <3>6. limits' \in [min : Nat, max : Nat, dirty : BOOLEAN]
        BY <3>1 DEF HandleCommit, LimitsApply, HasServerDecoration
    <3>7. inOrder' \in BOOLEAN /\ fSurfaceInitalized' \in BOOLEAN /\ fConfigureCalled' \in BOOLEAN
          /\ fBitmap' \in Nat
        BY <3>1, <3>2 DEF HandleCommit
    <3> QED
        BY <3>1, <3>3, <3>4, <3>5, <3>6, <3>7 DEF HandleCommit, counters, BWindow
  <2>15. CASE UNCHANGED vars
    BY <2>15 DEF vars, xdgVars, toplevelVars, clientVars, counters
  <2>16. CASE \E edge \in {"topLeft", "bottomRight"} : HandleResize(edge)
    BY <2>16 DEF HandleResize, xdgVars, toplevelVars, clientVars
  <2>17. CASE \E d \in Drag : MouseMoved(d)
    <3>1. PICK d \in Drag : MouseMoved(d)
        BY <2>17
    <3>2. wire' \in Seq(Event) /\ fSerial' \in Nat /\ track' \in Track
        BY <3>1, DragTyped DEF MouseMoved
    <3>3. inOrder' \in BOOLEAN
        BY <3>1 DEF MouseMoved
    <3> QED
        BY <3>1, <3>2, <3>3 DEF MouseMoved, toplevelVars, Event, Track
  <2>18. CASE MouseUp
    BY <2>18 DEF MouseUp, NoTrack, xdgVars, toplevelVars, clientVars, counters
  <2> QED
    BY <2>1, <2>2, <2>3, <2>4, <2>5, <2>6, <2>7, <2>8, <2>9, <2>10, <2>11, <2>12, <2>13,
       <2>14, <2>15, <2>16, <2>17, <2>18 DEF Next
<1> QED
    BY <1>1, <1>2, PTL DEF Spec
-----------------------------------------------------------------------------
(* The look *)

(* A shown window has the look of its decoration, also of one whose mode    *)
(* nobody requested.  Without a decoration object the window never gets a   *)
(* border, and a window is shown only after it was created.                 *)
LookInv == (window.shown => window.look = Look[fMode])
           /\ (fMode = "Absent" => window.look = "noBorder")
           /\ (window.shown => window.created)

LEMMA SizingKeepsLook ==
    ASSUME NEW win \in BWindow, NEW n \in Nat
    PROVE  /\ ResizeTo(win, n).look = win.look
           /\ ResizeTo(win, n).shown = win.shown
           /\ ResizeTo(win, n).created = win.created
<1>1. \A size \in Nat : /\ Framed(win, size).look = win.look
                        /\ Framed(win, size).shown = win.shown
                        /\ Framed(win, size).created = win.created
    BY DEF Framed, BWindow
<1>2. \A size \in Nat : LET r == [Framed(win, size) EXCEPT !.bounds = size]
                        IN  /\ r.look = win.look /\ r.shown = win.shown
                            /\ r.created = win.created
    BY <1>1, ResizeTyped DEF BWindow
<1> QED
    BY <1>1, <1>2, ResizeTyped DEF ResizeTo

LEMMA LimitingKeepsLook ==
    ASSUME TypeOK
    PROVE  /\ Limited \in BWindow /\ Limited.look = window.look
           /\ Limited.shown = window.shown /\ Limited.created = window.created
<1> DEFINE min == IF limits.min = 0 THEN 0 ELSE NativeCount(limits.min)
           max == IF limits.max = 0 THEN 32768 ELSE NativeCount(limits.max)
           narrow == [window EXCEPT !.min = min, !.max = max]
           limited == SetSizeLimits(window, min, max)
           fixed == ~(limits.min # 0 /\ limits.min = limits.max)
<1>1. window \in BWindow /\ limits.min \in Nat /\ limits.max \in Nat
    BY DEF TypeOK, BWindow
<1>2. min \in Nat /\ max \in Nat /\ fixed \in BOOLEAN
    BY <1>1, Rounds
<1> HIDE DEF min, max, fixed
<1>3. narrow \in BWindow /\ narrow.look = window.look /\ narrow.shown = window.shown
      /\ narrow.created = window.created
    BY <1>1, <1>2 DEF BWindow
<1>4. \A win \in BWindow, size \in Nat :
          /\ Framed(win, size) \in BWindow /\ Framed(win, size).look = win.look
          /\ Framed(win, size).shown = win.shown /\ Framed(win, size).created = win.created
  <2> TAKE win \in BWindow, size \in Nat
  <2>1. Framed(win, size) \in BWindow
    BY ResizeTyped
  <2>2. /\ Framed(win, size).look = win.look
        /\ Framed(win, size).shown = win.shown /\ Framed(win, size).created = win.created
    BY DEF Framed, BWindow
  <2> QED
    BY <2>1, <2>2
<1>5. Clamped(narrow, window.frame) \in Nat
    BY <1>1, <1>3, ResizeTyped DEF BWindow
<1>6. limited \in BWindow /\ limited.look = window.look /\ limited.shown = window.shown
      /\ limited.created = window.created
    BY <1>3, <1>4, <1>5 DEF SetSizeLimits
<1>7. Limited = IF ~LimitsApply THEN window ELSE [limited EXCEPT !.resizable = fixed]
    BY DEF Limited, min, max, fixed
<1> HIDE DEF limited
<1>8. LET r == [limited EXCEPT !.resizable = fixed]
      IN  /\ r \in BWindow /\ r.look = window.look /\ r.shown = window.shown
          /\ r.created = window.created
    BY <1>2, <1>6 DEF BWindow
<1> QED
    BY <1>1, <1>7, <1>8

(* A window that was shown has the look requested last, however requests    *)
(* for a decoration, the toplevel and the first buffer follow each other.   *)
THEOREM LooksFollow == Spec => []LookFollowsMode
<1>1. Init => LookInv
    BY DEF Init, LookInv
<1>2. TypeOK /\ LookInv /\ [Next]_vars => LookInv'
  <2> SUFFICES ASSUME TypeOK, LookInv, [Next]_vars PROVE LookInv'
    OBVIOUS
  <2> USE DEF LookInv
  <2>0. window \in BWindow /\ fMode \in Mode
    BY DEF TypeOK, BWindow, Mode
  <2>1. CASE \E n \in UserSize : UserResize(n)
    BY <2>0, <2>1 DEF UserResize, Framed, BWindow
  <2>2. CASE DispatchResized
    BY <2>0, <2>2 DEF DispatchResized, BWindow
  <2>3. CASE FrameResized
    BY <2>3 DEF FrameResized
  <2>4. CASE WindowActivated
    BY <2>4 DEF WindowActivated
  <2>5. CASE HandleCreateDecoration
    BY <2>5 DEF HandleCreateDecoration, Look
  <2>6. CASE HandleGetToplevel
    BY <2>0, <2>6 DEF HandleGetToplevel, BWindow
  <2>7. CASE \E m \in Request : HandleRequestMode(m)
    BY <2>0, <2>7, RequestAssumption DEF HandleRequestMode, BWindow
  <2>8. CASE \E l \in Limit : HandleSetSizeLimits(l[1], l[2])
    BY <2>8 DEF HandleSetSizeLimits
  <2>9. CASE HandleSetFullscreen
    BY <2>0, <2>9, SizeAssumption, SizingKeepsLook DEF HandleSetFullscreen
  <2>10. CASE HandleUnsetFullscreen
    BY <2>0, <2>10, SizingKeepsLook DEF HandleUnsetFullscreen, TypeOK
  <2>11. CASE ReadConfigure
    BY <2>11 DEF ReadConfigure
  <2>12. CASE HandleAckConfigure
    BY <2>12 DEF HandleAckConfigure
  <2>13. CASE \E size \in Size \cup {read.width} : HandleSetWindowGeometry(size)
    BY <2>13 DEF HandleSetWindowGeometry
  <2>14. CASE \E bitmap \in Size \cup {0, fBitmap} : HandleCommit(bitmap)
    <3>1. PICK bitmap \in Size \cup {0, fBitmap} : HandleCommit(bitmap)
        BY <2>14
    <3>2. bitmap \in Nat
        BY SizeAssumption DEF TypeOK
    <3> DEFINE sized == Sized(Limited, bitmap)
    <3>3. /\ sized \in BWindow /\ sized.look = window.look
          /\ sized.shown = window.shown /\ sized.created = window.created
      <4> DEFINE lim == Limited
      <4>1. /\ lim \in BWindow /\ lim.look = window.look
            /\ lim.shown = window.shown /\ lim.created = window.created
        BY LimitingKeepsLook
      <4>2. NativeCount(fPendingGeometry) \in Nat /\ NativeCount(bitmap) \in Nat
        BY <3>2, Rounds DEF TypeOK
      <4>3. sized \in {lim, ResizeTo(lim, NativeCount(fPendingGeometry)),
                       ResizeTo(lim, NativeCount(bitmap))}
        BY DEF Sized
      <4> HIDE DEF lim, sized
      <4>4. \A n \in Nat : ResizeTo(lim, n) \in BWindow
        BY <4>1, ResizeTyped
      <4>5. \A n \in Nat : /\ ResizeTo(lim, n).look = window.look
                          /\ ResizeTo(lim, n).shown = window.shown
                          /\ ResizeTo(lim, n).created = window.created
        BY <4>1, SizingKeepsLook
      <4> QED
        BY <4>1, <4>2, <4>3, <4>4, <4>5
    <3>4. window' = Shown(sized, bitmap) /\ fMode' = fMode /\ window.created
        BY <3>1 DEF HandleCommit
    <3> HIDE DEF sized
    <3>5. CASE fSurfaceInitalized \/ bitmap = 0
        BY <3>3, <3>4, <3>5 DEF Shown
    <3>6. CASE ~(fSurfaceInitalized \/ bitmap = 0)
      <4>1. Look["Absent"] = "noBorder"
        BY DEF Look
      <4> QED
        BY <2>0, <3>3, <3>4, <3>6, <4>1 DEF Shown, BWindow
    <3> QED
        BY <3>5, <3>6
  <2>15. CASE UNCHANGED vars
    BY <2>15 DEF vars
  <2>16. CASE \E edge \in {"topLeft", "bottomRight"} : HandleResize(edge)
    BY <2>16 DEF HandleResize
  <2>17. CASE \E d \in Drag : MouseMoved(d)
    BY <2>17 DEF MouseMoved
  <2>18. CASE MouseUp
    BY <2>18 DEF MouseUp
  <2> QED
    BY <2>1, <2>2, <2>3, <2>4, <2>5, <2>6, <2>7, <2>8, <2>9, <2>10, <2>11, <2>12, <2>13,
       <2>14, <2>15, <2>16, <2>17, <2>18 DEF Next
<1>3. LookInv => LookFollowsMode
    BY DEF LookInv, LookFollowsMode
<1> QED
    BY <1>1, <1>2, <1>3, TypeCorrect, PTL DEF Spec
-----------------------------------------------------------------------------
(* Resizes the client has not seen *)

(* Configures reach the client in the order of their serials, and it acks   *)
(* nothing it has not read.                                                 *)
SerialInv ==
    /\ fAckSerial <= read.serial
    /\ read.serial <= fSerial
    /\ \A i \in 1..Len(wire) : read.serial <= wire[i].serial /\ wire[i].serial < fSerial
    /\ \A i, j \in 1..Len(wire) : i < j => wire[i].serial < wire[j].serial

LEMMA ConfigureInOrder ==
    ASSUME TypeOK, SerialInv, NEW width \in Nat, Configure(width),
           UNCHANGED <<read, fAckSerial>>
    PROVE  SerialInv'
<1> DEFINE e == [width |-> width, serial |-> fSerial]
<1>1. wire \in Seq(Event) /\ e \in Event /\ fSerial \in Nat /\ e.serial = fSerial
    BY DEF TypeOK, Event
<1>2. wire' = Append(wire, e) /\ fSerial' = fSerial + 1
    BY DEF Configure
<1> HIDE DEF e
<1>3. /\ Len(wire') = Len(wire) + 1 /\ wire'[Len(wire) + 1] = e
      /\ \A i \in 1..Len(wire) : wire'[i] = wire[i] /\ wire[i] \in Event
    BY <1>1, <1>2
<1>5. \A i \in 1..Len(wire) : wire[i].serial \in Nat
    BY <1>3 DEF Event
<1>4. read.serial \in Nat /\ fAckSerial \in Nat /\ Len(wire) \in Nat
    BY <1>1 DEF TypeOK
<1> QED
    BY <1>1, <1>2, <1>3, <1>4, <1>5 DEF SerialInv

LEMMA SerialsInOrder == Spec => []SerialInv
<1>1. Init => SerialInv
    BY DEF Init, SerialInv
<1>2. TypeOK /\ SerialInv /\ [Next]_vars => SerialInv'
  <2> SUFFICES ASSUME TypeOK, SerialInv, [Next]_vars PROVE SerialInv'
    OBVIOUS
  <2>0. CASE UNCHANGED <<wire, read, fAckSerial, fSerial>>
    BY <2>0 DEF SerialInv
  <2>1. CASE \E n \in UserSize : UserResize(n)
    BY <2>0, <2>1 DEF UserResize, xdgVars, clientVars
  <2>2. CASE DispatchResized
    BY <2>0, <2>2 DEF DispatchResized, xdgVars, clientVars
  <2>3. CASE FrameResized
    <3>1. LogicalCount(handling) \in Nat
        BY <2>3, Rounds DEF FrameResized, TypeOK
    <3> QED
        BY <2>0, <2>3, <3>1, ConfigureInOrder DEF FrameResized
  <2>4. CASE WindowActivated
    BY <2>4, ConfigureInOrder DEF WindowActivated, TypeOK
  <2>5. CASE HandleCreateDecoration
    BY <2>0, <2>5 DEF HandleCreateDecoration, xdgVars, clientVars
  <2>6. CASE HandleGetToplevel
    BY <2>0, <2>6 DEF HandleGetToplevel, xdgVars, clientVars
  <2>7. CASE \E m \in Request : HandleRequestMode(m)
    BY <2>0, <2>7 DEF HandleRequestMode, xdgVars, clientVars
  <2>8. CASE \E l \in Limit : HandleSetSizeLimits(l[1], l[2])
    BY <2>0, <2>8 DEF HandleSetSizeLimits, xdgVars, clientVars
  <2>9. CASE HandleSetFullscreen
    BY <2>9, SizeAssumption, Rounds, ConfigureInOrder DEF HandleSetFullscreen
  <2>10. CASE HandleUnsetFullscreen
    BY <2>10, Rounds, ConfigureInOrder DEF HandleUnsetFullscreen, TypeOK
  <2>11. CASE ReadConfigure
    <3>1. wire \in Seq(Event) /\ wire # <<>> /\ read' = Head(wire) /\ wire' = Tail(wire)
          /\ fAckSerial' = fAckSerial /\ fSerial' = fSerial
        BY <2>11 DEF ReadConfigure, xdgVars, TypeOK, Event
    <3>2. /\ read' = wire[1] /\ Len(wire) \in Nat \ {0} /\ Len(wire') = Len(wire) - 1
          /\ \A i \in 1..Len(wire') : wire'[i] = wire[i + 1]
          /\ \A i \in 1..Len(wire) : wire[i] \in Event
        BY <3>1
    <3>3. fAckSerial \in Nat /\ fSerial \in Nat /\ read.serial \in Nat
        BY DEF TypeOK
    <3>4. \A i \in 1..Len(wire) : wire[i].serial \in Nat
        BY <3>2 DEF Event
    <3>5. /\ fAckSerial <= read.serial /\ read.serial <= wire[1].serial
          /\ wire[1].serial < fSerial /\ wire[1].serial \in Nat
        BY <3>2, <3>4 DEF SerialInv
    <3>6. fAckSerial' <= read'.serial /\ read'.serial <= fSerial'
        BY <3>1, <3>2, <3>3, <3>5
    <3>7. ASSUME NEW i \in 1..Len(wire')
          PROVE  read'.serial <= wire'[i].serial /\ wire'[i].serial < fSerial'
      <4>1. i + 1 \in 1..Len(wire) /\ 1 \in 1..Len(wire) /\ 1 < i + 1
        BY <3>2
      <4>2. wire[1].serial < wire[i + 1].serial /\ wire[i + 1].serial < fSerial
        BY <4>1 DEF SerialInv
      <4> QED
        BY <3>1, <3>2, <3>4, <4>1, <4>2
    <3>8. ASSUME NEW i \in 1..Len(wire'), NEW j \in 1..Len(wire'), i < j
          PROVE  wire'[i].serial < wire'[j].serial
      <4>1. i + 1 \in 1..Len(wire) /\ j + 1 \in 1..Len(wire) /\ i + 1 < j + 1
        BY <3>2, <3>8
      <4> QED
        BY <3>2, <4>1 DEF SerialInv
    <3> QED
        BY <3>6, <3>7, <3>8 DEF SerialInv
  <2>12. CASE HandleAckConfigure
    <3>1. fAckSerial' = read.serial /\ UNCHANGED <<read, fSerial, wire>>
        BY <2>12 DEF HandleAckConfigure, clientVars
    <3>2. read.serial \in Nat
        BY DEF TypeOK
    <3> QED
        BY <3>1, <3>2 DEF SerialInv
  <2>13. CASE \E size \in Size \cup {read.width} : HandleSetWindowGeometry(size)
    BY <2>0, <2>13 DEF HandleSetWindowGeometry
  <2>14. CASE \E bitmap \in Size \cup {0, fBitmap} : HandleCommit(bitmap)
    <3>1. fWidth' \in Nat
        BY <2>14 DEF HandleCommit, TypeOK
    <3> QED
        BY <2>0, <2>14, <3>1, ConfigureInOrder DEF HandleCommit
  <2>15. CASE UNCHANGED vars
    BY <2>0, <2>15 DEF vars, xdgVars, clientVars
  <2>16. CASE \E edge \in {"topLeft", "bottomRight"} : HandleResize(edge)
    BY <2>0, <2>16 DEF HandleResize, xdgVars, clientVars
  <2>17. CASE \E d \in Drag : MouseMoved(d)
    <3>1. PICK d \in Drag : MouseMoved(d)
        BY <2>17
    <3>2. \E width \in Nat : Configure(width)
        BY <3>1, DragTyped DEF MouseMoved
    <3> QED
        BY <3>1, <3>2, ConfigureInOrder DEF MouseMoved
  <2>18. CASE MouseUp
    BY <2>0, <2>18 DEF MouseUp, xdgVars, clientVars
  <2> QED
    BY <2>1, <2>2, <2>3, <2>4, <2>5, <2>6, <2>7, <2>8, <2>9, <2>10, <2>11, <2>12, <2>13,
       <2>14, <2>15, <2>16, <2>17, <2>18 DEF Next
<1> QED
    BY <1>1, <1>2, TypeCorrect, PTL DEF Spec

(* While the client has not read the configure of the user's last resize,   *)
(* no commit gives the window another size, except through new size limits. *)
THEOREM UnseenResizesStand == Spec => UnseenResizeStands
<1> DEFINE Stands == HasServerDecoration /\ read.serial < fResizeSerial /\ asked' = asked
                     /\ ~LimitsApply => window'.frame = window.frame
<1>1. TypeOK /\ SerialInv /\ [Next]_vars => [Stands]_vars
  <2> SUFFICES ASSUME TypeOK, SerialInv, Next, HasServerDecoration,
                      read.serial < fResizeSerial, asked' = asked, ~LimitsApply
               PROVE  window'.frame = window.frame
    OBVIOUS
  <2>0. window \in BWindow /\ asked \in Nat /\ asked # asked + 1
    BY DEF TypeOK, BWindow
  <2>1. ResizeUnseen
    BY DEF SerialInv, TypeOK, ResizeUnseen
  <2>2. CASE \E bitmap \in Size \cup {0, fBitmap} : HandleCommit(bitmap)
    <3>1. PICK bitmap \in Size \cup {0, fBitmap} : HandleCommit(bitmap)
        BY <2>2
    <3>2. Sized(Limited, bitmap) = window
        BY <2>1 DEF Sized, GeometryLeads, Limited
    <3>3. window' = Shown(window, bitmap)
        BY <3>1, <3>2 DEF HandleCommit
    <3> QED
        BY <2>0, <3>3 DEF Shown, BWindow
  <2>3. CASE DispatchResized \/ (\E m \in Request : HandleRequestMode(m)) \/ HandleGetToplevel
    BY <2>0, <2>3 DEF DispatchResized, HandleRequestMode, HandleGetToplevel, BWindow
  <2>4. CASE FrameResized \/ HandleCreateDecoration \/ ReadConfigure \/ HandleAckConfigure
             \/ \E size \in Size \cup {read.width} : HandleSetWindowGeometry(size)
    BY <2>4 DEF FrameResized, HandleCreateDecoration, ReadConfigure, HandleAckConfigure,
               HandleSetWindowGeometry
  <2>5. CASE \/ \E n \in UserSize : UserResize(n)
             \/ WindowActivated \/ HandleSetFullscreen \/ HandleUnsetFullscreen
             \/ \E l \in Limit : HandleSetSizeLimits(l[1], l[2])
             \/ \E edge \in {"topLeft", "bottomRight"} : HandleResize(edge)
             \/ \E d \in Drag : MouseMoved(d)
    BY <2>0, <2>5 DEF UserResize, WindowActivated, HandleSetFullscreen, HandleUnsetFullscreen,
                     HandleSetSizeLimits, HandleResize, MouseMoved
  <2>6. CASE MouseUp
    BY <2>6 DEF MouseUp
  <2> QED
    BY <2>2, <2>3, <2>4, <2>5, <2>6 DEF Next
<1> QED
    BY <1>1, TypeCorrect, SerialsInOrder, PTL DEF Spec, UnseenResizeStands
-----------------------------------------------------------------------------
(* The window and its messages *)

(* The only size on its way to the window is the frame's, the window has it *)
(* when none is on its way, and a resize that was overtaken while its       *)
(* handler waits for the server has another one behind it.                  *)
Tidy(win, h) ==
    /\ win.resized \in {Nothing, win.frame}
    /\ win.resized = Nothing => win.bounds = win.frame
    /\ h # Nothing /\ win.bounds # h => win.resized # Nothing

(* What a step leaves of a window that does not size it. *)
SameSize(win, old) ==
    /\ win.frame = old.frame /\ win.bounds = old.bounds /\ win.resized = old.resized
    /\ win.min = old.min /\ win.max = old.max

LEMMA FramedFields ==
    ASSUME NEW win \in BWindow, NEW n \in Nat
    PROVE  LET f == Framed(win, n)
           IN  /\ f \in BWindow /\ f.frame = n /\ f.bounds = win.bounds
               /\ f.resized = IF n = win.frame THEN win.resized ELSE n
               /\ f.min = win.min /\ f.max = win.max /\ f.shown = win.shown
BY DEF Framed, BWindow

LEMMA ResizedFields ==
    ASSUME NEW win \in BWindow, NEW n \in Nat
    PROVE  LET r == ResizeTo(win, n)
               size == Clamped(win, n)
           IN  /\ size \in Nat /\ r \in BWindow
               /\ size = win.bounds => r = win
               /\ size # win.bounds => r.frame = size /\ r.bounds = size
               /\ size # win.bounds =>
                    r.resized = IF size = win.frame THEN win.resized ELSE size
               /\ r.min = win.min /\ r.max = win.max /\ r.shown = win.shown
<1> DEFINE size == Clamped(win, n)
           f == Framed(win, size)
           r == [f EXCEPT !.bounds = size]
<1>1. size \in Nat /\ ResizeTo(win, n) \in BWindow
    BY ResizeTyped
<1> HIDE DEF size
<1>2. /\ f \in BWindow /\ f.frame = size
      /\ f.resized = IF size = win.frame THEN win.resized ELSE size
      /\ f.min = win.min /\ f.max = win.max /\ f.shown = win.shown
    BY <1>1, FramedFields
<1>3. ResizeTo(win, n) = IF size = win.bounds THEN win ELSE r
    BY DEF ResizeTo, size
<1> HIDE DEF f
<1>4. /\ r.frame = size /\ r.bounds = size /\ r.resized = f.resized
      /\ r.min = win.min /\ r.max = win.max /\ r.shown = win.shown
    BY <1>1, <1>2 DEF BWindow
<1> HIDE DEF r
<1> QED
    BY <1>1, <1>2, <1>3, <1>4 DEF size

LEMMA FramedTidy ==
    ASSUME NEW win \in BWindow, NEW n \in Nat, NEW h \in Nat \cup {Nothing}, Tidy(win, h)
    PROVE  Tidy(Framed(win, n), h)
<1> DEFINE f == Framed(win, n)
<1>1. /\ f.frame = n /\ f.bounds = win.bounds
      /\ f.resized = IF n = win.frame THEN win.resized ELSE n
    BY FramedFields
<1>2. n # Nothing
    BY DEF Nothing
<1> HIDE DEF f
<1>3. Tidy(f, h)
    BY <1>1, <1>2 DEF Tidy
<1> QED
    BY <1>3 DEF f

LEMMA ResizedTidy ==
    ASSUME NEW win \in BWindow, NEW n \in Nat, NEW h \in Nat \cup {Nothing}, Tidy(win, h)
    PROVE  Tidy(ResizeTo(win, n), h)
<1> DEFINE r == ResizeTo(win, n)
           size == Clamped(win, n)
<1>1. /\ size \in Nat
      /\ size = win.bounds => r = win
      /\ size # win.bounds => r.frame = size /\ r.bounds = size
      /\ size # win.bounds => r.resized = IF size = win.frame THEN win.resized ELSE size
    BY ResizedFields
<1>2. \A k \in Nat : k # Nothing
    BY DEF Nothing
<1> HIDE DEF r, size
<1>3. Tidy(r, h)
    BY <1>1, <1>2 DEF Tidy
<1> QED
    BY <1>3 DEF r

(* The window after the size limits: its frame may change, its bounds and   *)
(* what Tidy says do not.                                                   *)
LEMMA LimitedFields ==
    ASSUME TypeOK
    PROVE  /\ Limited \in BWindow
           /\ Limited.bounds = window.bounds /\ Limited.shown = window.shown
           /\ ~LimitsApply => Limited = window
           /\ Limited.frame # window.frame => Limited.resized = Limited.frame
           /\ Limited.frame = window.frame => Limited.resized = window.resized
           /\ LimitsApply => \/ Limited.frame \in {window.frame, 32768}
                             \/ \E c \in Nat \ {0} : Limited.frame = NativeCount(c)
           /\ LimitsApply => Limited.frame = Clamped(Limited, window.frame)
<1> DEFINE min == IF limits.min = 0 THEN 0 ELSE NativeCount(limits.min)
           max == IF limits.max = 0 THEN 32768 ELSE NativeCount(limits.max)
           narrow == [window EXCEPT !.min = min, !.max = max]
           size == Clamped(narrow, window.frame)
           limited == Framed(narrow, size)
           fixed == ~(limits.min # 0 /\ limits.min = limits.max)
           r == [limited EXCEPT !.resizable = fixed]
<1>1. window \in BWindow /\ limits.min \in Nat /\ limits.max \in Nat
    BY DEF TypeOK, BWindow
<1>2. min \in Nat /\ max \in Nat /\ fixed \in BOOLEAN
    BY <1>1, Rounds
<1>3. Limited = IF ~LimitsApply THEN window ELSE r
    BY DEF Limited, SetSizeLimits
<1>4. /\ size \in {window.frame, min, max}
      /\ size < min => size = max
      /\ min # 0 => \E c \in Nat \ {0} : min = NativeCount(c)
      /\ max # 32768 => \E c \in Nat \ {0} : max = NativeCount(c)
      /\ size = IF window.frame < min THEN min ELSE IF window.frame > max THEN max ELSE window.frame
  <2> HIDE DEF narrow
  <2>1. narrow.min = min /\ narrow.max = max
    BY <1>1, <1>2 DEF narrow, BWindow
  <2>2. window.frame \in Nat
    BY <1>1 DEF BWindow
  <2>3. size = IF window.frame < min THEN min ELSE IF window.frame > max THEN max ELSE window.frame
    BY <2>1 DEF Clamped
  <2> QED
    BY <1>1, <1>2, <2>2, <2>3
<1> HIDE DEF min, max, fixed
<1>5. narrow \in BWindow /\ narrow.frame = window.frame /\ narrow.bounds = window.bounds
      /\ narrow.resized = window.resized /\ narrow.shown = window.shown
      /\ narrow.min = min /\ narrow.max = max
    BY <1>1, <1>2 DEF BWindow
<1>6. size \in Nat
    BY <1>1, <1>2, <1>4 DEF BWindow
<1> HIDE DEF narrow, size
<1>7. /\ limited \in BWindow /\ limited.frame = size /\ limited.bounds = window.bounds
      /\ limited.resized = IF size = window.frame THEN window.resized ELSE size
      /\ limited.shown = window.shown /\ limited.min = min /\ limited.max = max
    BY <1>5, <1>6, FramedFields
<1> HIDE DEF limited
<1>8. /\ r \in BWindow /\ r.frame = size /\ r.bounds = window.bounds
      /\ r.resized = limited.resized /\ r.shown = window.shown /\ r.min = min /\ r.max = max
    BY <1>2, <1>7 DEF BWindow
<1> HIDE DEF r
<1>9. Limited \in BWindow /\ Limited.bounds = window.bounds /\ Limited.shown = window.shown
    BY <1>1, <1>3, <1>8
<1>10. /\ Limited.frame # window.frame => Limited.resized = Limited.frame
       /\ Limited.frame = window.frame => Limited.resized = window.resized
    BY <1>3, <1>7, <1>8
<1>11. ASSUME LimitsApply
       PROVE  /\ \/ Limited.frame \in {window.frame, 32768}
                 \/ \E c \in Nat \ {0} : Limited.frame = NativeCount(c)
              /\ Limited.frame = Clamped(Limited, window.frame)
  <2>1. Limited.frame = size /\ Limited.min = min /\ Limited.max = max
    BY <1>3, <1>8, <1>11
  <2>2. window.frame \in Nat
    BY <1>1 DEF BWindow
  <2>3. size \in {window.frame, 32768} \/ \E c \in Nat \ {0} : size = NativeCount(c)
    BY <1>2, <1>4, <2>2
  <2>4. size = Clamped(Limited, window.frame)
    BY <1>4, <2>1 DEF Clamped
  <2> QED
    BY <2>1, <2>3, <2>4
<1> QED
    BY <1>3, <1>9, <1>10, <1>11

LEMMA LimitedTidy ==
    ASSUME TypeOK, Tidy(window, handling) PROVE Tidy(Limited, handling)
<1> DEFINE l == Limited
<1>1. /\ l \in BWindow /\ l.bounds = window.bounds
      /\ l.frame # window.frame => l.resized = l.frame
      /\ l.frame = window.frame => l.resized = window.resized
    BY LimitedFields
<1>2. l.frame \in Nat /\ \A k \in Nat : k # Nothing
    BY <1>1 DEF BWindow, Nothing
<1> HIDE DEF l
<1>3. Tidy(l, handling)
    BY <1>1, <1>2 DEF Tidy
<1> QED
    BY <1>3 DEF l
-----------------------------------------------------------------------------
(* The feedback loop *)

Last == wire[Len(wire)]
NoSize(w) == \A i \in 1..Len(w) : w[i].width = 0

(* Until the client has mapped its window nothing has a size.               *)
UnmappedInv == inOrder /\ fGeometry = 0 =>
    /\ fBitmap = 0 /\ ~fSurfaceInitalized /\ ~window.shown /\ ~fFullscreen /\ track = NoTrack
    /\ window.frame = 0 /\ window.bounds = 0 /\ window.resized = Nothing
    /\ window.min = 0 /\ window.max = 32768 /\ handling = Nothing
    /\ fWidth = 0 /\ fResizeSerial = 0 /\ answered /\ NoSize(wire)

(* A mapped window keeps a geometry and was configured.                     *)
MappedInv == inOrder /\ fGeometry # 0 => fPendingGeometry # 0 /\ fConfigureCalled

(* A size the client read is unanswered until it is acked, and the          *)
(* configure of a resize the client has not seen is on the wire.            *)
WireInv ==
    /\ fResizeSerial < fSerial
    /\ read.width = 0 => answered
    /\ read.width # 0 /\ fAckSerial # read.serial => ~answered
    /\ fResizeSerial > read.serial => wire # <<>> /\ fResizeSerial <= Last.serial

(* What is owed to the client: its first configure, the one its first size  *)
(* causes, one for size limits that wait for a commit, and one for each     *)
(* resize that will reach FrameResized with a size that is not fWidth.      *)
One(b) == IF b THEN 1 ELSE 0
Late(win, h, w) == h # Nothing /\ win.bounds = h /\ LogicalCount(h) # w
Coming(win, w) ==
    win.resized # Nothing /\ ~(win.frame = win.bounds /\ LogicalCount(win.bounds) = w)
OwedByWindow ==
    IF HasServerDecoration
    THEN One(Late(window, handling, fWidth)) + One(Coming(window, fWidth)) ELSE 0
Owed == One(~fConfigureCalled) + One(fGeometry = 0) + One(limits.dirty) + OwedByWindow

LoopInv == inOrder => fSerial + Owed <= 3 + asked

(* The steps that neither size the window nor talk to the client.           *)
Aside ==
    /\ fSerial' = fSerial /\ fAckSerial' = fAckSerial /\ fResizeSerial' = fResizeSerial
    /\ fConfigureCalled' = fConfigureCalled /\ fSurfaceInitalized' = fSurfaceInitalized
    /\ fGeometry' = fGeometry /\ fPendingGeometry' = fPendingGeometry
    /\ fWidth' = fWidth /\ fFullscreen' = fFullscreen /\ fSavedPos' = fSavedPos
    /\ fBitmap' = fBitmap /\ handling' = handling
    /\ wire' = wire /\ read' = read /\ answered' = answered
    /\ SameSize(window', window) /\ window'.shown = window.shown
    /\ inOrder' => inOrder /\ (HasServerDecoration' <=> HasServerDecoration)
    /\ track' # NoTrack => track # NoTrack \/ window.shown
    /\ \/ asked' = asked /\ limits' = limits
       \/ asked' = asked + 1

LEMMA AsideSteps ==
    ASSUME TypeOK,
           \/ HandleCreateDecoration \/ HandleGetToplevel
           \/ \E m \in Request : HandleRequestMode(m)
           \/ \E l \in Limit : HandleSetSizeLimits(l[1], l[2])
           \/ \E edge \in {"topLeft", "bottomRight"} : HandleResize(edge)
           \/ MouseUp \/ UNCHANGED vars
    PROVE  Aside
<1>0. window \in BWindow
    BY DEF TypeOK, BWindow
<1>1. CASE HandleCreateDecoration
    BY <1>1 DEF HandleCreateDecoration, Aside, SameSize, HasServerDecoration, xdgVars,
               toplevelVars, clientVars, counters
<1>2. CASE HandleGetToplevel
  <2>1. SameSize(window', window) /\ window'.shown = window.shown
    BY <1>0, <1>2 DEF HandleGetToplevel, SameSize, BWindow
  <2> QED
    BY <1>2, <2>1 DEF HandleGetToplevel, Aside, HasServerDecoration, xdgVars, toplevelVars,
                     clientVars, counters
<1>3. CASE \E m \in Request : HandleRequestMode(m)
  <2>1. PICK m \in Request : HandleRequestMode(m)
    BY <1>3
  <2>2. SameSize(window', window) /\ window'.shown = window.shown
    BY <1>0, <2>1 DEF HandleRequestMode, SameSize, BWindow
  <2>3. inOrder' => inOrder /\ (HasServerDecoration' <=> HasServerDecoration)
    BY <2>1 DEF HandleRequestMode, HasServerDecoration, xdgVars
  <2> QED
    BY <2>1, <2>2, <2>3 DEF HandleRequestMode, Aside, xdgVars, toplevelVars, clientVars
<1>4. CASE \E l \in Limit : HandleSetSizeLimits(l[1], l[2])
    BY <1>4 DEF HandleSetSizeLimits, Aside, SameSize, HasServerDecoration, xdgVars, clientVars
<1>5. CASE \E edge \in {"topLeft", "bottomRight"} : HandleResize(edge)
  <2>1. PICK edge \in {"topLeft", "bottomRight"} : HandleResize(edge)
    BY <1>5
  <2>2. /\ window' = window /\ inOrder' = inOrder /\ fMode' = fMode /\ window.shown
        /\ asked' = asked + 1 /\ handling' = handling /\ fBitmap' = fBitmap
        /\ UNCHANGED <<xdgVars, toplevelVars, clientVars>>
    BY <2>1 DEF HandleResize
  <2> QED
    BY <2>2 DEF Aside, SameSize, HasServerDecoration, xdgVars, toplevelVars, clientVars
<1>6. CASE MouseUp
    BY <1>6 DEF MouseUp, Aside, SameSize, HasServerDecoration, xdgVars, toplevelVars,
               clientVars, counters
<1>7. CASE UNCHANGED vars
    BY <1>7 DEF vars, Aside, SameSize, HasServerDecoration, xdgVars, toplevelVars, clientVars,
               counters
<1> QED
    BY <1>1, <1>2, <1>3, <1>4, <1>5, <1>6, <1>7

LEMMA Configured ==
    ASSUME TypeOK, NEW width \in Nat, Configure(width)
    PROVE  /\ wire' # <<>> /\ Last'.width = width /\ Last'.serial = fSerial
           /\ fSerial' = fSerial + 1
           /\ Len(wire') = Len(wire) + 1 /\ Len(wire) \in Nat
           /\ \A i \in 1..Len(wire) : wire'[i] = wire[i]
           /\ wire'[Len(wire) + 1].width = width
           /\ width = 0 /\ NoSize(wire) => NoSize(wire')
<1> DEFINE e == [width |-> width, serial |-> fSerial]
<1>1. wire \in Seq(Event) /\ e \in Event /\ e.serial = fSerial /\ e.width = width
    BY DEF TypeOK, Event
<1>2. wire' = Append(wire, e) /\ fSerial' = fSerial + 1
    BY DEF Configure
<1> HIDE DEF e
<1>3. /\ Len(wire') = Len(wire) + 1 /\ wire'[Len(wire) + 1] = e /\ Len(wire) \in Nat
      /\ \A i \in 1..Len(wire) : wire'[i] = wire[i]
      /\ wire' # <<>>
    BY <1>1, <1>2
<1>4. Last' = e
    BY <1>3 DEF Last
<1> QED
    BY <1>1, <1>2, <1>3, <1>4 DEF NoSize

LEMMA ConfigureRead ==
    ASSUME TypeOK, ReadConfigure
    PROVE  /\ wire # <<>> /\ read' = wire[1] /\ read'.width \in Nat /\ read'.serial \in Nat
           /\ Len(wire) \in Nat \ {0} /\ Len(wire') = Len(wire) - 1
           /\ \A i \in 1..Len(wire') : wire'[i] = wire[i + 1]
           /\ Len(wire) = 1 => wire' = <<>> /\ read' = Last
           /\ Len(wire) # 1 => wire' # <<>> /\ Last' = Last
           /\ Last.width \in Nat /\ Last.serial \in Nat
<1>1. wire \in Seq(Event) /\ wire # <<>> /\ read' = Head(wire) /\ wire' = Tail(wire)
    BY DEF ReadConfigure, TypeOK, Event
<1>2. /\ read' = wire[1] /\ Len(wire) \in Nat \ {0} /\ Len(wire') = Len(wire) - 1
      /\ \A i \in 1..Len(wire') : wire'[i] = wire[i + 1]
      /\ \A i \in 1..Len(wire) : wire[i] \in Event
      /\ wire' \in Seq(Event)
    BY <1>1
<1>6. (Len(wire) = 1 => wire' = <<>>) /\ (Len(wire) # 1 => wire' # <<>>)
    BY <1>2
<1>3. read' \in Event /\ Last \in Event
    BY <1>2 DEF Last
<1>4. Len(wire) = 1 => read' = Last
    BY <1>2 DEF Last
<1>5. Len(wire) # 1 => Last' = Last
    BY <1>2 DEF Last
<1> QED
    BY <1>1, <1>2, <1>3, <1>4, <1>5, <1>6 DEF Event

(* Showing the window does not size it.                                     *)
LEMMA CommitFields ==
    ASSUME TypeOK, NEW bitmap \in Nat, HandleCommit(bitmap)
    PROVE  /\ Sized(Limited, bitmap) \in BWindow
           /\ SameSize(window', Sized(Limited, bitmap))
           /\ fSurfaceInitalized \/ bitmap = 0 => window' = Sized(Limited, bitmap)
<1>1. Sized(Limited, bitmap) \in BWindow
  <2>1. Limited \in BWindow
    BY LimitedFields
  <2> QED
    BY <2>1, Rounds, ResizeTyped DEF Sized, TypeOK
<1> DEFINE win == Sized(Limited, bitmap)
<1>2. window' = Shown(win, bitmap)
    BY DEF HandleCommit
<1> HIDE DEF win
<1>3. win \in BWindow
    BY <1>1 DEF win
<1>4. SameSize(Shown(win, bitmap), win)
    BY <1>3 DEF Shown, SameSize, BWindow
<1> QED
    BY <1>1, <1>2, <1>4 DEF win, Shown

OrderInv == Tidy(window, handling) /\ UnmappedInv /\ MappedInv /\ WireInv

(* A configure that is not about a resize by the user.                      *)
LEMMA ConfigureKeepsWire ==
    ASSUME TypeOK, WireInv, NEW width \in Nat, Configure(width),
           UNCHANGED <<fResizeSerial, fAckSerial, read, answered>>
    PROVE  WireInv'
<1>1. wire' # <<>> /\ Last'.serial = fSerial /\ fSerial' = fSerial + 1
    BY Configured
<1> QED
    BY <1>1 DEF WireInv, TypeOK

LEMMA OrderCommitted ==
    ASSUME TypeOK, OrderInv, NEW bitmap \in Nat, HandleCommit(bitmap)
    PROVE  OrderInv'
<1> USE DEF OrderInv
<1>0. window \in BWindow /\ handling \in Nat \cup {Nothing} /\ \A k \in Nat : k # Nothing
    BY DEF TypeOK, BWindow, Nothing
<1>1. /\ inOrder' => inOrder /\ (bitmap # 0 <=> fPendingGeometry # 0)
      /\ fBitmap' = bitmap /\ fGeometry' = fPendingGeometry
      /\ fPendingGeometry' = fPendingGeometry /\ fConfigureCalled' /\ handling' = handling
      /\ fSurfaceInitalized' = (fSurfaceInitalized \/ bitmap # 0)
      /\ fWidth' = IF GeometryLeads THEN fPendingGeometry ELSE fWidth
      /\ IF fConfigureCalled THEN UNCHANGED <<wire, fSerial>> ELSE Configure(fWidth')
      /\ UNCHANGED <<fResizeSerial, fAckSerial, read, answered, fFullscreen, track>>
    BY DEF HandleCommit
<1>2. fWidth' \in Nat
    BY <1>1 DEF TypeOK
<1>3. Tidy(window, handling)'
  <2>1. Tidy(Sized(Limited, bitmap), handling)
    <3> DEFINE win == Limited
    <3>1. win \in BWindow /\ Tidy(win, handling)
        BY LimitedFields, LimitedTidy
    <3> HIDE DEF win
    <3>2. \A n \in Nat : Tidy(ResizeTo(win, n), handling)
        BY <1>0, <3>1, ResizedTidy
    <3>3. NativeCount(bitmap) \in Nat /\ NativeCount(fPendingGeometry) \in Nat
        BY Rounds DEF TypeOK
    <3>4. Tidy(Sized(win, bitmap), handling)
        BY <3>1, <3>2, <3>3 DEF Sized
    <3> QED
        BY <3>4 DEF win
  <2>2. SameSize(window', Sized(Limited, bitmap))
    BY CommitFields
  <2> QED
    BY <1>1, <2>1, <2>2 DEF Tidy, SameSize
<1>4. UnmappedInv'
  <2> SUFFICES ASSUME inOrder', fGeometry' = 0 PROVE UnmappedInv'
    BY DEF UnmappedInv
  <2>1. inOrder /\ fPendingGeometry = 0 /\ bitmap = 0 /\ fGeometry = 0
    BY <1>1 DEF MappedInv
  <2>2. ~HasServerDecoration /\ ~LimitsApply /\ ~GeometryLeads
    BY <2>1 DEF HasServerDecoration, LimitsApply, GeometryLeads
  <2>3. window' = window
    BY <2>1, <2>2, CommitFields, LimitedFields DEF Sized
  <2>4. fWidth' = 0 /\ NoSize(wire)
    BY <1>1, <2>1, <2>2 DEF UnmappedInv
  <2>5. NoSize(wire')
    BY <1>1, <1>2, <2>4, Configured
  <2>6. ~fSurfaceInitalized'
    <3>1. ~fSurfaceInitalized /\ ~(bitmap # 0)
        BY <2>1 DEF UnmappedInv
    <3>2. fSurfaceInitalized' = (fSurfaceInitalized \/ bitmap # 0)
        BY <1>1
    <3> QED
        BY <3>1, <3>2, Zenon
  <2>7. /\ ~window'.shown /\ window'.frame = 0 /\ window'.bounds = 0
        /\ window'.resized = Nothing /\ window'.min = 0 /\ window'.max = 32768
    BY <2>1, <2>3 DEF UnmappedInv
  <2>8. fBitmap' = 0 /\ ~fFullscreen' /\ track' = NoTrack /\ handling' = Nothing
        /\ fResizeSerial' = 0 /\ answered'
    BY <1>1, <2>1 DEF UnmappedInv
  <2> QED
    BY <2>4, <2>5, <2>6, <2>7, <2>8 DEF UnmappedInv
<1>5. MappedInv'
    BY <1>1 DEF MappedInv
<1>6. WireInv'
  <2>1. CASE fConfigureCalled
    BY <1>1, <2>1 DEF WireInv, Last
  <2>2. CASE ~fConfigureCalled
    BY <1>1, <1>2, <2>2, ConfigureKeepsWire
  <2> QED
    BY <2>1, <2>2
<1> QED
    BY <1>3, <1>4, <1>5, <1>6

LEMMA OrderKept == Spec => []OrderInv
<1>1. Init => OrderInv
    BY DEF Init, OrderInv, Tidy, UnmappedInv, MappedInv, WireInv, NoSize, Nothing
<1>2. TypeOK /\ SerialInv /\ OrderInv /\ [Next]_vars => OrderInv'
  <2> SUFFICES ASSUME TypeOK, SerialInv, OrderInv, [Next]_vars PROVE OrderInv'
    OBVIOUS
  <2> USE DEF OrderInv
  <2>0. window \in BWindow /\ handling \in Nat \cup {Nothing} /\ \A k \in Nat : k # Nothing
    BY DEF TypeOK, BWindow, Nothing
  <2>1. CASE \E n \in UserSize : UserResize(n)
    <3>1. PICK n \in UserSize : UserResize(n)
        BY <2>1
    <3>2. n \in Nat /\ window' = Framed(window, n) /\ window.shown
        BY <3>1, SizeAssumption DEF UserResize
    <3>3. UNCHANGED <<xdgVars, toplevelVars, clientVars, inOrder, handling, track>>
        BY <3>1 DEF UserResize
    <3>4. Tidy(window, handling)'
        BY <2>0, <3>2, <3>3, FramedTidy DEF Tidy
    <3> QED
        BY <3>2, <3>3, <3>4 DEF UnmappedInv, MappedInv, WireInv, Last, xdgVars, toplevelVars,
                               clientVars
  <2>2. CASE DispatchResized
    <3>1. /\ handling = Nothing /\ window.resized # Nothing /\ handling' = window.resized
          /\ window' = [window EXCEPT !.bounds = window.resized, !.resized = Nothing]
          /\ UNCHANGED <<xdgVars, toplevelVars, clientVars, inOrder, fBitmap, track>>
        BY <2>2 DEF DispatchResized
    <3>2. window'.resized = Nothing /\ window'.frame = window.frame
          /\ window'.bounds = window.resized
        BY <2>0, <3>1 DEF BWindow
    <3>3. Tidy(window, handling)'
        BY <2>0, <3>1, <3>2 DEF Tidy
    <3> QED
        BY <3>1, <3>3 DEF UnmappedInv, MappedInv, WireInv, Last, xdgVars, toplevelVars,
                         clientVars
  <2>3. CASE FrameResized
    <3>1. /\ handling # Nothing /\ handling' = Nothing /\ window' = window
          /\ inOrder' = inOrder /\ fGeometry' = fGeometry /\ fConfigureCalled' = fConfigureCalled
          /\ fPendingGeometry' = fPendingGeometry
          /\ UNCHANGED <<fAckSerial, read, answered>>
          /\ \/ UNCHANGED <<fResizeSerial, wire, fSerial>>
             \/ fResizeSerial' = fSerial /\ Configure(LogicalCount(handling))
        BY <2>3 DEF FrameResized
    <3>2. Tidy(window, handling)'
        BY <3>1 DEF Tidy
    <3>3. UnmappedInv' /\ MappedInv'
        BY <3>1 DEF UnmappedInv, MappedInv
    <3>4. WireInv'
      <4>1. CASE UNCHANGED <<fResizeSerial, wire, fSerial>>
        BY <3>1, <4>1 DEF WireInv, Last
      <4>2. CASE fResizeSerial' = fSerial /\ Configure(LogicalCount(handling))
        <5>1. LogicalCount(handling) \in Nat
            BY <2>0, <3>1, Rounds
        <5>2. wire' # <<>> /\ Last'.serial = fSerial /\ fSerial' = fSerial + 1
            BY <4>2, <5>1, Configured
        <5> QED
            BY <3>1, <4>2, <5>2 DEF WireInv, TypeOK
      <4> QED
        BY <3>1, <4>1, <4>2
    <3> QED
        BY <3>2, <3>3, <3>4
  <2>4. CASE WindowActivated
    <3>1. /\ window.shown /\ Configure(fWidth) /\ fWidth \in Nat
          /\ window' = window /\ handling' = handling
          /\ inOrder' = inOrder /\ fGeometry' = fGeometry /\ fConfigureCalled' = fConfigureCalled
          /\ fPendingGeometry' = fPendingGeometry
          /\ UNCHANGED <<fResizeSerial, fAckSerial, read, answered>>
        BY <2>4 DEF WindowActivated, TypeOK
    <3>2. WireInv'
        BY <3>1, ConfigureKeepsWire
    <3> QED
        BY <3>1, <3>2 DEF Tidy, UnmappedInv, MappedInv
  <2>5. CASE HandleSetFullscreen \/ HandleUnsetFullscreen
    <3>1. PICK n \in Nat : /\ window' = ResizeTo(window, n) /\ Configure(LogicalCount(n))
                           /\ inOrder' => inOrder /\ (fFullscreen \/ window.shown)
      <4>1. Screen \in Nat /\ fSavedPos \in Nat
        BY SizeAssumption DEF TypeOK
      <4> QED
        BY <2>5, <4>1 DEF HandleSetFullscreen, HandleUnsetFullscreen
    <3>2. /\ handling' = handling /\ fGeometry' = fGeometry
          /\ fConfigureCalled' = fConfigureCalled /\ fPendingGeometry' = fPendingGeometry
          /\ UNCHANGED <<fResizeSerial, fAckSerial, read, answered>>
        BY <2>5 DEF HandleSetFullscreen, HandleUnsetFullscreen
    <3>3. WireInv'
        BY <3>1, <3>2, Rounds, ConfigureKeepsWire
    <3>4. Tidy(window, handling)'
        BY <2>0, <3>1, <3>2, ResizedTidy DEF Tidy
    <3>5. UnmappedInv' /\ MappedInv'
        BY <3>1, <3>2 DEF UnmappedInv, MappedInv
    <3> QED
        BY <3>3, <3>4, <3>5
  <2>6. CASE \E d \in Drag : MouseMoved(d)
    <3>1. PICK d \in Drag : MouseMoved(d)
        BY <2>6
    <3>5. track # NoTrack
        BY <3>1 DEF MouseMoved, DragTopLeft, DragBottomRight, NoTrack
    <3>2. /\ inOrder' => inOrder
          /\ window' = window /\ handling' = handling
          /\ fGeometry' = fGeometry /\ fConfigureCalled' = fConfigureCalled
          /\ fPendingGeometry' = fPendingGeometry
          /\ UNCHANGED <<fResizeSerial, fAckSerial, read, answered>>
        BY <3>1 DEF MouseMoved, toplevelVars
    <3>3. PICK width \in Nat : Configure(width)
        BY <3>1, DragTyped DEF MouseMoved
    <3>4. WireInv'
        BY <3>2, <3>3, ConfigureKeepsWire
    <3> QED
        BY <3>2, <3>4, <3>5 DEF Tidy, UnmappedInv, MappedInv
  <2>7. CASE ReadConfigure
    <3>1. /\ answered' = (wire[1].width = 0)
          /\ UNCHANGED <<xdgVars, toplevelVars, inOrder, fBitmap, track, window, handling>>
      <4>1. wire # <<>> /\ read' = Head(wire) /\ read' = wire[1]
        BY <2>7, ConfigureRead DEF ReadConfigure
      <4> QED
        BY <2>7, <4>1 DEF ReadConfigure
    <3>2. /\ wire # <<>> /\ read' = wire[1] /\ read'.serial \in Nat
          /\ Len(wire) \in Nat \ {0} /\ Len(wire') = Len(wire) - 1
          /\ \A i \in 1..Len(wire') : wire'[i] = wire[i + 1]
          /\ Len(wire) = 1 => read' = Last
          /\ Len(wire) # 1 => wire' # <<>> /\ Last' = Last
          /\ Last.serial \in Nat
        BY <2>7, ConfigureRead
    <3>3. NoSize(wire) => NoSize(wire') /\ wire[1].width = 0
      <4>1. 1 \in 1..Len(wire) /\ \A i \in 1..Len(wire') : i + 1 \in 1..Len(wire)
        BY <3>2
      <4> QED
        BY <3>2, <4>1 DEF NoSize
    <3>4. UnmappedInv' /\ MappedInv'
      <4>1. NoSize(wire) => answered'
        BY <3>1, <3>3
      <4>2. NoSize(wire) => NoSize(wire')
        BY <3>3
      <4> QED
        BY <3>1, <4>1, <4>2 DEF UnmappedInv, MappedInv, xdgVars, toplevelVars
    <3>5. WireInv'
      <4>1. read.serial <= read'.serial
        BY <3>2 DEF SerialInv
      <4>2. fResizeSerial' = fResizeSerial /\ fSerial' = fSerial
        BY <3>1 DEF xdgVars
      <4>3. read.serial \in Nat /\ fResizeSerial \in Nat
        BY DEF TypeOK
      <4>4. fResizeSerial > read'.serial => wire' # <<>> /\ fResizeSerial <= Last'.serial
        BY <3>2, <4>1, <4>3 DEF WireInv
      <4> QED
        BY <3>1, <3>2, <4>2, <4>4 DEF WireInv
    <3>6. Tidy(window, handling)'
        BY <3>1 DEF Tidy
    <3> QED
        BY <3>4, <3>5, <3>6
  <2>8. CASE HandleAckConfigure
    <3>1. /\ fAckSerial' = read.serial /\ fSerial' = fSerial /\ fResizeSerial' = fResizeSerial
          /\ fConfigureCalled' = fConfigureCalled /\ fSurfaceInitalized' = fSurfaceInitalized
          /\ fGeometry' = fGeometry /\ fPendingGeometry' = fPendingGeometry
          /\ UNCHANGED <<toplevelVars, clientVars, inOrder, fBitmap, track, window, handling>>
        BY <2>8 DEF HandleAckConfigure
    <3> QED
        BY <3>1 DEF Tidy, UnmappedInv, MappedInv, WireInv, Last, toplevelVars, clientVars
  <2>9. CASE \E size \in Size \cup {read.width} : HandleSetWindowGeometry(size)
    <3>1. PICK size \in Size \cup {read.width} : HandleSetWindowGeometry(size)
        BY <2>9
    <3>2. /\ answered' /\ fPendingGeometry' = size /\ fSerial' = fSerial
          /\ fResizeSerial' = fResizeSerial /\ fAckSerial' = fAckSerial
          /\ fConfigureCalled' = fConfigureCalled /\ fSurfaceInitalized' = fSurfaceInitalized
          /\ fGeometry' = fGeometry /\ wire' = wire /\ read' = read
          /\ UNCHANGED <<toplevelVars, inOrder, fBitmap, track, window, handling>>
          /\ IF answered THEN size \in Size
             ELSE fAckSerial = read.serial /\ size = read.width
        BY <3>1 DEF HandleSetWindowGeometry
    <3>3. size # 0
        BY <3>2, SizeAssumption DEF WireInv
    <3> QED
        BY <3>2, <3>3 DEF Tidy, UnmappedInv, MappedInv, WireInv, Last, toplevelVars
  <2>10. CASE \E bitmap \in Size \cup {0, fBitmap} : HandleCommit(bitmap)
    <3>1. PICK bitmap \in Size \cup {0, fBitmap} : HandleCommit(bitmap)
        BY <2>10
    <3>2. bitmap \in Nat
        BY SizeAssumption DEF TypeOK
    <3> QED
        BY <3>1, <3>2, OrderCommitted
  <2>11. CASE Aside
    BY <2>11 DEF Aside, SameSize, Tidy, UnmappedInv, MappedInv, WireInv, Last
  <2> QED
    BY <2>1, <2>2, <2>3, <2>4, <2>5, <2>6, <2>7, <2>8, <2>9, <2>10, <2>11, AsideSteps DEF Next
<1> QED
    BY <1>1, <1>2, TypeCorrect, SerialsInOrder, PTL DEF Spec

(* A resize to a size the window can have leaves nothing late and nothing   *)
(* coming that was not coming before.                                       *)
LEMMA ResizeOwesNothing ==
    ASSUME NEW win \in BWindow, NEW n \in Nat, NEW h \in Nat \cup {Nothing}, NEW w,
           Allows(win, n)
    PROVE  /\ ResizeTo(win, n).bounds = n
           /\ ~Late(ResizeTo(win, n), h, LogicalCount(n))
           /\ Coming(ResizeTo(win, n), LogicalCount(n)) => Coming(win, w)
<1> DEFINE r == ResizeTo(win, n)
<1>1. /\ n = win.bounds => r = win
      /\ n # win.bounds => r.frame = n /\ r.bounds = n
  <2>1. Clamped(win, n) = n
    BY DEF Allows
  <2> DEFINE size == Clamped(win, n)
  <2>2. size = win.bounds => r = win
    BY ResizedFields
  <2>3. size # win.bounds => r.frame = size /\ r.bounds = size
    BY ResizedFields
  <2> QED
    BY <2>1, <2>2, <2>3
<1> HIDE DEF r
<1>2. r.bounds = n
    BY <1>1
<1>3. ~Late(r, h, LogicalCount(n))
    BY <1>2 DEF Late
<1>4. Coming(r, LogicalCount(n)) => Coming(win, w)
    BY <1>1, <1>2 DEF Coming
<1> QED
    BY <1>2, <1>3, <1>4 DEF r

LEMMA LoopCommitted ==
    ASSUME TypeOK, OrderInv, LoopInv, NEW bitmap \in Nat, HandleCommit(bitmap)
    PROVE  LoopInv'
<1> SUFFICES ASSUME inOrder' PROVE fSerial' + Owed' <= 3 + asked'
    BY DEF LoopInv
<1>0. window \in BWindow /\ handling \in Nat \cup {Nothing} /\ asked \in Nat /\ fSerial \in Nat
    BY DEF TypeOK, BWindow
<1>1. /\ inOrder /\ (bitmap # 0 <=> fPendingGeometry # 0)
      /\ Allows(Limited, NativeCount(fPendingGeometry))
      /\ fGeometry' = fPendingGeometry /\ fConfigureCalled' /\ handling' = handling
      /\ fWidth' = IF GeometryLeads THEN fPendingGeometry ELSE fWidth
      /\ IF fConfigureCalled THEN fSerial' = fSerial ELSE Configure(fWidth')
      /\ limits' = [limits EXCEPT !.dirty = @ /\ ~LimitsApply]
      /\ fMode' = fMode /\ asked' = asked
    BY DEF HandleCommit, counters
<1>2. fSerial' + One(~fConfigureCalled') <= fSerial + One(~fConfigureCalled)
  <2>1. fConfigureCalled => fSerial' = fSerial
    BY <1>1
  <2>2. ~fConfigureCalled => fSerial' = fSerial + 1
    BY <1>1 DEF Configure
  <2> QED
    BY <1>0, <1>1, <2>1, <2>2 DEF One
<1>3. fSerial + Owed <= 3 + asked
    BY <1>1 DEF LoopInv
<1>4. limits'.dirty <=> limits.dirty /\ ~LimitsApply
    BY <1>1 DEF TypeOK
<1>5. One(fGeometry' = 0) + One(limits'.dirty) + OwedByWindow'
      <= One(fGeometry = 0) + One(limits.dirty) + OwedByWindow
  <2>1. CASE fPendingGeometry = 0
    <3>1. fGeometry = 0 /\ fGeometry' = 0
        BY <1>1, <2>1 DEF OrderInv, MappedInv
    <3> QED
        BY <1>4, <3>1 DEF OwedByWindow, HasServerDecoration, LimitsApply, One
  <2>2. CASE fPendingGeometry # 0 /\ fGeometry = 0
    <3>1. handling = Nothing
        BY <1>1, <2>2 DEF OrderInv, UnmappedInv
    <3>2. OwedByWindow' <= 1 /\ OwedByWindow = 0 /\ OwedByWindow' \in {0, 1}
        BY <1>1, <2>2, <3>1 DEF OwedByWindow, HasServerDecoration, Late, One
    <3>3. One(limits'.dirty) = One(limits.dirty) /\ One(limits.dirty) \in {0, 1}
        BY <1>4, <2>2 DEF LimitsApply, HasServerDecoration, One
    <3>4. One(fGeometry' = 0) = 0 /\ One(fGeometry = 0) = 1
        BY <1>1, <2>2 DEF One
    <3> QED
        BY <3>2, <3>3, <3>4
  <2>3. CASE fPendingGeometry # 0 /\ fGeometry # 0 /\ ~HasServerDecoration
    <3>1. ~HasServerDecoration'
        BY <1>1, <2>3 DEF HasServerDecoration
    <3>2. OwedByWindow' = 0 /\ OwedByWindow = 0
        BY <2>3, <3>1 DEF OwedByWindow
    <3>3. One(limits'.dirty) = One(limits.dirty) /\ One(limits.dirty) \in {0, 1}
        BY <1>4, <2>3 DEF LimitsApply, One
    <3>4. One(fGeometry' = 0) = 0 /\ One(fGeometry = 0) = 0
        BY <1>1, <2>3 DEF One
    <3> QED
        BY <3>2, <3>3, <3>4
  <2>4. CASE fPendingGeometry # 0 /\ fGeometry # 0 /\ HasServerDecoration
    <3> DEFINE l == Limited
               s == Sized(l, bitmap)
    <3>1. HasServerDecoration'
        BY <1>1, <2>4 DEF HasServerDecoration
    <3>2. l \in BWindow /\ l.bounds = window.bounds /\ (~limits.dirty => l = window)
        BY LimitedFields DEF LimitsApply
    <3>3. Late(l, handling, fWidth) <=> Late(window, handling, fWidth)
        BY <3>2 DEF Late
    <3>4. One(limits'.dirty) + One(Coming(l, fWidth))
          <= One(limits.dirty) + One(Coming(window, fWidth))
        BY <1>4, <2>4, <3>2 DEF LimitsApply, One
    <3> HIDE DEF l
    <3>5. (Late(s, handling, fWidth') => Late(l, handling, fWidth))
          /\ (Coming(s, fWidth') => Coming(l, fWidth))
      <4>1. CASE GeometryLeads /\ fWidth # fPendingGeometry
        <5> DEFINE n == NativeCount(fPendingGeometry)
        <5>1. n \in Nat /\ LogicalCount(n) = fPendingGeometry /\ Allows(l, n)
            BY <1>1, Rounds, SizesRoundTrip DEF TypeOK, l
        <5>2. s = ResizeTo(l, n) /\ fWidth' = fPendingGeometry
            BY <1>1, <2>4, <4>1 DEF Sized
        <5> HIDE DEF n, s
        <5>3. ~Late(ResizeTo(l, n), handling, LogicalCount(n))
              /\ (Coming(ResizeTo(l, n), LogicalCount(n)) => Coming(l, fWidth))
            BY <1>0, <3>2, <5>1, ResizeOwesNothing
        <5> QED
            BY <5>1, <5>2, <5>3
      <4>2. CASE ~(GeometryLeads /\ fWidth # fPendingGeometry)
        <5>1. s = l /\ fWidth' = fWidth
            BY <1>1, <2>4, <4>2 DEF Sized
        <5> QED
            BY <5>1
      <4> QED
        BY <4>1, <4>2
    <3>6. SameSize(window', s)
        BY CommitFields DEF l
    <3> HIDE DEF s
    <3>7. (Late(window', handling', fWidth') => Late(s, handling, fWidth'))
          /\ (Coming(window', fWidth') => Coming(s, fWidth'))
        BY <1>1, <3>6 DEF SameSize, Late, Coming
    <3>8. OwedByWindow' = One(Late(window', handling', fWidth')) + One(Coming(window', fWidth'))
          /\ OwedByWindow = One(Late(window, handling, fWidth)) + One(Coming(window, fWidth))
        BY <2>4, <3>1 DEF OwedByWindow
    <3>9. One(fGeometry' = 0) = 0 /\ One(fGeometry = 0) = 0
        BY <1>1, <2>4 DEF One
    <3>10. One(Late(window', handling', fWidth')) <= One(Late(window, handling, fWidth))
           /\ One(Coming(window', fWidth')) <= One(Coming(l, fWidth))
        BY <3>3, <3>5, <3>7 DEF One
    <3>11. \A b : One(b) \in {0, 1}
        BY DEF One
    <3> QED
        BY <3>4, <3>8, <3>9, <3>10, <3>11
  <2> QED
    BY <2>1, <2>2, <2>3, <2>4
<1>6. \A b : One(b) \in {0, 1}
    BY DEF One
<1>7. OwedByWindow \in Nat /\ OwedByWindow' \in Nat
    BY <1>6 DEF OwedByWindow
<1>8. fSerial' \in Nat
  <2>1. fWidth' \in Nat
    BY <1>1 DEF TypeOK
  <2> QED
    BY <1>0, <1>1, <2>1, ConfigureTyped
<1> QED
    BY <1>0, <1>1, <1>2, <1>3, <1>5, <1>6, <1>7, <1>8 DEF Owed

LEMMA LoopKept == Spec => []LoopInv
<1>1. Init => LoopInv
  <2>1. Init => Owed = 2 /\ fSerial = 1 /\ asked = 0
    BY DEF Init, Owed, OwedByWindow, HasServerDecoration, One
  <2> QED
    BY <2>1 DEF LoopInv
<1>2. TypeOK /\ OrderInv /\ LoopInv /\ [Next]_vars => LoopInv'
  <2> SUFFICES ASSUME TypeOK, OrderInv, LoopInv, [Next]_vars PROVE LoopInv'
    OBVIOUS
  <2>a. window \in BWindow /\ handling \in Nat \cup {Nothing} /\ asked \in Nat /\ fSerial \in Nat
    BY DEF TypeOK, BWindow
  <2>b. \A b : One(b) \in {0, 1}
    BY DEF One
  <2>c. inOrder => fSerial + Owed <= 3 + asked
    BY DEF LoopInv
  <2>d. One(~fConfigureCalled) \in {0, 1} /\ One(fGeometry = 0) \in {0, 1}
        /\ One(limits.dirty) \in {0, 1} /\ OwedByWindow \in {0, 1, 2}
    BY <2>b DEF OwedByWindow
  <2> DEFINE Others == fConfigureCalled' = fConfigureCalled /\ fGeometry' = fGeometry
                       /\ limits' = limits
  <2>1. CASE \E n \in UserSize : UserResize(n)
    <3>1. PICK n \in UserSize : UserResize(n)
        BY <2>1
    <3>2. n \in Nat /\ window' = Framed(window, n)
        BY <3>1, SizeAssumption DEF UserResize
    <3>3. /\ Others /\ fSerial' = fSerial /\ fWidth' = fWidth /\ fMode' = fMode
          /\ inOrder' = inOrder /\ handling' = handling /\ asked' = asked + 1
        BY <3>1 DEF UserResize, xdgVars, toplevelVars
    <3>4. window'.bounds = window.bounds
        BY <2>a, <3>2, FramedFields
    <3>5. Late(window', handling', fWidth') <=> Late(window, handling, fWidth)
        BY <3>3, <3>4 DEF Late
    <3>6. OwedByWindow' <= OwedByWindow + 1 /\ OwedByWindow' \in {0, 1, 2}
        BY <2>b, <3>3, <3>5 DEF OwedByWindow, HasServerDecoration, One
    <3> QED
        BY <2>a, <2>c, <2>d, <3>3, <3>6 DEF LoopInv, Owed
  <2>2. CASE DispatchResized
    <3>1. /\ handling = Nothing /\ window.resized # Nothing /\ handling' = window.resized
          /\ window' = [window EXCEPT !.bounds = window.resized, !.resized = Nothing]
          /\ Others /\ fSerial' = fSerial /\ fWidth' = fWidth /\ fMode' = fMode
          /\ inOrder' = inOrder /\ asked' = asked
        BY <2>2 DEF DispatchResized, xdgVars, toplevelVars
    <3>2. window'.resized = Nothing /\ window'.bounds = window.resized
          /\ window.resized = window.frame
        BY <2>a, <3>1 DEF BWindow, OrderInv, Tidy
    <3>3. ~Coming(window', fWidth') /\ ~Late(window, handling, fWidth)
        BY <3>1, <3>2 DEF Coming, Late
    <3>4. Late(window', handling', fWidth') => Coming(window, fWidth)
        BY <3>1, <3>2 DEF Coming, Late
    <3>5. HasServerDecoration' <=> HasServerDecoration
        BY <3>1 DEF HasServerDecoration
    <3>6. OwedByWindow' <= OwedByWindow /\ OwedByWindow' \in {0, 1, 2}
        BY <2>b, <3>3, <3>4, <3>5 DEF OwedByWindow, One
    <3> QED
        BY <2>a, <2>c, <2>d, <3>1, <3>6 DEF LoopInv, Owed
  <2>3. CASE FrameResized
    <3>1. /\ handling # Nothing /\ handling' = Nothing /\ window' = window
          /\ Others /\ fMode' = fMode /\ inOrder' = inOrder /\ asked' = asked
        BY <2>3 DEF FrameResized, counters
    <3>2. HasServerDecoration' <=> HasServerDecoration
        BY <3>1 DEF HasServerDecoration
    <3>3. ~Late(window', handling', fWidth')
        BY <3>1 DEF Late
    <3>4. /\ fSerial' + OwedByWindow' <= fSerial + OwedByWindow
          /\ OwedByWindow' \in Nat /\ fSerial' \in Nat
      <4>1. CASE ResizeIsKnown
        <5>1. fSerial' = fSerial /\ fWidth' = fWidth
            BY <2>3, <4>1 DEF FrameResized
        <5>2. Coming(window', fWidth') <=> Coming(window, fWidth)
            BY <3>1, <5>1 DEF Coming
        <5> QED
            BY <2>a, <2>b, <3>2, <3>3, <5>1, <5>2 DEF OwedByWindow, One
      <4>2. CASE ~ResizeIsKnown
        <5>1. fSerial' = fSerial + 1 /\ fWidth' = LogicalCount(handling)
            BY <2>3, <4>2 DEF FrameResized, Configure
        <5>2. window.bounds = handling /\ HasServerDecoration /\ LogicalCount(handling) # fWidth
            BY <4>2 DEF ResizeIsKnown
        <5>3. Late(window, handling, fWidth)
            BY <3>1, <5>2 DEF Late
        <5>4. Coming(window', fWidth') => Coming(window, fWidth)
            BY <3>1, <5>1, <5>2 DEF Coming
        <5> QED
            BY <2>a, <2>b, <3>2, <3>3, <5>1, <5>2, <5>3, <5>4 DEF OwedByWindow, One
      <4> QED
        BY <4>1, <4>2
    <3>5. Owed' + OwedByWindow = Owed + OwedByWindow' /\ Owed' \in Nat /\ Owed \in Nat
          /\ OwedByWindow' \in Nat /\ OwedByWindow \in Nat
        BY <2>d, <3>1, <3>4 DEF Owed
    <3>6. fSerial \in Nat /\ asked \in Nat /\ asked' = asked /\ (inOrder' => inOrder)
        BY <2>a, <3>1
    <3>7. \A s, t, o, p, v, w, k \in Nat :
              p + v = o + w /\ t + w <= s + v /\ s + o <= 3 + k => t + p <= 3 + k
        OBVIOUS
    <3>8. fSerial + Owed <= 3 + asked => fSerial' + Owed' <= 3 + asked
        BY <3>4, <3>5, <3>6, <3>7
    <3> QED
        BY <2>c, <3>6, <3>8 DEF LoopInv
  <2>4. CASE WindowActivated \/ \E d \in Drag : MouseMoved(d)
    <3>1. /\ Others /\ fWidth' = fWidth /\ fMode' = fMode /\ window' = window
          /\ handling' = handling /\ asked' = asked + 1 /\ fSerial' = fSerial + 1
      <4>1. CASE WindowActivated
        BY <4>1 DEF WindowActivated, Configure
      <4>2. CASE \E d \in Drag : MouseMoved(d)
        <5>1. PICK d \in Drag : MouseMoved(d)
            BY <4>2
        <5>2. fSerial' = fSerial + 1
            BY <5>1 DEF MouseMoved, DragTopLeft, DragBottomRight, Configure
        <5> QED
            BY <5>1, <5>2 DEF MouseMoved, toplevelVars
      <4> QED
        BY <2>4, <4>1, <4>2
    <3>2. inOrder' => inOrder
        BY <2>4 DEF WindowActivated, MouseMoved
    <3>3. OwedByWindow' = OwedByWindow
        BY <3>1 DEF OwedByWindow, HasServerDecoration
    <3> QED
        BY <2>a, <2>c, <2>d, <3>1, <3>2, <3>3 DEF LoopInv, Owed
  <2>5. CASE HandleSetFullscreen \/ HandleUnsetFullscreen
    <3>1. PICK n \in Nat : /\ window' = ResizeTo(window, n) /\ fWidth' = LogicalCount(n)
                           /\ inOrder' => inOrder /\ Allows(window, n)
      <4>1. Screen \in Nat /\ fSavedPos \in Nat
        BY SizeAssumption DEF TypeOK
      <4> QED
        BY <2>5, <4>1 DEF HandleSetFullscreen, HandleUnsetFullscreen
    <3>2. /\ Others /\ fMode' = fMode /\ handling' = handling /\ asked' = asked + 1
          /\ fSerial' = fSerial + 1
        BY <2>5 DEF HandleSetFullscreen, HandleUnsetFullscreen, Configure
    <3>3. inOrder' => OwedByWindow' <= OwedByWindow
      <4>1. HasServerDecoration' <=> HasServerDecoration
        BY <3>2 DEF HasServerDecoration
      <4>2. inOrder' => /\ ~Late(window', handling', fWidth')
                        /\ Coming(window', fWidth') => Coming(window, fWidth)
        BY <2>a, <3>1, <3>2, ResizeOwesNothing
      <4> QED
        BY <2>b, <4>1, <4>2 DEF OwedByWindow, One
    <3>4. OwedByWindow' \in {0, 1, 2}
        BY <2>b DEF OwedByWindow
    <3> QED
        BY <2>a, <2>c, <2>d, <3>1, <3>2, <3>3, <3>4 DEF LoopInv, Owed
  <2>6. CASE ReadConfigure \/ HandleAckConfigure
             \/ \E size \in Size \cup {read.width} : HandleSetWindowGeometry(size)
    <3>1. /\ Others /\ fWidth' = fWidth /\ fMode' = fMode /\ window' = window
          /\ handling' = handling /\ asked' = asked /\ fSerial' = fSerial /\ inOrder' = inOrder
        BY <2>6 DEF ReadConfigure, HandleAckConfigure, HandleSetWindowGeometry, xdgVars,
                   toplevelVars, counters
    <3> QED
        BY <3>1 DEF LoopInv, Owed, OwedByWindow, HasServerDecoration
  <2>7. CASE \E bitmap \in Size \cup {0, fBitmap} : HandleCommit(bitmap)
    <3>1. PICK bitmap \in Size \cup {0, fBitmap} : HandleCommit(bitmap)
        BY <2>7
    <3>2. bitmap \in Nat
        BY SizeAssumption DEF TypeOK
    <3> QED
        BY <3>1, <3>2, LoopCommitted
  <2>8. CASE Aside
    <3>1. inOrder' => inOrder /\ OwedByWindow' = OwedByWindow
      <4>1. Late(window', handling', fWidth') <=> Late(window, handling, fWidth)
        BY <2>8 DEF Aside, SameSize, Late
      <4>2. Coming(window', fWidth') <=> Coming(window, fWidth)
        BY <2>8 DEF Aside, SameSize, Coming
      <4>3. inOrder' => inOrder /\ (HasServerDecoration' <=> HasServerDecoration)
        BY <2>8 DEF Aside
      <4> QED
        BY <4>1, <4>2, <4>3 DEF OwedByWindow, One
    <3>2. fConfigureCalled' = fConfigureCalled /\ fGeometry' = fGeometry /\ fSerial' = fSerial
        BY <2>8 DEF Aside
    <3>3. asked' + One(limits.dirty) >= asked + One(limits'.dirty) /\ asked' \in Nat
        BY <2>8, <2>a, <2>b DEF Aside
    <3> QED
        BY <2>a, <2>b, <2>c, <2>d, <3>1, <3>2, <3>3 DEF LoopInv, Owed
  <2> QED
    BY <2>1, <2>2, <2>3, <2>4, <2>5, <2>6, <2>7, <2>8, AsideSteps DEF Next
<1> QED
    BY <1>1, <1>2, TypeCorrect, OrderKept, PTL DEF Spec

(* A commit that sizes the window causes no further configure: for every    *)
(* scale and every size, a client whose window is mapped in order was sent  *)
(* at most three configures more than somebody asked for.                   *)
THEOREM NoFeedback == Spec => []NoResizeLoop
<1>1. TypeOK /\ LoopInv => NoResizeLoop
  <2> SUFFICES ASSUME TypeOK, LoopInv, inOrder PROVE fSerial <= 3 + asked
    BY DEF NoResizeLoop
  <2>1. \A b : One(b) \in Nat
    BY DEF One
  <2>2. Owed \in Nat
    BY <2>1 DEF Owed, OwedByWindow
  <2> QED
    BY <2>2 DEF LoopInv, TypeOK
<1> QED
    BY <1>1, TypeCorrect, LoopKept, PTL
-----------------------------------------------------------------------------
(* The sizes settle *)

(* No size that somebody gives the window is under half a logical pixel,    *)
(* which rounds to 0, the size that leaves the client the choice.           *)
NoSliver == \A n \in UserSize \cup {Screen, 32768} : LogicalCount(n) # 0

(* The server's side of the decoration leads, and the client is in order.   *)
Leads == inOrder /\ HasServerDecoration

(* Until the server remembers a size, a resize is on its way that will tell *)
(* it one, and the client was asked for none.                               *)
Start == fWidth = 0 =>
    /\ window.resized # Nothing \/ handling # Nothing
    /\ answered /\ NoSize(wire) /\ fResizeSerial = 0

Visible ==
    /\ LogicalCount(window.frame) # 0 /\ LogicalCount(window.bounds) # 0
    /\ handling # Nothing => LogicalCount(handling) # 0
    /\ fFullscreen => LogicalCount(fSavedPos) # 0

(* The BWindow has the size the server remembers, or FrameResized is about  *)
(* to tell it another.                                                      *)
Told == fWidth # 0 =>
    \/ LogicalCount(window.bounds) = fWidth
    \/ handling # Nothing /\ window.bounds = handling

(* The geometry the client will have set when it has answered everything:   *)
(* what the last configure asks for, unless that leaves it the choice.      *)
ToCome == wire # <<>> /\ Last.width # 0
Target == IF ToCome THEN Last.width ELSE IF ~answered THEN read.width ELSE fPendingGeometry

(* A configure that asks for no size has none before it that asks for one.  *)
ZerosFirst ==
    \A i \in 1..Len(wire) : wire[i].width = 0 =>
        answered /\ \A j \in 1..i : wire[j].width = 0

(* The client is on its way to the size the server remembers, or its next   *)
(* commit has another geometry and leads.  It leads no more while a resize  *)
(* is unseen, which is then what the client is on its way to.               *)
Ahead ==
    /\ fWidth # 0 => Target = fWidth \/ Target # fGeometry
    /\ ResizeUnseen => Target = fWidth /\ (~answered \/ ToCome)

SettleInv == Leads => Start /\ Visible /\ Told /\ ZerosFirst /\ Ahead

(* A configure for the size the server remembers from then on.              *)
LEMMA ConfigureAhead ==
    ASSUME TypeOK, NEW width \in Nat, Configure(width), Leads, Start, ZerosFirst, Ahead,
           fWidth' = width, width # 0 \/ (fWidth = 0 /\ fResizeSerial' = fResizeSerial),
           UNCHANGED <<fGeometry, fAckSerial, answered>>
    PROVE  ZerosFirst' /\ Ahead'
<1>1. /\ wire' # <<>> /\ Last'.width = width
      /\ Len(wire') = Len(wire) + 1 /\ Len(wire) \in Nat
      /\ \A i \in 1..Len(wire) : wire'[i] = wire[i]
      /\ wire'[Len(wire) + 1].width = width
    BY Configured
<1>2. CASE width # 0
  <2>1. ToCome' /\ Target' = width
    BY <1>1, <1>2 DEF ToCome, Target
  <2>2. Ahead'
    BY <2>1 DEF Ahead
  <2>3. ZerosFirst'
    BY <1>1, <1>2 DEF ZerosFirst
  <2> QED
    BY <2>2, <2>3
<1>3. CASE width = 0
  <2>1. answered /\ NoSize(wire) /\ fResizeSerial' = 0 /\ fWidth' = 0
    BY <1>3 DEF Start
  <2>2. NoSize(wire')
    BY <1>3, <2>1, Configured
  <2>3. ZerosFirst'
    <3>1. Len(wire') \in Nat /\ answered'
        BY <1>1, <2>1
    <3> QED
        BY <2>2, <3>1 DEF ZerosFirst, NoSize
  <2>4. ~ResizeUnseen'
    BY <2>1 DEF ResizeUnseen, TypeOK
  <2> QED
    BY <2>1, <2>3, <2>4 DEF Ahead
<1> QED
    BY <1>2, <1>3

(* The client maps its window.                                              *)
LEMMA SettleMapped ==
    ASSUME NoSliver, TypeOK, OrderInv, NEW bitmap \in Nat, HandleCommit(bitmap), Leads', ~Leads
    PROVE  SettleInv'
<1>1. /\ inOrder /\ (bitmap # 0 <=> fPendingGeometry # 0)
      /\ fGeometry' = fPendingGeometry /\ handling' = handling
      /\ fWidth' = IF GeometryLeads THEN fPendingGeometry ELSE fWidth
      /\ IF fConfigureCalled THEN wire' = wire ELSE Configure(fWidth')
      /\ fMode' = fMode /\ UNCHANGED <<fResizeSerial, fAckSerial, answered, fFullscreen>>
    BY DEF HandleCommit, Leads
<1>2. fGeometry = 0 /\ bitmap # 0
    BY <1>1 DEF Leads, HasServerDecoration
<1>3. /\ ~fFullscreen /\ window.frame = 0 /\ window.bounds = 0 /\ window.resized = Nothing
      /\ window.min = 0 /\ window.max = 32768 /\ handling = Nothing
      /\ fWidth = 0 /\ fResizeSerial = 0 /\ answered /\ NoSize(wire)
    BY <1>1, <1>2 DEF OrderInv, UnmappedInv
<1>4. ~HasServerDecoration /\ ~LimitsApply /\ ~GeometryLeads
    BY <1>2 DEF HasServerDecoration, LimitsApply, GeometryLeads
<1>5. SameSize(window', ResizeTo(window, NativeCount(bitmap)))
    BY <1>2, <1>4, CommitFields, LimitedFields DEF Sized
<1> DEFINE n == NativeCount(bitmap)
           size == Clamped(window, n)
<1>6. n \in Nat /\ LogicalCount(n) # 0 /\ LogicalCount(32768) # 0 /\ LogicalCount(0) = 0
  <2>1. LogicalCount(0) = 0
    <3>1. NativeCount(0) = 0
        BY ScaleAssumption, RoundedUnique DEF NativeCount
    <3> QED
        BY <3>1, SizesRoundTrip
  <2> QED
    BY <1>2, <2>1, Rounds, SizesRoundTrip DEF NoSliver
<1> HIDE DEF n
<1>7. size \in {n, 32768} /\ LogicalCount(size) # 0 /\ size # 0
  <2>1. size = IF n < 0 THEN 0 ELSE IF n > 32768 THEN 32768 ELSE n
    BY <1>3 DEF Clamped
  <2> QED
    BY <1>6, <2>1
<1>8. window'.frame = size /\ window'.bounds = size /\ window'.resized = size
  <2> DEFINE r == ResizeTo(window, n)
  <2>1. window \in BWindow
    BY DEF TypeOK, BWindow
  <2>2. /\ size # window.bounds => r.frame = size /\ r.bounds = size
        /\ size # window.bounds => r.resized = IF size = window.frame THEN window.resized ELSE size
    <3>1. n \in Nat
        BY <1>6
    <3> QED
        BY <2>1, <3>1, ResizedFields
  <2>3. SameSize(window', r)
    BY <1>5 DEF n
  <2> HIDE DEF r, size
  <2> QED
    BY <1>3, <1>7, <2>2, <2>3 DEF SameSize
<1> HIDE DEF size
<1>9. fWidth' = 0 /\ NoSize(wire')
  <2>1. fWidth' = 0
    BY <1>1, <1>3, <1>4
  <2> QED
    BY <1>1, <1>3, <2>1, Configured
<1>10. size # Nothing
    BY <1>6, <1>7 DEF Nothing
<1>11. Start' /\ Visible' /\ Told'
    BY <1>1, <1>3, <1>7, <1>8, <1>9, <1>10 DEF Start, Visible, Told
<1>12. ZerosFirst'
  <2>1. wire' \in Seq(Event)
    BY <1>1, <1>3, <1>9, ConfigureTyped DEF TypeOK, Event
  <2> QED
    BY <1>1, <1>3, <1>9, <2>1 DEF ZerosFirst, NoSize
<1>13. Ahead'
    BY <1>1, <1>3, <1>9 DEF Ahead, ResizeUnseen, TypeOK
<1> QED
    BY <1>11, <1>12, <1>13 DEF SettleInv

(* A later commit.                                                          *)
LEMMA SettleCommitted ==
    ASSUME NoSliver, TypeOK, OrderInv, SettleInv, NEW bitmap \in Nat, HandleCommit(bitmap),
           Leads', Leads
    PROVE  SettleInv'
<1> USE DEF SettleInv
<1>1. /\ inOrder /\ fGeometry # 0 /\ HasServerDecoration
      /\ Allows(Limited, NativeCount(fPendingGeometry))
      /\ fGeometry' = fPendingGeometry /\ fPendingGeometry' = fPendingGeometry
      /\ handling' = handling
      /\ fWidth' = IF GeometryLeads THEN fPendingGeometry ELSE fWidth
      /\ fConfigureCalled => wire' = wire
      /\ fFullscreen' = fFullscreen /\ fSavedPos' = fSavedPos
      /\ UNCHANGED <<fResizeSerial, fAckSerial, read, answered>>
    BY DEF HandleCommit, Leads, HasServerDecoration
<1>2. fPendingGeometry # 0 /\ wire' = wire
    BY <1>1 DEF OrderInv, MappedInv
<1> DEFINE l == Limited
           s == Sized(l, bitmap)
           n == NativeCount(fPendingGeometry)
<1>3. n \in Nat /\ LogicalCount(n) = fPendingGeometry /\ Allows(l, n)
    BY <1>1, Rounds, SizesRoundTrip DEF TypeOK
<1>4. s = IF GeometryLeads /\ fWidth # fPendingGeometry THEN ResizeTo(l, n) ELSE l
    BY <1>1 DEF Sized
<1>5. l \in BWindow /\ l.bounds = window.bounds
      /\ (l.resized = l.frame \/ l.resized = window.resized)
      /\ \A k \in Nat : k # Nothing
    BY LimitedFields DEF Nothing
<1>6. LogicalCount(l.frame) # 0
  <2>1. l.frame \in {window.frame, 32768} \/ \E c \in Nat \ {0} : l.frame = NativeCount(c)
    BY LimitedFields
  <2>2. \A c \in Nat \ {0} : LogicalCount(NativeCount(c)) # 0
    BY SizesRoundTrip
  <2>3. LogicalCount(window.frame) # 0 /\ LogicalCount(32768) # 0
    BY DEF NoSliver, Visible
  <2> HIDE DEF l
  <2> QED
    BY <2>1, <2>2, <2>3
<1>7. SameSize(window', s)
    BY CommitFields
<1> HIDE DEF l, n, s
<1>8. ResizeTo(l, n).bounds = n /\ ResizeTo(l, n).frame \in {l.frame, n}
  <2>1. Clamped(l, n) = n
    BY <1>3 DEF Allows
  <2> DEFINE size == Clamped(l, n)
             r == ResizeTo(l, n)
  <2>2. /\ size = l.bounds => r = l
        /\ size # l.bounds => r.frame = size /\ r.bounds = size
    <3>1. n \in Nat /\ l \in BWindow
        BY <1>3, <1>5
    <3> QED
        BY <3>1, ResizedFields
  <2> HIDE DEF size, r
  <2>3. size = n
    BY <2>1 DEF size
  <2>4. r.bounds = n /\ r.frame \in {l.frame, n}
    BY <2>2, <2>3
  <2> QED
    BY <2>4 DEF r
<1>9. Visible'
  <2>1. LogicalCount(s.frame) # 0 /\ LogicalCount(s.bounds) # 0
    BY <1>1, <1>2, <1>3, <1>4, <1>5, <1>6, <1>8 DEF Visible
  <2> QED
    BY <1>1, <1>7, <2>1 DEF Visible, SameSize
<1>10. Start'
  <2> SUFFICES ASSUME fWidth' = 0 PROVE Start'
    BY DEF Start
  <2>1. ~GeometryLeads /\ fWidth = 0 /\ s = l
    BY <1>1, <1>2, <1>4
  <2>2. window.resized # Nothing \/ handling # Nothing
    BY <2>1 DEF Start
  <2>3. window'.resized # Nothing \/ handling' # Nothing
    <3>1. l.frame # Nothing
        BY <1>5 DEF BWindow
    <3>2. window.resized # Nothing => l.resized # Nothing
        BY <1>5, <3>1
    <3> QED
        BY <1>1, <1>7, <2>1, <2>2, <3>2 DEF SameSize
  <2> QED
    BY <1>1, <1>2, <2>1, <2>3 DEF Start
<1>11. Told'
  <2>1. window'.bounds = s.bounds
    BY <1>7 DEF SameSize
  <2>2. CASE GeometryLeads /\ fWidth # fPendingGeometry
    BY <1>1, <1>3, <1>4, <1>8, <2>1, <2>2 DEF Told
  <2>3. CASE ~(GeometryLeads /\ fWidth # fPendingGeometry)
    BY <1>1, <1>4, <1>5, <2>1, <2>3 DEF Told
  <2> QED
    BY <2>2, <2>3
<1>12. ZerosFirst'
    BY <1>1, <1>2 DEF ZerosFirst
<1>13. Ahead'
  <2>1. Target' = Target /\ (ToCome' <=> ToCome) /\ (ResizeUnseen' <=> ResizeUnseen)
    BY <1>1, <1>2 DEF Target, ToCome, Last, ResizeUnseen
  <2>2. CASE GeometryLeads
    BY <1>1, <2>1, <2>2 DEF Ahead, GeometryLeads
  <2>3. CASE ~GeometryLeads
    BY <1>1, <2>1, <2>3 DEF Ahead, GeometryLeads
  <2> QED
    BY <2>2, <2>3
<1> QED
    BY <1>9, <1>10, <1>11, <1>12, <1>13

LEMMA SettleRead ==
    ASSUME TypeOK, OrderInv, SettleInv, Leads, ReadConfigure
    PROVE  SettleInv'
<1> USE DEF SettleInv
<1>1. /\ wire # <<>> /\ read' = wire[1] /\ read'.width \in Nat
      /\ Len(wire) \in Nat \ {0} /\ Len(wire') = Len(wire) - 1
      /\ \A i \in 1..Len(wire') : wire'[i] = wire[i + 1]
      /\ Len(wire) = 1 => wire' = <<>> /\ read' = Last
      /\ Len(wire) # 1 => wire' # <<>> /\ Last' = Last
    BY ConfigureRead
<1>2. /\ answered' <=> wire[1].width = 0
      /\ UNCHANGED <<xdgVars, toplevelVars, window, handling>>
  <2>1. read' = Head(wire)
    BY DEF ReadConfigure
  <2> QED
    BY <1>1, <2>1 DEF ReadConfigure
<1>3. Visible' /\ Told'
    BY <1>2 DEF Visible, Told, toplevelVars
<1>4. NoSize(wire) => NoSize(wire') /\ answered'
  <2>1. NoSize(wire) => NoSize(wire')
    BY <1>1 DEF NoSize
  <2>2. NoSize(wire) => wire[1].width = 0
    BY <1>1 DEF NoSize
  <2> QED
    BY <1>2, <2>1, <2>2
<1>5. Start'
    BY <1>2, <1>4 DEF Start, xdgVars, toplevelVars
<1>6. ZerosFirst'
  <2> SUFFICES ASSUME NEW i \in 1..Len(wire'), wire'[i].width = 0
               PROVE  answered' /\ \A j \in 1..i : wire'[j].width = 0
    BY DEF ZerosFirst
  <2>1. i + 1 \in 1..Len(wire) /\ wire[i + 1].width = 0
    BY <1>1
  <2>2. \A j \in 1..(i + 1) : wire[j].width = 0
    BY <2>1 DEF ZerosFirst
  <2>3. wire[1].width = 0
    BY <2>2
  <2>4. \A j \in 1..i : wire'[j] = wire[j + 1] /\ j + 1 \in 1..(i + 1)
    BY <1>1, <2>1
  <2> QED
    BY <1>2, <2>2, <2>3, <2>4
<1>7. ~ToCome => answered /\ answered'
  <2> SUFFICES ASSUME ~ToCome PROVE answered /\ answered'
    OBVIOUS
  <2>1. Len(wire) \in 1..Len(wire) /\ wire[Len(wire)].width = 0
    BY <1>1 DEF ToCome, Last
  <2>2. answered /\ wire[1].width = 0
    BY <1>1, <2>1 DEF ZerosFirst
  <2> QED
    BY <1>2, <2>2
<1>8. Target' = Target /\ (ToCome => ToCome' \/ ~answered')
  <2>1. fPendingGeometry' = fPendingGeometry
    BY <1>2 DEF xdgVars
  <2>2. CASE Len(wire) # 1
    <3>1. (ToCome' <=> ToCome) /\ Last' = Last
        BY <1>1, <2>2 DEF ToCome
    <3> QED
        BY <1>7, <2>1, <3>1 DEF Target
  <2>3. CASE Len(wire) = 1
    <3>1. ~ToCome' /\ read'.width = Last.width
        BY <1>1, <2>3 DEF ToCome
    <3>2. ToCome <=> ~answered'
        BY <1>1, <1>2, <3>1 DEF ToCome
    <3> QED
        BY <1>7, <2>1, <3>1, <3>2 DEF Target
  <2> QED
    BY <2>2, <2>3
<1>9. Ahead'
    BY <1>2, <1>7, <1>8 DEF Ahead, ResizeUnseen, xdgVars, toplevelVars
<1> QED
    BY <1>3, <1>5, <1>6, <1>9

(* The mouse resizes in order only when the client is at the size the       *)
(* server remembers: whatever it asks for, the next commit leads.           *)
LEMMA SettleMoved ==
    ASSUME TypeOK, OrderInv, SettleInv, NEW d \in Drag, MouseMoved(d), Leads, Leads'
    PROVE  SettleInv'
<1> USE DEF SettleInv
<1>1. /\ ~ResizeUnseen /\ fWidth = fGeometry /\ fGeometry # 0
      /\ fWidth' = fWidth /\ fGeometry' = fGeometry /\ fFullscreen' = fFullscreen
      /\ fSavedPos' = fSavedPos /\ window' = window /\ handling' = handling
      /\ UNCHANGED <<fResizeSerial, fAckSerial, answered>>
    BY DEF MouseMoved, Leads, HasServerDecoration, toplevelVars
<1>2. PICK width \in Nat : Configure(width) /\ width # 0
    BY DragTyped DEF MouseMoved
<1>3. /\ wire' # <<>> /\ Last'.width = width
      /\ Len(wire') = Len(wire) + 1 /\ Len(wire) \in Nat
      /\ \A i \in 1..Len(wire) : wire'[i] = wire[i]
      /\ wire'[Len(wire) + 1].width = width
    BY <1>2, Configured
<1>4. ZerosFirst'
    BY <1>1, <1>2, <1>3 DEF ZerosFirst
<1>5. Ahead'
  <2>1. ToCome' /\ Target' = width
    BY <1>2, <1>3 DEF ToCome, Target
  <2>2. ~ResizeUnseen'
    BY <1>1 DEF ResizeUnseen
  <2> QED
    BY <1>1, <2>1, <2>2 DEF Ahead
<1>6. Start' /\ Visible' /\ Told'
    BY <1>1 DEF Start, Visible, Told
<1> QED
    BY <1>4, <1>5, <1>6

(* The client sets its geometry.                                            *)
LEMMA SettleSet ==
    ASSUME TypeOK, OrderInv, SettleInv, NEW size, HandleSetWindowGeometry(size), Leads
    PROVE  SettleInv'
<1> USE DEF SettleInv
<1>1. /\ answered' /\ fPendingGeometry' = size /\ fResizeSerial' = fResizeSerial
      /\ fAckSerial' = fAckSerial /\ fGeometry' = fGeometry /\ wire' = wire /\ read' = read
      /\ UNCHANGED <<toplevelVars, window, handling>>
      /\ answered => fPendingGeometry = fGeometry
      /\ ~answered => fAckSerial = read.serial /\ size = read.width
    BY DEF HandleSetWindowGeometry
<1>2. Start' /\ Visible' /\ Told' /\ ZerosFirst'
    BY <1>1 DEF Start, Visible, Told, ZerosFirst, toplevelVars
<1>3. (ToCome' <=> ToCome) /\ (ToCome => Target' = Target /\ Target = Last.width)
      /\ (~ToCome => Target' = size)
    BY <1>1 DEF ToCome, Target, Last
<1>4. ResizeUnseen' <=> ResizeUnseen
    BY <1>1 DEF ResizeUnseen
<1>5. fWidth' = fWidth /\ fGeometry' = fGeometry
    BY <1>1 DEF toplevelVars
<1>6. ResizeUnseen => ToCome
  <2> SUFFICES ASSUME ResizeUnseen, ~answered PROVE ToCome
    BY DEF Ahead
  <2>1. fResizeSerial > read.serial
    BY <1>1 DEF ResizeUnseen, TypeOK
  <2>2. wire # <<>>
    BY <2>1 DEF OrderInv, WireInv
  <2>3. Len(wire) \in 1..Len(wire)
    BY <2>2 DEF TypeOK
  <2> QED
    BY <2>2, <2>3 DEF ToCome, Last, ZerosFirst
<1>7. Ahead'
  <2>1. CASE ToCome
    BY <1>3, <1>4, <1>5, <2>1 DEF Ahead
  <2>2. CASE ~ToCome /\ answered
    BY <1>1, <1>3, <1>4, <1>5, <1>6, <2>2 DEF Ahead, Target
  <2>3. CASE ~ToCome /\ ~answered
    BY <1>1, <1>3, <1>4, <1>5, <1>6, <2>3 DEF Ahead, Target
  <2> QED
    BY <2>1, <2>2, <2>3
<1> QED
    BY <1>2, <1>7

LEMMA SettleKept == ASSUME NoSliver PROVE Spec => []SettleInv
<1>1. Init => SettleInv
    BY DEF Init, SettleInv, Leads, HasServerDecoration
<1>2. TypeOK /\ SerialInv /\ OrderInv /\ SettleInv /\ [Next]_vars => SettleInv'
  <2> SUFFICES ASSUME TypeOK, SerialInv, OrderInv, SettleInv, [Next]_vars, Leads'
               PROVE  SettleInv'
    BY DEF SettleInv
  <2>0. window \in BWindow /\ handling \in Nat \cup {Nothing} /\ \A k \in Nat : k # Nothing
    BY DEF TypeOK, BWindow, Nothing
  <2>1. CASE \E bitmap \in Size \cup {0, fBitmap} : HandleCommit(bitmap)
    <3>1. PICK bitmap \in Size \cup {0, fBitmap} : HandleCommit(bitmap)
        BY <2>1
    <3>2. bitmap \in Nat
        BY SizeAssumption DEF TypeOK
    <3> QED
        BY <3>1, <3>2, SettleMapped, SettleCommitted
  <2>2. CASE \E n \in UserSize : UserResize(n)
    <3>1. PICK n \in UserSize : UserResize(n)
        BY <2>2
    <3>2. n \in Nat /\ window' = Framed(window, n) /\ n # window.frame /\ LogicalCount(n) # 0
        BY <3>1, SizeAssumption DEF UserResize, NoSliver
    <3>3. UNCHANGED <<xdgVars, toplevelVars, clientVars, inOrder, handling, fMode>>
        BY <3>1 DEF UserResize
    <3>4. Leads
        BY <3>3 DEF Leads, HasServerDecoration, xdgVars
    <3>5. window'.frame = n /\ window'.bounds = window.bounds /\ window'.resized = n
        BY <2>0, <3>2, FramedFields
    <3>6. Visible' /\ Told'
        BY <3>2, <3>3, <3>4, <3>5 DEF SettleInv, Visible, Told, toplevelVars
    <3>7. Start'
        BY <2>0, <3>2, <3>3, <3>4, <3>5 DEF SettleInv, Start, xdgVars, toplevelVars, clientVars
    <3>8. ZerosFirst' /\ Ahead'
        BY <3>3, <3>4 DEF SettleInv, ZerosFirst, Ahead, Target, ToCome, Last, ResizeUnseen,
                         xdgVars, toplevelVars, clientVars
    <3> QED
        BY <3>6, <3>7, <3>8 DEF SettleInv
  <2>3. CASE DispatchResized
    <3>1. /\ window.resized # Nothing /\ handling' = window.resized
          /\ window' = [window EXCEPT !.bounds = window.resized, !.resized = Nothing]
          /\ UNCHANGED <<xdgVars, toplevelVars, clientVars, inOrder, fMode>>
        BY <2>3 DEF DispatchResized
    <3>2. window'.frame = window.frame /\ window'.bounds = window.resized
          /\ window.resized = window.frame
        BY <2>0, <3>1 DEF BWindow, OrderInv, Tidy
    <3>3. Leads
        BY <3>1 DEF Leads, HasServerDecoration, xdgVars
    <3>4. Visible' /\ Told'
        BY <3>1, <3>2, <3>3 DEF SettleInv, Visible, Told, toplevelVars
    <3>5. Start'
        BY <3>1, <3>3 DEF SettleInv, Start, xdgVars, toplevelVars, clientVars
    <3>6. ZerosFirst' /\ Ahead'
        BY <3>1, <3>3 DEF SettleInv, ZerosFirst, Ahead, Target, ToCome, Last, ResizeUnseen,
                         xdgVars, toplevelVars, clientVars
    <3> QED
        BY <3>4, <3>5, <3>6 DEF SettleInv
  <2>4. CASE FrameResized
    <3>1. /\ handling # Nothing /\ handling' = Nothing /\ window' = window
          /\ fGeometry' = fGeometry /\ fPendingGeometry' = fPendingGeometry
          /\ fFullscreen' = fFullscreen /\ fSavedPos' = fSavedPos
          /\ inOrder' = inOrder /\ fMode' = fMode
          /\ UNCHANGED <<fAckSerial, read, answered>>
        BY <2>4 DEF FrameResized
    <3>2. Leads
        BY <3>1 DEF Leads, HasServerDecoration
    <3>3. Start /\ Visible /\ Told /\ ZerosFirst /\ Ahead
        BY <3>2 DEF SettleInv
    <3>4. Visible'
        BY <3>1, <3>3 DEF Visible
    <3>5. CASE ResizeIsKnown
      <4>1. UNCHANGED <<fWidth, fResizeSerial, wire, fSerial>>
        BY <2>4, <3>5 DEF FrameResized
      <4>2. window.bounds # handling \/ LogicalCount(handling) = fWidth
        BY <3>2, <3>5 DEF ResizeIsKnown, Leads
      <4>3. Told'
        BY <3>1, <3>3, <4>1, <4>2 DEF Told
      <4>4. Start'
        <5> SUFFICES ASSUME fWidth = 0 PROVE Start'
            BY <4>1 DEF Start
        <5>1. window.bounds # handling
            BY <3>1, <3>3, <4>2 DEF Visible
        <5>2. window.resized # Nothing
            BY <3>1, <5>1 DEF OrderInv, Tidy
        <5> QED
            BY <3>1, <3>3, <4>1, <5>2 DEF Start
      <4>5. ZerosFirst' /\ Ahead'
        BY <3>1, <3>3, <4>1 DEF ZerosFirst, Ahead, Target, ToCome, Last, ResizeUnseen
      <4> QED
        BY <3>4, <4>3, <4>4, <4>5 DEF SettleInv
    <3>6. CASE ~ResizeIsKnown
      <4> DEFINE w == LogicalCount(handling)
      <4>1. fWidth' = w /\ Configure(w) /\ window.bounds = handling
        BY <2>4, <3>6 DEF FrameResized, ResizeIsKnown
      <4>2. w \in Nat /\ w # 0 /\ LogicalCount(window.bounds) = w
        BY <2>0, <3>1, <3>3, <4>1, Rounds DEF Visible
      <4> HIDE DEF w
      <4>3. Start' /\ Told'
        BY <3>1, <4>1, <4>2 DEF Start, Told
      <4>4. ZerosFirst' /\ Ahead'
        BY <3>1, <3>2, <3>3, <4>1, <4>2, ConfigureAhead
      <4> QED
        BY <3>4, <4>3, <4>4 DEF SettleInv
    <3> QED
        BY <3>5, <3>6
  <2>5. CASE WindowActivated
    <3>1. /\ Configure(fWidth) /\ fWidth \in Nat /\ fWidth' = fWidth /\ window' = window
          /\ handling' = handling /\ fGeometry' = fGeometry /\ fMode' = fMode
          /\ fFullscreen' = fFullscreen /\ fSavedPos' = fSavedPos /\ inOrder' = inOrder
          /\ UNCHANGED <<fAckSerial, fResizeSerial, read, answered>>
        BY <2>5 DEF WindowActivated, TypeOK
    <3>2. Leads
        BY <3>1 DEF Leads, HasServerDecoration
    <3>3. Start /\ Visible /\ Told /\ ZerosFirst /\ Ahead
        BY <3>2 DEF SettleInv
    <3>4. ZerosFirst' /\ Ahead'
        BY <3>1, <3>2, <3>3, ConfigureAhead
    <3>5. NoSize(wire) /\ fWidth = 0 => NoSize(wire')
        BY <3>1, Configured
    <3>6. Start' /\ Visible' /\ Told'
        BY <3>1, <3>3, <3>5 DEF Start, Visible, Told
    <3> QED
        BY <3>4, <3>6 DEF SettleInv
  <2>6. CASE HandleSetFullscreen \/ HandleUnsetFullscreen
    <3>1. /\ inOrder /\ fMode' = fMode /\ handling' = handling /\ fGeometry' = fGeometry
          /\ UNCHANGED <<fAckSerial, fResizeSerial, read, answered>>
        BY <2>6 DEF HandleSetFullscreen, HandleUnsetFullscreen, Leads
    <3>2. Leads
        BY <3>1 DEF Leads, HasServerDecoration
    <3>3. Start /\ Visible /\ Told /\ ZerosFirst /\ Ahead
        BY <3>2 DEF SettleInv
    <3>4. PICK n \in Nat : /\ window' = ResizeTo(window, n) /\ Configure(LogicalCount(n))
                           /\ fWidth' = LogicalCount(n) /\ Allows(window, n)
                           /\ LogicalCount(n) # 0
                           /\ fFullscreen' => fSavedPos' = window.bounds
      <4>1. Screen \in Nat /\ LogicalCount(Screen) # 0
        BY SizeAssumption DEF NoSliver
      <4>2. CASE HandleSetFullscreen
        BY <4>1, <4>2 DEF HandleSetFullscreen, Leads
      <4>3. CASE HandleUnsetFullscreen
        <5>1. fSavedPos \in Nat /\ LogicalCount(fSavedPos) # 0
            BY <3>3, <4>3 DEF HandleUnsetFullscreen, Visible, TypeOK
        <5> QED
            BY <4>3, <5>1 DEF HandleUnsetFullscreen, Leads
      <4> QED
        BY <2>6, <4>2, <4>3
    <3>5. LogicalCount(n) \in Nat
        BY Rounds
    <3>6. window'.bounds = n /\ window'.frame \in {window.frame, n}
      <4> DEFINE size == Clamped(window, n)
                 r == ResizeTo(window, n)
      <4>1. size = n
        BY <3>4 DEF Allows
      <4>2. /\ size = window.bounds => r = window
            /\ size # window.bounds => r.frame = size /\ r.bounds = size
        <5>1. window \in BWindow
            BY <2>0
        <5> QED
            BY <5>1, ResizedFields
      <4> HIDE DEF size
      <4>3. window' = r
        BY <3>4
      <4> HIDE DEF r
      <4> QED
        BY <4>1, <4>2, <4>3
    <3>7. Start' /\ Told'
        BY <3>4, <3>6 DEF Start, Told
    <3>8. Visible'
        BY <3>1, <3>3, <3>4, <3>6 DEF Visible
    <3>9. ZerosFirst' /\ Ahead'
        BY <3>1, <3>2, <3>3, <3>4, <3>5, ConfigureAhead
    <3> QED
        BY <3>7, <3>8, <3>9 DEF SettleInv
  <2>7. CASE \E d \in Drag : MouseMoved(d)
    <3>1. PICK d \in Drag : MouseMoved(d)
        BY <2>7
    <3>2. Leads
        BY <3>1 DEF MouseMoved, Leads, HasServerDecoration
    <3> QED
        BY <3>1, <3>2, SettleMoved
  <2>8. CASE ReadConfigure
    <3>1. Leads
        BY <2>8 DEF ReadConfigure, Leads, HasServerDecoration, xdgVars
    <3> QED
        BY <2>8, <3>1, SettleRead
  <2>9. CASE HandleAckConfigure
    <3>1. /\ fAckSerial' = read.serial /\ fResizeSerial' = fResizeSerial
          /\ fGeometry' = fGeometry /\ fPendingGeometry' = fPendingGeometry
          /\ UNCHANGED <<toplevelVars, clientVars, inOrder, fMode, window, handling>>
        BY <2>9 DEF HandleAckConfigure
    <3>2. Leads
        BY <3>1 DEF Leads, HasServerDecoration
    <3>3. Start /\ Visible /\ Told /\ ZerosFirst /\ Ahead
        BY <3>2 DEF SettleInv
    <3>4. ResizeUnseen' => ResizeUnseen
      <4>1. /\ fAckSerial \in Nat /\ read.serial \in Nat /\ fResizeSerial \in Nat
            /\ fAckSerial <= read.serial
        BY DEF SerialInv, TypeOK
      <4> QED
        BY <3>1, <4>1 DEF ResizeUnseen
    <3>5. Start' /\ Visible' /\ Told' /\ ZerosFirst'
        BY <3>1, <3>3 DEF Start, Visible, Told, ZerosFirst, toplevelVars, clientVars
    <3>6. Ahead'
        BY <3>1, <3>3, <3>4 DEF Ahead, Target, ToCome, Last, toplevelVars, clientVars
    <3> QED
        BY <3>5, <3>6 DEF SettleInv
  <2>10. CASE \E size \in Size \cup {read.width} : HandleSetWindowGeometry(size)
    <3>1. PICK size : HandleSetWindowGeometry(size)
        BY <2>10
    <3>2. Leads
        BY <3>1 DEF HandleSetWindowGeometry, Leads, HasServerDecoration
    <3> QED
        BY <3>1, <3>2, SettleSet
  <2>11. CASE Aside
    <3>1. Leads
        BY <2>11 DEF Aside, Leads
    <3>2. Start /\ Visible /\ Told /\ ZerosFirst /\ Ahead
        BY <3>1 DEF SettleInv
    <3>3. Start' /\ Visible' /\ Told' /\ ZerosFirst'
        BY <2>11, <3>2 DEF Aside, SameSize, Start, Visible, Told, ZerosFirst
    <3>4. Ahead'
        BY <2>11, <3>2 DEF Aside, Ahead, Target, ToCome, Last, ResizeUnseen
    <3> QED
        BY <3>3, <3>4 DEF SettleInv
  <2> QED
    BY <2>1, <2>2, <2>3, <2>4, <2>5, <2>6, <2>7, <2>8, <2>9, <2>10, <2>11, AsideSteps DEF Next
<1> QED
    BY <1>1, <1>2, TypeCorrect, SerialsInOrder, OrderKept, PTL DEF Spec

(* When every configure is answered and every resize handled, the window,   *)
(* the size the server remembers and the client's geometry are the same,    *)
(* for every scale, every size and every order of messages, as long as      *)
(* nobody makes the window narrower than half a logical pixel.              *)
THEOREM SizesAgree == ASSUME NoSliver PROVE Spec => []SizesSettle
<1>1. OrderInv /\ SettleInv => SizesSettle
  <2> SUFFICES ASSUME OrderInv, SettleInv, Quiet, HasServerDecoration, inOrder
               PROVE  LogicalCount(window.frame) = fGeometry /\ fWidth = fGeometry
    BY DEF SizesSettle
  <2>1. Start /\ Told /\ Ahead
    BY DEF SettleInv, Leads
  <2>2. wire = <<>> /\ answered /\ window.resized = Nothing /\ handling = Nothing
        /\ fPendingGeometry = fGeometry
    BY DEF Quiet
  <2>3. fWidth # 0 /\ Target = fGeometry
    BY <2>1, <2>2 DEF Start, Target, ToCome
  <2>4. fWidth = fGeometry /\ LogicalCount(window.bounds) = fWidth
    BY <2>1, <2>2, <2>3 DEF Told, Ahead
  <2>5. window.bounds = window.frame
    BY <2>2 DEF OrderInv, Tidy
  <2> QED
    BY <2>4, <2>5
<1> QED
    BY <1>1, OrderKept, SettleKept, PTL
=============================================================================
