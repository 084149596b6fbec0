--------------------------- MODULE KeyboardFocus ---------------------------
(***************************************************************************)
(* The keyboard focus of the seat, the keys it is sent, and the text inputs *)
(* that go with it: enter and leave as windows are activated, key and       *)
(* modifier events, and the strings of an input method                      *)
(* (HaikuSeatGlobal in HaikuSeat.cpp, WaylandView::WindowActivated in       *)
(* HaikuCompositor.cpp, HaikuTextInput.cpp).                                *)
(*                                                                         *)
(* Messages wait in the queue of each window's thread; a handler runs      *)
(* under the server lock and is one step.  Surfaces are those of windows:  *)
(* a subsurface takes no keyboard focus.  There is one client.  Repeated   *)
(* keys, lock keys, what is in a string, serials and the cursor rectangle  *)
(* are left out.                                                           *)
(***************************************************************************)
EXTENDS Integers, Sequences, Keymap

CONSTANTS
    Surface, NoSurface,
    Keyboard, TextInput, \* objects the client may create
    Key, ModifierOf,     \* keys of the keyboard; what those do that modify
    MaxMail              \* bound on the messages waiting for one window

ASSUME SurfaceAssumption == NoSurface \notin Surface
ASSUME ListenerAssumption == Keyboard \cap TextInput = {}
ASSUME KeyAssumption ==
    /\ Key \subseteq HaikuKey /\ \A key \in DOMAIN ModifierOf : IsModifierKey(key)
    /\ ModifierOf \in [DOMAIN ModifierOf -> DOMAIN BitsOf] /\ DOMAIN ModifierOf \subseteq Key
ASSUME BoundAssumption == MaxMail \in Nat

VARIABLES
    fKeyboardFocus,
    listeners,     \* fKeyboardIfaces and fTextInputIfaces
    told,          \* the surface each of them entered
    fActive, fConfirmed, \* of the text input global
    owed,          \* strings confirmed while a text input existed, less the
                   \* strings committed to it
    held, modifiers, \* keys that are down, and the modifiers they make
    pressed, mask, \* what each keyboard was told of both
    current,       \* modifiers have changed since a window was activated
    mail,          \* per window, the messages waiting
    activeWindow,  \* the window that is active on the desktop
    calm           \* it was activated when all messages had been handled

imVars == <<fActive, fConfirmed, owed>>
keyVars == <<held, modifiers, pressed, mask, current>>
vars == <<fKeyboardFocus, listeners, told, imVars, keyVars, mail, activeWindow, calm>>

Listener == Keyboard \cup TextInput
TextInputs == listeners \cap TextInput
Keyboards == listeners \cap Keyboard
Modifier == DOMAIN BitsOf

Init ==
    /\ fKeyboardFocus = NoSurface
    /\ listeners = {} /\ told = [l \in Listener |-> NoSurface]
    /\ fActive = FALSE /\ fConfirmed = FALSE
    /\ owed = [t \in TextInput |-> 0]
    /\ held = {} /\ modifiers = {} /\ current = FALSE
    /\ pressed = [k \in Keyboard |-> {}] /\ mask = [k \in Keyboard |-> {}]
    /\ mail = [s \in Surface |-> <<>>]
    /\ activeWindow = NoSurface /\ calm = TRUE
-----------------------------------------------------------------------------
(* SetKeyboardFocus *)

(* Faulty: only keyboards are told to leave. *)
EnteredNotLeft(s) ==
    [l \in Listener |-> IF l \in listeners /\ (l \in Keyboard \/ s # NoSurface) THEN s ELSE told[l]]

(* Everybody who listens has entered s, or left what he had entered. *)
Entered(s) == [l \in Listener |-> IF l \in listeners THEN s ELSE told[l]]

(* To a client no key is pressed when it enters or leaves. *)
Released == [k \in Keyboard |-> IF k \in listeners THEN {} ELSE pressed[k]]

SetFocus(s) == fKeyboardFocus' = s /\ told' = Entered(s) /\ pressed' = Released

(* Faulty: whoever is deactivated takes the focus from everyone. *)
SetKeyboardFocusBlindly(s, setFocus) == SetFocus(IF setFocus THEN s ELSE NoSurface)

SetKeyboardFocus(s, setFocus) ==
    CASE setFocus /\ fKeyboardFocus # s -> SetFocus(s)
      [] ~setFocus /\ fKeyboardFocus = s -> SetFocus(NoSurface)
      [] OTHER -> UNCHANGED <<fKeyboardFocus, told, pressed>>

(* The first message of a window. *)
Takes(s, what) ==
    /\ mail[s] # <<>> /\ Head(mail[s]).what = what
    /\ mail' = [mail EXCEPT ![s] = Tail(@)]

WindowActivated(s, active) ==
    /\ Takes(s, IF active THEN "activated" ELSE "deactivated")
    /\ SetKeyboardFocus(s, active)
    /\ UNCHANGED <<listeners, imVars, held, modifiers, mask, current, activeWindow, calm>>

(* ~HaikuSurface; the same name stands for the next surface from here on. *)
DestroySurface(s) ==
    /\ SetKeyboardFocus(s, FALSE)
    /\ mail' = [mail EXCEPT ![s] = <<>>]
    /\ activeWindow' = IF activeWindow = s THEN NoSurface ELSE activeWindow
    /\ current' = (current /\ activeWindow' = activeWindow)
    /\ UNCHANGED <<listeners, imVars, held, modifiers, mask, calm>>

(* Every keyboard there is told the modifiers. *)
SendModifiers(all, those) ==
    mask' = [k \in Keyboard |-> IF k \in all THEN FromHaikuModifiers(those) ELSE mask[k]]

HandleGetTextInput(t) ==
    /\ t \notin listeners
    /\ listeners' = listeners \cup {t}
    /\ UNCHANGED <<fKeyboardFocus, told, imVars, keyVars, mail, activeWindow, calm>>

(* All keyboards are sent the keymap, and with it the modifiers as they are. *)
UpdateKeymap(all) == SendModifiers(all, modifiers)

(* A new keyboard makes all be sent the keymap. *)
HandleGetKeyboard(k) ==
    /\ k \notin listeners
    /\ listeners' = listeners \cup {k}
    /\ UpdateKeymap(listeners')
    /\ UNCHANGED <<fKeyboardFocus, told, imVars, held, modifiers, pressed, current, mail,
                   activeWindow, calm>>

(* The application is told of another keymap. *)
KeymapLoaded ==
    /\ UpdateKeymap(listeners)
    /\ UNCHANGED <<fKeyboardFocus, listeners, told, imVars, held, modifiers, pressed, current,
                   mail, activeWindow, calm>>

(* One that does not listen any more is nowhere. *)
Unlisten(l) ==
    /\ l \in listeners
    /\ listeners' = listeners \ {l} /\ told' = [told EXCEPT ![l] = NoSurface]
    /\ UNCHANGED <<fKeyboardFocus, fActive, fConfirmed, held, modifiers, current, mail,
                   activeWindow, calm>>

DestroyTextInput(t) ==
    Unlisten(t) /\ owed' = [owed EXCEPT ![t] = 0] /\ UNCHANGED <<pressed, mask>>

DestroyKeyboard(k) ==
    /\ Unlisten(k) /\ UNCHANGED owed
    /\ pressed' = [pressed EXCEPT ![k] = {}] /\ mask' = [mask EXCEPT ![k] = {}]
-----------------------------------------------------------------------------
(* Keys *)

KeyMessage == {"keyDown", "keyUp", "unmappedDown", "unmappedUp"}

(* A key is sent to the client, by its code, if it has a character or       *)
(* modifies.                                                                *)
SendKey(s, downs) ==
    LET message == Head(mail[s])
        code == FromHaikuKeyCode(message.key)
        sent == /\ fKeyboardFocus = s
                /\ message.what \in {"unmappedDown", "unmappedUp"} => IsModifierKey(message.key)
    IN  pressed' = [k \in Keyboard |->
            IF k \notin listeners \/ ~sent THEN pressed[k]
            ELSE IF message.what \in downs THEN pressed[k] \cup {code} ELSE pressed[k] \ {code}]

(* Faulty: of a key without a character it looks as if it were pressed. *)
KeyEventUnmapped(s, what) ==
    /\ Takes(s, what)
    /\ SendKey(s, {"keyDown", "unmappedDown", "unmappedUp"})
    /\ UNCHANGED <<fKeyboardFocus, listeners, told, imVars, held, modifiers, mask, current,
                   activeWindow, calm>>

KeyEvent(s, what) ==
    /\ Takes(s, what)
    /\ SendKey(s, {"keyDown", "unmappedDown"})
    /\ UNCHANGED <<fKeyboardFocus, listeners, told, imVars, held, modifiers, mask, current,
                   activeWindow, calm>>

ModifiersChanged(s) ==
    /\ Takes(s, "modifiersChanged")
    /\ IF fKeyboardFocus = s THEN SendModifiers(listeners, Head(mail[s]).modifiers) ELSE UNCHANGED mask
    /\ UNCHANGED <<fKeyboardFocus, listeners, told, imVars, held, modifiers, pressed, current,
                   activeWindow, calm>>
-----------------------------------------------------------------------------
(* The input method *)

Clear == fActive' = FALSE /\ fConfirmed' = FALSE

(* Strings SendState commits to one text input. *)
Commits(confirmed) == IF fActive /\ confirmed THEN 1 ELSE 0

(* A message of the input method counts only for the surface in focus. *)
Hears(s) == fKeyboardFocus = s

Ignored(s, what) ==
    /\ Takes(s, what) /\ ~Hears(s)
    /\ UNCHANGED <<fKeyboardFocus, listeners, told, imVars, keyVars, activeWindow, calm>>

(* Without somebody to reply to nothing starts. *)
Started(s, hasReplyTo) ==
    /\ Takes(s, IF hasReplyTo THEN "started" ELSE "startedMute") /\ Hears(s)
    /\ IF hasReplyTo THEN fActive' = TRUE /\ UNCHANGED fConfirmed ELSE Clear
    /\ UNCHANGED <<fKeyboardFocus, listeners, told, owed, keyVars, activeWindow, calm>>

(* What is owed when every text input was sent the state. *)
Answered(confirmed) ==
    [t \in TextInput |-> IF t \in TextInputs THEN owed[t] - Commits(confirmed) ELSE owed[t]]

Stopped(s) ==
    /\ Takes(s, "stopped") /\ Hears(s)
    /\ owed' = Answered(fConfirmed)
    /\ Clear
    /\ UNCHANGED <<fKeyboardFocus, listeners, told, keyVars, activeWindow, calm>>

(* What is owed when the input method confirms, or not, and all are told.   *)
OwedAfter(confirmed) ==
    LET answered == Answered(confirmed)
    IN  [t \in TextInput |-> IF t \in TextInputs /\ fActive /\ confirmed
                             THEN answered[t] + 1 ELSE answered[t]]

(* Faulty: the string that was confirmed stays. *)
ChangedKept(s, confirmed) ==
    /\ Takes(s, IF confirmed THEN "confirmed" ELSE "changed") /\ Hears(s)
    /\ owed' = OwedAfter(confirmed)
    /\ fConfirmed' = confirmed
    /\ UNCHANGED <<fKeyboardFocus, listeners, told, fActive, keyVars, activeWindow, calm>>

Changed(s, confirmed) ==
    /\ Takes(s, IF confirmed THEN "confirmed" ELSE "changed") /\ Hears(s)
    /\ owed' = OwedAfter(confirmed)
    /\ IF confirmed THEN Clear ELSE fConfirmed' = FALSE /\ UNCHANGED fActive
    /\ UNCHANGED <<fKeyboardFocus, listeners, told, keyVars, activeWindow, calm>>

HandleDisable(t) ==
    /\ t \in TextInputs /\ fActive
    /\ Clear
    /\ UNCHANGED <<fKeyboardFocus, listeners, told, owed, keyVars, mail, activeWindow, calm>>

(* The client commits the state of a text input and is sent that of ours.   *)
HandleCommit(t) ==
    /\ t \in TextInputs
    /\ owed' = [owed EXCEPT ![t] = @ - Commits(fConfirmed)]
    /\ UNCHANGED <<fKeyboardFocus, listeners, told, fActive, fConfirmed, keyVars, mail,
                   activeWindow, calm>>
-----------------------------------------------------------------------------
(* The desktop and its input method *)

Settled == \A s \in Surface : mail[s] = <<>>

(* There is room for n more messages. *)
Room(s, n) == \A t \in Surface : t = s => Len(mail[t]) + n <= MaxMail

Activate(window) ==
    /\ window # activeWindow /\ Room(window, 1) /\ Room(activeWindow, 1)
    /\ mail' = [s \in Surface |->
                  CASE s = window -> Append(mail[s], [what |-> "activated"])
                    [] s = activeWindow -> Append(mail[s], [what |-> "deactivated"])
                    [] OTHER -> mail[s]]
    /\ activeWindow' = window
    /\ calm' = Settled /\ current' = FALSE
    /\ UNCHANGED <<fKeyboardFocus, listeners, told, imVars, held, modifiers, pressed, mask>>

(* Messages for the active window, if there is one. *)
Posted(messages) ==
    /\ Room(activeWindow, Len(messages))
    /\ mail' = [s \in Surface |-> IF s = activeWindow THEN mail[s] \o messages ELSE mail[s]]

(* A key with a character is pressed or released. *)
Type(key) ==
    /\ key \in Key \ DOMAIN ModifierOf
    /\ held' = IF key \in held THEN held \ {key} ELSE held \cup {key}
    /\ Posted(<<[what |-> IF key \in held THEN "keyUp" ELSE "keyDown", key |-> key]>>)
    /\ UNCHANGED <<fKeyboardFocus, listeners, told, imVars, modifiers, pressed, mask, current,
                   activeWindow, calm>>

(* A key that modifies: the modifiers are told before the key. *)
Modify(key) ==
    /\ key \in DOMAIN ModifierOf
    /\ held' = IF key \in held THEN held \ {key} ELSE held \cup {key}
    /\ modifiers' = {ModifierOf[other] : other \in held' \cap DOMAIN ModifierOf}
    /\ Posted(<<[what |-> "modifiersChanged", modifiers |-> modifiers'],
                [what |-> IF key \in held THEN "unmappedUp" ELSE "unmappedDown", key |-> key]>>)
    /\ current' = (activeWindow # NoSurface)
    /\ UNCHANGED <<fKeyboardFocus, listeners, told, imVars, pressed, mask, activeWindow, calm>>

InputMethod == {"started", "startedMute", "changed", "confirmed", "stopped"}

(* The input method talks to the active window. *)
Compose(what) ==
    /\ activeWindow # NoSurface /\ Posted(<<[what |-> what]>>)
    /\ UNCHANGED <<fKeyboardFocus, listeners, told, imVars, keyVars, activeWindow, calm>>

Next ==
    \/ \E s \in Surface :
         \/ DestroySurface(s) \/ Stopped(s) \/ ModifiersChanged(s)
         \/ \E b \in BOOLEAN : WindowActivated(s, b) \/ Started(s, b) \/ Changed(s, b)
         \/ \E what \in InputMethod : Ignored(s, what)
         \/ \E what \in KeyMessage : KeyEvent(s, what)
    \/ \E k \in Keyboard : HandleGetKeyboard(k) \/ DestroyKeyboard(k)
    \/ \E t \in TextInput :
         HandleGetTextInput(t) \/ DestroyTextInput(t) \/ HandleDisable(t) \/ HandleCommit(t)
    \/ \E window \in Surface \cup {NoSurface} : Activate(window)
    \/ \E key \in Key : Type(key) \/ Modify(key)
    \/ \E what \in InputMethod : Compose(what)
    \/ KeymapLoaded

Spec == Init /\ [][Next]_vars
-----------------------------------------------------------------------------
(* Properties *)

Message ==
    [what : InputMethod \cup {"activated", "deactivated"}]
        \cup [what : KeyMessage, key : Key]
        \cup [what : {"modifiersChanged"}, modifiers : SUBSET Modifier]

TypeOK ==
    /\ fKeyboardFocus \in Surface \cup {NoSurface}
    /\ listeners \subseteq Listener
    /\ told \in [Listener -> Surface \cup {NoSurface}]
    /\ fActive \in BOOLEAN /\ fConfirmed \in BOOLEAN
    /\ owed \in [TextInput -> Int]
    /\ held \subseteq Key /\ modifiers \subseteq Modifier /\ current \in BOOLEAN
    /\ pressed \in [Keyboard -> SUBSET {FromHaikuKeyCode(key) : key \in Key}]
    /\ mask \in [Keyboard -> SUBSET UNION {BitsOf[m] : m \in Modifier}]
    /\ mail \in [Surface -> Seq(Message)]
    /\ activeWindow \in Surface \cup {NoSurface}
    /\ calm \in BOOLEAN

(* Enter and leave come in pairs: a keyboard or a text input has entered    *)
(* the surface in focus, or, if it was created after that, none.            *)
FocusTold == \A l \in Listener : told[l] \in {fKeyboardFocus, NoSurface}

(* However late the threads handled earlier activations, one that found     *)
(* them all handled gives the focus to the window it activates.             *)
FocusFollowsActivation == Settled /\ calm => fKeyboardFocus = activeWindow

(* A string the user confirmed is committed to each text input exactly      *)
(* once, although each commit of the client is answered with the state.     *)
CommittedOnce == \A t \in TextInput : owed[t] = 0

(* However presses, releases and changes of the focus are mixed in the      *)
(* queues, the client is not left with a key pressed that is not.           *)
NoStuckKey == Settled =>
    \A k \in Keyboards : pressed[k] \subseteq {FromHaikuKeyCode(key) : key \in held}

(* In the active window, once modifiers have changed there, the client      *)
(* finds in its keymap for every key what Haiku's tables have: codes,       *)
(* masks, types, levels and tables go together.  (Enter tells no modifiers; *)
(* the keypad has rules of its own, and caps lock is the client's.)         *)
SymbolsAgree == Settled /\ calm /\ current /\ fKeyboardFocus = activeWindow =>
    \A k \in Keyboards, key \in HaikuKey :
        \/ IsNumpadDigitKey(key) \/ IsNumpadOperatorKey(key)
        \/ ClientSymbol(FromHaikuKeyCode(key), mask[k]) = HaikuSymbol(key, modifiers)
=============================================================================
