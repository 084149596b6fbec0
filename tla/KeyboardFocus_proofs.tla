------------------------ MODULE KeyboardFocus_proofs ------------------------
(***************************************************************************)
(* What holds of the keyboard focus for every set of windows, keyboards    *)
(* and text inputs: the types, that enter and leave come in pairs, that a  *)
(* confirmed string is committed once, that the focus follows activation,  *)
(* that no key stays pressed, and that clients find the symbols of the     *)
(* keymap.  The third rests on this: between two steps no string is        *)
(* confirmed, for Changed clears it.  The next two rest on QueueInv, which *)
(* says of what is in the queues that whatever gives a window the focus or *)
(* presses a key is followed by what takes it back; the last on MaskInv,   *)
(* that the queue of the active window brings the last modifiers, and on   *)
(* the tables of the keymap.                                               *)
(***************************************************************************)
EXTENDS KeyboardFocus, TLAPS

Mail == Seq(Message)
Codes == {FromHaikuKeyCode(key) : key \in Key}
Masks == SUBSET UNION {BitsOf[m] : m \in Modifier}

KeysTyped ==
    /\ held \subseteq Key /\ modifiers \subseteq Modifier
    /\ pressed \in [Keyboard -> SUBSET Codes]
    /\ mask \in [Keyboard -> Masks]

Typed ==
    /\ fKeyboardFocus \in Surface \cup {NoSurface}
    /\ listeners \subseteq Listener
    /\ told \in [Listener -> Surface \cup {NoSurface}]
    /\ fActive \in BOOLEAN /\ fConfirmed \in BOOLEAN
    /\ owed \in [TextInput -> Int]
    /\ mail \in [Surface -> Mail]
    /\ activeWindow \in Surface \cup {NoSurface}

(* A listener that does not exist is nowhere. *)
NobodyElse == \A l \in Listener \ listeners : told[l] = NoSurface

IInv ==
    /\ Typed /\ KeysTyped /\ calm \in BOOLEAN /\ current \in BOOLEAN
    /\ FocusTold /\ NobodyElse /\ ~fConfirmed /\ CommittedOnce

LEMMA TakesTyped ==
    ASSUME Typed, NEW s \in Surface, NEW what, Takes(s, what) PROVE mail' \in [Surface -> Mail]
<1>1. mail[s] \in Mail /\ mail[s] # <<>>
    BY DEF Takes, Typed
<1>2. Tail(mail[s]) \in Mail
    BY <1>1 DEF Mail
<1> QED
    BY <1>2 DEF Takes, Typed

LEMMA HeadTyped ==
    ASSUME Typed, NEW s \in Surface, NEW what, Takes(s, what)
    PROVE  /\ what \in KeyMessage => Head(mail[s]).key \in Key
           /\ what = "modifiersChanged" => Head(mail[s]).modifiers \in SUBSET Modifier
<1>1. mail[s] \in Mail /\ mail[s] # <<>> /\ Head(mail[s]).what = what
    BY DEF Takes, Typed
<1>2. Head(mail[s]) \in Message
    BY <1>1 DEF Mail
<1> QED
    BY <1>1, <1>2 DEF Message, KeyMessage, InputMethod

LEMMA PostedTyped ==
    ASSUME Typed, NEW messages \in Mail, Posted(messages) PROVE mail' \in [Surface -> Mail]
<1>1. \A s \in Surface : mail[s] \in Mail
    BY DEF Typed
<1>2. \A s \in Surface : mail[s] \o messages \in Mail
    BY <1>1 DEF Mail
<1> QED
    BY <1>1, <1>2 DEF Posted

(* A mask is made of the bits of modifiers. *)
LEMMA MaskTyped ==
    ASSUME KeysTyped, NEW all, NEW those \in SUBSET Modifier, SendModifiers(all, those)
    PROVE  mask' \in [Keyboard -> Masks]
<1>1. FromHaikuModifiers(those) \in Masks
    BY DEF FromHaikuModifiers, Masks
<1> QED
    BY <1>1 DEF SendModifiers, KeysTyped

(* Whatever is told, it is told to all. *)
LEMMA SetKeepsTold ==
    ASSUME IInv, NEW s \in Surface, NEW setFocus \in BOOLEAN, SetKeyboardFocus(s, setFocus),
           listeners' = listeners
    PROVE  /\ fKeyboardFocus' \in Surface \cup {NoSurface}
           /\ told' \in [Listener -> Surface \cup {NoSurface}]
           /\ FocusTold' /\ NobodyElse'
           /\ pressed' \in [Keyboard -> SUBSET Codes]
<1>1. ASSUME NEW t \in Surface \cup {NoSurface}, SetFocus(t)
      PROVE  /\ fKeyboardFocus' \in Surface \cup {NoSurface}
             /\ told' \in [Listener -> Surface \cup {NoSurface}]
             /\ FocusTold' /\ NobodyElse'
             /\ pressed' \in [Keyboard -> SUBSET Codes]
  <2>1. pressed' \in [Keyboard -> SUBSET Codes]
    BY <1>1 DEF SetFocus, Released, IInv, KeysTyped
  <2> QED
    BY <1>1, <2>1 DEF SetFocus, Entered, IInv, Typed, FocusTold, NobodyElse
<1>2. CASE UNCHANGED <<fKeyboardFocus, told, pressed>>
    BY <1>2 DEF IInv, Typed, KeysTyped, FocusTold, NobodyElse
<1> QED
    BY <1>1, <1>2 DEF SetKeyboardFocus

(* Without a confirmed string SendState commits none; with one, the one.    *)
LEMMA OwedKept ==
    ASSUME Typed, CommittedOnce, NEW confirmed \in BOOLEAN
    PROVE  /\ OwedAfter(confirmed) = owed
           /\ ~confirmed => Answered(confirmed) = owed
<1>1. \A t \in TextInput : owed[t] = 0
    BY DEF CommittedOnce
<1>2. ~confirmed => Answered(confirmed) = owed
  <2> SUFFICES ASSUME ~confirmed PROVE Answered(confirmed) = owed
    OBVIOUS
  <2>1. \A t \in TextInput : owed[t] - Commits(confirmed) = owed[t]
    BY <1>1 DEF Commits
  <2>2. Answered(confirmed) = [t \in TextInput |-> owed[t]]
    BY <2>1 DEF Answered
  <2>3. owed = [t \in TextInput |-> owed[t]]
    BY DEF Typed
  <2> QED
    BY <2>2, <2>3, Zenon
<1>3. OwedAfter(confirmed) = owed
  <2>1. \A t \in TextInput : OwedAfter(confirmed)[t] = owed[t]
    BY <1>1 DEF OwedAfter, Answered, Commits
  <2>2. OwedAfter(confirmed) = [t \in TextInput |-> OwedAfter(confirmed)[t]]
    BY DEF OwedAfter
  <2>3. owed = [t \in TextInput |-> owed[t]]
    BY DEF Typed
  <2> QED
    BY <2>1, <2>2, <2>3, Zenon
<1> QED
    BY <1>2, <1>3

LEMMA QuietKeeps ==
    ASSUME IInv, mail' \in [Surface -> Mail], ~fConfirmed', fActive' \in BOOLEAN,
           fConfirmed' \in BOOLEAN, owed' = owed, calm' \in BOOLEAN,
           activeWindow' \in Surface \cup {NoSurface}, current' \in BOOLEAN,
           KeysTyped', UNCHANGED <<fKeyboardFocus, listeners, told>>
    PROVE  IInv'
BY DEF IInv, Typed, FocusTold, NobodyElse, CommittedOnce

LEMMA KeysKeep == ASSUME KeysTyped, UNCHANGED keyVars PROVE KeysTyped' /\ current' = current
BY DEF KeysTyped, keyVars

LEMMA Invariance == Spec => []IInv
<1>1. Init => IInv
  <2> SUFFICES ASSUME Init PROVE IInv
    OBVIOUS
  <2>1. mail \in [Surface -> Mail]
    BY DEF Mail, Init
  <2>2. told \in [Listener -> Surface \cup {NoSurface}] /\ owed \in [TextInput -> Int]
    BY DEF Init
  <2>3. FocusTold /\ NobodyElse /\ CommittedOnce
    BY DEF Init, FocusTold, NobodyElse, CommittedOnce
  <2>4. calm \in BOOLEAN /\ fActive \in BOOLEAN /\ fConfirmed \in BOOLEAN /\ ~fConfirmed
    BY Zenon DEF Init
  <2>5. listeners \subseteq Listener /\ fKeyboardFocus = NoSurface /\ activeWindow = NoSurface
    BY DEF Init
  <2>6. KeysTyped /\ current = FALSE
    BY DEF Init, KeysTyped, Masks
  <2> QED
    BY <2>1, <2>2, <2>3, <2>4, <2>5, <2>6 DEF IInv, Typed
<1>2. IInv /\ [Next]_vars => IInv'
  <2> SUFFICES ASSUME IInv, [Next]_vars PROVE IInv'
    OBVIOUS
  <2> USE KeysKeep
  <2>1. ASSUME NEW s \in Surface, DestroySurface(s) PROVE IInv'
    <3>1. mail' \in [Surface -> Mail]
        BY <2>1 DEF DestroySurface, IInv, Typed, Mail
    <3>2. current' \in BOOLEAN
        BY <2>1, Zenon DEF DestroySurface
    <3>3. SetKeyboardFocus(s, FALSE) /\ UNCHANGED <<listeners, imVars, held, modifiers, mask, calm>>
        BY <2>1 DEF DestroySurface
    <3>4. activeWindow' \in Surface \cup {NoSurface}
        BY <2>1 DEF DestroySurface, IInv, Typed
    <3> QED
        BY <3>1, <3>2, <3>3, <3>4, SetKeepsTold DEF imVars, IInv, Typed, KeysTyped, CommittedOnce
  <2>2. ASSUME NEW s \in Surface, NEW b \in BOOLEAN, WindowActivated(s, b) PROVE IInv'
    BY <2>2, SetKeepsTold, TakesTyped
       DEF WindowActivated, imVars, IInv, Typed, KeysTyped, CommittedOnce
  <2>3. ASSUME NEW s \in Surface, Stopped(s) PROVE IInv'
    BY <2>3, TakesTyped, OwedKept, QuietKeeps DEF Stopped, Clear, IInv, Typed
  <2>4. ASSUME NEW s \in Surface, NEW b \in BOOLEAN, Started(s, b) PROVE IInv'
    BY <2>4, TakesTyped, QuietKeeps DEF Started, Clear, IInv, Typed
  <2>5. ASSUME NEW s \in Surface, NEW b \in BOOLEAN, Changed(s, b) PROVE IInv'
    BY <2>5, TakesTyped, OwedKept, QuietKeeps DEF Changed, Clear, IInv, Typed
  <2>6. ASSUME NEW s \in Surface, NEW what \in InputMethod, Ignored(s, what) PROVE IInv'
    BY <2>6, TakesTyped, QuietKeeps DEF Ignored, imVars, IInv, Typed
  <2>7. ASSUME NEW k \in Keyboard, HandleGetKeyboard(k) PROVE IInv'
    <3>1. KeysTyped'
        BY <2>7, MaskTyped DEF HandleGetKeyboard, UpdateKeymap, IInv, KeysTyped
    <3> QED
        BY <2>7, <3>1
           DEF HandleGetKeyboard, Listener, imVars, IInv, Typed, FocusTold, NobodyElse, CommittedOnce
  <2>8. ASSUME NEW k \in Keyboard, DestroyKeyboard(k) PROVE IInv'
    <3>1. KeysTyped'
      <4>1. {} \in SUBSET Codes /\ {} \in Masks
        BY DEF Masks
      <4> QED
        BY <2>8, <4>1 DEF DestroyKeyboard, Unlisten, IInv, KeysTyped
    <3> QED
        BY <2>8, <3>1
           DEF DestroyKeyboard, Unlisten, Listener, IInv, Typed, FocusTold, NobodyElse, CommittedOnce
  <2>19. ASSUME NEW t \in TextInput, HandleGetTextInput(t) PROVE IInv'
    BY <2>19
       DEF HandleGetTextInput, Listener, imVars, IInv, Typed, FocusTold, NobodyElse, CommittedOnce
  <2>20. ASSUME NEW t \in TextInput, DestroyTextInput(t) PROVE IInv'
    <3>1. KeysTyped'
        BY <2>20 DEF DestroyTextInput, Unlisten, IInv, KeysTyped
    <3> QED
        BY <2>20, <3>1
           DEF DestroyTextInput, Unlisten, Listener, IInv, Typed, FocusTold, NobodyElse, CommittedOnce
  <2>9. ASSUME NEW t \in TextInput, HandleDisable(t) PROVE IInv'
    BY <2>9, QuietKeeps DEF HandleDisable, Clear, IInv, Typed
  <2>10. ASSUME NEW t \in TextInput, HandleCommit(t) PROVE IInv'
    <3>1. [owed EXCEPT ![t] = @ - Commits(fConfirmed)] = owed
        BY DEF Commits, IInv, Typed
    <3> QED
        BY <2>10, <3>1, QuietKeeps DEF HandleCommit, IInv, Typed
  <2>11. ASSUME NEW window \in Surface \cup {NoSurface}, Activate(window) PROVE IInv'
    <3>1. mail' \in [Surface -> Mail]
      <4>1. [what |-> "activated"] \in Message /\ [what |-> "deactivated"] \in Message
        BY DEF Message
      <4>2. \A s \in Surface : mail[s] \in Mail
        BY DEF IInv, Typed
      <4>3. \A s \in Surface : /\ Append(mail[s], [what |-> "activated"]) \in Mail
                              /\ Append(mail[s], [what |-> "deactivated"]) \in Mail
        BY <4>1, <4>2 DEF Mail
      <4> QED
        BY <2>11, <4>2, <4>3 DEF Activate
    <3>2. calm' \in BOOLEAN
        BY <2>11, Zenon DEF Activate, Settled
    <3>3. KeysTyped' /\ current' = FALSE
        BY <2>11 DEF Activate, IInv, KeysTyped
    <3> QED
        BY <2>11, <3>1, <3>2, <3>3, QuietKeeps DEF Activate, imVars, IInv, Typed
  <2>12. ASSUME NEW what \in InputMethod, Compose(what) PROVE IInv'
    <3>1. <<[what |-> what]>> \in Mail
        BY DEF Mail, Message
    <3>2. mail' \in [Surface -> Mail]
        BY <2>12, <3>1, PostedTyped DEF Compose, IInv
    <3> QED
        BY <2>12, <3>2, QuietKeeps DEF Compose, imVars, IInv, Typed
  <2>13. ASSUME KeymapLoaded PROVE IInv'
    <3>1. KeysTyped'
        BY <2>13, MaskTyped DEF KeymapLoaded, UpdateKeymap, IInv, KeysTyped
    <3> QED
        BY <2>13, <3>1, QuietKeeps DEF KeymapLoaded, imVars, IInv, Typed
  <2>14. ASSUME NEW s \in Surface, NEW what \in KeyMessage, KeyEvent(s, what) PROVE IInv'
    <3>1. FromHaikuKeyCode(Head(mail[s]).key) \in Codes
        BY <2>14, HeadTyped DEF KeyEvent, IInv, Codes
    <3>2. KeysTyped'
        BY <2>14, <3>1 DEF KeyEvent, SendKey, IInv, KeysTyped
    <3>3. mail' \in [Surface -> Mail]
        BY <2>14, TakesTyped DEF KeyEvent, IInv
    <3> QED
        BY <2>14, <3>2, <3>3, QuietKeeps DEF KeyEvent, imVars, IInv, Typed
  <2>15. ASSUME NEW s \in Surface, ModifiersChanged(s) PROVE IInv'
    <3>1. Head(mail[s]).modifiers \in SUBSET Modifier
        BY <2>15, HeadTyped DEF ModifiersChanged, IInv
    <3>2. KeysTyped'
        BY <2>15, <3>1, MaskTyped DEF ModifiersChanged, IInv, KeysTyped
    <3>3. mail' \in [Surface -> Mail]
        BY <2>15, TakesTyped DEF ModifiersChanged, IInv
    <3> QED
        BY <2>15, <3>2, <3>3, QuietKeeps DEF ModifiersChanged, imVars, IInv, Typed
  <2>16. ASSUME NEW key \in Key, Type(key) PROVE IInv'
    <3>1. mail' \in [Surface -> Mail]
      <4> DEFINE message == [what |-> IF key \in held THEN "keyUp" ELSE "keyDown", key |-> key]
      <4>1. message \in Message
        BY DEF Message, KeyMessage
      <4>2. <<message>> \in Mail
        BY <4>1 DEF Mail
      <4> QED
        BY <2>16, <4>2, PostedTyped DEF Type, IInv
    <3>2. KeysTyped'
        BY <2>16 DEF Type, IInv, KeysTyped
    <3> QED
        BY <2>16, <3>1, <3>2, QuietKeeps DEF Type, imVars, IInv, Typed
  <2>17. ASSUME NEW key \in Key, Modify(key) PROVE IInv'
    <3>1. KeysTyped'
      <4>1. held' \subseteq Key
        BY <2>17 DEF Modify, IInv, KeysTyped
      <4>2. modifiers' \subseteq Modifier
        BY <2>17, KeyAssumption DEF Modify, Modifier
      <4> QED
        BY <2>17, <4>1, <4>2 DEF Modify, IInv, KeysTyped
    <3>2. mail' \in [Surface -> Mail]
      <4> DEFINE told1 == [what |-> "modifiersChanged", modifiers |-> modifiers']
                 told2 == [what |-> IF key \in held THEN "unmappedUp" ELSE "unmappedDown",
                           key |-> key]
      <4>1. modifiers' \in SUBSET Modifier
        BY <3>1 DEF KeysTyped
      <4>2. told1 \in Message /\ told2 \in Message
        BY <4>1 DEF Message, KeyMessage
      <4>3. <<told1, told2>> \in Mail
        BY <4>2 DEF Mail
      <4>4. Posted(<<told1, told2>>)
        BY <2>17 DEF Modify
      <4> QED
        BY <4>3, <4>4, PostedTyped DEF IInv
    <3>3. current' \in BOOLEAN
        BY <2>17, Zenon DEF Modify
    <3> QED
        BY <2>17, <3>1, <3>2, <3>3, QuietKeeps DEF Modify, imVars, IInv, Typed
  <2>18. CASE UNCHANGED vars
    BY <2>18, QuietKeeps DEF vars, imVars, IInv, Typed
  <2> QED
    BY <2>1, <2>2, <2>3, <2>4, <2>5, <2>6, <2>7, <2>8, <2>9, <2>10, <2>11, <2>12, <2>13, <2>14,
       <2>15, <2>16, <2>17, <2>18, <2>19, <2>20
       DEF Next
<1> QED
    BY <1>1, <1>2, PTL DEF Spec

-----------------------------------------------------------------------------
(* The queues.  What puts a window in focus, or a key down, is followed in  *)
(* the queue by what takes it back, as soon as that has happened.           *)

Downs == {"keyDown", "unmappedDown"}
Ups == {"keyUp", "unmappedUp"}

Pending(q, what) == \E j \in 1 .. Len(q) : q[j].what = what

(* After the i-th message the key is taken for released. *)
LeftAfter(q, i, key) ==
    \E j \in 1 .. Len(q) : j > i /\ ( \/ q[j].what = "deactivated"
                                      \/ q[j].what \in Ups /\ q[j].key = key )

(* In the queue of a window that is not active. *)
Followed(q) ==
    \A i \in 1 .. Len(q) : q[i].what \in Downs \cup {"activated"} =>
        \E j \in 1 .. Len(q) : j > i /\ q[j].what = "deactivated"

KeysEnd(q, down) ==
    \A i \in 1 .. Len(q) : q[i].what \in Downs =>
        q[i].key \in down \/ LeftAfter(q, i, q[i].key)

(* Only keys that modify come without a character. *)
Unmapped(q) ==
    \A i \in 1 .. Len(q) : q[i].what \in {"unmappedDown", "unmappedUp"} => IsModifierKey(q[i].key)

FollowInv == \A s \in Surface : s # activeWindow =>
    Followed(mail[s]) /\ (fKeyboardFocus = s => Pending(mail[s], "deactivated"))

CalmInv == calm =>
    /\ \A s \in Surface : s # activeWindow => ~Pending(mail[s], "activated")
    /\ activeWindow \in Surface =>
         /\ ~Pending(mail[activeWindow], "deactivated")
         /\ fKeyboardFocus = activeWindow \/ Pending(mail[activeWindow], "activated")

KeysInv == \A s \in Surface : KeysEnd(mail[s], held) /\ Unmapped(mail[s])

(* A code is pressed for a key that is, or that the window in focus will     *)
(* find released.                                                           *)
PressedFor(c, q, down) ==
    \E key \in Key : FromHaikuKeyCode(key) = c /\ (key \in down \/ LeftAfter(q, 0, key))

PressedInv == \A k \in Keyboard : \A c \in pressed[k] :
    k \in listeners /\ fKeyboardFocus \in Surface /\ PressedFor(c, mail[fKeyboardFocus], held)

QueueInv == FollowInv /\ CalmInv /\ KeysInv /\ PressedInv

(* What remains of a queue when its first message is taken. *)
LEMMA Rest ==
    ASSUME NEW q \in Mail, q # <<>>
    PROVE  /\ Tail(q) \in Mail /\ Len(Tail(q)) = Len(q) - 1 /\ Len(q) \in Nat \ {0}
           /\ \A i \in 1 .. Len(q) : i # 1 => i - 1 \in 1 .. Len(Tail(q)) /\ q[i] = Tail(q)[i - 1]
           /\ \A i \in 1 .. Len(Tail(q)) : i + 1 \in 1 .. Len(q) /\ Tail(q)[i] = q[i + 1]
           /\ Head(q) = q[1] /\ 1 \in 1 .. Len(q)
BY DEF Mail

LEMMA RestPending ==
    ASSUME NEW q \in Mail, q # <<>>, NEW what
    PROVE  /\ Pending(Tail(q), what) => Pending(q, what)
           /\ Pending(q, what) => Pending(Tail(q), what) \/ Head(q).what = what
<1>1. Pending(Tail(q), what) => Pending(q, what)
    BY Rest DEF Pending
<1>2. ASSUME Pending(q, what), Head(q).what # what PROVE Pending(Tail(q), what)
  <2>1. PICK j \in 1 .. Len(q) : q[j].what = what
    BY <1>2 DEF Pending
  <2>2. j # 1
    BY <1>2, <2>1, Rest
  <2> QED
    BY <2>1, <2>2, Rest DEF Pending
<1> QED
    BY <1>1, <1>2

LEMMA RestFollowed ==
    ASSUME NEW q \in Mail, q # <<>>, Followed(q)
    PROVE  /\ Followed(Tail(q))
           /\ Head(q).what = "activated" => Pending(Tail(q), "deactivated")
<1>1. ASSUME NEW i \in 1 .. Len(q), q[i].what \in Downs \cup {"activated"}
      PROVE  \E j \in 1 .. Len(Tail(q)) : j + 1 > i /\ Tail(q)[j].what = "deactivated"
  <2>1. PICK j \in 1 .. Len(q) : j > i /\ q[j].what = "deactivated"
    BY <1>1 DEF Followed
  <2>2. j # 1 /\ j - 1 \in 1 .. Len(Tail(q)) /\ Tail(q)[j - 1].what = "deactivated"
    BY <2>1, Rest
  <2>3. (j - 1) + 1 > i
    BY <2>1
  <2> QED
    BY <2>2, <2>3
<1>2. Followed(Tail(q))
  <2> SUFFICES ASSUME NEW i \in 1 .. Len(Tail(q)), Tail(q)[i].what \in Downs \cup {"activated"}
               PROVE  \E j \in 1 .. Len(Tail(q)) : j > i /\ Tail(q)[j].what = "deactivated"
    BY DEF Followed
  <2>1. i + 1 \in 1 .. Len(q) /\ q[i + 1].what \in Downs \cup {"activated"}
    BY Rest
  <2>2. PICK j \in 1 .. Len(Tail(q)) : j + 1 > i + 1 /\ Tail(q)[j].what = "deactivated"
    BY <1>1, <2>1
  <2> QED
    BY <2>2
<1>3. Head(q).what = "activated" => Pending(Tail(q), "deactivated")
    BY <1>1, Rest DEF Pending
<1> QED
    BY <1>2, <1>3

(* A key that is left after a message is left after it in what remains.      *)
LEMMA RestLeft ==
    ASSUME NEW q \in Mail, q # <<>>, NEW i \in Nat, NEW key, LeftAfter(q, i, key)
    PROVE  /\ i > 0 => LeftAfter(Tail(q), i - 1, key)
           /\ i = 0 => \/ LeftAfter(Tail(q), 0, key)
                       \/ Head(q).what = "deactivated"
                       \/ Head(q).what \in Ups /\ Head(q).key = key
<1>1. PICK j \in 1 .. Len(q) : j > i /\ ( \/ q[j].what = "deactivated"
                                          \/ q[j].what \in Ups /\ q[j].key = key )
    BY DEF LeftAfter
<1>2. CASE j = 1
    BY <1>1, <1>2, Rest
<1>3. CASE j # 1
  <2>1. j - 1 \in 1 .. Len(Tail(q)) /\ Tail(q)[j - 1] = q[j]
    BY <1>3, Rest
  <2>2. i > 0 => j - 1 > i - 1
    BY <1>1
  <2>3. j - 1 > 0
    BY <1>3
  <2> QED
    BY <1>1, <2>1, <2>2, <2>3 DEF LeftAfter
<1> QED
    BY <1>2, <1>3

LEMMA RestKeys ==
    ASSUME NEW q \in Mail, q # <<>>, NEW down, KeysEnd(q, down), Unmapped(q)
    PROVE  /\ KeysEnd(Tail(q), down) /\ Unmapped(Tail(q))
           /\ Head(q).what \in Downs => Head(q).key \in down \/ LeftAfter(Tail(q), 0, Head(q).key)
           /\ Head(q).what \in {"unmappedDown", "unmappedUp"} => IsModifierKey(Head(q).key)
<1>1. ASSUME NEW i \in 1 .. Len(q), q[i].what \in Downs
      PROVE  q[i].key \in down \/ LeftAfter(Tail(q), i - 1, q[i].key)
  <2>1. q[i].key \in down \/ LeftAfter(q, i, q[i].key)
    BY <1>1 DEF KeysEnd
  <2> QED
    BY <2>1, RestLeft
<1>2. KeysEnd(Tail(q), down)
  <2> SUFFICES ASSUME NEW i \in 1 .. Len(Tail(q)), Tail(q)[i].what \in Downs
               PROVE  Tail(q)[i].key \in down \/ LeftAfter(Tail(q), i, Tail(q)[i].key)
    BY DEF KeysEnd
  <2>1. i + 1 \in 1 .. Len(q) /\ q[i + 1] = Tail(q)[i] /\ (i + 1) - 1 = i
    BY Rest
  <2> QED
    BY <1>1, <2>1
<1>3. Unmapped(Tail(q))
    BY Rest DEF Unmapped
<1>4. Head(q).what \in Downs => Head(q).key \in down \/ LeftAfter(Tail(q), 0, Head(q).key)
    BY <1>1, Rest
<1>5. Head(q).what \in {"unmappedDown", "unmappedUp"} => IsModifierKey(Head(q).key)
    BY Rest DEF Unmapped
<1> QED
    BY <1>2, <1>3, <1>4, <1>5

(* A queue r that begins with q. *)
Longer(q, r) ==
    /\ q \in Mail /\ r \in Mail /\ Len(q) <= Len(r)
    /\ \A i \in 1 .. Len(q) : r[i] = q[i]

LEMMA Lengthened ==
    ASSUME NEW q \in Mail, NEW more \in Mail
    PROVE  /\ Longer(q, q \o more) /\ Len(q \o more) = Len(q) + Len(more)
           /\ \A i \in 1 .. Len(more) : (q \o more)[Len(q) + i] = more[i]
BY DEF Longer, Mail

LEMMA Appended ==
    ASSUME NEW q \in Mail, NEW message \in Message
    PROVE  /\ Longer(q, Append(q, message)) /\ Len(Append(q, message)) = Len(q) + 1
           /\ Append(q, message)[Len(q) + 1] = message
BY DEF Longer, Mail

LEMMA LongerKeeps ==
    ASSUME NEW q, NEW r, Longer(q, r)
    PROVE  /\ Len(q) \in Nat /\ Len(r) \in Nat
           /\ \A i \in 1 .. Len(q) : i \in 1 .. Len(r)
           /\ \A what : Pending(q, what) => Pending(r, what)
           /\ \A i, key : LeftAfter(q, i, key) => LeftAfter(r, i, key)
<1>1. Len(q) \in Nat /\ Len(r) \in Nat
    BY DEF Longer, Mail
<1>2. \A i \in 1 .. Len(q) : i \in 1 .. Len(r)
    BY <1>1 DEF Longer
<1> QED
    BY <1>1, <1>2 DEF Longer, Pending, LeftAfter

(* Every step *)

LEMMA QueueTyped ==
    ASSUME Typed, NEW s \in Surface PROVE mail[s] \in Mail
BY DEF Typed

(* A handler that changes no focus and is told of no key. *)
LEMMA TakesKeeps ==
    ASSUME IInv, QueueInv, NEW s \in Surface, NEW what, Takes(s, what),
           what \notin {"activated", "deactivated"} \cup KeyMessage,
           UNCHANGED <<fKeyboardFocus, listeners, held, pressed, activeWindow, calm>>
    PROVE  QueueInv'
<1> DEFINE q == mail[s]
<1>1. q \in Mail /\ q # <<>> /\ Head(q).what = what
    BY QueueTyped DEF Takes, IInv
<1>2. \A t \in Surface : mail'[t] = IF t = s THEN Tail(q) ELSE mail[t]
    BY DEF Takes, IInv, Typed
<1>3. \A w : Pending(Tail(q), w) => Pending(q, w)
    BY <1>1, RestPending
<1>4. \A w \in {"activated", "deactivated"} : Pending(q, w) => Pending(Tail(q), w)
    BY <1>1, RestPending
<1>5. Followed(q) => Followed(Tail(q))
    BY <1>1, RestFollowed
<1>6. KeysEnd(Tail(q), held) /\ Unmapped(Tail(q))
    BY <1>1, RestKeys DEF QueueInv, KeysInv
<1>7. \A key : LeftAfter(q, 0, key) => LeftAfter(Tail(q), 0, key)
    BY <1>1, RestLeft DEF KeyMessage, Ups
<1> HIDE DEF q
<1>8. FollowInv'
    BY <1>2, <1>4, <1>5 DEF QueueInv, FollowInv, q
<1>9. CalmInv'
    BY <1>2, <1>3, <1>4 DEF QueueInv, CalmInv, q
<1>10. KeysInv'
    BY <1>2, <1>6 DEF QueueInv, KeysInv
<1>11. PressedInv'
    BY <1>2, <1>7 DEF QueueInv, PressedInv, PressedFor, q
<1> QED
    BY <1>8, <1>9, <1>10, <1>11 DEF QueueInv

(* A step that leaves the queues alone and presses nothing. *)
LEMMA StillKeeps ==
    ASSUME QueueInv, UNCHANGED <<fKeyboardFocus, held, mail, activeWindow, calm>>,
           \A k \in Keyboard : \A c \in pressed'[k] :
               c \in pressed[k] /\ (k \in listeners => k \in listeners')
    PROVE  QueueInv'
<1>1. FollowInv' /\ CalmInv' /\ KeysInv'
    BY DEF QueueInv, FollowInv, CalmInv, KeysInv
<1>2. PressedInv'
  <2> SUFFICES ASSUME NEW k \in Keyboard, NEW c \in pressed'[k]
               PROVE  k \in listeners' /\ fKeyboardFocus \in Surface
                        /\ PressedFor(c, mail[fKeyboardFocus], held)
    BY DEF PressedInv, PressedFor
  <2>1. c \in pressed[k] /\ (k \in listeners => k \in listeners')
    OBVIOUS
  <2>2. /\ k \in listeners /\ fKeyboardFocus \in Surface
        /\ PressedFor(c, mail[fKeyboardFocus], held)
    BY <2>1 DEF QueueInv, PressedInv
  <2> QED
    BY <2>1, <2>2
<1> QED
    BY <1>1, <1>2 DEF QueueInv

(* No key is pressed where the focus has changed. *)
LEMMA SetReleases ==
    ASSUME IInv, QueueInv, NEW t, SetFocus(t), listeners' = listeners PROVE PressedInv'
<1>1. \A k \in Keyboard : pressed'[k] = IF k \in listeners THEN {} ELSE pressed[k]
    BY DEF SetFocus, Released
<1>2. \A k \in Keyboard : pressed'[k] = {}
    BY <1>1 DEF QueueInv, PressedInv
<1> QED
    BY <1>2 DEF PressedInv

LEMMA ActivatedKeeps ==
    ASSUME IInv, QueueInv, NEW s \in Surface, NEW active \in BOOLEAN, WindowActivated(s, active)
    PROVE  QueueInv'
<1> DEFINE q == mail[s]
           what == IF active THEN "activated" ELSE "deactivated"
<1>1. q \in Mail /\ q # <<>> /\ Head(q).what = what
    BY QueueTyped DEF WindowActivated, Takes, IInv
<1>2. \A t \in Surface : mail'[t] = IF t = s THEN Tail(q) ELSE mail[t]
    BY DEF WindowActivated, Takes, IInv, Typed
<1>3. UNCHANGED <<listeners, held, activeWindow, calm>>
    BY DEF WindowActivated
<1>4. \A w : Pending(Tail(q), w) => Pending(q, w)
    BY <1>1, RestPending
<1>5. /\ active => (Pending(q, "deactivated") => Pending(Tail(q), "deactivated"))
      /\ ~active => (Pending(q, "activated") => Pending(Tail(q), "activated"))
    BY <1>1, RestPending
<1>6. Followed(q) => Followed(Tail(q)) /\ (active => Pending(Tail(q), "deactivated"))
    BY <1>1, RestFollowed
<1>7. KeysEnd(Tail(q), held) /\ Unmapped(Tail(q))
    BY <1>1, RestKeys DEF QueueInv, KeysInv
<1>8. /\ active => fKeyboardFocus' = s
      /\ ~active => fKeyboardFocus' = IF fKeyboardFocus = s THEN NoSurface ELSE fKeyboardFocus
    BY DEF WindowActivated, SetKeyboardFocus, SetFocus
<1>9. Pending(q, what)
    BY <1>1, Rest DEF Pending
<1>10. NoSurface \notin Surface
    BY SurfaceAssumption
<1> HIDE DEF q
<1>11. FollowInv'
  <2> SUFFICES ASSUME NEW t \in Surface, t # activeWindow
               PROVE  /\ Followed(mail'[t])
                      /\ fKeyboardFocus' = t => Pending(mail'[t], "deactivated")
    BY <1>3 DEF FollowInv
  <2>1. Followed(mail[t]) /\ (fKeyboardFocus = t => Pending(mail[t], "deactivated"))
    BY DEF QueueInv, FollowInv
  <2>2. CASE t = s
    BY <1>2, <1>6, <1>8, <1>10, <2>1, <2>2 DEF q
  <2>3. CASE t # s
    BY <1>2, <1>8, <1>10, <2>1, <2>3
  <2> QED
    BY <2>2, <2>3
<1>12. CalmInv'
  <2> SUFFICES ASSUME calm
               PROVE  /\ \A t \in Surface : t # activeWindow => ~Pending(mail'[t], "activated")
                      /\ activeWindow \in Surface =>
                           /\ ~Pending(mail'[activeWindow], "deactivated")
                           /\ \/ fKeyboardFocus' = activeWindow
                              \/ Pending(mail'[activeWindow], "activated")
    BY <1>3 DEF CalmInv
  <2>1. /\ \A t \in Surface : t # activeWindow => ~Pending(mail[t], "activated")
        /\ activeWindow \in Surface =>
             /\ ~Pending(mail[activeWindow], "deactivated")
             /\ fKeyboardFocus = activeWindow \/ Pending(mail[activeWindow], "activated")
    BY DEF QueueInv, CalmInv
  <2>2. active => s = activeWindow
    BY <1>9, <2>1 DEF q
  <2>3. ~active => s # activeWindow
    BY <1>9, <2>1 DEF q
  <2> QED
    BY <1>2, <1>4, <1>8, <2>1, <2>2, <2>3 DEF q
<1>13. KeysInv'
    BY <1>2, <1>3, <1>7 DEF QueueInv, KeysInv
<1>14. PressedInv'
  <2>1. ASSUME NEW t, SetFocus(t) PROVE PressedInv'
    BY <1>3, <2>1, SetReleases
  <2>2. CASE UNCHANGED <<fKeyboardFocus, told, pressed>>
    <3>1. active => \A key : LeftAfter(q, 0, key) => LeftAfter(Tail(q), 0, key)
        BY <1>1, RestLeft DEF Ups
    <3>2. fKeyboardFocus \in Surface => (~active => fKeyboardFocus # s)
        BY <1>8, <1>10, <2>2
    <3>3. ASSUME NEW c, fKeyboardFocus \in Surface, PressedFor(c, mail[fKeyboardFocus], held)
          PROVE  PressedFor(c, mail'[fKeyboardFocus], held)
        BY <1>2, <3>1, <3>2, <3>3 DEF PressedFor, q
    <3> QED
        BY <1>3, <2>2, <3>3 DEF QueueInv, PressedInv
  <2> QED
    BY <2>1, <2>2 DEF WindowActivated, SetKeyboardFocus
<1> QED
    BY <1>11, <1>12, <1>13, <1>14 DEF QueueInv

LEMMA DestroyKeeps ==
    ASSUME IInv, QueueInv, NEW s \in Surface, DestroySurface(s) PROVE QueueInv'
<1>1. \A t \in Surface : mail'[t] = IF t = s THEN <<>> ELSE mail[t]
    BY DEF DestroySurface, IInv, Typed
<1>2. /\ UNCHANGED <<listeners, held, calm>>
      /\ activeWindow' = IF activeWindow = s THEN NoSurface ELSE activeWindow
      /\ fKeyboardFocus' = IF fKeyboardFocus = s THEN NoSurface ELSE fKeyboardFocus
    BY DEF DestroySurface, SetKeyboardFocus, SetFocus
<1>3. NoSurface \notin Surface
    BY SurfaceAssumption
<1>4. /\ Followed(<<>>) /\ KeysEnd(<<>>, held) /\ Unmapped(<<>>)
      /\ \A what : ~Pending(<<>>, what)
    BY DEF Followed, KeysEnd, Unmapped, Pending
<1>5. FollowInv'
    BY <1>1, <1>2, <1>3, <1>4 DEF QueueInv, FollowInv
<1>6. CalmInv'
    BY <1>1, <1>2, <1>3, <1>4 DEF QueueInv, CalmInv
<1>7. KeysInv'
    BY <1>1, <1>2, <1>4 DEF QueueInv, KeysInv
<1>8. PressedInv'
  <2>1. CASE fKeyboardFocus = s
    BY <1>2, <2>1, SetReleases DEF DestroySurface, SetKeyboardFocus
  <2>2. CASE fKeyboardFocus # s
    <3>1. UNCHANGED <<fKeyboardFocus, pressed>>
        BY <2>2 DEF DestroySurface, SetKeyboardFocus
    <3>2. fKeyboardFocus \in Surface => mail'[fKeyboardFocus] = mail[fKeyboardFocus]
        BY <1>1, <2>2
    <3> QED
        BY <1>2, <3>1, <3>2 DEF QueueInv, PressedInv
  <2> QED
    BY <2>1, <2>2
<1> QED
    BY <1>5, <1>6, <1>7, <1>8 DEF QueueInv

(* A key is taken from what is pressed when its release is handled, and     *)
(* added only if it is down or its release is in the queue.                 *)
LEMMA KeyEventKeeps ==
    ASSUME IInv, QueueInv, NEW s \in Surface, NEW what \in KeyMessage, KeyEvent(s, what)
    PROVE  QueueInv'
<1> DEFINE q == mail[s]
           code == FromHaikuKeyCode(Head(q).key)
           sent == /\ fKeyboardFocus = s
                   /\ what \in {"unmappedDown", "unmappedUp"} => IsModifierKey(Head(q).key)
<1>1. q \in Mail /\ q # <<>> /\ Head(q).what = what /\ Head(q).key \in Key
    BY QueueTyped, HeadTyped DEF KeyEvent, Takes, IInv
<1>2. \A t \in Surface : mail'[t] = IF t = s THEN Tail(q) ELSE mail[t]
    BY DEF KeyEvent, Takes, IInv, Typed
<1>3. UNCHANGED <<fKeyboardFocus, listeners, held, activeWindow, calm>>
    BY DEF KeyEvent
<1>4. what \notin {"activated", "deactivated"} /\ what \in Downs \cup Ups /\ (what \in Downs <=> what \notin Ups)
    BY DEF KeyMessage, Downs, Ups
<1>5. \A w \in {"activated", "deactivated"} : Pending(Tail(q), w) <=> Pending(q, w)
    BY <1>1, <1>4, RestPending
<1>6. Followed(q) => Followed(Tail(q))
    BY <1>1, RestFollowed
<1>7. /\ KeysEnd(Tail(q), held) /\ Unmapped(Tail(q))
      /\ what \in Downs => Head(q).key \in held \/ LeftAfter(Tail(q), 0, Head(q).key)
      /\ what \in {"unmappedDown", "unmappedUp"} => IsModifierKey(Head(q).key)
    BY <1>1, RestKeys DEF QueueInv, KeysInv
<1>8. \A key : LeftAfter(q, 0, key) =>
        LeftAfter(Tail(q), 0, key) \/ (what \in Ups /\ Head(q).key = key)
    BY <1>1, <1>4, RestLeft
<1>9. \A k \in Keyboard : pressed'[k] =
        IF k \notin listeners \/ fKeyboardFocus # s THEN pressed[k]
        ELSE IF what \in Downs THEN pressed[k] \cup {code} ELSE pressed[k] \ {code}
    BY <1>1, <1>7 DEF KeyEvent, SendKey, Downs
<1> HIDE DEF q, code
<1>10. FollowInv'
    BY <1>2, <1>3, <1>5, <1>6 DEF QueueInv, FollowInv, q
<1>11. CalmInv'
    BY <1>2, <1>3, <1>5 DEF QueueInv, CalmInv, q
<1>12. KeysInv'
    BY <1>2, <1>3, <1>7 DEF QueueInv, KeysInv
<1>13. PressedInv'
  <2> SUFFICES ASSUME NEW k \in Keyboard, NEW c \in pressed'[k]
               PROVE  k \in listeners /\ fKeyboardFocus \in Surface
                        /\ PressedFor(c, mail'[fKeyboardFocus], held)
    BY <1>3 DEF PressedInv
  <2>1. CASE c \in pressed[k] /\ fKeyboardFocus # s
    BY <1>2, <2>1 DEF QueueInv, PressedInv
  <2>2. CASE c \in pressed[k] /\ fKeyboardFocus = s
    <3>1. k \in listeners /\ PressedFor(c, q, held)
        BY <2>2 DEF QueueInv, PressedInv, q
    <3>2. PICK key \in Key : FromHaikuKeyCode(key) = c /\ (key \in held \/ LeftAfter(q, 0, key))
        BY <3>1 DEF PressedFor
    <3>3. what \in Ups => c # code
        BY <1>4, <1>9, <2>2, <3>1
    <3>4. key \in held \/ LeftAfter(Tail(q), 0, key)
        BY <1>8, <3>2, <3>3 DEF code
    <3> QED
        BY <1>2, <2>2, <3>1, <3>2, <3>4 DEF PressedFor
  <2>3. CASE c \notin pressed[k]
    <3>1. k \in listeners /\ fKeyboardFocus = s /\ what \in Downs /\ c = code
      <4>1. pressed'[k] = IF k \notin listeners \/ fKeyboardFocus # s THEN pressed[k]
                          ELSE IF what \in Downs THEN pressed[k] \cup {code}
                          ELSE pressed[k] \ {code}
        BY <1>9
      <4>2. c \in pressed'[k]
        OBVIOUS
      <4> QED
        BY <2>3, <4>1, <4>2
    <3>2. PressedFor(c, Tail(q), held)
        BY <1>1, <1>7, <3>1 DEF PressedFor, code
    <3> QED
        BY <1>2, <3>1, <3>2
  <2> QED
    BY <2>1, <2>2, <2>3
<1> QED
    BY <1>10, <1>11, <1>12, <1>13 DEF QueueInv

LEMMA FollowedEnds ==
    ASSUME NEW q, Followed(q), NEW down PROVE KeysEnd(q, down)
BY DEF Followed, KeysEnd, LeftAfter

(* Messages of the keyboard or the input method come after those that wait.  *)
LEMMA Joined ==
    ASSUME NEW q \in Mail, NEW more \in Mail, NEW down, NEW then, KeysEnd(q, down), Unmapped(q),
           Unmapped(more), \A what \in {"activated", "deactivated"} : ~Pending(more, what),
           \A key : key \in down => key \in then \/ LeftAfter(more, 0, key),
           \A i \in 1 .. Len(more) : more[i].what \in Downs => more[i].key \in then
    PROVE  /\ KeysEnd(q \o more, then) /\ Unmapped(q \o more)
           /\ \A what \in {"activated", "deactivated"} : Pending(q \o more, what) => Pending(q, what)
           /\ \A key : key \in down => key \in then \/ LeftAfter(q \o more, 0, key)
<1> DEFINE r == q \o more
<1>1. /\ Longer(q, r) /\ Len(r) = Len(q) + Len(more)
      /\ \A i \in 1 .. Len(more) : r[Len(q) + i] = more[i]
    BY Lengthened
<1>2. /\ Len(q) \in Nat /\ Len(more) \in Nat
      /\ \A i \in 1 .. Len(q) : r[i] = q[i]
    BY <1>1 DEF Longer, Mail
<1> HIDE DEF r
<1>3. ASSUME NEW i \in 1 .. Len(r), i \notin 1 .. Len(q)
      PROVE  i - Len(q) \in 1 .. Len(more) /\ r[i] = more[i - Len(q)]
  <2>1. i - Len(q) \in 1 .. Len(more) /\ i = Len(q) + (i - Len(q))
    BY <1>1, <1>2, <1>3
  <2> QED
    BY <1>1, <2>1
<1>4. ASSUME NEW key, LeftAfter(more, 0, key), NEW i \in 0 .. Len(q) PROVE LeftAfter(r, i, key)
  <2>1. PICK j \in 1 .. Len(more) : \/ more[j].what = "deactivated"
                                    \/ more[j].what \in Ups /\ more[j].key = key
    BY <1>4 DEF LeftAfter
  <2>2. Len(q) + j \in 1 .. Len(r) /\ Len(q) + j > i /\ r[Len(q) + j] = more[j]
    BY <1>1, <1>2
  <2> QED
    BY <2>1, <2>2 DEF LeftAfter
<1>5. KeysEnd(r, then)
  <2> SUFFICES ASSUME NEW i \in 1 .. Len(r), r[i].what \in Downs
               PROVE  r[i].key \in then \/ LeftAfter(r, i, r[i].key)
    BY DEF KeysEnd
  <2>1. CASE i \in 1 .. Len(q)
    <3>1. q[i].key \in down \/ LeftAfter(q, i, q[i].key)
        BY <1>2, <2>1 DEF KeysEnd
    <3>2. LeftAfter(q, i, q[i].key) => LeftAfter(r, i, q[i].key)
        BY <1>1, LongerKeeps
    <3>3. i \in 0 .. Len(q) /\ r[i] = q[i]
        BY <1>2, <2>1
    <3>4. q[i].key \in down => q[i].key \in then \/ LeftAfter(r, i, q[i].key)
        BY <1>4, <3>3
    <3> QED
        BY <3>1, <3>2, <3>3, <3>4
  <2>2. CASE i \notin 1 .. Len(q)
    BY <1>3, <2>2
  <2> QED
    BY <2>1, <2>2
<1>6. Unmapped(r)
    BY <1>2, <1>3 DEF Unmapped
<1>7. \A what \in {"activated", "deactivated"} : Pending(r, what) => Pending(q, what)
    BY <1>2, <1>3 DEF Pending
<1>8. \A key : key \in down => key \in then \/ LeftAfter(r, 0, key)
  <2>1. 0 \in 0 .. Len(q)
    BY <1>2
  <2> QED
    BY <1>4, <2>1
<1> QED
    BY <1>5, <1>6, <1>7, <1>8 DEF r

LEMMA PostKeeps ==
    ASSUME IInv, QueueInv, NEW more \in Mail, Posted(more), Unmapped(more),
           \A what \in {"activated", "deactivated"} : ~Pending(more, what),
           \A key : key \in held => key \in held' \/ LeftAfter(more, 0, key),
           \A i \in 1 .. Len(more) : more[i].what \in Downs => more[i].key \in held',
           UNCHANGED <<fKeyboardFocus, listeners, pressed, activeWindow, calm>>
    PROVE  QueueInv'
<1>1. \A t \in Surface : mail'[t] = IF t = activeWindow THEN mail[t] \o more ELSE mail[t]
    BY DEF Posted
<1>2. \A t \in Surface : /\ mail[t] \in Mail /\ KeysEnd(mail[t], held) /\ Unmapped(mail[t])
                         /\ t # activeWindow => Followed(mail[t])
    BY QueueTyped DEF IInv, QueueInv, KeysInv, FollowInv
<1>3. \A t \in Surface : t = activeWindow =>
        /\ KeysEnd(mail'[t], held') /\ Unmapped(mail'[t])
        /\ \A what \in {"activated", "deactivated"} : Pending(mail'[t], what) => Pending(mail[t], what)
        /\ \A key : key \in held => key \in held' \/ LeftAfter(mail'[t], 0, key)
        /\ Longer(mail[t], mail'[t])
  <2> SUFFICES ASSUME NEW t \in Surface, t = activeWindow
               PROVE  /\ KeysEnd(mail'[t], held') /\ Unmapped(mail'[t])
                      /\ \A what \in {"activated", "deactivated"} :
                           Pending(mail'[t], what) => Pending(mail[t], what)
                      /\ \A key : key \in held => key \in held' \/ LeftAfter(mail'[t], 0, key)
                      /\ Longer(mail[t], mail'[t])
    OBVIOUS
  <2> DEFINE q == mail[t]
             down == held
             then == held'
  <2>1. q \in Mail /\ KeysEnd(q, down) /\ Unmapped(q) /\ mail'[t] = q \o more
    BY <1>1, <1>2
  <2>2. /\ \A key : key \in down => key \in then \/ LeftAfter(more, 0, key)
        /\ \A i \in 1 .. Len(more) : more[i].what \in Downs => more[i].key \in then
    OBVIOUS
  <2> HIDE DEF q, down, then
  <2>3. /\ KeysEnd(q \o more, then) /\ Unmapped(q \o more)
        /\ \A what \in {"activated", "deactivated"} : Pending(q \o more, what) => Pending(q, what)
        /\ \A key : key \in down => key \in then \/ LeftAfter(q \o more, 0, key)
    BY <2>1, <2>2, Joined
  <2>4. Longer(q, q \o more)
    BY <2>1, Lengthened
  <2> QED
    BY <2>1, <2>3, <2>4 DEF q, down, then
<1>4. FollowInv'
    BY <1>1 DEF QueueInv, FollowInv
<1>5. CalmInv'
    BY <1>1, <1>3, LongerKeeps DEF QueueInv, CalmInv
<1>6. KeysInv'
    BY <1>1, <1>2, <1>3, FollowedEnds DEF KeysInv
<1>7. PressedInv'
  <2> SUFFICES ASSUME NEW k \in Keyboard, NEW c \in pressed[k]
               PROVE  k \in listeners /\ fKeyboardFocus \in Surface
                        /\ PressedFor(c, mail'[fKeyboardFocus], held')
    BY DEF PressedInv, PressedFor
  <2>1. k \in listeners /\ fKeyboardFocus \in Surface /\ PressedFor(c, mail[fKeyboardFocus], held)
    BY DEF QueueInv, PressedInv
  <2>2. PICK key \in Key : /\ FromHaikuKeyCode(key) = c
                           /\ key \in held \/ LeftAfter(mail[fKeyboardFocus], 0, key)
    BY <2>1 DEF PressedFor
  <2>3. CASE fKeyboardFocus = activeWindow
    <3>1. key \in held' \/ LeftAfter(mail'[fKeyboardFocus], 0, key)
        BY <1>3, <2>1, <2>2, <2>3, LongerKeeps
    <3> QED
        BY <2>1, <2>2, <3>1 DEF PressedFor
  <2>4. CASE fKeyboardFocus # activeWindow
    <3>1. Pending(mail[fKeyboardFocus], "deactivated")
        BY <2>1, <2>4 DEF QueueInv, FollowInv
    <3>2. LeftAfter(mail[fKeyboardFocus], 0, key)
        BY <3>1 DEF Pending, LeftAfter
    <3> QED
        BY <1>1, <2>1, <2>2, <2>4, <3>2 DEF PressedFor
  <2> QED
    BY <2>3, <2>4
<1> QED
    BY <1>4, <1>5, <1>6, <1>7 DEF QueueInv

(* The window that is left gets its deactivation behind all the rest.        *)
LEMMA ActivateKeeps ==
    ASSUME IInv, QueueInv, NEW window \in Surface \cup {NoSurface}, Activate(window)
    PROVE  QueueInv'
<1> DEFINE up == [what |-> "activated"]
           off == [what |-> "deactivated"]
<1>1. /\ window # activeWindow /\ activeWindow' = window /\ calm' = Settled
      /\ UNCHANGED <<fKeyboardFocus, listeners, held, pressed>>
    BY DEF Activate
<1>2. \A t \in Surface : mail'[t] = CASE t = window -> Append(mail[t], up)
                                      [] t = activeWindow -> Append(mail[t], off)
                                      [] OTHER -> mail[t]
    BY DEF Activate
<1>3. up \in Message /\ off \in Message
    BY DEF Message
<1>4. \A t \in Surface : /\ mail[t] \in Mail /\ KeysEnd(mail[t], held) /\ Unmapped(mail[t])
                         /\ t # activeWindow => Followed(mail[t])
    BY QueueTyped DEF IInv, QueueInv, KeysInv, FollowInv
<1>5. up.what = "activated" /\ off.what = "deactivated"
    OBVIOUS
<1> HIDE DEF up, off
<1>6. ASSUME NEW t \in Surface
      PROVE  /\ Longer(mail[t], mail'[t])
             /\ t \notin {window, activeWindow} => mail'[t] = mail[t]
             /\ Len(mail'[t]) = Len(mail[t]) + 1 =>
                  mail'[t][Len(mail'[t])] = IF t = window THEN up ELSE off
             /\ t \in {window, activeWindow} => Len(mail'[t]) = Len(mail[t]) + 1
  <2>1. CASE t = window
    <3>1. mail'[t] = Append(mail[t], up)
        BY <1>1, <1>2, <2>1
    <3>2. /\ Longer(mail[t], mail'[t]) /\ Len(mail'[t]) = Len(mail[t]) + 1
          /\ mail'[t][Len(mail[t]) + 1] = up
        BY <1>3, <1>4, <3>1, Appended
    <3> QED
        BY <2>1, <3>1, <3>2
  <2>2. CASE t = activeWindow
    <3>1. t # window /\ mail'[t] = Append(mail[t], off)
        BY <1>1, <1>2, <2>2
    <3>2. /\ Longer(mail[t], mail'[t]) /\ Len(mail'[t]) = Len(mail[t]) + 1
          /\ mail'[t][Len(mail[t]) + 1] = off
        BY <1>3, <1>4, <3>1, Appended
    <3> QED
        BY <2>2, <3>1, <3>2
  <2>3. CASE t \notin {window, activeWindow}
    <3>1. mail'[t] = mail[t] /\ Len(mail[t]) \in Nat
        BY <1>2, <1>4, <2>3 DEF Mail
    <3> QED
        BY <1>4, <2>3, <3>1 DEF Longer
  <2> QED
    BY <2>1, <2>2, <2>3
<1>7. ASSUME NEW t \in Surface, t = activeWindow
      PROVE  Followed(mail'[t]) /\ Pending(mail'[t], "deactivated")
  <2> DEFINE r == mail'[t]
  <2>1. Len(r) \in 1 .. Len(r) /\ r[Len(r)].what = "deactivated" /\ Len(r) \in Nat
    BY <1>1, <1>6, <1>5, <1>7, LongerKeeps
  <2> HIDE DEF r
  <2>2. \A i \in 1 .. Len(r) : r[i].what \in Downs \cup {"activated"} => i # Len(r)
    BY <2>1 DEF Downs
  <2>3. \A i \in 1 .. Len(r) : i # Len(r) => Len(r) > i
    BY <2>1
  <2>4. Followed(r)
    BY <2>1, <2>2, <2>3 DEF Followed
  <2> QED
    BY <2>1, <2>4 DEF Pending, r
<1>8. FollowInv'
  <2> SUFFICES ASSUME NEW t \in Surface, t # window
               PROVE  /\ Followed(mail'[t])
                      /\ fKeyboardFocus = t => Pending(mail'[t], "deactivated")
    BY <1>1 DEF FollowInv
  <2>1. CASE t = activeWindow
    BY <1>7, <2>1
  <2>2. CASE t # activeWindow
    BY <1>6, <2>2 DEF QueueInv, FollowInv
  <2> QED
    BY <2>1, <2>2
<1>9. CalmInv'
  <2> SUFFICES ASSUME Settled
               PROVE  /\ \A t \in Surface : t # window => ~Pending(mail'[t], "activated")
                      /\ window \in Surface => /\ ~Pending(mail'[window], "deactivated")
                                               /\ Pending(mail'[window], "activated")
    BY <1>1 DEF CalmInv
  <2>1. \A t \in Surface : mail[t] = <<>> /\ Len(mail[t]) = 0
    BY DEF Settled
  <2>2. ASSUME NEW t \in Surface, t \in {window, activeWindow}
        PROVE  Len(mail'[t]) = 1 /\ mail'[t][1] = IF t = window THEN up ELSE off
    <3>1. Len(mail'[t]) = Len(mail[t]) + 1
        BY <1>6, <2>2
    <3>2. Len(mail'[t]) = 1
        BY <2>1, <3>1
    <3>3. mail'[t][Len(mail'[t])] = IF t = window THEN up ELSE off
        BY <1>6, <3>1
    <3> QED
        BY <3>2, <3>3
  <2>3. ASSUME NEW t \in Surface, t # window PROVE ~Pending(mail'[t], "activated")
    BY <1>6, <1>5, <2>1, <2>2, <2>3 DEF Pending
  <2>4. window \in Surface => /\ ~Pending(mail'[window], "deactivated")
                              /\ Pending(mail'[window], "activated")
    BY <1>5, <2>2 DEF Pending
  <2> QED
    BY <2>3, <2>4
<1>10. KeysInv'
  <2> SUFFICES ASSUME NEW t \in Surface PROVE KeysEnd(mail'[t], held) /\ Unmapped(mail'[t])
    BY <1>1 DEF KeysInv
  <2> DEFINE q == mail[t]
             r == mail'[t]
  <2>1. /\ Longer(q, r) /\ KeysEnd(q, held) /\ Unmapped(q)
        /\ Len(r) = Len(q) \/ (Len(r) = Len(q) + 1 /\ r[Len(r)] \in {up, off})
    BY <1>4, <1>6
  <2> HIDE DEF q, r
  <2>2. \A i \in 1 .. Len(r) : (i \in 1 .. Len(q) /\ r[i] = q[i]) \/ r[i] \in {up, off}
    BY <2>1, LongerKeeps DEF Longer
  <2>3. \A i \in 1 .. Len(r) : r[i].what \in Downs \cup {"unmappedDown", "unmappedUp"} =>
          i \in 1 .. Len(q) /\ r[i] = q[i]
    BY <1>5, <2>2 DEF Downs
  <2>4. KeysEnd(r, held)
    BY <2>1, <2>3, LongerKeeps DEF KeysEnd
  <2>5. Unmapped(r)
    BY <2>1, <2>3 DEF Unmapped
  <2> QED
    BY <2>4, <2>5 DEF r
<1>11. PressedInv'
  <2>1. ASSUME NEW c, NEW t \in Surface, PressedFor(c, mail[t], held) PROVE PressedFor(c, mail'[t], held)
    BY <1>6, <2>1, LongerKeeps DEF PressedFor
  <2> QED
    BY <1>1, <2>1 DEF QueueInv, PressedInv
<1> QED
    BY <1>8, <1>9, <1>10, <1>11 DEF QueueInv

LEMMA QueueInvariance == Spec => []QueueInv
<1>1. Init => QueueInv
  <2> SUFFICES ASSUME Init PROVE QueueInv
    OBVIOUS
  <2>1. \A t \in Surface : mail[t] = <<>> /\ Len(mail[t]) = 0
    BY DEF Init
  <2>2. activeWindow \notin Surface /\ fKeyboardFocus \notin Surface
    BY SurfaceAssumption DEF Init
  <2>3. FollowInv /\ CalmInv /\ KeysInv
    BY <2>1, <2>2 DEF FollowInv, CalmInv, KeysInv, Followed, KeysEnd, Unmapped, Pending
  <2>4. PressedInv
    BY DEF Init, PressedInv
  <2> QED
    BY <2>3, <2>4 DEF QueueInv
<1>2. IInv /\ QueueInv /\ [Next]_vars => QueueInv'
  <2> SUFFICES ASSUME IInv, QueueInv, [Next]_vars PROVE QueueInv'
    OBVIOUS
  <2>1. ASSUME NEW s \in Surface, DestroySurface(s) PROVE QueueInv'
    BY <2>1, DestroyKeeps
  <2>2. ASSUME NEW s \in Surface, NEW b \in BOOLEAN, WindowActivated(s, b) PROVE QueueInv'
    BY <2>2, ActivatedKeeps
  <2>3. ASSUME NEW s \in Surface, Stopped(s) PROVE QueueInv'
    BY <2>3, TakesKeeps DEF Stopped, KeyMessage, keyVars
  <2>4. ASSUME NEW s \in Surface, NEW b \in BOOLEAN, Started(s, b) PROVE QueueInv'
    <3> DEFINE what == IF b THEN "started" ELSE "startedMute"
    <3>1. Takes(s, what) /\ what \notin {"activated", "deactivated"} \cup KeyMessage
        BY <2>4 DEF Started, KeyMessage
    <3>2. UNCHANGED <<fKeyboardFocus, listeners, held, pressed, activeWindow, calm>>
        BY <2>4 DEF Started, keyVars
    <3> HIDE DEF what
    <3> QED
        BY <3>1, <3>2, TakesKeeps
  <2>5. ASSUME NEW s \in Surface, NEW b \in BOOLEAN, Changed(s, b) PROVE QueueInv'
    <3> DEFINE what == IF b THEN "confirmed" ELSE "changed"
    <3>1. Takes(s, what) /\ what \notin {"activated", "deactivated"} \cup KeyMessage
        BY <2>5 DEF Changed, KeyMessage
    <3>2. UNCHANGED <<fKeyboardFocus, listeners, held, pressed, activeWindow, calm>>
        BY <2>5 DEF Changed, keyVars
    <3> HIDE DEF what
    <3> QED
        BY <3>1, <3>2, TakesKeeps
  <2>6. ASSUME NEW s \in Surface, NEW what \in InputMethod, Ignored(s, what) PROVE QueueInv'
    BY <2>6, TakesKeeps DEF Ignored, InputMethod, KeyMessage, keyVars
  <2>7. ASSUME NEW s \in Surface, ModifiersChanged(s) PROVE QueueInv'
    BY <2>7, TakesKeeps DEF ModifiersChanged, KeyMessage
  <2>8. ASSUME NEW s \in Surface, NEW what \in KeyMessage, KeyEvent(s, what) PROVE QueueInv'
    BY <2>8, KeyEventKeeps
  <2>9. ASSUME NEW k \in Keyboard, HandleGetKeyboard(k) PROVE QueueInv'
    BY <2>9, StillKeeps DEF HandleGetKeyboard
  <2>10. ASSUME NEW k \in Keyboard, DestroyKeyboard(k) PROVE QueueInv'
    <3>1. \A other \in Keyboard : pressed'[other] = IF other = k THEN {} ELSE pressed[other]
        BY <2>10 DEF DestroyKeyboard, IInv, KeysTyped
    <3>2. listeners' = listeners \ {k}
        BY <2>10 DEF DestroyKeyboard, Unlisten
    <3>3. UNCHANGED <<fKeyboardFocus, held, mail, activeWindow, calm>>
        BY <2>10 DEF DestroyKeyboard, Unlisten
    <3> QED
        BY <3>1, <3>2, <3>3, StillKeeps
  <2>11. ASSUME NEW t \in TextInput, HandleGetTextInput(t) PROVE QueueInv'
    BY <2>11, StillKeeps DEF HandleGetTextInput, keyVars
  <2>12. ASSUME NEW t \in TextInput, DestroyTextInput(t) PROVE QueueInv'
    <3>1. \A k \in Keyboard : k \in listeners => k \in listeners'
        BY <2>12, ListenerAssumption DEF DestroyTextInput, Unlisten
    <3> QED
        BY <2>12, <3>1, StillKeeps DEF DestroyTextInput, Unlisten
  <2>13. ASSUME NEW t \in TextInput, HandleDisable(t) PROVE QueueInv'
    BY <2>13, StillKeeps DEF HandleDisable, keyVars
  <2>14. ASSUME NEW t \in TextInput, HandleCommit(t) PROVE QueueInv'
    BY <2>14, StillKeeps DEF HandleCommit, keyVars
  <2>15. ASSUME NEW window \in Surface \cup {NoSurface}, Activate(window) PROVE QueueInv'
    BY <2>15, ActivateKeeps
  <2>16. ASSUME NEW what \in InputMethod, Compose(what) PROVE QueueInv'
    <3> DEFINE more == <<[what |-> what]>>
    <3>1. more \in Mail /\ Len(more) = 1 /\ more[1].what = what
        BY DEF Mail, Message
    <3>2. /\ what \notin {"activated", "deactivated"} \cup Downs
          /\ what \notin {"unmappedDown", "unmappedUp"}
        BY DEF InputMethod, Downs
    <3>3. Posted(more) /\ UNCHANGED <<fKeyboardFocus, listeners, held, pressed, activeWindow, calm>>
        BY <2>16 DEF Compose, keyVars
    <3> HIDE DEF more
    <3>4. Unmapped(more) /\ (\A w \in {"activated", "deactivated"} : ~Pending(more, w))
        BY <3>1, <3>2 DEF Unmapped, Pending
    <3>5. \A i \in 1 .. Len(more) : more[i].what \in Downs => more[i].key \in held'
        BY <3>1, <3>2
    <3> QED
        BY <3>1, <3>3, <3>4, <3>5, PostKeeps
  <2>17. CASE KeymapLoaded
    BY <2>17, StillKeeps DEF KeymapLoaded
  <2>18. ASSUME NEW key \in Key, Type(key) PROVE QueueInv'
    <3> DEFINE what == IF key \in held THEN "keyUp" ELSE "keyDown"
               more == <<[what |-> what, key |-> key]>>
    <3>1. more \in Mail /\ Len(more) = 1 /\ more[1].what = what /\ more[1].key = key
      <4>1. [what |-> what, key |-> key] \in Message
        BY DEF Message, KeyMessage
      <4> QED
        BY <4>1 DEF Mail
    <3>2. /\ held' = IF key \in held THEN held \ {key} ELSE held \cup {key}
          /\ Posted(more)
          /\ UNCHANGED <<fKeyboardFocus, listeners, pressed, activeWindow, calm>>
        BY <2>18 DEF Type
    <3>3. /\ key \in held => what \in Ups
          /\ what \in Downs => key \notin held
          /\ what \notin {"activated", "deactivated", "unmappedDown", "unmappedUp"}
        BY DEF Ups, Downs
    <3> HIDE DEF what, more
    <3>4. Unmapped(more) /\ (\A w \in {"activated", "deactivated"} : ~Pending(more, w))
        BY <3>1, <3>3 DEF Unmapped, Pending
    <3>5. \A other : other \in held => other \in held' \/ LeftAfter(more, 0, other)
        BY <3>1, <3>2, <3>3 DEF LeftAfter
    <3>6. \A i \in 1 .. Len(more) : more[i].what \in Downs => more[i].key \in held'
        BY <3>1, <3>2, <3>3
    <3> QED
        BY <3>1, <3>2, <3>4, <3>5, <3>6, PostKeeps
  <2>19. ASSUME NEW key \in Key, Modify(key) PROVE QueueInv'
    <3> DEFINE what == IF key \in held THEN "unmappedUp" ELSE "unmappedDown"
               mods == [what |-> "modifiersChanged", modifiers |-> modifiers']
               event == [what |-> what, key |-> key]
               more == <<mods, event>>
    <3>1. modifiers' \in SUBSET Modifier
        BY <2>19, KeyAssumption DEF Modify, Modifier
    <3>2. /\ more \in Mail /\ Len(more) = 2
          /\ more[1].what = "modifiersChanged"
          /\ more[2].what = what /\ more[2].key = key
      <4>1. mods \in Message /\ event \in Message
        BY <3>1 DEF Message, KeyMessage
      <4> QED
        BY <4>1 DEF Mail
    <3>3. /\ held' = IF key \in held THEN held \ {key} ELSE held \cup {key}
          /\ Posted(more)
          /\ UNCHANGED <<fKeyboardFocus, listeners, pressed, activeWindow, calm>>
        BY <2>19 DEF Modify
    <3>4. /\ key \in held => what \in Ups
          /\ what \in Downs => key \notin held
          /\ what \notin {"activated", "deactivated"}
          /\ "modifiersChanged" \notin Downs
        BY DEF Ups, Downs
    <3>5. IsModifierKey(key)
        BY <2>19, KeyAssumption DEF Modify
    <3> HIDE DEF what, more
    <3>6. Unmapped(more)
        BY <3>2, <3>5 DEF Unmapped
    <3>7. \A w \in {"activated", "deactivated"} : ~Pending(more, w)
        BY <3>2, <3>4 DEF Pending
    <3>8. \A other : other \in held => other \in held' \/ LeftAfter(more, 0, other)
        BY <3>2, <3>3, <3>4 DEF LeftAfter
    <3>9. \A i \in 1 .. Len(more) : more[i].what \in Downs => more[i].key \in held'
        BY <3>2, <3>3, <3>4
    <3> QED
        BY <3>2, <3>3, <3>6, <3>7, <3>8, <3>9, PostKeeps
  <2>20. CASE UNCHANGED vars
    BY <2>20, StillKeeps DEF vars, keyVars
  <2> QED
    BY <2>1, <2>2, <2>3, <2>4, <2>5, <2>6, <2>7, <2>8, <2>9, <2>10, <2>11, <2>12, <2>13, <2>14,
       <2>15, <2>16, <2>17, <2>18, <2>19, <2>20
       DEF Next
<1> QED
    BY <1>1, <1>2, Invariance, PTL DEF Spec
-----------------------------------------------------------------------------
(* The modifiers *)

(* The modifiers that a window in focus, or in focus once it is activated,  *)
(* will be told last.                                                       *)
LastModifiers(q, i) ==
    /\ q[i].what = "modifiersChanged"
    /\ \A j \in 1 .. Len(q) : i < j => q[j].what # "modifiersChanged"

Brings(q, focused, mods) ==
    \E i \in 1 .. Len(q) :
        /\ LastModifiers(q, i) /\ q[i].modifiers = mods
        /\ focused \/ \E j \in 1 .. Len(q) : j < i /\ q[j].what = "activated"

MasksCurrent == \A k \in Keyboards : mask[k] = FromHaikuModifiers(modifiers)

(* Since modifiers changed in the active window its queue brings the last   *)
(* ones, or they are what the keyboards were told.                          *)
MaskInv ==
    /\ modifiers \subseteq {ModifierOf[key] : key \in DOMAIN ModifierOf}
    /\ current => activeWindow \in Surface
    /\ calm /\ current =>
         \/ Brings(mail[activeWindow], fKeyboardFocus = activeWindow, modifiers)
         \/ /\ fKeyboardFocus = activeWindow /\ MasksCurrent
            /\ ~Pending(mail[activeWindow], "modifiersChanged")

(* What a queue brings when its first message is taken.                     *)
LEMMA RestBrings ==
    ASSUME NEW q \in Mail, q # <<>>, NEW focused \in BOOLEAN, NEW mods, Brings(q, focused, mods)
    PROVE  \/ /\ Brings(Tail(q), focused \/ Head(q).what = "activated", mods)
           \/ /\ Head(q).what = "modifiersChanged" /\ Head(q).modifiers = mods
              /\ focused /\ ~Pending(Tail(q), "modifiersChanged")
<1>1. PICK i \in 1 .. Len(q) :
        /\ LastModifiers(q, i) /\ q[i].modifiers = mods
        /\ focused \/ \E j \in 1 .. Len(q) : j < i /\ q[j].what = "activated"
    BY DEF Brings
<1>2. \A j \in 1 .. Len(Tail(q)) : i < j + 1 => Tail(q)[j].what # "modifiersChanged"
  <2> SUFFICES ASSUME NEW j \in 1 .. Len(Tail(q)), i < j + 1
               PROVE  Tail(q)[j].what # "modifiersChanged"
    OBVIOUS
  <2>1. j + 1 \in 1 .. Len(q) /\ Tail(q)[j] = q[j + 1]
    BY Rest
  <2> QED
    BY <1>1, <2>1 DEF LastModifiers
<1>3. CASE i = 1
  <2>1. focused
    BY <1>1, <1>3
  <2>2. ~Pending(Tail(q), "modifiersChanged")
    BY <1>2, <1>3 DEF Pending
  <2> QED
    BY <1>1, <1>3, <2>1, <2>2, Rest DEF LastModifiers
<1>4. CASE i # 1
  <2>1. i - 1 \in 1 .. Len(Tail(q)) /\ Tail(q)[i - 1] = q[i]
    BY <1>4, Rest
  <2>2. LastModifiers(Tail(q), i - 1) /\ Tail(q)[i - 1].modifiers = mods
    BY <1>1, <1>2, <2>1 DEF LastModifiers
  <2>3. ASSUME NEW j \in 1 .. Len(q), j < i, q[j].what = "activated"
        PROVE  \/ Head(q).what = "activated"
               \/ \E n \in 1 .. Len(Tail(q)) : n < i - 1 /\ Tail(q)[n].what = "activated"
    <3>1. CASE j = 1
        BY <2>3, <3>1, Rest
    <3>2. CASE j # 1
      <4>1. j - 1 \in 1 .. Len(Tail(q)) /\ Tail(q)[j - 1] = q[j] /\ j - 1 < i - 1
        BY <2>3, <3>2, Rest
      <4> QED
        BY <2>3, <4>1
    <3> QED
        BY <3>1, <3>2
  <2> QED
    BY <1>1, <2>1, <2>2, <2>3 DEF Brings
<1> QED
    BY <1>3, <1>4

(* Messages without modifiers change nothing about the last ones.           *)
LEMMA LongerBrings ==
    ASSUME NEW q \in Mail, NEW more \in Mail, ~Pending(more, "modifiersChanged"),
           NEW focused, NEW mods
    PROVE  /\ Brings(q, focused, mods) => Brings(q \o more, focused, mods)
           /\ Pending(q \o more, "modifiersChanged") => Pending(q, "modifiersChanged")
<1> DEFINE r == q \o more
<1>1. /\ Longer(q, r) /\ Len(r) = Len(q) + Len(more) /\ Len(q) \in Nat /\ Len(more) \in Nat
      /\ \A i \in 1 .. Len(more) : r[Len(q) + i] = more[i]
    BY Lengthened DEF Mail
<1> HIDE DEF r
<1>2. ASSUME NEW i \in 1 .. Len(r), r[i].what = "modifiersChanged"
      PROVE  i \in 1 .. Len(q) /\ q[i] = r[i]
  <2>1. CASE i <= Len(q)
    BY <1>1, <2>1 DEF Longer
  <2>2. CASE i > Len(q)
    <3>1. i - Len(q) \in 1 .. Len(more) /\ more[i - Len(q)] = r[i]
      <4>1. i - Len(q) \in 1 .. Len(more) /\ Len(q) + (i - Len(q)) = i
        BY <1>1, <2>2
      <4> QED
        BY <1>1, <4>1
    <3> QED
        BY <1>2, <3>1 DEF Pending
  <2> QED
    BY <1>1, <2>1, <2>2
<1>3. ASSUME Brings(q, focused, mods) PROVE Brings(r, focused, mods)
  <2>1. PICK i \in 1 .. Len(q) :
          /\ LastModifiers(q, i) /\ q[i].modifiers = mods
          /\ focused \/ \E j \in 1 .. Len(q) : j < i /\ q[j].what = "activated"
    BY <1>3 DEF Brings
  <2>2. /\ \A j \in 1 .. Len(q) : j \in 1 .. Len(r) /\ r[j] = q[j]
        /\ LastModifiers(r, i) /\ r[i].modifiers = mods
    <3>1. \A j \in 1 .. Len(q) : j \in 1 .. Len(r) /\ r[j] = q[j]
        BY <1>1 DEF Longer
    <3>2. LastModifiers(r, i)
        BY <1>2, <2>1, <3>1 DEF LastModifiers
    <3> QED
        BY <2>1, <3>1, <3>2
  <2> QED
    BY <2>1, <2>2 DEF Brings
<1>4. Pending(r, "modifiersChanged") => Pending(q, "modifiersChanged")
    BY <1>2 DEF Pending
<1> QED
    BY <1>3, <1>4 DEF r

(* Modifiers told to a window that has the focus or will get it.            *)
LEMMA AppendedBrings ==
    ASSUME NEW q \in Mail, NEW more \in Mail, Len(more) = 2, NEW mods,
           more[1].what = "modifiersChanged", more[1].modifiers = mods,
           more[2].what # "modifiersChanged", NEW focused,
           focused \/ Pending(q, "activated")
    PROVE  Brings(q \o more, focused, mods)
<1> DEFINE r == q \o more
<1>1. /\ Longer(q, r) /\ Len(r) = Len(q) + 2 /\ Len(q) \in Nat
      /\ r[Len(q) + 1] = more[1] /\ r[Len(q) + 2] = more[2]
    BY Lengthened DEF Mail
<1> HIDE DEF r
<1> DEFINE i == Len(q) + 1
<1>2. i \in 1 .. Len(r) /\ \A j \in 1 .. Len(r) : i < j => j = Len(q) + 2
    BY <1>1
<1>3. LastModifiers(r, i) /\ r[i].modifiers = mods
    BY <1>1, <1>2 DEF LastModifiers
<1>4. focused \/ \E j \in 1 .. Len(r) : j < i /\ r[j].what = "activated"
  <2> SUFFICES ASSUME Pending(q, "activated")
               PROVE  \E j \in 1 .. Len(r) : j < i /\ r[j].what = "activated"
    OBVIOUS
  <2>1. PICK j \in 1 .. Len(q) : q[j].what = "activated"
    BY DEF Pending
  <2>2. j \in 1 .. Len(r) /\ j < i /\ r[j] = q[j]
    BY <1>1 DEF Longer
  <2> QED
    BY <2>1, <2>2
<1> QED
    BY <1>2, <1>3, <1>4 DEF Brings, r

(* A step that leaves the queues and the user's modifiers alone.            *)
LEMMA MaskStill ==
    ASSUME MaskInv, UNCHANGED <<fKeyboardFocus, modifiers, current, mail, activeWindow, calm>>,
           \A k \in Keyboards' : \/ mask'[k] = FromHaikuModifiers(modifiers)
                                 \/ k \in Keyboards /\ mask'[k] = mask[k]
    PROVE  MaskInv'
<1>1. MasksCurrent => MasksCurrent'
    BY DEF MasksCurrent
<1> QED
    BY <1>1 DEF MaskInv

(* A handler that changes no focus and tells no modifiers.                  *)
LEMMA MaskTakes ==
    ASSUME IInv, MaskInv, NEW s \in Surface, NEW what, Takes(s, what),
           what \notin {"activated", "modifiersChanged"},
           UNCHANGED <<fKeyboardFocus, listeners, modifiers, mask, current, activeWindow, calm>>
    PROVE  MaskInv'
<1> SUFFICES ASSUME calm, current, activeWindow = s
             PROVE  \/ Brings(mail'[s], fKeyboardFocus = s, modifiers)
                    \/ /\ fKeyboardFocus = s /\ MasksCurrent'
                       /\ ~Pending(mail'[s], "modifiersChanged")
  <2>1. \A t \in Surface : t # s => mail'[t] = mail[t]
    BY DEF Takes, IInv, Typed
  <2>2. MasksCurrent' <=> MasksCurrent
    BY DEF MasksCurrent, Keyboards
  <2> QED
    BY <2>1, <2>2 DEF MaskInv
<1> DEFINE q == mail[s]
<1>1. q \in Mail /\ q # <<>> /\ Head(q).what = what /\ mail'[s] = Tail(q)
    BY QueueTyped DEF Takes, IInv, Typed
<1>2. MasksCurrent' <=> MasksCurrent
    BY DEF MasksCurrent, Keyboards
<1> HIDE DEF q
<1>3. CASE Brings(q, fKeyboardFocus = s, modifiers)
  <2> DEFINE focused == fKeyboardFocus = s
  <2>1. focused \in BOOLEAN /\ Brings(q, focused, modifiers)
    BY <1>3
  <2> HIDE DEF focused
  <2>2. Brings(Tail(q), focused, modifiers)
    BY <1>1, <2>1, RestBrings
  <2> QED
    BY <1>1, <2>2 DEF focused
<1>4. CASE fKeyboardFocus = s /\ MasksCurrent /\ ~Pending(q, "modifiersChanged")
    BY <1>1, <1>2, <1>4, RestPending
<1> QED
    BY <1>3, <1>4 DEF MaskInv, q

LEMMA MaskActivated ==
    ASSUME IInv, QueueInv, MaskInv, NEW s \in Surface, NEW active \in BOOLEAN,
           WindowActivated(s, active)
    PROVE  MaskInv'
<1> DEFINE q == mail[s]
           what == IF active THEN "activated" ELSE "deactivated"
<1>1. q \in Mail /\ q # <<>> /\ Head(q).what = what
    BY QueueTyped DEF WindowActivated, Takes, IInv
<1>2. \A t \in Surface : mail'[t] = IF t = s THEN Tail(q) ELSE mail[t]
    BY DEF WindowActivated, Takes, IInv, Typed
<1>3. UNCHANGED <<listeners, modifiers, mask, current, activeWindow, calm>>
    BY DEF WindowActivated
<1>4. /\ active => fKeyboardFocus' = s
      /\ ~active => fKeyboardFocus' = IF fKeyboardFocus = s THEN NoSurface ELSE fKeyboardFocus
    BY DEF WindowActivated, SetKeyboardFocus, SetFocus
<1>5. Pending(q, what)
    BY <1>1, Rest DEF Pending
<1> HIDE DEF q
<1> SUFFICES ASSUME calm, current
             PROVE  \/ Brings(mail'[activeWindow], fKeyboardFocus' = activeWindow, modifiers)
                    \/ /\ fKeyboardFocus' = activeWindow /\ MasksCurrent'
                       /\ ~Pending(mail'[activeWindow], "modifiersChanged")
    BY <1>3 DEF MaskInv
<1>6. activeWindow \in Surface
    BY DEF MaskInv
<1>7. /\ \A t \in Surface : t # activeWindow => ~Pending(mail[t], "activated")
      /\ ~Pending(mail[activeWindow], "deactivated")
    BY <1>6 DEF QueueInv, CalmInv
<1>8. MasksCurrent' <=> MasksCurrent
    BY <1>3 DEF MasksCurrent, Keyboards
<1>9. CASE active
  <2>1. s = activeWindow /\ fKeyboardFocus' = activeWindow /\ mail'[s] = Tail(q)
    BY <1>2, <1>4, <1>5, <1>7, <1>9 DEF q
  <2>2. CASE Brings(q, fKeyboardFocus = activeWindow, modifiers)
    <3>1. Brings(Tail(q), TRUE, modifiers)
        BY <1>1, <1>9, <2>2, RestBrings DEF Brings
    <3> QED
        BY <2>1, <3>1
  <2>3. CASE MasksCurrent /\ ~Pending(q, "modifiersChanged")
    BY <1>1, <1>8, <2>1, <2>3, RestPending
  <2> QED
    BY <2>1, <2>2, <2>3 DEF MaskInv, q
<1>10. CASE ~active
  <2>1. s # activeWindow
    BY <1>5, <1>7, <1>10 DEF q
  <2>2. mail'[activeWindow] = mail[activeWindow]
    BY <1>2, <1>6, <2>1
  <2>3. NoSurface # activeWindow
    BY <1>6, SurfaceAssumption
  <2>4. (fKeyboardFocus' = activeWindow) = (fKeyboardFocus = activeWindow)
    BY <1>4, <1>10, <2>1, <2>3
  <2> QED
    BY <1>8, <2>2, <2>4 DEF MaskInv
<1> QED
    BY <1>9, <1>10

LEMMA MaskDestroyed ==
    ASSUME IInv, MaskInv, NEW s \in Surface, DestroySurface(s) PROVE MaskInv'
<1>1. /\ UNCHANGED <<listeners, modifiers, mask, calm>>
      /\ activeWindow' = IF activeWindow = s THEN NoSurface ELSE activeWindow
      /\ fKeyboardFocus' = IF fKeyboardFocus = s THEN NoSurface ELSE fKeyboardFocus
      /\ current' => current /\ activeWindow' = activeWindow
    BY DEF DestroySurface, SetKeyboardFocus, SetFocus
<1>2. \A t \in Surface : t # s => mail'[t] = mail[t]
    BY DEF DestroySurface, IInv, Typed
<1>3. current' => activeWindow \in Surface /\ activeWindow # s /\ activeWindow' = activeWindow
    BY <1>1, SurfaceAssumption DEF MaskInv
<1>4. current' => (fKeyboardFocus' = activeWindow) = (fKeyboardFocus = activeWindow)
    BY <1>1, <1>3, SurfaceAssumption
<1>5. MasksCurrent' <=> MasksCurrent
    BY <1>1 DEF MasksCurrent, Keyboards
<1> QED
    BY <1>1, <1>2, <1>3, <1>4, <1>5 DEF MaskInv

LEMMA MaskChanged ==
    ASSUME IInv, QueueInv, MaskInv, NEW s \in Surface, ModifiersChanged(s) PROVE MaskInv'
<1> DEFINE q == mail[s]
<1>1. q \in Mail /\ q # <<>> /\ Head(q).what = "modifiersChanged"
    BY QueueTyped DEF ModifiersChanged, Takes, IInv
<1>2. \A t \in Surface : mail'[t] = IF t = s THEN Tail(q) ELSE mail[t]
    BY DEF ModifiersChanged, Takes, IInv, Typed
<1>3. UNCHANGED <<fKeyboardFocus, listeners, modifiers, current, activeWindow, calm>>
    BY DEF ModifiersChanged
<1>4. IF fKeyboardFocus = s THEN SendModifiers(listeners, Head(q).modifiers) ELSE UNCHANGED mask
    BY DEF ModifiersChanged
<1>5. Pending(q, "modifiersChanged")
    BY <1>1, Rest DEF Pending
<1> HIDE DEF q
<1> SUFFICES ASSUME calm, current
             PROVE  \/ Brings(mail'[activeWindow], fKeyboardFocus = activeWindow, modifiers)
                    \/ /\ fKeyboardFocus = activeWindow /\ MasksCurrent'
                       /\ ~Pending(mail'[activeWindow], "modifiersChanged")
    BY <1>3 DEF MaskInv
<1>6. activeWindow \in Surface
    BY DEF MaskInv
<1>7. CASE s # activeWindow
  <2>1. fKeyboardFocus = activeWindow => (MasksCurrent' <=> MasksCurrent)
    BY <1>3, <1>4, <1>7 DEF MasksCurrent, Keyboards
  <2> QED
    BY <1>2, <1>6, <1>7, <2>1 DEF MaskInv
<1>8. CASE s = activeWindow
  <2>1. Brings(q, fKeyboardFocus = s, modifiers)
    BY <1>5, <1>8 DEF MaskInv, q
  <2>2. CASE Brings(Tail(q), fKeyboardFocus = s, modifiers)
    BY <1>2, <1>8, <2>2
  <2>3. CASE /\ Head(q).modifiers = modifiers /\ fKeyboardFocus = s
             /\ ~Pending(Tail(q), "modifiersChanged")
    <3>1. \A k \in Keyboards : mask'[k] = FromHaikuModifiers(modifiers)
        BY <1>4, <2>3 DEF SendModifiers, Keyboards
    <3>2. MasksCurrent'
        BY <1>3, <3>1 DEF MasksCurrent, Keyboards
    <3> QED
        BY <1>2, <1>8, <2>3, <3>2
  <2>4. (fKeyboardFocus = s \/ Head(q).what = "activated") = (fKeyboardFocus = s)
    BY <1>1
  <2> QED
    BY <1>1, <2>1, <2>2, <2>3, <2>4, RestBrings
<1> QED
    BY <1>7, <1>8

(* Messages other than modifiers are posted.                                *)
LEMMA MaskPosted ==
    ASSUME IInv, MaskInv, NEW more \in Mail, Posted(more), ~Pending(more, "modifiersChanged"),
           UNCHANGED <<fKeyboardFocus, listeners, modifiers, mask, current, activeWindow, calm>>
    PROVE  MaskInv'
<1> SUFFICES ASSUME calm, current
             PROVE  \/ Brings(mail'[activeWindow], fKeyboardFocus = activeWindow, modifiers)
                    \/ /\ fKeyboardFocus = activeWindow /\ MasksCurrent'
                       /\ ~Pending(mail'[activeWindow], "modifiersChanged")
    BY DEF MaskInv
<1>1. activeWindow \in Surface
    BY DEF MaskInv
<1>2. mail[activeWindow] \in Mail /\ mail'[activeWindow] = mail[activeWindow] \o more
    BY <1>1, QueueTyped DEF Posted, IInv
<1>3. MasksCurrent' <=> MasksCurrent
    BY DEF MasksCurrent, Keyboards
<1>4. /\ Brings(mail[activeWindow], fKeyboardFocus = activeWindow, modifiers) =>
           Brings(mail'[activeWindow], fKeyboardFocus = activeWindow, modifiers)
      /\ Pending(mail'[activeWindow], "modifiersChanged") =>
           Pending(mail[activeWindow], "modifiersChanged")
    BY <1>2, LongerBrings
<1> QED
    BY <1>3, <1>4 DEF MaskInv

LEMMA MaskModified ==
    ASSUME IInv, QueueInv, MaskInv, NEW key \in Key, Modify(key) PROVE MaskInv'
<1> DEFINE what == IF key \in held THEN "unmappedUp" ELSE "unmappedDown"
           mods == [what |-> "modifiersChanged", modifiers |-> modifiers']
           event == [what |-> what, key |-> key]
           more == <<mods, event>>
<1>1. /\ modifiers' \in SUBSET Modifier
      /\ modifiers' \subseteq {ModifierOf[other] : other \in DOMAIN ModifierOf}
    BY KeyAssumption DEF Modify, Modifier
<1>2. /\ more \in Mail /\ Len(more) = 2
      /\ more[1].what = "modifiersChanged" /\ more[1].modifiers = modifiers'
      /\ more[2].what # "modifiersChanged"
  <2>1. mods \in Message /\ event \in Message
    BY <1>1 DEF Message, KeyMessage
  <2> QED
    BY <2>1 DEF Mail
<1>3. /\ Posted(more) /\ current' = (activeWindow # NoSurface)
      /\ UNCHANGED <<fKeyboardFocus, activeWindow, calm>>
    BY DEF Modify
<1> HIDE DEF more
<1>4. current' => activeWindow \in Surface
    BY <1>3 DEF IInv, Typed
<1>5. ASSUME calm, current'
      PROVE  Brings(mail'[activeWindow], fKeyboardFocus = activeWindow, modifiers')
  <2>1. mail[activeWindow] \in Mail /\ mail'[activeWindow] = mail[activeWindow] \o more
    BY <1>3, <1>4, <1>5, QueueTyped DEF Posted, IInv
  <2>2. fKeyboardFocus = activeWindow \/ Pending(mail[activeWindow], "activated")
    BY <1>4, <1>5 DEF QueueInv, CalmInv
  <2> QED
    BY <1>2, <2>1, <2>2, AppendedBrings
<1> QED
    BY <1>1, <1>3, <1>4, <1>5 DEF MaskInv

LEMMA MaskInvariance == Spec => []MaskInv
<1>1. Init => MaskInv
    BY DEF Init, MaskInv
<1>2. IInv /\ QueueInv /\ MaskInv /\ [Next]_vars => MaskInv'
  <2> SUFFICES ASSUME IInv, QueueInv, MaskInv, [Next]_vars PROVE MaskInv'
    OBVIOUS
  <2>1. ASSUME NEW s \in Surface, DestroySurface(s) PROVE MaskInv'
    BY <2>1, MaskDestroyed
  <2>2. ASSUME NEW s \in Surface, NEW b \in BOOLEAN, WindowActivated(s, b) PROVE MaskInv'
    BY <2>2, MaskActivated
  <2>3. ASSUME NEW s \in Surface, Stopped(s) PROVE MaskInv'
    BY <2>3, MaskTakes DEF Stopped, keyVars
  <2>4. ASSUME NEW s \in Surface, NEW b \in BOOLEAN, Started(s, b) PROVE MaskInv'
    <3> DEFINE what == IF b THEN "started" ELSE "startedMute"
    <3>1. Takes(s, what) /\ what \notin {"activated", "modifiersChanged"}
        BY <2>4 DEF Started
    <3>2. UNCHANGED <<fKeyboardFocus, listeners, modifiers, mask, current, activeWindow, calm>>
        BY <2>4 DEF Started, keyVars
    <3> HIDE DEF what
    <3> QED
        BY <3>1, <3>2, MaskTakes
  <2>5. ASSUME NEW s \in Surface, NEW b \in BOOLEAN, Changed(s, b) PROVE MaskInv'
    <3> DEFINE what == IF b THEN "confirmed" ELSE "changed"
    <3>1. Takes(s, what) /\ what \notin {"activated", "modifiersChanged"}
        BY <2>5 DEF Changed
    <3>2. UNCHANGED <<fKeyboardFocus, listeners, modifiers, mask, current, activeWindow, calm>>
        BY <2>5 DEF Changed, keyVars
    <3> HIDE DEF what
    <3> QED
        BY <3>1, <3>2, MaskTakes
  <2>6. ASSUME NEW s \in Surface, NEW what \in InputMethod, Ignored(s, what) PROVE MaskInv'
    BY <2>6, MaskTakes DEF Ignored, InputMethod, keyVars
  <2>7. ASSUME NEW s \in Surface, ModifiersChanged(s) PROVE MaskInv'
    BY <2>7, MaskChanged
  <2>8. ASSUME NEW s \in Surface, NEW what \in KeyMessage, KeyEvent(s, what) PROVE MaskInv'
    BY <2>8, MaskTakes DEF KeyEvent, KeyMessage
  <2>9. ASSUME NEW k \in Keyboard, HandleGetKeyboard(k) PROVE MaskInv'
    <3>1. \A other \in Keyboards' : mask'[other] = FromHaikuModifiers(modifiers)
        BY <2>9 DEF HandleGetKeyboard, UpdateKeymap, SendModifiers, Keyboards
    <3>2. UNCHANGED <<fKeyboardFocus, modifiers, current, mail, activeWindow, calm>>
        BY <2>9 DEF HandleGetKeyboard
    <3> QED
        BY <3>1, <3>2, MaskStill
  <2>10. ASSUME NEW k \in Keyboard, DestroyKeyboard(k) PROVE MaskInv'
    <3>1. \A other \in Keyboard : other # k => mask'[other] = mask[other]
        BY <2>10 DEF DestroyKeyboard, IInv, KeysTyped
    <3>2. \A other \in Keyboards' : other \in Keyboards /\ other # k
        BY <2>10 DEF DestroyKeyboard, Unlisten, Keyboards
    <3>3. UNCHANGED <<fKeyboardFocus, modifiers, current, mail, activeWindow, calm>>
        BY <2>10 DEF DestroyKeyboard, Unlisten
    <3> QED
        BY <3>1, <3>2, <3>3, MaskStill DEF Keyboards
  <2>11. ASSUME NEW t \in TextInput, HandleGetTextInput(t) PROVE MaskInv'
    <3>1. Keyboards' = Keyboards
        BY <2>11, ListenerAssumption DEF HandleGetTextInput, Keyboards
    <3> QED
        BY <2>11, <3>1, MaskStill DEF HandleGetTextInput, keyVars
  <2>12. ASSUME NEW t \in TextInput, DestroyTextInput(t) PROVE MaskInv'
    <3>1. Keyboards' = Keyboards
        BY <2>12, ListenerAssumption DEF DestroyTextInput, Unlisten, Keyboards
    <3> QED
        BY <2>12, <3>1, MaskStill DEF DestroyTextInput, Unlisten
  <2>13. ASSUME NEW t \in TextInput, HandleDisable(t) \/ HandleCommit(t) PROVE MaskInv'
    BY <2>13, MaskStill DEF HandleDisable, HandleCommit, keyVars, Keyboards
  <2>14. ASSUME NEW window \in Surface \cup {NoSurface}, Activate(window) PROVE MaskInv'
    BY <2>14 DEF Activate, MaskInv
  <2>15. ASSUME NEW what \in InputMethod, Compose(what) PROVE MaskInv'
    <3> DEFINE more == <<[what |-> what]>>
    <3>1. more \in Mail /\ ~Pending(more, "modifiersChanged")
        BY DEF Mail, Message, Pending, InputMethod
    <3>2. /\ Posted(more)
          /\ UNCHANGED <<fKeyboardFocus, listeners, modifiers, mask, current, activeWindow, calm>>
        BY <2>15 DEF Compose, keyVars
    <3> HIDE DEF more
    <3> QED
        BY <3>1, <3>2, MaskPosted
  <2>16. CASE KeymapLoaded
    <3>1. \A k \in Keyboards' : mask'[k] = FromHaikuModifiers(modifiers)
        BY <2>16 DEF KeymapLoaded, UpdateKeymap, SendModifiers, Keyboards
    <3> QED
        BY <2>16, <3>1, MaskStill DEF KeymapLoaded
  <2>17. ASSUME NEW key \in Key, Type(key) PROVE MaskInv'
    <3> DEFINE what == IF key \in held THEN "keyUp" ELSE "keyDown"
               more == <<[what |-> what, key |-> key]>>
    <3>1. more \in Mail /\ ~Pending(more, "modifiersChanged")
      <4>1. [what |-> what, key |-> key] \in Message
        BY DEF Message, KeyMessage
      <4> QED
        BY <4>1 DEF Mail, Pending
    <3>2. /\ Posted(more)
          /\ UNCHANGED <<fKeyboardFocus, listeners, modifiers, mask, current, activeWindow, calm>>
        BY <2>17 DEF Type
    <3> HIDE DEF more
    <3> QED
        BY <3>1, <3>2, MaskPosted
  <2>18. ASSUME NEW key \in Key, Modify(key) PROVE MaskInv'
    BY <2>18, MaskModified
  <2>19. CASE UNCHANGED vars
    BY <2>19, MaskStill DEF vars, keyVars, Keyboards
  <2> QED
    BY <2>1, <2>2, <2>3, <2>4, <2>5, <2>6, <2>7, <2>8, <2>9, <2>10, <2>11, <2>12, <2>13, <2>14,
       <2>15, <2>16, <2>17, <2>18, <2>19
       DEF Next
<1> QED
    BY <1>1, <1>2, Invariance, QueueInvariance, PTL DEF Spec
-----------------------------------------------------------------------------
(* The keymap *)

(* No two keys of Haiku have one evdev code. *)
LEMMA CodesDiffer ==
    ASSUME NEW key \in HaikuKey, NEW other \in HaikuKey,
           FromHaikuKeyCode(key) + 8 = FromHaikuKeyCode(other) + 8
    PROVE  key = other
<1>1. \A k \in HaikuKey : KeyCodes[k] \in Nat
    BY DEF KeyCodes, HaikuKey
<1>2. KeyCodes[key] = KeyCodes[other]
    BY <1>1 DEF FromHaikuKeyCode
<1> QED
    BY <1>2, SMTT(30) DEF KeyCodes, HaikuKey

(* So no statement of the keymap is replaced by another one. *)
LEMMA StatementStands ==
    ASSUME NEW key \in HaikuKey PROVE Symbols[FromHaikuKeyCode(key) + 8] = Statement(key)
<1> DEFINE code == FromHaikuKeyCode(key) + 8
           Last(k) == /\ FromHaikuKeyCode(k) + 8 = code
                      /\ \A other \in HaikuKey : FromHaikuKeyCode(other) + 8 = code => other <= k
<1>1. Symbols[code] = Statement(CHOOSE k \in HaikuKey : Last(k))
    BY DEF Symbols
<1>2. key <= key
    BY DEF HaikuKey
<1>3. Last(key)
  <2>1. ASSUME NEW other \in HaikuKey, FromHaikuKeyCode(other) + 8 = code PROVE other <= key
    BY <1>2, <2>1, CodesDiffer
  <2> QED
    BY <2>1
<1>4. \A k \in HaikuKey : Last(k) => k = key
    BY CodesDiffer
<1> HIDE DEF Last
<1>5. (CHOOSE k \in HaikuKey : Last(k)) = key
    BY <1>3, <1>4
<1> QED
    BY <1>1, <1>5

(* The bits by which a client chooses a level. *)
LEMMA MaskBits ==
    ASSUME NEW mods \in SUBSET DOMAIN BitsOf
    PROVE  /\ 0 \in FromHaikuModifiers(mods) <=> "B_SHIFT_KEY" \in mods
           /\ 7 \in FromHaikuModifiers(mods) <=> "B_OPTION_KEY" \in mods
<1>1. \A m \in DOMAIN BitsOf : /\ 0 \in BitsOf[m] <=> m = "B_SHIFT_KEY"
                               /\ 7 \in BitsOf[m] <=> m = "B_OPTION_KEY"
    BY DEF BitsOf
<1>2. \A n : n \in FromHaikuModifiers(mods) <=> \E m \in mods : n \in BitsOf[m]
    BY DEF FromHaikuModifiers
<1> QED
    BY <1>1, <1>2

LEMMA ClientFindsSymbol ==
    ASSUME NEW key \in HaikuKey, NEW mods \in SUBSET DOMAIN BitsOf,
           "B_CAPS_LOCK" \notin mods, ~IsNumpadDigitKey(key), ~IsNumpadOperatorKey(key)
    PROVE  ClientSymbol(FromHaikuKeyCode(key), FromHaikuModifiers(mods))
             = HaikuSymbol(key, mods)
<1> DEFINE bits == FromHaikuModifiers(mods)
           level == Level("FOUR_LEVEL", bits)
<1>1. ClientSymbol(FromHaikuKeyCode(key), bits)
        = WriteSymbol(key, GetOffsetForLevel(key, Levels[level]))
  <2>1. level \in 1 .. 4
    BY DEF Level
  <2> HIDE DEF level
  <2>2. /\ Statement(key).type = "FOUR_LEVEL"
        /\ Statement(key).symbols[level] = WriteSymbol(key, GetOffsetForLevel(key, Levels[level]))
    BY <2>1 DEF Statement
  <2>3. ClientSymbol(FromHaikuKeyCode(key), bits)
          = Statement(key).symbols[Level(Statement(key).type, bits)]
    BY StatementStands DEF ClientSymbol
  <2> QED
    BY <2>2, <2>3 DEF level
<1>2. TableOf[Levels[level] + 1]
        = mods \cap {"B_SHIFT_KEY", "B_CAPS_LOCK", "B_OPTION_KEY"}
  <2>1. /\ 0 \in bits <=> "B_SHIFT_KEY" \in mods
        /\ 7 \in bits <=> "B_OPTION_KEY" \in mods
    BY MaskBits
  <2> HIDE DEF bits
  <2>2. CASE 0 \in bits /\ 7 \in bits
    <3>1. level = 4 /\ Levels[4] + 1 = 6 /\ TableOf[6] = {"B_OPTION_KEY", "B_SHIFT_KEY"}
        BY <2>2 DEF Level, Levels, TableOf
    <3> HIDE DEF level
    <3> QED
        BY <2>1, <2>2, <3>1
  <2>3. CASE 0 \notin bits /\ 7 \in bits
    <3>1. level = 3 /\ Levels[3] + 1 = 5 /\ TableOf[5] = {"B_OPTION_KEY"}
        BY <2>3 DEF Level, Levels, TableOf
    <3> HIDE DEF level
    <3> QED
        BY <2>1, <2>3, <3>1
  <2>4. CASE 0 \in bits /\ 7 \notin bits
    <3>1. level = 2 /\ Levels[2] + 1 = 2 /\ TableOf[2] = {"B_SHIFT_KEY"}
        BY <2>4 DEF Level, Levels, TableOf
    <3> HIDE DEF level
    <3> QED
        BY <2>1, <2>4, <3>1
  <2>5. CASE 0 \notin bits /\ 7 \notin bits
    <3>1. level = 1 /\ Levels[1] + 1 = 1 /\ TableOf[1] = {}
        BY <2>5 DEF Level, Levels, TableOf
    <3> HIDE DEF level
    <3> QED
        BY <2>1, <2>5, <3>1
  <2> QED
    BY <2>2, <2>3, <2>4, <2>5
<1> QED
    BY <1>1, <1>2 DEF WriteSymbol, GetOffsetForLevel, HaikuSymbol
-----------------------------------------------------------------------------
(* Type correctness, for any sets of windows and listeners.                 *)
THEOREM TypeCorrect == Spec => []TypeOK
<1>1. IInv => TypeOK
    BY DEF IInv, Typed, KeysTyped, Codes, Masks, Mail, TypeOK
<1> QED
    BY <1>1, Invariance, PTL

(* Keyboards and text inputs were told to enter the surface in focus, or    *)
(* they came later and were told nothing.                                   *)
THEOREM EnterAndLeavePair == Spec => []FocusTold
<1>1. IInv => FocusTold
    BY DEF IInv
<1> QED
    BY <1>1, Invariance, PTL

(* No confirmed string is committed twice to a text input, or lost by one.  *)
THEOREM StringsCommittedOnce == Spec => []CommittedOnce
<1>1. IInv => CommittedOnce
    BY DEF IInv
<1> QED
    BY <1>1, Invariance, PTL

(* One activation that found the ones before it handled gives the focus to  *)
(* the window it activates, however the threads of the windows interleave.  *)
THEOREM FocusIsActive == Spec => []FocusFollowsActivation
<1>1. IInv /\ QueueInv => FocusFollowsActivation
  <2> SUFFICES ASSUME IInv, QueueInv, Settled, calm PROVE fKeyboardFocus = activeWindow
    BY DEF FocusFollowsActivation
  <2>1. \A s \in Surface : \A what : ~Pending(mail[s], what)
    BY DEF Settled, Pending
  <2>2. fKeyboardFocus \in Surface => fKeyboardFocus = activeWindow
    BY <2>1 DEF QueueInv, FollowInv
  <2>3. activeWindow \in Surface => fKeyboardFocus = activeWindow
    BY <2>1 DEF QueueInv, CalmInv
  <2> QED
    BY <2>2, <2>3 DEF IInv, Typed
<1> QED
    BY <1>1, Invariance, QueueInvariance, PTL

(* No client is left with a key pressed that is not, for any sets of keys,  *)
(* windows and keyboards.                                                   *)
THEOREM NoKeySticks == Spec => []NoStuckKey
<1>1. QueueInv => NoStuckKey
  <2> SUFFICES ASSUME QueueInv, Settled, NEW k \in Keyboards, NEW c \in pressed[k]
               PROVE  c \in {FromHaikuKeyCode(key) : key \in held}
    BY DEF NoStuckKey
  <2>1. PressedFor(c, mail[fKeyboardFocus], held) /\ fKeyboardFocus \in Surface
    BY DEF QueueInv, PressedInv, Keyboards
  <2>2. \A key : ~LeftAfter(mail[fKeyboardFocus], 0, key)
    BY <2>1 DEF Settled, LeftAfter
  <2> QED
    BY <2>1, <2>2 DEF PressedFor
<1> QED
    BY <1>1, QueueInvariance, PTL

(* In the active window, once modifiers have changed there and activations  *)
(* came one at a time, every keyboard finds for every key outside the       *)
(* keypad what Haiku's tables have: for any keys that modify but caps lock, *)
(* and whenever keyboards come and keymaps are loaded.                      *)
THEOREM ClientsFindSymbols ==
    ASSUME \A key \in DOMAIN ModifierOf : ModifierOf[key] # "B_CAPS_LOCK"
    PROVE  Spec => []SymbolsAgree
<1>1. IInv /\ MaskInv => SymbolsAgree
  <2> SUFFICES ASSUME IInv, MaskInv, Settled, calm, current, fKeyboardFocus = activeWindow,
                      NEW k \in Keyboards, NEW key \in HaikuKey,
                      ~IsNumpadDigitKey(key), ~IsNumpadOperatorKey(key)
               PROVE  ClientSymbol(FromHaikuKeyCode(key), mask[k]) = HaikuSymbol(key, modifiers)
    BY DEF SymbolsAgree
  <2>1. activeWindow \in Surface /\ mail[activeWindow] = <<>>
    BY DEF MaskInv, Settled
  <2>2. MasksCurrent
    BY <2>1 DEF MaskInv, Brings
  <2>3. modifiers \in SUBSET DOMAIN BitsOf /\ "B_CAPS_LOCK" \notin modifiers
    BY DEF MaskInv, IInv, KeysTyped, Modifier
  <2> QED
    BY <2>2, <2>3, ClientFindsSymbol DEF MasksCurrent
<1> QED
    BY <1>1, Invariance, MaskInvariance, PTL
=============================================================================
