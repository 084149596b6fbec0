----------------------- MODULE FrameCallbacks_proofs ------------------------
(***************************************************************************)
(* Proofs about FrameCallbacks for every set of callbacks: the env of Draw *)
(* keeps the window from the list during a commit, and until the threads   *)
(* meet there both lists are the queues they should be.                    *)
(***************************************************************************)
EXTENDS FrameCallbacks, SequenceTheorems, TLAPS

AtList == server \notin {"idle", "finish"}
Walking == window \notin {"idle", "opening"}

(* Who works under the server's lock has it. *)
LockInv ==
    /\ server # "idle" => lock = "server"
    /\ fFramerateLimitDisabled /\ Walking => lock = "window"

(* Unless they met, one thread at most is at the committed list. *)
ApartInv ==
    /\ ~raced => ~(AtList /\ Walking)
    /\ raced => ~fFramerateLimitDisabled

(* The callbacks of both queues exist, each once. *)
QueuesInv ==
    /\ \A i \in 1 .. Len(asked) : asked[i] \in alive
    /\ \A i \in 1 .. Len(committed) : committed[i] \in alive
    /\ \A i, j \in 1 .. Len(asked) : asked[i] = asked[j] => i = j
    /\ \A i, j \in 1 .. Len(committed) : committed[i] = committed[j] => i = j
    /\ \A i \in 1 .. Len(asked), j \in 1 .. Len(committed) : asked[i] # committed[j]

(* The links of q, which has `before` and `after` beside it. *)
Linked(q, before, after) ==
    \A i \in 1 .. Len(q) :
        /\ previous[q[i]] = IF i = 1 THEN before ELSE q[i - 1]
        /\ next[q[i]] = IF i = Len(q) THEN after ELSE q[i + 1]

(* A list that begins and one that ends as q does from its i-th on. *)
Starts(l, q, i) == fFirst[l] = IF i > Len(q) THEN NULL ELSE q[i]
Stops(l, q, i) == fLast[l] = IF i > Len(q) THEN NULL ELSE q[Len(q)]

(* The pending list, up to the end of TakeFrom. *)
PendingInv ==
    /\ AtList => asked # <<>>
    /\ server = "finish" => asked = <<>>
    /\ server # "finish" =>
         /\ Starts("pending", asked, 1) /\ Stops("pending", asked, 1)
         /\ Linked(asked, IF server = "setLast" THEN fLast["current"] ELSE NULL, NULL)

(* The committed list while nobody is at it, and at each step of TakeFrom. *)
TakenInv == ~Walking =>
    /\ IF server = "fillLast" THEN fFirst["current"] = asked[1] ELSE Starts("current", committed, 1)
    /\ Stops("current", committed, 1)
    /\ Linked(committed, NULL, IF server \in {"linkPrevious", "setLast"} THEN asked[1] ELSE NULL)
    /\ server \in {"append", "linkNext", "linkPrevious", "setLast"} => committed # <<>>
    /\ server \in {"linkNext", "linkPrevious"} => tail = fLast["current"]
    /\ server \in {"fillFirst", "fillLast"} => committed = <<>>

(* It at each step of Remove. *)
RemovedInv == Walking =>
    /\ window # "isEmpty" => committed # <<>> /\ element = committed[1]
    /\ window \in {"isEmpty", "unlinkNext"} => Starts("current", committed, 1)
    /\ window \in {"isEmpty", "unlinkNext", "isLast", "setLast", "unlinkPrevious"} =>
         Stops("current", committed, 1)
    /\ window \in {"isLast", "setLast", "unlinkPrevious"} => Starts("current", committed, 2)
    /\ window = "setLast" => Len(committed) = 1
    /\ window = "unlinkPrevious" => Len(committed) # 1
    /\ IF window \in {"clear", "done"}
       THEN Starts("current", committed, 2) /\ Stops("current", committed, 2) /\ Linked(Tail(committed), NULL, NULL)
       ELSE Linked(committed, NULL, NULL)

ListInv == ~raced =>
    /\ ~broken
    /\ QueuesInv /\ PendingInv /\ TakenInv /\ RemovedInv

IInv == TypeOK /\ LockInv /\ ApartInv /\ ListInv

USE CallbackAssumption DEF vars, fixed, view, list, List, Server, Window, Nobody, AtList, Walking,
    Insert
-----------------------------------------------------------------------------
(* What the operators on queues do. *)

LEMMA Appended ==
  ASSUME NEW q \in Seq(Callback), NEW c \in Callback
  PROVE  /\ Append(q, c) \in Seq(Callback) /\ Len(Append(q, c)) = Len(q) + 1
         /\ \A i \in 1 .. Len(q) : Append(q, c)[i] = q[i]
         /\ Append(q, c)[Len(q) + 1] = c
  BY AppendProperties

LEMMA Joined ==
  ASSUME NEW q \in Seq(Callback), NEW r \in Seq(Callback)
  PROVE  /\ q \o r \in Seq(Callback) /\ Len(q \o r) = Len(q) + Len(r)
         /\ \A i \in 1 .. Len(q) : (q \o r)[i] = q[i]
         /\ \A i \in 1 .. Len(r) : (q \o r)[Len(q) + i] = r[i]
  BY ConcatProperties

LEMMA Beheaded ==
  ASSUME NEW q \in Seq(Callback), q # <<>>
  PROVE  /\ Tail(q) \in Seq(Callback) /\ Len(Tail(q)) = Len(q) - 1 /\ Len(q) \in Nat \ {0}
         /\ \A i \in 1 .. Len(Tail(q)) : Tail(q)[i] = q[i + 1]
         /\ Head(q) = q[1]
  BY HeadTailProperties, EmptySeq

LEMMA Elements ==
  ASSUME NEW q \in Seq(Callback)
  PROVE  /\ Len(q) \in Nat /\ (q = <<>> <=> Len(q) = 0)
         /\ \A i \in 1 .. Len(q) : q[i] \in Callback
  BY ElementOfSeq, EmptySeq
-----------------------------------------------------------------------------
(* Types *)

(* Remove has an element to remove. *)
ElementInv == window \notin {"idle", "opening", "isEmpty"} => element \in Callback

LEMMA ElementStep == TypeOK /\ ElementInv /\ [Next]_vars => ElementInv'
<1> SUFFICES ASSUME TypeOK, ElementInv, [Next]_vars PROVE ElementInv'
  OBVIOUS
<1> USE DEF TypeOK, ElementInv
<1>1. CASE window' = window /\ element' = element
  BY <1>1
<1>2. ASSUME NEW c \in Callback, HandleFrame(c) PROVE ElementInv'
  BY <1>2 DEF HandleFrame
<1>3. ASSUME NEW changes \in BOOLEAN, HandleCommit(changes) PROVE ElementInv'
  BY <1>3 DEF HandleCommit
<1>4. ASSUME ServerStep PROVE ElementInv'
  BY <1>4 DEF ServerStep, Take, ReadLast, LinkNext, LinkPrevious, FillFirst, SetLast, Finish, Takes
<1>5. ASSUME Attach \/ Detach \/ Pulse \/ Uncover \/ Draw \/ Over PROVE ElementInv'
  BY <1>5 DEF Attach, Detach, Pulse, Uncover, Draw, Over
<1>6. ASSUME WindowStep PROVE ElementInv'
  BY <1>6 DEF WindowStep, OpenEnv, RemoveHead, UnlinkNext, IsLast, RemoveLast, UnlinkPrevious,
     RemoveClear, Done, Answer, Calls
<1> QED
  BY <1>1, <1>2, <1>3, <1>4, <1>5, <1>6 DEF Next

LEMMA TypeStep == TypeOK /\ ElementInv /\ [Next]_vars => TypeOK'
<1> SUFFICES ASSUME TypeOK, ElementInv, [Next]_vars PROVE TypeOK'
  OBVIOUS
<1> USE DEF TypeOK, ElementInv
<1>1. ASSUME NEW c \in Callback, HandleFrame(c) PROVE TypeOK'
  <2>1. asked' \in Seq(Callback) /\ alive' \subseteq Callback
    BY <1>1, Appended DEF HandleFrame
  <2>2. fFirst' \in [List -> Callback \cup {NULL}] /\ fLast' \in [List -> Callback \cup {NULL}]
    BY <1>1 DEF HandleFrame
  <2>3. previous' \in [Callback -> Callback \cup {NULL}]
    BY <1>1 DEF HandleFrame
  <2>4. next' \in [Callback -> Callback \cup {NULL}]
    BY <1>1 DEF HandleFrame
  <2>5. UNCHANGED <<fixed, view, lock, server, window, visual, element, tail, broken, committed,
                    raced>>
    BY <1>1 DEF HandleFrame
  <2> QED
    BY <2>1, <2>2, <2>3, <2>4, <2>5
<1>2. ASSUME NEW changes \in BOOLEAN, HandleCommit(changes) PROVE TypeOK'
  <2>1. raced' \in BOOLEAN
    BY <1>2 DEF HandleCommit, Meet
  <2> QED
    BY <1>2, <2>1 DEF HandleCommit
<1>3. ASSUME ServerStep PROVE TypeOK'
  <2>1. CASE SetLast
    BY <2>1, Joined DEF SetLast, Takes
  <2>2. CASE Take \/ ReadLast \/ FillFirst
    BY <2>2 DEF Take, ReadLast, FillFirst, Takes
  <2>3. CASE LinkNext
    <3>1. next' \in [Callback -> Callback \cup {NULL}] /\ broken' \in BOOLEAN
      BY <2>3 DEF LinkNext
    <3> QED
      BY <2>3, <3>1 DEF LinkNext, Takes
  <2>4. CASE LinkPrevious
    <3>1. previous' \in [Callback -> Callback \cup {NULL}] /\ broken' \in BOOLEAN
      BY <2>4 DEF LinkPrevious
    <3> QED
      BY <2>4, <3>1 DEF LinkPrevious, Takes
  <2>5. CASE Finish
    <3>1. invalid' \in BOOLEAN
      BY <2>5 DEF Finish
    <3> QED
      BY <2>5, <3>1 DEF Finish
  <2> QED
    BY <1>3, <2>1, <2>2, <2>3, <2>4, <2>5 DEF ServerStep
<1>4. ASSUME Attach \/ Detach \/ Uncover \/ Draw \/ Over PROVE TypeOK'
  <2>1. CASE Attach \/ Detach
    <3>1. hasView' \in BOOLEAN /\ invalid' \in BOOLEAN
      BY <2>1, Zenon DEF Attach, Detach
    <3>2. UNCHANGED <<fixed, lock, server, window, visual, element, tail, list, alive, broken,
                      asked, committed, raced>>
      BY <2>1 DEF Attach, Detach
    <3> QED
      BY <3>1, <3>2
  <2>2. CASE Uncover
    BY <2>2 DEF Uncover
  <2>3. CASE Draw
    <3>1. window' \in Window
      BY <2>3 DEF Draw, Window
    <3>2. invalid' \in BOOLEAN
      BY <2>3, Zenon DEF Draw
    <3>3. UNCHANGED <<fixed, hasView, lock, server, visual, element, tail, list, alive, broken,
                      asked, committed, raced>>
      BY <2>3 DEF Draw
    <3> QED
      BY <3>1, <3>2, <3>3
  <2>4. CASE Over
    BY <2>4 DEF Over
  <2> QED
    BY <1>4, <2>1, <2>2, <2>3, <2>4
<1>5. ASSUME Pulse PROVE TypeOK'
  <2>1. raced' \in BOOLEAN
    BY <1>5 DEF Pulse, Meet
  <2> QED
    BY <1>5, <2>1 DEF Pulse
<1>6. ASSUME WindowStep PROVE TypeOK'
  <2>1. CASE OpenEnv
    <3>1. raced' \in BOOLEAN
      BY <2>1 DEF OpenEnv, Meet
    <3> QED
      BY <2>1, <3>1 DEF OpenEnv
  <2>2. CASE RemoveHead \/ IsLast
    BY <2>2 DEF RemoveHead, IsLast, Calls
  <2>3. CASE UnlinkNext
    <3>1. broken' \in BOOLEAN
      BY <2>3 DEF UnlinkNext
    <3>2. fFirst' \in [List -> Callback \cup {NULL}] /\ next' \in [Callback -> Callback \cup {NULL}]
      BY <2>3 DEF UnlinkNext, Calls
    <3> QED
      BY <2>3, <3>1, <3>2 DEF UnlinkNext, Calls
  <2>4. CASE UnlinkPrevious
    <3>1. broken' \in BOOLEAN
      BY <2>4 DEF UnlinkPrevious
    <3>2. previous' \in [Callback -> Callback \cup {NULL}]
      BY <2>4 DEF UnlinkPrevious, Calls
    <3> QED
      BY <2>4, <3>1, <3>2 DEF UnlinkPrevious, Calls
  <2>5. CASE RemoveLast
    BY <2>5 DEF RemoveLast, Calls
  <2>7. CASE RemoveClear
    <3>1. next' \in [Callback -> Callback \cup {NULL}] /\ previous' \in [Callback -> Callback \cup {NULL}]
      BY <2>7 DEF RemoveClear
    <3> QED
      BY <2>7, <3>1 DEF RemoveClear, Calls
  <2>6. CASE Done
    <3>1. committed' \in Seq(Callback)
      BY <2>6, Beheaded DEF Done, Answer
    <3>2. broken' \in BOOLEAN /\ alive' \subseteq Callback
      BY <2>6 DEF Done, Answer
    <3> QED
      BY <2>6, <3>1, <3>2 DEF Done, Answer, Calls
  <2> QED
    BY <1>6, <2>1, <2>2, <2>3, <2>4, <2>5, <2>6, <2>7 DEF WindowStep
<1> QED
  BY <1>1, <1>2, <1>3, <1>4, <1>5, <1>6 DEF Next

(* Type correctness of every reachable state. *)
THEOREM TypeCorrect == Spec => []TypeOK
<1>1. Init => TypeOK /\ ElementInv
  BY EmptySeq DEF Init, TypeOK, ElementInv
<1> QED
  BY <1>1, TypeStep, ElementStep, PTL DEF Spec
-----------------------------------------------------------------------------
(* Locks *)

LEMMA LockStep == TypeOK /\ LockInv /\ ApartInv /\ [Next]_vars => LockInv' /\ ApartInv'
<1> SUFFICES ASSUME TypeOK, LockInv, ApartInv, [Next]_vars PROVE LockInv' /\ ApartInv'
  OBVIOUS
<1> USE DEF TypeOK, LockInv, ApartInv
<1>1. ASSUME NEW c \in Callback, HandleFrame(c) PROVE LockInv' /\ ApartInv'
  BY <1>1 DEF HandleFrame
<1>2. ASSUME NEW changes \in BOOLEAN, HandleCommit(changes) PROVE LockInv' /\ ApartInv'
  BY <1>2 DEF HandleCommit, Meet
<1>3. ASSUME ServerStep PROVE LockInv' /\ ApartInv'
  BY <1>3 DEF ServerStep, Take, ReadLast, LinkNext, LinkPrevious, FillFirst, SetLast, Finish, Takes
<1>4. ASSUME Attach \/ Detach \/ Pulse \/ Uncover \/ Draw \/ Over PROVE LockInv' /\ ApartInv'
  BY <1>4 DEF Attach, Detach, Pulse, Uncover, Draw, Over, Meet
<1>5. ASSUME WindowStep PROVE LockInv' /\ ApartInv'
  BY <1>5 DEF WindowStep, OpenEnv, RemoveHead, UnlinkNext, IsLast, RemoveLast, UnlinkPrevious,
     RemoveClear, Done, Answer, Calls, Meet
<1> QED
  BY <1>1, <1>2, <1>3, <1>4, <1>5 DEF Next

(* With the frame rate limit disabled no commit and no draw are at the list  *)
(* at once, whatever requests and draws come in which order.                 *)
THEOREM EnvExcludes == Spec => []EnvKeepsApart
<1>1. Init => LockInv /\ ApartInv
  BY DEF Init, LockInv, ApartInv
<1>2. ApartInv => EnvKeepsApart
  BY DEF ApartInv, EnvKeepsApart
<1> QED
  BY <1>1, <1>2, TypeCorrect, LockStep, PTL DEF Spec
-----------------------------------------------------------------------------
(* Lists *)

LEMMA RacedStays == [Next]_vars /\ raced => raced'
  BY DEF Next, HandleFrame, HandleCommit, ServerStep, Take, ReadLast, LinkNext, LinkPrevious,
     FillFirst, SetLast, Finish, Takes, Attach, Detach, Pulse, Uncover, Draw, Over, WindowStep,
     OpenEnv, RemoveHead, UnlinkNext, IsLast, RemoveLast, UnlinkPrevious, RemoveClear, Done,
     Answer, Calls, Meet

Lists == ~broken /\ QueuesInv /\ PendingInv /\ TakenInv /\ RemovedInv

(* HandleFrame writes to its own callback and to the last that is asked for. *)
LEMMA FrameStep ==
  ASSUME TypeOK, Lists, NEW c \in Callback, HandleFrame(c)
  PROVE  Lists'
<1> USE DEF TypeOK, Lists
<1> DEFINE n == Len(asked)
<1>1. /\ server = "idle" /\ server' = server /\ window' = window /\ committed' = committed
      /\ element' = element /\ c \notin alive /\ alive' = alive \cup {c} /\ broken' = broken
      /\ fFirst'["current"] = fFirst["current"] /\ fLast'["current"] = fLast["current"]
  BY DEF HandleFrame
<1>2. /\ n \in Nat /\ Len(asked') = n + 1 /\ asked'[n + 1] = c
      /\ \A i \in 1 .. n : asked'[i] = asked[i] /\ asked[i] \in Callback
      /\ \A i \in 1 .. Len(committed) : committed[i] \in Callback
      /\ Len(committed) \in Nat /\ n = 0 <=> asked = <<>>
      /\ \A i \in 1 .. Len(asked') : i \in 1 .. n \/ i = n + 1
  BY Appended, Elements DEF HandleFrame
<1>3. fLast["pending"] = IF n = 0 THEN NULL ELSE asked[n]
  BY <1>1, <1>2 DEF PendingInv, Stops
<1>4. /\ \A x \in Callback : x # c => previous'[x] = previous[x]
      /\ \A x \in Callback : x # c /\ (n = 0 \/ x # asked[n]) => next'[x] = next[x]
      /\ previous'[c] = fLast["pending"] /\ (n = 0 \/ asked[n] # c => next'[c] = NULL)
      /\ n # 0 => next'[asked[n]] = c
      /\ fFirst'["pending"] = IF n = 0 THEN c ELSE fFirst["pending"]
      /\ fLast'["pending"] = c
  BY <1>2, <1>3 DEF HandleFrame
<1>5. \A i \in 1 .. n : asked[i] # c
  BY <1>1 DEF QueuesInv
<1>6. \A i \in 1 .. Len(committed) :
        previous'[committed[i]] = previous[committed[i]] /\ next'[committed[i]] = next[committed[i]]
  BY <1>1, <1>2, <1>4 DEF QueuesInv
<1>7. QueuesInv'
  <2>1. \A j \in 1 .. Len(committed) : committed[j] # c
    BY <1>1 DEF QueuesInv
  <2>2. \A i \in 1 .. Len(asked') : asked'[i] \in alive'
    BY <1>1, <1>2 DEF QueuesInv
  <2>3. \A i, j \in 1 .. Len(asked') : asked'[i] = asked'[j] => i = j
    BY <1>2, <1>5 DEF QueuesInv
  <2>4. \A i \in 1 .. Len(asked'), j \in 1 .. Len(committed) : asked'[i] # committed[j]
    BY <1>2, <2>1 DEF QueuesInv
  <2> QED
    BY <1>1, <2>2, <2>3, <2>4 DEF QueuesInv
<1>8. PendingInv'
  <2>1. Starts("pending", asked, 1)' /\ Stops("pending", asked, 1)'
    BY <1>1, <1>2, <1>4 DEF PendingInv, Starts, Stops
  <2>2. ASSUME NEW i \in 1 .. n
        PROVE  /\ previous'[asked[i]] = IF i = 1 THEN NULL ELSE asked[i - 1]
               /\ next'[asked[i]] = IF i = n THEN c ELSE asked[i + 1]
    BY <1>1, <1>2, <1>4, <1>5, <2>2 DEF PendingInv, Linked, QueuesInv
  <2>3. previous'[c] = (IF n = 0 THEN NULL ELSE asked[n]) /\ next'[c] = NULL
    BY <1>2, <1>3, <1>4, <1>5
  <2>4. ASSUME NEW i \in 1 .. Len(asked')
        PROVE  /\ previous'[asked'[i]] = IF i = 1 THEN NULL ELSE asked'[i - 1]
               /\ next'[asked'[i]] = IF i = Len(asked') THEN NULL ELSE asked'[i + 1]
    <3>1. CASE i \in 1 .. n
      <4>1. (i # 1 => i - 1 \in 1 .. n) /\ (i # n => i + 1 \in 1 .. n) /\ i # n + 1
        BY <1>2, <3>1
      <4>2. asked'[i] = asked[i] /\ (i # 1 => asked'[i - 1] = asked[i - 1])
        BY <1>2, <3>1, <4>1
      <4>3. asked'[i + 1] = IF i = n THEN c ELSE asked[i + 1]
        BY <1>2, <3>1, <4>1
      <4> QED
        BY <1>2, <2>2, <3>1, <4>1, <4>2, <4>3
    <3>2. CASE i = n + 1
      BY <1>2, <2>3, <3>2
    <3> QED
      BY <1>2, <3>1, <3>2
  <2>5. Linked(asked, NULL, NULL)'
    BY <2>4 DEF Linked
  <2> QED
    BY <1>1, <1>2, <2>1, <2>5 DEF PendingInv
<1>9. TakenInv'
  BY <1>1, <1>6 DEF TakenInv, Starts, Stops, Linked
<1>10. RemovedInv'
  <2>1. ASSUME committed # <<>>, Linked(Tail(committed), NULL, NULL)
        PROVE  Linked(Tail(committed), NULL, NULL)'
    <3>1. \A i \in 1 .. Len(Tail(committed)) : Tail(committed)[i] = committed[i + 1] /\ i + 1 \in 1 .. Len(committed)
      BY <2>1, <1>2, Beheaded
    <3>2. \A i \in 1 .. Len(Tail(committed)) :
            /\ previous'[Tail(committed)[i]] = previous[Tail(committed)[i]]
            /\ next'[Tail(committed)[i]] = next[Tail(committed)[i]]
      <4> DEFINE t == Tail(committed)
      <4>1. \A i \in 1 .. Len(t) : t[i] = committed[i + 1] /\ i + 1 \in 1 .. Len(committed)
        BY <3>1
      <4> HIDE DEF t
      <4>2. \A i \in 1 .. Len(t) : previous'[t[i]] = previous[t[i]] /\ next'[t[i]] = next[t[i]]
        BY <1>6, <4>1
      <4> QED
        BY <4>2 DEF t
    <3> QED
      BY <1>1, <2>1, <3>2 DEF Linked
  <2>2. Linked(committed, NULL, NULL) => Linked(committed, NULL, NULL)'
    BY <1>1, <1>6 DEF Linked
  <2> QED
    BY <1>1, <2>1, <2>2 DEF RemovedInv, Starts, Stops
<1> QED
  BY <1>1, <1>7, <1>8, <1>9, <1>10

(* The first and the last of a queue are not NULL. *)
LEMMA FirstAndLast ==
  ASSUME TypeOK, QueuesInv
  PROVE  /\ Len(asked) \in Nat /\ Len(committed) \in Nat
         /\ asked = <<>> <=> Len(asked) = 0
         /\ committed = <<>> <=> Len(committed) = 0
         /\ \A i \in 1 .. Len(asked) : asked[i] \in Callback
         /\ \A i \in 1 .. Len(committed) : committed[i] \in Callback
  BY Elements DEF TypeOK

LEMMA CommitStep ==
  ASSUME TypeOK, Lists, NEW changes \in BOOLEAN, HandleCommit(changes), ~raced', ApartInv'
  PROVE  Lists'
<1> USE FirstAndLast DEF TypeOK, Lists, HandleCommit
<1>1. QueuesInv' /\ ~broken'
  BY DEF QueuesInv
<1>2. PendingInv'
  BY DEF PendingInv, Starts, Stops, Linked
<1>3. TakenInv'
  BY DEF TakenInv, Starts, Stops, Linked
<1>4. RemovedInv'
  BY DEF RemovedInv, Starts, Stops, Linked
<1> QED
  BY <1>1, <1>2, <1>3, <1>4

(* TakeFrom hangs the pending list behind the committed one, or puts it in   *)
(* its place.                                                                *)
LEMMA TakeStep ==
  ASSUME TypeOK, Lists, ~raced, ApartInv, Take \/ ReadLast \/ FillFirst
  PROVE  Lists'
<1> USE FirstAndLast DEF TypeOK, Lists, ApartInv, Takes
<1>1. ~Walking /\ ~Walking' /\ server # "finish" /\ server' # "finish"
  BY DEF Take, ReadLast, FillFirst
<1>2. QueuesInv' /\ ~broken' /\ PendingInv' /\ RemovedInv'
  BY <1>1 DEF QueuesInv, PendingInv, RemovedInv, Starts, Stops, Linked, Take, ReadLast, FillFirst
<1>3. TakenInv'
  <2>1. CASE Take
    BY <1>1, <2>1 DEF Take, TakenInv, Starts, Stops, Linked
  <2>2. CASE ReadLast
    BY <1>1, <2>2 DEF ReadLast, TakenInv, Starts, Stops, Linked
  <2>3. CASE FillFirst
    BY <1>1, <2>3 DEF FillFirst, TakenInv, PendingInv, Starts, Stops, Linked
  <2> QED
    BY <2>1, <2>2, <2>3
<1> QED
  BY <1>2, <1>3

LEMMA LinkNextStep ==
  ASSUME TypeOK, Lists, ~raced, ApartInv, LinkNext
  PROVE  Lists'
<1> USE FirstAndLast DEF TypeOK, Lists, ApartInv, Takes, LinkNext
<1> DEFINE n == Len(committed)
<1>1. /\ ~Walking /\ ~Walking' /\ n # 0 /\ n \in 1 .. n /\ tail = committed[n]
      /\ tail \in alive /\ asked # <<>> /\ fFirst["pending"] = asked[1]
  BY DEF TakenInv, PendingInv, QueuesInv, Starts, Stops
<1>2. /\ next' = [next EXCEPT ![tail] = asked[1]] /\ previous' = previous /\ ~broken'
      /\ fFirst' = fFirst /\ fLast' = fLast /\ tail' = tail
      /\ committed' = committed /\ asked' = asked /\ alive' = alive
  BY <1>1
<1>3. QueuesInv' /\ RemovedInv'
  BY <1>1, <1>2 DEF QueuesInv, RemovedInv
<1>4. \A i \in 1 .. Len(asked) : next'[asked[i]] = next[asked[i]]
  BY <1>1, <1>2 DEF QueuesInv
<1>5. \A i \in 1 .. n : next'[committed[i]] = IF i = n THEN asked[1] ELSE next[committed[i]]
  BY <1>1, <1>2 DEF QueuesInv
<1>6. PendingInv'
  BY <1>1, <1>2, <1>4 DEF PendingInv, Starts, Stops, Linked
<1>7. TakenInv'
  BY <1>1, <1>2, <1>5 DEF TakenInv, Starts, Stops, Linked
<1> QED
  BY <1>2, <1>3, <1>6, <1>7

LEMMA LinkPreviousStep ==
  ASSUME TypeOK, Lists, ~raced, ApartInv, LinkPrevious
  PROVE  Lists'
<1> USE FirstAndLast DEF TypeOK, Lists, ApartInv, Takes, LinkPrevious
<1>1. /\ ~Walking /\ ~Walking' /\ asked # <<>> /\ 1 \in 1 .. Len(asked)
      /\ fFirst["pending"] = asked[1] /\ asked[1] \in alive
  BY DEF PendingInv, QueuesInv, Starts
<1>2. /\ previous' = [previous EXCEPT ![asked[1]] = fLast["current"]] /\ next' = next /\ ~broken'
      /\ fFirst' = fFirst /\ fLast' = fLast /\ tail' = tail
      /\ committed' = committed /\ asked' = asked /\ alive' = alive
  BY <1>1
<1>3. QueuesInv' /\ RemovedInv'
  BY <1>1, <1>2 DEF QueuesInv, RemovedInv
<1>4. \A i \in 1 .. Len(asked) :
        previous'[asked[i]] = IF i = 1 THEN fLast["current"] ELSE previous[asked[i]]
  BY <1>1, <1>2 DEF QueuesInv
<1>5. \A i \in 1 .. Len(committed) : previous'[committed[i]] = previous[committed[i]]
  BY <1>1, <1>2 DEF QueuesInv
<1>6. PendingInv'
  BY <1>1, <1>2, <1>4 DEF PendingInv, Starts, Stops, Linked
<1>7. TakenInv'
  BY <1>1, <1>2, <1>5 DEF TakenInv, Starts, Stops, Linked
<1> QED
  BY <1>2, <1>3, <1>6, <1>7

LEMMA FinishStep ==
  ASSUME TypeOK, Lists, ~raced, Finish
  PROVE  Lists'
<1> USE FirstAndLast DEF TypeOK, Lists, Finish
<1>1. QueuesInv' /\ ~broken'
  BY DEF QueuesInv
<1>2. PendingInv'
  BY DEF PendingInv, Starts, Stops, Linked
<1>3. TakenInv'
  BY DEF TakenInv, Starts, Stops, Linked
<1>4. RemovedInv'
  BY DEF RemovedInv, Starts, Stops, Linked
<1> QED
  BY <1>1, <1>2, <1>3, <1>4

LEMMA SetLastStep ==
  ASSUME TypeOK, Lists, ~raced, ApartInv, SetLast
  PROVE  Lists'
<1> USE FirstAndLast DEF TypeOK, Lists, ApartInv, Takes, SetLast
<1> DEFINE n == Len(committed)
           m == Len(asked)
<1>1. /\ ~Walking /\ ~Walking' /\ m \in 1 .. m /\ 1 \in 1 .. m /\ ~broken'
      /\ server' = "finish" /\ asked' = <<>> /\ Len(asked') = 0
      /\ next' = next /\ previous' = previous /\ fFirst' = fFirst /\ alive' = alive
      /\ fLast'["current"] = asked[m]
  BY DEF PendingInv, Stops
<1>2. /\ Len(committed') = n + m /\ n \in Nat /\ m \in Nat /\ m # 0
      /\ \A i \in 1 .. n : committed'[i] = committed[i]
      /\ \A i \in 1 .. m : committed'[n + i] = asked[i]
  BY <1>1, Joined
<1>3. \A k \in 1 .. n + m : k \in 1 .. n \/ (k - n \in 1 .. m /\ committed'[k] = asked[k - n])
  <2> SUFFICES ASSUME NEW k \in 1 .. n + m, k \notin 1 .. n
               PROVE  k - n \in 1 .. m /\ committed'[k] = asked[k - n]
    OBVIOUS
  <2>1. k - n \in 1 .. m /\ n + (k - n) = k
    BY <1>2
  <2> QED
    BY <1>2, <2>1
<1>4. QueuesInv'
  <2>1. \A k \in 1 .. n + m : committed'[k] \in alive
    BY <1>2, <1>3 DEF QueuesInv
  <2>2. ASSUME NEW k \in 1 .. n + m, NEW l \in 1 .. n + m, committed'[k] = committed'[l]
        PROVE  k = l
    <3>1. CASE k \in 1 .. n /\ l \in 1 .. n
      BY <1>2, <2>2, <3>1 DEF QueuesInv
    <3>2. CASE k \notin 1 .. n /\ l \notin 1 .. n
      <4>1. k - n = l - n
        BY <1>3, <2>2, <3>2 DEF QueuesInv
      <4> QED
        BY <1>2, <4>1
    <3>3. CASE k \in 1 .. n /\ l \notin 1 .. n
      <4>1. l - n \in 1 .. m /\ committed'[l] = asked[l - n] /\ committed'[k] = committed[k]
        BY <1>2, <1>3, <3>3
      <4>2. asked[l - n] # committed[k]
        BY <4>1, <3>3 DEF QueuesInv
      <4> QED
        BY <2>2, <4>1, <4>2
    <3>4. CASE k \notin 1 .. n /\ l \in 1 .. n
      <4>1. k - n \in 1 .. m /\ committed'[k] = asked[k - n] /\ committed'[l] = committed[l]
        BY <1>2, <1>3, <3>4
      <4>2. asked[k - n] # committed[l]
        BY <4>1, <3>4 DEF QueuesInv
      <4> QED
        BY <2>2, <4>1, <4>2
    <3> QED
      BY <3>1, <3>2, <3>3, <3>4
  <2> QED
    BY <1>1, <1>2, <2>1, <2>2 DEF QueuesInv
<1>5. PendingInv'
  BY <1>1 DEF PendingInv
<1>6. /\ Starts("current", committed, 1)' /\ Stops("current", committed, 1)'
  <2>1. committed'[1] = IF n = 0 THEN asked[1] ELSE committed[1]
    BY <1>2, <1>3
  <2>2. committed'[n + m] = asked[m]
    BY <1>1, <1>2
  <2>3. fFirst["current"] = IF n = 0 THEN asked[1] ELSE committed[1]
    BY <1>1 DEF TakenInv, Starts
  <2> QED
    BY <1>1, <1>2, <2>1, <2>2, <2>3 DEF Starts, Stops
<1>7. ASSUME NEW k \in 1 .. n + m
      PROVE  /\ previous[committed'[k]] = IF k = 1 THEN NULL ELSE committed'[k - 1]
             /\ next[committed'[k]] = IF k = n + m THEN NULL ELSE committed'[k + 1]
  <2>1. Linked(committed, NULL, asked[1])
    BY <1>1, <1>2 DEF TakenInv, Linked
  <2>2. Linked(asked, IF n = 0 THEN NULL ELSE committed[n], NULL)
    BY <1>1 DEF PendingInv, TakenInv, Stops
  <2>3. CASE k \in 1 .. n
    <3>1. k - 1 \in 1 .. n \/ k = 1
      BY <1>2, <2>3
    <3>2. (k + 1 \in 1 .. n /\ k # n) \/ (k = n /\ committed'[k + 1] = asked[1])
      BY <1>1, <1>2, <2>3
    <3> QED
      BY <1>2, <2>1, <2>3, <3>1, <3>2 DEF Linked
  <2>4. CASE k \notin 1 .. n
    <3> DEFINE i == k - n
    <3>1. i \in 1 .. m /\ committed'[k] = asked[i]
      BY <1>3, <2>4
    <3>2. (i # 1 /\ committed'[k - 1] = asked[i - 1])
          \/ (i = 1 /\ ((n = 0 /\ k = 1) \/ (n # 0 /\ k - 1 = n /\ committed'[k - 1] = committed[n])))
      <4>1. CASE i = 1
        <5>1. CASE n = 0
          <6>1. k = 1
            BY <4>1, <5>1
          <6> QED
            BY <4>1, <5>1, <6>1
        <5>2. CASE n # 0
          <6>1. k - 1 = n /\ n \in 1 .. n
            BY <1>2, <4>1, <5>2
          <6> QED
            BY <1>2, <4>1, <5>2, <6>1
        <5> QED
          BY <5>1, <5>2
      <4>2. CASE i # 1
        <5>1. i - 1 \in 1 .. m /\ n + (i - 1) = k - 1
          BY <1>2, <3>1, <4>2
        <5> QED
          BY <1>2, <4>2, <5>1
      <4> QED
        BY <4>1, <4>2
    <3>3. (i # m /\ committed'[k + 1] = asked[i + 1]) \/ (i = m /\ k = n + m)
      <4>1. CASE i # m
        <5>1. i + 1 \in 1 .. m /\ n + (i + 1) = k + 1
          BY <1>2, <3>1, <4>1
        <5> QED
          BY <1>2, <4>1, <5>1
      <4> QED
        BY <1>2, <3>1, <4>1
    <3>4. k = n + m <=> i = m
      BY <1>2
    <3>5. k = 1 => n = 0 /\ i = 1
      BY <1>2, <2>4
    <3> HIDE DEF i
    <3>6. /\ previous[asked[i]] = IF i = 1 THEN (IF n = 0 THEN NULL ELSE committed[n]) ELSE asked[i - 1]
          /\ next[asked[i]] = IF i = m THEN NULL ELSE asked[i + 1]
      BY <2>2, <3>1 DEF Linked
    <3>7. previous[asked[i]] = IF k = 1 THEN NULL ELSE committed'[k - 1]
      BY <1>2, <3>2, <3>5, <3>6
    <3>8. next[asked[i]] = IF k = n + m THEN NULL ELSE committed'[k + 1]
      BY <3>3, <3>4, <3>6
    <3> QED
      BY <3>1, <3>7, <3>8
  <2> QED
    BY <2>3, <2>4
<1>8. TakenInv'
  <2>1. \A k \in 1 .. Len(committed') :
          /\ previous'[committed'[k]] = IF k = 1 THEN NULL ELSE committed'[k - 1]
          /\ next'[committed'[k]] = IF k = Len(committed') THEN NULL ELSE committed'[k + 1]
    <3> DEFINE q == committed'
    <3>1. \A k \in 1 .. n + m :
            /\ previous[q[k]] = IF k = 1 THEN NULL ELSE q[k - 1]
            /\ next[q[k]] = IF k = n + m THEN NULL ELSE q[k + 1]
      BY <1>7
    <3>2. Len(q) = n + m /\ previous' = previous /\ next' = next
      BY <1>1, <1>2
    <3> HIDE DEF q
    <3>3. \A k \in 1 .. Len(q) :
            /\ previous'[q[k]] = IF k = 1 THEN NULL ELSE q[k - 1]
            /\ next'[q[k]] = IF k = Len(q) THEN NULL ELSE q[k + 1]
      BY <3>1, <3>2
    <3> QED
      BY <3>3 DEF q
  <2>2. Linked(committed, NULL, NULL)'
    BY <2>1 DEF Linked
  <2> QED
    BY <1>1, <1>6, <2>2 DEF TakenInv
<1>9. RemovedInv'
  BY <1>1 DEF RemovedInv
<1> QED
  BY <1>1, <1>4, <1>5, <1>8, <1>9

(* A thread comes to the list of committed callbacks when nobody is there.   *)
LEMMA ComeStep ==
  ASSUME TypeOK, Lists, ~raced, Pulse \/ OpenEnv, ~raced', ApartInv'
  PROVE  Lists'
<1> USE FirstAndLast DEF TypeOK, Lists, ApartInv
<1>1. /\ ~Walking /\ server' = server /\ window' \in {"idle", "isEmpty"}
      /\ window' = "isEmpty" => server \in {"idle", "finish"}
      /\ UNCHANGED <<list, alive, broken, asked, committed, element, tail>>
  BY DEF Pulse, OpenEnv
<1>2. QueuesInv' /\ ~broken'
  BY <1>1 DEF QueuesInv
<1>3. PendingInv'
  BY <1>1 DEF PendingInv, Starts, Stops, Linked
<1>4. TakenInv'
  BY <1>1 DEF TakenInv, Starts, Stops, Linked
<1>5. RemovedInv'
  BY <1>1 DEF RemovedInv, TakenInv, Starts, Stops, Linked
<1> QED
  BY <1>2, <1>3, <1>4, <1>5

LEMMA RemoveHeadStep ==
  ASSUME TypeOK, Lists, ~raced, ApartInv, RemoveHead
  PROVE  Lists'
<1> USE FirstAndLast DEF TypeOK, Lists, ApartInv, Calls, RemoveHead
<1>1. QueuesInv' /\ ~broken'
  BY DEF QueuesInv
<1>2. PendingInv'
  BY DEF PendingInv, Starts, Stops, Linked
<1>3. TakenInv'
  BY DEF TakenInv, RemovedInv, Starts, Stops, Linked
<1>4. RemovedInv'
  BY DEF RemovedInv, Starts, Stops, Linked
<1> QED
  BY <1>1, <1>2, <1>3, <1>4

LEMMA OneOrMore ==
  ASSUME NEW n \in Nat, n # 0
  PROVE  1 \in 1 .. n /\ (n # 1 => 2 \in 1 .. n) /\ (2 > n <=> n = 1) /\ 1 + 1 = 2
  OBVIOUS

(* The element is the first: Remove moves the list's first on.               *)
LEMMA UnlinkNextStep ==
  ASSUME TypeOK, Lists, ~raced, ApartInv, UnlinkNext
  PROVE  Lists'
<1>0. Len(committed) \in Nat /\ (committed # <<>> <=> Len(committed) # 0)
  BY FirstAndLast DEF Lists
<1> USE FirstAndLast DEF TypeOK, Lists, ApartInv, Calls, UnlinkNext
<1>1. /\ committed # <<>> /\ 1 \in 1 .. Len(committed) /\ element = committed[1]
      /\ fFirst["current"] = committed[1]
      /\ next[element] = IF Len(committed) = 1 THEN NULL ELSE committed[2]
  <2>1. committed # <<>> /\ element = committed[1] /\ Linked(committed, NULL, NULL)
    BY DEF RemovedInv
  <2>2. 1 \in 1 .. Len(committed) /\ 1 + 1 = 2 /\ (1 > Len(committed) <=> FALSE)
    BY <2>1
  <2>3. fFirst["current"] = committed[1]
    BY <2>2 DEF RemovedInv, Starts
  <2>4. next[committed[1]] = IF 1 = Len(committed) THEN NULL ELSE committed[1 + 1]
    BY <2>1, <2>2 DEF Linked
  <2> QED
    BY <2>1, <2>2, <2>3, <2>4
<1>2. /\ fFirst' = [fFirst EXCEPT !["current"] = next[element]]
      /\ UNCHANGED <<next, previous, fLast, broken, alive, asked, committed, element, server>>
  BY <1>1
<1>3. QueuesInv' /\ ~broken'
  BY <1>2 DEF QueuesInv
<1>4. PendingInv'
  BY <1>2 DEF PendingInv, Starts, Stops, Linked
<1>5. Starts("current", committed, 2)'
  <2>1. fFirst'["current"] = next[element] /\ committed' = committed
    BY <1>2
  <2>2. 2 > Len(committed) <=> Len(committed) = 1
    BY <1>0, <1>1, OneOrMore
  <2> QED
    BY <1>1, <2>1, <2>2 DEF Starts
<1>6. RemovedInv'
  BY <1>1, <1>2, <1>5 DEF RemovedInv, Starts, Stops, Linked
<1> QED
  BY <1>3, <1>4, <1>6 DEF TakenInv

LEMMA IsLastStep ==
  ASSUME TypeOK, Lists, ~raced, ApartInv, IsLast
  PROVE  Lists'
<1> USE FirstAndLast DEF TypeOK, Lists, ApartInv, Calls, IsLast
<1>1. QueuesInv' /\ ~broken'
  BY DEF QueuesInv
<1>2. PendingInv'
  BY DEF PendingInv, Starts, Stops, Linked
<1>3. element = fLast["current"] <=> Len(committed) = 1
  <2>1. /\ committed # <<>> /\ 1 \in 1 .. Len(committed) /\ Len(committed) \in 1 .. Len(committed)
        /\ element = committed[1] /\ fLast["current"] = committed[Len(committed)]
    BY DEF RemovedInv, Stops
  <2> QED
    BY <2>1 DEF QueuesInv
<1>4. RemovedInv'
  BY <1>3 DEF RemovedInv, Starts, Stops, Linked
<1> QED
  BY <1>1, <1>2, <1>4 DEF TakenInv

LEMMA RemoveLastStep ==
  ASSUME TypeOK, Lists, ~raced, ApartInv, RemoveLast
  PROVE  Lists'
<1> USE FirstAndLast DEF TypeOK, Lists, ApartInv, Calls, RemoveLast
<1>1. /\ committed # <<>> /\ 1 \in 1 .. Len(committed) /\ Len(committed) = 1
      /\ element = committed[1] /\ previous[element] = NULL
  BY DEF RemovedInv, Linked
<1>2. /\ fLast' = [fLast EXCEPT !["current"] = NULL]
      /\ UNCHANGED <<next, previous, fFirst, broken, alive, asked, committed, element, server>>
  BY <1>1
<1>3. QueuesInv' /\ ~broken'
  BY <1>2 DEF QueuesInv
<1>4. PendingInv'
  BY <1>2 DEF PendingInv, Starts, Stops, Linked
<1>5. Linked(Tail(committed), NULL, NULL)'
  <2>1. Len(Tail(committed)) = 0
    BY <1>1, Beheaded
  <2> QED
    BY <1>2, <2>1 DEF Linked
<1>6. Stops("current", committed, 2)' /\ Starts("current", committed, 2)'
  BY <1>1, <1>2 DEF Stops, Starts, RemovedInv
<1>7. RemovedInv'
  BY <1>1, <1>2, <1>5, <1>6 DEF RemovedInv
<1> QED
  BY <1>3, <1>4, <1>7 DEF TakenInv

(* The tail of a chain is a chain, once its first has nothing before it and  *)
(* whatever else is written to is not in the tail.                           *)
LEMMA TailLinked ==
  ASSUME TypeOK, QueuesInv, committed # <<>>,
         \A i \in 2 .. Len(committed) :
             /\ previous'[committed[i]] = IF i = 2 THEN NULL ELSE committed[i - 1]
             /\ next'[committed[i]] = IF i = Len(committed) THEN NULL ELSE committed[i + 1],
         committed' = committed
  PROVE  Linked(Tail(committed), NULL, NULL)'
<1> DEFINE t == Tail(committed)
<1>1. /\ Len(t) = Len(committed) - 1 /\ Len(committed) \in Nat
      /\ \A i \in 1 .. Len(t) : t[i] = committed[i + 1]
  BY Beheaded DEF TypeOK
<1>2. Tail(committed') = t
  OBVIOUS
<1> HIDE DEF t
<1>3. ASSUME NEW i \in 1 .. Len(t)
      PROVE  /\ previous'[t[i]] = IF i = 1 THEN NULL ELSE t[i - 1]
             /\ next'[t[i]] = IF i = Len(t) THEN NULL ELSE t[i + 1]
  <2>1. /\ i + 1 \in 2 .. Len(committed) /\ t[i] = committed[i + 1]
        /\ i # 1 => t[i - 1] = committed[i]
        /\ i # Len(t) => t[i + 1] = committed[i + 2]
        /\ i = Len(t) <=> i + 1 = Len(committed)
        /\ (i + 1) - 1 = i /\ (i + 1) + 1 = i + 2 /\ (i = 1 <=> i + 1 = 2)
    BY <1>1
  <2>2. /\ previous'[committed[i + 1]] = IF i = 1 THEN NULL ELSE committed[i]
        /\ next'[committed[i + 1]] = IF i = Len(t) THEN NULL ELSE committed[i + 2]
    BY <2>1
  <2> QED
    BY <2>1, <2>2
<1> QED
  BY <1>2, <1>3 DEF Linked

LEMMA UnlinkPreviousStep ==
  ASSUME TypeOK, Lists, ~raced, ApartInv, UnlinkPrevious
  PROVE  Lists'
<1>0. Len(committed) \in Nat /\ (committed # <<>> <=> Len(committed) # 0)
  BY FirstAndLast DEF Lists
<1> USE FirstAndLast DEF TypeOK, Lists, ApartInv, Calls, UnlinkPrevious
<1>1. /\ committed # <<>> /\ 1 \in 1 .. Len(committed) /\ 2 \in 1 .. Len(committed)
      /\ element = committed[1] /\ previous[element] = NULL /\ next[element] = committed[2]
      /\ committed[2] \in alive /\ committed[2] \in Callback
  <2>1. /\ committed # <<>> /\ element = committed[1] /\ Linked(committed, NULL, NULL)
        /\ Len(committed) # 1
    BY DEF RemovedInv
  <2>2. 1 \in 1 .. Len(committed) /\ 2 \in 1 .. Len(committed)
    BY <1>0, <2>1, OneOrMore, Zenon
  <2>3. /\ previous[committed[1]] = NULL
        /\ next[committed[1]] = IF 1 = Len(committed) THEN NULL ELSE committed[1 + 1]
    BY <2>1, <2>2 DEF Linked
  <2>4. committed[2] \in alive
    BY <2>2 DEF QueuesInv
  <2> QED
    BY <2>1, <2>2, <2>3, <2>4
<1>2. /\ previous'[committed[2]] = NULL
      /\ \A c \in Callback : c # committed[2] => previous'[c] = previous[c]
      /\ UNCHANGED <<next, fLast, fFirst, broken, alive, asked, committed, element, server>>
  BY <1>1
<1>3. QueuesInv' /\ ~broken'
  BY <1>2 DEF QueuesInv
<1>4. PendingInv'
  <2>1. \A i \in 1 .. Len(asked) : previous'[asked[i]] = previous[asked[i]]
    BY <1>1, <1>2 DEF QueuesInv
  <2> QED
    BY <1>2, <2>1 DEF PendingInv, Starts, Stops, Linked
<1>5. Linked(Tail(committed), NULL, NULL)'
  <2>1. \A i \in 2 .. Len(committed) :
          i \in 1 .. Len(committed) /\ (committed[i] = committed[2] <=> i = 2)
    BY <1>1 DEF QueuesInv
  <2>2. \A i \in 2 .. Len(committed) :
          /\ previous'[committed[i]] = IF i = 2 THEN NULL ELSE committed[i - 1]
          /\ next'[committed[i]] = IF i = Len(committed) THEN NULL ELSE committed[i + 1]
    BY <1>2, <2>1 DEF RemovedInv, Linked
  <2> QED
    BY <1>1, <1>2, <2>2, TailLinked
<1>6. Stops("current", committed, 2)' /\ Starts("current", committed, 2)'
  BY <1>1, <1>2 DEF Stops, Starts, RemovedInv
<1>7. RemovedInv'
  BY <1>1, <1>2, <1>5, <1>6 DEF RemovedInv
<1> QED
  BY <1>3, <1>4, <1>7 DEF TakenInv

(* Remove takes its element out of the list, which is in order already.      *)
LEMMA RemoveClearStep ==
  ASSUME TypeOK, Lists, ~raced, ApartInv, RemoveClear
  PROVE  Lists'
<1>0. Len(committed) \in Nat /\ (committed # <<>> <=> Len(committed) # 0)
  BY FirstAndLast DEF Lists
<1> USE FirstAndLast DEF TypeOK, Lists, ApartInv, Calls, RemoveClear
<1>1. committed # <<>> /\ element = committed[1] /\ Linked(Tail(committed), NULL, NULL)
  BY DEF RemovedInv
<1>2. 1 \in 1 .. Len(committed) /\ committed[1] \in Callback
  BY <1>0, <1>1, OneOrMore
<1>3. /\ \A c \in Callback : c # committed[1] => previous'[c] = previous[c] /\ next'[c] = next[c]
      /\ UNCHANGED <<fLast, fFirst, broken, alive, asked, committed, element, server>>
  BY <1>1
<1>4. QueuesInv' /\ ~broken'
  BY <1>3 DEF QueuesInv
<1>5. PendingInv'
  <2>1. \A i \in 1 .. Len(asked) :
          previous'[asked[i]] = previous[asked[i]] /\ next'[asked[i]] = next[asked[i]]
    BY <1>2, <1>3 DEF QueuesInv
  <2> QED
    BY <1>3, <2>1 DEF PendingInv, Starts, Stops, Linked
<1>6. Linked(Tail(committed), NULL, NULL)'
  <2> DEFINE t == Tail(committed)
  <2>1. \A i \in 1 .. Len(t) : t[i] = committed[i + 1] /\ i + 1 \in 1 .. Len(committed) /\ i + 1 # 1
    BY <1>1, Beheaded
  <2>2. Linked(t, NULL, NULL) /\ Tail(committed') = t
    BY <1>1, <1>3
  <2> HIDE DEF t
  <2>3. \A i \in 1 .. Len(t) : previous'[t[i]] = previous[t[i]] /\ next'[t[i]] = next[t[i]]
    BY <1>2, <1>3, <2>1 DEF QueuesInv
  <2>4. \A i \in 1 .. Len(t) :
          /\ previous'[t[i]] = IF i = 1 THEN NULL ELSE t[i - 1]
          /\ next'[t[i]] = IF i = Len(t) THEN NULL ELSE t[i + 1]
    BY <2>2, <2>3 DEF Linked
  <2> HIDE FirstAndLast DEF TypeOK, Lists, ApartInv, Calls, RemoveClear
  <2> QED
    BY <2>2, <2>4 DEF Linked
<1>7. Stops("current", committed, 2)' /\ Starts("current", committed, 2)'
  BY <1>3 DEF Stops, Starts, RemovedInv
<1>8. RemovedInv'
  BY <1>1, <1>3, <1>6, <1>7 DEF RemovedInv
<1> QED
  BY <1>4, <1>5, <1>8 DEF TakenInv

(* The one answered is the first that was committed, and it still exists.    *)
LEMMA DoneStep ==
  ASSUME TypeOK, Lists, ~raced, ApartInv, Done
  PROVE  Lists'
<1>0. Len(committed) \in Nat /\ (committed # <<>> <=> Len(committed) # 0)
  BY FirstAndLast DEF Lists
<1> DEFINE t == Tail(committed)
<1> USE FirstAndLast DEF TypeOK, Lists, ApartInv, Calls, Done, Answer
<1>1. committed # <<>> /\ element = committed[1] /\ Linked(t, NULL, NULL)
  BY DEF RemovedInv
<1>2. 1 \in 1 .. Len(committed) /\ committed[1] \in alive
  BY <1>0, <1>1, OneOrMore DEF QueuesInv
<1>3. /\ Len(t) = Len(committed) - 1
      /\ \A i \in 1 .. Len(t) : t[i] = committed[i + 1] /\ i + 1 \in 1 .. Len(committed) /\ i + 1 # 1
      /\ element = Head(committed)
  BY <1>1, Beheaded
<1>4. /\ committed' = t /\ alive' = alive \ {committed[1]} /\ broken' = broken
      /\ UNCHANGED <<fLast, fFirst, next, previous, asked, server>> /\ window' = "isEmpty"
  BY <1>1, <1>2, <1>3
<1> HIDE DEF t
<1>5. QueuesInv'
  <2>1. \A i \in 1 .. Len(asked) : asked[i] \in alive'
    BY <1>2, <1>4 DEF QueuesInv
  <2>2. \A i \in 1 .. Len(t) : t[i] \in alive'
    BY <1>2, <1>3, <1>4 DEF QueuesInv
  <2>3. \A i, j \in 1 .. Len(t) : t[i] = t[j] => i = j
    BY <1>0, <1>3 DEF QueuesInv
  <2>4. \A i \in 1 .. Len(asked), j \in 1 .. Len(t) : asked[i] # t[j]
    BY <1>3 DEF QueuesInv
  <2> QED
    BY <1>4, <2>1, <2>2, <2>3, <2>4 DEF QueuesInv
<1>6. PendingInv'
  BY <1>4 DEF PendingInv, Starts, Stops, Linked
<1>7. Starts("current", committed, 1)' /\ Stops("current", committed, 1)'
  <2>1. /\ fFirst["current"] = IF 2 > Len(committed) THEN NULL ELSE committed[2]
        /\ fLast["current"] = IF 2 > Len(committed) THEN NULL ELSE committed[Len(committed)]
    BY DEF RemovedInv, Starts, Stops
  <2>2. CASE Len(t) = 0
    BY <1>0, <1>3, <1>4, <2>1, <2>2 DEF Starts, Stops
  <2>3. CASE Len(t) # 0
    <3>1. 1 \in 1 .. Len(t) /\ Len(t) \in 1 .. Len(t) /\ ~(1 > Len(t)) /\ ~(2 > Len(committed))
      BY <1>0, <1>1, <1>3, <2>3
    <3>2. t[1] = committed[2] /\ t[Len(t)] = committed[Len(committed)]
      BY <1>0, <1>3, <3>1
    <3> QED
      BY <1>4, <2>1, <3>1, <3>2 DEF Starts, Stops
  <2> QED
    BY <2>2, <2>3
<1>8. RemovedInv'
  <2>1. Linked(committed, NULL, NULL)'
    BY <1>1, <1>4 DEF Linked
  <2>2. window' = "isEmpty"
    BY <1>4
  <2> QED
    BY <1>7, <2>1, <2>2 DEF RemovedInv
<1> QED
  BY <1>4, <1>5, <1>6, <1>8 DEF TakenInv

(* The steps that are not at a list. *)
LEMMA OtherStep ==
  ASSUME TypeOK, Lists, Attach \/ Detach \/ Uncover \/ Draw \/ Over
  PROVE  Lists'
<1>1. /\ UNCHANGED <<list, alive, broken, asked, committed, server, tail, element>>
      /\ Walking' = Walking /\ (Walking => window' = window)
  BY DEF TypeOK, Attach, Detach, Uncover, Draw, Over
<1>2. QueuesInv' /\ ~broken'
  BY <1>1 DEF Lists, QueuesInv
<1>3. PendingInv'
  BY <1>1 DEF Lists, PendingInv, Starts, Stops, Linked
<1>4. TakenInv'
  BY <1>1 DEF Lists, TakenInv, Starts, Stops, Linked
<1>5. RemovedInv'
  BY <1>1 DEF Lists, RemovedInv, Starts, Stops, Linked
<1> QED
  BY <1>2, <1>3, <1>4, <1>5 DEF Lists

LEMMA ListStep == TypeOK /\ LockInv /\ ApartInv /\ ListInv /\ [Next]_vars => ListInv'
<1> SUFFICES ASSUME TypeOK, LockInv, ApartInv, ListInv, [Next]_vars, ~raced'
             PROVE  Lists'
  BY DEF ListInv, Lists
<1>1. ~raced
  BY RacedStays
<1>2. Lists
  BY <1>1 DEF ListInv, Lists
<1>3. ApartInv'
  BY LockStep
<1>4. ASSUME NEW c \in Callback, HandleFrame(c) PROVE Lists'
  BY <1>2, <1>4, FrameStep
<1>5. ASSUME NEW changes \in BOOLEAN, HandleCommit(changes) PROVE Lists'
  BY <1>2, <1>3, <1>5, CommitStep
<1>6. CASE ServerStep
  BY <1>1, <1>2, <1>6, TakeStep, LinkNextStep, LinkPreviousStep, SetLastStep, FinishStep DEF ServerStep
<1>7. CASE WindowStep
  BY <1>1, <1>2, <1>3, <1>7, ComeStep, RemoveHeadStep, UnlinkNextStep, IsLastStep, RemoveLastStep,
     UnlinkPreviousStep, RemoveClearStep, DoneStep DEF WindowStep
<1>8. CASE Pulse
  BY <1>1, <1>2, <1>3, <1>8, ComeStep
<1>9. CASE Attach \/ Detach \/ Uncover \/ Draw \/ Over
  BY <1>2, <1>9, OtherStep
<1>10. CASE UNCHANGED vars
  <2>1. CASE raced
    BY <1>1, <2>1
  <2>2. Lists' <=> Lists
    BY <1>10 DEF Lists, QueuesInv, PendingInv, TakenInv, RemovedInv, Starts, Stops, Linked
  <2> QED
    BY <1>2, <2>2
<1> QED
  BY <1>4, <1>5, <1>6, <1>7, <1>8, <1>9, <1>10 DEF Next

-----------------------------------------------------------------------------
(* Callbacks that exist *)

NoneLeaks == ~raced => \A c \in alive : Among(c, asked) \/ Among(c, committed)

LEMMA AskedStay ==
  ASSUME TypeOK, NoneLeaks, ~raced, NEW c \in Callback, HandleFrame(c) PROVE NoneLeaks'
<1> USE DEF TypeOK
<1> DEFINE n == Len(asked)
<1>1. /\ n \in Nat /\ Len(asked') = n + 1 /\ asked'[n + 1] = c
      /\ \A i \in 1 .. n : asked'[i] = asked[i] /\ i \in 1 .. n + 1
      /\ n + 1 \in 1 .. n + 1
  BY Appended, Elements DEF HandleFrame
<1>2. alive' = alive \cup {c} /\ committed' = committed
  BY DEF HandleFrame
<1>3. Among(c, asked')
  BY <1>1 DEF Among
<1>4. \A x : Among(x, asked) => Among(x, asked')
  BY <1>1 DEF Among
<1> QED
  BY <1>2, <1>3, <1>4 DEF NoneLeaks

LEMMA CommittedStay ==
  ASSUME TypeOK, NoneLeaks, ~raced, SetLast PROVE NoneLeaks'
<1> USE DEF TypeOK
<1> DEFINE n == Len(committed)
           m == Len(asked)
<1>1. /\ n \in Nat /\ m \in Nat /\ Len(committed') = n + m
      /\ \A i \in 1 .. n : committed'[i] = committed[i] /\ i \in 1 .. n + m
      /\ \A i \in 1 .. m : committed'[n + i] = asked[i] /\ n + i \in 1 .. n + m
  BY Joined, Elements DEF SetLast
<1>2. alive' = alive
  BY DEF SetLast, Takes
<1>3. \A x : Among(x, asked) \/ Among(x, committed) => Among(x, committed')
  BY <1>1 DEF Among
<1> QED
  BY <1>2, <1>3 DEF NoneLeaks

(* What is freed is what leaves the queue. *)
LEMMA AnsweredGoes ==
  ASSUME TypeOK, ListInv, NoneLeaks, ~raced, Done PROVE NoneLeaks'
<1> USE DEF TypeOK
<1> DEFINE t == Tail(committed)
<1>1. committed # <<>> /\ element = committed[1] /\ 1 \in 1 .. Len(committed)
      /\ committed[1] \in alive
  <2>1. Lists
    BY DEF ListInv, Lists
  <2>2. committed # <<>> /\ element = committed[1]
    BY <2>1 DEF Lists, RemovedInv, Done, Answer, Calls
  <2> QED
    BY <2>1, <2>2, Elements, OneOrMore DEF Lists, QueuesInv
<1>2. /\ Len(committed) \in Nat /\ Len(t) = Len(committed) - 1 /\ Head(committed) = committed[1]
      /\ \A i \in 1 .. Len(t) : t[i] = committed[i + 1]
  BY <1>1, Beheaded
<1>3. committed' = t /\ alive' = alive \ {committed[1]} /\ asked' = asked
  BY <1>1, <1>2 DEF Done, Answer, Calls
<1> HIDE DEF t
<1>4. ASSUME NEW x, Among(x, committed), x # committed[1] PROVE Among(x, t)
  <2>1. PICK i \in 1 .. Len(committed) : committed[i] = x
    BY <1>4 DEF Among
  <2>2. i - 1 \in 1 .. Len(t) /\ t[i - 1] = x
    BY <1>2, <1>4, <2>1
  <2> QED
    BY <2>2 DEF Among
<1> QED
  BY <1>3, <1>4 DEF NoneLeaks

LEMMA NoneLeaksStep ==
  ASSUME TypeOK, ListInv, NoneLeaks, [Next]_vars PROVE NoneLeaks'
<1>1. CASE raced
  BY <1>1, RacedStays DEF NoneLeaks
<1>2. CASE ~raced
  <2>1. ASSUME NEW c \in Callback, HandleFrame(c) PROVE NoneLeaks'
    BY <1>2, <2>1, AskedStay
  <2>2. CASE SetLast
    BY <1>2, <2>2, CommittedStay
  <2>3. CASE Done
    BY <1>2, <2>3, AnsweredGoes
  <2>4. CASE UNCHANGED <<alive, asked, committed>>
    BY <1>2, <2>4 DEF NoneLeaks, Among
  <2> QED
    BY <2>1, <2>2, <2>3, <2>4 DEF Next, HandleCommit, ServerStep, Take, ReadLast, LinkNext,
       LinkPrevious, FillFirst, Finish, Takes, Attach, Detach, Pulse, Uncover, Draw, Over,
       WindowStep, OpenEnv, RemoveHead, UnlinkNext, IsLast, RemoveLast, UnlinkPrevious,
       RemoveClear, Calls
<1> QED
  BY <1>1, <1>2

(* As long as the window and a commit have not met at the committed list, no *)
(* request, commit, pulse or draw uses memory that is freed or loses, adds,  *)
(* reorders or leaks a callback, however many there are.                     *)
THEOREM ListsStayQueues == Spec => []ListsAreQueues
<1>1. Init => TypeOK /\ LockInv /\ ApartInv /\ ListInv /\ NoneLeaks
  <2> SUFFICES ASSUME Init PROVE TypeOK /\ LockInv /\ ApartInv /\ ListInv /\ NoneLeaks
    OBVIOUS
  <2>1. TypeOK
    BY EmptySeq DEF Init, TypeOK
  <2>2. LockInv /\ ApartInv
    BY DEF Init, LockInv, ApartInv
  <2>3. ListInv
    BY EmptySeq DEF Init, ListInv, QueuesInv, PendingInv, TakenInv, RemovedInv, Starts, Stops, Linked
  <2>4. NoneLeaks
    BY DEF Init, NoneLeaks
  <2> QED
    BY <2>1, <2>2, <2>3, <2>4
<1>2. TypeOK /\ ApartInv /\ ListInv /\ NoneLeaks => ListsAreQueues
  <2> SUFFICES ASSUME TypeOK, Lists, NoneLeaks, ~raced
               PROVE  /\ ~broken
                      /\ alive = {c \in Callback : Among(c, asked) \/ Among(c, committed)}
                      /\ server = "idle" /\ window \in {"idle", "opening"} =>
                             Chain("pending", asked) /\ Chain("current", committed)
                      /\ window = "done" =>
                             committed # <<>> /\ element = committed[1] /\ element \in alive
    BY DEF ListInv, Lists, ListsAreQueues
  <2> USE DEF Lists
  <2>1. Len(committed) \in Nat /\ (committed # <<>> <=> Len(committed) # 0)
        /\ Len(asked) \in Nat /\ (asked # <<>> <=> Len(asked) # 0)
    BY FirstAndLast
  <2>2. ASSUME server = "idle" PROVE Chain("pending", asked)
    <3>1. Starts("pending", asked, 1) /\ Stops("pending", asked, 1) /\ Linked(asked, NULL, NULL)
      BY <2>2 DEF PendingInv
    <3> QED
      BY <2>1, <3>1 DEF Starts, Stops, Linked, Chain
  <2>3. ASSUME server = "idle", ~Walking PROVE Chain("current", committed)
    <3>1. Starts("current", committed, 1) /\ Stops("current", committed, 1) /\ Linked(committed, NULL, NULL)
      BY <2>3 DEF TakenInv
    <3> QED
      BY <2>1, <3>1 DEF Starts, Stops, Linked, Chain
  <2>4. ASSUME window = "done" PROVE committed # <<>> /\ element = committed[1] /\ element \in alive
    <3>1. committed # <<>> /\ element = committed[1]
      BY <2>4 DEF RemovedInv
    <3>2. committed[1] \in alive
      BY <2>1, <3>1, OneOrMore DEF QueuesInv
    <3> QED
      BY <3>1, <3>2
  <2>5. alive = {c \in Callback : Among(c, asked) \/ Among(c, committed)}
    BY DEF TypeOK, NoneLeaks, Among, QueuesInv
  <2> QED
    BY <2>2, <2>3, <2>4, <2>5
<1> QED
  BY <1>1, <1>2, TypeCorrect, LockStep, ListStep, NoneLeaksStep, PTL DEF Spec
=============================================================================
