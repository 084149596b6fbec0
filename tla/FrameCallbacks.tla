--------------------------- MODULE FrameCallbacks ---------------------------
(***************************************************************************)
(* The frame callbacks of one surface: the client asks for them, a commit  *)
(* hands them over, and a draw or a pulse of the window answers and frees  *)
(* them (HaikuSurface and WaylandView in HaikuCompositor.cpp, the list in  *)
(* util/DoublyLinkedList.h, link by link).                                 *)
(*                                                                         *)
(* Two threads walk on the list of committed callbacks.  Requests run in   *)
(* the server's looper under its lock.  With the frame rate limit disabled *)
(* the callbacks are called by Draw, which has a WaylandEnv; otherwise by  *)
(* Pulse, which has only the window's own lock.  A step is one access to   *)
(* memory both threads use; the list of pending callbacks is the server's. *)
(***************************************************************************)
EXTENDS Naturals, Sequences

CONSTANTS
    Callback,  \* wl_callbacks, by address
    NULL

ASSUME CallbackAssumption == NULL \notin Callback

VARIABLES
    fFramerateLimitDisabled, \* HAIWAY_FRAMERATE_LIMIT, read by each view
    isSubsurface,            \* the surface has a parent, which draws it
    hasView, invalid,        \* it has a WaylandView; a Draw of it is owed
    lock,                    \* who has the server's lock
    server, window,          \* where each thread is
    visual,                  \* the commit under way changes what is drawn
    element, tail,           \* locals of Remove and TakeFrom
    fFirst, fLast,           \* of the two lists
    next, previous,          \* DoublyLinkedListLink, of each callback
    alive,                   \* callbacks that exist
    broken,                  \* NULL was used, or memory that is freed
    asked, committed,        \* the callbacks as the client means them
    raced                    \* both threads were at the committed list

list == <<fFirst, fLast, next, previous>>
fixed == <<fFramerateLimitDisabled, isSubsurface>>
view == <<hasView, invalid>>
vars == <<fixed, view, lock, server, window, visual, element, tail, list, alive, broken,
          asked, committed, raced>>

List == {"pending", "current"}
Server == {"idle", "take", "append", "linkNext", "linkPrevious", "setLast", "fillFirst",
           "fillLast", "finish"}
Window == {"idle", "opening", "isEmpty", "unlinkNext", "isLast", "setLast", "unlinkPrevious",
           "clear", "done"}
Nobody == "nobody"

Init ==
    /\ fFramerateLimitDisabled \in BOOLEAN /\ isSubsurface \in BOOLEAN
    /\ hasView = FALSE /\ invalid = FALSE
    /\ lock = Nobody /\ server = "idle" /\ window = "idle" /\ visual = FALSE
    /\ element = NULL /\ tail = NULL
    /\ fFirst = [l \in List |-> NULL] /\ fLast = [l \in List |-> NULL]
    /\ next = [c \in Callback |-> NULL] /\ previous = [c \in Callback |-> NULL]
    /\ alive = {} /\ broken = FALSE
    /\ asked = <<>> /\ committed = <<>> /\ raced = FALSE

(* A thread comes to the committed list, while the other may be at it.      *)
Meet ==
    raced' = (raced \/ /\ server' \in Server \ {"idle", "finish"}
                       /\ window' \in Window \ {"idle", "opening"})

-----------------------------------------------------------------------------
(* Requests *)

(* Insert, at the back of list l. *)
Insert(l, c) ==
    LET last == fLast[l]
    IN  /\ previous' = [previous EXCEPT ![c] = last]
        /\ next' = IF last = NULL THEN [next EXCEPT ![c] = NULL]
                   ELSE [next EXCEPT ![c] = NULL, ![last] = c]
        /\ fFirst' = IF last = NULL THEN [fFirst EXCEPT ![l] = c] ELSE fFirst
        /\ fLast' = [fLast EXCEPT ![l] = c]

HandleFrame(c) ==
    /\ ~raced /\ server = "idle" /\ lock = Nobody /\ c \notin alive
    /\ alive' = alive \cup {c}
    /\ Insert("pending", c)
    /\ asked' = Append(asked, c)
    /\ UNCHANGED <<fixed, view, lock, server, window, visual, element, tail, broken, committed,
                   raced>>

(* HandleCommit takes the pending callbacks, and draws again if something   *)
(* but them has changed.                                                    *)
HandleCommit(changes) ==
    /\ ~raced /\ server = "idle" /\ lock = Nobody
    /\ lock' = "server" /\ visual' = changes
    /\ server' = IF fFirst["pending"] = NULL THEN "finish" ELSE "take"
    /\ UNCHANGED <<fixed, view, window, element, tail, list, alive, broken, asked, committed>>
    /\ Meet

(* A step inside DoublyLinkedList::TakeFrom. *)
Takes(from, to) ==
    /\ ~broken /\ server = from /\ server' = to
    /\ UNCHANGED <<fixed, view, lock, window, visual, element, alive, raced>>

Take ==
    /\ Takes("take", IF fFirst["current"] = NULL THEN "fillFirst" ELSE "append")
    /\ UNCHANGED <<tail, list, broken, asked, committed>>

ReadLast ==
    /\ Takes("append", "linkNext")
    /\ tail' = fLast["current"]
    /\ UNCHANGED <<list, broken, asked, committed>>

LinkNext ==
    /\ Takes("linkNext", "linkPrevious")
    /\ IF tail \in alive
       THEN next' = [next EXCEPT ![tail] = fFirst["pending"]] /\ UNCHANGED broken
       ELSE broken' = TRUE /\ UNCHANGED next
    /\ UNCHANGED <<tail, fFirst, fLast, previous, asked, committed>>

(* Faulty: the chain is joined in one direction. *)
LinkPreviousForgotten ==
    Takes("linkPrevious", "setLast") /\ UNCHANGED <<tail, list, broken, asked, committed>>

LinkPrevious ==
    /\ Takes("linkPrevious", "setLast")
    /\ IF fFirst["pending"] \in alive
       THEN /\ previous' = [previous EXCEPT ![fFirst["pending"]] = fLast["current"]]
            /\ UNCHANGED broken
       ELSE broken' = TRUE /\ UNCHANGED previous
    /\ UNCHANGED <<tail, fFirst, fLast, next, asked, committed>>

FillFirst ==
    /\ Takes("fillFirst", "fillLast")
    /\ fFirst' = [fFirst EXCEPT !["current"] = fFirst["pending"]]
    /\ UNCHANGED <<tail, fLast, next, previous, broken, asked, committed>>

SetLast ==
    /\ server \in {"setLast", "fillLast"} /\ Takes(server, "finish")
    /\ fLast' = [fLast EXCEPT !["current"] = fLast["pending"]]
    /\ committed' = committed \o asked /\ asked' = <<>>
    /\ UNCHANGED <<tail, fFirst, next, previous, broken>>

(* The pending list is empty, and the commit goes on to the view, under the *)
(* window's lock.                                                           *)
Finish ==
    /\ ~broken /\ server = "finish" /\ server' = "idle" /\ lock' = Nobody
    /\ hasView => window \in {"idle", "opening"}
    /\ fFirst' = [fFirst EXCEPT !["pending"] = NULL]
    /\ fLast' = [fLast EXCEPT !["pending"] = NULL]
    /\ invalid' = (invalid \/ (hasView /\ visual))
    /\ visual' = FALSE /\ tail' = NULL
    /\ UNCHANGED <<fixed, hasView, window, element, next, previous, alive, broken, asked,
                   committed, raced>>

(* AttachWindow or AttachView: a view, which the app_server has drawn. *)
Attach ==
    /\ ~raced /\ server = "idle" /\ lock = Nobody /\ ~hasView
    /\ hasView' = TRUE /\ invalid' = TRUE
    /\ UNCHANGED <<fixed, lock, server, window, visual, element, tail, list, alive, broken,
                   asked, committed, raced>>

(* Detach waits for the window's lock, and for its env. *)
Detach ==
    /\ ~raced /\ server = "idle" /\ lock = Nobody /\ hasView /\ window = "idle"
    /\ hasView' = FALSE /\ invalid' = FALSE
    /\ UNCHANGED <<fixed, lock, server, window, visual, element, tail, list, alive, broken,
                   asked, committed, raced>>
-----------------------------------------------------------------------------
(* The window *)

(* WaylandView::Pulse; a draw then does nothing about callbacks. *)
Pulse ==
    /\ ~raced /\ window = "idle" /\ hasView /\ ~fFramerateLimitDisabled
    /\ window' = "isEmpty"
    /\ UNCHANGED <<fixed, view, lock, server, visual, element, tail, list, alive, broken,
                   asked, committed>>
    /\ Meet

(* The app_server asks for a Draw, also because the view was uncovered. *)
Uncover ==
    /\ ~raced /\ hasView /\ ~invalid /\ fFramerateLimitDisabled
    /\ invalid' = TRUE
    /\ UNCHANGED <<fixed, hasView, lock, server, window, visual, element, tail, list, alive,
                   broken, asked, committed, raced>>

(* WaylandView::Draw is called and wants its env. *)
Draw ==
    /\ ~raced /\ window = "idle" /\ hasView /\ invalid /\ fFramerateLimitDisabled
    /\ window' = "opening" /\ invalid' = FALSE
    /\ UNCHANGED <<fixed, hasView, lock, server, visual, element, tail, list, alive, broken,
                   asked, committed, raced>>

(* Faulty: Draw does without an env, as Pulse does. *)
OpenNoEnv ==
    /\ ~broken /\ window = "opening"
    /\ window' = IF isSubsurface THEN "idle" ELSE "isEmpty"
    /\ UNCHANGED <<fixed, view, lock, server, visual, element, tail, list, alive, broken,
                   asked, committed>>
    /\ Meet

(* A subsurface is drawn by its root: its own Draw returns at once. *)
OpenEnv ==
    /\ ~broken /\ window = "opening" /\ lock = Nobody
    /\ window' = IF isSubsurface THEN "idle" ELSE "isEmpty"
    /\ lock' = IF isSubsurface THEN Nobody ELSE "window"
    /\ UNCHANGED <<fixed, view, server, visual, element, tail, list, alive, broken,
                   asked, committed>>
    /\ Meet

(* A step inside CallFrameCallbacks. *)
Calls(from, to) ==
    /\ ~broken /\ window = from /\ window' = to
    /\ UNCHANGED <<fixed, view, server, visual, tail, asked, raced>>

(* RemoveHead, of a list that is not empty. *)
RemoveHead ==
    /\ Calls("isEmpty", IF fFirst["current"] = NULL THEN "idle" ELSE "unlinkNext")
    /\ element' = fFirst["current"]
    /\ lock' = IF fFirst["current"] = NULL /\ lock = "window" THEN Nobody ELSE lock
    /\ UNCHANGED <<list, alive, broken, committed>>

(* Remove: its assignments. *)
UnlinkNext ==
    /\ Calls("unlinkNext", "isLast")
    /\ IF element = fFirst["current"]
       THEN fFirst' = [fFirst EXCEPT !["current"] = next[element]] /\ UNCHANGED <<next, broken>>
       ELSE /\ broken' = (previous[element] \notin alive)
            /\ next' = [c \in Callback |-> IF c = previous[element] THEN next[element] ELSE next[c]]
            /\ UNCHANGED fFirst
    /\ UNCHANGED <<lock, element, fLast, previous, alive, committed>>

IsLast ==
    /\ Calls("isLast", IF element = fLast["current"] THEN "setLast" ELSE "unlinkPrevious")
    /\ UNCHANGED <<lock, element, list, alive, broken, committed>>

RemoveLast ==
    /\ Calls("setLast", "clear")
    /\ fLast' = [fLast EXCEPT !["current"] = previous[element]]
    /\ UNCHANGED <<lock, element, fFirst, next, previous, alive, broken, committed>>

UnlinkPrevious ==
    /\ Calls("unlinkPrevious", "clear")
    /\ broken' = (next[element] \notin alive)
    /\ previous' = [c \in Callback |-> IF c = next[element] THEN previous[element] ELSE previous[c]]
    /\ UNCHANGED <<lock, element, fFirst, fLast, next, alive, committed>>

RemoveClear ==
    /\ Calls("clear", "done")
    /\ next' = [next EXCEPT ![element] = NULL]
    /\ previous' = [previous EXCEPT ![element] = NULL]
    /\ UNCHANGED <<lock, element, fFirst, fLast, alive, broken, committed>>

(* SendDone and Destroy: the client hears of it, and the memory is free. *)
Answer(after) ==
    /\ Calls("done", after)
    /\ IF element \in alive THEN alive' = alive \ {element} /\ UNCHANGED broken
       ELSE broken' = TRUE /\ UNCHANGED alive
    /\ committed' = IF committed # <<>> /\ element = Head(committed) THEN Tail(committed) ELSE committed
    /\ element' = NULL
    /\ UNCHANGED list

(* Faulty: one callback for one draw. *)
DoneFirst == Answer("idle") /\ lock' = IF lock = "window" THEN Nobody ELSE lock

Done == Answer("isEmpty") /\ UNCHANGED lock

(* The bound on races: once the threads have met they end what they have      *)
(* begun, or crash, and nothing new begins.                                   *)
Over == raced /\ UNCHANGED vars

ServerStep == Take \/ ReadLast \/ LinkNext \/ LinkPrevious \/ FillFirst \/ SetLast \/ Finish
WindowStep ==
    \/ OpenEnv \/ RemoveHead \/ UnlinkNext \/ IsLast \/ RemoveLast \/ UnlinkPrevious
    \/ RemoveClear \/ Done

Next ==
    \/ \E c \in Callback : HandleFrame(c)
    \/ \E changes \in BOOLEAN : HandleCommit(changes)
    \/ ServerStep \/ Attach \/ Detach
    \/ Pulse \/ Uncover \/ Draw \/ WindowStep
    \/ Over

Spec == Init /\ [][Next]_vars

(* The threads go on with what they have begun, pulses keep coming, and a   *)
(* view whose Draw is owed is drawn.                                        *)
FairSpec ==
    /\ Spec
    /\ WF_vars(ServerStep)
    /\ SF_vars(WindowStep)
    /\ SF_vars(Pulse)
    /\ SF_vars(Draw)
-----------------------------------------------------------------------------
(* Properties *)

TypeOK ==
    /\ fFramerateLimitDisabled \in BOOLEAN /\ isSubsurface \in BOOLEAN
    /\ hasView \in BOOLEAN /\ invalid \in BOOLEAN
    /\ lock \in {Nobody, "server", "window"}
    /\ server \in Server /\ window \in Window /\ visual \in BOOLEAN
    /\ element \in Callback \cup {NULL} /\ tail \in Callback \cup {NULL}
    /\ fFirst \in [List -> Callback \cup {NULL}] /\ fLast \in [List -> Callback \cup {NULL}]
    /\ next \in [Callback -> Callback \cup {NULL}]
    /\ previous \in [Callback -> Callback \cup {NULL}]
    /\ alive \subseteq Callback /\ broken \in BOOLEAN
    /\ asked \in Seq(Callback) /\ committed \in Seq(Callback) /\ raced \in BOOLEAN

(* The links of a list are the queue q, in both directions. *)
Chain(l, q) ==
    /\ fFirst[l] = IF q = <<>> THEN NULL ELSE q[1]
    /\ fLast[l] = IF q = <<>> THEN NULL ELSE q[Len(q)]
    /\ \A i \in 1 .. Len(q) :
         /\ previous[q[i]] = IF i = 1 THEN NULL ELSE q[i - 1]
         /\ next[q[i]] = IF i = Len(q) THEN NULL ELSE q[i + 1]

Among(c, q) == \E i \in 1 .. Len(q) : q[i] = c

(* Unless the threads met, Insert, TakeFrom and Remove keep both lists: no    *)
(* NULL or freed memory is used; with nobody at them, their links are the     *)
(* callbacks the client asked for and committed, in its order, none lost; the *)
(* one answered next is the one committed first; and none leaks: those that   *)
(* exist are those that are to be committed or answered.                      *)
ListsAreQueues == ~raced =>
    /\ ~broken
    /\ alive = {c \in Callback : Among(c, asked) \/ Among(c, committed)}
    /\ server = "idle" /\ window \in {"idle", "opening"} =>
           Chain("pending", asked) /\ Chain("current", committed)
    /\ window = "done" => committed # <<>> /\ element = committed[1] /\ element \in alive

(* With the frame rate limit disabled the env of Draw keeps the window from   *)
(* the list while a commit is at it.                                          *)
EnvKeepsApart == fFramerateLimitDisabled => ~raced

(* A committed callback that something will call: a pulse, or a draw owed    *)
(* to a surface that draws itself.                                           *)
Due(c) ==
    /\ Among(c, committed)
    /\ hasView
    /\ fFramerateLimitDisabled => invalid /\ ~isSubsurface

(* A client that waits for a callback draws again: it is answered in the     *)
(* end, unless the surface loses its view or the threads met.                *)
CallbacksAnswered == \A c \in Callback : Due(c) ~> (c \notin alive \/ ~hasView \/ raced)
=============================================================================
