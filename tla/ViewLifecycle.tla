--------------------------- MODULE ViewLifecycle ----------------------------
(***************************************************************************)
(* What the server promises about the views that stand for wayland         *)
(* surfaces, with no locks, semaphores or threads: a view is taken out of  *)
(* its window only while no handler is running on it, a surface goes away  *)
(* only after its view, and input focus is given to surfaces on screen, by *)
(* a running handler, and never outlives the surface.                      *)
(***************************************************************************)
CONSTANT Surface

VARIABLES
    live,     \* the surfaces that exist
    shown,    \* the surfaces whose view is in a window
    busy,     \* the surfaces a handler is running on
    focus     \* the surfaces that have the pointer or the keyboard

lifeVars == <<live, shown, busy, focus>>

Init == live = {} /\ shown = {} /\ busy = {} /\ focus = {}

Create(s) ==
    /\ s \notin live
    /\ live' = live \cup {s}
    /\ UNCHANGED <<shown, busy, focus>>

(* A window, or a parent's view, may bring the views of subsurfaces along. *)
Show(S) ==
    /\ S \cap shown = {} /\ S \subseteq live
    /\ shown' = shown \cup S
    /\ UNCHANGED <<live, busy, focus>>

Enter(s) ==
    /\ s \in shown \ busy
    /\ busy' = busy \cup {s}
    /\ UNCHANGED <<live, shown, focus>>

Leave(s) ==
    /\ s \in busy
    /\ busy' = busy \ {s}
    /\ UNCHANGED <<live, shown, focus>>

Focus(F) ==
    /\ busy # {}
    /\ F \subseteq focus \cup shown
    /\ focus' = F
    /\ UNCHANGED <<live, shown, busy>>

Remove(s) ==
    /\ s \in shown \ busy
    /\ shown' = shown \ {s}
    /\ UNCHANGED <<live, busy, focus>>

Destroy(s) ==
    /\ s \in live \ shown
    /\ live' = live \ {s}
    /\ focus' = focus \ {s}
    /\ UNCHANGED <<shown, busy>>

Next ==
    \/ \E s \in Surface : Create(s) \/ Enter(s) \/ Leave(s) \/ Remove(s) \/ Destroy(s)
    \/ \E S \in SUBSET Surface : Show(S) \/ Focus(S)

Spec == Init /\ [][Next]_lifeVars
=============================================================================
