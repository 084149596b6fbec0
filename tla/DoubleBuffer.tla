--------------------------- MODULE DoubleBuffer -----------------------------
(***************************************************************************)
(* What wl_surface promises of its state: requests change the pending      *)
(* state alone, a request changes no more than it names, and a commit      *)
(* makes all of the pending state current at once and loses none of it.    *)
(***************************************************************************)
CONSTANTS
    Surface,  \* surfaces
    Member,   \* parts of a surface's state
    Request   \* the sets of members a single request names

VARIABLES
    state,    \* the current state of each surface
    pending   \* the state the next commit makes current

vars == <<state, pending>>

Init == state = pending

Differing(old, new) == {m \in Member : new[m] # old[m]}

Ask(s) ==
    /\ UNCHANGED state
    /\ \A t \in Surface \ {s} : pending'[t] = pending[t]
    /\ LET changed == Differing(pending[s], pending'[s])
       IN  \E asked \in Request : changed \subseteq asked

Commit(s) ==
    /\ UNCHANGED pending
    /\ state' = [state EXCEPT ![s] = pending[s]]

Next == \E s \in Surface : Ask(s) \/ Commit(s)

Spec == Init /\ [][Next]_vars
=============================================================================
