---------------------------- MODULE MCWaylandEnv ----------------------------
(* Small instances of WaylandEnv for TLC. *)
EXTENDS WaylandEnv, TLC

CONSTANTS r, c, d, w1, w2

(* A root surface with one subsurface. *)
ParentOne == (r :> None)

ParentPair == (r :> None) @@ (c :> r)

(* A subsurface with a subsurface of its own. *)
ParentChain == (r :> None) @@ (c :> r) @@ (d :> c)
=============================================================================
