-------------------------- MODULE MCXdgConfigure ----------------------------
(* A small instance of XdgConfigure for TLC. *)
EXTENDS XdgConfigure

SomeLimits == {<<5, 5>>}
=============================================================================
