--------------------------- MODULE MCDataDevice ---------------------------
(* A small instance of DataDevice, with three sources, so that one is       *)
(* replaced while another waits for its end, and of DataTransfer, with one  *)
(* type of each kind the conversions tell apart.  They share no variable:   *)
(* which source is in use does not depend on its data, nor what becomes of  *)
(* data on who uses it.  So the one stays at its beginning while the other  *)
(* goes on.                                                                 *)
EXTENDS DataDevice, DataTransfer, TLC

CONSTANTS r, s, t

Sources == {r, s, t}

Types == {Utf8, Utf8String, Plain, Uris, Png, MozUrl, Netscape, Html, "DELETE"}

AnySource == Permutations(Sources)

InstanceInit == Init /\ InitTransfer

InstanceNext ==
    \/ InitTransfer /\ Next /\ UNCHANGED transferVars
    \/ Init /\ NextTransfer /\ UNCHANGED deviceVars

InstanceSpec == InstanceInit /\ [][InstanceNext]_<<deviceVars, transferVars>>
===========================================================================
