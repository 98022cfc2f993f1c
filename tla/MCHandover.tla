----------------------------- MODULE MCHandover -----------------------------
(* Instances of HandoverForwarding for TLC: the bounds are in the .cfg      *)
(* files.                                                                   *)
EXTENDS HandoverForwarding
=============================================================================
