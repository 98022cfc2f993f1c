--------------------------- MODULE MCMecLifecycle ---------------------------
(* Instances of MecLifecycle for TLC: the bounds are in the .cfg files.    *)
EXTENDS MecLifecycle
=============================================================================
