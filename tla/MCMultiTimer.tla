---------------------------- MODULE MCMultiTimer ----------------------------
(* Instances of MultiTimer for TLC: the bounds are in the .cfg file. *)
EXTENDS MultiTimer
=============================================================================
