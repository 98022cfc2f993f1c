------------------------------- MODULE MCRlcUm -------------------------------
(* Instances of RlcUm for TLC: the bounds are in the .cfg file. *)
EXTENDS RlcUm
=============================================================================
