------------------------------ MODULE MCHarqDl ------------------------------
(* Instances of HarqDl for TLC: the bounds are in the .cfg files. *)
EXTENDS HarqDl
=============================================================================
