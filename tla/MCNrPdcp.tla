------------------------------ MODULE MCNrPdcp ------------------------------
(* Instances of NrPdcp for TLC: the bounds are in the .cfg files. *)
EXTENDS NrPdcp
=============================================================================
