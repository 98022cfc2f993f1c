------------------------------- MODULE MCRlcAm -------------------------------
(* Instances of RlcAm for TLC: the bounds are in the .cfg files. *)
EXTENDS RlcAm, TLC

\* The HARQ processes of a direction are interchangeable.
Symmetry == Permutations(Procs) \cup Permutations(CtlProcs)
=============================================================================
