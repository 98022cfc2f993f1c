------------------------------- MODULE MCNrUe -------------------------------
(* Instances of NrUeHandover for TLC: the bounds are in the .cfg files.     *)
EXTENDS NrUeHandover, TLC

CONSTANTS e1, e2, g1, g2, g3
(* One level below MinRssi, the others further apart than the hysteresis.   *)
FourLevels == {-5, 10, 20, 30}

(* A secondary node of each eNB, and a gNB that is nobody's secondary node. *)
OneEachAndOneAlone ==
    (e1 :> e1) @@ (e2 :> e2) @@ (g1 :> e1) @@ (g2 :> e2) @@ (g3 :> g3)
=============================================================================
