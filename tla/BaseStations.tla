---------------------------- MODULE BaseStations ----------------------------
(* What the two models of a handover, at the base stations and at the UE,   *)
(* have in common.                                                          *)
CONSTANTS
    Bs,             \* base stations
    NoBs            \* node id 0: not attached, or no entry

ASSUME BsAssumption == NoBs \notin Bs
=============================================================================
