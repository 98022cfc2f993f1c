------------------------------ MODULE MCUlMac ------------------------------
(* The uplink of UlMac for TLC: the smallest number of processes that is    *)
(* enough for the evaluation time.                                         *)
EXTENDS UlMac
=============================================================================
