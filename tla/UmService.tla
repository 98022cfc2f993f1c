------------------------------ MODULE UmService ------------------------------
(***************************************************************************)
(* What RLC UM promises PDCP (the abstract specification of RlcUm): SDUs   *)
(* may get lost, but those that arrive do so once and in the order they    *)
(* were handed over.                                                       *)
(***************************************************************************)
EXTENDS Naturals, Sequences

VARIABLES
    accepted,   \* how many SDUs PDCP handed over
    delivered   \* the SDUs PDCP got at the other end

Init == accepted = 0 /\ delivered = <<>>

Send == accepted' = accepted + 1 /\ UNCHANGED delivered

\* Any number of SDUs arrive, each later than all before it.
Deliver ==
    /\ Len(delivered') >= Len(delivered)
    /\ \A i \in 1..Len(delivered) : delivered'[i] = delivered[i]
    /\ \A i \in (Len(delivered) + 1)..Len(delivered') :
          /\ delivered'[i] \in 0..(accepted - 1)
          /\ i > 1 => delivered'[i] > delivered'[i - 1]
    /\ UNCHANGED accepted

Spec == Init /\ [][Send \/ Deliver]_<<accepted, delivered>>
=============================================================================
