---------------------------- MODULE HarqService ----------------------------
(***************************************************************************)
(* What the H-ARQ of a MAC promises to the RLC above it: the abstract      *)
(* specification that HarqDl implements, with neither processes nor slots  *)
(* nor retransmissions.                                                    *)
(***************************************************************************)
EXTENDS Naturals

CONSTANT Pdus           \* the identities of MAC PDUs, reused when settled

VARIABLES
    fate,               \* what the sender thinks of each PDU
    deliveries          \* how often the receiver passed it on

vars == <<fate, deliveries>>

Init ==
    /\ fate = [p \in Pdus |-> "unused"]
    /\ deliveries = [p \in Pdus |-> 0]

\* A new PDU is taken over, or refused when the sender is full.
Take(p, f) ==
    /\ fate[p] # "live"
    /\ f \in {"live", "deleted"}
    /\ fate' = [fate EXCEPT ![p] = f]
    /\ deliveries' = [deliveries EXCEPT ![p] = 0]

\* PDUs are delivered, each for the first time.
Deliver(S) ==
    /\ \A p \in S : fate[p] = "live" /\ deliveries[p] = 0
    /\ deliveries' = [p \in Pdus |-> IF p \in S THEN 1 ELSE deliveries[p]]
    /\ UNCHANGED fate

\* The sender learns that a PDU was delivered,
Acknowledge(p) ==
    /\ fate[p] = "live" /\ deliveries[p] = 1
    /\ fate' = [fate EXCEPT ![p] = "acked"]
    /\ UNCHANGED deliveries

\* or gives one up that never will be.
GiveUp(p) ==
    /\ fate[p] = "live" /\ deliveries[p] = 0
    /\ fate' = [fate EXCEPT ![p] = "discarded"]
    /\ UNCHANGED deliveries

Next ==
    \/ \E p \in Pdus : \/ \E f \in {"live", "deleted"} : Take(p, f)
                       \/ Acknowledge(p) \/ GiveUp(p)
    \/ \E S \in SUBSET Pdus : Deliver(S)

Spec == Init /\ [][Next]_vars
=============================================================================
