---------------------------- MODULE EventTimers ----------------------------
(***************************************************************************)
(* What a multi-timer promises to the protocol entity that owns it: the    *)
(* abstract specification that MultiTimer implements.  Events are added    *)
(* with a delay, can be removed while they run, and are dispatched at the  *)
(* instant they are due and at no other.                                   *)
(***************************************************************************)
EXTENDS Naturals

CONSTANTS
    Events,         \* the event identifiers
    Idle            \* not a time: the event is not scheduled

VARIABLES
    now,            \* simulated time
    due             \* for each event, the time it is due, or Idle

vars == <<now, due>>

Init == now = 0 /\ due = [e \in Events |-> Idle]

\* An event is scheduled, now or later.
Add(e) ==
    /\ due[e] = Idle
    /\ due'[e] \in Nat /\ due'[e] >= now
    /\ due' = [due EXCEPT ![e] = due'[e]]
    /\ UNCHANGED now

Remove(e) ==
    /\ due[e] # Idle
    /\ due' = [due EXCEPT ![e] = Idle]
    /\ UNCHANGED now

Dispatch(e) ==
    /\ due[e] = now
    /\ due' = [due EXCEPT ![e] = Idle]
    /\ UNCHANGED now

\* Time passes, but never the instant an event is due at.
Tick ==
    /\ \A e \in Events : due[e] # now
    /\ now' = now + 1
    /\ UNCHANGED due

Next ==
    \/ \E e \in Events : Add(e) \/ Remove(e) \/ Dispatch(e)
    \/ Tick

Spec == Init /\ [][Next]_vars
=============================================================================
