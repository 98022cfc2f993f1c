------------------------- MODULE HandoverForwarding -------------------------
(* The downlink packets of one UE while it moves between base stations      *)
(* (src/stack/ip2nic/IP2Nic.cc, base station side,                          *)
(* src/stack/handoverManager/LteHandoverManager.cc, src/x2/LteX2Manager.cc).*)
(*                                                                          *)
(* The core network sends a packet to the base station that serves the UE   *)
(* at that moment.  During a handover the source forwards over X2 what      *)
(* still arrives for the UE; the target holds it, and what the core sends   *)
(* it meanwhile, until the handover is complete.  Two commands cross X2:    *)
(* "start" from the source to the target, "complete" the other way.         *)
(* Commands and forwarded packets leave the X2 manager by different gates   *)
(* (SCTP association, GTP tunnel): each channel is in order, the two are    *)
(* not ordered with each other, nor with the packets from the core.         *)
(*                                                                          *)
(* The maps of IP2Nic are keyed by UE; this module follows the entries of   *)
(* one UE, which has one radio stack in use.                                *)
EXTENDS BaseStations, Naturals, Sequences, SequencesExt, Functions

CONSTANTS
    CommandsInTime, \* whether commands overtake neither the handover itself
                    \* nor the next one (see README: handoverLatency is 50 ms,
                    \* broadcasts come every 0.5 s or 1 s)
    MaxPackets,     \* bound: packets the core sends
    MaxHandovers    \* bound: handovers, attachments and detachments

ASSUME CommandsAssumption == CommandsInTime \in BOOLEAN

VARIABLES
    serving,        \* masterId_ of the UE's PHY and the binder's next hop
    candidate,      \* candidateMasterId_ while handoverTrigger_ is scheduled,
    moving,         \* whether it is scheduled
    handovers,      \* handovers triggered so far
    routed,         \* routed[n]: where the core sent packet n
    core,           \* core[b]: packets on their way from the core to b
    x2Data,         \* x2Data[s][t]: packets in the GTP tunnel from s to t
    x2Control,      \* x2Control[s][t]: commands from s to t
    hoForwarding,   \* hoForwarding[b]: target of the entry of the UE, or NoBs
    hoHolding,      \* base stations whose hoHolding_ contains the UE
    hoFromX2,       \* hoFromX2[b], hoFromIp[b]: the UE's buffers at b
    hoFromIp,
    toStack,        \* packets handed down to a stack: [bs, packet], in order
    deleted         \* packets deleted because the UE is attached nowhere

ueVars      == <<serving, candidate, moving, handovers>>
networkVars == <<core, x2Data>>
bufferVars  == <<hoFromX2, hoFromIp>>
outVars     == <<toStack, deleted>>
vars        == <<ueVars, routed, networkVars, x2Control, hoForwarding,
                 hoHolding, bufferVars, outVars>>

Init ==
    /\ serving \in Bs \cup {NoBs}
    /\ candidate = serving /\ moving = FALSE /\ handovers = 0
    /\ routed = <<>>
    /\ core = [b \in Bs |-> <<>>]
    /\ x2Data = [s \in Bs |-> [t \in Bs |-> <<>>]]
    /\ x2Control = [s \in Bs |-> [t \in Bs |-> <<>>]]
    /\ hoForwarding = [b \in Bs |-> NoBs]
    /\ hoHolding = {}
    /\ hoFromX2 = [b \in Bs |-> <<>>] /\ hoFromIp = [b \in Bs |-> <<>>]
    /\ toStack = <<>> /\ deleted = {}

(* isStartHandover() of the command's information element. *)
Commands == {"start", "complete"}

StartInFlight == \E s, t \in Bs : "start" \in Range(x2Control[s][t])
CommandsDone  == \A s, t \in Bs : x2Control[s][t] = <<>>

(* toStackBs for a sequence of packets: markPacket fails, and the packet is *)
(* deleted, when the binder knows no next hop of the UE.                    *)
ToStackBs(b, packets, at) ==
    IF at = NoBs
    THEN /\ deleted' = deleted \cup Range(packets)
         /\ UNCHANGED toStack
    ELSE /\ toStack' = toStack \o
                [i \in 1..Len(packets) |-> [bs |-> b, packet |-> packets[i]]]
         /\ UNCHANGED deleted

\* triggerHandoverSource at s: the entry of the UE, replaced if there is one.
StartForwarding(s, t) == [hoForwarding EXCEPT ![s] = t]

\* Mutant of StopForwarding: the sender's entry goes.
StopForwardingOfSender(s, t) == [hoForwarding EXCEPT ![s] = NoBs]
\* signalHandoverCompleteSource at t, told by s.
StopForwarding(s, t) == [hoForwarding EXCEPT ![t] = NoBs]

\* Mutants of Held: the last packet first; the packets from X2 only.
HeldBackwards(b) == Reverse(hoFromX2[b] \o hoFromIp[b])
HeldFromX2(b)    == hoFromX2[b]
\* What signalHandoverCompleteTarget hands down, in this order.
Held(b) == hoFromX2[b] \o hoFromIp[b]

\* Mutant of HoldingWithout: the UE stays in the set.
HoldingWithoutNone(b) == hoHolding
\* hoHolding_.erase
HoldingWithout(b) == hoHolding \ {b}

-----------------------------------------------------------------------------
(* The UPF tunnels a packet to the base station the binder names; a packet  *)
(* for a UE that is attached nowhere is removed.                            *)
CoreSends ==
    LET n == Len(routed) + 1
    IN  /\ n <= MaxPackets
        /\ routed' = Append(routed, serving)
        /\ IF serving = NoBs
           THEN /\ deleted' = deleted \cup {n}
                /\ UNCHANGED core
           ELSE /\ core' = [core EXCEPT ![serving] = Append(@, n)]
                /\ UNCHANGED deleted
        /\ UNCHANGED <<ueVars, x2Data, x2Control, hoForwarding, hoHolding,
                       bufferVars, toStack>>

(* A packet for the UE arrives at b: forwarded, held or handed down. *)
FromIpBs(b) ==
    /\ core[b] # <<>>
    /\ core' = [core EXCEPT ![b] = Tail(@)]
    /\ LET n == Head(core[b])
           t == hoForwarding[b]
       IN  \/ /\ t # NoBs
              /\ x2Data' = [x2Data EXCEPT ![b][t] = Append(@, n)]
              /\ UNCHANGED <<hoFromIp, outVars>>
           \/ /\ t = NoBs /\ b \in hoHolding
              /\ hoFromIp' = [hoFromIp EXCEPT ![b] = Append(@, n)]
              /\ UNCHANGED <<x2Data, outVars>>
           \/ /\ t = NoBs /\ b \notin hoHolding
              /\ ToStackBs(b, <<n>>, serving)
              /\ UNCHANGED <<x2Data, hoFromIp>>
    /\ UNCHANGED <<ueVars, routed, x2Control, hoForwarding, hoHolding, hoFromX2>>

(* A forwarded packet reaches t: it is always held, whatever the state of   *)
(* the handover there.                                                      *)
ReceiveTunneledPacketOnHandover(s, t) ==
    /\ x2Data[s][t] # <<>>
    /\ x2Data' = [x2Data EXCEPT ![s][t] = Tail(@)]
    /\ hoFromX2' = [hoFromX2 EXCEPT ![t] = Append(@, Head(x2Data[s][t]))]
    /\ UNCHANGED <<ueVars, routed, core, x2Control, hoForwarding, hoHolding,
                   hoFromIp, outVars>>

(* triggerHandoverTarget for a start command, signalHandoverCompleteSource  *)
(* for a complete command: the entry goes whatever its target is.           *)
ReceiveHandoverCommand(s, t) ==
    /\ x2Control[s][t] # <<>>
    /\ x2Control' = [x2Control EXCEPT ![s][t] = Tail(@)]
    /\ IF Head(x2Control[s][t]) = "start"
       THEN /\ hoHolding' = hoHolding \cup {t}
            /\ UNCHANGED hoForwarding
       ELSE /\ hoForwarding' = StopForwarding(s, t)
            /\ UNCHANGED hoHolding
    /\ UNCHANGED <<ueVars, routed, networkVars, bufferVars, outVars>>

(* The UE's PHY starts a handover to c, an attachment or a detachment;      *)
(* the source forwards from now on and tells the target.                    *)
TriggerHandover(c) ==
    /\ ~moving /\ c # serving
    /\ handovers < MaxHandovers
    /\ CommandsInTime => CommandsDone
    /\ moving' = TRUE /\ candidate' = c /\ handovers' = handovers + 1
    /\ IF serving # NoBs /\ c # NoBs
       THEN /\ hoForwarding' = StartForwarding(serving, c)
            /\ x2Control' = [x2Control EXCEPT ![serving][c] = Append(@, "start")]
       ELSE UNCHANGED <<hoForwarding, x2Control>>
    /\ UNCHANGED <<serving, routed, networkVars, hoHolding, bufferVars, outVars>>

(* The handover ends.  A target that took over from another base station    *)
(* tells it and hands down what it held, the packets from X2 first.         *)
DoHandover ==
    /\ moving
    /\ CommandsInTime => ~StartInFlight
    /\ moving' = FALSE /\ serving' = candidate
    /\ LET c == candidate
       IN IF serving # NoBs /\ c # NoBs
          THEN /\ x2Control' = [x2Control EXCEPT
                                    ![c][serving] = Append(@, "complete")]
               /\ ToStackBs(c, Held(c), c)
               /\ hoFromX2' = [hoFromX2 EXCEPT ![c] = <<>>]
               /\ hoFromIp' = [hoFromIp EXCEPT ![c] = <<>>]
               /\ hoHolding' = HoldingWithout(c)
          ELSE UNCHANGED <<x2Control, hoHolding, bufferVars, outVars>>
    /\ UNCHANGED <<candidate, handovers, routed, networkVars, hoForwarding>>

Next ==
    \/ CoreSends
    \/ \E b \in Bs : FromIpBs(b)
    \/ \E s, t \in Bs : ReceiveTunneledPacketOnHandover(s, t)
    \/ \E s, t \in Bs : ReceiveHandoverCommand(s, t)
    \/ \E c \in Bs \cup {NoBs} : TriggerHandover(c)
    \/ DoHandover

(* Links deliver what they carry, and a started handover ends. *)
Fairness ==
    /\ \A s, t \in Bs : WF_vars(ReceiveHandoverCommand(s, t))
    /\ WF_vars(DoHandover)

Spec == Init /\ [][Next]_vars /\ Fairness
-----------------------------------------------------------------------------
TypeOK ==
    /\ serving \in Bs \cup {NoBs}
    /\ candidate \in Bs \cup {NoBs}
    /\ moving \in BOOLEAN
    /\ handovers \in Nat
    /\ routed \in Seq(Bs \cup {NoBs})
    /\ core \in [Bs -> Seq(Nat)]
    /\ x2Data \in [Bs -> [Bs -> Seq(Nat)]]
    /\ x2Control \in [Bs -> [Bs -> Seq(Commands)]]
    /\ hoForwarding \in [Bs -> Bs \cup {NoBs}]
    /\ hoHolding \in SUBSET Bs
    /\ hoFromX2 \in [Bs -> Seq(Nat)]
    /\ hoFromIp \in [Bs -> Seq(Nat)]
    /\ toStack \in Seq([bs : Bs, packet : Nat])
    /\ deleted \in SUBSET Nat

(* The handover of the UE between two base stations. *)
Between(s, t) == moving /\ serving = s /\ candidate = t /\ t # NoBs

(* A base station forwards to a target only while the UE is being handed    *)
(* over to that target, or while the word that it has arrived is still on   *)
(* its way: no entry of hoForwarding_ stays behind to divert later packets  *)
(* of a UE that came back.                                                  *)
ForwardsOnlyDuringHandover ==
    \A s \in Bs : hoForwarding[s] # NoBs =>
        \/ Between(s, hoForwarding[s])
        \/ ~moving /\ x2Control[hoForwarding[s]][s] # <<>>

(* During a handover the source does forward, to the target and nowhere     *)
(* else, from the first moment to the last.                                 *)
HandoverForwards ==
    \A s, t \in Bs : Between(s, t) => hoForwarding[s] = t

(* A base station holds packets from the core only for a handover that is   *)
(* going on, and what it holds from the core is never left behind.          *)
HoldsOnlyDuringHandover ==
    /\ \A b \in hoHolding : moving /\ candidate = b
    /\ \A b \in Bs : hoFromIp[b] # <<>> => b \in hoHolding

(* Forwarding and holding accompany a handover: they begin and end with it. *)
ForwardingFollowsHandover ==
    ForwardsOnlyDuringHandover /\ HandoverForwards /\ HoldsOnlyDuringHandover

(* Packets the core sent to the same base station and that reach the UE by  *)
(* the same one are handed down in the order they were sent, whether they   *)
(* were forwarded, held or neither, over any number of handovers.           *)
PathKeepsOrder ==
    \A i, j \in 1..Len(toStack) :
        (/\ i < j
         /\ toStack[i].bs = toStack[j].bs
         /\ routed[toStack[i].packet] = routed[toStack[j].packet])
        => toStack[i].packet < toStack[j].packet

(* Every packet the core has sent is in exactly one place, once: on a link, *)
(* in a buffer, handed down, or deleted; forwarding, holding and flushing   *)
(* neither lose nor copy one.                                               *)
PacketsAccounted ==
    LET Places ==
            {<<"core", b, core[b]>> : b \in Bs}
            \cup {<<"fromX2", b, hoFromX2[b]>> : b \in Bs}
            \cup {<<"fromIp", b, hoFromIp[b]>> : b \in Bs}
            \cup {<<"x2", <<st[1], st[2]>>, x2Data[st[1]][st[2]]>> : st \in Bs \X Bs}
            \cup {<<"down", NoBs, [i \in 1..Len(toStack) |-> toStack[i].packet]>>,
                  <<"deleted", NoBs, SetToSeq(deleted)>>}
    IN  /\ \A n \in 1..Len(routed) :
               \E p \in Places : /\ n \in Range(p[3])
                                /\ \A q \in Places \ {p} : n \notin Range(q[3])
        /\ \A p \in Places : IsInjective(p[3])

(* Every handover ends with forwarding and holding over at both sides. *)
ForwardingEnds ==
    \A b \in Bs : hoForwarding[b] # NoBs ~> hoForwarding[b] = NoBs
=============================================================================
