---------------------------- MODULE NrUeHandover ----------------------------
(* How a UE with an LTE and an NR stack decides and performs handovers      *)
(* (src/stack/phy/layer/NRPhyUe.cc and the handlers it inherits from        *)
(* LtePhyUe.cc), with the UE side of src/stack/ip2nic/IP2Nic.cc and the     *)
(* handover table of src/common/binder/Binder.cc.                           *)
(*                                                                          *)
(* Base stations broadcast in rounds.  Each broadcast reaches the stack of  *)
(* its technology with some signal strength, in any order within a round.   *)
(* A stack that hears a better base station schedules handoverStarter_ a    *)
(* little later (triggerHandover), which schedules handoverTrigger_ after   *)
(* the detachment and attachment latencies (doHandover).  A gNB may be the  *)
(* secondary node of an eNB: the NR stack may use it only while the LTE     *)
(* stack is attached to that eNB, so each stack looks at the other's state  *)
(* and at the other's entry in the binder, and the LTE stack forces the NR  *)
(* stack off before it leaves.                                              *)
(*                                                                          *)
(* Simulated time is kept within a round only: base stations broadcast      *)
(* every second or half second, the handovers of a round take a few         *)
(* handoverLatency (50 ms), so all its events are handled before the next.  *)
EXTENDS BaseStations, Integers, Sequences, FiniteSets

CONSTANTS
    NrBs,           \* those of Bs that are gNBs, the others are eNBs
    MasterNode,     \* MasterNode[b]: b itself, or the eNB b is secondary to
    Levels,         \* signal strengths a broadcast may have (dB)
    MinRssi,        \* minRssi_
    AttachedAtStart,    \* whether each stack that has base stations of its
                    \* technology has a master when the run begins
    Detach          \* handoverDetachment_, half of handoverLatency, in units
                    \* of handoverDelta_ (2500 by default)

ASSUME ConstantsAssumption ==
    /\ NrBs \subseteq Bs
    /\ MasterNode \in [Bs -> Bs]
    /\ \A b \in Bs : MasterNode[b] # b => b \in NrBs /\ MasterNode[b] \notin NrBs
    /\ Levels \subseteq Int /\ MinRssi \in Int
    /\ AttachedAtStart \in BOOLEAN
ASSUME LatencyAssumption == Detach \in Nat /\ Detach > 1

Stacks   == {"lte", "nr"}
Other(k) == IF k = "lte" THEN "nr" ELSE "lte"
Tech(b)  == IF b \in NrBs THEN "nr" ELSE "lte"

(* handoverDelta_, the unit of time, and handoverAttachment_. *)
Delta  == 1
Attach == Detach

Never == -999       \* initial value of the RSSI variables

VARIABLES
    master,         \* masterId_ of each stack
    candidateMaster,    \* candidateMasterId_
    candidateRssi,  \* candidateMasterRssi_
    currentRssi,    \* currentMasterRssi_
    hysteresis,     \* the value whose tenth is hysteresisTh_
    cellInfo,       \* the base station cellInfo_ points to
    events,         \* scheduled self messages, in the order they will occur,
                    \* each with the time left (in) since the last one
    triggered,      \* binder: handoverTriggered_ of each stack's node id
    nicMaster,      \* masterId_ and nrMasterId_ of the UE's IP2Nic
    ueHold,         \* ueHold_ of the UE's IP2Nic
    forwarding,     \* forwarding[k][b]: hoForwarding_ of b for the node of k
    toHear,         \* base stations whose broadcast has not arrived yet
    failure         \* "no", or what ended the simulation

phyVars  == <<master, candidateMaster, candidateRssi, currentRssi, hysteresis, cellInfo>>
nicVars  == <<nicMaster, ueHold, forwarding>>
airVars  == <<toHear>>
nrUeVars == <<phyVars, events, triggered, nicVars, airVars, failure>>

Node == Bs \cup {NoBs}
OfMaster(b) == IF b = NoBs THEN NoBs ELSE MasterNode[b]
Free == <<>>        \* no entry in the binder

(* Set by the configuration, or the cell that initialize found best. *)
UeInit ==
    /\ master \in [Stacks -> Node]
    /\ \A k \in Stacks : master[k] # NoBs => Tech(master[k]) = k
    /\ AttachedAtStart => \A b \in Bs : master[Tech(b)] # NoBs
    /\ OfMaster(master["nr"]) \in {master["nr"], master["lte"]}
    /\ candidateMaster = master /\ cellInfo = master /\ nicMaster = master
    /\ candidateRssi \in [Stacks -> {Never} \cup Levels]
    /\ \A k \in Stacks : master[k] = NoBs => candidateRssi[k] = Never
    /\ currentRssi = candidateRssi
    /\ hysteresis = [k \in Stacks |-> 0]
    /\ events = <<>>
    /\ triggered = [k \in Stacks |-> Free]
    /\ ueHold = FALSE
    /\ forwarding = [k \in Stacks |-> [b \in Bs |-> NoBs]]
    /\ toHear = {}
    /\ failure = "no"

-----------------------------------------------------------------------------
(* The event queue: by time, in order of insertion among equal times. *)
Insert(q, e) ==
    LET n == Cardinality({i \in DOMAIN q : q[i].in <= e.in})
    IN  SubSeq(q, 1, n) \o <<e>> \o SubSeq(q, n + 1, Len(q))
Starter(k, in) == [in |-> in, what |-> "starter", stack |-> k]
Trigger(k, in) == [in |-> in, what |-> "trigger", stack |-> k]

(* What is left when the next event occurs. *)
Later == [i \in 1..Len(events) - 1 |->
            [events[i + 1] EXCEPT !.in = @ - Head(events).in]]

IsStarterOf(e, k) == e.what = "starter" /\ e.stack = k
StarterScheduled(q, k) == \E i \in DOMAIN q : IsStarterOf(q[i], k)

(* cancelEvent(handoverStarter_): one message, if it is scheduled. *)
CancelStarter(q, k) ==
    IF StarterScheduled(q, k)
    THEN LET i == CHOOSE i \in DOMAIN q : IsStarterOf(q[i], k)
         IN  SubSeq(q, 1, i - 1) \o SubSeq(q, i + 1, Len(q))
    ELSE q

ScheduledOnce(q, k) ==
    IF StarterScheduled(q, k) THEN q ELSE Insert(q, Starter(k, Delta))

(* hysteresisTh_ is a tenth of the value it was computed from. *)
Exceeds(level, k) == 10 * level > 10 * candidateRssi[k] + hysteresis[k]

-----------------------------------------------------------------------------
(* All base stations broadcast. *)
NewRound ==
    /\ failure = "no" /\ events = <<>> /\ toHear = {}
    /\ toHear' = Bs
    /\ UNCHANGED <<phyVars, events, triggered, nicVars, failure>>

(* NRPhyUe::handleAirFrame: a secondary node counts only if the other stack *)
(* is attached to its master.                                               *)
Eligible(b) ==
    MasterNode[b] # b => master[Other(Tech(b))] = MasterNode[b]

(* handoverHandler, one action for each of its outcomes. *)
Ignored(b, level) ==
    LET k == Tech(b)
    IN  \/ ~Eligible(b)
        \/ b # master[k] /\ (level < MinRssi \/ ~Exceeds(level, k))

HearNothing(b, level) ==
    /\ Ignored(b, level)
    /\ UNCHANGED <<phyVars, events, triggered>>

HearBetterCandidate(b, level) ==
    LET k == Tech(b)
    IN  /\ Eligible(b) /\ b # master[k] /\ level >= MinRssi /\ Exceeds(level, k)
        /\ candidateMaster' = [candidateMaster EXCEPT ![k] = b]
        /\ candidateRssi' = [candidateRssi EXCEPT ![k] = level]
        /\ hysteresis' = [hysteresis EXCEPT ![k] = level]
        /\ triggered' = [triggered EXCEPT ![k] = <<master[k], b>>]
        /\ events' = ScheduledOnce(events, k)
        /\ UNCHANGED <<master, currentRssi, cellInfo>>

(* The master is better than the candidate after all. *)
HearBetterMaster(b, level) ==
    LET k == Tech(b)
    IN  /\ Eligible(b) /\ b = master[k] /\ Exceeds(level, k)
        /\ currentRssi' = [currentRssi EXCEPT ![k] = level]
        /\ candidateMaster' = [candidateMaster EXCEPT ![k] = b]
        /\ candidateRssi' = [candidateRssi EXCEPT ![k] = level]
        /\ hysteresis' = [hysteresis EXCEPT ![k] = level]
        /\ events' = CancelStarter(events, k)
        /\ UNCHANGED <<master, cellInfo, triggered>>

(* The master is no better than the candidate; if it is lost and there is   *)
(* no candidate the stack detaches.                                         *)
HearMaster(b, level) ==
    LET k == Tech(b)
        lost == level < MinRssi
    IN  /\ Eligible(b) /\ b = master[k] /\ ~Exceeds(level, k)
        /\ \/ /\ ~lost
              /\ currentRssi' = [currentRssi EXCEPT ![k] = level]
              /\ candidateRssi' = [candidateRssi EXCEPT ![k] = level]
              /\ hysteresis' = [hysteresis EXCEPT ![k] = level]
              /\ UNCHANGED <<candidateMaster, triggered, events>>
           \/ /\ lost /\ candidateMaster[k] = b
              /\ candidateMaster' = [candidateMaster EXCEPT ![k] = NoBs]
              /\ candidateRssi' = [candidateRssi EXCEPT ![k] = 0]
              /\ hysteresis' = [hysteresis EXCEPT ![k] = 0]
              /\ triggered' = [triggered EXCEPT ![k] = <<b, NoBs>>]
              /\ events' = ScheduledOnce(events, k)
              /\ UNCHANGED currentRssi
           \/ /\ lost /\ candidateMaster[k] # b
              /\ UNCHANGED <<candidateMaster, candidateRssi, hysteresis, triggered,
                             events, currentRssi>>
        /\ UNCHANGED <<master, cellInfo>>

Hear(b, level) ==
    /\ failure = "no" /\ b \in toHear
    /\ toHear' = toHear \ {b}
    /\ \/ HearNothing(b, level)
       \/ HearBetterCandidate(b, level)
       \/ HearBetterMaster(b, level)
       \/ HearMaster(b, level)
    /\ UNCHANGED <<nicVars, failure>>

-----------------------------------------------------------------------------
(* The next event is the self message "what" of stack k. *)
Occurs(what, k) ==
    /\ failure = "no" /\ toHear = {} /\ events # <<>>
    /\ Head(events).what = what /\ Head(events).stack = k

(* triggerHandover begins with assert(masterId_ != candidateMasterId_). *)
StarterOccurs(k) ==
    /\ Occurs("starter", k)
    /\ failure' = IF candidateMaster[k] = master[k] THEN "assertion" ELSE "no"

(* The candidate is a secondary node whose master the other stack is        *)
(* attached to, and the binder has an entry for the other stack.            *)
MasterIsBusy(k) ==
    /\ OfMaster(candidateMaster[k]) # candidateMaster[k]
    /\ master[Other(k)] = OfMaster(candidateMaster[k])
    /\ triggered[Other(k)] # Free

(* Mutants of SecondaryAttached: getMasterNode is not applied; any node the *)
(* other stack is attached to counts.                                       *)
OtherAttachedSame(k) == master[Other(k)] # NoBs /\ master[Other(k)] = master[k]
OtherAttached(k)     == master[Other(k)] # NoBs

(* The other stack is attached to a secondary node of the base station this *)
(* stack is leaving.                                                        *)
SecondaryAttached(k) ==
    LET o == Other(k)
    IN  master[o] # NoBs /\ OfMaster(master[o]) = master[k]

(* triggerHandover, when the master is busy: wait if the other stack is on  *)
(* its way to the same candidate, give up otherwise.                        *)
TriggerYields(k) ==
    LET entry == triggered[Other(k)]
        wait  == entry[2] = candidateMaster[k]
        delay == Delta + Attach + (IF entry[1] # NoBs THEN Detach ELSE 0)
    IN  /\ StarterOccurs(k) /\ MasterIsBusy(k)
        /\ events' = IF wait THEN Insert(Later, Starter(k, delay)) ELSE Later
        /\ triggered' = IF wait THEN triggered ELSE [triggered EXCEPT ![k] = Free]
        /\ UNCHANGED <<phyVars, nicVars, airVars>>

(* triggerHandover: force the other stack to detach, go on after that.      *)
TriggerForcesOther(k) ==
    LET o == Other(k)
        waiting == Insert(Later, Starter(k, Detach + Delta))
    IN  /\ StarterOccurs(k) /\ ~MasterIsBusy(k) /\ SecondaryAttached(k)
        /\ events' = Insert(CancelStarter(waiting, o), Starter(o, 0))
        /\ candidateMaster' = [candidateMaster EXCEPT ![o] = NoBs]
        /\ candidateRssi' = [candidateRssi EXCEPT ![o] = 0]
        /\ hysteresis' = [hysteresis EXCEPT ![o] = currentRssi[o]]
        /\ UNCHANGED <<master, currentRssi, cellInfo, triggered, nicVars, airVars>>

(* Mutant of NicMaster: isNr is not looked at. *)
NicMasterLte(k, c) == [nicMaster EXCEPT !["lte"] = c]

(* IP2Nic::triggerHandoverUe *)
NicMaster(k, c) == [nicMaster EXCEPT ![k] = c]

(* triggerHandover: tell the UE's IP2Nic and the source, start the handover.*)
TriggerHandoverOf(k) ==
    LET m == master[k]
        c == candidateMaster[k]
        latency == (IF m # NoBs THEN Detach ELSE 0) + (IF c # NoBs THEN Attach ELSE 0)
    IN  /\ StarterOccurs(k) /\ ~MasterIsBusy(k) /\ ~SecondaryAttached(k)
        /\ nicMaster' = NicMaster(k, c)
        /\ ueHold' = (ueHold \/ c # NoBs)
        /\ forwarding' = IF m # NoBs /\ c # NoBs
                         THEN [forwarding EXCEPT ![k][m] = c] ELSE forwarding
        /\ events' = Insert(Later, Trigger(k, latency))
        /\ UNCHANGED <<phyVars, triggered, airVars>>

(* doHandover.  The old cell's CellInfo is told to forget the UE whenever   *)
(* there is a new one, also when there was no old one.                      *)
DoHandoverOf(k) ==
    LET m == master[k]
        c == candidateMaster[k]
    IN  /\ Occurs("trigger", k)
        /\ events' = Later
        /\ master' = [master EXCEPT ![k] = c]
        /\ currentRssi' = [currentRssi EXCEPT ![k] = candidateRssi[k]]
        /\ hysteresis' = [hysteresis EXCEPT ![k] = candidateRssi[k]]
        /\ cellInfo' = IF c # NoBs THEN [cellInfo EXCEPT ![k] = c] ELSE cellInfo
        /\ failure' = IF c # NoBs /\ cellInfo[k] = NoBs THEN "null pointer" ELSE "no"
        /\ triggered' = [triggered EXCEPT ![k] = Free]
        /\ ueHold' = (ueHold /\ nicMaster[k] = NoBs)
        /\ forwarding' = IF m # NoBs /\ c # NoBs
                         THEN [forwarding EXCEPT ![k][m] = NoBs] ELSE forwarding
        /\ UNCHANGED <<candidateMaster, candidateRssi, nicMaster, airVars>>

UeNext ==
    \/ NewRound
    \/ \E b \in Bs, level \in Levels : Hear(b, level)
    \/ \E k \in Stacks : \/ TriggerYields(k)
                         \/ TriggerForcesOther(k)
                         \/ TriggerHandoverOf(k)
                         \/ DoHandoverOf(k)

Idle == events = <<>> /\ toHear = {}

(* Broadcasts arrive and scheduled events occur; rounds need not follow. *)
UeFairness == WF_nrUeVars(~Idle /\ UeNext)

UeSpec == UeInit /\ [][UeNext]_nrUeVars /\ UeFairness
-----------------------------------------------------------------------------
(* Variables have their types. *)
UeTypeOK ==
    /\ master \in [Stacks -> Node] /\ candidateMaster \in [Stacks -> Node]
    /\ candidateRssi \in [Stacks -> Int] /\ currentRssi \in [Stacks -> Int]
    /\ hysteresis \in [Stacks -> Int]
    /\ cellInfo \in [Stacks -> Node] /\ nicMaster \in [Stacks -> Node]
    /\ events \in Seq([in : Nat, what : {"starter", "trigger"}, stack : Stacks])
    /\ triggered \in [Stacks -> {Free} \cup (Node \X Node)]
    /\ ueHold \in BOOLEAN
    /\ forwarding \in [Stacks -> [Bs -> Node]]
    /\ toHear \in SUBSET Bs
    /\ failure \in {"no", "assertion", "null pointer"}

(* The NR stack is attached to a secondary node only while the LTE stack is *)
(* attached to its master (the tests in handleAirFrame and triggerHandover).*)
SecondaryFollowsMaster ==
    master["nr"] # NoBs => OfMaster(master["nr"]) \in {master["nr"], master["lte"]}

(* No assertion fails, no pointer is NULL and no handoverStarter_ that is    *)
(* already scheduled is scheduled again, which the kernel refuses.          *)
NeverFails ==
    /\ failure = "no"
    /\ \A i, j \in DOMAIN events, k \in Stacks :
          IsStarterOf(events[i], k) /\ IsStarterOf(events[j], k) => i = j

(* Between rounds the IP2Nic of the UE believes each stack to be attached   *)
(* where it is, and holds uplink packets only for a UE with no master.      *)
NicAgrees ==
    Idle => /\ nicMaster = master
            /\ ueHold => \A k \in Stacks : master[k] = NoBs

(* Between rounds no base station forwards the packets of the UE, with one   *)
(* exception.  When the LTE stack leaves while the NR stack is on its way    *)
(* from a secondary node to a gNB that is nobody's secondary node, the       *)
(* detachment it forces takes the place of that handover: doHandover then    *)
(* has no target to notify and the old gNB is never told to stop.            *)
ForwardingOver ==
    Idle => \A k \in Stacks, b \in Bs :
        forwarding[k][b] # NoBs =>
            k = "nr" /\ OfMaster(forwarding[k][b]) = forwarding[k][b]

(* The two stacks' handovers, which overlap, leave the UE, its IP2Nic and   *)
(* the base stations in agreement.                                          *)
NetworkAgrees == NeverFails /\ NicAgrees /\ ForwardingOver

(* Every round is dealt with. *)
RoundEnds == ~Idle ~> Idle
=============================================================================
