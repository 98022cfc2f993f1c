------------------------------- MODULE UlMac -------------------------------
(***************************************************************************)
(* The uplink of one UE on one carrier, from the queue of its MAC to the   *)
(* MAC of the base station: random access, buffer status reports, grants   *)
(* and H-ARQ, driven by the slot loops of both MACs.  Nothing tells the    *)
(* base station which process the UE uses; the LTE entities count the      *)
(* slots on both sides, the NR entities look for a process.                *)
(*                                                                         *)
(* Time is counted in slots: the two main loops run first, in either       *)
(* order, and the frames sent one slot before arrive at the end of the     *)
(* slot (airFramePriority_).  Data are counted in units; a grant holds at  *)
(* least one.  A process is its unit 0, as in HarqDl.                      *)
(***************************************************************************)
EXTENDS Naturals

CONSTANTS
    NumProcs,           \* UE_TX_HARQ_PROCESSES = ENB_RX_HARQ_PROCESSES
    MaxRtx,             \* maxHarqRtx
    FbTimer,            \* harqFbEvaluationTimer, in slots
    BsrRtxTimerStart,   \* bsrRtxTimerStart_, in slots
    RaRespWinStart,     \* raRespWinStart_, in slots
    NoPdu,              \* nullptr
    MaxUnits            \* bound: the units that arrive at the UE

ASSUME UlMacAssumption ==
    /\ NumProcs \in Nat /\ NumProcs >= 2
    /\ MaxRtx \in Nat \ {0}
    /\ FbTimer \in Nat \ {0}
    /\ BsrRtxTimerStart \in Nat
    /\ RaRespWinStart \in Nat
    /\ MaxUnits \in Nat

Acids == 0..NumProcs - 1
HARQ_NONE == NumProcs

VARIABLES
    nr,             \* NRMacUe and NRSchedulerGnbUl, not the LTE classes
    tight,          \* other UEs may leave no room in a slot
    units,          \* how many units have come from the RLC
    queue,          \* macBuffers_ of the UE
    bsrTriggered,   \* bsrTriggered_
    racRequested,   \* racRequested_
    raRespTimer,    \* raRespTimer_
    bsrRtxTimer,    \* bsrRtxTimer_
    grant,          \* schedulingGrant_: its size, 0 when there is none
    firstTx,        \* firstTx
    currentHarq,    \* currentHarq_
    tx,             \* the UE's LteHarqUnitTx of each process
    rac,            \* racStatus_ has a request of the UE
    bsr,            \* bsrbuf_: what the base station believes is waiting
    harqStatus,     \* LteSchedulerEnbUl::harqStatus_, HARQ_NONE without entry
    rx,             \* the base station's LteHarqProcessRx
    sent,           \* the frames sent in this slot
    due,            \* the frames that arrive at the end of this slot
    enbDone,        \* the base station has run its main loop in this slot
    ueDone          \* the UE has run its main loop in this slot

configVars == <<nr, tight>>
racVars == <<racRequested, raRespTimer>>
bsrVars == <<bsrTriggered, bsrRtxTimer>>
ueVars == <<racVars, bsrVars, grant, firstTx, currentHarq, tx>>
enbVars == <<rac, bsr, harqStatus, rx>>
vars == <<configVars, units, queue, ueVars, enbVars, sent, due, enbDone, ueDone>>

\* A MAC PDU: its units and, if it carries one, its buffer status report.
Pdu(n, ces) == [size |-> n, ces |-> ces]

EmptyTx == [status |-> "EMPTY", transmissions |-> 0, pdu |-> NoPdu]
EmptyRx == [status |-> "EMPTY", pdu |-> NoPdu, result |-> FALSE, age |-> 0]

\* The frames of one slot: an uplink and a downlink one of each type at most.
Quiet == [rac |-> FALSE, data |-> {}, won |-> FALSE, grant |-> 0,
          feedback |-> {}]
DataFrame(a, p, new) == [acid |-> a, pdu |-> p, ndi |-> new]
Feedback(a, ack) == [acid |-> a, ack |-> ack]

Init ==
    /\ nr \in BOOLEAN /\ tight \in BOOLEAN
    /\ units = 0 /\ queue = 0
    /\ bsrTriggered = FALSE /\ bsrRtxTimer = 0
    /\ racRequested = FALSE /\ raRespTimer = 0
    /\ grant = 0 /\ firstTx = FALSE /\ currentHarq = 0
    /\ tx = [a \in Acids |-> EmptyTx]
    /\ rac = FALSE /\ bsr = 0
    /\ harqStatus = HARQ_NONE
    /\ rx = [a \in Acids |-> EmptyRx]
    /\ sent = Quiet /\ due = Quiet
    /\ enbDone = FALSE /\ ueDone = FALSE

------------------------------------------------------------------------------
(* The UE.                                                                 *)

\* bufferizePacket: the RLC announces new data, at any moment.
NewData ==
    /\ units < MaxUnits
    /\ units' = units + 1
    /\ queue' = queue + 1
    /\ UNCHANGED <<configVars, ueVars, enbVars, sent, due, enbDone, ueDone>>

\* Mutant of CheckRac: a running bsrRtxTimer_ is not decremented.
CheckRacKeepsTimer ==
    /\ IF raRespTimer > 0 THEN
            /\ raRespTimer' = raRespTimer - 1
            /\ UNCHANGED <<bsrRtxTimer, racRequested, sent>>
       ELSE IF bsrRtxTimer > 0 THEN
            UNCHANGED <<racVars, bsrRtxTimer, sent>>
       ELSE IF racRequested \/ queue = 0 THEN
            /\ racRequested' = FALSE
            /\ UNCHANGED <<raRespTimer, bsrRtxTimer, sent>>
       ELSE /\ racRequested' = TRUE
            /\ sent' = [sent EXCEPT !.rac = TRUE]
            /\ raRespTimer' = RaRespWinStart
            /\ UNCHANGED bsrRtxTimer
    /\ UNCHANGED <<queue, bsrTriggered, grant, firstTx, tx>>

\* checkRAC, in a slot without a grant.  The base station marks every request
\* as successful (LteMacEnb.cc:522), so racBackoffTimer_ is always 0.
CheckRac ==
    /\ IF raRespTimer > 0 THEN
            /\ raRespTimer' = raRespTimer - 1
            /\ UNCHANGED <<bsrRtxTimer, racRequested, sent>>
       ELSE IF bsrRtxTimer > 0 THEN
            /\ bsrRtxTimer' = bsrRtxTimer - 1
            /\ UNCHANGED <<racVars, sent>>
       ELSE IF racRequested \/ queue = 0 THEN
            /\ racRequested' = FALSE
            /\ UNCHANGED <<raRespTimer, bsrRtxTimer, sent>>
       ELSE /\ racRequested' = TRUE
            /\ sent' = [sent EXCEPT !.rac = TRUE]
            /\ raRespTimer' = RaRespWinStart
            /\ UNCHANGED bsrRtxTimer
    /\ UNCHANGED <<queue, bsrTriggered, grant, firstTx, tx>>

\* Mutant of FirstAcid: one slot too late.
FirstAcidOneLate == NumProcs - 1
\* "the eNb will receive the first pdu in 2 TTI, thus initializing acid to 0"
\* (LteMacUe.cc:876)
FirstAcid == NumProcs - 2

\* The process of this slot, when there is a grant.
SlotAcid == IF firstTx THEN currentHarq ELSE FirstAcid

Ready == {a \in Acids : tx[a].status = "BUFFERED"}
Free == {a \in Acids : tx[a].status = "EMPTY"}
Lowest(S) == {a \in S : \A b \in S : a <= b}

\* The process that uses the grant for a retransmission, if any.
ToResend == IF nr THEN Lowest(Ready) ELSE Ready \cap {SlotAcid}

\* The process a new PDU is put into, if any.
ToFill == IF nr THEN Lowest(Free) ELSE Free \cap {SlotAcid}

\* markSelected, sendSelectedDown and extractPdu.
Resend(a) ==
    /\ tx' = [tx EXCEPT ![a].status = "WAITING", ![a].transmissions = @ + 1]
    /\ sent' = [sent EXCEPT !.data = {DataFrame(a, tx[a].pdu, FALSE)}]
    /\ UNCHANGED <<queue, bsrVars>>

\* LcgScheduler::schedule and macPduMake.  A PDU no process is empty for is
\* deleted.
SendUnits(n) ==
    LET left == queue - n
        report == bsrTriggered /\ (nr => left > 0)
        pdu == Pdu(n, IF report THEN {left} ELSE {})
    IN  /\ queue' = left
        /\ bsrTriggered' = (bsrTriggered /\ ~report)
        /\ bsrRtxTimer' = IF report /\ left > 0 THEN BsrRtxTimerStart ELSE 0
        /\ tx' = [a \in Acids |->
                    IF a \in ToFill
                    THEN [status |-> "WAITING", transmissions |-> 1, pdu |-> pdu]
                    ELSE tx[a]]
        /\ sent' = [sent EXCEPT !.data = {DataFrame(a, pdu, TRUE) : a \in ToFill}]

\* A grant and nothing to send: an NRMacUe takes back a report that is
\* pending, an LteMacUe keeps it for its next PDU.
SendNoUnits ==
    /\ bsrTriggered' = (bsrTriggered /\ ~nr)
    /\ bsrRtxTimer' = IF bsrTriggered /\ nr THEN 0 ELSE bsrRtxTimer
    /\ UNCHANGED <<queue, tx, sent>>

SmallerOf(m, n) == IF m < n THEN m ELSE n

UseGrant ==
    /\ \/ \E a \in ToResend : Resend(a)
       \/ ToResend = {} /\ queue > 0 /\ SendUnits(SmallerOf(queue, grant))
       \/ ToResend = {} /\ queue = 0 /\ SendNoUnits
    /\ grant' = 0
    /\ firstTx' = TRUE
    /\ UNCHANGED racVars

\* handleSelfMessage and the flush at the end of it.
UeMainLoop ==
    /\ ~ueDone
    /\ ueDone' = TRUE
    /\ \/ grant = 0 /\ CheckRac /\ currentHarq' = (currentHarq + 1) % NumProcs
       \/ grant > 0 /\ UseGrant /\ currentHarq' = (SlotAcid + 1) % NumProcs
    /\ UNCHANGED <<configVars, units, enbVars, due, enbDone>>

------------------------------------------------------------------------------
(* The base station.                                                       *)

\* Mutant of Evaluated: the evaluation takes one slot more.
EvaluatedLate ==
    {a \in Acids : rx[a].status = "EVALUATING" /\ rx[a].age >= FbTimer}
\* isEvaluated; age counts the slots since the frame arrived.
Evaluated ==
    {a \in Acids : rx[a].status = "EVALUATING" /\ rx[a].age >= FbTimer - 1}
Corrupted == {a \in Evaluated : ~rx[a].result}

\* macPduUnmake and bufferizeBsr: a report replaces what was known.  At most
\* one PDU is evaluated in a slot.
Reports == UNION {rx[a].pdu.ces : a \in Evaluated \ Corrupted}
Backlog == IF Reports = {} THEN bsr ELSE CHOOSE n \in Reports : TRUE

\* updateHarqDescs: the first frame of the UE created its receiving buffer,
\* and the entry is made by the main loop that follows.
BufferExists ==
    harqStatus # HARQ_NONE \/ \E a \in Acids : rx[a].status # "EMPTY"
Updated ==
    IF harqStatus # HARQ_NONE THEN (harqStatus + 1) % NumProcs
    ELSE IF BufferExists THEN 0 ELSE HARQ_NONE

\* Mutant of ToRetransmit: the NR scheduler looks where the LTE one looks.
ToRetransmitBySlot == Corrupted \cap {(Updated + 2) % NumProcs}
\* rtxschedule: the process the UE will use when the grant is there, or any.
ToRetransmit ==
    IF nr THEN Corrupted ELSE Corrupted \cap {(Updated + 2) % NumProcs}

\* checkEligibility: it finds the idle second unit when the first is busy, and
\* no codeword but the first may be granted.
Eligible == nr \/ Updated = HARQ_NONE \/ Updated \in Evaluated \ Corrupted
              \/ rx[Updated].status = "EMPTY"

\* What a slot may be granted for the request of a UE (racschedule), for a
\* retransmission (rtxschedule) and for new data (scheduleGrant), which is
\* not granted to a UE that retransmits.
RacGrants == IF ~rac THEN {0} ELSE IF tight THEN {0, 1} ELSE {1}
RtxGrants ==
    {rx[a].pdu.size : a \in ToRetransmit}
      \cup (IF tight \/ ToRetransmit = {} THEN {0} ELSE {})
NewGrants(rtx) ==
    IF rtx > 0 \/ ~Eligible \/ Backlog = 0 THEN {0}
    ELSE (IF tight THEN 0 ELSE 1)..Backlog

\* handleSelfMessage: extractCorrectPdus with the feedback, the scheduler,
\* sendGrants and the purge of corrupted PDUs.  The request of the UE is
\* forgotten whether it was granted or not.
EnbMainLoop ==
    /\ ~enbDone
    /\ enbDone' = TRUE
    /\ \E r \in RacGrants : \E x \in RtxGrants : \E n \in NewGrants(x) :
          /\ bsr' = Backlog - n
          /\ sent' = [sent EXCEPT
                        !.grant = r + x + n,
                        !.feedback = {Feedback(a, rx[a].result) : a \in Evaluated}]
    /\ rac' = FALSE
    /\ harqStatus' = Updated
    /\ rx' = [a \in Acids |-> IF a \in Evaluated THEN EmptyRx ELSE rx[a]]
    /\ UNCHANGED <<configVars, units, queue, ueVars, due, ueDone>>

------------------------------------------------------------------------------
(* The end of the slot: the frames that are due arrive (fromPhy).  A frame *)
(* on which a handler would throw is not handled: the simulation has       *)
(* ended.                                                                  *)

\* LteHarqProcessRx::insertPdu: between two main loops no PDU is CORRUPTED.
Insertable(f) == rx[f.acid].status = "EMPTY"
\* receiveHarqFeedback, pduFeedback
Expected(f) == tx[f.acid].status = "WAITING"

\* macHandleRac and macHandleGrant
RacAndGrantArrive ==
    /\ bsrTriggered' = (bsrTriggered \/ due.won)
    /\ grant' = IF due.grant > 0 THEN due.grant ELSE grant
    /\ racRequested' = (racRequested /\ due.grant = 0)

\* LteHarqUnitTx::pduFeedback
Settled(a) ==
    \/ Feedback(a, TRUE) \in due.feedback
    \/ Feedback(a, FALSE) \in due.feedback /\ tx[a].transmissions = MaxRtx + 1
Nacked(a) == Feedback(a, FALSE) \in due.feedback
FeedbackArrives ==
    /\ \A f \in due.feedback : Expected(f)
    /\ tx' = [a \in Acids |->
                IF Settled(a) THEN EmptyTx
                ELSE IF Nacked(a) THEN [tx[a] EXCEPT !.status = "BUFFERED"]
                ELSE tx[a]]

\* LteHarqBufferRx::insertPdu; the decoder decides on the result.
Aged(a) == IF rx[a].status = "EMPTY" THEN rx[a] ELSE [rx[a] EXCEPT !.age = @ + 1]
DataArrives ==
    /\ \A f \in due.data : Insertable(f)
    /\ \E decoded \in BOOLEAN :
          rx' = [a \in Acids |->
                   IF \E f \in due.data : f.acid = a
                   THEN [status |-> "EVALUATING",
                         pdu |-> (CHOOSE f \in due.data : f.acid = a).pdu,
                         result |-> decoded, age |-> 1]
                   ELSE Aged(a)]

\* The base station answers a request as soon as it arrives.
EndOfSlot ==
    /\ enbDone /\ ueDone
    /\ enbDone' = FALSE /\ ueDone' = FALSE
    /\ RacAndGrantArrive
    /\ FeedbackArrives
    /\ DataArrives
    /\ rac' = (rac \/ due.rac)
    /\ due' = [sent EXCEPT !.won = due.rac]
    /\ sent' = Quiet
    /\ UNCHANGED <<configVars, units, queue, raRespTimer, bsrRtxTimer, firstTx,
                   currentHarq, bsr, harqStatus>>

Slot == EnbMainLoop \/ UeMainLoop \/ EndOfSlot
Next == NewData \/ Slot

\* The ticks of both MACs reschedule themselves in every slot.
Spec == Init /\ [][Next]_vars /\ WF_vars(Slot)

------------------------------------------------------------------------------
(* Properties.                                                             *)

\* The process the UE uses in the slot whose frames have not been sent yet, or
\* that it has just used.
UsedAcid ==
    IF ueDone THEN (currentHarq + NumProcs - 1) % NumProcs ELSE currentHarq
\* The process harqStatus_ will name, or names, in this slot.
NamedAcid == IF enbDone THEN harqStatus ELSE (harqStatus + 1) % NumProcs

\* The base station never hears which process the UE uses, and the two counts
\* start in different slots, at the first grant used and at the first PDU
\* received; from then on they name the same process in every slot (UE
\* currentHarq_, LteMacUe.cc:877; harqStatus_, LteSchedulerEnbUl.cc:73).
AcidsAgree == harqStatus # HARQ_NONE => UsedAcid = NamedAcid

\* No PDU arrives at a busy unit, no feedback finds a unit that is not waiting
\* for it, and no PDU is made that no process has room for, though a grant is
\* given without a look at the processes of the UE (LteHarqProcessRx.cc:45,
\* LteHarqUnitTx.cc:176, LteMacUe.cc:704).
NeverThrows ==
    /\ \A f \in due.data : enbDone => Insertable(f)
    /\ \A f \in due.feedback : Expected(f)
    /\ grant > 0 /\ ~ueDone /\ ToResend = {} => ToFill # {}

\* A PDU that was not decoded is sent again or given up, even when the UE has
\* nothing else to ask a grant for: the base station is the one to grant, and
\* it forgets the PDU at the end of the slot (LteMacEnb.cc:947).
NackedGoesOut ==
    \A a \in Acids :
        ~tight /\ tx[a].status = "BUFFERED" ~> tx[a].status # "BUFFERED"

\* What is queued at the UE is sent in the end, or at least asked for again
\* where other UEs may take all the room: lost reports, reports taken back,
\* requests answered with a grant that a retransmission used, and two timers
\* that hold requests back, never leave the queue unserved (LteMacUe.cc:1066).
BacklogServed == queue > 0 ~> (queue = 0 \/ (tight /\ sent.rac))
=============================================================================
