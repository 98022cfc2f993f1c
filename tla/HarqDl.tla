------------------------------- MODULE HarqDl -------------------------------
(***************************************************************************)
(* Downlink H-ARQ between one eNB and one UE on one carrier: the           *)
(* LteHarqBufferTx the eNB keeps for the UE, the LteHarqBufferRx the UE    *)
(* keeps for the eNB, the retransmission scheduler and the slot loops of   *)
(* the two MACs that drive them.                                           *)
(*                                                                         *)
(* Time is counted in slots.  In every slot the two main loops run first   *)
(* (scheduling priority 1), the flush of the eNB follows its main loop,    *)
(* and the frames sent one slot before arrive last (airFramePriority_ is   *)
(* 10).  A frame is never lost: a decoding failure is a NACK.              *)
(*                                                                         *)
(* A process has two units, one per codeword, and the scheduler only ever  *)
(* uses codeword 0: scheduleGrant sets numCodewords = 1, and every AMC     *)
(* pilot transmits with TRANSMIT_DIVERSITY.  A process is its unit 0 here. *)
(***************************************************************************)
EXTENDS Naturals, FiniteSets

CONSTANTS
    NumProcs,       \* ENB_TX_HARQ_PROCESSES
    MaxRtx,         \* maxHarqRtx
    FbTimer,        \* harqFbEvaluationTimer, in slots
    NumPdus,        \* bound: the MAC PDUs that exist at the same time
    NoPdu,          \* nullptr
    Purges          \* the UE is an LteMacUeD2D, which purges corrupted PDUs

ASSUME HarqAssumption ==
    /\ NumProcs \in Nat \ {0}
    /\ MaxRtx \in Nat
    /\ FbTimer \in Nat \ {0}
    /\ NumPdus \in Nat
    /\ NoPdu \notin 1..NumPdus
    /\ Purges \in BOOLEAN

Acids == 0..NumProcs - 1
Pdus == 1..NumPdus
HARQ_NONE == NumProcs

VARIABLES
    tightBand,      \* a retransmission may not fit the blocks of the slot
    tx,             \* LteHarqUnitTx of each process: status, transmissions, pdu
    selectedAcid,   \* LteHarqBufferTx::selectedAcid_
    needRtx,        \* LteMacEnb::needRtxDl_ of the carrier
    rx,             \* LteHarqProcessRx: status, transmissions, pdu, result, age
    air,            \* the frames under way
    enbStep,        \* how far the eNB is in this slot
    ueDone,         \* the UE has run its main loop in this slot
    fate,           \* what has become of each PDU at the eNB
    deliveries      \* how often the UE has passed it to its RLC

txVars == <<tx, selectedAcid, needRtx>>
slotVars == <<enbStep, ueDone>>
ghostVars == <<fate, deliveries>>
vars == <<tightBand, txVars, rx, air, slotVars, ghostVars>>

EmptyTx == [status |-> "EMPTY", transmissions |-> 0, pdu |-> NoPdu]
EmptyRx == [status |-> "EMPTY", transmissions |-> 0, pdu |-> NoPdu,
            result |-> FALSE, age |-> 0]

\* A frame arrives at the end of the slot in which its due is 0.
DataFrame(a, p, new) ==
    [type |-> "DATA", acid |-> a, pdu |-> p, flag |-> new, due |-> 1]
\* Mutant of Feedback: the result of the decoder is not copied.
FeedbackAlwaysAck(a, p, ack) ==
    [type |-> "HARQ", acid |-> a, pdu |-> p, flag |-> TRUE, due |-> 1]
Feedback(a, p, ack) ==
    [type |-> "HARQ", acid |-> a, pdu |-> p, flag |-> ack, due |-> 1]

Init ==
    /\ tightBand \in BOOLEAN
    /\ tx = [a \in Acids |-> EmptyTx]
    /\ selectedAcid = HARQ_NONE
    /\ needRtx = 0
    /\ rx = [a \in Acids |-> EmptyRx]
    /\ air = {}
    /\ enbStep = "main" /\ ueDone = FALSE
    /\ fate = [p \in Pdus |-> "unused"]
    /\ deliveries = [p \in Pdus |-> 0]

------------------------------------------------------------------------------
(* The eNB main loop: retransmissions first, then a grant for new data.    *)

Ready == {a \in Acids : tx[a].status = "BUFFERED"}
Free == {a \in Acids : tx[a].status = "EMPTY"}

\* What rtxschedule considers: nothing while needRtxDl_ is zero.
Candidates == IF needRtx = 0 THEN {} ELSE Ready

\* rtxschedule scans the processes upwards and serves the first whose PDU
\* fits the blocks; on a loose band every PDU fits.
MayServe(a) == a \in Candidates /\ (tightBand \/ \A b \in Candidates : a <= b)

\* Mutant of Retransmit: the signal is not taken back.
RetransmitStillSignalled(a) ==
    /\ enbStep = "main"
    /\ MayServe(a)
    /\ tx' = [tx EXCEPT ![a].status = "SELECTED"]
    /\ selectedAcid' = a
    /\ enbStep' = "flush"
    /\ UNCHANGED <<needRtx, rx, air, ueDone, ghostVars>>
Retransmit(a) ==
    /\ enbStep = "main"
    /\ MayServe(a)
    /\ tx' = [tx EXCEPT ![a].status = "SELECTED"]
    /\ selectedAcid' = a
    /\ needRtx' = needRtx - 1
    /\ enbStep' = "flush"
    /\ UNCHANGED <<rx, air, ueDone, ghostVars>>

\* No retransmission was served in this slot.
NothingServed == tightBand \/ Candidates = {}

\* The PDUs that no process and no frame holds any more: a new MAC PDU takes
\* the identity of one of them.
Held == {tx[a].pdu : a \in Acids} \cup {rx[a].pdu : a \in Acids}
          \cup {f.pdu : f \in air}
Fresh == Pdus \ Held

\* scheduleGrant and macPduMake: the PDU goes to the first empty process.
SendNew(p, a) ==
    /\ enbStep = "main"
    /\ NothingServed
    /\ p \in Fresh /\ \A q \in Fresh : p <= q
    /\ a \in Free /\ \A b \in Free : a <= b
    /\ tx' = [tx EXCEPT ![a] = [status |-> "SELECTED", transmissions |-> 0,
                                pdu |-> p]]
    /\ selectedAcid' = a
    /\ fate' = [fate EXCEPT ![p] = "live"]
    /\ deliveries' = [deliveries EXCEPT ![p] = 0]
    /\ enbStep' = "flush"
    /\ UNCHANGED <<needRtx, rx, air, ueDone>>

\* checkEligibility also grants when no process is empty; macPduMake then
\* deletes the PDU it has made.
DeleteNew(p) ==
    /\ enbStep = "main"
    /\ NothingServed
    /\ p \in Fresh /\ \A q \in Fresh : p <= q
    /\ Free = {}
    /\ fate' = [fate EXCEPT ![p] = "deleted"]
    /\ deliveries' = [deliveries EXCEPT ![p] = 0]
    /\ enbStep' = "flush"
    /\ UNCHANGED <<txVars, rx, air, ueDone>>

SendNothing ==
    /\ enbStep = "main"
    /\ NothingServed
    /\ enbStep' = "flush"
    /\ UNCHANGED <<txVars, rx, air, ueDone, ghostVars>>

\* sendSelectedDown and LteHarqUnitTx::extractPdu.
Extracted(u) ==
    [status |-> "WAITING", transmissions |-> u.transmissions + 1, pdu |-> u.pdu]

FlushHarqBuffers ==
    /\ enbStep = "flush"
    /\ enbStep' = "done"
    /\ selectedAcid' = HARQ_NONE
    /\ IF selectedAcid # HARQ_NONE /\ tx[selectedAcid].status = "SELECTED"
       THEN LET u == Extracted(tx[selectedAcid])
            IN  /\ tx' = [tx EXCEPT ![selectedAcid] = u]
                /\ air' = air \cup {DataFrame(selectedAcid, u.pdu,
                                              u.transmissions = 1)}
       ELSE UNCHANGED <<tx, air>>
    /\ UNCHANGED <<needRtx, rx, ueDone, ghostVars>>

------------------------------------------------------------------------------
(* The UE main loop: extractCorrectPdus, and the purge of an LteMacUeD2D.  *)

\* LteHarqProcessRx::isEvaluated.
\* Mutant of Evaluated: the evaluation takes one slot more.
EvaluatedLate == {a \in Acids : rx[a].status = "EVALUATING"
                                  /\ rx[a].age >= FbTimer}
Evaluated == {a \in Acids : rx[a].status = "EVALUATING"
                              /\ rx[a].age >= FbTimer - 1}

\* Mutants of AfterLoop: resetCodeword forgets transmissions_; it waits
\* for one transmission more than there are.
AfterLoopKeepsCount(a) ==
    IF a \in Evaluated
      THEN IF rx[a].result \/ rx[a].transmissions = MaxRtx + 1 \/ Purges
           THEN [EmptyRx EXCEPT !.transmissions = rx[a].transmissions]
           ELSE [rx[a] EXCEPT !.status = "CORRUPTED"]
      ELSE rx[a]
AfterLoopOffByOne(a) ==
    IF a \in Evaluated
      THEN IF rx[a].result \/ rx[a].transmissions > MaxRtx + 1 \/ Purges
           THEN EmptyRx
           ELSE [rx[a] EXCEPT !.status = "CORRUPTED"]
      ELSE rx[a]

\* A process after createFeedback, extractPdu and purgeCorruptedPdus.
AfterLoop(a) ==
    IF a \in Evaluated
      THEN IF rx[a].result \/ rx[a].transmissions = MaxRtx + 1 \/ Purges
           THEN EmptyRx
           ELSE [rx[a] EXCEPT !.status = "CORRUPTED"]
      ELSE rx[a]

UeMainLoop ==
    /\ ~ueDone
    /\ ueDone' = TRUE
    /\ rx' = [a \in Acids |-> AfterLoop(a)]
    /\ air' = air \cup {Feedback(a, rx[a].pdu, rx[a].result) : a \in Evaluated}
    /\ deliveries' = [p \in Pdus |->
                        deliveries[p] + Cardinality({a \in Evaluated :
                                            rx[a].pdu = p /\ rx[a].result})]
    /\ UNCHANGED <<txVars, enbStep, fate>>

------------------------------------------------------------------------------
(* Arrivals (LteMacBase::fromPhy).  A frame that would make the handler    *)
(* throw is not handled: the simulation has ended.                         *)

SlotLoopsDone == enbStep = "done" /\ ueDone

\* LteHarqProcessRx::insertPdu throws on new data in a busy unit, and on any
\* data in a unit that is not empty or corrupted.
Insertable(f) ==
    \/ rx[f.acid].status = "EMPTY"
    \/ ~f.flag /\ rx[f.acid].status = "CORRUPTED"

\* The decoder of the UE decides whether the PDU is received correctly.
DataArrives(f, decoded) ==
    /\ SlotLoopsDone
    /\ f \in air /\ f.type = "DATA" /\ f.due = 0
    /\ Insertable(f)
    /\ rx' = [rx EXCEPT ![f.acid] =
                [status |-> "EVALUATING", transmissions |-> @.transmissions + 1,
                 pdu |-> f.pdu, result |-> decoded, age |-> 0]]
    /\ air' = air \ {f}
    /\ UNCHANGED <<txVars, slotVars, ghostVars>>

\* receiveHarqFeedback throws unless the unit holds the PDU of the feedback
\* and waits for it.
Expected(f) ==
    tx[f.acid].pdu = f.pdu /\ tx[f.acid].status = "WAITING"

\* LteHarqUnitTx::pduFeedback: the unit is reset by an ACK,
AckArrives(f) ==
    /\ SlotLoopsDone
    /\ f \in air /\ f.type = "HARQ" /\ f.due = 0
    /\ Expected(f) /\ f.flag
    /\ tx' = [tx EXCEPT ![f.acid] = EmptyTx]
    /\ fate' = [fate EXCEPT ![f.pdu] = "acked"]
    /\ air' = air \ {f}
    /\ UNCHANGED <<selectedAcid, needRtx, rx, slotVars, deliveries>>

\* by the NACK of the last transmission,
LastNackArrives(f) ==
    /\ SlotLoopsDone
    /\ f \in air /\ f.type = "HARQ" /\ f.due = 0
    /\ Expected(f) /\ ~f.flag
    /\ tx[f.acid].transmissions = MaxRtx + 1
    /\ tx' = [tx EXCEPT ![f.acid] = EmptyTx]
    /\ fate' = [fate EXCEPT ![f.pdu] = "discarded"]
    /\ air' = air \ {f}
    /\ UNCHANGED <<selectedAcid, needRtx, rx, slotVars, deliveries>>

\* Mutant of NackArrives: signalProcessForRtx is not called.
NackNotSignalled(f) ==
    /\ SlotLoopsDone
    /\ f \in air /\ f.type = "HARQ" /\ f.due = 0
    /\ Expected(f) /\ ~f.flag
    /\ tx[f.acid].transmissions # MaxRtx + 1
    /\ tx' = [tx EXCEPT ![f.acid].status = "BUFFERED"]
    /\ air' = air \ {f}
    /\ UNCHANGED <<selectedAcid, needRtx, rx, slotVars, ghostVars>>
\* and buffered for retransmission by any other NACK.
NackArrives(f) ==
    /\ SlotLoopsDone
    /\ f \in air /\ f.type = "HARQ" /\ f.due = 0
    /\ Expected(f) /\ ~f.flag
    /\ tx[f.acid].transmissions # MaxRtx + 1
    /\ tx' = [tx EXCEPT ![f.acid].status = "BUFFERED"]
    /\ needRtx' = needRtx + 1
    /\ air' = air \ {f}
    /\ UNCHANGED <<selectedAcid, rx, slotVars, ghostVars>>

NextSlot ==
    /\ SlotLoopsDone
    /\ \A f \in air : f.due > 0
    /\ air' = {[f EXCEPT !.due = @ - 1] : f \in air}
    /\ rx' = [a \in Acids |->
                IF rx[a].status = "EVALUATING" /\ rx[a].age < FbTimer
                THEN [rx[a] EXCEPT !.age = @ + 1] ELSE rx[a]]
    /\ enbStep' = "main" /\ ueDone' = FALSE
    /\ UNCHANGED <<txVars, ghostVars>>

------------------------------------------------------------------------------

EnbMainLoop ==
    \/ \E a \in Acids : Retransmit(a)
    \/ \E p \in Pdus : DeleteNew(p) \/ \E a \in Acids : SendNew(p, a)
    \/ SendNothing

Arrival ==
    \E f \in air : \/ \E decoded \in BOOLEAN : DataArrives(f, decoded)
                   \/ AckArrives(f) \/ LastNackArrives(f) \/ NackArrives(f)

\* The band of a run is tight or loose throughout.
Next ==
    /\ \/ EnbMainLoop \/ FlushHarqBuffers \/ UeMainLoop \/ Arrival
       \/ NextSlot
    /\ UNCHANGED tightBand

Spec == Init /\ [][Next]_vars

\* The slot tick of both MACs is rescheduled in every slot, and a frame under
\* way arrives.
FairSpec == Spec /\ WF_vars(Next)

------------------------------------------------------------------------------
(* Properties.                                                             *)

\* (tightBand, which no step changes, is left out.)
TxUnit == [status : {"EMPTY", "SELECTED", "WAITING", "BUFFERED"},
           transmissions : 0..MaxRtx + 1, pdu : Pdus \cup {NoPdu}]
RxUnit == [status : {"EMPTY", "EVALUATING", "CORRUPTED"},
           transmissions : 0..MaxRtx + 1, pdu : Pdus \cup {NoPdu},
           result : BOOLEAN, age : 0..FbTimer]
Frame == [type : {"DATA", "HARQ"}, acid : Acids, pdu : Pdus, flag : BOOLEAN,
          due : {0, 1}]

TypeOK ==
    /\ tx \in [Acids -> TxUnit]
    /\ selectedAcid \in Acids \cup {HARQ_NONE}
    /\ needRtx \in Nat
    /\ rx \in [Acids -> RxUnit]
    /\ air \in SUBSET Frame
    /\ enbStep \in {"main", "flush", "done"} /\ ueDone \in BOOLEAN
    /\ fate \in [Pdus -> {"unused", "live", "acked", "discarded", "deleted"}]
    /\ deliveries \in [Pdus -> Nat]

FramesOf(a) == {f \in air : f.acid = a}
Evaluating(a) == rx[a].status = "EVALUATING"

\* The PDU of a unit that waits is in exactly one place: it is a data frame,
\* the receiver evaluates it, or the feedback to it is a frame.
OneCopy(a) ==
    IF tx[a].status = "WAITING"
    THEN \/ Evaluating(a) /\ rx[a].pdu = tx[a].pdu /\ FramesOf(a) = {}
         \/ ~Evaluating(a) /\ \E f \in FramesOf(a) :
                FramesOf(a) = {f} /\ f.pdu = tx[a].pdu
    ELSE ~Evaluating(a) /\ FramesOf(a) = {}

\* The transmitter, the air and the receiver never disagree on where a PDU
\* is: neither end sends a PDU or a feedback while another one for the same
\* process is under way.
OneCopyUnderWay == \A a \in Acids : OneCopy(a)

\* The receiver of a process whose PDU has failed n times: it counts the same
\* failures as the transmitter, unless it purges, and forgets the PDU at the
\* transmission at which the transmitter gives it up.
RxAfterNacks(a, n) ==
    IF n = 0 \/ n > MaxRtx \/ Purges
    THEN rx[a].status = "EMPTY" /\ rx[a].transmissions = 0
    ELSE rx[a].status = "CORRUPTED" /\ rx[a].transmissions = n

InStep(a) ==
    LET n == tx[a].transmissions
    IN  /\ tx[a].status = "EMPTY" => RxAfterNacks(a, 0)
        /\ tx[a].status \in {"SELECTED", "BUFFERED"} =>
             n <= MaxRtx /\ RxAfterNacks(a, n)
        /\ tx[a].status = "WAITING" =>
             /\ n >= 1
             /\ Evaluating(a) =>
                  rx[a].transmissions = IF Purges THEN 1 ELSE n
             /\ \A f \in FramesOf(a) :
                  /\ f.type = "DATA" =>
                       f.flag = (n = 1) /\ RxAfterNacks(a, n - 1)
                  /\ f.type = "HARQ" =>
                       RxAfterNacks(a, IF f.flag THEN 0 ELSE n)

\* The PDU of a busy process is live and in no other process.
Owned(a) ==
    IF tx[a].status = "EMPTY"
    THEN tx[a].pdu = NoPdu
    ELSE /\ tx[a].pdu \in Pdus /\ fate[tx[a].pdu] = "live"
         /\ \A b \in Acids : tx[b].pdu = tx[a].pdu => b = a

LiveIsOwned ==
    \A p \in Pdus : fate[p] = "live" => \E a \in Acids : tx[a].pdu = p

\* It has been passed to the RLC exactly when its ACK is under way.
AckSent(a) == \E f \in FramesOf(a) : f.type = "HARQ" /\ f.flag
DeliveredIfAcked(a) ==
    tx[a].status # "EMPTY" =>
        deliveries[tx[a].pdu] = IF AckSent(a) THEN 1 ELSE 0

\* Transmitter and receiver agree on each PDU although they tell each other
\* nothing but ACK and NACK: on how often it was sent, on who holds it and on
\* whether it was delivered.
EndsAgree ==
    /\ \A a \in Acids : InStep(a) /\ Owned(a) /\ DeliveredIfAcked(a)
    /\ LiveIsOwned

\* LteHarqProcessRx::insertPdu never throws "New data arriving in busy harq
\* process -- this should not happen" (LteHarqProcessRx.cc:46): the two ends
\* give a PDU up at the same transmission although only the receiver's own
\* count of insertions tells it so.
NewDataMeetsIdleUnit ==
    \A f \in air : f.type = "DATA" => Insertable(f)

\* LteHarqBufferTx::receiveHarqFeedback and LteHarqUnitTx::pduFeedback never
\* throw: no feedback is late, for another PDU or for a unit that no longer
\* waits (LteHarqBufferTx.cc:240, LteHarqUnitTx.cc:176).
FeedbackIsExpected ==
    \A f \in air : f.type = "HARQ" => Expected(f)

\* No handler of either end throws on what the other end sent.
NeverThrows == NewDataMeetsIdleUnit /\ FeedbackIsExpected

\* The PDU that markSelected or insertPdu selects is extracted in the flush of
\* the same slot: sendSelectedDown only looks at the last selected process,
\* and a unit left SELECTED would never be sent again.
SelectedIsSent ==
    enbStep # "flush" => \A a \in Acids : tx[a].status # "SELECTED"

\* needRtxDl_ is the number of units that wait for a retransmission: a count
\* that is too low makes scheduleRetransmissions skip them.
NeedRtxCounts == needRtx = Cardinality(Ready)

\* Neither the flush of a slot nor the scheduler forgets a PDU it should send.
NothingForgotten == SelectedIsSent /\ NeedRtxCounts

\* No MAC PDU is made for which no process is empty.  On a loose band it takes
\* FbTimer + 2 processes, and four at least: a process is busy for that many
\* slots, and a NACK is answered by a retransmission in the next slot.
GrantFindsProcess ==
    ~tightBand => \A p \in Pdus : fate[p] # "deleted"

\* On a loose band every PDU that is sent is acknowledged or given up in the
\* end: serving the lowest process first starves none, because no new data is
\* granted while retransmissions are pending and each process gives up after
\* MaxRtx + 1 transmissions.
EverySentPduIsSettled ==
    \A p \in Pdus : fate[p] = "live" /\ ~tightBand ~> fate[p] # "live"

\* H-ARQ keeps the promise of HarqService to the RLC: a PDU is delivered at
\* most once, an acknowledged one was delivered, a discarded one never is.
Service == INSTANCE HarqService WITH
               Pdus <- Pdus, fate <- fate, deliveries <- deliveries
KeepsService == Service!Spec
=============================================================================
