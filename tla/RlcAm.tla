-------------------------------- MODULE RlcAm --------------------------------
(***************************************************************************)
(* One direction of an RLC AM bearer: the AmTxQueue of one node and the    *)
(* AmRxQueue of its peer, joined by LteRlcAm (stack/rlc/am/LteRlcAm.cc)    *)
(* and the MAC below.  The status PDUs of the receiver wait in the         *)
(* pduBuffer_ of the peer's own AmTxQueue (ctlBuf); the data of the        *)
(* opposite direction is not modelled.                                     *)
(*                                                                         *)
(* The MAC takes the PDU at the head of pduBuffer_ into a free HARQ        *)
(* process.  Processes succeed independently of each other, so PDUs        *)
(* overtake one another, and a process gives its PDU up when the last HARQ *)
(* transmission fails (LteHarqUnitTx::pduFeedback).  A MAC request that is *)
(* too small for the PDU at the head leaves it there and sends a copy: of  *)
(* DATA a full one, of the control PDUs, which are all header, a copy of   *)
(* one bit, which the MAC drops (bufferizePacket), a stuttering step.      *)
(***************************************************************************)
EXTENDS AmTxQueue, AmRxQueue

CONSTANTS
    Procs,          \* the HARQ processes that carry the data direction
    CtlProcs        \* and those that carry the opposite direction

VARIABLES
    air,            \* the PDU each process of the data direction carries
    ctlAir          \* and of the opposite direction

chanVars == <<air, ctlAir>>
vars == <<txVars, rxVars, chanVars>>

Init ==
    /\ TxInit /\ RxInit
    /\ air = [p \in Procs |-> NoPdu]
    /\ ctlAir = [p \in CtlProcs |-> NoPdu]

\* An error in either entity ends the simulation.
Running == txErr = "none" /\ rxErr = "none"

\* sendPdus: the MAC requests a PDU from pduBuffer_.  If the head fits into the
\* request it leaves the buffer.  If it does not, it stays there until it does, and a
\* copy with a header of one bit goes down in its place: of a DATA PDU the copy still
\* has the payload, so the MAC sends it like any other.
SendPdu(p) ==
    /\ Running
    /\ air[p] = NoPdu /\ txBuf # <<>>
    /\ air' = [air EXCEPT ![p] = Head(txBuf)]
    /\ \/ txBuf' = Tail(txBuf)
       \/ Head(txBuf).type = "DATA" /\ UNCHANGED txBuf
    /\ UNCHANGED <<windowVars, pduTimer, bufTimer, mrwVars, sduVars, txErr,
                   rxVars, ctlAir>>

\* sendPdus for the status PDUs: they are all header, so their copy is one bit long.
SendCtl(p) ==
    /\ Running
    /\ ctlAir[p] = NoPdu /\ ctlBuf # <<>>
    /\ ctlAir' = [ctlAir EXCEPT ![p] = Head(ctlBuf)]
    /\ ctlBuf' = Tail(ctlBuf)
    /\ UNCHANGED <<rxFirst, rxSeq, bufferVars, statusTimer, ackReady, flowInfo,
                   delivered, rxErr, txVars, air>>

\* handleLowerMessage at the receiver: DATA and MRW go to AmRxQueue::enque.
DeliverPdu(p) ==
    /\ Running
    /\ air[p] # NoPdu
    /\ \/ air[p].type = "DATA" /\ RecvData(air[p])
       \/ air[p].type = "MRW" /\ RecvMrw(air[p])
    /\ air' = [air EXCEPT ![p] = NoPdu]
    /\ UNCHANGED <<txVars, ctlAir>>

\* handleLowerMessage at the transmitter: ACK and MRW_ACK go to
\* AmTxQueue::handleControlPacket.
DeliverCtl(p) ==
    /\ Running
    /\ ctlAir[p] # NoPdu
    /\ \/ ctlAir[p].type = "ACK" /\ RecvAck(ctlAir[p])
       \/ ctlAir[p].type = "MRW_ACK" /\ RecvMrwAck(ctlAir[p])
    /\ ctlAir' = [ctlAir EXCEPT ![p] = NoPdu]
    /\ UNCHANGED <<rxVars, air>>

\* The last HARQ transmission fails and the MAC PDU is discarded.
Lose(p) ==
    /\ Running
    /\ air[p] # NoPdu
    /\ air' = [air EXCEPT ![p] = NoPdu]
    /\ UNCHANGED <<txVars, rxVars, ctlAir>>

LoseCtl(p) ==
    /\ Running
    /\ ctlAir[p] # NoPdu
    /\ ctlAir' = [ctlAir EXCEPT ![p] = NoPdu]
    /\ UNCHANGED <<txVars, rxVars, air>>

\* Events of one entity alone: an SDU from above, a timer.
AtTx(Event) == Running /\ Event /\ UNCHANGED <<rxVars, chanVars>>
AtRx(Event) == Running /\ Event /\ UNCHANGED <<txVars, chanVars>>

Next ==
    \/ \E n \in SduFrags : AtTx(Enque(n))
    \/ \E sn \in pduTimer : AtTx(PduTimer(sn))
    \/ \E serial \in mrwTimer : AtTx(MrwTimer(serial))
    \/ AtTx(BufferStatusTimer)
    \/ AtRx(StatusTimer)
    \/ AtRx(AckInterval)
    \/ \E p \in Procs : SendPdu(p) \/ DeliverPdu(p) \/ Lose(p)
    \/ \E p \in CtlProcs : SendCtl(p) \/ DeliverCtl(p) \/ LoseCtl(p)

Spec == Init /\ [][Next]_vars

-----------------------------------------------------------------------------
(***************************************************************************)
(* Properties.                                                             *)
(***************************************************************************)

\* The type invariant; transmissions of a PDU are counted up to MaxRtx.
TypeOK ==
    /\ TxTypeOK /\ RxTypeOK
    /\ air \in [Procs -> DataPdu \cup MrwPdu \cup {NoPdu}]
    /\ ctlAir \in [CtlProcs -> AckPdu \cup MrwAckPdu \cup {NoPdu}]

InWindow(i) == i < TxUsed
IsSettled(i) == tReceived[i] \/ tDiscarded[i]

\* The two windows stay together although only MRW and MRW_ACK, which may be
\* lost, repeated and late, move them: the receiver is never behind the
\* transmitter's window and never ahead of what has been sent, and the
\* transmitter never has TxW or more PDUs outstanding.
WindowsTogether ==
    /\ txFirst <= rxFirst /\ rxFirst <= txSeq
    /\ txSeq < txFirst + TxW

\* Everything that is stored, waits or is on its way agrees with the windows:
\* no PDU has a sequence number that was not yet given out, an MRW (first sent or
\* repeated) asks only for what the transmitter has settled, and an MRW_ACK
\* reports only what the receiver has moved past.  With WindowsTogether this is
\* inductive.
SettledBelow(bound) ==
    bound <= txSeq /\ \A i \in TxSlots : txFirst + i < bound => IsSettled(i)

GoodPdu(m) ==
    /\ m.type = "DATA" => m.sno < txSeq
    /\ m.type = "MRW" => SettledBelow(m.target)

GoodCtl(m) == m.type = "MRW_ACK" => m.first <= rxFirst

StoredAgree == \A i \in TxSlots : rtx[i] # NoPdu => GoodPdu(rtx[i])
CommandsAgree == \A m \in mrwQ : GoodPdu(m)
WaitingAgree == \A k \in 1..Len(txBuf) : GoodPdu(txBuf[k])
AirAgree == \A p \in Procs : air[p] # NoPdu => GoodPdu(air[p])
AnswersAgree ==
    /\ \A k \in 1..Len(ctlBuf) : GoodCtl(ctlBuf[k])
    /\ \A p \in CtlProcs : ctlAir[p] # NoPdu => GoodCtl(ctlAir[p])

PdusAgree ==
    /\ SettledBelow(rxFirst)
    /\ StoredAgree /\ CommandsAgree /\ WaitingAgree /\ AirAgree
    /\ AnswersAgree

\* The two ends never drift apart, neither in their windows nor in what is on its
\* way between them.
WindowsAgree == WindowsTogether /\ PdusAgree

\* No late, repeated or stale ACK, MRW_ACK or timer makes the transmitter throw
\* (ACK beyond the window, timer of a PDU that is received or gone, MRW not
\* found, empty slot inside the window, busy slot for a new PDU).
TxNeverThrows == txErr = "none"

\* The receiver throws for no other reason than two: an MRW that arrives
\* before any DATA, whose answer needs the flow info of one (AmRxQueue.cc:228),
\* and fragments of an abandoned SDU left in pending (AmRxQueue.cc:362).
RxThrowsOnlyKnown == rxErr \in {"none", "noFlowInfo", "mixedPending"}

\* What the receiver says it has received it holds, at the slot of its number.
ReceivedIsStored ==
    \A i \in RxSlots : rReceived[i] =>
        rBuf[i] # NoPdu /\ rBuf[i].sno = rxFirst + i

\* No false acknowledgement: a PDU the transmitter has marked received, and every
\* PDU an ACK under way reports, is in the receiver's buffer or before its window.
Holds(sn) == sn < rxFirst \/ (sn - rxFirst \in RxSlots /\ rBuf[sn - rxFirst] # NoPdu)

AckTruthful ==
    /\ \A i \in TxSlots : tReceived[i] => Holds(txFirst + i)
    /\ \A p \in CtlProcs : ctlAir[p] # NoPdu /\ ctlAir[p].type = "ACK" =>
          /\ \A sn \in ctlAir[p].acked : Holds(sn)
          /\ \A i \in RxSlots : rxFirst + i <= ctlAir[p].last => rBuf[i] # NoPdu

\* Reliability of acknowledged mode: an SDU of which no PDU is left in the
\* window has been passed up, unless the transmitter knows it has not (it never
\* fitted, or its retransmissions were used up).
Outstanding(s) == \E i \in TxSlots : rtx[i] # NoPdu /\ rtx[i].sdu = s

NoSilentLoss ==
    \A s \in 0..(nextSdu - 1) :
        \/ s \in dropped \cup givenUp
        \/ Outstanding(s)
        \/ \E k \in DOMAIN delivered : delivered[k].sdu = s

\* An SDU is passed up at most once, although its PDUs may be sent several
\* times, may leave the window through pending and may be reported late.
DeliveredOnce ==
    \A j, k \in DOMAIN delivered :
        delivered[j].sdu = delivered[k].sdu => j = k

\* What is passed up is all of one SDU: its PDUs, each once, in order.
DeliveredIntact ==
    \A k \in DOMAIN delivered :
        LET frames == delivered[k].frames IN
        /\ Len(frames) = frames[1].last - frames[1].first + 1
        /\ \A n \in DOMAIN frames : /\ frames[n].sdu = delivered[k].sdu
                                    /\ frames[n].sno = frames[1].first + n - 1

\* The service to PDCP under retransmission: each SDU once, and whole.
DeliveredOnceWhole == DeliveredOnce /\ DeliveredIntact

\* A retransmission timer runs for the PDUs in the window that are neither
\* received nor discarded, and for no other.
TimersMatchWindow ==
    pduTimer = {txFirst + i : i \in {j \in TxSlots : InWindow(j) /\ ~IsSettled(j)}}

\* No retransmission timer, MRW timer or answer that has become stale does any
\* harm: the transmitter never throws, and its timers fit its window.
StaleEventsHarmless == TxNeverThrows /\ TimersMatchWindow

\* The window cannot get stuck: if its first PDU is settled, something is still
\* running that will move the window - an MRW to be repeated, the buffer status
\* timer, or the receiver's status timer with the PDU in its buffer.
WindowDriven ==
    Running /\ TxUsed > 0 /\ IsSettled(0) =>
        mrwTimer # {} \/ bufTimer \/ (statusTimer /\ HoldsPdus)

\* A PDU leaves the transmitter's window only received or discarded, however
\* late the MRW_ACK that moves the window.
LeavesSettled ==
    [][\A i \in TxSlots : txFirst + i < txFirst' => IsSettled(i)]_vars

=============================================================================
