----------------------------- MODULE UmTxEntity -----------------------------
(***************************************************************************)
(* The transmitting entity of RLC UM (stack/rlc/um/entity/UmTxEntity.cc):  *)
(* SDUs wait in a queue of limited size; on a request of the MAC the       *)
(* entity concatenates as many as fit into one PDU and cuts the last one.  *)
(* Lengths are in units of one byte of the real program; what the PDU      *)
(* holds beside its chunks (headers, tags) is left out.                    *)
(***************************************************************************)
EXTENDS Integers, Sequences

CONSTANTS
    SduLengths,     \* the lengths an SDU may have
    Requests,       \* the room a MAC request leaves beside RLC_HEADER_UM
    QueueSize,      \* queueSize_, 0 for an unlimited queue
    MaxSdus         \* bound: SDUs that come from PDCP

ASSUME UmTxAssumption ==
    /\ SduLengths \subseteq Nat \ {0}
    /\ Requests \subseteq Nat
    /\ QueueSize \in Nat /\ MaxSdus \in Nat

VARIABLES
    sduLength,      \* history: the length of each SDU, SDU s at position s + 1
    sduQueue,       \* sduQueue_: SDU numbers
    fragmentInfo,   \* what is left of the SDU at the head, 0 for nullptr
    firstIsFragment,\* firstIsFragment_
    sno,            \* sno_: the number the next PDU takes
    pdus            \* history: the PDUs made, PDU t at position t + 1

txVars == <<sduLength, sduQueue, fragmentInfo, firstIsFragment, sno, pdus>>

Sdus == 0..(Len(sduLength) - 1)
LengthOf(s) == sduLength[s + 1]

PduNos == 0..(sno - 1)

Chunk == [sdu : Nat, size : Nat \ {0}]
Pdu == [startFrag : BOOLEAN, endFrag : BOOLEAN, chunks : Seq(Chunk)]

TxInit ==
    /\ sduLength = <<>> /\ sduQueue = <<>>
    /\ fragmentInfo = 0 /\ firstIsFragment = FALSE
    /\ sno = 0 /\ pdus = <<>>

TxTypeOK ==
    /\ sduLength \in Seq(SduLengths)
    /\ sduQueue \in Seq(Sdus)
    /\ fragmentInfo \in Nat
    /\ firstIsFragment \in BOOLEAN
    /\ pdus \in Seq(Pdu) /\ sno = Len(pdus)

-----------------------------------------------------------------------------
\* queueLength_: an SDU counts with its whole length until it is popped.
QueueLength ==
    LET Upto[n \in 0..Len(sduQueue)] ==
          IF n = 0 THEN 0 ELSE Upto[n - 1] + LengthOf(sduQueue[n])
    IN  Upto[Len(sduQueue)]

\* enque, with the tail drop of LteRlcUm::handleUpperMessage.  The number of a
\* dropped SDU was taken at PDCP and is not used again.
Enque(len) ==
    /\ Len(sduLength) < MaxSdus
    /\ sduLength' = Append(sduLength, len)
    /\ sduQueue' = IF QueueSize = 0 \/ QueueLength + len < QueueSize
                   THEN Append(sduQueue, Len(sduLength))
                   ELSE sduQueue
    /\ UNCHANGED <<fragmentInfo, firstIsFragment, sno, pdus>>

-----------------------------------------------------------------------------

\* The bytes the i-th SDU of the queue still has to send.
Left(i) ==
    IF i = 1 /\ fragmentInfo # 0 THEN fragmentInfo ELSE LengthOf(sduQueue[i])

\* The bytes the first n SDUs of the queue still have to send.
Bytes(n) ==
    LET Upto[k \in 0..n] == IF k = 0 THEN 0 ELSE Upto[k - 1] + Left(k)
    IN  Upto[n]

\* The number of SDUs that go into a PDU of the given room to their end.
WholeIn(room) ==
    CHOOSE n \in 0..Len(sduQueue) :
        /\ Bytes(n) <= room
        /\ \A k \in (n + 1)..Len(sduQueue) : Bytes(k) > room

\* rlcPduMake: SDUs from the head of the queue while there is room, the last
\* one cut when it does not fit.  A request that has no room for data makes an
\* empty PDU, which takes no number and which the MAC drops: a stuttering step.
RlcPduMake(room) ==
    LET n    == WholeIn(room)
        rest == room - Bytes(n)
        cut  == n < Len(sduQueue) /\ rest > 0
        whole == [i \in 1..n |-> [sdu |-> sduQueue[i], size |-> Left(i)]]
        part  == IF cut THEN <<[sdu |-> sduQueue[n + 1], size |-> rest]>> ELSE <<>>
    IN  /\ room > 0 /\ sduQueue # <<>>
        /\ pdus' = Append(pdus, [startFrag |-> firstIsFragment, endFrag |-> cut,
                                 chunks |-> whole \o part])
        /\ sno' = sno + 1
        /\ sduQueue' = SubSeq(sduQueue, n + 1, Len(sduQueue))
        /\ fragmentInfo' = IF cut THEN Left(n + 1) - rest
                           ELSE IF n > 0 THEN 0 ELSE fragmentInfo
        /\ firstIsFragment' = cut
        /\ UNCHANGED sduLength
=============================================================================
