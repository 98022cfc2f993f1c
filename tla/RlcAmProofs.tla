----------------------------- MODULE RlcAmProofs -----------------------------
(***************************************************************************)
(* Theorems about RlcAm, for every window size, every number of HARQ       *)
(* processes and every bound: first the types, one lemma per event         *)
(* handler, then the agreement of the two ends.  That a step keeps the     *)
(* types needs one fact about the windows (TxUsed <= TxW), so TypeCorrect  *)
(* comes with the inductive invariant.  Then, for windows that are large   *)
(* enough, true flags and acknowledgements, timers without harm and a      *)
(* window that is driven; then, for all windows, that no SDU is passed up  *)
(* twice; and last, for windows that are large enough, that what is passed *)
(* up is whole, that the receiver throws for the known reasons only and    *)
(* that no SDU of one or two fragments is lost in silence.                 *)
(***************************************************************************)
EXTENDS RlcAm, SequenceTheorems, FiniteSetTheorems, WellFoundedInduction, TLAPS

-----------------------------------------------------------------------------
(* Type correctness. *)

\* A PDU to be sent keeps the types of the buffer of the transmitter.
LEMMA CopyType ==
    ASSUME NEW p \in DataPdu
    PROVE  Copy(p) \in DataPdu
BY ParameterAssumption DEF Copy, DataPdu

LEMMA DataType ==
    ASSUME NEW sno \in Nat, NEW sdu \in Nat, NEW first \in Nat, NEW last \in Nat
    PROVE  Data(sno, sdu, first, last) \in DataPdu
BY ParameterAssumption DEF Data, DataPdu

\* checkForMrw keeps the types of the MRW state and of the buffer.
MrwTypeOK ==
    /\ mrwQ \in SUBSET MrwPdu /\ mrwTimer \in SUBSET Nat
    /\ mrwSn \in Nat /\ lastMrw \in Nat
    /\ txBuf \in Seq(DataPdu \cup MrwPdu)

LEMMA CheckForMrwType ==
    ASSUME TxTypeOK, NEW received, NEW discarded,
           NEW buf \in Seq(DataPdu \cup MrwPdu),
           CheckForMrw(received, discarded, buf)
    PROVE  MrwTypeOK'
<1>1. PICK k \in 0..TxW :
         \/ txBuf' = buf /\ UNCHANGED mrwVars
         \/ SendMrw(txFirst + k, buf)
  BY DEF CheckForMrw
<1>2. CASE txBuf' = buf /\ UNCHANGED mrwVars
  BY <1>2 DEF TxTypeOK, MrwTypeOK, mrwVars
<1>3. CASE SendMrw(txFirst + k, buf)
  <2>1. k \in Nat /\ txFirst + k \in Nat
    BY WindowAssumption DEF TxTypeOK
  <2>2. Mrw(mrwSn, txFirst + k) \in MrwPdu
    BY <2>1 DEF TxTypeOK, Mrw, MrwPdu
  <2>3. txBuf' \in Seq(DataPdu \cup MrwPdu)
    BY <2>2, <1>3 DEF SendMrw
  <2>4. /\ mrwQ' \in SUBSET MrwPdu /\ mrwTimer' \in SUBSET Nat
        /\ mrwSn' \in Nat /\ lastMrw' \in Nat
    BY <2>2, <1>3 DEF SendMrw, TxTypeOK
  <2> QED
    BY <2>3, <2>4 DEF MrwTypeOK
<1> QED
  BY <1>1, <1>2, <1>3

LEMMA TxThrowType ==
    ASSUME TxTypeOK, NEW e \in TxErrors, TxThrow(e)
    PROVE  TxTypeOK'
<1>1. txErr' \in TxErrors
  BY DEF TxThrow
<1> QED
  BY <1>1 DEF TxTypeOK, TxThrow, windowVars, mrwVars, sduVars

LEMMA EnqueType ==
    ASSUME TxTypeOK, NEW n \in SduFrags, Enque(n)
    PROVE  TxTypeOK'
<1> DEFINE new == TxUsed..(TxUsed + n - 1)
           Fragment(i) == Data(txFirst + i, nextSdu, txSeq, txSeq + n - 1)
<1>0. n \in Nat \ {0} /\ txFirst \in Nat /\ txSeq \in Nat /\ nextSdu \in Nat
  BY ParameterAssumption DEF TxTypeOK
<1>1. CASE ~Fits(n) /\ dropped' = dropped \cup {nextSdu} /\ nextSdu' = nextSdu + 1
           /\ UNCHANGED <<windowVars, pduTimer, bufTimer, mrwVars, txBuf, givenUp,
                          txErr>>
  <2>1. dropped' \in SUBSET Nat /\ nextSdu' \in Nat
    BY <1>0, <1>1 DEF TxTypeOK
  <2> QED
    BY <1>1, <2>1 DEF TxTypeOK, windowVars, mrwVars
<1>2. CASE /\ rtx' = [i \in TxSlots |-> IF i \in new THEN Fragment(i) ELSE rtx[i]]
           /\ txSeq' = txSeq + n
           /\ pduTimer' = pduTimer \cup txSeq..(txSeq + n - 1)
           /\ bufTimer' = TRUE
           /\ txBuf' = txBuf \o [k \in 1..n |-> Fragment(TxUsed + k - 1)]
           /\ nextSdu' = nextSdu + 1
           /\ UNCHANGED <<txFirst, tReceived, tDiscarded, mrwVars, dropped,
                          givenUp, txErr>>
  <2>1. \A i \in TxSlots : Fragment(i) \in DataPdu
    <3> SUFFICES ASSUME NEW i \in TxSlots PROVE Fragment(i) \in DataPdu
      OBVIOUS
    <3>1. txFirst + i \in Nat /\ txSeq + n - 1 \in Nat
      BY <1>0, WindowAssumption DEF TxSlots
    <3> QED
      BY <3>1, <1>0, DataType
  <2>2. \A k \in 1..n : Fragment(TxUsed + k - 1) \in DataPdu
    <3> SUFFICES ASSUME NEW k \in 1..n PROVE Fragment(TxUsed + k - 1) \in DataPdu
      OBVIOUS
    <3>1. txFirst + (TxUsed + k - 1) \in Nat /\ txSeq + n - 1 \in Nat
      BY <1>0 DEF TxUsed
    <3> QED
      BY <3>1, <1>0, DataType
  <2>3. rtx' \in [TxSlots -> DataPdu \cup {NoPdu}]
    BY <1>2, <2>1 DEF TxTypeOK
  <2>4. txBuf' \in Seq(DataPdu \cup MrwPdu)
    <3>1. [k \in 1..n |-> Fragment(TxUsed + k - 1)] \in Seq(DataPdu \cup MrwPdu)
      BY <2>2, <1>0
    <3> QED
      BY <3>1, <1>2 DEF TxTypeOK
  <2>5. pduTimer' \in SUBSET Nat
    BY <1>2, <1>0 DEF TxTypeOK
  <2> QED
    <3>1. txSeq' \in Nat /\ nextSdu' \in Nat /\ bufTimer' \in BOOLEAN
      BY <1>0, <1>2
    <3> QED
      BY <3>1, <1>2, <2>3, <2>4, <2>5 DEF TxTypeOK, mrwVars
<1>3. CASE TxThrow("busyPosition")
  <2>1. "busyPosition" \in TxErrors
    BY DEF TxErrors
  <2> QED
    BY <1>3, <2>1, TxThrowType
<1> QED
  BY <1>1, <1>2, <1>3 DEF Enque

\* discard and a retransmission, the two outcomes of a PDU timer.
LEMMA DiscardType ==
    ASSUME TxTypeOK, NEW x \in TxSlots, rtx[x] # NoPdu,
           NEW timers \in SUBSET Nat, Discard(x, timers),
           UNCHANGED <<txFirst, txSeq, rtx, tReceived, bufTimer, nextSdu,
                       dropped, txErr>>
    PROVE  TxTypeOK'
<1>1. txBuf \in Seq(DataPdu \cup MrwPdu)
  BY DEF TxTypeOK
<1>2. MrwTypeOK'
  BY <1>1, CheckForMrwType DEF Discard
<1>3. rtx[x] \in DataPdu
  BY DEF TxTypeOK
<1>4. rtx[x].sdu \in Nat
  BY <1>3 DEF DataPdu
<1>5. givenUp' \in SUBSET Nat /\ pduTimer' \in SUBSET Nat
  BY <1>4 DEF Discard, TxTypeOK
<1>6. tDiscarded' \in [TxSlots -> BOOLEAN]
  BY DEF Discard, TxTypeOK
<1> QED
  BY <1>2, <1>5, <1>6 DEF TxTypeOK, MrwTypeOK

LEMMA RetransmitType ==
    ASSUME TxTypeOK, NEW x \in TxSlots, rtx[x] # NoPdu, ~LastTry(x),
           Retransmit(x), UNCHANGED <<nextSdu, dropped, txErr>>
    PROVE  TxTypeOK'
<1> DEFINE p == [rtx[x] EXCEPT !.tx = @ + 1]
           removed == [rtx EXCEPT ![x] = NoPdu]
           free == CHOOSE i \in TxSlots :
               removed[i] = NoPdu /\ \A j \in 0..(i - 1) : removed[j] # NoPdu
<1>1. rtx[x] \in DataPdu
  BY DEF TxTypeOK
<1>2. p \in DataPdu
  BY <1>1, ParameterAssumption DEF DataPdu, LastTry
<1>3. rtx' = [removed EXCEPT ![free] = p]
  BY DEF Retransmit
<1>4. rtx' \in [TxSlots -> DataPdu \cup {NoPdu}]
  <2>1. removed \in [TxSlots -> DataPdu \cup {NoPdu}]
    BY DEF TxTypeOK
  <2> HIDE DEF removed, free, p
  <2> QED
    BY <2>1, <1>2, <1>3
<1>5. txBuf' \in Seq(DataPdu \cup MrwPdu)
  <2>1. txBuf' = Append(txBuf, Copy(p)) /\ Copy(p) \in DataPdu
    BY <1>2, CopyType DEF Retransmit
  <2> QED
    BY <2>1 DEF TxTypeOK
<1> QED
  BY <1>4, <1>5 DEF TxTypeOK, Retransmit, mrwVars

LEMMA PduTimerType ==
    ASSUME TxTypeOK, NEW sn \in pduTimer, PduTimer(sn)
    PROVE  TxTypeOK'
<1> DEFINE x == sn - txFirst
<1>1. CASE /\ x \in TxSlots /\ rtx[x] # NoPdu /\ Discard(x, pduTimer \ {sn})
           /\ UNCHANGED <<txFirst, txSeq, rtx, tReceived, bufTimer, nextSdu,
                          dropped, txErr>>
  <2>1. pduTimer \ {sn} \in SUBSET Nat
    BY DEF TxTypeOK
  <2> QED
    BY <1>1, <2>1, DiscardType
<1>2. CASE /\ x \in TxSlots /\ rtx[x] # NoPdu /\ ~LastTry(x) /\ Retransmit(x)
           /\ UNCHANGED <<nextSdu, dropped, txErr>>
  BY <1>2, RetransmitType
<1>3. CASE \E e \in TxErrors : TxThrow(e)
  BY <1>3, TxThrowType
<1> QED
  BY <1>1, <1>2, <1>3 DEF PduTimer, TxErrors

LEMMA MrwTimerType ==
    ASSUME TxTypeOK, NEW serial \in mrwTimer, MrwTimer(serial)
    PROVE  TxTypeOK'
<1> DEFINE kept == {m \in mrwQ : m.serial = serial}
           rest == UNCHANGED <<windowVars, pduTimer, bufTimer, mrwSn, lastMrw,
                               sduVars, txErr>>
<1>1. CASE /\ mrwQ' = mrwQ \ kept /\ mrwTimer' = mrwTimer \ {serial}
           /\ UNCHANGED txBuf /\ rest
  <2>1. mrwQ' \in SUBSET MrwPdu /\ mrwTimer' \in SUBSET Nat
    BY <1>1 DEF TxTypeOK
  <2> QED
    BY <1>1, <2>1 DEF TxTypeOK, windowVars, sduVars
<1>2. CASE /\ \E m \in kept : txBuf' = Append(txBuf, m)
           /\ UNCHANGED <<mrwQ, mrwTimer>> /\ rest
  <2>1. txBuf' \in Seq(DataPdu \cup MrwPdu)
    BY <1>2 DEF TxTypeOK
  <2> QED
    BY <1>2, <2>1 DEF TxTypeOK, windowVars, sduVars
<1>3. CASE \E e \in TxErrors : TxThrow(e)
  BY <1>3, TxThrowType
<1> QED
  BY <1>1, <1>2, <1>3 DEF MrwTimer, TxErrors

LEMMA BufferStatusTimerType ==
    ASSUME TxTypeOK, BufferStatusTimer
    PROVE  TxTypeOK'
<1>1. txBuf \in Seq(DataPdu \cup MrwPdu)
  BY DEF TxTypeOK
<1>2. MrwTypeOK'
  BY <1>1, CheckForMrwType DEF BufferStatusTimer
<1>3. bufTimer' \in BOOLEAN
  BY DEF BufferStatusTimer
<1> QED
  BY <1>2, <1>3 DEF TxTypeOK, MrwTypeOK, BufferStatusTimer, windowVars, sduVars

LEMMA RecvAckType ==
    ASSUME TxTypeOK, NEW m \in AckPdu, RecvAck(m)
    PROVE  TxTypeOK'
<1> DEFINE cum == m.last - txFirst
           cumulated == [i \in TxSlots |-> tReceived[i] \/ i <= cum]
           marked == [i \in TxSlots |-> cumulated[i] \/ txFirst + i \in m.acked]
<1>1. CASE \E e \in TxErrors : TxThrow(e)
  BY <1>1, TxThrowType
<1>2. CASE /\ tReceived' = marked
           /\ pduTimer' = pduTimer \
                {txFirst + i : i \in {j \in TxSlots : marked[j] /\ ~tReceived[j]}}
           /\ \/ UNCHANGED <<mrwVars, txBuf>>
              \/ CheckForMrw(cumulated, tDiscarded, txBuf)
           /\ UNCHANGED <<txFirst, txSeq, rtx, tDiscarded, bufTimer, sduVars,
                          txErr>>
  <2>1. MrwTypeOK'
    <3>1. txBuf \in Seq(DataPdu \cup MrwPdu)
      BY DEF TxTypeOK
    <3>2. CASE UNCHANGED <<mrwVars, txBuf>>
      BY <3>2 DEF TxTypeOK, MrwTypeOK, mrwVars
    <3>3. CASE CheckForMrw(cumulated, tDiscarded, txBuf)
      <4> HIDE DEF cumulated
      <4> QED
        BY <3>1, <3>3, CheckForMrwType
    <3> QED
      BY <1>2, <3>2, <3>3
  <2>2. tReceived' \in [TxSlots -> BOOLEAN]
    BY <1>2
  <2>3. pduTimer' \in SUBSET Nat
    BY <1>2 DEF TxTypeOK
  <2> QED
    BY <1>2, <2>1, <2>2, <2>3 DEF TxTypeOK, MrwTypeOK, sduVars
<1> QED
  BY <1>1, <1>2 DEF RecvAck, TxErrors

LEMMA ForgetMrwType ==
    ASSUME TxTypeOK, NEW serial, ForgetMrw(serial)
    PROVE  mrwQ' \in SUBSET MrwPdu /\ mrwTimer' \in SUBSET Nat
BY DEF ForgetMrw, TxTypeOK

\* The shift stays inside the vector as long as the window is not overfull.
LEMMA ShiftedType ==
    ASSUME TxTypeOK, TxUsed <= TxW, NEW S, NEW f \in [TxSlots -> S],
           NEW empty \in S, NEW pos \in Nat
    PROVE  Shifted(f, pos, empty) \in [TxSlots -> S]
<1> SUFFICES ASSUME NEW i \in TxSlots, i + pos < TxUsed PROVE f[i + pos] \in S
  BY DEF Shifted
<1>1. i + pos \in TxSlots
  BY WindowAssumption DEF TxTypeOK, TxSlots, TxUsed
<1> QED
  BY <1>1

LEMMA RecvMrwAckType ==
    ASSUME TxTypeOK, TxUsed <= TxW, NEW m \in MrwAckPdu, RecvMrwAck(m)
    PROVE  TxTypeOK'
<1> DEFINE pos == m.first - txFirst
<1>1. CASE \E e \in TxErrors : TxThrow(e)
  BY <1>1, TxThrowType
<1>2. CASE /\ ForgetMrw(m.serial)
           /\ UNCHANGED <<windowVars, pduTimer, bufTimer, mrwSn, lastMrw, txBuf,
                          sduVars, txErr>>
  BY <1>2, ForgetMrwType DEF TxTypeOK, windowVars, sduVars
<1>3. CASE /\ pos > 0
           /\ txFirst' = txFirst + pos
           /\ rtx' = Shifted(rtx, pos, NoPdu)
           /\ tReceived' = Shifted(tReceived, pos, FALSE)
           /\ tDiscarded' = Shifted(tDiscarded, pos, FALSE)
           /\ pduTimer' = pduTimer \ (txFirst..(txFirst + pos - 1))
           /\ ForgetMrw(m.serial)
           /\ UNCHANGED <<txSeq, bufTimer, mrwSn, lastMrw, txBuf, sduVars, txErr>>
           /\ pos <= TxUsed
  <2>0. pos \in Nat /\ txFirst \in Nat /\ txSeq \in Nat
    BY <1>3 DEF TxTypeOK, MrwAckPdu
  <2>1. txFirst' \in Nat /\ pduTimer' \in SUBSET Nat
    <3> HIDE DEF pos
    <3>1. txFirst' \in Nat
      BY <1>3, <2>0
    <3>2. pduTimer' \in SUBSET Nat
      BY <1>3 DEF TxTypeOK
    <3> QED
      BY <3>1, <3>2
  <2>2. rtx' \in [TxSlots -> DataPdu \cup {NoPdu}]
    <3>1. NoPdu \in DataPdu \cup {NoPdu} /\ rtx \in [TxSlots -> DataPdu \cup {NoPdu}]
      BY DEF TxTypeOK
    <3>2. Shifted(rtx, pos, NoPdu) \in [TxSlots -> DataPdu \cup {NoPdu}]
      BY <3>1, <2>0, ShiftedType
    <3> QED
      BY <1>3, <3>2
  <2>3. tReceived' \in [TxSlots -> BOOLEAN] /\ tDiscarded' \in [TxSlots -> BOOLEAN]
    <3>1. /\ tReceived \in [TxSlots -> BOOLEAN] /\ tDiscarded \in [TxSlots -> BOOLEAN]
          /\ FALSE \in BOOLEAN
      BY DEF TxTypeOK
    <3>2. /\ Shifted(tReceived, pos, FALSE) \in [TxSlots -> BOOLEAN]
          /\ Shifted(tDiscarded, pos, FALSE) \in [TxSlots -> BOOLEAN]
      BY <3>1, <2>0, ShiftedType
    <3> QED
      BY <1>3, <3>2
  <2>4. mrwQ' \in SUBSET MrwPdu /\ mrwTimer' \in SUBSET Nat
    BY <1>3, ForgetMrwType
  <2> QED
    BY <1>3, <2>1, <2>2, <2>3, <2>4 DEF TxTypeOK, sduVars
<1> QED
  BY <1>1, <1>2, <1>3 DEF RecvMrwAck, TxErrors

-----------------------------------------------------------------------------
(* Type correctness of the receiver. *)

LEMMA RxThrowType ==
    ASSUME RxTypeOK, NEW e \in RxErrors, RxThrow(e)
    PROVE  RxTypeOK'
<1>1. rxErr' \in RxErrors
  BY DEF RxThrow
<1> QED
  BY <1>1 DEF RxTypeOK, RxThrow, bufferVars

LEMMA SendStatusReportType ==
    ASSUME RxTypeOK, NEW received, SendStatusReport(received)
    PROVE  ackReady' \in BOOLEAN /\ ctlBuf' \in Seq(AckPdu \cup MrwAckPdu)
<1>1. CASE UNCHANGED <<ctlBuf, ackReady>>
  BY <1>1 DEF RxTypeOK
<1>2. CASE /\ ackReady' = FALSE
           /\ \E c \in 0..RxW :
                ctlBuf' = Append(ctlBuf,
                   Ack(rxFirst + c - 1,
                       {rxFirst + i : i \in {j \in c..(RxW - 1) : received[j]}}))
  <2>1. PICK c \in 0..RxW :
          ctlBuf' = Append(ctlBuf,
             Ack(rxFirst + c - 1,
                 {rxFirst + i : i \in {j \in c..(RxW - 1) : received[j]}}))
    BY <1>2
  <2>2. rxFirst + c - 1 \in Int
    BY WindowAssumption DEF RxTypeOK
  <2>3. {rxFirst + i : i \in {j \in c..(RxW - 1) : received[j]}} \in SUBSET Nat
    BY WindowAssumption DEF RxTypeOK
  <2>4. Ack(rxFirst + c - 1,
            {rxFirst + i : i \in {j \in c..(RxW - 1) : received[j]}}) \in AckPdu
    BY <2>2, <2>3 DEF Ack, AckPdu
  <2> DEFINE report == Ack(rxFirst + c - 1,
            {rxFirst + i : i \in {j \in c..(RxW - 1) : received[j]}})
  <2>5. report \in AckPdu /\ ctlBuf' = Append(ctlBuf, report)
    BY <2>1, <2>4
  <2> HIDE DEF report
  <2>6. ctlBuf' \in Seq(AckPdu \cup MrwAckPdu)
    BY <2>5 DEF RxTypeOK
  <2> QED
    BY <2>6, <1>2
<1> QED
  BY <1>1, <1>2 DEF SendStatusReport

LEMMA StatusTimerType ==
    ASSUME RxTypeOK, StatusTimer
    PROVE  RxTypeOK'
<1>1. ackReady' \in BOOLEAN /\ ctlBuf' \in Seq(AckPdu \cup MrwAckPdu)
  BY SendStatusReportType DEF StatusTimer
<1>2. statusTimer' \in BOOLEAN
  BY DEF StatusTimer, HoldsPdus
<1> QED
  BY <1>1, <1>2 DEF RxTypeOK, StatusTimer, bufferVars

LEMMA AckIntervalType ==
    ASSUME RxTypeOK, AckInterval
    PROVE  RxTypeOK'
BY DEF RxTypeOK, AckInterval, bufferVars

LEMMA EarlyReportType ==
    ASSUME RxTypeOK, NEW p, EarlyReport(p)
    PROVE  ackReady' \in BOOLEAN /\ ctlBuf' \in Seq(AckPdu \cup MrwAckPdu)
<1>1. CASE UNCHANGED <<ctlBuf, ackReady>>
  BY <1>1 DEF RxTypeOK
<1>2. CASE SendStatusReport(rReceived)
  BY <1>2, SendStatusReportType
<1> QED
  BY <1>1, <1>2 DEF EarlyReport

LEMMA NotedType ==
    ASSUME NEW p \in DataPdu, Noted(p), RxTypeOK
    PROVE  /\ statusTimer' \in BOOLEAN /\ flowInfo' \in BOOLEAN
           /\ rxFirst' \in Nat /\ rxSeq' \in Nat
           /\ rxErr' \in RxErrors \cup {"none"}
<1>1. p.sno + 1 \in Nat
  BY DEF DataPdu
<1> QED
  BY <1>1 DEF Noted, RxTypeOK

LEMMA StoreDataType ==
    ASSUME RxTypeOK, NEW p \in DataPdu, StoreData(p)
    PROVE  RxTypeOK'
<1> DEFINE x == p.sno - rxFirst
           buf == [rBuf EXCEPT ![x] = p]
           received == [rReceived EXCEPT ![x] = TRUE]
           Stored == rBuf' = buf /\ rReceived' = received
                     /\ firstSdu' = SduAtStart(p)
<1>1. CASE \E e \in RxErrors : RxThrow(e)
  BY <1>1, RxThrowType
<1>2. CASE /\ Noted(p) /\ Stored
           /\ \/ EarlyReport(p)
              \/ \E r \in {rReceived, received} : SendStatusReport(r)
  <2>1. rBuf' \in [RxSlots -> DataPdu \cup {NoPdu}]
    BY <1>2 DEF RxTypeOK
  <2>2. rReceived' \in [RxSlots -> BOOLEAN]
    BY <1>2 DEF RxTypeOK
  <2>3. firstSdu' \in Nat \cup {-1}
    BY <1>2 DEF RxTypeOK, SduAtStart, DataPdu
  <2>4. ackReady' \in BOOLEAN /\ ctlBuf' \in Seq(AckPdu \cup MrwAckPdu)
    <3> HIDE DEF received
    <3> QED
      BY <1>2, SendStatusReportType, EarlyReportType
  <2> QED
    BY <1>2, <2>1, <2>2, <2>3, <2>4, NotedType DEF RxTypeOK
<1> QED
  <2> HIDE DEF buf, received
  <2> SUFFICES ASSUME ~(\E e \in RxErrors : RxThrow(e))
               PROVE  /\ Noted(p) /\ Stored
                      /\ \/ EarlyReport(p)
                         \/ \E r \in {rReceived, received} : SendStatusReport(r)
    BY <1>1, <1>2
  <2> QED
    BY DEF StoreData, RxErrors, buf, received

LEMMA RecvDataType ==
    ASSUME RxTypeOK, NEW p \in DataPdu, RecvData(p)
    PROVE  RxTypeOK'
<1>1. CASE StoreData(p)
  BY <1>1, StoreDataType
<1>2. CASE \E e \in RxErrors : RxThrow(e)
  BY <1>2, RxThrowType
<1>3. CASE Noted(p) /\ EarlyReport(p) /\ UNCHANGED <<bufferVars, delivered>>
  <2>1. ackReady' \in BOOLEAN /\ ctlBuf' \in Seq(AckPdu \cup MrwAckPdu)
    BY <1>3, EarlyReportType
  <2> QED
    BY <1>3, <2>1, NotedType DEF RxTypeOK, bufferVars
<1>4. CASE /\ statusTimer' = TRUE /\ flowInfo' = TRUE
           /\ UNCHANGED <<rxFirst, rxSeq, bufferVars, ackReady, ctlBuf, delivered,
                          rxErr>>
  BY <1>4 DEF RxTypeOK, bufferVars
<1> QED
  BY <1>1, <1>2, <1>3, <1>4 DEF RecvData, RxErrors

LEMMA RecvMrwType ==
    ASSUME RxTypeOK, NEW m \in MrwPdu, RecvMrw(m)
    PROVE  RxTypeOK'
<1> DEFINE pos == m.target - rxFirst
           start == rxFirst + (IF pos > 0 THEN pos ELSE 0)
<1>1. CASE \E e \in RxErrors : RxThrow(e)
  BY <1>1, RxThrowType
<1>2. CASE /\ pos <= RxW
           /\ ctlBuf' = Append(ctlBuf, MrwAck(m.serial, start))
           /\ rxFirst' = start
           /\ IF pos <= 0 THEN UNCHANGED bufferVars
              ELSE /\ rBuf' = ShiftedPdus(pos)
                   /\ rReceived' = ShiftedFlags(pos)
                   /\ pending' = ShiftedOut(pos)
                   /\ firstSdu' = SduAfter(pos)
           /\ UNCHANGED <<rxSeq, statusTimer, ackReady, flowInfo, delivered,
                          rxErr>>
  <2>0. m.target \in Nat /\ m.serial \in Nat /\ rxFirst \in Nat /\ pos \in Int
    BY DEF MrwPdu, RxTypeOK
  <2>1. start \in Nat
    BY <2>0
  <2>2. rxFirst' \in Nat
    BY <1>2, <2>1
  <2>3. ctlBuf' \in Seq(AckPdu \cup MrwAckPdu)
    <3>1. MrwAck(m.serial, start) \in MrwAckPdu
      BY <2>0, <2>1 DEF MrwAck, MrwAckPdu
    <3> HIDE DEF start
    <3> QED
      BY <1>2, <3>1 DEF RxTypeOK
  <2>4. CASE pos <= 0
    BY <1>2, <2>2, <2>3, <2>4 DEF RxTypeOK, bufferVars
  <2>5. CASE pos > 0
    <3>1. pos \in Nat \ {0}
      BY <2>0, <2>5
    <3>2. rBuf' \in [RxSlots -> DataPdu \cup {NoPdu}]
      <4>1. rBuf' = ShiftedPdus(pos)
        BY <1>2, <3>1
      <4> HIDE DEF pos
      <4>2. \A i \in RxSlots : i + pos < RxW => i + pos \in RxSlots
        BY <3>1, WindowAssumption DEF RxSlots
      <4> QED
        BY <4>1, <4>2 DEF ShiftedPdus, RxTypeOK
    <3>3. rReceived' \in [RxSlots -> BOOLEAN]
      <4>1. rReceived' = ShiftedFlags(pos)
        BY <1>2, <3>1
      <4> HIDE DEF pos
      <4>2. \A i \in RxSlots : i + pos < RxW => i + pos \in RxSlots
        BY <3>1, WindowAssumption DEF RxSlots
      <4> QED
        BY <4>1, <4>2 DEF ShiftedFlags, RxTypeOK
    <3>4. firstSdu' \in Nat \cup {-1}
      <4>1. firstSdu' = SduAfter(pos) /\ pos <= RxW
        BY <1>2, <3>1
      <4> HIDE DEF pos
      <4>2. pos - 1 \in RxSlots
        BY <3>1, <4>1, WindowAssumption DEF RxSlots
      <4>3. rBuf[pos - 1] \in DataPdu \cup {NoPdu}
        BY <4>2 DEF RxTypeOK
      <4> QED
        BY <4>1, <4>3 DEF SduAfter, DataPdu
    <3> QED
      BY <1>2, <2>2, <2>3, <3>2, <3>3, <3>4 DEF RxTypeOK
  <2> QED
    BY <2>0, <2>4, <2>5
<1> QED
  BY <1>1, <1>2 DEF RecvMrw, RxErrors

-----------------------------------------------------------------------------
(* Type correctness of the channels. *)

LEMMA SendPduType ==
    ASSUME TypeOK, NEW p \in Procs, SendPdu(p)
    PROVE  TypeOK'
<1>1. txBuf \in Seq(DataPdu \cup MrwPdu) /\ txBuf # <<>>
  BY DEF SendPdu, TypeOK, TxTypeOK
<1>2. Head(txBuf) \in DataPdu \cup MrwPdu /\ Tail(txBuf) \in Seq(DataPdu \cup MrwPdu)
  BY <1>1
<1>3. TxTypeOK'
  BY <1>2 DEF SendPdu, TypeOK, TxTypeOK, windowVars, mrwVars, sduVars
<1>4. air' \in [Procs -> DataPdu \cup MrwPdu \cup {NoPdu}]
  BY <1>2 DEF SendPdu, TypeOK
<1> QED
  BY <1>3, <1>4 DEF SendPdu, TypeOK, RxTypeOK, rxVars, bufferVars

LEMMA SendCtlType ==
    ASSUME TypeOK, NEW p \in CtlProcs, SendCtl(p)
    PROVE  TypeOK'
<1>1. ctlBuf \in Seq(AckPdu \cup MrwAckPdu) /\ ctlBuf # <<>>
  BY DEF SendCtl, TypeOK, RxTypeOK
<1>2. Head(ctlBuf) \in AckPdu \cup MrwAckPdu /\ Tail(ctlBuf) \in Seq(AckPdu \cup MrwAckPdu)
  BY <1>1
<1>3. RxTypeOK'
  BY <1>2 DEF SendCtl, TypeOK, RxTypeOK, bufferVars
<1>4. ctlAir' \in [CtlProcs -> AckPdu \cup MrwAckPdu \cup {NoPdu}]
  BY <1>2 DEF SendCtl, TypeOK
<1> QED
  BY <1>3, <1>4 DEF SendCtl, TypeOK, TxTypeOK, txVars, windowVars, mrwVars, sduVars

\* A PDU under way is of the type that its receiver takes it for.
LEMMA PduUnderWay ==
    ASSUME TypeOK, NEW p \in Procs, air[p] # NoPdu
    PROVE  /\ air[p].type = "DATA" => air[p] \in DataPdu
           /\ air[p].type = "MRW" => air[p] \in MrwPdu
<1>1. air[p] \in DataPdu \cup MrwPdu
  BY DEF TypeOK
<1> QED
  BY <1>1 DEF DataPdu, MrwPdu

LEMMA CtlUnderWay ==
    ASSUME TypeOK, NEW p \in CtlProcs, ctlAir[p] # NoPdu
    PROVE  /\ ctlAir[p].type = "ACK" => ctlAir[p] \in AckPdu
           /\ ctlAir[p].type = "MRW_ACK" => ctlAir[p] \in MrwAckPdu
<1>1. ctlAir[p] \in AckPdu \cup MrwAckPdu
  BY DEF TypeOK
<1> QED
  BY <1>1 DEF AckPdu, MrwAckPdu

LEMMA DeliverPduType ==
    ASSUME TypeOK, NEW p \in Procs, DeliverPdu(p)
    PROVE  TypeOK'
<1>1. RxTypeOK'
  BY PduUnderWay, RecvDataType, RecvMrwType DEF DeliverPdu, TypeOK
<1>2. air' \in [Procs -> DataPdu \cup MrwPdu \cup {NoPdu}]
  BY DEF DeliverPdu, TypeOK
<1> QED
  BY <1>1, <1>2 DEF DeliverPdu, TypeOK, TxTypeOK, txVars, windowVars, mrwVars, sduVars

LEMMA DeliverCtlType ==
    ASSUME TypeOK, TxUsed <= TxW, NEW p \in CtlProcs, DeliverCtl(p)
    PROVE  TypeOK'
<1>1. TxTypeOK'
  BY CtlUnderWay, RecvAckType, RecvMrwAckType DEF DeliverCtl, TypeOK
<1>2. ctlAir' \in [CtlProcs -> AckPdu \cup MrwAckPdu \cup {NoPdu}]
  BY DEF DeliverCtl, TypeOK
<1> QED
  BY <1>1, <1>2 DEF DeliverCtl, TypeOK, RxTypeOK, rxVars, bufferVars

LEMMA LoseType ==
    ASSUME TypeOK
    PROVE  /\ \A p \in Procs : Lose(p) => TypeOK'
           /\ \A p \in CtlProcs : LoseCtl(p) => TypeOK'
<1>1. ASSUME NEW p \in Procs, Lose(p) PROVE TypeOK'
  <2>1. air' \in [Procs -> DataPdu \cup MrwPdu \cup {NoPdu}]
    BY <1>1 DEF Lose, TypeOK
  <2> QED
    BY <1>1, <2>1 DEF Lose, TypeOK, TxTypeOK, RxTypeOK, txVars, windowVars,
       mrwVars, sduVars, rxVars, bufferVars
<1>2. ASSUME NEW p \in CtlProcs, LoseCtl(p) PROVE TypeOK'
  <2>1. ctlAir' \in [CtlProcs -> AckPdu \cup MrwAckPdu \cup {NoPdu}]
    BY <1>2 DEF LoseCtl, TypeOK
  <2> QED
    BY <1>2, <2>1 DEF LoseCtl, TypeOK, TxTypeOK, RxTypeOK, txVars, windowVars,
       mrwVars, sduVars, rxVars, bufferVars
<1> QED
  BY <1>1, <1>2

LEMMA InitType == Init => TypeOK
<1> SUFFICES ASSUME Init PROVE TypeOK
  OBVIOUS
<1>1. TxTypeOK
  <2>1. txBuf \in Seq(DataPdu \cup MrwPdu)
    BY DEF Init, TxInit
  <2>2. /\ rtx \in [TxSlots -> DataPdu \cup {NoPdu}]
        /\ tReceived \in [TxSlots -> BOOLEAN] /\ tDiscarded \in [TxSlots -> BOOLEAN]
    BY DEF Init, TxInit
  <2>3. pduTimer \in SUBSET Nat /\ mrwQ \in SUBSET MrwPdu /\ mrwTimer \in SUBSET Nat
        /\ dropped \in SUBSET Nat /\ givenUp \in SUBSET Nat
    BY DEF Init, TxInit
  <2> QED
    BY <2>1, <2>2, <2>3 DEF Init, TxInit, TxTypeOK
<1>2. RxTypeOK
  <2>1. ctlBuf \in Seq(AckPdu \cup MrwAckPdu)
    BY DEF Init, RxInit
  <2>2. /\ rBuf \in [RxSlots -> DataPdu \cup {NoPdu}]
        /\ rReceived \in [RxSlots -> BOOLEAN]
    BY DEF Init, RxInit
  <2> QED
    BY <2>1, <2>2 DEF Init, RxInit, RxTypeOK
<1> QED
  BY <1>1, <1>2 DEF Init, TypeOK

\* Every step of the system keeps the types while the transmitter's window is
\* not overfull.
LEMMA NextType ==
    ASSUME TypeOK, TxUsed <= TxW, [Next]_vars
    PROVE  TypeOK'
<1>1. CASE \E n \in SduFrags : AtTx(Enque(n))
  <2>1. TxTypeOK'
    BY <1>1, EnqueType DEF AtTx, TypeOK
  <2> QED
    BY <1>1, <2>1 DEF AtTx, TypeOK, RxTypeOK, rxVars, bufferVars, chanVars
<1>2. CASE \E sn \in pduTimer : AtTx(PduTimer(sn))
  <2>1. TxTypeOK'
    BY <1>2, PduTimerType DEF AtTx, TypeOK
  <2> QED
    BY <1>2, <2>1 DEF AtTx, TypeOK, RxTypeOK, rxVars, bufferVars, chanVars
<1>3. CASE \E serial \in mrwTimer : AtTx(MrwTimer(serial))
  <2>1. TxTypeOK'
    BY <1>3, MrwTimerType DEF AtTx, TypeOK
  <2> QED
    BY <1>3, <2>1 DEF AtTx, TypeOK, RxTypeOK, rxVars, bufferVars, chanVars
<1>4. CASE AtTx(BufferStatusTimer)
  <2>1. TxTypeOK'
    BY <1>4, BufferStatusTimerType DEF AtTx, TypeOK
  <2> QED
    BY <1>4, <2>1 DEF AtTx, TypeOK, RxTypeOK, rxVars, bufferVars, chanVars
<1>5. CASE AtRx(StatusTimer) \/ AtRx(AckInterval)
  <2>1. RxTypeOK'
    BY <1>5, StatusTimerType, AckIntervalType DEF AtRx, TypeOK
  <2> QED
    BY <1>5, <2>1 DEF AtRx, TypeOK, TxTypeOK, txVars, windowVars, mrwVars,
       sduVars, chanVars
<1>6. CASE \E p \in Procs : SendPdu(p) \/ DeliverPdu(p) \/ Lose(p)
  BY <1>6, SendPduType, DeliverPduType, LoseType
<1>7. CASE \E p \in CtlProcs : SendCtl(p) \/ DeliverCtl(p) \/ LoseCtl(p)
  BY <1>7, SendCtlType, DeliverCtlType, LoseType
<1>8. CASE UNCHANGED vars
  BY <1>8 DEF vars, TypeOK, TxTypeOK, RxTypeOK, txVars, windowVars, mrwVars,
     sduVars, rxVars, bufferVars, chanVars
<1> QED
  BY <1>1, <1>2, <1>3, <1>4, <1>5, <1>6, <1>7, <1>8 DEF Next

-----------------------------------------------------------------------------
(* The agreement of the two ends. *)

\* The inductive invariant.
IInv == TypeOK /\ WindowsTogether /\ PdusAgree

LEMMA WindowArithmetic ==
    ASSUME TypeOK, WindowsTogether
    PROVE  /\ txFirst \in Nat /\ txSeq \in Nat /\ rxFirst \in Nat
           /\ TxUsed \in 0..(TxW - 1)
BY WindowAssumption DEF TypeOK, TxTypeOK, RxTypeOK, WindowsTogether, TxUsed

-----------------------------------------------------------------------------
(* What a step leaves true as long as it only adds PDUs to the window and  *)
(* only sets flags.                                                        *)

\* The transmitter's window does not move.
Steady ==
    /\ txFirst' = txFirst
    /\ txSeq <= txSeq' /\ txSeq' \in Nat
    /\ \A i \in TxSlots : IsSettled(i) => IsSettled(i)'

LEMMA SettledStays ==
    ASSUME TypeOK, Steady, NEW bound \in Nat, SettledBelow(bound)
    PROVE  SettledBelow(bound)'
BY DEF Steady, SettledBelow, TypeOK, TxTypeOK

LEMMA GoodStays ==
    ASSUME TypeOK, Steady, NEW m \in DataPdu \cup MrwPdu, GoodPdu(m)
    PROVE  GoodPdu(m)'
<1>1. CASE m \in DataPdu
  BY <1>1 DEF DataPdu, GoodPdu, Steady, TypeOK, TxTypeOK
<1>2. CASE m \in MrwPdu
  <2>1. m.target \in Nat /\ m.type = "MRW"
    BY <1>2 DEF MrwPdu
  <2> QED
    BY <2>1, SettledStays DEF GoodPdu
<1> QED
  BY <1>1, <1>2

LEMMA StoredStays ==
    ASSUME TypeOK, Steady, StoredAgree, UNCHANGED rtx
    PROVE  StoredAgree'
<1> SUFFICES ASSUME NEW i \in TxSlots, rtx[i] # NoPdu PROVE GoodPdu(rtx[i])'
  BY DEF StoredAgree
<1>1. rtx[i] \in DataPdu /\ GoodPdu(rtx[i])
  BY DEF TypeOK, TxTypeOK, StoredAgree
<1> QED
  BY <1>1, GoodStays DEF GoodPdu

LEMMA CommandsStay ==
    ASSUME TypeOK, Steady, CommandsAgree, mrwQ' \subseteq mrwQ
    PROVE  CommandsAgree'
<1> SUFFICES ASSUME NEW m \in mrwQ PROVE GoodPdu(m)'
  BY DEF CommandsAgree
<1>1. m \in MrwPdu /\ GoodPdu(m)
  BY DEF TypeOK, TxTypeOK, CommandsAgree
<1> QED
  BY <1>1, GoodStays

LEMMA WaitingStays ==
    ASSUME TypeOK, Steady, WaitingAgree, UNCHANGED txBuf
    PROVE  WaitingAgree'
<1> SUFFICES ASSUME NEW k \in 1..Len(txBuf) PROVE GoodPdu(txBuf[k])'
  BY DEF WaitingAgree
<1>1. txBuf[k] \in DataPdu \cup MrwPdu /\ GoodPdu(txBuf[k])
  BY DEF TypeOK, TxTypeOK, WaitingAgree
<1> QED
  BY <1>1, GoodStays DEF GoodPdu

\* A PDU is added at the end of the buffer.
LEMMA WaitingGrows ==
    ASSUME TypeOK, Steady, WaitingAgree, NEW m \in DataPdu \cup MrwPdu,
           GoodPdu(m)', txBuf' = Append(txBuf, m)
    PROVE  WaitingAgree'
<1> SUFFICES ASSUME NEW k \in 1..Len(txBuf') PROVE GoodPdu(txBuf[k])'
  BY DEF WaitingAgree
<1>0. txBuf \in Seq(DataPdu \cup MrwPdu)
  BY DEF TypeOK, TxTypeOK
<1>1. CASE k \in 1..Len(txBuf)
  <2>1. txBuf'[k] = txBuf[k] /\ txBuf[k] \in DataPdu \cup MrwPdu
    BY <1>0, <1>1
  <2>2. GoodPdu(txBuf[k])
    BY <1>1 DEF WaitingAgree
  <2> QED
    BY <2>1, <2>2, GoodStays DEF GoodPdu
<1>2. CASE k = Len(txBuf) + 1
  <2>1. txBuf'[k] = m
    BY <1>0, <1>2
  <2> QED
    BY <2>1 DEF GoodPdu
<1> QED
  BY <1>0, <1>1, <1>2

LEMMA AirStays ==
    ASSUME TypeOK, Steady, AirAgree, UNCHANGED air
    PROVE  AirAgree'
<1> SUFFICES ASSUME NEW p \in Procs, air[p] # NoPdu PROVE GoodPdu(air[p])'
  BY DEF AirAgree
<1>1. air[p] \in DataPdu \cup MrwPdu /\ GoodPdu(air[p])
  BY DEF TypeOK, AirAgree
<1> QED
  BY <1>1, GoodStays DEF GoodPdu

\* An event may take a control PDU from the process that carries it, and adds
\* none.
CtlTaken == \A p \in CtlProcs : ctlAir'[p] \in {ctlAir[p], NoPdu}

\* An event of the transmitter.
LEMMA TxEvent ==
    ASSUME IInv, Steady, txSeq' < txFirst + TxW,
           UNCHANGED <<rxVars, air>>, CtlTaken,
           StoredAgree', CommandsAgree', WaitingAgree'
    PROVE  WindowsTogether' /\ PdusAgree'
<1>1. rxFirst' = rxFirst /\ ctlBuf' = ctlBuf /\ air' = air
  BY DEF rxVars
<1>2. WindowsTogether'
  BY <1>1, WindowArithmetic DEF IInv, WindowsTogether, Steady
<1>3. SettledBelow(rxFirst)'
  BY <1>1, WindowArithmetic, SettledStays DEF IInv, PdusAgree, SettledBelow
<1>4. AirAgree'
  BY <1>1, AirStays DEF IInv, PdusAgree, AirAgree
<1>5. AnswersAgree'
  BY <1>1 DEF IInv, PdusAgree, AnswersAgree, GoodCtl, CtlTaken
<1> QED
  BY <1>2, <1>3, <1>4, <1>5 DEF PdusAgree

-----------------------------------------------------------------------------
(* The events of the transmitter. *)

\* checkForMrw asks the receiver for PDUs that are settled and were sent.
LEMMA CheckForMrwAgrees ==
    ASSUME IInv, Steady, txSeq' = txSeq, NEW received, NEW discarded,
           CheckForMrw(received, discarded, txBuf),
           \A i \in TxSlots : received[i] \/ discarded[i] => IsSettled(i)'
    PROVE  CommandsAgree' /\ WaitingAgree'
<1> USE DEF IInv, PdusAgree
<1>1. PICK k \in 0..TxW :
         /\ Settled(k, received, discarded)
         /\ \/ txBuf' = txBuf /\ UNCHANGED mrwVars
            \/ SendMrw(txFirst + k, txBuf)
  BY DEF CheckForMrw
<1>2. CASE txBuf' = txBuf /\ UNCHANGED mrwVars
  <2>1. mrwQ' \subseteq mrwQ
    BY <1>2 DEF mrwVars
  <2> QED
    BY <1>2, <2>1, CommandsStay, WaitingStays
<1>3. CASE SendMrw(txFirst + k, txBuf)
  <2>0. k \in 0..TxUsed /\ txFirst \in Nat /\ txSeq \in Nat /\ TxUsed = txSeq - txFirst
    BY <1>1, WindowArithmetic DEF Settled, TxUsed
  <2>1. PICK m \in MrwPdu : /\ m = Mrw(mrwSn, txFirst + k)
                            /\ m.type = "MRW" /\ m.target = txFirst + k
    <3>1. txFirst + k \in Nat /\ mrwSn \in Nat
      BY <2>0 DEF TypeOK, TxTypeOK
    <3>2. /\ Mrw(mrwSn, txFirst + k) \in MrwPdu
          /\ Mrw(mrwSn, txFirst + k).type = "MRW"
          /\ Mrw(mrwSn, txFirst + k).target = txFirst + k
      BY <3>1 DEF Mrw, MrwPdu
    <3> QED
      BY <3>2
  <2>2. SettledBelow(txFirst + k)'
    <3>1. (txFirst + k)' = txFirst + k /\ txFirst + k <= txSeq'
      BY <2>0 DEF Steady
    <3>2. ASSUME NEW i \in TxSlots, txFirst + i < txFirst + k
          PROVE  IsSettled(i)'
      <4>1. i \in 0..(k - 1)
        BY <3>2, <2>0 DEF TxSlots
      <4> QED
        BY <4>1, <1>1 DEF Settled
    <3> QED
      BY <3>1, <3>2 DEF SettledBelow, Steady
  <2>3. GoodPdu(m)'
    BY <2>1, <2>2 DEF GoodPdu, SettledBelow, Steady
  <2>4. mrwQ' = mrwQ \cup {m} /\ txBuf' = Append(txBuf, m)
    BY <1>3, <2>1 DEF SendMrw
  <2>5. WaitingAgree'
    BY <2>1, <2>3, <2>4, WaitingGrows
  <2>6. CommandsAgree'
    <3> SUFFICES ASSUME NEW q \in mrwQ PROVE GoodPdu(q)'
      BY <2>3, <2>4 DEF CommandsAgree
    <3>1. q \in MrwPdu /\ GoodPdu(q)
      BY DEF TypeOK, TxTypeOK, CommandsAgree
    <3> QED
      BY <3>1, GoodStays
  <2> QED
    BY <2>5, <2>6
<1> QED
  BY <1>1, <1>2, <1>3

\* An error changes nothing but the error.
LEMMA TxThrowAgrees ==
    ASSUME IInv, NEW e, TxThrow(e), UNCHANGED <<rxVars, air>>, CtlTaken
    PROVE  WindowsTogether' /\ PdusAgree'
<1>1. UNCHANGED <<txFirst, txSeq, rtx, tReceived, tDiscarded, mrwQ, txBuf>>
  BY DEF TxThrow, windowVars, mrwVars
<1>2. UNCHANGED <<rxFirst, ctlBuf, air>>
  BY DEF rxVars
<1> QED
  BY <1>1, <1>2 DEF IInv, WindowsTogether, PdusAgree, SettledBelow, IsSettled,
     StoredAgree, CommandsAgree, WaitingAgree, AirAgree, AnswersAgree,
     GoodPdu, GoodCtl, CtlTaken

\* Steps that leave the window alone but for its flags.
LEMMA SteadyFlags ==
    ASSUME TypeOK, UNCHANGED <<txFirst, txSeq>>,
           \A i \in TxSlots : (tReceived[i] => tReceived'[i])
                             /\ (tDiscarded[i] => tDiscarded'[i])
    PROVE  Steady
BY DEF TypeOK, TxTypeOK, Steady, IsSettled

LEMMA EnqueAgrees ==
    ASSUME IInv, NEW n \in SduFrags, Enque(n),
           UNCHANGED <<rxVars, air>>, CtlTaken
    PROVE  WindowsTogether' /\ PdusAgree'
<1> USE DEF IInv, PdusAgree
<1> DEFINE new == TxUsed..(TxUsed + n - 1)
           Fragment(i) == Data(txFirst + i, nextSdu, txSeq, txSeq + n - 1)
<1>0. /\ n \in Nat \ {0} /\ txFirst \in Nat /\ txSeq \in Nat /\ TxUsed \in Nat
      /\ TxUsed = txSeq - txFirst /\ txSeq < txFirst + TxW
  BY ParameterAssumption, WindowArithmetic DEF TxUsed, WindowsTogether
<1>1. CASE UNCHANGED <<windowVars, mrwVars, txBuf>>
  <2>1. Steady
    BY <1>1, SteadyFlags DEF windowVars
  <2>2. StoredAgree' /\ CommandsAgree' /\ WaitingAgree'
    BY <1>1, <2>1, StoredStays, CommandsStay, WaitingStays DEF windowVars, mrwVars
  <2> QED
    BY <1>0, <1>1, <2>1, <2>2, TxEvent DEF windowVars
<1>2. CASE /\ Fits(n)
           /\ rtx' = [i \in TxSlots |-> IF i \in new THEN Fragment(i) ELSE rtx[i]]
           /\ txSeq' = txSeq + n
           /\ txBuf' = txBuf \o [k \in 1..n |-> Fragment(TxUsed + k - 1)]
           /\ UNCHANGED <<txFirst, tReceived, tDiscarded, mrwVars>>
  <2>1. Steady
    BY <1>0, <1>2 DEF Steady, IsSettled
  <2>3. \A i \in new : Fragment(i).type = "DATA" /\ Fragment(i).sno < txSeq'
    BY <1>0, <1>2 DEF Data
  <2>4. StoredAgree'
    <3> SUFFICES ASSUME NEW i \in TxSlots, rtx'[i] # NoPdu PROVE GoodPdu(rtx[i])'
      BY DEF StoredAgree
    <3>1. CASE i \in new
      BY <1>2, <2>3, <3>1 DEF GoodPdu
    <3>2. CASE i \notin new
      <4>1. rtx'[i] = rtx[i] /\ rtx[i] \in DataPdu /\ GoodPdu(rtx[i])
        BY <1>2, <3>2 DEF TypeOK, TxTypeOK, StoredAgree
      <4> QED
        BY <4>1, <2>1, GoodStays DEF GoodPdu
    <3> QED
      BY <3>1, <3>2
  <2>5. WaitingAgree'
    <3> SUFFICES ASSUME NEW k \in 1..Len(txBuf') PROVE GoodPdu(txBuf[k])'
      BY DEF WaitingAgree
    <3>1. txBuf \in Seq(DataPdu \cup MrwPdu)
      BY DEF TypeOK, TxTypeOK
    <3>2. PICK added : added = [j \in 1..n |-> Fragment(TxUsed + j - 1)]
      OBVIOUS
    <3>5. txBuf' = txBuf \o added
      BY <1>2, <3>2
    <3>6. PICK T : added \in Seq(T) /\ Len(added) = n
      <4>1. PICK T : T = {Fragment(TxUsed + j - 1) : j \in 1..n}
        OBVIOUS
      <4>2. \A j \in 1..n : Fragment(TxUsed + j - 1) \in T
        BY <4>1
      <4> HIDE DEF Fragment
      <4>3. added \in Seq(T) /\ Len(added) = n
        BY <1>0, <3>2, <4>2
      <4> QED
        BY <4>3
    <3>7. /\ Len(txBuf') = Len(txBuf) + n
          /\ k <= Len(txBuf) => txBuf'[k] = txBuf[k]
          /\ k > Len(txBuf) => txBuf'[k] = added[k - Len(txBuf)]
      <4>1. PICK S : S = (DataPdu \cup MrwPdu) \cup T
        OBVIOUS
      <4>2. txBuf \in Seq(S) /\ added \in Seq(S)
        BY <4>1, <3>1, <3>6, SeqMonotonic
      <4> HIDE DEF Fragment
      <4>3. /\ Len(txBuf \o added) = Len(txBuf) + Len(added)
            /\ Len(txBuf) \in Nat
            /\ \A j \in 1..(Len(txBuf) + Len(added)) :
                 (txBuf \o added)[j] = IF j <= Len(txBuf) THEN txBuf[j]
                                       ELSE added[j - Len(txBuf)]
        BY <4>2, ConcatProperties, LenProperties
      <4> QED
        BY <1>0, <3>5, <3>6, <4>3
    <3>3. CASE k \in 1..Len(txBuf)
      <4>1. txBuf'[k] = txBuf[k]
        BY <3>3, <3>7
      <4>2. txBuf[k] \in DataPdu \cup MrwPdu /\ GoodPdu(txBuf[k])
        BY <3>1, <3>3 DEF WaitingAgree
      <4> QED
        BY <4>1, <4>2, <2>1, GoodStays DEF GoodPdu
    <3>4. CASE k \in (Len(txBuf) + 1)..(Len(txBuf) + n)
      <4>1. txBuf'[k] = Fragment(TxUsed + (k - Len(txBuf)) - 1)
        <5>1. k - Len(txBuf) \in 1..n /\ k > Len(txBuf)
          BY <1>0, <3>1, <3>4
        <5>2. txBuf'[k] = added[k - Len(txBuf)]
          BY <5>1, <3>7
        <5> HIDE DEF Fragment
        <5> QED
          BY <5>1, <5>2, <3>2
      <4>2. TxUsed + (k - Len(txBuf)) - 1 \in new
        BY <1>0, <3>1, <3>4
      <4> QED
        BY <4>1, <4>2, <2>3 DEF GoodPdu
    <3> QED
      <4>1. k \in 1..(Len(txBuf) + n) /\ Len(txBuf) \in Nat
        BY <3>1, <3>7
      <4> QED
        BY <4>1, <1>0, <3>3, <3>4
  <2>6. CommandsAgree'
    BY <1>2, <2>1, CommandsStay DEF mrwVars
  <2>7. txSeq' < txFirst + TxW
    BY <1>2 DEF Fits
  <2> QED
    BY <2>1, <2>4, <2>5, <2>6, <2>7, TxEvent
<1>3. CASE TxThrow("busyPosition")
  BY <1>3, TxThrowAgrees
<1> QED
  BY <1>1, <1>2, <1>3 DEF Enque

LEMMA DiscardAgrees ==
    ASSUME IInv, NEW x, NEW timers, Discard(x, timers),
           UNCHANGED <<txFirst, txSeq, rtx, tReceived>>,
           UNCHANGED <<rxVars, air>>, CtlTaken
    PROVE  WindowsTogether' /\ PdusAgree'
<1> USE DEF IInv, PdusAgree
<1> DEFINE marked == [i \in TxSlots |-> tDiscarded[i] \/ i \in Group(x)]
<1>1. tDiscarded' = marked /\ CheckForMrw(tReceived, marked, txBuf)
  BY DEF Discard
<1>2. Steady
  BY <1>1, SteadyFlags
<1>3. \A i \in TxSlots : tReceived[i] \/ marked[i] => IsSettled(i)'
  BY <1>1 DEF IsSettled
<1> HIDE DEF marked
<1>4. CommandsAgree' /\ WaitingAgree'
  BY <1>1, <1>2, <1>3, CheckForMrwAgrees
<1>5. StoredAgree'
  BY <1>2, StoredStays
<1> QED
  BY <1>2, <1>4, <1>5, TxEvent DEF WindowsTogether

LEMMA RetransmitAgrees ==
    ASSUME IInv, NEW x \in TxSlots, rtx[x] # NoPdu, ~LastTry(x), Retransmit(x),
           UNCHANGED <<rxVars, air>>, CtlTaken
    PROVE  WindowsTogether' /\ PdusAgree'
<1> USE DEF IInv, PdusAgree
<1>1. Steady /\ mrwQ' = mrwQ
  BY SteadyFlags DEF Retransmit, mrwVars
<1>2. PICK p \in DataPdu : p = [rtx[x] EXCEPT !.tx = @ + 1] /\ GoodPdu(p)'
  <2>1. rtx[x] \in DataPdu /\ GoodPdu(rtx[x])
    BY DEF TypeOK, TxTypeOK, StoredAgree
  <2>2. PICK p : p = [rtx[x] EXCEPT !.tx = @ + 1]
    OBVIOUS
  <2>3. p \in DataPdu /\ p.sno = rtx[x].sno /\ p.type = "DATA"
    BY <2>1, <2>2, ParameterAssumption DEF DataPdu, LastTry
  <2>4. GoodPdu(p)
    BY <2>1, <2>3 DEF GoodPdu, DataPdu
  <2> QED
    BY <2>2, <2>3, <2>4, <1>1, GoodStays
<1>3. PICK free : rtx' = [[rtx EXCEPT ![x] = NoPdu] EXCEPT ![free] = p]
  BY <1>2 DEF Retransmit
<1>4. StoredAgree'
  <2> SUFFICES ASSUME NEW i \in TxSlots, rtx'[i] # NoPdu PROVE GoodPdu(rtx[i])'
    BY DEF StoredAgree
  <2>1. CASE rtx'[i] = p
    BY <1>2, <2>1 DEF GoodPdu
  <2>2. CASE rtx'[i] = rtx[i]
    <3>1. rtx[i] \in DataPdu /\ GoodPdu(rtx[i])
      BY <2>2 DEF TypeOK, TxTypeOK, StoredAgree
    <3> QED
      BY <3>1, <2>2, <1>1, GoodStays DEF GoodPdu
  <2> QED
    BY <1>3, <2>1, <2>2 DEF TypeOK, TxTypeOK
<1>5. PICK c \in DataPdu : c = Copy(p) /\ GoodPdu(c)'
  <2>1. PICK c : c = Copy(p)
    OBVIOUS
  <2>2. c \in DataPdu /\ c.sno = p.sno /\ c.type = p.type /\ p.type = "DATA"
    BY <2>1, CopyType DEF Copy, DataPdu
  <2>3. GoodPdu(c)'
    BY <2>2, <1>2 DEF GoodPdu
  <2> QED
    BY <2>1, <2>2, <2>3
<1>6. WaitingAgree'
  <2>1. txBuf' = Append(txBuf, c)
    BY <1>2, <1>5 DEF Retransmit
  <2> QED
    BY <2>1, <1>1, <1>5, WaitingGrows
<1>7. CommandsAgree'
  BY <1>1, CommandsStay
<1>8. txSeq' < txFirst + TxW
  BY DEF Retransmit, WindowsTogether
<1> QED
  BY <1>1, <1>4, <1>6, <1>7, <1>8, TxEvent

LEMMA PduTimerAgrees ==
    ASSUME IInv, NEW sn \in pduTimer, PduTimer(sn),
           UNCHANGED <<rxVars, air>>, CtlTaken
    PROVE  WindowsTogether' /\ PdusAgree'
<1> DEFINE x == sn - txFirst
<1>1. CASE /\ Discard(x, pduTimer \ {sn})
           /\ UNCHANGED <<txFirst, txSeq, rtx, tReceived>>
  BY <1>1, DiscardAgrees
<1>2. CASE x \in TxSlots /\ rtx[x] # NoPdu /\ ~LastTry(x) /\ Retransmit(x)
  BY <1>2, RetransmitAgrees
<1>3. CASE \E e : TxThrow(e)
  BY <1>3, TxThrowAgrees
<1> QED
  BY <1>1, <1>2, <1>3 DEF PduTimer

LEMMA MrwTimerAgrees ==
    ASSUME IInv, NEW serial \in mrwTimer, MrwTimer(serial),
           UNCHANGED <<rxVars, air>>, CtlTaken
    PROVE  WindowsTogether' /\ PdusAgree'
<1> USE DEF IInv, PdusAgree
<1>1. CASE \E e : TxThrow(e)
  BY <1>1, TxThrowAgrees
<1>2. CASE /\ UNCHANGED windowVars
           /\ mrwQ' \subseteq mrwQ
           /\ \/ UNCHANGED txBuf
              \/ \E m \in mrwQ : txBuf' = Append(txBuf, m)
  <2>1. Steady
    BY <1>2, SteadyFlags DEF windowVars
  <2>2. StoredAgree' /\ CommandsAgree'
    BY <1>2, <2>1, StoredStays, CommandsStay DEF windowVars
  <2>3. WaitingAgree'
    <3>1. CASE UNCHANGED txBuf
      BY <3>1, <2>1, WaitingStays
    <3>2. CASE \E m \in mrwQ : txBuf' = Append(txBuf, m)
      <4>1. PICK m \in mrwQ : txBuf' = Append(txBuf, m)
        BY <3>2
      <4>2. m \in MrwPdu /\ GoodPdu(m)
        BY DEF TypeOK, TxTypeOK, CommandsAgree
      <4> QED
        BY <4>1, <4>2, <2>1, GoodStays, WaitingGrows
    <3> QED
      BY <1>2, <3>1, <3>2
  <2> QED
    BY <1>2, <2>1, <2>2, <2>3, TxEvent DEF WindowsTogether, windowVars
<1> QED
  BY <1>1, <1>2 DEF MrwTimer

LEMMA BufferStatusTimerAgrees ==
    ASSUME IInv, BufferStatusTimer, UNCHANGED <<rxVars, air>>, CtlTaken
    PROVE  WindowsTogether' /\ PdusAgree'
<1> USE DEF IInv, PdusAgree
<1>1. UNCHANGED <<txFirst, txSeq, rtx, tReceived, tDiscarded>>
  BY DEF BufferStatusTimer, windowVars
<1>2. Steady
  BY <1>1, SteadyFlags
<1>3. CommandsAgree' /\ WaitingAgree'
  BY <1>1, <1>2, CheckForMrwAgrees DEF BufferStatusTimer, IsSettled
<1>4. StoredAgree'
  BY <1>1, <1>2, StoredStays
<1> QED
  BY <1>1, <1>2, <1>3, <1>4, TxEvent DEF WindowsTogether

LEMMA RecvAckAgrees ==
    ASSUME IInv, NEW m \in AckPdu, RecvAck(m),
           UNCHANGED <<rxVars, air>>, CtlTaken
    PROVE  WindowsTogether' /\ PdusAgree'
<1> USE DEF IInv, PdusAgree
<1> DEFINE cum == m.last - txFirst
           cumulated == [i \in TxSlots |-> tReceived[i] \/ i <= cum]
           marked == [i \in TxSlots |-> cumulated[i] \/ txFirst + i \in m.acked]
<1>1. CASE \E e : TxThrow(e)
  BY <1>1, TxThrowAgrees
<1>2. CASE /\ tReceived' = marked
           /\ \/ UNCHANGED <<mrwVars, txBuf>>
              \/ CheckForMrw(cumulated, tDiscarded, txBuf)
           /\ UNCHANGED <<txFirst, txSeq, rtx, tDiscarded>>
  <2>1. Steady
    BY <1>2, SteadyFlags
  <2>2. \A i \in TxSlots : cumulated[i] \/ tDiscarded[i] => IsSettled(i)'
    BY <1>2 DEF IsSettled
  <2> HIDE DEF cumulated, marked
  <2>3. CommandsAgree' /\ WaitingAgree'
    BY <1>2, <2>1, <2>2, CheckForMrwAgrees, CommandsStay, WaitingStays DEF mrwVars
  <2>4. StoredAgree'
    BY <1>2, <2>1, StoredStays
  <2> QED
    BY <1>2, <2>1, <2>3, <2>4, TxEvent DEF WindowsTogether
<1> QED
  BY <1>1, <1>2 DEF RecvAck

\* The window moves: an MRW_ACK that reports no more than the receiver has moved
\* past never pushes an unsettled PDU out.
LEMMA RecvMrwAckAgrees ==
    ASSUME IInv, NEW m \in MrwAckPdu, RecvMrwAck(m), m.first <= rxFirst,
           UNCHANGED <<rxVars, air>>, CtlTaken
    PROVE  /\ WindowsTogether' /\ PdusAgree'
           /\ \A i \in TxSlots : txFirst + i < txFirst' => IsSettled(i)
<1> USE DEF IInv, PdusAgree
<1>0. /\ txFirst \in Nat /\ txSeq \in Nat /\ rxFirst \in Nat /\ m.first \in Nat
      /\ TxUsed \in 0..(TxW - 1) /\ TxUsed = txSeq - txFirst
      /\ txFirst <= rxFirst /\ rxFirst <= txSeq /\ txSeq < txFirst + TxW
      /\ TxW \in Nat
  BY WindowArithmetic, WindowAssumption DEF MrwAckPdu, TxUsed, WindowsTogether
<1>1. CASE \E e : TxThrow(e)
  <2>1. txFirst' = txFirst
    BY <1>1 DEF TxThrow, windowVars
  <2> QED
    BY <1>0, <1>1, <2>1, TxThrowAgrees DEF TxSlots
<1>2. CASE ForgetMrw(m.serial) /\ UNCHANGED <<windowVars, txBuf>>
  <2>1. Steady /\ mrwQ' \subseteq mrwQ /\ txFirst' = txFirst
    BY <1>2, SteadyFlags DEF windowVars, ForgetMrw
  <2>2. StoredAgree' /\ CommandsAgree' /\ WaitingAgree'
    BY <1>2, <2>1, StoredStays, CommandsStay, WaitingStays DEF windowVars
  <2>3. WindowsTogether' /\ PdusAgree'
    BY <1>0, <1>2, <2>1, <2>2, TxEvent DEF windowVars
  <2> QED
    BY <1>0, <2>1, <2>3 DEF TxSlots
<1>3. CASE /\ m.first > txFirst /\ m.first <= txSeq
           /\ txFirst' = m.first
           /\ rtx' = Shifted(rtx, m.first - txFirst, NoPdu)
           /\ tReceived' = Shifted(tReceived, m.first - txFirst, FALSE)
           /\ tDiscarded' = Shifted(tDiscarded, m.first - txFirst, FALSE)
           /\ ForgetMrw(m.serial)
           /\ UNCHANGED <<txSeq, txBuf>>
  <2>0. PICK pos \in Nat : pos = m.first - txFirst /\ pos <= TxUsed
    BY <1>0, <1>3
  <2>1. ASSUME NEW bound \in Nat, SettledBelow(bound)
        PROVE  SettledBelow(bound)'
    <3>1. bound <= txSeq'
      BY <1>3, <2>1 DEF SettledBelow
    <3>2. ASSUME NEW i \in TxSlots, txFirst' + i < bound
          PROVE  IsSettled(i)'
      <4>1. i + pos < TxUsed /\ i + pos \in TxSlots /\ txFirst + (i + pos) < bound
        BY <1>0, <1>3, <2>0, <2>1, <3>2 DEF TxSlots, SettledBelow
      <4>2. IsSettled(i + pos)
        BY <2>1, <4>1 DEF SettledBelow
      <4>3. tReceived'[i] = tReceived[i + pos] /\ tDiscarded'[i] = tDiscarded[i + pos]
        BY <1>3, <2>0, <4>1 DEF Shifted
      <4> QED
        BY <4>2, <4>3 DEF IsSettled
    <3> QED
      BY <3>1, <3>2 DEF SettledBelow
  <2>2. ASSUME NEW p \in DataPdu \cup MrwPdu, GoodPdu(p)
        PROVE  GoodPdu(p)'
    <3>1. CASE p \in DataPdu
      BY <1>3, <2>2, <3>1 DEF GoodPdu, DataPdu
    <3>2. CASE p \in MrwPdu
      <4>1. p.target \in Nat /\ p.type = "MRW"
        BY <3>2 DEF MrwPdu
      <4> QED
        BY <2>1, <2>2, <4>1 DEF GoodPdu
    <3> QED
      BY <2>2, <3>1, <3>2
  <2>3. UNCHANGED <<rxFirst, ctlBuf, air>>
    BY DEF rxVars
  <2>4. SettledBelow(rxFirst)'
    BY <1>0, <2>1, <2>3 DEF SettledBelow
  <2>5. StoredAgree'
    <3> SUFFICES ASSUME NEW i \in TxSlots, rtx'[i] # NoPdu PROVE GoodPdu(rtx[i])'
      BY DEF StoredAgree
    <3>1. rtx'[i] = rtx[i + pos] /\ i + pos \in TxSlots
      <4>1. rtx' = Shifted(rtx, pos, NoPdu)
        BY <1>3, <2>0
      <4>2. i + pos < TxUsed /\ rtx'[i] = rtx[i + pos]
        BY <4>1 DEF Shifted
      <4> QED
        BY <1>0, <2>0, <4>2 DEF TxSlots
    <3>2. rtx[i + pos] \in DataPdu /\ GoodPdu(rtx[i + pos])
      BY <3>1 DEF TypeOK, TxTypeOK, StoredAgree
    <3> QED
      BY <2>2, <3>1, <3>2 DEF GoodPdu
  <2>6. CommandsAgree'
    <3>1. mrwQ' \subseteq mrwQ /\ mrwQ \subseteq MrwPdu
      BY <1>3 DEF ForgetMrw, TypeOK, TxTypeOK
    <3> QED
      BY <2>2, <3>1 DEF CommandsAgree
  <2>7. WaitingAgree'
    <3> SUFFICES ASSUME NEW k \in 1..Len(txBuf) PROVE GoodPdu(txBuf[k])'
      BY <1>3 DEF WaitingAgree
    <3>1. txBuf[k] \in DataPdu \cup MrwPdu /\ GoodPdu(txBuf[k])
      BY DEF TypeOK, TxTypeOK, WaitingAgree
    <3> QED
      BY <1>3, <2>2, <3>1 DEF GoodPdu
  <2>8. AirAgree'
    <3> SUFFICES ASSUME NEW p \in Procs, air[p] # NoPdu PROVE GoodPdu(air[p])'
      BY <2>3 DEF AirAgree
    <3>1. air[p] \in DataPdu \cup MrwPdu /\ GoodPdu(air[p])
      BY DEF TypeOK, AirAgree
    <3> QED
      BY <2>2, <2>3, <3>1 DEF GoodPdu
  <2>9. AnswersAgree'
    BY <2>3 DEF AnswersAgree, GoodCtl, CtlTaken
  <2>10. WindowsTogether'
    BY <1>0, <1>3, <2>3 DEF WindowsTogether
  <2>11. \A i \in TxSlots : txFirst + i < txFirst' => IsSettled(i)
    BY <1>0, <1>3 DEF SettledBelow, TxSlots
  <2> QED
    BY <2>4, <2>5, <2>6, <2>7, <2>8, <2>9, <2>10, <2>11
<1> QED
  <2>1. m.first > txFirst => txFirst + (m.first - txFirst) = m.first
    BY <1>0
  <2>2. m.first - txFirst > 0 /\ m.first - txFirst <= TxUsed
          => m.first > txFirst /\ m.first <= txSeq
    BY <1>0
  <2> QED
    BY <1>1, <1>2, <1>3, <2>1, <2>2 DEF RecvMrwAck

-----------------------------------------------------------------------------
(* The events of the receiver. *)

\* An event may take a PDU from the process that carries it, and adds none.
PduTaken == \A p \in Procs : air'[p] \in {air[p], NoPdu}

\* The receiver moves its window at most to what is settled, and reports no more
\* than that.
LEMMA RxEvent ==
    ASSUME IInv, UNCHANGED <<txVars, ctlAir>>, PduTaken,
           rxFirst' \in Nat, rxFirst <= rxFirst', SettledBelow(rxFirst'),
           \/ UNCHANGED ctlBuf
           \/ \E c \in AckPdu \cup MrwAckPdu :
                 /\ ctlBuf' = Append(ctlBuf, c)
                 /\ c.type = "MRW_ACK" => c.first <= rxFirst'
    PROVE  WindowsTogether' /\ PdusAgree'
<1> USE DEF IInv, PdusAgree
<1>1. UNCHANGED <<txFirst, txSeq, rtx, tReceived, tDiscarded, mrwQ, txBuf, ctlAir>>
  BY DEF txVars, windowVars, mrwVars
<1>2. WindowsTogether'
  BY <1>1, WindowArithmetic DEF WindowsTogether, SettledBelow
<1>3. SettledBelow(rxFirst)'
  BY <1>1 DEF SettledBelow, IsSettled
<1>4. StoredAgree' /\ CommandsAgree' /\ WaitingAgree'
  BY <1>1 DEF StoredAgree, CommandsAgree, WaitingAgree, GoodPdu, SettledBelow, IsSettled
<1>5. AirAgree'
  BY <1>1 DEF AirAgree, PduTaken, GoodPdu, SettledBelow, IsSettled
<1>6. ASSUME NEW c \in AckPdu \cup MrwAckPdu, GoodCtl(c)
      PROVE  c.type = "MRW_ACK" => c.first <= rxFirst'
  <2> SUFFICES ASSUME c.type = "MRW_ACK" PROVE c.first <= rxFirst'
    OBVIOUS
  <2>1. c.first \in Nat
    BY DEF AckPdu, MrwAckPdu
  <2> QED
    BY <1>6, <2>1, WindowArithmetic DEF GoodCtl
<1>7. AnswersAgree'
  <2>0. ctlBuf \in Seq(AckPdu \cup MrwAckPdu)
    BY DEF TypeOK, RxTypeOK
  <2>1. ASSUME NEW p \in CtlProcs, ctlAir[p] # NoPdu
        PROVE  ctlAir[p].type = "MRW_ACK" => ctlAir[p].first <= rxFirst'
    <3>1. ctlAir[p] \in AckPdu \cup MrwAckPdu /\ GoodCtl(ctlAir[p])
      BY <2>1 DEF TypeOK, AnswersAgree
    <3> QED
      BY <3>1, <1>6
  <2>2. ASSUME NEW k \in 1..Len(ctlBuf)
        PROVE  ctlBuf[k].type = "MRW_ACK" => ctlBuf[k].first <= rxFirst'
    <3>1. ctlBuf[k] \in AckPdu \cup MrwAckPdu /\ GoodCtl(ctlBuf[k])
      BY <2>0 DEF AnswersAgree
    <3> QED
      BY <3>1, <1>6
  <2>3. ASSUME NEW k \in 1..Len(ctlBuf')
        PROVE  ctlBuf'[k].type = "MRW_ACK" => ctlBuf'[k].first <= rxFirst'
    <3>1. CASE UNCHANGED ctlBuf
      BY <2>2, <2>3, <3>1
    <3>2. CASE \E c \in AckPdu \cup MrwAckPdu :
                 /\ ctlBuf' = Append(ctlBuf, c)
                 /\ c.type = "MRW_ACK" => c.first <= rxFirst'
      <4>1. PICK c \in AckPdu \cup MrwAckPdu :
                 /\ ctlBuf' = Append(ctlBuf, c)
                 /\ c.type = "MRW_ACK" => c.first <= rxFirst'
        BY <3>2
      <4>2. CASE k \in 1..Len(ctlBuf)
        <5>1. ctlBuf'[k] = ctlBuf[k]
          BY <2>0, <4>1, <4>2
        <5> QED
          BY <5>1, <4>2, <2>2
      <4>3. CASE k = Len(ctlBuf) + 1
        <5>1. ctlBuf'[k] = c
          BY <2>0, <4>1, <4>3
        <5> QED
          BY <5>1, <4>1
      <4> QED
        BY <2>0, <2>3, <4>1, <4>2, <4>3
    <3> QED
      BY <3>1, <3>2
  <2> QED
    BY <1>1, <2>1, <2>3 DEF AnswersAgree, GoodCtl
<1> QED
  BY <1>2, <1>3, <1>4, <1>5, <1>7

\* An error changes nothing but the error.
LEMMA RxThrowAgrees ==
    ASSUME IInv, NEW e, RxThrow(e), UNCHANGED <<txVars, ctlAir>>, PduTaken
    PROVE  WindowsTogether' /\ PdusAgree'
<1>1. UNCHANGED <<rxFirst, ctlBuf>>
  BY DEF RxThrow
<1> QED
  BY <1>1, RxEvent, WindowArithmetic DEF IInv, PdusAgree

\* What sendStatusReport adds is no MRW_ACK.
LEMMA SendStatusReportAdds ==
    ASSUME RxTypeOK, NEW received, SendStatusReport(received)
    PROVE  \/ UNCHANGED ctlBuf
           \/ \E c \in AckPdu \cup MrwAckPdu :
                 ctlBuf' = Append(ctlBuf, c) /\ c.type # "MRW_ACK"
<1>1. CASE UNCHANGED <<ctlBuf, ackReady>>
  BY <1>1
<1>2. CASE \E c \in 0..RxW :
             ctlBuf' = Append(ctlBuf,
                Ack(rxFirst + c - 1,
                    {rxFirst + i : i \in {j \in c..(RxW - 1) : received[j]}}))
  <2>1. PICK c \in 0..RxW :
          ctlBuf' = Append(ctlBuf,
             Ack(rxFirst + c - 1,
                 {rxFirst + i : i \in {j \in c..(RxW - 1) : received[j]}}))
    BY <1>2
  <2>2. rxFirst + c - 1 \in Int
    BY WindowAssumption DEF RxTypeOK
  <2>3. PICK bits : bits = {rxFirst + i : i \in {j \in c..(RxW - 1) : received[j]}}
    OBVIOUS
  <2>4. bits \in SUBSET Nat
    BY <2>3, WindowAssumption DEF RxTypeOK
  <2>5. /\ Ack(rxFirst + c - 1, bits) \in AckPdu
        /\ Ack(rxFirst + c - 1, bits).type # "MRW_ACK"
    BY <2>2, <2>4 DEF Ack, AckPdu
  <2> QED
    BY <2>1, <2>3, <2>5
<1> QED
  BY <1>1, <1>2 DEF SendStatusReport

\* A step that moves no window and adds at most a status report.
LEMMA RxReport ==
    ASSUME IInv, UNCHANGED <<txVars, ctlAir, rxFirst>>, PduTaken,
           \/ UNCHANGED ctlBuf
           \/ \E received : SendStatusReport(received)
    PROVE  WindowsTogether' /\ PdusAgree'
<1>1. \/ UNCHANGED ctlBuf
      \/ \E c \in AckPdu \cup MrwAckPdu :
            ctlBuf' = Append(ctlBuf, c) /\ c.type # "MRW_ACK"
  BY SendStatusReportAdds DEF IInv, TypeOK
<1>2. rxFirst' \in Nat /\ rxFirst <= rxFirst' /\ SettledBelow(rxFirst')
  BY WindowArithmetic DEF IInv, PdusAgree
<1> QED
  BY <1>1, <1>2, RxEvent

LEMMA RecvDataAgrees ==
    ASSUME IInv, NEW p \in DataPdu, RecvData(p), UNCHANGED <<txVars, ctlAir>>,
           PduTaken
    PROVE  WindowsTogether' /\ PdusAgree'
<1>1. CASE \E e : RxThrow(e)
  BY <1>1, RxThrowAgrees
<1>2. CASE /\ UNCHANGED rxFirst
           /\ \/ UNCHANGED ctlBuf
              \/ \E received : SendStatusReport(received)
  BY <1>2, RxReport
<1>3. StoreData(p) => (\E e : RxThrow(e)) \/ (Noted(p) /\ EarlyReport(p))
                     \/ (Noted(p) /\ \E received : SendStatusReport(received))
  BY DEF StoreData
<1>4. RecvData(p) => \/ StoreData(p)
                     \/ \E e : RxThrow(e)
                     \/ Noted(p) /\ EarlyReport(p)
                     \/ UNCHANGED <<rxFirst, ctlBuf>>
  BY DEF RecvData
<1>5. Noted(p) => UNCHANGED rxFirst
  BY DEF Noted
<1>6. EarlyReport(p) => \/ UNCHANGED ctlBuf
                        \/ \E received : SendStatusReport(received)
  BY DEF EarlyReport
<1> QED
  BY <1>1, <1>2, <1>3, <1>4, <1>5, <1>6

LEMMA RecvMrwAgrees ==
    ASSUME IInv, NEW m \in MrwPdu, RecvMrw(m), SettledBelow(m.target),
           UNCHANGED <<txVars, ctlAir>>, PduTaken
    PROVE  WindowsTogether' /\ PdusAgree'
<1>0. m.target \in Nat /\ m.serial \in Nat /\ rxFirst \in Nat /\ SettledBelow(rxFirst)
  BY WindowArithmetic DEF IInv, PdusAgree, MrwPdu
<1>1. CASE \E e : RxThrow(e)
  BY <1>1, RxThrowAgrees
<1>2. PICK start \in Nat :
        /\ start = rxFirst + (IF m.target - rxFirst > 0 THEN m.target - rxFirst ELSE 0)
        /\ start = IF m.target > rxFirst THEN m.target ELSE rxFirst
  BY <1>0
<1>3. CASE ctlBuf' = Append(ctlBuf, MrwAck(m.serial, start)) /\ rxFirst' = start
  <2>1. SettledBelow(rxFirst') /\ rxFirst' \in Nat /\ rxFirst <= rxFirst'
    BY <1>0, <1>2, <1>3
  <2>2. PICK c \in MrwAckPdu : c = MrwAck(m.serial, start) /\ c.first = start
    <3>1. MrwAck(m.serial, start) \in MrwAckPdu /\ MrwAck(m.serial, start).first = start
      BY <1>0 DEF MrwAck, MrwAckPdu
    <3> QED
      BY <3>1
  <2>3. c.first <= rxFirst'
    BY <1>3, <2>2
  <2> QED
    BY <1>3, <2>1, <2>2, <2>3, RxEvent
<1> QED
  BY <1>1, <1>2, <1>3 DEF RecvMrw

-----------------------------------------------------------------------------
(* The channels. *)

LEMMA SendPduAgrees ==
    ASSUME IInv, NEW p \in Procs, SendPdu(p)
    PROVE  WindowsTogether' /\ PdusAgree'
<1> USE DEF IInv, PdusAgree
<1>0. UNCHANGED <<txFirst, txSeq, rtx, tReceived, tDiscarded, mrwQ, rxFirst,
                  ctlBuf, ctlAir>>
  BY DEF SendPdu, windowVars, mrwVars, rxVars
<1>1. txBuf \in Seq(DataPdu \cup MrwPdu) /\ txBuf # <<>>
  BY DEF SendPdu, TypeOK, TxTypeOK
<1>2. Len(txBuf) \in Nat \ {0} /\ Head(txBuf) = txBuf[1]
  BY <1>1, EmptySeq
<1>3. GoodPdu(Head(txBuf))
  BY <1>2 DEF WaitingAgree
<1>4. WaitingAgree'
  <2>1. CASE txBuf' = Tail(txBuf)
    <3>1. /\ Len(txBuf') = Len(txBuf) - 1
          /\ \A k \in 1..Len(txBuf') : txBuf'[k] = txBuf[k + 1]
      BY <1>1, <1>2, <2>1
    <3>2. \A k \in 1..Len(txBuf') : k + 1 \in 1..Len(txBuf)
      BY <1>2, <3>1
    <3> QED
      BY <1>0, <3>1, <3>2 DEF WaitingAgree, GoodPdu, SettledBelow, IsSettled
  <2>2. CASE UNCHANGED txBuf
    BY <1>0, <2>2 DEF WaitingAgree, GoodPdu, SettledBelow, IsSettled
  <2> QED
    BY <2>1, <2>2 DEF SendPdu
<1>5. AirAgree'
  BY <1>0, <1>3 DEF SendPdu, TypeOK, AirAgree, GoodPdu, SettledBelow, IsSettled
<1> QED
  BY <1>0, <1>4, <1>5 DEF WindowsTogether, SettledBelow, IsSettled, StoredAgree,
     CommandsAgree, AnswersAgree, GoodPdu, GoodCtl

LEMMA SendCtlAgrees ==
    ASSUME IInv, NEW p \in CtlProcs, SendCtl(p)
    PROVE  WindowsTogether' /\ PdusAgree'
<1> USE DEF IInv, PdusAgree
<1>0. UNCHANGED <<txFirst, txSeq, rtx, tReceived, tDiscarded, mrwQ, txBuf,
                  rxFirst, air>>
  BY DEF SendCtl, txVars, windowVars, mrwVars
<1>1. ctlBuf \in Seq(AckPdu \cup MrwAckPdu) /\ ctlBuf # <<>>
  BY DEF SendCtl, TypeOK, RxTypeOK
<1>2. Len(ctlBuf) \in Nat \ {0} /\ Head(ctlBuf) = ctlBuf[1]
  BY <1>1, EmptySeq
<1>3. GoodCtl(Head(ctlBuf))
  BY <1>2 DEF AnswersAgree
<1>4. AnswersAgree'
  <2>1. ctlBuf' = Tail(ctlBuf)
    BY DEF SendCtl
  <2>2. /\ Len(ctlBuf') = Len(ctlBuf) - 1
        /\ \A k \in 1..Len(ctlBuf') : ctlBuf'[k] = ctlBuf[k + 1]
    BY <1>1, <1>2, <2>1
  <2>3. \A k \in 1..Len(ctlBuf') : k + 1 \in 1..Len(ctlBuf)
    BY <1>2, <2>2
  <2>4. \A q \in CtlProcs : ctlAir'[q] = IF q = p THEN Head(ctlBuf) ELSE ctlAir[q]
    BY DEF SendCtl, TypeOK
  <2> QED
    BY <1>0, <1>3, <2>2, <2>3, <2>4 DEF AnswersAgree, GoodCtl
<1> QED
  BY <1>0, <1>4 DEF WindowsTogether, SettledBelow, IsSettled, StoredAgree,
     CommandsAgree, WaitingAgree, AirAgree, GoodPdu

LEMMA DeliverPduAgrees ==
    ASSUME IInv, NEW p \in Procs, DeliverPdu(p)
    PROVE  WindowsTogether' /\ PdusAgree'
<1>1. PduTaken
  BY DEF DeliverPdu, IInv, TypeOK, PduTaken
<1>2. GoodPdu(air[p]) /\ UNCHANGED <<txVars, ctlAir>>
  BY DEF DeliverPdu, IInv, PdusAgree, AirAgree
<1> QED
  BY <1>1, <1>2, PduUnderWay, RecvDataAgrees, RecvMrwAgrees
     DEF DeliverPdu, IInv, GoodPdu

LEMMA DeliverCtlAgrees ==
    ASSUME IInv, NEW p \in CtlProcs, DeliverCtl(p)
    PROVE  /\ WindowsTogether' /\ PdusAgree'
           /\ \A i \in TxSlots : txFirst + i < txFirst' => IsSettled(i)
<1>1. CtlTaken
  BY DEF DeliverCtl, IInv, TypeOK, CtlTaken
<1>2. GoodCtl(ctlAir[p]) /\ UNCHANGED <<rxVars, air>>
  BY DEF DeliverCtl, IInv, PdusAgree, AnswersAgree
<1>3. CASE ctlAir[p].type = "ACK" /\ RecvAck(ctlAir[p])
  <2>1. ctlAir[p] \in AckPdu
    BY <1>3, CtlUnderWay DEF DeliverCtl, IInv
  <2>2. txFirst' = txFirst
    BY <1>3 DEF RecvAck, TxThrow, windowVars
  <2>3. \A i \in TxSlots : ~(txFirst + i < txFirst)
    BY WindowArithmetic DEF IInv, TxSlots
  <2> QED
    BY <1>1, <1>2, <1>3, <2>1, <2>2, <2>3, RecvAckAgrees
<1>4. CASE ctlAir[p].type = "MRW_ACK" /\ RecvMrwAck(ctlAir[p])
  <2>1. ctlAir[p] \in MrwAckPdu /\ ctlAir[p].first <= rxFirst
    BY <1>2, <1>4, CtlUnderWay DEF DeliverCtl, IInv, GoodCtl
  <2> QED
    BY <1>1, <1>2, <1>4, <2>1, RecvMrwAckAgrees
<1> QED
  BY <1>3, <1>4 DEF DeliverCtl

LEMMA LoseAgrees ==
    ASSUME IInv
    PROVE  /\ \A p \in Procs : Lose(p) => WindowsTogether' /\ PdusAgree'
           /\ \A p \in CtlProcs : LoseCtl(p) => WindowsTogether' /\ PdusAgree'
<1>1. ASSUME NEW p \in Procs, Lose(p) PROVE WindowsTogether' /\ PdusAgree'
  <2>1. PduTaken /\ UNCHANGED <<txVars, ctlAir, rxFirst, ctlBuf>>
    BY <1>1 DEF Lose, IInv, TypeOK, PduTaken, rxVars
  <2> QED
    BY <2>1, RxReport
<1>2. ASSUME NEW p \in CtlProcs, LoseCtl(p) PROVE WindowsTogether' /\ PdusAgree'
  <2>1. CtlTaken /\ UNCHANGED <<rxVars, air, txFirst, txSeq, rtx, tReceived,
                                 tDiscarded, mrwQ, txBuf>>
    BY <1>2 DEF LoseCtl, IInv, TypeOK, CtlTaken, txVars, windowVars, mrwVars
  <2>2. Steady
    BY <2>1, SteadyFlags DEF IInv
  <2>3. StoredAgree' /\ CommandsAgree' /\ WaitingAgree'
    BY <2>1, <2>2, StoredStays, CommandsStay, WaitingStays DEF IInv, PdusAgree
  <2> QED
    BY <2>1, <2>2, <2>3, TxEvent DEF IInv, WindowsTogether
<1> QED
  BY <1>1, <1>2

-----------------------------------------------------------------------------
(* The invariant. *)

LEMMA InitInvariant == Init => IInv
<1> SUFFICES ASSUME Init PROVE IInv
  OBVIOUS
<1>1. WindowsTogether
  BY WindowAssumption DEF Init, TxInit, RxInit, WindowsTogether
<1>2. SettledBelow(rxFirst)
  BY WindowAssumption DEF Init, TxInit, RxInit, SettledBelow, TxSlots
<1>3. Len(txBuf) = 0 /\ Len(ctlBuf) = 0
  BY EmptySeq DEF Init, TxInit, RxInit
<1>4. StoredAgree /\ CommandsAgree /\ WaitingAgree /\ AirAgree /\ AnswersAgree
  BY <1>3 DEF Init, TxInit, StoredAgree, CommandsAgree, WaitingAgree, AirAgree,
     AnswersAgree
<1> QED
  BY <1>1, <1>2, <1>4, InitType DEF IInv, PdusAgree

LEMMA NextInvariant == IInv /\ [Next]_vars => IInv'
<1> SUFFICES ASSUME IInv, [Next]_vars PROVE IInv'
  OBVIOUS
<1>0. TypeOK'
  <2>1. TxUsed <= TxW
    BY WindowArithmetic, WindowAssumption DEF IInv
  <2> QED
    BY <2>1, NextType DEF IInv
<1>1. CASE \/ \E n \in SduFrags : AtTx(Enque(n))
           \/ \E sn \in pduTimer : AtTx(PduTimer(sn))
           \/ \E serial \in mrwTimer : AtTx(MrwTimer(serial))
           \/ AtTx(BufferStatusTimer)
  <2>1. CtlTaken /\ UNCHANGED <<rxVars, air>>
    BY <1>1 DEF AtTx, chanVars, CtlTaken
  <2> QED
    BY <1>0, <1>1, <2>1, EnqueAgrees, PduTimerAgrees, MrwTimerAgrees,
       BufferStatusTimerAgrees DEF AtTx, IInv
<1>2. CASE AtRx(StatusTimer) \/ AtRx(AckInterval)
  <2>1. PduTaken /\ UNCHANGED <<txVars, ctlAir, rxFirst>>
    BY <1>2 DEF AtRx, chanVars, PduTaken, StatusTimer, AckInterval
  <2>2. UNCHANGED ctlBuf \/ \E received : SendStatusReport(received)
    BY <1>2 DEF AtRx, StatusTimer, AckInterval
  <2> QED
    BY <1>0, <2>1, <2>2, RxReport DEF IInv
<1>3. CASE \E p \in Procs : SendPdu(p) \/ DeliverPdu(p) \/ Lose(p)
  BY <1>0, <1>3, SendPduAgrees, DeliverPduAgrees, LoseAgrees DEF IInv
<1>4. CASE \E p \in CtlProcs : SendCtl(p) \/ DeliverCtl(p) \/ LoseCtl(p)
  BY <1>0, <1>4, SendCtlAgrees, DeliverCtlAgrees, LoseAgrees DEF IInv
<1>5. CASE UNCHANGED vars
  BY <1>0, <1>5 DEF vars, txVars, windowVars, mrwVars, rxVars, chanVars, IInv,
     WindowsTogether, PdusAgree, SettledBelow, IsSettled, StoredAgree,
     CommandsAgree, WaitingAgree, AirAgree, AnswersAgree, GoodPdu, GoodCtl
<1> QED
  BY <1>1, <1>2, <1>3, <1>4, <1>5 DEF Next

LEMMA Invariance == Spec => []IInv
BY InitInvariant, NextInvariant, PTL DEF Spec

\* Every variable of RlcAm keeps its type: no timer, late answer or repeated
\* command leads AmTxQueue or AmRxQueue to a window index outside its vectors.
THEOREM TypeCorrect == Spec => []TypeOK
<1>1. IInv => TypeOK
  BY DEF IInv
<1> QED
  BY <1>1, Invariance, PTL

\* The windows of AmTxQueue and AmRxQueue stay together under loss, delay and
\* reordering of MRW and MRW_ACK, for every window size the configuration allows.
THEOREM WindowsStayTogether == Spec => []WindowsTogether
<1>1. IInv => WindowsTogether
  BY DEF IInv
<1> QED
  BY <1>1, Invariance, PTL

\* Every PDU that is stored, waits or is under way agrees with the windows.
THEOREM PdusStayInAgreement == Spec => []PdusAgree
<1>1. IInv => PdusAgree
  BY DEF IInv
<1> QED
  BY <1>1, Invariance, PTL

\* Both together: the two ends of a bearer never drift apart.
THEOREM EndsNeverDriftApart == Spec => []WindowsAgree
<1>1. WindowsTogether /\ PdusAgree => WindowsAgree
  BY DEF WindowsAgree
<1> QED
  BY <1>1, WindowsStayTogether, PdusStayInAgreement, PTL

\* moveTxWindow never pushes out a PDU that is neither received nor discarded.
THEOREM PdusLeaveSettled == Spec => LeavesSettled
<1> DEFINE Leaves == \A i \in TxSlots : txFirst + i < txFirst' => IsSettled(i)
<1>1. IInv /\ [Next]_vars => [Leaves]_vars
  <2> SUFFICES ASSUME IInv, Next PROVE Leaves
    OBVIOUS
  <2>0. txFirst' = txFirst => Leaves
    BY WindowArithmetic DEF IInv, TxSlots
  <2>1. CASE \/ \E n \in SduFrags : AtTx(Enque(n))
             \/ \E sn \in pduTimer : AtTx(PduTimer(sn))
             \/ \E serial \in mrwTimer : AtTx(MrwTimer(serial))
             \/ AtTx(BufferStatusTimer)
    <3>1. \A e : TxThrow(e) => txFirst' = txFirst
      BY DEF TxThrow, windowVars
    <3>2. txFirst' = txFirst
      BY <2>1, <3>1 DEF AtTx, Enque, PduTimer, Retransmit, MrwTimer,
         BufferStatusTimer, windowVars
    <3> QED
      BY <2>0, <3>2
  <2>2. CASE AtRx(StatusTimer) \/ AtRx(AckInterval)
    BY <2>0, <2>2 DEF AtRx, txVars, windowVars
  <2>3. CASE \E p \in Procs : SendPdu(p) \/ DeliverPdu(p) \/ Lose(p)
    BY <2>0, <2>3 DEF SendPdu, DeliverPdu, Lose, txVars, windowVars
  <2>4. CASE \E p \in CtlProcs : SendCtl(p) \/ LoseCtl(p)
    BY <2>0, <2>4 DEF SendCtl, LoseCtl, txVars, windowVars
  <2>5. CASE \E p \in CtlProcs : DeliverCtl(p)
    BY <2>5, DeliverCtlAgrees
  <2> HIDE DEF Leaves
  <2> QED
    BY <2>1, <2>2, <2>3, <2>4, <2>5 DEF Next
<1> QED
  BY <1>1, Invariance, PTL DEF Spec, LeavesSettled

-----------------------------------------------------------------------------
(* What the receiver's flags mean.                                         *)
(*                                                                         *)
(* moveRxWindow leaves flags behind when it moves by more than half of the *)
(* window (ShiftedFlags).  A receiver whose window is twice as wide as     *)
(* what the transmitter has outstanding never moves so far.                *)

LEMMA StoreDataStores ==
    ASSUME IInv, ReceivedIsStored, NEW p \in DataPdu, p.sno - rxFirst \in RxSlots,
           rBuf' = [rBuf EXCEPT ![p.sno - rxFirst] = p],
           rReceived' = [rReceived EXCEPT ![p.sno - rxFirst] = TRUE],
           UNCHANGED rxFirst
    PROVE  ReceivedIsStored'
<1> SUFFICES ASSUME NEW i \in RxSlots, rReceived'[i]
             PROVE  rBuf'[i] # NoPdu /\ rBuf'[i].sno = rxFirst + i
  BY DEF ReceivedIsStored
<1>1. /\ rBuf \in [RxSlots -> DataPdu \cup {NoPdu}] /\ rReceived \in [RxSlots -> BOOLEAN]
      /\ rxFirst \in Nat /\ p.sno \in Nat /\ p # NoPdu
  BY NoPduAssumption DEF IInv, TypeOK, RxTypeOK, DataPdu
<1>2. CASE i = p.sno - rxFirst
  BY <1>1, <1>2
<1>3. CASE i # p.sno - rxFirst
  BY <1>1, <1>3 DEF ReceivedIsStored
<1> QED
  BY <1>2, <1>3

LEMMA RecvDataStores ==
    ASSUME IInv, ReceivedIsStored, NEW p \in DataPdu, RecvData(p)
    PROVE  ReceivedIsStored'
<1>1. CASE UNCHANGED <<rBuf, rReceived, rxFirst>>
  BY <1>1 DEF ReceivedIsStored
<1>2. CASE /\ p.sno - rxFirst \in RxSlots
           /\ rBuf' = [rBuf EXCEPT ![p.sno - rxFirst] = p]
           /\ rReceived' = [rReceived EXCEPT ![p.sno - rxFirst] = TRUE]
           /\ UNCHANGED rxFirst
  BY <1>2, StoreDataStores
<1>3. \A e : RxThrow(e) => UNCHANGED <<rBuf, rReceived, rxFirst>>
  BY DEF RxThrow, bufferVars
<1>4. Noted(p) => UNCHANGED rxFirst
  BY DEF Noted
<1> QED
  <2> HIDE DEF ReceivedIsStored
  <2> SUFFICES ASSUME ~UNCHANGED <<rBuf, rReceived, rxFirst>>
               PROVE  /\ p.sno - rxFirst \in RxSlots
                      /\ rBuf' = [rBuf EXCEPT ![p.sno - rxFirst] = p]
                      /\ rReceived' = [rReceived EXCEPT ![p.sno - rxFirst] = TRUE]
                      /\ UNCHANGED rxFirst
    BY <1>1, <1>2
  <2>1. p.sno - rxFirst \in RxSlots /\ StoreData(p)
    BY <1>3, <1>4 DEF RecvData, bufferVars
  <2> QED
    BY <1>3, <1>4, <2>1 DEF StoreData

LEMMA RecvMrwStores ==
    ASSUME RxW >= 2 * (TxW - 1),
           IInv, ReceivedIsStored, NEW m \in MrwPdu, SettledBelow(m.target),
           RecvMrw(m)
    PROVE  ReceivedIsStored'
<1> USE DEF IInv
<1>0. /\ rxFirst \in Nat /\ m.target \in Nat /\ RxW \in Nat /\ TxW \in Nat
      /\ m.target - rxFirst <= TxW - 1
      /\ rBuf \in [RxSlots -> DataPdu \cup {NoPdu}] /\ rReceived \in [RxSlots -> BOOLEAN]
  BY WindowArithmetic, WindowAssumption
     DEF MrwPdu, TypeOK, RxTypeOK, WindowsTogether, SettledBelow
<1>1. CASE UNCHANGED <<rBuf, rReceived, rxFirst>>
  BY <1>1 DEF ReceivedIsStored
<1>2. CASE /\ m.target - rxFirst > 0
           /\ rxFirst' = rxFirst + (m.target - rxFirst)
           /\ rBuf' = ShiftedPdus(m.target - rxFirst)
           /\ rReceived' = ShiftedFlags(m.target - rxFirst)
  <2>1. PICK pos \in Nat : pos = m.target - rxFirst /\ pos <= TxW - 1
    BY <1>0, <1>2
  <2> SUFFICES ASSUME NEW i \in RxSlots, rReceived'[i]
               PROVE  rBuf'[i] # NoPdu /\ rBuf'[i].sno = rxFirst' + i
    BY DEF ReceivedIsStored
  <2>2. /\ i + pos < RxW => rBuf'[i] = rBuf[i + pos] /\ rReceived[i + pos]
        /\ i + pos >= RxW => i < pos
    <3>1. rBuf' = ShiftedPdus(pos) /\ rReceived' = ShiftedFlags(pos)
      BY <1>2, <2>1
    <3>2. CASE i + pos < RxW
      <4>1. rBuf'[i] = rBuf[i + pos]
        BY <3>1, <3>2 DEF ShiftedPdus
      <4>2. rReceived[i + pos]
        BY <3>1, <3>2 DEF ShiftedFlags
      <4> QED
        BY <3>2, <4>1, <4>2, <1>0, <2>1 DEF RxSlots
    <3>3. CASE ~(i + pos < RxW)
      BY <3>1, <3>3 DEF ShiftedFlags
    <3>4. i + pos >= RxW <=> ~(i + pos < RxW)
      BY <1>0, <2>1 DEF RxSlots
    <3> QED
      BY <3>2, <3>3, <3>4
  <2>3. i + pos < RxW
    BY <1>0, <2>1, <2>2 DEF RxSlots
  <2>4. i + pos \in RxSlots /\ rReceived[i + pos]
    <3>1. i + pos \in RxSlots
      BY <1>0, <2>1, <2>3 DEF RxSlots
    <3> QED
      BY <2>2, <2>3, <3>1
  <2>5. rBuf[i + pos] # NoPdu /\ rBuf[i + pos].sno = rxFirst + (i + pos)
    BY <2>4 DEF ReceivedIsStored
  <2>6. rxFirst + (i + pos) = rxFirst' + i
    BY <1>0, <1>2, <2>1 DEF RxSlots
  <2> QED
    BY <2>2, <2>3, <2>5, <2>6
<1>3. \A e : RxThrow(e) => UNCHANGED <<rBuf, rReceived, rxFirst>>
  BY DEF RxThrow, bufferVars
<1>4. m.target - rxFirst <= 0 => rxFirst + 0 = rxFirst
  BY <1>0
<1>5. m.target - rxFirst <= 0 \/ m.target - rxFirst > 0
  BY <1>0
<1>6. ~(m.target - rxFirst <= 0 /\ m.target - rxFirst > 0)
  BY <1>0
<1> QED
  BY <1>1, <1>2, <1>3, <1>4, <1>5, <1>6 DEF RecvMrw, bufferVars

\* If the receiver's window is at least twice as wide as the number of PDUs the
\* transmitter can have outstanding, received_ is true exactly of PDUs that are
\* in pduBuffer_, whatever is lost, late or repeated.  With equal windows, as in
\* the default configuration, the flags that ShiftedFlags leaves behind can lie.
THEOREM FlagsMeanStored ==
    ASSUME RxW >= 2 * (TxW - 1)
    PROVE  Spec => []ReceivedIsStored
<1>1. Init => ReceivedIsStored
  BY DEF Init, RxInit, ReceivedIsStored
<1>2. IInv /\ ReceivedIsStored /\ [Next]_vars => ReceivedIsStored'
  <2> SUFFICES ASSUME IInv, ReceivedIsStored, [Next]_vars
               PROVE  ReceivedIsStored'
    OBVIOUS
  <2>1. CASE \E p \in Procs : DeliverPdu(p)
    <3>1. PICK p \in Procs : DeliverPdu(p)
      BY <2>1
    <3>2. air[p] # NoPdu /\ GoodPdu(air[p])
      BY <3>1 DEF DeliverPdu, IInv, PdusAgree, AirAgree
    <3> QED
      BY <3>1, <3>2, PduUnderWay, RecvDataStores, RecvMrwStores
         DEF DeliverPdu, IInv, GoodPdu
  <2>2. CASE UNCHANGED <<rBuf, rReceived, rxFirst>>
    BY <2>2 DEF ReceivedIsStored
  <2>3. CASE \/ \E n \in SduFrags : AtTx(Enque(n))
             \/ \E sn \in pduTimer : AtTx(PduTimer(sn))
             \/ \E serial \in mrwTimer : AtTx(MrwTimer(serial))
             \/ AtTx(BufferStatusTimer)
             \/ UNCHANGED vars
    BY <2>2, <2>3 DEF AtTx, vars, rxVars, bufferVars
  <2>4. CASE AtRx(StatusTimer) \/ AtRx(AckInterval)
    BY <2>2, <2>4 DEF AtRx, StatusTimer, AckInterval, bufferVars
  <2>5. CASE \/ \E p \in Procs : SendPdu(p) \/ Lose(p)
             \/ \E p \in CtlProcs : SendCtl(p) \/ DeliverCtl(p) \/ LoseCtl(p)
    BY <2>2, <2>5 DEF SendPdu, Lose, SendCtl, DeliverCtl, LoseCtl, rxVars, bufferVars
  <2> QED
    BY <2>1, <2>3, <2>4, <2>5 DEF Next
<1> QED
  BY <1>1, <1>2, Invariance, PTL DEF Spec

-----------------------------------------------------------------------------
(* Stale events do no harm.                                                *)

\* The slots of the window hold PDUs, those behind it neither PDUs nor flags.
WindowFilled ==
    /\ \A i \in TxSlots : rtx[i] # NoPdu <=> InWindow(i)
    /\ \A i \in TxSlots : IsSettled(i) => InWindow(i)

\* An MRW timer runs for a command that is still remembered.
TimedCommands == \A serial \in mrwTimer : \E m \in mrwQ : m.serial = serial

TxSound == WindowFilled /\ TimedCommands /\ StaleEventsHarmless

TxLocal == <<windowVars, pduTimer, mrwQ, mrwTimer, txErr>>

LEMMA TxSoundStays ==
    ASSUME TxSound, UNCHANGED TxLocal
    PROVE  TxSound'
BY DEF TxSound, TxLocal, windowVars, WindowFilled, TimedCommands, StaleEventsHarmless,
       TxNeverThrows, TimersMatchWindow, IsSettled, InWindow, TxUsed

\* A command that is issued is remembered.
LEMMA CheckForMrwTimed ==
    ASSUME TxTypeOK, TimedCommands, NEW received, NEW discarded, NEW buf,
           CheckForMrw(received, discarded, buf)
    PROVE  TimedCommands'
<1>1. CASE UNCHANGED mrwVars
  BY <1>1 DEF TimedCommands, mrwVars
<1>2. ASSUME NEW target, SendMrw(target, buf)
      PROVE  TimedCommands'
  <2>1. /\ mrwQ' = mrwQ \cup {Mrw(mrwSn, target)}
        /\ mrwTimer' = mrwTimer \cup {mrwSn}
        /\ Mrw(mrwSn, target).serial = mrwSn
    BY <1>2 DEF SendMrw, Mrw
  <2> QED
    BY <2>1 DEF TimedCommands
<1> QED
  BY <1>1, <1>2 DEF CheckForMrw

LEMMA EnqueSound ==
    ASSUME IInv, TxSound, NEW n \in SduFrags, Enque(n)
    PROVE  TxSound'
<1> DEFINE new == TxUsed..(TxUsed + n - 1)
           Fragment(i) == Data(txFirst + i, nextSdu, txSeq, txSeq + n - 1)
<1>0. /\ n \in Nat \ {0} /\ txFirst \in Nat /\ txSeq \in Nat /\ nextSdu \in Nat
      /\ TxUsed \in 0..(TxW - 1) /\ TxW \in Nat /\ TxUsed = txSeq - txFirst
  BY WindowArithmetic, ParameterAssumption, WindowAssumption
     DEF IInv, TypeOK, TxTypeOK, TxUsed
<1>1. CASE UNCHANGED TxLocal
  BY <1>1, TxSoundStays
<1>2. CASE /\ Fits(n)
           /\ rtx' = [i \in TxSlots |-> IF i \in new THEN Fragment(i) ELSE rtx[i]]
           /\ txSeq' = txSeq + n
           /\ pduTimer' = pduTimer \cup txSeq..(txSeq + n - 1)
           /\ UNCHANGED <<txFirst, tReceived, tDiscarded, mrwVars, txErr>>
  <2>1. TxUsed' = TxUsed + n /\ TxUsed + n < TxW
    BY <1>0, <1>2 DEF TxUsed, Fits
  <2>2. \A i \in TxSlots : Fragment(i) # NoPdu
    <3> SUFFICES ASSUME NEW i \in TxSlots PROVE Fragment(i) \in DataPdu
      BY NoPduAssumption
    <3>1. txFirst + i \in Nat /\ txSeq + n - 1 \in Nat
      BY <1>0 DEF TxSlots
    <3> QED
      BY <3>1, <1>0, DataType
  <2>3. \A i \in TxSlots : i \in new <=> (i < TxUsed' /\ ~(i < TxUsed))
    BY <1>0, <2>1 DEF TxSlots
  <2>4. \A i \in TxSlots : i < TxUsed => i < TxUsed'
    BY <1>0, <2>1 DEF TxSlots
  <2>5. \A i \in TxSlots : IsSettled(i)' <=> IsSettled(i)
    BY <1>2 DEF IsSettled
  <2>6. \A i \in TxSlots : rtx'[i] = IF i \in new THEN Fragment(i) ELSE rtx[i]
    BY <1>2
  <2>7. WindowFilled'
    BY <2>2, <2>3, <2>4, <2>5, <2>6 DEF TxSound, WindowFilled, InWindow
  <2>8. TimersMatchWindow'
    <3>1. \A sn : sn \in pduTimer <=> \E i \in TxSlots : i < TxUsed /\ ~IsSettled(i) /\ sn = txFirst + i
      BY DEF TxSound, StaleEventsHarmless, TimersMatchWindow, InWindow
    <3>2. \A sn : sn \in txSeq..(txSeq + n - 1) <=> \E i \in TxSlots : i \in new /\ sn = txFirst + i
      <4>1. ASSUME NEW sn \in txSeq..(txSeq + n - 1)
            PROVE  \E i \in TxSlots : i \in new /\ sn = txFirst + i
        <5>1. sn - txFirst \in TxSlots /\ sn - txFirst \in new /\ sn = txFirst + (sn - txFirst)
          BY <1>0, <2>1 DEF TxSlots
        <5> QED
          BY <5>1
      <4>2. ASSUME NEW i \in new
            PROVE  txFirst + i \in txSeq..(txSeq + n - 1)
        BY <1>0
      <4> QED
        BY <4>1, <4>2
    <3>3. \A i \in TxSlots : i \in new => ~IsSettled(i)
      BY <2>3 DEF TxSound, WindowFilled, InWindow
    <3>4. \A sn : sn \in pduTimer' <=> \E i \in TxSlots : i < TxUsed' /\ ~IsSettled(i)' /\ sn = txFirst + i
      <4> HIDE DEF new
      <4> QED
        BY <1>2, <2>3, <2>4, <2>5, <3>1, <3>2, <3>3
    <3>5. txFirst' = txFirst
      BY <1>2
    <3> QED
      BY <3>4, <3>5 DEF TimersMatchWindow, InWindow
  <2>9. TimedCommands' /\ txErr' = "none"
    BY <1>2 DEF TxSound, TimedCommands, mrwVars, StaleEventsHarmless, TxNeverThrows
  <2> QED
    BY <2>7, <2>8, <2>9 DEF TxSound, StaleEventsHarmless, TxNeverThrows
<1>3. CASE \E i \in new : rtx[i] # NoPdu \/ tReceived[i] \/ tDiscarded[i]
  <2> SUFFICES ASSUME Fits(n) PROVE FALSE
    BY <1>1, <1>2, <1>3 DEF Enque, TxLocal, windowVars, mrwVars
  <2>1. \A i \in new : i \in TxSlots /\ ~(i < TxUsed)
    BY <1>0 DEF Fits, TxSlots
  <2> QED
    BY <1>3, <2>1 DEF TxSound, WindowFilled, InWindow, IsSettled
<1> QED
  BY <1>1, <1>2, <1>3 DEF Enque, TxLocal, windowVars, mrwVars

\* A number whose timer runs stands for a PDU of the window to be settled.
LEMMA TimedSlot ==
    ASSUME IInv, TxSound
    PROVE  /\ \A sn \in pduTimer :
                 /\ sn \in Nat /\ sn - txFirst \in TxSlots
                 /\ InWindow(sn - txFirst) /\ ~IsSettled(sn - txFirst)
           /\ \A i \in TxSlots : InWindow(i) /\ ~IsSettled(i) => txFirst + i \in pduTimer
<1>1. txFirst \in Nat /\ TxW \in Nat
  BY WindowArithmetic, WindowAssumption DEF IInv
<1>2. ASSUME NEW sn \in pduTimer
      PROVE  /\ sn \in Nat /\ sn - txFirst \in TxSlots
             /\ InWindow(sn - txFirst) /\ ~IsSettled(sn - txFirst)
  <2>1. PICK i \in TxSlots : InWindow(i) /\ ~IsSettled(i) /\ sn = txFirst + i
    BY DEF TxSound, StaleEventsHarmless, TimersMatchWindow
  <2>2. sn \in Nat /\ sn - txFirst = i
    BY <1>1, <2>1 DEF TxSlots
  <2> QED
    BY <2>1, <2>2
<1>3. ASSUME NEW i \in TxSlots, InWindow(i), ~IsSettled(i)
      PROVE  txFirst + i \in pduTimer
  BY <1>3 DEF TxSound, StaleEventsHarmless, TimersMatchWindow
<1> QED
  BY <1>2, <1>3

\* It is enough that the timers which stop are those of the PDUs that are settled.
LEMMA TimersStopped ==
    ASSUME IInv, TxSound, UNCHANGED <<txFirst, txSeq>>,
           NEW stopped, pduTimer' = pduTimer \ {txFirst + i : i \in stopped},
           stopped \subseteq TxSlots,
           \A i \in TxSlots : IsSettled(i)' <=> IsSettled(i) \/ i \in stopped
    PROVE  TimersMatchWindow'
<1>0. txFirst \in Nat
  BY WindowArithmetic DEF IInv
<1>1. ASSUME NEW sn \in pduTimer'
      PROVE  \E i \in TxSlots : InWindow(i)' /\ ~IsSettled(i)' /\ sn = txFirst' + i
  <2>1. /\ sn - txFirst \in TxSlots /\ InWindow(sn - txFirst) /\ ~IsSettled(sn - txFirst)
        /\ sn = txFirst + (sn - txFirst) /\ sn - txFirst \notin stopped
    BY <1>0, TimedSlot
  <2> QED
    BY <2>1 DEF InWindow, TxUsed
<1>2. ASSUME NEW i \in TxSlots, InWindow(i)', ~IsSettled(i)'
      PROVE  txFirst' + i \in pduTimer'
  <2>1. InWindow(i) /\ ~IsSettled(i) /\ i \notin stopped
    BY <1>2 DEF InWindow, TxUsed
  <2>2. txFirst + i \in pduTimer
    BY <2>1, TimedSlot
  <2>3. \A j \in stopped : txFirst + j # txFirst + i
    BY <1>0, <2>1 DEF TxSlots
  <2> QED
    BY <2>2, <2>3
<1> QED
  BY <1>1, <1>2 DEF TimersMatchWindow

LEMMA DiscardSound ==
    ASSUME IInv, TxSound, NEW sn \in pduTimer, Discard(sn - txFirst, pduTimer \ {sn}),
           UNCHANGED <<txFirst, txSeq, rtx, tReceived, bufTimer, txErr>>
    PROVE  TxSound'
<1> DEFINE x == sn - txFirst
<1>0. /\ txFirst \in Nat /\ sn \in Nat /\ TxW \in Nat /\ TxUsed \in 0..(TxW - 1)
      /\ tDiscarded \in [TxSlots -> BOOLEAN]
  BY WindowArithmetic, TimedSlot, WindowAssumption DEF IInv, TypeOK, TxTypeOK
<1>1. x \in TxSlots /\ InWindow(x) /\ ~IsSettled(x) /\ sn = txFirst + x
  BY TimedSlot, <1>0
<1>2. \A i \in Group(x) : i \in TxSlots /\ InWindow(i)
  BY <1>0, <1>1 DEF Group, SameSdu, InWindow, TxSlots
<1>3. \A i \in TxSlots : tDiscarded'[i] <=> (tDiscarded[i] \/ i \in Group(x))
  BY DEF Discard
<1>4. \A i \in TxSlots : IsSettled(i)' <=> IsSettled(i) \/ i \in Group(x)
  BY <1>3 DEF IsSettled
<1>5. WindowFilled'
  BY <1>2, <1>4 DEF TxSound, WindowFilled, InWindow, TxUsed
<1>6. pduTimer' = pduTimer \ {txFirst + i : i \in Group(x)}
  <2>1. pduTimer' = (pduTimer \ {sn}) \ Stopped(x)
    BY DEF Discard
  <2>2. sn \in {txFirst + i : i \in Group(x)}
    BY <1>1 DEF Group
  <2>3. Stopped(x) \subseteq {txFirst + i : i \in Group(x)}
    BY DEF Stopped
  <2>4. ASSUME NEW i \in Group(x), txFirst + i \in pduTimer
        PROVE  txFirst + i \in Stopped(x)
    <3>1. (txFirst + i) - txFirst = i
      BY <1>0, <1>2 DEF TxSlots
    <3>2. ~tDiscarded[i]
      BY <2>4, <3>1, TimedSlot DEF IsSettled
    <3> QED
      BY <3>2 DEF Stopped
  <2> QED
    BY <2>1, <2>2, <2>3, <2>4
<1>7. TimersMatchWindow'
  <2>1. Group(x) \subseteq TxSlots
    BY <1>2
  <2> QED
    BY <1>4, <1>6, <2>1, TimersStopped
<1>8. TimedCommands'
  BY CheckForMrwTimed DEF Discard, IInv, TypeOK, TxSound
<1> QED
  BY <1>5, <1>7, <1>8 DEF TxSound, StaleEventsHarmless, TxNeverThrows

\* The copy goes back to the slot the PDU left, the first that is free.
LEMMA RetransmitInPlace ==
    ASSUME IInv, TxSound, NEW x \in TxSlots, InWindow(x), ~LastTry(x), Retransmit(x)
    PROVE  /\ \A i \in TxSlots : rtx'[i] # NoPdu <=> rtx[i] # NoPdu
           /\ rtx' = [rtx EXCEPT ![x] = [rtx[x] EXCEPT !.tx = @ + 1]]
<1> DEFINE p == [rtx[x] EXCEPT !.tx = @ + 1]
           removed == [rtx EXCEPT ![x] = NoPdu]
           free == CHOOSE i \in TxSlots :
               removed[i] = NoPdu /\ \A j \in 0..(i - 1) : removed[j] # NoPdu
<1>0. /\ TxW \in Nat /\ TxUsed \in 0..(TxW - 1) /\ x \in Nat
      /\ rtx \in [TxSlots -> DataPdu \cup {NoPdu}]
  BY WindowArithmetic, WindowAssumption DEF IInv, TypeOK, TxTypeOK, TxSlots
<1>1. \A i \in TxSlots : i < x => rtx[i] # NoPdu
  BY <1>0 DEF TxSound, WindowFilled, InWindow, TxSlots
<1>2. \A i \in TxSlots : removed[i] = IF i = x THEN NoPdu ELSE rtx[i]
  BY <1>0
<1>3. removed[x] = NoPdu /\ \A j \in 0..(x - 1) : removed[j] # NoPdu
  BY <1>0, <1>1, <1>2 DEF TxSlots
<1>4. ASSUME NEW i \in TxSlots,
             removed[i] = NoPdu, \A j \in 0..(i - 1) : removed[j] # NoPdu
      PROVE  i = x
  <2>1. ~(i < x)
    BY <1>1, <1>2, <1>4 DEF TxSlots
  <2>2. ~(x < i)
    BY <1>0, <1>3, <1>4 DEF TxSlots
  <2> QED
    BY <1>0, <2>1, <2>2 DEF TxSlots
<1>5. free = x
  <2> HIDE DEF removed
  <2> QED
    BY <1>3, <1>4
<1>6. rtx' = [removed EXCEPT ![free] = p]
  BY DEF Retransmit
<1>7. p # NoPdu
  <2>1. rtx[x] \in DataPdu
    BY <1>0 DEF TxSound, WindowFilled
  <2>2. p \in DataPdu
    BY <2>1, ParameterAssumption DEF DataPdu, LastTry
  <2> QED
    BY <2>2, NoPduAssumption
<1>8. rtx' = [rtx EXCEPT ![x] = p]
  BY <1>0, <1>5, <1>6
<1>9. rtx[x] # NoPdu
  BY DEF TxSound, WindowFilled
<1>10. \A i \in TxSlots : rtx'[i] # NoPdu <=> rtx[i] # NoPdu
  <2> HIDE DEF p
  <2> QED
    BY <1>0, <1>7, <1>8, <1>9
<1> QED
  BY <1>8, <1>10

LEMMA PduTimerSound ==
    ASSUME IInv, TxSound, NEW sn \in pduTimer, PduTimer(sn)
    PROVE  TxSound'
<1> DEFINE x == sn - txFirst
<1>1. x \in TxSlots /\ InWindow(x) /\ rtx[x] # NoPdu /\ ~tReceived[x]
  BY TimedSlot DEF TxSound, WindowFilled, IsSettled
<1>2. ~Broken(x)
  <2>1. \A i \in 0..(x - 1) : i \in TxSlots /\ InWindow(i)
    BY <1>1, WindowAssumption, WindowArithmetic DEF IInv, TxSlots, InWindow
  <2> QED
    BY <2>1 DEF Broken, TxSound, WindowFilled
<1>3. CASE /\ Discard(x, pduTimer \ {sn})
           /\ UNCHANGED <<txFirst, txSeq, rtx, tReceived, bufTimer>>
           /\ UNCHANGED <<nextSdu, dropped, txErr>>
  BY <1>3, DiscardSound
<1>4. CASE ~LastTry(x) /\ Retransmit(x) /\ UNCHANGED <<nextSdu, dropped, txErr>>
  <2>1. \A i \in TxSlots : rtx'[i] # NoPdu <=> rtx[i] # NoPdu
    BY <1>1, <1>4, RetransmitInPlace
  <2> QED
    BY <1>4, <2>1 DEF Retransmit, mrwVars, TxSound, WindowFilled, TimedCommands,
       StaleEventsHarmless, TxNeverThrows, TimersMatchWindow, IsSettled, InWindow, TxUsed
<1> QED
  BY <1>1, <1>2, <1>3, <1>4 DEF PduTimer

LEMMA MrwTimerSound ==
    ASSUME IInv, TxSound, NEW serial \in mrwTimer, MrwTimer(serial)
    PROVE  TxSound'
<1> DEFINE kept == {m \in mrwQ : m.serial = serial}
<1>1. kept # {}
  BY DEF TxSound, TimedCommands
<1>2. UNCHANGED <<windowVars, pduTimer, txErr>>
  BY <1>1 DEF MrwTimer
<1>3. TimedCommands'
  <2>1. CASE mrwQ' = mrwQ \ kept /\ mrwTimer' = mrwTimer \ {serial}
    BY <2>1 DEF TxSound, TimedCommands
  <2>2. CASE UNCHANGED <<mrwQ, mrwTimer>>
    BY <2>2 DEF TxSound, TimedCommands
  <2> QED
    BY <1>1, <2>1, <2>2 DEF MrwTimer
<1> QED
  BY <1>2, <1>3 DEF TxSound, windowVars, WindowFilled, StaleEventsHarmless,
     TxNeverThrows, TimersMatchWindow, IsSettled, InWindow, TxUsed

LEMMA BufferStatusTimerSound ==
    ASSUME IInv, TxSound, BufferStatusTimer
    PROVE  TxSound'
<1>1. TimedCommands'
  BY CheckForMrwTimed DEF BufferStatusTimer, IInv, TypeOK, TxSound
<1> QED
  BY <1>1 DEF BufferStatusTimer, TxSound, windowVars, WindowFilled, StaleEventsHarmless,
     TxNeverThrows, TimersMatchWindow, IsSettled, InWindow, TxUsed

\* An ACK that reports PDUs which were sent is not beyond the window.
LEMMA RecvAckSound ==
    ASSUME IInv, TxSound, NEW m \in AckPdu, m.last < txSeq,
           \A sn \in m.acked : sn < txSeq, RecvAck(m)
    PROVE  TxSound'
<1> DEFINE cum == m.last - txFirst
           cumulated == [i \in TxSlots |-> tReceived[i] \/ i <= cum]
           marked == [i \in TxSlots |-> cumulated[i] \/ txFirst + i \in m.acked]
           new == {j \in TxSlots : marked[j] /\ ~tReceived[j]}
<1>0. /\ txFirst \in Nat /\ txSeq \in Nat /\ TxW \in Nat /\ TxUsed \in 0..(TxW - 1)
      /\ TxUsed = txSeq - txFirst /\ m.last \in Int /\ m.acked \subseteq Nat
      /\ tReceived \in [TxSlots -> BOOLEAN]
  BY WindowArithmetic, WindowAssumption DEF IInv, TypeOK, TxTypeOK, AckPdu, TxUsed
<1>1. cum < TxW /\ \A sn \in m.acked : sn - txFirst < TxW
  BY <1>0
<1>2. /\ tReceived' = marked
      /\ pduTimer' = pduTimer \ {txFirst + i : i \in new}
      /\ \/ UNCHANGED <<mrwVars, txBuf>>
         \/ CheckForMrw(cumulated, tDiscarded, txBuf)
      /\ UNCHANGED <<txFirst, txSeq, rtx, tDiscarded, txErr>>
  <2>1. ~(cum >= TxW) /\ ~(\E sn \in m.acked : sn - txFirst >= TxW)
    BY <1>0, <1>1
  <2> QED
    BY <2>1 DEF RecvAck
<1>3. \A i \in TxSlots : tReceived'[i] <=> tReceived[i] \/ i \in new
  BY <1>0, <1>2
<1>4. \A i \in new : InWindow(i)
  <2> SUFFICES ASSUME NEW i \in TxSlots, i <= cum \/ txFirst + i \in m.acked
               PROVE  i < TxUsed
    BY DEF InWindow
  <2> QED
    BY <1>0 DEF TxSlots
<1>5. \A i \in TxSlots : IsSettled(i)' <=> IsSettled(i) \/ i \in new
  BY <1>2, <1>3 DEF IsSettled
<1>6. WindowFilled'
  <2> HIDE DEF new
  <2> QED
    BY <1>2, <1>4, <1>5 DEF TxSound, WindowFilled, InWindow, TxUsed
<1>7. TimersMatchWindow'
  <2>1. new \subseteq TxSlots
    OBVIOUS
  <2> HIDE DEF new
  <2> QED
    BY <1>2, <1>5, <2>1, TimersStopped
<1>8. TimedCommands'
  <2>1. CASE UNCHANGED mrwVars
    BY <2>1 DEF TxSound, TimedCommands, mrwVars
  <2>2. CASE CheckForMrw(cumulated, tDiscarded, txBuf)
    <3> HIDE DEF cumulated
    <3> QED
      BY <2>2, CheckForMrwTimed DEF IInv, TypeOK, TxSound
  <2> QED
    BY <1>2, <2>1, <2>2
<1> QED
  BY <1>2, <1>6, <1>7, <1>8 DEF TxSound, StaleEventsHarmless, TxNeverThrows

\* The answer to a forgotten command, or one that moves the window.
LEMMA RecvMrwAckSound ==
    ASSUME IInv, TxSound, NEW m \in MrwAckPdu, m.first <= rxFirst, RecvMrwAck(m)
    PROVE  TxSound'
<1> DEFINE pos == m.first - txFirst
<1>0. /\ txFirst \in Nat /\ txSeq \in Nat /\ TxW \in Nat /\ TxUsed \in 0..(TxW - 1)
      /\ TxUsed = txSeq - txFirst /\ m.first \in Nat /\ m.first <= txSeq
  BY WindowArithmetic, WindowAssumption
     DEF IInv, TypeOK, TxTypeOK, MrwAckPdu, TxUsed, WindowsTogether
<1>1. pos <= TxUsed /\ \A i \in TxSlots : rtx[i] # NoPdu <=> i < TxUsed
  BY <1>0 DEF TxSound, WindowFilled, InWindow
<1>2. ForgetMrw(m.serial) => TimedCommands'
  BY DEF TxSound, TimedCommands, ForgetMrw
<1>3. CASE ForgetMrw(m.serial) /\ UNCHANGED <<windowVars, pduTimer, txErr>>
  BY <1>2, <1>3 DEF TxSound, windowVars, WindowFilled, StaleEventsHarmless,
     TxNeverThrows, TimersMatchWindow, IsSettled, InWindow, TxUsed
<1>4. CASE /\ pos > 0 /\ pos <= TxUsed
           /\ txFirst' = txFirst + pos
           /\ rtx' = Shifted(rtx, pos, NoPdu)
           /\ tReceived' = Shifted(tReceived, pos, FALSE)
           /\ tDiscarded' = Shifted(tDiscarded, pos, FALSE)
           /\ pduTimer' = pduTimer \ (txFirst..(txFirst + pos - 1))
           /\ ForgetMrw(m.serial)
           /\ UNCHANGED <<txSeq, txErr>>
  <2>0. pos \in Nat /\ TxUsed' = TxUsed - pos /\ txFirst' \in Nat
    BY <1>0, <1>4 DEF TxUsed
  <2> HIDE DEF pos
  <2>1. \A i \in TxSlots : i + pos < TxUsed => i + pos \in TxSlots
    BY <1>0, <2>0 DEF TxSlots
  <2>2. \A i \in TxSlots : InWindow(i)' <=> i + pos < TxUsed
    BY <1>0, <2>0 DEF TxSlots, InWindow
  <2>3. \A i \in TxSlots : rtx'[i] # NoPdu <=> InWindow(i)'
    BY <1>1, <1>4, <2>1, <2>2 DEF Shifted
  <2>4. \A i \in TxSlots : IsSettled(i)' <=> i + pos < TxUsed /\ IsSettled(i + pos)
    BY <1>4 DEF Shifted, IsSettled
  <2>5. WindowFilled'
    BY <2>2, <2>3, <2>4 DEF WindowFilled
  <2>6. ASSUME NEW sn \in pduTimer'
        PROVE  \E i \in TxSlots : InWindow(i)' /\ ~IsSettled(i)' /\ sn = txFirst' + i
    <3>1. /\ sn \in Nat /\ sn - txFirst \in TxSlots /\ InWindow(sn - txFirst)
          /\ ~IsSettled(sn - txFirst) /\ sn \notin txFirst..(txFirst + pos - 1)
      BY <1>4, TimedSlot
    <3>2. PICK i \in TxSlots : i + pos = sn - txFirst /\ sn = txFirst' + i
      <4>1. /\ sn - txFirst' \in TxSlots /\ (sn - txFirst') + pos = sn - txFirst
            /\ sn = txFirst' + (sn - txFirst')
        BY <1>0, <1>4, <2>0, <3>1 DEF TxSlots
      <4> QED
        BY <4>1
    <3> QED
      BY <2>2, <2>4, <3>1, <3>2 DEF InWindow
  <2>7. ASSUME NEW i \in TxSlots, InWindow(i)', ~IsSettled(i)'
        PROVE  txFirst' + i \in pduTimer'
    <3>1. i + pos \in TxSlots /\ InWindow(i + pos) /\ ~IsSettled(i + pos)
      BY <2>1, <2>2, <2>4, <2>7 DEF InWindow
    <3>2. txFirst + (i + pos) \in pduTimer
      BY <3>1, TimedSlot
    <3>3. /\ txFirst' + i = txFirst + (i + pos)
          /\ txFirst' + i \notin txFirst..(txFirst + pos - 1)
      BY <1>0, <1>4, <2>0 DEF TxSlots
    <3> QED
      BY <1>4, <3>2, <3>3
  <2>8. TimersMatchWindow'
    BY <2>6, <2>7 DEF TimersMatchWindow
  <2> QED
    BY <1>2, <1>4, <2>5, <2>8 DEF TxSound, StaleEventsHarmless, TxNeverThrows
<1> QED
  <2>1. ~(/\ pos > 0
          /\ \/ pos > TxUsed
             \/ \E i \in TxSlots : (rtx[i] # NoPdu) # (i < TxUsed))
    BY <1>0, <1>1
  <2> HIDE DEF pos
  <2> QED
    BY <1>3, <1>4, <2>1 DEF RecvMrwAck, pos

-----------------------------------------------------------------------------
(* Acknowledgements are true.                                              *)

\* A PDU in the receiver's buffer lies at the slot of its number.
BufferInPlace ==
    \A i \in RxSlots : rBuf[i] # NoPdu =>
        rBuf[i].sno = rxFirst + i /\ rBuf[i].sno < txSeq

\* What an ACK reports, one by one or all up to its last, was sent and is held.
GoodAck(m) == m.type = "ACK" =>
    /\ m.last < txSeq
    /\ \A sn \in m.acked : sn < txSeq /\ Holds(sn)
    /\ \A sn \in 0..m.last : Holds(sn)

AcksAgree ==
    /\ \A k \in 1..Len(ctlBuf) : GoodAck(ctlBuf[k])
    /\ \A p \in CtlProcs : ctlAir[p] # NoPdu => GoodAck(ctlAir[p])

ReceivedIsHeld == \A i \in TxSlots : tReceived[i] => Holds(txFirst + i)

RxSound == ReceivedIsStored /\ BufferInPlace
AckSound == AcksAgree /\ ReceivedIsHeld

\* Nothing that was held is lost in the step, and no number is taken back.
HoldsOn == /\ \A sn \in Nat : Holds(sn) => Holds(sn)'
           /\ txSeq \in Nat /\ txSeq' \in Nat /\ txSeq <= txSeq'

LEMMA GoodAckStays ==
    ASSUME HoldsOn, NEW c \in AckPdu \cup MrwAckPdu, GoodAck(c)
    PROVE  GoodAck(c)'
<1>1. CASE c \in MrwAckPdu
  BY <1>1 DEF GoodAck, MrwAckPdu
<1>2. CASE c \in AckPdu
  <2>1. c.type = "ACK" /\ c.last \in Int /\ c.acked \subseteq Nat
    BY <1>2 DEF AckPdu
  <2>2. /\ c.last < txSeq' /\ \A sn \in c.acked : sn < txSeq'
    BY <2>1 DEF GoodAck, HoldsOn
  <2>3. \A sn \in c.acked : Holds(sn)'
    BY <2>1 DEF GoodAck, HoldsOn
  <2>4. \A sn \in 0..c.last : Holds(sn)'
    BY <2>1 DEF GoodAck, HoldsOn
  <2> QED
    BY <2>2, <2>3, <2>4 DEF GoodAck
<1> QED
  BY <1>1, <1>2

LEMMA AcksStay ==
    ASSUME TypeOK, AcksAgree, HoldsOn, CtlTaken,
           \/ UNCHANGED ctlBuf
           \/ \E c \in AckPdu \cup MrwAckPdu :
                 ctlBuf' = Append(ctlBuf, c) /\ GoodAck(c)'
    PROVE  AcksAgree'
<1> DEFINE Good(a) == a.type = "ACK" =>
                        /\ a.last < txSeq'
                        /\ \A sn \in a.acked : sn < txSeq' /\ Holds(sn)'
                        /\ \A sn \in 0..a.last : Holds(sn)'
<1>0. ctlBuf \in Seq(AckPdu \cup MrwAckPdu)
  BY DEF TypeOK, RxTypeOK
<1>1. \A c \in AckPdu \cup MrwAckPdu : GoodAck(c) => Good(c)
  BY GoodAckStays DEF GoodAck
<1>2. AcksAgree' <=> /\ \A k \in 1..Len(ctlBuf') : Good(ctlBuf'[k])
                     /\ \A p \in CtlProcs : ctlAir'[p] # NoPdu => Good(ctlAir'[p])
  BY DEF AcksAgree, GoodAck
<1>3. \/ UNCHANGED ctlBuf
      \/ \E c \in AckPdu \cup MrwAckPdu : ctlBuf' = Append(ctlBuf, c) /\ Good(c)
  BY DEF GoodAck
<1> HIDE DEF Good
<1>4. ASSUME NEW p \in CtlProcs, ctlAir'[p] # NoPdu
      PROVE  Good(ctlAir'[p])
  <2>1. ctlAir'[p] = ctlAir[p] /\ ctlAir[p] \in AckPdu \cup MrwAckPdu /\ GoodAck(ctlAir[p])
    BY <1>4 DEF CtlTaken, TypeOK, AcksAgree
  <2> QED
    BY <1>1, <2>1
<1>5. ASSUME NEW k \in 1..Len(ctlBuf)
      PROVE  Good(ctlBuf[k])
  <2>1. ctlBuf[k] \in AckPdu \cup MrwAckPdu /\ GoodAck(ctlBuf[k])
    BY <1>0 DEF AcksAgree
  <2> QED
    BY <1>1, <2>1
<1>6. ASSUME NEW k \in 1..Len(ctlBuf')
      PROVE  Good(ctlBuf'[k])
  <2>1. CASE UNCHANGED ctlBuf
    BY <1>5, <2>1
  <2>2. ASSUME NEW c \in AckPdu \cup MrwAckPdu, ctlBuf' = Append(ctlBuf, c), Good(c)
        PROVE  Good(ctlBuf'[k])
    <3>1. Len(ctlBuf) \in Nat /\ Len(ctlBuf') = Len(ctlBuf) + 1
      BY <1>0, <2>2
    <3>2. CASE k \in 1..Len(ctlBuf)
      <4>1. ctlBuf'[k] = ctlBuf[k]
        BY <1>0, <2>2, <3>2
      <4> QED
        BY <1>5, <3>2, <4>1
    <3>3. CASE k = Len(ctlBuf) + 1
      <4>1. ctlBuf'[k] = c
        BY <1>0, <2>2, <3>3
      <4> QED
        BY <2>2, <4>1
    <3> QED
      BY <3>1, <3>2, <3>3
  <2> QED
    BY <1>3, <2>1, <2>2
<1> QED
  BY <1>2, <1>4, <1>6

\* What the status report says is what the buffer holds after the event.
LEMMA ReportGood ==
    ASSUME IInv, UNCHANGED <<rxFirst, txSeq>>, ReceivedIsStored', BufferInPlace',
           NEW received, \A i \in RxSlots : received[i] => rReceived'[i],
           SendStatusReport(received)
    PROVE  \/ UNCHANGED ctlBuf
           \/ \E c \in AckPdu \cup MrwAckPdu :
                 ctlBuf' = Append(ctlBuf, c) /\ GoodAck(c)'
<1>0. rxFirst \in Nat /\ txSeq \in Nat /\ rxFirst <= txSeq /\ RxW \in Nat
  BY WindowArithmetic, WindowAssumption DEF IInv, WindowsTogether
<1>1. CASE UNCHANGED <<ctlBuf, ackReady>>
  BY <1>1
<1>2. CASE \E c \in 0..RxW :
             /\ Cumulative(c, received)
             /\ ctlBuf' = Append(ctlBuf,
                  Ack(rxFirst + c - 1,
                      {rxFirst + i : i \in {j \in c..(RxW - 1) : received[j]}}))
  <2>1. PICK c \in 0..RxW :
             /\ Cumulative(c, received)
             /\ ctlBuf' = Append(ctlBuf,
                  Ack(rxFirst + c - 1,
                      {rxFirst + i : i \in {j \in c..(RxW - 1) : received[j]}}))
    BY <1>2
  <2>2. PICK bits : bits = {rxFirst + i : i \in {j \in c..(RxW - 1) : received[j]}}
    OBVIOUS
  <2>3. \A i \in RxSlots : received[i] => Holds(rxFirst + i)' /\ rxFirst + i < txSeq
    <3> SUFFICES ASSUME NEW i \in RxSlots, received[i]
                 PROVE  Holds(rxFirst + i)' /\ rxFirst + i < txSeq
      OBVIOUS
    <3>1. rBuf'[i] # NoPdu /\ rBuf'[i].sno = rxFirst' + i /\ rBuf'[i].sno < txSeq'
      BY DEF ReceivedIsStored, BufferInPlace
    <3>2. (rxFirst + i) - rxFirst = i
      BY <1>0 DEF RxSlots
    <3> QED
      BY <3>1, <3>2 DEF Holds
  <2>4. \A sn \in bits : sn < txSeq /\ Holds(sn)'
    BY <2>2, <2>3 DEF RxSlots
  <2>5. \A i \in 0..(c - 1) : i \in RxSlots /\ received[i]
    BY <2>1, <1>0 DEF Cumulative, RxSlots
  <2>6. ASSUME NEW sn \in 0..(rxFirst + c - 1)
        PROVE  Holds(sn)'
    <3>1. CASE sn < rxFirst
      BY <3>1 DEF Holds
    <3>2. CASE ~(sn < rxFirst)
      <4>1. sn - rxFirst \in 0..(c - 1) /\ rxFirst + (sn - rxFirst) = sn
        BY <1>0, <3>2
      <4> QED
        BY <2>3, <2>5, <4>1
    <3> QED
      BY <3>1, <3>2
  <2>7. rxFirst + c - 1 < txSeq
    <3>1. CASE c = 0
      BY <1>0, <3>1
    <3>2. CASE c # 0
      <4>1. c - 1 \in 0..(c - 1)
        BY <3>2
      <4>2. rxFirst + (c - 1) < txSeq
        BY <2>3, <2>5, <4>1
      <4> QED
        BY <1>0, <4>2
    <3> QED
      BY <3>1, <3>2
  <2>8. rxFirst + c - 1 \in Int /\ bits \in SUBSET Nat
    BY <1>0, <2>2
  <2>9. PICK a : a = Ack(rxFirst + c - 1, bits)
    OBVIOUS
  <2>10. a \in AckPdu /\ a.last = rxFirst + c - 1 /\ a.acked = bits
    BY <2>8, <2>9 DEF Ack, AckPdu
  <2>11. GoodAck(a)'
    BY <2>4, <2>6, <2>7, <2>10 DEF GoodAck
  <2> QED
    BY <2>1, <2>2, <2>9, <2>10, <2>11
<1> QED
  BY <1>1, <1>2 DEF SendStatusReport

\* What the receiver adds to the PDUs on their way back.
ReportsWell ==
    \/ UNCHANGED ctlBuf
    \/ \E c \in AckPdu \cup MrwAckPdu : ctlBuf' = Append(ctlBuf, c) /\ GoodAck(c)'

LEMMA StoreKeepsPlace ==
    ASSUME IInv, BufferInPlace, NEW p \in DataPdu, p.sno < txSeq,
           UNCHANGED <<rxFirst, txSeq>>,
           \/ UNCHANGED rBuf
           \/ /\ p.sno - rxFirst \in RxSlots
              /\ rBuf' = [rBuf EXCEPT ![p.sno - rxFirst] = p]
    PROVE  BufferInPlace' /\ HoldsOn
<1>0. /\ rxFirst \in Nat /\ txSeq \in Nat /\ p.sno \in Nat /\ p # NoPdu
      /\ rBuf \in [RxSlots -> DataPdu \cup {NoPdu}]
  BY WindowArithmetic, NoPduAssumption DEF IInv, TypeOK, RxTypeOK, DataPdu
<1>1. CASE UNCHANGED rBuf
  BY <1>0, <1>1 DEF BufferInPlace, HoldsOn, Holds
<1>2. CASE /\ p.sno - rxFirst \in RxSlots
           /\ rBuf' = [rBuf EXCEPT ![p.sno - rxFirst] = p]
  <2>1. \A i \in RxSlots : rBuf'[i] = IF i = p.sno - rxFirst THEN p ELSE rBuf[i]
    BY <1>0, <1>2
  <2>2. p.sno = rxFirst + (p.sno - rxFirst)
    BY <1>0
  <2>3. BufferInPlace'
    BY <2>1, <2>2 DEF BufferInPlace
  <2>4. \A sn \in Nat : Holds(sn) => Holds(sn)'
    BY <1>0, <2>1 DEF Holds
  <2> QED
    BY <1>0, <2>3, <2>4 DEF HoldsOn
<1> QED
  BY <1>1, <1>2

LEMMA RecvDataSound ==
    ASSUME IInv, RxSound, NEW p \in DataPdu, p.sno < txSeq, RecvData(p),
           UNCHANGED txVars
    PROVE  RxSound' /\ HoldsOn /\ ReportsWell
<1> DEFINE x == p.sno - rxFirst
           received == [rReceived EXCEPT ![x] = TRUE]
<1>0. /\ rReceived \in [RxSlots -> BOOLEAN] /\ rxFirst \in Nat /\ p.sno \in Nat
      /\ UNCHANGED txSeq
  BY DEF IInv, TypeOK, RxTypeOK, DataPdu, txVars, windowVars
<1>1. ReceivedIsStored'
  BY RecvDataStores DEF RxSound
<1>2. /\ UNCHANGED rxFirst
      /\ \/ UNCHANGED <<rBuf, rReceived>>
         \/ /\ x \in RxSlots
            /\ rBuf' = [rBuf EXCEPT ![x] = p]
            /\ rReceived' = received
      /\ \/ UNCHANGED ctlBuf
         \/ SendStatusReport(rReceived)
         \/ rReceived' = received /\ SendStatusReport(received)
  <2>1. \A e : RxThrow(e) => UNCHANGED <<rBuf, rReceived, rxFirst, ctlBuf>>
    BY DEF RxThrow, bufferVars
  <2>2. Noted(p) => UNCHANGED rxFirst
    BY DEF Noted
  <2>3. EarlyReport(p) => UNCHANGED ctlBuf \/ SendStatusReport(rReceived)
    BY DEF EarlyReport
  <2>4. SendStatusReport(IF p.sno # rxSeq THEN rReceived ELSE received)
          => SendStatusReport(rReceived) \/ SendStatusReport(received)
    BY DEF received
  <2>5. x \in RxSlots /\ StoreData(p) =>
          \/ UNCHANGED <<rBuf, rReceived, rxFirst, ctlBuf>>
          \/ /\ UNCHANGED rxFirst
             /\ rBuf' = [rBuf EXCEPT ![x] = p] /\ rReceived' = received
             /\ \/ UNCHANGED ctlBuf
                \/ SendStatusReport(rReceived) \/ SendStatusReport(received)
    <3> HIDE DEF received
    <3> QED
      BY <2>1, <2>2, <2>3, <2>4 DEF StoreData, received
  <2> HIDE DEF received, x
  <2> QED
    BY <2>1, <2>2, <2>3, <2>5 DEF RecvData, bufferVars, x
<1>3. BufferInPlace' /\ HoldsOn
  BY <1>0, <1>2, StoreKeepsPlace DEF RxSound
<1>4. ASSUME NEW flags, SendStatusReport(flags),
             \A i \in RxSlots : flags[i] => rReceived'[i]
      PROVE  ReportsWell
  <2>1. UNCHANGED <<rxFirst, txSeq>>
    BY <1>0, <1>2
  <2> QED
    BY <1>1, <1>3, <1>4, <2>1, ReportGood DEF ReportsWell
<1>5. \A i \in RxSlots : rReceived[i] => rReceived'[i]
  BY <1>0, <1>2
<1>6. ReportsWell
  BY <1>2, <1>4, <1>5 DEF ReportsWell
<1> QED
  BY <1>1, <1>3, <1>6 DEF RxSound

LEMMA RecvMrwSound ==
    ASSUME RxW >= 2 * (TxW - 1),
           IInv, RxSound, NEW m \in MrwPdu, SettledBelow(m.target), RecvMrw(m),
           UNCHANGED txVars
    PROVE  RxSound' /\ HoldsOn /\ ReportsWell
<1> DEFINE start == rxFirst + (IF m.target - rxFirst > 0 THEN m.target - rxFirst ELSE 0)
<1>0. /\ rxFirst \in Nat /\ m.target \in Nat /\ RxW \in Nat /\ m.serial \in Nat
      /\ txSeq \in Nat /\ UNCHANGED txSeq
      /\ rBuf \in [RxSlots -> DataPdu \cup {NoPdu}]
  BY WindowArithmetic, WindowAssumption
     DEF IInv, MrwPdu, TypeOK, RxTypeOK, txVars, windowVars
<1>1. ReceivedIsStored'
  BY RecvMrwStores DEF RxSound
<1>2. ReportsWell
  <2>1. CASE UNCHANGED ctlBuf
    BY <2>1 DEF ReportsWell
  <2>2. CASE ctlBuf' = Append(ctlBuf, MrwAck(m.serial, start))
    <3>1. PICK a : a = MrwAck(m.serial, start)
      OBVIOUS
    <3>2. start \in Nat
      BY <1>0
    <3>3. a \in MrwAckPdu /\ a.type = "MRW_ACK"
      BY <1>0, <3>1, <3>2 DEF MrwAck, MrwAckPdu
    <3> QED
      BY <2>2, <3>1, <3>3 DEF ReportsWell, GoodAck
  <2>3. \A e : RxThrow(e) => UNCHANGED ctlBuf
    BY DEF RxThrow
  <2> QED
    BY <2>1, <2>2, <2>3 DEF RecvMrw
<1>3. CASE UNCHANGED <<rBuf, rxFirst>>
  <2>1. BufferInPlace' /\ HoldsOn
    BY <1>0, <1>3 DEF RxSound, BufferInPlace, HoldsOn, Holds
  <2> QED
    BY <1>1, <1>2, <2>1 DEF RxSound
<1>4. ASSUME NEW pos \in Nat, rxFirst' = rxFirst + pos, rBuf' = ShiftedPdus(pos)
      PROVE  BufferInPlace' /\ HoldsOn
  <2>1. \A i \in RxSlots : rBuf'[i] = IF i + pos < RxW THEN rBuf[i + pos] ELSE NoPdu
    BY <1>4 DEF ShiftedPdus
  <2>2. \A i \in RxSlots : i + pos < RxW => i + pos \in RxSlots
    BY <1>0 DEF RxSlots
  <2>3. \A i \in RxSlots : rxFirst' + i = rxFirst + (i + pos)
    BY <1>0, <1>4 DEF RxSlots
  <2>4. BufferInPlace'
    BY <1>0, <2>1, <2>2, <2>3 DEF RxSound, BufferInPlace
  <2>5. ASSUME NEW sn \in Nat, Holds(sn)
        PROVE  Holds(sn)'
    <3>1. CASE sn < rxFirst'
      BY <3>1 DEF Holds
    <3>2. CASE ~(sn < rxFirst')
      <4>1. sn - rxFirst \in RxSlots /\ rBuf[sn - rxFirst] # NoPdu
        BY <1>0, <1>4, <2>5, <3>2 DEF Holds
      <4>2. /\ sn - rxFirst' \in RxSlots
            /\ (sn - rxFirst') + pos = sn - rxFirst
            /\ (sn - rxFirst') + pos < RxW
        BY <1>0, <1>4, <3>2, <4>1 DEF RxSlots
      <4> QED
        BY <2>1, <4>1, <4>2 DEF Holds
    <3> QED
      BY <3>1, <3>2
  <2> QED
    BY <1>0, <2>4, <2>5 DEF HoldsOn
<1>5. CASE /\ m.target - rxFirst > 0
           /\ rxFirst' = rxFirst + (m.target - rxFirst)
           /\ rBuf' = ShiftedPdus(m.target - rxFirst)
  <2>1. m.target - rxFirst \in Nat
    BY <1>0, <1>5
  <2> QED
    BY <1>1, <1>2, <1>4, <1>5, <2>1 DEF RxSound
<1>6. \A e : RxThrow(e) => UNCHANGED <<rBuf, rxFirst>>
  BY DEF RxThrow, bufferVars
<1>7. /\ m.target - rxFirst <= 0 => rxFirst + 0 = rxFirst
      /\ m.target - rxFirst <= 0 \/ m.target - rxFirst > 0
      /\ ~(m.target - rxFirst <= 0 /\ m.target - rxFirst > 0)
  BY <1>0
<1> QED
  BY <1>3, <1>5, <1>6, <1>7 DEF RecvMrw, bufferVars

LEMMA HeldStays ==
    ASSUME IInv, ReceivedIsHeld, HoldsOn, UNCHANGED <<txFirst, tReceived>>
    PROVE  ReceivedIsHeld'
<1>1. \A i \in TxSlots : txFirst + i \in Nat
  BY WindowArithmetic DEF IInv, TxSlots
<1> QED
  BY <1>1 DEF ReceivedIsHeld, HoldsOn, Holds

TruthInv == RxSound /\ AckSound /\ TxSound

\* A step of the transmitter alone that marks nothing received.
LEMMA TxStepTruth ==
    ASSUME IInv, TruthInv, TxSound', CtlTaken, UNCHANGED <<rxVars, txFirst, tReceived>>,
           txSeq' \in Nat, txSeq <= txSeq'
    PROVE  TruthInv'
<1>0. UNCHANGED <<rBuf, rReceived, rxFirst, ctlBuf>>
  BY DEF rxVars, bufferVars
<1>1. txSeq \in Nat /\ rxFirst \in Nat /\ rBuf \in [RxSlots -> DataPdu \cup {NoPdu}]
  BY DEF IInv, TypeOK, TxTypeOK, RxTypeOK
<1>2. HoldsOn
  BY <1>0, <1>1 DEF HoldsOn, Holds
<1>3. RxSound'
  <2>1. \A i \in RxSlots : rBuf[i] # NoPdu => rBuf[i].sno < txSeq'
    <3> SUFFICES ASSUME NEW i \in RxSlots, rBuf[i] # NoPdu PROVE rBuf[i].sno < txSeq'
      OBVIOUS
    <3>1. rBuf[i].sno = rxFirst + i /\ rBuf[i].sno < txSeq /\ rxFirst + i \in Nat
      BY <1>1 DEF TruthInv, RxSound, BufferInPlace, RxSlots
    <3> QED
      BY <1>1, <3>1
  <2> QED
    BY <1>0, <2>1 DEF TruthInv, RxSound, ReceivedIsStored, BufferInPlace
<1>4. AcksAgree'
  BY <1>0, <1>2, AcksStay DEF IInv, TruthInv, AckSound
<1>5. ReceivedIsHeld'
  BY <1>2, HeldStays DEF TruthInv, AckSound
<1> QED
  BY <1>3, <1>4, <1>5 DEF TruthInv, AckSound

LEMMA RecvAckTruth ==
    ASSUME IInv, TruthInv, NEW m \in AckPdu, GoodAck(m), RecvAck(m),
           UNCHANGED rxVars, CtlTaken
    PROVE  TruthInv'
<1> DEFINE cum == m.last - txFirst
           cumulated == [i \in TxSlots |-> tReceived[i] \/ i <= cum]
           marked == [i \in TxSlots |-> cumulated[i] \/ txFirst + i \in m.acked]
<1>0. /\ txFirst \in Nat /\ txSeq \in Nat /\ m.last \in Int /\ m.acked \subseteq Nat
      /\ m.type = "ACK" /\ UNCHANGED <<rBuf, rReceived, rxFirst, ctlBuf>>
  BY DEF IInv, TypeOK, TxTypeOK, AckPdu, rxVars, bufferVars
<1>1. TxSound'
  BY <1>0, RecvAckSound DEF TruthInv, GoodAck
<1>2. UNCHANGED <<txFirst, txSeq>> /\ (tReceived' = marked \/ UNCHANGED tReceived)
  BY DEF RecvAck, TxThrow, windowVars
<1>3. HoldsOn
  BY <1>0, <1>2 DEF HoldsOn, Holds
<1>4. RxSound'
  BY <1>0, <1>2 DEF TruthInv, RxSound, ReceivedIsStored, BufferInPlace
<1>5. AcksAgree'
  BY <1>0, <1>3, AcksStay DEF IInv, TruthInv, AckSound
<1>6. ReceivedIsHeld'
  <2>1. CASE UNCHANGED tReceived
    BY <1>2, <1>3, <2>1, HeldStays DEF TruthInv, AckSound
  <2>2. CASE tReceived' = marked
    <3> SUFFICES ASSUME NEW i \in TxSlots,
                        tReceived[i] \/ i <= cum \/ txFirst + i \in m.acked
                 PROVE  Holds(txFirst + i)
      BY <1>0, <1>2, <2>2 DEF ReceivedIsHeld, Holds
    <3>1. CASE tReceived[i]
      BY <3>1 DEF TruthInv, AckSound, ReceivedIsHeld
    <3>2. CASE i <= cum
      <4>1. txFirst + i \in 0..m.last
        BY <1>0, <3>2 DEF TxSlots
      <4> QED
        BY <1>0, <4>1 DEF GoodAck
    <3>3. CASE txFirst + i \in m.acked
      BY <1>0, <3>3 DEF GoodAck
    <3> QED
      BY <3>1, <3>2, <3>3
  <2> QED
    BY <1>2, <2>1, <2>2
<1> QED
  BY <1>1, <1>4, <1>5, <1>6 DEF TruthInv, AckSound

LEMMA RecvMrwAckTruth ==
    ASSUME IInv, TruthInv, NEW m \in MrwAckPdu, m.first <= rxFirst, RecvMrwAck(m),
           UNCHANGED rxVars, CtlTaken
    PROVE  TruthInv'
<1>0. /\ txFirst \in Nat /\ txSeq \in Nat /\ m.first \in Nat /\ TxW \in Nat
      /\ TxUsed \in 0..(TxW - 1) /\ UNCHANGED <<rBuf, rReceived, rxFirst, ctlBuf>>
  BY WindowArithmetic, WindowAssumption
     DEF IInv, TypeOK, TxTypeOK, MrwAckPdu, rxVars, bufferVars
<1>1. TxSound'
  BY RecvMrwAckSound DEF TruthInv
<1>2. txSeq' = txSeq
  BY DEF RecvMrwAck, TxThrow, windowVars
<1>3. HoldsOn
  BY <1>0, <1>2 DEF HoldsOn, Holds
<1>4. RxSound'
  BY <1>0, <1>2 DEF TruthInv, RxSound, ReceivedIsStored, BufferInPlace
<1>5. AcksAgree'
  BY <1>0, <1>3, AcksStay DEF IInv, TruthInv, AckSound
<1>6. ReceivedIsHeld'
  <2>1. CASE UNCHANGED <<txFirst, tReceived>>
    BY <1>3, <2>1, HeldStays DEF TruthInv, AckSound
  <2>2. ASSUME NEW pos \in Nat, txFirst' = txFirst + pos,
               tReceived' = Shifted(tReceived, pos, FALSE)
        PROVE  ReceivedIsHeld'
    <3> SUFFICES ASSUME NEW i \in TxSlots, tReceived'[i]
                 PROVE  Holds(txFirst' + i)
      BY <1>0 DEF ReceivedIsHeld, Holds
    <3>1. i + pos < TxUsed /\ tReceived[i + pos]
      BY <2>2 DEF Shifted
    <3>2. i + pos \in TxSlots /\ txFirst' + i = txFirst + (i + pos)
      BY <1>0, <2>2, <3>1 DEF TxSlots
    <3> QED
      BY <3>1, <3>2 DEF TruthInv, AckSound, ReceivedIsHeld
  <2>3. CASE /\ m.first - txFirst > 0
             /\ txFirst' = txFirst + (m.first - txFirst)
             /\ tReceived' = Shifted(tReceived, m.first - txFirst, FALSE)
    <3>1. m.first - txFirst \in Nat
      BY <1>0, <2>3
    <3> QED
      BY <2>2, <2>3, <3>1
  <2> QED
    BY <2>1, <2>3 DEF RecvMrwAck, TxThrow, windowVars
<1> QED
  BY <1>1, <1>4, <1>5, <1>6 DEF TruthInv, AckSound

LEMMA SendCtlTruth ==
    ASSUME IInv, TruthInv, NEW p \in CtlProcs, SendCtl(p)
    PROVE  AcksAgree'
<1>0. UNCHANGED <<txSeq, rxFirst, rBuf>>
  BY DEF SendCtl, txVars, windowVars, bufferVars
<1>1. ctlBuf \in Seq(AckPdu \cup MrwAckPdu) /\ ctlBuf # <<>> /\ ctlBuf' = Tail(ctlBuf)
  BY DEF SendCtl, IInv, TypeOK, RxTypeOK
<1>2. Len(ctlBuf) \in Nat \ {0} /\ Head(ctlBuf) = ctlBuf[1]
  BY <1>1, EmptySeq
<1>3. GoodAck(Head(ctlBuf))
  BY <1>2 DEF TruthInv, AckSound, AcksAgree
<1>4. /\ Len(ctlBuf') = Len(ctlBuf) - 1
      /\ \A k \in 1..Len(ctlBuf') : ctlBuf'[k] = ctlBuf[k + 1]
  BY <1>1, <1>2
<1>5. \A k \in 1..Len(ctlBuf') : k + 1 \in 1..Len(ctlBuf)
  BY <1>2, <1>4
<1>6. \A q \in CtlProcs : ctlAir'[q] = IF q = p THEN Head(ctlBuf) ELSE ctlAir[q]
  BY DEF SendCtl, IInv, TypeOK
<1> QED
  BY <1>0, <1>3, <1>4, <1>5, <1>6 DEF TruthInv, AckSound, AcksAgree, GoodAck, Holds

LEMMA InitTruth == Init => TruthInv
<1> SUFFICES ASSUME Init PROVE TruthInv
  OBVIOUS
<1>1. RxSound /\ ReceivedIsHeld
  BY DEF Init, TxInit, RxInit, RxSound, ReceivedIsStored, BufferInPlace, ReceivedIsHeld
<1>2. AcksAgree
  BY EmptySeq DEF Init, RxInit, AcksAgree
<1>3. TxSound
  BY WindowAssumption DEF Init, TxInit, TxSound, WindowFilled, TimedCommands,
     StaleEventsHarmless, TxNeverThrows, TimersMatchWindow, IsSettled, InWindow,
     TxUsed, TxSlots
<1> QED
  BY <1>1, <1>2, <1>3 DEF TruthInv, AckSound

LEMMA NextTruth ==
    ASSUME RxW >= 2 * (TxW - 1), IInv, TruthInv, [Next]_vars
    PROVE  TruthInv'
<1>0. TypeOK /\ txSeq \in Nat /\ txFirst \in Nat /\ rxFirst \in Nat
  BY DEF IInv, TypeOK, TxTypeOK, RxTypeOK
<1>1. CASE \/ \E n \in SduFrags : AtTx(Enque(n))
           \/ \E sn \in pduTimer : AtTx(PduTimer(sn))
           \/ \E serial \in mrwTimer : AtTx(MrwTimer(serial))
           \/ AtTx(BufferStatusTimer)
  <2>1. CtlTaken /\ UNCHANGED rxVars
    BY <1>1 DEF AtTx, chanVars, CtlTaken
  <2>2. UNCHANGED <<txFirst, tReceived>> /\ txSeq' \in Nat /\ txSeq <= txSeq'
    <3>1. \A e : TxThrow(e) => UNCHANGED <<txFirst, tReceived, txSeq>>
      BY DEF TxThrow, windowVars
    <3>2. \A n \in SduFrags : Enque(n) =>
            /\ UNCHANGED <<txFirst, tReceived>>
            /\ txSeq' = txSeq \/ txSeq' = txSeq + n
      BY <3>1 DEF Enque, windowVars
    <3>3. \A n \in SduFrags : n \in Nat
      BY ParameterAssumption
    <3>4. \/ \E n \in SduFrags : Enque(n)
          \/ UNCHANGED <<txFirst, tReceived, txSeq>>
      BY <1>1, <3>1 DEF AtTx, PduTimer, Retransmit, MrwTimer, BufferStatusTimer,
         windowVars
    <3> QED
      BY <1>0, <3>2, <3>3, <3>4
  <2>3. TxSound'
    BY <1>1, EnqueSound, PduTimerSound, MrwTimerSound, BufferStatusTimerSound
       DEF AtTx, TruthInv
  <2> QED
    BY <2>1, <2>2, <2>3, TxStepTruth
<1>2. ASSUME RxSound', HoldsOn, CtlTaken, ReportsWell, UNCHANGED txVars
      PROVE  TruthInv'
  <2>1. AcksAgree'
    BY <1>0, <1>2, AcksStay DEF TruthInv, AckSound, ReportsWell
  <2>2. ReceivedIsHeld'
    BY <1>2, HeldStays DEF TruthInv, AckSound, txVars, windowVars
  <2>3. TxSound'
    BY <1>2, TxSoundStays DEF TruthInv, TxLocal, txVars, mrwVars
  <2> QED
    BY <1>2, <2>1, <2>2, <2>3 DEF TruthInv, AckSound
<1>3. UNCHANGED <<rxFirst, rBuf, rReceived, txSeq>> => RxSound' /\ HoldsOn
  BY <1>0 DEF TruthInv, RxSound, ReceivedIsStored, BufferInPlace, HoldsOn, Holds
<1>4. CASE AtRx(StatusTimer) \/ AtRx(AckInterval)
  <2>1. /\ UNCHANGED <<txVars, rxFirst, rBuf, rReceived, txSeq, txFirst>> /\ CtlTaken
        /\ UNCHANGED ctlBuf \/ SendStatusReport(rReceived)
    BY <1>4 DEF AtRx, chanVars, CtlTaken, StatusTimer, AckInterval, bufferVars,
       txVars, windowVars
  <2>2. RxSound' /\ HoldsOn
    BY <1>3, <2>1
  <2>3. ReportsWell
    <3>1. CASE UNCHANGED ctlBuf
      BY <3>1 DEF ReportsWell
    <3>2. CASE SendStatusReport(rReceived)
      <4>1. \A i \in RxSlots : rReceived[i] => rReceived'[i]
        BY <2>1
      <4> QED
        BY <2>1, <2>2, <3>2, <4>1, ReportGood DEF ReportsWell, RxSound
    <3> QED
      BY <2>1, <3>1, <3>2
  <2> QED
    BY <1>2, <2>1, <2>2, <2>3
<1>5. ASSUME NEW p \in Procs, SendPdu(p) \/ DeliverPdu(p) \/ Lose(p)
      PROVE  TruthInv'
  <2>1. CASE SendPdu(p)
    <3>1. /\ UNCHANGED <<rxFirst, rBuf, rReceived, txSeq, ctlBuf, ctlAir, txFirst,
                         tReceived>>
          /\ UNCHANGED TxLocal
      BY <2>1 DEF SendPdu, rxVars, bufferVars, windowVars, TxLocal, mrwVars
    <3>2. RxSound' /\ HoldsOn /\ CtlTaken
      BY <1>3, <3>1 DEF CtlTaken
    <3>3. AcksAgree' /\ ReceivedIsHeld'
      BY <1>0, <3>1, <3>2, AcksStay, HeldStays DEF TruthInv, AckSound
    <3>4. TxSound'
      BY <3>1, TxSoundStays DEF TruthInv
    <3> QED
      BY <3>2, <3>3, <3>4 DEF TruthInv, AckSound
  <2>2. CASE DeliverPdu(p)
    <3>1. UNCHANGED <<txVars, ctlAir>> /\ CtlTaken /\ air[p] # NoPdu /\ GoodPdu(air[p])
      BY <2>2 DEF DeliverPdu, CtlTaken, IInv, PdusAgree, AirAgree
    <3>2. CASE air[p].type = "DATA" /\ RecvData(air[p])
      <4>1. air[p] \in DataPdu /\ air[p].sno < txSeq
        BY <1>0, <3>1, <3>2, PduUnderWay DEF GoodPdu
      <4> QED
        BY <1>2, <3>1, <3>2, <4>1, RecvDataSound DEF TruthInv
    <3>3. CASE air[p].type = "MRW" /\ RecvMrw(air[p])
      <4>1. air[p] \in MrwPdu /\ SettledBelow(air[p].target)
        BY <1>0, <3>1, <3>3, PduUnderWay DEF GoodPdu
      <4> QED
        BY <1>2, <3>1, <3>3, <4>1, RecvMrwSound DEF TruthInv
    <3> QED
      BY <2>2, <3>2, <3>3 DEF DeliverPdu
  <2>3. CASE Lose(p)
    <3>1. /\ UNCHANGED <<txVars, rxFirst, rBuf, rReceived, txSeq, ctlBuf, ctlAir>>
          /\ CtlTaken
      BY <2>3 DEF Lose, rxVars, bufferVars, txVars, windowVars, CtlTaken
    <3> QED
      BY <1>2, <1>3, <3>1 DEF ReportsWell
  <2> QED
    BY <1>5, <2>1, <2>2, <2>3
<1>6. ASSUME NEW p \in CtlProcs, SendCtl(p) \/ DeliverCtl(p) \/ LoseCtl(p)
      PROVE  TruthInv'
  <2>1. CASE SendCtl(p)
    <3>1. UNCHANGED <<txVars, rxFirst, rBuf, rReceived, txSeq, txFirst, tReceived>>
      BY <2>1 DEF SendCtl, bufferVars, txVars, windowVars
    <3>2. RxSound' /\ HoldsOn
      BY <1>3, <3>1
    <3>3. AcksAgree' /\ ReceivedIsHeld'
      BY <2>1, <3>1, <3>2, SendCtlTruth, HeldStays DEF TruthInv, AckSound
    <3>4. TxSound'
      BY <3>1, TxSoundStays DEF TruthInv, TxLocal, txVars, mrwVars
    <3> QED
      BY <3>2, <3>3, <3>4 DEF TruthInv, AckSound
  <2>2. CASE DeliverCtl(p)
    <3>1. /\ UNCHANGED rxVars /\ CtlTaken /\ ctlAir[p] # NoPdu
          /\ GoodCtl(ctlAir[p]) /\ GoodAck(ctlAir[p])
      BY <1>0, <2>2 DEF DeliverCtl, CtlTaken, IInv, PdusAgree, AnswersAgree,
         TruthInv, AckSound, AcksAgree, TypeOK
    <3>2. CASE ctlAir[p].type = "ACK" /\ RecvAck(ctlAir[p])
      <4>1. ctlAir[p] \in AckPdu
        BY <1>0, <3>1, <3>2, CtlUnderWay
      <4> QED
        BY <3>1, <3>2, <4>1, RecvAckTruth
    <3>3. CASE ctlAir[p].type = "MRW_ACK" /\ RecvMrwAck(ctlAir[p])
      <4>1. ctlAir[p] \in MrwAckPdu /\ ctlAir[p].first <= rxFirst
        BY <1>0, <3>1, <3>3, CtlUnderWay DEF GoodCtl
      <4> QED
        BY <3>1, <3>3, <4>1, RecvMrwAckTruth
    <3> QED
      BY <2>2, <3>2, <3>3 DEF DeliverCtl
  <2>3. CASE LoseCtl(p)
    <3>1. /\ UNCHANGED <<txVars, rxFirst, rBuf, rReceived, txSeq, ctlBuf>> /\ CtlTaken
      BY <1>0, <2>3 DEF LoseCtl, rxVars, bufferVars, txVars, windowVars, CtlTaken, TypeOK
    <3> QED
      BY <1>2, <1>3, <3>1 DEF ReportsWell
  <2> QED
    BY <1>6, <2>1, <2>2, <2>3
<1>7. CASE UNCHANGED vars
  <2>1. /\ UNCHANGED <<txVars, rxFirst, rBuf, rReceived, txSeq, ctlBuf, ctlAir>>
        /\ CtlTaken
    BY <1>7 DEF vars, rxVars, bufferVars, txVars, windowVars, chanVars, CtlTaken
  <2> QED
    BY <1>2, <1>3, <2>1 DEF ReportsWell
<1> QED
  BY <1>1, <1>4, <1>5, <1>6, <1>7 DEF Next

LEMMA Truth ==
    ASSUME RxW >= 2 * (TxW - 1)
    PROVE  Spec => []TruthInv
<1>1. IInv /\ TruthInv /\ [Next]_vars => TruthInv'
  BY NextTruth
<1> QED
  BY <1>1, InitTruth, Invariance, PTL DEF Spec

\* No late, repeated or stale ACK, MRW_ACK or timer makes AmTxQueue throw, and its
\* retransmission timers always fit its window, for a receiver whose flags can be
\* trusted (FlagsMeanStored).
THEOREM StaleEventsDoNoHarm ==
    ASSUME RxW >= 2 * (TxW - 1)
    PROVE  Spec => []StaleEventsHarmless
<1>1. TruthInv => StaleEventsHarmless
  BY DEF TruthInv, TxSound
<1> QED
  BY <1>1, Truth, PTL

\* No false acknowledgement under the same condition: what the transmitter has
\* marked received and what an ACK under way reports, the receiver holds or has
\* moved past.
THEOREM AcksAreTruthful ==
    ASSUME RxW >= 2 * (TxW - 1)
    PROVE  Spec => []AckTruthful
<1>1. IInv /\ TruthInv => AckTruthful
  <2> SUFFICES ASSUME IInv, TruthInv PROVE AckTruthful
    OBVIOUS
  <2>1. ASSUME NEW p \in CtlProcs, ctlAir[p] # NoPdu, ctlAir[p].type = "ACK"
        PROVE  /\ \A sn \in ctlAir[p].acked : Holds(sn)
               /\ \A i \in RxSlots : rxFirst + i <= ctlAir[p].last => rBuf[i] # NoPdu
    <3>1. GoodAck(ctlAir[p]) /\ ctlAir[p] \in AckPdu
      BY <2>1, CtlUnderWay DEF IInv, TruthInv, AckSound, AcksAgree
    <3>2. ctlAir[p].last \in Int /\ rxFirst \in Nat
      BY <3>1 DEF AckPdu, IInv, TypeOK, RxTypeOK
    <3>3. ASSUME NEW i \in RxSlots, rxFirst + i <= ctlAir[p].last
          PROVE  rBuf[i] # NoPdu
      <4>1. /\ rxFirst + i \in 0..ctlAir[p].last
            /\ ~(rxFirst + i < rxFirst) /\ (rxFirst + i) - rxFirst = i
        BY <3>2, <3>3 DEF RxSlots
      <4>2. Holds(rxFirst + i)
        BY <2>1, <3>1, <4>1 DEF GoodAck
      <4> QED
        BY <4>1, <4>2 DEF Holds
    <3> QED
      BY <2>1, <3>1, <3>3 DEF GoodAck
  <2> QED
    BY <2>1 DEF AckTruthful, TruthInv, AckSound, ReceivedIsHeld
<1> QED
  BY <1>1, Invariance, Truth, PTL

-----------------------------------------------------------------------------
(* The window is driven.                                                   *)

InSeq(s) == {s[k] : k \in 1..Len(s)}

LEMMA InAppend ==
    ASSUME NEW S, NEW s \in Seq(S), NEW e \in S
    PROVE  InSeq(Append(s, e)) \subseteq InSeq(s) \cup {e}
<1> SUFFICES ASSUME NEW k \in 1..Len(Append(s, e))
             PROVE  Append(s, e)[k] \in InSeq(s) \cup {e}
  BY DEF InSeq
<1>1. Len(s) \in Nat /\ Len(Append(s, e)) = Len(s) + 1
  OBVIOUS
<1>2. CASE k \in 1..Len(s)
  BY <1>2 DEF InSeq
<1>3. CASE k = Len(s) + 1
  BY <1>3
<1> QED
  BY <1>1, <1>2, <1>3

LEMMA InTail ==
    ASSUME NEW S, NEW s \in Seq(S), s # <<>>
    PROVE  Head(s) \in InSeq(s) /\ InSeq(Tail(s)) \subseteq InSeq(s)
<1>1. Len(s) \in Nat \ {0} /\ Head(s) = s[1] /\ Len(Tail(s)) = Len(s) - 1
  BY EmptySeq
<1>2. \A k \in 1..Len(Tail(s)) : Tail(s)[k] = s[k + 1] /\ k + 1 \in 1..Len(s)
  BY <1>1
<1> QED
  BY <1>1, <1>2 DEF InSeq

LEMMA InConcat ==
    ASSUME NEW S, NEW s \in Seq(S), NEW t \in Seq(S)
    PROVE  InSeq(s \o t) \subseteq InSeq(s) \cup InSeq(t)
<1> SUFFICES ASSUME NEW k \in 1..Len(s \o t)
             PROVE  (s \o t)[k] \in InSeq(s) \cup InSeq(t)
  BY DEF InSeq
<1>1. /\ Len(s) \in Nat /\ Len(t) \in Nat
      /\ Len(s \o t) = Len(s) + Len(t)
  OBVIOUS
<1>2. CASE k \in 1..Len(s)
  BY <1>2 DEF InSeq
<1>3. CASE k \in (Len(s) + 1)..(Len(s) + Len(t))
  <2>1. (s \o t)[k] = t[k - Len(s)] /\ k - Len(s) \in 1..Len(t)
    BY <1>1, <1>3
  <2> QED
    BY <2>1 DEF InSeq
<1> QED
  BY <1>1, <1>2, <1>3

\* What is stored, waits or is under way, in the one direction and the other.
Commands == (mrwQ \cup InSeq(txBuf) \cup {air[p] : p \in Procs}) \ {NoPdu}
Answers == (InSeq(ctlBuf) \cup {ctlAir[p] : p \in CtlProcs}) \ {NoPdu}

\* No command asks for more than L, and the last one issued asks for L.
CommandFits(m, L) == m.type = "MRW" =>
    m.serial < mrwSn /\ m.target <= L /\ (m.serial = lastMrw => m.target = L)

AnswerFits(m, L) == m.type = "MRW_ACK" =>
    m.serial < mrwSn /\ (m.serial = lastMrw => m.first = L)

\* L is where the window is being driven to: everything before L is settled, the
\* PDU at L is not given up, and the last command is repeated until the
\* transmitter's window begins at L.
DrivenTo(L) ==
    /\ txFirst <= L /\ rxFirst <= L /\ SettledBelow(L)
    /\ \A i \in TxSlots : txFirst + i = L => ~tDiscarded[i]
    /\ lastMrw \in mrwTimer \/ txFirst = L
    /\ \A m \in Commands : CommandFits(m, L)
    /\ \A m \in Answers : AnswerFits(m, L)

Driven ==
    /\ \E L \in Nat : DrivenTo(L)
    /\ mrwSn > 0 => lastMrw = mrwSn - 1

LEMMA UnderWayTypes ==
    ASSUME TypeOK
    PROVE  /\ Commands \subseteq DataPdu \cup MrwPdu
           /\ Answers \subseteq AckPdu \cup MrwAckPdu
<1>1. /\ txBuf \in Seq(DataPdu \cup MrwPdu)
      /\ \A k \in 1..Len(txBuf) : txBuf[k] \in DataPdu \cup MrwPdu
  BY DEF TypeOK, TxTypeOK
<1>2. /\ ctlBuf \in Seq(AckPdu \cup MrwAckPdu)
      /\ \A k \in 1..Len(ctlBuf) : ctlBuf[k] \in AckPdu \cup MrwAckPdu
  BY DEF TypeOK, RxTypeOK
<1>3. /\ mrwQ \subseteq MrwPdu
      /\ \A p \in Procs : air[p] \in DataPdu \cup MrwPdu \cup {NoPdu}
      /\ \A p \in CtlProcs : ctlAir[p] \in AckPdu \cup MrwAckPdu \cup {NoPdu}
  BY DEF TypeOK, TxTypeOK
<1> QED
  BY <1>1, <1>2, <1>3 DEF Commands, Answers, InSeq

\* Steps that issue no command, for the same L.
LEMMA DrivenStays ==
    ASSUME Driven,
           UNCHANGED <<txFirst, mrwSn, lastMrw>>,
           txSeq \in Nat, txSeq' \in Nat, txSeq <= txSeq',
           \A L \in Nat : DrivenTo(L) => rxFirst' <= L /\ SettledBelow(L)',
           tDiscarded' = tDiscarded,
           lastMrw \in mrwTimer => lastMrw \in mrwTimer',
           \A m \in Commands' : m \in Commands \/ m \in DataPdu,
           \A L \in Nat : DrivenTo(L) =>
               \A m \in Answers' : m \in Answers \/ AnswerFits(m, L)
    PROVE  Driven'
<1>1. PICK L \in Nat : DrivenTo(L)
  BY DEF Driven
<1>2. \A m \in Commands' : CommandFits(m, L)
  BY <1>1 DEF DrivenTo, CommandFits, DataPdu
<1>3. \A m \in Answers' : AnswerFits(m, L)
  BY <1>1 DEF DrivenTo
<1>4. DrivenTo(L)'
  <2>1. \A m \in Commands' : CommandFits(m, L)'
    BY <1>2 DEF CommandFits
  <2>2. \A m \in Answers' : AnswerFits(m, L)'
    BY <1>3 DEF AnswerFits
  <2> QED
    BY <1>1, <2>1, <2>2 DEF DrivenTo
<1> QED
  BY <1>4 DEF Driven

\* checkForMrw: what it finds settled reaches at least as far as L, so that the
\* new command takes over from every earlier one.
LEMMA CheckForMrwDriven ==
    ASSUME IInv, Driven, UNCHANGED <<txFirst, txSeq, rxVars, air>>,
           NEW received, NEW discarded,
           \A i \in TxSlots : IsSettled(i) => received[i] \/ discarded[i],
           \A i \in TxSlots : received[i] \/ discarded[i] => IsSettled(i)',
           \A i \in TxSlots : discarded[i] => i < TxUsed,
           \A i \in TxSlots : tDiscarded'[i] <=> discarded[i],
           CheckForMrw(received, discarded, txBuf), CtlTaken
    PROVE  Driven'
<1>0. /\ txFirst \in Nat /\ txSeq \in Nat /\ rxFirst \in Nat /\ TxW \in Nat
      /\ TxUsed \in 0..(TxW - 1) /\ TxUsed = txSeq - txFirst /\ mrwSn \in Nat
      /\ txBuf \in Seq(DataPdu \cup MrwPdu)
      /\ UNCHANGED <<rxFirst, ctlBuf>>
  BY WindowArithmetic, WindowAssumption DEF IInv, TypeOK, TxTypeOK, TxUsed, rxVars
<1>1. PICK L \in Nat : DrivenTo(L)
  BY DEF Driven
<1>2. PICK k \in 0..TxW :
        /\ Settled(k, received, discarded)
        /\ \/ k = 0 /\ txBuf' = txBuf /\ UNCHANGED mrwVars
           \/ k > 0 /\ SendMrw(txFirst + k, txBuf)
  BY DEF CheckForMrw
<1>3. L <= txSeq /\ txFirst <= L /\ rxFirst <= L
      /\ \A i \in TxSlots : txFirst + i < L => received[i] \/ discarded[i]
  BY <1>1 DEF DrivenTo, SettledBelow
<1>4. /\ k \in 0..TxUsed
      /\ \A i \in 0..(k - 1) : received[i] \/ discarded[i]
      /\ k < TxUsed => ~(received[k] \/ discarded[k])
  BY <1>2 DEF Settled
<1>5. L <= txFirst + k
  <2> SUFFICES ASSUME txFirst + k < L PROVE FALSE
    BY <1>0, <1>1, <1>4
  <2>1. k \in TxSlots /\ k < TxUsed
    BY <1>0, <1>3, <1>4 DEF TxSlots
  <2> QED
    BY <1>3, <1>4, <2>1
<1>6. SettledBelow(txFirst + k)'
  <2>1. \A i \in TxSlots : txFirst + i < txFirst + k => i \in 0..(k - 1)
    BY <1>0, <1>4 DEF TxSlots
  <2>2. txFirst + k <= txSeq
    BY <1>0, <1>4
  <2>3. \A i \in TxSlots : txFirst + i < txFirst + k => IsSettled(i)'
    BY <1>4, <2>1
  <2>4. txFirst + k <= txSeq' /\ \A i \in TxSlots : txFirst' + i < txFirst + k => IsSettled(i)'
    BY <2>2, <2>3
  <2>5. UNCHANGED txFirst
    OBVIOUS
  <2> QED
    BY <2>4, <2>5 DEF SettledBelow
<1>7. \A i \in TxSlots : txFirst + i = txFirst + k => ~tDiscarded'[i]
  <2> SUFFICES ASSUME NEW i \in TxSlots, txFirst + i = txFirst + k, discarded[i]
               PROVE  FALSE
    OBVIOUS
  <2>1. i = k /\ i < TxUsed
    BY <1>0 DEF TxSlots
  <2> QED
    BY <1>4, <2>1
<1>8. CASE k = 0 /\ txBuf' = txBuf /\ UNCHANGED mrwVars
  <2>1. L = txFirst /\ txFirst + k = txFirst
    BY <1>0, <1>1, <1>3, <1>5, <1>8
  <2>2. Commands' = Commands /\ \A m \in Answers' : m \in Answers
    BY <1>0, <1>8 DEF Commands, Answers, mrwVars, CtlTaken
  <2>3. /\ \A m \in Commands' : CommandFits(m, L)'
        /\ \A m \in Answers' : AnswerFits(m, L)'
    BY <1>1, <1>8, <2>2 DEF DrivenTo, CommandFits, AnswerFits, mrwVars
  <2>4. SettledBelow(L)' /\ \A i \in TxSlots : txFirst' + i = L => ~tDiscarded'[i]
    BY <1>6, <1>7, <2>1 DEF SettledBelow
  <2>5. /\ txFirst' <= L /\ rxFirst' <= L /\ txFirst' = L
    BY <1>0, <1>3, <2>1
  <2>6. DrivenTo(L)'
    BY <2>3, <2>4, <2>5 DEF DrivenTo
  <2> QED
    BY <1>1, <1>8, <2>6 DEF Driven, mrwVars
<1>9. CASE SendMrw(txFirst + k, txBuf)
  <2>0. PICK M \in Nat : M = txFirst + k
    BY <1>0, <1>4
  <2>1. PICK c : c = Mrw(mrwSn, M)
    OBVIOUS
  <2>2. /\ mrwQ' = mrwQ \cup {c} /\ txBuf' = Append(txBuf, c)
        /\ mrwSn' = mrwSn + 1 /\ lastMrw' = mrwSn /\ mrwTimer' = mrwTimer \cup {mrwSn}
    BY <1>9, <2>0, <2>1 DEF SendMrw
  <2>3. c \in MrwPdu /\ c.serial = mrwSn /\ c.target = M
    BY <1>0, <2>1 DEF Mrw, MrwPdu
  <2>4. InSeq(txBuf') \subseteq InSeq(txBuf) \cup {c}
    BY <1>0, <2>2, <2>3, InAppend
  <2>5. \A m \in Commands' : m \in Commands \/ m = c
    BY <2>2, <2>4 DEF Commands
  <2>6. \A m \in Answers' : m \in Answers
    BY <1>0 DEF Answers, CtlTaken
  <2>7. ASSUME NEW m \in Commands'
        PROVE  m.type = "MRW" =>
                 m.serial < mrwSn' /\ m.target <= M /\ (m.serial = lastMrw' => m.target = M)
    <3>1. CASE m = c
      BY <1>0, <2>2, <2>3, <3>1
    <3>2. CASE m \in Commands /\ m.type = "MRW"
      <4>1. m \in MrwPdu
        BY <3>2, UnderWayTypes DEF IInv, DataPdu
      <4>2. m.serial \in Nat /\ m.target \in Nat /\ m.serial < mrwSn /\ m.target <= L
        BY <1>1, <3>2, <4>1 DEF MrwPdu, DrivenTo, CommandFits
      <4>3. m.target <= M
        BY <1>5, <2>0, <4>2
      <4> QED
        BY <1>0, <2>2, <4>2, <4>3
    <3> QED
      BY <2>5, <3>1, <3>2
  <2>8. ASSUME NEW m \in Answers'
        PROVE  m.type = "MRW_ACK" => m.serial < mrwSn' /\ m.serial # lastMrw'
    <3> SUFFICES ASSUME m.type = "MRW_ACK" PROVE m.serial < mrwSn' /\ m.serial # lastMrw'
      OBVIOUS
    <3>1. m \in MrwAckPdu
      BY <2>6, UnderWayTypes DEF IInv, AckPdu
    <3>2. m.serial \in Nat /\ m.serial < mrwSn
      BY <1>1, <2>6, <3>1 DEF MrwAckPdu, DrivenTo, AnswerFits
    <3> QED
      BY <1>0, <2>2, <3>2
  <2>9. /\ \A m \in Commands' : CommandFits(m, M)'
        /\ \A m \in Answers' : AnswerFits(m, M)'
    BY <2>7, <2>8 DEF CommandFits, AnswerFits
  <2>10. SettledBelow(M)' /\ \A i \in TxSlots : txFirst' + i = M => ~tDiscarded'[i]
    BY <1>6, <1>7, <2>0 DEF SettledBelow
  <2>11. txFirst' <= M /\ rxFirst' <= M /\ lastMrw' \in mrwTimer'
    BY <1>0, <1>3, <1>4, <1>5, <2>0, <2>2
  <2>12. DrivenTo(M)'
    BY <2>9, <2>10, <2>11 DEF DrivenTo
  <2>13. lastMrw' = mrwSn' - 1
    BY <1>0, <2>2
  <2> QED
    BY <2>12, <2>13 DEF Driven
<1> QED
  BY <1>2, <1>8, <1>9

\* The steps of the transmitter.
LEMMA EnqueDriven ==
    ASSUME IInv, Driven, NEW n \in SduFrags, Enque(n), UNCHANGED <<rxVars, chanVars>>
    PROVE  Driven'
<1>0. /\ n \in Nat \ {0} /\ txFirst \in Nat /\ txSeq \in Nat /\ nextSdu \in Nat
      /\ TxUsed \in Nat /\ TxUsed = txSeq - txFirst
      /\ txBuf \in Seq(DataPdu \cup MrwPdu) /\ UNCHANGED <<rxFirst, ctlBuf, air, ctlAir>>
  BY ParameterAssumption, WindowArithmetic
     DEF IInv, TypeOK, TxTypeOK, TxUsed, rxVars, chanVars
<1>1. CASE UNCHANGED <<windowVars, mrwVars, txBuf>>
  <2>1. /\ UNCHANGED <<txFirst, mrwSn, lastMrw, txSeq, tDiscarded, mrwTimer>>
        /\ Commands' = Commands /\ Answers' = Answers
        /\ \A L \in Nat : DrivenTo(L) => rxFirst' <= L /\ SettledBelow(L)'
    BY <1>0, <1>1 DEF windowVars, mrwVars, Commands, Answers, DrivenTo, SettledBelow,
       IsSettled
  <2> QED
    BY <1>0, <2>1, DrivenStays
<1>2. CASE /\ txSeq' = txSeq + n
           /\ txBuf' = txBuf \o [k \in 1..n |->
                   Data(txFirst + (TxUsed + k - 1), nextSdu, txSeq, txSeq + n - 1)]
           /\ UNCHANGED <<txFirst, tReceived, tDiscarded, mrwVars>>
  <2>1. PICK t : t = [k \in 1..n |->
                   Data(txFirst + (TxUsed + k - 1), nextSdu, txSeq, txSeq + n - 1)]
    OBVIOUS
  <2>2. t \in Seq(DataPdu)
    <3>1. \A k \in 1..n :
            Data(txFirst + (TxUsed + k - 1), nextSdu, txSeq, txSeq + n - 1) \in DataPdu
      <4> SUFFICES ASSUME NEW k \in 1..n
                   PROVE  Data(txFirst + (TxUsed + k - 1), nextSdu, txSeq, txSeq + n - 1)
                              \in DataPdu
        OBVIOUS
      <4>1. txFirst + (TxUsed + k - 1) \in Nat /\ txSeq + n - 1 \in Nat
        BY <1>0
      <4> QED
        BY <1>0, <4>1, DataType
    <3> QED
      BY <1>0, <2>1, <3>1
  <2>3. \A k \in 1..Len(t) : t[k] \in DataPdu
    BY <2>2
  <2>4. InSeq(txBuf') \subseteq InSeq(txBuf) \cup DataPdu
    <3>1. t \in Seq(DataPdu \cup MrwPdu) /\ InSeq(t) \subseteq DataPdu
      BY <2>2, <2>3 DEF InSeq
    <3> QED
      BY <1>0, <1>2, <2>1, <3>1, InConcat
  <2>5. /\ \A m \in Commands' : m \in Commands \/ m \in DataPdu
        /\ Answers' = Answers
    BY <1>0, <1>2, <2>4 DEF Commands, Answers, mrwVars
  <2>6. \A L \in Nat : DrivenTo(L) => rxFirst' <= L /\ SettledBelow(L)'
    BY <1>0, <1>2 DEF DrivenTo, SettledBelow, IsSettled
  <2>7. /\ UNCHANGED <<txFirst, mrwSn, lastMrw, tDiscarded, mrwTimer>>
        /\ txSeq' \in Nat /\ txSeq <= txSeq'
    BY <1>0, <1>2 DEF mrwVars
  <2> QED
    BY <1>0, <2>5, <2>6, <2>7, DrivenStays
<1>3. \A e : TxThrow(e) => UNCHANGED <<windowVars, mrwVars, txBuf>>
  BY DEF TxThrow
<1> QED
  BY <1>1, <1>2, <1>3 DEF Enque

LEMMA PduTimerDriven ==
    ASSUME IInv, TxSound, Driven, NEW sn \in pduTimer, PduTimer(sn),
           UNCHANGED <<rxVars, chanVars>>
    PROVE  Driven'
<1> DEFINE x == sn - txFirst
           marked == [i \in TxSlots |-> tDiscarded[i] \/ i \in Group(x)]
<1>0. /\ txSeq \in Nat /\ CtlTaken /\ UNCHANGED <<rxFirst, ctlBuf, air, ctlAir>>
      /\ txBuf \in Seq(DataPdu \cup MrwPdu) /\ TxUsed \in 0..(TxW - 1)
      /\ rtx \in [TxSlots -> DataPdu \cup {NoPdu}]
  BY WindowArithmetic DEF IInv, TypeOK, TxTypeOK, rxVars, chanVars, CtlTaken
<1>1. CASE Discard(x, pduTimer \ {sn}) /\ UNCHANGED <<txFirst, txSeq, rtx, tReceived>>
  <2>1. \A i \in TxSlots : marked[i] <=> (tDiscarded[i] \/ i \in Group(x))
    OBVIOUS
  <2>2. tDiscarded' = marked /\ CheckForMrw(tReceived, marked, txBuf)
    BY <1>1 DEF Discard
  <2>3. \A i \in TxSlots : marked[i] => i < TxUsed
    <3>1. x \in TxSlots /\ x < TxUsed
      BY TimedSlot DEF InWindow
    <3>2. \A i \in Group(x) : i < TxUsed
      BY <1>0, <3>1 DEF Group, SameSdu
    <3> QED
      BY <2>1, <3>2 DEF TxSound, WindowFilled, IsSettled, InWindow
  <2> HIDE DEF marked
  <2>4. \A i \in TxSlots : IsSettled(i) => tReceived[i] \/ marked[i]
    BY <2>1 DEF IsSettled
  <2>5. \A i \in TxSlots : tReceived[i] \/ marked[i] => IsSettled(i)'
    BY <1>1, <2>2 DEF IsSettled
  <2> QED
    BY <1>0, <1>1, <2>2, <2>3, <2>4, <2>5, CheckForMrwDriven
<1>2. CASE x \in TxSlots /\ rtx[x] # NoPdu /\ ~LastTry(x) /\ Retransmit(x)
  <2>1. /\ UNCHANGED <<txFirst, txSeq, tReceived, tDiscarded, mrwVars>>
        /\ txBuf' = Append(txBuf, Copy([rtx[x] EXCEPT !.tx = @ + 1]))
    BY <1>2 DEF Retransmit
  <2>2. PICK c \in DataPdu : c = Copy([rtx[x] EXCEPT !.tx = @ + 1])
    <3>1. rtx[x] \in DataPdu
      BY <1>0, <1>2
    <3>2. [rtx[x] EXCEPT !.tx = @ + 1] \in DataPdu
      BY <1>2, <3>1, ParameterAssumption DEF DataPdu, LastTry
    <3> QED
      BY <3>2, CopyType
  <2>3. InSeq(txBuf') \subseteq InSeq(txBuf) \cup {c}
    BY <1>0, <2>1, <2>2, InAppend
  <2>4. /\ \A m \in Commands' : m \in Commands \/ m \in DataPdu
        /\ Answers' = Answers
    BY <1>0, <2>1, <2>3 DEF Commands, Answers, mrwVars
  <2>5. \A L \in Nat : DrivenTo(L) => rxFirst' <= L /\ SettledBelow(L)'
    BY <1>0, <2>1 DEF DrivenTo, SettledBelow, IsSettled
  <2> QED
    BY <1>0, <2>1, <2>4, <2>5, DrivenStays DEF mrwVars
<1>3. CASE \E e : TxThrow(e)
  <2>1. UNCHANGED <<txFirst, txSeq, tReceived, tDiscarded, mrwVars, txBuf>>
    BY <1>3 DEF TxThrow, windowVars
  <2>2. Commands' = Commands /\ Answers' = Answers
    BY <1>0, <2>1 DEF Commands, Answers, mrwVars
  <2>3. \A L \in Nat : DrivenTo(L) => rxFirst' <= L /\ SettledBelow(L)'
    BY <1>0, <2>1 DEF DrivenTo, SettledBelow, IsSettled
  <2> QED
    BY <1>0, <2>1, <2>2, <2>3, DrivenStays DEF mrwVars
<1> QED
  BY <1>1, <1>2, <1>3 DEF PduTimer

LEMMA MrwTimerDriven ==
    ASSUME IInv, Driven, NEW serial \in mrwTimer, MrwTimer(serial),
           UNCHANGED <<rxVars, chanVars>>
    PROVE  Driven'
<1>0. /\ txSeq \in Nat /\ lastMrw \in Nat /\ serial \in Nat
      /\ UNCHANGED <<rxFirst, ctlBuf, air, ctlAir, windowVars, mrwSn, lastMrw>>
      /\ txBuf \in Seq(DataPdu \cup MrwPdu) /\ mrwQ \subseteq MrwPdu
  BY DEF IInv, TypeOK, TxTypeOK, rxVars, chanVars, MrwTimer, TxThrow, mrwVars
<1>1. \A m \in mrwQ : txBuf' = Append(txBuf, m) => InSeq(txBuf') \subseteq InSeq(txBuf) \cup {m}
  BY <1>0, InAppend
<1>2. /\ mrwQ' \subseteq mrwQ /\ InSeq(txBuf') \subseteq InSeq(txBuf) \cup mrwQ
      /\ lastMrw \in mrwTimer => lastMrw \in mrwTimer'
  BY <1>0, <1>1 DEF MrwTimer, TxThrow, mrwVars
<1>3. (\A m \in Commands' : m \in Commands \/ m \in DataPdu) /\ Answers' = Answers
  BY <1>0, <1>2 DEF Commands, Answers
<1>4. /\ \A L \in Nat : DrivenTo(L) => rxFirst' <= L /\ SettledBelow(L)'
      /\ UNCHANGED <<txFirst, txSeq, tDiscarded>>
  BY <1>0 DEF DrivenTo, SettledBelow, IsSettled, windowVars
<1> QED
  BY <1>0, <1>2, <1>3, <1>4, DrivenStays

LEMMA BufferStatusTimerDriven ==
    ASSUME IInv, TxSound, Driven, BufferStatusTimer, UNCHANGED <<rxVars, chanVars>>
    PROVE  Driven'
<1>1. /\ UNCHANGED <<txFirst, txSeq, tReceived, tDiscarded, air>> /\ CtlTaken
      /\ CheckForMrw(tReceived, tDiscarded, txBuf)
  BY DEF BufferStatusTimer, windowVars, chanVars, CtlTaken
<1>2. \A i \in TxSlots : tDiscarded[i] => i < TxUsed
  BY DEF TxSound, WindowFilled, IsSettled, InWindow
<1> QED
  BY <1>1, <1>2, CheckForMrwDriven DEF IsSettled

LEMMA RecvAckDriven ==
    ASSUME IInv, TxSound, Driven, NEW m \in AckPdu, RecvAck(m),
           UNCHANGED <<rxVars, air>>, CtlTaken
    PROVE  Driven'
<1> DEFINE cum == m.last - txFirst
           cumulated == [i \in TxSlots |-> tReceived[i] \/ i <= cum]
           marked == [i \in TxSlots |-> cumulated[i] \/ txFirst + i \in m.acked]
<1>0. txSeq \in Nat /\ UNCHANGED <<rxFirst, ctlBuf, air, txFirst, txSeq, tDiscarded>>
  BY DEF IInv, TypeOK, TxTypeOK, rxVars, RecvAck, TxThrow, windowVars
<1>1. \A i \in TxSlots : IsSettled(i) => IsSettled(i)'
  BY <1>0 DEF RecvAck, TxThrow, windowVars, IsSettled
<1>2. CASE UNCHANGED <<mrwVars, txBuf>>
  <2>1. Commands' = Commands /\ \A a \in Answers' : a \in Answers
    BY <1>0, <1>2 DEF Commands, Answers, mrwVars, CtlTaken
  <2>2. \A L \in Nat : DrivenTo(L) => rxFirst' <= L /\ SettledBelow(L)'
    BY <1>0, <1>1 DEF DrivenTo, SettledBelow
  <2> QED
    BY <1>0, <1>2, <2>1, <2>2, DrivenStays DEF mrwVars
<1>3. CASE tReceived' = marked /\ CheckForMrw(cumulated, tDiscarded, txBuf)
  <2>1. \A i \in TxSlots : IsSettled(i) => cumulated[i] \/ tDiscarded[i]
    BY DEF IsSettled
  <2>2. \A i \in TxSlots : cumulated[i] \/ tDiscarded[i] => IsSettled(i)'
    BY <1>0, <1>3 DEF IsSettled
  <2>3. \A i \in TxSlots : tDiscarded[i] => i < TxUsed
    BY DEF TxSound, WindowFilled, IsSettled, InWindow
  <2> HIDE DEF cumulated
  <2> QED
    BY <1>0, <1>3, <2>1, <2>2, <2>3, CheckForMrwDriven
<1> QED
  BY <1>2, <1>3 DEF RecvAck, TxThrow

LEMMA RecvMrwAckDriven ==
    ASSUME IInv, Driven, NEW m \in Answers, m.type = "MRW_ACK", m.first <= rxFirst,
           RecvMrwAck(m), UNCHANGED <<rxVars, air>>, CtlTaken
    PROVE  Driven'
<1>0. /\ txFirst \in Nat /\ txSeq \in Nat /\ rxFirst \in Nat /\ TxW \in Nat
      /\ TxUsed \in 0..(TxW - 1) /\ TxUsed = txSeq - txFirst
      /\ mrwTimer \subseteq Nat /\ lastMrw \in Nat
      /\ UNCHANGED <<rxFirst, ctlBuf, air, txSeq, mrwSn, lastMrw, txBuf>>
  BY WindowArithmetic, WindowAssumption
     DEF IInv, TypeOK, TxTypeOK, TxUsed, rxVars, RecvMrwAck, TxThrow, windowVars, mrwVars
<1>1. m \in MrwAckPdu /\ m.first \in Nat /\ m.serial \in Nat
  <2>1. m \in MrwAckPdu
    BY UnderWayTypes DEF IInv, AckPdu
  <2> QED
    BY <2>1 DEF MrwAckPdu
<1>2. PICK L \in Nat : DrivenTo(L)
  BY DEF Driven
<1>3. /\ rxFirst <= L /\ txFirst <= L /\ L <= txSeq
      /\ m.serial < mrwSn /\ (m.serial = lastMrw => m.first = L)
      /\ \A i \in TxSlots : txFirst + i < L => IsSettled(i)
  BY <1>2 DEF DrivenTo, AnswerFits, SettledBelow
<1>4. mrwQ' \subseteq mrwQ
  BY DEF RecvMrwAck, ForgetMrw, TxThrow, mrwVars
<1>5. Commands' \subseteq Commands /\ Answers' \subseteq Answers
  BY <1>0, <1>4 DEF Commands, Answers, CtlTaken
<1>6. /\ \A a \in Commands' : CommandFits(a, L)'
      /\ \A a \in Answers' : AnswerFits(a, L)'
  BY <1>0, <1>2, <1>5 DEF DrivenTo, CommandFits, AnswerFits
<1>7. CASE UNCHANGED <<windowVars, mrwVars>>
  <2>1. DrivenTo(L)'
    BY <1>0, <1>2, <1>6, <1>7 DEF DrivenTo, SettledBelow, IsSettled, windowVars, mrwVars
  <2> QED
    BY <1>0, <2>1 DEF Driven
<1>8. mrwTimer' \subseteq mrwTimer /\ mrwTimer \ {m.serial} \subseteq mrwTimer'
  BY DEF RecvMrwAck, ForgetMrw, TxThrow, mrwVars
<1>9. CASE m.first - txFirst <= 0 /\ UNCHANGED windowVars
  <2>1. m.serial = lastMrw => txFirst = L
    BY <1>0, <1>1, <1>3, <1>9
  <2>2. lastMrw \in mrwTimer' \/ txFirst' = L
    BY <1>2, <1>8, <1>9, <2>1 DEF DrivenTo, windowVars
  <2>3. DrivenTo(L)'
    BY <1>0, <1>2, <1>6, <1>9, <2>2 DEF DrivenTo, SettledBelow, IsSettled, windowVars
  <2> QED
    BY <1>0, <2>3 DEF Driven
<1>10. ASSUME NEW pos \in Nat, pos <= TxUsed, txFirst' = txFirst + pos,
              m.first = txFirst + pos,
              tReceived' = Shifted(tReceived, pos, FALSE),
              tDiscarded' = Shifted(tDiscarded, pos, FALSE)
       PROVE  Driven'
  <2>1. txFirst' <= L
    BY <1>0, <1>1, <1>3, <1>10
  <2>2. lastMrw' \in mrwTimer' \/ txFirst' = L
    <3>1. CASE m.serial = lastMrw
      BY <1>0, <1>3, <1>10, <3>1
    <3>2. CASE m.serial # lastMrw /\ lastMrw \in mrwTimer
      BY <1>0, <1>8, <3>2
    <3>3. CASE txFirst = L
      BY <1>0, <1>10, <2>1, <3>3
    <3> QED
      BY <1>2, <3>1, <3>2, <3>3 DEF DrivenTo
  <2>3. \A i \in TxSlots :
          /\ tReceived'[i] = (IF i + pos < TxUsed THEN tReceived[i + pos] ELSE FALSE)
          /\ tDiscarded'[i] = (IF i + pos < TxUsed THEN tDiscarded[i + pos] ELSE FALSE)
    BY <1>10 DEF Shifted
  <2>4. \A i \in TxSlots : /\ i + pos < TxUsed => i + pos \in TxSlots
                           /\ txFirst' + i = txFirst + (i + pos)
                           /\ txFirst' + i < L => i + pos < TxUsed
    BY <1>0, <1>3, <1>10 DEF TxSlots
  <2>5. \A i \in TxSlots : txFirst' + i < L => IsSettled(i)'
    BY <1>3, <2>3, <2>4 DEF IsSettled
  <2>6. \A i \in TxSlots : txFirst' + i = L => ~tDiscarded'[i]
    BY <1>2, <2>3, <2>4 DEF DrivenTo
  <2>7. DrivenTo(L)'
    BY <1>0, <1>3, <1>6, <2>1, <2>2, <2>5, <2>6 DEF DrivenTo, SettledBelow
  <2> QED
    BY <1>0, <2>7 DEF Driven
<1>11. CASE /\ m.first - txFirst > 0 /\ m.first - txFirst <= TxUsed
            /\ txFirst' = txFirst + (m.first - txFirst)
            /\ tReceived' = Shifted(tReceived, m.first - txFirst, FALSE)
            /\ tDiscarded' = Shifted(tDiscarded, m.first - txFirst, FALSE)
  <2>1. m.first - txFirst \in Nat /\ m.first = txFirst + (m.first - txFirst)
    BY <1>0, <1>1, <1>11
  <2> QED
    BY <1>10, <1>11, <2>1
<1> QED
  BY <1>7, <1>9, <1>11 DEF RecvMrwAck, TxThrow

\* The steps of the receiver and of the channels.
LEMMA RxStepDriven ==
    ASSUME IInv, Driven, UNCHANGED txVars,
           \A L \in Nat : DrivenTo(L) => rxFirst' <= L,
           Commands' \subseteq Commands,
           \A L \in Nat : DrivenTo(L) =>
               \A a \in Answers' : a \in Answers \/ AnswerFits(a, L)
    PROVE  Driven'
<1>1. UNCHANGED <<txFirst, txSeq, tReceived, tDiscarded, mrwSn, lastMrw, mrwTimer>>
  BY DEF txVars, windowVars, mrwVars
<1>2. \A L \in Nat : DrivenTo(L) => rxFirst' <= L /\ SettledBelow(L)'
  BY <1>1 DEF DrivenTo, SettledBelow, IsSettled
<1> QED
  BY <1>1, <1>2, DrivenStays DEF IInv, TypeOK, TxTypeOK

LEMMA ReportDriven ==
    ASSUME IInv, Driven, UNCHANGED <<txVars, ctlAir, rxFirst>>, PduTaken,
           \/ UNCHANGED ctlBuf
           \/ \E received : SendStatusReport(received)
    PROVE  Driven'
<1>1. Commands' \subseteq Commands
  BY DEF Commands, PduTaken, txVars, mrwVars
<1>2. \A a \in Answers' : a \in Answers \/ a.type # "MRW_ACK"
  <2>1. CASE UNCHANGED ctlBuf
    BY <2>1 DEF Answers
  <2>2. ASSUME NEW c \in AckPdu \cup MrwAckPdu, ctlBuf' = Append(ctlBuf, c),
               c.type # "MRW_ACK"
        PROVE  \A a \in Answers' : a \in Answers \/ a.type # "MRW_ACK"
    <3>1. InSeq(ctlBuf') \subseteq InSeq(ctlBuf) \cup {c}
      BY <2>2, InAppend DEF IInv, TypeOK, RxTypeOK
    <3> QED
      BY <2>2, <3>1 DEF Answers
  <2> QED
    BY <2>1, <2>2, SendStatusReportAdds DEF IInv, TypeOK
<1> QED
  BY <1>1, <1>2, RxStepDriven DEF AnswerFits, DrivenTo

LEMMA RecvDataDriven ==
    ASSUME IInv, Driven, NEW p \in DataPdu, RecvData(p), UNCHANGED <<txVars, ctlAir>>,
           PduTaken
    PROVE  Driven'
<1>1. \A e : RxThrow(e) => UNCHANGED <<rxFirst, ctlBuf>>
  BY DEF RxThrow
<1>2. Noted(p) => UNCHANGED rxFirst
  BY DEF Noted
<1>3. EarlyReport(p) => UNCHANGED ctlBuf \/ \E received : SendStatusReport(received)
  BY DEF EarlyReport
<1>4. StoreData(p) => \/ UNCHANGED <<rxFirst, ctlBuf>>
                      \/ /\ UNCHANGED rxFirst
                         /\ \/ UNCHANGED ctlBuf
                            \/ \E received : SendStatusReport(received)
  BY <1>1, <1>2, <1>3 DEF StoreData
<1>5. /\ UNCHANGED rxFirst
      /\ UNCHANGED ctlBuf \/ \E received : SendStatusReport(received)
  BY <1>1, <1>2, <1>3, <1>4 DEF RecvData
<1> QED
  BY <1>5, ReportDriven

LEMMA RecvMrwDriven ==
    ASSUME IInv, Driven, NEW m \in Commands, m.type = "MRW", RecvMrw(m),
           UNCHANGED <<txVars, ctlAir>>, PduTaken
    PROVE  Driven'
<1>1. m \in MrwPdu
  BY UnderWayTypes DEF IInv, DataPdu
<1>0. /\ m.target \in Nat /\ m.serial \in Nat /\ rxFirst \in Nat
      /\ ctlBuf \in Seq(AckPdu \cup MrwAckPdu)
  BY <1>1 DEF MrwPdu, IInv, TypeOK, RxTypeOK
<1>2. Commands' \subseteq Commands
  BY DEF Commands, PduTaken, txVars, mrwVars
<1>3. PICK start \in Nat :
        /\ start = rxFirst + (IF m.target - rxFirst > 0 THEN m.target - rxFirst ELSE 0)
        /\ start = IF m.target > rxFirst THEN m.target ELSE rxFirst
  BY <1>0
<1>4. CASE UNCHANGED <<rxFirst, ctlBuf>>
  <2>1. Answers' = Answers
    BY <1>4 DEF Answers
  <2> QED
    BY <1>2, <1>4, <2>1, RxStepDriven DEF DrivenTo
<1>5. CASE ctlBuf' = Append(ctlBuf, MrwAck(m.serial, start)) /\ rxFirst' = start
  <2>1. PICK c : c = MrwAck(m.serial, start)
    OBVIOUS
  <2>2. c \in MrwAckPdu /\ c.serial = m.serial /\ c.first = start
    BY <1>0, <2>1 DEF MrwAck, MrwAckPdu
  <2>3. InSeq(ctlBuf') \subseteq InSeq(ctlBuf) \cup {c}
    BY <1>0, <1>5, <2>1, <2>2, InAppend
  <2>4. \A a \in Answers' : a \in Answers \/ a = c
    BY <2>3 DEF Answers
  <2>5. ASSUME NEW L \in Nat, DrivenTo(L)
        PROVE  rxFirst' <= L /\ AnswerFits(c, L)
    <3>1. /\ rxFirst <= L /\ m.serial < mrwSn /\ m.target <= L
          /\ m.serial = lastMrw => m.target = L
      BY <2>5 DEF DrivenTo, CommandFits
    <3>2. rxFirst' <= L
      BY <1>3, <1>5, <3>1
    <3>3. m.serial = lastMrw => start = L
      BY <1>0, <1>3, <3>1
    <3> QED
      BY <2>2, <3>1, <3>2, <3>3 DEF AnswerFits
  <2> QED
    BY <1>2, <2>4, <2>5, RxStepDriven
<1>6. \A e : RxThrow(e) => UNCHANGED <<rxFirst, ctlBuf>>
  BY DEF RxThrow
<1> QED
  BY <1>3, <1>4, <1>5, <1>6 DEF RecvMrw

LEMMA ChannelDriven ==
    ASSUME IInv, Driven,
           \/ \E p \in Procs : SendPdu(p) \/ Lose(p)
           \/ \E p \in CtlProcs : SendCtl(p) \/ LoseCtl(p)
    PROVE  Driven'
<1>0. /\ txBuf \in Seq(DataPdu \cup MrwPdu) /\ ctlBuf \in Seq(AckPdu \cup MrwAckPdu)
      /\ air \in [Procs -> DataPdu \cup MrwPdu \cup {NoPdu}]
      /\ ctlAir \in [CtlProcs -> AckPdu \cup MrwAckPdu \cup {NoPdu}]
      /\ txSeq \in Nat
  BY DEF IInv, TypeOK, TxTypeOK, RxTypeOK
<1>1. /\ txBuf # <<>> => Head(txBuf) \in InSeq(txBuf)
                         /\ InSeq(Tail(txBuf)) \subseteq InSeq(txBuf)
      /\ ctlBuf # <<>> => Head(ctlBuf) \in InSeq(ctlBuf)
                          /\ InSeq(Tail(ctlBuf)) \subseteq InSeq(ctlBuf)
  BY <1>0, InTail
<1>2. /\ UNCHANGED <<txFirst, txSeq, tReceived, tDiscarded, mrwSn, lastMrw, mrwTimer, rxFirst>>
      /\ UNCHANGED mrwQ
  BY DEF SendPdu, Lose, SendCtl, LoseCtl, txVars, windowVars, mrwVars, rxVars
<1>3. Commands' \subseteq Commands
  <2>1. ASSUME NEW p \in Procs, SendPdu(p) PROVE Commands' \subseteq Commands
    BY <1>0, <1>1, <1>2, <2>1 DEF SendPdu, Commands
  <2>2. ASSUME NEW p \in Procs, Lose(p) PROVE Commands' \subseteq Commands
    BY <1>0, <1>2, <2>2 DEF Lose, Commands, txVars
  <2>3. ASSUME NEW p \in CtlProcs, SendCtl(p) \/ LoseCtl(p) PROVE Commands' \subseteq Commands
    BY <1>2, <2>3 DEF SendCtl, LoseCtl, Commands, txVars
  <2> QED
    BY <2>1, <2>2, <2>3
<1>4. Answers' \subseteq Answers
  <2>1. ASSUME NEW p \in CtlProcs, SendCtl(p) PROVE Answers' \subseteq Answers
    BY <1>0, <1>1, <2>1 DEF SendCtl, Answers
  <2>2. ASSUME NEW p \in CtlProcs, LoseCtl(p) PROVE Answers' \subseteq Answers
    BY <1>0, <2>2 DEF LoseCtl, Answers, rxVars
  <2>3. ASSUME NEW p \in Procs, SendPdu(p) \/ Lose(p) PROVE Answers' \subseteq Answers
    BY <2>3 DEF SendPdu, Lose, Answers, rxVars
  <2> QED
    BY <2>1, <2>2, <2>3
<1>5. \A L \in Nat : DrivenTo(L) => rxFirst' <= L /\ SettledBelow(L)'
  BY <1>2 DEF DrivenTo, SettledBelow, IsSettled
<1>6. txSeq' \in Nat /\ txSeq <= txSeq'
  BY <1>0, <1>2
<1> QED
  BY <1>0, <1>2, <1>3, <1>4, <1>5, <1>6, DrivenStays

LEMMA InitDriven == Init => Driven
<1> SUFFICES ASSUME Init PROVE Driven
  OBVIOUS
<1>1. InSeq(<<>>) = {}
  BY EmptySeq DEF InSeq
<1>2. Commands = {} /\ Answers = {}
  BY <1>1 DEF Init, TxInit, RxInit, Commands, Answers
<1>3. DrivenTo(0)
  BY <1>2, WindowAssumption DEF Init, TxInit, RxInit, DrivenTo, SettledBelow, TxSlots
<1> QED
  BY <1>3 DEF Init, TxInit, Driven

\* The status timer runs as long as there is a PDU to report.
TimerRuns == HoldsPdus => statusTimer

LEMMA TimerRunsOn ==
    ASSUME TypeOK, TimerRuns, [Next]_vars
    PROVE  TimerRuns'
<1>1. CASE UNCHANGED <<rBuf, statusTimer>>
  BY <1>1 DEF TimerRuns, HoldsPdus
<1>2. CASE \E p \in Procs : DeliverPdu(p)
  <2>1. PICK p \in Procs : DeliverPdu(p)
    BY <1>2
  <2>2. \A e : RxThrow(e) => UNCHANGED <<rBuf, statusTimer>>
    BY DEF RxThrow, bufferVars
  <2>3. CASE RecvData(air[p])
    <3>1. Noted(air[p]) => statusTimer'
      BY DEF Noted
    <3>2. StoreData(air[p]) => UNCHANGED <<rBuf, statusTimer>> \/ statusTimer'
      BY <2>2, <3>1 DEF StoreData
    <3>3. UNCHANGED <<rBuf, statusTimer>> \/ statusTimer'
      BY <2>2, <2>3, <3>1, <3>2 DEF RecvData
    <3> QED
      BY <1>1, <3>3 DEF TimerRuns
  <2>4. ASSUME NEW pos \in Nat, rBuf' = ShiftedPdus(pos), UNCHANGED statusTimer
        PROVE  TimerRuns'
    <3>1. \A i \in RxSlots : rBuf'[i] = IF i + pos < RxW THEN rBuf[i + pos] ELSE NoPdu
      BY <2>4 DEF ShiftedPdus
    <3>2. \A i \in RxSlots : i + pos < RxW => i + pos \in RxSlots
      BY WindowAssumption DEF RxSlots
    <3> QED
      BY <2>4, <3>1, <3>2 DEF TimerRuns, HoldsPdus
  <2>5. CASE air[p].type = "MRW" /\ RecvMrw(air[p])
    <3>1. air[p].target \in Nat /\ rxFirst \in Nat
      <4>1. air[p] \in MrwPdu
        BY <2>1, <2>5, PduUnderWay DEF DeliverPdu
      <4> QED
        BY <4>1 DEF MrwPdu, TypeOK, RxTypeOK
    <3>2. CASE /\ ~(air[p].target - rxFirst <= 0)
               /\ rBuf' = ShiftedPdus(air[p].target - rxFirst) /\ UNCHANGED statusTimer
      <4>1. air[p].target - rxFirst \in Nat
        BY <3>1, <3>2
      <4> QED
        BY <2>4, <3>2, <4>1
    <3> QED
      BY <1>1, <2>2, <2>5, <3>2 DEF RecvMrw, bufferVars
  <2> QED
    BY <2>1, <2>3, <2>5 DEF DeliverPdu
<1>3. CASE AtRx(StatusTimer)
  BY <1>3 DEF AtRx, StatusTimer, TimerRuns, HoldsPdus, bufferVars
<1>4. CASE \/ \E n \in SduFrags : AtTx(Enque(n))
           \/ \E sn \in pduTimer : AtTx(PduTimer(sn))
           \/ \E serial \in mrwTimer : AtTx(MrwTimer(serial))
           \/ AtTx(BufferStatusTimer)
           \/ AtRx(AckInterval)
           \/ UNCHANGED vars
  BY <1>1, <1>4 DEF AtTx, AtRx, AckInterval, vars, rxVars, bufferVars
<1>5. CASE \/ \E p \in Procs : SendPdu(p) \/ Lose(p)
           \/ \E p \in CtlProcs : SendCtl(p) \/ DeliverCtl(p) \/ LoseCtl(p)
  BY <1>1, <1>5 DEF SendPdu, Lose, SendCtl, DeliverCtl, LoseCtl, rxVars, bufferVars
<1> QED
  BY <1>2, <1>3, <1>4, <1>5 DEF Next

LEMMA NextDriven ==
    ASSUME IInv, TxSound, Driven, [Next]_vars
    PROVE  Driven'
<1>1. CASE \/ \E n \in SduFrags : AtTx(Enque(n))
           \/ \E sn \in pduTimer : AtTx(PduTimer(sn))
           \/ \E serial \in mrwTimer : AtTx(MrwTimer(serial))
           \/ AtTx(BufferStatusTimer)
  BY <1>1, EnqueDriven, PduTimerDriven, MrwTimerDriven, BufferStatusTimerDriven DEF AtTx
<1>2. CASE AtRx(StatusTimer) \/ AtRx(AckInterval)
  <2>1. /\ UNCHANGED <<txVars, ctlAir, rxFirst>> /\ PduTaken
        /\ UNCHANGED ctlBuf \/ SendStatusReport(rReceived)
    BY <1>2 DEF AtRx, chanVars, PduTaken, StatusTimer, AckInterval
  <2> QED
    BY <2>1, ReportDriven
<1>3. ASSUME NEW p \in Procs, DeliverPdu(p)
      PROVE  Driven'
  <2>1. UNCHANGED <<txVars, ctlAir>> /\ PduTaken /\ air[p] # NoPdu /\ air[p] \in Commands
    BY <1>3 DEF DeliverPdu, PduTaken, IInv, TypeOK, Commands
  <2>2. CASE air[p].type = "DATA" /\ RecvData(air[p])
    BY <2>1, <2>2, PduUnderWay, RecvDataDriven DEF IInv
  <2>3. CASE air[p].type = "MRW" /\ RecvMrw(air[p])
    BY <2>1, <2>3, RecvMrwDriven
  <2> QED
    BY <1>3, <2>2, <2>3 DEF DeliverPdu
<1>4. ASSUME NEW p \in CtlProcs, DeliverCtl(p)
      PROVE  Driven'
  <2>1. /\ UNCHANGED <<rxVars, air>> /\ CtlTaken /\ ctlAir[p] # NoPdu
        /\ ctlAir[p] \in Answers /\ GoodCtl(ctlAir[p])
    BY <1>4 DEF DeliverCtl, CtlTaken, IInv, TypeOK, PdusAgree, AnswersAgree, Answers
  <2>2. CASE ctlAir[p].type = "ACK" /\ RecvAck(ctlAir[p])
    BY <2>1, <2>2, CtlUnderWay, RecvAckDriven DEF IInv
  <2>3. CASE ctlAir[p].type = "MRW_ACK" /\ RecvMrwAck(ctlAir[p])
    BY <2>1, <2>3, RecvMrwAckDriven DEF GoodCtl
  <2> QED
    BY <1>4, <2>2, <2>3 DEF DeliverCtl
<1>5. CASE UNCHANGED vars
  <2>1. UNCHANGED <<txVars, ctlAir, rxFirst, ctlBuf>> /\ PduTaken
    BY <1>5 DEF vars, chanVars, rxVars, PduTaken
  <2> QED
    BY <2>1, ReportDriven
<1> QED
  BY <1>1, <1>2, <1>3, <1>4, <1>5, ChannelDriven DEF Next

\* The window cannot get stuck: whenever its first PDU is settled, an MRW is being
\* repeated, or the receiver holds that PDU and its status timer is running, so that
\* an ACK will make checkForMrw issue one - whatever was lost, late or repeated.
THEOREM WindowAlwaysDriven ==
    ASSUME RxW >= 2 * (TxW - 1)
    PROVE  Spec => []WindowDriven
<1>1. Init => TimerRuns
  BY DEF Init, RxInit, TimerRuns, HoldsPdus
<1>2. IInv /\ TruthInv /\ Driven /\ TimerRuns /\ [Next]_vars => Driven' /\ TimerRuns'
  BY NextDriven, TimerRunsOn DEF TruthInv, IInv
<1>3. IInv /\ TruthInv /\ Driven /\ TimerRuns => WindowDriven
  <2> SUFFICES ASSUME IInv, TruthInv, Driven, TimerRuns, TxUsed > 0, IsSettled(0),
                      mrwTimer = {}
               PROVE  statusTimer /\ HoldsPdus
    BY DEF WindowDriven
  <2>0. txFirst \in Nat /\ rxFirst \in Nat /\ txFirst <= rxFirst /\ 0 \in TxSlots
    BY WindowArithmetic, WindowAssumption DEF IInv, WindowsTogether, TxSlots
  <2>1. PICK L \in Nat : DrivenTo(L)
    BY DEF Driven
  <2>2. txFirst = L /\ rxFirst = L /\ tReceived[0]
    BY <2>0, <2>1 DEF DrivenTo, IsSettled
  <2>3. Holds(txFirst + 0) /\ ~(txFirst + 0 < rxFirst)
    BY <2>0, <2>2 DEF TruthInv, AckSound, ReceivedIsHeld
  <2> QED
    BY <2>3 DEF Holds, HoldsPdus, TimerRuns
<1> QED
  BY <1>1, <1>2, <1>3, InitDriven, Invariance, Truth, PTL DEF Spec

-----------------------------------------------------------------------------
(* SDUs are passed up once, whatever the windows.                          *)

\* The smallest and the largest index of a set.
LEMMA LeastIndex ==
    ASSUME NEW S \in SUBSET Nat, S # {}
    PROVE  Min(S) \in S /\ \A y \in S : Min(S) <= y
<1>1. PICK m \in S : \A y \in S : ~ (<<y, m>> \in OpToRel(<, Nat))
  BY WFMin, NatLessThanWellFounded
<1>2. \A y \in S : ~ (y < m)
  BY <1>1 DEF OpToRel
<1>3. m \in S /\ \A y \in S : m <= y
  BY <1>2
<1> QED
  BY <1>3 DEF Min

LEMMA LargestIndex ==
    ASSUME NEW n \in Nat, NEW S \in SUBSET (0..n), S # {}
    PROVE  Max(S) \in S /\ \A y \in S : Max(S) >= y
<1> DEFINE T == {k \in Nat : n - k \in S}
<1>1. T \in SUBSET Nat /\ T # {}
  <2>1. PICK y \in S : TRUE
    OBVIOUS
  <2>2. n - y \in T
    BY <2>1
  <2> QED
    BY <2>2
<1>2. PICK k \in T : \A y \in T : k <= y
  <2> HIDE DEF T
  <2> QED
    BY <1>1, LeastIndex
<1>3. n - k \in S /\ k \in Nat
  BY <1>2
<1>4. \A y \in S : n - k >= y
  <2> SUFFICES ASSUME NEW y \in S PROVE n - k >= y
    OBVIOUS
  <2>1. y \in Nat /\ y <= n /\ n - (n - y) = y
    OBVIOUS
  <2>2. n - y \in T
    BY <2>1
  <2>3. k <= n - y
    <3> HIDE DEF T
    <3> QED
      BY <1>2, <2>2
  <2>4. n \in Nat /\ k \in Nat
    BY <1>3
  <2> HIDE DEF T
  <2> QED
    BY <2>1, <2>3, <2>4
<1>5. PICK m : m = n - k
  OBVIOUS
<1>6. m \in S /\ \A y \in S : m >= y
  BY <1>3, <1>4, <1>5
<1> HIDE DEF T
<1> QED
  BY <1>6 DEF Max

\* How the sequence numbers are given to SDUs: cut[sn] is the SDU of sequence
\* number sn, with its first and its last number.
Cut(cut) ==
    \A sn \in 0..(txSeq - 1) :
        /\ cut[sn] \in [sdu : Nat, first : Nat, last : Nat]
        /\ cut[sn].first <= sn /\ sn <= cut[sn].last
        /\ cut[sn].last < txSeq /\ cut[sn].sdu < nextSdu
        /\ \A k \in 0..(txSeq - 1) : cut[k].sdu = cut[sn].sdu => cut[k] = cut[sn]

\* PDU m is what the cut says of its number.
Fragment(cut, m) ==
    /\ m.sno \in 0..(txSeq - 1)
    /\ m.sdu = cut[m.sno].sdu /\ m.first = cut[m.sno].first /\ m.last = cut[m.sno].last

\* The PDUs of the entities and between them.
Fragments ==
    {m \in {rtx[i] : i \in TxSlots} \cup InSeq(txBuf)
             \cup {air[p] : p \in Procs} \cup {rBuf[i] : i \in RxSlots} : m \in DataPdu}

\* The receiver will not take the PDU of this number again.
Past(sn) == sn < rxFirst \/ (sn - rxFirst \in RxSlots /\ rReceived[sn - rxFirst])

\* Of an SDU that has been passed up, the receiver takes no PDU any more.
PassedUp(cut) ==
    \A k \in DOMAIN delivered :
        \E sn \in 0..(txSeq - 1) :
            /\ cut[sn].sdu = delivered[k].sdu
            /\ \A j \in cut[sn].first..cut[sn].last : Past(j)

\* One cut explains all PDUs and all SDUs passed up.
CutInv(cut) == Cut(cut) /\ (\A m \in Fragments : Fragment(cut, m)) /\ PassedUp(cut)

\* DeliveredOnce with what makes it inductive.
OnceInv ==
    /\ BufferInPlace /\ DeliveredOnce
    /\ \E S : delivered \in Seq(S)
    /\ \E cut : CutInv(cut)

\* In the step, the cut only gets the fragments of a new SDU, if anything.
Extends(cut, c) ==
    /\ \A sn \in 0..(txSeq - 1) : c[sn] = cut[sn]
    /\ \A sn \in txSeq..(txSeq' - 1) :
          c[sn] = [sdu |-> nextSdu, first |-> txSeq, last |-> txSeq' - 1]

CutsGrow == \A cut : CutInv(cut) => \E c : CutInv(c)' /\ Extends(cut, c)

\* checkCompleteSdu: the SDU it finds has all its PDUs in the window received, up
\* to the last.
LEMMA CompleteFound ==
    ASSUME NEW f \in Nat, NEW buf \in [RxSlots -> DataPdu \cup {NoPdu}],
           NEW received \in [RxSlots -> BOOLEAN], NEW cut, Cut(cut), txSeq \in Nat,
           \A i \in RxSlots : buf[i] # NoPdu => buf[i].sno = f + i /\ Fragment(cut, buf[i]),
           NEW x \in RxSlots, buf[x] # NoPdu, received[x],
           NEW s, NEW start, start = CompleteSdu(buf, received, s, x), start >= 0
    PROVE  /\ start \in RxSlots /\ buf[start] # NoPdu /\ buf[start].sdu = buf[x].sdu
           /\ start = 0 \/ IsFirst(buf[start])
           /\ \A sn \in buf[x].first..buf[x].last :
                 sn < f \/ (sn - f \in RxSlots /\ received[sn - f])
<1>0. /\ RxW \in Nat /\ RxSlots = 0..(RxW - 1) /\ x \in Nat /\ x < RxW
      /\ \A i \in RxSlots : buf[i] \in DataPdu \cup {NoPdu}
  BY WindowAssumption DEF RxSlots
<1>1. PICK a : a = FirstIndex(buf, received, s, x)
  OBVIOUS
<1>2. start = a /\ a >= 0
  <2> DEFINE ends == {i \in (x + 1)..(RxW - 1) : EndsSearch(buf, received, x, i)}
  <2>1. start = IF a < 0 \/ IsLast(buf[x]) THEN a
                ELSE IF ends = {} THEN Incomplete
                ELSE Verdict(buf, received, x, Min(ends), IsLast, a)
    BY <1>1 DEF CompleteSdu
  <2>2. Verdict(buf, received, x, Min(ends), IsLast, a) \in {Incomplete, Inconsistent, a}
    BY DEF Verdict
  <2>3. start \in {Incomplete, Inconsistent, a}
    BY <2>1, <2>2
  <2> QED
    BY <2>3 DEF Incomplete, Inconsistent
<1>3. /\ a \in 0..x /\ buf[a] # NoPdu /\ buf[a].sdu = buf[x].sdu
      /\ a = 0 \/ IsFirst(buf[a])
      /\ \A i \in a..x : received[i]
  <2> DEFINE ends == {i \in 0..(x - 1) : EndsSearch(buf, received, x, i)}
  <2>1. CASE IsFirst(buf[x])
    <3>1. a = x
      BY <1>1, <2>1 DEF FirstIndex
    <3> QED
      BY <1>0, <2>1, <3>1
  <2>2. CASE ~IsFirst(buf[x]) /\ x = 0
    <3>1. a = IF s = buf[x].sdu THEN 0 ELSE Inconsistent
      BY <1>1, <2>2 DEF FirstIndex
    <3>2. a = 0
      BY <1>2, <3>1 DEF Inconsistent
    <3> QED
      BY <1>0, <2>2, <3>2
  <2>3. CASE ~IsFirst(buf[x]) /\ x > 0
    <3>3. PICK g : g = Max(ends)
      OBVIOUS
    <3>1. a = IF ends = {} \/ ~received[g] THEN -1
              ELSE IF buf[g] # NoPdu /\ buf[g].sdu = buf[x].sdu /\ IsFirst(buf[g])
              THEN g ELSE -2
      BY <1>1, <2>3, <3>3 DEF FirstIndex, Verdict, Incomplete, Inconsistent
    <3>2. ends # {} /\ ends \in SUBSET (0..(x - 1)) /\ x - 1 \in Nat
      BY <1>0, <1>2, <2>3, <3>1
    <3>4. g \in ends /\ \A y \in ends : g >= y
      <4> HIDE DEF ends
      <4> QED
        BY <3>2, <3>3, LargestIndex
    <3>5. received[g] /\ buf[g] # NoPdu /\ buf[g].sdu = buf[x].sdu /\ IsFirst(buf[g]) /\ a = g
      BY <1>2, <3>1, <3>2
    <3>6. g \in 0..(x - 1) /\ \A i \in (g + 1)..(x - 1) : ~EndsSearch(buf, received, x, i)
      BY <1>0, <3>4
    <3>7. \A i \in (g + 1)..(x - 1) : received[i]
      BY <3>6 DEF EndsSearch
    <3>8. \A i \in g..x : i = g \/ i = x \/ i \in (g + 1)..(x - 1)
      BY <1>0, <3>6
    <3> QED
      BY <1>0, <3>5, <3>6, <3>7, <3>8
  <2> QED
    BY <1>0, <2>1, <2>2, <2>3
<1>4. PICK e \in x..(RxW - 1) :
        /\ buf[e] # NoPdu /\ buf[e].sdu = buf[x].sdu /\ IsLast(buf[e])
        /\ \A i \in x..e : received[i]
  <2> DEFINE ends == {i \in (x + 1)..(RxW - 1) : EndsSearch(buf, received, x, i)}
  <2>1. CASE IsLast(buf[x])
    BY <1>0, <2>1
  <2>2. CASE ~IsLast(buf[x])
    <3>3. PICK g : g = Min(ends)
      OBVIOUS
    <3>1. start = IF ends = {} \/ ~received[g] THEN -1
                  ELSE IF buf[g] # NoPdu /\ buf[g].sdu = buf[x].sdu /\ IsLast(buf[g])
                  THEN a ELSE -2
      BY <1>1, <1>2, <1>3, <2>2, <3>3 DEF CompleteSdu, Verdict, Incomplete, Inconsistent
    <3>2. ends # {} /\ ends \in SUBSET Nat
      BY <1>0, <1>2, <3>1
    <3>4. g \in ends /\ \A y \in ends : g <= y
      <4> HIDE DEF ends
      <4> QED
        BY <3>2, <3>3, LeastIndex
    <3>5. received[g] /\ buf[g] # NoPdu /\ buf[g].sdu = buf[x].sdu /\ IsLast(buf[g])
      BY <1>2, <3>1, <3>2
    <3>6. g \in (x + 1)..(RxW - 1)
          /\ \A i \in (x + 1)..(g - 1) : ~EndsSearch(buf, received, x, i)
      BY <1>0, <3>4
    <3>7. \A i \in (x + 1)..(g - 1) : received[i]
      BY <3>6 DEF EndsSearch
    <3>8. \A i \in x..g : i = g \/ i = x \/ i \in (x + 1)..(g - 1)
      BY <1>0, <3>6
    <3>9. g \in x..(RxW - 1)
      BY <1>0, <3>6
    <3> QED
      BY <1>0, <3>5, <3>7, <3>8, <3>9
  <2> QED
    BY <2>1, <2>2
<1>5. a \in RxSlots /\ e \in RxSlots
  BY <1>0, <1>3, <1>4
<1>6. /\ buf[a].sno = f + a /\ buf[x].sno = f + x /\ buf[e].sno = f + e
      /\ Fragment(cut, buf[a]) /\ Fragment(cut, buf[x]) /\ Fragment(cut, buf[e])
  BY <1>3, <1>4, <1>5
<1>7. buf[a].first = buf[x].first /\ buf[e].last = buf[x].last
  <2>1. cut[f + a].sdu = cut[f + x].sdu /\ cut[f + e].sdu = cut[f + x].sdu
        /\ f + a \in 0..(txSeq - 1) /\ f + e \in 0..(txSeq - 1) /\ f + x \in 0..(txSeq - 1)
    BY <1>3, <1>4, <1>6 DEF Fragment
  <2>2. cut[f + a] = cut[f + x] /\ cut[f + e] = cut[f + x]
    BY <2>1 DEF Cut
  <2> QED
    BY <1>6, <2>2 DEF Fragment
<1>8. ASSUME NEW sn \in buf[x].first..buf[x].last, ~(sn < f)
      PROVE  sn - f \in RxSlots /\ received[sn - f]
  <2>0. buf[x].first \in Nat /\ buf[x].last \in Nat /\ sn \in Nat
    <3>1. buf[x] \in DataPdu
      BY <1>0
    <3>2. buf[x].first \in Nat /\ buf[x].last \in Nat
      BY <3>1 DEF DataPdu
    <3> QED
      BY <3>2
  <2>1. sn <= f + e
    BY <1>4, <1>6, <1>7, <2>0 DEF IsLast
  <2>2. a = 0 \/ f + a <= sn
    BY <1>3, <1>6, <1>7, <2>0 DEF IsFirst
  <2>3. sn - f \in a..e
    BY <1>0, <1>3, <1>4, <1>8, <2>0, <2>1, <2>2
  <2>4. sn - f \in a..x \/ sn - f \in x..e
    BY <1>0, <1>3, <1>4, <2>3
  <2> QED
    BY <1>0, <1>3, <1>4, <1>5, <2>3, <2>4
<1> QED
  BY <1>2, <1>3, <1>5, <1>8

-----------------------------------------------------------------------------
\* A PDU of the same place in the same SDU.
Alike(m, n) ==
    m.sno = n.sno /\ m.sdu = n.sdu /\ m.first = n.first /\ m.last = n.last

\* A DATA PDU that adds nothing to what is known of its number.
Known(m) == m \in DataPdu => \E n \in Fragments : Alike(m, n)

\* A step that makes no PDU of a new SDU.
TxKept == /\ \A i \in TxSlots : Known(rtx'[i])
          /\ \A m \in InSeq(txBuf') : Known(m)

\* And one that brings none to the MAC or to the receiver.
Kept == /\ TxKept
        /\ \A p \in Procs : Known(air'[p])
        /\ \A i \in RxSlots : Known(rBuf'[i])

\* What is already there is known, and so is what is no DATA PDU.
LEMMA HereKnown ==
    ASSUME NEW m, m \in Fragments \/ m \notin DataPdu
    PROVE  Known(m)
BY DEF Known, Alike

LEMMA KnownHere ==
    ASSUME TypeOK
    PROVE  /\ \A i \in TxSlots : Known(rtx[i])
           /\ \A m \in InSeq(txBuf) : Known(m)
           /\ \A p \in Procs : Known(air[p])
           /\ \A i \in RxSlots : Known(rBuf[i])
<1>1. \A i \in TxSlots : rtx[i] \in Fragments \/ rtx[i] \notin DataPdu
  BY DEF Fragments
<1>2. \A m \in InSeq(txBuf) : m \in Fragments \/ m \notin DataPdu
  BY DEF Fragments
<1>3. \A p \in Procs : air[p] \in Fragments \/ air[p] \notin DataPdu
  BY DEF Fragments
<1>4. \A i \in RxSlots : rBuf[i] \in Fragments \/ rBuf[i] \notin DataPdu
  BY DEF Fragments
<1> QED
  BY <1>1, <1>2, <1>3, <1>4, HereKnown

LEMMA OthersKnown ==
    /\ Known(NoPdu)
    /\ \A m \in MrwPdu : Known(m)
<1>1. NoPdu \notin DataPdu
  BY NoPduAssumption
<1>2. \A m \in MrwPdu : m \notin DataPdu
  BY DEF MrwPdu, DataPdu
<1> QED
  BY <1>1, <1>2, HereKnown

\* Steps that give no new numbers and pass nothing up.
LEMMA OnceStays ==
    ASSUME TypeOK, OnceInv, Kept, UNCHANGED <<txSeq, delivered>>,
           nextSdu' \in Nat, nextSdu <= nextSdu', BufferInPlace',
           \A sn \in Nat : Past(sn) => Past(sn)'
    PROVE  OnceInv' /\ CutsGrow
<1>0. nextSdu \in Nat /\ txSeq \in Nat
  BY DEF TypeOK, TxTypeOK
<1>1. ASSUME NEW cut, CutInv(cut)
      PROVE  CutInv(cut)'
  <2>1. Cut(cut)'
    <3> SUFFICES ASSUME NEW sn \in 0..(txSeq - 1) PROVE cut[sn].sdu < nextSdu'
      BY <1>1 DEF CutInv, Cut
    <3>1. cut[sn].sdu \in Nat /\ cut[sn].sdu < nextSdu
      BY <1>1 DEF CutInv, Cut
    <3> QED
      BY <1>0, <3>1
  <2>2. ASSUME NEW m \in Fragments' PROVE Fragment(cut, m)'
    <3>1. m \in DataPdu /\ Known(m)
      BY DEF Fragments, Kept, TxKept
    <3>2. PICK n \in Fragments : Alike(m, n)
      BY <3>1 DEF Known
    <3>3. Fragment(cut, n)
      BY <1>1 DEF CutInv
    <3> QED
      BY <3>2, <3>3 DEF Alike, Fragment
  <2>3. PassedUp(cut)'
    <3> SUFFICES ASSUME NEW k \in DOMAIN delivered
                 PROVE  \E sn \in 0..(txSeq - 1) :
                          /\ cut[sn].sdu = delivered[k].sdu
                          /\ \A j \in cut[sn].first..cut[sn].last : Past(j)'
      BY DEF PassedUp
    <3>1. PICK sn \in 0..(txSeq - 1) :
             /\ cut[sn].sdu = delivered[k].sdu
             /\ \A j \in cut[sn].first..cut[sn].last : Past(j)
      BY <1>1 DEF CutInv, PassedUp
    <3>2. cut[sn].first \in Nat /\ cut[sn].last \in Nat
      BY <1>1 DEF CutInv, Cut
    <3>3. \A j \in cut[sn].first..cut[sn].last : j \in Nat
      BY <3>2
    <3> QED
      BY <3>1, <3>3
  <2> QED
    BY <2>1, <2>2, <2>3 DEF CutInv
<1>2. CutsGrow
  <2> SUFFICES ASSUME NEW cut, CutInv(cut) PROVE \E c : CutInv(c)' /\ Extends(cut, c)
    BY DEF CutsGrow
  <2>1. Extends(cut, cut)
    BY <1>0 DEF Extends
  <2> QED
    BY <1>1, <2>1
<1>3. \E cut : CutInv(cut)'
  BY <1>1 DEF OnceInv
<1>4. DeliveredOnce'
  BY DEF OnceInv, DeliveredOnce
<1>5. (\E S : delivered \in Seq(S))'
  BY DEF OnceInv
<1> QED
  BY <1>2, <1>3, <1>4, <1>5 DEF OnceInv

\* Events of the transmitter that give no new numbers.
LEMMA TxOnce ==
    ASSUME IInv, OnceInv, TxKept, UNCHANGED <<rxVars, air, txSeq>>,
           nextSdu' \in Nat, nextSdu <= nextSdu'
    PROVE  OnceInv' /\ CutsGrow
<1>0. TypeOK
  BY DEF IInv
<1>1. UNCHANGED <<rBuf, rReceived, rxFirst, delivered>>
  BY DEF rxVars, bufferVars
<1>2. Kept
  BY <1>0, <1>1, KnownHere DEF Kept
<1>3. BufferInPlace'
  BY <1>1 DEF OnceInv, BufferInPlace
<1>4. \A sn \in Nat : Past(sn) => Past(sn)'
  BY <1>1 DEF Past
<1> QED
  BY <1>0, <1>1, <1>2, <1>3, <1>4, OnceStays

-----------------------------------------------------------------------------
\* Another PDU waits.
LEMMA WaitingKnown ==
    ASSUME TypeOK, NEW m \in DataPdu \cup MrwPdu, Known(m),
           txBuf' = Append(txBuf, m)
    PROVE  \A k \in InSeq(txBuf') : Known(k)
<1>1. InSeq(txBuf') \subseteq InSeq(txBuf) \cup {m}
  BY InAppend DEF TypeOK, TxTypeOK
<1> QED
  BY <1>1, KnownHere

\* checkForMrw adds at most a command.
LEMMA CheckForMrwKept ==
    ASSUME IInv, NEW received, NEW discarded, CheckForMrw(received, discarded, txBuf),
           UNCHANGED rtx
    PROVE  TxKept
<1>0. TypeOK /\ txFirst \in Nat /\ mrwSn \in Nat
  BY DEF IInv, TypeOK, TxTypeOK
<1>1. \A i \in TxSlots : Known(rtx'[i])
  BY <1>0, KnownHere
<1>2. PICK k \in 0..TxW : txBuf' = txBuf \/ SendMrw(txFirst + k, txBuf)
  BY DEF CheckForMrw
<1>3. CASE txBuf' = txBuf
  BY <1>0, <1>1, <1>3, KnownHere DEF TxKept
<1>4. CASE SendMrw(txFirst + k, txBuf)
  <2>1. PICK m : m = Mrw(mrwSn, txFirst + k)
    OBVIOUS
  <2>2. m \in MrwPdu
    BY <1>0, <2>1, WindowAssumption DEF Mrw, MrwPdu
  <2>3. txBuf' = Append(txBuf, m)
    BY <1>4, <2>1 DEF SendMrw
  <2>4. \A a \in InSeq(txBuf') : Known(a)
    BY <1>0, <2>2, <2>3, OthersKnown, WaitingKnown
  <2> QED
    BY <1>1, <2>4 DEF TxKept
<1> QED
  BY <1>2, <1>3, <1>4

LEMMA UnchangedKept ==
    ASSUME IInv, UNCHANGED <<rtx, txBuf>>
    PROVE  TxKept
BY KnownHere DEF IInv, TxKept

\* A retransmission makes one more PDU of the same place.
LEMMA RetransmitKept ==
    ASSUME IInv, NEW x \in TxSlots, rtx[x] # NoPdu, ~LastTry(x), Retransmit(x)
    PROVE  TxKept
<1>0. TypeOK /\ rtx \in [TxSlots -> DataPdu \cup {NoPdu}] /\ rtx[x] \in DataPdu
  BY DEF IInv, TypeOK, TxTypeOK
<1>1. PICK p : p = [rtx[x] EXCEPT !.tx = @ + 1]
  OBVIOUS
<1>2. p \in DataPdu /\ Alike(p, rtx[x]) /\ rtx[x] \in Fragments
  BY <1>0, <1>1, ParameterAssumption DEF DataPdu, LastTry, Alike, Fragments
<1>3. PICK free : rtx' = [[rtx EXCEPT ![x] = NoPdu] EXCEPT ![free] = p]
  BY <1>1 DEF Retransmit
<1>4. Known(p)
  BY <1>2 DEF Known
<1>5. \A i \in TxSlots : Known(rtx'[i])
  <2>1. \A i \in TxSlots : rtx'[i] \in {p, NoPdu, rtx[i]}
    BY <1>0, <1>3
  <2> QED
    BY <1>0, <1>4, <2>1, KnownHere, OthersKnown
<1>6. PICK c : c = Copy(p)
  OBVIOUS
<1>7. c \in DataPdu /\ Alike(c, rtx[x])
  BY <1>2, <1>6, ParameterAssumption DEF Copy, DataPdu, Alike
<1>8. Known(c)
  BY <1>2, <1>7 DEF Known
<1>9. txBuf' = Append(txBuf, c)
  BY <1>1, <1>6 DEF Retransmit
<1>10. \A a \in InSeq(txBuf') : Known(a)
  BY <1>0, <1>7, <1>8, <1>9, WaitingKnown
<1> QED
  BY <1>5, <1>10 DEF TxKept

\* The timers of the transmitter.
LEMMA PduTimerOnce ==
    ASSUME IInv, OnceInv, NEW sn \in pduTimer, AtTx(PduTimer(sn))
    PROVE  OnceInv' /\ CutsGrow
<1> DEFINE x == sn - txFirst
<1>0. UNCHANGED <<rxVars, air>> /\ nextSdu \in Nat
  BY DEF AtTx, chanVars, IInv, TypeOK, TxTypeOK
<1>1. CASE \E e : TxThrow(e)
  <2>1. UNCHANGED <<rtx, txBuf, txSeq, nextSdu>>
    BY <1>1 DEF TxThrow, windowVars, sduVars
  <2>2. TxKept
    BY <2>1, UnchangedKept
  <2> QED
    BY <1>0, <2>1, <2>2, TxOnce
<1>2. CASE Discard(x, pduTimer \ {sn}) /\ UNCHANGED <<txSeq, rtx, nextSdu>>
  <2>1. PICK marked : CheckForMrw(tReceived, marked, txBuf)
    BY <1>2 DEF Discard
  <2>2. TxKept
    BY <1>2, <2>1, CheckForMrwKept
  <2> QED
    BY <1>0, <1>2, <2>2, TxOnce
<1>3. CASE x \in TxSlots /\ rtx[x] # NoPdu /\ ~LastTry(x) /\ Retransmit(x) /\ UNCHANGED nextSdu
  <2>1. TxKept
    BY <1>3, RetransmitKept
  <2>2. UNCHANGED txSeq
    BY <1>3 DEF Retransmit
  <2> QED
    BY <1>0, <1>3, <2>1, <2>2, TxOnce
<1> HIDE DEF x
<1> QED
  BY <1>1, <1>2, <1>3 DEF AtTx, PduTimer, x

LEMMA MrwTimerOnce ==
    ASSUME IInv, OnceInv, NEW serial \in mrwTimer, AtTx(MrwTimer(serial))
    PROVE  OnceInv' /\ CutsGrow
<1>0. /\ UNCHANGED <<rxVars, air>> /\ nextSdu \in Nat
      /\ TypeOK /\ mrwQ \subseteq MrwPdu
  BY DEF AtTx, chanVars, IInv, TypeOK, TxTypeOK
<1>1. UNCHANGED <<rtx, txSeq, nextSdu>>
  BY DEF AtTx, MrwTimer, TxThrow, windowVars, sduVars
<1>2. txBuf' = txBuf \/ \E m \in mrwQ : txBuf' = Append(txBuf, m)
  BY DEF AtTx, MrwTimer, TxThrow
<1>3. TxKept
  <2>1. CASE txBuf' = txBuf
    BY <1>1, <2>1, UnchangedKept
  <2>2. ASSUME NEW m \in mrwQ, txBuf' = Append(txBuf, m)
        PROVE  TxKept
    <3>1. m \in MrwPdu /\ Known(m)
      BY <1>0, OthersKnown
    <3>2. \A a \in InSeq(txBuf') : Known(a)
      BY <1>0, <2>2, <3>1, WaitingKnown
    <3> QED
      BY <1>0, <1>1, <3>2, KnownHere DEF TxKept
  <2> QED
    BY <1>2, <2>1, <2>2
<1> QED
  BY <1>0, <1>1, <1>3, TxOnce

LEMMA BufferStatusTimerOnce ==
    ASSUME IInv, OnceInv, AtTx(BufferStatusTimer)
    PROVE  OnceInv' /\ CutsGrow
<1>0. UNCHANGED <<rxVars, air>> /\ nextSdu \in Nat
  BY DEF AtTx, chanVars, IInv, TypeOK, TxTypeOK
<1>1. UNCHANGED <<rtx, txSeq, nextSdu>> /\ CheckForMrw(tReceived, tDiscarded, txBuf)
  BY DEF AtTx, BufferStatusTimer, windowVars, sduVars
<1>2. TxKept
  BY <1>1, CheckForMrwKept
<1> QED
  BY <1>0, <1>1, <1>2, TxOnce

\* Answers that come to the transmitter.
LEMMA RecvCtlOnce ==
    ASSUME IInv, OnceInv, UNCHANGED <<rxVars, air>>,
           NEW m \in AckPdu \cup MrwAckPdu,
           (m \in AckPdu /\ RecvAck(m)) \/ (m \in MrwAckPdu /\ RecvMrwAck(m))
    PROVE  OnceInv' /\ CutsGrow
<1>0. /\ nextSdu \in Nat /\ TypeOK /\ txFirst \in Nat /\ txSeq \in Nat
      /\ txSeq < txFirst + TxW /\ TxW \in Nat
      /\ rtx \in [TxSlots -> DataPdu \cup {NoPdu}]
  BY WindowAssumption DEF IInv, TypeOK, TxTypeOK, WindowsTogether
<1>1. CASE \E e : TxThrow(e)
  <2>1. UNCHANGED <<rtx, txBuf, txSeq, nextSdu>>
    BY <1>1 DEF TxThrow, windowVars, sduVars
  <2>2. TxKept
    BY <2>1, UnchangedKept
  <2> QED
    BY <1>0, <2>1, <2>2, TxOnce
<1>2. CASE RecvAck(m) /\ ~ \E e : TxThrow(e)
  <2>1. UNCHANGED <<rtx, txSeq, nextSdu>>
    BY <1>2 DEF RecvAck, sduVars
  <2>2. txBuf' = txBuf \/ \E flags : CheckForMrw(flags, tDiscarded, txBuf)
    BY <1>2 DEF RecvAck
  <2>3. TxKept
    BY <2>1, <2>2, UnchangedKept, CheckForMrwKept
  <2> QED
    BY <1>0, <2>1, <2>3, TxOnce
<1>3. CASE RecvMrwAck(m) /\ m \in MrwAckPdu /\ ~ \E e : TxThrow(e)
  <2>0. m.first \in Nat
    BY <1>3 DEF MrwAckPdu
  <2>1. UNCHANGED <<txSeq, nextSdu, txBuf>>
    BY <1>3 DEF RecvMrwAck, windowVars, sduVars
  <2>2. \/ rtx' = rtx
        \/ m.first - txFirst > 0 /\ rtx' = Shifted(rtx, m.first - txFirst, NoPdu)
    BY <1>3 DEF RecvMrwAck, windowVars
  <2>3. CASE rtx' = rtx
    <3>1. TxKept
      BY <2>1, <2>3, UnchangedKept
    <3> QED
      BY <1>0, <2>1, <3>1, TxOnce
  <2>4. CASE m.first - txFirst > 0 /\ rtx' = Shifted(rtx, m.first - txFirst, NoPdu)
    <3>1. ASSUME NEW i \in TxSlots PROVE Known(rtx'[i])
      <4>1. CASE i + (m.first - txFirst) < TxUsed
        <5>1. i + (m.first - txFirst) \in TxSlots
          BY <1>0, <2>0, <2>4, <4>1 DEF TxSlots, TxUsed
        <5>2. rtx'[i] = rtx[i + (m.first - txFirst)]
          BY <2>4, <4>1 DEF Shifted
        <5> QED
          BY <1>0, <5>1, <5>2, KnownHere
      <4>2. CASE ~(i + (m.first - txFirst) < TxUsed)
        <5>1. rtx'[i] = NoPdu
          BY <2>4, <4>2 DEF Shifted
        <5> QED
          BY <5>1, OthersKnown
      <4> QED
        BY <4>1, <4>2
    <3>2. TxKept
      BY <1>0, <2>1, <3>1, KnownHere DEF TxKept
    <3> QED
      BY <1>0, <2>1, <3>2, TxOnce
  <2> QED
    BY <2>2, <2>3, <2>4
<1> QED
  BY <1>1, <1>2, <1>3

-----------------------------------------------------------------------------
\* enque: the fragments of a new SDU take the next numbers.
LEMMA EnqueOnce ==
    ASSUME IInv, OnceInv, NEW n \in SduFrags, AtTx(Enque(n))
    PROVE  OnceInv' /\ CutsGrow
<1> DEFINE new == TxUsed..(TxUsed + n - 1)
           Frag(i) == Data(txFirst + i, nextSdu, txSeq, txSeq + n - 1)
           ours == [k \in 1..n |-> Frag(TxUsed + k - 1)]
<1>0. /\ n \in Nat \ {0} /\ txFirst \in Nat /\ txSeq \in Nat /\ nextSdu \in Nat
      /\ TxUsed \in Nat /\ TxUsed = txSeq - txFirst
      /\ UNCHANGED <<rxVars, air>> /\ TypeOK
      /\ txBuf \in Seq(DataPdu \cup MrwPdu)
  BY ParameterAssumption, WindowArithmetic
     DEF AtTx, chanVars, IInv, TypeOK, TxTypeOK, TxUsed, WindowsTogether
<1>1. CASE UNCHANGED <<rtx, txBuf, txSeq>> /\ nextSdu' \in {nextSdu, nextSdu + 1}
  <2>1. TxKept
    BY <1>1, UnchangedKept
  <2> QED
    BY <1>0, <1>1, <2>1, TxOnce
<1>2. CASE /\ rtx' = [i \in TxSlots |-> IF i \in new THEN Frag(i) ELSE rtx[i]]
           /\ txSeq' = txSeq + n
           /\ txBuf' = txBuf \o ours
           /\ nextSdu' = nextSdu + 1
  <2>0. UNCHANGED <<delivered, rxFirst, rReceived, rBuf>>
    BY <1>0 DEF rxVars, bufferVars
  <2>1. ASSUME NEW cut, CutInv(cut)
        PROVE  \E c : CutInv(c)' /\ Extends(cut, c)
    <3>1. PICK fresh : fresh = [sdu |-> nextSdu, first |-> txSeq, last |-> txSeq + n - 1]
      OBVIOUS
    <3>2. PICK c : c = [sn \in 0..(txSeq + n - 1) |-> IF sn < txSeq THEN cut[sn] ELSE fresh]
      OBVIOUS
    <3>3. /\ \A sn \in 0..(txSeq - 1) : c[sn] = cut[sn] /\ sn \in 0..(txSeq' - 1)
          /\ \A sn \in txSeq..(txSeq + n - 1) : c[sn] = fresh
          /\ \A sn \in 0..(txSeq' - 1) :
                sn \in 0..(txSeq - 1) \/ sn \in txSeq..(txSeq + n - 1)
      BY <1>0, <1>2, <3>2
    <3>4. /\ fresh.sdu = nextSdu /\ fresh.first = txSeq /\ fresh.last = txSeq + n - 1
          /\ fresh \in [sdu : Nat, first : Nat, last : Nat]
      BY <1>0, <3>1
    <3>5. Cut(c)'
      <4>1. ASSUME NEW sn \in 0..(txSeq - 1)
            PROVE  /\ c[sn] \in [sdu : Nat, first : Nat, last : Nat]
                   /\ c[sn].first <= sn /\ sn <= c[sn].last
                   /\ c[sn].last < txSeq' /\ c[sn].sdu < nextSdu
        <5>1. /\ cut[sn] \in [sdu : Nat, first : Nat, last : Nat]
              /\ cut[sn].first <= sn /\ sn <= cut[sn].last
              /\ cut[sn].last < txSeq /\ cut[sn].sdu < nextSdu
          BY <2>1 DEF CutInv, Cut
        <5>2. cut[sn].last \in Nat
          BY <5>1
        <5> QED
          BY <1>0, <1>2, <3>3, <5>1, <5>2
      <4>2. ASSUME NEW sn \in txSeq..(txSeq + n - 1)
            PROVE  /\ c[sn] \in [sdu : Nat, first : Nat, last : Nat]
                   /\ c[sn].first <= sn /\ sn <= c[sn].last
                   /\ c[sn].last < txSeq' /\ c[sn].sdu < nextSdu'
        <5>1. c[sn] = fresh /\ sn \in Nat /\ txSeq <= sn /\ sn <= txSeq + n - 1
          BY <1>0, <3>3
        <5> QED
          BY <1>0, <1>2, <3>4, <5>1
      <4>3. ASSUME NEW sn \in 0..(txSeq' - 1), NEW k \in 0..(txSeq' - 1), c[k].sdu = c[sn].sdu
            PROVE  c[k] = c[sn]
        <5>1. CASE sn \in 0..(txSeq - 1) /\ k \in 0..(txSeq - 1)
          <6>1. c[sn] = cut[sn] /\ c[k] = cut[k] /\ cut[k].sdu = cut[sn].sdu
            BY <3>3, <4>3, <5>1
          <6>2. cut[k] = cut[sn]
            BY <2>1, <5>1, <6>1 DEF CutInv, Cut
          <6> QED
            BY <6>1, <6>2
        <5>2. CASE sn \in txSeq..(txSeq + n - 1) /\ k \in txSeq..(txSeq + n - 1)
          BY <3>3, <5>2
        <5>3. \A a \in 0..(txSeq - 1) : \A b \in txSeq..(txSeq + n - 1) : c[a].sdu # c[b].sdu
          <6> SUFFICES ASSUME NEW a \in 0..(txSeq - 1), NEW b \in txSeq..(txSeq + n - 1)
                       PROVE  c[a].sdu # c[b].sdu
            OBVIOUS
          <6>1. c[a].sdu \in Nat /\ c[a].sdu < nextSdu
            BY <4>1
          <6>2. c[b].sdu = nextSdu
            BY <3>3, <3>4
          <6> QED
            BY <1>0, <6>1, <6>2
        <5> QED
          BY <3>3, <4>3, <5>1, <5>2, <5>3
      <4>4. \A sn \in 0..(txSeq - 1) : c[sn].sdu < nextSdu'
        <5> SUFFICES ASSUME NEW sn \in 0..(txSeq - 1) PROVE c[sn].sdu < nextSdu'
          OBVIOUS
        <5>1. c[sn].sdu \in Nat /\ c[sn].sdu < nextSdu
          BY <4>1
        <5> QED
          BY <1>0, <1>2, <5>1
      <4>5. ASSUME NEW sn \in 0..(txSeq' - 1)
            PROVE  /\ c[sn] \in [sdu : Nat, first : Nat, last : Nat]
                   /\ c[sn].first <= sn /\ sn <= c[sn].last
                   /\ c[sn].last < txSeq' /\ c[sn].sdu < nextSdu'
        BY <3>3, <4>1, <4>2, <4>4
      <4> QED
        BY <4>3, <4>5 DEF Cut
    <3>6. ASSUME NEW i \in new, NEW m, m = Frag(i)
          PROVE  Fragment(c, m)'
      <4>2. /\ m.sno = txFirst + i /\ m.sdu = nextSdu
            /\ m.first = txSeq /\ m.last = txSeq + n - 1
        BY <3>6 DEF Data
      <4>3. txFirst + i \in txSeq..(txSeq + n - 1) /\ txFirst + i \in 0..(txSeq' - 1)
        BY <1>0, <1>2
      <4>4. c[m.sno] = fresh /\ m.sno \in 0..(txSeq' - 1)
        BY <3>3, <4>2, <4>3
      <4> QED
        BY <3>4, <4>2, <4>4 DEF Fragment
    <3>7. ASSUME NEW m \in Fragments
          PROVE  Fragment(c, m)'
      <4>1. Fragment(cut, m)
        BY <2>1 DEF CutInv
      <4> QED
        BY <3>3, <4>1 DEF Fragment
    <3>8. ASSUME NEW m \in Fragments'
          PROVE  m \in Fragments \/ \E i \in new : m = Frag(i)
      <4>1. UNCHANGED <<air, rBuf>>
        BY <1>0 DEF rxVars, bufferVars
      <4>2. \A i \in TxSlots : rtx'[i] = rtx[i] \/ (i \in new /\ rtx'[i] = Frag(i))
        BY <1>2
      <4>3. InSeq(txBuf') \subseteq InSeq(txBuf) \cup {Frag(i) : i \in new}
        <5>1. \A k \in 1..n : TxUsed + k - 1 \in new
          BY <1>0
        <5>2. PICK S : S = DataPdu \cup MrwPdu \cup {Frag(i) : i \in new}
          OBVIOUS
        <5>3. ours \in Seq(S) /\ Len(ours) = n
          <6>1. \A k \in 1..n : Frag(TxUsed + k - 1) \in S
            BY <5>1, <5>2
          <6> HIDE DEF Frag, new
          <6> QED
            BY <1>0, <6>1
        <5>4. txBuf \in Seq(S)
          BY <1>0, <5>2
        <5>5. InSeq(txBuf') \subseteq InSeq(txBuf) \cup InSeq(ours)
          <6> HIDE DEF ours
          <6> QED
            BY <1>2, <5>3, <5>4, InConcat
        <5>6. InSeq(ours) \subseteq {Frag(i) : i \in new}
          <6> SUFFICES ASSUME NEW k \in 1..n PROVE ours[k] \in {Frag(i) : i \in new}
            BY <5>3 DEF InSeq
          <6> HIDE DEF Frag, new
          <6> QED
            BY <5>1
        <5> QED
          BY <5>5, <5>6
      <4> HIDE DEF Frag, new
      <4> QED
        BY <4>1, <4>2, <4>3 DEF Fragments
    <3>9. \A m \in Fragments' : Fragment(c, m)'
      <4> HIDE DEF Frag, new
      <4> QED
        BY <3>6, <3>7, <3>8
    <3>10. PassedUp(c)'
      <4> SUFFICES ASSUME NEW k \in DOMAIN delivered
                   PROVE  \E sn \in 0..(txSeq' - 1) :
                            /\ c[sn].sdu = delivered[k].sdu
                            /\ \A j \in c[sn].first..c[sn].last : Past(j)'
        BY <2>0 DEF PassedUp
      <4>1. PICK sn \in 0..(txSeq - 1) :
               /\ cut[sn].sdu = delivered[k].sdu
               /\ \A j \in cut[sn].first..cut[sn].last : Past(j)
        BY <2>1 DEF CutInv, PassedUp
      <4>2. \A j : Past(j) => Past(j)'
        BY <2>0 DEF Past
      <4> QED
        BY <3>3, <4>1, <4>2
    <3>11. CutInv(c)'
      BY <3>5, <3>9, <3>10 DEF CutInv
    <3>12. Extends(cut, c)
      <4>1. txSeq' - 1 = txSeq + n - 1
        BY <1>0, <1>2
      <4>2. \A sn \in 0..(txSeq - 1) : c[sn] = cut[sn]
        BY <3>3
      <4> HIDE DEF Frag, new, ours
      <4> QED
        BY <3>1, <3>3, <4>1, <4>2 DEF Extends
    <3> QED
      BY <3>11, <3>12
  <2>2. BufferInPlace'
    <3> SUFFICES ASSUME NEW i \in RxSlots, rBuf[i] # NoPdu
                 PROVE  rBuf[i].sno = rxFirst + i /\ rBuf[i].sno < txSeq'
      BY <2>0 DEF BufferInPlace
    <3>1. rBuf[i].sno = rxFirst + i /\ rBuf[i].sno < txSeq /\ rBuf[i] \in DataPdu
      BY <1>0 DEF OnceInv, BufferInPlace, TypeOK, RxTypeOK
    <3>2. rBuf[i].sno \in Nat
      BY <3>1 DEF DataPdu
    <3> QED
      BY <1>0, <1>2, <3>1, <3>2
  <2>3. DeliveredOnce' /\ (\E S : delivered \in Seq(S))'
    BY <2>0 DEF OnceInv, DeliveredOnce
  <2>4. \E c : CutInv(c)'
    BY <2>1 DEF OnceInv
  <2> QED
    BY <2>1, <2>2, <2>3, <2>4 DEF OnceInv, CutsGrow
<1>3. CASE \E e : TxThrow(e)
  <2>1. UNCHANGED <<rtx, txBuf, txSeq, nextSdu>>
    BY <1>3 DEF TxThrow, windowVars, sduVars
  <2> QED
    BY <1>1, <2>1
<1> HIDE DEF new, Frag, ours
<1> QED
  BY <1>1, <1>2, <1>3 DEF AtTx, Enque, windowVars, new, Frag, ours

-----------------------------------------------------------------------------
\* enque, DATA, at the receiver: what it does to the buffer and to the history.
DataStored(p) ==
    LET x == p.sno - rxFirst IN
    /\ x \in RxSlots /\ ~rReceived[x]
    /\ rBuf' = [rBuf EXCEPT ![x] = p]
    /\ rReceived' = [rReceived EXCEPT ![x] = TRUE]

DataPassedUp(p, start, e) ==
    /\ start = CompleteSdu([rBuf EXCEPT ![p.sno - rxFirst] = p],
                           [rReceived EXCEPT ![p.sno - rxFirst] = TRUE],
                           SduAtStart(p), p.sno - rxFirst)
    /\ start >= 0
    /\ e.sdu = rBuf'[start].sdu
    /\ delivered' = Append(delivered, e)

\* What enque does to the buffer, for a PDU that is not yet received, and for the
\* others.
LEMMA RecvDataCases ==
    ASSUME NEW p, RecvData(p)
    PROVE  /\ UNCHANGED rxFirst
           /\ \/ UNCHANGED <<rBuf, rReceived, delivered>>
              \/ DataStored(p) /\ UNCHANGED delivered
              \/ DataStored(p) /\ \E start, e : DataPassedUp(p, start, e)
<1> DEFINE x == p.sno - rxFirst
           buf == [rBuf EXCEPT ![x] = p]
           received == [rReceived EXCEPT ![x] = TRUE]
<1>1. PICK start : start = CompleteSdu(buf, received, SduAtStart(p), x)
  OBVIOUS
<1>2. \A e : RxThrow(e) => UNCHANGED <<rxFirst, rBuf, rReceived, delivered>>
  BY DEF RxThrow, bufferVars
<1>3. Noted(p) => UNCHANGED rxFirst
  BY DEF Noted
<1>4. ASSUME rBuf' = buf, PassUp(buf, start), start >= 0
      PROVE  \E a, e : DataPassedUp(p, a, e)
  <2>1. PICK e : e = [sdu |-> buf[start].sdu, frames |-> Frames(buf, start)]
    OBVIOUS
  <2>2. e.sdu = rBuf'[start].sdu
    BY <1>4, <2>1
  <2>3. delivered' = Append(delivered, e)
    BY <1>4, <2>1 DEF PassUp
  <2> QED
    BY <1>1, <1>4, <2>2, <2>3 DEF DataPassedUp
<1>5. ASSUME x \in RxSlots, ~rReceived[x], StoreData(p)
      PROVE  /\ UNCHANGED rxFirst
             /\ \/ UNCHANGED <<rBuf, rReceived, delivered>>
                \/ DataStored(p) /\ UNCHANGED delivered
                \/ DataStored(p) /\ \E a, e : DataPassedUp(p, a, e)
  <2>1. \/ \E e : RxThrow(e)
        \/ Noted(p) /\ rBuf' = buf /\ rReceived' = received /\ UNCHANGED delivered
        \/ /\ Noted(p) /\ rBuf' = buf /\ rReceived' = received
           /\ start >= 0 /\ PassUp(buf, start)
    BY <1>1, <1>5 DEF StoreData
  <2>2. CASE \E e : RxThrow(e)
    BY <1>2, <2>2
  <2>3. CASE Noted(p) /\ rBuf' = buf /\ rReceived' = received
    <3>1. DataStored(p) /\ UNCHANGED rxFirst
      BY <1>3, <1>5, <2>3 DEF DataStored
    <3>2. UNCHANGED delivered \/ \E a, e : DataPassedUp(p, a, e)
      <4> HIDE DEF buf, received
      <4> QED
        BY <1>2, <1>4, <2>1, <2>3, <3>1 DEF RxThrow
    <3> QED
      BY <3>1, <3>2
  <2> QED
    BY <2>1, <2>2, <2>3
<1> HIDE DEF x
<1> QED
  BY <1>2, <1>3, <1>5 DEF RecvData, bufferVars, x

\* A step of the receiver that takes a DATA PDU of the cut, passing it up or not.
LEMMA RecvDataOnce ==
    ASSUME IInv, OnceInv, NEW p \in DataPdu, p \in Fragments, RecvData(p),
           UNCHANGED txVars, PduTaken
    PROVE  OnceInv' /\ CutsGrow
<1>0. /\ TypeOK /\ UNCHANGED <<txSeq, rtx, txBuf, nextSdu>>
      /\ nextSdu \in Nat /\ txSeq \in Nat /\ rxFirst \in Nat /\ p.sno \in Nat
      /\ rReceived \in [RxSlots -> BOOLEAN]
      /\ rBuf \in [RxSlots -> DataPdu \cup {NoPdu}]
      /\ p # NoPdu
  BY NoPduAssumption
     DEF IInv, TypeOK, TxTypeOK, RxTypeOK, DataPdu, txVars, windowVars, sduVars
<1>1. \A cut : CutInv(cut) => Fragment(cut, p)
  BY DEF CutInv
<1>2. p.sno < txSeq
  BY <1>0, <1>1 DEF OnceInv, Fragment
<1>3. UNCHANGED rxFirst
  BY RecvDataCases
<1>4. UNCHANGED rBuf \/ (p.sno - rxFirst \in RxSlots
                         /\ rBuf' = [rBuf EXCEPT ![p.sno - rxFirst] = p])
  BY RecvDataCases DEF DataStored
<1>5. BufferInPlace'
  BY <1>0, <1>2, <1>3, <1>4, StoreKeepsPlace DEF OnceInv
<1>6. Kept
  <2>1. TxKept
    BY <1>0, UnchangedKept
  <2>2. \A q \in Procs : Known(air'[q])
    BY <1>0, KnownHere, OthersKnown DEF PduTaken
  <2>3. Known(p)
    BY HereKnown
  <2>4. \A i \in RxSlots : rBuf'[i] = rBuf[i] \/ rBuf'[i] = p
    BY <1>0, <1>4
  <2>5. \A i \in RxSlots : Known(rBuf'[i])
    BY <1>0, <2>3, <2>4, KnownHere
  <2> QED
    BY <2>1, <2>2, <2>5 DEF Kept
<1>7. \A sn \in Nat : Past(sn) => Past(sn)'
  <2>1. \A i \in RxSlots : rReceived[i] => rReceived'[i]
    BY <1>0, RecvDataCases DEF DataStored
  <2> QED
    BY <1>3, <2>1 DEF Past
<1>8. CASE UNCHANGED delivered
  BY <1>0, <1>5, <1>6, <1>7, <1>8, OnceStays
<1>9. ASSUME DataStored(p), NEW start, NEW e, DataPassedUp(p, start, e),
             NEW cut, CutInv(cut)
      PROVE  DeliveredOnce' /\ (\E A : delivered \in Seq(A))' /\ CutInv(cut)'
  <2> DEFINE x == p.sno - rxFirst
  <2>1. PICK buf : buf = [rBuf EXCEPT ![x] = p]
    OBVIOUS
  <2>2. PICK received : received = [rReceived EXCEPT ![x] = TRUE]
    OBVIOUS
  <2>3. /\ x \in RxSlots /\ ~rReceived[x] /\ rBuf' = buf /\ rReceived' = received
        /\ start = CompleteSdu(buf, received, SduAtStart(p), x) /\ start >= 0
        /\ e.sdu = buf[start].sdu /\ delivered' = Append(delivered, e)
    BY <1>9, <2>1, <2>2 DEF DataStored, DataPassedUp
  <2> HIDE DEF x
  <2>4. /\ buf \in [RxSlots -> DataPdu \cup {NoPdu}]
        /\ received \in [RxSlots -> BOOLEAN]
        /\ buf[x] = p /\ received[x]
    BY <1>0, <2>1, <2>2, <2>3
  <2>5. ASSUME NEW i \in RxSlots, buf[i] # NoPdu
        PROVE  buf[i].sno = rxFirst + i /\ Fragment(cut, buf[i])
    <3>1. CASE i = x
      <4>1. p.sno = rxFirst + x
        BY <1>0 DEF x
      <4> QED
        BY <1>1, <1>9, <2>4, <3>1, <4>1
    <3>2. CASE i # x
      <4>1. buf[i] = rBuf[i] /\ rBuf[i] # NoPdu /\ rBuf[i] \in DataPdu
        BY <1>0, <2>1, <2>5, <3>2
      <4>2. rBuf[i] \in Fragments
        BY <4>1 DEF Fragments
      <4>3. Fragment(cut, rBuf[i])
        BY <1>9, <4>2 DEF CutInv
      <4> QED
        BY <4>1, <4>3 DEF OnceInv, BufferInPlace
    <3> QED
      BY <3>1, <3>2
  <2>6. Cut(cut)
    BY <1>9 DEF CutInv
  <2>7. /\ start \in RxSlots /\ buf[start].sdu = p.sdu
        /\ \A sn \in p.first..p.last :
              sn < rxFirst \/ (sn - rxFirst \in RxSlots /\ received[sn - rxFirst])
    <3>1. PICK s : s = SduAtStart(p)
      OBVIOUS
    <3>2. start = CompleteSdu(buf, received, s, x)
      BY <2>3, <3>1
    <3>3. buf[x] # NoPdu
      BY <1>0, <2>4
    <3>4. /\ start \in RxSlots /\ buf[start].sdu = buf[x].sdu
          /\ \A sn \in buf[x].first..buf[x].last :
                sn < rxFirst \/ (sn - rxFirst \in RxSlots /\ received[sn - rxFirst])
      BY <1>0, <2>3, <2>4, <2>5, <2>6, <3>2, <3>3, CompleteFound
    <3> QED
      BY <2>4, <3>4
  <2>8. e.sdu = p.sdu
    BY <2>3, <2>7
  <2>9. \A sn \in p.first..p.last : Past(sn)'
    BY <1>3, <2>3, <2>7 DEF Past
  <2>10. /\ p.sno \in 0..(txSeq - 1) /\ cut[p.sno].sdu = p.sdu
         /\ cut[p.sno].first = p.first /\ cut[p.sno].last = p.last
         /\ p.first \in Nat /\ p.last \in Nat /\ p.first <= p.sno /\ p.sno <= p.last
    <3>1. /\ p.sno \in 0..(txSeq - 1) /\ cut[p.sno].sdu = p.sdu
          /\ cut[p.sno].first = p.first /\ cut[p.sno].last = p.last
      BY <1>1, <1>9 DEF Fragment
    <3>2. /\ cut[p.sno] \in [sdu : Nat, first : Nat, last : Nat]
          /\ cut[p.sno].first <= p.sno /\ p.sno <= cut[p.sno].last
      BY <2>6, <3>1 DEF Cut
    <3>3. cut[p.sno].first \in Nat /\ cut[p.sno].last \in Nat
      BY <3>2
    <3> QED
      BY <3>1, <3>2, <3>3
  <2>11. ASSUME NEW k \in DOMAIN delivered PROVE delivered[k].sdu # e.sdu
    <3> SUFFICES ASSUME delivered[k].sdu = p.sdu PROVE FALSE
      BY <2>8
    <3>1. PICK sn \in 0..(txSeq - 1) :
             /\ cut[sn].sdu = delivered[k].sdu
             /\ \A j \in cut[sn].first..cut[sn].last : Past(j)
      BY <1>9 DEF CutInv, PassedUp
    <3>2. cut[sn].sdu = cut[p.sno].sdu
      BY <2>10, <3>1
    <3>3. cut[sn] = cut[p.sno]
      BY <2>6, <2>10, <3>2 DEF Cut
    <3>4. p.sno \in cut[sn].first..cut[sn].last
      BY <1>0, <2>10, <3>3
    <3>5. Past(p.sno)
      BY <3>1, <3>4
    <3>6. x \in RxSlots /\ ~rReceived[x] /\ x = p.sno - rxFirst
      BY <2>3 DEF x
    <3>7. ~(p.sno < rxFirst)
      BY <1>0, <3>6 DEF RxSlots
    <3> QED
      BY <3>5, <3>6, <3>7 DEF Past
  <2>12. PICK S : delivered \in Seq(S)
    BY DEF OnceInv
  <2>13. PICK T : T = S \cup {e}
    OBVIOUS
  <2>14. /\ delivered \in Seq(T) /\ e \in T
         /\ delivered' \in Seq(T)
         /\ DOMAIN delivered = 1..Len(delivered) /\ Len(delivered) \in Nat
         /\ DOMAIN delivered' = 1..(Len(delivered) + 1)
    <3>1. delivered \in Seq(T) /\ e \in T
      BY <2>12, <2>13
    <3> QED
      BY <2>3, <3>1
  <2>15. /\ \A k \in DOMAIN delivered : k \in DOMAIN delivered' /\ delivered'[k] = delivered[k]
         /\ \A k \in DOMAIN delivered' : k \in DOMAIN delivered \/ k = Len(delivered) + 1
         /\ delivered'[Len(delivered) + 1] = e
    BY <2>3, <2>14
  <2>16. DeliveredOnce'
    <3> SUFFICES ASSUME NEW j \in DOMAIN delivered', NEW k \in DOMAIN delivered',
                        delivered'[j].sdu = delivered'[k].sdu
                 PROVE  j = k
      BY DEF DeliveredOnce
    <3>1. CASE j \in DOMAIN delivered /\ k \in DOMAIN delivered
      BY <2>15, <3>1 DEF OnceInv, DeliveredOnce
    <3>2. CASE j = Len(delivered) + 1 /\ k \in DOMAIN delivered
      <4>1. delivered[k].sdu = e.sdu
        BY <2>15, <3>2
      <4> QED
        BY <2>11, <3>2, <4>1
    <3>3. CASE k = Len(delivered) + 1 /\ j \in DOMAIN delivered
      <4>1. delivered[j].sdu = e.sdu
        BY <2>15, <3>3
      <4> QED
        BY <2>11, <3>3, <4>1
    <3> QED
      BY <2>15, <3>1, <3>2, <3>3
  <2>17. PassedUp(cut)'
    <3> SUFFICES ASSUME NEW k \in DOMAIN delivered'
                 PROVE  \E sn \in 0..(txSeq - 1) :
                          /\ cut[sn].sdu = delivered'[k].sdu
                          /\ \A j \in cut[sn].first..cut[sn].last : Past(j)'
      BY <1>0 DEF PassedUp
    <3>1. CASE k \in DOMAIN delivered
      <4>1. PICK sn \in 0..(txSeq - 1) :
               /\ cut[sn].sdu = delivered[k].sdu
               /\ \A j \in cut[sn].first..cut[sn].last : Past(j)
        BY <1>9, <3>1 DEF CutInv, PassedUp
      <4>2. cut[sn] \in [sdu : Nat, first : Nat, last : Nat]
        BY <2>6 DEF Cut
      <4>3. \A j \in cut[sn].first..cut[sn].last : j \in Nat
        BY <4>2
      <4>4. \A j \in cut[sn].first..cut[sn].last : Past(j)'
        BY <1>7, <4>1, <4>3
      <4> QED
        BY <2>15, <3>1, <4>1, <4>4
    <3>2. CASE k = Len(delivered) + 1
      <4>1. delivered'[k].sdu = p.sdu
        BY <2>8, <2>15, <3>2
      <4> QED
        BY <2>9, <2>10, <4>1
    <3> QED
      BY <2>15, <3>1, <3>2
  <2>18. ASSUME NEW m \in Fragments' PROVE Fragment(cut, m)'
    <3>1. m \in DataPdu /\ Known(m)
      BY <1>6 DEF Fragments, Kept, TxKept
    <3>2. PICK n \in Fragments : Alike(m, n)
      BY <3>1 DEF Known
    <3>3. Fragment(cut, n)
      BY <1>9 DEF CutInv
    <3> QED
      BY <1>0, <3>2, <3>3 DEF Alike, Fragment
  <2>19. Cut(cut)'
    BY <1>0, <2>6 DEF Cut
  <2>20. CutInv(cut)'
    BY <2>17, <2>18, <2>19 DEF CutInv
  <2>21. (\E A : delivered \in Seq(A))'
    BY <2>14
  <2> QED
    BY <2>16, <2>20, <2>21
<1>10. ASSUME DataStored(p), \E start, e : DataPassedUp(p, start, e)
       PROVE  OnceInv' /\ CutsGrow
  <2>1. PICK start, e : DataPassedUp(p, start, e)
    BY <1>10
  <2>2. ASSUME NEW cut, CutInv(cut)
        PROVE  DeliveredOnce' /\ (\E A : delivered \in Seq(A))' /\ CutInv(cut)'
    BY <1>9, <1>10, <2>1, <2>2
  <2>3. \A cut : Extends(cut, cut)
    BY <1>0 DEF Extends
  <2> QED
    BY <1>5, <2>2, <2>3 DEF OnceInv, CutsGrow
<1> QED
  BY RecvDataCases, <1>8, <1>10

\* enque, MRW: what leaves the window is before it, and the flags move with it.
LEMMA RecvMrwOnce ==
    ASSUME IInv, OnceInv, NEW m \in MrwPdu, RecvMrw(m), UNCHANGED txVars, PduTaken
    PROVE  OnceInv' /\ CutsGrow
<1>0. /\ TypeOK /\ UNCHANGED <<txSeq, rtx, txBuf, nextSdu>>
      /\ nextSdu \in Nat /\ txSeq \in Nat /\ rxFirst \in Nat /\ m.target \in Nat
      /\ RxW \in Nat /\ rBuf \in [RxSlots -> DataPdu \cup {NoPdu}]
  BY WindowAssumption
     DEF IInv, TypeOK, TxTypeOK, RxTypeOK, MrwPdu, txVars, windowVars, sduVars
<1>1. UNCHANGED delivered
  BY DEF RecvMrw, RxThrow
<1>2. TxKept /\ \A q \in Procs : Known(air'[q])
  BY <1>0, UnchangedKept, KnownHere, OthersKnown DEF PduTaken
<1>3. CASE UNCHANGED <<rxFirst, rBuf, rReceived>>
  <2>1. Kept
    BY <1>0, <1>2, <1>3, KnownHere DEF Kept
  <2>2. BufferInPlace'
    BY <1>0, <1>3 DEF OnceInv, BufferInPlace
  <2>3. \A sn \in Nat : Past(sn) => Past(sn)'
    BY <1>3 DEF Past
  <2> QED
    BY <1>0, <1>1, <2>1, <2>2, <2>3, OnceStays
<1>4. ASSUME NEW pos \in Nat, rxFirst' = rxFirst + pos, rBuf' = ShiftedPdus(pos),
             rReceived' = ShiftedFlags(pos)
      PROVE  OnceInv' /\ CutsGrow
  <2>1. \A i \in RxSlots : rBuf'[i] = IF i + pos < RxW THEN rBuf[i + pos] ELSE NoPdu
    BY <1>4 DEF ShiftedPdus
  <2>2. \A i \in RxSlots : i + pos < RxW => i + pos \in RxSlots
    BY <1>0 DEF RxSlots
  <2>3. \A i \in RxSlots : rxFirst' + i = rxFirst + (i + pos)
    BY <1>0, <1>4 DEF RxSlots
  <2>4. BufferInPlace'
    BY <1>0, <2>1, <2>2, <2>3 DEF OnceInv, BufferInPlace
  <2>5. \A i \in RxSlots : Known(rBuf'[i])
    BY <1>0, <2>1, <2>2, KnownHere, OthersKnown
  <2>6. Kept
    BY <1>2, <2>5 DEF Kept
  <2>7. ASSUME NEW sn \in Nat, Past(sn)
        PROVE  Past(sn)'
    <3>1. CASE sn < rxFirst'
      BY <3>1 DEF Past
    <3>2. CASE ~(sn < rxFirst')
      <4>1. sn - rxFirst \in RxSlots /\ rReceived[sn - rxFirst]
        BY <1>0, <1>4, <2>7, <3>2 DEF Past
      <4>2. /\ sn - rxFirst' \in RxSlots
            /\ (sn - rxFirst') + pos = sn - rxFirst
            /\ (sn - rxFirst') + pos < RxW
        BY <1>0, <1>4, <3>2, <4>1 DEF RxSlots
      <4>3. rReceived'[sn - rxFirst'] = rReceived[(sn - rxFirst') + pos]
        BY <1>4, <4>2 DEF ShiftedFlags
      <4> QED
        BY <4>1, <4>2, <4>3 DEF Past
    <3> QED
      BY <3>1, <3>2
  <2> QED
    BY <1>0, <1>1, <2>4, <2>6, <2>7, OnceStays
<1>5. CASE /\ m.target - rxFirst > 0
           /\ rxFirst' = rxFirst + (m.target - rxFirst)
           /\ rBuf' = ShiftedPdus(m.target - rxFirst)
           /\ rReceived' = ShiftedFlags(m.target - rxFirst)
  <2>1. m.target - rxFirst \in Nat
    BY <1>0, <1>5
  <2> QED
    BY <1>4, <1>5, <2>1
<1>6. \A e : RxThrow(e) => UNCHANGED <<rxFirst, rBuf, rReceived>>
  BY DEF RxThrow, bufferVars
<1>7. /\ m.target - rxFirst <= 0 => rxFirst + 0 = rxFirst
      /\ m.target - rxFirst <= 0 \/ m.target - rxFirst > 0
      /\ ~(m.target - rxFirst <= 0 /\ m.target - rxFirst > 0)
  BY <1>0
<1> QED
  BY <1>3, <1>5, <1>6, <1>7 DEF RecvMrw, bufferVars

\* The MAC, the timers of the receiver and stuttering.
LEMMA QuietOnce ==
    ASSUME IInv, OnceInv,
           UNCHANGED <<txSeq, nextSdu, rtx, delivered, rxFirst, rBuf, rReceived>>,
           \A m \in InSeq(txBuf') : m \in DataPdu => m \in InSeq(txBuf),
           \A p \in Procs : air'[p] \in {air[p], NoPdu} \cup InSeq(txBuf)
    PROVE  OnceInv' /\ CutsGrow
<1>0. TypeOK /\ nextSdu \in Nat
  BY DEF IInv, TypeOK, TxTypeOK
<1>1. \A m \in InSeq(txBuf') : Known(m)
  BY <1>0, KnownHere, HereKnown
<1>2. \A p \in Procs : Known(air'[p])
  BY <1>0, KnownHere, OthersKnown
<1>3. Kept
  BY <1>0, <1>1, <1>2, KnownHere DEF Kept, TxKept
<1>4. BufferInPlace' /\ \A sn \in Nat : Past(sn) => Past(sn)'
  BY DEF OnceInv, BufferInPlace, Past
<1> QED
  BY <1>0, <1>3, <1>4, OnceStays

\* Each of these steps.
LEMMA ChannelOnce ==
    ASSUME IInv, OnceInv,
           \/ \E p \in Procs : SendPdu(p) \/ Lose(p)
           \/ \E p \in CtlProcs : SendCtl(p) \/ LoseCtl(p)
           \/ AtRx(StatusTimer) \/ AtRx(AckInterval)
           \/ UNCHANGED vars
    PROVE  OnceInv' /\ CutsGrow
<1>0. /\ txBuf \in Seq(DataPdu \cup MrwPdu)
      /\ air \in [Procs -> DataPdu \cup MrwPdu \cup {NoPdu}]
  BY DEF IInv, TypeOK, TxTypeOK
<1>1. txBuf # <<>> => Head(txBuf) \in InSeq(txBuf) /\ InSeq(Tail(txBuf)) \subseteq InSeq(txBuf)
  BY <1>0, InTail
<1>2. UNCHANGED <<txSeq, nextSdu, rtx, delivered, rxFirst, rBuf, rReceived>>
  BY DEF SendPdu, Lose, SendCtl, LoseCtl, AtRx, StatusTimer, AckInterval, vars,
         txVars, windowVars, sduVars, rxVars, bufferVars
<1>3. CASE \E p \in Procs : SendPdu(p)
  <2>1. txBuf # <<>> /\ txBuf' \in {txBuf, Tail(txBuf)}
        /\ \A p \in Procs : air'[p] \in {air[p], Head(txBuf)}
    BY <1>0, <1>3 DEF SendPdu
  <2> QED
    BY <1>1, <1>2, <2>1, QuietOnce
<1>4. CASE UNCHANGED txBuf /\ \A p \in Procs : air'[p] \in {air[p], NoPdu}
  BY <1>2, <1>4, QuietOnce
<1>5. CASE \E p \in Procs : Lose(p)
  <2>1. UNCHANGED txBuf /\ \A p \in Procs : air'[p] \in {air[p], NoPdu}
    BY <1>0, <1>5 DEF Lose, txVars
  <2> QED
    BY <1>4, <2>1
<1>6. CASE \/ \E p \in CtlProcs : SendCtl(p) \/ LoseCtl(p)
           \/ AtRx(StatusTimer) \/ AtRx(AckInterval)
           \/ UNCHANGED vars
  <2>1. UNCHANGED <<txBuf, air>>
    BY <1>6 DEF SendCtl, LoseCtl, AtRx, vars, chanVars, txVars
  <2> QED
    BY <1>4, <2>1
<1> QED
  BY <1>3, <1>5, <1>6

LEMMA InitOnce == Init => OnceInv
<1> SUFFICES ASSUME Init PROVE OnceInv
  OBVIOUS
<1>1. InSeq(<<>>) = {} /\ NoPdu \notin DataPdu
  BY EmptySeq, NoPduAssumption DEF InSeq
<1>2. Fragments = {}
  BY <1>1 DEF Init, TxInit, RxInit, Fragments
<1>3. PICK cut : cut = [sn \in {} |-> sn]
  OBVIOUS
<1>4. txSeq = 0 /\ delivered = <<>> /\ \A i \in RxSlots : rBuf[i] = NoPdu
  BY DEF Init, TxInit, RxInit
<1>5. 0..(txSeq - 1) = {} /\ DOMAIN delivered = {} /\ delivered \in Seq({})
  BY <1>4
<1>6. Cut(cut) /\ PassedUp(cut)
  BY <1>5 DEF Cut, PassedUp
<1>7. CutInv(cut)
  BY <1>2, <1>6 DEF CutInv
<1> QED
  BY <1>4, <1>5, <1>7 DEF OnceInv, BufferInPlace, DeliveredOnce

LEMMA NextOnce ==
    ASSUME IInv, OnceInv, [Next]_vars
    PROVE  OnceInv' /\ CutsGrow
<1>1. CASE \/ \E n \in SduFrags : AtTx(Enque(n))
           \/ \E sn \in pduTimer : AtTx(PduTimer(sn))
           \/ \E serial \in mrwTimer : AtTx(MrwTimer(serial))
           \/ AtTx(BufferStatusTimer)
  BY <1>1, EnqueOnce, PduTimerOnce, MrwTimerOnce, BufferStatusTimerOnce
<1>2. ASSUME NEW p \in Procs, DeliverPdu(p)
      PROVE  OnceInv' /\ CutsGrow
  <2>1. UNCHANGED txVars /\ PduTaken /\ air[p] # NoPdu
    BY <1>2 DEF DeliverPdu, PduTaken, IInv, TypeOK
  <2>2. CASE air[p].type = "DATA" /\ RecvData(air[p])
    <3>1. air[p] \in DataPdu
      BY <2>1, <2>2, PduUnderWay DEF IInv
    <3>2. air[p] \in Fragments
      BY <3>1 DEF Fragments
    <3> QED
      BY <2>1, <2>2, <3>1, <3>2, RecvDataOnce
  <2>3. CASE air[p].type = "MRW" /\ RecvMrw(air[p])
    <3>1. air[p] \in MrwPdu
      BY <2>1, <2>3, PduUnderWay DEF IInv
    <3> QED
      BY <2>1, <2>3, <3>1, RecvMrwOnce
  <2> QED
    BY <1>2, <2>2, <2>3 DEF DeliverPdu
<1>3. ASSUME NEW p \in CtlProcs, DeliverCtl(p)
      PROVE  OnceInv' /\ CutsGrow
  <2>1. UNCHANGED <<rxVars, air>> /\ ctlAir[p] # NoPdu
    BY <1>3 DEF DeliverCtl
  <2>2. CASE ctlAir[p].type = "ACK" /\ RecvAck(ctlAir[p])
    <3>1. ctlAir[p] \in AckPdu
      BY <2>1, <2>2, CtlUnderWay DEF IInv
    <3> QED
      BY <2>1, <2>2, <3>1, RecvCtlOnce
  <2>3. CASE ctlAir[p].type = "MRW_ACK" /\ RecvMrwAck(ctlAir[p])
    <3>1. ctlAir[p] \in MrwAckPdu
      BY <2>1, <2>3, CtlUnderWay DEF IInv
    <3> QED
      BY <2>1, <2>3, <3>1, RecvCtlOnce
  <2> QED
    BY <1>3, <2>2, <2>3 DEF DeliverCtl
<1>4. CASE \/ \E p \in Procs : SendPdu(p) \/ Lose(p)
           \/ \E p \in CtlProcs : SendCtl(p) \/ LoseCtl(p)
           \/ AtRx(StatusTimer) \/ AtRx(AckInterval)
           \/ UNCHANGED vars
  BY <1>4, ChannelOnce
<1> QED
  BY <1>1, <1>2, <1>3, <1>4 DEF Next

\* The receiver passes no SDU up twice, however often its PDUs are sent and
\* however late they arrive, for every window size the configuration allows.
THEOREM SdusPassedUpOnce == Spec => []DeliveredOnce
<1>1. OnceInv => DeliveredOnce
  BY DEF OnceInv
<1>2. IInv /\ OnceInv /\ [Next]_vars => OnceInv'
  BY NextOnce
<1> QED
  BY <1>1, <1>2, InitOnce, Invariance, PTL DEF Spec

-----------------------------------------------------------------------------
(* What is passed up is whole.                                             *)

\* The members of a set are ranked from 1, in their order.
LEMMA RankOrders ==
    ASSUME NEW S \in SUBSET Nat, IsFiniteSet(S)
    PROVE  /\ Cardinality(S) \in Nat
           /\ \A i \in S : Rank(S, i) \in 1..Cardinality(S)
           /\ \A i, j \in S : Rank(S, i) < Rank(S, j) => i < j
           /\ \A i, j \in S : Rank(S, i) = Rank(S, j) => i = j
           /\ \A k \in 1..Cardinality(S) : \E i \in S : Rank(S, i) = k
<1> DEFINE upTo(i) == {j \in S : j <= i}
<1>0. Cardinality(S) \in Nat
  BY FS_CardinalityType
<1>1. ASSUME NEW i \in S
      PROVE  /\ IsFiniteSet(upTo(i)) /\ Cardinality(upTo(i)) \in 1..Cardinality(S)
             /\ Rank(S, i) = Cardinality(upTo(i))
  <2>1. upTo(i) \in SUBSET S /\ i \in upTo(i)
    OBVIOUS
  <2>2. IsFiniteSet(upTo(i)) /\ Cardinality(upTo(i)) <= Cardinality(S)
    BY <2>1, FS_Subset
  <2>3. Cardinality(upTo(i)) \in Nat /\ Cardinality(upTo(i)) # 0
    BY <2>1, <2>2, FS_CardinalityType, FS_EmptySet
  <2>4. Rank(S, i) = Cardinality(upTo(i))
    BY DEF Rank
  <2> HIDE DEF upTo
  <2> QED
    BY <1>0, <2>2, <2>3, <2>4
<1>2. ASSUME NEW i \in S, NEW j \in S, j <= i
      PROVE  Rank(S, j) <= Rank(S, i)
  <2>1. upTo(j) \in SUBSET upTo(i)
    <3> SUFFICES ASSUME NEW k \in S, k <= j PROVE k <= i
      OBVIOUS
    <3>1. i \in Nat /\ j \in Nat /\ k \in Nat
      OBVIOUS
    <3> QED
      BY <1>2, <3>1
  <2>2. IsFiniteSet(upTo(i))
    BY <1>1
  <2>3. Cardinality(upTo(j)) <= Cardinality(upTo(i))
    BY <2>1, <2>2, FS_Subset
  <2> QED
    BY <2>3 DEF Rank
<1>3. ASSUME NEW i \in S, NEW j \in S, Rank(S, i) = Rank(S, j), j <= i
      PROVE  i = j
  <2>1. upTo(j) \in SUBSET upTo(i)
    <3> SUFFICES ASSUME NEW k \in S, k <= j PROVE k <= i
      OBVIOUS
    <3>1. i \in Nat /\ j \in Nat /\ k \in Nat
      OBVIOUS
    <3> QED
      BY <1>3, <3>1
  <2>2. Cardinality(upTo(i)) = Cardinality(upTo(j)) /\ IsFiniteSet(upTo(i))
    BY <1>1, <1>3 DEF Rank
  <2>3. upTo(i) = upTo(j)
    BY <2>1, <2>2, FS_Subset
  <2>4. i \in upTo(j)
    BY <2>3
  <2> QED
    BY <1>3, <2>4
<1>4. \A i, j \in S : Rank(S, i) < Rank(S, j) => i < j
  <2> SUFFICES ASSUME NEW i \in S, NEW j \in S, Rank(S, i) < Rank(S, j)
               PROVE  i < j
    OBVIOUS
  <2>1. Rank(S, i) \in Nat /\ Rank(S, j) \in Nat
    <3> HIDE DEF upTo
    <3> QED
      BY <1>0, <1>1
  <2>2. ~(j <= i)
    BY <1>2, <2>1
  <2> QED
    BY <2>2
<1>5. \A i, j \in S : Rank(S, i) = Rank(S, j) => i = j
  <2> SUFFICES ASSUME NEW i \in S, NEW j \in S, Rank(S, i) = Rank(S, j)
               PROVE  i = j
    OBVIOUS
  <2>1. i <= j \/ j <= i
    OBVIOUS
  <2> QED
    BY <1>3, <2>1
<1>6. ASSUME NEW k \in 1..Cardinality(S)
      PROVE  \E i \in S : Rank(S, i) = k
  <2> DEFINE T == 1..Cardinality(S)
  <2>1. PICK r : r = [i \in S |-> Rank(S, i)]
    OBVIOUS
  <2>2. \A i \in S : Rank(S, i) \in T
    BY <1>1
  <2>3. r \in Injection(S, T)
    <3> HIDE DEF T
    <3> QED
      BY <1>5, <2>1, <2>2 DEF Injection, IsInjective
  <2>4. IsFiniteSet(T) /\ Cardinality(T) = Cardinality(S)
    BY <1>0, FS_Interval
  <2>5. r \in Surjection(S, T)
    <3> HIDE DEF T
    <3> QED
      BY <2>3, <2>4, FS_Injection
  <2>6. k \in T
    OBVIOUS
  <2>7. \E i \in S : r[i] = k
    <3> HIDE DEF T
    <3> QED
      BY <2>5, <2>6 DEF Surjection
  <2> QED
    BY <2>1, <2>7
<1>7. \A i \in S : Rank(S, i) \in 1..Cardinality(S)
  <2> HIDE DEF upTo
  <2> QED
    BY <1>1
<1> QED
  BY <1>0, <1>4, <1>5, <1>6, <1>7

\* All that f holds at S is in T.
OnlyFrom(f, S, T) == \A i \in S : f[i] \in T

\* The list q holds f's values at S, each index once and in their order.
Lists(q, f, S) ==
    \E at \in [1..Len(q) -> S] :
        /\ \A k \in 1..Len(q) : q[k] = f[at[k]]
        /\ \A j, k \in 1..Len(q) : j < k => at[j] < at[k]
        /\ \A i \in S : \E k \in 1..Len(q) : at[k] = i

\* InOrder lists what f holds at S, each index once and in their order.
LEMMA InOrderLists ==
    ASSUME NEW S \in SUBSET Nat, IsFiniteSet(S), NEW f, NEW T, OnlyFrom(f, S, T)
    PROVE  InOrder(f, S) \in Seq(T) /\ Lists(InOrder(f, S), f, S)
<1>1. PICK n : n = Cardinality(S)
  OBVIOUS
<1>2. PICK at : at = [k \in 1..n |-> CHOOSE i \in S : Rank(S, i) = k]
  OBVIOUS
<1>3. PICK q : q = InOrder(f, S)
  OBVIOUS
<1>4. q = [k \in 1..n |-> f[at[k]]]
  BY <1>1, <1>2, <1>3 DEF InOrder
<1>5. n \in Nat
  BY <1>1, RankOrders
<1>6. \A k \in 1..n : at[k] \in S /\ Rank(S, at[k]) = k
  <2> SUFFICES ASSUME NEW k \in 1..n PROVE at[k] \in S /\ Rank(S, at[k]) = k
    OBVIOUS
  <2>1. \E i \in S : Rank(S, i) = k
    BY <1>1, RankOrders
  <2>2. at[k] = CHOOSE i \in S : Rank(S, i) = k
    BY <1>2
  <2> QED
    BY <2>1, <2>2
<1>7. q \in Seq(T) /\ Len(q) = n
  <2>1. \A k \in 1..n : f[at[k]] \in T
    BY <1>6 DEF OnlyFrom
  <2> QED
    BY <1>4, <1>5, <2>1
<1>8. at \in [1..n -> S]
  BY <1>2, <1>6
<1>9. \A j, k \in 1..n : j < k => at[j] < at[k]
  <2> SUFFICES ASSUME NEW j \in 1..n, NEW k \in 1..n, j < k PROVE at[j] < at[k]
    OBVIOUS
  <2>1. /\ at[j] \in S /\ at[k] \in S
        /\ Rank(S, at[j]) < Rank(S, at[k])
    BY <1>6
  <2> QED
    BY <2>1, RankOrders
<1>10. \A i \in S : \E k \in 1..n : at[k] = i
  <2> SUFFICES ASSUME NEW i \in S PROVE \E k \in 1..n : at[k] = i
    OBVIOUS
  <2>1. PICK k : k = Rank(S, i)
    OBVIOUS
  <2>2. k \in 1..n
    BY <1>1, <2>1, RankOrders
  <2>3. at[k] \in S /\ Rank(S, at[k]) = Rank(S, i)
    BY <1>6, <2>1, <2>2
  <2>4. \A a, c \in S : Rank(S, a) = Rank(S, c) => a = c
    BY RankOrders
  <2>5. at[k] = i
    BY <2>3, <2>4
  <2> QED
    BY <2>2, <2>5
<1>11. \A k \in 1..n : q[k] = f[at[k]]
  BY <1>4
<1> QED
  BY <1>3, <1>7, <1>8, <1>9, <1>10, <1>11 DEF Lists

\* The first n of g are rising and are all the numbers from a to b.
RisesThrough(g, n, a, b) ==
    /\ \A k \in 1..n : g[k] \in a..b
    /\ \A j, k \in 1..n : j < k => g[j] < g[k]
    /\ \A v \in a..b : \E k \in 1..n : g[k] = v

\* Then they count from a to b.
LEMMA Consecutive ==
    ASSUME NEW n \in Nat, NEW a \in Nat, NEW b \in Int, a <= b + 1, NEW g,
           RisesThrough(g, n, a, b)
    PROVE  n = b - a + 1 /\ \A k \in 1..n : g[k] = a + k - 1
<1>0. /\ \A k \in 1..n : g[k] \in a..b
      /\ \A j, k \in 1..n : j < k => g[j] < g[k]
      /\ \A v \in a..b : \E k \in 1..n : g[k] = v
  BY DEF RisesThrough
<1> DEFINE D == {k \in 1..n : g[k] # a + k - 1}
<1>1. D = {}
  <2> SUFFICES ASSUME D # {} PROVE FALSE
    OBVIOUS
  <2>1. D \in SUBSET Nat
    OBVIOUS
  <2>2. PICK m \in D : \A k \in D : m <= k
    <3> HIDE DEF D
    <3> QED
      BY <2>1, LeastIndex
  <2>3. /\ m \in 1..n /\ g[m] # a + m - 1 /\ g[m] \in a..b
        /\ \A k \in 1..n : k < m => g[k] = a + k - 1
    BY <1>0, <2>2
  <2> HIDE DEF D
  <2>4. CASE g[m] < a + m - 1
    <3>1. PICK k : k = g[m] - a + 1
      OBVIOUS
    <3>2. k \in 1..n /\ k < m /\ a + k - 1 = g[m]
      BY <2>3, <2>4, <3>1
    <3>3. g[k] = g[m] /\ g[k] < g[m] /\ g[m] \in Int
      BY <1>0, <2>3, <3>2
    <3> QED
      BY <3>3
  <2>5. CASE g[m] > a + m - 1
    <3>1. a + m - 1 \in a..b
      BY <2>3, <2>5
    <3>2. PICK k \in 1..n : g[k] = a + m - 1
      BY <1>0, <3>1
    <3>3. k < m \/ k = m \/ m < k
      BY <2>3
    <3>4. ~(k < m)
      BY <2>3, <3>2
    <3>5. ~(m < k)
      <4> SUFFICES ASSUME m < k PROVE FALSE
        OBVIOUS
      <4>1. g[m] < g[k] /\ g[m] \in Int /\ g[k] \in Int
        BY <1>0, <2>3
      <4> QED
        BY <2>3, <2>5, <3>2, <4>1
    <3> QED
      BY <2>3, <3>2, <3>3, <3>4, <3>5
  <2> QED
    BY <2>3, <2>4, <2>5
<1>2. \A k \in 1..n : g[k] = a + k - 1
  BY <1>1
<1> HIDE DEF D
<1>3. n <= b - a + 1
  <2>1. CASE n = 0
    BY <2>1
  <2>2. CASE n # 0
    <3>1. n \in 1..n
      BY <2>2
    <3>2. g[n] = a + n - 1 /\ g[n] \in a..b
      BY <1>0, <1>2, <3>1
    <3> QED
      BY <3>2
  <2> QED
    BY <2>1, <2>2
<1>4. ~(n < b - a + 1)
  <2> SUFFICES ASSUME n < b - a + 1 PROVE FALSE
    OBVIOUS
  <2>1. a + n \in a..b
    OBVIOUS
  <2>2. PICK k \in 1..n : g[k] = a + n
    BY <1>0, <2>1
  <2>3. g[k] = a + k - 1
    BY <1>2
  <2> QED
    BY <2>2, <2>3
<1> QED
  BY <1>2, <1>3, <1>4

\* The numbers of an SDU are all that it says.
Blocks(cut) ==
    \A sn \in 0..(txSeq - 1) : \A j \in cut[sn].first..cut[sn].last : cut[j] = cut[sn]

\* Two PDUs one after the other are of one SDU, or the first is the last of its
\* SDU and the second the first.
LEMMA Neighbours ==
    ASSUME NEW cut, Cut(cut), Blocks(cut), txSeq \in Nat,
           NEW m, NEW n, Fragment(cut, m), Fragment(cut, n), n.sno = m.sno + 1
    PROVE  /\ ~IsFirst(n) => m.sdu = n.sdu
           /\ ~IsLast(m) => m.sdu = n.sdu
           /\ m.sdu = n.sdu => ~IsFirst(n) /\ ~IsLast(m)
<1>1. PICK c : c = cut[m.sno]
  OBVIOUS
<1>2. PICK d : d = cut[n.sno]
  OBVIOUS
<1>3. /\ m.sno \in 0..(txSeq - 1) /\ n.sno \in 0..(txSeq - 1)
      /\ m.sdu = c.sdu /\ m.last = c.last /\ n.sdu = d.sdu /\ n.first = d.first
  BY <1>1, <1>2 DEF Fragment
<1>4. /\ c.first \in Nat /\ c.last \in Nat /\ c.first <= m.sno /\ m.sno <= c.last
      /\ d.first \in Nat /\ d.last \in Nat /\ d.first <= n.sno /\ n.sno <= d.last
  <2>1. c \in [sdu : Nat, first : Nat, last : Nat] /\ d \in [sdu : Nat, first : Nat, last : Nat]
    BY <1>1, <1>2, <1>3 DEF Cut
  <2>2. c.first \in Nat /\ c.last \in Nat /\ d.first \in Nat /\ d.last \in Nat
    BY <2>1
  <2> QED
    BY <1>1, <1>2, <1>3, <2>2 DEF Cut
<1>5. ASSUME ~IsFirst(n) PROVE m.sdu = n.sdu
  <2>1. m.sno \in d.first..d.last
    BY <1>3, <1>4, <1>5 DEF IsFirst
  <2>2. c = d
    BY <1>1, <1>2, <1>3, <2>1 DEF Blocks
  <2> QED
    BY <1>3, <2>2
<1>6. ASSUME ~IsLast(m) PROVE m.sdu = n.sdu
  <2>1. n.sno \in c.first..c.last
    BY <1>3, <1>4, <1>6 DEF IsLast
  <2>2. c = d
    BY <1>1, <1>2, <1>3, <2>1 DEF Blocks
  <2> QED
    BY <1>3, <2>2
<1>7. ASSUME m.sdu = n.sdu PROVE ~IsFirst(n) /\ ~IsLast(m)
  <2>1. c = d
    BY <1>1, <1>2, <1>3, <1>7 DEF Cut
  <2> QED
    BY <1>3, <1>4, <2>1 DEF IsFirst, IsLast
<1> QED
  BY <1>5, <1>6, <1>7

\* checkCompleteSdu never finds the buffer inconsistent.
LEMMA NeverInconsistent ==
    ASSUME NEW f \in Nat, NEW buf \in [RxSlots -> DataPdu \cup {NoPdu}],
           NEW received \in [RxSlots -> BOOLEAN],
           NEW cut, Cut(cut), Blocks(cut), txSeq \in Nat,
           \A i \in RxSlots : buf[i] # NoPdu => buf[i].sno = f + i /\ Fragment(cut, buf[i]),
           \A i \in RxSlots : received[i] => buf[i] # NoPdu,
           NEW x \in RxSlots, buf[x] # NoPdu,
           NEW s, x = 0 /\ ~IsFirst(buf[x]) => s = buf[x].sdu
    PROVE  CompleteSdu(buf, received, s, x) # Inconsistent
<1>0. /\ RxW \in Nat /\ RxSlots = 0..(RxW - 1) /\ x \in Nat /\ x < RxW
  BY WindowAssumption DEF RxSlots
<1>1. ASSUME NEW i \in RxSlots, i + 1 \in RxSlots, buf[i] # NoPdu, buf[i + 1] # NoPdu
      PROVE  /\ ~IsFirst(buf[i + 1]) => buf[i].sdu = buf[i + 1].sdu
             /\ ~IsLast(buf[i]) => buf[i].sdu = buf[i + 1].sdu
             /\ buf[i].sdu = buf[i + 1].sdu => ~IsFirst(buf[i + 1]) /\ ~IsLast(buf[i])
  <2>1. buf[i].sno = f + i /\ buf[i + 1].sno = f + (i + 1) /\ i \in Nat
    BY <1>0, <1>1
  <2>2. buf[i + 1].sno = buf[i].sno + 1
    BY <2>1
  <2>3. Fragment(cut, buf[i]) /\ Fragment(cut, buf[i + 1])
    BY <1>1
  <2> QED
    BY <2>2, <2>3, Neighbours
<1>2. PICK a : a = FirstIndex(buf, received, s, x)
  OBVIOUS
<1>3. a # Inconsistent
  <2> DEFINE ends == {i \in 0..(x - 1) : EndsSearch(buf, received, x, i)}
  <2>1. CASE IsFirst(buf[x])
    <3>1. a = x
      BY <1>2, <2>1 DEF FirstIndex
    <3> QED
      BY <1>0, <3>1 DEF Inconsistent
  <2>2. CASE ~IsFirst(buf[x]) /\ x = 0
    <3>1. a = 0
      BY <1>2, <2>2 DEF FirstIndex
    <3> QED
      BY <3>1 DEF Inconsistent
  <2>3. CASE ~IsFirst(buf[x]) /\ x > 0
    <3>1. PICK g : g = Max(ends)
      OBVIOUS
    <3>2. a = IF ends = {} \/ ~received[g] THEN -1
              ELSE IF buf[g] # NoPdu /\ buf[g].sdu = buf[x].sdu /\ IsFirst(buf[g])
              THEN g ELSE -2
      BY <1>2, <2>3, <3>1 DEF FirstIndex, Verdict, Incomplete, Inconsistent
    <3>3. CASE ends = {}
      BY <3>2, <3>3 DEF Inconsistent
    <3>4. CASE ends # {} /\ ~received[g]
      BY <3>2, <3>4 DEF Inconsistent
    <3>5. CASE ends # {} /\ received[g]
      <4>1. ends \in SUBSET (0..(x - 1)) /\ x - 1 \in Nat
        BY <1>0, <2>3
      <4>2. g \in ends /\ \A y \in ends : g >= y
        <5> HIDE DEF ends
        <5> QED
          BY <3>1, <3>5, <4>1, LargestIndex
      <4>3. /\ g \in 0..(x - 1) /\ EndsSearch(buf, received, x, g)
            /\ \A i \in (g + 1)..(x - 1) : ~EndsSearch(buf, received, x, i)
        BY <1>0, <4>2
      <4> HIDE DEF ends
      <4>4. g \in RxSlots /\ g + 1 \in RxSlots /\ (g + 1 = x \/ g + 1 \in (g + 1)..(x - 1))
        BY <1>0, <4>3
      <4>5. /\ buf[g + 1] # NoPdu /\ ~IsFirst(buf[g + 1])
            /\ buf[g + 1].sdu = buf[x].sdu
        <5>1. CASE g + 1 = x
          BY <2>3, <5>1
        <5>2. CASE g + 1 \in (g + 1)..(x - 1)
          BY <4>3, <5>2 DEF EndsSearch
        <5> QED
          BY <4>4, <5>1, <5>2
      <4>6. buf[g] # NoPdu
        BY <3>5, <4>4
      <4>7. buf[g].sdu = buf[x].sdu /\ ~IsLast(buf[g])
        BY <1>1, <4>4, <4>5, <4>6
      <4>8. IsFirst(buf[g])
        BY <3>5, <4>3, <4>6, <4>7 DEF EndsSearch
      <4>9. a = g
        BY <3>2, <3>5, <4>6, <4>7, <4>8
      <4> QED
        BY <1>0, <4>3, <4>9 DEF Inconsistent
    <3> HIDE DEF ends
    <3> QED
      BY <3>3, <3>4, <3>5
  <2> QED
    BY <1>0, <2>1, <2>2, <2>3
<1>4. PICK start : start = CompleteSdu(buf, received, s, x)
  OBVIOUS
<1>5. start # Inconsistent
  <2> DEFINE ends == {i \in (x + 1)..(RxW - 1) : EndsSearch(buf, received, x, i)}
  <2>1. PICK g : g = Min(ends)
    OBVIOUS
  <2>2. start = IF a < 0 \/ IsLast(buf[x]) THEN a
                ELSE IF ends = {} THEN Incomplete
                ELSE Verdict(buf, received, x, g, IsLast, a)
    BY <1>2, <1>4, <2>1 DEF CompleteSdu
  <2>3. CASE a < 0 \/ IsLast(buf[x])
    BY <1>3, <2>2, <2>3
  <2>4. CASE ~(a < 0 \/ IsLast(buf[x])) /\ ends = {}
    BY <2>2, <2>4 DEF Incomplete, Inconsistent
  <2>5. CASE ~(a < 0 \/ IsLast(buf[x])) /\ ends # {} /\ ~received[g]
    BY <2>2, <2>5 DEF Verdict, Incomplete, Inconsistent
  <2>6. CASE ~(a < 0 \/ IsLast(buf[x])) /\ ends # {} /\ received[g]
    <3>1. ends \in SUBSET Nat
      BY <1>0
    <3>2. g \in ends /\ \A y \in ends : g <= y
      <4> HIDE DEF ends
      <4> QED
        BY <2>1, <2>6, <3>1, LeastIndex
    <3>3. /\ g \in (x + 1)..(RxW - 1) /\ EndsSearch(buf, received, x, g)
          /\ \A i \in (x + 1)..(g - 1) : ~EndsSearch(buf, received, x, i)
      BY <1>0, <3>2
    <3> HIDE DEF ends
    <3>4. /\ g \in RxSlots /\ g - 1 \in RxSlots /\ (g - 1) + 1 = g
          /\ g - 1 = x \/ g - 1 \in (x + 1)..(g - 1)
      BY <1>0, <3>3
    <3>5. /\ buf[g - 1] # NoPdu /\ ~IsLast(buf[g - 1])
          /\ buf[g - 1].sdu = buf[x].sdu
      <4>1. CASE g - 1 = x
        BY <2>6, <4>1
      <4>2. CASE g - 1 \in (x + 1)..(g - 1)
        BY <3>3, <4>2 DEF EndsSearch
      <4> QED
        BY <3>4, <4>1, <4>2
    <3>6. buf[g] # NoPdu
      BY <2>6, <3>4
    <3>7. buf[g].sdu = buf[x].sdu /\ ~IsFirst(buf[g])
      BY <1>1, <3>4, <3>5, <3>6
    <3>8. IsLast(buf[g])
      BY <2>6, <3>3, <3>6, <3>7 DEF EndsSearch
    <3>9. start = a
      BY <2>2, <2>6, <3>6, <3>7, <3>8 DEF Verdict
    <3> QED
      BY <1>3, <3>9
  <2> HIDE DEF ends
  <2> QED
    BY <2>3, <2>4, <2>5, <2>6
<1> QED
  BY <1>4, <1>5

\* The PDUs shifted out of the window (AmRxQueue::moveRxWindow) are in the order of
\* their numbers, all before the window, and agree with the cut.
PendingInOrder(cut) ==
    /\ pending \in Seq(DataPdu)
    /\ \A k \in DOMAIN pending : Fragment(cut, pending[k]) /\ pending[k].sno < rxFirst
    /\ \A j, k \in DOMAIN pending : j < k => pending[j].sno < pending[k].sno

\* The numbers from low up to the window's first are all pending.
AllPending(low) ==
    \A sn \in low..(rxFirst - 1) : \E k \in DOMAIN pending : pending[k].sno = sn

\* passUp: what it takes from pending is the SDU's part before the window.
LEMMA FromPendingWhole ==
    ASSUME rxFirst \in Nat, txSeq \in Nat,
           NEW cut, Cut(cut), Blocks(cut), PendingInOrder(cut),
           NEW buf, buf[0] \in DataPdu, Fragment(cut, buf[0]), buf[0].sno = rxFirst,
           ~IsFirst(buf[0]), AllPending(buf[0].first), ~MixedPending(buf, 0)
    PROVE  /\ FromPending(buf, 0) = pending
           /\ Len(pending) = rxFirst - buf[0].first
           /\ \A k \in 1..Len(pending) : /\ pending[k].sno = buf[0].first + k - 1
                                         /\ pending[k].sdu = buf[0].sdu
                                         /\ pending[k].first = buf[0].first
                                         /\ pending[k].last = buf[0].last
<1>1. FromPending(buf, 0) = pending
  BY DEF FromPending
<1>2. PICK n : n = Len(pending)
  OBVIOUS
<1>3. n \in Nat /\ DOMAIN pending = 1..n
  BY <1>2 DEF PendingInOrder
<1>4. PICK c : c = cut[rxFirst]
  OBVIOUS
<1>5. /\ rxFirst \in 0..(txSeq - 1) /\ buf[0].first = c.first /\ buf[0].last = c.last
      /\ buf[0].sdu = c.sdu
  BY <1>4 DEF Fragment
<1>6. c.first \in Nat /\ c.first <= rxFirst
  <2>1. c \in [sdu : Nat, first : Nat, last : Nat] /\ c.first <= rxFirst
    BY <1>4, <1>5 DEF Cut
  <2> QED
    BY <2>1
<1>7. ASSUME NEW k \in 1..n
      PROVE  /\ cut[pending[k].sno] = c /\ Fragment(cut, pending[k])
             /\ pending[k].sno \in c.first..(rxFirst - 1)
  <2>1. pending[k].sdu = c.sdu
    BY <1>1, <1>3, <1>5 DEF MixedPending
  <2>2. Fragment(cut, pending[k]) /\ pending[k].sno < rxFirst
    BY <1>3 DEF PendingInOrder
  <2>3. pending[k].sno \in 0..(txSeq - 1) /\ cut[pending[k].sno] = c
    BY <1>4, <1>5, <2>1, <2>2 DEF Fragment, Cut
  <2>4. c.first <= pending[k].sno
    BY <2>3 DEF Cut
  <2> QED
    BY <1>6, <2>2, <2>3, <2>4
<1>8. PICK g : g = [k \in 1..n |-> pending[k].sno]
  OBVIOUS
<1>9. \A k \in 1..n : g[k] = pending[k].sno /\ g[k] \in c.first..(rxFirst - 1)
  BY <1>7, <1>8
<1>10. \A j, k \in 1..n : j < k => g[j] < g[k]
  BY <1>3, <1>9 DEF PendingInOrder
<1>11. \A v \in c.first..(rxFirst - 1) : \E k \in 1..n : g[k] = v
  BY <1>3, <1>5, <1>9 DEF AllPending
<1>12. /\ n = (rxFirst - 1) - c.first + 1
       /\ \A k \in 1..n : g[k] = c.first + k - 1
  <2>1. PICK a, b : a = c.first /\ b = rxFirst - 1
    OBVIOUS
  <2>2. a \in Nat /\ b \in Int /\ a <= b + 1
    BY <1>6, <2>1
  <2>3. /\ \A k \in 1..n : g[k] \in a..b
        /\ \A v \in a..b : \E k \in 1..n : g[k] = v
    BY <1>9, <1>11, <2>1
  <2>4. RisesThrough(g, n, a, b)
    BY <1>10, <2>3 DEF RisesThrough
  <2>5. n = b - a + 1 /\ \A k \in 1..n : g[k] = a + k - 1
    BY <1>3, <2>2, <2>4, Consecutive
  <2> QED
    BY <2>1, <2>5
<1>13. n = rxFirst - c.first
  BY <1>6, <1>12
<1>14. ASSUME NEW k \in 1..n
       PROVE  /\ pending[k].sno = c.first + k - 1 /\ pending[k].sdu = c.sdu
              /\ pending[k].first = c.first /\ pending[k].last = c.last
  BY <1>7, <1>9, <1>12 DEF Fragment
<1> QED
  BY <1>1, <1>2, <1>5, <1>13, <1>14

\* How many are enough if those of C count.
Enough(size, missing, C) ==
    {n \in 0..size : Cardinality({k \in 1..n : k \in C}) >= missing}

\* If the first ones all count, as many of them are enough as are missing.
LEMMA MinEnough ==
    ASSUME NEW size \in Nat, NEW missing \in 0..size, NEW C, 1..missing \subseteq C
    PROVE  Enough(size, missing, C) # {} /\ Min(Enough(size, missing, C)) = missing
<1>0. PICK enough : enough = Enough(size, missing, C)
  OBVIOUS
<1>1. ASSUME NEW n \in 0..missing
      PROVE  Cardinality({k \in 1..n : k \in C}) = n
  <2>1. Cardinality(1..n) = n
    <3>1. 1 \in Int /\ n \in Int /\ n >= 0
      OBVIOUS
    <3>2. Cardinality(1..n) = IF 1 > n THEN 0 ELSE n - 1 + 1
      BY <3>1, FS_Interval
    <3> QED
      BY <3>1, <3>2
  <2>2. {k \in 1..n : k \in C} = 1..n
    OBVIOUS
  <2> QED
    BY <2>1, <2>2
<1>2. missing \in enough
  BY <1>0, <1>1 DEF Enough
<1>3. \A n \in enough : ~(n < missing)
  <2> SUFFICES ASSUME NEW n \in 0..size, Cardinality({k \in 1..n : k \in C}) >= missing,
                      n < missing
               PROVE  FALSE
    BY <1>0 DEF Enough
  <2>1. n \in 0..missing
    OBVIOUS
  <2>2. Cardinality({k \in 1..n : k \in C}) = n
    BY <1>1, <2>1
  <2>3. n >= missing
    BY <2>2
  <2> QED
    BY <2>1, <2>3
<1>4. enough \in SUBSET Nat /\ enough # {}
  <2>1. enough \subseteq 0..size
    BY <1>0 DEF Enough
  <2> QED
    BY <1>2, <2>1
<1>5. Min(enough) \in enough /\ \A y \in enough : Min(enough) <= y
  BY <1>4, LeastIndex
<1>6. PICK m : m = Min(enough)
  OBVIOUS
<1>7. m \in Nat /\ m <= missing /\ ~(m < missing)
  BY <1>2, <1>3, <1>4, <1>5, <1>6
<1> QED
  BY <1>0, <1>4, <1>6, <1>7

\* passUp: what it visits from x on is the rest of the SDU, if that lies there.
LEMMA VisitedWhole ==
    ASSUME NEW buf \in [RxSlots -> DataPdu \cup {NoPdu}], NEW x \in RxSlots,
           NEW e \in x..(RxW - 1),
           \A i \in x..e : buf[i] # NoPdu /\ buf[i].sdu = buf[x].sdu,
           buf[x].last - buf[x].first + 1 - Len(FromPending(buf, x)) = e - x + 1
    PROVE  /\ Visited(buf, x) \in Seq(DataPdu) /\ Len(Visited(buf, x)) = e - x + 1
           /\ \A k \in 1..(e - x + 1) : Visited(buf, x)[k] = buf[x + k - 1]
<1> DEFINE held == {i \in RxSlots : buf[i] # NoPdu}
           size == Max(held) + 1
           around == [k \in 1..size |-> buf[(x + k - 1) % size]]
           missing == buf[x].last - buf[x].first + 1 - Len(FromPending(buf, x))
           OfSdu(k) == around[k] # NoPdu /\ around[k].sdu = buf[x].sdu
           enough == {n \in 0..size : Cardinality({k \in 1..n : OfSdu(k)}) >= missing}
<1>0. RxW \in Nat /\ RxSlots = 0..(RxW - 1) /\ x \in Nat /\ x < RxW
  BY WindowAssumption DEF RxSlots
<1>1. Visited(buf, x) = SubSeq(around, 1, IF enough = {} THEN size ELSE Min(enough))
  BY DEF Visited
<1>2. PICK r : r = e - x + 1
  OBVIOUS
<1>3. r \in Nat \ {0} /\ e \in Nat /\ e \in RxSlots /\ missing = r
  BY <1>0, <1>2
<1>4. size \in Nat /\ e < size /\ size <= RxW
  <2>1. held \in SUBSET (0..(RxW - 1)) /\ e \in held /\ RxW - 1 \in Nat
    BY <1>0, <1>3
  <2>2. Max(held) \in held /\ \A y \in held : Max(held) >= y
    <3> HIDE DEF held
    <3> QED
      BY <2>1, LargestIndex
  <2>3. PICK m : m = Max(held)
    OBVIOUS
  <2>4. m \in 0..(RxW - 1) /\ m >= e
    <3> HIDE DEF held
    <3> QED
      BY <2>1, <2>2, <2>3
  <2> HIDE DEF held
  <2> QED
    BY <1>0, <1>3, <2>3, <2>4
<1>5. PICK z : z = size
  OBVIOUS
<1>6. \A k \in 1..r : k \in 1..z /\ (x + k - 1) % z = x + k - 1 /\ x + k - 1 \in x..e
  <2>1. z \in Nat /\ e < z
    BY <1>4, <1>5
  <2> SUFFICES ASSUME NEW k \in 1..r
               PROVE  k \in 1..z /\ (x + k - 1) % z = x + k - 1 /\ x + k - 1 \in x..e
    OBVIOUS
  <2>2. x + k - 1 \in Nat /\ x + k - 1 <= e /\ k \in 1..z
    BY <1>0, <1>2, <1>3, <2>1
  <2>3. x + k - 1 < z
    BY <1>3, <2>1, <2>2
  <2>4. \A a \in Nat : a < z => a % z = a
    BY <2>1
  <2> QED
    BY <1>0, <2>2, <2>3, <2>4
<1>7. PICK ar : ar = around
  OBVIOUS
<1>8. ar = [k \in 1..z |-> buf[(x + k - 1) % z]]
  <2> HIDE DEF held
  <2> QED
    BY <1>5, <1>7
<1>9. \A k \in 1..r : ar[k] = buf[x + k - 1] /\ ar[k] # NoPdu /\ ar[k].sdu = buf[x].sdu
  BY <1>6, <1>8
<1>10. PICK C : C = {k \in Nat : ar[k] # NoPdu /\ ar[k].sdu = buf[x].sdu}
  OBVIOUS
<1>11. enough = {n \in 0..z : Cardinality({k \in 1..n : k \in C}) >= r}
  <2>1. \A n \in 0..z : {k \in 1..n : OfSdu(k)} = {k \in 1..n : k \in C}
    <3> HIDE DEF around
    <3> QED
      BY <1>7, <1>10
  <2>2. size = z /\ missing = r
    BY <1>3, <1>5
  <2> HIDE DEF size, missing, OfSdu
  <2> QED
    BY <2>1, <2>2
<1>12. 1..r \subseteq C
  BY <1>9, <1>10
<1>13. z \in Nat /\ r \in 0..z
  BY <1>0, <1>2, <1>3, <1>4, <1>5
<1>14. Min(enough) = r /\ enough # {}
  <2>1. PICK E : E = enough
    OBVIOUS
  <2>2. E = Enough(z, r, C)
    BY <1>11, <2>1 DEF Enough
  <2>3. E # {} /\ Min(E) = r
    BY <1>12, <1>13, <2>2, MinEnough
  <2> HIDE DEF enough
  <2> QED
    BY <2>1, <2>3
<1>15. Visited(buf, x) = SubSeq(ar, 1, r)
  <2> HIDE DEF enough, around, size
  <2> QED
    BY <1>1, <1>7, <1>14
<1>16. \A k \in 1..r : ar[k] \in DataPdu
  <2> SUFFICES ASSUME NEW k \in 1..r PROVE ar[k] \in DataPdu
    OBVIOUS
  <2>1. x + k - 1 \in RxSlots
    BY <1>0, <1>3, <1>6
  <2> QED
    BY <1>9, <2>1
<1>17. PICK v : v = Visited(buf, x)
  OBVIOUS
<1>18. v \in Seq(DataPdu) /\ Len(v) = r /\ \A k \in 1..r : v[k] = ar[k]
  <2>1. PICK one : one = 1
    OBVIOUS
  <2>2. v = SubSeq(ar, one, r) /\ one \in Int /\ r \in Int /\ one <= r
    BY <1>3, <1>15, <1>17, <2>1
  <2>3. \A i \in one..r : ar[i] \in DataPdu
    BY <1>16, <2>1
  <2>4. /\ v \in Seq(DataPdu) /\ Len(v) = r - one + 1
        /\ \A i \in 1..(r - one + 1) : v[i] = ar[one + i - 1]
    BY <2>2, <2>3, SubSeqProperties
  <2> QED
    BY <1>3, <2>1, <2>4
<1> QED
  BY <1>2, <1>9, <1>17, <1>18

\* A list in the order of all its indices is the list.
LEMMA InOrderAll ==
    ASSUME NEW r \in Nat, NEW f, NEW T, \A i \in 1..r : f[i] \in T
    PROVE  /\ InOrder(f, 1..r) \in Seq(T) /\ Len(InOrder(f, 1..r)) = r
           /\ \A k \in 1..r : InOrder(f, 1..r)[k] = f[k]
<1>1. PICK S : S = 1..r
  OBVIOUS
<1>2. S \in SUBSET Nat /\ IsFiniteSet(S)
  <2>1. IsFiniteSet(1..r)
    BY FS_Interval
  <2> QED
    BY <1>1, <2>1
<1>3. PICK q : q = InOrder(f, S)
  OBVIOUS
<1>4. q \in Seq(T) /\ Lists(q, f, S)
  <2>1. OnlyFrom(f, S, T)
    BY <1>1 DEF OnlyFrom
  <2> QED
    BY <1>2, <1>3, <2>1, InOrderLists
<1>5. PICK at \in [1..Len(q) -> S] :
            /\ \A k \in 1..Len(q) : q[k] = f[at[k]]
            /\ \A j, k \in 1..Len(q) : j < k => at[j] < at[k]
            /\ \A i \in S : \E k \in 1..Len(q) : at[k] = i
  BY <1>4 DEF Lists
<1>6. PICK n, one : n = Len(q) /\ one = 1
  OBVIOUS
<1>7. n \in Nat /\ one \in Nat /\ r \in Int /\ one <= r + 1
  BY <1>4, <1>6
<1>8. RisesThrough(at, n, one, r)
  BY <1>1, <1>5, <1>6 DEF RisesThrough
<1>9. n = r - one + 1 /\ \A k \in 1..n : at[k] = one + k - 1
  BY <1>7, <1>8, Consecutive
<1>10. n = r /\ \A k \in 1..n : at[k] = k
  BY <1>6, <1>7, <1>9
<1>11. \A k \in 1..r : q[k] = f[k]
  BY <1>5, <1>6, <1>10
<1> QED
  BY <1>1, <1>3, <1>4, <1>6, <1>10, <1>11

\* All PDUs of the SDU, each once, in order.
Whole(sdu, frames) ==
    /\ Len(frames) = frames[1].last - frames[1].first + 1
    /\ \A n \in DOMAIN frames : /\ frames[n].sdu = sdu
                                /\ frames[n].sno = frames[1].first + n - 1

\* Every PDU in buf, a buffer whose first slot is for the number f, is in its place
\* and a fragment of the cut.
BufFits(cut, f, buf) ==
    \A i \in RxSlots : buf[i] # NoPdu => buf[i].sno = f + i /\ Fragment(cut, buf[i])

\* The numbers low to high are in buf or before the window.
AllHere(f, buf, low, high) ==
    \A sn \in low..high : sn < f \/ (sn - f \in RxSlots /\ buf[sn - f] # NoPdu)

\* If passUp takes the fragments in pending, they are the missing start of the SDU.
StartPending(buf, x) == x = 0 /\ ~IsFirst(buf[x]) => AllPending(buf[x].first)

\* The loop of passUp meets no empty slot.
NoHole(buf, x) == \A k \in DOMAIN Visited(buf, x) : Visited(buf, x)[k] # NoPdu

\* passUp passes up the whole SDU, and meets no empty slot.
LEMMA FramesWhole ==
    ASSUME rxFirst \in Nat, txSeq \in Nat,
           NEW cut, Cut(cut), Blocks(cut), PendingInOrder(cut),
           NEW buf \in [RxSlots -> DataPdu \cup {NoPdu}],
           BufFits(cut, rxFirst, buf),
           NEW x \in RxSlots, buf[x] # NoPdu, x = 0 \/ IsFirst(buf[x]),
           AllHere(rxFirst, buf, buf[x].first, buf[x].last), StartPending(buf, x),
           ~MixedPending(buf, x)
    PROVE  NoHole(buf, x) /\ Whole(buf[x].sdu, Frames(buf, x))
<1> USE DEF BufFits, AllHere, StartPending, NoHole
<1>0. RxW \in Nat /\ RxSlots = 0..(RxW - 1) /\ x \in Nat /\ x < RxW
  BY WindowAssumption DEF RxSlots
<1>1. PICK p : p = buf[x]
  OBVIOUS
<1>2. /\ p \in DataPdu /\ p.sno = rxFirst + x /\ Fragment(cut, p)
      /\ p.first \in Nat /\ p.last \in Nat /\ p.sno \in Nat
  <2>1. p \in DataPdu /\ p.sno = rxFirst + x /\ Fragment(cut, p)
    BY <1>1
  <2> QED
    BY <2>1 DEF DataPdu
<1>3. PICK c : c = cut[p.sno]
  OBVIOUS
<1>4. /\ p.sno \in 0..(txSeq - 1)
      /\ p.first = c.first /\ p.last = c.last /\ p.sdu = c.sdu
      /\ p.first <= p.sno /\ p.sno <= p.last
      /\ \A j \in p.first..p.last : cut[j] = c
  BY <1>2, <1>3 DEF Fragment, Cut, Blocks
<1>5. PICK e : e = p.last - rxFirst
  OBVIOUS
<1>6. e \in x..(RxW - 1)
  <2>1. p.last \in p.first..p.last /\ ~(p.last < rxFirst)
    BY <1>0, <1>2, <1>4
  <2>2. p.last - rxFirst \in RxSlots
    BY <1>1, <2>1
  <2> QED
    BY <1>0, <1>2, <1>4, <1>5, <2>2
<1>7. ASSUME NEW i \in x..e
      PROVE  /\ i \in RxSlots /\ buf[i] # NoPdu /\ buf[i].sdu = p.sdu
             /\ buf[i].sno = rxFirst + i /\ buf[i].first = p.first /\ buf[i].last = p.last
  <2>1. /\ rxFirst + i \in p.first..p.last /\ ~(rxFirst + i < rxFirst)
        /\ (rxFirst + i) - rxFirst = i
    BY <1>0, <1>2, <1>4, <1>5, <1>6
  <2>2. i \in RxSlots /\ buf[i] # NoPdu
    <3>1. PICK sn : sn = rxFirst + i
      OBVIOUS
    <3>2. sn - rxFirst \in RxSlots /\ buf[sn - rxFirst] # NoPdu
      BY <1>1, <2>1, <3>1
    <3> QED
      BY <2>1, <3>1, <3>2
  <2>3. buf[i].sno = rxFirst + i /\ Fragment(cut, buf[i])
    BY <2>2
  <2>4. cut[rxFirst + i] = c
    BY <1>4, <2>1
  <2> QED
    BY <1>4, <2>2, <2>3, <2>4 DEF Fragment
<1>8. PICK from : from = FromPending(buf, x)
  OBVIOUS
<1>9. /\ from \in Seq(DataPdu)
      /\ Len(from) = rxFirst + x - p.first
      /\ \A k \in 1..Len(from) : /\ from[k].sno = p.first + k - 1 /\ from[k].sdu = p.sdu
                                 /\ from[k].first = p.first /\ from[k].last = p.last
  <2>1. CASE x = 0 /\ ~IsFirst(p)
    <3>1. /\ buf[0] = p /\ buf[0] \in DataPdu /\ Fragment(cut, buf[0])
          /\ buf[0].sno = rxFirst /\ ~IsFirst(buf[0])
      BY <1>1, <1>2, <2>1
    <3>2. AllPending(buf[0].first) /\ ~MixedPending(buf, 0)
      BY <1>1, <2>1
    <3>3. /\ FromPending(buf, 0) = pending
          /\ Len(pending) = rxFirst - buf[0].first
          /\ \A k \in 1..Len(pending) : /\ pending[k].sno = buf[0].first + k - 1
                                        /\ pending[k].sdu = buf[0].sdu
                                        /\ pending[k].first = buf[0].first
                                        /\ pending[k].last = buf[0].last
      BY <3>1, <3>2, FromPendingWhole
    <3>4. pending \in Seq(DataPdu)
      BY DEF PendingInOrder
    <3>5. from = pending
      BY <1>8, <2>1, <3>3
    <3>6. rxFirst + x - p.first = rxFirst - buf[0].first
      BY <1>2, <2>1, <3>1
    <3> QED
      BY <3>1, <3>3, <3>4, <3>5, <3>6
  <2>2. CASE IsFirst(p)
    <3>1. from = <<>>
      BY <1>1, <1>8, <2>2 DEF FromPending
    <3>2. rxFirst + x - p.first = 0
      BY <1>0, <1>2, <2>2 DEF IsFirst
    <3> QED
      BY <3>1, <3>2
  <2> QED
    BY <1>1, <2>1, <2>2
<1>10. PICK r : r = e - x + 1
  OBVIOUS
<1>11. r \in Nat \ {0} /\ p.last - p.first + 1 - Len(from) = r
       /\ Len(from) + r = p.last - p.first + 1
       /\ p.first + Len(from) = rxFirst + x /\ Len(from) \in Nat
  <2>1. PICK m, a, z : m = Len(from) /\ a = p.first /\ z = p.last
    OBVIOUS
  <2>2. m \in Nat
    BY <1>9, <2>1
  <2>3. m = rxFirst + x - a /\ e = z - rxFirst /\ r = e - x + 1 /\ a \in Nat /\ z \in Nat
        /\ rxFirst \in Nat /\ x \in Nat /\ e \in Nat /\ x <= e
    BY <1>0, <1>2, <1>5, <1>6, <1>9, <1>10, <2>1
  <2>4. r \in Nat \ {0} /\ z - a + 1 - m = r /\ m + r = z - a + 1 /\ a + m = rxFirst + x
    BY <2>3
  <2> QED
    BY <2>1, <2>2, <2>4
<1>12. PICK v : v = Visited(buf, x)
  OBVIOUS
<1>13. /\ v \in Seq(DataPdu) /\ Len(v) = r
       /\ \A k \in 1..r : v[k] = buf[x + k - 1] /\ v[k] \in DataPdu
  <2>1. buf[x].last - buf[x].first + 1 - Len(FromPending(buf, x)) = e - x + 1
    BY <1>1, <1>8, <1>10, <1>11
  <2>2. \A i \in x..e : buf[i] # NoPdu /\ buf[i].sdu = buf[x].sdu
    BY <1>1, <1>7
  <2>3. /\ v \in Seq(DataPdu) /\ Len(v) = r
        /\ \A k \in 1..r : v[k] = buf[x + k - 1]
    BY <1>6, <1>10, <1>12, <2>1, <2>2, VisitedWhole
  <2> QED
    BY <1>11, <2>3
<1>14. ASSUME NEW k \in 1..r
       PROVE  /\ v[k].sdu = p.sdu /\ v[k].sno = p.first + (Len(from) + k) - 1
              /\ v[k].first = p.first /\ v[k].last = p.last
  <2>1. x + k - 1 \in x..e /\ rxFirst + (x + k - 1) = p.first + (Len(from) + k) - 1
    <3>1. PICK m, a : m = Len(from) /\ a = p.first
      OBVIOUS
    <3>2. /\ m \in Nat /\ a \in Nat /\ a + m = rxFirst + x /\ rxFirst \in Nat
          /\ x \in Nat /\ e \in Nat /\ r = e - x + 1
      BY <1>0, <1>2, <1>6, <1>10, <1>11, <3>1
    <3>3. x + k - 1 \in x..e /\ rxFirst + (x + k - 1) = a + (m + k) - 1
      BY <3>2
    <3> QED
      BY <3>1, <3>3
  <2> QED
    BY <1>7, <1>13, <2>1
<1>15. PICK q : q = InOrder(v, 1..r)
  OBVIOUS
<1>16. Frames(buf, x) = from \o q
  <2>1. {k \in DOMAIN v : v[k].sdu = buf[x].sdu} = 1..r
    <3>1. DOMAIN v = 1..r
      BY <1>13
    <3>2. \A k \in 1..r : v[k].sdu = buf[x].sdu
      BY <1>1, <1>14
    <3> QED
      BY <3>1, <3>2
  <2>2. PICK D : D = {k \in DOMAIN v : v[k].sdu = buf[x].sdu}
    OBVIOUS
  <2>3. Frames(buf, x) = from \o InOrder(v, D)
    BY <1>8, <1>12, <2>2 DEF Frames
  <2>4. D = 1..r
    BY <2>1, <2>2
  <2> QED
    BY <1>15, <2>3, <2>4
<1>17. /\ q \in Seq(DataPdu) /\ Len(q) = r
       /\ \A k \in 1..r : q[k] = v[k]
  BY <1>11, <1>13, <1>15, InOrderAll
<1>18. PICK fr : fr = Frames(buf, x)
  OBVIOUS
<1>19. /\ Len(fr) = p.last - p.first + 1 /\ DOMAIN fr = 1..Len(fr) /\ Len(fr) \in Nat \ {0}
       /\ \A k \in 1..Len(from) : fr[k] = from[k]
       /\ \A k \in 1..r : fr[Len(from) + k] = q[k]
  <2>1. PICK m : m = Len(from)
    OBVIOUS
  <2>2. m \in Nat /\ r \in Nat \ {0} /\ m + r = p.last - p.first + 1
    BY <1>11, <2>1
  <2>3. fr = from \o q /\ from \in Seq(DataPdu) /\ q \in Seq(DataPdu)
    BY <1>9, <1>16, <1>17, <1>18
  <2>4. fr \in Seq(DataPdu) /\ Len(fr) = m + r /\ DOMAIN fr = 1..Len(fr)
    <3>1. from \o q \in Seq(DataPdu) /\ Len(from \o q) = Len(from) + Len(q)
      BY <2>3
    <3> QED
      BY <1>17, <2>1, <2>3, <3>1
  <2>5. \A k \in 1..m : fr[k] = from[k]
    BY <1>17, <2>1, <2>2, <2>3
  <2>6. \A k \in 1..r : fr[m + k] = q[k]
    <3> SUFFICES ASSUME NEW k \in 1..r PROVE fr[m + k] = q[k]
      OBVIOUS
    <3>1. PICK w : w = m + k
      OBVIOUS
    <3>2. w \in 1..(Len(from) + Len(q)) /\ w > Len(from) /\ w - Len(from) = k
      BY <1>17, <2>1, <2>2, <3>1
    <3>3. (from \o q)[w] = q[w - Len(from)]
      BY <2>3, <3>2
    <3> QED
      BY <2>3, <3>1, <3>2, <3>3
  <2> QED
    BY <2>1, <2>2, <2>4, <2>5, <2>6
<1>20. ASSUME NEW n \in 1..Len(fr)
       PROVE  /\ fr[n].sdu = p.sdu /\ fr[n].sno = p.first + n - 1
              /\ fr[n].first = p.first /\ fr[n].last = p.last
  <2>1. CASE n \in 1..Len(from)
    BY <1>9, <1>19, <2>1
  <2>2. CASE ~(n \in 1..Len(from))
    <3>1. PICK k : k = n - Len(from)
      OBVIOUS
    <3>2. k \in 1..r /\ n = Len(from) + k
      BY <1>2, <1>11, <1>19, <2>2, <3>1
    <3> QED
      BY <1>14, <1>17, <1>19, <3>2
  <2> QED
    BY <2>1, <2>2
<1>21. fr[1].first = p.first /\ fr[1].last = p.last
  <2>1. 1 \in 1..Len(fr)
    BY <1>19
  <2> QED
    BY <1>20, <2>1
<1>22. Whole(p.sdu, fr)
  BY <1>19, <1>20, <1>21 DEF Whole
<1>23. \A k \in DOMAIN v : v[k] # NoPdu
  BY <1>11, <1>13, NoPduAssumption
<1> QED
  BY <1>1, <1>12, <1>18, <1>22, <1>23

\* The receiver knows the SDU that the start of its window cuts in two (firstSdu_).
FirstKnown(cut) ==
    rxFirst < txSeq /\ cut[rxFirst].first < rxFirst => firstSdu = cut[rxFirst].sdu

\* SDU s has been passed up.
IsPassedUp(s) == \E k \in DOMAIN delivered : delivered[k].sdu = s

\* The part of that SDU before the window is in pending, unless it is passed up.
PendingHas(cut) ==
    rxFirst < txSeq /\ ~IsPassedUp(cut[rxFirst].sdu) => AllPending(cut[rxFirst].first)

\* What the receiver keeps of an SDU that the start of its window cuts in two.
StartKept(cut) == FirstKnown(cut) /\ PendingInOrder(cut) /\ PendingHas(cut)

\* What is to be proved, beside DeliveredOnce.
DeliveredWell == RxThrowsOnlyKnown /\ DeliveredIntact

\* Every PDU in the buffer is a fragment of the cut.
LEMMA BufferCut ==
    ASSUME TypeOK, NEW cut, CutInv(cut)
    PROVE  \A i \in RxSlots : rBuf[i] # NoPdu => rBuf[i] \in DataPdu /\ Fragment(cut, rBuf[i])
<1> SUFFICES ASSUME NEW i \in RxSlots, rBuf[i] # NoPdu
             PROVE  rBuf[i] \in DataPdu /\ Fragment(cut, rBuf[i])
  OBVIOUS
<1>1. rBuf[i] \in DataPdu
  BY DEF TypeOK, RxTypeOK
<1>2. rBuf[i] \in Fragments
  BY <1>1 DEF Fragments
<1> QED
  BY <1>1, <1>2 DEF CutInv

\* A PDU that the receiver does not have is of an SDU that is not passed up.
LEMMA MissingNotPassedUp ==
    ASSUME TypeOK, NEW cut, CutInv(cut), NEW p \in DataPdu, Fragment(cut, p), ~Past(p.sno)
    PROVE  ~IsPassedUp(p.sdu)
<1> SUFFICES ASSUME NEW k \in DOMAIN delivered, delivered[k].sdu = p.sdu
             PROVE  FALSE
  BY DEF IsPassedUp
<1>1. PICK sn \in 0..(txSeq - 1) :
         /\ cut[sn].sdu = delivered[k].sdu
         /\ \A j \in cut[sn].first..cut[sn].last : Past(j)
  BY DEF CutInv, PassedUp
<1>2. p.sno \in 0..(txSeq - 1) /\ p.sdu = cut[p.sno].sdu
  BY DEF Fragment
<1>3. cut[sn] = cut[p.sno]
  BY <1>1, <1>2 DEF CutInv, Cut
<1>4. cut[p.sno].first <= p.sno /\ p.sno <= cut[p.sno].last
      /\ cut[p.sno].first \in Nat /\ cut[p.sno].last \in Nat
  <2>1. cut[p.sno] \in [sdu : Nat, first : Nat, last : Nat]
    BY <1>2 DEF CutInv, Cut
  <2> QED
    BY <1>2, <2>1 DEF CutInv, Cut
<1> QED
  BY <1>1, <1>2, <1>3, <1>4

\* Nothing about the start of the window changes.
LEMMA StartStays ==
    ASSUME NEW cut, StartKept(cut), DeliveredWell,
           UNCHANGED <<rxFirst, pending, firstSdu, delivered, rxErr, txSeq>>
    PROVE  StartKept(cut)' /\ DeliveredWell'
BY DEF StartKept, FirstKnown, PendingInOrder, PendingHas, AllPending, IsPassedUp,
       DeliveredWell, RxThrowsOnlyKnown, DeliveredIntact, Fragment

\* A slot that is flagged is not empty.
FlagsFit(buf, received) == \A i \in RxSlots : received[i] => buf[i] # NoPdu

\* An SDU that is complete is passed up whole, and the buffer has no hole in it.
LEMMA CompleteIsWhole ==
    ASSUME rxFirst \in Nat, txSeq \in Nat,
           NEW cut, Cut(cut), Blocks(cut), PendingInOrder(cut),
           NEW buf \in [RxSlots -> DataPdu \cup {NoPdu}],
           NEW received \in [RxSlots -> BOOLEAN],
           BufFits(cut, rxFirst, buf), FlagsFit(buf, received),
           NEW x \in RxSlots, buf[x] # NoPdu, received[x],
           NEW s, NEW start, start = CompleteSdu(buf, received, s, x), start >= 0,
           ~MixedPending(buf, start),
           buf[x].first < rxFirst => AllPending(buf[x].first)
    PROVE  /\ start \in RxSlots /\ buf[start].sdu = buf[x].sdu
           /\ NoHole(buf, start) /\ Whole(buf[start].sdu, Frames(buf, start))
<1>1. /\ start \in RxSlots /\ buf[start] # NoPdu /\ buf[start].sdu = buf[x].sdu
      /\ start = 0 \/ IsFirst(buf[start])
      /\ \A sn \in buf[x].first..buf[x].last :
            sn < rxFirst \/ (sn - rxFirst \in RxSlots /\ received[sn - rxFirst])
  <2>1. \A i \in RxSlots : buf[i] # NoPdu => buf[i].sno = rxFirst + i /\ Fragment(cut, buf[i])
    BY DEF BufFits
  <2> QED
    BY <2>1, CompleteFound
<1>2. PICK b, p : b = buf[start] /\ p = buf[x]
  OBVIOUS
<1>3. /\ b \in DataPdu /\ Fragment(cut, b) /\ b.sno = rxFirst + start /\ b.sdu = p.sdu
      /\ Fragment(cut, p)
  BY <1>1, <1>2 DEF BufFits
<1>4. b.first = p.first /\ b.last = p.last
  <2>1. b.sno \in 0..(txSeq - 1) /\ p.sno \in 0..(txSeq - 1) /\ cut[b.sno].sdu = cut[p.sno].sdu
    BY <1>3 DEF Fragment
  <2>2. cut[b.sno] = cut[p.sno]
    BY <2>1 DEF Cut
  <2> QED
    BY <1>3, <2>2 DEF Fragment
<1>5. AllHere(rxFirst, buf, buf[start].first, buf[start].last)
  <2>1. \A sn \in p.first..p.last :
           sn < rxFirst \/ (sn - rxFirst \in RxSlots /\ received[sn - rxFirst])
    BY <1>1, <1>2
  <2>2. \A i \in RxSlots : received[i] => buf[i] # NoPdu
    BY DEF FlagsFit
  <2>3. \A sn \in p.first..p.last :
           sn < rxFirst \/ (sn - rxFirst \in RxSlots /\ buf[sn - rxFirst] # NoPdu)
    BY <2>1, <2>2
  <2> QED
    BY <1>2, <1>4, <2>3 DEF AllHere
<1>6. StartPending(buf, start)
  <2> SUFFICES ASSUME start = 0, ~IsFirst(b) PROVE AllPending(b.first)
    BY <1>2 DEF StartPending
  <2>1. b.sno = rxFirst /\ b.first \in Nat /\ b.first <= b.sno
    <3>1. b.sno \in 0..(txSeq - 1) /\ b.first = cut[b.sno].first
      BY <1>3 DEF Fragment
    <3>2. b.first \in Nat
      BY <1>3 DEF DataPdu
    <3> QED
      BY <1>3, <3>1, <3>2 DEF Cut
  <2>2. b.first < rxFirst
    BY <2>1 DEF IsFirst
  <2> QED
    BY <1>2, <1>4, <2>2
<1>7. start \in RxSlots /\ buf[start] # NoPdu /\ (start = 0 \/ IsFirst(buf[start]))
  BY <1>1
<1>8. NoHole(buf, start) /\ Whole(buf[start].sdu, Frames(buf, start))
  BY <1>5, <1>6, <1>7, FramesWhole
<1> QED
  BY <1>1, <1>8

\* checkCompleteSdu never finds a buffer inconsistent that agrees with the cut.
LEMMA ConsistentBuffer ==
    ASSUME rxFirst \in Nat, txSeq \in Nat, NEW cut, Cut(cut), Blocks(cut),
           NEW buf \in [RxSlots -> DataPdu \cup {NoPdu}],
           NEW received \in [RxSlots -> BOOLEAN],
           BufFits(cut, rxFirst, buf), FlagsFit(buf, received),
           NEW x \in RxSlots, buf[x] # NoPdu, NEW s, x = 0 /\ ~IsFirst(buf[x]) => s = buf[x].sdu
    PROVE  CompleteSdu(buf, received, s, x) # Inconsistent
<1>1. \A i \in RxSlots : buf[i] # NoPdu => buf[i].sno = rxFirst + i /\ Fragment(cut, buf[i])
  BY DEF BufFits
<1>2. \A i \in RxSlots : received[i] => buf[i] # NoPdu
  BY DEF FlagsFit
<1> QED
  BY <1>1, <1>2, NeverInconsistent

\* enque, DATA: firstSdu_ is kept, or set to where nothing depends on it.
LEMMA NotedKnown ==
    ASSUME TypeOK, NEW cut, CutInv(cut), FirstKnown(cut), NEW p,
           firstSdu' = SduAtStart(p), UNCHANGED <<rxFirst, txSeq>>
    PROVE  FirstKnown(cut)'
<1> SUFFICES ASSUME rxFirst < txSeq, cut[rxFirst].first < rxFirst
             PROVE  SduAtStart(p) = cut[rxFirst].sdu
  BY DEF FirstKnown
<1>1. firstSdu = cut[rxFirst].sdu
  BY DEF FirstKnown
<1>2. rxFirst \in 0..(txSeq - 1)
  BY DEF TypeOK, TxTypeOK, RxTypeOK
<1>3. cut[rxFirst] \in [sdu : Nat, first : Nat, last : Nat]
  BY <1>2 DEF CutInv, Cut
<1>4. firstSdu # -1
  BY <1>1, <1>3
<1> QED
  BY <1>1, <1>4 DEF SduAtStart

\* enque, DATA: the buffer and its flags with the new PDU.
StoredBuf(p) == [rBuf EXCEPT ![p.sno - rxFirst] = p]
StoredFlags(p) == [rReceived EXCEPT ![p.sno - rxFirst] = TRUE]

LEMMA StoredFits ==
    ASSUME IInv, RxSound, NEW cut, CutInv(cut), NEW p \in DataPdu, Fragment(cut, p),
           NEW x \in RxSlots, x = p.sno - rxFirst
    PROVE  /\ StoredBuf(p) \in [RxSlots -> DataPdu \cup {NoPdu}]
           /\ StoredFlags(p) \in [RxSlots -> BOOLEAN]
           /\ BufFits(cut, rxFirst, StoredBuf(p))
           /\ FlagsFit(StoredBuf(p), StoredFlags(p))
           /\ StoredBuf(p)[x] = p /\ p # NoPdu /\ StoredFlags(p)[x]
<1>1. /\ rxFirst \in Nat /\ RxSlots \subseteq Int /\ p.sno \in Nat /\ TypeOK
      /\ rBuf \in [RxSlots -> DataPdu \cup {NoPdu}] /\ rReceived \in [RxSlots -> BOOLEAN]
  BY DEF RxSlots, IInv, TypeOK, RxTypeOK, DataPdu
<1>2. PICK buf, flags : buf = StoredBuf(p) /\ flags = StoredFlags(p)
  OBVIOUS
<1>3. buf = [rBuf EXCEPT ![x] = p] /\ flags = [rReceived EXCEPT ![x] = TRUE]
  BY <1>2 DEF StoredBuf, StoredFlags
<1>4. /\ buf \in [RxSlots -> DataPdu \cup {NoPdu}] /\ flags \in [RxSlots -> BOOLEAN]
      /\ buf[x] = p /\ flags[x]
      /\ \A i \in RxSlots : i # x => buf[i] = rBuf[i] /\ flags[i] = rReceived[i]
  BY <1>1, <1>3
<1>5. p # NoPdu
  BY NoPduAssumption
<1>6. \A i \in RxSlots : rBuf[i] # NoPdu => rBuf[i].sno = rxFirst + i /\ Fragment(cut, rBuf[i])
  BY <1>1, BufferCut DEF RxSound, BufferInPlace
<1>7. \A i \in RxSlots : rReceived[i] => rBuf[i] # NoPdu
  BY DEF RxSound, ReceivedIsStored
<1>8. p.sno = rxFirst + x
  BY <1>1
<1>9. BufFits(cut, rxFirst, buf)
  <2> SUFFICES ASSUME NEW i \in RxSlots, buf[i] # NoPdu
               PROVE  buf[i].sno = rxFirst + i /\ Fragment(cut, buf[i])
    BY DEF BufFits
  <2>1. CASE i = x
    BY <1>4, <1>8, <2>1
  <2>2. CASE i # x
    BY <1>4, <1>6, <2>2
  <2> QED
    BY <2>1, <2>2
<1>10. FlagsFit(buf, flags)
  BY <1>4, <1>5, <1>7 DEF FlagsFit
<1> QED
  BY <1>2, <1>4, <1>5, <1>9, <1>10

\* A PDU that is cut off by the start of the window and is new to the receiver: the
\* part before the window is in pending, and firstSdu_ is its SDU.
LEMMA NewAtStart ==
    ASSUME TypeOK, NEW cut, CutInv(cut), Blocks(cut), StartKept(cut),
           NEW p \in DataPdu, Fragment(cut, p), ~Past(p.sno), p.first < rxFirst
    PROVE  AllPending(p.first) /\ SduAtStart(p) = p.sdu
<1>1. /\ p.sno \in 0..(txSeq - 1) /\ p.sdu = cut[p.sno].sdu /\ p.first = cut[p.sno].first
      /\ rxFirst \in Nat /\ txSeq \in Nat
  BY DEF Fragment, TypeOK, RxTypeOK, TxTypeOK
<1>2. ~(p.sno < rxFirst)
  BY DEF Past
<1>3. /\ cut[p.sno] \in [sdu : Nat, first : Nat, last : Nat]
      /\ p.sno <= cut[p.sno].last
  BY <1>1 DEF CutInv, Cut
<1>4. cut[p.sno].last \in Nat /\ p.first \in Nat /\ p.sno \in Nat /\ p.sdu \in Nat /\ p.sdu # -1
  BY <1>3 DEF DataPdu
<1>5. rxFirst \in cut[p.sno].first..cut[p.sno].last /\ rxFirst < txSeq
  BY <1>1, <1>2, <1>3, <1>4
<1>6. cut[rxFirst] = cut[p.sno]
  BY <1>1, <1>5 DEF Blocks
<1>7. firstSdu = p.sdu
  BY <1>1, <1>5, <1>6 DEF StartKept, FirstKnown
<1>8. ~IsPassedUp(p.sdu)
  BY MissingNotPassedUp
<1>9. AllPending(p.first)
  BY <1>1, <1>5, <1>6, <1>8 DEF StartKept, PendingHas
<1> QED
  BY <1>4, <1>7, <1>9 DEF SduAtStart

\* enque, DATA, for a PDU that the receiver does not have.
LEMMA StoreDataWhole ==
    ASSUME IInv, RxSound, NEW cut, CutInv(cut), Blocks(cut), StartKept(cut), DeliveredWell,
           NEW S, delivered \in Seq(S),
           NEW p \in DataPdu, Fragment(cut, p), NEW x \in RxSlots, x = p.sno - rxFirst,
           ~rReceived[x], StoreData(p), UNCHANGED txSeq
    PROVE  StartKept(cut)' /\ DeliveredWell'
<1>0. /\ rxFirst \in Nat /\ txSeq \in Nat /\ p.sno \in Nat /\ TypeOK /\ Cut(cut)
      /\ PendingInOrder(cut) /\ FirstKnown(cut) /\ p.first \in Nat
  BY DEF IInv, TypeOK, RxTypeOK, TxTypeOK, DataPdu, CutInv, StartKept
<1>1. PICK buf, flags, s : buf = StoredBuf(p) /\ flags = StoredFlags(p) /\ s = SduAtStart(p)
  OBVIOUS
<1>2. /\ buf \in [RxSlots -> DataPdu \cup {NoPdu}] /\ flags \in [RxSlots -> BOOLEAN]
      /\ BufFits(cut, rxFirst, buf) /\ FlagsFit(buf, flags)
      /\ buf[x] = p /\ buf[x] # NoPdu /\ flags[x]
  BY <1>1, StoredFits
<1>3. p.first < rxFirst => AllPending(p.first) /\ s = p.sdu
  <2>1. ~Past(p.sno)
    BY <1>0 DEF Past, RxSlots
  <2> QED
    BY <1>0, <1>1, <2>1, NewAtStart
<1>4. PICK start : start = CompleteSdu(buf, flags, s, x)
  OBVIOUS
<1>5. start # Inconsistent
  <2>1. x = 0 /\ ~IsFirst(buf[x]) => p.first < rxFirst
    <3> SUFFICES ASSUME x = 0, ~IsFirst(p) PROVE p.first < rxFirst
      BY <1>2
    <3>1. p.sno = rxFirst /\ p.first # p.sno
      BY <1>0 DEF IsFirst
    <3>2. p.first = cut[p.sno].first /\ p.sno \in 0..(txSeq - 1)
      BY DEF Fragment
    <3>3. p.first <= p.sno
      BY <1>0, <3>2 DEF Cut
    <3> QED
      BY <1>0, <3>1, <3>3
  <2>2. x = 0 /\ ~IsFirst(buf[x]) => s = buf[x].sdu
    BY <1>2, <1>3, <2>1
  <2> QED
    BY <1>0, <1>2, <1>4, <2>2, ConsistentBuffer
<1>6. ASSUME start >= 0, ~MixedPending(buf, start)
      PROVE  /\ start \in RxSlots /\ buf[start].sdu = buf[x].sdu
             /\ NoHole(buf, start) /\ Whole(buf[start].sdu, Frames(buf, start))
  <2>1. buf[x].first < rxFirst => AllPending(buf[x].first)
    BY <1>2, <1>3
  <2> QED
    BY <1>0, <1>2, <1>4, <1>6, <2>1, CompleteIsWhole
<1>7. \/ start = Inconsistent
      \/ start >= 0 /\ MixedPending(buf, start) /\ RxThrow("mixedPending")
      \/ start >= 0 /\ ~MixedPending(buf, start) /\ ~NoHole(buf, start)
      \/ Noted(p) /\ firstSdu' = s /\ UNCHANGED <<pending, delivered>>
      \/ /\ start >= 0 /\ ~MixedPending(buf, start)
         /\ Noted(p) /\ firstSdu' = s /\ PassUp(buf, start)
  <2>1. /\ buf = [rBuf EXCEPT ![p.sno - rxFirst] = p]
        /\ start = CompleteSdu([rBuf EXCEPT ![p.sno - rxFirst] = p],
                               [rReceived EXCEPT ![p.sno - rxFirst] = TRUE],
                               SduAtStart(p), p.sno - rxFirst)
    BY <1>1, <1>4 DEF StoredBuf, StoredFlags
  <2> QED
    BY <1>1, <2>1 DEF StoreData, NoHole
<1>8. CASE start >= 0 /\ MixedPending(buf, start) /\ RxThrow("mixedPending")
  <2>1. UNCHANGED <<rxFirst, pending, firstSdu, delivered>> /\ rxErr' = "mixedPending"
    BY <1>8 DEF RxThrow, bufferVars
  <2>2. StartKept(cut)'
    BY <2>1 DEF StartKept, FirstKnown, PendingInOrder, PendingHas, AllPending, IsPassedUp,
                Fragment
  <2>3. DeliveredWell'
    BY <2>1 DEF DeliveredWell, RxThrowsOnlyKnown, DeliveredIntact
  <2> QED
    BY <2>2, <2>3
<1>9. CASE Noted(p) /\ firstSdu' = s /\ UNCHANGED <<pending, delivered>>
  <2>1. UNCHANGED <<rxFirst, pending, delivered, rxErr>> /\ firstSdu' = SduAtStart(p)
    BY <1>1, <1>9 DEF Noted
  <2>2. FirstKnown(cut)'
    BY <1>0, <2>1, NotedKnown
  <2>3. PendingInOrder(cut)' /\ PendingHas(cut)'
    BY <2>1 DEF StartKept, PendingInOrder, PendingHas, AllPending, IsPassedUp, Fragment
  <2>4. DeliveredWell'
    BY <2>1 DEF DeliveredWell, RxThrowsOnlyKnown, DeliveredIntact
  <2> QED
    BY <2>2, <2>3, <2>4 DEF StartKept
<1>10. CASE /\ start >= 0 /\ ~MixedPending(buf, start)
            /\ Noted(p) /\ firstSdu' = s /\ PassUp(buf, start)
  <2>1. /\ UNCHANGED <<rxFirst, rxErr>> /\ firstSdu' = SduAtStart(p)
        /\ pending' = IF FromPending(buf, start) = <<>> THEN pending ELSE <<>>
    BY <1>1, <1>10 DEF Noted, PassUp
  <2>2. PICK d : d = [sdu |-> p.sdu, frames |-> Frames(buf, start)]
    OBVIOUS
  <2>3. buf[start].sdu = p.sdu /\ start \in RxSlots /\ Whole(p.sdu, Frames(buf, start))
    BY <1>2, <1>6, <1>10
  <2>4. delivered' = Append(delivered, d) /\ d.sdu = p.sdu /\ Whole(d.sdu, d.frames)
    BY <1>10, <2>2, <2>3 DEF PassUp
  <2>5. /\ DOMAIN delivered = 1..Len(delivered) /\ Len(delivered) \in Nat
        /\ DOMAIN delivered' = 1..(Len(delivered) + 1)
        /\ delivered'[Len(delivered) + 1] = d
        /\ \A k \in 1..Len(delivered) : delivered'[k] = delivered[k]
    <3>1. PICK T : T = S \cup {d}
      OBVIOUS
    <3>2. delivered \in Seq(T) /\ d \in T
      BY <3>1
    <3> QED
      BY <2>4, <3>2
  <2>6. FirstKnown(cut)'
    BY <1>0, <2>1, NotedKnown
  <2>7. PendingInOrder(cut)'
    <3>1. CASE pending' = pending
      BY <1>0, <2>1, <3>1 DEF PendingInOrder, Fragment
    <3>2. CASE pending' = <<>>
      BY <3>2 DEF PendingInOrder
    <3> QED
      BY <2>1, <3>1, <3>2
  <2>8. PendingHas(cut)'
    <3>1. \A sdu : IsPassedUp(sdu) => IsPassedUp(sdu)'
      BY <2>5 DEF IsPassedUp
    <3>2. IsPassedUp(p.sdu)'
      BY <2>4, <2>5 DEF IsPassedUp
    <3>3. CASE pending' = pending
      BY <2>1, <3>1, <3>3 DEF StartKept, PendingHas, AllPending
    <3>4. CASE FromPending(buf, start) # <<>>
      <4>1. start = 0
        BY <3>4 DEF FromPending
      <4>2. buf[0] # NoPdu /\ buf[0].sdu = p.sdu
        BY <1>2, <2>3, <4>1
      <4>3. buf[0].sno = rxFirst /\ Fragment(cut, buf[0])
        BY <1>0, <1>2, <2>3, <4>1, <4>2 DEF BufFits
      <4>4. cut[rxFirst].sdu = p.sdu
        BY <4>2, <4>3 DEF Fragment
      <4> QED
        BY <2>1, <3>2, <4>4 DEF PendingHas
    <3> QED
      BY <2>1, <3>3, <3>4
  <2>9. DeliveredWell'
    <3>1. RxThrowsOnlyKnown'
      BY <2>1 DEF DeliveredWell, RxThrowsOnlyKnown
    <3>2. \A k \in 1..(Len(delivered) + 1) : Whole(delivered'[k].sdu, delivered'[k].frames)
      <4>1. \A k \in 1..Len(delivered) : Whole(delivered[k].sdu, delivered[k].frames)
        BY <2>5 DEF DeliveredWell, DeliveredIntact, Whole
      <4>2. \A k \in 1..(Len(delivered) + 1) : k \in 1..Len(delivered) \/ k = Len(delivered) + 1
        BY <2>5
      <4> QED
        BY <2>4, <2>5, <4>1, <4>2
    <3>3. DeliveredIntact'
      BY <2>5, <3>2 DEF DeliveredIntact, Whole
    <3> QED
      BY <3>1, <3>3 DEF DeliveredWell
  <2> QED
    BY <2>6, <2>7, <2>8, <2>9 DEF StartKept
<1> QED
  BY <1>5, <1>6, <1>7, <1>8, <1>9, <1>10

\* enque, DATA: no PDU is beyond the window, none meets an empty slot or a PDU of
\* another SDU, and what is passed up is whole.
LEMMA RecvDataWhole ==
    ASSUME IInv, RxSound, NEW cut, CutInv(cut), Blocks(cut), StartKept(cut), DeliveredWell,
           NEW S, delivered \in Seq(S),
           NEW p \in DataPdu, p \in Fragments, RecvData(p), UNCHANGED txVars
    PROVE  StartKept(cut)' /\ DeliveredWell'
<1>1. PICK x : x = p.sno - rxFirst
  OBVIOUS
<1>2. Fragment(cut, p) /\ TypeOK
  BY DEF CutInv, IInv
<1>3. /\ rxFirst \in Nat /\ txSeq \in Nat /\ txFirst \in Nat /\ p.sno \in 0..(txSeq - 1)
      /\ txFirst <= rxFirst /\ txSeq < txFirst + TxW /\ x \in Int /\ UNCHANGED txSeq
  <2>1. p.sno \in 0..(txSeq - 1)
    BY <1>2 DEF Fragment
  <2> QED
    BY <1>1, <1>2, <2>1, WindowArithmetic DEF IInv, WindowsTogether, txVars, windowVars
<1>4. ~(x >= RxW)
  BY <1>1, <1>3, WindowAssumption
<1>5. CASE UNCHANGED <<rxFirst, bufferVars, delivered, rxErr>>
  BY <1>3, <1>5, StartStays DEF bufferVars
<1>6. CASE x \in RxSlots /\ ~rReceived[x] /\ StoreData(p)
  BY <1>1, <1>2, <1>3, <1>6, StoreDataWhole
<1>7. ASSUME x \in RxSlots, rReceived[x]
      PROVE  rBuf[x] # NoPdu /\ rBuf[x].sdu = p.sdu
  <2>1. rBuf[x] # NoPdu /\ rBuf[x].sno = rxFirst + x
    BY <1>7 DEF RxSound, ReceivedIsStored
  <2>2. Fragment(cut, rBuf[x])
    BY <1>2, <1>7, <2>1, BufferCut
  <2>3. rBuf[x].sno = p.sno
    BY <1>1, <1>3, <2>1
  <2> QED
    BY <1>2, <2>1, <2>2, <2>3 DEF Fragment
<1>8. \/ UNCHANGED <<rxFirst, bufferVars, delivered, rxErr>>
      \/ x >= RxW
      \/ x \in RxSlots /\ ~rReceived[x] /\ StoreData(p)
      \/ x \in RxSlots /\ rReceived[x] /\ ~(rBuf[x] # NoPdu /\ rBuf[x].sdu = p.sdu)
  BY <1>1 DEF RecvData, Noted
<1> QED
  BY <1>4, <1>5, <1>6, <1>7, <1>8

-----------------------------------------------------------------------------
\* The numbers of t's SDU before t are all with the receiver.
Reached(cut, t) ==
    t < txSeq => \A sn \in cut[t].first..(t - 1) : Holds(sn)

\* moveRxWindow: what it puts into pending.
LEMMA ShiftedOutLists ==
    ASSUME TypeOK, BufferInPlace, NEW pos \in 1..RxW
    PROVE  \E base, q, S :
              /\ ShiftedOut(pos) = base \o q
              /\ base = pending \/ base = <<>>
              /\ S = {i \in 0..(pos - 1) :
                        rBuf[i] # NoPdu /\ \A j \in i..(pos - 1) : rBuf[j] # NoPdu => ~IsLast(rBuf[j])}
              /\ q \in Seq(DataPdu) /\ Lists(q, rBuf, S)
              /\ (\A j \in 0..(pos - 1) : rBuf[j] # NoPdu => ~IsLast(rBuf[j])) => base = pending
<1> DEFINE lasts == {i \in 0..(pos - 1) : rBuf[i] # NoPdu /\ IsLast(rBuf[i])}
           from == IF lasts = {} THEN 0 ELSE Max(lasts) + 1
           T == {i \in from..(pos - 1) : rBuf[i] # NoPdu}
           S == {i \in 0..(pos - 1) :
                   rBuf[i] # NoPdu /\ \A j \in i..(pos - 1) : rBuf[j] # NoPdu => ~IsLast(rBuf[j])}
<1>0. /\ RxW \in Nat /\ RxSlots = 0..(RxW - 1) /\ pos - 1 \in Nat
      /\ rBuf \in [RxSlots -> DataPdu \cup {NoPdu}]
  BY WindowAssumption DEF RxSlots, TypeOK, RxTypeOK
<1>1. from \in Nat /\ \A i \in 0..(pos - 1) : i >= from <=> (\A j \in i..(pos - 1) : j \notin lasts)
  <2>1. CASE lasts = {}
    BY <2>1
  <2>2. CASE lasts # {}
    <3>1. lasts \in SUBSET (0..(pos - 1))
      OBVIOUS
    <3>2. Max(lasts) \in lasts /\ \A y \in lasts : Max(lasts) >= y
      <4> HIDE DEF lasts
      <4> QED
        BY <1>0, <2>2, <3>1, LargestIndex
    <3>3. PICK m : m = Max(lasts)
      OBVIOUS
    <3>4. m \in 0..(pos - 1) /\ m \in lasts /\ \A y \in lasts : m >= y
      <4> HIDE DEF lasts
      <4> QED
        BY <3>1, <3>2, <3>3
    <3>5. from = m + 1
      <4> HIDE DEF lasts
      <4> QED
        BY <2>2, <3>3
    <3> HIDE DEF lasts, from
    <3> QED
      BY <1>0, <3>1, <3>4, <3>5
  <2> QED
    BY <2>1, <2>2
<1>2. T = S
  <2>1. \A i \in 0..(pos - 1) : i \in S <=> rBuf[i] # NoPdu /\ \A j \in i..(pos - 1) : j \notin lasts
    BY <1>0
  <2>2. \A i \in 0..(pos - 1) : i \in T <=> rBuf[i] # NoPdu /\ i >= from
    <3> HIDE DEF from
    <3> QED
      BY <1>0, <1>1
  <2>3. T \subseteq 0..(pos - 1) /\ S \subseteq 0..(pos - 1)
    <3> HIDE DEF from
    <3> QED
      BY <1>0, <1>1
  <2> HIDE DEF T, S, lasts, from
  <2> QED
    BY <1>1, <2>1, <2>2, <2>3
<1>3. PICK U : U = S
  OBVIOUS
<1>4. U \in SUBSET Nat /\ IsFiniteSet(U) /\ OnlyFrom(rBuf, U, DataPdu)
  <2>1. U \subseteq 0..(pos - 1)
    BY <1>3
  <2>2. IsFiniteSet(0..(pos - 1))
    BY <1>0, FS_Interval
  <2>3. IsFiniteSet(U)
    BY <2>1, <2>2, FS_Subset
  <2>4. \A i \in U : rBuf[i] \in DataPdu
    BY <1>0, <1>3
  <2> QED
    BY <2>1, <2>3, <2>4 DEF OnlyFrom
<1>5. PICK q : q = InOrder(rBuf, U)
  OBVIOUS
<1>6. q \in Seq(DataPdu) /\ Lists(q, rBuf, U)
  BY <1>4, <1>5, InOrderLists
<1>7. PICK base : base = IF lasts = {} THEN pending ELSE <<>>
  OBVIOUS
<1>8. ShiftedOut(pos) = base \o q
  BY <1>2, <1>3, <1>5, <1>7 DEF ShiftedOut
<1>9. (\A j \in 0..(pos - 1) : rBuf[j] # NoPdu => ~IsLast(rBuf[j])) => base = pending
  BY <1>7
<1>10. U = S /\ (base = pending \/ base = <<>>)
  BY <1>3, <1>7
<1> QED
  BY <1>6, <1>8, <1>9, <1>10

\* enque, MRW: the command is for a number inside or right behind the window.
LEMMA RecvMrwCases ==
    ASSUME IInv, NEW m \in MrwPdu, SettledBelow(m.target), RecvMrw(m)
    PROVE  \/ RxThrow("noFlowInfo")
           \/ UNCHANGED <<rxFirst, bufferVars, delivered, rxErr>>
           \/ /\ m.target - rxFirst \in 1..RxW
              /\ rxFirst' = m.target /\ UNCHANGED <<delivered, rxErr>>
              /\ pending' = ShiftedOut(m.target - rxFirst)
              /\ firstSdu' = SduAfter(m.target - rxFirst)
<1>1. PICK t, pos : t = m.target /\ pos = m.target - rxFirst
  OBVIOUS
<1>2. /\ t \in Nat /\ rxFirst \in Nat /\ pos \in Int /\ RxW \in Nat
      /\ pos = t - rxFirst /\ t <= txSeq
  BY <1>1, WindowArithmetic, WindowAssumption DEF IInv, MrwPdu, SettledBelow
<1>3. pos <= RxW
  BY <1>1, <1>2, WindowArithmetic, WindowAssumption DEF IInv, WindowsTogether
<1>4. CASE pos <= 0
  BY <1>1, <1>2, <1>3, <1>4 DEF RecvMrw, bufferVars
<1>5. CASE pos > 0
  BY <1>1, <1>2, <1>3, <1>5 DEF RecvMrw, bufferVars
<1> QED
  BY <1>2, <1>4, <1>5

\* What Reached says of a slot that the window moves past, and of a number before
\* the window.
LEMMA ReachedSlots ==
    ASSUME IInv, RxSound, NEW cut, CutInv(cut), Blocks(cut),
           NEW t \in Nat, t < txSeq, rxFirst < t, t - rxFirst <= RxW, Reached(cut, t)
    PROVE  /\ \A i \in 0..(t - rxFirst - 1) : cut[t].first <= rxFirst + i =>
                 /\ rBuf[i] # NoPdu /\ rBuf[i].sno = rxFirst + i /\ rBuf[i].sdu = cut[t].sdu
                 /\ ~IsLast(rBuf[i])
           /\ cut[t].first < rxFirst => rxFirst < txSeq /\ cut[rxFirst] = cut[t]
<1>1. /\ rxFirst \in Nat /\ txSeq \in Nat /\ RxW \in Nat /\ RxSlots = 0..(RxW - 1) /\ TypeOK
  BY WindowArithmetic, WindowAssumption DEF IInv, RxSlots
<1>2. PICK c : c = cut[t]
  OBVIOUS
<1>3. c.first \in Nat /\ c.last \in Nat /\ c.first <= t /\ t <= c.last
  <2>1. t \in 0..(txSeq - 1)
    BY <1>1
  <2>2. c \in [sdu : Nat, first : Nat, last : Nat]
    BY <1>2, <2>1 DEF CutInv, Cut
  <2> QED
    BY <1>2, <2>1, <2>2 DEF CutInv, Cut
<1>4. \A j \in c.first..c.last : cut[j] = c
  BY <1>1, <1>2 DEF Blocks
<1>5. ASSUME NEW i \in 0..(t - rxFirst - 1), c.first <= rxFirst + i
      PROVE  /\ rBuf[i] # NoPdu /\ rBuf[i].sno = rxFirst + i /\ rBuf[i].sdu = c.sdu
             /\ ~IsLast(rBuf[i])
  <2>1. PICK sn : sn = rxFirst + i
    OBVIOUS
  <2>2. sn \in c.first..(t - 1) /\ ~(sn < rxFirst) /\ sn - rxFirst = i /\ i \in RxSlots
        /\ sn \in c.first..c.last
    BY <1>1, <1>3, <1>5, <2>1
  <2>3. Holds(sn)
    BY <1>2, <2>2 DEF Reached
  <2>4. rBuf[i] # NoPdu
    BY <2>2, <2>3 DEF Holds
  <2>5. rBuf[i].sno = sn /\ Fragment(cut, rBuf[i])
    BY <1>1, <2>1, <2>2, <2>4, BufferCut DEF RxSound, BufferInPlace
  <2>6. rBuf[i].sdu = c.sdu /\ rBuf[i].last = c.last
    BY <1>4, <2>2, <2>5 DEF Fragment
  <2>7. ~IsLast(rBuf[i])
    BY <1>3, <2>2, <2>5, <2>6 DEF IsLast
  <2> QED
    BY <2>1, <2>4, <2>5, <2>6, <2>7
<1>6. ASSUME c.first < rxFirst PROVE rxFirst < txSeq /\ cut[rxFirst] = c
  BY <1>1, <1>3, <1>4, <1>6
<1> QED
  BY <1>2, <1>5, <1>6

\* enque, MRW: what is known at the start of the window after it has moved.
LEMMA MovedKnown ==
    ASSUME IInv, RxSound, NEW cut, CutInv(cut), Blocks(cut), NEW t \in Nat, rxFirst < t,
           t - rxFirst <= RxW, Reached(cut, t), rxFirst' = t, UNCHANGED txSeq,
           firstSdu' = SduAfter(t - rxFirst)
    PROVE  FirstKnown(cut)'
<1> SUFFICES ASSUME t < txSeq, cut[t].first < t
             PROVE  SduAfter(t - rxFirst) = cut[t].sdu
  BY DEF FirstKnown
<1>1. rxFirst \in Nat /\ txSeq \in Nat
  BY WindowArithmetic DEF IInv
<1>2. cut[t].first \in Nat
  <2>1. t \in 0..(txSeq - 1)
    BY <1>1
  <2> QED
    BY <2>1 DEF CutInv, Cut
<1>3. PICK i : i = t - rxFirst - 1
  OBVIOUS
<1>4. i \in 0..(t - rxFirst - 1) /\ cut[t].first <= rxFirst + i
  BY <1>1, <1>2, <1>3
<1>5. rBuf[i] # NoPdu /\ rBuf[i].sdu = cut[t].sdu /\ ~IsLast(rBuf[i])
  BY <1>4, ReachedSlots
<1> QED
  BY <1>3, <1>5 DEF SduAfter

\* enque, MRW: pending stays in order, all before the window.
LEMMA MovedInOrder ==
    ASSUME IInv, RxSound, NEW cut, CutInv(cut), PendingInOrder(cut),
           NEW t \in Nat, t - rxFirst \in 1..RxW,
           rxFirst' = t, pending' = ShiftedOut(t - rxFirst), UNCHANGED txSeq
    PROVE  PendingInOrder(cut)'
<1>0. /\ rxFirst \in Nat /\ txSeq \in Nat /\ RxW \in Nat /\ RxSlots = 0..(RxW - 1) /\ TypeOK
      /\ rxFirst < t
  BY WindowArithmetic, WindowAssumption DEF IInv, RxSlots
<1>1. PICK pos : pos = t - rxFirst
  OBVIOUS
<1>2. pos \in 1..RxW /\ t = rxFirst + pos
  BY <1>0, <1>1
<1>3. BufferInPlace
  BY DEF RxSound
<1>4. PICK base, q, U :
        /\ ShiftedOut(pos) = base \o q
        /\ base = pending \/ base = <<>>
        /\ U = {i \in 0..(pos - 1) :
                  rBuf[i] # NoPdu /\ \A j \in i..(pos - 1) : rBuf[j] # NoPdu => ~IsLast(rBuf[j])}
        /\ q \in Seq(DataPdu) /\ Lists(q, rBuf, U)
  BY <1>0, <1>2, <1>3, ShiftedOutLists
<1>5. pending' = base \o q
  BY <1>1, <1>4
<1>6. /\ base \in Seq(DataPdu)
      /\ \A k \in 1..Len(base) : Fragment(cut, base[k]) /\ base[k].sno < rxFirst /\ base[k].sno \in Nat
      /\ \A j, k \in 1..Len(base) : j < k => base[j].sno < base[k].sno
  <2>1. CASE base = pending
    <3>1. DOMAIN pending = 1..Len(pending)
      BY DEF PendingInOrder
    <3>2. \A k \in 1..Len(pending) : pending[k].sno \in Nat
      <4>1. \A k \in 1..Len(pending) : pending[k] \in DataPdu
        BY DEF PendingInOrder
      <4> QED
        BY <4>1 DEF DataPdu
    <3>3. pending \in Seq(DataPdu)
      BY DEF PendingInOrder
    <3>4. \A k \in 1..Len(pending) : Fragment(cut, pending[k]) /\ pending[k].sno < rxFirst
      BY <3>1 DEF PendingInOrder
    <3>5. \A j, k \in 1..Len(pending) : j < k => pending[j].sno < pending[k].sno
      BY <3>1 DEF PendingInOrder
    <3> QED
      BY <2>1, <3>2, <3>3, <3>4, <3>5
  <2>2. CASE base = <<>>
    BY <2>2
  <2> QED
    BY <1>4, <2>1, <2>2
<1>7. PICK at \in [1..Len(q) -> U] :
        /\ \A k \in 1..Len(q) : q[k] = rBuf[at[k]]
        /\ \A j, k \in 1..Len(q) : j < k => at[j] < at[k]
  BY <1>4 DEF Lists
<1>8. \A i \in U : /\ Fragment(cut, rBuf[i]) /\ rBuf[i].sno = rxFirst + i
                   /\ rxFirst + i \in rxFirst..(t - 1) /\ i \in Nat
  <2> SUFFICES ASSUME NEW i \in U
               PROVE  /\ Fragment(cut, rBuf[i]) /\ rBuf[i].sno = rxFirst + i
                      /\ rxFirst + i \in rxFirst..(t - 1) /\ i \in Nat
    OBVIOUS
  <2>1. i \in 0..(pos - 1) /\ rBuf[i] # NoPdu
    BY <1>4
  <2>2. i \in RxSlots
    BY <1>0, <1>2, <2>1
  <2>3. Fragment(cut, rBuf[i]) /\ rBuf[i].sno = rxFirst + i
    BY <1>0, <1>3, <2>1, <2>2, BufferCut DEF BufferInPlace
  <2> QED
    BY <1>0, <1>2, <2>1, <2>3
<1>9. /\ \A k \in 1..Len(q) : /\ Fragment(cut, q[k]) /\ q[k].sno \in Nat
                              /\ rxFirst <= q[k].sno /\ q[k].sno < t
      /\ \A j, k \in 1..Len(q) : j < k => q[j].sno < q[k].sno
  <2>1. \A k \in 1..Len(q) : at[k] \in U /\ q[k].sno = rxFirst + at[k] /\ at[k] \in Nat
                             /\ Fragment(cut, q[k]) /\ rxFirst + at[k] \in rxFirst..(t - 1)
    BY <1>7, <1>8
  <2>2. ASSUME NEW j \in 1..Len(q), NEW k \in 1..Len(q), j < k PROVE q[j].sno < q[k].sno
    <3>1. at[j] < at[k]
      BY <1>7, <2>2
    <3> QED
      BY <1>0, <2>1, <3>1
  <2> QED
    BY <1>0, <2>1, <2>2
<1>10. PICK n, h : n = Len(base) /\ h = Len(q)
  OBVIOUS
<1>11. /\ n \in Nat /\ h \in Nat /\ pending' \in Seq(DataPdu) /\ DOMAIN pending' = 1..(n + h)
       /\ \A k \in 1..n : pending'[k] = base[k]
       /\ \A k \in (n + 1)..(n + h) : k - n \in 1..h /\ pending'[k] = q[k - n]
  <2>1. n \in Nat /\ h \in Nat
    BY <1>4, <1>6, <1>10
  <2>2. base \o q \in Seq(DataPdu) /\ Len(base \o q) = n + h
    BY <1>4, <1>6, <1>10
  <2>3. \A k \in 1..n : (base \o q)[k] = base[k]
    BY <1>4, <1>6, <1>10, <2>1
  <2>4. ASSUME NEW k \in (n + 1)..(n + h) PROVE k - n \in 1..h /\ (base \o q)[k] = q[k - n]
    <3>1. k \in 1..(Len(base) + Len(q)) /\ k > Len(base) /\ k - Len(base) = k - n
      BY <1>10, <2>1
    <3>2. (base \o q)[k] = q[k - Len(base)]
      BY <1>4, <1>6, <3>1
    <3> QED
      BY <2>1, <3>1, <3>2
  <2> QED
    <3>1. DOMAIN (base \o q) = 1..(n + h)
      BY <2>2
    <3> QED
      BY <1>5, <2>1, <2>2, <2>3, <2>4, <3>1
<1>12. \A k \in 1..(n + h) : k \in 1..n \/ k \in (n + 1)..(n + h)
  BY <1>11
<1>13. ASSUME NEW k \in 1..(n + h) PROVE Fragment(cut, pending'[k]) /\ pending'[k].sno < t
  <2>1. CASE k \in 1..n
    BY <1>0, <1>6, <1>10, <1>11, <2>1
  <2>2. CASE k \in (n + 1)..(n + h)
    BY <1>9, <1>10, <1>11, <2>2
  <2> QED
    BY <1>12, <2>1, <2>2
<1>14. ASSUME NEW j \in 1..(n + h), NEW k \in 1..(n + h), j < k
       PROVE  pending'[j].sno < pending'[k].sno
  <2>1. CASE k \in 1..n
    <3>1. j \in 1..n
      BY <1>11, <1>14, <2>1
    <3> QED
      BY <1>6, <1>10, <1>11, <1>14, <2>1, <3>1
  <2>2. CASE j \in 1..n /\ k \in (n + 1)..(n + h)
    <3>1. pending'[j].sno < rxFirst /\ pending'[j].sno \in Nat
      BY <1>6, <1>10, <1>11, <2>2
    <3>2. rxFirst <= pending'[k].sno /\ pending'[k].sno \in Nat
      BY <1>9, <1>10, <1>11, <2>2
    <3> QED
      BY <1>0, <3>1, <3>2
  <2>3. CASE j \in (n + 1)..(n + h) /\ k \in (n + 1)..(n + h)
    <3>1. j - n \in 1..h /\ k - n \in 1..h /\ j - n < k - n
      BY <1>11, <1>14, <2>3
    <3> QED
      BY <1>9, <1>10, <1>11, <2>3, <3>1
  <2>4. k \in (n + 1)..(n + h) => j \in 1..n \/ j \in (n + 1)..(n + h)
    BY <1>12
  <2> QED
    BY <1>12, <2>1, <2>2, <2>3, <2>4
<1>15. (\A k \in DOMAIN pending : Fragment(cut, pending[k]) /\ pending[k].sno < rxFirst)'
  BY <1>11, <1>13 DEF Fragment
<1> QED
  BY <1>11, <1>14, <1>15 DEF PendingInOrder

\* enque, MRW: the numbers of the SDU at the new start of the window that lie before
\* it are in pending: they were there or have just been shifted out, and no last
\* PDU has emptied it in between.
LEMMA MovedPending ==
    ASSUME IInv, RxSound, NEW cut, CutInv(cut), Blocks(cut), StartKept(cut),
           NEW t \in Nat, t - rxFirst \in 1..RxW, Reached(cut, t),
           rxFirst' = t, pending' = ShiftedOut(t - rxFirst), UNCHANGED <<txSeq, delivered>>
    PROVE  PendingHas(cut)'
<1> SUFFICES ASSUME t < txSeq, ~IsPassedUp(cut[t].sdu), NEW sn \in cut[t].first..(t - 1)
             PROVE  \E k \in DOMAIN pending' : pending'[k].sno = sn
  BY DEF PendingHas, AllPending, IsPassedUp
<1>0. /\ rxFirst \in Nat /\ txSeq \in Nat /\ RxW \in Nat /\ RxSlots = 0..(RxW - 1) /\ TypeOK
      /\ rxFirst < t /\ PendingInOrder(cut)
  BY WindowArithmetic, WindowAssumption DEF IInv, RxSlots, StartKept
<1>1. PICK pos, c : pos = t - rxFirst /\ c = cut[t]
  OBVIOUS
<1>2. pos \in 1..RxW /\ t = rxFirst + pos /\ t - rxFirst - 1 = pos - 1
  BY <1>0, <1>1
<1>3. BufferInPlace
  BY DEF RxSound
<1>4. c.first \in Nat /\ sn \in Nat
  <2>1. t \in 0..(txSeq - 1)
    BY <1>0
  <2>2. c.first \in Nat
    BY <1>1, <2>1 DEF CutInv, Cut
  <2> QED
    BY <1>1, <2>2
<1>5. \A i \in 0..(pos - 1) : c.first <= rxFirst + i =>
         rBuf[i] # NoPdu /\ rBuf[i].sno = rxFirst + i /\ ~IsLast(rBuf[i])
  BY <1>0, <1>1, <1>2, ReachedSlots
<1>6. PICK base, q, U :
        /\ ShiftedOut(pos) = base \o q
        /\ base = pending \/ base = <<>>
        /\ U = {i \in 0..(pos - 1) :
                  rBuf[i] # NoPdu /\ \A j \in i..(pos - 1) : rBuf[j] # NoPdu => ~IsLast(rBuf[j])}
        /\ q \in Seq(DataPdu) /\ Lists(q, rBuf, U)
        /\ (\A j \in 0..(pos - 1) : rBuf[j] # NoPdu => ~IsLast(rBuf[j])) => base = pending
  BY <1>0, <1>2, <1>3, ShiftedOutLists
<1>7. pending' = base \o q
  BY <1>1, <1>6
<1>8. base \in Seq(DataPdu)
  <2>1. pending \in Seq(DataPdu)
    BY <1>0 DEF PendingInOrder
  <2>2. <<>> \in Seq(DataPdu)
    OBVIOUS
  <2> QED
    BY <1>6, <2>1, <2>2
<1>9. PICK n, h : n = Len(base) /\ h = Len(q)
  OBVIOUS
<1>10. n \in Nat /\ h \in Nat /\ DOMAIN (base \o q) = 1..(n + h)
  BY <1>6, <1>8, <1>9
<1>11. CASE sn < rxFirst
  <2>1. rxFirst < txSeq /\ cut[rxFirst] = c
    <3>1. c.first < rxFirst
      BY <1>0, <1>1, <1>4, <1>11
    <3> QED
      BY <1>0, <1>1, <1>2, <3>1, ReachedSlots
  <2>2. AllPending(c.first)
    BY <1>1, <2>1 DEF StartKept, PendingHas
  <2>3. PICK k \in DOMAIN pending : pending[k].sno = sn
    BY <1>0, <1>1, <1>4, <1>11, <2>2 DEF AllPending
  <2>4. base = pending
    <3>1. \A j \in 0..(pos - 1) : c.first <= rxFirst + j
      BY <1>0, <1>1, <1>4, <1>11
    <3> QED
      BY <1>5, <1>6, <3>1
  <2>5. k \in 1..n /\ k \in 1..(n + h)
    <3>1. DOMAIN base = 1..n
      BY <1>8, <1>9
    <3> QED
      BY <1>10, <2>4, <3>1
  <2>6. (base \o q)[k] = base[k]
    BY <1>6, <1>8, <1>9, <1>10, <2>5
  <2> QED
    BY <1>7, <1>10, <2>3, <2>4, <2>5, <2>6
<1>12. CASE ~(sn < rxFirst)
  <2>1. PICK i : i = sn - rxFirst
    OBVIOUS
  <2>2. i \in 0..(pos - 1) /\ sn = rxFirst + i /\ c.first <= sn
    BY <1>0, <1>1, <1>2, <1>4, <1>12, <2>1
  <2>3. \A j \in i..(pos - 1) : j \in 0..(pos - 1) /\ c.first <= rxFirst + j
    BY <1>0, <1>4, <2>2
  <2>4. i \in U
    BY <1>5, <1>6, <2>2, <2>3
  <2>5. PICK k \in 1..h : q[k] = rBuf[i]
    <3>1. PICK at \in [1..Len(q) -> U] :
            /\ \A k \in 1..Len(q) : q[k] = rBuf[at[k]]
            /\ \A j \in U : \E k \in 1..Len(q) : at[k] = j
      <4>1. Lists(q, rBuf, U)
        BY <1>6
      <4> QED
        BY <4>1 DEF Lists
    <3>2. PICK k \in 1..Len(q) : at[k] = i
      BY <2>4, <3>1
    <3> QED
      BY <1>9, <3>1, <3>2
  <2>6. PICK w : w = n + k
    OBVIOUS
  <2>7. w \in 1..(Len(base) + Len(q)) /\ w > Len(base) /\ w - Len(base) = k /\ w \in 1..(n + h)
    BY <1>9, <1>10, <2>6
  <2>8. (base \o q)[w] = q[w - Len(base)]
    BY <1>6, <1>8, <2>7
  <2>9. (base \o q)[w].sno = sn
    BY <1>5, <2>2, <2>5, <2>7, <2>8
  <2> QED
    BY <1>7, <1>10, <2>7, <2>9
<1> QED
  BY <1>11, <1>12

\* enque, MRW: no command is beyond the window.
LEMMA RecvMrwWhole ==
    ASSUME IInv, RxSound, NEW cut, CutInv(cut), Blocks(cut), StartKept(cut), DeliveredWell,
           NEW m \in MrwPdu, SettledBelow(m.target), Reached(cut, m.target), RecvMrw(m),
           UNCHANGED txVars
    PROVE  StartKept(cut)' /\ DeliveredWell'
<1>0. UNCHANGED txSeq /\ rxFirst \in Nat /\ m.target \in Nat /\ RxW \in Nat
  BY WindowArithmetic, WindowAssumption DEF IInv, txVars, windowVars, MrwPdu
<1>1. CASE RxThrow("noFlowInfo")
  <2>1. UNCHANGED <<rxFirst, pending, firstSdu, delivered>> /\ rxErr' = "noFlowInfo"
    BY <1>1 DEF RxThrow, bufferVars
  <2>2. StartKept(cut)'
    BY <1>0, <2>1 DEF StartKept, FirstKnown, PendingInOrder, PendingHas, AllPending, IsPassedUp,
                      Fragment
  <2>3. DeliveredWell'
    BY <2>1 DEF DeliveredWell, RxThrowsOnlyKnown, DeliveredIntact
  <2> QED
    BY <2>2, <2>3
<1>2. CASE UNCHANGED <<rxFirst, bufferVars, delivered, rxErr>>
  BY <1>0, <1>2, StartStays DEF bufferVars
<1>3. CASE /\ m.target - rxFirst \in 1..RxW
           /\ rxFirst' = m.target /\ UNCHANGED <<delivered, rxErr>>
           /\ pending' = ShiftedOut(m.target - rxFirst)
           /\ firstSdu' = SduAfter(m.target - rxFirst)
  <2>0. rxFirst < m.target /\ m.target - rxFirst <= RxW
    BY <1>0, <1>3
  <2>1. FirstKnown(cut)'
    BY <1>0, <1>3, <2>0, MovedKnown
  <2>2. PendingInOrder(cut)
    BY DEF StartKept
  <2>3. PendingInOrder(cut)'
    BY <1>0, <1>3, <2>2, MovedInOrder
  <2>4. PendingHas(cut)'
    BY <1>0, <1>3, MovedPending
  <2>5. DeliveredWell'
    BY <1>3 DEF DeliveredWell, RxThrowsOnlyKnown, DeliveredIntact
  <2> QED
    BY <2>1, <2>3, <2>4, <2>5 DEF StartKept
<1> QED
  BY <1>1, <1>2, <1>3, RecvMrwCases

\* An MRW that checkForMrw issues: all before its target is settled, and the PDU at
\* the target is not given up.
Issued(m) ==
    \E k \in 0..TxUsed :
        /\ m.target = txFirst + k
        /\ \A i \in 0..(k - 1) : tReceived[i] \/ tDiscarded[i]
        /\ k < TxUsed => ~tDiscarded[k]

\* Every MRW that waits or is on its way after a step did so before or is issued in it.
MrwsIssued == \A m \in Commands' : m.type = "MRW" => m \in Commands \/ Issued(m)'

LEMMA NoneIssued ==
    ASSUME \A m \in Commands' : m \in Commands \/ m \in DataPdu
    PROVE  MrwsIssued
<1>1. \A m \in DataPdu : m.type # "MRW"
  BY DEF DataPdu
<1> QED
  BY <1>1 DEF MrwsIssued

LEMMA CheckForMrwIssues ==
    ASSUME IInv, UNCHANGED <<txFirst, txSeq, air>>, NEW received, NEW discarded,
           \A i \in TxSlots : received[i] => tReceived'[i],
           \A i \in TxSlots : tDiscarded'[i] <=> discarded[i],
           CheckForMrw(received, discarded, txBuf)
    PROVE  MrwsIssued
<1>0. /\ txFirst \in Nat /\ txSeq \in Nat /\ TxW \in Nat
      /\ TxUsed \in 0..(TxW - 1) /\ mrwSn \in Nat
      /\ txBuf \in Seq(DataPdu \cup MrwPdu) /\ TxUsed' = TxUsed
  BY WindowArithmetic, WindowAssumption DEF IInv, TypeOK, TxTypeOK, TxUsed
<1>1. PICK k \in 0..TxW :
        /\ Settled(k, received, discarded)
        /\ \/ k = 0 /\ txBuf' = txBuf /\ UNCHANGED mrwVars
           \/ k > 0 /\ SendMrw(txFirst + k, txBuf)
  BY DEF CheckForMrw
<1>2. /\ k \in 0..TxUsed
      /\ \A i \in 0..(k - 1) : received[i] \/ discarded[i]
      /\ k < TxUsed => ~(received[k] \/ discarded[k])
  BY <1>1 DEF Settled
<1>3. CASE k = 0 /\ txBuf' = txBuf /\ UNCHANGED mrwVars
  <2>1. Commands' = Commands
    BY <1>3 DEF Commands, mrwVars
  <2> QED
    BY <2>1, NoneIssued
<1>4. CASE SendMrw(txFirst + k, txBuf)
  <2>0. PICK M \in Nat : M = txFirst + k
    BY <1>0, <1>2
  <2>1. PICK c : c = Mrw(mrwSn, M)
    OBVIOUS
  <2>2. mrwQ' = mrwQ \cup {c} /\ txBuf' = Append(txBuf, c)
    BY <1>4, <2>0, <2>1 DEF SendMrw
  <2>3. c \in MrwPdu /\ c.target = M
    BY <1>0, <2>1 DEF Mrw, MrwPdu
  <2>4. InSeq(txBuf') \subseteq InSeq(txBuf) \cup {c}
    BY <1>0, <2>2, <2>3, InAppend
  <2>5. \A m \in Commands' : m \in Commands \/ m = c
    BY <2>2, <2>4 DEF Commands
  <2>6. \A i \in 0..(k - 1) : tReceived'[i] \/ tDiscarded'[i]
    <3> SUFFICES ASSUME NEW i \in 0..(k - 1) PROVE tReceived'[i] \/ tDiscarded'[i]
      OBVIOUS
    <3>1. i \in TxSlots
      BY <1>0, <1>2 DEF TxSlots
    <3> QED
      BY <1>2, <3>1
  <2>7. k < TxUsed => ~tDiscarded'[k]
    <3> SUFFICES ASSUME k < TxUsed PROVE ~tDiscarded'[k]
      OBVIOUS
    <3>1. k \in TxSlots
      BY <1>0, <1>2 DEF TxSlots
    <3> QED
      BY <1>2, <3>1
  <2>8. Issued(c)'
    BY <1>0, <1>2, <2>0, <2>3, <2>6, <2>7 DEF Issued
  <2> QED
    BY <2>5, <2>8 DEF MrwsIssued
<1> QED
  BY <1>1, <1>3, <1>4

LEMMA EnqueIssues ==
    ASSUME IInv, NEW n \in SduFrags, AtTx(Enque(n))
    PROVE  MrwsIssued
<1>0. /\ n \in Nat \ {0} /\ txFirst \in Nat /\ txSeq \in Nat /\ nextSdu \in Nat
      /\ TxUsed \in Nat /\ TxUsed = txSeq - txFirst
      /\ txBuf \in Seq(DataPdu \cup MrwPdu) /\ UNCHANGED air
  BY ParameterAssumption, WindowArithmetic
     DEF IInv, TypeOK, TxTypeOK, TxUsed, AtTx, chanVars
<1>1. CASE UNCHANGED <<mrwQ, txBuf>>
  <2>1. Commands' = Commands
    BY <1>0, <1>1 DEF Commands
  <2> QED
    BY <2>1, NoneIssued
<1>2. CASE /\ txBuf' = txBuf \o [k \in 1..n |->
                   Data(txFirst + (TxUsed + k - 1), nextSdu, txSeq, txSeq + n - 1)]
           /\ UNCHANGED mrwQ
  <2>1. PICK t : t = [k \in 1..n |->
                   Data(txFirst + (TxUsed + k - 1), nextSdu, txSeq, txSeq + n - 1)]
    OBVIOUS
  <2>2. t \in Seq(DataPdu)
    <3>1. \A k \in 1..n :
            Data(txFirst + (TxUsed + k - 1), nextSdu, txSeq, txSeq + n - 1) \in DataPdu
      <4> SUFFICES ASSUME NEW k \in 1..n
                   PROVE  Data(txFirst + (TxUsed + k - 1), nextSdu, txSeq, txSeq + n - 1)
                              \in DataPdu
        OBVIOUS
      <4>1. txFirst + (TxUsed + k - 1) \in Nat /\ txSeq + n - 1 \in Nat
        BY <1>0
      <4> QED
        BY <1>0, <4>1, DataType
    <3> QED
      BY <1>0, <2>1, <3>1
  <2>3. \A k \in 1..Len(t) : t[k] \in DataPdu
    BY <2>2
  <2>4. InSeq(txBuf') \subseteq InSeq(txBuf) \cup DataPdu
    <3>1. t \in Seq(DataPdu \cup MrwPdu) /\ InSeq(t) \subseteq DataPdu
      BY <2>2, <2>3 DEF InSeq
    <3> QED
      BY <1>0, <1>2, <2>1, <3>1, InConcat
  <2>5. \A m \in Commands' : m \in Commands \/ m \in DataPdu
    BY <1>0, <1>2, <2>4 DEF Commands
  <2> QED
    BY <2>5, NoneIssued
<1>3. \A e : TxThrow(e) => UNCHANGED <<mrwQ, txBuf>>
  BY DEF TxThrow, mrwVars
<1> QED
  BY <1>1, <1>2, <1>3 DEF AtTx, Enque, mrwVars

LEMMA PduTimerIssues ==
    ASSUME IInv, TxSound, NEW sn \in pduTimer, AtTx(PduTimer(sn))
    PROVE  MrwsIssued
<1> DEFINE x == sn - txFirst
           marked == [i \in TxSlots |-> tDiscarded[i] \/ i \in Group(x)]
<1>0. /\ UNCHANGED air /\ txBuf \in Seq(DataPdu \cup MrwPdu)
      /\ rtx \in [TxSlots -> DataPdu \cup {NoPdu}]
  BY DEF IInv, TypeOK, TxTypeOK, AtTx, chanVars
<1>1. CASE Discard(x, pduTimer \ {sn}) /\ UNCHANGED <<txFirst, txSeq, rtx, tReceived>>
  <2>1. tDiscarded' = marked /\ CheckForMrw(tReceived, marked, txBuf)
    BY <1>1 DEF Discard
  <2> HIDE DEF marked
  <2> QED
    BY <1>0, <1>1, <2>1, CheckForMrwIssues
<1>2. CASE x \in TxSlots /\ rtx[x] # NoPdu /\ ~LastTry(x) /\ Retransmit(x)
  <2>1. UNCHANGED mrwQ /\ txBuf' = Append(txBuf, Copy([rtx[x] EXCEPT !.tx = @ + 1]))
    BY <1>2 DEF Retransmit, mrwVars
  <2>2. PICK c \in DataPdu : c = Copy([rtx[x] EXCEPT !.tx = @ + 1])
    <3>1. rtx[x] \in DataPdu
      BY <1>0, <1>2
    <3>2. [rtx[x] EXCEPT !.tx = @ + 1] \in DataPdu
      BY <1>2, <3>1, ParameterAssumption DEF DataPdu, LastTry
    <3> QED
      BY <3>2, CopyType
  <2>3. InSeq(txBuf') \subseteq InSeq(txBuf) \cup {c}
    BY <1>0, <2>1, <2>2, InAppend
  <2>4. \A m \in Commands' : m \in Commands \/ m \in DataPdu
    BY <1>0, <2>1, <2>3 DEF Commands
  <2> QED
    BY <2>4, NoneIssued
<1>3. CASE \E e : TxThrow(e)
  <2>1. Commands' = Commands
    BY <1>0, <1>3 DEF Commands, TxThrow, mrwVars
  <2> QED
    BY <2>1, NoneIssued
<1> QED
  BY <1>1, <1>2, <1>3 DEF AtTx, PduTimer

LEMMA MrwTimerIssues ==
    ASSUME IInv, NEW serial \in mrwTimer, AtTx(MrwTimer(serial))
    PROVE  MrwsIssued
<1>0. UNCHANGED air /\ txBuf \in Seq(DataPdu \cup MrwPdu) /\ mrwQ \subseteq MrwPdu
  BY DEF IInv, TypeOK, TxTypeOK, AtTx, chanVars
<1>1. \A m \in mrwQ : txBuf' = Append(txBuf, m) => InSeq(txBuf') \subseteq InSeq(txBuf) \cup {m}
  BY <1>0, InAppend
<1>2. mrwQ' \subseteq mrwQ /\ InSeq(txBuf') \subseteq InSeq(txBuf) \cup mrwQ
  BY <1>0, <1>1 DEF AtTx, MrwTimer, TxThrow, mrwVars
<1>3. Commands' \subseteq Commands
  BY <1>0, <1>2 DEF Commands
<1> QED
  BY <1>3, NoneIssued

LEMMA RecvAckIssues ==
    ASSUME IInv, NEW m \in AckPdu, RecvAck(m), UNCHANGED air
    PROVE  MrwsIssued
<1> DEFINE cum == m.last - txFirst
           cumulated == [i \in TxSlots |-> tReceived[i] \/ i <= cum]
           marked == [i \in TxSlots |-> cumulated[i] \/ txFirst + i \in m.acked]
<1>1. CASE UNCHANGED <<mrwVars, txBuf>>
  <2>1. Commands' = Commands
    BY <1>1 DEF Commands, mrwVars
  <2> QED
    BY <2>1, NoneIssued
<1>2. CASE /\ tReceived' = marked /\ CheckForMrw(cumulated, tDiscarded, txBuf)
           /\ UNCHANGED <<txFirst, txSeq, tDiscarded>>
  <2>1. \A i \in TxSlots : cumulated[i] => tReceived'[i]
    BY <1>2
  <2>2. \A i \in TxSlots : tDiscarded'[i] <=> tDiscarded[i]
    BY <1>2
  <2> HIDE DEF cumulated, marked
  <2> QED
    BY <1>2, <2>1, <2>2, CheckForMrwIssues
<1> QED
  BY <1>1, <1>2 DEF RecvAck, TxThrow

\* Every step: an MRW is new only if checkForMrw issues it.
LEMMA NextIssues ==
    ASSUME IInv, TxSound, [Next]_vars
    PROVE  MrwsIssued
<1>0. /\ txBuf \in Seq(DataPdu \cup MrwPdu)
      /\ air \in [Procs -> DataPdu \cup MrwPdu \cup {NoPdu}]
  BY DEF IInv, TypeOK, TxTypeOK
<1>1. CASE \/ \E n \in SduFrags : AtTx(Enque(n))
           \/ \E sn \in pduTimer : AtTx(PduTimer(sn))
           \/ \E serial \in mrwTimer : AtTx(MrwTimer(serial))
  BY <1>1, EnqueIssues, PduTimerIssues, MrwTimerIssues
<1>2. CASE AtTx(BufferStatusTimer)
  <2>1. /\ UNCHANGED <<txFirst, txSeq, tReceived, tDiscarded, air>>
        /\ CheckForMrw(tReceived, tDiscarded, txBuf)
    BY <1>2 DEF AtTx, BufferStatusTimer, windowVars, chanVars
  <2> QED
    BY <2>1, CheckForMrwIssues
<1>3. ASSUME Commands' \subseteq Commands PROVE MrwsIssued
  BY <1>3, NoneIssued
<1>4. CASE AtRx(StatusTimer) \/ AtRx(AckInterval) \/ UNCHANGED vars
  <2>1. Commands' = Commands
    BY <1>4 DEF AtRx, txVars, mrwVars, chanVars, vars, Commands
  <2> QED
    BY <1>3, <2>1
<1>5. ASSUME NEW p \in Procs, SendPdu(p) PROVE MrwsIssued
  <2>1. Head(txBuf) \in InSeq(txBuf) /\ InSeq(Tail(txBuf)) \subseteq InSeq(txBuf)
    BY <1>0, <1>5, InTail DEF SendPdu
  <2>2. UNCHANGED mrwQ
    BY <1>5 DEF SendPdu, mrwVars
  <2>3. Commands' \subseteq Commands
    BY <1>0, <1>5, <2>1, <2>2 DEF SendPdu, Commands
  <2> QED
    BY <1>3, <2>3
<1>6. ASSUME NEW p \in Procs, Lose(p) \/ DeliverPdu(p) PROVE MrwsIssued
  <2>1. Commands' \subseteq Commands
    BY <1>0, <1>6 DEF Lose, DeliverPdu, Commands, txVars, mrwVars
  <2> QED
    BY <1>3, <2>1
<1>7. ASSUME NEW p \in CtlProcs, SendCtl(p) \/ LoseCtl(p) PROVE MrwsIssued
  <2>1. Commands' = Commands
    BY <1>7 DEF SendCtl, LoseCtl, Commands, txVars, mrwVars
  <2> QED
    BY <1>3, <2>1
<1>8. ASSUME NEW p \in CtlProcs, DeliverCtl(p) PROVE MrwsIssued
  <2>1. UNCHANGED air /\ ctlAir[p] # NoPdu
    BY <1>8 DEF DeliverCtl
  <2>2. CASE ctlAir[p].type = "ACK" /\ RecvAck(ctlAir[p])
    <3>1. ctlAir[p] \in AckPdu
      BY <2>1, <2>2, CtlUnderWay DEF IInv
    <3> QED
      BY <2>1, <2>2, <3>1, RecvAckIssues
  <2>3. CASE RecvMrwAck(ctlAir[p])
    <3>1. mrwQ' \subseteq mrwQ /\ UNCHANGED txBuf
      BY <2>3 DEF RecvMrwAck, ForgetMrw, TxThrow, mrwVars
    <3>2. Commands' \subseteq Commands
      BY <2>1, <3>1 DEF Commands
    <3> QED
      BY <1>3, <3>2
  <2> QED
    BY <1>8, <2>2, <2>3 DEF DeliverCtl
<1> QED
  BY <1>1, <1>2, <1>4, <1>5, <1>6, <1>7, <1>8 DEF Next

-----------------------------------------------------------------------------
\* What the receiver holds it goes on holding, in every step.
LEMMA NextHolds ==
    ASSUME RxW >= 2 * (TxW - 1), IInv, TruthInv, [Next]_vars
    PROVE  HoldsOn
<1>0. TypeOK /\ txSeq \in Nat /\ txFirst \in Nat /\ TypeOK'
  BY WindowArithmetic, NextInvariant DEF IInv
<1>1. txSeq' \in Nat
  BY <1>0 DEF TypeOK, TxTypeOK
<1>2. ASSUME UNCHANGED <<rxFirst, rBuf>>, txSeq <= txSeq' PROVE HoldsOn
  BY <1>0, <1>1, <1>2 DEF HoldsOn, Holds
<1>3. ASSUME UNCHANGED rxVars, UNCHANGED txSeq PROVE HoldsOn
  BY <1>0, <1>2, <1>3 DEF rxVars, bufferVars
<1>4. ASSUME NEW n \in SduFrags, AtTx(Enque(n)) PROVE HoldsOn
  <2>1. n \in Nat
    BY ParameterAssumption
  <2>2. UNCHANGED <<rxFirst, rBuf>> /\ (txSeq' = txSeq \/ txSeq' = txSeq + n)
    BY <1>4 DEF AtTx, Enque, TxThrow, rxVars, bufferVars, windowVars
  <2> QED
    BY <1>0, <1>2, <2>1, <2>2
<1>5. CASE \/ \E sn \in pduTimer : AtTx(PduTimer(sn))
           \/ \E serial \in mrwTimer : AtTx(MrwTimer(serial))
           \/ AtTx(BufferStatusTimer)
  <2>1. UNCHANGED rxVars /\ UNCHANGED txSeq
    BY <1>5 DEF AtTx, PduTimer, Discard, Retransmit, MrwTimer, BufferStatusTimer, TxThrow,
                windowVars
  <2> QED
    BY <1>3, <2>1
<1>6. CASE AtRx(StatusTimer) \/ AtRx(AckInterval) \/ UNCHANGED vars
  <2>1. UNCHANGED <<rxFirst, rBuf, txSeq>>
    BY <1>6 DEF AtRx, StatusTimer, AckInterval, vars, txVars, rxVars, windowVars, bufferVars
  <2> QED
    BY <1>0, <1>2, <2>1
<1>7. ASSUME NEW p \in Procs, SendPdu(p) \/ Lose(p) PROVE HoldsOn
  <2>1. UNCHANGED rxVars /\ UNCHANGED txSeq
    BY <1>7 DEF SendPdu, Lose, txVars, windowVars
  <2> QED
    BY <1>3, <2>1
<1>8. ASSUME NEW p \in CtlProcs, SendCtl(p) \/ LoseCtl(p) \/ DeliverCtl(p) PROVE HoldsOn
  <2>1. UNCHANGED <<rxFirst, rBuf, txSeq>>
    BY <1>8 DEF SendCtl, LoseCtl, DeliverCtl, RecvAck, RecvMrwAck, TxThrow, txVars, rxVars,
                windowVars, bufferVars
  <2> QED
    BY <1>0, <1>2, <2>1
<1>9. ASSUME NEW p \in Procs, DeliverPdu(p) PROVE HoldsOn
  <2>1. UNCHANGED txVars /\ air[p] # NoPdu /\ RxSound
    BY <1>9 DEF DeliverPdu, TruthInv
  <2>2. CASE air[p].type = "DATA" /\ RecvData(air[p])
    <3>1. air[p] \in DataPdu /\ air[p].sno < txSeq
      BY <2>1, <2>2, PduUnderWay DEF IInv, PdusAgree, AirAgree, GoodPdu
    <3> QED
      BY <2>1, <2>2, <3>1, RecvDataSound
  <2>3. CASE air[p].type = "MRW" /\ RecvMrw(air[p])
    <3>1. air[p] \in MrwPdu /\ SettledBelow(air[p].target)
      BY <2>1, <2>3, PduUnderWay DEF IInv, PdusAgree, AirAgree, GoodPdu
    <3> QED
      BY <2>1, <2>3, <3>1, RecvMrwSound
  <2> QED
    BY <1>9, <2>2, <2>3 DEF DeliverPdu
<1> QED
  BY <1>4, <1>5, <1>6, <1>7, <1>8, <1>9 DEF Next

\* A cut that grows keeps its blocks.
LEMMA BlocksGrow ==
    ASSUME NEW cut, Cut(cut), Blocks(cut), NEW c, Extends(cut, c),
           txSeq \in Nat, txSeq' \in Nat, txSeq <= txSeq'
    PROVE  Blocks(c)'
<1> SUFFICES ASSUME NEW sn \in 0..(txSeq' - 1), NEW j \in c[sn].first..c[sn].last
             PROVE  c[j] = c[sn]
  BY DEF Blocks
<1>1. CASE sn \in 0..(txSeq - 1)
  <2>1. c[sn] = cut[sn]
    BY <1>1 DEF Extends
  <2>2. cut[sn] \in [sdu : Nat, first : Nat, last : Nat] /\ cut[sn].last < txSeq
    BY <1>1 DEF Cut
  <2>3. cut[sn].first \in Nat /\ cut[sn].last \in Nat
    BY <2>2
  <2>4. j \in 0..(txSeq - 1)
    BY <2>1, <2>2, <2>3
  <2>5. c[j] = cut[j] /\ cut[j] = cut[sn]
    BY <1>1, <2>1, <2>4 DEF Extends, Blocks
  <2> QED
    BY <2>1, <2>5
<1>2. CASE sn \in txSeq..(txSeq' - 1)
  <2>1. c[sn] = [sdu |-> nextSdu, first |-> txSeq, last |-> txSeq' - 1]
    BY <1>2 DEF Extends
  <2>2. j \in txSeq..(txSeq' - 1)
    BY <2>1
  <2> QED
    BY <1>2, <2>1, <2>2 DEF Extends
<1>3. sn \in 0..(txSeq - 1) \/ sn \in txSeq..(txSeq' - 1)
  <2>1. PICK s, v : s = txSeq /\ v = txSeq'
    OBVIOUS
  <2>2. s \in Nat /\ v \in Nat /\ sn \in 0..(v - 1)
    BY <2>1
  <2>3. sn \in 0..(s - 1) \/ sn \in s..(v - 1)
    BY <2>2
  <2> QED
    BY <2>1, <2>3
<1> QED
  BY <1>1, <1>2, <1>3

\* What is known of the start of the receiver's window stays known while the cut
\* grows: a new SDU starts at a number of its own.
LEMMA StartGrows ==
    ASSUME NEW cut, NEW c, Extends(cut, c), StartKept(cut),
           txSeq \in Nat, txSeq' \in Nat, txSeq <= txSeq', rxFirst \in Nat, rxFirst <= txSeq,
           UNCHANGED <<rxFirst, pending, firstSdu, delivered>>
    PROVE  StartKept(c)'
<1>1. ASSUME rxFirst < txSeq PROVE c[rxFirst] = cut[rxFirst]
  <2>1. rxFirst \in 0..(txSeq - 1)
    BY <1>1
  <2> QED
    BY <2>1 DEF Extends
<1>2. ASSUME ~(rxFirst < txSeq), rxFirst < txSeq' PROVE c[rxFirst].first = rxFirst
  <2>1. rxFirst \in txSeq..(txSeq' - 1) /\ rxFirst = txSeq
    <3>1. PICK r, s, v : r = rxFirst /\ s = txSeq /\ v = txSeq'
      OBVIOUS
    <3>2. r \in Nat /\ s \in Nat /\ v \in Nat /\ r <= s /\ ~(r < s) /\ r < v
      BY <1>2, <3>1
    <3>3. r \in s..(v - 1) /\ r = s
      BY <3>2
    <3> QED
      BY <3>1, <3>3
  <2>2. c[rxFirst] = [sdu |-> nextSdu, first |-> txSeq, last |-> txSeq' - 1]
    BY <2>1 DEF Extends
  <2> QED
    BY <2>1, <2>2
<1>3. FirstKnown(c)'
  BY <1>1, <1>2 DEF StartKept, FirstKnown
<1>4. PendingHas(c)'
  <2>1. CASE rxFirst < txSeq
    BY <1>1, <2>1 DEF StartKept, PendingHas, AllPending, IsPassedUp
  <2>2. CASE ~(rxFirst < txSeq)
    BY <1>2, <2>2 DEF PendingHas, AllPending
  <2> QED
    BY <2>1, <2>2
<1>5. PendingInOrder(c)'
  <2>1. PendingInOrder(cut)
    BY DEF StartKept
  <2>2. ASSUME NEW k \in DOMAIN pending
        PROVE  (Fragment(c, pending[k]) /\ pending[k].sno < rxFirst)'
    <3>1. Fragment(cut, pending[k]) /\ pending[k].sno < rxFirst
      BY <2>1 DEF PendingInOrder
    <3>2. pending[k].sno \in 0..(txSeq - 1)
      BY <3>1 DEF Fragment
    <3>3. c[pending[k].sno] = cut[pending[k].sno] /\ pending[k].sno \in 0..(txSeq' - 1)
      BY <3>2 DEF Extends
    <3> QED
      BY <3>1, <3>3 DEF Fragment
  <2> QED
    BY <2>1, <2>2 DEF PendingInOrder
<1> QED
  BY <1>3, <1>4, <1>5 DEF StartKept

\* What is reached stays reached.
LEMMA ReachedStays ==
    ASSUME HoldsOn, NEW cut, Cut(cut), NEW c, Extends(cut, c), NEW t \in Nat, t <= txSeq,
           Reached(cut, t)
    PROVE  Reached(c, t)'
<1> SUFFICES ASSUME t < txSeq', NEW sn \in c[t].first..(t - 1) PROVE Holds(sn)'
  BY DEF Reached
<1>0. txSeq \in Nat /\ txSeq' \in Nat /\ txSeq <= txSeq'
  BY DEF HoldsOn
<1>1. CASE t < txSeq
  <2>1. t \in 0..(txSeq - 1)
    BY <1>0, <1>1
  <2>2. c[t] = cut[t] /\ cut[t] \in [sdu : Nat, first : Nat, last : Nat]
    BY <2>1 DEF Extends, Cut
  <2>3. sn \in cut[t].first..(t - 1) /\ sn \in Nat
    BY <2>2
  <2> QED
    BY <1>1, <2>3 DEF Reached, HoldsOn
<1>2. CASE ~(t < txSeq)
  <2>1. t \in txSeq..(txSeq' - 1) /\ t = txSeq
    <3>1. PICK s, v : s = txSeq /\ v = txSeq'
      OBVIOUS
    <3>2. s \in Nat /\ v \in Nat /\ t <= s /\ ~(t < s) /\ t < v
      BY <1>0, <1>2, <3>1
    <3>3. t \in s..(v - 1) /\ t = s
      BY <3>2
    <3> QED
      BY <3>1, <3>3
  <2>2. c[t] = [sdu |-> nextSdu, first |-> txSeq, last |-> txSeq' - 1]
    BY <2>1 DEF Extends
  <2> QED
    BY <2>1, <2>2
<1> QED
  BY <1>1, <1>2

-----------------------------------------------------------------------------
\* Every PDU in the transmitter's window is in the slot of its number.
TxInPlace == \A i \in TxSlots : rtx[i] # NoPdu => rtx[i].sno = txFirst + i

\* The PDUs of an SDU that are in the transmitter's window are given up together.
Uniform(cut) ==
    \A i, j \in TxSlots :
        InWindow(i) /\ InWindow(j) /\ cut[txFirst + i] = cut[txFirst + j] =>
            (tDiscarded[i] <=> tDiscarded[j])

\* Every MRW that waits or is on its way asks for what is reached.
TargetsReached(cut) == \A m \in Commands : m.type = "MRW" => Reached(cut, m.target)

\* After an MRW is issued the receiver has the numbers before its target that are of
\* the SDU at the target: that SDU is not given up, so they are received.
LEMMA IssuedReached ==
    ASSUME IInv, ReceivedIsHeld, NEW cut, Cut(cut), Blocks(cut), Uniform(cut),
           NEW m, Issued(m)
    PROVE  Reached(cut, m.target)
<1>0. /\ txFirst \in Nat /\ txSeq \in Nat /\ rxFirst \in Nat /\ TxW \in Nat
      /\ TxUsed \in 0..(TxW - 1) /\ TxUsed = txSeq - txFirst /\ txFirst <= rxFirst
  BY WindowArithmetic, WindowAssumption DEF IInv, TxUsed, WindowsTogether
<1>1. PICK k \in 0..TxUsed :
        /\ m.target = txFirst + k
        /\ \A i \in 0..(k - 1) : tReceived[i] \/ tDiscarded[i]
        /\ k < TxUsed => ~tDiscarded[k]
  BY DEF Issued
<1>2. PICK t : t = txFirst + k
  OBVIOUS
<1> SUFFICES ASSUME t < txSeq, NEW sn \in cut[t].first..(t - 1) PROVE Holds(sn)
  BY <1>1, <1>2 DEF Reached
<1>3. t \in 0..(txSeq - 1) /\ k < TxUsed /\ k \in TxSlots /\ InWindow(k)
  BY <1>0, <1>2 DEF TxSlots, InWindow
<1>4. /\ cut[t].first \in Nat /\ cut[t].last \in Nat /\ t <= cut[t].last
  <2>1. cut[t] \in [sdu : Nat, first : Nat, last : Nat]
    BY <1>3 DEF Cut
  <2> QED
    BY <1>3, <2>1 DEF Cut
<1>5. CASE sn < txFirst
  BY <1>0, <1>4, <1>5 DEF Holds
<1>6. CASE ~(sn < txFirst)
  <2>1. PICK i : i = sn - txFirst
    OBVIOUS
  <2>2. /\ i \in 0..(k - 1) /\ i \in TxSlots /\ i < TxUsed /\ sn = txFirst + i
        /\ sn \in cut[t].first..cut[t].last
    BY <1>0, <1>2, <1>4, <1>6, <2>1 DEF TxSlots
  <2>3. cut[txFirst + i] = cut[txFirst + k]
    BY <1>2, <1>3, <2>2 DEF Blocks
  <2>4. ~tDiscarded[i]
    BY <1>1, <1>3, <2>2, <2>3 DEF Uniform, InWindow
  <2>5. tReceived[i]
    BY <1>1, <2>2, <2>4
  <2> QED
    BY <2>2, <2>5 DEF ReceivedIsHeld
<1> QED
  BY <1>5, <1>6

\* What a PDU of the window says of its SDU is what the cut says of its number.
LEMMA SlotSdu ==
    ASSUME IInv, WindowFilled, TxInPlace, NEW cut, CutInv(cut), NEW i \in TxSlots, InWindow(i)
    PROVE  /\ rtx[i] # NoPdu /\ rtx[i].sdu = cut[txFirst + i].sdu
           /\ txFirst + i \in 0..(txSeq - 1)
<1>1. rtx[i] # NoPdu /\ rtx[i].sno = txFirst + i
  BY DEF WindowFilled, TxInPlace
<1>2. rtx[i] \in DataPdu
  BY <1>1 DEF IInv, TypeOK, TxTypeOK
<1>3. rtx[i] \in Fragments
  BY <1>2 DEF Fragments
<1>4. Fragment(cut, rtx[i])
  BY <1>3 DEF CutInv
<1> QED
  BY <1>1, <1>4 DEF Fragment

\* discard gives up the PDUs of the SDU that are in the window, and no other.
LEMMA GroupIsSdu ==
    ASSUME IInv, WindowFilled, TxInPlace, NEW cut, CutInv(cut), Blocks(cut),
           NEW x \in TxSlots, InWindow(x), NEW i \in TxSlots, InWindow(i)
    PROVE  i \in Group(x) <=> cut[txFirst + i] = cut[txFirst + x]
<1>0. /\ txFirst \in Nat /\ txSeq \in Nat /\ TxW \in Nat /\ TxUsed \in 0..(TxW - 1)
      /\ TxUsed = txSeq - txFirst /\ x \in 0..(TxUsed - 1) /\ i \in 0..(TxUsed - 1)
  BY WindowArithmetic, WindowAssumption DEF IInv, TxUsed, TxSlots, InWindow
<1>1. /\ rtx[i].sdu = cut[txFirst + i].sdu /\ rtx[x].sdu = cut[txFirst + x].sdu
      /\ txFirst + i \in 0..(txSeq - 1) /\ txFirst + x \in 0..(txSeq - 1)
  BY SlotSdu
<1>2. ASSUME i \in Group(x) PROVE cut[txFirst + i] = cut[txFirst + x]
  <2>1. rtx[i].sdu = rtx[x].sdu
    <3>1. CASE i = x
      BY <3>1
    <3>2. CASE SameSdu(x, i)
      <4>1. i \in (IF i < x THEN i..x ELSE x..i)
        BY <1>0
      <4> QED
        BY <3>2, <4>1 DEF SameSdu
    <3> QED
      BY <1>2, <3>1, <3>2 DEF Group
  <2> QED
    BY <1>1, <2>1 DEF CutInv, Cut
<1>3. ASSUME cut[txFirst + i] = cut[txFirst + x] PROVE i \in Group(x)
  <2>1. PICK c : c = cut[txFirst + i] /\ c = cut[txFirst + x]
    BY <1>3
  <2>2. /\ c.first \in Nat /\ c.last \in Nat
        /\ c.first <= txFirst + i /\ txFirst + i <= c.last
        /\ c.first <= txFirst + x /\ txFirst + x <= c.last
    <3>1. c \in [sdu : Nat, first : Nat, last : Nat]
      BY <1>1, <2>1 DEF CutInv, Cut
    <3> QED
      BY <1>1, <2>1, <3>1 DEF CutInv, Cut
  <2>3. ASSUME NEW j \in (IF i < x THEN i..x ELSE x..i)
        PROVE  rtx[j] # NoPdu /\ rtx[j].sdu = rtx[x].sdu
    <3>1. j \in TxSlots /\ InWindow(j) /\ txFirst + j \in c.first..c.last
      BY <1>0, <2>2 DEF TxSlots, InWindow
    <3>2. cut[txFirst + j] = c
      BY <1>1, <2>1, <3>1 DEF Blocks
    <3>3. rtx[j] # NoPdu /\ rtx[j].sdu = cut[txFirst + j].sdu
      BY <3>1, SlotSdu
    <3> QED
      BY <1>1, <2>1, <3>2, <3>3
  <2>4. SameSdu(x, i)
    BY <1>0, <2>3 DEF SameSdu
  <2> QED
    BY <2>4 DEF Group
<1> QED
  BY <1>2, <1>3

\* Giving an SDU up leaves every SDU given up as a whole or not at all.
LEMMA DiscardUniform ==
    ASSUME IInv, WindowFilled, TxInPlace, NEW cut, CutInv(cut), Blocks(cut), Uniform(cut),
           NEW x \in TxSlots, InWindow(x), NEW timers, Discard(x, timers),
           UNCHANGED <<txFirst, txSeq>>
    PROVE  Uniform(cut)'
<1> SUFFICES ASSUME NEW i \in TxSlots, NEW j \in TxSlots, InWindow(i), InWindow(j),
                    cut[txFirst + i] = cut[txFirst + j]
             PROVE  tDiscarded'[i] <=> tDiscarded'[j]
  BY DEF Uniform, InWindow, TxUsed
<1>1. \A k \in TxSlots : tDiscarded'[k] <=> tDiscarded[k] \/ k \in Group(x)
  BY DEF Discard
<1>2. tDiscarded[i] <=> tDiscarded[j]
  BY DEF Uniform
<1>3. i \in Group(x) <=> j \in Group(x)
  <2>1. i \in Group(x) <=> cut[txFirst + i] = cut[txFirst + x]
    BY GroupIsSdu
  <2>2. j \in Group(x) <=> cut[txFirst + j] = cut[txFirst + x]
    BY GroupIsSdu
  <2> QED
    BY <2>1, <2>2
<1> QED
  BY <1>1, <1>2, <1>3

\* A window that stays where it is with its flags: only the cut may have grown.
LEMMA UniformStays ==
    ASSUME IInv, NEW cut, NEW c, Extends(cut, c), Uniform(cut),
           UNCHANGED <<txFirst, txSeq, tDiscarded>>
    PROVE  Uniform(c)'
<1>0. /\ txFirst \in Nat /\ txSeq \in Nat /\ TxUsed = txSeq - txFirst
  BY WindowArithmetic DEF IInv, TxUsed
<1> SUFFICES ASSUME NEW i \in TxSlots, NEW j \in TxSlots, InWindow(i), InWindow(j),
                    c[txFirst + i] = c[txFirst + j]
             PROVE  tDiscarded[i] <=> tDiscarded[j]
  BY DEF Uniform, InWindow, TxUsed
<1>1. txFirst + i \in 0..(txSeq - 1) /\ txFirst + j \in 0..(txSeq - 1)
  BY <1>0, WindowAssumption DEF InWindow, TxSlots
<1>2. c[txFirst + i] = cut[txFirst + i] /\ c[txFirst + j] = cut[txFirst + j]
  BY <1>1 DEF Extends
<1> QED
  BY <1>2 DEF Uniform

\* A new SDU gets slots of its own, none of them given up.
LEMMA EnqueUniform ==
    ASSUME IInv, TxInPlace, NEW cut, Cut(cut), NEW c, Extends(cut, c), Uniform(cut),
           NEW n \in SduFrags, Enque(n)
    PROVE  TxInPlace' /\ Uniform(c)'
<1> DEFINE new == TxUsed..(TxUsed + n - 1)
<1>0. /\ txFirst \in Nat /\ txSeq \in Nat /\ TxUsed \in Nat /\ TxUsed = txSeq - txFirst
      /\ n \in Nat \ {0} /\ nextSdu \in Nat
      /\ rtx \in [TxSlots -> DataPdu \cup {NoPdu}] /\ TxW \in Nat
  BY WindowArithmetic, ParameterAssumption, WindowAssumption
     DEF IInv, TypeOK, TxTypeOK, TxUsed
<1>1. CASE UNCHANGED windowVars
  <2>1. UNCHANGED <<txFirst, txSeq, tDiscarded, rtx>>
    BY <1>1 DEF windowVars
  <2>2. TxInPlace'
    BY <2>1 DEF TxInPlace
  <2> QED
    BY <2>1, <2>2, UniformStays
<1>2. CASE /\ \A i \in new : ~tDiscarded[i]
           /\ rtx' = [i \in TxSlots |-> IF i \in new
                          THEN Data(txFirst + i, nextSdu, txSeq, txSeq + n - 1) ELSE rtx[i]]
           /\ txSeq' = txSeq + n
           /\ UNCHANGED <<txFirst, tDiscarded>>
  <2>1. \A i \in TxSlots : i \in new => rtx'[i].sno = txFirst + i
    BY <1>2 DEF Data
  <2>2. \A i \in TxSlots : i \notin new => rtx'[i] = rtx[i]
    BY <1>2
  <2>3. TxInPlace'
    <3> HIDE DEF new
    <3> QED
      BY <1>2, <2>1, <2>2 DEF TxInPlace
  <2>4. ASSUME NEW i \in TxSlots, InWindow(i)'
        PROVE  \/ /\ InWindow(i) /\ c[txFirst + i] = cut[txFirst + i] /\ c[txFirst + i].sdu < nextSdu
               \/ /\ ~tDiscarded[i] /\ c[txFirst + i].sdu = nextSdu
    <3>1. i < txSeq' - txFirst
      BY <1>2, <2>4 DEF InWindow, TxUsed
    <3>2. CASE i < TxUsed
      <4>1. txFirst + i \in 0..(txSeq - 1)
        BY <1>0, <3>2 DEF TxSlots
      <4>2. c[txFirst + i] = cut[txFirst + i] /\ cut[txFirst + i].sdu < nextSdu
        BY <4>1 DEF Extends, Cut
      <4> QED
        BY <3>2, <4>2 DEF InWindow
    <3>3. CASE ~(i < TxUsed)
      <4>1. i \in new /\ txFirst + i \in txSeq..(txSeq' - 1)
        BY <1>0, <1>2, <3>1, <3>3 DEF TxSlots
      <4>2. c[txFirst + i] = [sdu |-> nextSdu, first |-> txSeq, last |-> txSeq' - 1]
        BY <4>1 DEF Extends
      <4>3. c[txFirst + i].sdu = nextSdu
        BY <4>2
      <4> QED
        BY <1>2, <4>1, <4>3
    <3> QED
      BY <3>2, <3>3
  <2>5. ASSUME NEW i \in TxSlots, NEW j \in TxSlots, InWindow(i)', InWindow(j)',
               c[txFirst + i] = c[txFirst + j]
        PROVE  tDiscarded[i] <=> tDiscarded[j]
    <3>1. ~(nextSdu < nextSdu)
      BY <1>0
    <3>2. CASE InWindow(i) /\ c[txFirst + i] = cut[txFirst + i] /\ c[txFirst + i].sdu < nextSdu
      <4>1. InWindow(j) /\ c[txFirst + j] = cut[txFirst + j]
        BY <2>4, <2>5, <3>1, <3>2
      <4> QED
        BY <2>5, <3>2, <4>1 DEF Uniform
    <3>3. CASE ~tDiscarded[i] /\ c[txFirst + i].sdu = nextSdu
      <4>1. ~tDiscarded[j]
        BY <2>4, <2>5, <3>1, <3>3
      <4> QED
        BY <3>3, <4>1
    <3> QED
      BY <2>4, <2>5, <3>2, <3>3
  <2>6. Uniform(c)'
    BY <1>2, <2>5 DEF Uniform
  <2> QED
    BY <2>3, <2>6
<1> QED
  BY <1>1, <1>2 DEF Enque, TxThrow

\* The window moves with its flags.
LEMMA RecvMrwAckUniform ==
    ASSUME IInv, TxInPlace, NEW cut, NEW c, Extends(cut, c), Uniform(cut),
           NEW m \in MrwAckPdu, RecvMrwAck(m)
    PROVE  TxInPlace' /\ Uniform(c)'
<1> DEFINE pos == m.first - txFirst
<1>0. /\ txFirst \in Nat /\ txSeq \in Nat /\ TxW \in Nat /\ TxUsed \in 0..(TxW - 1)
      /\ TxUsed = txSeq - txFirst /\ m.first \in Nat
  BY WindowArithmetic, WindowAssumption DEF IInv, TypeOK, TxTypeOK, MrwAckPdu, TxUsed
<1>1. CASE UNCHANGED windowVars
  <2>1. UNCHANGED <<txFirst, txSeq, tDiscarded, rtx>>
    BY <1>1 DEF windowVars
  <2>2. TxInPlace'
    BY <2>1 DEF TxInPlace
  <2> QED
    BY <2>1, <2>2, UniformStays
<1>2. CASE /\ pos > 0 /\ pos <= TxUsed
           /\ txFirst' = txFirst + pos
           /\ rtx' = Shifted(rtx, pos, NoPdu)
           /\ tDiscarded' = Shifted(tDiscarded, pos, FALSE)
           /\ UNCHANGED txSeq
  <2>0. pos \in Nat /\ TxUsed' = TxUsed - pos
    BY <1>0, <1>2 DEF TxUsed
  <2> HIDE DEF pos
  <2>1. \A i \in TxSlots : i + pos < TxUsed =>
            i + pos \in TxSlots /\ InWindow(i + pos) /\ txFirst' + i = txFirst + (i + pos)
    BY <1>0, <1>2, <2>0 DEF TxSlots, InWindow
  <2>2. \A i \in TxSlots : InWindow(i)' <=> i + pos < TxUsed
    BY <1>0, <2>0 DEF TxSlots, InWindow
  <2>3. TxInPlace'
    <3> SUFFICES ASSUME NEW i \in TxSlots, rtx'[i] # NoPdu PROVE rtx'[i].sno = txFirst' + i
      BY DEF TxInPlace
    <3>1. i + pos < TxUsed /\ rtx'[i] = rtx[i + pos]
      BY <1>2 DEF Shifted
    <3> QED
      BY <2>1, <3>1 DEF TxInPlace
  <2>4. ASSUME NEW i \in TxSlots, InWindow(i)'
        PROVE  /\ i + pos \in TxSlots /\ InWindow(i + pos)
               /\ tDiscarded'[i] = tDiscarded[i + pos]
               /\ c[txFirst' + i] = cut[txFirst + (i + pos)]
    <3>1. i + pos < TxUsed
      BY <2>2, <2>4
    <3>2. txFirst + (i + pos) \in 0..(txSeq - 1)
      BY <1>0, <2>0, <3>1 DEF TxSlots
    <3>3. c[txFirst + (i + pos)] = cut[txFirst + (i + pos)]
      BY <3>2 DEF Extends
    <3> QED
      BY <1>2, <2>1, <3>1, <3>3 DEF Shifted
  <2>5. ASSUME NEW i \in TxSlots, NEW j \in TxSlots, InWindow(i)', InWindow(j)',
               c[txFirst' + i] = c[txFirst' + j]
        PROVE  tDiscarded'[i] <=> tDiscarded'[j]
    <3>1. /\ i + pos \in TxSlots /\ InWindow(i + pos) /\ tDiscarded'[i] = tDiscarded[i + pos]
          /\ j + pos \in TxSlots /\ InWindow(j + pos) /\ tDiscarded'[j] = tDiscarded[j + pos]
          /\ cut[txFirst + (i + pos)] = cut[txFirst + (j + pos)]
      BY <2>4, <2>5
    <3> QED
      BY <3>1 DEF Uniform
  <2>6. Uniform(c)'
    BY <2>5 DEF Uniform
  <2> QED
    BY <2>3, <2>6
<1> QED
  BY <1>1, <1>2 DEF RecvMrwAck, TxThrow

\* A PDU that is sent once more keeps its slot, one that is given up takes its SDU along.
LEMMA PduTimerUniform ==
    ASSUME IInv, TxSound, TxInPlace, NEW cut, CutInv(cut), Blocks(cut), Uniform(cut),
           NEW c, Extends(cut, c), NEW sn \in pduTimer, PduTimer(sn)
    PROVE  TxInPlace' /\ Uniform(c)'
<1>1. PICK x : x = sn - txFirst
  OBVIOUS
<1>2. x \in TxSlots /\ InWindow(x)
  BY <1>1, TimedSlot
<1>3. CASE UNCHANGED windowVars
  <2>1. UNCHANGED <<txFirst, txSeq, tDiscarded, rtx>>
    BY <1>3 DEF windowVars
  <2>2. TxInPlace'
    BY <2>1 DEF TxInPlace
  <2> QED
    BY <2>1, <2>2, UniformStays
<1>4. CASE Discard(x, pduTimer \ {sn}) /\ UNCHANGED <<txFirst, txSeq, rtx>>
  <2>1. TxInPlace'
    BY <1>4 DEF TxInPlace
  <2>2. Uniform(cut)'
    BY <1>2, <1>4, DiscardUniform DEF TxSound
  <2>3. \A i \in TxSlots : InWindow(i)' => c[txFirst' + i] = cut[txFirst' + i]
    <3> SUFFICES ASSUME NEW i \in TxSlots, InWindow(i) PROVE c[txFirst + i] = cut[txFirst + i]
      BY <1>4 DEF InWindow, TxUsed
    <3>1. txFirst + i \in 0..(txSeq - 1)
      BY WindowArithmetic, WindowAssumption DEF IInv, InWindow, TxUsed, TxSlots
    <3> QED
      BY <3>1 DEF Extends
  <2>4. Uniform(c)'
    BY <2>2, <2>3 DEF Uniform
  <2> QED
    BY <2>1, <2>4
<1>5. CASE ~LastTry(x) /\ Retransmit(x)
  <2>1. UNCHANGED <<txFirst, txSeq, tDiscarded>>
    BY <1>5 DEF Retransmit
  <2>2. rtx' = [rtx EXCEPT ![x] = [rtx[x] EXCEPT !.tx = @ + 1]]
    BY <1>2, <1>5, RetransmitInPlace
  <2>3. rtx[x] \in DataPdu /\ rtx[x] # NoPdu /\ rtx \in [TxSlots -> DataPdu \cup {NoPdu}]
    BY <1>2 DEF IInv, TypeOK, TxTypeOK, TxSound, WindowFilled
  <2>4. rtx'[x].sno = rtx[x].sno
    BY <1>2, <2>2, <2>3 DEF DataPdu
  <2>5. \A i \in TxSlots : i # x => rtx'[i] = rtx[i]
    BY <2>2, <2>3
  <2>6. TxInPlace'
    BY <2>1, <2>3, <2>4, <2>5 DEF TxInPlace
  <2> QED
    BY <2>1, <2>6, UniformStays
<1> QED
  BY <1>1, <1>3, <1>4, <1>5 DEF PduTimer, TxThrow

\* In every step the transmitter's window stays in order, SDU by SDU.
LEMMA NextUniform ==
    ASSUME IInv, TxSound, TxInPlace, NEW cut, CutInv(cut), Blocks(cut), Uniform(cut),
           NEW c, Extends(cut, c), [Next]_vars
    PROVE  TxInPlace' /\ Uniform(c)'
<1>1. ASSUME UNCHANGED <<txFirst, txSeq, rtx, tDiscarded>> PROVE TxInPlace' /\ Uniform(c)'
  <2>1. TxInPlace'
    BY <1>1 DEF TxInPlace
  <2> QED
    BY <1>1, <2>1, UniformStays
<1>2. ASSUME NEW n \in SduFrags, AtTx(Enque(n)) PROVE TxInPlace' /\ Uniform(c)'
  BY <1>2, EnqueUniform DEF AtTx, CutInv
<1>3. ASSUME NEW sn \in pduTimer, AtTx(PduTimer(sn)) PROVE TxInPlace' /\ Uniform(c)'
  BY <1>3, PduTimerUniform DEF AtTx
<1>4. ASSUME NEW p \in CtlProcs, DeliverCtl(p) PROVE TxInPlace' /\ Uniform(c)'
  <2>1. ctlAir[p] # NoPdu
    BY <1>4 DEF DeliverCtl
  <2>2. CASE RecvAck(ctlAir[p])
    BY <1>1, <2>2 DEF RecvAck, TxThrow, windowVars
  <2>3. CASE ctlAir[p].type = "MRW_ACK" /\ RecvMrwAck(ctlAir[p])
    <3>1. ctlAir[p] \in MrwAckPdu
      BY <2>1, <2>3, CtlUnderWay DEF IInv
    <3> QED
      BY <2>3, <3>1, RecvMrwAckUniform
  <2> QED
    BY <1>4, <2>2, <2>3 DEF DeliverCtl
<1>5. CASE \/ \E serial \in mrwTimer : AtTx(MrwTimer(serial))
           \/ AtTx(BufferStatusTimer) \/ AtRx(StatusTimer) \/ AtRx(AckInterval)
           \/ UNCHANGED vars
  <2>1. UNCHANGED <<txFirst, txSeq, rtx, tDiscarded>>
    BY <1>5 DEF AtTx, AtRx, MrwTimer, BufferStatusTimer, TxThrow, windowVars, txVars, vars
  <2> QED
    BY <1>1, <2>1
<1>6. ASSUME NEW p \in Procs, SendPdu(p) \/ DeliverPdu(p) \/ Lose(p)
      PROVE  TxInPlace' /\ Uniform(c)'
  <2>1. UNCHANGED <<txFirst, txSeq, rtx, tDiscarded>>
    BY <1>6 DEF SendPdu, DeliverPdu, Lose, windowVars, txVars
  <2> QED
    BY <1>1, <2>1
<1>7. ASSUME NEW p \in CtlProcs, SendCtl(p) \/ LoseCtl(p) PROVE TxInPlace' /\ Uniform(c)'
  <2>1. UNCHANGED <<txFirst, txSeq, rtx, tDiscarded>>
    BY <1>7 DEF SendCtl, LoseCtl, windowVars, txVars
  <2> QED
    BY <1>1, <2>1
<1> QED
  BY <1>2, <1>3, <1>4, <1>5, <1>6, <1>7 DEF Next

\* Two cuts that agree on all numbers given out say the same of the entities.
LEMMA SameCut ==
    ASSUME NEW cut, NEW c, Extends(cut, c), UNCHANGED txSeq, txSeq \in Nat, CutInv(c)'
    PROVE  CutInv(cut)' /\ Extends(cut, cut)
<1>1. \A sn \in 0..(txSeq' - 1) : cut[sn] = c[sn]
  BY DEF Extends
<1>2. Cut(cut)'
  BY <1>1 DEF CutInv, Cut
<1>3. ASSUME NEW m \in Fragments' PROVE Fragment(cut, m)'
  <2>1. Fragment(c, m)'
    BY DEF CutInv
  <2> QED
    BY <1>1, <2>1 DEF Fragment
<1>4. PassedUp(cut)'
  BY <1>1 DEF CutInv, PassedUp
<1>5. txSeq..(txSeq' - 1) = {}
  OBVIOUS
<1>6. Extends(cut, cut)
  BY <1>5 DEF Extends
<1> QED
  BY <1>2, <1>3, <1>4, <1>6 DEF CutInv

\* All that is known of the cut beside CutInv.
WholeCut(cut) ==
    CutInv(cut) /\ Blocks(cut) /\ Uniform(cut) /\ TargetsReached(cut) /\ StartKept(cut)

\* DeliveredOnceWhole and RxThrowsOnlyKnown with what makes them inductive.
WholeInv == TxInPlace /\ DeliveredWell /\ \E cut : WholeCut(cut)

\* In every step the start of the receiver's window stays known, and what is passed
\* up is whole.
LEMMA NextStart ==
    ASSUME IInv, OnceInv, TruthInv, NEW cut, WholeCut(cut), DeliveredWell, [Next]_vars
    PROVE  /\ DeliveredWell'
           /\ \E c : CutInv(c)' /\ Extends(cut, c) /\ StartKept(c)'
<1>0. TypeOK /\ txSeq \in Nat /\ rxFirst \in Nat /\ rxFirst <= txSeq
  BY DEF IInv, TypeOK, TxTypeOK, RxTypeOK, WindowsTogether
<1>1. PICK c : CutInv(c)' /\ Extends(cut, c)
  BY NextOnce DEF CutsGrow, WholeCut
<1>2. ASSUME UNCHANGED <<rxFirst, pending, firstSdu, delivered, rxErr>>,
             txSeq' \in Nat, txSeq <= txSeq'
      PROVE  /\ DeliveredWell'
             /\ \E d : CutInv(d)' /\ Extends(cut, d) /\ StartKept(d)'
  <2>1. StartKept(c)'
    BY <1>0, <1>1, <1>2, StartGrows DEF WholeCut
  <2>2. DeliveredWell'
    BY <1>2 DEF DeliveredWell, RxThrowsOnlyKnown, DeliveredIntact
  <2> QED
    BY <1>1, <2>1, <2>2
<1>3. ASSUME NEW p \in Procs, DeliverPdu(p)
      PROVE  /\ DeliveredWell'
             /\ \E d : CutInv(d)' /\ Extends(cut, d) /\ StartKept(d)'
  <2>1. UNCHANGED txVars /\ UNCHANGED txSeq /\ air[p] # NoPdu
    BY <1>3 DEF DeliverPdu, txVars, windowVars
  <2>2. CutInv(cut)' /\ Extends(cut, cut)
    BY <1>0, <1>1, <2>1, SameCut
  <2>3. CASE air[p].type = "DATA" /\ RecvData(air[p])
    <3>1. air[p] \in DataPdu
      BY <1>0, <2>1, <2>3, PduUnderWay
    <3>2. air[p] \in Fragments
      BY <3>1 DEF Fragments
    <3>3. PICK S : delivered \in Seq(S)
      BY DEF OnceInv
    <3>4. StartKept(cut)' /\ DeliveredWell'
      BY <2>1, <2>3, <3>1, <3>2, <3>3, RecvDataWhole DEF WholeCut, TruthInv
    <3> QED
      BY <2>2, <3>4
  <2>4. CASE air[p].type = "MRW" /\ RecvMrw(air[p])
    <3>1. air[p] \in MrwPdu /\ SettledBelow(air[p].target)
      BY <1>0, <2>1, <2>4, PduUnderWay DEF IInv, PdusAgree, AirAgree, GoodPdu
    <3>2. Reached(cut, air[p].target)
      BY <2>1, <2>4 DEF WholeCut, TargetsReached, Commands
    <3>3. StartKept(cut)' /\ DeliveredWell'
      BY <2>1, <2>4, <3>1, <3>2, RecvMrwWhole DEF WholeCut, TruthInv
    <3> QED
      BY <2>2, <3>3
  <2> QED
    BY <1>3, <2>3, <2>4 DEF DeliverPdu
<1>4. ASSUME NEW n \in SduFrags, AtTx(Enque(n))
      PROVE  UNCHANGED rxVars /\ txSeq' \in Nat /\ txSeq <= txSeq'
  <2>1. n \in Nat
    BY ParameterAssumption
  <2>2. UNCHANGED rxVars /\ (txSeq' = txSeq \/ txSeq' = txSeq + n)
    BY <1>4 DEF AtTx, Enque, TxThrow, windowVars
  <2> QED
    BY <1>0, <2>1, <2>2
<1>5. ASSUME \/ \E sn \in pduTimer : AtTx(PduTimer(sn))
             \/ \E serial \in mrwTimer : AtTx(MrwTimer(serial))
             \/ AtTx(BufferStatusTimer)
             \/ \E p \in Procs : SendPdu(p) \/ Lose(p)
             \/ UNCHANGED vars
      PROVE  UNCHANGED rxVars /\ UNCHANGED txSeq
  BY <1>5 DEF AtTx, PduTimer, Discard, Retransmit, MrwTimer, BufferStatusTimer, TxThrow,
              SendPdu, Lose, vars, txVars, windowVars
<1>6. ASSUME NEW p \in CtlProcs, LoseCtl(p) \/ DeliverCtl(p)
      PROVE  UNCHANGED rxVars /\ UNCHANGED txSeq
  BY <1>6 DEF LoseCtl, DeliverCtl, RecvAck, RecvMrwAck, TxThrow, txVars, windowVars
<1>7. CASE \/ AtRx(StatusTimer) \/ AtRx(AckInterval)
           \/ \E p \in CtlProcs : SendCtl(p)
  <2>1. UNCHANGED <<rxFirst, pending, firstSdu, delivered, rxErr, txSeq>>
    BY <1>7 DEF AtRx, StatusTimer, AckInterval, SendCtl, txVars, windowVars, bufferVars
  <2> QED
    BY <1>0, <1>2, <2>1
<1>8. ASSUME UNCHANGED rxVars, txSeq' \in Nat, txSeq <= txSeq'
      PROVE  /\ DeliveredWell'
             /\ \E d : CutInv(d)' /\ Extends(cut, d) /\ StartKept(d)'
  BY <1>2, <1>8 DEF rxVars, bufferVars
<1>9. ASSUME UNCHANGED rxVars, UNCHANGED txSeq
      PROVE  /\ DeliveredWell'
             /\ \E d : CutInv(d)' /\ Extends(cut, d) /\ StartKept(d)'
  BY <1>0, <1>8, <1>9
<1> QED
  BY <1>3, <1>4, <1>5, <1>6, <1>7, <1>8, <1>9 DEF Next

\* IssuedReached after the step.
LEMMA IssuedReachedNext ==
    ASSUME NEW cut, NEW m
    PROVE  (IInv /\ ReceivedIsHeld /\ Cut(cut) /\ Blocks(cut) /\ Uniform(cut) /\ Issued(m)
              => Reached(cut, m.target))'
<1>1. IInv /\ ReceivedIsHeld /\ Cut(cut) /\ Blocks(cut) /\ Uniform(cut) /\ Issued(m)
        => Reached(cut, m.target)
  BY IssuedReached
<1> QED
  BY <1>1, PTL

\* An MRW that waits or is on its way asks for nothing that was not sent.
LEMMA TargetsSent ==
    ASSUME IInv, NEW m \in Commands, m.type = "MRW"
    PROVE  m.target \in Nat /\ m.target <= txSeq
<1>1. m \in MrwPdu
  BY UnderWayTypes DEF IInv, DataPdu
<1>2. GoodPdu(m)
  BY DEF Commands, InSeq, IInv, PdusAgree, CommandsAgree, WaitingAgree, AirAgree
<1> QED
  BY <1>1, <1>2 DEF MrwPdu, GoodPdu, SettledBelow

\* In every step what an MRW asks for stays reached, and is reached when it is new.
LEMMA NextTargets ==
    ASSUME IInv, IInv', TruthInv, ReceivedIsHeld', HoldsOn, [Next]_vars,
           NEW cut, Cut(cut), TargetsReached(cut), NEW c, Extends(cut, c),
           Cut(c)', Blocks(c)', Uniform(c)'
    PROVE  TargetsReached(c)'
<1> SUFFICES ASSUME NEW m \in Commands', m.type = "MRW"
             PROVE  Reached(c, m.target)'
  BY DEF TargetsReached
<1>1. m \in Commands \/ Issued(m)'
  BY NextIssues DEF TruthInv, MrwsIssued
<1>2. CASE m \in Commands
  <2>1. Reached(cut, m.target)
    BY <1>2 DEF TargetsReached
  <2>2. m.target \in Nat /\ m.target <= txSeq
    BY <1>2, TargetsSent
  <2> QED
    BY <2>1, <2>2, ReachedStays
<1>3. CASE Issued(m)'
  BY <1>3, IssuedReachedNext
<1> QED
  BY <1>1, <1>2, <1>3

LEMMA InitWhole == Init => WholeInv
<1> SUFFICES ASSUME Init PROVE WholeInv
  OBVIOUS
<1>1. /\ txSeq = 0 /\ txFirst = 0 /\ rxFirst = 0 /\ pending = <<>> /\ delivered = <<>>
      /\ rxErr = "none" /\ mrwQ = {} /\ txBuf = <<>> /\ \A p \in Procs : air[p] = NoPdu
      /\ \A i \in TxSlots : rtx[i] = NoPdu
  BY DEF Init, TxInit, RxInit
<1>2. PICK cut : CutInv(cut)
  BY InitOnce DEF OnceInv
<1>3. 0..(txSeq - 1) = {} /\ DOMAIN pending = {} /\ DOMAIN delivered = {} /\ ~(rxFirst < txSeq)
  BY <1>1
<1>4. InSeq(txBuf) = {}
  BY <1>1, EmptySeq DEF InSeq
<1>5. Commands = {}
  BY <1>1, <1>4 DEF Commands
<1>6. Blocks(cut) /\ TargetsReached(cut) /\ StartKept(cut)
  BY <1>3, <1>5 DEF Blocks, TargetsReached, StartKept, FirstKnown, PendingInOrder, PendingHas
<1>7. \A i \in TxSlots : ~InWindow(i)
  BY <1>1, WindowAssumption DEF InWindow, TxUsed, TxSlots
<1>8. Uniform(cut)
  BY <1>7 DEF Uniform
<1>9. TxInPlace /\ DeliveredWell
  BY <1>1, <1>3 DEF TxInPlace, DeliveredWell, RxThrowsOnlyKnown, DeliveredIntact
<1> QED
  BY <1>2, <1>6, <1>8, <1>9 DEF WholeInv, WholeCut

\* In every step: one cut, grown by the step, explains it all.
LEMMA NextWholeCut ==
    ASSUME RxW >= 2 * (TxW - 1), IInv, OnceInv, TruthInv, TxInPlace, DeliveredWell,
           NEW cut, WholeCut(cut), [Next]_vars
    PROVE  /\ TxInPlace' /\ DeliveredWell'
           /\ \E c : WholeCut(c)' /\ Extends(cut, c)
<1>1. IInv' /\ TruthInv' /\ HoldsOn
  BY NextInvariant, NextTruth, NextHolds
<1>2. TxSound /\ DeliveredWell'
  BY NextStart DEF TruthInv
<1>3. PICK c : CutInv(c)' /\ Extends(cut, c) /\ StartKept(c)'
  BY NextStart
<1>4. TxInPlace' /\ Uniform(c)'
  BY <1>2, <1>3, NextUniform DEF WholeCut
<1>5. Cut(cut) /\ Cut(c)' /\ Blocks(cut) /\ TargetsReached(cut) /\ ReceivedIsHeld'
  BY <1>1, <1>3 DEF WholeCut, CutInv, TruthInv, AckSound
<1>6. Blocks(c)'
  <2>1. txSeq \in Nat /\ txSeq' \in Nat /\ txSeq <= txSeq'
    BY <1>1, WindowArithmetic DEF HoldsOn, IInv
  <2> QED
    BY <1>3, <1>5, <2>1, BlocksGrow
<1>7. TargetsReached(c)'
  BY <1>1, <1>3, <1>4, <1>5, <1>6, NextTargets
<1> QED
  BY <1>2, <1>3, <1>4, <1>6, <1>7 DEF WholeCut

LEMMA NextWhole ==
    ASSUME RxW >= 2 * (TxW - 1), IInv, OnceInv, TruthInv, WholeInv, [Next]_vars
    PROVE  WholeInv'
<1>1. PICK cut : WholeCut(cut)
  BY DEF WholeInv
<1> QED
  BY <1>1, NextWholeCut DEF WholeInv

LEMMA Wholeness ==
    ASSUME RxW >= 2 * (TxW - 1)
    PROVE  Spec => []WholeInv
<1>1. IInv /\ OnceInv /\ [Next]_vars => OnceInv'
  BY NextOnce
<1>2. IInv /\ OnceInv /\ TruthInv /\ WholeInv /\ [Next]_vars => WholeInv'
  BY NextWhole
<1>3. Spec => []OnceInv
  BY <1>1, InitOnce, Invariance, PTL DEF Spec
<1> QED
  BY <1>2, <1>3, InitWhole, Invariance, Truth, PTL DEF Spec

\* The receiver throws for no other reason than the two that are known: an MRW before
\* any DATA, and fragments of an SDU that was given up left in pending.  In particular
\* it never finds its buffer inconsistent, an SDU without one of its frames, or a PDU
\* beyond its window, for a receiver window that holds twice what may be outstanding.
THEOREM ReceiverThrowsOnlyKnown ==
    ASSUME RxW >= 2 * (TxW - 1)
    PROVE  Spec => []RxThrowsOnlyKnown
<1>1. WholeInv => RxThrowsOnlyKnown
  BY DEF WholeInv, DeliveredWell
<1> QED
  BY <1>1, Wholeness, PTL

\* Under the same condition every SDU that is passed up is passed up once, and is made
\* of all its PDUs, each once and in order, although they may be sent several times,
\* overtake each other, and leave the window in parts through pending.
THEOREM SdusPassedUpWhole ==
    ASSUME RxW >= 2 * (TxW - 1)
    PROVE  Spec => []DeliveredOnceWhole
<1>1. DeliveredOnce /\ WholeInv => DeliveredOnceWhole
  BY DEF WholeInv, DeliveredWell, DeliveredOnceWhole
<1> QED
  BY <1>1, SdusPassedUpOnce, Wholeness, PTL

-----------------------------------------------------------------------------
(* No SDU of one or two fragments is lost in silence.                      *)

\* A slot that is not empty is flagged.
AllFlagged(buf, received) == \A i \in RxSlots : buf[i] # NoPdu => received[i]

\* checkCompleteSdu finds an SDU of one or two fragments as soon as it is complete.
LEMMA PairFound ==
    ASSUME NEW f \in Nat, NEW buf \in [RxSlots -> DataPdu \cup {NoPdu}],
           NEW received \in [RxSlots -> BOOLEAN], NEW cut, Cut(cut), txSeq \in Nat,
           BufFits(cut, f, buf), AllFlagged(buf, received),
           NEW x \in RxSlots, buf[x] # NoPdu, buf[x].last <= buf[x].first + 1,
           AllHere(f, buf, buf[x].first, buf[x].last),
           NEW s, x = 0 /\ ~IsFirst(buf[x]) => s = buf[x].sdu
    PROVE  CompleteSdu(buf, received, s, x) # Incomplete
<1>0. /\ RxW \in Nat /\ RxSlots = 0..(RxW - 1) /\ x \in Nat /\ x < RxW
  BY WindowAssumption DEF RxSlots
<1>1. PICK p : p = buf[x]
  OBVIOUS
<1>2. /\ p \in DataPdu /\ p.sno = f + x /\ Fragment(cut, p)
      /\ p.first \in Nat /\ p.last \in Nat /\ p.sno \in Nat
  <2>1. p \in DataPdu /\ p.sno = f + x /\ Fragment(cut, p)
    BY <1>1 DEF BufFits
  <2> QED
    BY <2>1 DEF DataPdu
<1>3. p.first <= p.sno /\ p.sno <= p.last /\ p.last <= p.first + 1
  BY <1>1, <1>2 DEF Fragment, Cut
<1>4. ASSUME NEW y \in RxSlots, f + y \in p.first..p.last
      PROVE  received[y] /\ buf[y] # NoPdu /\ buf[y].sno = f + y
             /\ (buf[y].sdu = p.sdu => buf[y].first = p.first /\ buf[y].last = p.last)
  <2>1. (f + y) - f = y /\ ~(f + y < f)
    BY <1>0
  <2>2. buf[y] # NoPdu
    BY <1>1, <1>4, <2>1 DEF AllHere
  <2>3. received[y] /\ buf[y].sno = f + y /\ Fragment(cut, buf[y])
    BY <2>2 DEF AllFlagged, BufFits
  <2>4. buf[y].sdu = p.sdu => cut[buf[y].sno] = cut[p.sno]
    <3>1. PICK b : b = buf[y]
      OBVIOUS
    <3>2. /\ b.sno \in 0..(txSeq - 1) /\ b.sdu = cut[b.sno].sdu
          /\ p.sno \in 0..(txSeq - 1) /\ p.sdu = cut[p.sno].sdu
      BY <1>2, <2>3, <3>1 DEF Fragment
    <3>3. b.sdu = p.sdu => cut[b.sno] = cut[p.sno]
      BY <3>2 DEF Cut
    <3> QED
      BY <3>1, <3>3
  <2> QED
    BY <1>2, <2>2, <2>3, <2>4 DEF Fragment
<1>5. PICK a : a = FirstIndex(buf, received, s, x)
  OBVIOUS
<1>6. CASE IsFirst(p)
  <2>1. a = x
    BY <1>1, <1>5, <1>6 DEF FirstIndex
  <2>2. CASE IsLast(p)
    BY <1>0, <1>1, <1>5, <2>1, <2>2 DEF CompleteSdu, Incomplete
  <2>3. CASE ~IsLast(p)
    <3> DEFINE ends == {i \in (x + 1)..(RxW - 1) : EndsSearch(buf, received, x, i)}
    <3>1. p.last = f + (x + 1) /\ p.first <= p.last
      BY <1>0, <1>2, <1>3, <1>6, <2>3 DEF IsFirst, IsLast
    <3>2. x + 1 \in RxSlots
      <4>1. p.last - f = x + 1 /\ ~(p.last < f) /\ p.last \in p.first..p.last
        BY <1>0, <1>2, <3>1
      <4> QED
        BY <1>1, <4>1 DEF AllHere
    <3>3. received[x + 1] /\ buf[x + 1] # NoPdu /\ buf[x + 1].sno = f + (x + 1)
          /\ (buf[x + 1].sdu = p.sdu => buf[x + 1].last = p.last)
      <4>1. f + (x + 1) \in p.first..p.last
        BY <1>2, <3>1
      <4> QED
        BY <1>4, <3>2, <4>1
    <3>4. x + 1 \in ends
      <4>1. EndsSearch(buf, received, x, x + 1)
        BY <1>1, <3>1, <3>3 DEF EndsSearch, IsLast
      <4> QED
        BY <1>0, <3>2, <4>1
    <3>5. PICK g : g = Min(ends)
      OBVIOUS
    <3>6. g = x + 1
      <4>1. ends \in SUBSET Nat /\ \A y \in ends : x + 1 <= y
        BY <1>0
      <4>2. g \in ends /\ g <= x + 1
        <5> HIDE DEF ends
        <5> QED
          BY <3>4, <3>5, <4>1, LeastIndex
      <4>3. x + 1 <= g /\ g \in Nat
        <5> HIDE DEF ends
        <5> QED
          BY <4>1, <4>2
      <4> QED
        BY <1>0, <4>2, <4>3
    <3>7. Verdict(buf, received, x, g, IsLast, a) \in {Inconsistent, a}
      BY <3>3, <3>6 DEF Verdict
    <3>8. CompleteSdu(buf, received, s, x) \in {Inconsistent, a}
      <4>1. CompleteSdu(buf, received, s, x) =
                IF a < 0 \/ IsLast(buf[x]) THEN a
                ELSE IF ends = {} THEN Incomplete
                ELSE Verdict(buf, received, x, g, IsLast, a)
        BY <1>5, <3>5 DEF CompleteSdu
      <4>2. ends # {}
        BY <3>4
      <4> HIDE DEF ends
      <4> QED
        BY <3>7, <4>1, <4>2
    <3> QED
      BY <1>0, <2>1, <3>8 DEF Incomplete, Inconsistent
  <2> QED
    BY <2>2, <2>3
<1>7. CASE ~IsFirst(p)
  <2>1. IsLast(p) /\ p.sno = p.first + 1
    BY <1>2, <1>3, <1>7 DEF IsFirst, IsLast
  <2>2. a # Incomplete
    <3>1. CASE x = 0
      <4>1. a = 0
        BY <1>1, <1>5, <1>7, <3>1 DEF FirstIndex
      <4> QED
        BY <4>1 DEF Incomplete
    <3>2. CASE x > 0
      <4> DEFINE ends == {i \in 0..(x - 1) : EndsSearch(buf, received, x, i)}
      <4>1. x - 1 \in RxSlots /\ f + (x - 1) = p.first
        BY <1>0, <1>2, <2>1, <3>2
      <4>2. received[x - 1] /\ buf[x - 1] # NoPdu /\ buf[x - 1].sno = p.first
            /\ (buf[x - 1].sdu = p.sdu => buf[x - 1].first = p.first)
        <5>1. f + (x - 1) \in p.first..p.last
          BY <1>2, <1>3, <4>1
        <5> QED
          BY <1>4, <4>1, <5>1
      <4>3. x - 1 \in ends
        <5>1. EndsSearch(buf, received, x, x - 1)
          BY <1>1, <4>2 DEF EndsSearch, IsFirst
        <5> QED
          BY <1>0, <3>2, <5>1
      <4>4. PICK g : g = Max(ends)
        OBVIOUS
      <4>5. g = x - 1
        <5>1. ends \in SUBSET (0..(x - 1)) /\ x - 1 \in Nat
          BY <1>0, <3>2
        <5>2. g \in ends /\ g >= x - 1
          <6> HIDE DEF ends
          <6> QED
            BY <4>3, <4>4, <5>1, LargestIndex
        <5>3. g \in 0..(x - 1)
          <6> HIDE DEF ends
          <6> QED
            BY <5>1, <5>2
        <5> QED
          BY <1>0, <5>2, <5>3
      <4>6. a = IF ends = {} \/ ~received[g] THEN Incomplete
                ELSE IF buf[g] # NoPdu /\ buf[g].sdu = buf[x].sdu /\ IsFirst(buf[g])
                THEN g ELSE Inconsistent
        BY <1>1, <1>5, <1>7, <3>2, <4>4 DEF FirstIndex, Verdict
      <4>8. a \in {Inconsistent, g}
        <5>1. ends # {}
          BY <4>3
        <5> HIDE DEF ends
        <5> QED
          BY <4>2, <4>5, <4>6, <5>1
      <4> QED
        BY <1>0, <3>2, <4>5, <4>8 DEF Incomplete, Inconsistent
    <3> QED
      BY <1>0, <3>1, <3>2
  <2>3. CompleteSdu(buf, received, s, x) = a
    BY <1>1, <1>5, <2>1 DEF CompleteSdu
  <2> QED
    BY <2>2, <2>3
<1> QED
  BY <1>6, <1>7

\* Every SDU is cut into one or two.
Pairs(cut) == \A sn \in 0..(txSeq - 1) : cut[sn].last <= cut[sn].first + 1

\* Every SDU that was taken from above has numbers, or did not fit into the window.
Numbered(cut) ==
    \A s \in 0..(nextSdu - 1) :
        s \in dropped \/ \E sn \in 0..(txSeq - 1) : cut[sn].sdu = s

\* The SDU of a PDU that is marked discarded counts as given up.
GivenUpNoted(cut) ==
    \A i \in TxSlots : InWindow(i) /\ tDiscarded[i] => cut[txFirst + i].sdu \in givenUp

\* An SDU that is neither given up nor passed up lacks a PDU at the receiver.
Accounted(cut) ==
    \A sn \in 0..(txSeq - 1) :
        \/ cut[sn].sdu \in givenUp
        \/ IsPassedUp(cut[sn].sdu)
        \/ \E j \in cut[sn].first..cut[sn].last : ~Holds(j)

\* enque gives every SDU that fits its numbers, one or two of them.
LEMMA EnqueCut ==
    ASSUME SduFrags \subseteq {1, 2}, IInv, NEW cut, Pairs(cut), Numbered(cut),
           NEW c, Extends(cut, c), NEW n \in SduFrags, Enque(n)
    PROVE  Pairs(c)' /\ Numbered(c)'
<1>0. txSeq \in Nat /\ nextSdu \in Nat /\ n \in {1, 2}
  BY DEF IInv, TypeOK, TxTypeOK
<1>1. \A sn \in 0..(txSeq - 1) : c[sn] = cut[sn]
  BY DEF Extends
<1>2. CASE txSeq' = txSeq /\ (UNCHANGED <<nextSdu, dropped>>
                               \/ (nextSdu' = nextSdu + 1 /\ dropped' = dropped \cup {nextSdu}))
  <2>1. Pairs(c)'
    BY <1>1, <1>2 DEF Pairs
  <2>2. \A s \in 0..(nextSdu' - 1) : s \in 0..(nextSdu - 1) \/ s \in dropped'
    BY <1>0, <1>2
  <2>3. \A s \in 0..(nextSdu - 1) :
            s \in dropped' \/ \E sn \in 0..(txSeq' - 1) : c[sn].sdu = s
    BY <1>1, <1>2 DEF Numbered
  <2>4. Numbered(c)'
    BY <2>2, <2>3 DEF Numbered
  <2> QED
    BY <2>1, <2>4
<1>3. CASE txSeq' = txSeq + n /\ nextSdu' = nextSdu + 1 /\ UNCHANGED dropped
  <2>0. PICK t : t = txSeq'
    OBVIOUS
  <2>1. /\ t \in Nat /\ t = txSeq + n
        /\ \A sn \in 0..(t - 1) : sn \in 0..(txSeq - 1) \/ sn \in txSeq..(t - 1)
        /\ \A sn \in 0..(txSeq - 1) : sn \in 0..(t - 1)
        /\ txSeq \in txSeq..(t - 1) /\ txSeq \in 0..(t - 1)
        /\ t - 1 <= txSeq + 1
    BY <1>0, <1>3, <2>0
  <2>2. ASSUME NEW sn \in txSeq..(t - 1)
        PROVE  c[sn].sdu = nextSdu /\ c[sn].first = txSeq /\ c[sn].last = t - 1
    <3>1. c[sn] = [sdu |-> nextSdu, first |-> txSeq, last |-> t - 1]
      BY <2>0, <2>2 DEF Extends
    <3> QED
      BY <3>1
  <2>3. \A sn \in 0..(t - 1) : c[sn].last <= c[sn].first + 1
    BY <1>1, <2>1, <2>2 DEF Pairs
  <2>4. \A s \in 0..nextSdu : s \in 0..(nextSdu - 1) \/ s = nextSdu
    BY <1>0
  <2>5. \A s \in 0..nextSdu :
            s \in dropped \/ \E sn \in 0..(t - 1) : c[sn].sdu = s
    BY <1>1, <2>1, <2>2, <2>4 DEF Numbered
  <2>6. nextSdu' - 1 = nextSdu
    BY <1>0, <1>3
  <2> QED
    BY <1>3, <2>0, <2>3, <2>5, <2>6 DEF Pairs, Numbered
<1> QED
  BY <1>2, <1>3 DEF Enque, TxThrow, windowVars, sduVars

\* A step that takes no SDU from above.
LEMMA QuietCut ==
    ASSUME NEW cut, Pairs(cut), Numbered(cut), NEW c, Extends(cut, c),
           UNCHANGED <<txSeq, nextSdu, dropped>>
    PROVE  Pairs(c)' /\ Numbered(c)'
<1>1. \A sn \in 0..(txSeq - 1) : c[sn] = cut[sn]
  BY DEF Extends
<1> QED
  BY <1>1 DEF Pairs, Numbered

\* In every step: nothing but enque takes an SDU from above.
LEMMA NextCut ==
    ASSUME SduFrags \subseteq {1, 2}, IInv, NEW cut, Pairs(cut), Numbered(cut),
           NEW c, Extends(cut, c), [Next]_vars
    PROVE  Pairs(c)' /\ Numbered(c)'
<1>1. ASSUME NEW n \in SduFrags, AtTx(Enque(n)) PROVE Pairs(c)' /\ Numbered(c)'
  BY <1>1, EnqueCut DEF AtTx
<1>2. ASSUME UNCHANGED <<txSeq, nextSdu, dropped>> PROVE Pairs(c)' /\ Numbered(c)'
  BY <1>2, QuietCut
<1>3. CASE \/ \E sn \in pduTimer : AtTx(PduTimer(sn))
           \/ \E serial \in mrwTimer : AtTx(MrwTimer(serial))
           \/ AtTx(BufferStatusTimer)
  <2>1. UNCHANGED <<txSeq, nextSdu, dropped>>
    BY <1>3 DEF AtTx, PduTimer, Retransmit, MrwTimer, BufferStatusTimer, TxThrow,
                windowVars, sduVars
  <2> QED
    BY <1>2, <2>1
<1>4. CASE AtRx(StatusTimer) \/ AtRx(AckInterval) \/ UNCHANGED vars
  <2>1. UNCHANGED <<txSeq, nextSdu, dropped>>
    BY <1>4 DEF AtRx, vars, txVars, windowVars, sduVars
  <2> QED
    BY <1>2, <2>1
<1>5. ASSUME NEW p \in Procs, SendPdu(p) \/ DeliverPdu(p) \/ Lose(p)
      PROVE  Pairs(c)' /\ Numbered(c)'
  <2>1. UNCHANGED <<txSeq, nextSdu, dropped>>
    BY <1>5 DEF SendPdu, DeliverPdu, Lose, txVars, windowVars, sduVars
  <2> QED
    BY <1>2, <2>1
<1>6. ASSUME NEW p \in CtlProcs, SendCtl(p) \/ DeliverCtl(p) \/ LoseCtl(p)
      PROVE  Pairs(c)' /\ Numbered(c)'
  <2>1. UNCHANGED <<txSeq, nextSdu, dropped>>
    BY <1>6 DEF SendCtl, DeliverCtl, LoseCtl, RecvAck, RecvMrwAck, TxThrow, txVars,
                windowVars, sduVars
  <2> QED
    BY <1>2, <2>1
<1> QED
  BY <1>1, <1>3, <1>4, <1>5, <1>6 DEF Next

-----------------------------------------------------------------------------
\* In every step the buffer of the receiver and its flags stay together.
LEMMA NextFlagged ==
    ASSUME IInv, AllFlagged(rBuf, rReceived), [Next]_vars
    PROVE  AllFlagged(rBuf, rReceived)'
<1>0. rBuf \in [RxSlots -> DataPdu \cup {NoPdu}] /\ rReceived \in [RxSlots -> BOOLEAN]
  BY DEF IInv, TypeOK, RxTypeOK
<1>1. ASSUME UNCHANGED <<rBuf, rReceived>> PROVE AllFlagged(rBuf, rReceived)'
  BY <1>1 DEF AllFlagged
<1>2. ASSUME UNCHANGED rxVars PROVE AllFlagged(rBuf, rReceived)'
  BY <1>1, <1>2 DEF rxVars, bufferVars
<1>3. CASE \/ \E n \in SduFrags : AtTx(Enque(n))
           \/ \E sn \in pduTimer : AtTx(PduTimer(sn))
           \/ \E serial \in mrwTimer : AtTx(MrwTimer(serial))
           \/ AtTx(BufferStatusTimer) \/ UNCHANGED vars
           \/ \E p \in Procs : SendPdu(p) \/ Lose(p)
           \/ \E p \in CtlProcs : DeliverCtl(p) \/ LoseCtl(p)
  <2>1. UNCHANGED rxVars
    BY <1>3 DEF AtTx, vars, SendPdu, Lose, DeliverCtl, LoseCtl
  <2> QED
    BY <1>2, <2>1
<1>4. CASE AtRx(StatusTimer) \/ AtRx(AckInterval) \/ \E p \in CtlProcs : SendCtl(p)
  <2>1. UNCHANGED <<rBuf, rReceived>>
    BY <1>4 DEF AtRx, StatusTimer, AckInterval, SendCtl, bufferVars
  <2> QED
    BY <1>1, <2>1
<1>5. ASSUME NEW p, RecvData(p) PROVE AllFlagged(rBuf, rReceived)'
  <2>1. CASE DataStored(p)
    <3>1. PICK x \in RxSlots : rBuf' = [rBuf EXCEPT ![x] = p]
                               /\ rReceived' = [rReceived EXCEPT ![x] = TRUE]
      BY <2>1 DEF DataStored
    <3> QED
      BY <1>0, <3>1 DEF AllFlagged
  <2> QED
    BY <1>1, <1>5, <2>1, RecvDataCases
<1>6. ASSUME NEW m \in MrwPdu, RecvMrw(m) PROVE AllFlagged(rBuf, rReceived)'
  <2>1. CASE UNCHANGED <<rBuf, rReceived>>
    BY <1>1, <2>1
  <2>2. CASE /\ m.target - rxFirst > 0
             /\ rBuf' = ShiftedPdus(m.target - rxFirst)
             /\ rReceived' = ShiftedFlags(m.target - rxFirst)
    <3>1. PICK pos \in Nat : pos = m.target - rxFirst
      <4>1. m.target \in Nat /\ rxFirst \in Nat
        BY DEF IInv, TypeOK, RxTypeOK, MrwPdu
      <4> QED
        BY <2>2, <4>1
    <3>2. \A i \in RxSlots : i + pos < RxW => i + pos \in RxSlots
      BY WindowAssumption DEF RxSlots
    <3>3. \A i \in RxSlots : rBuf'[i] # NoPdu =>
              i + pos < RxW /\ rBuf'[i] = rBuf[i + pos] /\ rReceived'[i] = rReceived[i + pos]
      BY <2>2, <3>1 DEF ShiftedPdus, ShiftedFlags
    <3> QED
      BY <3>2, <3>3 DEF AllFlagged
  <2>3. PICK pos : pos = m.target - rxFirst
    OBVIOUS
  <2>4. rxFirst \in Int /\ m.target \in Int
    BY DEF IInv, TypeOK, RxTypeOK, MrwPdu
  <2>5. \/ UNCHANGED <<rBuf, rReceived>>
        \/ ~(pos <= 0) /\ rBuf' = ShiftedPdus(pos) /\ rReceived' = ShiftedFlags(pos)
    BY <1>6, <2>3 DEF RecvMrw, RxThrow, bufferVars
  <2>6. ~(pos <= 0) => pos > 0
    BY <2>3, <2>4
  <2> QED
    BY <2>1, <2>2, <2>3, <2>5, <2>6
<1>7. ASSUME NEW p \in Procs, DeliverPdu(p) PROVE AllFlagged(rBuf, rReceived)'
  <2>1. air[p] # NoPdu /\ TypeOK
    BY <1>7 DEF DeliverPdu, IInv
  <2>2. air[p].type = "MRW" => air[p] \in MrwPdu
    BY <2>1, PduUnderWay
  <2> QED
    BY <1>5, <1>6, <1>7, <2>2 DEF DeliverPdu
<1> QED
  BY <1>3, <1>4, <1>5, <1>6, <1>7 DEF Next

\* A PDU in the window has a number that was given out.
LEMMA NumberInWindow ==
    ASSUME IInv, NEW i \in TxSlots, InWindow(i)
    PROVE  txFirst + i \in 0..(txSeq - 1)
<1>1. txFirst \in Nat /\ txSeq \in Nat /\ TxUsed = txSeq - txFirst
  BY WindowArithmetic DEF IInv, TxUsed
<1> QED
  BY <1>1, WindowAssumption DEF InWindow, TxSlots

\* A step that neither moves the window nor gives anything up.
LEMMA QuietNoted ==
    ASSUME IInv, NEW cut, GivenUpNoted(cut), NEW c, Extends(cut, c),
           UNCHANGED <<txFirst, txSeq, tDiscarded>>, givenUp \subseteq givenUp'
    PROVE  GivenUpNoted(c)'
<1> SUFFICES ASSUME NEW i \in TxSlots, InWindow(i), tDiscarded[i]
             PROVE  c[txFirst + i].sdu \in givenUp'
  BY DEF GivenUpNoted, InWindow, TxUsed
<1>1. c[txFirst + i] = cut[txFirst + i]
  BY NumberInWindow DEF Extends
<1> QED
  BY <1>1 DEF GivenUpNoted

\* The PDUs enque adds are not marked discarded.
LEMMA EnqueNoted ==
    ASSUME IInv, NEW cut, GivenUpNoted(cut), NEW c, Extends(cut, c),
           NEW n \in SduFrags, Enque(n)
    PROVE  GivenUpNoted(c)'
<1> DEFINE new == TxUsed..(TxUsed + n - 1)
<1>0. /\ txFirst \in Nat /\ txSeq \in Nat /\ TxUsed \in Nat /\ TxUsed = txSeq - txFirst
      /\ n \in Nat \ {0} /\ TxW \in Nat
  BY WindowArithmetic, ParameterAssumption, WindowAssumption DEF IInv, TxUsed
<1>1. CASE UNCHANGED windowVars /\ UNCHANGED givenUp
  BY <1>1, QuietNoted DEF windowVars
<1>2. CASE /\ \A i \in new : ~tDiscarded[i]
           /\ txSeq' = txSeq + n
           /\ UNCHANGED <<txFirst, tDiscarded, givenUp>>
  <2> SUFFICES ASSUME NEW i \in TxSlots, InWindow(i)', tDiscarded[i]
               PROVE  c[txFirst + i].sdu \in givenUp
    BY <1>2 DEF GivenUpNoted
  <2>1. i < txSeq' - txFirst /\ i \notin new
    BY <1>2 DEF InWindow, TxUsed
  <2>2. i < TxUsed
    BY <1>0, <1>2, <2>1 DEF TxSlots
  <2>3. InWindow(i) /\ c[txFirst + i] = cut[txFirst + i]
    BY <2>2, NumberInWindow DEF InWindow, Extends
  <2> QED
    BY <2>3 DEF GivenUpNoted
<1> QED
  BY <1>1, <1>2 DEF Enque, TxThrow, sduVars

\* discard marks PDUs of the SDU that it gives up and of no other.
LEMMA DiscardNoted ==
    ASSUME IInv, WindowFilled, TxInPlace, NEW cut, CutInv(cut), Blocks(cut),
           GivenUpNoted(cut), NEW c, Extends(cut, c),
           NEW x \in TxSlots, InWindow(x), NEW timers, Discard(x, timers),
           UNCHANGED <<txFirst, txSeq>>
    PROVE  GivenUpNoted(c)'
<1>1. \A i \in TxSlots : tDiscarded'[i] <=> tDiscarded[i] \/ i \in Group(x)
  BY DEF Discard
<1>2. givenUp' = givenUp \cup {rtx[x].sdu}
  BY DEF Discard
<1> SUFFICES ASSUME NEW i \in TxSlots, InWindow(i), tDiscarded'[i]
             PROVE  c[txFirst + i].sdu \in givenUp'
  BY DEF GivenUpNoted, InWindow, TxUsed
<1>3. c[txFirst + i] = cut[txFirst + i]
  BY NumberInWindow DEF Extends
<1>4. CASE tDiscarded[i]
  BY <1>2, <1>3, <1>4 DEF GivenUpNoted
<1>5. CASE i \in Group(x)
  <2>1. cut[txFirst + i] = cut[txFirst + x]
    BY <1>5, GroupIsSdu
  <2>2. rtx[x].sdu = cut[txFirst + x].sdu
    BY SlotSdu
  <2> QED
    BY <1>2, <1>3, <2>1, <2>2
<1> QED
  BY <1>1, <1>4, <1>5

\* A retransmission timer sends its PDU again or gives its SDU up.
LEMMA PduTimerNoted ==
    ASSUME IInv, TxSound, TxInPlace, NEW cut, CutInv(cut), Blocks(cut),
           GivenUpNoted(cut), NEW c, Extends(cut, c), NEW sn \in pduTimer, PduTimer(sn)
    PROVE  GivenUpNoted(c)'
<1>1. PICK x : x = sn - txFirst
  OBVIOUS
<1>2. x \in TxSlots /\ InWindow(x)
  BY <1>1, TimedSlot
<1>3. CASE UNCHANGED <<txFirst, txSeq, tDiscarded, givenUp>>
  BY <1>3, QuietNoted
<1>4. CASE Discard(x, pduTimer \ {sn}) /\ UNCHANGED <<txFirst, txSeq>>
  BY <1>2, <1>4, DiscardNoted DEF TxSound
<1> QED
  BY <1>1, <1>3, <1>4 DEF PduTimer, Retransmit, TxThrow, windowVars, sduVars

\* A window move takes the marks along with the PDUs.
LEMMA RecvMrwAckNoted ==
    ASSUME IInv, NEW cut, GivenUpNoted(cut), NEW c, Extends(cut, c),
           NEW m \in MrwAckPdu, RecvMrwAck(m)
    PROVE  GivenUpNoted(c)'
<1> DEFINE pos == m.first - txFirst
<1>0. /\ txFirst \in Nat /\ txSeq \in Nat /\ TxW \in Nat /\ TxUsed \in 0..(TxW - 1)
      /\ TxUsed = txSeq - txFirst /\ m.first \in Nat
  BY WindowArithmetic, WindowAssumption DEF IInv, TypeOK, TxTypeOK, MrwAckPdu, TxUsed
<1>1. CASE UNCHANGED windowVars /\ UNCHANGED givenUp
  BY <1>1, QuietNoted DEF windowVars
<1>2. CASE /\ pos > 0 /\ pos <= TxUsed
           /\ txFirst' = txFirst + pos
           /\ tDiscarded' = Shifted(tDiscarded, pos, FALSE)
           /\ UNCHANGED <<txSeq, givenUp>>
  <2>0. pos \in Nat
    BY <1>0, <1>2
  <2> HIDE DEF pos
  <2> SUFFICES ASSUME NEW i \in TxSlots, tDiscarded'[i]
               PROVE  c[txFirst' + i].sdu \in givenUp
    BY <1>2 DEF GivenUpNoted
  <2>1. i + pos < TxUsed /\ tDiscarded[i + pos]
    BY <1>2 DEF Shifted
  <2>2. i + pos \in TxSlots /\ InWindow(i + pos) /\ txFirst' + i = txFirst + (i + pos)
    BY <1>0, <1>2, <2>0, <2>1 DEF TxSlots, InWindow
  <2>3. c[txFirst + (i + pos)] = cut[txFirst + (i + pos)]
    BY <2>2, NumberInWindow DEF Extends
  <2> QED
    BY <2>1, <2>2, <2>3 DEF GivenUpNoted
<1> QED
  BY <1>1, <1>2 DEF RecvMrwAck, TxThrow, sduVars

\* In every step: what is marked discarded counts as given up.
LEMMA NextNoted ==
    ASSUME IInv, TxSound, TxInPlace, NEW cut, CutInv(cut), Blocks(cut), GivenUpNoted(cut),
           NEW c, Extends(cut, c), [Next]_vars
    PROVE  GivenUpNoted(c)'
<1>1. ASSUME UNCHANGED <<txFirst, txSeq, tDiscarded, givenUp>> PROVE GivenUpNoted(c)'
  BY <1>1, QuietNoted
<1>2. ASSUME NEW n \in SduFrags, AtTx(Enque(n)) PROVE GivenUpNoted(c)'
  BY <1>2, EnqueNoted DEF AtTx
<1>3. ASSUME NEW sn \in pduTimer, AtTx(PduTimer(sn)) PROVE GivenUpNoted(c)'
  BY <1>3, PduTimerNoted DEF AtTx
<1>4. ASSUME NEW p \in CtlProcs, DeliverCtl(p) PROVE GivenUpNoted(c)'
  <2>1. ctlAir[p] # NoPdu
    BY <1>4 DEF DeliverCtl
  <2>2. CASE RecvAck(ctlAir[p])
    BY <1>1, <2>2 DEF RecvAck, TxThrow, windowVars, sduVars
  <2>3. CASE ctlAir[p].type = "MRW_ACK" /\ RecvMrwAck(ctlAir[p])
    <3>1. ctlAir[p] \in MrwAckPdu
      BY <2>1, <2>3, CtlUnderWay DEF IInv
    <3> QED
      BY <2>3, <3>1, RecvMrwAckNoted
  <2> QED
    BY <1>4, <2>2, <2>3 DEF DeliverCtl
<1>5. CASE \/ \E serial \in mrwTimer : AtTx(MrwTimer(serial))
           \/ AtTx(BufferStatusTimer) \/ AtRx(StatusTimer) \/ AtRx(AckInterval)
           \/ UNCHANGED vars
  <2>1. UNCHANGED <<txFirst, txSeq, tDiscarded, givenUp>>
    BY <1>5 DEF AtTx, AtRx, MrwTimer, BufferStatusTimer, TxThrow, windowVars, sduVars,
                txVars, vars
  <2> QED
    BY <1>1, <2>1
<1>6. ASSUME NEW p \in Procs, SendPdu(p) \/ DeliverPdu(p) \/ Lose(p) PROVE GivenUpNoted(c)'
  <2>1. UNCHANGED <<txFirst, txSeq, tDiscarded, givenUp>>
    BY <1>6 DEF SendPdu, DeliverPdu, Lose, windowVars, sduVars, txVars
  <2> QED
    BY <1>1, <2>1
<1>7. ASSUME NEW p \in CtlProcs, SendCtl(p) \/ LoseCtl(p) PROVE GivenUpNoted(c)'
  <2>1. UNCHANGED <<txFirst, txSeq, tDiscarded, givenUp>>
    BY <1>7 DEF SendCtl, LoseCtl, windowVars, sduVars, txVars
  <2> QED
    BY <1>1, <2>1
<1> QED
  BY <1>2, <1>3, <1>4, <1>5, <1>6, <1>7 DEF Next

\* A step that brings the receiver no PDU: what is new lacks all its PDUs.
LEMMA AccountedStays ==
    ASSUME IInv, BufferInPlace, NEW cut, Cut(cut), Accounted(cut), NEW c, Extends(cut, c),
           UNCHANGED <<rxFirst, rBuf, delivered>>, givenUp \subseteq givenUp',
           txSeq' \in Nat, txSeq <= txSeq'
    PROVE  Accounted(c)'
<1>0. /\ txSeq \in Nat /\ rxFirst \in Nat /\ rxFirst <= txSeq
  BY WindowArithmetic DEF IInv, WindowsTogether
<1>1. /\ \A sn : Holds(sn)' <=> Holds(sn)
      /\ \A s : IsPassedUp(s)' <=> IsPassedUp(s)
  BY DEF Holds, IsPassedUp
<1>2. ASSUME NEW sn \in 0..(txSeq - 1)
      PROVE  \/ c[sn].sdu \in givenUp' \/ IsPassedUp(c[sn].sdu)'
             \/ \E j \in c[sn].first..c[sn].last : ~Holds(j)'
  BY <1>1, <1>2 DEF Extends, Accounted
<1>3. ASSUME NEW sn \in txSeq..(txSeq' - 1)
      PROVE  \E j \in c[sn].first..c[sn].last : ~Holds(j)'
  <2>1. c[sn] = [sdu |-> nextSdu, first |-> txSeq, last |-> txSeq' - 1]
    BY <1>3 DEF Extends
  <2>2. c[sn].first = txSeq /\ c[sn].last = txSeq' - 1
    BY <2>1
  <2>3. txSeq \in txSeq..(txSeq' - 1)
    <3>1. PICK s, v : s = txSeq /\ v = txSeq'
      OBVIOUS
    <3>2. s \in Nat /\ v \in Nat /\ sn \in s..(v - 1)
      BY <1>0, <1>3, <3>1
    <3>3. s \in s..(v - 1)
      BY <3>2
    <3> QED
      BY <3>1, <3>3
  <2>4. ~Holds(txSeq)
    <3> SUFFICES ASSUME NEW i \in RxSlots, i = txSeq - rxFirst, rBuf[i] # NoPdu
                 PROVE  FALSE
      BY <1>0 DEF Holds
    <3>1. rBuf[i].sno = rxFirst + i /\ rBuf[i].sno < txSeq
      BY DEF BufferInPlace
    <3> QED
      BY <1>0, <3>1
  <2> QED
    BY <1>1, <2>2, <2>3, <2>4
<1>4. \A sn \in 0..(txSeq' - 1) : sn \in 0..(txSeq - 1) \/ sn \in txSeq..(txSeq' - 1)
  <2>1. PICK s, v : s = txSeq /\ v = txSeq'
    OBVIOUS
  <2>2. s \in Nat /\ v \in Nat
    BY <1>0, <2>1
  <2>3. \A sn \in 0..(v - 1) : sn \in 0..(s - 1) \/ sn \in s..(v - 1)
    BY <2>2
  <2> QED
    BY <2>1, <2>3
<1> QED
  BY <1>2, <1>3, <1>4 DEF Accounted

\* The SDU that checkCompleteSdu finds is the one of the PDU that completes it.
LEMMA CompleteSame ==
    ASSUME rxFirst \in Nat, txSeq \in Nat, NEW cut, Cut(cut),
           NEW buf \in [RxSlots -> DataPdu \cup {NoPdu}],
           NEW received \in [RxSlots -> BOOLEAN], BufFits(cut, rxFirst, buf),
           NEW x \in RxSlots, buf[x] # NoPdu, received[x],
           NEW s, NEW start, start = CompleteSdu(buf, received, s, x), start >= 0
    PROVE  buf[start].sdu = buf[x].sdu
<1>1. \A i \in RxSlots : buf[i] # NoPdu => buf[i].sno = rxFirst + i /\ Fragment(cut, buf[i])
  BY DEF BufFits
<1> QED
  BY <1>1, CompleteFound

\* A PDU that is new to the receiver: it completes its SDU, which is passed up, or there
\* is another one that is missing.
LEMMA StoreDataAccounted ==
    ASSUME IInv, RxSound, AllFlagged(rBuf, rReceived),
           NEW cut, CutInv(cut), Blocks(cut), StartKept(cut), Pairs(cut), Accounted(cut),
           NEW S, delivered \in Seq(S),
           NEW p \in DataPdu, Fragment(cut, p), NEW x \in RxSlots, x = p.sno - rxFirst,
           ~rReceived[x], StoreData(p), UNCHANGED <<txSeq, givenUp>>
    PROVE  Accounted(cut)'
<1>0. /\ rxFirst \in Nat /\ txSeq \in Nat /\ p.sno \in Nat /\ TypeOK /\ Cut(cut)
      /\ p.first \in Nat /\ p.last \in Nat /\ Extends(cut, cut) /\ BufferInPlace
  <2>1. rxFirst \in Nat /\ txSeq \in Nat /\ TypeOK /\ Cut(cut) /\ BufferInPlace
    BY DEF IInv, TypeOK, RxTypeOK, TxTypeOK, CutInv, RxSound
  <2>2. p.sno \in Nat /\ p.first \in Nat /\ p.last \in Nat
    BY DEF DataPdu
  <2>3. txSeq..(txSeq' - 1) = {}
    BY <2>1
  <2> QED
    BY <2>1, <2>2, <2>3 DEF Extends
<1>1. PICK buf, flags, s : buf = StoredBuf(p) /\ flags = StoredFlags(p) /\ s = SduAtStart(p)
  OBVIOUS
<1>2. /\ buf \in [RxSlots -> DataPdu \cup {NoPdu}] /\ flags \in [RxSlots -> BOOLEAN]
      /\ BufFits(cut, rxFirst, buf) /\ FlagsFit(buf, flags)
      /\ buf[x] = p /\ buf[x] # NoPdu /\ flags[x]
  BY <1>1, StoredFits
<1>3. PICK start : start = CompleteSdu(buf, flags, s, x)
  OBVIOUS
<1>4. /\ buf = [rBuf EXCEPT ![p.sno - rxFirst] = p]
      /\ flags = [rReceived EXCEPT ![p.sno - rxFirst] = TRUE]
      /\ start = CompleteSdu([rBuf EXCEPT ![p.sno - rxFirst] = p],
                             [rReceived EXCEPT ![p.sno - rxFirst] = TRUE],
                             SduAtStart(p), p.sno - rxFirst)
  BY <1>1, <1>3 DEF StoredBuf, StoredFlags
<1>5. \/ \E e : RxThrow(e)
      \/ start = Incomplete /\ Noted(p) /\ rBuf' = buf /\ UNCHANGED delivered
      \/ start >= 0 /\ Noted(p) /\ rBuf' = buf /\ PassUp(buf, start)
  BY <1>4 DEF StoreData
<1>6. CASE \E e : RxThrow(e)
  <2>1. UNCHANGED <<rxFirst, rBuf, delivered>>
    BY <1>6 DEF RxThrow, bufferVars
  <2>2. txSeq' \in Nat /\ txSeq <= txSeq' /\ givenUp \subseteq givenUp'
    BY <1>0
  <2> QED
    BY <1>0, <2>1, <2>2, AccountedStays
<1>7. ASSUME UNCHANGED rxFirst, rBuf' = buf,
             \A k : IsPassedUp(k) => IsPassedUp(k)',
             \/ IsPassedUp(p.sdu)'
             \/ \E j \in p.first..p.last : ~Holds(j)'
      PROVE  Accounted(cut)'
  <2> SUFFICES ASSUME NEW sn \in 0..(txSeq - 1), cut[sn].sdu \notin givenUp,
                      ~IsPassedUp(cut[sn].sdu)'
               PROVE  \E j \in cut[sn].first..cut[sn].last : ~Holds(j)'
    BY DEF Accounted
  <2>1. PICK j \in cut[sn].first..cut[sn].last : ~Holds(j)
    BY <1>7 DEF Accounted
  <2>2. CASE j = p.sno
    <3>1. cut[p.sno] = cut[sn]
      BY <2>1, <2>2 DEF Blocks
    <3>2. p.sdu = cut[sn].sdu /\ p.first = cut[sn].first /\ p.last = cut[sn].last
      BY <3>1 DEF Fragment
    <3> QED
      BY <1>7, <3>2
  <2>3. CASE j # p.sno
    <3>1. j \in Int
      OBVIOUS
    <3>2. j - rxFirst # x
      BY <1>0, <2>3, <3>1
    <3>3. \A i \in RxSlots : i # x => buf[i] = rBuf[i]
      BY <1>0, <1>4 DEF TypeOK, RxTypeOK
    <3>4. ~Holds(j)'
      BY <1>7, <2>1, <3>2, <3>3 DEF Holds
    <3> QED
      BY <3>4
  <2> QED
    BY <2>2, <2>3
<1>8. CASE start = Incomplete /\ Noted(p) /\ rBuf' = buf /\ UNCHANGED delivered
  <2>1. UNCHANGED rxFirst
    BY <1>8 DEF Noted
  <2>2. AllFlagged(buf, flags)
    <3> SUFFICES ASSUME NEW i \in RxSlots, buf[i] # NoPdu PROVE flags[i]
      BY DEF AllFlagged
    <3>1. CASE i = x
      BY <1>2, <3>1
    <3>2. CASE i # x
      <4>1. buf[i] = rBuf[i] /\ flags[i] = rReceived[i]
        BY <1>0, <1>4, <3>2 DEF TypeOK, RxTypeOK
      <4> QED
        BY <4>1 DEF AllFlagged
    <3> QED
      BY <3>1, <3>2
  <2>3. p.last <= p.first + 1
    <3>1. p.sno \in 0..(txSeq - 1) /\ p.first = cut[p.sno].first /\ p.last = cut[p.sno].last
      BY DEF Fragment
    <3> QED
      BY <3>1 DEF Pairs
  <2>4. x = 0 /\ ~IsFirst(p) => s = p.sdu
    <3> SUFFICES ASSUME x = 0, ~IsFirst(p) PROVE s = p.sdu
      OBVIOUS
    <3>1. p.sno = rxFirst /\ p.first # p.sno
      BY <1>0 DEF IsFirst
    <3>2. p.first = cut[p.sno].first /\ p.sno \in 0..(txSeq - 1)
      BY DEF Fragment
    <3>3. p.first <= p.sno
      BY <1>0, <3>2 DEF Cut
    <3>4. p.first < rxFirst
      BY <1>0, <3>1, <3>3
    <3>5. ~Past(p.sno)
      BY <1>0 DEF Past, RxSlots
    <3> QED
      BY <1>0, <1>1, <3>4, <3>5, NewAtStart
  <2>5. ~AllHere(rxFirst, buf, p.first, p.last)
    <3>1. AllHere(rxFirst, buf, buf[x].first, buf[x].last) =>
              CompleteSdu(buf, flags, s, x) # Incomplete
      BY <1>0, <1>2, <2>2, <2>3, <2>4, PairFound
    <3> QED
      BY <1>2, <1>3, <1>8, <3>1
  <2>6. \E j \in p.first..p.last : ~Holds(j)'
    BY <1>8, <2>1, <2>5 DEF AllHere, Holds
  <2>7. \A k : IsPassedUp(k) => IsPassedUp(k)'
    BY <1>8 DEF IsPassedUp
  <2> QED
    BY <1>7, <1>8, <2>1, <2>6, <2>7
<1>9. CASE start >= 0 /\ Noted(p) /\ rBuf' = buf /\ PassUp(buf, start)
  <2>1. UNCHANGED rxFirst
    BY <1>9 DEF Noted
  <2>2. buf[start].sdu = p.sdu
    <3>1. buf[start].sdu = buf[x].sdu
      BY <1>0, <1>2, <1>3, <1>9, CompleteSame
    <3> QED
      BY <1>2, <3>1
  <2>3. PICK d : d = [sdu |-> buf[start].sdu, frames |-> Frames(buf, start)]
    OBVIOUS
  <2>4. delivered' = Append(delivered, d) /\ d.sdu = p.sdu
    BY <1>9, <2>2, <2>3 DEF PassUp
  <2>5. /\ DOMAIN delivered = 1..Len(delivered) /\ Len(delivered) \in Nat
        /\ DOMAIN delivered' = 1..(Len(delivered) + 1)
        /\ delivered'[Len(delivered) + 1] = d
        /\ \A k \in 1..Len(delivered) : delivered'[k] = delivered[k]
    <3>1. PICK T : T = S \cup {d}
      OBVIOUS
    <3>2. delivered \in Seq(T) /\ d \in T
      BY <3>1
    <3> QED
      BY <2>4, <3>2
  <2>6. \A k : IsPassedUp(k) => IsPassedUp(k)'
    BY <2>5 DEF IsPassedUp
  <2>7. IsPassedUp(p.sdu)'
    BY <2>4, <2>5 DEF IsPassedUp
  <2> QED
    BY <1>7, <1>9, <2>1, <2>6, <2>7
<1> QED
  BY <1>5, <1>6, <1>8, <1>9

\* Two cuts that agree on all numbers given out.
LEMMA SameAccounted ==
    ASSUME NEW cut, NEW c, Extends(cut, c), UNCHANGED txSeq, Accounted(cut)'
    PROVE  Accounted(c)'
<1>1. \A sn \in 0..(txSeq' - 1) : c[sn] = cut[sn]
  BY DEF Extends
<1> QED
  BY <1>1 DEF Accounted

\* A PDU of data, new to the receiver or not.
LEMMA RecvDataAccounted ==
    ASSUME IInv, RxSound, AllFlagged(rBuf, rReceived),
           NEW cut, CutInv(cut), Blocks(cut), StartKept(cut), Pairs(cut), Accounted(cut),
           NEW S, delivered \in Seq(S),
           NEW p \in DataPdu, p \in Fragments, RecvData(p), UNCHANGED txVars
    PROVE  Accounted(cut)'
<1>1. PICK x : x = p.sno - rxFirst
  OBVIOUS
<1>2. /\ Fragment(cut, p) /\ Cut(cut) /\ BufferInPlace /\ txSeq \in Nat
      /\ UNCHANGED <<txSeq, givenUp>>
  BY DEF CutInv, RxSound, IInv, TypeOK, TxTypeOK, txVars, windowVars, sduVars
<1>3. CASE x \in RxSlots /\ ~rReceived[x] /\ StoreData(p)
  BY <1>1, <1>2, <1>3, StoreDataAccounted
<1>4. CASE UNCHANGED <<rxFirst, rBuf, delivered>>
  <2>1. txSeq..(txSeq' - 1) = {} /\ txSeq' \in Nat /\ txSeq <= txSeq' /\ givenUp \subseteq givenUp'
    BY <1>2
  <2>2. Extends(cut, cut)
    BY <2>1 DEF Extends
  <2> QED
    BY <1>2, <1>4, <2>1, <2>2, AccountedStays
<1> QED
  BY <1>1, <1>3, <1>4 DEF RecvData, RxThrow, Noted, bufferVars

\* The window moves past a PDU that the receiver does not have: its SDU is given up.
LEMMA RecvMrwAccounted ==
    ASSUME IInv, RxSound, ReceivedIsHeld, NEW cut, CutInv(cut), Blocks(cut),
           GivenUpNoted(cut), Accounted(cut),
           NEW m \in MrwPdu, SettledBelow(m.target), RecvMrw(m), UNCHANGED txVars
    PROVE  Accounted(cut)'
<1>0. /\ rxFirst \in Nat /\ txSeq \in Nat /\ txFirst \in Nat /\ TxW \in Nat /\ RxW \in Nat
      /\ TxUsed = txSeq - txFirst /\ TxUsed \in 0..(TxW - 1) /\ txFirst <= rxFirst
      /\ m.target \in Nat /\ UNCHANGED <<txSeq, givenUp>> /\ Cut(cut) /\ BufferInPlace
      /\ m.target <= txSeq
  BY WindowArithmetic, WindowAssumption
     DEF IInv, TxUsed, WindowsTogether, MrwPdu, txVars, windowVars, sduVars, CutInv, RxSound,
         SettledBelow
<1>1. CASE UNCHANGED <<rxFirst, rBuf, delivered>>
  <2>1. txSeq..(txSeq' - 1) = {} /\ txSeq' \in Nat /\ txSeq <= txSeq' /\ givenUp \subseteq givenUp'
    BY <1>0
  <2>2. Extends(cut, cut)
    BY <2>1 DEF Extends
  <2> QED
    BY <1>0, <1>1, <2>1, <2>2, AccountedStays
<1>2. CASE /\ m.target > rxFirst /\ rxFirst' = m.target
           /\ rBuf' = ShiftedPdus(m.target - rxFirst) /\ UNCHANGED delivered
  <2>1. ASSUME NEW j \in Nat, Holds(j)', ~(j < m.target)
        PROVE  Holds(j)
    <3>1. PICK i \in RxSlots : i = j - rxFirst' /\ rBuf'[i] # NoPdu
      BY <1>0, <1>2, <2>1 DEF Holds
    <3>2. PICK pos \in Nat : pos = m.target - rxFirst
      BY <1>0, <1>2
    <3>3. i + pos < RxW /\ rBuf[i + pos] # NoPdu
      BY <1>2, <3>1, <3>2 DEF ShiftedPdus
    <3>4. i + pos \in RxSlots /\ i + pos = j - rxFirst
      BY <1>0, <1>2, <3>1, <3>2, <3>3 DEF RxSlots
    <3> QED
      BY <3>3, <3>4 DEF Holds
  <2> SUFFICES ASSUME NEW sn \in 0..(txSeq - 1), cut[sn].sdu \notin givenUp,
                      ~IsPassedUp(cut[sn].sdu)
               PROVE  \E j \in cut[sn].first..cut[sn].last : ~Holds(j)'
    BY <1>0, <1>2 DEF Accounted, IsPassedUp
  <2>2. PICK j \in cut[sn].first..cut[sn].last : ~Holds(j)
    BY DEF Accounted
  <2>3. cut[j] = cut[sn] /\ j \in Nat
    <3>1. cut[sn] \in [sdu : Nat, first : Nat, last : Nat]
      BY <1>0 DEF Cut
    <3> QED
      BY <3>1 DEF Blocks
  <2>4. ~(j < m.target)
    <3> SUFFICES ASSUME j < m.target PROVE FALSE
      OBVIOUS
    <3>1. PICK i : i = j - txFirst
      OBVIOUS
    <3>2. ~(j < rxFirst)
      BY <2>2 DEF Holds
    <3>3. i \in TxSlots /\ InWindow(i) /\ txFirst + i = j
      BY <1>0, <2>3, <3>1, <3>2 DEF TxSlots, InWindow
    <3>4. tReceived[i] \/ tDiscarded[i]
      BY <3>3 DEF SettledBelow, IsSettled
    <3>5. ~tReceived[i]
      BY <2>2, <3>3 DEF ReceivedIsHeld
    <3>6. cut[j].sdu \in givenUp
      BY <3>3, <3>4, <3>5 DEF GivenUpNoted
    <3> QED
      BY <2>3, <3>6
  <2> QED
    BY <2>1, <2>2, <2>3, <2>4
<1>3. \/ UNCHANGED <<rxFirst, rBuf, delivered>>
      \/ /\ m.target > rxFirst /\ rxFirst' = m.target
         /\ rBuf' = ShiftedPdus(m.target - rxFirst) /\ UNCHANGED delivered
  <2>1. PICK pos : pos = m.target - rxFirst
    OBVIOUS
  <2>2. \/ UNCHANGED <<rxFirst, rBuf, delivered>>
        \/ /\ rxFirst' = rxFirst + (IF pos > 0 THEN pos ELSE 0) /\ UNCHANGED delivered
           /\ IF pos <= 0 THEN UNCHANGED rBuf ELSE rBuf' = ShiftedPdus(pos)
    BY <2>1 DEF RecvMrw, RxThrow, bufferVars
  <2>3. pos <= 0 => rxFirst + (IF pos > 0 THEN pos ELSE 0) = rxFirst
    BY <1>0, <2>1
  <2>4. ~(pos <= 0) => m.target > rxFirst /\ rxFirst + (IF pos > 0 THEN pos ELSE 0) = m.target
    BY <1>0, <2>1
  <2> QED
    BY <2>1, <2>2, <2>3, <2>4
<1> QED
  BY <1>1, <1>2, <1>3

\* In every step an SDU is given up, passed up, or lacks a PDU at the receiver.
LEMMA NextAccounted ==
    ASSUME IInv, OnceInv, TruthInv, AllFlagged(rBuf, rReceived),
           NEW cut, WholeCut(cut), Pairs(cut), GivenUpNoted(cut), Accounted(cut),
           NEW c, Extends(cut, c), [Next]_vars
    PROVE  Accounted(c)'
<1>0. /\ TypeOK /\ txSeq \in Nat /\ BufferInPlace /\ RxSound /\ ReceivedIsHeld
      /\ CutInv(cut) /\ Cut(cut) /\ Blocks(cut) /\ StartKept(cut)
  BY DEF IInv, TypeOK, TxTypeOK, OnceInv, TruthInv, AckSound, WholeCut, CutInv
<1>1. ASSUME UNCHANGED <<rxFirst, rBuf, delivered>>, givenUp \subseteq givenUp',
             txSeq' \in Nat, txSeq <= txSeq'
      PROVE  Accounted(c)'
  BY <1>0, <1>1, AccountedStays
<1>2. ASSUME UNCHANGED <<rxFirst, rBuf, delivered, givenUp, txSeq>> PROVE Accounted(c)'
  BY <1>0, <1>1, <1>2
<1>3. ASSUME NEW p \in Procs, DeliverPdu(p) PROVE Accounted(c)'
  <2>1. UNCHANGED txVars /\ UNCHANGED txSeq /\ air[p] # NoPdu
    BY <1>3 DEF DeliverPdu, txVars, windowVars
  <2>2. CASE air[p].type = "DATA" /\ RecvData(air[p])
    <3>1. air[p] \in DataPdu
      BY <1>0, <2>1, <2>2, PduUnderWay
    <3>2. air[p] \in Fragments
      BY <2>1, <3>1 DEF Fragments
    <3>3. PICK S : delivered \in Seq(S)
      BY DEF OnceInv
    <3>4. Accounted(cut)'
      BY <1>0, <2>1, <2>2, <3>1, <3>2, <3>3, RecvDataAccounted
    <3> QED
      BY <2>1, <3>4, SameAccounted
  <2>3. CASE air[p].type = "MRW" /\ RecvMrw(air[p])
    <3>1. air[p] \in MrwPdu /\ SettledBelow(air[p].target)
      BY <1>0, <2>1, <2>3, PduUnderWay DEF IInv, PdusAgree, AirAgree, GoodPdu
    <3>2. Accounted(cut)'
      BY <1>0, <2>1, <2>3, <3>1, RecvMrwAccounted
    <3> QED
      BY <2>1, <3>2, SameAccounted
  <2> QED
    BY <1>3, <2>2, <2>3 DEF DeliverPdu
<1>4. ASSUME NEW n \in SduFrags, AtTx(Enque(n)) PROVE Accounted(c)'
  <2>1. n \in Nat
    BY ParameterAssumption
  <2>2. UNCHANGED rxVars /\ UNCHANGED givenUp /\ (txSeq' = txSeq \/ txSeq' = txSeq + n)
    BY <1>4 DEF AtTx, Enque, TxThrow, windowVars, sduVars
  <2>3. txSeq' \in Nat /\ txSeq <= txSeq'
    BY <1>0, <2>1, <2>2
  <2> QED
    BY <1>1, <2>2, <2>3 DEF rxVars, bufferVars
<1>5. ASSUME NEW sn \in pduTimer, AtTx(PduTimer(sn)) PROVE Accounted(c)'
  <2>1. UNCHANGED rxVars /\ UNCHANGED txSeq /\ givenUp \subseteq givenUp'
    BY <1>5 DEF AtTx, PduTimer, Discard, Retransmit, TxThrow, windowVars, sduVars
  <2> QED
    BY <1>0, <1>1, <2>1 DEF rxVars, bufferVars
<1>6. CASE \/ \E serial \in mrwTimer : AtTx(MrwTimer(serial))
           \/ AtTx(BufferStatusTimer)
           \/ \E p \in Procs : SendPdu(p) \/ Lose(p)
           \/ UNCHANGED vars
  <2>1. UNCHANGED rxVars /\ UNCHANGED <<txSeq, givenUp>>
    BY <1>6 DEF AtTx, MrwTimer, BufferStatusTimer, TxThrow, SendPdu, Lose, vars, txVars,
                windowVars, sduVars
  <2> QED
    BY <1>2, <2>1 DEF rxVars, bufferVars
<1>7. ASSUME NEW p \in CtlProcs, LoseCtl(p) \/ DeliverCtl(p) PROVE Accounted(c)'
  <2>1. UNCHANGED rxVars /\ UNCHANGED <<txSeq, givenUp>>
    BY <1>7 DEF LoseCtl, DeliverCtl, RecvAck, RecvMrwAck, TxThrow, txVars, windowVars,
                sduVars
  <2> QED
    BY <1>2, <2>1 DEF rxVars, bufferVars
<1>8. CASE \/ AtRx(StatusTimer) \/ AtRx(AckInterval)
           \/ \E p \in CtlProcs : SendCtl(p)
  <2>1. UNCHANGED <<rxFirst, rBuf, delivered, givenUp, txSeq>>
    BY <1>8 DEF AtRx, StatusTimer, AckInterval, SendCtl, txVars, windowVars, sduVars,
                bufferVars
  <2> QED
    BY <1>2, <2>1
<1> QED
  BY <1>3, <1>4, <1>5, <1>6, <1>7, <1>8 DEF Next

\* A cut that also says what became of every SDU.
LossCut(cut) ==
    WholeCut(cut) /\ Pairs(cut) /\ Numbered(cut) /\ GivenUpNoted(cut) /\ Accounted(cut)

\* NoSilentLoss with what makes it inductive.
LossInv ==
    /\ AllFlagged(rBuf, rReceived) /\ TxInPlace /\ DeliveredWell
    /\ \E cut : LossCut(cut)

\* At the start no SDU was taken from above.
LEMMA InitLoss == Init => LossInv
<1> SUFFICES ASSUME Init PROVE LossInv
  OBVIOUS
<1>1. /\ txSeq = 0 /\ txFirst = 0 /\ nextSdu = 0
      /\ \A i \in RxSlots : rBuf[i] = NoPdu
  BY DEF Init, TxInit, RxInit
<1>2. TxInPlace /\ DeliveredWell
  BY InitWhole DEF WholeInv
<1>3. PICK cut : WholeCut(cut)
  BY InitWhole DEF WholeInv
<1>4. 0..(txSeq - 1) = {} /\ 0..(nextSdu - 1) = {}
  BY <1>1
<1>5. \A i \in TxSlots : ~InWindow(i)
  BY <1>1, WindowAssumption DEF InWindow, TxUsed, TxSlots
<1>6. Pairs(cut) /\ Numbered(cut) /\ GivenUpNoted(cut) /\ Accounted(cut)
  BY <1>4, <1>5 DEF Pairs, Numbered, GivenUpNoted, Accounted
<1>7. AllFlagged(rBuf, rReceived)
  BY <1>1 DEF AllFlagged
<1> QED
  BY <1>2, <1>3, <1>6, <1>7 DEF LossInv, LossCut

\* In every step: the cut that explains the step also says what became of every SDU.
LEMMA NextLoss ==
    ASSUME RxW >= 2 * (TxW - 1), SduFrags \subseteq {1, 2},
           IInv, OnceInv, TruthInv, LossInv, [Next]_vars
    PROVE  LossInv'
<1>1. AllFlagged(rBuf, rReceived) /\ TxInPlace /\ DeliveredWell
  BY DEF LossInv
<1>2. PICK cut : LossCut(cut)
  BY DEF LossInv
<1>3. /\ WholeCut(cut) /\ CutInv(cut) /\ Blocks(cut) /\ TxSound
      /\ Pairs(cut) /\ Numbered(cut) /\ GivenUpNoted(cut) /\ Accounted(cut)
  BY <1>2 DEF LossCut, WholeCut, TruthInv
<1>4. TxInPlace' /\ DeliveredWell' /\ \E c : WholeCut(c)' /\ Extends(cut, c)
  BY <1>1, <1>3, NextWholeCut
<1>5. PICK c : WholeCut(c)' /\ Extends(cut, c)
  BY <1>4
<1>6. Pairs(c)' /\ Numbered(c)'
  BY <1>3, <1>5, NextCut
<1>7. GivenUpNoted(c)'
  BY <1>1, <1>3, <1>5, NextNoted
<1>8. Accounted(c)'
  BY <1>1, <1>3, <1>5, NextAccounted
<1>9. AllFlagged(rBuf, rReceived)'
  BY <1>1, NextFlagged
<1> QED
  BY <1>4, <1>5, <1>6, <1>7, <1>8, <1>9 DEF LossInv, LossCut

\* An SDU of which no PDU is left in the transmitter's window has all its PDUs at the
\* receiver, or settled by an MRW; so it is passed up or given up.
LEMMA NoneIsLost ==
    ASSUME IInv, TruthInv, LossInv
    PROVE  NoSilentLoss
<1>1. TxInPlace /\ WindowFilled
  BY DEF LossInv, TruthInv, TxSound
<1>2. PICK cut : LossCut(cut)
  BY DEF LossInv
<1>3. CutInv(cut) /\ Cut(cut) /\ Blocks(cut) /\ Numbered(cut) /\ Accounted(cut)
  BY <1>2 DEF LossCut, WholeCut, CutInv
<1>4. /\ txFirst \in Nat /\ txSeq \in Nat /\ rxFirst \in Nat /\ txFirst <= rxFirst
      /\ TxUsed = txSeq - txFirst /\ TxUsed \in 0..(TxW - 1)
      /\ TxW \in Nat /\ TxSlots = 0..(TxW - 1)
  BY WindowArithmetic, WindowAssumption DEF IInv, WindowsTogether, TxUsed, TxSlots
<1>5. ASSUME NEW s \in 0..(nextSdu - 1), s \notin dropped \cup givenUp, ~Outstanding(s)
      PROVE  IsPassedUp(s)
  <2>1. PICK sn \in 0..(txSeq - 1) : cut[sn].sdu = s
    BY <1>3, <1>5 DEF Numbered
  <2>2. /\ cut[sn].first \in Nat /\ cut[sn].last \in Nat /\ cut[sn].last < txSeq
    BY <1>3, <2>1 DEF Cut
  <2>3. ASSUME NEW j \in cut[sn].first..cut[sn].last PROVE Holds(j)
    <3>1. j \in Nat /\ j < txSeq
      BY <1>4, <2>2
    <3>2. cut[j].sdu = s
      BY <1>3, <2>1 DEF Blocks
    <3>3. ASSUME ~(j < txFirst) PROVE FALSE
      <4>1. PICK i \in TxSlots : i = j - txFirst
        BY <1>4, <3>1, <3>3
      <4>2. InWindow(i) /\ txFirst + i = j
        BY <1>4, <3>1, <4>1 DEF InWindow
      <4>3. rtx[i] # NoPdu /\ rtx[i].sdu = s
        BY <1>1, <1>3, <3>2, <4>2, SlotSdu
      <4> QED
        BY <1>5, <4>3 DEF Outstanding
    <3>4. j < rxFirst
      BY <1>4, <3>1, <3>3
    <3> QED
      BY <3>4 DEF Holds
  <2> QED
    BY <1>3, <1>5, <2>1, <2>3 DEF Accounted
<1> QED
  BY <1>5 DEF NoSilentLoss, IsPassedUp

\* Reliability of acknowledged mode, where it holds: for SDUs of one or two PDUs and a
\* receiver window that holds twice what may be outstanding, an SDU of which no PDU is
\* left in the transmitter's window is passed up, or the transmitter knows that it is
\* not.  (checkCompleteSdu may miss an SDU of three PDUs; the run am_threefragments
\* shows one.)
THEOREM NoSduLostInSilence ==
    ASSUME RxW >= 2 * (TxW - 1), SduFrags \subseteq {1, 2}
    PROVE  Spec => []NoSilentLoss
<1>1. IInv /\ OnceInv /\ [Next]_vars => OnceInv'
  BY NextOnce
<1>2. IInv /\ OnceInv /\ TruthInv /\ LossInv /\ [Next]_vars => LossInv'
  BY NextLoss
<1>3. Spec => []OnceInv
  BY <1>1, InitOnce, Invariance, PTL DEF Spec
<1>4. IInv /\ TruthInv /\ LossInv => NoSilentLoss
  BY NoneIsLost
<1> QED
  BY <1>2, <1>3, <1>4, InitLoss, Invariance, Truth, PTL DEF Spec
=============================================================================
