---------------------------- MODULE HarqDlProofs ----------------------------
(***************************************************************************)
(* Proofs about HarqDl for every number of processes, transmissions, slots *)
(* and PDUs.  The inductive invariant says, process by process, that the   *)
(* two ends agree; that no handler throws follows from it, and so does     *)
(* that HarqDl implements HarqService.                                     *)
(***************************************************************************)
EXTENDS HarqDl, FiniteSetTheorems, TLAPS

\* A selected unit waits for the flush of this very slot.
SelectedNow(a) ==
    tx[a].status = "SELECTED" => enbStep = "flush" /\ selectedAcid = a

ProcInv(a) ==
    /\ OneCopy(a)
    /\ InStep(a)
    /\ Owned(a)
    /\ DeliveredIfAcked(a)
    /\ SelectedNow(a)

IInv ==
    /\ TypeOK
    /\ \A a \in Acids : ProcInv(a)
    /\ LiveIsOwned

-----------------------------------------------------------------------------
(* Helpers. *)

LEMMA Constants ==
    /\ NumProcs \in Nat /\ MaxRtx \in Nat /\ FbTimer \in Nat /\ NumPdus \in Nat
    /\ HARQ_NONE \notin Acids
    /\ NoPdu \notin Pdus
    /\ Acids \in SUBSET Nat
    /\ FbTimer >= 1
BY HarqAssumption DEF Acids, Pdus, HARQ_NONE

LEMMA EmptyTypes == EmptyTx \in TxUnit /\ EmptyRx \in RxUnit
BY Constants DEF EmptyTx, EmptyRx, TxUnit, RxUnit

\* A step leaves the invariant of a process alone when it changes nothing the
\* process and its PDU are part of.
LEMMA Untouched ==
    ASSUME NEW b \in Acids, ProcInv(b),
           tx'[b] = tx[b], rx'[b] = rx[b], FramesOf(b)' = FramesOf(b),
           tx[b].status # "EMPTY" =>
               /\ fate'[tx[b].pdu] = fate[tx[b].pdu]
               /\ deliveries'[tx[b].pdu] = deliveries[tx[b].pdu]
               /\ \A c \in Acids : tx'[c].pdu = tx[b].pdu => c = b,
           SelectedNow(b)'
    PROVE  ProcInv(b)'
<1>1. OneCopy(b)'
  BY DEF ProcInv, OneCopy, Evaluating
<1>2. InStep(b)'
  BY DEF ProcInv, InStep, RxAfterNacks, Evaluating
<1>3. Owned(b)'
  BY DEF ProcInv, Owned
<1>4. DeliveredIfAcked(b)'
  <2>1. AckSent(b)' <=> AckSent(b)
    BY DEF AckSent
  <2> QED
    BY <2>1 DEF ProcInv, DeliveredIfAcked
<1> QED
  BY <1>1, <1>2, <1>3, <1>4 DEF ProcInv

-----------------------------------------------------------------------------
(* The eNB main loop. *)

LEMMA InitIInv == Init => IInv
<1> SUFFICES ASSUME Init PROVE IInv
  OBVIOUS
<1>1. TypeOK
  <2>1. tx \in [Acids -> TxUnit] /\ rx \in [Acids -> RxUnit]
    BY EmptyTypes DEF Init
  <2> QED
    BY <2>1 DEF Init, TypeOK
<1>2. ASSUME NEW a \in Acids PROVE ProcInv(a)
  <2>1. FramesOf(a) = {} /\ tx[a] = EmptyTx /\ rx[a] = EmptyRx
    BY DEF Init, FramesOf
  <2> QED
    BY <2>1 DEF ProcInv, OneCopy, InStep, RxAfterNacks, Owned, DeliveredIfAcked,
                SelectedNow, Evaluating, EmptyTx, EmptyRx
<1>3. LiveIsOwned
  BY DEF Init, LiveIsOwned
<1> QED
  BY <1>1, <1>2, <1>3 DEF IInv

LEMMA RetransmitIInv ==
    ASSUME IInv, NEW a \in Acids, Retransmit(a)
    PROVE  IInv'
<1>1. tx[a].status = "BUFFERED" /\ needRtx # 0
  BY DEF Retransmit, MayServe, Candidates, Ready
<1>2. /\ tx' = [tx EXCEPT ![a] = [tx[a] EXCEPT !.status = "SELECTED"]]
      /\ tx'[a] = [tx[a] EXCEPT !.status = "SELECTED"]
      /\ \A b \in Acids : b # a => tx'[b] = tx[b]
      /\ \A b \in Acids : tx'[b].pdu = tx[b].pdu
  BY DEF Retransmit, IInv, TypeOK, TxUnit
<1>3. \A b \in Acids : FramesOf(b)' = FramesOf(b)
  BY DEF Retransmit, FramesOf
<1>4. TypeOK'
  <2>1. tx'[a] \in TxUnit
    BY <1>2 DEF IInv, TypeOK, TxUnit
  <2>2. needRtx' \in Nat
    BY <1>1 DEF IInv, TypeOK, Retransmit
  <2> QED
    BY <1>2, <2>1, <2>2 DEF IInv, TypeOK, Retransmit, ghostVars
<1>5. ASSUME NEW b \in Acids PROVE ProcInv(b)'
  <2>1. CASE b = a
    <3>1. ProcInv(a)
      BY DEF IInv
    <3>2. tx'[a].status = "SELECTED" /\ tx'[a].pdu = tx[a].pdu
          /\ tx'[a].transmissions = tx[a].transmissions
      BY <1>2 DEF IInv, TypeOK, TxUnit
    <3>3. rx' = rx /\ fate' = fate /\ deliveries' = deliveries
          /\ enbStep' = "flush" /\ selectedAcid' = a
      BY DEF Retransmit, ghostVars
    <3>4. OneCopy(a)' /\ SelectedNow(a)'
      BY <1>1, <1>3, <3>1, <3>2, <3>3
         DEF ProcInv, OneCopy, Evaluating, SelectedNow
    <3>5. InStep(a)'
      BY <1>1, <1>3, <3>1, <3>2, <3>3 DEF ProcInv, InStep, RxAfterNacks
    <3>6. Owned(a)'
      BY <1>1, <1>2, <3>1, <3>2, <3>3 DEF ProcInv, Owned
    <3>7. DeliveredIfAcked(a)'
      <4>1. AckSent(a)' <=> AckSent(a)
        BY <1>3 DEF AckSent
      <4> QED
        BY <4>1, <1>1, <3>1, <3>2, <3>3 DEF ProcInv, DeliveredIfAcked
    <3> QED
      BY <2>1, <3>4, <3>5, <3>6, <3>7 DEF ProcInv
  <2>2. CASE b # a
    <3>1. SelectedNow(b)'
      BY <1>2, <2>2 DEF IInv, ProcInv, SelectedNow, Retransmit
    <3>2. ProcInv(b) /\ Owned(b)
      BY DEF IInv, ProcInv
    <3>3. rx' = rx /\ fate' = fate /\ deliveries' = deliveries
      BY DEF Retransmit, ghostVars
    <3> QED
      BY <1>2, <1>3, <2>2, <3>1, <3>2, <3>3, Untouched DEF Owned
  <2> QED
    BY <2>1, <2>2
<1>6. LiveIsOwned'
  BY <1>2 DEF IInv, LiveIsOwned, Retransmit, ghostVars
<1> QED
  BY <1>4, <1>5, <1>6 DEF IInv

LEMMA SendNewIInv ==
    ASSUME IInv, NEW p \in Pdus, NEW a \in Acids, SendNew(p, a)
    PROVE  IInv'
<1> DEFINE u == [status |-> "SELECTED", transmissions |-> 0, pdu |-> p]
<1>1. tx[a].status = "EMPTY" /\ enbStep = "main"
  BY DEF SendNew, Free
<1>2. /\ tx' = [tx EXCEPT ![a] = u]
      /\ tx'[a] = u
      /\ \A b \in Acids : b # a => tx'[b] = tx[b]
  BY DEF SendNew, IInv, TypeOK
<1>3. \A b \in Acids : FramesOf(b)' = FramesOf(b)
  BY DEF SendNew, FramesOf
<1>4. rx' = rx /\ air' = air /\ needRtx' = needRtx /\ selectedAcid' = a
      /\ enbStep' = "flush" /\ ueDone' = ueDone
  BY DEF SendNew
<1>5. /\ fate' = [fate EXCEPT ![p] = "live"]
      /\ deliveries' = [deliveries EXCEPT ![p] = 0]
      /\ fate'[p] = "live" /\ deliveries'[p] = 0
      /\ \A q \in Pdus : q # p => fate'[q] = fate[q]
                                  /\ deliveries'[q] = deliveries[q]
  BY DEF SendNew, IInv, TypeOK
<1>6. \A b \in Acids : tx[b].pdu # p
  BY DEF SendNew, Fresh, Held
<1>7. TypeOK'
  <2>1. u \in TxUnit
    BY Constants DEF TxUnit
  <2> QED
    BY <1>2, <1>4, <1>5, <2>1 DEF IInv, TypeOK
<1>8. ASSUME NEW b \in Acids PROVE ProcInv(b)'
  <2>1. CASE b = a
    <3>1. OneCopy(a) /\ InStep(a)
      BY DEF IInv, ProcInv
    <3>2. ~Evaluating(a) /\ FramesOf(a) = {} /\ RxAfterNacks(a, 0)
      BY <1>1, <3>1 DEF OneCopy, InStep
    <3>3. OneCopy(a)'
      BY <1>2, <1>3, <1>4, <3>2 DEF OneCopy, Evaluating
    <3>4. InStep(a)'
      BY <1>2, <1>4, <3>2, Constants DEF InStep, RxAfterNacks
    <3>5. Owned(a)'
      BY <1>2, <1>5, <1>6 DEF Owned
    <3>6. DeliveredIfAcked(a)'
      BY <1>2, <1>3, <1>5, <3>2 DEF DeliveredIfAcked, AckSent
    <3>7. SelectedNow(a)'
      BY <1>4 DEF SelectedNow
    <3> QED
      BY <2>1, <3>3, <3>4, <3>5, <3>6, <3>7 DEF ProcInv
  <2>2. CASE b # a
    <3>1. ProcInv(b) /\ Owned(b) /\ SelectedNow(b)
      BY DEF IInv, ProcInv
    <3>2. SelectedNow(b)'
      BY <1>1, <1>2, <2>2, <3>1 DEF SelectedNow
    <3>3. tx[b].status # "EMPTY" =>
            /\ fate'[tx[b].pdu] = fate[tx[b].pdu]
            /\ deliveries'[tx[b].pdu] = deliveries[tx[b].pdu]
            /\ \A c \in Acids : tx'[c].pdu = tx[b].pdu => c = b
      BY <1>2, <1>5, <1>6, <3>1 DEF Owned
    <3> QED
      BY <1>2, <1>3, <1>4, <2>2, <3>1, <3>2, <3>3, Untouched
  <2> QED
    BY <2>1, <2>2
<1>9. LiveIsOwned'
  <2> SUFFICES ASSUME NEW q \in Pdus, fate'[q] = "live"
               PROVE  \E b \in Acids : tx'[b].pdu = q
    BY DEF LiveIsOwned
  <2>1. CASE q = p
    BY <1>2, <2>1
  <2>2. CASE q # p
    <3>1. PICK b \in Acids : tx[b].pdu = q
      BY <1>5, <2>2 DEF IInv, LiveIsOwned
    <3>2. b # a
      <4>1. tx[a].pdu = NoPdu
        BY <1>1 DEF IInv, ProcInv, Owned
      <4> QED
        BY <4>1, <3>1, Constants
    <3> QED
      BY <1>2, <3>1, <3>2
  <2> QED
    BY <2>1, <2>2
<1> QED
  BY <1>7, <1>8, <1>9 DEF IInv

LEMMA DeleteNewIInv ==
    ASSUME IInv, NEW p \in Pdus, DeleteNew(p)
    PROVE  IInv'
<1>1. tx' = tx /\ rx' = rx /\ air' = air /\ needRtx' = needRtx
      /\ selectedAcid' = selectedAcid /\ enbStep = "main"
      /\ enbStep' = "flush" /\ ueDone' = ueDone
  BY DEF DeleteNew, txVars
<1>2. /\ fate' = [fate EXCEPT ![p] = "deleted"]
      /\ deliveries' = [deliveries EXCEPT ![p] = 0]
      /\ fate'[p] = "deleted"
      /\ \A q \in Pdus : q # p => fate'[q] = fate[q]
                                  /\ deliveries'[q] = deliveries[q]
  BY DEF DeleteNew, IInv, TypeOK
<1>3. \A b \in Acids : tx[b].pdu # p
  BY DEF DeleteNew, Fresh, Held
<1>4. TypeOK'
  BY <1>1, <1>2 DEF IInv, TypeOK
<1>5. ASSUME NEW b \in Acids PROVE ProcInv(b)'
  <2>1. ProcInv(b) /\ Owned(b) /\ SelectedNow(b)
    BY DEF IInv, ProcInv
  <2>2. SelectedNow(b)'
    BY <1>1, <2>1 DEF SelectedNow
  <2>3. FramesOf(b)' = FramesOf(b)
    BY <1>1 DEF FramesOf
  <2>4. tx[b].status # "EMPTY" =>
          /\ fate'[tx[b].pdu] = fate[tx[b].pdu]
          /\ deliveries'[tx[b].pdu] = deliveries[tx[b].pdu]
          /\ \A c \in Acids : tx'[c].pdu = tx[b].pdu => c = b
    BY <1>1, <1>2, <1>3, <2>1 DEF Owned
  <2> QED
    BY <1>1, <2>1, <2>2, <2>3, <2>4, Untouched
<1>6. LiveIsOwned'
  BY <1>1, <1>2 DEF IInv, LiveIsOwned
<1> QED
  BY <1>4, <1>5, <1>6 DEF IInv

LEMMA SendNothingIInv ==
    ASSUME IInv, SendNothing
    PROVE  IInv'
<1>1. tx' = tx /\ rx' = rx /\ air' = air /\ needRtx' = needRtx
      /\ selectedAcid' = selectedAcid /\ enbStep = "main"
      /\ enbStep' = "flush" /\ ueDone' = ueDone
      /\ fate' = fate /\ deliveries' = deliveries
  BY DEF SendNothing, txVars, ghostVars
<1>2. TypeOK'
  BY <1>1 DEF IInv, TypeOK
<1>3. ASSUME NEW b \in Acids PROVE ProcInv(b)'
  <2>1. ProcInv(b) /\ Owned(b) /\ SelectedNow(b)
    BY DEF IInv, ProcInv
  <2>2. SelectedNow(b)'
    BY <1>1, <2>1 DEF SelectedNow
  <2>3. FramesOf(b)' = FramesOf(b)
    BY <1>1 DEF FramesOf
  <2> QED
    BY <1>1, <2>1, <2>2, <2>3, Untouched DEF Owned
<1>4. LiveIsOwned'
  BY <1>1 DEF IInv, LiveIsOwned
<1> QED
  BY <1>2, <1>3, <1>4 DEF IInv

LEMMA FlushIInv ==
    ASSUME IInv, FlushHarqBuffers
    PROVE  IInv'
<1>1. rx' = rx /\ needRtx' = needRtx /\ selectedAcid' = HARQ_NONE
      /\ enbStep = "flush" /\ enbStep' = "done" /\ ueDone' = ueDone
      /\ fate' = fate /\ deliveries' = deliveries
  BY DEF FlushHarqBuffers, ghostVars
<1>2. CASE ~(selectedAcid # HARQ_NONE
              /\ tx[selectedAcid].status = "SELECTED")
  <2>1. tx' = tx /\ air' = air
    BY <1>2 DEF FlushHarqBuffers
  <2>2. TypeOK'
    BY <1>1, <2>1 DEF IInv, TypeOK
  <2>3. ASSUME NEW b \in Acids PROVE ProcInv(b)'
    <3>1. ProcInv(b) /\ Owned(b) /\ SelectedNow(b)
      BY DEF IInv, ProcInv
    <3>2. tx[b].status # "SELECTED"
      BY <1>2, <3>1, Constants DEF SelectedNow
    <3>3. SelectedNow(b)'
      BY <2>1, <3>2 DEF SelectedNow
    <3>4. FramesOf(b)' = FramesOf(b)
      BY <2>1 DEF FramesOf
    <3> QED
      BY <1>1, <2>1, <3>1, <3>3, <3>4, Untouched DEF Owned
  <2>4. LiveIsOwned'
    BY <1>1, <2>1 DEF IInv, LiveIsOwned
  <2> QED
    BY <2>2, <2>3, <2>4 DEF IInv
<1>3. CASE selectedAcid # HARQ_NONE /\ tx[selectedAcid].status = "SELECTED"
  <2>0. PICK a \in Acids : a = selectedAcid /\ tx[a].status = "SELECTED"
    BY <1>3 DEF IInv, TypeOK
  <2> DEFINE n == tx[a].transmissions
             q == tx[a].pdu
             fr == DataFrame(a, q, n + 1 = 1)
  <2>1. tx[a] \in TxUnit
    BY DEF IInv, TypeOK
  <2>2. ProcInv(a) /\ InStep(a) /\ Owned(a) /\ OneCopy(a)
    BY <2>1 DEF IInv, ProcInv
  <2>3. n \in Nat /\ n <= MaxRtx /\ RxAfterNacks(a, n) /\ q \in Pdus
        /\ ~Evaluating(a) /\ FramesOf(a) = {}
    BY <2>0, <2>1, <2>2, Constants DEF InStep, Owned, OneCopy, TxUnit
  <2>4. /\ tx' = [tx EXCEPT ![a] = Extracted(tx[a])]
        /\ air' = air \cup {DataFrame(a, Extracted(tx[a]).pdu,
                                      Extracted(tx[a]).transmissions = 1)}
    BY <1>3, <2>0 DEF FlushHarqBuffers
  <2>5. Extracted(tx[a]) = [status |-> "WAITING", transmissions |-> n + 1,
                            pdu |-> q]
    BY DEF Extracted
  <2>6. /\ tx'[a] = [status |-> "WAITING", transmissions |-> n + 1, pdu |-> q]
        /\ \A b \in Acids : b # a => tx'[b] = tx[b]
        /\ air' = air \cup {fr}
    BY <2>1, <2>4, <2>5 DEF IInv, TypeOK
  <2>7. \A b \in Acids : tx'[b].pdu = tx[b].pdu
    BY <2>6
  <2>8. fr.acid = a /\ fr.type = "DATA" /\ fr.pdu = q /\ fr.flag = (n + 1 = 1)
    BY DEF DataFrame
  <2>9. /\ FramesOf(a)' = {fr}
        /\ \A b \in Acids : b # a => FramesOf(b)' = FramesOf(b)
    BY <2>3, <2>6, <2>8 DEF FramesOf
  <2>10. TypeOK'
    <3>1. Extracted(tx[a]) \in TxUnit
      BY <2>3, <2>5, Constants DEF TxUnit
    <3>2. fr \in Frame
      BY <2>1, <2>3 DEF DataFrame, Frame
    <3>3. selectedAcid' \in Acids \cup {HARQ_NONE}
      BY <1>1
    <3> QED
      BY <1>1, <2>4, <2>6, <3>1, <3>2, <3>3 DEF IInv, TypeOK
  <2>11. ASSUME NEW b \in Acids PROVE ProcInv(b)'
    <3>1. CASE b = a
      <4>1. OneCopy(a)'
        BY <1>1, <2>3, <2>6, <2>8, <2>9 DEF OneCopy, Evaluating
      <4>2. InStep(a)'
        BY <1>1, <2>3, <2>6, <2>8, <2>9, Constants
           DEF InStep, Evaluating, RxAfterNacks
      <4>3. Owned(a)'
        BY <1>1, <2>0, <2>2, <2>6, <2>7 DEF Owned
      <4>4. DeliveredIfAcked(a)'
        <5>1. ~AckSent(a) /\ ~AckSent(a)'
          BY <2>3, <2>8, <2>9 DEF AckSent
        <5> QED
          BY <1>1, <2>0, <2>2, <2>6, <5>1 DEF ProcInv, DeliveredIfAcked
      <4>5. SelectedNow(a)'
        BY <2>6 DEF SelectedNow
      <4> QED
        BY <3>1, <4>1, <4>2, <4>3, <4>4, <4>5 DEF ProcInv
    <3>2. CASE b # a
      <4>1. ProcInv(b) /\ Owned(b) /\ SelectedNow(b)
        BY DEF IInv, ProcInv
      <4>2. SelectedNow(b)'
        BY <2>0, <2>6, <3>2, <4>1 DEF SelectedNow
      <4> QED
        BY <1>1, <2>6, <2>7, <2>9, <3>2, <4>1, <4>2, Untouched DEF Owned
    <3> QED
      BY <3>1, <3>2
  <2>12. LiveIsOwned'
    BY <1>1, <2>7 DEF IInv, LiveIsOwned
  <2> QED
    BY <2>10, <2>11, <2>12 DEF IInv
<1> QED
  BY <1>2, <1>3

-----------------------------------------------------------------------------
(* The UE main loop. *)

\* The processes whose evaluation ends with the delivery of a PDU.
DeliveredBy(p) == {a \in Evaluated : rx[a].pdu = p /\ rx[a].result}

LEMMA DeliveredByFinite ==
    ASSUME NEW p \in Pdus
    PROVE  Cardinality(DeliveredBy(p)) \in Nat
<1>1. IsFiniteSet(Acids)
  BY Constants, FS_Interval DEF Acids
<1>2. DeliveredBy(p) \in SUBSET Acids
  BY DEF DeliveredBy, Evaluated
<1> QED
  BY <1>1, <1>2, FS_Subset, FS_CardinalityType

\* Only the process that holds a PDU at the eNB can deliver it.
LEMMA DeliveredByOwner ==
    ASSUME IInv, NEW b \in Acids, tx[b].status # "EMPTY"
    PROVE  /\ tx[b].pdu \in Pdus
           /\ DeliveredBy(tx[b].pdu) =
                IF b \in Evaluated /\ rx[b].result THEN {b} ELSE {}
<1>1. Owned(b) /\ OneCopy(b)
  BY DEF IInv, ProcInv
<1>2. ASSUME NEW a \in DeliveredBy(tx[b].pdu)
      PROVE  a = b /\ b \in Evaluated /\ rx[b].result
  <2>1. a \in Acids /\ a \in Evaluated /\ Evaluating(a)
        /\ rx[a].pdu = tx[b].pdu /\ rx[a].result
    BY DEF DeliveredBy, Evaluated, Evaluating
  <2>2. tx[a].pdu = rx[a].pdu
    BY <2>1 DEF IInv, ProcInv, OneCopy
  <2> QED
    BY <1>1, <2>1, <2>2 DEF Owned
<1>3. ASSUME b \in Evaluated, rx[b].result
      PROVE  b \in DeliveredBy(tx[b].pdu)
  <2>1. Evaluating(b)
    BY <1>3 DEF Evaluated, Evaluating
  <2> QED
    BY <1>1, <1>3, <2>1 DEF OneCopy, DeliveredBy
<1> QED
  BY <1>1, <1>2, <1>3 DEF Owned

LEMMA UeMainLoopIInv ==
    ASSUME IInv, UeMainLoop
    PROVE  IInv'
<1>1. tx' = tx /\ needRtx' = needRtx /\ selectedAcid' = selectedAcid
      /\ enbStep' = enbStep /\ ueDone' = TRUE /\ fate' = fate
  BY DEF UeMainLoop, txVars
<1>2. /\ \A b \in Acids : rx'[b] = AfterLoop(b)
      /\ air' = air \cup {Feedback(b, rx[b].pdu, rx[b].result) : b \in Evaluated}
      /\ \A p \in Pdus :
           deliveries'[p] = deliveries[p] + Cardinality(DeliveredBy(p))
  BY DEF UeMainLoop, DeliveredBy
<1>3. ASSUME NEW b \in Acids
      PROVE  FramesOf(b)' = IF b \in Evaluated
                            THEN FramesOf(b) \cup
                                   {Feedback(b, rx[b].pdu, rx[b].result)}
                            ELSE FramesOf(b)
  BY <1>2 DEF FramesOf, Feedback, Evaluated
<1>4. ASSUME NEW b \in Evaluated
      PROVE  b \in Acids /\ Evaluating(b) /\ tx[b].status = "WAITING"
             /\ rx[b].pdu = tx[b].pdu /\ FramesOf(b) = {} /\ tx[b].pdu \in Pdus
             /\ rx[b].result \in BOOLEAN
  <2>1. b \in Acids /\ Evaluating(b)
    BY DEF Evaluated, Evaluating
  <2>2. OneCopy(b) /\ Owned(b) /\ rx[b] \in RxUnit
    BY <2>1 DEF IInv, ProcInv, TypeOK
  <2> QED
    BY <2>1, <2>2 DEF OneCopy, Owned, RxUnit
<1>5. TypeOK'
  <2>1. ASSUME NEW b \in Acids PROVE AfterLoop(b) \in RxUnit
    BY EmptyTypes DEF AfterLoop, IInv, TypeOK, RxUnit
  <2>2. rx' \in [Acids -> RxUnit]
    BY <2>1 DEF UeMainLoop
  <2>3. ASSUME NEW b \in Evaluated
        PROVE  Feedback(b, rx[b].pdu, rx[b].result) \in Frame
    BY <1>4 DEF Feedback, Frame
  <2>4. air' \in SUBSET Frame
    BY <1>2, <2>3 DEF IInv, TypeOK
  <2>5. deliveries' \in [Pdus -> Nat]
    <3>1. ASSUME NEW p \in Pdus
          PROVE  deliveries[p] + Cardinality(DeliveredBy(p)) \in Nat
      BY DeliveredByFinite DEF IInv, TypeOK
    <3>2. deliveries' = [p \in Pdus |->
                           deliveries[p] + Cardinality(DeliveredBy(p))]
      BY DEF UeMainLoop, DeliveredBy
    <3> QED
      BY <3>1, <3>2
  <2> QED
    BY <1>1, <2>2, <2>4, <2>5 DEF IInv, TypeOK
<1>6. ASSUME NEW b \in Acids PROVE ProcInv(b)'
  <2>1. ProcInv(b) /\ Owned(b) /\ SelectedNow(b) /\ InStep(b) /\ OneCopy(b)
        /\ DeliveredIfAcked(b)
    BY DEF IInv, ProcInv
  <2>2. SelectedNow(b)'
    BY <1>1, <2>1 DEF SelectedNow
  <2>3. CASE b \notin Evaluated
    <3>1. rx'[b] = rx[b] /\ FramesOf(b)' = FramesOf(b)
      BY <1>2, <1>3, <2>3 DEF AfterLoop
    <3>2. ASSUME tx[b].status # "EMPTY"
          PROVE  deliveries'[tx[b].pdu] = deliveries[tx[b].pdu]
      <4>1. tx[b].pdu \in Pdus /\ Cardinality(DeliveredBy(tx[b].pdu)) = 0
        BY <2>3, <3>2, DeliveredByOwner, FS_EmptySet
      <4> QED
        BY <1>2, <4>1 DEF IInv, TypeOK
    <3> QED
      BY <1>1, <2>1, <2>2, <3>1, <3>2, Untouched DEF Owned
  <2>4. CASE b \in Evaluated
    <3> DEFINE n == tx[b].transmissions
               fb == Feedback(b, rx[b].pdu, rx[b].result)
    <3>1. fb.type = "HARQ" /\ fb.flag = rx[b].result /\ fb.pdu = tx[b].pdu
      BY <1>4, <2>4 DEF Feedback
    <3>2. FramesOf(b)' = {fb}
      BY <1>3, <1>4, <2>4
    <3>3. n \in 1..MaxRtx + 1
      BY <1>4, <2>1, <2>4, Constants DEF IInv, TypeOK, TxUnit, InStep
    <3>4. rx[b].transmissions = IF Purges THEN 1 ELSE n
      BY <1>4, <2>1, <2>4 DEF InStep
    <3>5. rx'[b].status # "EVALUATING"
          /\ (rx[b].result => rx'[b].status = "EMPTY" /\ rx'[b].transmissions = 0)
          /\ (~rx[b].result =>
                IF n > MaxRtx \/ Purges
                THEN rx'[b].status = "EMPTY" /\ rx'[b].transmissions = 0
                ELSE rx'[b].status = "CORRUPTED" /\ rx'[b].transmissions = n)
      <4>1. rx[b] \in RxUnit
        BY DEF IInv, TypeOK
      <4>2. CASE rx[b].result \/ rx[b].transmissions = MaxRtx + 1 \/ Purges
        <5>1. rx'[b] = EmptyRx
          BY <1>2, <2>4, <4>2 DEF AfterLoop
        <5> QED
          BY <5>1, <3>3, <3>4, <4>2, Constants DEF EmptyRx
      <4>3. CASE ~(rx[b].result \/ rx[b].transmissions = MaxRtx + 1 \/ Purges)
        <5>1. rx'[b] = [rx[b] EXCEPT !.status = "CORRUPTED"]
          BY <1>2, <2>4, <4>3 DEF AfterLoop
        <5> QED
          BY <5>1, <3>3, <3>4, <4>1, <4>3, Constants DEF RxUnit
      <4> QED
        BY <4>2, <4>3
    <3>6. OneCopy(b)'
      BY <1>1, <1>4, <2>4, <3>1, <3>2, <3>5 DEF OneCopy, Evaluating
    <3>7. InStep(b)'
      <4>1. RxAfterNacks(b, 0)' \/ ~rx[b].result
        BY <3>5 DEF RxAfterNacks
      <4>2. RxAfterNacks(b, n)' \/ rx[b].result
        BY <1>1, <3>3, <3>5, Constants DEF RxAfterNacks
      <4> QED
        BY <1>1, <1>4, <2>4, <3>1, <3>2, <3>3, <3>5, <4>1, <4>2
           DEF InStep, Evaluating
    <3>8. Owned(b)'
      BY <1>1, <2>1 DEF Owned
    <3>9. DeliveredIfAcked(b)'
      <4>1. deliveries[tx[b].pdu] = 0
        BY <1>4, <2>1, <2>4 DEF DeliveredIfAcked, AckSent
      <4>2. AckSent(b)' <=> rx[b].result
        BY <3>1, <3>2 DEF AckSent
      <4>3. Cardinality(DeliveredBy(tx[b].pdu)) = IF rx[b].result THEN 1 ELSE 0
        BY <1>4, <2>4, DeliveredByOwner, FS_EmptySet, FS_Singleton
      <4> QED
        BY <1>1, <1>2, <1>4, <2>4, <4>1, <4>2, <4>3 DEF DeliveredIfAcked
    <3> QED
      BY <2>2, <3>6, <3>7, <3>8, <3>9 DEF ProcInv
  <2> QED
    BY <2>3, <2>4
<1>7. LiveIsOwned'
  BY <1>1 DEF IInv, LiveIsOwned
<1> QED
  BY <1>5, <1>6, <1>7 DEF IInv

-----------------------------------------------------------------------------
(* Arrivals. *)

\* A frame is the only one of its process, and the eNB waits for the answer.
LEMMA FrameFacts ==
    ASSUME IInv, NEW f \in air
    PROVE  /\ f \in Frame /\ f.acid \in Acids
           /\ FramesOf(f.acid) = {f} /\ ~Evaluating(f.acid)
           /\ tx[f.acid].status = "WAITING" /\ tx[f.acid].pdu = f.pdu
           /\ tx[f.acid].transmissions \in 1..MaxRtx + 1
           /\ f.type = "DATA" =>
                /\ f.flag = (tx[f.acid].transmissions = 1)
                /\ RxAfterNacks(f.acid, tx[f.acid].transmissions - 1)
           /\ f.type = "HARQ" =>
                RxAfterNacks(f.acid,
                             IF f.flag THEN 0 ELSE tx[f.acid].transmissions)
<1>1. f \in Frame /\ f.acid \in Acids /\ f \in FramesOf(f.acid)
  BY DEF IInv, TypeOK, Frame, FramesOf
<1>2. OneCopy(f.acid) /\ InStep(f.acid) /\ tx[f.acid] \in TxUnit
  BY <1>1 DEF IInv, ProcInv, TypeOK
<1>3. FramesOf(f.acid) = {f} /\ ~Evaluating(f.acid)
      /\ tx[f.acid].status = "WAITING" /\ tx[f.acid].pdu = f.pdu
  BY <1>1, <1>2 DEF OneCopy
<1> QED
  BY <1>1, <1>2, <1>3, Constants DEF InStep, TxUnit

LEMMA DataArrivesIInv ==
    ASSUME IInv, NEW f \in air, NEW decoded \in BOOLEAN, DataArrives(f, decoded)
    PROVE  IInv'
<1> DEFINE a == f.acid
<1>0. a \in Acids /\ a = f.acid
  BY FrameFacts
<1>1. /\ FramesOf(a) = {f} /\ tx[a].status = "WAITING" /\ tx[a].pdu = f.pdu
      /\ tx[a].transmissions \in 1..MaxRtx + 1 /\ f.pdu \in Pdus
      /\ RxAfterNacks(a, tx[a].transmissions - 1)
  BY FrameFacts DEF DataArrives, Frame
<1>2. tx' = tx /\ needRtx' = needRtx /\ selectedAcid' = selectedAcid
      /\ enbStep' = enbStep /\ ueDone' = ueDone /\ fate' = fate
      /\ deliveries' = deliveries /\ air' = air \ {f}
  BY DEF DataArrives, txVars, slotVars, ghostVars
<1>3. /\ rx' = [rx EXCEPT ![a] =
                 [status |-> "EVALUATING", transmissions |-> rx[a].transmissions + 1,
                  pdu |-> f.pdu, result |-> decoded, age |-> 0]]
      /\ rx'[a] = [status |-> "EVALUATING",
                   transmissions |-> rx[a].transmissions + 1,
                   pdu |-> f.pdu, result |-> decoded, age |-> 0]
      /\ \A b \in Acids : b # a => rx'[b] = rx[b]
  BY <1>0 DEF DataArrives, IInv, TypeOK
<1>4. /\ FramesOf(a)' = {}
      /\ \A b \in Acids : b # a => FramesOf(b)' = FramesOf(b)
  BY <1>0, <1>1, <1>2 DEF FramesOf
<1>5. rx[a].transmissions + 1 =
        IF Purges THEN 1 ELSE tx[a].transmissions
  BY <1>0, <1>1, Constants DEF RxAfterNacks
<1>6. TypeOK'
  <2>1. rx'[a] \in RxUnit
    BY <1>1, <1>3, <1>5, Constants DEF RxUnit
  <2>2. rx' \in [Acids -> RxUnit]
    BY <1>3, <2>1 DEF IInv, TypeOK
  <2> QED
    BY <1>2, <2>2 DEF IInv, TypeOK
<1>7. ASSUME NEW b \in Acids PROVE ProcInv(b)'
  <2>1. ProcInv(b) /\ Owned(b) /\ SelectedNow(b) /\ DeliveredIfAcked(b)
    BY DEF IInv, ProcInv
  <2>2. SelectedNow(b)'
    BY <1>2, <2>1 DEF SelectedNow
  <2>3. CASE b = a
    <3>1. OneCopy(b)'
      BY <1>1, <1>2, <1>3, <1>4, <2>3 DEF OneCopy, Evaluating
    <3>2. InStep(b)'
      BY <1>1, <1>2, <1>3, <1>4, <1>5, <2>3 DEF InStep, Evaluating
    <3>3. Owned(b)'
      BY <1>2, <2>1 DEF Owned
    <3>4. DeliveredIfAcked(b)'
      <4>1. ~AckSent(b) /\ ~AckSent(b)'
        BY <1>1, <1>4, <2>3 DEF AckSent, DataArrives
      <4> QED
        BY <1>2, <2>1, <4>1 DEF DeliveredIfAcked
    <3> QED
      BY <2>2, <3>1, <3>2, <3>3, <3>4 DEF ProcInv
  <2>4. CASE b # a
    BY <1>2, <1>3, <1>4, <2>1, <2>2, <2>4, Untouched DEF Owned
  <2> QED
    BY <2>3, <2>4
<1>8. LiveIsOwned'
  BY <1>2 DEF IInv, LiveIsOwned
<1> QED
  BY <1>6, <1>7, <1>8 DEF IInv

\* The unit of a settled PDU is reset; its receiver has been already.
LEMMA SettledIInv ==
    ASSUME IInv, NEW f \in air, NEW s \in {"acked", "discarded"},
           RxAfterNacks(f.acid, 0),
           tx' = [tx EXCEPT ![f.acid] = EmptyTx],
           fate' = [fate EXCEPT ![f.pdu] = s],
           air' = air \ {f},
           UNCHANGED <<selectedAcid, needRtx, rx, slotVars, deliveries>>
    PROVE  IInv'
<1> DEFINE a == f.acid
<1>0. a \in Acids /\ a = f.acid
  BY FrameFacts
<1>1. /\ FramesOf(a) = {f} /\ tx[a].status = "WAITING" /\ tx[a].pdu = f.pdu
      /\ f.pdu \in Pdus /\ ~Evaluating(a)
  BY FrameFacts DEF Frame
<1>2. needRtx' = needRtx /\ selectedAcid' = selectedAcid /\ rx' = rx
      /\ enbStep' = enbStep /\ ueDone' = ueDone /\ deliveries' = deliveries
  BY DEF slotVars
<1>3. /\ tx'[a] = EmptyTx
      /\ \A b \in Acids : b # a => tx'[b] = tx[b]
      /\ fate'[f.pdu] = s
      /\ \A p \in Pdus : p # f.pdu => fate'[p] = fate[p]
  BY <1>0, <1>1 DEF IInv, TypeOK
<1>4. /\ FramesOf(a)' = {}
      /\ \A b \in Acids : b # a => FramesOf(b)' = FramesOf(b)
  BY <1>0, <1>1 DEF FramesOf
<1>5. TypeOK'
  BY <1>2, EmptyTypes DEF IInv, TypeOK
<1>6. ASSUME NEW b \in Acids, b # a
      PROVE  tx[b].status # "EMPTY" => tx[b].pdu # f.pdu /\ tx[b].pdu \in Pdus
  BY <1>0, <1>1, <1>6 DEF IInv, ProcInv, Owned
<1>7. ASSUME NEW b \in Acids PROVE ProcInv(b)'
  <2>1. CASE b = a
    <3>1. OneCopy(b)'
      BY <1>1, <1>2, <1>3, <1>4, <2>1 DEF OneCopy, Evaluating, EmptyTx
    <3>2. InStep(b)'
      BY <1>2, <1>3, <2>1 DEF InStep, RxAfterNacks, EmptyTx
    <3>3. Owned(b)' /\ DeliveredIfAcked(b)' /\ SelectedNow(b)'
      BY <1>3, <2>1 DEF Owned, DeliveredIfAcked, SelectedNow, EmptyTx
    <3> QED
      BY <3>1, <3>2, <3>3 DEF ProcInv
  <2>2. CASE b # a
    <3>1. ProcInv(b) /\ Owned(b) /\ SelectedNow(b)
      BY DEF IInv, ProcInv
    <3>2. SelectedNow(b)'
      BY <1>2, <1>3, <2>2, <3>1 DEF SelectedNow
    <3>3. tx[b].status # "EMPTY" =>
            \A c \in Acids : tx'[c].pdu = tx[b].pdu => c = b
      BY <1>3, <3>1, Constants DEF Owned, EmptyTx
    <3> QED
      BY <1>2, <1>3, <1>4, <1>6, <2>2, <3>1, <3>2, <3>3, Untouched
  <2> QED
    BY <2>1, <2>2
<1>8. LiveIsOwned'
  <2> SUFFICES ASSUME NEW p \in Pdus, fate'[p] = "live"
               PROVE  \E b \in Acids : tx'[b].pdu = p
    BY DEF LiveIsOwned
  <2>1. p # f.pdu /\ fate[p] = "live"
    BY <1>3
  <2>2. PICK b \in Acids : tx[b].pdu = p
    BY <2>1 DEF IInv, LiveIsOwned
  <2> QED
    BY <1>1, <1>3, <2>1, <2>2
<1> QED
  BY <1>5, <1>7, <1>8 DEF IInv

LEMMA AckArrivesIInv ==
    ASSUME IInv, NEW f \in air, AckArrives(f)
    PROVE  IInv'
<1>1. RxAfterNacks(f.acid, 0)
  BY FrameFacts DEF AckArrives
<1> QED
  BY <1>1, SettledIInv DEF AckArrives

LEMMA LastNackArrivesIInv ==
    ASSUME IInv, NEW f \in air, LastNackArrives(f)
    PROVE  IInv'
<1>1. RxAfterNacks(f.acid, MaxRtx + 1)
  BY FrameFacts DEF LastNackArrives
<1>2. RxAfterNacks(f.acid, 0)
  BY <1>1, Constants DEF RxAfterNacks
<1> QED
  BY <1>2, SettledIInv DEF LastNackArrives

LEMMA NackArrivesIInv ==
    ASSUME IInv, NEW f \in air, NackArrives(f)
    PROVE  IInv'
<1> DEFINE a == f.acid
<1>0. a \in Acids /\ a = f.acid
  BY FrameFacts
<1>1. /\ FramesOf(a) = {f} /\ tx[a].status = "WAITING" /\ tx[a].pdu = f.pdu
      /\ tx[a].transmissions \in 1..MaxRtx /\ ~Evaluating(a)
      /\ RxAfterNacks(a, tx[a].transmissions)
  BY FrameFacts, Constants DEF NackArrives
<1>2. selectedAcid' = selectedAcid /\ rx' = rx /\ needRtx' = needRtx + 1
      /\ enbStep' = enbStep /\ ueDone' = ueDone /\ fate' = fate
      /\ deliveries' = deliveries /\ air' = air \ {f}
      /\ tx' = [tx EXCEPT ![a] = [tx[a] EXCEPT !.status = "BUFFERED"]]
  BY DEF NackArrives, slotVars, ghostVars
<1>3. /\ tx'[a] = [tx[a] EXCEPT !.status = "BUFFERED"]
      /\ \A b \in Acids : b # a => tx'[b] = tx[b]
      /\ tx'[a] \in TxUnit
      /\ tx'[a].status = "BUFFERED" /\ tx'[a].pdu = tx[a].pdu
      /\ tx'[a].transmissions = tx[a].transmissions
      /\ \A b \in Acids : tx'[b].pdu = tx[b].pdu
  BY <1>0, <1>2 DEF IInv, TypeOK, TxUnit
<1>4. /\ FramesOf(a)' = {}
      /\ \A b \in Acids : b # a => FramesOf(b)' = FramesOf(b)
  BY <1>0, <1>1, <1>2 DEF FramesOf
<1>5. TypeOK'
  <2>1. tx' \in [Acids -> TxUnit]
    BY <1>2, <1>3 DEF IInv, TypeOK
  <2>2. needRtx' \in Nat
    BY <1>2 DEF IInv, TypeOK
  <2> QED
    BY <1>2, <2>1, <2>2 DEF IInv, TypeOK
<1>6. ASSUME NEW b \in Acids PROVE ProcInv(b)'
  <2>1. ProcInv(b) /\ Owned(b) /\ SelectedNow(b) /\ DeliveredIfAcked(b)
    BY DEF IInv, ProcInv
  <2>2. SelectedNow(b)'
    BY <1>2, <1>3, <2>1 DEF SelectedNow
  <2>3. CASE b = a
    <3>1. OneCopy(b)'
      BY <1>1, <1>2, <1>3, <1>4, <2>3 DEF OneCopy, Evaluating
    <3>2. InStep(b)'
      BY <1>1, <1>2, <1>3, <2>3, Constants DEF InStep, RxAfterNacks
    <3>3. Owned(b)'
      BY <1>1, <1>2, <1>3, <2>1, <2>3 DEF Owned
    <3>4. DeliveredIfAcked(b)'
      <4>1. ~AckSent(b) /\ ~AckSent(b)'
        BY <1>1, <1>4, <2>3 DEF AckSent, NackArrives
      <4> QED
        BY <1>1, <1>2, <1>3, <2>1, <2>3, <4>1 DEF DeliveredIfAcked
    <3> QED
      BY <2>2, <3>1, <3>2, <3>3, <3>4 DEF ProcInv
  <2>4. CASE b # a
    BY <1>2, <1>3, <1>4, <2>1, <2>2, <2>4, Untouched DEF Owned
  <2> QED
    BY <2>3, <2>4
<1>7. LiveIsOwned'
  BY <1>2, <1>3 DEF IInv, LiveIsOwned
<1> QED
  BY <1>5, <1>6, <1>7 DEF IInv

LEMMA NextSlotIInv ==
    ASSUME IInv, NextSlot
    PROVE  IInv'
<1> DEFINE earlier(f) == [f EXCEPT !.due = @ - 1]
<1>1. tx' = tx /\ needRtx' = needRtx /\ selectedAcid' = selectedAcid
      /\ fate' = fate /\ deliveries' = deliveries /\ enbStep = "done"
      /\ enbStep' = "main" /\ ueDone' = FALSE
  BY DEF NextSlot, txVars, ghostVars, SlotLoopsDone
<1>2. ASSUME NEW f \in air
      PROVE  /\ earlier(f) \in Frame /\ earlier(f).acid = f.acid
             /\ earlier(f).pdu = f.pdu /\ earlier(f).type = f.type
             /\ earlier(f).flag = f.flag
  <2>1. f \in Frame /\ f.due = 1
    BY DEF NextSlot, IInv, TypeOK, Frame
  <2>2. earlier(f) = [f EXCEPT !.due = 0]
    BY <2>1 DEF Frame
  <2> QED
    BY <2>1, <2>2 DEF Frame
<1>3. air' = {earlier(f) : f \in air}
  BY DEF NextSlot
<1> HIDE DEF earlier
<1>4. ASSUME NEW b \in Acids
      PROVE  FramesOf(b)' = {earlier(f) : f \in FramesOf(b)}
  BY <1>2, <1>3 DEF FramesOf
<1>5. ASSUME NEW b \in Acids
      PROVE  /\ rx'[b] \in RxUnit /\ rx'[b].status = rx[b].status
             /\ rx'[b].pdu = rx[b].pdu
             /\ rx'[b].transmissions = rx[b].transmissions
  <2>1. rx[b] \in RxUnit
    BY DEF IInv, TypeOK
  <2>2. CASE rx[b].status = "EVALUATING" /\ rx[b].age < FbTimer
    <3>1. rx'[b] = [rx[b] EXCEPT !.age = rx[b].age + 1]
      BY <2>2 DEF NextSlot
    <3>2. rx[b].age + 1 \in 0..FbTimer
      BY <2>1, <2>2, Constants DEF RxUnit
    <3> QED
      BY <2>1, <3>1, <3>2 DEF RxUnit
  <2>3. CASE ~(rx[b].status = "EVALUATING" /\ rx[b].age < FbTimer)
    BY <2>1, <2>3 DEF NextSlot
  <2> QED
    BY <2>2, <2>3
<1>6. TypeOK'
  <2>1. rx' \in [Acids -> RxUnit]
    BY <1>5 DEF NextSlot
  <2>2. air' \in SUBSET Frame
    BY <1>2, <1>3
  <2> QED
    BY <1>1, <2>1, <2>2 DEF IInv, TypeOK
<1>7. ASSUME NEW b \in Acids PROVE ProcInv(b)'
  <2>1. ProcInv(b) /\ Owned(b) /\ SelectedNow(b) /\ DeliveredIfAcked(b)
        /\ OneCopy(b) /\ InStep(b)
    BY DEF IInv, ProcInv
  <2>2. \A f \in FramesOf(b) : f \in air
    BY DEF FramesOf
  <2>3. Evaluating(b)' <=> Evaluating(b)
    BY <1>5 DEF Evaluating
  <2>4. \A f \in FramesOf(b) : FramesOf(b) = {f} => FramesOf(b)' = {earlier(f)}
    BY <1>4
  <2>5. FramesOf(b) = {} => FramesOf(b)' = {}
    BY <1>4
  <2>6. OneCopy(b)'
    BY <1>1, <1>2, <1>5, <2>1, <2>2, <2>3, <2>4, <2>5 DEF OneCopy
  <2>7. InStep(b)'
    BY <1>1, <1>2, <1>4, <1>5, <2>1, <2>2, <2>3
       DEF InStep, RxAfterNacks
  <2>8. Owned(b)'
    BY <1>1, <2>1 DEF Owned
  <2>9. DeliveredIfAcked(b)'
    <3>1. AckSent(b)' <=> AckSent(b)
      BY <1>2, <1>4, <2>2 DEF AckSent
    <3> QED
      BY <1>1, <2>1, <3>1 DEF DeliveredIfAcked
  <2>10. SelectedNow(b)'
    BY <1>1, <2>1 DEF SelectedNow
  <2> QED
    BY <2>6, <2>7, <2>8, <2>9, <2>10 DEF ProcInv
<1>8. LiveIsOwned'
  BY <1>1 DEF IInv, LiveIsOwned
<1> QED
  BY <1>6, <1>7, <1>8 DEF IInv

-----------------------------------------------------------------------------
(* The theorems. *)

LEMMA NextIInv == IInv /\ [Next]_vars => IInv'
<1> SUFFICES ASSUME IInv, [Next]_vars PROVE IInv'
  OBVIOUS
<1>1. CASE EnbMainLoop
  BY <1>1, RetransmitIInv, SendNewIInv, DeleteNewIInv, SendNothingIInv
     DEF EnbMainLoop
<1>2. CASE FlushHarqBuffers
  BY <1>2, FlushIInv
<1>3. CASE UeMainLoop
  BY <1>3, UeMainLoopIInv
<1>4. CASE Arrival
  BY <1>4, DataArrivesIInv, AckArrivesIInv, LastNackArrivesIInv, NackArrivesIInv
     DEF Arrival
<1>5. CASE NextSlot
  BY <1>5, NextSlotIInv
<1>6. CASE UNCHANGED vars
  <2>1. UNCHANGED <<tx, selectedAcid, needRtx, rx, air, enbStep, ueDone, fate,
                    deliveries>>
    BY <1>6 DEF vars, txVars, slotVars, ghostVars
  <2>2. TypeOK' /\ LiveIsOwned'
    BY <2>1 DEF IInv, TypeOK, LiveIsOwned
  <2>3. ASSUME NEW b \in Acids PROVE ProcInv(b)'
    <3>1. ProcInv(b) /\ Owned(b) /\ SelectedNow(b)
      BY DEF IInv, ProcInv
    <3>2. FramesOf(b)' = FramesOf(b) /\ SelectedNow(b)'
      BY <2>1, <3>1 DEF FramesOf, SelectedNow
    <3> QED
      BY <2>1, <3>1, <3>2, Untouched DEF Owned
  <2> QED
    BY <2>2, <2>3 DEF IInv
<1> QED
  BY <1>1, <1>2, <1>3, <1>4, <1>5, <1>6 DEF Next

LEMMA AlwaysIInv == Spec => []IInv
BY InitIInv, NextIInv, PTL DEF Spec

\* Type correctness of the two ends and of the air between them.
THEOREM TypeCorrect == Spec => []TypeOK
BY AlwaysIInv, PTL DEF IInv

\* Each PDU under way is in one place only: insertPdu and pduFeedback never
\* meet a second copy or a second answer for a process.
THEOREM OneCopyHolds == Spec => []OneCopyUnderWay
<1>1. IInv => OneCopyUnderWay
  BY DEF IInv, ProcInv, OneCopyUnderWay
<1> QED
  BY <1>1, AlwaysIInv, PTL

\* LteHarqUnitTx and LteHarqProcessRx, whose only link is ACK and NACK, agree
\* on the transmissions of each PDU, its owner and its delivery.
THEOREM EndsStayInAgreement == Spec => []EndsAgree
<1>1. IInv => EndsAgree
  BY DEF IInv, ProcInv, EndsAgree
<1> QED
  BY <1>1, AlwaysIInv, PTL

\* LteHarqProcessRx::insertPdu never throws.
THEOREM InsertPduNeverThrows == Spec => []NewDataMeetsIdleUnit
<1>1. IInv => NewDataMeetsIdleUnit
  <2> SUFFICES ASSUME IInv, NEW f \in air, f.type = "DATA" PROVE Insertable(f)
    BY DEF NewDataMeetsIdleUnit
  <2> DEFINE n == tx[f.acid].transmissions
  <2>1. f.flag = (n = 1) /\ RxAfterNacks(f.acid, n - 1) /\ n \in 1..MaxRtx + 1
    BY FrameFacts
  <2>2. CASE n = 1
    BY <2>1, <2>2 DEF RxAfterNacks, Insertable
  <2>3. CASE n # 1
    <3>1. ~f.flag
      BY <2>1, <2>3
    <3> QED
      BY <2>1, <2>3, <3>1, Constants DEF RxAfterNacks, Insertable
  <2> QED
    BY <2>2, <2>3
<1> QED
  BY <1>1, AlwaysIInv, PTL

\* LteHarqBufferTx::receiveHarqFeedback and LteHarqUnitTx::pduFeedback never
\* throw.
THEOREM FeedbackNeverThrows == Spec => []FeedbackIsExpected
<1>1. IInv => FeedbackIsExpected
  BY FrameFacts DEF FeedbackIsExpected, Expected
<1> QED
  BY <1>1, AlwaysIInv, PTL

\* No handler of either end ever throws on what the other end sent.
THEOREM HandlersNeverThrow == Spec => []NeverThrows
<1>1. NewDataMeetsIdleUnit /\ FeedbackIsExpected => NeverThrows
  BY DEF NeverThrows
<1> QED
  BY <1>1, InsertPduNeverThrows, FeedbackNeverThrows, PTL

\* sendSelectedDown, which looks at the last selected process only, leaves no
\* unit selected.
THEOREM SelectedAreSent == Spec => []SelectedIsSent
<1>1. IInv => SelectedIsSent
  BY DEF IInv, ProcInv, SelectedNow, SelectedIsSent
<1> QED
  BY <1>1, AlwaysIInv, PTL

LEMMA NeedRtxStep ==
    ASSUME IInv, NeedRtxCounts, [Next]_vars
    PROVE  NeedRtxCounts'
<1>1. IsFiniteSet(Ready)
  <2>1. IsFiniteSet(Acids)
    BY Constants, FS_Interval DEF Acids
  <2>2. Ready \in SUBSET Acids
    BY DEF Ready
  <2> QED
    BY <2>1, <2>2, FS_Subset
<1>2. ASSUME needRtx' = needRtx,
             \A a \in Acids : tx'[a].status = "BUFFERED"
                                <=> tx[a].status = "BUFFERED"
      PROVE  NeedRtxCounts'
  <2>1. Ready' = Ready
    BY <1>2 DEF Ready
  <2> QED
    BY <1>2, <2>1 DEF NeedRtxCounts
<1>3. ASSUME NEW a \in Acids, Retransmit(a) PROVE NeedRtxCounts'
  <2>1. a \in Ready /\ needRtx' = needRtx - 1
    BY <1>3 DEF Retransmit, MayServe, Candidates
  <2>2. \A b \in Acids : tx'[b].status = "BUFFERED"
                           <=> b # a /\ tx[b].status = "BUFFERED"
    BY <1>3 DEF Retransmit, IInv, TypeOK, TxUnit
  <2>3. Ready' = Ready \ {a}
    BY <2>2 DEF Ready
  <2> QED
    BY <1>1, <2>1, <2>3, FS_RemoveElement DEF NeedRtxCounts
<1>4. ASSUME NEW f \in air, NackArrives(f) PROVE NeedRtxCounts'
  <2>1. f.acid \in Acids /\ f.acid \notin Ready /\ needRtx' = needRtx + 1
    BY <1>4, FrameFacts DEF NackArrives, Ready
  <2>2. Ready' = Ready \cup {f.acid}
    BY <1>4, <2>1 DEF NackArrives, Ready, IInv, TypeOK, TxUnit
  <2> QED
    BY <1>1, <2>1, <2>2, FS_AddElement DEF NeedRtxCounts
<1>5. ASSUME NEW p \in Pdus, NEW a \in Acids, SendNew(p, a)
      PROVE  NeedRtxCounts'
  BY <1>2, <1>5 DEF SendNew, Free, IInv, TypeOK
<1>6. ASSUME FlushHarqBuffers PROVE NeedRtxCounts'
  <2>1. needRtx' = needRtx
    BY <1>6 DEF FlushHarqBuffers
  <2>2. CASE tx' = tx
    BY <1>2, <2>1, <2>2
  <2>3. CASE /\ selectedAcid # HARQ_NONE /\ tx[selectedAcid].status = "SELECTED"
             /\ tx' = [tx EXCEPT ![selectedAcid] = Extracted(tx[selectedAcid])]
    BY <1>2, <2>1, <2>3 DEF Extracted, IInv, TypeOK
  <2> QED
    BY <1>6, <2>2, <2>3 DEF FlushHarqBuffers
<1>7. ASSUME NEW f \in air, AckArrives(f) \/ LastNackArrives(f)
      PROVE  NeedRtxCounts'
  BY <1>2, <1>7, FrameFacts
     DEF AckArrives, LastNackArrives, EmptyTx, IInv, TypeOK
<1>8. ASSUME UNCHANGED txVars PROVE NeedRtxCounts'
  BY <1>2, <1>8 DEF txVars
<1>9. CASE EnbMainLoop
  BY <1>3, <1>5, <1>8, <1>9 DEF EnbMainLoop, DeleteNew, SendNothing
<1>10. CASE Arrival
  BY <1>4, <1>7, <1>8, <1>10 DEF Arrival, DataArrives
<1> QED
  BY <1>6, <1>8, <1>9, <1>10 DEF Next, UeMainLoop, NextSlot, vars

\* LteMacEnb::needRtxDl_ is the number of units that wait for a
\* retransmission, so that scheduleRetransmissions never skips one.
THEOREM NeedRtxIsExact == Spec => []NeedRtxCounts
<1>1. Init => NeedRtxCounts
  <2> SUFFICES ASSUME Init PROVE NeedRtxCounts
    OBVIOUS
  <2>1. Ready = {}
    BY DEF Init, Ready, EmptyTx
  <2> QED
    BY <2>1, FS_EmptySet DEF Init, NeedRtxCounts
<1>2. IInv /\ NeedRtxCounts /\ [Next]_vars => NeedRtxCounts'
  BY NeedRtxStep
<1> QED
  BY <1>1, <1>2, AlwaysIInv, PTL DEF Spec

\* Neither sendSelectedDown nor scheduleRetransmissions forgets a PDU.
THEOREM NothingIsForgotten == Spec => []NothingForgotten
<1>1. SelectedIsSent /\ NeedRtxCounts => NothingForgotten
  BY DEF NothingForgotten
<1> QED
  BY <1>1, SelectedAreSent, NeedRtxIsExact, PTL

-----------------------------------------------------------------------------
(* The refinement. *)

\* What the RLC sees of a main loop of the UE: one delivery of some PDUs.
LEMMA UeMainLoopDelivers ==
    ASSUME IInv, UeMainLoop
    PROVE  \E S \in SUBSET Pdus : Service!Deliver(S)
<1> DEFINE S == {p \in Pdus : DeliveredBy(p) # {}}
<1>1. ASSUME NEW p \in Pdus
      PROVE  /\ p \in S => fate[p] = "live" /\ deliveries[p] = 0
             /\ deliveries'[p] = IF p \in S THEN 1 ELSE deliveries[p]
  <2>1. deliveries'[p] = deliveries[p] + Cardinality(DeliveredBy(p))
    BY DEF UeMainLoop, DeliveredBy
  <2>2. deliveries[p] \in Nat
    BY DEF IInv, TypeOK
  <2>3. CASE p \notin S
    BY <2>1, <2>2, <2>3, FS_EmptySet
  <2>4. CASE p \in S
    <3>1. PICK a \in Evaluated : rx[a].pdu = p /\ rx[a].result
      BY <2>4 DEF DeliveredBy
    <3>2. a \in Acids /\ Evaluating(a)
      BY DEF Evaluated, Evaluating
    <3>3. OneCopy(a) /\ Owned(a) /\ DeliveredIfAcked(a)
      BY <3>2 DEF IInv, ProcInv
    <3>4. tx[a].status = "WAITING" /\ tx[a].pdu = p /\ FramesOf(a) = {}
      BY <3>1, <3>2, <3>3 DEF OneCopy
    <3>5. fate[p] = "live" /\ deliveries[p] = 0
      BY <3>3, <3>4 DEF Owned, DeliveredIfAcked, AckSent
    <3>6. DeliveredBy(p) = {a}
      BY <3>1, <3>2, <3>4, DeliveredByOwner
    <3>7. Cardinality(DeliveredBy(p)) = 1
      BY <3>6, FS_Singleton
    <3> QED
      BY <2>1, <2>4, <3>5, <3>7
  <2> QED
    BY <2>3, <2>4
<1>2. deliveries' = [p \in Pdus |-> IF p \in S THEN 1 ELSE deliveries[p]]
  <2>1. deliveries' = [p \in Pdus |-> deliveries'[p]]
    BY DEF UeMainLoop
  <2> HIDE DEF S
  <2> QED
    BY <1>1, <2>1
<1>3. fate' = fate
  BY DEF UeMainLoop
<1> QED
  BY <1>1, <1>2, <1>3 DEF Service!Deliver

LEMMA StepImplements ==
    ASSUME IInv, [Next]_vars
    PROVE  [Service!Next]_(Service!vars)
<1>1. ASSUME UNCHANGED ghostVars PROVE UNCHANGED Service!vars
  BY <1>1 DEF ghostVars, Service!vars
<1>2. ASSUME NEW p \in Pdus, NEW a \in Acids, SendNew(p, a)
      PROVE  Service!Take(p, "live")
  <2>1. fate[p] # "live"
    BY <1>2 DEF SendNew, Fresh, Held, IInv, LiveIsOwned
  <2> QED
    BY <1>2, <2>1 DEF SendNew, Service!Take
<1>3. ASSUME NEW p \in Pdus, DeleteNew(p)
      PROVE  Service!Take(p, "deleted")
  <2>1. fate[p] # "live"
    BY <1>3 DEF DeleteNew, Fresh, Held, IInv, LiveIsOwned
  <2> QED
    BY <1>3, <2>1 DEF DeleteNew, Service!Take
<1>4. ASSUME NEW f \in air, AckArrives(f) PROVE Service!Acknowledge(f.pdu)
  <2>1. f \in FramesOf(f.acid) /\ AckSent(f.acid)
    BY <1>4 DEF AckArrives, FramesOf, AckSent
  <2>2. fate[f.pdu] = "live" /\ deliveries[f.pdu] = 1
    BY <2>1, FrameFacts DEF IInv, ProcInv, Owned, DeliveredIfAcked
  <2> QED
    BY <1>4, <2>2 DEF AckArrives, Service!Acknowledge
<1>5. ASSUME NEW f \in air, LastNackArrives(f) PROVE Service!GiveUp(f.pdu)
  <2>1. ~AckSent(f.acid)
    BY <1>5, FrameFacts DEF LastNackArrives, AckSent
  <2>2. fate[f.pdu] = "live" /\ deliveries[f.pdu] = 0
    BY <2>1, FrameFacts DEF IInv, ProcInv, Owned, DeliveredIfAcked
  <2> QED
    BY <1>5, <2>2 DEF LastNackArrives, Service!GiveUp
<1>6. ASSUME NEW f \in air PROVE f.pdu \in Pdus
  BY FrameFacts DEF Frame
<1>7. CASE EnbMainLoop
  BY <1>1, <1>2, <1>3, <1>7
     DEF EnbMainLoop, Retransmit, SendNothing, Service!Next
<1>8. CASE FlushHarqBuffers
  BY <1>1, <1>8 DEF FlushHarqBuffers
<1>9. CASE UeMainLoop
  BY <1>9, UeMainLoopDelivers DEF Service!Next
<1>10. CASE Arrival
  BY <1>1, <1>4, <1>5, <1>6, <1>10
     DEF Arrival, DataArrives, NackArrives, Service!Next
<1>11. CASE NextSlot \/ UNCHANGED vars
  BY <1>1, <1>11 DEF NextSlot, vars
<1> QED
  BY <1>7, <1>8, <1>9, <1>10, <1>11 DEF Next

\* HarqDl implements HarqService: whatever the decoder, the scheduler and the
\* number of processes do, the RLC is given each PDU at most once, and the eNB
\* learns truthfully what became of it.
THEOREM ImplementsService == Spec => KeepsService
<1>1. Init => Service!Init
  BY DEF Init, Service!Init
<1>2. IInv /\ [Next]_vars => [Service!Next]_(Service!vars)
  BY StepImplements
<1> QED
  BY <1>1, <1>2, AlwaysIInv, PTL DEF Spec, KeepsService, Service!Spec

-----------------------------------------------------------------------------
(* How many processes are enough. *)

(* The age at which the main loop of the UE answers: a PDU is inserted at  *)
(* the end of a slot, after that loop.                                     *)
Answered == IF FbTimer = 1 THEN 1 ELSE FbTimer - 1

(* The PDU of a process has been sent k slots ago. *)
Underway(a, k) ==
    \/ \E f \in air : f.acid = a /\ f.type = "DATA" /\ k = 1 - f.due
    \/ Evaluating(a) /\ k = rx[a].age + 1
    \/ \E f \in air : f.acid = a /\ f.type = "HARQ" /\ k = Answered + 2 - f.due

(* A PDU a slot: what is sent and answered in this slot is so by the loops *)
(* that have run.                                                          *)
SlotBySlot ==
    /\ \A a, b \in Acids : \A k \in Nat : Underway(a, k) /\ Underway(b, k) => a = b
    /\ \A f \in air : f.due = 1 =>
          IF f.type = "DATA" THEN enbStep = "done" ELSE ueDone
    /\ \A a \in Acids : Evaluating(a) =>
          /\ rx[a].age <= Answered
          /\ rx[a].age = 0 => SlotLoopsDone
          /\ ueDone => rx[a].age < Answered

(* A PDU is answered, and sent again, before the processes are used up. *)
EnoughProcesses == NumProcs >= FbTimer + 2 /\ NumProcs >= 4

LEMMA AnswerTimes ==
    /\ Answered \in Nat \ {0} /\ Answered <= FbTimer
    /\ \A n \in Nat \ {0} : n <= Answered => (n >= FbTimer - 1 <=> n = Answered)
    /\ EnoughProcesses => Answered + 2 < NumProcs
BY HarqAssumption DEF Answered, EnoughProcesses

LEMMA FrameDues ==
    ASSUME TypeOK, NEW f \in air
    PROVE  f.due \in {0, 1} /\ f.acid \in Acids /\ f.type \in {"DATA", "HARQ"}
BY DEF TypeOK, Frame

LEMMA RxAges ==
    ASSUME TypeOK, NEW a \in Acids
    PROVE  rx[a].age \in Nat /\ rx[a].age <= FbTimer
BY Constants DEF TypeOK, RxUnit

LEMMA StagesAre ==
    ASSUME TypeOK, SlotBySlot, NEW a \in Acids, NEW k, Underway(a, k)
    PROVE  k \in 0..Answered + 2
<1>1. CASE \E f \in air : f.acid = a /\ f.type = "DATA" /\ k = 1 - f.due
  BY <1>1, FrameDues, AnswerTimes
<1>2. CASE Evaluating(a) /\ k = rx[a].age + 1
  BY <1>2, RxAges, AnswerTimes DEF SlotBySlot
<1>3. CASE \E f \in air : f.acid = a /\ f.type = "HARQ" /\ k = Answered + 2 - f.due
  BY <1>3, FrameDues, AnswerTimes
<1> QED
  BY <1>1, <1>2, <1>3 DEF Underway

\* A step that sends nothing and ages nothing.
LEMMA NothingSent ==
    ASSUME SlotBySlot, air' \subseteq air, rx' = rx, ueDone' = ueDone,
           \/ enbStep' = enbStep
           \/ enbStep = "main" /\ enbStep' = "flush"
    PROVE  SlotBySlot'
<1>1. Answered' = Answered /\ Acids' = Acids
  BY DEF Answered, Acids
<1>2. \A a \in Acids : Evaluating(a)' = Evaluating(a)
  BY DEF Evaluating
<1>3. \A a \in Acids : \A k : Underway(a, k)' => Underway(a, k)
  BY <1>1, <1>2 DEF Underway
<1>4. SlotLoopsDone => SlotLoopsDone'
  BY DEF SlotLoopsDone
<1>5. \A f \in air' : f.due = 1 =>
          IF f.type = "DATA" THEN enbStep' = "done" ELSE ueDone'
  BY DEF SlotBySlot
<1> QED
  BY <1>1, <1>2, <1>3, <1>4, <1>5 DEF SlotBySlot

LEMMA FlushSlots ==
    ASSUME TypeOK, SlotBySlot, FlushHarqBuffers
    PROVE  SlotBySlot'
<1>1. /\ rx' = rx /\ ueDone' = ueDone /\ enbStep = "flush" /\ enbStep' = "done"
      /\ Answered' = Answered /\ Acids' = Acids
  BY DEF FlushHarqBuffers, Answered, Acids
<1>2. \E S \in SUBSET {selectedAcid} : \E p, new :
         air' = air \cup {DataFrame(a, p, new) : a \in S}
  <2>1. CASE UNCHANGED <<tx, air>>
    <3>1. {DataFrame(a, NoPdu, TRUE) : a \in {}} = {}
      OBVIOUS
    <3>2. air' = air \cup {DataFrame(a, NoPdu, TRUE) : a \in {}}
      BY <2>1, <3>1
    <3>3. {} \in SUBSET {selectedAcid}
      OBVIOUS
    <3> QED
      BY <3>2, <3>3
  <2>2. CASE ~UNCHANGED <<tx, air>>
    <3>1. PICK u : air' = air \cup {DataFrame(selectedAcid, u.pdu, u.transmissions = 1)}
      BY <2>2 DEF FlushHarqBuffers
    <3>2. {DataFrame(a, u.pdu, u.transmissions = 1) : a \in {selectedAcid}}
            = {DataFrame(selectedAcid, u.pdu, u.transmissions = 1)}
      OBVIOUS
    <3>3. {selectedAcid} \in SUBSET {selectedAcid}
      OBVIOUS
    <3>4. \E p, new : air' = air \cup {DataFrame(a, p, new) : a \in {selectedAcid}}
      BY <3>1, <3>2
    <3> QED
      BY <3>3, <3>4
  <2> QED
    BY <2>1, <2>2
<1>3. PICK S \in SUBSET {selectedAcid} : \E p, new :
         air' = air \cup {DataFrame(a, p, new) : a \in S}
  BY <1>2
<1>4. PICK p, new : air' = air \cup {DataFrame(a, p, new) : a \in S}
  BY <1>3
<1>5. \A a : /\ DataFrame(a, p, new).type = "DATA" /\ DataFrame(a, p, new).due = 1
             /\ DataFrame(a, p, new).acid = a
  BY DEF DataFrame
<1>6. \A f \in air' : f \in air \/ (f.type = "DATA" /\ f.due = 1 /\ f.acid \in S)
  BY <1>4, <1>5
<1>7. \A a \in Acids : \A k : Underway(a, k)' => (Underway(a, k) \/ (k = 0 /\ a \in S))
  BY <1>1, <1>6 DEF Underway, Evaluating
<1>8. \A a \in Acids : ~Underway(a, 0)
  <2> SUFFICES ASSUME NEW a \in Acids, Underway(a, 0) PROVE FALSE
    OBVIOUS
  <2>1. ~\E f \in air : f.type = "DATA" /\ 0 = 1 - f.due
    BY <1>1, FrameDues DEF SlotBySlot
  <2>2. ~\E f \in air : f.type = "HARQ" /\ 0 = Answered + 2 - f.due
    BY FrameDues, AnswerTimes
  <2> QED
    BY <2>1, <2>2, RxAges DEF Underway
<1>9. ASSUME NEW a \in Acids, NEW b \in Acids, NEW k \in Nat, Underway(a, k)', Underway(b, k)'
      PROVE  a = b
  BY <1>7, <1>8, <1>9 DEF SlotBySlot
<1>10. \A f \in air' : f.due = 1 =>
          IF f.type = "DATA" THEN enbStep' = "done" ELSE ueDone'
  BY <1>1, <1>6 DEF SlotBySlot
<1>11. ASSUME NEW a \in Acids, Evaluating(a)'
       PROVE  /\ rx'[a].age <= Answered
              /\ rx'[a].age = 0 => SlotLoopsDone'
              /\ ueDone' => rx'[a].age < Answered
  BY <1>1, <1>11 DEF SlotBySlot, Evaluating, SlotLoopsDone
<1> QED
  BY <1>1, <1>9, <1>10, <1>11 DEF SlotBySlot

LEMMA UeSlots ==
    ASSUME TypeOK, SlotBySlot, UeMainLoop
    PROVE  SlotBySlot'
<1>1. /\ enbStep' = enbStep /\ ~ueDone /\ ueDone'
      /\ Answered' = Answered /\ Acids' = Acids
      /\ rx' = [a \in Acids |-> AfterLoop(a)]
      /\ air' = air \cup {Feedback(a, rx[a].pdu, rx[a].result) : a \in Evaluated}
  BY DEF UeMainLoop, Answered, Acids
<1>2. \A a \in Acids : a \in Evaluated <=> Evaluating(a) /\ rx[a].age = Answered
  <2> SUFFICES ASSUME NEW a \in Acids
               PROVE  a \in Evaluated <=> Evaluating(a) /\ rx[a].age = Answered
    OBVIOUS
  <2>1. Evaluating(a) => rx[a].age # 0 /\ rx[a].age <= Answered
    BY <1>1 DEF SlotBySlot, SlotLoopsDone
  <2>2. a \in Evaluated <=> Evaluating(a) /\ rx[a].age >= FbTimer - 1
    BY DEF Evaluated, Evaluating
  <2> QED
    BY <2>1, <2>2, RxAges, AnswerTimes
<1>3. \A a \in Acids : Evaluating(a)' => Evaluating(a) /\ a \notin Evaluated /\ rx'[a] = rx[a]
  <2> SUFFICES ASSUME NEW a \in Acids, Evaluating(a)'
               PROVE  Evaluating(a) /\ a \notin Evaluated /\ rx'[a] = rx[a]
    OBVIOUS
  <2>1. rx'[a] = AfterLoop(a)
    BY <1>1
  <2>2. a \notin Evaluated
    BY <2>1 DEF AfterLoop, EmptyRx, Evaluating, TypeOK, RxUnit
  <2> QED
    BY <2>1, <2>2 DEF AfterLoop, Evaluating
<1>4. \A f \in air' : f \in air \/ (f.type = "HARQ" /\ f.due = 1 /\ f.acid \in Evaluated)
  <2>1. \A a, p, ack : /\ Feedback(a, p, ack).type = "HARQ" /\ Feedback(a, p, ack).due = 1
                       /\ Feedback(a, p, ack).acid = a
    BY DEF Feedback
  <2> QED
    BY <1>1, <2>1
<1>5. \A a \in Acids : \A k : Underway(a, k)' => Underway(a, k)
  <2> SUFFICES ASSUME NEW a \in Acids, NEW k, Underway(a, k)' PROVE Underway(a, k)
    OBVIOUS
  <2>1. CASE Evaluating(a)' /\ k = rx'[a].age + 1
    BY <1>3, <2>1 DEF Underway
  <2>2. CASE \E f \in air' : f.acid = a /\ f.type = "DATA" /\ k = 1 - f.due
    BY <1>4, <2>2 DEF Underway
  <2>3. CASE \E f \in air : f.acid = a /\ f.type = "HARQ" /\ k = Answered + 2 - f.due
    BY <2>3 DEF Underway
  <2>4. CASE a \in Evaluated /\ k = Answered + 2 - 1
    BY <1>2, <2>4, AnswerTimes DEF Underway
  <2> QED
    BY <1>1, <1>4, <2>1, <2>2, <2>3, <2>4 DEF Underway
<1>6. \A f \in air' : f.due = 1 =>
          IF f.type = "DATA" THEN enbStep' = "done" ELSE ueDone'
  BY <1>1, <1>4 DEF SlotBySlot
<1>7. ASSUME NEW a \in Acids, Evaluating(a)'
      PROVE  /\ rx'[a].age <= Answered
             /\ rx'[a].age = 0 => SlotLoopsDone'
             /\ ueDone' => rx'[a].age < Answered
  <2>1. Evaluating(a) /\ rx'[a] = rx[a] /\ rx[a].age # Answered
    BY <1>2, <1>3, <1>7
  <2>2. rx[a].age <= Answered /\ rx[a].age # 0
    BY <1>1, <2>1 DEF SlotBySlot, SlotLoopsDone
  <2> QED
    BY <2>1, <2>2, RxAges, AnswerTimes
<1> QED
  BY <1>1, <1>5, <1>6, <1>7 DEF SlotBySlot

LEMMA DataSlots ==
    ASSUME TypeOK, SlotBySlot, NEW f \in air, NEW decoded \in BOOLEAN,
           DataArrives(f, decoded)
    PROVE  SlotBySlot'
<1>1. /\ UNCHANGED <<enbStep, ueDone>> /\ SlotLoopsDone
      /\ Answered' = Answered /\ Acids' = Acids
      /\ air' \subseteq air /\ f.type = "DATA" /\ f.due = 0
  BY DEF DataArrives, slotVars, Answered, Acids
<1>2. f.acid \in Acids
  BY FrameDues
<1>3. rx'[f.acid].age = 0
  BY <1>2 DEF DataArrives, TypeOK
<1>4. \A a \in Acids : a # f.acid => rx'[a] = rx[a] /\ Evaluating(a)' = Evaluating(a)
  BY <1>2 DEF DataArrives, TypeOK, Evaluating
<1>5. \A a \in Acids : \A k : Underway(a, k)' => Underway(a, k)
  <2> SUFFICES ASSUME NEW a \in Acids, NEW k, Underway(a, k)' PROVE Underway(a, k)
    OBVIOUS
  <2>1. CASE a = f.acid /\ k = 0 + 1
    <3>1. k = 1 - f.due
      BY <1>1, <2>1
    <3> QED
      BY <1>1, <2>1, <3>1 DEF Underway
  <2>2. CASE a # f.acid
    BY <1>1, <1>4, <2>2 DEF Underway
  <2>3. CASE \/ \E g \in air : g.acid = a /\ g.type = "DATA" /\ k = 1 - g.due
             \/ \E g \in air : g.acid = a /\ g.type = "HARQ" /\ k = Answered + 2 - g.due
    BY <2>3 DEF Underway
  <2> QED
    BY <1>1, <1>3, <2>1, <2>2, <2>3 DEF Underway
<1>6. \A g \in air' : g.due = 1 =>
          IF g.type = "DATA" THEN enbStep' = "done" ELSE ueDone'
  BY <1>1 DEF SlotBySlot
<1>7. ASSUME NEW a \in Acids, Evaluating(a)'
      PROVE  /\ rx'[a].age <= Answered
             /\ rx'[a].age = 0 => SlotLoopsDone'
             /\ ueDone' => rx'[a].age < Answered
  <2>1. SlotLoopsDone'
    BY <1>1 DEF SlotLoopsDone
  <2>2. CASE a = f.acid
    BY <1>3, <2>1, <2>2, AnswerTimes
  <2>3. CASE a # f.acid
    BY <1>1, <1>4, <1>7, <2>1, <2>3 DEF SlotBySlot
  <2> QED
    BY <2>2, <2>3
<1> QED
  BY <1>1, <1>5, <1>6, <1>7 DEF SlotBySlot

LEMMA NextSlots ==
    ASSUME TypeOK, SlotBySlot, NextSlot
    PROVE  SlotBySlot'
<1>1. /\ enbStep' = "main" /\ ~ueDone' /\ ueDone
      /\ Answered' = Answered /\ Acids' = Acids
      /\ air' = {[f EXCEPT !.due = @ - 1] : f \in air}
      /\ \A f \in air : f.due = 1
  BY FrameDues DEF NextSlot, Answered, Acids, SlotLoopsDone
<1>2. ASSUME NEW g \in air'
      PROVE  g.due = 0 /\ \E f \in air : g.acid = f.acid /\ g.type = f.type
  <2>1. PICK f \in air : g = [f EXCEPT !.due = @ - 1]
    BY <1>1
  <2>2. f \in Frame /\ f.due = 1
    BY <1>1 DEF TypeOK
  <2> QED
    BY <2>1, <2>2 DEF Frame
<1>3. ASSUME NEW a \in Acids, Evaluating(a)'
      PROVE  Evaluating(a) /\ rx'[a].age = rx[a].age + 1 /\ rx[a].age < Answered
  <2>1. rx'[a] = IF rx[a].status = "EVALUATING" /\ rx[a].age < FbTimer
                 THEN [rx[a] EXCEPT !.age = @ + 1] ELSE rx[a]
    BY DEF NextSlot
  <2>2. Evaluating(a)
    BY <1>3, <2>1 DEF Evaluating, TypeOK, RxUnit
  <2>3. rx[a].age < Answered
    BY <1>1, <2>2 DEF SlotBySlot
  <2>4. rx[a].age < FbTimer
    BY <2>3, RxAges, AnswerTimes, Constants
  <2> QED
    BY <2>1, <2>2, <2>3, <2>4 DEF Evaluating, TypeOK, RxUnit
<1>4. ASSUME NEW a \in Acids, NEW k \in Nat, Underway(a, k)'
      PROVE  k - 1 \in Nat /\ Underway(a, k - 1)
  <2>1. CASE \E g \in air' : g.acid = a /\ g.type = "DATA" /\ k = 1 - g.due
    <3>1. PICK f \in air : f.acid = a /\ f.type = "DATA"
      BY <1>2, <2>1
    <3>2. k = 1 /\ f.due = 1
      BY <1>1, <1>2, <2>1
    <3> QED
      BY <3>1, <3>2 DEF Underway
  <2>2. CASE Evaluating(a)' /\ k = rx'[a].age + 1
    BY <1>3, <2>2, RxAges DEF Underway
  <2>3. CASE \E g \in air' : g.acid = a /\ g.type = "HARQ" /\ k = Answered + 2 - g.due
    <3>1. PICK f \in air : f.acid = a /\ f.type = "HARQ"
      BY <1>2, <2>3
    <3>2. k = Answered + 2 /\ f.due = 1
      BY <1>1, <1>2, <2>3, AnswerTimes
    <3> QED
      BY <3>1, <3>2, AnswerTimes DEF Underway
  <2> QED
    BY <1>1, <1>4, <2>1, <2>2, <2>3 DEF Underway
<1>5. ASSUME NEW a \in Acids, NEW b \in Acids, NEW k \in Nat, Underway(a, k)', Underway(b, k)'
      PROVE  a = b
  BY <1>4, <1>5 DEF SlotBySlot
<1>6. ASSUME NEW a \in Acids, Evaluating(a)'
      PROVE  /\ rx'[a].age <= Answered
             /\ rx'[a].age = 0 => SlotLoopsDone'
             /\ ueDone' => rx'[a].age < Answered
  BY <1>1, <1>3, <1>6, RxAges, AnswerTimes
<1> QED
  BY <1>1, <1>2, <1>5, <1>6 DEF SlotBySlot

LEMMA SlotsStart == Init => SlotBySlot
<1> SUFFICES ASSUME Init PROVE SlotBySlot
  OBVIOUS
<1>1. \A a \in Acids : ~Evaluating(a)
  BY DEF Init, Evaluating, EmptyRx
<1>2. air = {}
  BY DEF Init
<1> QED
  BY <1>1, <1>2 DEF SlotBySlot, Underway

LEMMA SlotsStep == IInv /\ SlotBySlot /\ [Next]_vars => SlotBySlot'
<1> SUFFICES ASSUME IInv, SlotBySlot, [Next]_vars PROVE SlotBySlot'
  OBVIOUS
<1>0. TypeOK
  BY DEF IInv
<1>1. ASSUME NEW a \in Acids, Retransmit(a) PROVE SlotBySlot'
  BY <1>1, NothingSent DEF Retransmit
<1>2. ASSUME NEW p \in Pdus, NEW a \in Acids, SendNew(p, a) PROVE SlotBySlot'
  BY <1>2, NothingSent DEF SendNew
<1>3. ASSUME NEW p \in Pdus, DeleteNew(p) PROVE SlotBySlot'
  BY <1>3, NothingSent DEF DeleteNew
<1>4. CASE SendNothing
  BY <1>4, NothingSent DEF SendNothing
<1>5. ASSUME NEW f \in air, AckArrives(f) \/ LastNackArrives(f) \/ NackArrives(f)
      PROVE  SlotBySlot'
  BY <1>5, NothingSent DEF AckArrives, LastNackArrives, NackArrives, slotVars
<1>6. CASE UNCHANGED vars
  <2>1. UNCHANGED <<air, rx, ueDone, enbStep>>
    BY <1>6 DEF vars, slotVars
  <2> QED
    BY <2>1, NothingSent
<1>7. CASE EnbMainLoop
  BY <1>1, <1>2, <1>3, <1>4, <1>7 DEF EnbMainLoop
<1>8. CASE Arrival
  <2>1. ASSUME NEW f \in air, NEW decoded \in BOOLEAN, DataArrives(f, decoded)
        PROVE  SlotBySlot'
    BY <1>0, <2>1, DataSlots
  <2> QED
    BY <1>5, <1>8, <2>1 DEF Arrival
<1> QED
  BY <1>0, <1>6, <1>7, <1>8, FlushSlots, UeSlots, NextSlots DEF Next

(* When every process waits for its answer, there are as many as slots     *)
(* until the answer.                                                       *)
LEMMA NotAllWait ==
    ASSUME EnoughProcesses, IInv, SlotBySlot, enbStep = "main"
    PROVE  \E a \in Acids : tx[a].status # "WAITING"
<1> SUFFICES ASSUME \A a \in Acids : tx[a].status = "WAITING" PROVE FALSE
  OBVIOUS
<1> DEFINE Sent == 1..Answered + 2
           stage == [a \in Acids |-> CHOOSE k \in Sent : Underway(a, k)]
<1>0. TypeOK
  BY DEF IInv
<1>1. ASSUME NEW a \in Acids PROVE \E k \in Sent : Underway(a, k)
  <2>1. OneCopy(a)
    BY DEF IInv, ProcInv
  <2>2. CASE Evaluating(a)
    <3>1. Underway(a, rx[a].age + 1)
      BY <2>2 DEF Underway
    <3>2. rx[a].age + 1 \in Sent
      BY <1>0, <2>2, RxAges, AnswerTimes DEF SlotBySlot
    <3> QED
      BY <3>1, <3>2
  <2>3. CASE ~Evaluating(a)
    <3>1. PICK f \in air : f.acid = a
      BY <2>1, <2>3 DEF OneCopy, FramesOf
    <3>2. f.due \in {0, 1} /\ f.type \in {"DATA", "HARQ"}
      BY <1>0, FrameDues
    <3>3. f.type = "DATA" => f.due = 0
      BY <3>2 DEF SlotBySlot
    <3>4. CASE f.type = "DATA"
      <4>1. Underway(a, 1)
        BY <3>1, <3>3, <3>4 DEF Underway
      <4> QED
        BY <4>1, AnswerTimes
    <3>5. CASE f.type = "HARQ"
      <4>1. Underway(a, Answered + 2 - f.due)
        BY <3>1, <3>5 DEF Underway
      <4> QED
        BY <3>2, <4>1, AnswerTimes
    <3> QED
      BY <3>2, <3>4, <3>5
  <2> QED
    BY <2>2, <2>3
<1>2. \A a \in Acids : stage[a] \in Sent /\ Underway(a, stage[a])
  BY <1>1
<1>3. stage \in [Acids -> Sent]
  BY <1>1
<1>4. IsFiniteSet(Sent) /\ IsFiniteSet(Acids) /\ Cardinality(Sent) < Cardinality(Acids)
  <2>1. IsFiniteSet(Sent) /\ Cardinality(Sent) = Answered + 2
    BY FS_Interval, AnswerTimes
  <2>2. IsFiniteSet(Acids) /\ Cardinality(Acids) = NumProcs
    BY FS_Interval, Constants DEF Acids
  <2> QED
    BY <2>1, <2>2, AnswerTimes
<1> HIDE DEF stage
<1>5. PICK a, b \in Acids : a # b /\ stage[a] = stage[b]
  <2> HIDE DEF Sent
  <2> QED
    BY <1>3, <1>4, FS_PigeonHole
<1> QED
  BY <1>2, <1>5 DEF SlotBySlot

\* No MAC PDU is made in vain on a loose band (LteMacEnb.cc:674): with that
\* many processes one is empty or asks for a retransmission, and then nothing
\* new is granted, for every time the evaluation may take, however many PDUs
\* are lost and whenever the eNB has something to send.
THEOREM GrantsAreNotWasted ==
    ASSUME EnoughProcesses
    PROVE  Spec => []GrantFindsProcess
<1>1. Init => GrantFindsProcess
  BY DEF Init, GrantFindsProcess
<1>2. ASSUME IInv, SlotBySlot, NeedRtxCounts, ~tightBand, NEW p \in Pdus, DeleteNew(p)
      PROVE  FALSE
  <2>1. enbStep = "main" /\ Free = {} /\ Candidates = {}
    BY <1>2 DEF DeleteNew, NothingServed
  <2>2. Ready = {}
    <3>1. IsFiniteSet(Ready)
      <4>1. IsFiniteSet(Acids) /\ Ready \subseteq Acids
        BY FS_Interval, Constants DEF Acids, Ready
      <4> QED
        BY <4>1, FS_Subset
    <3> QED
      BY <1>2, <2>1, <3>1, FS_EmptySet DEF Candidates, NeedRtxCounts
  <2>3. \A a \in Acids : tx[a].status # "SELECTED"
    BY <1>2, <2>1 DEF IInv, ProcInv, SelectedNow
  <2>4. \A a \in Acids : tx[a].status = "WAITING"
    BY <1>2, <2>1, <2>2, <2>3 DEF Free, Ready, IInv, TypeOK, TxUnit
  <2> QED
    BY <1>2, <2>1, <2>4, NotAllWait
<1>3. IInv /\ SlotBySlot /\ NeedRtxCounts /\ GrantFindsProcess /\ [Next]_vars
        => GrantFindsProcess'
  <2> SUFFICES ASSUME IInv, SlotBySlot, NeedRtxCounts, GrantFindsProcess, [Next]_vars,
                      ~tightBand', NEW p \in Pdus, fate[p] # "deleted"
               PROVE  fate'[p] # "deleted"
    BY DEF GrantFindsProcess, Next, vars, Pdus
  <2>0. ~tightBand /\ fate \in [Pdus -> {"unused", "live", "acked", "discarded", "deleted"}]
    BY DEF Next, vars, IInv, TypeOK
  <2>1. CASE UNCHANGED vars
    BY <2>1 DEF vars, ghostVars
  <2>2. CASE EnbMainLoop
    <3>1. ASSUME NEW a \in Acids, Retransmit(a) PROVE fate'[p] # "deleted"
      BY <3>1 DEF Retransmit, ghostVars
    <3>2. ASSUME NEW q \in Pdus, NEW a \in Acids, SendNew(q, a) PROVE fate'[p] # "deleted"
      BY <2>0, <3>2 DEF SendNew
    <3>3. CASE SendNothing
      BY <3>3 DEF SendNothing, ghostVars
    <3> QED
      BY <1>2, <2>0, <2>2, <3>1, <3>2, <3>3 DEF EnbMainLoop
  <2>3. CASE FlushHarqBuffers \/ UeMainLoop \/ NextSlot
    BY <2>3 DEF FlushHarqBuffers, UeMainLoop, NextSlot, ghostVars
  <2>4. CASE Arrival
    <3>1. PICK f \in air : \/ \E decoded \in BOOLEAN : DataArrives(f, decoded)
                           \/ AckArrives(f) \/ LastNackArrives(f) \/ NackArrives(f)
      BY <2>4 DEF Arrival
    <3>2. fate' = fate \/ fate' = [fate EXCEPT ![f.pdu] = "acked"]
                       \/ fate' = [fate EXCEPT ![f.pdu] = "discarded"]
      BY <3>1 DEF DataArrives, AckArrives, LastNackArrives, NackArrives, ghostVars
    <3> QED
      BY <2>0, <3>2
  <2> QED
    BY <2>1, <2>2, <2>3, <2>4 DEF Next
<1> QED
  BY <1>1, <1>3, SlotsStart, SlotsStep, AlwaysIInv, NeedRtxIsExact, PTL DEF Spec
=============================================================================
