---------------------------- MODULE UlMacProofs ----------------------------
(* Proofs about UlMac: the UE and the base station stay on the same        *)
(* process, for any number of processes, of retransmissions and of units,  *)
(* any timers, and whatever is granted, decoded or lost; and neither meets *)
(* a process it does not expect, with enough processes for the time that   *)
(* an answer takes.                                                        *)
EXTENDS UlMac, FiniteSetTheorems, WellFoundedInduction, TLAPS

IsFrames(f) ==
    f = [rac |-> f.rac, data |-> f.data, won |-> f.won, grant |-> f.grant,
         feedback |-> f.feedback]
AcidsIn(frames) == \A f \in frames : f.acid \in Acids

Shape ==
    /\ IsFrames(sent) /\ IsFrames(due)
    /\ AcidsIn(sent.data) /\ AcidsIn(due.data)
    /\ currentHarq \in Acids
    /\ enbDone \in BOOLEAN /\ ueDone \in BOOLEAN /\ firstTx \in BOOLEAN

RxIdle == \A a \in Acids : rx[a] = EmptyRx

NothingAsked ==
    /\ grant = 0 /\ sent.grant = 0 /\ due.grant = 0
    /\ ~rac /\ ~sent.rac /\ ~due.rac

(* No grant has been used yet.  A grant is on its way only if the queue,   *)
(* which only grows, is not empty: the first grant is not wasted.          *)
NotStarted ==
    /\ ~firstTx /\ harqStatus = HARQ_NONE
    /\ queue \in Nat /\ (queue = 0 => NothingAsked)
    /\ tx = [a \in Acids |-> EmptyTx] /\ RxIdle
    /\ bsr = 0
    /\ sent.data = {} /\ due.data = {}
    /\ sent.feedback = {} /\ due.feedback = {}

(* The first PDU, in the slot in which it is sent, in the next, and in the *)
(* one after it, until the main loop of the base station finds its buffer. *)
FirstSent ==
    /\ firstTx /\ harqStatus = HARQ_NONE
    /\ ueDone /\ UsedAcid = NumProcs - 2
    /\ sent.data # {} /\ due.data = {} /\ RxIdle

FirstDue ==
    /\ firstTx /\ harqStatus = HARQ_NONE
    /\ UsedAcid = NumProcs - 1
    /\ due.data # {} /\ RxIdle

FirstArrived ==
    /\ firstTx /\ harqStatus = HARQ_NONE
    /\ ~enbDone /\ UsedAcid = 0
    /\ \E a \in Acids : rx[a].status # "EMPTY"

Counting == firstTx /\ harqStatus \in Acids /\ UsedAcid = NamedAcid

Phase == NotStarted \/ FirstSent \/ FirstDue \/ FirstArrived \/ Counting

IInv == Shape /\ Phase
-----------------------------------------------------------------------------
(* Counting modulo the number of processes. *)
LEMMA Processes == NumProcs \in Nat /\ NumProcs >= 2 /\ NumProcs \notin Acids
BY UlMacAssumption DEF Acids

LEMMA ModSmall ==
    ASSUME NEW n \in Nat \ {0}, NEW a \in 0..n - 1
    PROVE  a % n = a /\ (a + n) % n = a
OBVIOUS

LEMMA ModNext ==
    ASSUME NEW a \in Acids
    PROVE  (a + 1) % NumProcs = IF a = NumProcs - 1 THEN 0 ELSE a + 1
<1>1. CASE a = NumProcs - 1
  <2>1. a + 1 = 0 + NumProcs
    BY <1>1, Processes
  <2> QED
    BY <1>1, <2>1, Processes, ModSmall
<1>2. CASE a # NumProcs - 1
  <2>1. a + 1 \in 0..NumProcs - 1
    BY <1>2, Processes DEF Acids
  <2> QED
    BY <1>2, <2>1, Processes, ModSmall
<1> QED
  BY <1>1, <1>2

LEMMA ModPrevious ==
    ASSUME NEW a \in Acids
    PROVE  (a + NumProcs - 1) % NumProcs = IF a = 0 THEN NumProcs - 1 ELSE a - 1
<1>1. CASE a = 0
  <2>1. a + NumProcs - 1 = NumProcs - 1 /\ NumProcs - 1 \in 0..NumProcs - 1
    BY <1>1, Processes
  <2> QED
    BY <1>1, <2>1, Processes, ModSmall
<1>2. CASE a # 0
  <2>1. a + NumProcs - 1 = (a - 1) + NumProcs /\ a - 1 \in 0..NumProcs - 1
    BY <1>2, Processes DEF Acids
  <2> QED
    BY <1>2, <2>1, Processes, ModSmall
<1> QED
  BY <1>1, <1>2

LEMMA NextIsAcid ==
    ASSUME NEW a \in Acids
    PROVE  (a + 1) % NumProcs \in Acids
BY ModNext, Processes DEF Acids
-----------------------------------------------------------------------------
LEMMA Start == Init => IInv
<1> SUFFICES ASSUME Init PROVE IInv
  OBVIOUS
<1>1. Shape
  <2>1. IsFrames(Quiet) /\ Quiet.data = {}
    BY DEF IsFrames, Quiet
  <2>2. 0 \in Acids
    BY Processes DEF Acids
  <2>3. sent = Quiet /\ due = Quiet /\ currentHarq = 0
        /\ enbDone = FALSE /\ ueDone = FALSE /\ firstTx = FALSE
    BY DEF Init
  <2> QED
    BY <2>1, <2>2, <2>3 DEF Shape, AcidsIn
<1>2. NotStarted
  BY DEF Init, NotStarted, NothingAsked, RxIdle, Quiet
<1> QED
  BY <1>1, <1>2 DEF IInv, Phase

LEMMA UnitsArrive == IInv /\ NewData => IInv'
<1> SUFFICES ASSUME IInv, NewData PROVE IInv'
  OBVIOUS
<1> USE DEF NewData, ueVars, enbVars, racVars, bsrVars
<1>1. Shape'
  BY DEF IInv, Shape, IsFrames, AcidsIn
<1>2. UsedAcid' = UsedAcid /\ NamedAcid' = NamedAcid
  BY DEF UsedAcid, NamedAcid
<1>3. CASE NotStarted
  <2>1. queue' \in Nat /\ queue' # 0
    BY <1>3 DEF NotStarted
  <2> QED
    BY <1>1, <1>3, <2>1 DEF IInv, Phase, NotStarted, RxIdle
<1>4. CASE FirstSent
  BY <1>1, <1>2, <1>4 DEF IInv, Phase, FirstSent, RxIdle
<1>5. CASE FirstDue
  BY <1>1, <1>2, <1>5 DEF IInv, Phase, FirstDue, RxIdle
<1>6. CASE FirstArrived
  BY <1>1, <1>2, <1>6 DEF IInv, Phase, FirstArrived
<1>7. CASE Counting
  BY <1>1, <1>2, <1>7 DEF IInv, Phase, Counting
<1> QED
  BY <1>3, <1>4, <1>5, <1>6, <1>7 DEF IInv, Phase
-----------------------------------------------------------------------------
(* The main loop of the base station. *)
LEMMA EnbFrames ==
    ASSUME Shape, EnbMainLoop
    PROVE  /\ Shape' /\ sent'.data = sent.data /\ sent'.rac = sent.rac
           /\ UsedAcid' = UsedAcid
<1> USE DEF EnbMainLoop, ueVars, racVars, bsrVars
<1>1. PICK r \in RacGrants : \E x \in RtxGrants : \E n \in NewGrants(x) :
         sent' = [sent EXCEPT
                    !.grant = r + x + n,
                    !.feedback = {Feedback(a, rx[a].result) : a \in Evaluated}]
  OBVIOUS
<1>2. IsFrames(sent') /\ sent'.data = sent.data /\ sent'.rac = sent.rac
  BY <1>1 DEF Shape, IsFrames
<1>3. UsedAcid' = UsedAcid
  BY DEF UsedAcid
<1> QED
  BY <1>2, <1>3 DEF Shape, IsFrames, AcidsIn

LEMMA IdleGrantsNothing ==
    ASSUME NotStarted
    PROVE  /\ Evaluated = {} /\ Backlog = 0
           /\ RtxGrants = {0} /\ NewGrants(0) = {0}
           /\ queue = 0 => RacGrants = {0}
<1>1. Evaluated = {}
  BY DEF NotStarted, RxIdle, Evaluated, EmptyRx
<1>2. Corrupted = {} /\ Reports = {}
  BY <1>1 DEF Corrupted, Reports
<1>3. Backlog = 0
  BY <1>2 DEF Backlog, NotStarted
<1>4. RtxGrants = {0}
  BY <1>2 DEF RtxGrants, ToRetransmit
<1> QED
  BY <1>1, <1>3, <1>4 DEF NewGrants, RacGrants, NotStarted, NothingAsked

LEMMA RxIdleKeeps ==
    ASSUME RxIdle, EnbMainLoop
    PROVE  RxIdle' /\ harqStatus' = IF harqStatus # HARQ_NONE
                                    THEN (harqStatus + 1) % NumProcs
                                    ELSE HARQ_NONE
<1>1. RxIdle'
  BY DEF RxIdle, EnbMainLoop
<1>2. harqStatus = HARQ_NONE => ~BufferExists
  BY DEF RxIdle, BufferExists, EmptyRx
<1> QED
  BY <1>1, <1>2 DEF EnbMainLoop, Updated

LEMMA EnbSteps == IInv /\ EnbMainLoop => IInv'
<1> SUFFICES ASSUME IInv, EnbMainLoop PROVE IInv'
  OBVIOUS
<1>1. /\ Shape' /\ sent'.data = sent.data /\ sent'.rac = sent.rac
      /\ UsedAcid' = UsedAcid
  BY EnbFrames DEF IInv
<1>2. CASE NotStarted
  <2>1. bsr' = 0 /\ sent'.feedback = {} /\ (queue = 0 => sent'.grant = 0)
    <3>1. PICK r \in RacGrants :
             /\ bsr' = Backlog - 0
             /\ sent' = [sent EXCEPT !.grant = r + 0 + 0, !.feedback = {}]
      BY <1>2, IdleGrantsNothing DEF EnbMainLoop
    <3>2. queue = 0 => r = 0
      BY <1>2, IdleGrantsNothing
    <3> QED
      BY <1>2, <3>1, <3>2, IdleGrantsNothing DEF IInv, Shape, IsFrames
  <2>2. RxIdle' /\ harqStatus' = HARQ_NONE
    BY <1>2, RxIdleKeeps DEF NotStarted
  <2>3. /\ UNCHANGED <<firstTx, queue, tx, grant, due>> /\ ~rac'
    BY DEF EnbMainLoop, ueVars, racVars, bsrVars
  <2> QED
    BY <1>1, <1>2, <2>1, <2>2, <2>3 DEF IInv, Phase, NotStarted, NothingAsked, HARQ_NONE
<1> USE DEF EnbMainLoop, ueVars, racVars, bsrVars
<1>3. CASE FirstSent
  <2>1. RxIdle' /\ harqStatus' = HARQ_NONE
    BY <1>3, RxIdleKeeps DEF FirstSent
  <2> QED
    BY <1>1, <1>3, <2>1 DEF IInv, Phase, FirstSent, HARQ_NONE
<1>4. CASE FirstDue
  <2>1. RxIdle' /\ harqStatus' = HARQ_NONE
    BY <1>4, RxIdleKeeps DEF FirstDue
  <2> QED
    BY <1>1, <1>4, <2>1 DEF IInv, Phase, FirstDue, HARQ_NONE
<1>5. CASE FirstArrived
  <2>1. harqStatus' = 0 /\ enbDone'
    BY <1>5 DEF FirstArrived, Updated, BufferExists
  <2>2. 0 \in Acids
    BY Processes DEF Acids
  <2> QED
    BY <1>1, <1>5, <2>1, <2>2 DEF IInv, Phase, FirstArrived, Counting, NamedAcid
<1>6. CASE Counting
  <2>1. harqStatus' = (harqStatus + 1) % NumProcs /\ enbDone' /\ ~enbDone
    BY <1>6, Processes DEF Counting, Updated, HARQ_NONE
  <2>2. NamedAcid' = NamedAcid
    BY <2>1 DEF NamedAcid
  <2>3. harqStatus' \in Acids
    BY <1>6, <2>1, NextIsAcid DEF Counting
  <2> QED
    BY <1>1, <1>6, <2>2, <2>3 DEF IInv, Phase, Counting
<1> QED
  BY <1>2, <1>3, <1>4, <1>5, <1>6 DEF IInv, Phase
-----------------------------------------------------------------------------
(* The main loop of the UE. *)
LEMMA SlotAcidIsAcid == Shape => SlotAcid \in Acids
BY Processes DEF Shape, SlotAcid, FirstAcid, Acids

(* In every slot the UE counts once, with a grant or without. *)
LEMMA UeCounts ==
    ASSUME Shape, UeMainLoop
    PROVE  /\ currentHarq' \in Acids
           /\ grant = 0 \/ firstTx => UsedAcid' = UsedAcid
           /\ grant # 0 => UsedAcid' = SlotAcid
<1> DEFINE used == IF grant = 0 THEN currentHarq ELSE SlotAcid
<1>1. ueDone' /\ ~ueDone /\ currentHarq' = (used + 1) % NumProcs
  BY DEF UeMainLoop, CheckRac, UseGrant, Shape
<1>2. used \in Acids
  BY SlotAcidIsAcid DEF Shape
<1> HIDE DEF used
<1>3. currentHarq' \in Acids
  BY <1>1, <1>2, NextIsAcid
<1>4. (currentHarq' + NumProcs - 1) % NumProcs = used
  BY <1>1, <1>2, <1>3, ModNext, ModPrevious, Processes DEF Acids
<1>5. UsedAcid' = used /\ UsedAcid = currentHarq
  BY <1>1, <1>4 DEF UsedAcid
<1> QED
  BY <1>3, <1>5 DEF used, SlotAcid

LEMMA UnitsAreSent ==
    ASSUME NEW n, SendUnits(n)
    PROVE  \E pdu : sent' = [sent EXCEPT !.data = {DataFrame(a, pdu, TRUE) : a \in ToFill}]
<1> DEFINE left == queue - n
           report == bsrTriggered /\ (nr => left > 0)
           made == Pdu(n, IF report THEN {left} ELSE {})
<1>1. sent' = [sent EXCEPT !.data = {DataFrame(a, made, TRUE) : a \in ToFill}]
  BY DEF SendUnits
<1> HIDE DEF made
<1> QED
  BY <1>1

LEMMA UeFrames ==
    ASSUME Shape, UeMainLoop
    PROVE  IsFrames(sent') /\ AcidsIn(sent'.data) /\ sent'.grant = sent.grant
           /\ sent'.feedback = sent.feedback
<1> USE DEF Shape, IsFrames, AcidsIn
<1>1. CASE CheckRac
  BY <1>1 DEF CheckRac, racVars
<1>2. CASE UseGrant
  <2>1. ASSUME NEW a \in ToResend, Resend(a)
        PROVE  IsFrames(sent') /\ AcidsIn(sent'.data)
               /\ sent'.grant = sent.grant /\ sent'.feedback = sent.feedback
    <3>1. a \in Acids
      BY DEF ToResend, Lowest, Ready
    <3> QED
      BY <2>1, <3>1 DEF Resend, DataFrame
  <2>2. ASSUME NEW n, SendUnits(n)
        PROVE  IsFrames(sent') /\ AcidsIn(sent'.data)
               /\ sent'.grant = sent.grant /\ sent'.feedback = sent.feedback
    <3>1. ToFill \subseteq Acids
      BY DEF ToFill, Lowest, Free
    <3>2. PICK pdu : sent' = [sent EXCEPT !.data = {DataFrame(a, pdu, TRUE) : a \in ToFill}]
      BY <2>2, UnitsAreSent
    <3> QED
      BY <3>1, <3>2 DEF DataFrame
  <2>3. CASE SendNoUnits
    BY <2>3 DEF SendNoUnits
  <2> QED
    BY <1>2, <2>1, <2>2, <2>3 DEF UseGrant
<1> QED
  BY <1>1, <1>2 DEF UeMainLoop

LEMMA UeShape == Shape /\ UeMainLoop => Shape'
<1> SUFFICES ASSUME Shape, UeMainLoop PROVE Shape'
  OBVIOUS
<1>1. due' = due /\ enbDone' = enbDone /\ ueDone'
  BY DEF UeMainLoop
<1>2. firstTx' \in BOOLEAN
  BY DEF UeMainLoop, CheckRac, UseGrant, Shape
<1> QED
  BY <1>1, <1>2, UeCounts, UeFrames DEF Shape

(* The first grant is used for the first PDU. *)
LEMMA FirstGrant ==
    ASSUME Shape, NotStarted, UeMainLoop, grant # 0
    PROVE  FirstSent'
<1>1. UseGrant
  BY DEF UeMainLoop
<1>2. queue # 0
  BY DEF NotStarted, NothingAsked
<1>3. ToResend = {}
  BY DEF NotStarted, EmptyTx, ToResend, Ready, Lowest
<1>4. ToFill # {}
  <2>1. Free = Acids
    BY DEF Free, NotStarted, EmptyTx
  <2>2. 0 \in Lowest(Acids) /\ FirstAcid \in Acids
    BY Processes DEF Lowest, Acids, FirstAcid
  <2> QED
    BY <2>1, <2>2 DEF ToFill, SlotAcid, NotStarted
<1>5. sent'.data # {}
  <2>1. PICK n : SendUnits(n)
    BY <1>1, <1>2, <1>3 DEF UseGrant
  <2>2. PICK pdu : sent' = [sent EXCEPT !.data = {DataFrame(a, pdu, TRUE) : a \in ToFill}]
    BY <2>1, UnitsAreSent
  <2> QED
    BY <1>4, <2>2 DEF Shape, IsFrames
<1>6. UsedAcid' = NumProcs - 2
  BY UeCounts DEF NotStarted, SlotAcid, FirstAcid
<1> QED
  BY <1>1, <1>5, <1>6
  DEF FirstSent, NotStarted, UeMainLoop, UseGrant, enbVars, RxIdle, HARQ_NONE

LEMMA UeSteps == IInv /\ UeMainLoop => IInv'
<1> SUFFICES ASSUME IInv, UeMainLoop PROVE IInv'
  OBVIOUS
<1>1. Shape'
  BY UeShape DEF IInv
<1>2. CASE NotStarted /\ grant # 0
  BY <1>1, <1>2, FirstGrant DEF IInv, Phase
<1>3. CASE NotStarted /\ grant = 0
  <2>1. CheckRac
    BY <1>3 DEF UeMainLoop, UseGrant
  <2>2. sent'.data = sent.data /\ (queue = 0 => sent'.rac = sent.rac)
    BY <2>1 DEF CheckRac, IInv, Shape, IsFrames, racVars
  <2>3. /\ UNCHANGED <<firstTx, queue, tx, grant, due, rac, bsr, harqStatus, rx>>
        /\ sent'.grant = sent.grant /\ sent'.feedback = sent.feedback
    BY <2>1, UeFrames DEF CheckRac, UeMainLoop, enbVars, IInv
  <2> QED
    BY <1>1, <1>3, <2>2, <2>3 DEF IInv, Phase, NotStarted, NothingAsked, RxIdle, HARQ_NONE
<1>4. CASE firstTx
  <2>1. UsedAcid' = UsedAcid /\ ueDone' /\ ~ueDone
    BY <1>4, UeCounts DEF IInv, UeMainLoop
  <2>2. firstTx' /\ UNCHANGED <<harqStatus, rx, due, enbDone>>
    BY <1>4 DEF UeMainLoop, CheckRac, UseGrant, enbVars
  <2>3. NamedAcid' = NamedAcid
    BY <2>2 DEF NamedAcid
  <2>4. FirstDue \/ FirstArrived \/ Counting
    BY <1>4, <2>1 DEF IInv, Phase, NotStarted, FirstSent
  <2> QED
    BY <1>1, <1>4, <2>1, <2>2, <2>3, <2>4
    DEF IInv, Phase, FirstDue, FirstArrived, Counting, RxIdle, HARQ_NONE
<1> QED
  BY <1>2, <1>3, <1>4 DEF IInv, Phase, FirstSent, FirstDue, FirstArrived, Counting
-----------------------------------------------------------------------------
(* The end of the slot: both counts move on. *)
LEMMA BothCount ==
    ASSUME Shape, EndOfSlot
    PROVE  /\ Shape'
           /\ UsedAcid' = currentHarq
           /\ UsedAcid = IF currentHarq = 0 THEN NumProcs - 1 ELSE currentHarq - 1
           /\ NamedAcid = harqStatus
           /\ harqStatus \in Acids => NamedAcid' = (harqStatus + 1) % NumProcs
<1> USE DEF EndOfSlot
<1>1. Shape'
  <2>1. IsFrames(sent') /\ sent'.data = {}
    BY DEF IsFrames, Quiet
  <2>2. IsFrames(due') /\ due'.data = sent.data
    BY DEF Shape, IsFrames
  <2> QED
    BY <2>1, <2>2 DEF Shape, AcidsIn
<1>2. UsedAcid' = currentHarq
  BY DEF UsedAcid
<1>3. UsedAcid = (currentHarq + NumProcs - 1) % NumProcs
  BY DEF UsedAcid
<1>4. NamedAcid = harqStatus /\ NamedAcid' = (harqStatus + 1) % NumProcs
  BY DEF NamedAcid
<1> QED
  BY <1>1, <1>2, <1>3, <1>4, ModPrevious DEF Shape

LEMMA NothingArrives ==
    ASSUME RxIdle, EndOfSlot, due.data = {}
    PROVE  RxIdle'
<1>1. ASSUME NEW a \in Acids PROVE rx'[a] = Aged(a)
  <2>1. PICK decoded \in BOOLEAN :
          rx' = [b \in Acids |->
                   IF \E f \in due.data : f.acid = b
                   THEN [status |-> "EVALUATING",
                         pdu |-> (CHOOSE f \in due.data : f.acid = b).pdu,
                         result |-> decoded, age |-> 1]
                   ELSE Aged(b)]
    BY DEF EndOfSlot, DataArrives
  <2> QED
    BY <2>1
<1>2. ASSUME NEW a \in Acids PROVE Aged(a) = EmptyRx
  <2>1. rx[a] = EmptyRx
    BY DEF RxIdle
  <2>2. EmptyRx.status = "EMPTY"
    BY DEF EmptyRx
  <2> QED
    BY <2>1, <2>2 DEF Aged
<1> QED
  BY <1>1, <1>2 DEF RxIdle

LEMMA SlotSteps == IInv /\ EndOfSlot => IInv'
<1> SUFFICES ASSUME IInv, EndOfSlot PROVE IInv'
  OBVIOUS
<1>1. /\ Shape'
      /\ UsedAcid' = currentHarq
      /\ UsedAcid = IF currentHarq = 0 THEN NumProcs - 1 ELSE currentHarq - 1
      /\ NamedAcid = harqStatus
      /\ harqStatus \in Acids => NamedAcid' = (harqStatus + 1) % NumProcs
  BY BothCount DEF IInv
<1>2. /\ UNCHANGED <<firstTx, harqStatus, queue, bsr>>
      /\ enbDone /\ ueDone /\ ~enbDone' /\ ~ueDone'
      /\ currentHarq \in Acids
  BY DEF EndOfSlot, IInv, Shape
<1>3. /\ sent' = Quiet
      /\ due'.data = sent.data /\ due'.grant = sent.grant
      /\ due'.rac = sent.rac /\ due'.feedback = sent.feedback
  BY DEF EndOfSlot, IInv, Shape, IsFrames
<1>4. CASE NotStarted
  <2>1. RxIdle'
    BY <1>4, NothingArrives DEF NotStarted
  <2>2. tx' = [a \in Acids |-> EmptyTx]
    BY <1>4 DEF EndOfSlot, FeedbackArrives, Settled, Nacked, NotStarted
  <2>3. queue = 0 => NothingAsked'
    <3> SUFFICES ASSUME queue = 0 PROVE NothingAsked'
      OBVIOUS
    <3>1. NothingAsked
      BY <1>4 DEF NotStarted
    <3>2. ~rac'
      <4>1. rac' = (rac \/ due.rac)
        BY DEF EndOfSlot
      <4> QED
        BY <3>1, <4>1, Zenon DEF NothingAsked
    <3>3. grant' = 0
      BY <3>1 DEF NothingAsked, EndOfSlot, RacAndGrantArrive
    <3>4. sent'.grant = 0 /\ ~sent'.rac
      BY <1>3 DEF Quiet
    <3>5. due'.grant = 0 /\ ~due'.rac
      BY <1>3, <3>1 DEF NothingAsked
    <3> QED
      BY <3>2, <3>3, <3>4, <3>5 DEF NothingAsked
  <2> QED
    BY <1>1, <1>2, <1>3, <1>4, <2>1, <2>2, <2>3
    DEF IInv, Phase, NotStarted, Quiet, HARQ_NONE
<1>5. CASE FirstSent
  <2>1. RxIdle'
    BY <1>5, NothingArrives DEF FirstSent
  <2>2. UsedAcid' = NumProcs - 1
    BY <1>1, <1>2, <1>5, Processes DEF FirstSent, Acids
  <2> QED
    BY <1>1, <1>2, <1>3, <1>5, <2>1, <2>2 DEF IInv, Phase, FirstSent, FirstDue, HARQ_NONE
<1>6. CASE FirstDue
  <2>1. PICK f \in due.data : f.acid \in Acids
    BY <1>6 DEF FirstDue, IInv, Shape, AcidsIn
  <2>2. rx'[f.acid].status = "EVALUATING"
    <3>1. PICK decoded \in BOOLEAN :
            rx' = [a \in Acids |->
                   IF \E g \in due.data : g.acid = a
                   THEN [status |-> "EVALUATING",
                         pdu |-> (CHOOSE g \in due.data : g.acid = a).pdu,
                         result |-> decoded, age |-> 1]
                   ELSE Aged(a)]
      BY DEF EndOfSlot, DataArrives
    <3> QED
      BY <2>1, <3>1
  <2>3. UsedAcid' = 0
    BY <1>1, <1>2, <1>6, Processes DEF FirstDue, Acids
  <2> QED
    BY <1>1, <1>2, <1>6, <2>1, <2>2, <2>3 DEF IInv, Phase, FirstDue, FirstArrived, HARQ_NONE
<1>7. CASE Counting
  <2>1. UsedAcid = harqStatus /\ harqStatus \in Acids
    BY <1>1, <1>7 DEF Counting
  <2>2. (harqStatus + 1) % NumProcs = currentHarq
    BY <1>1, <1>2, <2>1, ModNext, Processes DEF Acids
  <2> QED
    BY <1>1, <1>2, <1>7, <2>1, <2>2 DEF IInv, Phase, Counting
<1> QED
  BY <1>2, <1>4, <1>5, <1>6, <1>7 DEF IInv, Phase, FirstArrived

LEMMA Stutter == IInv /\ UNCHANGED vars => IInv'
<1> SUFFICES ASSUME IInv, UNCHANGED vars PROVE IInv'
  OBVIOUS
<1> USE DEF vars, ueVars, enbVars, racVars, bsrVars
<1>1. Shape' /\ UsedAcid' = UsedAcid /\ NamedAcid' = NamedAcid
  BY DEF IInv, Shape, IsFrames, AcidsIn, UsedAcid, NamedAcid
<1>2. RxIdle => RxIdle'
  BY DEF RxIdle
<1>3. NotStarted => NotStarted'
  BY <1>2 DEF NotStarted, NothingAsked
<1> QED
  BY <1>1, <1>2, <1>3 DEF IInv, Phase, FirstSent, FirstDue, FirstArrived, Counting

(* The invariant: where the first PDU is tells how far the two counts are. *)
THEOREM PhasesFollow == Spec => []IInv
<1>1. IInv /\ [Next]_vars => IInv'
  BY UnitsArrive, EnbSteps, UeSteps, SlotSteps, Stutter DEF Next, Slot
<1> QED
  BY Start, <1>1, PTL DEF Spec

(* AcidsAgree: from the first PDU received on, the UE uses in every slot    *)
(* the process the base station counts on, for every number of processes,  *)
(* in LTE and in NR, though neither tells the other (LteMacUe.cc:877).      *)
THEOREM CountsAgree == Spec => []AcidsAgree
<1>1. IInv => AcidsAgree
  BY DEF IInv, Phase, NotStarted, FirstSent, FirstDue, FirstArrived, Counting, AcidsAgree
<1> QED
  BY <1>1, PhasesFollow, PTL
-----------------------------------------------------------------------------
(* How many slots a PDU is evaluated: the feedback goes out in the main    *)
(* loop that finds it of this age.                                         *)
Evaluation == IF FbTimer = 1 THEN 1 ELSE FbTimer - 1
Stages == 0..Evaluation + 2

(* A PDU is answered before the counts come back to its process. *)
EnoughProcesses == NumProcs >= FbTimer + 2 /\ NumProcs >= 4

(* The process a has been sent k slots ago and its feedback has not come. *)
DataOf(frames, a) == \E f \in frames.data : f.acid = a
FeedbackOf(frames, a) == \E f \in frames.feedback : f.acid = a
Busy(a) == rx[a].status # "EMPTY"
Underway(a, k) ==
    \/ k = 0 /\ DataOf(sent, a)
    \/ k = 1 /\ DataOf(due, a)
    \/ Busy(a) /\ k = rx[a].age + 1
    \/ k = Evaluation + 1 /\ FeedbackOf(sent, a)
    \/ k = Evaluation + 2 /\ FeedbackOf(due, a)

Feedbacks == [acid : Acids, ack : BOOLEAN]
TxOf(u) == [status |-> u.status, transmissions |-> u.transmissions, pdu |-> u.pdu]
RxOf(p) == [status |-> p.status, pdu |-> p.pdu, result |-> p.result, age |-> p.age]

Units ==
    /\ tx = [a \in Acids |-> TxOf(tx[a])]
    /\ rx = [a \in Acids |-> RxOf(rx[a])]
    /\ \A a \in Acids : tx[a].status \in {"EMPTY", "WAITING", "BUFFERED"}
    /\ \A a \in Acids : rx[a].status \in {"EMPTY", "EVALUATING"}
    /\ \A a \in Acids : Busy(a) =>
          rx[a].age \in 1..Evaluation /\ rx[a].result \in BOOLEAN
    /\ sent.feedback \subseteq Feedbacks /\ due.feedback \subseteq Feedbacks

InThisSlot ==
    /\ ~ueDone => sent.data = {}
    /\ ~enbDone => sent.feedback = {}
    /\ enbDone => \A a \in Acids : Busy(a) => rx[a].age < Evaluation

WaitingIsUnderway ==
    \A a \in Acids : tx[a].status = "WAITING" <=> \E k \in Stages : Underway(a, k)

OneEach ==
    /\ \A a \in Acids : \A j, k \in Stages : Underway(a, j) /\ Underway(a, k) => j = k
    /\ \A k \in Stages : \A a, b \in Acids : Underway(a, k) /\ Underway(b, k) => a = b

SlotsCount ==
    ~nr => \A a \in Acids : \A k \in Stages :
              Underway(a, k) => firstTx /\ UsedAcid = (a + k) % NumProcs

Flight == Units /\ InThisSlot /\ WaitingIsUnderway /\ OneEach /\ SlotsCount
-----------------------------------------------------------------------------
LEMMA Evaluations ==
    /\ Evaluation \in Nat \ {0} /\ Stages \subseteq Nat
    /\ 0 \in Stages /\ 1 \in Stages /\ Evaluation + 1 \in Stages
    /\ Evaluation + 2 \in Stages
BY UlMacAssumption DEF Evaluation, Stages

LEMMA LastStage == EnoughProcesses => Evaluation + 2 \in 0..NumProcs - 1
BY UlMacAssumption DEF EnoughProcesses, Evaluation

LEMMA EvaluatedAre ==
    ASSUME Units
    PROVE  Evaluated \subseteq Acids
           /\ \A a \in Acids : a \in Evaluated <=> Busy(a) /\ rx[a].age >= Evaluation
BY UlMacAssumption DEF Units, Evaluated, Busy, Evaluation

LEMMA Steps ==
    ASSUME NEW a \in Acids, NEW k \in 0..NumProcs - 1
    PROVE  (a + k) % NumProcs = IF a + k < NumProcs THEN a + k ELSE a + k - NumProcs
<1>1. CASE a + k < NumProcs
  <2>1. a + k \in 0..NumProcs - 1
    BY <1>1, Processes DEF Acids
  <2> QED
    BY <1>1, <2>1, Processes, ModSmall
<1>2. CASE ~(a + k < NumProcs)
  <2>1. a + k - NumProcs \in 0..NumProcs - 1
    BY <1>2, Processes DEF Acids
  <2>2. a + k = (a + k - NumProcs) + NumProcs
    BY Processes DEF Acids
  <2>3. ((a + k - NumProcs) + NumProcs) % NumProcs = a + k - NumProcs
    BY <2>1, Processes, ModSmall
  <2> QED
    BY <1>2, <2>2, <2>3
<1> QED
  BY <1>1, <1>2

LEMMA FlightStart == Init => Flight
<1> SUFFICES ASSUME Init PROVE Flight
  OBVIOUS
<1>1. \A a \in Acids : tx[a] = EmptyTx /\ rx[a] = EmptyRx
  BY DEF Init
<1>2. EmptyTx = TxOf(EmptyTx) /\ EmptyTx.status = "EMPTY"
  BY DEF EmptyTx, TxOf
<1>3. EmptyRx = RxOf(EmptyRx) /\ EmptyRx.status = "EMPTY"
  BY DEF EmptyRx, RxOf
<1>4. sent = Quiet /\ due = Quiet /\ Quiet.data = {} /\ Quiet.feedback = {}
  BY DEF Init, Quiet
<1>5. ~enbDone /\ tx = [a \in Acids |-> EmptyTx] /\ rx = [a \in Acids |-> EmptyRx]
  BY DEF Init
<1>6. Units
  BY <1>1, <1>2, <1>3, <1>4, <1>5 DEF Units, Busy
<1>7. \A a \in Acids : \A k : ~Underway(a, k)
  BY <1>1, <1>3, <1>4 DEF Underway, Busy, DataOf, FeedbackOf
<1> QED
  BY <1>1, <1>2, <1>4, <1>5, <1>6, <1>7
  DEF Flight, InThisSlot, WaitingIsUnderway, OneEach, SlotsCount, Busy

(* The main loop of the base station turns evaluations into feedback. *)
LEMMA EnbFlight ==
    ASSUME Shape, Flight, EnbMainLoop
    PROVE  Flight'
<1>1. /\ ~enbDone /\ enbDone'
      /\ UNCHANGED <<tx, due, ueDone, firstTx, currentHarq, nr>>
      /\ rx' = [a \in Acids |-> IF a \in Evaluated THEN EmptyRx ELSE rx[a]]
  BY DEF EnbMainLoop, ueVars, configVars
<1>2. /\ sent'.data = sent.data
      /\ sent'.feedback = {Feedback(a, rx[a].result) : a \in Evaluated}
  <2>1. PICK r \in RacGrants : \E x \in RtxGrants : \E n \in NewGrants(x) :
         sent' = [sent EXCEPT
                    !.grant = r + x + n,
                    !.feedback = {Feedback(a, rx[a].result) : a \in Evaluated}]
    BY DEF EnbMainLoop
  <2> QED
    BY <2>1 DEF Shape, IsFrames
<1>3. /\ Evaluated \subseteq Acids
      /\ \A a \in Acids : a \in Evaluated <=> Busy(a) /\ rx[a].age >= Evaluation
      /\ \A a \in Acids : Busy(a) => rx[a].age \in 1..Evaluation
      /\ \A a \in Acids : Busy(a) => rx[a].result \in BOOLEAN
  BY EvaluatedAre DEF Flight, Units
<1>4. EmptyRx = RxOf(EmptyRx) /\ EmptyRx.status = "EMPTY"
  BY DEF EmptyRx, RxOf
<1>5. \A a \in Acids : /\ a \in Evaluated => rx'[a] = EmptyRx /\ ~Busy(a)'
                       /\ a \notin Evaluated => rx'[a] = rx[a] /\ Busy(a)' = Busy(a)
  BY <1>1, <1>4 DEF Busy
<1>6. \A a \in Acids : FeedbackOf(sent, a)' <=> a \in Evaluated
  <2>1. \A a \in Acids : Feedback(a, rx[a].result).acid = a
    BY DEF Feedback
  <2> QED
    BY <1>2, <1>3, <2>1 DEF FeedbackOf
<1>7. Units'
  <2>1. rx' = [a \in Acids |-> RxOf(rx'[a])]
    <3>1. \A a \in Acids : rx[a] = RxOf(rx[a])
      BY DEF Flight, Units
    <3> QED
      BY <1>1, <1>4, <3>1
  <2>2. sent'.feedback \subseteq Feedbacks
    BY <1>2, <1>3 DEF Feedbacks, Feedback
  <2>3. tx' = [a \in Acids |-> TxOf(tx'[a])]
        /\ \A a \in Acids : tx'[a].status \in {"EMPTY", "WAITING", "BUFFERED"}
    BY <1>1 DEF Flight, Units, TxOf
  <2>4. due'.feedback \subseteq Feedbacks
    BY <1>1 DEF Flight, Units
  <2>5. ASSUME NEW a \in Acids
        PROVE  /\ rx'[a].status \in {"EMPTY", "EVALUATING"}
               /\ Busy(a)' => rx'[a].age \in 1..Evaluation /\ rx'[a].result \in BOOLEAN
    <3>1. rx[a].status \in {"EMPTY", "EVALUATING"}
      BY DEF Flight, Units
    <3> QED
      BY <1>3, <1>4, <1>5, <3>1
  <2>6. Evaluation' = Evaluation /\ Feedbacks' = Feedbacks
    BY DEF Evaluation, Feedbacks, Acids
  <2> QED
    BY <2>1, <2>2, <2>3, <2>4, <2>5, <2>6 DEF Units, TxOf, RxOf
<1>8. InThisSlot'
  <2>1. \A a \in Acids : Busy(a)' => rx'[a].age < Evaluation
    BY <1>3, <1>5, Evaluations
  <2>2. ~ueDone' => sent'.data = {}
    BY <1>1, <1>2 DEF Flight, InThisSlot
  <2> QED
    BY <1>1, <2>1, <2>2 DEF InThisSlot, Evaluation, Acids
<1>9. \A a \in Acids : \A k \in Stages : Underway(a, k)' <=> Underway(a, k)
  <2> SUFFICES ASSUME NEW a \in Acids, NEW k \in Stages
               PROVE  Underway(a, k)' <=> Underway(a, k)
    OBVIOUS
  <2>1. DataOf(sent, a)' = DataOf(sent, a) /\ DataOf(due, a)' = DataOf(due, a)
        /\ FeedbackOf(due, a)' = FeedbackOf(due, a)
    BY <1>1, <1>2 DEF DataOf, FeedbackOf
  <2>2. ~FeedbackOf(sent, a)
    BY <1>1 DEF Flight, InThisSlot, FeedbackOf
  <2>3. CASE a \in Evaluated
    <3>1. rx[a].age = Evaluation /\ Busy(a)
      BY <1>3, <2>3, Evaluations
    <3> QED
      BY <1>5, <1>6, <2>1, <2>2, <2>3, <3>1 DEF Underway, Evaluation
  <2>4. CASE a \notin Evaluated
    <3>1. ~FeedbackOf(sent, a)' /\ Busy(a)' = Busy(a) /\ rx'[a] = rx[a]
      BY <1>5, <1>6, <2>4
    <3> QED
      BY <2>1, <2>2, <3>1 DEF Underway, Evaluation
  <2> QED
    BY <2>3, <2>4
<1>10. WaitingIsUnderway' /\ OneEach' /\ SlotsCount'
  <2>1. Stages' = Stages /\ UsedAcid' = UsedAcid
    BY <1>1 DEF Stages, Evaluation, UsedAcid
  <2>2. WaitingIsUnderway'
    BY <1>1, <1>9, <2>1 DEF Flight, WaitingIsUnderway, Acids
  <2>3. OneEach'
    BY <1>9, <2>1 DEF Flight, OneEach, Acids
  <2>4. SlotsCount'
    BY <1>1, <1>9, <2>1 DEF Flight, SlotsCount, Acids
  <2> QED
    BY <2>2, <2>3, <2>4
<1> QED
  BY <1>7, <1>8, <1>10 DEF Flight

(* The UE puts at most one PDU on its way, in a process that waits for     *)
(* nothing.                                                                *)
PutsOnItsWay(S) ==
    /\ \A a, b \in S : a = b
    /\ \A a \in S : tx[a].status # "WAITING" /\ (~nr => a = SlotAcid)
    /\ S # {} => grant # 0 /\ firstTx'
    /\ \A a \in Acids : DataOf(sent', a) <=> a \in S
    /\ tx' = [a \in Acids |-> TxOf(tx'[a])]
    /\ \A a \in Acids : tx'[a].status = IF a \in S THEN "WAITING" ELSE tx[a].status

LEMMA LowestIsOne ==
    ASSUME NEW S \in SUBSET Acids
    PROVE  Lowest(S) \subseteq S /\ \A a, b \in Lowest(S) : a = b
BY Processes DEF Lowest, Acids

LEMMA UePuts ==
    ASSUME Shape, Flight, UeMainLoop
    PROVE  \E S \in SUBSET Acids : PutsOnItsWay(S)
<1>1. /\ ~ueDone /\ sent.data = {}
      /\ tx = [a \in Acids |-> TxOf(tx[a])]
      /\ IsFrames(sent)
  BY DEF UeMainLoop, Flight, Units, InThisSlot, Shape
<1>2. ASSUME tx' = tx, sent'.data = sent.data
      PROVE  PutsOnItsWay({})
  BY <1>1, <1>2 DEF PutsOnItsWay, DataOf
<1>3. CASE CheckRac
  <2>1. tx' = tx /\ sent'.data = sent.data
    BY <1>1, <1>3 DEF CheckRac, IsFrames, racVars
  <2> QED
    BY <1>2, <2>1
<1>4. CASE UseGrant /\ grant # 0
  <2>1. firstTx'
    BY <1>4 DEF UseGrant
  <2>2. ASSUME NEW a \in ToResend, Resend(a)
        PROVE  PutsOnItsWay({a})
    <3>1. a \in Acids /\ tx[a].status = "BUFFERED" /\ (~nr => a = SlotAcid)
      BY DEF ToResend, Lowest, Ready
    <3>2. tx' = [tx EXCEPT ![a].status = "WAITING", ![a].transmissions = @ + 1]
          /\ sent'.data = {DataFrame(a, tx[a].pdu, FALSE)}
      BY <1>1, <2>2 DEF Resend, IsFrames
    <3>3. \A b \in Acids : DataOf(sent', b) <=> b \in {a}
      BY <3>2 DEF DataOf, DataFrame
    <3>4. tx'[a] = [status |-> "WAITING", transmissions |-> tx[a].transmissions + 1,
                    pdu |-> tx[a].pdu]
      <4>1. tx[a] = TxOf(tx[a]) /\ a \in DOMAIN tx
        BY <1>1, <3>1
      <4> QED
        BY <3>2, <4>1 DEF TxOf
    <3>5. \A b \in Acids : b # a => tx'[b] = tx[b]
      BY <1>1, <3>2
    <3>6. tx' = [b \in Acids |-> tx'[b]]
      BY <1>1, <3>2
    <3>7. \A b \in Acids : tx'[b] = TxOf(tx'[b])
      BY <1>1, <3>4, <3>5 DEF TxOf
    <3> QED
      BY <1>4, <2>1, <3>1, <3>3, <3>4, <3>5, <3>6, <3>7 DEF PutsOnItsWay
  <2>3. ASSUME NEW n, SendUnits(n)
        PROVE  PutsOnItsWay(ToFill) /\ ToFill \in SUBSET Acids
    <3>1. /\ ToFill \subseteq Free /\ \A a, b \in ToFill : a = b
          /\ \A a \in ToFill : ~nr => a = SlotAcid
      <4>1. Free \in SUBSET Acids
        BY DEF Free
      <4> QED
        BY <4>1, LowestIsOne DEF ToFill
    <3>2. PICK pdu : tx' = [a \in Acids |->
                    IF a \in ToFill
                    THEN [status |-> "WAITING", transmissions |-> 1, pdu |-> pdu]
                    ELSE tx[a]]
      <4> DEFINE left == queue - n
                 report == bsrTriggered /\ (nr => left > 0)
                 made == Pdu(n, IF report THEN {left} ELSE {})
      <4>1. tx' = [a \in Acids |->
                    IF a \in ToFill
                    THEN [status |-> "WAITING", transmissions |-> 1, pdu |-> made]
                    ELSE tx[a]]
        BY <2>3 DEF SendUnits
      <4> HIDE DEF made
      <4> QED
        BY <4>1
    <3>3. \A b \in Acids : DataOf(sent', b) <=> b \in ToFill
      <4>1. PICK p : sent' = [sent EXCEPT !.data = {DataFrame(a, p, TRUE) : a \in ToFill}]
        BY <2>3, UnitsAreSent
      <4>2. sent'.data = {DataFrame(a, p, TRUE) : a \in ToFill}
        BY <1>1, <4>1 DEF IsFrames
      <4>3. \A a : DataFrame(a, p, TRUE).acid = a
        BY DEF DataFrame
      <4> QED
        BY <4>2, <4>3 DEF DataOf
    <3>4. \A a \in ToFill : a \in Acids /\ tx[a].status # "WAITING"
      BY <3>1 DEF Free
    <3>5. \A a \in Acids : tx'[a] = TxOf(tx'[a])
      BY <1>1, <3>2 DEF TxOf
    <3>6. \A a \in Acids : tx'[a].status = IF a \in ToFill THEN "WAITING" ELSE tx[a].status
      BY <3>2
    <3>7. tx' = [a \in Acids |-> tx'[a]]
      BY <3>2
    <3> QED
      BY <1>4, <2>1, <3>1, <3>3, <3>4, <3>5, <3>6, <3>7 DEF PutsOnItsWay
  <2>4. CASE SendNoUnits
    BY <1>2, <2>4 DEF SendNoUnits
  <2>5. ToResend \subseteq Acids
    BY DEF ToResend, Lowest, Ready
  <2> QED
    BY <1>4, <2>2, <2>3, <2>4, <2>5 DEF UseGrant
<1>5. CheckRac \/ (UseGrant /\ grant # 0)
  BY DEF UeMainLoop
<1> QED
  BY <1>3, <1>4, <1>5

LEMMA UeFlight ==
    ASSUME Shape, Flight, UeMainLoop
    PROVE  Flight'
<1>1. PICK S \in SUBSET Acids : PutsOnItsWay(S)
  BY UePuts
<1>2. /\ ~ueDone /\ ueDone' /\ UNCHANGED <<nr, rx, due, enbDone>>
      /\ sent'.feedback = sent.feedback
  BY UeFrames DEF UeMainLoop, enbVars, configVars
<1>3. /\ Evaluation' = Evaluation /\ Feedbacks' = Feedbacks /\ Stages' = Stages
      /\ Acids' = Acids
  BY DEF Evaluation, Feedbacks, Acids, Stages
<1>4. Units'
  <2>1. rx' = [a \in Acids |-> RxOf(rx'[a])]
    BY <1>2 DEF Flight, Units, RxOf
  <2>2. tx' = [a \in Acids |-> TxOf(tx'[a])]
    BY <1>1 DEF PutsOnItsWay
  <2>3. \A a \in Acids : tx'[a].status \in {"EMPTY", "WAITING", "BUFFERED"}
    BY <1>1 DEF PutsOnItsWay, Flight, Units
  <2>4. /\ \A a \in Acids : rx'[a].status \in {"EMPTY", "EVALUATING"}
        /\ \A a \in Acids : Busy(a)' =>
              rx'[a].age \in 1..Evaluation /\ rx'[a].result \in BOOLEAN
        /\ sent'.feedback \subseteq Feedbacks /\ due'.feedback \subseteq Feedbacks
    BY <1>2 DEF Flight, Units, Busy
  <2> QED
    BY <1>3, <2>1, <2>2, <2>3, <2>4 DEF Units, TxOf, RxOf
<1>5. InThisSlot'
  BY <1>2, <1>3 DEF Flight, InThisSlot, Busy
<1>6. \A a \in Acids : \A k \in Stages :
         Underway(a, k)' <=> (Underway(a, k) \/ (k = 0 /\ a \in S))
  <2> SUFFICES ASSUME NEW a \in Acids, NEW k \in Stages
               PROVE  Underway(a, k)' <=> (Underway(a, k) \/ (k = 0 /\ a \in S))
    OBVIOUS
  <2>1. DataOf(sent, a)' <=> a \in S
    BY <1>1 DEF PutsOnItsWay, DataOf
  <2>2. ~DataOf(sent, a)
    BY <1>2 DEF DataOf, Flight, InThisSlot
  <2>3. /\ DataOf(due, a)' = DataOf(due, a) /\ FeedbackOf(due, a)' = FeedbackOf(due, a)
        /\ FeedbackOf(sent, a)' = FeedbackOf(sent, a)
        /\ Busy(a)' = Busy(a) /\ rx'[a] = rx[a]
    BY <1>2 DEF DataOf, FeedbackOf, Busy
  <2> QED
    BY <1>3, <2>1, <2>2, <2>3 DEF Underway
<1>7. \A a \in Acids : ~Underway(a, 0)
  BY <1>2, Evaluations DEF Underway, DataOf, Flight, InThisSlot, Units
<1>8. \A a \in S : \A k \in Stages : ~Underway(a, k)
  BY <1>1 DEF PutsOnItsWay, Flight, WaitingIsUnderway
<1>9. WaitingIsUnderway'
  <2>1. \A a \in Acids : tx'[a].status = "WAITING" <=> tx[a].status = "WAITING" \/ a \in S
    BY <1>1 DEF PutsOnItsWay
  <2>2. \A a \in Acids : (\E k \in Stages : Underway(a, k)') <=>
                          (\E k \in Stages : Underway(a, k)) \/ a \in S
    BY <1>6, Evaluations
  <2> QED
    BY <1>3, <2>1, <2>2 DEF Flight, WaitingIsUnderway
<1>10. OneEach'
  <2>1. ASSUME NEW a \in Acids, NEW j \in Stages, NEW k \in Stages,
               Underway(a, j)', Underway(a, k)'
        PROVE  j = k
    BY <1>6, <1>8, <2>1 DEF Flight, OneEach
  <2>2. ASSUME NEW k \in Stages, NEW a \in Acids, NEW b \in Acids,
               Underway(a, k)', Underway(b, k)'
        PROVE  a = b
    <3>1. \A c, d \in S : c = d
      BY <1>1 DEF PutsOnItsWay
    <3> QED
      BY <1>6, <1>7, <2>2, <3>1 DEF Flight, OneEach
  <2> QED
    BY <1>3, <2>1, <2>2 DEF OneEach
<1>11. SlotsCount'
  <2> SUFFICES ASSUME ~nr, NEW a \in Acids, NEW k \in Stages, Underway(a, k)'
               PROVE  firstTx' /\ UsedAcid' = (a + k) % NumProcs
    BY <1>2, <1>3 DEF SlotsCount
  <2>1. CASE Underway(a, k)
    <3>1. firstTx /\ UsedAcid = (a + k) % NumProcs
      BY <2>1 DEF Flight, SlotsCount
    <3>2. firstTx'
      BY <3>1 DEF UeMainLoop, CheckRac, UseGrant
    <3> QED
      BY <3>1, <3>2, UeCounts
  <2>2. CASE k = 0 /\ a \in S
    <3>1. firstTx' /\ grant # 0 /\ a = SlotAcid
      BY <1>1, <2>2 DEF PutsOnItsWay
    <3>2. UsedAcid' = a /\ a + 0 = a
      BY <3>1, UeCounts, Processes DEF Acids
    <3>3. a % NumProcs = a
      BY Processes, ModSmall DEF Acids
    <3> QED
      BY <2>2, <3>1, <3>2, <3>3
  <2> QED
    BY <1>6, <2>1, <2>2
<1> QED
  BY <1>4, <1>5, <1>9, <1>10, <1>11 DEF Flight

(* At the end of the slot every PDU under way moves one stage on, and the  *)
(* one whose feedback arrives leaves the last.                             *)
LEMMA RxAdvances ==
    ASSUME Flight, EndOfSlot
    PROVE  /\ rx' = [a \in Acids |-> RxOf(rx'[a])]
           /\ \A a \in Acids : rx'[a].status \in {"EMPTY", "EVALUATING"}
           /\ \A a \in Acids : Busy(a)' <=> DataOf(due, a) \/ Busy(a)
           /\ \A a \in Acids : DataOf(due, a) =>
                 rx'[a].age = 1 /\ rx'[a].result \in BOOLEAN
           /\ \A a \in Acids : ~DataOf(due, a) /\ Busy(a) =>
                 rx'[a].age = rx[a].age + 1 /\ rx'[a].result = rx[a].result
<1>1. PICK decoded \in BOOLEAN :
          rx' = [a \in Acids |->
                   IF \E f \in due.data : f.acid = a
                   THEN [status |-> "EVALUATING",
                         pdu |-> (CHOOSE f \in due.data : f.acid = a).pdu,
                         result |-> decoded, age |-> 1]
                   ELSE Aged(a)]
  BY DEF EndOfSlot, DataArrives
<1>2. rx' = [a \in Acids |-> rx'[a]]
  BY <1>1
<1>3. ASSUME NEW a \in Acids
      PROVE  /\ rx'[a] = RxOf(rx'[a]) /\ rx'[a].status \in {"EMPTY", "EVALUATING"}
             /\ Busy(a)' <=> DataOf(due, a) \/ Busy(a)
             /\ DataOf(due, a) => rx'[a].age = 1 /\ rx'[a].result \in BOOLEAN
             /\ ~DataOf(due, a) /\ Busy(a) =>
                   rx'[a].age = rx[a].age + 1 /\ rx'[a].result = rx[a].result
  <2>1. CASE DataOf(due, a)
    <3> DEFINE p == (CHOOSE f \in due.data : f.acid = a).pdu
    <3>1. rx'[a] = [status |-> "EVALUATING", pdu |-> p, result |-> decoded, age |-> 1]
      BY <1>1, <2>1 DEF DataOf
    <3> HIDE DEF p
    <3> QED
      BY <2>1, <3>1 DEF RxOf, Busy
  <2>2. CASE ~DataOf(due, a)
    <3>1. rx'[a] = Aged(a)
      BY <1>1, <2>2 DEF DataOf
    <3>2. rx[a] = RxOf(rx[a]) /\ rx[a].status \in {"EMPTY", "EVALUATING"}
      BY DEF Flight, Units
    <3> QED
      BY <2>2, <3>1, <3>2 DEF Aged, RxOf, Busy
  <2> QED
    BY <2>1, <2>2
<1> QED
  BY <1>2, <1>3

LEMMA TxAdvances ==
    ASSUME Flight, EndOfSlot
    PROVE  /\ tx' = [a \in Acids |-> TxOf(tx'[a])]
           /\ \A a \in Acids : FeedbackOf(due, a) => tx'[a].status \in {"EMPTY", "BUFFERED"}
           /\ \A a \in Acids : ~FeedbackOf(due, a) => tx'[a].status = tx[a].status
<1>1. tx' = [a \in Acids |->
                IF Settled(a) THEN EmptyTx
                ELSE IF Nacked(a) THEN [tx[a] EXCEPT !.status = "BUFFERED"]
                ELSE tx[a]]
  BY DEF EndOfSlot, FeedbackArrives
<1>2. ASSUME NEW a \in Acids
      PROVE  /\ tx'[a] = TxOf(tx'[a])
             /\ FeedbackOf(due, a) => tx'[a].status \in {"EMPTY", "BUFFERED"}
             /\ ~FeedbackOf(due, a) => tx'[a].status = tx[a].status
  <2>1. tx[a] = TxOf(tx[a])
    BY DEF Flight, Units
  <2>2. EmptyTx = TxOf(EmptyTx) /\ EmptyTx.status = "EMPTY"
    BY DEF EmptyTx, TxOf
  <2>3. [tx[a] EXCEPT !.status = "BUFFERED"] =
          [status |-> "BUFFERED", transmissions |-> tx[a].transmissions, pdu |-> tx[a].pdu]
    BY <2>1 DEF TxOf
  <2>4. FeedbackOf(due, a) <=> Feedback(a, TRUE) \in due.feedback \/ Nacked(a)
    <3>1. \A f \in due.feedback : f = Feedback(f.acid, f.ack) /\ f.ack \in BOOLEAN
      BY DEF Flight, Units, Feedbacks, Feedback
    <3>2. Feedback(a, TRUE).acid = a /\ Feedback(a, FALSE).acid = a
      BY DEF Feedback
    <3> QED
      BY <3>1, <3>2 DEF FeedbackOf, Nacked
  <2>5. CASE Settled(a)
    <3>1. tx'[a] = EmptyTx /\ FeedbackOf(due, a)
      BY <1>1, <2>4, <2>5 DEF Settled, Nacked
    <3> QED
      BY <2>2, <3>1
  <2>6. CASE ~Settled(a) /\ Nacked(a)
    <3>1. tx'[a] = [status |-> "BUFFERED", transmissions |-> tx[a].transmissions,
                    pdu |-> tx[a].pdu]
      BY <1>1, <2>3, <2>6
    <3> QED
      BY <2>4, <2>6, <3>1 DEF TxOf
  <2>7. CASE ~Settled(a) /\ ~Nacked(a)
    <3>1. tx'[a] = tx[a] /\ ~FeedbackOf(due, a)
      BY <1>1, <2>4, <2>7 DEF Settled
    <3> QED
      BY <2>1, <3>1
  <2> QED
    BY <2>5, <2>6, <2>7
<1>3. tx' = [a \in Acids |-> tx'[a]]
  BY <1>1
<1> QED
  BY <1>2, <1>3

LEMMA SlotFlight ==
    ASSUME EnoughProcesses, Shape, Flight, EndOfSlot
    PROVE  Flight'
<1>1. /\ enbDone /\ ueDone /\ ~enbDone' /\ ~ueDone'
      /\ UNCHANGED <<nr, firstTx, currentHarq>>
      /\ sent' = Quiet
      /\ due'.data = sent.data /\ due'.feedback = sent.feedback
  BY DEF EndOfSlot, configVars, Shape, IsFrames
<1>2. /\ Evaluation' = Evaluation /\ Feedbacks' = Feedbacks /\ Stages' = Stages
      /\ Acids' = Acids
  BY DEF Evaluation, Feedbacks, Acids, Stages
<1>3. /\ sent'.data = {} /\ sent'.feedback = {}
  BY <1>1 DEF Quiet
<1>4. /\ \A a \in Acids : ~DataOf(sent, a)' /\ ~FeedbackOf(sent, a)'
      /\ \A a \in Acids : DataOf(due, a)' <=> DataOf(sent, a)
      /\ \A a \in Acids : FeedbackOf(due, a)' <=> FeedbackOf(sent, a)
  BY <1>1, <1>3 DEF DataOf, FeedbackOf
<1>5. \A a \in Acids : Busy(a) => rx[a].age \in 1..Evaluation /\ rx[a].age < Evaluation
  BY <1>1 DEF Flight, Units, InThisSlot
<1>6. Units'
  <2>1. \A a \in Acids : Busy(a)' => rx'[a].age \in 1..Evaluation /\ rx'[a].result \in BOOLEAN
    <3> SUFFICES ASSUME NEW a \in Acids, Busy(a)'
                 PROVE  rx'[a].age \in 1..Evaluation /\ rx'[a].result \in BOOLEAN
      OBVIOUS
    <3>1. CASE DataOf(due, a)
      BY <3>1, RxAdvances, Evaluations
    <3>2. CASE ~DataOf(due, a)
      <4>1. Busy(a) /\ rx'[a].age = rx[a].age + 1 /\ rx'[a].result = rx[a].result
        BY <3>2, RxAdvances
      <4>2. rx[a].result \in BOOLEAN
        BY <4>1 DEF Flight, Units
      <4> QED
        BY <1>5, <4>1, <4>2, Evaluations
    <3> QED
      BY <3>1, <3>2
  <2>2. \A a \in Acids : tx'[a].status \in {"EMPTY", "WAITING", "BUFFERED"}
    <3> SUFFICES ASSUME NEW a \in Acids
                 PROVE  tx'[a].status \in {"EMPTY", "WAITING", "BUFFERED"}
      OBVIOUS
    <3>1. tx[a].status \in {"EMPTY", "WAITING", "BUFFERED"}
      BY DEF Flight, Units
    <3>2. CASE FeedbackOf(due, a)
      BY <3>2, TxAdvances
    <3>3. CASE ~FeedbackOf(due, a)
      BY <3>1, <3>3, TxAdvances
    <3> QED
      BY <3>2, <3>3
  <2>3. sent'.feedback \subseteq Feedbacks /\ due'.feedback \subseteq Feedbacks
    BY <1>1, <1>3 DEF Flight, Units
  <2> QED
    BY <1>2, <2>1, <2>2, <2>3, RxAdvances, TxAdvances DEF Units, TxOf, RxOf
<1>7. InThisSlot'
  BY <1>1, <1>3 DEF InThisSlot
<1>8. ASSUME NEW a \in Acids, NEW k \in Stages, Underway(a, k)'
      PROVE  k - 1 \in Stages /\ Underway(a, k - 1)
  <2>1. CASE k = 1 /\ DataOf(sent, a)
    BY <2>1, Evaluations DEF Underway
  <2>2. CASE Busy(a)' /\ k = rx'[a].age + 1 /\ DataOf(due, a)
    <3>1. k = 2
      BY <2>2, RxAdvances
    <3> QED
      BY <2>2, <3>1, Evaluations DEF Underway
  <2>3. CASE Busy(a)' /\ k = rx'[a].age + 1 /\ ~DataOf(due, a)
    <3>1. Busy(a) /\ rx'[a].age = rx[a].age + 1
      BY <2>3, RxAdvances
    <3>2. k - 1 = rx[a].age + 1 /\ rx[a].age \in 1..Evaluation
      BY <1>5, <2>3, <3>1
    <3> QED
      BY <3>1, <3>2, Evaluations DEF Underway, Stages
  <2>4. CASE k = Evaluation + 2 /\ FeedbackOf(sent, a)
    <3>1. k - 1 = Evaluation + 1
      BY <2>4, Evaluations
    <3> QED
      BY <2>4, <3>1, Evaluations DEF Underway
  <2> QED
    BY <1>2, <1>4, <1>8, <2>1, <2>2, <2>3, <2>4 DEF Underway
<1>9. ASSUME NEW a \in Acids, NEW k \in Stages, Underway(a, k), ~FeedbackOf(due, a)
      PROVE  k + 1 \in Stages /\ Underway(a, k + 1)'
  <2>1. CASE k = 0 /\ DataOf(sent, a)
    BY <1>4, <2>1, Evaluations DEF Underway
  <2>2. CASE k = 1 /\ DataOf(due, a)
    <3>1. Busy(a)' /\ rx'[a].age = 1
      BY <2>2, RxAdvances
    <3> QED
      BY <2>2, <3>1, Evaluations DEF Underway, Stages
  <2>3. CASE Busy(a) /\ k = rx[a].age + 1
    <3>1. ~DataOf(due, a)
      <4>1. DataOf(due, a) => Underway(a, 1)
        BY DEF Underway
      <4>2. k # 1
        BY <1>5, <2>3, Evaluations
      <4> QED
        BY <1>9, <4>1, <4>2, Evaluations DEF Flight, OneEach
    <3>2. Busy(a)' /\ rx'[a].age = rx[a].age + 1
      BY <2>3, <3>1, RxAdvances
    <3>3. k + 1 = rx'[a].age + 1
      BY <2>3, <3>2
    <3>4. k + 1 \in Stages
      BY <1>5, <2>3, Evaluations DEF Stages
    <3> QED
      BY <3>2, <3>3, <3>4 DEF Underway
  <2>4. CASE k = Evaluation + 1 /\ FeedbackOf(sent, a)
    <3>1. k + 1 = Evaluation + 2
      BY <2>4, Evaluations
    <3> QED
      BY <1>2, <1>4, <2>4, <3>1, Evaluations DEF Underway
  <2> QED
    BY <1>9, <2>1, <2>2, <2>3, <2>4 DEF Underway
<1>10. WaitingIsUnderway'
  <2> SUFFICES ASSUME NEW a \in Acids
               PROVE  tx'[a].status = "WAITING" <=> \E k \in Stages : Underway(a, k)'
    BY <1>2 DEF WaitingIsUnderway
  <2>1. tx[a].status = "WAITING" <=> \E k \in Stages : Underway(a, k)
    BY DEF Flight, WaitingIsUnderway
  <2>2. CASE FeedbackOf(due, a)
    <3>1. Underway(a, Evaluation + 2)
      BY <2>2 DEF Underway
    <3>2. \A k \in Stages : Underway(a, k) => k = Evaluation + 2
      BY <3>1, Evaluations DEF Flight, OneEach
    <3>3. \A k \in Stages : ~Underway(a, k)'
      BY <1>8, <3>2, Evaluations DEF Stages
    <3> QED
      BY <2>2, <3>3, TxAdvances
  <2>3. CASE ~FeedbackOf(due, a)
    <3>1. tx'[a].status = tx[a].status
      BY <2>3, TxAdvances
    <3>2. ASSUME NEW k \in Stages, Underway(a, k)
          PROVE  \E j \in Stages : Underway(a, j)'
      BY <1>9, <2>3, <3>2
    <3>3. ASSUME NEW k \in Stages, Underway(a, k)'
          PROVE  \E j \in Stages : Underway(a, j)
      BY <1>8, <3>3
    <3> QED
      BY <2>1, <3>1, <3>2, <3>3
  <2> QED
    BY <2>2, <2>3
<1>11. OneEach'
  <2>1. ASSUME NEW a \in Acids, NEW j \in Stages, NEW k \in Stages,
               Underway(a, j)', Underway(a, k)'
        PROVE  j = k
    <3>1. j - 1 = k - 1
      BY <1>8, <2>1 DEF Flight, OneEach
    <3> QED
      BY <3>1, Evaluations
  <2>2. ASSUME NEW k \in Stages, NEW a \in Acids, NEW b \in Acids,
               Underway(a, k)', Underway(b, k)'
        PROVE  a = b
    BY <1>8, <2>2 DEF Flight, OneEach
  <2> QED
    BY <1>2, <2>1, <2>2 DEF OneEach
<1>12. SlotsCount'
  <2> SUFFICES ASSUME ~nr, NEW a \in Acids, NEW k \in Stages, Underway(a, k)'
               PROVE  firstTx /\ UsedAcid' = (a + k) % NumProcs
    BY <1>1, <1>2 DEF SlotsCount
  <2>1. k - 1 \in Stages /\ Underway(a, k - 1)
    BY <1>8
  <2>2. firstTx /\ UsedAcid = (a + (k - 1)) % NumProcs
    BY <2>1 DEF Flight, SlotsCount
  <2>3. UsedAcid' = currentHarq
        /\ UsedAcid = IF currentHarq = 0 THEN NumProcs - 1 ELSE currentHarq - 1
    BY BothCount
  <2>4. currentHarq \in Acids
    BY DEF Shape
  <2>5. k \in 0..NumProcs - 1 /\ k - 1 \in 0..NumProcs - 1
    BY <2>1, LastStage, Evaluations, Processes DEF Stages
  <2>6. (a + (k - 1)) % NumProcs =
          IF a + (k - 1) < NumProcs THEN a + (k - 1) ELSE a + (k - 1) - NumProcs
    BY <2>5, Steps
  <2>7. (a + k) % NumProcs = IF a + k < NumProcs THEN a + k ELSE a + k - NumProcs
    BY <2>5, Steps
  <2> QED
    BY <2>2, <2>3, <2>4, <2>5, <2>6, <2>7, Processes DEF Acids
<1> QED
  BY <1>6, <1>7, <1>10, <1>11, <1>12 DEF Flight

LEMMA FlightKeeps ==
    ASSUME Flight,
           UNCHANGED <<nr, tx, rx, sent, due, enbDone, ueDone, firstTx, currentHarq>>
    PROVE  Flight'
<1>1. /\ Evaluation' = Evaluation /\ Feedbacks' = Feedbacks /\ Stages' = Stages
      /\ Acids' = Acids /\ UsedAcid' = UsedAcid
  BY DEF Evaluation, Feedbacks, Acids, Stages, UsedAcid
<1>2. \A a : Busy(a)' = Busy(a)
  BY DEF Busy
<1>3. \A a : \A k : Underway(a, k)' <=> Underway(a, k)
  BY <1>1, <1>2 DEF Underway, DataOf, FeedbackOf
<1>4. Units'
  BY <1>1, <1>2 DEF Flight, Units, TxOf, RxOf
<1>5. InThisSlot'
  BY <1>1, <1>2 DEF Flight, InThisSlot
<1>6. WaitingIsUnderway' /\ OneEach' /\ SlotsCount'
  BY <1>1, <1>3 DEF Flight, WaitingIsUnderway, OneEach, SlotsCount
<1> QED
  BY <1>4, <1>5, <1>6 DEF Flight

LEMMA LowestExists ==
    ASSUME NEW S \in SUBSET Acids, S # {}
    PROVE  Lowest(S) # {}
<1>1. S \subseteq Nat
  BY Processes DEF Acids
<1>2. PICK a \in S : \A b \in S : ~(<<b, a>> \in OpToRel(<, Nat))
  BY <1>1, NatLessThanWellFounded, WFMin, Zenon
<1>3. \A b \in S : ~(b < a)
  BY <1>1, <1>2 DEF OpToRel
<1>4. a \in Lowest(S)
  BY <1>1, <1>3 DEF Lowest
<1> QED
  BY <1>4

(* An NR UE has a process that waits for nothing: one is sent in a slot,   *)
(* and there are more processes than slots until the answer.               *)
LEMMA NotAllWait ==
    ASSUME EnoughProcesses, Flight, ~ueDone
    PROVE  \E a \in Acids : tx[a].status # "WAITING"
<1> SUFFICES ASSUME \A a \in Acids : tx[a].status = "WAITING" PROVE FALSE
  OBVIOUS
<1> DEFINE stage == [a \in Acids |-> CHOOSE k \in Stages : Underway(a, k)]
           Sent == 1..Evaluation + 2
<1>1. \A a \in Acids : \E k \in Stages : Underway(a, k)
  BY DEF Flight, WaitingIsUnderway
<1>2. \A a \in Acids : stage[a] \in Stages /\ Underway(a, stage[a])
  BY <1>1
<1>3. \A a \in Acids : ~Underway(a, 0)
  BY Evaluations DEF Underway, DataOf, Flight, InThisSlot, Units
<1>4. \A a \in Acids : stage[a] \in Sent
  <2> SUFFICES ASSUME NEW a \in Acids PROVE stage[a] \in Sent
    OBVIOUS
  <2>1. stage[a] \in Stages /\ stage[a] # 0
    BY <1>2, <1>3
  <2> HIDE DEF stage
  <2> QED
    BY <2>1, Evaluations DEF Stages
<1>5. stage \in [Acids -> Sent]
  BY <1>4
<1>6. IsFiniteSet(Sent) /\ IsFiniteSet(Acids) /\ Cardinality(Sent) < Cardinality(Acids)
  <2>1. IsFiniteSet(Sent) /\ Cardinality(Sent) = Evaluation + 2
    BY FS_Interval, Evaluations
  <2>2. IsFiniteSet(Acids) /\ Cardinality(Acids) = NumProcs
    BY FS_Interval, Processes DEF Acids
  <2> QED
    BY <2>1, <2>2, LastStage, Processes
<1> HIDE DEF stage, Sent
<1>7. PICK a, b \in Acids : a # b /\ stage[a] = stage[b]
  BY <1>5, <1>6, FS_PigeonHole
<1> QED
  BY <1>2, <1>7 DEF Flight, OneEach

LEMMA FlightIsSafe ==
    ASSUME EnoughProcesses, Shape, Flight
    PROVE  NeverThrows
<1>1. ASSUME NEW f \in due.data PROVE Insertable(f)
  <2>1. f.acid \in Acids
    BY DEF Shape, AcidsIn
  <2>2. Underway(f.acid, 1)
    BY DEF Underway, DataOf
  <2>3. Busy(f.acid) => rx[f.acid].age + 1 \in Stages /\ rx[f.acid].age + 1 # 1
                        /\ Underway(f.acid, rx[f.acid].age + 1)
    BY <2>1, Evaluations DEF Underway, Flight, Units, Stages
  <2> QED
    BY <2>1, <2>2, <2>3, Evaluations DEF Flight, OneEach, Insertable, Busy
<1>2. ASSUME NEW f \in due.feedback PROVE Expected(f)
  <2>1. f.acid \in Acids
    BY DEF Flight, Units, Feedbacks
  <2>2. Underway(f.acid, Evaluation + 2)
    BY DEF Underway, FeedbackOf
  <2> QED
    BY <2>1, <2>2, Evaluations DEF Flight, WaitingIsUnderway, Expected
<1>3. ASSUME ~ueDone, ToResend = {} PROVE ToFill # {}
  <2>1. Ready \in SUBSET Acids /\ Free \in SUBSET Acids
    BY DEF Ready, Free
  <2>2. CASE nr
    <3>1. Ready = {}
      BY <1>3, <2>1, <2>2, LowestExists DEF ToResend
    <3>2. PICK a \in Acids : tx[a].status # "WAITING"
      BY <1>3, NotAllWait
    <3>3. a \in Free
      <4>1. tx[a].status \in {"EMPTY", "WAITING", "BUFFERED"}
        BY DEF Flight, Units
      <4> QED
        BY <3>1, <3>2, <4>1 DEF Ready, Free
    <3> QED
      BY <2>1, <2>2, <3>3, LowestExists DEF ToFill
  <2>3. CASE ~nr
    <3> DEFINE a == SlotAcid
    <3>1. a \in Acids
      BY SlotAcidIsAcid
    <3>2. ASSUME NEW k \in Stages, Underway(a, k) PROVE FALSE
      <4>1. k # 0
        BY <1>3, <3>1, <3>2, Evaluations DEF Underway, DataOf, Flight, InThisSlot, Units
      <4>2. firstTx /\ UsedAcid = (a + k) % NumProcs
        BY <2>3, <3>1, <3>2 DEF Flight, SlotsCount
      <4>3. UsedAcid = a
        BY <1>3, <4>2 DEF UsedAcid, SlotAcid
      <4>4. k \in 0..NumProcs - 1
        BY LastStage, Evaluations, Processes DEF Stages
      <4> HIDE DEF a
      <4>5. (a + k) % NumProcs = IF a + k < NumProcs THEN a + k ELSE a + k - NumProcs
        BY <3>1, <4>4, Steps
      <4> QED
        BY <3>1, <4>1, <4>2, <4>3, <4>4, <4>5, Processes DEF Acids
    <3>3. tx[a].status # "WAITING"
      BY <3>1, <3>2 DEF Flight, WaitingIsUnderway
    <3>4. tx[a].status # "BUFFERED"
      BY <1>3, <2>3, <3>1 DEF ToResend, Ready
    <3>5. a \in Free
      BY <3>1, <3>3, <3>4 DEF Free, Flight, Units
    <3> QED
      BY <2>3, <3>5 DEF ToFill
  <2> QED
    BY <2>2, <2>3
<1> QED
  BY <1>1, <1>2, <1>3 DEF NeverThrows

(* NeverThrows: no PDU reaches a busy process of the base station, no      *)
(* feedback a process of the UE that does not wait for it, and the UE that *)
(* is granted a slot has a process for its PDU, in LTE and in NR, whatever *)
(* is granted or decoded, as soon as there are more processes than slots   *)
(* between a PDU and its answer (LteHarqProcessRx.cc:45,                   *)
(* LteHarqUnitTx.cc:176, LteMacUe.cc:704).                                 *)
THEOREM NothingThrows ==
    ASSUME EnoughProcesses
    PROVE  Spec => []NeverThrows
<1>1. Init => Shape /\ Flight
  BY Start, FlightStart DEF IInv
<1>2. IInv /\ Flight /\ [Next]_vars => Flight'
  <2> SUFFICES ASSUME IInv, Flight, [Next]_vars PROVE Flight'
    OBVIOUS
  <2>1. CASE NewData
    BY <2>1, FlightKeeps DEF NewData, configVars, ueVars, enbVars
  <2>2. CASE EnbMainLoop
    BY <2>2, EnbFlight DEF IInv
  <2>3. CASE UeMainLoop
    BY <2>3, UeFlight DEF IInv
  <2>4. CASE EndOfSlot
    BY <2>4, SlotFlight DEF IInv
  <2>5. CASE UNCHANGED vars
    BY <2>5, FlightKeeps DEF vars, configVars, ueVars, enbVars
  <2> QED
    BY <2>1, <2>2, <2>3, <2>4, <2>5 DEF Next, Slot
<1>3. IInv /\ Flight => NeverThrows
  BY FlightIsSafe DEF IInv
<1> QED
  BY <1>1, <1>2, <1>3, PhasesFollow, PTL DEF Spec
=============================================================================
