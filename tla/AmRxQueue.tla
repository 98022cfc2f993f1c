------------------------------ MODULE AmRxQueue ------------------------------
(***************************************************************************)
(* The receiving entity of RLC AM (stack/rlc/am/buffer/AmRxQueue.cc): it   *)
(* keeps DATA PDUs in a window, passes an SDU up when its PDUs are all     *)
(* there, reports what it has to the transmitter and moves its window when *)
(* an MRW command says so.  PDUs that leave the window before their SDU is *)
(* complete go to a side buffer (pending).                                 *)
(*                                                                         *)
(* As in AmTxQueue, an action that throws changes rxErr alone.  discard    *)
(* and computeWindowShift have no caller in the code and are left out, and *)
(* with them discarded_, which nothing else sets.                          *)
(***************************************************************************)
EXTENDS RlcAmPdu, FiniteSetsExt

CONSTANT
    MaxCtl      \* bound: control PDUs waiting in the reverse pduBuffer_

VARIABLES
    rxFirst,    \* rxWindowDesc_.firstSeqNum_
    rxSeq,      \* rxWindowDesc_.seqNum_: the next sequence number expected
    rBuf,       \* pduBuffer_, by window index
    rReceived,  \* received_, by window index
    pending,    \* pendingPduBuffer_
    firstSdu,   \* firstSdu_, -1 when unknown
    statusTimer,\* timer_.busy()
    ackReady,   \* ackReportInterval_ has passed since lastSentAck_
    flowInfo,   \* flowControlInfo_ is set
    ctlBuf,     \* ACK and MRW_ACK PDUs in the pduBuffer_ of the reverse AmTxQueue
    delivered,  \* history: SDUs passed up, with the PDUs they were built from
    rxErr       \* "none", or the error that ended the simulation

bufferVars == <<rBuf, rReceived, pending, firstSdu>>
rxVars == <<rxFirst, rxSeq, bufferVars, statusTimer, ackReady, flowInfo, ctlBuf,
            delivered, rxErr>>

RxSlots == 0..(RxW - 1)

RxInit ==
    /\ rxFirst = 0 /\ rxSeq = 0
    /\ rBuf = [i \in RxSlots |-> NoPdu]
    /\ rReceived = [i \in RxSlots |-> FALSE]
    /\ pending = <<>> /\ firstSdu = 0
    /\ statusTimer = FALSE /\ ackReady = FALSE /\ flowInfo = FALSE
    /\ ctlBuf = <<>> /\ delivered = <<>>
    /\ rxErr = "none"

RxErrors == {"outOfWindow", "mrwBeyondWindow", "noFlowInfo", "nullSlot",
             "overlap", "inconsistentBuffer", "mixedPending", "missingFrame"}

RxThrow(e) ==
    /\ rxErr' = e
    /\ UNCHANGED <<rxFirst, rxSeq, bufferVars, statusTimer, ackReady, flowInfo,
                   ctlBuf, delivered>>

\* The contents of pending and delivered are the business of the properties of
\* RlcAm (DeliveredIntact, NoSilentLoss).
RxTypeOK ==
    /\ rxFirst \in Nat /\ rxSeq \in Nat
    /\ rBuf \in [RxSlots -> DataPdu \cup {NoPdu}]
    /\ rReceived \in [RxSlots -> BOOLEAN]
    /\ firstSdu \in Nat \cup {-1}
    /\ statusTimer \in BOOLEAN /\ ackReady \in BOOLEAN /\ flowInfo \in BOOLEAN
    /\ ctlBuf \in Seq(AckPdu \cup MrwAckPdu)
    /\ rxErr \in RxErrors \cup {"none"}

-----------------------------------------------------------------------------
\* sendStatusReport: a cumulative ACK for the c PDUs received without a gap and
\* a bitmap for the rest of the window; nothing while the last report is
\* younger than ackReportInterval_.
\* Mutant of Cumulative: a gap of one PDU is overlooked.
CumulativeOverGap(c, received) ==
    /\ c \in 0..RxW
    /\ \A i \in 1..(c - 1) : received[i]
    /\ c < RxW /\ c > 0 => ~received[c]

Cumulative(c, received) ==
    /\ c \in 0..RxW
    /\ \A i \in 0..(c - 1) : received[i]
    /\ c < RxW => ~received[c]

SendStatusReport(received) ==
    \/ ~ackReady /\ UNCHANGED <<ctlBuf, ackReady>>
    \/ /\ ackReady
       /\ Len(ctlBuf) < MaxCtl
       /\ ackReady' = FALSE
       /\ \E c \in 0..RxW :
            /\ Cumulative(c, received)
            /\ ctlBuf' = Append(ctlBuf,
                 Ack(rxFirst + c - 1,
                     {rxFirst + i : i \in {j \in c..(RxW - 1) : received[j]}}))

\* ackReportInterval_ passes.
AckInterval ==
    /\ ~ackReady
    /\ ackReady' = TRUE
    /\ UNCHANGED <<rxFirst, rxSeq, bufferVars, statusTimer, flowInfo, ctlBuf,
                   delivered, rxErr>>

\* Mutant of HoldsPdus: the status timer runs on only for pending fragments.
HoldsPending == pending # <<>>

HoldsPdus == \E i \in RxSlots : rBuf[i] # NoPdu

\* handleMessage: the status timer fires.  It runs on while the buffer holds a
\* PDU, passed up or not.
StatusTimer ==
    /\ statusTimer
    /\ SendStatusReport(rReceived)
    /\ statusTimer' = HoldsPdus
    /\ UNCHANGED <<rxFirst, rxSeq, bufferVars, flowInfo, delivered, rxErr>>

-----------------------------------------------------------------------------
\* checkCompleteSdu: the index of the first PDU of the SDU that the PDU at x
\* completes, Incomplete, or Broken when the buffer is inconsistent.
Incomplete == -1
Inconsistent == -2

\* A search through the neighbours of x ends at the first of these slots.
EndsSearch(buf, received, x, i) ==
    \/ ~received[i] \/ buf[i] = NoPdu
    \/ buf[i].sdu # buf[x].sdu \/ IsFirst(buf[i]) \/ IsLast(buf[i])

Verdict(buf, received, x, i, Wanted(_), found) ==
    IF ~received[i] THEN Incomplete
    ELSE IF buf[i] # NoPdu /\ buf[i].sdu = buf[x].sdu /\ Wanted(buf[i])
    THEN found
    ELSE Inconsistent

\* A PDU in the middle of its SDU at index 0 counts on pending for the PDUs
\* before it.  At any other index, a search that reaches the start of the
\* window without a first PDU fails, whatever pending holds.
FirstIndex(buf, received, sduAtStart, x) ==
    LET ends == {i \in 0..(x - 1) : EndsSearch(buf, received, x, i)} IN
    CASE IsFirst(buf[x]) -> x
      [] ~IsFirst(buf[x]) /\ x = 0 ->
            IF sduAtStart = buf[x].sdu THEN 0 ELSE Inconsistent
      [] ~IsFirst(buf[x]) /\ x > 0 ->
            IF ends = {} THEN Incomplete
            ELSE Verdict(buf, received, x, Max(ends), IsFirst, Max(ends))

CompleteSdu(buf, received, sduAtStart, x) ==
    LET start == FirstIndex(buf, received, sduAtStart, x)
        ends == {i \in (x + 1)..(RxW - 1) : EndsSearch(buf, received, x, i)}
    IN
    IF start < 0 \/ IsLast(buf[x]) THEN start
    ELSE IF ends = {} THEN Incomplete
    ELSE Verdict(buf, received, x, Min(ends), IsLast, start)

-----------------------------------------------------------------------------
\* The position of i among the members of S.
Rank(S, i) == Cardinality({j \in S : j <= i})

\* The PDUs that f holds at the indices of S, in the order of the indices: what a
\* loop over f collects that takes the PDUs at S and skips the others.
InOrder(f, S) ==
    [k \in 1..Cardinality(S) |-> f[CHOOSE i \in S : Rank(S, i) = k]]

\* passUp(x): the PDUs of the SDU are taken from pending, when the PDU at x is
\* at the start of the window and not the first of its SDU, and then from the
\* buffer, onwards from x and around, until there are as many as the SDU has.

FromPending(buf, x) ==
    IF x = 0 /\ ~IsFirst(buf[x]) THEN pending ELSE <<>>

MixedPending(buf, x) ==
    \E k \in DOMAIN FromPending(buf, x) : pending[k].sdu # buf[x].sdu

Visited(buf, x) ==
    LET size == Max({i \in RxSlots : buf[i] # NoPdu}) + 1
        around == [k \in 1..size |-> buf[(x + k - 1) % size]]
        missing == buf[x].last - buf[x].first + 1 - Len(FromPending(buf, x))
        OfSdu(k) == around[k] # NoPdu /\ around[k].sdu = buf[x].sdu
        enough == {n \in 0..size :
                     Cardinality({k \in 1..n : OfSdu(k)}) >= missing}
    IN SubSeq(around, 1, IF enough = {} THEN size ELSE Min(enough))

Frames(buf, x) ==
    LET visited == Visited(buf, x) IN
    FromPending(buf, x) \o
        InOrder(visited, {k \in DOMAIN visited : visited[k].sdu = buf[x].sdu})

PassUp(buf, x) ==
    /\ pending' = IF FromPending(buf, x) = <<>> THEN pending ELSE <<>>
    /\ delivered' = Append(delivered,
          [sdu |-> buf[x].sdu, frames |-> Frames(buf, x)])

-----------------------------------------------------------------------------
\* enque, DATA.  Out of sequence (p.sno # rxSeq), a status report goes out
\* before the PDU is looked at; after an SDU has been passed up, another one
\* does, if the interval allows.  rxSeq follows the PDU that came last.
SduAtStart(p) == IF firstSdu = -1 THEN p.sdu ELSE firstSdu

EarlyReport(p) == IF p.sno = rxSeq THEN UNCHANGED <<ctlBuf, ackReady>>
                                   ELSE SendStatusReport(rReceived)

Noted(p) ==
    /\ statusTimer' = TRUE /\ flowInfo' = TRUE
    /\ rxSeq' = p.sno + 1
    /\ UNCHANGED <<rxFirst, rxErr>>

StoreData(p) ==
    LET x == p.sno - rxFirst
        buf == [rBuf EXCEPT ![x] = p]
        received == [rReceived EXCEPT ![x] = TRUE]
        start == CompleteSdu(buf, received, SduAtStart(p), x)
        Stored == rBuf' = buf /\ rReceived' = received /\ firstSdu' = SduAtStart(p)
        MissingFrame == \E k \in DOMAIN Visited(buf, start) :
                            Visited(buf, start)[k] = NoPdu
    IN
    \/ start = Inconsistent /\ RxThrow("inconsistentBuffer")
    \/ start >= 0 /\ MixedPending(buf, start) /\ RxThrow("mixedPending")
    \/ /\ start >= 0 /\ ~MixedPending(buf, start) /\ MissingFrame
       /\ RxThrow("missingFrame")
    \/ /\ start = Incomplete
       /\ Noted(p) /\ Stored /\ EarlyReport(p)
       /\ UNCHANGED <<pending, delivered>>
    \/ /\ start >= 0 /\ ~MixedPending(buf, start) /\ ~MissingFrame
       /\ Noted(p) /\ Stored /\ PassUp(buf, start)
       /\ SendStatusReport(IF p.sno # rxSeq THEN rReceived ELSE received)

RecvData(p) ==
    LET x == p.sno - rxFirst IN
    \/ /\ x < 0
       /\ statusTimer' = TRUE /\ flowInfo' = TRUE
       /\ UNCHANGED <<rxFirst, rxSeq, bufferVars, ackReady, ctlBuf, delivered,
                      rxErr>>
    \/ x >= RxW /\ RxThrow("outOfWindow")
    \/ x \in RxSlots /\ ~rReceived[x] /\ StoreData(p)
    \/ /\ x \in RxSlots /\ rReceived[x]
       /\ \/ rBuf[x] = NoPdu /\ RxThrow("nullSlot")
          \/ rBuf[x] # NoPdu /\ rBuf[x].sdu # p.sdu /\ RxThrow("overlap")
          \/ /\ rBuf[x] # NoPdu /\ rBuf[x].sdu = p.sdu
             /\ Noted(p) /\ EarlyReport(p)
             /\ UNCHANGED <<bufferVars, delivered>>

-----------------------------------------------------------------------------
\* Mutants of ShiftedFlags: the loop starts one too far; everything is cleared.
ShiftedFlagsFromNext(pos) == [i \in RxSlots |->
    IF i = 0 THEN rReceived[i]
    ELSE IF i + pos < RxW THEN rReceived[i + pos] ELSE i < pos /\ rReceived[i]]
ShiftedFlagsReset(pos) == [i \in RxSlots |-> FALSE]

\* moveRxWindow by pos slots.  The flags are shifted within one vector, each
\* old position being cleared after it has been copied: a position below pos
\* that nothing is copied to (i + pos >= RxW) keeps its old flag.
ShiftedFlags(pos) == [i \in RxSlots |->
    IF i + pos < RxW THEN rReceived[i + pos] ELSE i < pos /\ rReceived[i]]

ShiftedPdus(pos) == [i \in RxSlots |->
    IF i + pos < RxW THEN rBuf[i + pos] ELSE NoPdu]

\* The PDUs shifted out are put into pending; the last PDU of an SDU empties it.
ShiftedOut(pos) ==
    LET lasts == {i \in 0..(pos - 1) : rBuf[i] # NoPdu /\ IsLast(rBuf[i])}
        from == IF lasts = {} THEN 0 ELSE Max(lasts) + 1
    IN (IF lasts = {} THEN pending ELSE <<>>)
          \o InOrder(rBuf, {i \in from..(pos - 1) : rBuf[i] # NoPdu})

\* Mutant of SduAfter: firstSdu is not updated.
SduAfterKept(pos) == firstSdu

SduAfter(pos) ==
    LET p == rBuf[pos - 1] IN
    IF p = NoPdu THEN -1 ELSE IF IsLast(p) THEN -1 ELSE p.sdu

\* enque, MRW: the window moves, if the target is ahead, and the command is
\* acknowledged with the first sequence number the receiver now has.  The answer
\* is addressed with flowControlInfo_, which only a DATA PDU sets.
RecvMrw(m) ==
    LET pos == m.target - rxFirst
        start == rxFirst + (IF pos > 0 THEN pos ELSE 0)
    IN
    \/ pos > RxW /\ RxThrow("mrwBeyondWindow")
    \/ pos <= RxW /\ ~flowInfo /\ RxThrow("noFlowInfo")
    \/ /\ pos <= RxW /\ flowInfo
       /\ Len(ctlBuf) < MaxCtl
       /\ ctlBuf' = Append(ctlBuf, MrwAck(m.serial, start))
       /\ rxFirst' = start
       /\ IF pos <= 0 THEN UNCHANGED bufferVars
          ELSE /\ rBuf' = ShiftedPdus(pos)
               /\ rReceived' = ShiftedFlags(pos)
               /\ pending' = ShiftedOut(pos)
               /\ firstSdu' = SduAfter(pos)
       /\ UNCHANGED <<rxSeq, statusTimer, ackReady, flowInfo, delivered, rxErr>>
=============================================================================
