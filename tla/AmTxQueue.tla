------------------------------ MODULE AmTxQueue ------------------------------
(***************************************************************************)
(* The transmitting entity of RLC AM (stack/rlc/am/buffer/AmTxQueue.cc):   *)
(* it cuts SDUs into DATA PDUs, keeps them in a window until they are      *)
(* acknowledged or given up, and moves the receiver's window and then its  *)
(* own with MRW / MRW_ACK.  Every action is one event handler of the       *)
(* simulation, run to its end.                                             *)
(*                                                                         *)
(* A cRuntimeError ends the simulation: the action that throws it changes  *)
(* txErr alone, and no action is enabled afterwards.                       *)
(***************************************************************************)
EXTENDS RlcAmPdu

CONSTANTS
    MaxSdus,    \* bound: SDUs the upper layer hands down
    MaxMrw,     \* bound: MRW commands that are issued (mrwSeqNum_ grows for ever)
    MaxBuf      \* bound: PDUs waiting in pduBuffer_ when a timer adds one

VARIABLES
    txFirst,    \* txWindowDesc_.firstSeqNum_
    txSeq,      \* txWindowDesc_.seqNum_
    rtx,        \* pduRtxQueue_: the stored DATA PDUs, by window index
    tReceived,  \* received_, by window index
    tDiscarded, \* discarded_, by window index
    pduTimer,   \* the sequence numbers pduTimer_ is running for
    bufTimer,   \* bufferStatusTimer_.busy()
    mrwQ,       \* mrwRtxQueue_: the unanswered MRW commands
    mrwTimer,   \* the serial numbers mrwTimer_ is running for
    mrwSn,      \* mrwDesc_.mrwSeqNum_
    lastMrw,    \* mrwDesc_.lastMrw_
    txBuf,      \* pduBuffer_: PDUs waiting for the MAC to request them
    nextSdu,    \* PDCP sequence number of the next SDU from above
    dropped,    \* history: SDUs that never got into the window
    givenUp,    \* history: SDUs given up by discard
    txErr       \* "none", or the error that ended the simulation

windowVars == <<txFirst, txSeq, rtx, tReceived, tDiscarded>>
mrwVars == <<mrwQ, mrwTimer, mrwSn, lastMrw>>
sduVars == <<nextSdu, dropped, givenUp>>
txVars == <<windowVars, pduTimer, bufTimer, mrwVars, txBuf, sduVars, txErr>>

TxSlots == 0..(TxW - 1)
TxUsed == txSeq - txFirst     \* PDUs in the window

TxInit ==
    /\ txFirst = 0 /\ txSeq = 0
    /\ rtx = [i \in TxSlots |-> NoPdu]
    /\ tReceived = [i \in TxSlots |-> FALSE]
    /\ tDiscarded = [i \in TxSlots |-> FALSE]
    /\ pduTimer = {} /\ bufTimer = FALSE
    /\ mrwQ = {} /\ mrwTimer = {} /\ mrwSn = 0 /\ lastMrw = 0
    /\ txBuf = <<>>
    /\ nextSdu = 0 /\ dropped = {} /\ givenUp = {}
    /\ txErr = "none"

TxErrors == {"busyPosition", "timerOutOfWindow", "timerWithoutPdu",
             "timerOfReceivedPdu", "missingPdu", "mrwNotFound",
             "ackOutOfWindow", "bitmapOutOfWindow", "misalignedWindow"}

TxThrow(e) ==
    /\ txErr' = e
    /\ UNCHANGED <<windowVars, pduTimer, bufTimer, mrwVars, txBuf, sduVars>>

TxTypeOK ==
    /\ txFirst \in Nat /\ txSeq \in Nat
    /\ rtx \in [TxSlots -> DataPdu \cup {NoPdu}]
    /\ tReceived \in [TxSlots -> BOOLEAN]
    /\ tDiscarded \in [TxSlots -> BOOLEAN]
    /\ pduTimer \in SUBSET Nat /\ bufTimer \in BOOLEAN
    /\ mrwQ \in SUBSET MrwPdu /\ mrwTimer \in SUBSET Nat
    /\ mrwSn \in Nat /\ lastMrw \in Nat
    /\ txBuf \in Seq(DataPdu \cup MrwPdu)
    /\ nextSdu \in Nat /\ dropped \in SUBSET Nat /\ givenUp \in SUBSET Nat
    /\ txErr \in TxErrors \cup {"none"}

-----------------------------------------------------------------------------
\* checkForMrw: the PDUs at the start of the window that are received or
\* discarded are to be moved out, first at the receiver.  Every call that
\* finds one issues a new MRW, the same target or not.

\* Mutant of Settled: the first PDU that is not settled is counted as well.
SettledOneTooFar(k, received, discarded) ==
    /\ k \in 0..TxUsed
    /\ \A i \in 0..(k - 2) : received[i] \/ discarded[i]
    /\ k < TxUsed /\ k > 0 => ~(received[k - 1] \/ discarded[k - 1])

\* k is the number of PDUs in the window before the first one that is neither
\* received nor discarded.
Settled(k, received, discarded) ==
    /\ k \in 0..TxUsed
    /\ \A i \in 0..(k - 1) : received[i] \/ discarded[i]
    /\ k < TxUsed => ~(received[k] \/ discarded[k])

\* buf is pduBuffer_ as the rest of the handler leaves it.
SendMrw(target, buf) ==
    LET m == Mrw(mrwSn, target) IN
    /\ mrwSn < MaxMrw
    /\ mrwQ' = mrwQ \cup {m}
    /\ lastMrw' = mrwSn
    /\ mrwTimer' = mrwTimer \cup {mrwSn}
    /\ mrwSn' = mrwSn + 1
    /\ txBuf' = Append(buf, m)

CheckForMrw(received, discarded, buf) ==
    \E k \in 0..TxW :
        /\ Settled(k, received, discarded)
        /\ \/ k = 0 /\ txBuf' = buf /\ UNCHANGED mrwVars
           \/ k > 0 /\ SendMrw(txFirst + k, buf)

-----------------------------------------------------------------------------
\* enque and addPdus: an SDU of n fragments arrives.  addPdus takes the SDU
\* off sduQueue_ before it looks for room; an SDU that does not fit is gone.
\* The test for room is strict, so at most TxW - 1 PDUs are outstanding and
\* the outer test (TxUsed < TxW) never fails: sduQueue_ is always empty
\* between two events, and the addPdus call that ends moveTxWindow finds no
\* work.

Fits(n) == txSeq + n < txFirst + TxW

Enque(n) ==
    LET new == TxUsed..(TxUsed + n - 1)
        Fragment(i) == Data(txFirst + i, nextSdu, txSeq, txSeq + n - 1)
    IN
    /\ nextSdu < MaxSdus
    /\ TxUsed < TxW
    /\ \/ /\ ~Fits(n)
          /\ dropped' = dropped \cup {nextSdu}
          /\ nextSdu' = nextSdu + 1
          /\ UNCHANGED <<windowVars, pduTimer, bufTimer, mrwVars, txBuf, givenUp,
                         txErr>>
       \/ /\ Fits(n)
          /\ \A i \in new :
                rtx[i] = NoPdu /\ ~tReceived[i] /\ ~tDiscarded[i]
          /\ rtx' = [i \in TxSlots |-> IF i \in new THEN Fragment(i) ELSE rtx[i]]
          /\ txSeq' = txSeq + n
          /\ pduTimer' = pduTimer \cup txSeq..(txSeq + n - 1)
          /\ bufTimer' = TRUE
          /\ txBuf' = txBuf \o [k \in 1..n |-> Fragment(TxUsed + k - 1)]
          /\ nextSdu' = nextSdu + 1
          /\ UNCHANGED <<txFirst, tReceived, tDiscarded, mrwVars, dropped,
                         givenUp, txErr>>
       \/ /\ Fits(n)
          /\ \E i \in new : rtx[i] # NoPdu \/ tReceived[i] \/ tDiscarded[i]
          /\ TxThrow("busyPosition")

-----------------------------------------------------------------------------
\* discard(sn): give up the PDU at index x and the PDUs of the same SDU around
\* it.  Timers of the PDUs at or before x are stopped, those behind it only
\* when they were not marked discarded before.
SameSdu(x, i) ==
    /\ i \in 0..(TxUsed - 1)
    /\ \A j \in (IF i < x THEN i..x ELSE x..i) :
          rtx[j] # NoPdu /\ rtx[j].sdu = rtx[x].sdu

Group(x) == {i \in TxSlots : i = x \/ SameSdu(x, i)}

Stopped(x) == {txFirst + i : i \in {j \in Group(x) : j <= x \/ ~tDiscarded[j]}}

Discard(x, timers) ==
    LET marked == [i \in TxSlots |-> tDiscarded[i] \/ i \in Group(x)] IN
    /\ tDiscarded' = marked
    /\ pduTimer' = timers \ Stopped(x)
    /\ givenUp' = givenUp \cup {rtx[x].sdu}
    /\ CheckForMrw(tReceived, marked, txBuf)

\* discard throws when its backward search meets an empty slot.
Broken(x) == \E i \in 0..(x - 1) :
    rtx[i] = NoPdu /\ \A j \in (i + 1)..x : SameSdu(x, j)

\* Retransmission: the PDU leaves its slot, its copy is added to the queue at
\* the first free position (cArray::add), and the PDU goes down once more.
Retransmit(x) ==
    LET p == [rtx[x] EXCEPT !.tx = @ + 1]
        removed == [rtx EXCEPT ![x] = NoPdu]
        free == CHOOSE i \in TxSlots :
            removed[i] = NoPdu /\ \A j \in 0..(i - 1) : removed[j] # NoPdu
    IN
    /\ rtx' = [removed EXCEPT ![free] = p]
    /\ txBuf' = Append(txBuf, Copy(p))
    /\ UNCHANGED <<txFirst, txSeq, tReceived, tDiscarded, pduTimer, bufTimer,
                   mrwVars, givenUp>>

LastTry(x) == rtx[x].tx + 1 > MaxRtx

\* pduTimerHandle: the retransmission timer of sn fires.  The model has no
\* clock: a running timer may fire at any moment.
PduTimer(sn) ==
    LET x == sn - txFirst IN
    /\ sn \in pduTimer
    /\ Len(txBuf) < MaxBuf
    /\ \/ /\ x \in TxSlots
          /\ rtx[x] # NoPdu /\ ~tReceived[x]
          /\ \/ /\ LastTry(x) /\ ~Broken(x)
                /\ Discard(x, pduTimer \ {sn})
                /\ UNCHANGED <<txFirst, txSeq, rtx, tReceived, bufTimer>>
             \/ ~LastTry(x) /\ Retransmit(x)
          /\ UNCHANGED <<nextSdu, dropped, txErr>>
       \/ /\ x \in TxSlots /\ rtx[x] # NoPdu /\ ~tReceived[x]
          /\ LastTry(x) /\ Broken(x)
          /\ TxThrow("missingPdu")
       \/ x \notin TxSlots /\ TxThrow("timerOutOfWindow")
       \/ x \in TxSlots /\ rtx[x] = NoPdu /\ TxThrow("timerWithoutPdu")
       \/ /\ x \in TxSlots /\ rtx[x] # NoPdu /\ tReceived[x]
          /\ TxThrow("timerOfReceivedPdu")

-----------------------------------------------------------------------------
\* mrwTimerHandle: an MRW has not been answered in time.  It is repeated
\* unless a later one has been issued since.
MrwTimer(serial) ==
    LET kept == {m \in mrwQ : m.serial = serial} IN
    /\ serial \in mrwTimer
    /\ Len(txBuf) < MaxBuf
    /\ \/ kept = {} /\ TxThrow("mrwNotFound")
       \/ /\ kept # {}
          /\ \/ /\ lastMrw > serial
                /\ mrwQ' = mrwQ \ kept
                /\ mrwTimer' = mrwTimer \ {serial}
                /\ UNCHANGED txBuf
             \/ /\ lastMrw <= serial
                /\ \E m \in kept : txBuf' = Append(txBuf, m)
                /\ UNCHANGED <<mrwQ, mrwTimer>>
          /\ UNCHANGED <<windowVars, pduTimer, bufTimer, mrwSn, lastMrw,
                         sduVars, txErr>>

\* handleMessage, TTSIMPLE: the buffer status timer fires and is idle until
\* the next PDU is added.
BufferStatusTimer ==
    /\ bufTimer
    /\ Len(txBuf) < MaxBuf
    /\ bufTimer' = FALSE
    /\ CheckForMrw(tReceived, tDiscarded, txBuf)
    /\ UNCHANGED <<windowVars, pduTimer, sduVars, txErr>>

-----------------------------------------------------------------------------
\* handleControlPacket, ACK: recvCumulativeAck(m.last), which ends with
\* checkForMrw, and then recvAck for every bit of the bitmap.  A cumulative ACK
\* for PDUs that have left the window is ignored, its bitmap is not.
RecvAck(m) ==
    LET cum == m.last - txFirst
        ignored == cum < 0
        cumulated == [i \in TxSlots |-> tReceived[i] \/ i <= cum]
        marked == [i \in TxSlots |-> cumulated[i] \/ txFirst + i \in m.acked]
    IN
    \/ ~ignored /\ cum >= TxW /\ TxThrow("ackOutOfWindow")
    \/ /\ cum < TxW
       /\ \E sn \in m.acked : sn - txFirst >= TxW
       /\ TxThrow("bitmapOutOfWindow")
    \/ /\ cum < TxW
       /\ \A sn \in m.acked : sn - txFirst < TxW
       /\ tReceived' = marked
       /\ pduTimer' = pduTimer \
            {txFirst + i : i \in {j \in TxSlots : marked[j] /\ ~tReceived[j]}}
       /\ IF ignored THEN UNCHANGED <<mrwVars, txBuf>>
                     ELSE CheckForMrw(cumulated, tDiscarded, txBuf)
       /\ UNCHANGED <<txFirst, txSeq, rtx, tDiscarded, bufTimer, sduVars,
                      txErr>>

\* moveTxWindow(first): PDUs before first leave the window, the others move to
\* the front with their flags.
Shifted(f, pos, empty) ==
    [i \in TxSlots |-> IF i + pos < TxUsed THEN f[i + pos] ELSE empty]

\* Mutant of ForgetMrw: the timer of the answered MRW runs on.
ForgetMrwOnly(serial) ==
    /\ mrwQ' = {m \in mrwQ : m.serial # serial}
    /\ UNCHANGED mrwTimer

\* recvMrwAck(serial): the MRW has been answered, if it is still remembered.
ForgetMrw(serial) ==
    LET answered == {m \in mrwQ : m.serial = serial} IN
    /\ mrwQ' = mrwQ \ answered
    /\ mrwTimer' = IF answered = {} THEN mrwTimer ELSE mrwTimer \ {serial}

\* handleControlPacket, MRW_ACK: moveTxWindow and then recvMrwAck.  A window
\* position that is empty although it should hold a PDU, or the reverse, is an
\* error.
RecvMrwAck(m) ==
    LET pos == m.first - txFirst IN
    \/ /\ pos <= 0
       /\ ForgetMrw(m.serial)
       /\ UNCHANGED <<windowVars, pduTimer, bufTimer, mrwSn, lastMrw, txBuf,
                      sduVars, txErr>>
    \/ /\ pos > 0 /\ pos <= TxUsed
       /\ \A i \in TxSlots : rtx[i] # NoPdu <=> i < TxUsed
       /\ txFirst' = txFirst + pos
       /\ rtx' = Shifted(rtx, pos, NoPdu)
       /\ tReceived' = Shifted(tReceived, pos, FALSE)
       /\ tDiscarded' = Shifted(tDiscarded, pos, FALSE)
       /\ pduTimer' = pduTimer \ (txFirst..(txFirst + pos - 1))
       /\ ForgetMrw(m.serial)
       /\ UNCHANGED <<txSeq, bufTimer, mrwSn, lastMrw, txBuf, sduVars,
                      txErr>>
    \/ /\ pos > 0
       /\ \/ pos > TxUsed
          \/ \E i \in TxSlots : (rtx[i] # NoPdu) # (i < TxUsed)
       /\ TxThrow("misalignedWindow")
=============================================================================
