----------------------------- MODULE UmRxEntity -----------------------------
(***************************************************************************)
(* The receiving entity of RLC UM (stack/rlc/um/entity/UmRxEntity.cc): it  *)
(* keeps PDUs that came too early in a window, waits for the missing ones  *)
(* as long as t-Reordering runs, and puts the SDUs of the PDUs it passes   *)
(* together again.                                                         *)
(*                                                                         *)
(* pduBuffer_ and received_ are indexed by position in the window; the     *)
(* model keeps the numbers of the PDUs in them.  The counters of the burst *)
(* statistics and resetFlag_ (set by a D2D mode switch) are left out.      *)
(***************************************************************************)
EXTENDS UmTxEntity, FiniteSetsExt

CONSTANT
    WindowSize      \* the parameter rxWindowSize

ASSUME UmRxAssumption == WindowSize \in Nat \ {0}

VARIABLES
    multicast,      \* isD2DMultiConnection(), the same for the whole run
    init,           \* init_
    window,         \* rxWindowDesc_: firstSno_, firstSnoForReordering_ (ur),
                    \* reorderingSno_ (ux), highestReceivedSno_ (uh), windowSize_
    buffer,         \* the PDUs in pduBuffer_, those with received_
    reordering,     \* t_reordering_.busy()
    buffered,       \* buffered_, the SDU that waits for its next part, or NoSdu
    lastSno,        \* lastSnoDelivered_
    losses,         \* samples of rlcPacketLoss_ that say "lost"
    delivered,      \* history: the SDUs passed to PDCP
    taken,          \* history: the PDUs that were not discarded
    rxErr           \* "none", or the error that ended the simulation

sduVars == <<buffered, lastSno, losses, delivered>>
rxVars == <<multicast, init, window, buffer, reordering, sduVars, taken, rxErr>>

NoSdu == [sdu |-> 0, size |-> 0, pdu |-> 0]
Window == [first : Nat, ur : Nat, ux : Nat, uh : Nat, size : Nat]
RxErrors == {"occupiedSlot", "outOfWindow", "wrongLength"}

RxInit ==
    /\ multicast \in BOOLEAN /\ init = FALSE
    /\ window = [first |-> 0, ur |-> 0, ux |-> 0, uh |-> 0, size |-> WindowSize]
    /\ buffer = {} /\ reordering = FALSE
    /\ buffered = NoSdu /\ lastSno = 0 /\ losses = 0
    /\ delivered = <<>> /\ taken = {} /\ rxErr = "none"

RxTypeOK ==
    /\ multicast \in BOOLEAN /\ init \in BOOLEAN
    /\ window \in Window
    /\ buffer \subseteq Nat /\ reordering \in BOOLEAN
    /\ buffered \in [sdu : Nat, size : Nat, pdu : Nat]
    /\ lastSno \in Nat /\ losses \in Nat
    /\ delivered \in Seq(Nat)
    /\ taken \subseteq Nat
    /\ rxErr \in RxErrors \cup {"none"}

-----------------------------------------------------------------------------
(***************************************************************************)
(* reassemble.  The parts of SDUs in a run of PDUs are taken in order; a   *)
(* part is the first, the last, both or neither of its SDU, as the framing *)
(* info of its PDU says.                                                   *)
(***************************************************************************)
Parts(t) ==
    LET pdu == pdus[t + 1]
        n   == Len(pdu.chunks)
    IN  [i \in 1..n |->
          [sdu |-> pdu.chunks[i].sdu, size |-> pdu.chunks[i].size, pdu |-> t,
           first |-> ~(i = 1 /\ pdu.startFrag), last |-> ~(i = n /\ pdu.endFrag)]]

\* toPdcp: every number skipped since the last SDU counts as a loss.
ToPdcp(st, s) ==
    [st EXCEPT !.buffered = NoSdu,
               !.delivered = Append(@, s),
               !.losses = @ + (IF s > st.lastSno + 1 THEN s - st.lastSno - 1 ELSE 0),
               !.lastSno = s]

\* The SDU that waits is continued by a part only if no PDU is missing between.
Continues(st, part) ==
    /\ st.buffered # NoSdu
    /\ st.buffered.sdu = part.sdu
    /\ part.pdu = st.buffered.pdu + 1

Whole(st, part) ==
    IF part.size = LengthOf(part.sdu) THEN ToPdcp(st, part.sdu)
    ELSE [st EXCEPT !.err = "wrongLength"]

FirstPart(st, part) ==
    [st EXCEPT !.buffered = [sdu |-> part.sdu, size |-> part.size, pdu |-> part.pdu]]

\* Mutant of MidPart: the number of the PDU is not noted.
MidPartUnnoted(st, part) == [st EXCEPT !.buffered.size = @ + part.size]

MidPart(st, part) ==
    [st EXCEPT !.buffered.size = @ + part.size, !.buffered.pdu = part.pdu]

LastPart(st, part) ==
    LET size == st.buffered.size + part.size
    IN  CASE size = LengthOf(part.sdu) -> ToPdcp(st, part.sdu)
          [] size < LengthOf(part.sdu) -> [st EXCEPT !.buffered = NoSdu]
          [] OTHER -> [st EXCEPT !.err = "wrongLength"]

Take(st, part) ==
    CASE st.err # "none" -> st
      [] part.first /\ part.last -> Whole(st, part)
      [] part.first /\ ~part.last -> FirstPart(st, part)
      [] ~part.first /\ ~Continues(st, part) -> [st EXCEPT !.buffered = NoSdu]
      [] ~part.first /\ part.last /\ Continues(st, part) -> LastPart(st, part)
      [] OTHER -> MidPart(st, part)

TakePdu(st, t) ==
    LET parts == Parts(t)
        After[n \in 0..Len(parts)] ==
            IF n = 0 THEN st ELSE Take(After[n - 1], parts[n])
    IN  After[Len(parts)]

\* reassemble(i) for every i of a run: the PDUs ts leave the buffer, in order.
Reassembled(ts) ==
    LET start == [buffered |-> buffered, lastSno |-> lastSno, losses |-> losses,
                  delivered |-> delivered, err |-> "none"]
        Upto[u \in 0..sno] ==
            CASE u = 0 -> start
              [] u > 0 /\ u - 1 \in ts -> TakePdu(Upto[u - 1], u - 1)
              [] OTHER -> Upto[u - 1]
    IN  Upto[sno]

Reassemble(ts) ==
    LET st == Reassembled(ts)
    IN  /\ buffered' = st.buffered /\ lastSno' = st.lastSno
        /\ losses' = st.losses /\ delivered' = st.delivered

-----------------------------------------------------------------------------
(***************************************************************************)
(* enque.  The first PDU of a D2D multicast flow starts the window.        *)
(***************************************************************************)
Entry(t) ==
    IF multicast /\ ~init
    THEN [first |-> t, ur |-> t, ux |-> t, uh |-> t, size |-> 1]
    ELSE window

\* Mutant of Discards: a PDU below the reordering point is taken.
DiscardsReceived(w, t) == t < w.uh /\ t \in buffer

\* The PDU is there already, or reordering has passed it.
Discards(w, t) == t < w.ur \/ (t < w.uh /\ t \in buffer)

\* How far the window moves for a PDU beyond its end: as far as the highest
\* number does, but not beyond the PDU.
Shift(w, t) ==
    IF t >= w.uh /\ w.first + w.size < t + 1
    THEN Min({t + 1 - w.uh, t - w.first})
    ELSE 0

Moved(w, t) ==
    LET first == w.first + Shift(w, t)
    IN  [w EXCEPT !.first = first,
                  !.ur = Max({@, first}),
                  !.uh = Max({@, t + 1})]

\* The first number from n on that is missing, the highest at the latest.
FirstMissing(n, w, pduBuffer) ==
    Min({u \in n..w.uh : u = w.uh \/ u \notin pduBuffer})

\* Mutant of StillWaits: a running timer is never stopped.
StillWaitsOn(w) == reordering

\* t_reordering_ is stopped when the PDU it waited for is settled or has left
\* the window.
StillWaits(w) == reordering /\ w.ux > w.ur /\ w.ux \in w.first..w.uh

\* Mutant of Gap: a timer that ran is not started again in the same call.
GapOnce(w) == ~reordering /\ w.uh > w.ur

\* It is started when PDUs wait behind a gap.
Gap(w) == w.uh > w.ur

Discard(t) ==
    /\ Discards(Entry(t), t)
    /\ UNCHANGED rxVars

\* The simulation ends when addAt finds its place taken, when received_ has no
\* such place, or when the lengths of an SDU do not fit.
Accept(t) ==
    LET moved  == Moved(Entry(t), t)
        kept   == {u \in buffer : u >= moved.first}
        held   == kept \cup {t}
        after  == [moved EXCEPT !.ur = FirstMissing(@, moved, held)]
        passed == (buffer \ kept) \cup {u \in held : u < after.ur}
    IN  /\ ~Discards(Entry(t), t)
        /\ init' = (init \/ multicast)
        /\ window' = [after EXCEPT !.ux = IF ~StillWaits(after) /\ Gap(after)
                                          THEN after.uh ELSE @]
        /\ reordering' = (StillWaits(after) \/ Gap(after))
        /\ buffer' = held \ passed
        /\ taken' = taken \cup {t}
        /\ Reassemble(passed)
        /\ rxErr' = CASE t \in kept -> "occupiedSlot"
                      [] t - moved.first \notin 0..(WindowSize - 1) -> "outOfWindow"
                      [] OTHER -> Reassembled(passed).err
        /\ UNCHANGED multicast

\* handleMessage: t_reordering_ expires, and the PDUs below reorderingSno_ are
\* no longer waited for.
ReorderingExpires ==
    LET from   == Max({window.ur, Min({window.ux, window.uh})})
        after  == [window EXCEPT !.ur = FirstMissing(from, window, buffer)]
        passed == {u \in buffer : u < after.ur}
    IN  /\ reordering
        /\ window' = [after EXCEPT !.ux = IF Gap(after) THEN after.uh ELSE @]
        /\ reordering' = Gap(after)
        /\ buffer' = buffer \ passed
        /\ Reassemble(passed)
        /\ rxErr' = Reassembled(passed).err
        /\ UNCHANGED <<multicast, init, taken>>
=============================================================================
