------------------------------- MODULE NrPdcp -------------------------------
(***************************************************************************)
(* One bearer between two NR PDCP entities: the transmitting entity, which *)
(* numbers the SDUs, the RLC leg that carries them and the receiving       *)
(* entity, which puts them back in order (NRRxPdcpEntity).  A bearer split *)
(* between two nodes has such a pair per leg downlink; uplink one entity   *)
(* of the UE numbers the SDUs of both legs, which is not modelled.         *)
(*                                                                         *)
(* The leg is external.  RLC UM hands SDUs up in order and loses some; RLC *)
(* AM loses none and hands an SDU up as soon as it is complete, so an SDU  *)
(* may overtake others that are still being retransmitted.                 *)
(*                                                                         *)
(* An exception (a vector index out of range, a cast of a null pointer)    *)
(* ends the simulation; thrown records that it happened and the model      *)
(* stops there.                                                            *)
(***************************************************************************)
EXTENDS Integers, Sequences, FiniteSets

CONSTANTS
    WindowSize,     \* rxWindowSize
    Span,           \* numbers in use while the receiver waits for a gap: the
                    \* sending rate times the delay t_reordering can cause
    MaxOvertaken,   \* SDUs in flight that one SDU of an AM leg may overtake
    MaxSno          \* bound: the SDUs sent

ASSUME NrPdcpAssumption ==
    /\ WindowSize \in Nat \ {0}
    /\ Span \in Nat \ {0}
    /\ MaxOvertaken \in Nat
    /\ MaxSno \in Nat

Slots == 0..WindowSize - 1
Snos == 0..MaxSno - 1
NoSdu == -1

VARIABLES
    rlcType,        \* "UM" or "AM"
    reordering,     \* dual connectivity without out-of-order delivery
    sno,            \* LteTxPdcpEntity::sno_
    leg,            \* the numbers of the SDUs in flight
    lost,           \* the numbers the leg has lost
    rxNext,         \* PdcpRxWindowDesc::rxNext_
    rxDeliv,        \* PdcpRxWindowDesc::rxDeliv_
    rxReord,        \* PdcpRxWindowDesc::rxReord_
    received,       \* received_, a flag per slot
    sduBuffer,      \* sduBuffer_, the number of the SDU in each slot
    tReordering,    \* t_reordering_ is running
    passed,         \* what went to the upper layer, in order: an SDU, or NoSdu
                    \* where rxDeliv_ advanced over a gap
    discarded,      \* the numbers of the SDUs deleted on arrival
    thrown          \* an exception has ended the simulation

windowVars == <<rxNext, rxDeliv, received, sduBuffer>>
timerVars == <<rxReord, tReordering>>
rxVars == <<windowVars, timerVars, passed, discarded>>
vars == <<rlcType, reordering, sno, leg, lost, rxVars, thrown>>

Init ==
    /\ rlcType \in {"UM", "AM"}
    /\ reordering \in BOOLEAN
    /\ sno = 0 /\ leg = {} /\ lost = {}
    /\ rxNext = 0 /\ rxDeliv = 0 /\ rxReord = 0
    /\ received = [i \in Slots |-> FALSE]
    /\ sduBuffer = [i \in Slots |-> NoSdu]
    /\ tReordering = FALSE
    /\ passed = <<>> /\ discarded = {} /\ thrown = FALSE

------------------------------------------------------------------------------
(* The transmitting entity and the leg.                                    *)

Send ==
    /\ ~thrown /\ sno < MaxSno
    /\ reordering => sno < rxDeliv + Span
    /\ sno' = sno + 1
    /\ leg' = leg \union {sno}
    /\ UNCHANGED <<rlcType, reordering, lost, rxVars, thrown>>

Lose(n) ==
    /\ ~thrown /\ n \in leg /\ rlcType = "UM"
    /\ leg' = leg \ {n}
    /\ lost' = lost \union {n}
    /\ UNCHANGED <<rlcType, reordering, sno, rxVars, thrown>>

\* RLC hands SDU n up.
Carries(n) ==
    /\ n \in leg
    /\ Cardinality({m \in leg : m < n}) <=
           IF rlcType = "UM" THEN 0 ELSE MaxOvertaken

------------------------------------------------------------------------------
(* The receiving entity.                                                   *)

\* What the handler did before it threw no longer matters.
Throw == thrown' = TRUE /\ UNCHANGED rxVars

\* A slot that is flagged and empty: remove() returns null, the cast throws.
NullSdu(slots) == \E i \in slots : received[i] /\ sduBuffer[i] = NoSdu

\* What the slots from..n - 1 hand to the upper layer, and what they leave.
Handed(from, n) == [k \in 1..n - from |-> IF received[from + k - 1]
                                           THEN sduBuffer[from + k - 1]
                                           ELSE NoSdu]
Removed(from, n) == [i \in Slots |-> IF i \in from..n - 1 /\ received[i]
                                      THEN NoSdu ELSE sduBuffer[i]]

\* The shift loop over the slots by..end - 1: each is moved down by by slots
\* and emptied.  The slots below by that nothing is moved to stay as they are.
Shifted(f, by, end, empty) ==
    [i \in Slots |-> IF i + by < end THEN f[i + by]
                     ELSE IF i \in by..end - 1 THEN empty ELSE f[i]]

\* The timer after an arrival, from the new window.
\* Mutant of HandleTReordering: the timer of a filled gap is not stopped.
HandleTReorderingNoStop ==
    IF ~tReordering /\ rxDeliv' < rxNext'
    THEN tReordering' = TRUE /\ rxReord' = rxNext'
    ELSE UNCHANGED timerVars
HandleTReordering ==
    LET running == tReordering /\ rxDeliv' < rxReord
    IN  IF ~running /\ rxDeliv' < rxNext'
        THEN tReordering' = TRUE /\ rxReord' = rxNext'
        ELSE tReordering' = running /\ UNCHANGED rxReord

\* Mutant of PassStraight: a late SDU is handed up instead of deleted.
PassStraightLate(n) ==
    /\ ~reordering \/ n < rxDeliv
    /\ passed' = Append(passed, n)
    /\ UNCHANGED <<windowVars, timerVars, discarded, thrown>>
PassStraight(n) ==
    /\ ~reordering
    /\ passed' = Append(passed, n)
    /\ UNCHANGED <<windowVars, timerVars, discarded, thrown>>

\* Already considered, beyond the window, or already received.
Refused(n) ==
    \/ n < rxDeliv
    \/ n - rxDeliv >= WindowSize
    \/ n - rxDeliv \in Slots /\ received[n - rxDeliv]

Discard(n) ==
    /\ reordering /\ Refused(n)
    /\ discarded' = discarded \union {n}
    /\ UNCHANGED <<windowVars, timerVars, passed, thrown>>

NextAfter(n) == IF n >= rxNext THEN n + 1 ELSE rxNext

\* The buffered SDUs that follow in sequence are those of the slots 1..p - 1.
IsRun(p) ==
    /\ p \in Slots => ~received[p]
    /\ \A i \in 1..p - 1 : received[i]

\* Mutant of RunCleared: the flags of the SDUs handed up stay set.
RunFlagged(p) == received
RunCleared(p) == [i \in Slots |-> i \notin 1..p - 1 /\ received[i]]

\* The bound of the shift loop is the difference of the advanced numbers;
\* when it wraps the loop runs off the vector.
DeliverInSequence(n) ==
    /\ reordering /\ ~Refused(n) /\ n = rxDeliv
    /\ \E p \in 1..WindowSize :
        LET bound == NextAfter(n) - (rxDeliv + p)
        IN  /\ IsRun(p)
            /\ IF bound < 0 \/ NullSdu(1..p - 1)
               THEN Throw
               ELSE /\ rxNext' = NextAfter(n)
                    /\ rxDeliv' = rxDeliv + p
                    /\ passed' = Append(passed, n) \o Handed(1, p)
                    /\ received' = Shifted(RunCleared(p), p, bound, FALSE)
                    /\ sduBuffer' = Shifted(Removed(1, p), p, bound, NoSdu)
                    /\ UNCHANGED <<discarded, thrown>>
                    /\ HandleTReordering

Buffer(n) ==
    /\ reordering /\ ~Refused(n) /\ n # rxDeliv
    /\ rxNext' = NextAfter(n)
    /\ received' = [received EXCEPT ![n - rxDeliv] = TRUE]
    /\ sduBuffer' = [sduBuffer EXCEPT ![n - rxDeliv] = n]
    /\ UNCHANGED <<rxDeliv, passed, discarded, thrown>>
    /\ HandleTReordering

\* NRRxPdcpEntity::handlePdcpSdu
HandlePdcpSdu(n) ==
    /\ ~thrown /\ Carries(n)
    /\ leg' = leg \ {n}
    /\ UNCHANGED <<rlcType, reordering, sno, lost>>
    /\ \/ PassStraight(n) \/ Discard(n)
       \/ DeliverInSequence(n) \/ Buffer(n)

\* The second loop of the timer's handler stops at slot e: the first one from
\* rxReord_ on that is not received or, once the loop has passed a slot, that
\* of rxNext_.  It tests slot WindowSize, and throws, if nothing stops it.
Stops(e) ==
    \/ e > rxReord - rxDeliv /\ rxDeliv + e = rxNext
    \/ e = WindowSize
    \/ e \in Slots /\ ~received[e]
IsExpiry(e) ==
    /\ e >= rxReord - rxDeliv /\ Stops(e)
    /\ \A y \in rxReord - rxDeliv..e - 1 : ~Stops(y)
RunsOff(e) ==
    e = WindowSize /\ ~(e > rxReord - rxDeliv /\ rxDeliv + e = rxNext)

\* Mutant of RestartTimer: the timer is not started again.
RestartTimerOnce == tReordering' = FALSE /\ UNCHANGED rxReord
RestartTimer ==
    /\ tReordering' = (rxDeliv' < rxNext)
    /\ rxReord' = IF rxDeliv' < rxNext THEN rxNext ELSE rxReord

\* NRRxPdcpEntity::handleMessage
ReorderingExpires ==
    /\ ~thrown /\ tReordering
    /\ UNCHANGED <<rlcType, reordering, sno, leg, lost>>
    /\ \E e \in Slots \union {WindowSize} :
        /\ IsExpiry(e)
        /\ IF RunsOff(e) \/ NullSdu(0..e - 1)
           THEN Throw
           ELSE /\ passed' = passed \o Handed(0, e)
                /\ rxDeliv' = rxDeliv + e
                /\ received' = Shifted(received, e, WindowSize, FALSE)
                /\ sduBuffer' = Shifted(Removed(0, e), e, WindowSize, NoSdu)
                /\ UNCHANGED <<rxNext, discarded, thrown>>
                /\ RestartTimer

Next ==
    \/ Send
    \/ \E n \in leg : Lose(n) \/ HandlePdcpSdu(n)
    \/ ReorderingExpires

\* An armed timer fires; nothing else is promised.
Spec == Init /\ [][Next]_vars /\ WF_vars(ReorderingExpires)

------------------------------------------------------------------------------
(* Properties.                                                             *)

TypeOK ==
    /\ rlcType \in {"UM", "AM"} /\ reordering \in BOOLEAN
    /\ sno \in 0..MaxSno /\ leg \subseteq Snos /\ lost \subseteq Snos
    /\ rxNext \in 0..MaxSno /\ rxDeliv \in Nat /\ rxReord \in Nat
    /\ received \in [Slots -> BOOLEAN]
    /\ sduBuffer \in [Slots -> Snos \union {NoSdu}]
    /\ tReordering \in BOOLEAN
    /\ passed \in Seq(Snos \union {NoSdu})
    /\ discarded \subseteq Snos /\ thrown \in BOOLEAN

\* SDUs reach the upper layer in the order of their numbers, each at most
\* once, when reordering needs to be done: the purpose of NRRxPdcpEntity.
DeliveredInOrder ==
    reordering =>
        \A i, j \in 1..Len(passed) :
            i < j /\ passed[i] # NoSdu /\ passed[j] # NoSdu
                => passed[i] < passed[j]

\* The slot of the window is the number of the SDU in it, a flag is set where
\* there is one, and none lies beyond rxNext_: what every index computed by
\* the two handlers relies on after any number of shifts.
SlotsMatchNumbers ==
    \A i \in Slots :
        /\ received[i] <=> sduBuffer[i] # NoSdu
        /\ received[i] => sduBuffer[i] = rxDeliv + i /\ rxDeliv + i < rxNext

\* An SDU that the leg carried to the receiver has been handed up, or waits in
\* the buffer, or was refused on arrival: a window shift drops none.
Arrived == (0..sno - 1) \ (leg \union lost)
ArrivedIsKept ==
    \A n \in Arrived :
        \/ n \in discarded
        \/ \E i \in 1..Len(passed) : passed[i] = n
        \/ \E i \in Slots : sduBuffer[i] = n

\* An SDU is refused only when t_reordering had given its number up: no flag
\* left set makes handlePdcpSdu take a new SDU for a duplicate, and none is
\* beyond the window.
OnlyLateRefused ==
    \A n \in discarded : n < rxDeliv /\ n + 1 \in DOMAIN passed
                            /\ passed[n + 1] = NoSdu

\* The receiver loses no SDU that reached it: it keeps it or hands it up, and
\* refuses only one whose number t_reordering had given up.
ArrivalsAccounted == ArrivedIsKept /\ OnlyLateRefused

\* While SDUs wait behind a gap t_reordering runs, for a number in the window.
GapIsTimed ==
    /\ tReordering <=> rxDeliv < rxNext
    /\ tReordering => rxDeliv < rxReord /\ rxReord <= rxNext

\* Neither handler indexes the window out of range or removes an SDU that is
\* not there.
NeverThrows == ~thrown

\* An SDU that waits in the buffer is handed up in the end.
BufferedIsHandedUp ==
    \A n \in Snos : (\E i \in Slots : sduBuffer[i] = n)
                        ~> (\E i \in 1..Len(passed) : passed[i] = n)
=============================================================================
