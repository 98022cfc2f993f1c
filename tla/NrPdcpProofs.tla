---------------------------- MODULE NrPdcpProofs ----------------------------
(***************************************************************************)
(* Proofs about NrPdcp: for every window, every span of at most half of it *)
(* and a leg on which an SDU overtakes at most one other, the receiving    *)
(* entity never throws, keeps its slots in step with the numbers, delivers *)
(* in order and drops nothing that arrived in time.  TLC shows that both   *)
(* limits are needed.                                                      *)
(***************************************************************************)
EXTENDS NrPdcp, FiniteSetTheorems, SequenceTheorems, TLAPS

\* At most half the window is in use, at most one SDU in flight is overtaken.
PacedLeg == 2 * Span <= WindowSize /\ MaxOvertaken <= 1

\* The numbers in use: [rxDeliv, rxNext) is known to the receiver, up to sno
\* is sent.  Without reordering the window is never touched.
NumbersInUse ==
    /\ rxDeliv <= rxNext /\ rxNext <= sno
    /\ reordering => sno <= rxDeliv + Span
    /\ ~reordering => rxNext = 0

\* At most one number below rxNext is in flight, none on a UM leg.  An SDU in
\* flight is not lost, has no slot yet and was not handed up.
LegInv ==
    /\ \A n \in leg : n < sno /\ n \notin lost
    /\ \A n \in lost : n < sno
    /\ rlcType = "UM" => \A n \in leg : n >= rxNext
    /\ rlcType = "AM" => lost = {}
    /\ \A m, n \in leg : m < rxNext /\ n < rxNext => m = n
    /\ \A i \in Slots : received[i] => rxDeliv + i \notin leg
    /\ reordering => \A n \in leg : n < rxDeliv => passed[n + 1] = NoSdu

\* What was handed up where rxDeliv advanced over number k - 1.
PassedInv ==
    reordering => /\ Len(passed) = rxDeliv
                  /\ \A k \in 1..rxDeliv : passed[k] \in {k - 1, NoSdu}

\* An SDU that arrived has its slot, or was handed up, or came too late.
StoredInv ==
    /\ reordering => \A n \in Arrived :
           IF n < rxDeliv THEN n \in discarded \/ passed[n + 1] = n
                          ELSE received[n - rxDeliv]
    /\ ~reordering => \A n \in Arrived : \E i \in 1..Len(passed) : passed[i] = n

IInv ==
    /\ TypeOK /\ NeverThrows /\ SlotsMatchNumbers /\ GapIsTimed
    /\ NumbersInUse /\ LegInv /\ PassedInv /\ StoredInv /\ OnlyLateRefused

------------------------------------------------------------------------------
(* Lemmas.                                                                 *)

\* Appending the entries of n window positions: the loops of both handlers.
LEMMA AppendWindow ==
    ASSUME NEW S, NEW s \in Seq(S), NEW n \in Nat, NEW f \in [1..n -> S]
    PROVE  /\ s \o f \in Seq(S)
           /\ Len(s \o f) = Len(s) + n
           /\ \A k \in 1..Len(s) : (s \o f)[k] = s[k]
           /\ \A k \in Len(s) + 1..Len(s) + n : (s \o f)[k] = f[k - Len(s)]
<1>1. f \in Seq(S)
    BY SMTT(20)
<1>2. Len(f) = n
    BY <1>1, LenProperties
<1>3. Len(s) \in Nat
    BY LenProperties
<1>4. QED
    <2>1. \A i \in 1..Len(s) + Len(f) :
              (s \o f)[i] = IF i <= Len(s) THEN s[i] ELSE f[i - Len(s)]
        BY <1>1, ConcatProperties
    <2>2. s \o f \in Seq(S) /\ Len(s \o f) = Len(s) + n
        BY <1>1, <1>2, ConcatProperties
    <2>3. ASSUME NEW k \in 1..Len(s)
          PROVE  (s \o f)[k] = s[k]
        BY <1>2, <1>3, <2>1
    <2>4. ASSUME NEW k \in Len(s) + 1..Len(s) + n
          PROVE  (s \o f)[k] = f[k - Len(s)]
        <3>1. k \in 1..Len(s) + Len(f) /\ ~(k <= Len(s))
            BY <1>2, <1>3
        <3> QED
            BY <2>1, <3>1
    <2> QED
        BY <2>2, <2>3, <2>4

LEMMA LegFinite ==
    ASSUME NrPdcpAssumption, TypeOK
    PROVE  \A n : /\ IsFiniteSet({m \in leg : m < n})
                  /\ Cardinality({m \in leg : m < n}) \in Nat
<1>1. IsFiniteSet(Snos)
    BY FS_Interval DEF NrPdcpAssumption, Snos
<1>2. ASSUME NEW n
      PROVE  IsFiniteSet({m \in leg : m < n})
    BY <1>1, FS_Subset DEF TypeOK
<1> QED
    BY <1>2, FS_CardinalityType

\* What the order of the leg says in terms of single SDUs.
LEMMA Overtaken ==
    ASSUME NrPdcpAssumption, PacedLeg, TypeOK, NEW n, Carries(n)
    PROVE  /\ n \in leg
           /\ rlcType = "UM" => \A m \in leg : ~(m < n)
           /\ \A l, m \in leg : l < n /\ m < n => l = m
<1> DEFINE B == {m \in leg : m < n}
<1>1. IsFiniteSet(B) /\ Cardinality(B) \in Nat
    BY LegFinite
<1>2. n \in leg /\ Cardinality(B) <= 1
    BY <1>1 DEF Carries, PacedLeg, NrPdcpAssumption
<1>3. ASSUME rlcType = "UM", NEW m \in leg, m < n
      PROVE  FALSE
    <2>1. Cardinality(B) = 0
        BY <1>1, <1>3 DEF Carries
    <2>2. B = {}
        BY <1>1, <2>1, FS_EmptySet
    <2> QED
        BY <1>3, <2>2
<1>4. ASSUME NEW l \in leg, NEW m \in leg, l < n, m < n, l # m
      PROVE  FALSE
    <2>1. {l, m} \subseteq B
        BY <1>4
    <2>2. Cardinality({l, m}) <= Cardinality(B)
        BY <1>1, <2>1, FS_Subset
    <2>3. Cardinality({l}) = 1 /\ IsFiniteSet({l})
        BY FS_Singleton
    <2>4. Cardinality({l} \union {m}) = Cardinality({l}) + 1
        BY <1>4, <2>3, FS_AddElement
    <2>5. {l, m} = {l} \union {m}
        OBVIOUS
    <2> QED
        BY <1>1, <1>2, <2>2, <2>3, <2>4, <2>5
<1> QED
    BY <1>2, <1>3, <1>4

\* What the loops hand up, entry by entry.
LEMMA HandedUp ==
    ASSUME NrPdcpAssumption, TypeOK, SlotsMatchNumbers,
           NEW from \in Nat, NEW n \in Nat, from <= n, n <= WindowSize
    PROVE  /\ Handed(from, n) \in [1..n - from -> Snos \union {NoSdu}]
           /\ \A k \in 1..n - from :
                  Handed(from, n)[k] = IF received[from + k - 1]
                                       THEN rxDeliv + from + k - 1 ELSE NoSdu
<1>1. ASSUME NEW k \in 1..n - from
      PROVE  /\ from + k - 1 \in Slots
             /\ Handed(from, n)[k] = IF received[from + k - 1]
                                     THEN sduBuffer[from + k - 1] ELSE NoSdu
    BY DEF Handed, Slots, NrPdcpAssumption
<1>2. Handed(from, n) \in [1..n - from -> Snos \union {NoSdu}]
    BY <1>1 DEF Handed, TypeOK
<1> QED
    BY <1>1, <1>2 DEF SlotsMatchNumbers, TypeOK

------------------------------------------------------------------------------
(* The invariant is inductive: one lemma per action.                       *)

LEMMA InitHolds ==
    ASSUME NrPdcpAssumption, Init
    PROVE  IInv
<1>1. passed \in Seq(Snos \union {NoSdu}) /\ Len(passed) = 0
    BY EmptySeq DEF Init
<1>2. TypeOK
    <2>1. received \in [Slots -> BOOLEAN]
          /\ sduBuffer \in [Slots -> Snos \union {NoSdu}]
        BY DEF Init
    <2>2. 0 \in 0..MaxSno
        BY DEF NrPdcpAssumption
    <2> QED
        BY <1>1, <2>1, <2>2 DEF Init, TypeOK
<1>3. Arrived = {}
    BY DEF Init, Arrived
<1>4. SlotsMatchNumbers /\ GapIsTimed /\ NumbersInUse /\ NeverThrows
    BY DEF Init, SlotsMatchNumbers, GapIsTimed, NumbersInUse, NeverThrows,
           NrPdcpAssumption
<1>5. LegInv /\ PassedInv /\ OnlyLateRefused
    BY <1>1 DEF Init, LegInv, PassedInv, OnlyLateRefused
<1> QED
    BY <1>2, <1>3, <1>4, <1>5 DEF IInv, StoredInv

LEMMA SendKeeps ==
    ASSUME NrPdcpAssumption, IInv, Send
    PROVE  IInv'
<1> USE DEF Send, rxVars, windowVars, timerVars
<1>1. TypeOK'
    BY DEF IInv, TypeOK, Snos, NrPdcpAssumption
<1>2. sno \in Nat /\ sno \notin leg /\ rxDeliv \in Nat /\ rxNext \in Nat
    BY DEF IInv, TypeOK, LegInv
<1>3. (NeverThrows /\ SlotsMatchNumbers /\ GapIsTimed /\ PassedInv
          /\ OnlyLateRefused)'
    BY DEF IInv, NeverThrows, SlotsMatchNumbers, GapIsTimed, PassedInv,
           OnlyLateRefused
<1>4. NumbersInUse'
    BY <1>2 DEF IInv, NumbersInUse, NrPdcpAssumption
<1>5. \A n \in leg' : n \in leg \/ n = sno
    OBVIOUS
<1>6. \A n \in leg : n \in Nat
    BY DEF IInv, TypeOK, Snos
<1>7. LegInv'
    <2>1. (/\ \A n \in leg : n < sno /\ n \notin lost
           /\ \A n \in lost : n < sno)'
        BY <1>2, <1>5, <1>6 DEF IInv, TypeOK, Snos, LegInv
    <2>2. (rlcType = "UM" => \A n \in leg : n >= rxNext)'
        BY <1>2, <1>5 DEF IInv, LegInv, NumbersInUse
    <2>3. (rlcType = "AM" => lost = {})'
        BY DEF IInv, LegInv
    <2>4. (\A m, n \in leg : m < rxNext /\ n < rxNext => m = n)'
        BY <1>2, <1>5 DEF IInv, LegInv, NumbersInUse
    <2>5. (\A i \in Slots : received[i] => rxDeliv + i \notin leg)'
        BY <1>2, <1>5 DEF IInv, LegInv, NumbersInUse, SlotsMatchNumbers
    <2>6. (reordering => \A n \in leg : n < rxDeliv => passed[n + 1] = NoSdu)'
        BY <1>2, <1>5 DEF IInv, LegInv, NumbersInUse
    <2> QED
        BY <2>1, <2>2, <2>3, <2>4, <2>5, <2>6 DEF LegInv
<1>8. Arrived' \subseteq Arrived
    BY <1>2 DEF Arrived
<1>9. StoredInv'
    BY <1>8 DEF IInv, StoredInv
<1> QED
    BY <1>1, <1>3, <1>4, <1>7, <1>9 DEF IInv

LEMMA LoseKeeps ==
    ASSUME NrPdcpAssumption, IInv, NEW n \in leg, Lose(n)
    PROVE  IInv'
<1> USE DEF Lose, rxVars, windowVars, timerVars
<1>1. TypeOK'
    BY DEF IInv, TypeOK
<1>2. (NeverThrows /\ SlotsMatchNumbers /\ GapIsTimed /\ PassedInv
          /\ OnlyLateRefused /\ NumbersInUse)'
    BY DEF IInv, NeverThrows, SlotsMatchNumbers, GapIsTimed, PassedInv,
           OnlyLateRefused, NumbersInUse
<1>3. LegInv'
    BY DEF IInv, LegInv
<1>4. Arrived' \subseteq Arrived
    BY DEF Arrived
<1>5. StoredInv'
    BY <1>4 DEF IInv, StoredInv
<1> QED
    BY <1>1, <1>2, <1>3, <1>5 DEF IInv

\* What all cases of handlePdcpSdu have in common.
LEMMA ArrivalFacts ==
    ASSUME NrPdcpAssumption, PacedLeg, IInv, NEW n, Carries(n),
           leg' = leg \ {n}, UNCHANGED <<rlcType, reordering, sno, lost>>
    PROVE  /\ n \in leg /\ n \in Snos /\ n \in Nat /\ n < sno
           /\ sno \in Nat /\ rxNext \in Nat /\ rxDeliv \in Nat
           /\ Arrived' = Arrived \union {n}
           /\ rlcType = "UM" => \A m \in leg' : m > n
           /\ \A l, m \in leg' : l < n /\ m < n => l = m
           /\ reordering => n - rxDeliv < Span /\ Span < WindowSize
<1>1. TypeOK
    BY DEF IInv
<1>2. /\ n \in leg
      /\ rlcType = "UM" => \A m \in leg : ~(m < n)
      /\ \A l, m \in leg : l < n /\ m < n => l = m
    BY <1>1, Overtaken
<1>3. /\ n \in Snos /\ n \in Nat /\ sno \in Nat /\ rxNext \in Nat /\ rxDeliv \in Nat
      /\ n < sno /\ leg \subseteq Nat
    BY <1>2 DEF IInv, TypeOK, Snos, LegInv
<1>4. n \notin lost
    BY <1>2 DEF IInv, LegInv
<1>5. Arrived' = Arrived \union {n}
    BY <1>2, <1>3, <1>4 DEF Arrived
<1>6. reordering => n - rxDeliv < Span /\ Span < WindowSize
    BY <1>3 DEF IInv, NumbersInUse, NrPdcpAssumption, PacedLeg
<1> QED
    BY <1>2, <1>3, <1>5, <1>6

LEMMA StraightKeeps ==
    ASSUME NrPdcpAssumption, PacedLeg, IInv, NEW n \in leg,
           HandlePdcpSdu(n), PassStraight(n)
    PROVE  IInv'
<1>1. /\ Carries(n) /\ leg' = leg \ {n}
      /\ UNCHANGED <<rlcType, reordering, sno, lost>>
      /\ ~reordering /\ passed' = Append(passed, n)
      /\ UNCHANGED <<rxNext, rxDeliv, received, sduBuffer, rxReord, tReordering,
                     discarded, thrown>>
    BY DEF HandlePdcpSdu, PassStraight, windowVars, timerVars
<1>2. /\ n \in Snos /\ Arrived' = Arrived \union {n}
    BY <1>1, ArrivalFacts
<1>3. passed \in Seq(Snos \union {NoSdu})
    BY DEF IInv, TypeOK
<1>4. /\ passed' \in Seq(Snos \union {NoSdu}) /\ Len(passed') = Len(passed) + 1
      /\ passed'[Len(passed) + 1] = n
      /\ \A i \in 1..Len(passed) : passed'[i] = passed[i]
      /\ Len(passed) \in Nat
    BY <1>1, <1>2, <1>3, AppendProperties, LenProperties
<1>5. TypeOK'
    BY <1>1, <1>4 DEF IInv, TypeOK
<1>6. (NeverThrows /\ SlotsMatchNumbers /\ GapIsTimed /\ NumbersInUse
          /\ PassedInv)'
    BY <1>1 DEF IInv, NeverThrows, SlotsMatchNumbers, GapIsTimed, NumbersInUse,
                PassedInv
<1>7. LegInv'
    BY <1>1 DEF IInv, LegInv
<1>8. OnlyLateRefused'
    <2>1. DOMAIN passed = 1..Len(passed) /\ DOMAIN passed' = 1..Len(passed')
        BY <1>3, <1>4, LenProperties
    <2> QED
        BY <1>1, <1>4, <2>1 DEF IInv, OnlyLateRefused, TypeOK, Snos
<1>9. StoredInv'
    <2>1. ASSUME NEW m \in Arrived'
          PROVE  \E i \in 1..Len(passed') : passed'[i] = m
        <3>1. CASE m = n
            BY <1>4, <3>1
        <3>2. CASE m # n
            <4>1. m \in Arrived
                BY <1>2, <3>2, <2>1
            <4>2. PICK i \in 1..Len(passed) : passed[i] = m
                BY <1>1, <4>1 DEF IInv, StoredInv
            <4> QED
                BY <1>4, <4>2
        <3> QED
            BY <3>1, <3>2
    <2> QED
        BY <1>1, <2>1 DEF StoredInv
<1> QED
    BY <1>5, <1>6, <1>7, <1>8, <1>9 DEF IInv

\* Only a late SDU is refused: no flag is set for an SDU in flight, and none
\* is as far as the end of the window.
LEMMA RefusedIsLate ==
    ASSUME NrPdcpAssumption, PacedLeg, IInv, NEW n \in leg, Carries(n),
           leg' = leg \ {n}, UNCHANGED <<rlcType, reordering, sno, lost>>,
           reordering, Refused(n)
    PROVE  n < rxDeliv /\ passed[n + 1] = NoSdu
<1>1. /\ n \in Nat /\ rxDeliv \in Nat /\ n - rxDeliv < Span /\ Span < WindowSize
      /\ WindowSize \in Nat /\ Span \in Nat
    BY ArrivalFacts DEF NrPdcpAssumption
<1>2. ~(n - rxDeliv >= WindowSize)
    BY <1>1
<1>3. ~(n - rxDeliv \in Slots /\ received[n - rxDeliv])
    BY <1>1 DEF IInv, LegInv
<1> QED
    BY <1>2, <1>3 DEF Refused, IInv, LegInv

LEMMA DiscardKeeps ==
    ASSUME NrPdcpAssumption, PacedLeg, IInv, NEW n \in leg,
           HandlePdcpSdu(n), Discard(n)
    PROVE  IInv'
<1>1. /\ Carries(n) /\ leg' = leg \ {n}
      /\ UNCHANGED <<rlcType, reordering, sno, lost>>
      /\ reordering /\ Refused(n) /\ discarded' = discarded \union {n}
      /\ UNCHANGED <<rxNext, rxDeliv, received, sduBuffer, rxReord, tReordering,
                     passed, thrown>>
    BY DEF HandlePdcpSdu, Discard, windowVars, timerVars
<1>2. n \in Snos /\ n \in Nat /\ rxDeliv \in Nat /\ Arrived' = Arrived \union {n}
    BY <1>1, ArrivalFacts
<1>3. n < rxDeliv /\ passed[n + 1] = NoSdu
    BY <1>1, RefusedIsLate
<1>4. TypeOK'
    BY <1>1, <1>2 DEF IInv, TypeOK
<1>5. (NeverThrows /\ SlotsMatchNumbers /\ GapIsTimed /\ NumbersInUse
          /\ PassedInv)'
    BY <1>1 DEF IInv, NeverThrows, SlotsMatchNumbers, GapIsTimed, NumbersInUse,
                PassedInv
<1>6. LegInv'
    BY <1>1 DEF IInv, LegInv
<1>7. n + 1 \in DOMAIN passed
    <2>1. DOMAIN passed = 1..rxDeliv
        BY <1>1, LenProperties DEF IInv, TypeOK, PassedInv
    <2> QED
        BY <1>2, <1>3, <2>1
<1>8. OnlyLateRefused'
    BY <1>1, <1>3, <1>7 DEF IInv, OnlyLateRefused
<1>9. StoredInv'
    BY <1>1, <1>2, <1>3 DEF IInv, StoredInv
<1> QED
    BY <1>4, <1>5, <1>6, <1>8, <1>9 DEF IInv

LEMMA BufferKeeps ==
    ASSUME NrPdcpAssumption, PacedLeg, IInv, NEW n \in leg,
           HandlePdcpSdu(n), Buffer(n)
    PROVE  IInv'
<1>1. /\ Carries(n) /\ leg' = leg \ {n}
      /\ UNCHANGED <<rlcType, reordering, sno, lost>>
      /\ reordering /\ ~Refused(n) /\ n # rxDeliv
      /\ rxNext' = NextAfter(n)
      /\ received' = [received EXCEPT ![n - rxDeliv] = TRUE]
      /\ sduBuffer' = [sduBuffer EXCEPT ![n - rxDeliv] = n]
      /\ UNCHANGED <<rxDeliv, passed, discarded, thrown>>
      /\ HandleTReordering
    BY DEF HandlePdcpSdu, Buffer
<1>2. /\ n \in Snos /\ n \in Nat /\ rxDeliv \in Nat /\ rxNext \in Nat /\ n < sno
      /\ Arrived' = Arrived \union {n} /\ sno \in Nat
      /\ rlcType = "UM" => \A m \in leg' : m > n
      /\ \A l, m \in leg' : l < n /\ m < n => l = m
      /\ n - rxDeliv < Span /\ Span < WindowSize
    BY <1>1, ArrivalFacts
<1>3. n > rxDeliv /\ n - rxDeliv \in Slots
    BY <1>1, <1>2 DEF Refused, Slots, NrPdcpAssumption
<1>4. /\ rxNext' \in Nat /\ rxNext' >= rxNext /\ rxNext' > n /\ rxNext' <= sno
      /\ n >= rxNext => rxNext' = n + 1
      /\ n < rxNext => rxNext' = rxNext
    BY <1>1, <1>2 DEF NextAfter, IInv, NumbersInUse
<1>5. TypeOK'
    <2>1. /\ received' \in [Slots -> BOOLEAN]
          /\ sduBuffer' \in [Slots -> Snos \union {NoSdu}]
        BY <1>1, <1>2, <1>3 DEF IInv, TypeOK
    <2>2. rxNext' \in 0..MaxSno
        BY <1>2, <1>4 DEF IInv, TypeOK, NrPdcpAssumption
    <2>3. tReordering' \in BOOLEAN /\ rxReord' \in Nat
        BY <1>1, <1>4 DEF HandleTReordering, IInv, TypeOK
    <2>4. leg' \subseteq Snos
        BY <1>1 DEF IInv, TypeOK
    <2> QED
        BY <1>1, <2>1, <2>2, <2>3, <2>4 DEF IInv, TypeOK
<1>6. SlotsMatchNumbers'
    <2>1. ASSUME NEW i \in Slots
          PROVE  /\ received'[i] <=> sduBuffer'[i] # NoSdu
                 /\ received'[i] => sduBuffer'[i] = rxDeliv + i /\ rxDeliv + i < rxNext'
        <3>1. CASE i = n - rxDeliv
            <4>1. received'[i] = TRUE /\ sduBuffer'[i] = n /\ rxDeliv + i = n
                BY <1>1, <1>2, <1>3, <3>1 DEF IInv, TypeOK
            <4> QED
                BY <1>2, <1>4, <4>1 DEF NoSdu
        <3>2. CASE i # n - rxDeliv
            <4>1. received'[i] = received[i] /\ sduBuffer'[i] = sduBuffer[i]
                BY <1>1, <3>2 DEF IInv, TypeOK
            <4>2. i \in Nat
                BY DEF Slots, NrPdcpAssumption
            <4> QED
                BY <1>2, <1>4, <4>1, <4>2 DEF IInv, SlotsMatchNumbers
        <3> QED
            BY <3>1, <3>2
    <2> QED
        BY <1>1, <2>1 DEF SlotsMatchNumbers
<1>7. GapIsTimed'
    BY <1>1, <1>2, <1>3, <1>4 DEF HandleTReordering, IInv, TypeOK, GapIsTimed
<1>8. NumbersInUse' /\ NeverThrows' /\ PassedInv' /\ OnlyLateRefused'
    BY <1>1, <1>2, <1>4 DEF IInv, NumbersInUse, NeverThrows, PassedInv,
                            OnlyLateRefused
<1>9. LegInv'
    <2>1. \A m \in leg' : m \in leg /\ m # n /\ m \in Nat
        BY <1>1 DEF IInv, TypeOK, Snos
    <2>2. (rlcType = "UM" => \A m \in leg : m >= rxNext)'
        BY <1>1, <1>2, <1>4, <2>1 DEF IInv, LegInv
    <2>3. (\A l, m \in leg : l < rxNext /\ m < rxNext => l = m)'
        BY <1>2, <1>4, <2>1 DEF IInv, LegInv
    <2>4. (\A i \in Slots : received[i] => rxDeliv + i \notin leg)'
        <3>1. ASSUME NEW i \in Slots, received'[i]
              PROVE  rxDeliv + i \notin leg'
            <4>1. i = n - rxDeliv \/ received[i]
                BY <1>1, <3>1 DEF IInv, TypeOK
            <4>2. i \in Nat
                BY DEF Slots, NrPdcpAssumption
            <4> QED
                BY <1>1, <1>2, <4>1, <4>2 DEF IInv, LegInv
        <3> QED
            BY <1>1, <3>1
    <2> QED
        BY <1>1, <2>1, <2>2, <2>3, <2>4 DEF IInv, LegInv
<1>10. StoredInv'
    <2>1. ASSUME NEW m \in Arrived'
          PROVE  IF m < rxDeliv THEN m \in discarded \/ passed[m + 1] = m
                                ELSE received'[m - rxDeliv]
        <3>1. CASE m = n
            BY <1>1, <1>2, <1>3, <3>1 DEF IInv, TypeOK
        <3>2. CASE m # n
            <4>1. m \in Arrived /\ m \in Nat
                BY <1>2, <3>2 DEF Arrived
            <4>2. m - rxDeliv # n - rxDeliv
                BY <1>2, <3>2, <4>1
            <4>3. m < sno /\ (m >= rxDeliv => m - rxDeliv \in Slots)
                BY <1>1, <1>2, <4>1 DEF Arrived, Slots, IInv, NumbersInUse,
                                        NrPdcpAssumption
            <4> QED
                BY <1>1, <1>2, <4>1, <4>2, <4>3 DEF IInv, TypeOK, StoredInv
        <3> QED
            BY <3>1, <3>2
    <2> QED
        BY <1>1, <2>1 DEF StoredInv
<1> QED
    BY <1>5, <1>6, <1>7, <1>8, <1>9, <1>10 DEF IInv

\* The SDUs handed up by an in-sequence arrival are all that the receiver
\* knows: the late SDU was the only gap, so the shift loop has nothing to do.
LEMMA RunReachesNext ==
    ASSUME NrPdcpAssumption, PacedLeg, IInv, NEW n \in leg, Carries(n),
           leg' = leg \ {n}, UNCHANGED <<rlcType, reordering, sno, lost>>,
           reordering, n = rxDeliv, NEW p \in 1..WindowSize, IsRun(p)
    PROVE  rxDeliv + p = NextAfter(n) /\ ~received[0]
<1>1. /\ n \in Nat /\ rxDeliv \in Nat /\ rxNext \in Nat /\ sno \in Nat /\ n < sno
      /\ Span < WindowSize /\ Span \in Nat /\ WindowSize \in Nat /\ p \in Nat
    BY ArrivalFacts DEF NrPdcpAssumption
<1>2. 0 \in Slots
    BY <1>1 DEF Slots
<1>3. ~received[0]
    BY <1>1, <1>2 DEF IInv, LegInv
<1>4. \A i \in Slots : received[i] => rxDeliv + i < rxNext
    BY DEF IInv, SlotsMatchNumbers
<1>5. \A i \in 1..p - 1 : i \in Slots /\ received[i]
    BY <1>1 DEF IsRun, Slots
<1>6. CASE n >= rxNext
    <2>1. ~(1 \in 1..p - 1)
        BY <1>1, <1>4, <1>5, <1>6
    <2>2. p = 1
        BY <1>1, <2>1
    <2> QED
        BY <1>1, <1>3, <1>6, <2>2 DEF NextAfter
<1>7. CASE n < rxNext
    <2>1. rlcType = "AM" /\ lost = {}
        BY <1>1, <1>7 DEF IInv, TypeOK, LegInv
    <2>2. ASSUME NEW i \in 1..rxNext - rxDeliv - 1
          PROVE  received[i]
        <3>1. rxDeliv + i \notin leg
            BY <1>1, <1>7 DEF IInv, LegInv
        <3>2. rxDeliv + i \in Arrived
            BY <1>1, <2>1, <3>1 DEF Arrived, IInv, NumbersInUse
        <3>3. (rxDeliv + i) - rxDeliv = i /\ ~(rxDeliv + i < rxDeliv)
            BY <1>1
        <3> QED
            BY <3>2, <3>3 DEF IInv, StoredInv
    <2>3. rxNext - rxDeliv <= Span
        BY <1>1 DEF IInv, NumbersInUse
    <2>4. ~(p < rxNext - rxDeliv)
        BY <1>1, <2>2, <2>3 DEF IsRun, Slots
    <2>5. ~(rxNext - rxDeliv \in 1..p - 1)
        BY <1>1, <1>4, <1>5
    <2>6. p = rxNext - rxDeliv
        BY <1>1, <1>7, <2>4, <2>5
    <2> QED
        BY <1>1, <1>3, <1>7, <2>6 DEF NextAfter
<1> QED
    BY <1>1, <1>6, <1>7

LEMMA InSequenceKeeps ==
    ASSUME NrPdcpAssumption, PacedLeg, IInv, NEW n \in leg,
           HandlePdcpSdu(n), DeliverInSequence(n)
    PROVE  IInv'
<1>1. /\ Carries(n) /\ leg' = leg \ {n}
      /\ UNCHANGED <<rlcType, reordering, sno, lost>>
      /\ reordering /\ ~Refused(n) /\ n = rxDeliv
    BY DEF HandlePdcpSdu, DeliverInSequence
<1>2. /\ n \in Snos /\ n \in Nat /\ rxDeliv \in Nat /\ rxNext \in Nat /\ n < sno
      /\ Arrived' = Arrived \union {n} /\ sno \in Nat
      /\ rlcType = "UM" => \A m \in leg' : m > n
      /\ \A l, m \in leg' : l < n /\ m < n => l = m
      /\ n - rxDeliv < Span /\ Span < WindowSize
      /\ Span \in Nat /\ WindowSize \in Nat
    BY <1>1, ArrivalFacts DEF NrPdcpAssumption
<1>3. PICK p \in 1..WindowSize :
          /\ IsRun(p)
          /\ IF NextAfter(n) - (rxDeliv + p) < 0 \/ NullSdu(1..p - 1)
             THEN Throw
             ELSE /\ rxNext' = NextAfter(n)
                  /\ rxDeliv' = rxDeliv + p
                  /\ passed' = Append(passed, n) \o Handed(1, p)
                  /\ received' = Shifted(RunCleared(p), p,
                                         NextAfter(n) - (rxDeliv + p), FALSE)
                  /\ sduBuffer' = Shifted(Removed(1, p), p,
                                          NextAfter(n) - (rxDeliv + p), NoSdu)
                  /\ UNCHANGED <<discarded, thrown>>
                  /\ HandleTReordering
    BY DEF DeliverInSequence
<1>4. rxDeliv + p = NextAfter(n) /\ ~received[0] /\ p \in Nat /\ p >= 1
    BY <1>1, <1>2, <1>3, RunReachesNext
<1>5. \A i \in 1..p - 1 : i \in Slots /\ received[i]
    BY <1>2, <1>3 DEF IsRun, Slots
<1>6. ~NullSdu(1..p - 1)
    BY <1>5 DEF NullSdu, IInv, SlotsMatchNumbers
<1>7. NextAfter(n) - (rxDeliv + p) = 0
    BY <1>2, <1>4
<1>8. /\ rxNext' = rxDeliv + p /\ rxDeliv' = rxDeliv + p
      /\ passed' = Append(passed, n) \o Handed(1, p)
      /\ received' = Shifted(RunCleared(p), p, 0, FALSE)
      /\ sduBuffer' = Shifted(Removed(1, p), p, 0, NoSdu)
      /\ UNCHANGED <<discarded, thrown>>
      /\ HandleTReordering
    <2>1. ~(NextAfter(n) - (rxDeliv + p) < 0)
        BY <1>7
    <2>2. /\ rxNext' = NextAfter(n)
          /\ rxDeliv' = rxDeliv + p
          /\ passed' = Append(passed, n) \o Handed(1, p)
          /\ received' = Shifted(RunCleared(p), p,
                                 NextAfter(n) - (rxDeliv + p), FALSE)
          /\ sduBuffer' = Shifted(Removed(1, p), p,
                                  NextAfter(n) - (rxDeliv + p), NoSdu)
          /\ UNCHANGED <<discarded, thrown>>
          /\ HandleTReordering
        BY <1>3, <1>6, <2>1, Zenon
    <2>3. /\ received' = Shifted(RunCleared(p), p, 0, FALSE)
          /\ sduBuffer' = Shifted(Removed(1, p), p, 0, NoSdu)
        BY <1>7, <2>2, Zenon
    <2> QED
        BY <1>4, <2>2, <2>3, Zenon
<1>9. /\ n >= rxNext => rxDeliv' = n + 1
      /\ n < rxNext => rxDeliv' = rxNext
      /\ rxDeliv' \in Nat /\ rxDeliv' > rxDeliv /\ rxDeliv' <= sno /\ rxDeliv' >= rxNext
    BY <1>2, <1>4, <1>8 DEF NextAfter, IInv, NumbersInUse
<1>10. ASSUME NEW i \in Slots
       PROVE  received'[i] = FALSE /\ sduBuffer'[i] = NoSdu
    <2>1. i \in Nat /\ ~(i + p < 0) /\ i \notin p..0 - 1
        BY <1>2, <1>4 DEF Slots
    <2>2. received'[i] = RunCleared(p)[i] /\ sduBuffer'[i] = Removed(1, p)[i]
        BY <1>8, <2>1 DEF Shifted
    <2>3. received[i] => i \in 1..p - 1
        <3>1. received[i] => rxDeliv + i < rxNext /\ i # 0
            BY <1>4 DEF IInv, SlotsMatchNumbers
        <3> QED
            BY <1>2, <1>4, <1>8, <1>9, <2>1, <3>1
    <2>4. ~received[i] => sduBuffer[i] = NoSdu
        BY DEF IInv, SlotsMatchNumbers
    <2>5. RunCleared(p)[i] = FALSE
        BY <2>3 DEF RunCleared, IInv, TypeOK
    <2>6. Removed(1, p)[i] = NoSdu
        BY <2>3, <2>4 DEF Removed
    <2> QED
        BY <2>2, <2>5, <2>6
<1>11. /\ passed' \in Seq(Snos \union {NoSdu}) /\ Len(passed') = rxDeliv'
       /\ \A k \in 1..rxDeliv : passed'[k] = passed[k]
       /\ \A k \in rxDeliv + 1..rxDeliv' : passed'[k] = k - 1
       /\ passed \in Seq(Snos \union {NoSdu}) /\ Len(passed) = rxDeliv
    <2> DEFINE s == Append(passed, n)
               S == Snos \union {NoSdu}
    <2>1. passed \in Seq(S) /\ Len(passed) = rxDeliv
        BY <1>1 DEF IInv, TypeOK, PassedInv
    <2>2. /\ s \in Seq(S) /\ Len(s) = rxDeliv + 1
          /\ \A k \in 1..rxDeliv : s[k] = passed[k]
          /\ s[rxDeliv + 1] = n
        BY <1>2, <2>1, AppendProperties
    <2> HIDE DEF s
    <2>3. /\ Handed(1, p) \in [1..p - 1 -> S]
          /\ \A k \in 1..p - 1 : Handed(1, p)[k] = rxDeliv + k
        <3>1. TypeOK /\ SlotsMatchNumbers
            BY DEF IInv
        <3>2. /\ Handed(1, p) \in [1..p - 1 -> S]
              /\ \A k \in 1..p - 1 :
                     Handed(1, p)[k] = IF received[1 + k - 1]
                                       THEN rxDeliv + 1 + k - 1 ELSE NoSdu
            BY <1>2, <1>4, <3>1, HandedUp
        <3>3. \A k \in 1..p - 1 : 1 + k - 1 = k /\ rxDeliv + 1 + k - 1 = rxDeliv + k
            BY <1>2, <1>4
        <3> QED
            BY <1>5, <3>2, <3>3
    <2>4. p - 1 \in Nat
        BY <1>4
    <2>5. /\ s \o Handed(1, p) \in Seq(S)
          /\ Len(s \o Handed(1, p)) = Len(s) + (p - 1)
          /\ \A k \in 1..Len(s) : (s \o Handed(1, p))[k] = s[k]
          /\ \A k \in Len(s) + 1..Len(s) + (p - 1) :
                 (s \o Handed(1, p))[k] = Handed(1, p)[k - Len(s)]
        <3> DEFINE m == p - 1
                   f == Handed(1, p)
        <3>1. s \in Seq(S) /\ m \in Nat /\ f \in [1..m -> S]
            BY <2>2, <2>3, <2>4
        <3> HIDE DEF S, m, f
        <3>2. /\ s \o f \in Seq(S)
              /\ Len(s \o f) = Len(s) + m
              /\ \A k \in 1..Len(s) : (s \o f)[k] = s[k]
              /\ \A k \in Len(s) + 1..Len(s) + m : (s \o f)[k] = f[k - Len(s)]
            BY <3>1, AppendWindow
        <3> QED
            BY <3>2 DEF m, f
    <2>6. passed' = s \o Handed(1, p)
        BY <1>8 DEF s
    <2>7. \A k \in 1..rxDeliv : passed'[k] = passed[k]
        BY <1>2, <2>2, <2>5, <2>6
    <2>8. ASSUME NEW k \in rxDeliv + 1..rxDeliv'
          PROVE  passed'[k] = k - 1
        <3>1. CASE k = rxDeliv + 1
            BY <1>1, <1>2, <2>2, <2>5, <2>6, <3>1
        <3>2. CASE k > rxDeliv + 1
            <4>1. k \in Len(s) + 1..Len(s) + (p - 1) /\ k - Len(s) \in 1..p - 1
                BY <1>2, <1>4, <1>8, <2>2, <3>2
            <4>2. passed'[k] = rxDeliv + (k - Len(s))
                BY <2>3, <2>5, <2>6, <4>1
            <4> QED
                BY <1>2, <2>2, <4>2
        <3> QED
            BY <1>2, <3>1, <3>2
    <2> QED
        BY <1>2, <1>4, <1>8, <2>1, <2>2, <2>5, <2>6, <2>7, <2>8
<1>12. tReordering' = FALSE /\ rxReord' = rxReord
    <2>1. ~(tReordering /\ rxDeliv' < rxReord)
        BY <1>2, <1>9 DEF IInv, GapIsTimed, TypeOK
    <2>2. ~(rxDeliv' < rxNext')
        BY <1>8, <1>9
    <2> QED
        BY <1>8, <2>1, <2>2, Zenon DEF HandleTReordering
<1>13. TypeOK'
    <2>1. /\ received' \in [Slots -> BOOLEAN]
          /\ sduBuffer' \in [Slots -> Snos \union {NoSdu}]
        <3>1. received' = [i \in Slots |-> received'[i]]
              /\ sduBuffer' = [i \in Slots |-> sduBuffer'[i]]
            BY <1>8 DEF Shifted
        <3> QED
            BY <1>10, <3>1
    <2>2. rxNext' \in 0..MaxSno
        BY <1>2, <1>8, <1>9 DEF IInv, TypeOK, NrPdcpAssumption
    <2>3. leg' \subseteq Snos
        BY <1>1 DEF IInv, TypeOK
    <2> QED
        BY <1>1, <1>8, <1>9, <1>11, <1>12, <2>1, <2>2, <2>3 DEF IInv, TypeOK
<1>14. SlotsMatchNumbers' /\ NeverThrows'
    BY <1>8, <1>10 DEF SlotsMatchNumbers, IInv, NeverThrows
<1>15. GapIsTimed'
    BY <1>8, <1>9, <1>12 DEF GapIsTimed
<1>16. NumbersInUse'
    BY <1>1, <1>2, <1>8, <1>9 DEF IInv, NumbersInUse
<1>17. PassedInv'
    BY <1>1, <1>2, <1>9, <1>11 DEF IInv, PassedInv
<1>18. \A m \in leg' : m \in leg /\ m # n /\ m \in Nat
    BY <1>1 DEF IInv, TypeOK, Snos
<1>19. \A m \in leg' : m < rxDeliv' => m < rxDeliv
    BY <1>1, <1>2, <1>9, <1>18 DEF IInv, LegInv
<1>20. LegInv'
    <2>1. (rlcType = "UM" => \A m \in leg : m >= rxNext)'
        BY <1>1, <1>2, <1>8, <1>9, <1>18 DEF IInv, LegInv
    <2>2. (\A l, m \in leg : l < rxNext /\ m < rxNext => l = m)'
        BY <1>1, <1>2, <1>8, <1>9, <1>18 DEF IInv, LegInv
    <2>3. (\A i \in Slots : received[i] => rxDeliv + i \notin leg)'
        BY <1>10
    <2>4. ASSUME NEW m \in leg', m < rxDeliv'
          PROVE  passed'[m + 1] = NoSdu
        <3>1. m < rxDeliv /\ m + 1 \in 1..rxDeliv
            BY <1>2, <1>18, <1>19, <2>4
        <3> QED
            BY <1>1, <1>11, <1>18, <3>1 DEF IInv, LegInv
    <2> QED
        BY <1>1, <1>18, <2>1, <2>2, <2>3, <2>4 DEF IInv, LegInv
<1>21. OnlyLateRefused'
    <2>1. DOMAIN passed = 1..rxDeliv /\ DOMAIN passed' = 1..rxDeliv'
        BY <1>11, LenProperties
    <2>2. ASSUME NEW m \in discarded
          PROVE  m < rxDeliv' /\ m + 1 \in DOMAIN passed' /\ passed'[m + 1] = NoSdu
        <3>1. m \in Nat /\ m < rxDeliv /\ m + 1 \in DOMAIN passed /\ passed[m + 1] = NoSdu
            BY DEF IInv, TypeOK, Snos, OnlyLateRefused
        <3> QED
            BY <1>2, <1>9, <1>11, <2>1, <3>1
    <2> QED
        BY <1>8, <2>2 DEF OnlyLateRefused
<1>22. StoredInv'
    <2>1. ASSUME NEW m \in Arrived'
          PROVE  m < rxDeliv' /\ (m \in discarded \/ passed'[m + 1] = m)
        <3>1. m \in Nat /\ m < sno
            BY <1>2 DEF Arrived
        <3>2. CASE m < rxDeliv
            <4>1. m \in Arrived /\ m + 1 \in 1..rxDeliv
                BY <1>1, <1>2, <3>1, <3>2
            <4> QED
                BY <1>1, <1>2, <1>9, <1>11, <3>1, <3>2, <4>1 DEF IInv, StoredInv
        <3>3. CASE m >= rxDeliv
            <4>1. m < rxDeliv'
                <5>1. CASE m = n
                    BY <1>1, <1>9, <5>1
                <5>2. CASE m # n
                    <6>1. m \in Arrived /\ m - rxDeliv \in Slots
                        BY <1>1, <1>2, <3>1, <3>3, <5>2
                           DEF Slots, IInv, NumbersInUse
                    <6>2. received[m - rxDeliv]
                        BY <1>1, <1>2, <3>1, <3>3, <6>1 DEF IInv, StoredInv
                    <6>3. rxDeliv + (m - rxDeliv) < rxNext
                        BY <6>1, <6>2 DEF IInv, SlotsMatchNumbers
                    <6> QED
                        BY <1>2, <1>9, <3>1, <6>3
                <5> QED
                    BY <5>1, <5>2
            <4>2. m + 1 \in rxDeliv + 1..rxDeliv'
                BY <1>2, <1>9, <3>1, <3>3, <4>1
            <4> QED
                BY <1>11, <3>1, <4>1, <4>2
        <3> QED
            BY <1>2, <3>1, <3>2, <3>3
    <2> QED
        BY <1>1, <1>8, <2>1 DEF StoredInv
<1> QED
    BY <1>13, <1>14, <1>15, <1>16, <1>17, <1>20, <1>21, <1>22 DEF IInv

\* Where the timer's handler stops: within the numbers the receiver knows, so
\* in the lower half of the window.
LEMMA ExpiryInWindow ==
    ASSUME NrPdcpAssumption, PacedLeg, IInv, tReordering,
           NEW e \in Slots \union {WindowSize}, IsExpiry(e)
    PROVE  /\ e \in Nat /\ e >= 1 /\ rxDeliv + e <= rxNext
           /\ e + e <= WindowSize /\ ~RunsOff(e) /\ reordering
<1>1. /\ rxNext \in Nat /\ rxDeliv \in Nat /\ rxReord \in Nat /\ sno \in Nat
      /\ WindowSize \in Nat /\ Span \in Nat /\ Span >= 1 /\ 2 * Span <= WindowSize
    BY DEF IInv, TypeOK, NrPdcpAssumption, PacedLeg
<1>2. rxDeliv < rxReord /\ rxReord <= rxNext /\ rxNext <= sno
    BY DEF IInv, GapIsTimed, NumbersInUse
<1>3. reordering
    BY <1>1, <1>2 DEF IInv, NumbersInUse, TypeOK
<1>4. rxNext - rxDeliv <= Span
    BY <1>1, <1>2, <1>3 DEF IInv, NumbersInUse
<1>5. e \in Nat /\ e >= rxReord - rxDeliv /\ e <= WindowSize
    BY <1>1 DEF IsExpiry, Slots
<1>6. rxDeliv + e <= rxNext
    <2> DEFINE y == rxNext - rxDeliv
    <2>1. SUFFICES ASSUME e > y
                   PROVE  FALSE
        BY <1>1, <1>5
    <2>2. y \in rxReord - rxDeliv..e - 1 /\ y \in Slots
        BY <1>1, <1>2, <1>4, <1>5, <2>1 DEF Slots
    <2>3. ~Stops(y)
        BY <2>2 DEF IsExpiry
    <2>4. received[y]
        BY <2>2, <2>3 DEF Stops
    <2>5. rxDeliv + y < rxNext
        BY <2>2, <2>4 DEF IInv, SlotsMatchNumbers
    <2> QED
        BY <1>1, <2>5
<1>7. e <= Span
    BY <1>1, <1>4, <1>5, <1>6
<1>8. e + e <= WindowSize /\ e # WindowSize
    BY <1>1, <1>5, <1>7
<1> QED
    BY <1>1, <1>2, <1>3, <1>5, <1>6, <1>8 DEF RunsOff

LEMMA ExpiryKeeps ==
    ASSUME NrPdcpAssumption, PacedLeg, IInv, ReorderingExpires
    PROVE  IInv'
<1>1. tReordering /\ UNCHANGED <<rlcType, reordering, sno, leg, lost>>
    BY DEF ReorderingExpires
<1>2. PICK e \in Slots \union {WindowSize} :
          /\ IsExpiry(e)
          /\ IF RunsOff(e) \/ NullSdu(0..e - 1)
             THEN Throw
             ELSE /\ passed' = passed \o Handed(0, e)
                  /\ rxDeliv' = rxDeliv + e
                  /\ received' = Shifted(received, e, WindowSize, FALSE)
                  /\ sduBuffer' = Shifted(Removed(0, e), e, WindowSize, NoSdu)
                  /\ UNCHANGED <<rxNext, discarded, thrown>>
                  /\ RestartTimer
    BY DEF ReorderingExpires
<1>3. /\ e \in Nat /\ e >= 1 /\ rxDeliv + e <= rxNext
      /\ e + e <= WindowSize /\ ~RunsOff(e) /\ reordering
    BY <1>1, <1>2, ExpiryInWindow
<1>4. /\ WindowSize \in Nat /\ rxDeliv \in Nat /\ rxNext \in Nat /\ sno \in Nat
      /\ rxNext <= sno /\ rxDeliv + e \in Nat
    BY <1>3 DEF NrPdcpAssumption, IInv, TypeOK, NumbersInUse
<1>5. \A i \in 0..e - 1 : i \in Slots
    BY <1>3, <1>4 DEF Slots
<1>6. ~NullSdu(0..e - 1)
    BY <1>5 DEF NullSdu, IInv, SlotsMatchNumbers
<1>7. /\ passed' = passed \o Handed(0, e)
      /\ rxDeliv' = rxDeliv + e
      /\ received' = Shifted(received, e, WindowSize, FALSE)
      /\ sduBuffer' = Shifted(Removed(0, e), e, WindowSize, NoSdu)
      /\ UNCHANGED <<rxNext, discarded, thrown>>
      /\ RestartTimer
    BY <1>2, <1>3, <1>6, Zenon
<1>8. ASSUME NEW i \in Slots, i + e < WindowSize
      PROVE  /\ i + e \in Slots
             /\ received'[i] = received[i + e] /\ sduBuffer'[i] = sduBuffer[i + e]
    <2>1. i + e \in Slots /\ i + e \notin 0..e - 1
        BY <1>3, <1>4, <1>8 DEF Slots
    <2>2. Removed(0, e)[i + e] = sduBuffer[i + e]
        BY <2>1 DEF Removed
    <2>3. received'[i] = received[i + e] /\ sduBuffer'[i] = Removed(0, e)[i + e]
        BY <1>7, <1>8 DEF Shifted
    <2> QED
        BY <2>1, <2>2, <2>3
<1>9. ASSUME NEW i \in Slots, ~(i + e < WindowSize)
      PROVE  received'[i] = FALSE /\ sduBuffer'[i] = NoSdu
    <2>1. i \in e..WindowSize - 1
        BY <1>3, <1>4, <1>9 DEF Slots
    <2> QED
        BY <1>7, <1>9, <2>1 DEF Shifted
<1>10. /\ passed' \in Seq(Snos \union {NoSdu}) /\ Len(passed') = rxDeliv'
       /\ \A k \in 1..rxDeliv : passed'[k] = passed[k]
       /\ \A k \in rxDeliv + 1..rxDeliv' :
              passed'[k] = IF received[k - 1 - rxDeliv] THEN k - 1 ELSE NoSdu
       /\ passed \in Seq(Snos \union {NoSdu}) /\ Len(passed) = rxDeliv
    <2> DEFINE f == Handed(0, e)
               S == Snos \union {NoSdu}
    <2>1. passed \in Seq(S) /\ Len(passed) = rxDeliv
        BY <1>3 DEF IInv, TypeOK, PassedInv
    <2>2. /\ f \in [1..e -> S]
          /\ \A k \in 1..e : f[k] = IF received[k - 1] THEN rxDeliv + k - 1 ELSE NoSdu
        <3>1. TypeOK /\ SlotsMatchNumbers /\ 0 \in Nat /\ 0 <= e /\ e <= WindowSize
            BY <1>3, <1>4 DEF IInv
        <3>2. /\ f \in [1..e - 0 -> S]
              /\ \A k \in 1..e - 0 :
                     f[k] = IF received[0 + k - 1] THEN rxDeliv + 0 + k - 1 ELSE NoSdu
            BY <1>3, <3>1, HandedUp
        <3>3. e - 0 = e /\ \A k \in 1..e : 0 + k - 1 = k - 1 /\ rxDeliv + 0 + k - 1 = rxDeliv + k - 1
            BY <1>3, <1>4
        <3> QED
            BY <3>2, <3>3
    <2> HIDE DEF f
    <2>3. /\ passed \o f \in Seq(S)
          /\ Len(passed \o f) = Len(passed) + e
          /\ \A k \in 1..Len(passed) : (passed \o f)[k] = passed[k]
          /\ \A k \in Len(passed) + 1..Len(passed) + e :
                 (passed \o f)[k] = f[k - Len(passed)]
        <3> HIDE DEF S
        <3> DEFINE s == passed
                   m == e
        <3>1. s \in Seq(S) /\ m \in Nat /\ f \in [1..m -> S]
            BY <1>3, <2>1, <2>2, Zenon
        <3> HIDE DEF s, m
        <3>2. /\ s \o f \in Seq(S)
              /\ Len(s \o f) = Len(s) + m
              /\ \A k \in 1..Len(s) : (s \o f)[k] = s[k]
              /\ \A k \in Len(s) + 1..Len(s) + m : (s \o f)[k] = f[k - Len(s)]
            BY <3>1, AppendWindow
        <3> QED
            BY <3>2, Zenon DEF s, m
    <2>4. passed' = passed \o f
        BY <1>7 DEF f
    <2>5. ASSUME NEW k \in rxDeliv + 1..rxDeliv'
          PROVE  passed'[k] = IF received[k - 1 - rxDeliv] THEN k - 1 ELSE NoSdu
        <3>1. /\ k \in Len(passed) + 1..Len(passed) + e /\ k - rxDeliv \in 1..e
              /\ (k - rxDeliv) - 1 = k - 1 - rxDeliv
              /\ rxDeliv + (k - rxDeliv) - 1 = k - 1
            BY <1>3, <1>4, <1>7, <2>1
        <3>2. passed'[k] = f[k - rxDeliv]
            BY <2>1, <2>3, <2>4, <3>1
        <3> QED
            BY <2>2, <3>1, <3>2
    <2> QED
        BY <1>7, <2>1, <2>3, <2>4, <2>5
<1>20. ASSUME NEW m \in Nat, m >= rxDeliv, m < rxDeliv'
      PROVE  /\ m - rxDeliv \in Slots
             /\ passed'[m + 1] = IF received[m - rxDeliv] THEN m ELSE NoSdu
    <2>1. m + 1 \in rxDeliv + 1..rxDeliv' /\ m - rxDeliv \in Slots
        BY <1>3, <1>4, <1>7, <1>20 DEF Slots
    <2>2. (m + 1) - 1 - rxDeliv = m - rxDeliv /\ (m + 1) - 1 = m
        BY <1>4, <1>20
    <2>3. passed'[m + 1] = IF received[(m + 1) - 1 - rxDeliv] THEN (m + 1) - 1 ELSE NoSdu
        BY <1>10, <2>1
    <2> QED
        BY <2>1, <2>2, <2>3
<1>11. TypeOK'
    <2>1. /\ received' \in [Slots -> BOOLEAN]
          /\ sduBuffer' \in [Slots -> Snos \union {NoSdu}]
        <3>1. received' = [i \in Slots |-> received'[i]]
              /\ sduBuffer' = [i \in Slots |-> sduBuffer'[i]]
            BY <1>7 DEF Shifted
        <3>2. \A i \in Slots : /\ received'[i] \in BOOLEAN
                               /\ sduBuffer'[i] \in Snos \union {NoSdu}
            BY <1>8, <1>9 DEF IInv, TypeOK
        <3> QED
            BY <3>1, <3>2
    <2>2. tReordering' \in BOOLEAN /\ rxReord' \in Nat
        BY <1>7 DEF RestartTimer, IInv, TypeOK
    <2> QED
        BY <1>1, <1>4, <1>7, <1>10, <2>1, <2>2 DEF IInv, TypeOK
<1>12. SlotsMatchNumbers'
    <2>1. ASSUME NEW i \in Slots
          PROVE  /\ received'[i] <=> sduBuffer'[i] # NoSdu
                 /\ received'[i] => sduBuffer'[i] = rxDeliv' + i /\ rxDeliv' + i < rxNext
        <3>1. CASE i + e < WindowSize
            <4>1. i \in Nat /\ rxDeliv + (i + e) = rxDeliv' + i
                BY <1>3, <1>4, <1>7 DEF Slots
            <4> QED
                BY <1>8, <3>1, <4>1 DEF IInv, SlotsMatchNumbers
        <3>2. CASE ~(i + e < WindowSize)
            BY <1>9, <3>2
        <3> QED
            BY <3>1, <3>2
    <2> QED
        BY <1>7, <2>1 DEF SlotsMatchNumbers
<1>13. GapIsTimed'
    <2>1. tReordering' <=> rxDeliv' < rxNext
        BY <1>7, Zenon DEF RestartTimer
    <2>2. rxDeliv' < rxNext => rxReord' = rxNext
        BY <1>7, Zenon DEF RestartTimer
    <2>3. rxNext' = rxNext /\ rxNext <= rxNext
        BY <1>4, <1>7
    <2> QED
        BY <2>1, <2>2, <2>3, Zenon DEF GapIsTimed
<1>14. NumbersInUse' /\ NeverThrows'
    BY <1>1, <1>3, <1>4, <1>7 DEF IInv, NumbersInUse, NeverThrows, NrPdcpAssumption
<1>15. PassedInv'
    <2>1. ASSUME NEW k \in 1..rxDeliv'
          PROVE  passed'[k] \in {k - 1, NoSdu}
        <3>1. k \in 1..rxDeliv \/ k \in rxDeliv + 1..rxDeliv'
            BY <1>4, <1>7
        <3> QED
            BY <1>3, <1>10, <3>1 DEF IInv, PassedInv
    <2> QED
        BY <1>10, <2>1 DEF PassedInv
<1>16. \A m \in leg : m \in Nat /\ m < sno
    BY DEF IInv, TypeOK, Snos, LegInv
<1>17. LegInv'
    <2>1. ASSUME NEW i \in Slots, received'[i]
          PROVE  rxDeliv' + i \notin leg
        <3>1. i + e < WindowSize
            BY <1>9, <2>1
        <3>2. i + e \in Slots /\ received[i + e] /\ rxDeliv + (i + e) = rxDeliv' + i
            <4>1. i + e \in Slots /\ received[i + e]
                BY <1>8, <2>1, <3>1, Zenon
            <4>2. i \in Nat
                BY <1>4 DEF Slots
            <4>3. rxDeliv + (i + e) = rxDeliv' + i
                BY <1>3, <1>4, <1>7, <4>2
            <4> QED
                BY <4>1, <4>3
        <3>3. rxDeliv + (i + e) \notin leg
            BY <3>2 DEF IInv, LegInv
        <3> QED
            BY <3>2, <3>3
    <2>2. ASSUME NEW m \in leg, m < rxDeliv'
          PROVE  passed'[m + 1] = NoSdu
        <3>1. CASE m < rxDeliv
            <4>1. m + 1 \in 1..rxDeliv
                BY <1>4, <1>16, <3>1
            <4> QED
                BY <1>3, <1>10, <3>1, <4>1 DEF IInv, LegInv
        <3>2. CASE m >= rxDeliv
            <4>1. m \in Nat /\ rxDeliv + (m - rxDeliv) = m
                BY <1>4, <1>16
            <4>2. /\ m - rxDeliv \in Slots
                  /\ passed'[m + 1] = IF received[m - rxDeliv] THEN m ELSE NoSdu
                BY <1>20, <2>2, <3>2, <4>1
            <4>3. ~received[m - rxDeliv]
                BY <4>1, <4>2 DEF IInv, LegInv
            <4> QED
                BY <4>2, <4>3
        <3> QED
            BY <1>4, <1>16, <3>1, <3>2
    <2> QED
        BY <1>1, <1>7, <2>1, <2>2 DEF IInv, LegInv
<1>18. OnlyLateRefused'
    <2>1. DOMAIN passed = 1..rxDeliv /\ DOMAIN passed' = 1..rxDeliv'
        BY <1>10, LenProperties
    <2>2. ASSUME NEW m \in discarded
          PROVE  m < rxDeliv' /\ m + 1 \in DOMAIN passed' /\ passed'[m + 1] = NoSdu
        <3>1. m \in Nat /\ m < rxDeliv /\ m + 1 \in DOMAIN passed /\ passed[m + 1] = NoSdu
            BY DEF IInv, TypeOK, Snos, OnlyLateRefused
        <3> QED
            BY <1>3, <1>4, <1>7, <1>10, <2>1, <3>1
    <2> QED
        BY <1>7, <2>2 DEF OnlyLateRefused
<1>19. StoredInv'
    <2>1. Arrived' = Arrived /\ \A m \in Arrived : m \in Nat /\ m < sno
        BY <1>1, <1>4 DEF Arrived
    <2>2. ASSUME NEW m \in Arrived
          PROVE  IF m < rxDeliv' THEN m \in discarded \/ passed'[m + 1] = m
                                 ELSE received'[m - rxDeliv']
        <3>1. CASE m < rxDeliv
            <4>1. m + 1 \in 1..rxDeliv /\ m < rxDeliv'
                BY <1>3, <1>4, <1>7, <2>1, <3>1
            <4> QED
                BY <1>3, <1>10, <3>1, <4>1 DEF IInv, StoredInv
        <3>2. CASE m >= rxDeliv /\ m < rxDeliv'
            <4>1. m \in Nat /\ ~(m < rxDeliv)
                BY <1>4, <2>1, <3>2
            <4>2. received[m - rxDeliv]
                BY <1>3, <4>1 DEF IInv, StoredInv
            <4>3. passed'[m + 1] = m
                BY <1>20, <3>2, <4>1, <4>2
            <4> QED
                BY <3>2, <4>3
        <3>3. CASE m >= rxDeliv'
            <4>1. ~(m < rxDeliv) /\ (m - rxDeliv') + e = m - rxDeliv
                BY <1>3, <1>4, <1>7, <2>1, <3>3
            <4>2. received[m - rxDeliv]
                BY <1>3, <4>1 DEF IInv, StoredInv
            <4>3. m - rxDeliv' \in Slots /\ (m - rxDeliv') + e < WindowSize
                BY <1>3, <1>4, <1>7, <2>1, <3>3
                   DEF Slots, IInv, NumbersInUse, PacedLeg, NrPdcpAssumption
            <4>4. ~(m < rxDeliv')
                BY <1>4, <1>7, <2>1, <3>3
            <4> QED
                BY <1>8, <4>1, <4>2, <4>3, <4>4
        <3>4. m < rxDeliv \/ (m >= rxDeliv /\ m < rxDeliv') \/ m >= rxDeliv'
            BY <1>4, <1>7, <2>1
        <3> QED
            BY <3>1, <3>2, <3>3, <3>4
    <2> QED
        BY <1>1, <1>3, <1>7, <2>1, <2>2 DEF StoredInv
<1> QED
    BY <1>11, <1>12, <1>13, <1>14, <1>15, <1>17, <1>18, <1>19 DEF IInv

------------------------------------------------------------------------------
(* The theorems.                                                           *)

\* The invariant holds in every state of a paced leg.
THEOREM Invariant ==
    ASSUME NrPdcpAssumption, PacedLeg
    PROVE  Spec => []IInv
<1>1. Init => IInv
    BY InitHolds
<1>2. IInv /\ [Next]_vars => IInv'
    <2>1. SUFFICES ASSUME IInv, [Next]_vars
                   PROVE  IInv'
        OBVIOUS
    <2>2. CASE Send
        BY <2>2, <2>1, SendKeeps
    <2>3. ASSUME NEW n \in leg, Lose(n)
          PROVE  IInv'
        BY <2>1, <2>3, LoseKeeps
    <2>4. ASSUME NEW n \in leg, HandlePdcpSdu(n)
          PROVE  IInv'
        <3>1. CASE PassStraight(n)
            BY <2>1, <2>4, <3>1, StraightKeeps
        <3>2. CASE Discard(n)
            BY <2>1, <2>4, <3>2, DiscardKeeps
        <3>3. CASE DeliverInSequence(n)
            BY <2>1, <2>4, <3>3, InSequenceKeeps
        <3>4. CASE Buffer(n)
            BY <2>1, <2>4, <3>4, BufferKeeps
        <3> QED
            BY <2>4, <3>1, <3>2, <3>3, <3>4 DEF HandlePdcpSdu
    <2>5. CASE ReorderingExpires
        BY <2>1, <2>5, ExpiryKeeps
    <2>6. CASE UNCHANGED vars
        BY <2>1, <2>6 DEF vars, rxVars, windowVars, timerVars, IInv, TypeOK,
            NeverThrows, SlotsMatchNumbers, GapIsTimed, NumbersInUse, LegInv,
            PassedInv, StoredInv, Arrived, OnlyLateRefused
    <2> QED
        BY <2>1, <2>2, <2>3, <2>4, <2>5, <2>6 DEF Next
<1> QED
    BY <1>1, <1>2, PTL DEF Spec

\* Every variable keeps its type: no handler writes outside the window.
THEOREM TypeCorrect ==
    ASSUME NrPdcpAssumption, PacedLeg
    PROVE  Spec => []TypeOK
<1>1. IInv => TypeOK
    BY DEF IInv
<1> QED
    BY <1>1, Invariant, PTL

\* handlePdcpSdu and handleMessage never index received_ out of range and
\* never cast an SDU that is not there.
THEOREM HandlersNeverThrow ==
    ASSUME NrPdcpAssumption, PacedLeg
    PROVE  Spec => []NeverThrows
<1>1. IInv => NeverThrows
    BY DEF IInv
<1> QED
    BY <1>1, Invariant, PTL

\* After any sequence of shifts slot i stands for number rxDeliv_ + i.
THEOREM SlotsStayInStep ==
    ASSUME NrPdcpAssumption, PacedLeg
    PROVE  Spec => []SlotsMatchNumbers
<1>1. IInv => SlotsMatchNumbers
    BY DEF IInv
<1> QED
    BY <1>1, Invariant, PTL

\* SDUs wait behind a gap only while t_reordering runs.
THEOREM GapsAreTimed ==
    ASSUME NrPdcpAssumption, PacedLeg
    PROVE  Spec => []GapIsTimed
<1>1. IInv => GapIsTimed
    BY DEF IInv
<1> QED
    BY <1>1, Invariant, PTL

\* NRRxPdcpEntity hands SDUs up in the order of their numbers, each once.
THEOREM DeliversInOrder ==
    ASSUME NrPdcpAssumption, PacedLeg
    PROVE  Spec => []DeliveredInOrder
<1>1. IInv => DeliveredInOrder
    <2>1. SUFFICES ASSUME IInv, reordering, NEW i \in 1..Len(passed),
                          NEW j \in 1..Len(passed), i < j,
                          passed[i] # NoSdu, passed[j] # NoSdu
                   PROVE  passed[i] < passed[j]
        BY DEF DeliveredInOrder
    <2>2. passed[i] = i - 1 /\ passed[j] = j - 1 /\ i \in Int /\ j \in Int
        BY <2>1 DEF IInv, PassedInv, TypeOK
    <2> QED
        BY <2>1, <2>2
<1> QED
    BY <1>1, Invariant, PTL

\* No SDU that reached the receiving entity is dropped by a shift: it was
\* handed up, waits in its slot, or was refused on arrival.
THEOREM NothingIsDropped ==
    ASSUME NrPdcpAssumption, PacedLeg
    PROVE  Spec => []ArrivedIsKept
<1>1. IInv => ArrivedIsKept
    <2>1. SUFFICES ASSUME IInv, NEW n \in Arrived
                   PROVE  \/ n \in discarded
                          \/ \E i \in 1..Len(passed) : passed[i] = n
                          \/ \E i \in Slots : sduBuffer[i] = n
        BY DEF ArrivedIsKept
    <2>2. n \in Nat /\ n < sno /\ rxDeliv \in Nat /\ sno \in Nat
        BY <2>1 DEF Arrived, IInv, TypeOK
    <2>3. CASE ~reordering
        BY <2>1, <2>3 DEF IInv, StoredInv
    <2>4. CASE reordering /\ n < rxDeliv
        <3>1. n + 1 \in 1..Len(passed)
            BY <2>1, <2>2, <2>4 DEF IInv, PassedInv
        <3> QED
            BY <2>1, <2>4, <3>1 DEF IInv, StoredInv
    <2>5. CASE reordering /\ n >= rxDeliv
        <3>1. n - rxDeliv \in Slots /\ rxDeliv + (n - rxDeliv) = n /\ ~(n < rxDeliv)
            BY <2>1, <2>2, <2>5 DEF IInv, NumbersInUse, Slots, PacedLeg,
                                    NrPdcpAssumption
        <3>2. received[n - rxDeliv]
            BY <2>1, <2>5, <3>1 DEF IInv, StoredInv
        <3>3. sduBuffer[n - rxDeliv] = n
            BY <2>1, <3>1, <3>2 DEF IInv, SlotsMatchNumbers
        <3> QED
            BY <3>1, <3>3
    <2> QED
        BY <2>1, <2>2, <2>3, <2>4, <2>5 DEF IInv, TypeOK
<1> QED
    BY <1>1, Invariant, PTL

\* An SDU is refused only after t_reordering gave up its number.
THEOREM OnlyLateAreRefused ==
    ASSUME NrPdcpAssumption, PacedLeg
    PROVE  Spec => []OnlyLateRefused
<1>1. IInv => OnlyLateRefused
    BY DEF IInv
<1> QED
    BY <1>1, Invariant, PTL

\* No SDU that reached the receiver is lost in it.
THEOREM NothingIsLostInside ==
    ASSUME NrPdcpAssumption, PacedLeg
    PROVE  Spec => []ArrivalsAccounted
BY NothingIsDropped, OnlyLateAreRefused, PTL DEF ArrivalsAccounted
=============================================================================
