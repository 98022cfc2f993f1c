----------------------------- MODULE RlcUmProofs -----------------------------
(***************************************************************************)
(* Proofs about RlcUm for every window size, number of HARQ processes and  *)
(* length of SDUs.                                                         *)
(*                                                                         *)
(* The window: IInv adds to WindowInOrder and GapIsTimed that the highest  *)
(* number received is still in the buffer while there is a gap: that is    *)
(* what makes the buffer empty exactly when VR(UR) has caught up.          *)
(*                                                                         *)
(* The SDUs: SduInv follows each of them from the queue of one end to PDCP *)
(* of the other.  At the transmitter (TxOK) every PDU goes on where the    *)
(* one before it stopped; at the receiver (RxOK) what went up are the SDUs *)
(* that ended in a PDU reordering has passed, and of which every PDU was   *)
(* taken, and what waits is the start of the SDU the last of these cut.    *)
(***************************************************************************)
EXTENDS RlcUm, FiniteSetTheorems, WellFoundedInduction, TLAPS

WindowType ==
    /\ window \in Window /\ window.size # 0
    /\ multicast \in BOOLEAN /\ init \in BOOLEAN /\ reordering \in BOOLEAN
    /\ buffer \in SUBSET Nat /\ air \in SUBSET Nat
    /\ sno \in Nat

\* The newest PDU is among those that wait.
HighestWaits == window.uh > window.ur => window.uh - 1 \in buffer

\* Before the first PDU of a multicast flow nothing waits.
FreshIsEmpty == multicast /\ ~init => buffer = {} /\ ~reordering

\* The places of the window exist in received_.
SizeFits == window.size <= WindowSize

IInv ==
    /\ WindowType
    /\ WindowInOrder
    /\ GapIsTimed
    /\ HighestWaits
    /\ FreshIsEmpty
    /\ SizeFits

-----------------------------------------------------------------------------
(* Least elements. *)

LEMMA Least ==
    ASSUME NEW T \in SUBSET Nat, T # {}
    PROVE  Min(T) \in T /\ \A n \in T : Min(T) <= n
<1>1. PICK m \in T : \A n \in T : ~ (<<n, m>> \in OpToRel(<, Nat))
  BY WFMin, NatLessThanWellFounded
<1>2. \A n \in T : ~ (n < m)
  BY <1>1 DEF OpToRel
<1>3. \A n \in T : m =< n
  BY <1>2
<1>4. QED
  BY <1>3 DEF Min

LEMMA MinTwo ==
    ASSUME NEW a \in Int, NEW b \in Int
    PROVE  /\ Min({a, b}) \in {a, b}
           /\ Min({a, b}) <= a /\ Min({a, b}) <= b
<1>1. \E x \in {a, b} : \A y \in {a, b} : x =< y
  BY SMT
<1>2. QED
  BY <1>1 DEF Min

LEMMA MaxTwo ==
    ASSUME NEW a \in Int, NEW b \in Int
    PROVE  /\ Max({a, b}) \in {a, b}
           /\ Max({a, b}) >= a /\ Max({a, b}) >= b
<1>1. \E x \in {a, b} : \A y \in {a, b} : x >= y
  BY SMT
<1>2. QED
  BY <1>1 DEF Max

\* The search for the first missing number stays below the highest one, and
\* stops at a number that is missing unless it got there.
LEMMA Missing ==
    ASSUME NEW w, w.uh \in Nat, NEW n \in Nat, n <= w.uh, NEW held \in SUBSET Nat
    PROVE  /\ FirstMissing(n, w, held) \in Nat
           /\ n <= FirstMissing(n, w, held)
           /\ FirstMissing(n, w, held) <= w.uh
           /\ \/ FirstMissing(n, w, held) = w.uh
              \/ FirstMissing(n, w, held) \notin held
<1> DEFINE T == {u \in n..w.uh : u = w.uh \/ u \notin held}
<1>1. T \in SUBSET Nat /\ w.uh \in T
  OBVIOUS
<1>2. Min(T) \in T
  <2> HIDE DEF T
  <2> QED BY <1>1, Least
<1>3. FirstMissing(n, w, held) = Min(T)
  BY DEF FirstMissing
<1>4. QED
  BY <1>2, <1>3

-----------------------------------------------------------------------------
(* enque. *)

\* The window an arrival meets.
LEMMA Met ==
    ASSUME IInv, NEW t \in Nat
    PROVE  /\ Entry(t) \in Window /\ Entry(t).size # 0 /\ Entry(t).size <= WindowSize
           /\ Entry(t).first <= Entry(t).ur
           /\ Entry(t).ur <= Entry(t).uh
           /\ Entry(t).uh <= Entry(t).first + Entry(t).size
           /\ \A u \in buffer : Entry(t).ur < u /\ u < Entry(t).uh
           /\ Entry(t).uh > Entry(t).ur => Entry(t).uh - 1 \in buffer
           /\ reordering => Entry(t).ux > Entry(t).ur
<1> USE DEF IInv, WindowType, Window
<1>1. WindowSize \in Nat /\ WindowSize >= 1
  BY UmRxAssumption
<1>2. CASE multicast /\ ~init
  BY <1>1, <1>2 DEF Entry, FreshIsEmpty
<1>3. CASE ~(multicast /\ ~init)
  <2>1. Entry(t) = window
    BY <1>3 DEF Entry
  <2>2. reordering => window.ux > window.ur
    BY DEF GapIsTimed
  <2> QED
    BY <1>1, <2>1, <2>2 DEF WindowInOrder, HighestWaits, SizeFits
<1> QED
  BY <1>2, <1>3

\* The window never overtakes the PDU, and leaves it a place.
LEMMA Moves ==
    ASSUME NEW w \in Window, w.size # 0, NEW t \in Nat, t >= w.ur,
           w.first <= w.ur, w.ur <= w.uh, w.uh <= w.first + w.size
    PROVE  LET moved == Moved(w, t) IN
           /\ moved \in Window /\ moved.size = w.size /\ moved.ux = w.ux
           /\ w.first <= moved.first /\ moved.first <= moved.ur
           /\ w.ur <= moved.ur /\ moved.ur <= t
           /\ moved.uh > t /\ moved.uh >= w.uh
           /\ moved.uh = w.uh \/ moved.uh = t + 1
           /\ moved.uh <= moved.first + w.size
           /\ t < w.uh => moved.first = w.first /\ moved.uh = w.uh
<1> USE DEF Window
<1> DEFINE s == Shift(w, t)
           first == w.first + s
<1>0. w.first \in Nat /\ w.ur \in Nat /\ w.uh \in Nat /\ w.size \in Nat /\ w.ux \in Nat
  OBVIOUS
<1>1. /\ s \in Nat /\ first <= t
      /\ t < w.uh => s = 0
      /\ t >= w.uh => t + 1 <= first + w.size
  <2>1. CASE t >= w.uh /\ w.first + w.size < t + 1
    <3>1. s = Min({t + 1 - w.uh, t - w.first})
      BY <2>1 DEF Shift
    <3>2. /\ s \in {t + 1 - w.uh, t - w.first}
          /\ s <= t - w.first
      <4>1. t + 1 - w.uh \in Int /\ t - w.first \in Int
        OBVIOUS
      <4> HIDE DEF s
      <4> QED BY <3>1, <4>1, MinTwo
    <3> HIDE DEF s
    <3> QED BY <1>0, <2>1, <3>2
  <2>2. CASE ~(t >= w.uh /\ w.first + w.size < t + 1)
    <3>1. s = 0
      BY <2>2 DEF Shift
    <3> HIDE DEF s
    <3> QED BY <1>0, <2>2, <3>1
  <2> QED
    BY <2>1, <2>2
<1>2. Moved(w, t) = [w EXCEPT !.first = first, !.ur = Max({w.ur, first}),
                              !.uh = Max({w.uh, t + 1})]
  BY DEF Moved
<1> HIDE DEF s
<1>3. /\ Max({w.ur, first}) \in {w.ur, first}
      /\ Max({w.ur, first}) >= w.ur /\ Max({w.ur, first}) >= first
  <2>1. w.ur \in Int /\ first \in Int
    BY <1>0, <1>1
  <2> HIDE DEF first
  <2> QED
    BY ONLY <2>1, MaxTwo, Zenon
<1>4. /\ Max({w.uh, t + 1}) \in {w.uh, t + 1}
      /\ Max({w.uh, t + 1}) >= w.uh /\ Max({w.uh, t + 1}) >= t + 1
  <2>1. w.uh \in Int /\ t + 1 \in Int
    BY <1>0
  <2> QED
    BY ONLY <2>1, MaxTwo, Zenon
<1> DEFINE ur == Max({w.ur, first})
           uh == Max({w.uh, t + 1})
<1> HIDE DEF ur, uh, first
<1>5. Moved(w, t) = [w EXCEPT !.first = first, !.ur = ur, !.uh = uh]
  BY <1>2 DEF ur, uh
<1>6. first \in Nat /\ w.first <= first
  BY <1>0, <1>1 DEF first
<1>7. ur \in Nat /\ first <= ur /\ w.ur <= ur /\ ur <= t
  BY <1>0, <1>1, <1>3, <1>6 DEF ur
<1>8. uh \in Nat /\ uh > t /\ uh >= w.uh /\ (uh = w.uh \/ uh = t + 1)
  BY <1>0, <1>4 DEF uh
<1>9. t < w.uh => first = w.first /\ uh = w.uh
  BY <1>0, <1>1, <1>4 DEF uh, first
<1>10. uh <= first + w.size
  BY <1>0, <1>1, <1>6, <1>8, <1>9
<1>11. /\ Moved(w, t).first = first /\ Moved(w, t).ur = ur /\ Moved(w, t).uh = uh
       /\ Moved(w, t).size = w.size /\ Moved(w, t).ux = w.ux
       /\ Moved(w, t) \in Window
  BY <1>0, <1>5, <1>6, <1>7, <1>8
<1> QED
  BY <1>6, <1>7, <1>8, <1>9, <1>10, <1>11

\* What enque and the timer leave when the window is w, VR(UR) is r, and the
\* PDUs below r are gone.
LEMMA Settled ==
    ASSUME NEW r \in Nat, NEW uh \in Nat, r <= uh, NEW held \in SUBSET Nat,
           r = uh \/ r \notin held,
           \A u \in held : u < uh,
           uh > r => uh - 1 \in held
    PROVE  LET left == {u \in held : u >= r} IN
           /\ \A u \in left : r < u /\ u < uh
           /\ uh > r => uh - 1 \in left
           /\ (uh > r) <=> (left # {})
<1> DEFINE left == {u \in held : u >= r}
<1>1. \A u \in left : r < u /\ u < uh
  OBVIOUS
<1>2. uh > r => uh - 1 \in left
  OBVIOUS
<1>3. ASSUME left # {} PROVE uh > r
  <2> PICK u \in left : TRUE
    BY <1>3
  <2> QED
    BY <1>1
<1> QED
  BY <1>1, <1>2, <1>3

LEMMA AcceptKeepsWindow ==
    ASSUME IInv, NEW t \in Nat, Accept(t), air' \in SUBSET Nat, sno' = sno
    PROVE  IInv'
<1> DEFINE e == Entry(t)
           moved == Moved(e, t)
           kept == {u \in buffer : u >= moved.first}
           held == kept \cup {t}
           r == FirstMissing(moved.ur, moved, held)
           after == [moved EXCEPT !.ur = r]
           passed == (buffer \ kept) \cup {u \in held : u < after.ur}
<1>1. /\ e \in Window /\ e.size # 0 /\ e.size <= WindowSize
      /\ e.first <= e.ur /\ e.ur <= e.uh /\ e.uh <= e.first + e.size
      /\ \A u \in buffer : e.ur < u /\ u < e.uh
      /\ e.uh > e.ur => e.uh - 1 \in buffer
      /\ reordering => e.ux > e.ur
  BY Met
<1>2. ~Discards(e, t)
  BY DEF Accept
<1>3. window' = [after EXCEPT !.ux = IF ~StillWaits(after) /\ Gap(after)
                                      THEN after.uh ELSE @]
      /\ reordering' = (StillWaits(after) \/ Gap(after))
      /\ buffer' = held \ passed
      /\ init' = (init \/ multicast) /\ multicast' = multicast
  BY Zenon DEF Accept
<1>4. e.first \in Nat /\ e.ur \in Nat /\ e.uh \in Nat /\ e.size \in Nat /\ e.ux \in Nat
  BY <1>1 DEF Window
<1> HIDE DEF e
<1>5. t >= e.ur /\ (t < e.uh => t \notin buffer)
  BY <1>2, <1>4 DEF Discards
<1>6. /\ moved \in Window /\ moved.size = e.size /\ moved.ux = e.ux
      /\ e.first <= moved.first /\ moved.first <= moved.ur
      /\ e.ur <= moved.ur /\ moved.ur <= t
      /\ moved.uh > t /\ moved.uh >= e.uh
      /\ moved.uh = e.uh \/ moved.uh = t + 1
      /\ moved.uh <= moved.first + e.size
      /\ t < e.uh => moved.first = e.first /\ moved.uh = e.uh
  BY <1>1, <1>5, Moves
<1> HIDE DEF moved
<1>7. /\ moved.first \in Nat /\ moved.ur \in Nat /\ moved.uh \in Nat
      /\ moved.size \in Nat /\ moved.ux \in Nat
  BY <1>6 DEF Window
<1>8. buffer \in SUBSET Nat /\ held \in SUBSET Nat
  BY DEF IInv, WindowType
<1>9. r \in Nat /\ moved.ur <= r /\ r <= moved.uh /\ (r = moved.uh \/ r \notin held)
  <2> HIDE DEF held
  <2>1. moved.ur <= moved.uh
    BY <1>6, <1>7
  <2> QED
    BY <1>7, <1>8, <2>1, Missing
<1>10. /\ after \in Window /\ after.ur = r /\ after.first = moved.first
       /\ after.uh = moved.uh /\ after.size = e.size /\ after.ux = e.ux
  <2> HIDE DEF r
  <2> QED
    BY <1>6, <1>7, <1>9 DEF Window
<1> DEFINE left == {u \in held : u >= r}
<1>11. \A u \in held : u < moved.uh
  BY <1>1, <1>4, <1>6, <1>7, <1>8
<1>12. moved.uh > r => moved.uh - 1 \in held
  <2> SUFFICES ASSUME moved.uh > r PROVE moved.uh - 1 \in held
    OBVIOUS
  <2>1. CASE moved.uh = t + 1
    BY <2>1
  <2>2. CASE moved.uh # t + 1
    <3> HIDE DEF r
    <3>1. moved.uh = e.uh /\ t < e.uh
      BY <1>4, <1>6, <1>7, <2>2
    <3>2. e.uh - 1 \in buffer
      BY <1>1, <1>4, <1>5, <3>1
    <3>3. e.uh - 1 >= moved.first
      BY <1>4, <1>6, <1>7, <3>1
    <3> QED
      BY <3>1, <3>2, <3>3
  <2> QED
    BY <2>1, <2>2
<1>13. buffer' = left
  <2>1. buffer' = held \ passed /\ after.ur = r
    BY <1>3, <1>10
  <2>2. t \notin buffer \ kept
    <3>1. CASE t < e.uh
      BY <1>5, <3>1
    <3>2. CASE ~(t < e.uh)
      BY <1>1, <3>2
    <3> QED
      BY <3>1, <3>2
  <2>3. \A u \in held : u \in passed <=> u < r
    <3> HIDE DEF r
    <3> QED
      BY <2>1, <2>2
  <2>4. \A u \in held : u < r <=> ~(u >= r)
    <3> HIDE DEF r, held
    <3> QED
      BY <1>8, <1>9
  <2> HIDE DEF held, passed, r
  <2> QED
    BY <2>1, <2>3, <2>4
<1>14. /\ \A u \in left : r < u /\ u < moved.uh
       /\ moved.uh > r => moved.uh - 1 \in left
       /\ (moved.uh > r) <=> (left # {})
  <2> HIDE DEF r, held
  <2> QED
    BY <1>7, <1>8, <1>9, <1>11, <1>12, Settled
<1> HIDE DEF r, held, left, after, passed, kept
<1>15. StillWaits(after) => reordering /\ e.ux > r /\ e.ux <= moved.uh
  BY <1>4, <1>7, <1>10 DEF StillWaits
<1>16. Gap(after) <=> moved.uh > r
  BY <1>10 DEF Gap
<1>17. (reordering' <=> moved.uh > r) /\ reordering' \in BOOLEAN
  <2>1. StillWaits(after) => moved.uh > r
    BY <1>4, <1>7, <1>9, <1>15
  <2>2. reordering' = (StillWaits(after) \/ Gap(after))
    BY <1>3
  <2> QED
    BY ONLY <1>16, <2>1, <2>2, Zenon
<1>18. /\ window' \in Window /\ window'.first = moved.first /\ window'.ur = r
       /\ window'.uh = moved.uh /\ window'.size = e.size
       /\ window'.ux = IF ~StillWaits(after) /\ Gap(after) THEN moved.uh ELSE e.ux
  BY <1>3, <1>4, <1>7, <1>10 DEF Window
<1>19. WindowType'
  <2>1. buffer' \in SUBSET Nat
    BY <1>8, <1>13 DEF left
  <2>2. init' \in BOOLEAN /\ multicast' \in BOOLEAN
    BY <1>3 DEF IInv, WindowType
  <2>3. sno' \in Nat
    BY DEF IInv, WindowType
  <2> QED
    BY <1>1, <1>17, <1>18, <2>1, <2>2, <2>3 DEF WindowType
<1>20. WindowInOrder'
  BY <1>1, <1>4, <1>6, <1>7, <1>9, <1>13, <1>14, <1>18 DEF WindowInOrder
<1>21. GapIsTimed'
  <2>1. reordering' <=> window'.uh > window'.ur
    BY <1>17, <1>18
  <2>3. reordering' <=> buffer' # {}
    BY <1>13, <1>14, <1>17
  <2>4. reordering' => window'.ux \in (window'.ur + 1)..window'.uh
    BY <1>4, <1>7, <1>9, <1>15, <1>16, <1>17, <1>18
  <2> QED
    BY <2>1, <2>3, <2>4 DEF GapIsTimed
<1>22. HighestWaits'
  BY <1>13, <1>14, <1>18 DEF HighestWaits
<1>23. FreshIsEmpty'
  BY <1>3 DEF FreshIsEmpty, IInv, WindowType
<1>24. SizeFits'
  BY <1>1, <1>18 DEF SizeFits
<1> QED
  BY <1>19, <1>20, <1>21, <1>22, <1>23, <1>24 DEF IInv

-----------------------------------------------------------------------------
(* The timer. *)

LEMMA ExpireKeepsWindow ==
    ASSUME IInv, ReorderingExpires, air' = air, sno' = sno
    PROVE  IInv'
<1> DEFINE from == Max({window.ur, Min({window.ux, window.uh})})
           r == FirstMissing(from, window, buffer)
           after == [window EXCEPT !.ur = r]
           left == {u \in buffer : u >= r}
<1>1. /\ reordering
      /\ window' = [after EXCEPT !.ux = IF Gap(after) THEN after.uh ELSE @]
      /\ reordering' = Gap(after)
      /\ buffer' = buffer \ {u \in buffer : u < after.ur}
      /\ multicast' = multicast /\ init' = init
  BY Zenon DEF ReorderingExpires
<1>2. /\ window.first \in Nat /\ window.ur \in Nat /\ window.ux \in Nat
      /\ window.uh \in Nat /\ window.size \in Nat
      /\ buffer \in SUBSET Nat
  BY DEF IInv, WindowType, Window
<1>3. /\ window.first <= window.ur /\ window.ur <= window.uh
      /\ window.uh <= window.first + window.size
      /\ \A u \in buffer : window.ur < u /\ u < window.uh
  BY DEF IInv, WindowInOrder
<1>4. window.ux \in (window.ur + 1)..window.uh /\ window.uh > window.ur
  <2>1. (reordering <=> window.uh > window.ur)
        /\ (reordering => window.ux \in (window.ur + 1)..window.uh)
    BY DEF IInv, GapIsTimed
  <2> QED
    BY <1>1, <2>1
<1>5. from \in Nat /\ window.ur <= from /\ from <= window.uh
  <2> DEFINE x == Min({window.ux, window.uh})
  <2>1. x \in {window.ux, window.uh}
    <3>1. window.ux \in Int /\ window.uh \in Int
      BY <1>2
    <3> QED
      BY ONLY <3>1, MinTwo, Zenon
  <2> HIDE DEF x
  <2>2. Max({window.ur, x}) \in {window.ur, x} /\ Max({window.ur, x}) >= window.ur
    <3>1. window.ur \in Int /\ x \in Int
      BY <1>2, <2>1
    <3> QED
      BY ONLY <3>1, MaxTwo, Zenon
  <2>3. from = Max({window.ur, x})
    BY DEF x
  <2> HIDE DEF from
  <2> QED
    BY <1>2, <1>3, <1>4, <2>1, <2>2, <2>3
<1> HIDE DEF from
<1>6. r \in Nat /\ from <= r /\ r <= window.uh /\ (r = window.uh \/ r \notin buffer)
  BY <1>2, <1>5, Missing
<1> HIDE DEF r
<1>7. /\ after \in Window /\ after.ur = r /\ after.first = window.first
      /\ after.uh = window.uh /\ after.size = window.size /\ after.ux = window.ux
  BY <1>2, <1>6 DEF IInv, WindowType, Window
<1>8. buffer' = left
  BY <1>1, <1>2, <1>6, <1>7
<1>9. window.uh - 1 \in buffer
  BY <1>4 DEF IInv, HighestWaits
<1>10. /\ \A u \in left : r < u /\ u < window.uh
       /\ window.uh > r => window.uh - 1 \in left
       /\ (window.uh > r) <=> (left # {})
  <2>1. \A u \in buffer : u < window.uh
    BY <1>3
  <2> QED
    BY <1>2, <1>6, <1>9, <2>1, Settled
<1> HIDE DEF left, after
<1>11. Gap(after) <=> window.uh > r
  BY <1>7 DEF Gap
<1>12. /\ window' \in Window /\ window'.first = window.first /\ window'.ur = r
       /\ window'.uh = window.uh /\ window'.size = window.size
       /\ window'.ux = IF Gap(after) THEN window.uh ELSE window.ux
  BY <1>1, <1>2, <1>7 DEF Window
<1>13. (reordering' <=> window.uh > r) /\ reordering' \in BOOLEAN
  <2>1. reordering' = Gap(after) /\ Gap(after) \in BOOLEAN
    BY <1>1 DEF Gap
  <2> QED
    BY ONLY <1>11, <2>1, Zenon
<1>14. WindowType'
  <2>1. buffer' \in SUBSET Nat
    BY <1>1, <1>2
  <2> QED
    BY <1>1, <1>12, <1>13, <2>1 DEF IInv, WindowType
<1>15. WindowInOrder'
  BY <1>2, <1>3, <1>5, <1>6, <1>8, <1>10, <1>12 DEF WindowInOrder
<1>16. GapIsTimed'
  <2>1. reordering' <=> window'.uh > window'.ur
    BY <1>12, <1>13
  <2>3. reordering' <=> buffer' # {}
    BY <1>8, <1>10, <1>13
  <2>4. reordering' => window'.ux \in (window'.ur + 1)..window'.uh
    BY <1>2, <1>6, <1>11, <1>12, <1>13
  <2> QED
    BY <2>1, <2>3, <2>4 DEF GapIsTimed
<1>17. HighestWaits'
  BY <1>8, <1>10, <1>12 DEF HighestWaits
<1>18. FreshIsEmpty'
  BY <1>1 DEF IInv, FreshIsEmpty
<1>19. SizeFits'
  BY <1>12 DEF IInv, SizeFits
<1> QED
  BY <1>14, <1>15, <1>16, <1>17, <1>18, <1>19 DEF IInv

-----------------------------------------------------------------------------
(* The invariant. *)

LEMMA InitHolds == Init => IInv
<1> SUFFICES ASSUME Init PROVE IInv
  OBVIOUS
<1>1. /\ window = [first |-> 0, ur |-> 0, ux |-> 0, uh |-> 0, size |-> WindowSize]
      /\ buffer = {} /\ reordering = FALSE /\ air = {} /\ sno = 0
      /\ multicast \in BOOLEAN /\ init = FALSE
  BY DEF Init, TxInit, RxInit
<1>2. WindowSize \in Nat /\ WindowSize # 0
  BY UmRxAssumption
<1>3. window.first = 0 /\ window.ur = 0 /\ window.uh = 0 /\ window.size = WindowSize
      /\ window \in Window
  BY <1>1, <1>2 DEF Window
<1>4. WindowType
  BY <1>1, <1>2, <1>3 DEF WindowType
<1>5. WindowInOrder /\ HighestWaits /\ FreshIsEmpty /\ SizeFits
  BY <1>1, <1>2, <1>3 DEF WindowInOrder, HighestWaits, FreshIsEmpty, SizeFits
<1>6. GapIsTimed
  <2>1. ~(window.uh > window.ur) /\ ~reordering
    BY <1>1, <1>3
  <2>2. buffer = {}
    BY <1>1
  <2> QED
    BY <2>1, <2>2 DEF GapIsTimed
<1> QED
  BY <1>4, <1>5, <1>6 DEF IInv

\* The transmitter and the channel do not touch the window.
LEMMA WindowUntouched ==
    ASSUME IInv, UNCHANGED rxVars, air' \in SUBSET Nat, sno' \in Nat
    PROVE  IInv'
BY DEF IInv, rxVars, WindowType, WindowInOrder, GapIsTimed, HighestWaits,
       FreshIsEmpty, SizeFits

THEOREM Inductive == Spec => []IInv
<1>1. Init => IInv
  BY InitHolds
<1>2. IInv /\ [Next]_vars => IInv'
  <2> SUFFICES ASSUME IInv, [Next]_vars PROVE IInv'
    OBVIOUS
  <2>0. air \in SUBSET Nat /\ sno \in Nat
    BY DEF IInv, WindowType
  <2>1. ASSUME NEW len \in SduLengths, FromPdcp(len) PROVE IInv'
    BY <2>0, <2>1, WindowUntouched DEF FromPdcp, Enque
  <2>2. ASSUME NEW room \in Requests, MacRequest(room) PROVE IInv'
    <3>1. sno' = sno + 1 /\ air' = air \cup {sno} /\ UNCHANGED rxVars
      BY <2>2 DEF MacRequest, RlcPduMake
    <3>2. sno' \in Nat /\ air' \in SUBSET Nat
      BY <2>0, <3>1
    <3> QED
      BY <3>1, <3>2, WindowUntouched
  <2>3. ASSUME NEW t \in air, Arrive(t) PROVE IInv'
    <3>1. t \in Nat /\ air' \in SUBSET Nat /\ sno' = sno
      BY <2>0, <2>3 DEF Arrive, txVars
    <3>2. CASE Discard(t)
      BY <2>0, <3>1, <3>2, WindowUntouched DEF Discard
    <3>3. CASE Accept(t)
      BY <3>1, <3>3, AcceptKeepsWindow
    <3> QED
      BY <2>3, <3>2, <3>3 DEF Arrive
  <2>4. ASSUME NEW t \in air, Lose(t) PROVE IInv'
    BY <2>0, <2>4, WindowUntouched DEF Lose, txVars
  <2>5. CASE Expire
    BY <2>5, ExpireKeepsWindow DEF Expire, txVars
  <2>6. CASE UNCHANGED vars
    BY <2>0, <2>6, WindowUntouched DEF vars, txVars
  <2> QED
    BY <2>1, <2>2, <2>3, <2>4, <2>5, <2>6 DEF Next
<1> QED
  BY <1>1, <1>2, PTL DEF Spec

\* Whatever is lost, late or jumped over, the window of UmRxEntity stays in
\* order and holds only PDUs above the first missing one.
THEOREM WindowStaysInOrder == Spec => []WindowInOrder
<1>1. IInv => WindowInOrder
  BY DEF IInv
<1> QED
  BY <1>1, Inductive, PTL

\* t-Reordering runs exactly while PDUs wait behind a gap.
THEOREM GapsAreTimed == Spec => []GapIsTimed
<1>1. IInv => GapIsTimed
  BY DEF IInv
<1> QED
  BY <1>1, Inductive, PTL

\* Both together: the window and t-Reordering of UmRxEntity stay sound.
THEOREM WindowStaysSound == Spec => []WindowSound
<1>1. WindowInOrder /\ GapIsTimed => WindowSound
  BY DEF WindowSound
<1> QED
  BY <1>1, WindowStaysInOrder, GapsAreTimed, PTL

-----------------------------------------------------------------------------
(* The transmitter.  o[t] is what earlier PDUs have taken of the SDU that   *)
(* PDU t goes on with, 0 when PDU t starts with a new SDU.                  *)
ChunksOf(t) == pdus[t + 1].chunks
Count(t) == Len(ChunksOf(t))
SduAt(t, i) == ChunksOf(t)[i].sdu
SizeAt(t, i) == ChunksOf(t)[i].size
Cut(t) == pdus[t + 1].endFrag

\* Chunk i of PDU t is the last of its SDU.
Ends(t, i) == ~(i = Count(t) /\ Cut(t))
StartOf(o, t, i) == IF i = 1 THEN o[t] ELSE 0

TxTypes ==
    /\ sduLength \in Seq(Nat \ {0}) /\ sduQueue \in Seq(Nat)
    /\ fragmentInfo \in Nat /\ firstIsFragment \in BOOLEAN
    /\ pdus \in Seq(Pdu) /\ sno = Len(pdus)

PduOK(o, t) ==
    /\ Count(t) # 0
    /\ pdus[t + 1].startFrag = (o[t] > 0)
    /\ \A i \in 1..Count(t) : SduAt(t, i) \in Sdus
    /\ \A i, j \in 1..Count(t) : i < j => SduAt(t, i) < SduAt(t, j)
    /\ \A i \in 1..Count(t) :
          IF Ends(t, i)
          THEN StartOf(o, t, i) + SizeAt(t, i) = LengthOf(SduAt(t, i))
          ELSE /\ o[t + 1] = StartOf(o, t, i) + SizeAt(t, i)
               /\ o[t + 1] < LengthOf(SduAt(t, i))
    /\ ~Cut(t) => o[t + 1] = 0
    /\ Cut(t) /\ t + 1 \in PduNos => SduAt(t + 1, 1) = SduAt(t, Count(t))

\* PDU u comes after PDU t, and so do its SDUs.
Later(t, u) ==
    \A i \in 1..Count(t), j \in 1..Count(u) :
        /\ SduAt(t, i) <= SduAt(u, j)
        /\ Ends(t, i) => SduAt(t, i) < SduAt(u, j)

PdusOK(o) ==
    /\ o \in [0..sno -> Nat] /\ o[0] = 0
    /\ \A t \in PduNos : PduOK(o, t)
    /\ \A t, u \in PduNos : t < u => Later(t, u)

\* What waits is whole, but for the rest of the SDU that was cut.
QueueOK(o) ==
    /\ \A k \in 1..Len(sduQueue) : sduQueue[k] \in Sdus
    /\ \A k, l \in 1..Len(sduQueue) : k < l => sduQueue[k] < sduQueue[l]
    /\ firstIsFragment = (o[sno] > 0)
    /\ o[sno] = 0 => fragmentInfo = 0
    /\ o[sno] > 0 => /\ sno > 0 /\ sduQueue # <<>>
                     /\ sduQueue[1] = SduAt(sno - 1, Count(sno - 1))
                     /\ o[sno] < LengthOf(sduQueue[1])
                     /\ fragmentInfo = LengthOf(sduQueue[1]) - o[sno]
    /\ \A t \in PduNos : \A i \in 1..Count(t), k \in 1..Len(sduQueue) :
          /\ SduAt(t, i) <= sduQueue[k]
          /\ k # 1 \/ o[sno] = 0 => SduAt(t, i) < sduQueue[k]

TxOK(o) == TxTypes /\ PdusOK(o) /\ QueueOK(o)

-----------------------------------------------------------------------------
(* Sums over the queue, whose recursive definition has a value. *)

LEMMA LeastOf ==
    ASSUME NEW T \in SUBSET Nat, T # {}
    PROVE  \E m \in T : \A n \in T : m <= n
BY Least

\* Any sum of a recursive definition has a value.
RunningSum(f, g, n) == f = [k \in 0..n |-> IF k = 0 THEN 0 ELSE f[k - 1] + g[k - 1]]

LEMMA RunningSumExists == \A g : \A n \in Nat : \E f : RunningSum(f, g, n)
<1> TAKE g
<1> DEFINE T == {n \in Nat : ~\E f : RunningSum(f, g, n)}
<1>1. SUFFICES ASSUME T # {} PROVE FALSE
  OBVIOUS
<1>2. PICK m \in T : \A n \in T : m <= n
  <2>1. T \in SUBSET Nat
    OBVIOUS
  <2> HIDE DEF T
  <2> QED
    BY <1>1, <2>1, LeastOf
<1>3. CASE m = 0
  <2> DEFINE f == [k \in 0..0 |-> 0]
  <2>1. RunningSum(f, g, 0)
    BY DEF RunningSum
  <2> QED
    BY <1>3, <2>1
<1>4. CASE m # 0
  <2>1. m - 1 \in Nat /\ m - 1 \notin T
    BY <1>2, <1>4
  <2>2. PICK f : RunningSum(f, g, m - 1)
    BY <2>1
  <2> DEFINE h == [k \in 0..m |-> IF k < m THEN f[k] ELSE f[m - 1] + g[m - 1]]
  <2>3. ASSUME NEW k \in 0..m
        PROVE  h[k] = IF k = 0 THEN 0 ELSE h[k - 1] + g[k - 1]
    <3>1. CASE k < m /\ k # 0
      <4>1. k \in 0..m - 1 /\ k - 1 \in 0..m /\ k - 1 < m
        BY <3>1
      <4>2. f[k] = f[k - 1] + g[k - 1]
        BY <2>2, <3>1, <4>1 DEF RunningSum
      <4> QED
        BY <3>1, <4>1, <4>2
    <3>2. CASE k = 0
      <4>1. f[0] = 0
        BY <2>1, <2>2 DEF RunningSum
      <4> QED
        BY <1>4, <3>2, <4>1
    <3>3. CASE k = m
      <4>1. m - 1 \in 0..m /\ m - 1 < m
        BY <2>1
      <4> QED
        BY <1>4, <3>3, <4>1
    <3> QED
      BY <3>1, <3>2, <3>3
  <2>4. RunningSum(h, g, m)
    BY <2>3 DEF RunningSum
  <2> QED
    BY <2>4
<1> QED
  BY <1>3, <1>4

SumTo(f, n) == f = [k \in 0..n |-> IF k = 0 THEN 0 ELSE f[k - 1] + Left(k)]

LEMMA SumExists == \A n \in Nat : \E f : SumTo(f, n)
<1> TAKE n \in Nat
<1>1. PICK g : g = [k \in 0..n |-> Left(k + 1)]
  OBVIOUS
<1>2. PICK f : RunningSum(f, g, n)
  BY RunningSumExists
<1>3. \A k \in 0..n : k # 0 => k - 1 \in 0..n /\ k - 1 + 1 = k /\ g[k - 1] = Left(k)
  BY <1>1
<1>4. SumTo(f, n)
  BY <1>2, <1>3 DEF RunningSum, SumTo
<1> QED
  BY <1>4

LEMMA BytesAre ==
    /\ Bytes(0) = 0
    /\ \A n \in Nat : Bytes(n + 1) = Bytes(n) + Left(n + 1)
<1> DEFINE F(n) == CHOOSE f : SumTo(f, n)
<1>1. \A n \in Nat : SumTo(F(n), n)
  BY SumExists
<1>2. \A n \in Nat : Bytes(n) = F(n)[n]
  BY DEF Bytes, SumTo
<1> HIDE DEF F
<1>3. ASSUME NEW n \in Nat, NEW k \in 0..n
      PROVE  F(n)[k] = F(n + 1)[k]
  <2> DEFINE T == {l \in 0..n : F(n)[l] # F(n + 1)[l]}
  <2>1. SUFFICES ASSUME T # {} PROVE FALSE
    OBVIOUS
  <2>2. PICK l \in T : \A j \in T : l <= j
    <3>1. T \in SUBSET Nat
      OBVIOUS
    <3> HIDE DEF T
    <3> QED
      BY <2>1, <3>1, LeastOf
  <2>3. /\ \A j \in 0..n : F(n)[j] = IF j = 0 THEN 0 ELSE F(n)[j - 1] + Left(j)
        /\ \A j \in 0..n + 1 : F(n + 1)[j] = IF j = 0 THEN 0 ELSE F(n + 1)[j - 1] + Left(j)
    BY <1>1 DEF SumTo
  <2>4. CASE l = 0
    BY <2>2, <2>3, <2>4
  <2>5. CASE l # 0
    <3>1. l - 1 \in 0..n /\ l - 1 \notin T /\ l \in 0..n + 1
      BY <2>2, <2>5
    <3> QED
      BY <2>2, <2>3, <2>5, <3>1
  <2> QED
    BY <2>4, <2>5
<1>4. Bytes(0) = 0
  BY <1>1, <1>2 DEF SumTo
<1>5. ASSUME NEW n \in Nat
      PROVE  Bytes(n + 1) = Bytes(n) + Left(n + 1)
  <2>1. F(n + 1)[n + 1] = F(n + 1)[n + 1 - 1] + Left(n + 1)
    <3>1. n + 1 \in Nat /\ n + 1 \in 0..n + 1 /\ n + 1 # 0
      OBVIOUS
    <3> QED
      BY <1>1, <3>1 DEF SumTo
  <2>2. n + 1 - 1 = n /\ n \in 0..n /\ n + 1 \in Nat
    OBVIOUS
  <2> QED
    BY <1>2, <1>3, <2>1, <2>2
<1> QED
  BY <1>4, <1>5

-----------------------------------------------------------------------------
(* rlcPduMake. *)

LEMMA LeftIs ==
    ASSUME NEW o, TxOK(o)
    PROVE  /\ o[sno] \in Nat /\ Len(sduQueue) \in Nat
           /\ \A s \in Sdus : LengthOf(s) \in Nat \ {0}
           /\ \A i \in 1..Len(sduQueue) :
                 /\ Left(i) = LengthOf(sduQueue[i]) - StartOf(o, sno, i)
                 /\ Left(i) \in Nat \ {0} /\ sduQueue[i] \in Sdus
<1>1. /\ o[sno] \in Nat /\ Len(sduQueue) \in Nat /\ sno \in Nat
  BY DEF TxOK, PdusOK, TxTypes
<1>2. \A s \in Sdus : LengthOf(s) \in Nat \ {0}
  <2> SUFFICES ASSUME NEW s \in Sdus PROVE sduLength[s + 1] \in Nat \ {0}
    BY DEF LengthOf
  <2>1. sduLength \in Seq(Nat \ {0}) /\ s + 1 \in 1..Len(sduLength)
    BY DEF Sdus, TxOK, TxTypes
  <2> QED
    BY <2>1
<1>3. ASSUME NEW i \in 1..Len(sduQueue)
      PROVE  /\ Left(i) = LengthOf(sduQueue[i]) - StartOf(o, sno, i)
             /\ Left(i) \in Nat \ {0} /\ sduQueue[i] \in Sdus
  <2>1. sduQueue[i] \in Sdus /\ LengthOf(sduQueue[i]) \in Nat \ {0}
    BY <1>2 DEF TxOK, QueueOK
  <2>2. CASE o[sno] = 0
    BY <1>1, <2>1, <2>2 DEF TxOK, QueueOK, Left, StartOf
  <2>3. CASE o[sno] > 0
    <3>1. /\ o[sno] < LengthOf(sduQueue[1])
          /\ fragmentInfo = LengthOf(sduQueue[1]) - o[sno]
      BY <2>3 DEF TxOK, QueueOK
    <3>2. CASE i = 1
      BY <1>1, <2>1, <3>1, <3>2 DEF Left, StartOf
    <3>3. CASE i # 1
      BY <1>1, <2>1, <3>3 DEF Left, StartOf
    <3> QED
      BY <3>2, <3>3
  <2> QED
    BY <1>1, <2>2, <2>3
<1> QED
  BY <1>1, <1>2, <1>3

LEMMA WholeFits ==
    ASSUME NEW o, TxOK(o), NEW room \in Nat
    PROVE  /\ WholeIn(room) \in 0..Len(sduQueue)
           /\ room - Bytes(WholeIn(room)) \in Nat
           /\ WholeIn(room) < Len(sduQueue) =>
                 room - Bytes(WholeIn(room)) < Left(WholeIn(room) + 1)
<1> DEFINE L == Len(sduQueue)
           Fits(n) == /\ Bytes(n) <= room
                      /\ \A k \in (n + 1)..L : Bytes(k) > room
<1>1. L \in Nat /\ \A i \in 1..L : Left(i) \in Nat
  BY LeftIs
<1> HIDE DEF L
<1>2. ASSUME NEW n \in 0..L PROVE Bytes(n) \in Nat
  <2> DEFINE T == {k \in 0..L : Bytes(k) \notin Nat}
  <2>1. SUFFICES ASSUME T # {} PROVE FALSE
    OBVIOUS
  <2>2. PICK k \in T : \A j \in T : k <= j
    <3>1. T \in SUBSET Nat
      BY <1>1
    <3> HIDE DEF T
    <3> QED
      BY <2>1, <3>1, LeastOf
  <2>3. k # 0
    BY <2>2, BytesAre
  <2>4. k - 1 \in Nat /\ k - 1 \in 0..L /\ k - 1 \notin T /\ k \in 1..L /\ k - 1 + 1 = k
    BY <1>1, <2>2, <2>3
  <2>5. Bytes(k) = Bytes(k - 1) + Left(k) /\ Bytes(k - 1) \in Nat
    BY <2>4, BytesAre
  <2> QED
    BY <1>1, <2>2, <2>4, <2>5
<1>3. \E n \in 0..L : Fits(n)
  <2> DEFINE T == {j \in 0..L : Bytes(L - j) <= room}
  <2>1. L \in T
    BY <1>1, BytesAre
  <2>2. PICK j \in T : \A i \in T : j <= i
    <3>1. T \in SUBSET Nat
      BY <1>1
    <3> HIDE DEF T
    <3> QED
      BY <2>1, <3>1, LeastOf
  <2>3. L - j \in 0..L /\ Bytes(L - j) <= room
    BY <1>1, <2>2
  <2>4. ASSUME NEW k \in (L - j + 1)..L PROVE Bytes(k) > room
    <3>1. k \in 0..L /\ L - k \in 0..L /\ L - (L - k) = k /\ L - k < j
      BY <1>1, <2>2
    <3>2. L - k \notin T
      <4>1. j \in T /\ (\A i \in T : j <= i) /\ j \in 0..L /\ L - k \in 0..L
        BY <2>2, <3>1
      <4>2. L - k < j
        BY <3>1
      <4> HIDE DEF T
      <4> QED
        BY <1>1, <4>1, <4>2
    <3>3. Bytes(k) \in Nat /\ ~(Bytes(k) <= room)
      BY <1>2, <3>1, <3>2
    <3> QED
      BY <3>3
  <2> QED
    BY <2>3, <2>4
<1>4. WholeIn(room) \in 0..L /\ Fits(WholeIn(room))
  <2>1. WholeIn(room) = CHOOSE n \in 0..L : Fits(n)
    BY DEF WholeIn, L
  <2> HIDE DEF Fits
  <2> QED
    BY <1>3, <2>1
<1> DEFINE n == WholeIn(room)
<1> HIDE DEF n
<1>5. n \in 0..L /\ n \in Nat /\ Bytes(n) \in Nat /\ Bytes(n) <= room
  BY <1>1, <1>2, <1>4 DEF n
<1>6. ASSUME n < L PROVE room - Bytes(n) < Left(n + 1)
  <2>1. n + 1 \in (n + 1)..L /\ n + 1 \in 1..L
    BY <1>1, <1>5, <1>6
  <2>2. Bytes(n + 1) > room
    BY <1>4, <2>1 DEF n
  <2>3. Bytes(n + 1) = Bytes(n) + Left(n + 1) /\ Left(n + 1) \in Nat
    BY <1>1, <1>5, <2>1, BytesAre
  <2> QED
    BY <1>5, <2>2, <2>3
<1> QED
  BY <1>5, <1>6 DEF n, L

\* What a request of the MAC does: n SDUs go whole, and the next one is cut if
\* any room is left.
Made(n, cut, rest, cs) ==
    /\ n \in Nat /\ n <= Len(sduQueue) /\ cut \in BOOLEAN /\ rest \in Nat
    /\ cut => n < Len(sduQueue) /\ rest > 0 /\ rest < Left(n + 1)
    /\ ~cut => n >= 1
    /\ cs \in Seq(Chunk) /\ Len(cs) = (IF cut THEN n + 1 ELSE n)
    /\ \A i \in 1..Len(cs) :
          /\ i \in 1..Len(sduQueue) /\ cs[i].sdu = sduQueue[i]
          /\ cs[i].size = IF i <= n THEN Left(i) ELSE rest
    /\ pdus' = Append(pdus, [startFrag |-> firstIsFragment, endFrag |-> cut,
                             chunks |-> cs])
    /\ sno' = sno + 1
    /\ sduQueue' = SubSeq(sduQueue, n + 1, Len(sduQueue))
    /\ fragmentInfo' = IF cut THEN Left(n + 1) - rest ELSE 0
    /\ firstIsFragment' = cut
    /\ UNCHANGED sduLength

LEMMA WithPart ==
    ASSUME NEW C, NEW w \in Seq(C), NEW cut \in BOOLEAN, NEW c, cut => c \in C,
           NEW p, p = IF cut THEN <<c>> ELSE <<>>
    PROVE  /\ w \o p \in Seq(C)
           /\ Len(w \o p) = IF cut THEN Len(w) + 1 ELSE Len(w)
           /\ \A i \in 1..Len(w) : (w \o p)[i] = w[i]
           /\ cut => (w \o p)[Len(w) + 1] = c
<1>1. CASE cut
  <2>1. p = <<c>> /\ p \in Seq(C) /\ Len(p) = 1 /\ p[1] = c
    BY <1>1
  <2> QED
    BY <1>1, <2>1
<1>2. CASE ~cut
  BY <1>2
<1> QED
  BY <1>1, <1>2

LEMMA RequestMakes ==
    ASSUME NEW o, TxOK(o), NEW room \in Nat, RlcPduMake(room)
    PROVE  \E n, cut, rest, cs : Made(n, cut, rest, cs)
<1> DEFINE n    == WholeIn(room)
           rest == room - Bytes(n)
           cut  == n < Len(sduQueue) /\ rest > 0
           whole == [i \in 1..n |-> [sdu |-> sduQueue[i], size |-> Left(i)]]
           part  == IF cut THEN <<[sdu |-> sduQueue[n + 1], size |-> rest]>> ELSE <<>>
           cs == whole \o part
<1>1. /\ room > 0 /\ sduQueue # <<>>
      /\ pdus' = Append(pdus, [startFrag |-> firstIsFragment, endFrag |-> cut,
                               chunks |-> cs])
      /\ sno' = sno + 1
      /\ sduQueue' = SubSeq(sduQueue, n + 1, Len(sduQueue))
      /\ fragmentInfo' = IF cut THEN Left(n + 1) - rest
                         ELSE IF n > 0 THEN 0 ELSE fragmentInfo
      /\ firstIsFragment' = cut
      /\ UNCHANGED sduLength
  BY DEF RlcPduMake
<1>2. /\ n \in 0..Len(sduQueue) /\ rest \in Nat
      /\ n < Len(sduQueue) => rest < Left(n + 1)
  BY WholeFits
<1>3. /\ Len(sduQueue) \in Nat /\ Len(sduQueue) # 0 /\ sduQueue \in Seq(Nat)
      /\ \A i \in 1..Len(sduQueue) : Left(i) \in Nat \ {0} /\ sduQueue[i] \in Nat
  <2>1. sduQueue \in Seq(Nat)
    BY DEF TxOK, TxTypes
  <2> QED
    BY <1>1, <2>1, LeftIs
<1>4. ~cut => n >= 1
  <2> SUFFICES ASSUME n = 0 PROVE cut
    BY <1>2, <1>3
  <2>1. Bytes(n) = 0 /\ rest = room
    BY <1>2, BytesAre
  <2> QED
    BY <1>1, <1>3, <2>1
<1> HIDE DEF n, rest
<1>5. cut \in BOOLEAN /\ n \in Nat /\ n <= Len(sduQueue)
  BY <1>2, <1>3
<1>6. /\ whole \in Seq(Chunk) /\ Len(whole) = n
      /\ \A i \in 1..n : whole[i] = [sdu |-> sduQueue[i], size |-> Left(i)]
  <2>1. ASSUME NEW i \in 1..n
        PROVE  [sdu |-> sduQueue[i], size |-> Left(i)] \in Chunk
    <3>1. i \in 1..Len(sduQueue)
      BY <1>2, <1>3
    <3>2. sduQueue[i] \in Nat /\ Left(i) \in Nat \ {0}
      BY <1>3, <3>1
    <3> QED
      BY <3>2 DEF Chunk
  <2>2. whole \in [1..n -> Chunk]
    BY <2>1
  <2>3. \A i \in 1..n : whole[i] = [sdu |-> sduQueue[i], size |-> Left(i)]
    OBVIOUS
  <2> HIDE DEF whole
  <2>4. whole \in Seq(Chunk) /\ Len(whole) = n
    <3> DEFINE C == Chunk
    <3>1. whole \in [1..n -> C]
      BY <2>2
    <3> HIDE DEF C
    <3>2. whole \in Seq(C) /\ Len(whole) = n
      BY <1>5, <3>1
    <3> QED
      BY <3>2 DEF C
  <2> QED
    BY <2>3, <2>4
<1>7. /\ cut => /\ part = <<[sdu |-> sduQueue[n + 1], size |-> rest]>>
                /\ [sdu |-> sduQueue[n + 1], size |-> rest] \in Chunk
      /\ ~cut => part = <<>>
  <2> SUFFICES ASSUME cut PROVE [sdu |-> sduQueue[n + 1], size |-> rest] \in Chunk
    OBVIOUS
  <2>1. n + 1 \in 1..Len(sduQueue) /\ rest \in Nat \ {0}
    BY <1>2, <1>3
  <2>2. sduQueue[n + 1] \in Nat
    BY <1>3, <2>1
  <2> QED
    BY <2>1, <2>2 DEF Chunk
<1> HIDE DEF cut, whole, part
<1>8. /\ cs \in Seq(Chunk) /\ Len(cs) = (IF cut THEN n + 1 ELSE n)
      /\ \A i \in 1..n : cs[i] = [sdu |-> sduQueue[i], size |-> Left(i)]
      /\ cut => cs[n + 1] = [sdu |-> sduQueue[n + 1], size |-> rest]
  <2> DEFINE c == [sdu |-> sduQueue[n + 1], size |-> rest]
  <2>1. /\ cut => c \in Chunk
        /\ part = IF cut THEN <<c>> ELSE <<>>
    BY <1>7
  <2>2. whole \in Seq(Chunk) /\ Len(whole) = n
    BY <1>6
  <2> HIDE DEF c
  <2>3. /\ cs \in Seq(Chunk) /\ Len(cs) = (IF cut THEN Len(whole) + 1 ELSE Len(whole))
        /\ \A i \in 1..Len(whole) : cs[i] = whole[i]
        /\ cut => cs[Len(whole) + 1] = c
    BY <1>5, <2>1, <2>2, WithPart
  <2> QED
    BY <1>6, <2>2, <2>3 DEF c
<1> HIDE DEF cs
<1>9. ASSUME NEW i \in 1..Len(cs)
      PROVE  /\ i \in 1..Len(sduQueue) /\ cs[i].sdu = sduQueue[i]
             /\ cs[i].size = IF i <= n THEN Left(i) ELSE rest
  <2>1. CASE i <= n
    <3>1. i \in 1..n /\ i \in 1..Len(sduQueue)
      BY <1>3, <1>5, <1>8, <2>1
    <3>2. cs[i] = [sdu |-> sduQueue[i], size |-> Left(i)]
      BY <1>8, <3>1
    <3>3. cs[i].sdu = sduQueue[i] /\ cs[i].size = Left(i)
      BY <3>2
    <3> QED
      BY <2>1, <3>1, <3>3
  <2>2. CASE ~(i <= n)
    <3>1. cut /\ i = n + 1
      BY <1>5, <1>8, <2>2
    <3>2. n + 1 \in 1..Len(sduQueue)
      BY <1>2, <1>3, <3>1 DEF cut
    <3> QED
      BY <1>8, <2>2, <3>1, <3>2
  <2> QED
    BY <2>1, <2>2
<1>10. cut => n < Len(sduQueue) /\ rest > 0 /\ rest < Left(n + 1)
  BY <1>2 DEF cut
<1>11. fragmentInfo' = IF cut THEN Left(n + 1) - rest ELSE 0
  <2>1. ~cut => n > 0
    BY <1>2, <1>4
  <2> QED
    BY <1>1, <2>1
<1>12. Made(n, cut, rest, cs)
  BY <1>1, <1>2, <1>4, <1>5, <1>8, <1>9, <1>10, <1>11 DEF Made
<1> QED
  BY <1>12

LEMMA ChunkTypes ==
    ASSUME NEW o, TxOK(o), NEW t \in PduNos
    PROVE  /\ t \in Nat /\ t < sno /\ t + 1 \in 1..sno /\ sno \in Nat
           /\ Count(t) \in Nat /\ Count(t) # 0 /\ Cut(t) \in BOOLEAN
           /\ o[t] \in Nat /\ o[t + 1] \in Nat
           /\ \A i \in 1..Count(t) : /\ SduAt(t, i) \in Nat /\ SduAt(t, i) \in Sdus
                                     /\ SizeAt(t, i) \in Nat \ {0}
                                     /\ StartOf(o, t, i) \in Nat
           /\ Cut(t) => o[t + 1] > 0
<1>1. sno \in Nat /\ t \in Nat /\ t < sno /\ t + 1 \in 1..sno /\ pdus \in Seq(Pdu)
      /\ t + 1 \in 1..Len(pdus) /\ t \in 0..sno /\ t + 1 \in 0..sno
  BY DEF TxOK, TxTypes, PduNos
<1>2. pdus[t + 1] \in Pdu
  <2> DEFINE P == Pdu
  <2>1. pdus \in Seq(P) /\ t + 1 \in 1..Len(pdus)
    BY <1>1
  <2> HIDE DEF P
  <2>2. pdus[t + 1] \in P
    BY <2>1
  <2> QED
    BY <2>2 DEF P
<1>3. ChunksOf(t) \in Seq(Chunk) /\ Cut(t) \in BOOLEAN
  BY <1>2 DEF Pdu, ChunksOf, Cut
<1>4. ASSUME NEW i \in 1..Count(t) PROVE ChunksOf(t)[i] \in Chunk
  <2> DEFINE C == Chunk
             c == ChunksOf(t)
  <2>1. c \in Seq(C) /\ i \in 1..Len(c)
    BY <1>3 DEF Count
  <2> HIDE DEF C, c
  <2>2. c[i] \in C
    BY <2>1
  <2> QED
    BY <2>2 DEF C, c
<1>5. Count(t) \in Nat
  BY <1>3 DEF Count
<1>6. PduOK(o, t) /\ o[t] \in Nat /\ o[t + 1] \in Nat
  BY <1>1 DEF TxOK, PdusOK
<1>7. \A i \in 1..Count(t) : /\ SduAt(t, i) \in Nat /\ SduAt(t, i) \in Sdus
                             /\ SizeAt(t, i) \in Nat \ {0}
                             /\ StartOf(o, t, i) \in Nat
  BY <1>4, <1>6 DEF Chunk, SduAt, SizeAt, StartOf, PduOK
<1>8. Cut(t) => o[t + 1] > 0
  <2> SUFFICES ASSUME Cut(t) PROVE o[t + 1] > 0
    OBVIOUS
  <2>1. Count(t) \in 1..Count(t) /\ ~Ends(t, Count(t))
    BY <1>5, <1>6 DEF PduOK, Ends
  <2>2. o[t + 1] = StartOf(o, t, Count(t)) + SizeAt(t, Count(t))
    BY <1>6, <2>1 DEF PduOK
  <2> QED
    BY <1>6, <1>7, <2>1, <2>2
<1> QED
  BY <1>1, <1>3, <1>5, <1>6, <1>7, <1>8 DEF PduOK

\* The PDU that is made and the queue it leaves.
LEMMA NewPdu ==
    ASSUME NEW o, TxOK(o), NEW n, NEW cut, NEW rest, NEW cs, Made(n, cut, rest, cs),
           NEW T, T = sno
    PROVE  /\ T \in Nat /\ sno' = T + 1 /\ pdus' \in Seq(Pdu) /\ Len(pdus') = T + 1
           /\ \A t \in 0..T - 1 : pdus'[t + 1] = pdus[t + 1]
           /\ pdus'[T + 1].startFrag = firstIsFragment
           /\ pdus'[T + 1].endFrag = cut
           /\ pdus'[T + 1].chunks = cs
           /\ sduQueue' \in Seq(Nat) /\ Len(sduQueue') = Len(sduQueue) - n
           /\ \A k \in 1..Len(sduQueue') : /\ sduQueue'[k] = sduQueue[n + k]
                                           /\ n + k \in 1..Len(sduQueue)
<1>1. /\ T \in Nat /\ Len(pdus) = T /\ pdus \in Seq(Pdu) /\ sduQueue \in Seq(Nat)
      /\ firstIsFragment \in BOOLEAN
  BY DEF TxOK, TxTypes
<1> DEFINE p == [startFrag |-> firstIsFragment, endFrag |-> cut, chunks |-> cs]
           P == Pdu
<1>2. /\ n \in Nat /\ n <= Len(sduQueue) /\ cut \in BOOLEAN /\ cs \in Seq(Chunk)
      /\ pdus' = Append(pdus, p) /\ sno' = T + 1
      /\ sduQueue' = SubSeq(sduQueue, n + 1, Len(sduQueue))
  BY DEF Made
<1>3. p \in P
  BY <1>1, <1>2 DEF Pdu
<1>4. p.startFrag = firstIsFragment /\ p.endFrag = cut /\ p.chunks = cs
  OBVIOUS
<1>5. pdus \in Seq(P)
  BY <1>1
<1> HIDE DEF p, P
<1>6. pdus' \in Seq(P) /\ Len(pdus') = T + 1 /\ pdus'[T + 1] = p
      /\ \A t \in 0..T - 1 : pdus'[t + 1] = pdus[t + 1]
  BY <1>1, <1>2, <1>3, <1>5
<1>7. sduQueue' \in Seq(Nat) /\ Len(sduQueue') = Len(sduQueue) - n
      /\ \A k \in 1..Len(sduQueue') : /\ sduQueue'[k] = sduQueue[n + k]
                                      /\ n + k \in 1..Len(sduQueue)
  BY <1>1, <1>2
<1> QED
  BY <1>1, <1>2, <1>4, <1>6, <1>7 DEF P

\* What earlier PDUs have taken, with the one that is made.
Taken(q, o, n, cut, rest, T) ==
    q = [t \in 0..T + 1 |-> IF t = T + 1 THEN (IF cut THEN StartOf(o, T, n + 1) + rest ELSE 0)
                            ELSE o[t]]

LEMMA NewTaken ==
    ASSUME NEW o, TxOK(o), NEW n, NEW cut, NEW rest, NEW cs, Made(n, cut, rest, cs),
           NEW T, T = sno, NEW q, Taken(q, o, n, cut, rest, T)
    PROVE  /\ q \in [0..T + 1 -> Nat] /\ q[0] = 0
           /\ \A t \in 0..T : q[t] = o[t]
           /\ q[T + 1] = IF cut THEN StartOf(o, T, n + 1) + rest ELSE 0
           /\ cut => /\ n + 1 \in 1..Len(sduQueue)
                     /\ q[T + 1] > 0 /\ q[T + 1] < LengthOf(sduQueue[n + 1])
                     /\ fragmentInfo' = LengthOf(sduQueue[n + 1]) - q[T + 1]
           /\ ~cut => fragmentInfo' = 0
<1>1. T \in Nat /\ o \in [0..T -> Nat] /\ o[0] = 0
  BY DEF TxOK, TxTypes, PdusOK
<1>2. /\ n \in Nat /\ n <= Len(sduQueue) /\ cut \in BOOLEAN /\ rest \in Nat
      /\ cut => n < Len(sduQueue) /\ rest > 0 /\ rest < Left(n + 1)
      /\ fragmentInfo' = IF cut THEN Left(n + 1) - rest ELSE 0
  BY DEF Made
<1>3. Len(sduQueue) \in Nat /\ o[T] \in Nat
      /\ \A i \in 1..Len(sduQueue) :
            /\ Left(i) = LengthOf(sduQueue[i]) - StartOf(o, T, i)
            /\ LengthOf(sduQueue[i]) \in Nat
  BY LeftIs
<1>4. StartOf(o, T, n + 1) \in Nat
  BY <1>3 DEF StartOf
<1>5. /\ \A t \in 0..T : q[t] = o[t]
      /\ q[T + 1] = IF cut THEN StartOf(o, T, n + 1) + rest ELSE 0
      /\ q[0] = 0
  BY <1>1 DEF Taken
<1>6. q \in [0..T + 1 -> Nat]
  BY <1>1, <1>2, <1>4 DEF Taken
<1>7. ASSUME cut
      PROVE  /\ n + 1 \in 1..Len(sduQueue)
             /\ q[T + 1] > 0 /\ q[T + 1] < LengthOf(sduQueue[n + 1])
             /\ fragmentInfo' = LengthOf(sduQueue[n + 1]) - q[T + 1]
  <2>1. n + 1 \in 1..Len(sduQueue)
    BY <1>2, <1>3, <1>7
  <2>2. Left(n + 1) = LengthOf(sduQueue[n + 1]) - StartOf(o, T, n + 1)
        /\ LengthOf(sduQueue[n + 1]) \in Nat
    BY <1>3, <2>1
  <2>3. q[T + 1] = StartOf(o, T, n + 1) + rest /\ fragmentInfo' = Left(n + 1) - rest
        /\ rest > 0 /\ rest < Left(n + 1)
    BY <1>2, <1>5, <1>7
  <2> QED
    BY <1>2, <1>4, <2>1, <2>2, <2>3
<1> QED
  BY <1>2, <1>5, <1>6, <1>7

LEMMA SameChunks ==
    ASSUME NEW t, pdus'[t + 1] = pdus[t + 1], UNCHANGED sduLength
    PROVE  /\ Count(t)' = Count(t) /\ Cut(t)' = Cut(t)
           /\ pdus'[t + 1].startFrag = pdus[t + 1].startFrag
           /\ \A i : /\ SduAt(t, i)' = SduAt(t, i) /\ SizeAt(t, i)' = SizeAt(t, i)
                     /\ Ends(t, i)' = Ends(t, i)
           /\ Sdus' = Sdus /\ \A s : LengthOf(s)' = LengthOf(s)
BY DEF Count, Cut, SduAt, SizeAt, Ends, ChunksOf, Sdus, LengthOf

LEMMA NewChunks ==
    ASSUME NEW o, TxOK(o), NEW n, NEW cut, NEW rest, NEW cs, Made(n, cut, rest, cs),
           NEW T, T = sno
    PROVE  /\ Count(T)' = (IF cut THEN n + 1 ELSE n) /\ Count(T)' # 0
           /\ Cut(T)' = cut /\ pdus'[T + 1].startFrag = firstIsFragment
           /\ \A i \in 1..Count(T)' :
                 /\ i \in 1..Len(sduQueue) /\ SduAt(T, i)' = sduQueue[i]
                 /\ SizeAt(T, i)' = IF i <= n THEN Left(i) ELSE rest
                 /\ Ends(T, i)' = (i <= n)
                 /\ i <= n \/ (cut /\ i = n + 1)
           /\ Sdus' = Sdus /\ \A s : LengthOf(s)' = LengthOf(s)
<1>1. /\ n \in Nat /\ cut \in BOOLEAN /\ Len(cs) = (IF cut THEN n + 1 ELSE n)
      /\ ~cut => n >= 1
      /\ UNCHANGED sduLength
      /\ \A i \in 1..Len(cs) :
            /\ i \in 1..Len(sduQueue) /\ cs[i].sdu = sduQueue[i]
            /\ cs[i].size = IF i <= n THEN Left(i) ELSE rest
  BY DEF Made
<1>2. /\ pdus'[T + 1].startFrag = firstIsFragment
      /\ pdus'[T + 1].endFrag = cut
      /\ pdus'[T + 1].chunks = cs
  BY NewPdu
<1>3. /\ Count(T)' = Len(cs) /\ Cut(T)' = cut
      /\ \A i : SduAt(T, i)' = cs[i].sdu /\ SizeAt(T, i)' = cs[i].size
      /\ \A i : Ends(T, i)' = ~(i = Len(cs) /\ cut)
  BY <1>2 DEF Count, Cut, SduAt, SizeAt, Ends, ChunksOf
<1>4. ASSUME NEW i \in 1..Len(cs)
      PROVE  /\ (~(i = Len(cs) /\ cut)) = (i <= n)
             /\ i <= n \/ (cut /\ i = n + 1)
  <2>1. CASE cut
    BY <1>1, <2>1
  <2>2. CASE ~cut
    BY <1>1, <2>2
  <2> QED
    BY <2>1, <2>2
<1>5. Len(cs) # 0
  BY <1>1
<1>6. Sdus' = Sdus /\ \A s : LengthOf(s)' = LengthOf(s)
  BY <1>1 DEF Sdus, LengthOf
<1> QED
  BY <1>1, <1>2, <1>3, <1>4, <1>5, <1>6

LEMMA NewPduOK ==
    ASSUME NEW o, TxOK(o), NEW n, NEW cut, NEW rest, NEW cs, Made(n, cut, rest, cs),
           NEW T, T = sno, NEW q, Taken(q, o, n, cut, rest, T)
    PROVE  PduOK(q, T)'
<1>1. /\ T \in Nat /\ sno' = T + 1 /\ n \in Nat /\ rest \in Nat /\ cut \in BOOLEAN
  BY NewPdu DEF Made
<1>2. /\ Count(T)' = (IF cut THEN n + 1 ELSE n) /\ Count(T)' # 0
      /\ Cut(T)' = cut /\ pdus'[T + 1].startFrag = firstIsFragment
      /\ \A i \in 1..Count(T)' :
            /\ i \in 1..Len(sduQueue) /\ SduAt(T, i)' = sduQueue[i]
            /\ SizeAt(T, i)' = IF i <= n THEN Left(i) ELSE rest
            /\ Ends(T, i)' = (i <= n)
            /\ i <= n \/ (cut /\ i = n + 1)
      /\ Sdus' = Sdus /\ \A s : LengthOf(s)' = LengthOf(s)
  BY NewChunks
<1>3. /\ q \in [0..T + 1 -> Nat]
      /\ q[T] = o[T]
      /\ q[T + 1] = IF cut THEN StartOf(o, T, n + 1) + rest ELSE 0
      /\ cut => q[T + 1] < LengthOf(sduQueue[n + 1])
  <2>1. T \in 0..T
    BY <1>1
  <2> QED
    BY <2>1, NewTaken
<1>4. pdus'[T + 1].startFrag = (q[T] > 0)
  BY <1>2, <1>3 DEF TxOK, QueueOK
<1>5. \A i \in 1..Count(T)' : SduAt(T, i)' \in Sdus'
  BY <1>2 DEF TxOK, QueueOK
<1>6. \A i, j \in 1..Count(T)' : i < j => SduAt(T, i)' < SduAt(T, j)'
  BY <1>2 DEF TxOK, QueueOK
<1>7. ASSUME NEW i \in 1..Count(T)'
      PROVE  IF Ends(T, i)'
             THEN StartOf(q, T, i) + SizeAt(T, i)' = LengthOf(SduAt(T, i))'
             ELSE /\ q[T + 1] = StartOf(q, T, i) + SizeAt(T, i)'
                  /\ q[T + 1] < LengthOf(SduAt(T, i))'
  <2>1. StartOf(q, T, i) = StartOf(o, T, i)
    BY <1>3 DEF StartOf
  <2>2. /\ i \in 1..Len(sduQueue) /\ SduAt(T, i)' = sduQueue[i]
        /\ LengthOf(SduAt(T, i))' = LengthOf(sduQueue[i])
        /\ SizeAt(T, i)' = (IF i <= n THEN Left(i) ELSE rest)
        /\ Ends(T, i)' = (i <= n)
        /\ i <= n \/ (cut /\ i = n + 1)
    <3>1. sduLength' = sduLength
      BY DEF Made
    <3>2. SduAt(T, i)' = sduQueue[i]
      BY <1>2
    <3>3. LengthOf(SduAt(T, i))' = LengthOf(sduQueue[i])
      BY <3>1, <3>2 DEF LengthOf, SduAt, ChunksOf
    <3> QED
      BY <1>2, <3>3
  <2>3. /\ Left(i) = LengthOf(sduQueue[i]) - StartOf(o, T, i)
        /\ LengthOf(sduQueue[i]) \in Nat
        /\ o[T] \in Nat
    BY <2>2, LeftIs
  <2>4. StartOf(o, T, i) \in Nat
    BY <2>3 DEF StartOf
  <2>5. CASE i <= n
    <3>1. SizeAt(T, i)' = Left(i) /\ Ends(T, i)'
      BY <2>2, <2>5
    <3>2. StartOf(o, T, i) + Left(i) = LengthOf(sduQueue[i])
      BY <2>3, <2>4
    <3>3. LengthOf(SduAt(T, i))' = LengthOf(sduQueue[i])
      BY <2>2
    <3> QED
      BY <2>1, <3>1, <3>2, <3>3
  <2>6. CASE ~(i <= n)
    <3>1. cut /\ i = n + 1
      BY <2>2, <2>6
    <3>2. SizeAt(T, i)' = rest /\ ~Ends(T, i)'
      BY <2>2, <2>6
    <3>3. LengthOf(SduAt(T, i))' = LengthOf(sduQueue[n + 1])
      BY <2>2, <3>1
    <3>4. /\ q[T + 1] = StartOf(o, T, n + 1) + rest
          /\ q[T + 1] < LengthOf(sduQueue[n + 1])
      BY <1>3, <3>1
    <3>5. StartOf(q, T, i) = StartOf(o, T, n + 1)
      BY <2>1, <3>1
    <3> QED
      BY <3>2, <3>3, <3>4, <3>5
  <2> QED
    BY <2>5, <2>6
<1>8. ~Cut(T)' => q[T + 1] = 0
  BY <1>2, <1>3
<1>9. T + 1 \notin PduNos'
  BY <1>1 DEF PduNos
<1> QED
  BY <1>2, <1>4, <1>5, <1>6, <1>7, <1>8, <1>9 DEF PduOK
LEMMA QueueIsLater ==
    ASSUME NEW o, TxOK(o), NEW t \in PduNos, NEW i \in 1..Count(t),
           NEW j \in 1..Len(sduQueue)
    PROVE  /\ SduAt(t, i) <= sduQueue[j]
           /\ Ends(t, i) => SduAt(t, i) < sduQueue[j]
<1>1. /\ SduAt(t, i) <= sduQueue[j]
      /\ j # 1 \/ o[sno] = 0 => SduAt(t, i) < sduQueue[j]
  BY DEF TxOK, QueueOK
<1>2. ASSUME Ends(t, i), j = 1, o[sno] # 0 PROVE SduAt(t, i) < sduQueue[j]
  <2> DEFINE u == sno - 1
  <2>1. o[sno] \in Nat
    BY LeftIs
  <2>2. /\ sno > 0 /\ sduQueue[1] = SduAt(u, Count(u))
    BY <1>2, <2>1 DEF TxOK, QueueOK
  <2>3. t \in Nat /\ t < sno /\ sno \in Nat /\ Count(t) \in Nat /\ SduAt(t, i) \in Nat
        /\ t \in 0..sno - 1
    BY ChunkTypes DEF PduNos
  <2>4. u \in PduNos
    BY <2>2, <2>3 DEF PduNos
  <2>5. Count(u) \in 1..Count(u)
    BY <2>4, ChunkTypes
  <2>6. CASE t < u
    <3>1. Later(t, u)
      BY <2>4, <2>6 DEF TxOK, PdusOK
    <3> HIDE DEF u
    <3> QED
      BY <1>2, <2>2, <2>5, <3>1 DEF Later
  <2>7. CASE t = u
    <3>1. PduOK(o, u)
      BY <2>4 DEF TxOK, PdusOK
    <3>2. u + 1 = sno
      BY <2>3
    <3> HIDE DEF u
    <3>3. Cut(u)
      BY <1>2, <3>1, <3>2 DEF PduOK
    <3>4. i # Count(u)
      BY <1>2, <2>7, <3>3 DEF Ends
    <3>5. i < Count(u)
      BY <2>3, <2>7, <3>4
    <3> QED
      BY <1>2, <2>2, <2>5, <2>7, <3>1, <3>5 DEF PduOK
  <2> QED
    BY <2>3, <2>6, <2>7
<1> QED
  BY <1>1, <1>2

LEMMA RequestKeepsTx ==
    ASSUME NEW o, TxOK(o), NEW n, NEW cut, NEW rest, NEW cs, Made(n, cut, rest, cs),
           NEW T, T = sno, NEW q, Taken(q, o, n, cut, rest, T)
    PROVE  TxOK(q)'
<1>1. /\ T \in Nat /\ sno' = T + 1 /\ pdus' \in Seq(Pdu) /\ Len(pdus') = T + 1
      /\ \A t \in 0..T - 1 : pdus'[t + 1] = pdus[t + 1]
      /\ sduQueue' \in Seq(Nat) /\ Len(sduQueue') = Len(sduQueue) - n
      /\ \A k \in 1..Len(sduQueue') : /\ sduQueue'[k] = sduQueue[n + k]
                                      /\ n + k \in 1..Len(sduQueue)
  BY NewPdu
<1>2. /\ Count(T)' = (IF cut THEN n + 1 ELSE n) /\ Count(T)' # 0
      /\ \A i \in 1..Count(T)' :
            /\ i \in 1..Len(sduQueue) /\ SduAt(T, i)' = sduQueue[i]
            /\ Ends(T, i)' = (i <= n)
            /\ i <= n \/ (cut /\ i = n + 1)
      /\ Sdus' = Sdus /\ \A s : LengthOf(s)' = LengthOf(s)
  BY NewChunks
<1>3. /\ q \in [0..T + 1 -> Nat] /\ q[0] = 0
      /\ \A t \in 0..T : q[t] = o[t]
      /\ q[T + 1] = IF cut THEN StartOf(o, T, n + 1) + rest ELSE 0
      /\ cut => /\ n + 1 \in 1..Len(sduQueue)
                /\ q[T + 1] > 0 /\ q[T + 1] < LengthOf(sduQueue[n + 1])
                /\ fragmentInfo' = LengthOf(sduQueue[n + 1]) - q[T + 1]
      /\ ~cut => fragmentInfo' = 0
  BY NewTaken
<1>4. PduOK(q, T)'
  BY NewPduOK
<1>5. /\ n \in Nat /\ n <= Len(sduQueue) /\ cut \in BOOLEAN /\ (~cut => n >= 1)
      /\ firstIsFragment' = cut /\ sduLength' = sduLength
      /\ Len(sduQueue) \in Nat
  BY LeftIs DEF Made
<1>6. PduNos = 0..T - 1 /\ PduNos' = 0..T
  BY <1>1 DEF PduNos
<1>7. \A t \in 0..T - 1 :
         /\ Count(t)' = Count(t) /\ Cut(t)' = Cut(t)
         /\ pdus'[t + 1].startFrag = pdus[t + 1].startFrag
         /\ \A i : /\ SduAt(t, i)' = SduAt(t, i) /\ SizeAt(t, i)' = SizeAt(t, i)
                   /\ Ends(t, i)' = Ends(t, i)
  BY <1>1, <1>5, SameChunks
<1>8. ASSUME NEW t \in 0..T - 1 PROVE PduOK(q, t)'
  <2>1. PduOK(o, t) /\ t \in Nat
    BY <1>6 DEF TxOK, PdusOK
  <2>2. q[t] = o[t] /\ q[t + 1] = o[t + 1]
    <3>1. t \in 0..T /\ t + 1 \in 0..T
      BY <1>1
    <3> QED
      BY <1>3, <3>1
  <2>3. \A i : StartOf(q, t, i) = StartOf(o, t, i)
    BY <2>2 DEF StartOf
  <2>4. Cut(t) /\ t + 1 \in PduNos' => SduAt(t + 1, 1)' = SduAt(t, Count(t))
    <3> SUFFICES ASSUME Cut(t) PROVE SduAt(t + 1, 1)' = SduAt(t, Count(t))
      OBVIOUS
    <3>1. CASE t + 1 = T
      <4>1. o[sno] > 0 /\ t = sno - 1
        BY <1>6, <3>1, <2>1, ChunkTypes
      <4>2. sduQueue[1] = SduAt(t, Count(t))
        BY <4>1 DEF TxOK, QueueOK
      <4>3. 1 \in 1..Count(T)'
        BY <1>2, <1>5
      <4>4. SduAt(T, 1)' = sduQueue[1]
        BY <1>2, <4>3
      <4> QED
        BY <3>1, <4>2, <4>4
    <3>2. CASE t + 1 # T
      <4>1. t + 1 \in 0..T - 1
        BY <1>1, <3>2
      <4>2. SduAt(t + 1, 1) = SduAt(t, Count(t))
        BY <1>6, <2>1, <4>1 DEF PduOK
      <4>3. SduAt(t + 1, 1)' = SduAt(t + 1, 1)
        BY <1>7, <4>1
      <4> QED
        BY <4>2, <4>3
    <3> QED
      BY <3>1, <3>2
  <2>5. \A i : LengthOf(SduAt(t, i))' = LengthOf(SduAt(t, i))
    <3>1. \A i : SduAt(t, i)' = SduAt(t, i)
      BY <1>7
    <3> QED
      BY <1>5, <3>1 DEF LengthOf
  <2>6. SduAt(t, Count(t))' = SduAt(t, Count(t))
    BY <1>7 DEF SduAt, Count, ChunksOf
  <2> QED
    BY <1>2, <1>7, <2>1, <2>2, <2>3, <2>4, <2>5, <2>6 DEF PduOK
<1>9. ASSUME NEW t \in 0..T, NEW u \in 0..T, t < u PROVE Later(t, u)'
  <2>1. t \in 0..T - 1
    BY <1>1, <1>9
  <2>2. CASE u = T
    <3>1. ASSUME NEW i \in 1..Count(t)', NEW j \in 1..Count(T)'
          PROVE  SduAt(t, i)' <= SduAt(T, j)'
                 /\ (Ends(t, i)' => SduAt(t, i)' < SduAt(T, j)')
      <4>1. i \in 1..Count(t) /\ j \in 1..Len(sduQueue) /\ SduAt(T, j)' = sduQueue[j]
        BY <1>2, <1>7, <2>1
      <4>2. SduAt(t, i) <= sduQueue[j] /\ (Ends(t, i) => SduAt(t, i) < sduQueue[j])
        BY <1>6, <2>1, <4>1, QueueIsLater
      <4> QED
        BY <1>7, <2>1, <4>1, <4>2
    <3> QED
      BY <2>2, <3>1 DEF Later
  <2>3. CASE u # T
    <3>1. u \in 0..T - 1
      BY <1>1, <2>3
    <3>2. Later(t, u)
      BY <1>6, <1>9, <2>1, <3>1 DEF TxOK, PdusOK
    <3> QED
      BY <1>7, <2>1, <3>1, <3>2 DEF Later
  <2> QED
    BY <2>2, <2>3
<1>10. PdusOK(q)'
  <2>1. \A t \in 0..T : PduOK(q, t)'
    <3>1. \A t \in 0..T : t = T \/ t \in 0..T - 1
      BY <1>1
    <3> QED
      BY <1>4, <1>8, <3>1
  <2> QED
    BY <1>1, <1>3, <1>6, <1>9, <2>1 DEF PdusOK
<1>11. ASSUME NEW t \in 0..T, NEW i \in 1..Count(t)', NEW k \in 1..Len(sduQueue')
       PROVE  /\ SduAt(t, i)' <= sduQueue'[k]
              /\ k # 1 \/ q[T + 1] = 0 => SduAt(t, i)' < sduQueue'[k]
  <2>1. sduQueue'[k] = sduQueue[n + k] /\ n + k \in 1..Len(sduQueue) /\ k \in Nat /\ k >= 1
    BY <1>1
  <2>2. CASE t = T
    <3>1. i \in Nat /\ i \in 1..Len(sduQueue) /\ SduAt(t, i)' = sduQueue[i]
          /\ (i <= n \/ (cut /\ i = n + 1))
      BY <1>2, <2>2
    <3>2. CASE i < n + k
      <4>1. sduQueue[i] < sduQueue[n + k]
        BY <2>1, <3>1, <3>2 DEF TxOK, QueueOK
      <4>2. sduQueue[i] \in Nat /\ sduQueue[n + k] \in Nat
        BY <2>1, <3>1 DEF TxOK, TxTypes
      <4> QED
        BY <2>1, <3>1, <4>1, <4>2
    <3>3. CASE ~(i < n + k)
      <4>1. i = n + k /\ k = 1 /\ cut
        BY <1>5, <2>1, <3>1, <3>3
      <4>2. q[T + 1] > 0
        BY <1>3, <4>1
      <4>3. sduQueue[i] \in Nat
        BY <3>1 DEF TxOK, TxTypes
      <4> QED
        BY <2>1, <3>1, <4>1, <4>2, <4>3
    <3> QED
      BY <3>2, <3>3
  <2>3. CASE t # T
    <3>1. t \in 0..T - 1
      BY <1>1, <2>3
    <3>2. i \in 1..Count(t) /\ SduAt(t, i)' = SduAt(t, i)
      BY <1>7, <3>1
    <3>3. SduAt(t, i) <= sduQueue[n + k]
          /\ (n + k # 1 \/ o[sno] = 0 => SduAt(t, i) < sduQueue[n + k])
      BY <1>6, <2>1, <3>1, <3>2 DEF TxOK, QueueOK
    <3>4. k # 1 \/ q[T + 1] = 0 => n + k # 1
      BY <1>3, <1>5, <2>1
    <3> QED
      BY <2>1, <3>2, <3>3, <3>4
  <2> QED
    BY <2>2, <2>3
<1>12. QueueOK(q)'
  <2>1. \A k \in 1..Len(sduQueue') : sduQueue'[k] \in Sdus'
    BY <1>1, <1>2 DEF TxOK, QueueOK
  <2>2. \A k, l \in 1..Len(sduQueue') : k < l => sduQueue'[k] < sduQueue'[l]
    <3> SUFFICES ASSUME NEW k \in 1..Len(sduQueue'), NEW l \in 1..Len(sduQueue'), k < l
                 PROVE  sduQueue'[k] < sduQueue'[l]
      OBVIOUS
    <3>1. n + k < n + l
      BY <1>5
    <3> QED
      BY <1>1, <3>1 DEF TxOK, QueueOK
  <2>3. firstIsFragment' = (q[T + 1] > 0)
    BY <1>3, <1>5
  <2>4. q[T + 1] = 0 => fragmentInfo' = 0
    BY <1>3, <1>5
  <2>5. ASSUME q[T + 1] > 0
        PROVE  /\ T + 1 > 0 /\ sduQueue' # <<>>
               /\ sduQueue'[1] = SduAt(T + 1 - 1, Count(T + 1 - 1))'
               /\ q[T + 1] < LengthOf(sduQueue[n + 1])
               /\ fragmentInfo' = LengthOf(sduQueue[n + 1]) - q[T + 1]
               /\ sduQueue'[1] = sduQueue[n + 1]
    <3>1. cut
      BY <1>3, <2>5
    <3>2. n + 1 \in 1..Len(sduQueue)
      BY <1>3, <3>1
    <3>3. 1 \in 1..Len(sduQueue')
      BY <1>1, <1>5, <3>2
    <3>4. sduQueue'[1] = sduQueue[n + 1] /\ sduQueue' # <<>>
      BY <1>1, <3>3
    <3>5. Count(T)' = n + 1 /\ n + 1 \in 1..Count(T)'
      BY <1>2, <1>5, <3>1
    <3>6. SduAt(T, n + 1)' = sduQueue[n + 1]
      BY <1>2, <3>5
    <3>7. SduAt(T, Count(T))' = sduQueue[n + 1]
      BY <3>5, <3>6 DEF SduAt, Count, ChunksOf
    <3>8. T + 1 - 1 = T /\ T + 1 > 0
      BY <1>1
    <3> QED
      BY <1>3, <3>1, <3>4, <3>7, <3>8
  <2>6. q[T + 1] > 0 => LengthOf(sduQueue[1])' = LengthOf(sduQueue[n + 1])
    BY <1>5, <2>5 DEF LengthOf
  <2> QED
    BY <1>1, <1>6, <1>11, <2>1, <2>2, <2>3, <2>4, <2>5, <2>6 DEF QueueOK
<1>13. TxTypes'
  <2>1. fragmentInfo' \in Nat
    <3>1. CASE cut
      <4>1. LengthOf(sduQueue[n + 1]) \in Nat
        <5>1. sduQueue[n + 1] \in Sdus
          BY <1>3, <3>1 DEF TxOK, QueueOK
        <5> QED
          BY <5>1, LeftIs
      <4>2. q[T + 1] \in Nat
        BY <1>1, <1>3
      <4> QED
        BY <1>3, <3>1, <4>1, <4>2
    <3> QED
      BY <1>3, <1>5, <3>1
  <2> QED
    BY <1>1, <1>5, <2>1 DEF TxOK, TxTypes
<1> QED
  BY <1>10, <1>12, <1>13 DEF TxOK

\* A new SDU comes after all that are known, and changes none of them.
LEMMA EnqueKeepsTx ==
    ASSUME NEW o, TxOK(o), NEW len \in Nat \ {0}, Enque(len)
    PROVE  /\ TxOK(o)' /\ Len(sduLength') = Len(sduLength) + 1
           /\ \A s \in Sdus : s \in Sdus' /\ LengthOf(s)' = LengthOf(s)
<1> DEFINE S == Len(sduLength)
           L == Nat \ {0}
<1>1. /\ sduLength \in Seq(L) /\ sduQueue \in Seq(Nat) /\ S \in Nat /\ len \in L
  BY DEF TxOK, TxTypes
<1> HIDE DEF L
<1>2. /\ sduLength' = Append(sduLength, len)
      /\ sduQueue' = Append(sduQueue, S) \/ sduQueue' = sduQueue
      /\ UNCHANGED <<fragmentInfo, firstIsFragment, sno, pdus>>
  BY DEF Enque
<1>3. /\ sduLength' \in Seq(L) /\ Len(sduLength') = S + 1
      /\ \A j \in 1..S : sduLength'[j] = sduLength[j]
  BY <1>1, <1>2
<1>4. \A s \in Sdus : s \in Nat /\ s < S /\ s \in Sdus' /\ LengthOf(s)' = LengthOf(s)
  BY <1>1, <1>3 DEF Sdus, LengthOf
<1>5. S \in Sdus'
  BY <1>1, <1>3 DEF Sdus
<1> HIDE DEF S
<1>6. /\ sduQueue' \in Seq(Nat) /\ Len(sduQueue) \in Nat
      /\ \A k \in 1..Len(sduQueue) :
            k \in 1..Len(sduQueue') /\ sduQueue'[k] = sduQueue[k] /\ k < Len(sduQueue) + 1
      /\ \A k \in 1..Len(sduQueue') :
            \/ k \in 1..Len(sduQueue)
            \/ k = Len(sduQueue) + 1 /\ sduQueue'[k] = S
  <2>1. CASE sduQueue' = Append(sduQueue, S)
    BY <1>1, <2>1
  <2>2. CASE sduQueue' = sduQueue
    BY <1>1, <2>2
  <2> QED
    BY <1>2, <2>1, <2>2
<1>7. TxTypes'
  BY <1>2, <1>3, <1>6 DEF TxOK, TxTypes, L
<1>8. /\ PduNos' = PduNos
      /\ \A t : /\ Count(t)' = Count(t) /\ Cut(t)' = Cut(t)
                /\ pdus'[t + 1].startFrag = pdus[t + 1].startFrag
                /\ \A i : /\ SduAt(t, i)' = SduAt(t, i) /\ SizeAt(t, i)' = SizeAt(t, i)
                          /\ Ends(t, i)' = Ends(t, i)
  BY <1>2 DEF PduNos, Count, Cut, SduAt, SizeAt, Ends, ChunksOf
<1>9. ASSUME NEW t \in PduNos PROVE PduOK(o, t)'
  <2>1. PduOK(o, t)
    BY DEF TxOK, PdusOK
  <2>2. \A i \in 1..Count(t) : LengthOf(SduAt(t, i))' = LengthOf(SduAt(t, i))
    <3> SUFFICES ASSUME NEW i \in 1..Count(t)
                 PROVE  LengthOf(SduAt(t, i))' = LengthOf(SduAt(t, i))
      OBVIOUS
    <3>1. PICK s : s = SduAt(t, i)
      OBVIOUS
    <3>2. LengthOf(s)' = LengthOf(s) /\ SduAt(t, i)' = s
      BY <1>4, <1>8, <2>1, <3>1 DEF PduOK
    <3> QED
      BY <3>1, <3>2 DEF LengthOf
  <2>3. /\ SduAt(t, Count(t))' = SduAt(t, Count(t)) /\ SduAt(t + 1, 1)' = SduAt(t + 1, 1)
    BY <1>2 DEF SduAt, Count, ChunksOf
  <2>4. \A i \in 1..Count(t) : SduAt(t, i)' \in Sdus'
    BY <1>4, <1>8, <2>1 DEF PduOK
  <2> QED
    BY <1>8, <2>1, <2>2, <2>3, <2>4 DEF PduOK
<1>10. PdusOK(o)'
  <2>1. \A t, u \in PduNos : t < u => Later(t, u)'
    BY <1>8 DEF TxOK, PdusOK, Later
  <2> QED
    BY <1>2, <1>8, <1>9, <2>1 DEF TxOK, PdusOK
<1>11. QueueOK(o)'
  <2>1. \A k \in 1..Len(sduQueue') : sduQueue'[k] \in Sdus'
    BY <1>4, <1>5, <1>6 DEF TxOK, QueueOK
  <2>2. \A k \in 1..Len(sduQueue) : sduQueue[k] \in Nat /\ sduQueue[k] < S
    BY <1>4 DEF TxOK, QueueOK
  <2>3. ASSUME NEW k \in 1..Len(sduQueue'), NEW l \in 1..Len(sduQueue'), k < l
        PROVE  sduQueue'[k] < sduQueue'[l]
    <3>1. k \in 1..Len(sduQueue)
      BY <1>6, <2>3
    <3> QED
      BY <1>6, <2>2, <2>3, <3>1 DEF TxOK, QueueOK
  <2>4. ASSUME NEW t \in PduNos, NEW i \in 1..Count(t), NEW k \in 1..Len(sduQueue')
        PROVE  /\ SduAt(t, i) <= sduQueue'[k]
               /\ k # 1 \/ o[sno] = 0 => SduAt(t, i) < sduQueue'[k]
    <3>1. CASE k \in 1..Len(sduQueue)
      BY <1>6, <3>1 DEF TxOK, QueueOK
    <3>2. CASE sduQueue'[k] = S
      <4>1. SduAt(t, i) \in Nat /\ SduAt(t, i) < S /\ S \in Nat
        BY <1>1, <1>4, ChunkTypes
      <4> QED
        BY <3>2, <4>1
    <3> QED
      BY <1>6, <3>1, <3>2
  <2>5. ASSUME o[sno] > 0
        PROVE  /\ sno > 0 /\ sduQueue' # <<>>
               /\ sduQueue'[1] = SduAt(sno - 1, Count(sno - 1))
               /\ o[sno] < LengthOf(sduQueue[1])
               /\ LengthOf(sduQueue[1])' = LengthOf(sduQueue[1])
               /\ fragmentInfo = LengthOf(sduQueue[1]) - o[sno]
    <3>1. /\ sno > 0 /\ sduQueue # <<>>
          /\ sduQueue[1] = SduAt(sno - 1, Count(sno - 1))
          /\ o[sno] < LengthOf(sduQueue[1])
          /\ fragmentInfo = LengthOf(sduQueue[1]) - o[sno]
      BY <2>5 DEF TxOK, QueueOK
    <3>2. 1 \in 1..Len(sduQueue)
      BY <1>1, <3>1
    <3>3. sduQueue'[1] = sduQueue[1] /\ sduQueue' # <<>>
      BY <1>6, <3>2
    <3>4. PICK s : s = sduQueue[1]
      OBVIOUS
    <3>5. LengthOf(s)' = LengthOf(s)
      BY <1>4, <3>2, <3>4 DEF TxOK, QueueOK
    <3>6. LengthOf(sduQueue[1])' = LengthOf(sduQueue[1])
      BY <3>3, <3>4, <3>5 DEF LengthOf
    <3> QED
      BY <3>1, <3>3, <3>6
  <2>6. firstIsFragment = (o[sno] > 0) /\ (o[sno] = 0 => fragmentInfo = 0)
    BY DEF TxOK, QueueOK
  <2>7. SduAt(sno - 1, Count(sno - 1))' = SduAt(sno - 1, Count(sno - 1))
    BY <1>2 DEF SduAt, Count, ChunksOf
  <2> QED
    BY <1>2, <1>8, <2>1, <2>3, <2>4, <2>5, <2>6, <2>7 DEF QueueOK
<1> QED
  BY <1>3, <1>4, <1>7, <1>10, <1>11 DEF TxOK, S

-----------------------------------------------------------------------------
(* The SDUs in the PDUs. *)

LEMMA CarriersAre ==
    ASSUME NEW o, TxOK(o), NEW s
    PROVE  \A t : t \in Carriers(s) <=> t \in PduNos /\ \E i \in 1..Count(t) : SduAt(t, i) = s
<1>1. ASSUME NEW t \in PduNos PROVE DOMAIN pdus[t + 1].chunks = 1..Count(t)
  <2>1. t + 1 \in 1..Len(pdus) /\ pdus \in Seq(Pdu)
    BY ChunkTypes DEF TxOK, TxTypes
  <2>2. pdus[t + 1] \in Pdu
    <3> DEFINE P == Pdu
    <3>1. pdus \in Seq(P)
      BY <2>1
    <3> HIDE DEF P
    <3>2. pdus[t + 1] \in P
      BY <2>1, <3>1
    <3> QED
      BY <3>2 DEF P
  <2>3. pdus[t + 1].chunks \in Seq(Chunk)
    BY <2>2 DEF Pdu
  <2> QED
    BY <2>3 DEF Count, ChunksOf
<1> QED
  BY <1>1 DEF Carriers, SduAt, ChunksOf

\* An SDU that ends in PDU t is in no later PDU.
LEMMA LastCarrier ==
    ASSUME NEW o, TxOK(o), NEW t \in PduNos, NEW i \in 1..Count(t), Ends(t, i),
           NEW u \in Carriers(SduAt(t, i))
    PROVE  u <= t
<1>1. PICK j \in 1..Count(u) : SduAt(u, j) = SduAt(t, i)
  BY CarriersAre
<1>2. u \in PduNos /\ u \in Nat /\ t \in Nat /\ SduAt(t, i) \in Nat
  BY CarriersAre, ChunkTypes
<1>3. SUFFICES ASSUME t < u PROVE FALSE
  BY <1>2
<1>4. Later(t, u)
  BY <1>2, <1>3 DEF TxOK, PdusOK
<1> QED
  BY <1>1, <1>2, <1>4 DEF Later

\* An SDU that goes on from PDU t - 1 to PDU t.
LEMMA GoesOn ==
    ASSUME NEW o, TxOK(o), NEW t \in PduNos, o[t] > 0
    PROVE  /\ t - 1 \in PduNos /\ t - 1 + 1 = t /\ Cut(t - 1)
           /\ SduAt(t - 1, Count(t - 1)) = SduAt(t, 1)
           /\ Count(t - 1) \in 1..Count(t - 1)
<1>1. t \in Nat /\ t < sno /\ t # 0 /\ sno \in Nat
  <2>1. t \in Nat /\ t < sno /\ sno \in Nat
    BY ChunkTypes
  <2>2. o[0] = 0
    BY DEF TxOK, PdusOK
  <2> QED
    BY <2>1, <2>2
<1>2. t - 1 \in PduNos /\ t - 1 + 1 = t
  BY <1>1 DEF PduNos
<1>3. PICK v \in PduNos : v = t - 1
  BY <1>2
<1>4. PduOK(o, v) /\ v + 1 = t
  BY <1>2, <1>3 DEF TxOK, PdusOK
<1>5. Cut(v) /\ SduAt(v + 1, 1) = SduAt(v, Count(v))
  BY <1>4 DEF PduOK
<1>6. Count(v) \in 1..Count(v)
  BY ChunkTypes
<1> QED
  BY <1>2, <1>3, <1>4, <1>5, <1>6

\* An SDU that starts in PDU t is in no earlier PDU.
LEMMA FirstCarrier ==
    ASSUME NEW o, TxOK(o), NEW t \in PduNos, NEW i \in 1..Count(t), ~(i = 1 /\ o[t] > 0),
           NEW u \in Carriers(SduAt(t, i))
    PROVE  t <= u
<1> DEFINE s == SduAt(t, i)
<1>1. PICK j \in 1..Count(u) : SduAt(u, j) = s
  BY CarriersAre
<1>2. u \in PduNos /\ u \in Nat /\ t \in Nat /\ s \in Nat /\ t < sno /\ sno \in Nat
      /\ i \in Nat /\ i >= 1
  BY CarriersAre, ChunkTypes
<1>3. SUFFICES ASSUME u < t PROVE FALSE
  BY <1>2
<1>4. PICK v \in PduNos : v + 1 = t
  <2>1. t - 1 \in PduNos /\ t - 1 + 1 = t
    BY <1>2, <1>3 DEF PduNos
  <2> QED
    BY <2>1
<1>5. v \in Nat /\ u <= v /\ v < t /\ Count(v) \in 1..Count(v) /\ SduAt(v, Count(v)) \in Nat
      /\ o[t] \in Nat /\ (Cut(v) => o[t] > 0)
  BY <1>2, <1>3, <1>4, ChunkTypes
<1>6. Later(v, t) /\ PduOK(o, v)
  BY <1>5 DEF TxOK, PdusOK
<1>7. s <= SduAt(v, Count(v))
  <2>1. CASE u < v
    <3>1. Later(u, v)
      BY <1>2, <2>1 DEF TxOK, PdusOK
    <3> QED
      BY <1>1, <1>5, <3>1 DEF Later
  <2>2. CASE u = v
    <3>1. j = Count(v) \/ j < Count(v)
      BY <1>5, <2>2
    <3> QED
      BY <1>1, <1>2, <1>5, <1>6, <2>2, <3>1 DEF PduOK
  <2> QED
    BY <1>2, <1>5, <2>1, <2>2
<1>8. SduAt(v, Count(v)) = s /\ ~Ends(v, Count(v))
  BY <1>2, <1>5, <1>6, <1>7 DEF Later
<1>9. Cut(v) /\ SduAt(t, 1) = s
  BY <1>4, <1>6, <1>8 DEF Ends, PduOK
<1>10. i > 1 /\ 1 \in 1..Count(t)
  <2>1. o[t] > 0 /\ i # 1
    BY <1>5, <1>9
  <2>2. Count(t) \in Nat /\ Count(t) # 0
    BY ChunkTypes
  <2> QED
    BY <1>2, <2>1, <2>2
<1>11. SduAt(t, 1) < SduAt(t, i)
  BY <1>10 DEF TxOK, PdusOK, PduOK
<1> QED
  BY <1>2, <1>9, <1>11

\* The SDUs that end in the PDUs D, or in the first i parts of PDU t.
Fin(D) == {s \in Nat : \E t \in D : \E i \in 1..Count(t) : SduAt(t, i) = s /\ Ends(t, i)}
FinIn(t, i) == {s \in Nat : \E j \in 1..i : SduAt(t, j) = s /\ Ends(t, j)}

\* They all come before the next part.
LEMMA FinBefore ==
    ASSUME NEW o, TxOK(o), NEW t \in PduNos, NEW i \in 1..Count(t),
           NEW D \in SUBSET PduNos, \A u \in D : u < t,
           NEW x \in Fin(D) \cup FinIn(t, i - 1)
    PROVE  x \in Nat /\ x < SduAt(t, i)
<1>1. CASE x \in Fin(D)
  <2>0. PICK u \in D : \E k \in 1..Count(u) : SduAt(u, k) = x /\ Ends(u, k)
    BY <1>1 DEF Fin
  <2>1. PICK j \in 1..Count(u) : SduAt(u, j) = x /\ Ends(u, j)
    BY <2>0
  <2>2. Later(u, t)
    BY DEF TxOK, PdusOK
  <2> QED
    BY <1>1, <2>1, <2>2 DEF Later, Fin
<1>2. CASE x \in FinIn(t, i - 1)
  <2>1. PICK j \in 1..i - 1 : SduAt(t, j) = x
    BY <1>2 DEF FinIn
  <2>2. j \in 1..Count(t) /\ j < i
    BY ChunkTypes
  <2> QED
    BY <1>2, <2>1, <2>2 DEF TxOK, PdusOK, PduOK, FinIn
<1> QED
  BY <1>1, <1>2

-----------------------------------------------------------------------------
(* The receiver. *)

RxStates == [buffered : [sdu : Nat, size : Nat, pdu : Nat], lastSno : Nat, losses : Nat,
             delivered : Seq(Nat), err : {"none", "wrongLength"}]

Up(st, s) == \E i \in 1..Len(st.delivered) : st.delivered[i] = s
Rising(st) == \A i, j \in 1..Len(st.delivered) : i < j => st.delivered[i] < st.delivered[j]
Missed(st) == {s \in 1..st.lastSno : \A i \in 1..Len(st.delivered) : st.delivered[i] # s}
Counted(st) ==
    /\ st.lastSno = IF st.delivered = <<>> THEN 0 ELSE st.delivered[Len(st.delivered)]
    /\ st.losses = Cardinality(Missed(st))
Extends(before, st) ==
    /\ Len(before.delivered) <= Len(st.delivered)
    /\ \A i \in 1..Len(before.delivered) : st.delivered[i] = before.delivered[i]

\* toPdcp with an SDU that comes after all that went up.
LEMMA PassUp ==
    ASSUME NEW st \in RxStates, Rising(st), Counted(st),
           NEW s \in Nat, \A x : Up(st, x) => x < s,
           NEW to, to = ToPdcp(st, s)
    PROVE  /\ to \in RxStates /\ to.buffered = NoSdu /\ to.err = st.err
           /\ Rising(to) /\ Counted(to) /\ Extends(st, to)
           /\ \A x : Up(to, x) <=> x = s \/ Up(st, x)
<1> DEFINE d == st.delivered
           e == to.delivered
           n == Len(d)
           last == st.lastSno
           lost == IF s > last + 1 THEN s - last - 1 ELSE 0
<1>1. d \in Seq(Nat) /\ n \in Nat /\ last \in Nat /\ st.losses \in Nat
      /\ st.err \in {"none", "wrongLength"}
      /\ st = [buffered |-> st.buffered, lastSno |-> last, losses |-> st.losses,
               delivered |-> d, err |-> st.err]
  BY DEF RxStates
<1>3. /\ to.buffered = NoSdu /\ to.lastSno = s /\ to.losses = st.losses + lost
      /\ e = Append(d, s) /\ to.err = st.err
  <2> HIDE DEF lost
  <2>1. to = [st EXCEPT !.buffered = NoSdu, !.delivered = Append(@, s),
                        !.losses = @ + lost, !.lastSno = s]
    BY DEF ToPdcp, lost
  <2> QED
    BY <2>1 DEF RxStates
<1>4. lost \in Nat
  BY <1>1
<1>5. /\ e \in Seq(Nat) /\ Len(e) = n + 1 /\ e[n + 1] = s /\ e # <<>>
      /\ \A i \in 1..n : e[i] = d[i] /\ i \in 1..n + 1 /\ i < n + 1
      /\ \A i \in 1..n + 1 : i \in 1..n \/ i = n + 1
  BY <1>1, <1>3
<1>6. to \in RxStates
  <2>1. NoSdu \in [sdu : Nat, size : Nat, pdu : Nat]
    BY DEF NoSdu
  <2>2. st.losses + lost \in Nat /\ Append(d, s) \in Seq(Nat)
    BY <1>1, <1>4
  <2> HIDE DEF lost
  <2>3. to = [st EXCEPT !.buffered = NoSdu, !.delivered = Append(@, s),
                        !.losses = @ + lost, !.lastSno = s]
    BY DEF ToPdcp, lost
  <2> DEFINE B == [sdu : Nat, size : Nat, pdu : Nat]
             S == Seq(Nat)
             E == {"none", "wrongLength"}
  <2>4. st \in [buffered : B, lastSno : Nat, losses : Nat, delivered : S, err : E]
        /\ NoSdu \in B /\ Append(d, s) \in S
    BY <2>1, <2>2 DEF RxStates
  <2> HIDE DEF B, S, E
  <2>5. to \in [buffered : B, lastSno : Nat, losses : Nat, delivered : S, err : E]
    BY <2>2, <2>3, <2>4
  <2> QED
    BY <2>5 DEF RxStates, B, S, E
<1>7. ASSUME NEW x PROVE Up(to, x) <=> x = s \/ Up(st, x)
  <2>1. ASSUME Up(to, x) PROVE x = s \/ Up(st, x)
    <3>1. PICK i \in 1..n + 1 : e[i] = x
      BY <1>5, <2>1 DEF Up
    <3>2. CASE i \in 1..n
      BY <1>5, <3>1, <3>2 DEF Up
    <3>3. CASE i = n + 1
      BY <1>5, <3>1, <3>3
    <3> QED
      BY <1>5, <3>2, <3>3
  <2>2. ASSUME Up(st, x) PROVE Up(to, x)
    <3>1. PICK i \in 1..n : d[i] = x
      BY <2>2 DEF Up
    <3>2. i \in 1..Len(e) /\ e[i] = x
      BY <1>5, <3>1
    <3> QED
      BY <3>2 DEF Up
  <2>3. ASSUME x = s PROVE Up(to, x)
    <3>1. n + 1 \in 1..Len(e) /\ e[n + 1] = x
      BY <1>1, <1>5, <2>3
    <3> QED
      BY <3>1 DEF Up
  <2> QED
    BY <2>1, <2>2, <2>3
<1>8. \A i \in 1..n : d[i] < s
  BY DEF Up
<1>9. Rising(to)
  <2> SUFFICES ASSUME NEW i \in 1..n + 1, NEW j \in 1..n + 1, i < j PROVE e[i] < e[j]
    BY <1>5 DEF Rising
  <2>1. i \in 1..n /\ e[i] = d[i]
    BY <1>1, <1>5
  <2>2. CASE j \in 1..n
    BY <1>5, <2>1, <2>2 DEF Rising
  <2>3. CASE j = n + 1
    BY <1>5, <1>8, <2>1, <2>3
  <2> QED
    BY <1>5, <2>2, <2>3
<1>10. Extends(st, to)
  BY <1>1, <1>5 DEF Extends
<1>11. Counted(to)
  <2> DEFINE A == Missed(st)
             B == last + 1 .. s - 1
  <2>1. \A i \in 1..n : d[i] <= last
    <3> SUFFICES ASSUME NEW i \in 1..n PROVE d[i] <= last
      OBVIOUS
    <3>1. d # <<>> /\ n \in 1..n /\ last = d[n] /\ d[i] \in Nat
      BY <1>1 DEF Counted
    <3>2. i = n \/ i < n
      OBVIOUS
    <3> QED
      BY <1>1, <3>1, <3>2 DEF Rising
  <2>2. last < s \/ (last = 0 /\ s = 0)
    <3>1. CASE d = <<>>
      BY <1>1, <3>1 DEF Counted
    <3>2. CASE d # <<>>
      <4>1. n \in 1..n /\ last = d[n]
        BY <1>1, <3>2 DEF Counted
      <4> QED
        BY <1>8, <4>1
    <3> QED
      BY <3>1, <3>2
  <2>3. Missed(to) = A \cup B
    <3>1. \A x : x \in Missed(to) <=> x \in 1..s /\ ~Up(to, x)
      BY <1>3 DEF Missed, Up
    <3>2. \A x : x \in A <=> x \in 1..last /\ ~Up(st, x)
      BY DEF Missed, Up
    <3>3. ASSUME NEW x \in Missed(to) PROVE x \in A \cup B
      <4>1. x \in 1..s /\ x # s /\ ~Up(st, x)
        BY <1>7, <3>1
      <4> HIDE DEF A
      <4> QED
        BY <1>1, <2>2, <3>2, <4>1
    <3>4. ASSUME NEW x \in A PROVE x \in Missed(to)
      <4>1. x \in 1..last /\ ~Up(st, x)
        BY <3>2
      <4>2. x \in 1..s /\ x # s
        BY <1>1, <2>2, <4>1
      <4> QED
        BY <1>7, <3>1, <4>1, <4>2
    <3>5. ASSUME NEW x \in B PROVE x \in Missed(to)
      <4>1. x \in 1..s /\ x # s /\ x > last
        BY <1>1, <2>2
      <4>2. ~Up(st, x)
        BY <1>1, <2>1, <4>1 DEF Up
      <4> QED
        BY <1>7, <3>1, <4>1, <4>2
    <3> HIDE DEF A, B
    <3> QED
      BY <3>3, <3>4, <3>5
  <2>4. IsFiniteSet(A) /\ IsFiniteSet(B) /\ Cardinality(B) = lost
    <3>1. IsFiniteSet(1..last) /\ A \subseteq 1..last
      <4>1. 1 \in Int /\ last \in Int
        BY <1>1
      <4>2. A \subseteq 1..last
        BY DEF Missed
      <4> HIDE DEF A
      <4> QED
        BY <4>1, <4>2, FS_Interval
    <3>2. IsFiniteSet(B) /\ Cardinality(B) = IF last + 1 > s - 1 THEN 0 ELSE s - 1 - (last + 1) + 1
      <4>1. last + 1 \in Int /\ s - 1 \in Int
        BY <1>1
      <4> QED
        BY <4>1, FS_Interval
    <3> HIDE DEF A, B
    <3> QED
      BY <1>1, <3>1, <3>2, FS_Subset
  <2>5. A \cap B = {}
    BY <1>1 DEF Missed
  <2> HIDE DEF A, B, lost
  <2>6. Cardinality(A \cup B) = Cardinality(A) + lost
    <3>1. Cardinality(A \cup B) = Cardinality(A) + Cardinality(B) - Cardinality(A \cap B)
      BY <2>4, FS_Union
    <3>2. Cardinality(A \cap B) = 0
      BY <2>5, FS_EmptySet
    <3>3. Cardinality(A) \in Nat
      BY <2>4, FS_CardinalityType
    <3> QED
      BY <1>4, <2>4, <3>1, <3>2, <3>3
  <2>7. st.losses = Cardinality(A)
    BY DEF Counted, A
  <2> QED
    BY <1>3, <1>5, <2>3, <2>6, <2>7 DEF Counted
<1> QED
  BY <1>3, <1>6, <1>7, <1>9, <1>10, <1>11

\* The parts of SDU s up to PDU t were all taken.
SoFar(s, t, tk) == \A u \in Carriers(s) : u <= t => u \in tk
Waiting(o, t) == [sdu |-> SduAt(t, Count(t)), size |-> o[t + 1], pdu |-> t]

\* Of the SDUs G, those went up whose PDUs were all taken.
Good(G, tk, st) ==
    /\ st \in RxStates /\ st.err = "none" /\ Rising(st) /\ Counted(st)
    /\ \A s : Up(st, s) <=> s \in G /\ Carriers(s) \subseteq tk

\* What waits is the start of the SDU that was cut in one of the PDUs D, and it
\* does wait when that is the last of them and nothing of it is missing.
Waits(o, D, tk, st) ==
    /\ st.buffered # NoSdu =>
          \E b \in D : /\ Cut(b) /\ SoFar(SduAt(b, Count(b)), b, tk)
                       /\ st.buffered = Waiting(o, b)
    /\ \A t \in D : /\ \A u \in D : u <= t
                    /\ Cut(t) /\ SoFar(SduAt(t, Count(t)), t, tk)
                    => st.buffered = Waiting(o, t)

RxOK(o, D, tk, st) == Good(Fin(D), tk, st) /\ Waits(o, D, tk, st)

\* The same after i parts of PDU t.
PartOK(o, D, tk, t, i, st) ==
    /\ Good(Fin(D) \cup FinIn(t, i), tk, st)
    /\ IF i = 0 THEN Waits(o, D, tk, st)
       ELSE st.buffered = IF i = Count(t) /\ Cut(t) /\ SoFar(SduAt(t, i), t, tk)
                          THEN Waiting(o, t) ELSE NoSdu

LEMMA PartIs ==
    ASSUME NEW o, TxOK(o), NEW t \in PduNos
    PROVE  /\ Len(Parts(t)) = Count(t)
           /\ \A i \in 1..Count(t) :
                 /\ Parts(t)[i].sdu = SduAt(t, i) /\ Parts(t)[i].size = SizeAt(t, i)
                 /\ Parts(t)[i].pdu = t
                 /\ Parts(t)[i].first = ~(i = 1 /\ o[t] > 0)
                 /\ Parts(t)[i].last = Ends(t, i)
<1>1. Count(t) \in Nat /\ pdus[t + 1].startFrag = (o[t] > 0)
  BY ChunkTypes DEF TxOK, PdusOK, PduOK
<1> DEFINE p(i) == [sdu |-> SduAt(t, i), size |-> SizeAt(t, i), pdu |-> t,
                    first |-> ~(i = 1 /\ pdus[t + 1].startFrag), last |-> Ends(t, i)]
<1>2. Parts(t) = [i \in 1..Count(t) |-> p(i)]
  BY DEF Parts, Count, SduAt, SizeAt, ChunksOf, Ends, Cut
<1>3. \A i : /\ p(i).sdu = SduAt(t, i) /\ p(i).size = SizeAt(t, i) /\ p(i).pdu = t
             /\ p(i).first = ~(i = 1 /\ o[t] > 0) /\ p(i).last = Ends(t, i)
  BY <1>1
<1> HIDE DEF p
<1>4. Len(Parts(t)) = Count(t) /\ \A i \in 1..Count(t) : Parts(t)[i] = p(i)
  BY <1>1, <1>2
<1> QED
  BY <1>3, <1>4

\* An SDU that ends here goes up if its parts were all taken.
LEMMA EndGoesUp ==
    ASSUME NEW o, TxOK(o), NEW t \in PduNos, NEW i \in 1..Count(t), Ends(t, i),
           NEW D \in SUBSET PduNos, \A u \in D : u < t, NEW tk,
           NEW st, Good(Fin(D) \cup FinIn(t, i - 1), tk, st),
           NEW to,
           \/ SoFar(SduAt(t, i), t, tk) /\ to = ToPdcp(st, SduAt(t, i))
           \/ ~SoFar(SduAt(t, i), t, tk) /\ to = [st EXCEPT !.buffered = NoSdu]
    PROVE  /\ Good(Fin(D) \cup FinIn(t, i), tk, to)
           /\ to.buffered = NoSdu /\ Extends(st, to)
<1> DEFINE s == SduAt(t, i)
           G == Fin(D) \cup FinIn(t, i - 1)
           H == Fin(D) \cup FinIn(t, i)
<1>1. \A x : Up(st, x) => x \in Nat /\ x < s
  BY FinBefore DEF Good
<1>2. s \in Nat /\ i \in Nat /\ i >= 1
  BY ChunkTypes
<1>3. \A x : x \in H <=> x \in G \/ x = s
  <2>1. \A j : j \in 1..i <=> j \in 1..i - 1 \/ j = i
    BY <1>2
  <2>2. \A x : x \in FinIn(t, i) <=> x \in FinIn(t, i - 1) \/ x = s
    BY <1>2, <2>1 DEF FinIn
  <2> QED
    BY <2>2
<1>4. Carriers(s) \subseteq tk <=> SoFar(s, t, tk)
  BY LastCarrier DEF SoFar
<1>5. \A x \in G : x # s
  BY <1>2, FinBefore
<1>6. CASE SoFar(s, t, tk) /\ to = ToPdcp(st, s)
  <2>1. /\ to \in RxStates /\ to.buffered = NoSdu /\ to.err = st.err
        /\ Rising(to) /\ Counted(to) /\ Extends(st, to)
        /\ \A x : Up(to, x) <=> x = s \/ Up(st, x)
    BY <1>1, <1>2, <1>6, PassUp DEF Good
  <2> HIDE DEF s, G, H
  <2>2. \A x : Up(to, x) <=> x \in H /\ Carriers(x) \subseteq tk
    BY <1>3, <1>4, <1>6, <2>1 DEF Good, G
  <2> QED
    BY <2>1, <2>2 DEF Good, H
<1>7. CASE ~SoFar(s, t, tk) /\ to = [st EXCEPT !.buffered = NoSdu]
  <2>1. st \in RxStates /\ NoSdu \in [sdu : Nat, size : Nat, pdu : Nat]
    BY DEF Good, NoSdu
  <2>2. /\ to \in RxStates /\ to.buffered = NoSdu /\ to.err = st.err
        /\ to.delivered = st.delivered /\ to.lastSno = st.lastSno /\ to.losses = st.losses
    BY <1>7, <2>1 DEF RxStates
  <2>3. /\ Rising(to) /\ Counted(to) /\ Extends(st, to)
        /\ \A x : Up(to, x) <=> Up(st, x)
    <3>1. Len(st.delivered) \in Nat
      BY <2>1 DEF RxStates
    <3> QED
      BY <2>2, <3>1 DEF Good, Rising, Counted, Missed, Extends, Up
  <2> HIDE DEF s, G, H
  <2>4. \A x : Up(to, x) <=> x \in H /\ Carriers(x) \subseteq tk
    BY <1>3, <1>4, <1>7, <2>3 DEF Good, G
  <2> QED
    BY <2>2, <2>3, <2>4 DEF Good, H
<1> QED
  BY <1>6, <1>7

\* A part that does not end its SDU only changes what waits.
LEMMA CutWaits ==
    ASSUME NEW o, TxOK(o), NEW t \in PduNos, NEW i \in 1..Count(t), ~Ends(t, i),
           NEW D, NEW tk,
           NEW st, Good(Fin(D) \cup FinIn(t, i - 1), tk, st),
           NEW b \in [sdu : Nat, size : Nat, pdu : Nat],
           NEW to, to = [st EXCEPT !.buffered = b]
    PROVE  /\ Good(Fin(D) \cup FinIn(t, i), tk, to)
           /\ to.buffered = b /\ Extends(st, to)
<1>1. i \in Nat /\ i >= 1
  BY ChunkTypes
<1>2. FinIn(t, i) = FinIn(t, i - 1)
  <2>1. \A j : j \in 1..i <=> j \in 1..i - 1 \/ j = i
    BY <1>1
  <2>2. \A x : x \in FinIn(t, i) <=> x \in FinIn(t, i - 1)
    BY <2>1 DEF FinIn
  <2> QED
    BY <2>2
<1>3. st \in RxStates
  BY DEF Good
<1>4. /\ to \in RxStates /\ to.buffered = b /\ to.err = st.err
      /\ to.delivered = st.delivered /\ to.lastSno = st.lastSno /\ to.losses = st.losses
  BY <1>3 DEF RxStates
<1>5. /\ Rising(to) /\ Counted(to) /\ Extends(st, to)
      /\ \A x : Up(to, x) <=> Up(st, x)
  <2>1. Len(st.delivered) \in Nat
    BY <1>3 DEF RxStates
  <2>2. Rising(st) /\ Counted(st)
    BY DEF Good
  <2>3. Rising(to) /\ Counted(to)
    BY <1>4, <2>2 DEF Rising, Counted, Missed
  <2>4. Extends(st, to) /\ \A x : Up(to, x) <=> Up(st, x)
    BY <1>4, <2>1 DEF Extends, Up
  <2> QED
    BY <2>3, <2>4
<1> QED
  BY <1>2, <1>4, <1>5 DEF Good

LEMMA Continued ==
    ASSUME NEW r \in [sdu : Nat, size : Nat, pdu : Nat], NEW n \in Nat, NEW t \in Nat
    PROVE  [r EXCEPT !.size = @ + n, !.pdu = t]
              = [sdu |-> r.sdu, size |-> r.size + n, pdu |-> t]
<1> DEFINE w == [r EXCEPT !.size = r.size + n, !.pdu = t]
<1>1. w \in [sdu : Nat, size : Nat, pdu : Nat]
  <2>1. r.size + n \in Nat
    OBVIOUS
  <2> QED
    BY <2>1
<1>2. w.sdu = r.sdu /\ w.size = r.size + n /\ w.pdu = t
  OBVIOUS
<1>3. w = [r EXCEPT !.size = @ + n, !.pdu = t]
  OBVIOUS
<1> HIDE DEF w
<1> QED
  BY <1>1, <1>2, <1>3

\* reassemble takes one part.
LEMMA TakePart ==
    ASSUME NEW o, TxOK(o), NEW t \in PduNos, NEW i \in 1..Count(t),
           NEW D \in SUBSET PduNos, \A u \in D : u < t,
           NEW tk, t \in tk, \A u \in tk : u < t => u \in D,
           NEW st, PartOK(o, D, tk, t, i - 1, st),
           NEW to, to = Take(st, Parts(t)[i])
    PROVE  PartOK(o, D, tk, t, i, to) /\ Extends(st, to)
<1> DEFINE s == SduAt(t, i)
           p == Parts(t)[i]
           BS == [sdu : Nat, size : Nat, pdu : Nat]
<1>1. /\ p.sdu = s /\ p.size = SizeAt(t, i) /\ p.pdu = t
      /\ p.first = ~(i = 1 /\ o[t] > 0) /\ p.last = Ends(t, i)
  BY PartIs
<1>2. /\ i \in Nat /\ i >= 1 /\ t \in Nat /\ s \in Nat /\ SizeAt(t, i) \in Nat
      /\ o[t] \in Nat /\ o[t + 1] \in Nat /\ StartOf(o, t, i) \in Nat
      /\ Count(t) \in Nat
  BY ChunkTypes
<1>3. IF Ends(t, i)
      THEN StartOf(o, t, i) + SizeAt(t, i) = LengthOf(s)
      ELSE o[t + 1] = StartOf(o, t, i) + SizeAt(t, i)
  BY DEF TxOK, PdusOK, PduOK
<1>4. Good(Fin(D) \cup FinIn(t, i - 1), tk, st) /\ st.err = "none"
  BY DEF PartOK, Good
<1>5. ~Ends(t, i) => i = Count(t) /\ Cut(t)
  BY DEF Ends
<1>6. Ends(t, i) => ~(i = Count(t) /\ Cut(t))
  BY DEF Ends
<1> HIDE DEF p
<1>7. CASE p.first
  <2>1. SoFar(s, t, tk)
    <3>1. ASSUME NEW u \in Carriers(s), u <= t PROVE u \in tk
      <4>1. t <= u /\ u \in Nat
        BY <1>1, <1>7, FirstCarrier, CarriersAre, ChunkTypes
      <4> QED
        BY <1>2, <3>1, <4>1
    <3> QED
      BY <3>1 DEF SoFar
  <2>2. StartOf(o, t, i) = 0
    <3>1. ~(i = 1 /\ o[t] > 0)
      BY <1>1, <1>7
    <3> QED
      BY <1>2, <3>1 DEF StartOf
  <2>3. CASE p.last
    <3>1. Ends(t, i) /\ p.size = LengthOf(p.sdu)
      BY <1>1, <1>2, <1>3, <2>2, <2>3
    <3>2. to = ToPdcp(st, s)
      BY <1>1, <1>4, <1>7, <2>3, <3>1 DEF Take, Whole, p
    <3>3. Good(Fin(D) \cup FinIn(t, i), tk, to) /\ to.buffered = NoSdu /\ Extends(st, to)
      BY <1>4, <2>1, <3>1, <3>2, EndGoesUp
    <3> QED
      BY <1>2, <1>6, <3>1, <3>3 DEF PartOK
  <2>4. CASE ~p.last
    <3>1. ~Ends(t, i) /\ i = Count(t) /\ Cut(t)
      BY <1>1, <1>5, <2>4
    <3>2. to = [st EXCEPT !.buffered = [sdu |-> p.sdu, size |-> p.size, pdu |-> p.pdu]]
      BY <1>4, <1>7, <2>4 DEF Take, FirstPart, p
    <3>3. [sdu |-> p.sdu, size |-> p.size, pdu |-> p.pdu] = Waiting(o, t)
      BY <1>1, <1>2, <1>3, <2>2, <3>1 DEF Waiting
    <3>4. Waiting(o, t) \in BS
      BY <1>2, <3>1 DEF Waiting
    <3>5. /\ Good(Fin(D) \cup FinIn(t, i), tk, to)
          /\ to.buffered = Waiting(o, t) /\ Extends(st, to)
      <4>1. PICK b \in BS : b = Waiting(o, t)
        BY <3>4
      <4>2. to = [st EXCEPT !.buffered = b]
        BY <3>2, <3>3, <4>1
      <4> QED
        BY <1>4, <3>1, <4>1, <4>2, CutWaits
    <3> QED
      BY <1>2, <2>1, <3>1, <3>5 DEF PartOK
  <2> QED
    BY <2>3, <2>4
<1>8. CASE ~p.first
  <2>1. i = 1 /\ o[t] > 0
    BY <1>1, <1>8
  <2>2. PICK v \in PduNos : /\ v + 1 = t /\ Cut(v) /\ SduAt(v, Count(v)) = s
                            /\ Count(v) \in 1..Count(v)
    BY <2>1, GoesOn
  <2>3. v \in Carriers(s) /\ v \in Nat /\ v < t
    BY <1>2, <2>2, CarriersAre, ChunkTypes
  <2>4. Waits(o, D, tk, st)
    BY <2>1 DEF PartOK
  <2>5. SoFar(s, t, tk) <=> SoFar(s, v, tk)
    <3>1. \A u \in Carriers(s) : u <= t <=> u <= v \/ u = t
      BY <1>2, <2>2, <2>3, CarriersAre, ChunkTypes
    <3> QED
      BY <3>1 DEF SoFar
  <2>6. ASSUME Continues(st, p)
        PROVE  SoFar(s, v, tk) /\ st.buffered = Waiting(o, v)
    <3>1. st.buffered # NoSdu /\ t = st.buffered.pdu + 1
      BY <1>1, <2>6 DEF Continues
    <3>2. PICK b \in D : /\ SoFar(SduAt(b, Count(b)), b, tk)
                         /\ st.buffered = Waiting(o, b)
      BY <2>4, <3>1 DEF Waits
    <3>3. st.buffered.pdu = b /\ b \in Nat
      BY <3>2, ChunkTypes DEF Waiting
    <3>4. b = v
      BY <2>2, <2>3, <3>1, <3>3
    <3> QED
      BY <2>2, <3>2, <3>4
  <2>7. ASSUME SoFar(s, v, tk) PROVE Continues(st, p)
    <3>1. v \in tk
      BY <2>3, <2>7 DEF SoFar
    <3>2. v \in D
      BY <2>3, <3>1
    <3>3. \A u \in D : u <= v
      BY <1>2, <2>2, <2>3, ChunkTypes
    <3>4. st.buffered = Waiting(o, v)
      BY <2>2, <2>4, <2>7, <3>2, <3>3 DEF Waits
    <3>5. st.buffered.sdu = s /\ st.buffered.size = o[t] /\ st.buffered.pdu = v
      BY <2>2, <3>4 DEF Waiting
    <3>6. st.buffered # NoSdu
      BY <2>1, <3>5 DEF NoSdu
    <3> QED
      BY <1>1, <2>2, <3>5, <3>6 DEF Continues
  <2>8. StartOf(o, t, i) = o[t]
    BY <2>1 DEF StartOf
  <2>9. CASE ~Continues(st, p)
    <3>1. to = [st EXCEPT !.buffered = NoSdu] /\ ~SoFar(s, t, tk)
      BY <1>4, <1>8, <2>5, <2>7, <2>9 DEF Take, p
    <3>2. CASE Ends(t, i)
      <4>1. Good(Fin(D) \cup FinIn(t, i), tk, to) /\ to.buffered = NoSdu /\ Extends(st, to)
        BY <1>4, <3>1, <3>2, EndGoesUp
      <4> QED
        BY <1>2, <3>1, <4>1 DEF PartOK
    <3>3. CASE ~Ends(t, i)
      <4>1. PICK b \in BS : b = NoSdu
        BY DEF NoSdu
      <4>2. Good(Fin(D) \cup FinIn(t, i), tk, to) /\ to.buffered = NoSdu /\ Extends(st, to)
        <5>1. to = [st EXCEPT !.buffered = b]
          BY <3>1, <4>1
        <5> QED
          BY <1>4, <3>3, <4>1, <5>1, CutWaits
      <4> QED
        BY <1>2, <3>1, <4>2 DEF PartOK
    <3> QED
      BY <3>2, <3>3
  <2>10. CASE Continues(st, p) /\ p.last
    <3>1. Ends(t, i) /\ SoFar(s, t, tk) /\ st.buffered.size = o[t]
      BY <1>1, <2>2, <2>5, <2>6, <2>10 DEF Waiting
    <3>2. st.buffered.size + p.size = LengthOf(p.sdu)
      BY <1>1, <1>3, <2>8, <3>1
    <3>3. to = ToPdcp(st, s)
      <4>1. to = LastPart(st, p)
        BY <1>4, <1>8, <2>10 DEF Take, p
      <4>2. st.buffered.size + p.size \in Nat
        BY <1>1, <1>2, <3>1
      <4> DEFINE size == st.buffered.size + p.size
                 len == LengthOf(p.sdu)
      <4>3. size = len /\ ~(size < len)
        BY <3>2, <4>2
      <4>4. to = CASE size = len -> ToPdcp(st, p.sdu)
                   [] size < len -> [st EXCEPT !.buffered = NoSdu]
                   [] OTHER -> [st EXCEPT !.err = "wrongLength"]
        BY <4>1 DEF LastPart
      <4> HIDE DEF size, len
      <4> QED
        BY <1>1, <4>3, <4>4
    <3>4. Good(Fin(D) \cup FinIn(t, i), tk, to) /\ to.buffered = NoSdu /\ Extends(st, to)
      BY <1>4, <3>1, <3>3, EndGoesUp
    <3> QED
      BY <1>2, <1>6, <3>1, <3>4 DEF PartOK
  <2>11. CASE Continues(st, p) /\ ~p.last
    <3>1. ~Ends(t, i) /\ i = Count(t) /\ Cut(t)
      BY <1>1, <1>5, <2>11
    <3>2. SoFar(s, t, tk) /\ st.buffered = Waiting(o, v)
      BY <2>5, <2>6, <2>11
    <3>3. to = [st EXCEPT !.buffered.size = @ + p.size, !.buffered.pdu = p.pdu]
      BY <1>4, <1>8, <2>11 DEF Take, MidPart, p
    <3>4. [st.buffered EXCEPT !.size = @ + p.size, !.pdu = p.pdu] = Waiting(o, t)
      <4>1. PICK r \in BS : r = st.buffered
        BY <1>4 DEF Good, RxStates
      <4>2. r.sdu = s /\ r.size = o[t]
        BY <2>2, <3>2, <4>1 DEF Waiting
      <4>3. p.size \in Nat /\ p.pdu = t /\ o[t] + p.size = o[t + 1]
        BY <1>1, <1>2, <1>3, <2>8, <3>1
      <4>4. [r EXCEPT !.size = @ + p.size, !.pdu = p.pdu]
              = [sdu |-> s, size |-> o[t + 1], pdu |-> t]
        <5>1. PICK n \in Nat : n = p.size
          BY <4>3
        <5>2. [r EXCEPT !.size = @ + n, !.pdu = t]
                = [sdu |-> r.sdu, size |-> r.size + n, pdu |-> t]
          BY <1>2, Continued
        <5>3. p.pdu = t /\ r.sdu = s /\ r.size + n = o[t + 1]
          BY <4>2, <4>3, <5>1
        <5> HIDE DEF s
        <5> QED
          BY <5>1, <5>2, <5>3
      <4>5. Waiting(o, t) = [sdu |-> s, size |-> o[t + 1], pdu |-> t]
        BY <3>1 DEF Waiting
      <4> QED
        BY <4>1, <4>4, <4>5
    <3>5. to = [st EXCEPT !.buffered = Waiting(o, t)]
      <4>1. st \in RxStates /\ st.buffered \in BS
        BY <1>4 DEF Good, RxStates
      <4> QED
        BY <3>3, <3>4, <4>1 DEF RxStates
    <3>6. Waiting(o, t) \in BS
      BY <1>2, <3>1 DEF Waiting
    <3>7. /\ Good(Fin(D) \cup FinIn(t, i), tk, to)
          /\ to.buffered = Waiting(o, t) /\ Extends(st, to)
      BY <1>4, <3>1, <3>5, <3>6, CutWaits
    <3> QED
      BY <1>2, <3>1, <3>2, <3>7 DEF PartOK
  <2> QED
    BY <2>9, <2>10, <2>11
<1> QED
  BY <1>7, <1>8

LEMMA ExtendsOn ==
    ASSUME NEW a \in RxStates, NEW b \in RxStates, NEW c \in RxStates,
           Extends(a, b), Extends(b, c)
    PROVE  Extends(a, c)
<1>1. Len(a.delivered) \in Nat /\ Len(b.delivered) \in Nat /\ Len(c.delivered) \in Nat
  BY DEF RxStates
<1> QED
  BY <1>1 DEF Extends

LEMMA ExtendsSelf ==
    ASSUME NEW a \in RxStates
    PROVE  Extends(a, a)
<1>1. Len(a.delivered) \in Nat
  BY DEF RxStates
<1> QED
  BY <1>1 DEF Extends

PartsTo(f, st, t, n) ==
    f = [k \in 0..n |-> IF k = 0 THEN st ELSE Take(f[k - 1], Parts(t)[k])]

LEMMA PartsExist ==
    ASSUME NEW st, NEW t
    PROVE  \A n \in Nat : \E f : PartsTo(f, st, t, n)
<1> DEFINE T == {n \in Nat : ~\E f : PartsTo(f, st, t, n)}
<1>1. SUFFICES ASSUME T # {} PROVE FALSE
  OBVIOUS
<1>2. PICK m \in T : \A n \in T : m <= n
  <2>1. T \in SUBSET Nat
    OBVIOUS
  <2> HIDE DEF T
  <2> QED
    BY <1>1, <2>1, LeastOf
<1>3. CASE m = 0
  <2> DEFINE f == [k \in 0..0 |-> st]
  <2>1. PartsTo(f, st, t, 0)
    BY DEF PartsTo
  <2> QED
    BY <1>3, <2>1
<1>4. CASE m # 0
  <2>1. m - 1 \in Nat /\ m - 1 \notin T
    BY <1>2, <1>4
  <2>2. PICK f : PartsTo(f, st, t, m - 1)
    BY <2>1
  <2> DEFINE g == [k \in 0..m |-> IF k < m THEN f[k] ELSE Take(f[m - 1], Parts(t)[m])]
  <2>3. ASSUME NEW k \in 0..m
        PROVE  g[k] = IF k = 0 THEN st ELSE Take(g[k - 1], Parts(t)[k])
    <3>1. CASE k < m /\ k # 0
      <4>1. k \in 0..m - 1 /\ k - 1 \in 0..m /\ k - 1 < m
        BY <3>1
      <4>2. f[k] = Take(f[k - 1], Parts(t)[k])
        BY <2>2, <3>1, <4>1 DEF PartsTo
      <4> QED
        BY <3>1, <4>1, <4>2
    <3>2. CASE k = 0
      <4>1. f[0] = st
        BY <2>1, <2>2 DEF PartsTo
      <4> QED
        BY <1>4, <3>2, <4>1
    <3>3. CASE k = m
      <4>1. m - 1 \in 0..m /\ m - 1 < m
        BY <2>1
      <4> QED
        BY <1>4, <3>3, <4>1
    <3> QED
      BY <3>1, <3>2, <3>3
  <2>4. PartsTo(g, st, t, m)
    BY <2>3 DEF PartsTo
  <2> QED
    BY <2>4
<1> QED
  BY <1>3, <1>4

\* reassemble takes one PDU.
LEMMA TakePduOK ==
    ASSUME NEW o, TxOK(o), NEW t \in PduNos,
           NEW D \in SUBSET PduNos, \A u \in D : u < t,
           NEW tk, t \in tk, \A u \in tk : u < t => u \in D,
           NEW st, RxOK(o, D, tk, st), NEW to, to = TakePdu(st, t)
    PROVE  RxOK(o, D \cup {t}, tk, to) /\ Extends(st, to)
<1> DEFINE N == Count(t)
<1>1. N \in Nat /\ N # 0 /\ N = Len(Parts(t)) /\ t \in Nat
  BY ChunkTypes, PartIs
<1>2. PICK f : PartsTo(f, st, t, N) /\ to = f[N]
  <2> DEFINE F == CHOOSE f : PartsTo(f, st, t, Len(Parts(t)))
  <2>1. to = F[Len(Parts(t))]
    BY DEF TakePdu, PartsTo
  <2>2. PartsTo(F, st, t, Len(Parts(t)))
    BY <1>1, PartsExist
  <2> HIDE DEF F
  <2> QED
    BY <1>1, <2>1, <2>2
<1> HIDE DEF N
<1>3. \A k \in 0..N : f[k] = IF k = 0 THEN st ELSE Take(f[k - 1], Parts(t)[k])
  BY <1>2 DEF PartsTo
<1> DEFINE P(k) == PartOK(o, D, tk, t, k, f[k]) /\ Extends(st, f[k])
<1>4. P(0)
  <2>1. f[0] = st
    BY <1>1, <1>3
  <2>2. FinIn(t, 0) = {}
    BY DEF FinIn
  <2>3. Good(Fin(D) \cup FinIn(t, 0), tk, st)
    BY <2>2 DEF RxOK
  <2> QED
    BY <2>1, <2>3, ExtendsSelf DEF PartOK, RxOK, Good
<1>5. ASSUME NEW k \in 1..N, P(k - 1) PROVE P(k)
  <2>1. f[k] = Take(f[k - 1], Parts(t)[k])
    BY <1>1, <1>3
  <2>2. PartOK(o, D, tk, t, k, f[k]) /\ Extends(f[k - 1], f[k])
    BY <1>5, <2>1, TakePart DEF N
  <2>3. st \in RxStates /\ f[k - 1] \in RxStates /\ f[k] \in RxStates
    BY <1>5, <2>2 DEF PartOK, RxOK, Good
  <2> QED
    BY <1>5, <2>2, <2>3, ExtendsOn
<1>6. P(N)
  <2> DEFINE T == {k \in 0..N : ~P(k)}
  <2>1. SUFFICES ASSUME T # {} PROVE FALSE
    <3>1. N \in 0..N
      BY <1>1
    <3> HIDE DEF P
    <3> QED
      BY <3>1
  <2>2. PICK k \in T : \A n \in T : k <= n
    <3>1. T \in SUBSET Nat
      BY <1>1
    <3> HIDE DEF T
    <3> QED
      BY <2>1, <3>1, LeastOf
  <2> HIDE DEF P
  <2>3. k \in 0..N /\ ~P(k)
    BY <2>2
  <2>4. k \in 1..N /\ k - 1 \in 0..N /\ k - 1 < k
    BY <1>1, <1>4, <2>3
  <2>5. k - 1 \notin T
    <3> HIDE DEF T
    <3> QED
      BY <1>1, <2>2, <2>4
  <2> QED
    BY <1>5, <2>3, <2>4, <2>5
<1>7. PartOK(o, D, tk, t, N, to) /\ Extends(st, to)
  BY <1>2, <1>6
<1>8. Fin(D) \cup FinIn(t, N) = Fin(D \cup {t})
  BY DEF Fin, FinIn, N
<1>9. to.buffered = IF Cut(t) /\ SoFar(SduAt(t, N), t, tk) THEN Waiting(o, t) ELSE NoSdu
  BY <1>1, <1>7 DEF PartOK, N
<1>10. Waits(o, D \cup {t}, tk, to)
  <2>1. to.buffered # NoSdu =>
          \E b \in D \cup {t} : /\ Cut(b) /\ SoFar(SduAt(b, Count(b)), b, tk)
                                /\ to.buffered = Waiting(o, b)
    BY <1>9 DEF N
  <2>2. ASSUME NEW u \in D \cup {t}, \A x \in D \cup {t} : x <= u, Cut(u),
               SoFar(SduAt(u, Count(u)), u, tk)
        PROVE  to.buffered = Waiting(o, u)
    <3>1. u = t
      <4>1. u \in Nat /\ t <= u /\ (u = t \/ u < t)
        BY <2>2, ChunkTypes
      <4> QED
        BY <1>1, <4>1
    <3> QED
      BY <1>9, <2>2, <3>1 DEF N
  <2> QED
    BY <2>1, <2>2 DEF Waits
<1> QED
  BY <1>7, <1>8, <1>10 DEF RxOK, PartOK

Start == [buffered |-> buffered, lastSno |-> lastSno, losses |-> losses,
          delivered |-> delivered, err |-> "none"]

PdusTo(f, ts, n) ==
    f = [u \in 0..n |-> CASE u = 0 -> Start
                          [] u > 0 /\ u - 1 \in ts -> TakePdu(f[u - 1], u - 1)
                          [] OTHER -> f[u - 1]]

LEMMA PdusExist ==
    ASSUME NEW ts
    PROVE  \A n \in Nat : \E f : PdusTo(f, ts, n)
<1> DEFINE T == {n \in Nat : ~\E f : PdusTo(f, ts, n)}
           S(f, k) == CASE k = 0 -> Start
                        [] k > 0 /\ k - 1 \in ts -> TakePdu(f[k - 1], k - 1)
                        [] OTHER -> f[k - 1]
<1>0. \A f, n : PdusTo(f, ts, n) <=> f = [k \in 0..n |-> S(f, k)]
  BY DEF PdusTo
<1>1. SUFFICES ASSUME T # {} PROVE FALSE
  OBVIOUS
<1>2. PICK m \in T : \A n \in T : m <= n
  <2>1. T \in SUBSET Nat
    OBVIOUS
  <2> HIDE DEF T
  <2> QED
    BY <1>1, <2>1, LeastOf
<1>3. CASE m = 0
  <2> DEFINE f == [k \in 0..0 |-> Start]
  <2>1. f = [k \in 0..0 |-> S(f, k)]
    OBVIOUS
  <2> HIDE DEF f, S
  <2> QED
    BY <1>0, <1>2, <1>3, <2>1
<1>4. CASE m # 0
  <2>1. m - 1 \in Nat /\ m - 1 \notin T /\ m - 1 \in 0..m
    BY <1>2, <1>4
  <2>2. PICK f : f = [k \in 0..m - 1 |-> S(f, k)]
    <3> HIDE DEF S
    <3> QED
      BY <1>0, <2>1
  <2> DEFINE g == [k \in 0..m |-> IF k < m THEN f[k] ELSE S(f, m)]
  <2>3. ASSUME NEW k \in 0..m PROVE g[k] = S(g, k)
    <3>1. CASE k = 0
      <4>1. f[0] = Start
        <5>1. f[0] = S(f, 0)
          <6> HIDE DEF S
          <6> QED
            BY <2>1, <2>2
        <5> QED
          BY <5>1
      <4> QED
        BY <1>4, <3>1, <4>1
    <3>2. CASE k # 0
      <4>1. k - 1 \in 0..m /\ k - 1 < m
        BY <3>2
      <4>2. g[k - 1] = f[k - 1]
        <5> HIDE DEF S
        <5> QED
          BY <4>1
      <4>3. S(g, k) = S(f, k)
        BY <3>2, <4>2
      <4>4. g[k] = S(f, k)
        <5>1. CASE k < m
          <6>1. k \in 0..m - 1
            BY <5>1
          <6> HIDE DEF S
          <6> QED
            BY <2>2, <5>1, <6>1
        <5>2. CASE k = m
          <6> HIDE DEF S
          <6> QED
            BY <5>2
        <5> QED
          BY <5>1, <5>2
      <4> HIDE DEF S, g
      <4> QED
        BY <4>3, <4>4
    <3> QED
      BY <3>1, <3>2
  <2>4. g = [k \in 0..m |-> S(g, k)]
    <3>1. g = [k \in 0..m |-> g[k]]
      <4> HIDE DEF S
      <4> QED
        OBVIOUS
    <3> HIDE DEF S, g
    <3> QED
      BY <2>3, <3>1
  <2> HIDE DEF S, g
  <2> QED
    BY <1>0, <1>2, <2>4
<1> QED
  BY <1>3, <1>4

\* reassemble takes the PDUs that reordering passes, in their order.
LEMMA ReassembledOK ==
    ASSUME NEW o, TxOK(o), NEW ts \in SUBSET PduNos, NEW D \in SUBSET PduNos,
           \A u \in D, w \in ts : u < w,
           NEW tk, ts \subseteq tk,
           \A w \in ts, u \in tk : u < w => u \in D \cup ts,
           RxOK(o, D, tk, Start)
    PROVE  /\ RxOK(o, D \cup ts, tk, Reassembled(ts))
           /\ Extends(Start, Reassembled(ts))
<1>1. sno \in Nat /\ PduNos = 0..sno - 1
  BY DEF TxOK, TxTypes, PduNos
<1>0. \A w \in ts : w \in Nat /\ w < sno
  BY <1>1
<1>2. PICK f : PdusTo(f, ts, sno) /\ Reassembled(ts) = f[sno]
  <2> DEFINE F == CHOOSE f : PdusTo(f, ts, sno)
  <2>1. Reassembled(ts) = F[sno]
    BY DEF Reassembled, PdusTo, Start
  <2>2. PdusTo(F, ts, sno)
    BY <1>1, PdusExist
  <2> HIDE DEF F
  <2> QED
    BY <2>1, <2>2
<1> DEFINE E(n) == D \cup {w \in ts : w < n}
           P(n) == RxOK(o, E(n), tk, f[n]) /\ Extends(Start, f[n])
<1>3. P(0)
  <2>1. f[0] = Start
    BY <1>1, <1>2 DEF PdusTo
  <2>2. E(0) = D
    <3>1. \A w \in ts : ~(w < 0)
      BY <1>0
    <3> QED
      BY <3>1
  <2> HIDE DEF E
  <2> QED
    BY <2>1, <2>2, ExtendsSelf DEF RxOK, Good
<1>4. ASSUME NEW n \in 0..sno - 1, P(n) PROVE P(n + 1)
  <2>1. n + 1 \in 0..sno /\ n + 1 # 0 /\ n + 1 > 0 /\ n + 1 - 1 = n
    BY <1>1
  <2>2. f[n + 1] = CASE n + 1 = 0 -> Start
                     [] n + 1 > 0 /\ n + 1 - 1 \in ts -> TakePdu(f[n + 1 - 1], n + 1 - 1)
                     [] OTHER -> f[n + 1 - 1]
    <3> DEFINE S(k) == CASE k = 0 -> Start
                         [] k > 0 /\ k - 1 \in ts -> TakePdu(f[k - 1], k - 1)
                         [] OTHER -> f[k - 1]
    <3>1. f = [k \in 0..sno |-> S(k)]
      BY <1>2 DEF PdusTo
    <3>2. f[n + 1] = S(n + 1)
      <4> HIDE DEF S
      <4> QED
        BY <2>1, <3>1
    <3> QED
      BY <3>2
  <2>3. CASE n \in ts
    <3>1. f[n + 1] = TakePdu(f[n], n)
      BY <2>1, <2>2, <2>3
    <3>2. E(n + 1) = E(n) \cup {n}
      <4>1. \A w \in ts : w < n + 1 <=> w < n \/ w = n
        BY <1>0, <1>1
      <4> QED
        BY <2>3, <4>1
    <3>3. E(n) \in SUBSET PduNos /\ n \in PduNos /\ n \in tk /\ \A u \in E(n) : u < n
      BY <1>1, <2>3
    <3>4. \A u \in tk : u < n => u \in E(n)
      BY <2>3
    <3> HIDE DEF E
    <3>5. RxOK(o, E(n + 1), tk, f[n + 1]) /\ Extends(f[n], f[n + 1])
      <4>1. PICK F, t, st, to : /\ F \in SUBSET PduNos
                                /\ F = E(n) /\ t = n /\ st = f[n] /\ to = f[n + 1]
        BY <3>3
      <4>2. t \in PduNos /\ (\A u \in F : u < t) /\ t \in tk
            /\ (\A u \in tk : u < t => u \in F) /\ to = TakePdu(st, t)
        BY <3>1, <3>3, <3>4, <4>1
      <4>3. RxOK(o, F, tk, st)
        BY <1>4, <4>1
      <4>4. RxOK(o, F \cup {t}, tk, to) /\ Extends(st, to)
        BY <4>1, <4>2, <4>3, TakePduOK
      <4> QED
        BY <3>2, <4>1, <4>4
    <3>6. Start \in RxStates /\ f[n] \in RxStates /\ f[n + 1] \in RxStates
      BY <1>4, <3>5 DEF RxOK, Good
    <3> QED
      BY <1>4, <3>5, <3>6, ExtendsOn
  <2>4. CASE n \notin ts
    <3>1. f[n + 1] = f[n]
      BY <2>1, <2>2, <2>4
    <3>2. E(n + 1) = E(n)
      <4>1. \A w \in ts : w < n + 1 <=> w < n
        BY <1>0, <1>1, <2>4
      <4> QED
        BY <4>1
    <3> HIDE DEF E
    <3> QED
      BY <1>4, <3>1, <3>2
  <2> QED
    BY <2>3, <2>4
<1>5. P(sno)
  <2> DEFINE T == {k \in 0..sno : ~P(k)}
  <2>1. SUFFICES ASSUME T # {} PROVE FALSE
    <3>1. sno \in 0..sno
      BY <1>1
    <3> HIDE DEF P
    <3> QED
      BY <3>1
  <2>2. PICK k \in T : \A n \in T : k <= n
    <3>1. T \in SUBSET Nat
      BY <1>1
    <3> HIDE DEF T
    <3> QED
      BY <2>1, <3>1, LeastOf
  <2> HIDE DEF P
  <2>3. k \in 0..sno /\ ~P(k)
    BY <2>2
  <2>4. k - 1 \in 0..sno - 1 /\ k - 1 \in 0..sno /\ k - 1 < k /\ k - 1 + 1 = k
    BY <1>1, <1>3, <2>3
  <2>5. k - 1 \notin T
    <3> HIDE DEF T
    <3> QED
      BY <1>1, <2>2, <2>4
  <2>6. PICK n \in 0..sno - 1 : n = k - 1 /\ P(n)
    BY <2>4, <2>5
  <2> QED
    BY <1>4, <2>3, <2>4, <2>6
<1>6. E(sno) = D \cup ts
  BY <1>0
<1> HIDE DEF E
<1> QED
  BY <1>2, <1>5, <1>6

-----------------------------------------------------------------------------
(* The invariant: RxOK of the PDUs that reordering has passed. *)

Done == taken \ buffer

Rest ==
    /\ buffer \subseteq taken /\ taken \subseteq PduNos /\ air \subseteq PduNos
    /\ \A u \in Done : u < window.ur
    /\ multicast /\ ~init => taken = {}

\* The receiver's variables have these values.
Now(D, tk, st) == D = Done /\ tk = taken /\ st = Start

SduInv(o) ==
    /\ TxOK(o) /\ Rest /\ rxErr = "none"
    /\ \A D, tk, st : Now(D, tk, st) => RxOK(o, D, tk, st)

LEMMA NowIs ==
    ASSUME NEW o, SduInv(o)
    PROVE  RxOK(o, Done, taken, Start)
BY DEF SduInv, Now

\* The PDUs that are made later do not change what was made of the earlier ones.
LEMMA RxKept ==
    ASSUME NEW o, NEW q, NEW D \in SUBSET Nat, NEW tk, NEW st, RxOK(o, D, tk, st),
           \A b \in D : /\ Count(b)' = Count(b) /\ Cut(b)' = Cut(b)
                        /\ q[b + 1] = o[b + 1]
                        /\ \A i : SduAt(b, i)' = SduAt(b, i) /\ Ends(b, i)' = Ends(b, i),
           \A s \in Fin(D) : Carriers(s)' = Carriers(s),
           \A b \in D : \A s, u : u <= b => (u \in Carriers(s)' <=> u \in Carriers(s))
    PROVE  RxOK(q, D, tk, st)'
<1>1. Fin(D)' = Fin(D)
  <2>1. \A s \in Nat : (\E t \in D : \E i \in 1..Count(t)' : SduAt(t, i)' = s /\ Ends(t, i)')
                   <=> (\E t \in D : \E i \in 1..Count(t) : SduAt(t, i) = s /\ Ends(t, i))
    OBVIOUS
  <2>2. Fin(D)' = {s \in Nat : \E t \in D : \E i \in 1..Count(t)' :
                                  SduAt(t, i)' = s /\ Ends(t, i)'}
    BY DEF Fin
  <2>3. Fin(D) = {s \in Nat : \E t \in D : \E i \in 1..Count(t) :
                                  SduAt(t, i) = s /\ Ends(t, i)}
    BY DEF Fin
  <2> QED
    BY <2>1, <2>2, <2>3
<1>2. Good(Fin(D), tk, st)'
  <2>1. Good(Fin(D), tk, st)
    BY DEF RxOK
  <2>2. \A s : Up(st, s) <=> s \in Fin(D)' /\ Carriers(s)' \subseteq tk
    BY <1>1, <2>1 DEF Good
  <2> QED
    BY <2>1, <2>2 DEF Good
<1>3. \A b \in D : /\ SduAt(b, Count(b))' = SduAt(b, Count(b))
                   /\ Waiting(q, b)' = Waiting(o, b)
  <2> SUFFICES ASSUME NEW b \in D
               PROVE  /\ SduAt(b, Count(b))' = SduAt(b, Count(b))
                      /\ Waiting(q, b)' = Waiting(o, b)
    OBVIOUS
  <2>1. PICK c : c = Count(b)
    OBVIOUS
  <2>2. SduAt(b, c)' = SduAt(b, c) /\ Count(b)' = c
    BY <2>1
  <2>3. SduAt(b, Count(b))' = SduAt(b, Count(b))
    BY <2>1, <2>2 DEF SduAt, Count, ChunksOf
  <2> QED
    BY <2>3 DEF Waiting
<1>4. \A b \in D : \A s : SoFar(s, b, tk)' <=> SoFar(s, b, tk)
  <2> SUFFICES ASSUME NEW b \in D, NEW s PROVE SoFar(s, b, tk)' <=> SoFar(s, b, tk)
    OBVIOUS
  <2>1. \A u : u <= b => (u \in Carriers(s)' <=> u \in Carriers(s))
    OBVIOUS
  <2>2. SoFar(s, b, tk)' <=> \A u \in Carriers(s)' : u <= b => u \in tk
    BY DEF SoFar
  <2>3. SoFar(s, b, tk) <=> \A u \in Carriers(s) : u <= b => u \in tk
    BY DEF SoFar
  <2> QED
    BY <2>1, <2>2, <2>3
<1>5. \A b \in D : SoFar(SduAt(b, Count(b)), b, tk)' <=> SoFar(SduAt(b, Count(b)), b, tk)
  <2> SUFFICES ASSUME NEW b \in D
               PROVE  SoFar(SduAt(b, Count(b)), b, tk)' <=> SoFar(SduAt(b, Count(b)), b, tk)
    OBVIOUS
  <2>1. PICK s : s = SduAt(b, Count(b))
    OBVIOUS
  <2>2. SduAt(b, Count(b))' = s
    BY <1>3, <2>1
  <2>3. SoFar(SduAt(b, Count(b)), b, tk)' <=> SoFar(s, b, tk)'
    BY <2>2 DEF SoFar, Carriers
  <2> QED
    BY <1>4, <2>1, <2>3
<1>6. Waits(q, D, tk, st)'
  <2>1. Waits(o, D, tk, st)
    BY DEF RxOK
  <2>2. st.buffered # NoSdu =>
          \E b \in D : /\ Cut(b)' /\ SoFar(SduAt(b, Count(b)), b, tk)'
                       /\ st.buffered = Waiting(q, b)'
    BY <1>3, <1>5, <2>1 DEF Waits
  <2>3. \A t \in D : /\ \A u \in D : u <= t
                     /\ Cut(t)' /\ SoFar(SduAt(t, Count(t)), t, tk)'
                     => st.buffered = Waiting(q, t)'
    BY <1>3, <1>5, <2>1 DEF Waits
  <2> QED
    BY <2>2, <2>3 DEF Waits
<1> QED
  BY <1>2, <1>6 DEF RxOK

LEMMA RxSame ==
    ASSUME NEW o, NEW D \in SUBSET Nat, NEW tk, NEW st, RxOK(o, D, tk, st),
           pdus' = pdus, sno' = sno
    PROVE  RxOK(o, D, tk, st)'
<1>1. \A b : /\ Count(b)' = Count(b) /\ Cut(b)' = Cut(b)
             /\ \A i : SduAt(b, i)' = SduAt(b, i) /\ Ends(b, i)' = Ends(b, i)
  BY DEF Count, Cut, SduAt, Ends, ChunksOf
<1>2. \A s : Carriers(s)' = Carriers(s)
  BY DEF Carriers, PduNos
<1> QED
  BY <1>1, <1>2, RxKept

LEMMA RequestKeeps ==
    ASSUME NEW o, SduInv(o), NEW n, NEW cut, NEW rest, NEW cs, Made(n, cut, rest, cs),
           air' = air \cup {sno}, UNCHANGED rxVars
    PROVE  \E q : SduInv(q)'
<1>1. PICK T : T = sno
  OBVIOUS
<1>2. PICK q : Taken(q, o, n, cut, rest, T)
  BY DEF Taken
<1>3. TxOK(o) /\ Rest
  BY DEF SduInv
<1>4. TxOK(q)'
  BY <1>1, <1>2, <1>3, RequestKeepsTx
<1>5. /\ T \in Nat /\ sno' = T + 1 /\ pdus'[T + 1].chunks = cs
      /\ \A t \in 0..T - 1 : pdus'[t + 1] = pdus[t + 1]
  BY <1>1, <1>3, NewPdu
<1>6. PduNos = 0..T - 1 /\ PduNos' = 0..T /\ PduNos \subseteq PduNos'
  BY <1>1, <1>5 DEF PduNos
<1>7. /\ buffer' = buffer /\ taken' = taken /\ window' = window /\ rxErr' = rxErr
      /\ multicast' = multicast /\ init' = init
      /\ buffered' = buffered /\ lastSno' = lastSno /\ losses' = losses
      /\ delivered' = delivered
  BY DEF rxVars, sduVars
<1>8. Rest' /\ rxErr' = "none"
  <2>0. air \subseteq PduNos /\ taken \subseteq PduNos
    BY <1>3 DEF Rest
  <2>1. air' \subseteq PduNos' /\ taken' \subseteq PduNos'
    <3>1. sno \in 0..T
      BY <1>1, <1>5
    <3>2. sno \in PduNos'
      BY <1>6, <3>1
    <3> QED
      BY <1>6, <1>7, <2>0, <3>2
  <2> QED
    BY <1>3, <1>7, <2>1 DEF Rest, Done, SduInv
<1>9. ASSUME NEW D, NEW tk, NEW st, Now(D, tk, st)' PROVE RxOK(q, D, tk, st)'
  <2>1. Now(D, tk, st)
    BY <1>7, <1>9 DEF Now, Done, Start
  <2>2. RxOK(o, D, tk, st)
    BY <2>1 DEF SduInv
  <2>3. D \subseteq 0..T - 1 /\ D \in SUBSET Nat
    BY <1>3, <1>6, <2>1 DEF Now, Rest, Done
  <2>4. ASSUME NEW b \in D
        PROVE  /\ Count(b)' = Count(b) /\ Cut(b)' = Cut(b)
               /\ q[b + 1] = o[b + 1]
               /\ \A i : SduAt(b, i)' = SduAt(b, i) /\ Ends(b, i)' = Ends(b, i)
    <3>1. b \in 0..T - 1 /\ b + 1 \in 0..T /\ pdus'[b + 1] = pdus[b + 1]
      BY <1>5, <2>3
    <3>2. q[b + 1] = o[b + 1]
      BY <1>1, <1>2, <1>3, <3>1, NewTaken
    <3>3. UNCHANGED sduLength
      BY DEF Made
    <3> QED
      BY <3>1, <3>2, <3>3, SameChunks
  <2>5. ASSUME NEW s, NEW u, u \in 0..T - 1
        PROVE  u \in Carriers(s)' <=> u \in Carriers(s)
    <3>1. pdus'[u + 1] = pdus[u + 1] /\ u \in PduNos /\ u \in PduNos'
      BY <1>5, <1>6, <2>5
    <3> QED
      BY <3>1 DEF Carriers
  <2>6. \A s, u : /\ u \in Carriers(s) => u \in 0..T - 1
                  /\ u \in Carriers(s)' => u \in 0..T - 1 \/ u = T
    <3>1. \A u \in 0..T : u \in 0..T - 1 \/ u = T
      BY <1>5
    <3> QED
      BY <1>6, <3>1 DEF Carriers
  <2>7. ASSUME NEW s \in Fin(D), T \in Carriers(s)' PROVE FALSE
    <3>1. PICK j \in DOMAIN cs : cs[j].sdu = s
      BY <1>5, <2>7 DEF Carriers
    <3>2. j \in 1..Len(cs) /\ j \in 1..Len(sduQueue) /\ s = sduQueue[j]
      <4>1. DOMAIN cs = 1..Len(cs)
        BY DEF Made
      <4>2. \A i \in 1..Len(cs) : i \in 1..Len(sduQueue) /\ cs[i].sdu = sduQueue[i]
        BY DEF Made
      <4> QED
        BY <3>1, <4>1, <4>2
    <3>3. PICK t \in D : \E i \in 1..Count(t) : SduAt(t, i) = s /\ Ends(t, i)
      BY DEF Fin
    <3>4. PICK i \in 1..Count(t) : SduAt(t, i) = s /\ Ends(t, i)
      BY <3>3
    <3>5. t \in PduNos
      BY <1>6, <2>3
    <3>6. s < s /\ s \in Nat
      BY <1>3, <3>2, <3>4, <3>5, QueueIsLater, ChunkTypes
    <3> QED
      BY <3>6
  <2>8. \A s \in Fin(D) : Carriers(s)' = Carriers(s)
    <3> SUFFICES ASSUME NEW s \in Fin(D) PROVE \A u : u \in Carriers(s)' <=> u \in Carriers(s)
      OBVIOUS
    <3> QED
      BY <2>5, <2>6, <2>7
  <2>9. \A b \in D : \A s, u : u <= b => (u \in Carriers(s)' <=> u \in Carriers(s))
    <3> SUFFICES ASSUME NEW b \in D, NEW s, NEW u, u <= b
                 PROVE  u \in Carriers(s)' <=> u \in Carriers(s)
      OBVIOUS
    <3>1. u # T
      BY <1>5, <2>3
    <3> QED
      BY <2>5, <2>6, <3>1
  <2> QED
    BY <2>2, <2>3, <2>4, <2>8, <2>9, RxKept
<1> QED
  BY <1>4, <1>8, <1>9 DEF SduInv

\* The transmitter makes nothing: FromPdcp and Lose.
LEMMA ReceiverUntouched ==
    ASSUME NEW o, SduInv(o), TxOK(o)', pdus' = pdus, sno' = sno, air' \subseteq air,
           UNCHANGED rxVars
    PROVE  SduInv(o)'
<1>1. /\ buffer' = buffer /\ taken' = taken /\ window' = window /\ rxErr' = rxErr
      /\ multicast' = multicast /\ init' = init
      /\ buffered' = buffered /\ lastSno' = lastSno /\ losses' = losses
      /\ delivered' = delivered
  BY DEF rxVars, sduVars
<1>2. Rest /\ rxErr = "none"
  BY DEF SduInv
<1>3. Rest' /\ rxErr' = "none"
  BY <1>1, <1>2 DEF Rest, Done, PduNos
<1>4. ASSUME NEW D, NEW tk, NEW st, Now(D, tk, st)' PROVE RxOK(o, D, tk, st)'
  <2>1. Now(D, tk, st)
    BY <1>1, <1>4 DEF Now, Done, Start
  <2>2. RxOK(o, D, tk, st)
    BY <2>1 DEF SduInv
  <2>3. D \in SUBSET Nat
    <3>1. sno \in Nat
      BY DEF SduInv, TxOK, TxTypes
    <3> QED
      BY <1>2, <2>1, <3>1 DEF Now, Rest, Done, PduNos
  <2> QED
    BY <2>2, <2>3, RxSame
<1> QED
  BY <1>3, <1>4 DEF SduInv

\* PDUs that are taken later do not change it either.
LEMMA TakenGrows ==
    ASSUME NEW o, TxOK(o), NEW D \in SUBSET PduNos, NEW new \in SUBSET PduNos,
           \A u \in D, w \in new : u < w,
           NEW tk, NEW st, RxOK(o, D, tk, st)
    PROVE  RxOK(o, D, tk \cup new, st)
<1>1. ASSUME NEW b \in D, NEW w \in new PROVE ~(w <= b)
  <2>1. b \in Nat /\ w \in Nat /\ b < w
    BY ChunkTypes
  <2> QED
    BY <2>1
<1>2. \A b \in D : \A s : SoFar(s, b, tk \cup new) <=> SoFar(s, b, tk)
  BY <1>1 DEF SoFar
<1>3. ASSUME NEW s \in Fin(D)
      PROVE  Carriers(s) \subseteq tk \cup new <=> Carriers(s) \subseteq tk
  <2>1. PICK b \in D : \E i \in 1..Count(b) : SduAt(b, i) = s /\ Ends(b, i)
    BY DEF Fin
  <2>2. \A u \in Carriers(s) : u <= b
    BY <2>1, LastCarrier
  <2> QED
    BY <1>1, <2>2
<1>4. Good(Fin(D), tk \cup new, st)
  BY <1>3 DEF RxOK, Good
<1>5. Waits(o, D, tk \cup new, st)
  BY <1>2 DEF RxOK, Waits
<1> QED
  BY <1>4, <1>5 DEF RxOK

\* The PDUs ps leave the buffer, all below those that stay.
LEMMA PassKeeps ==
    ASSUME NEW o, SduInv(o), NEW new \in SUBSET PduNos,
           \A u \in Done, w \in new \cup buffer : u < w,
           NEW ps \in SUBSET (buffer \cup new),
           \A w \in ps, u \in (buffer \cup new) \ ps : ~(u < w),
           buffer' = (buffer \cup new) \ ps, taken' = taken \cup new,
           Reassemble(ps), rxErr' = Reassembled(ps).err,
           pdus' = pdus, sno' = sno
    PROVE  /\ rxErr' = "none" /\ Done' = Done \cup ps
           /\ \A D, tk, st : Now(D, tk, st)' => RxOK(o, D, tk, st)'
           /\ Extends(Start, Start')
<1>1. TxOK(o) /\ buffer \subseteq taken /\ taken \subseteq PduNos
  BY DEF SduInv, Rest
<1>2. sno \in Nat
  BY <1>1 DEF TxOK, TxTypes
<1> DEFINE tk == taken \cup new
           D == Done
           R == Reassembled(ps)
<1>3. D \in SUBSET PduNos /\ ps \in SUBSET PduNos /\ ps \subseteq tk
      /\ \A u \in D, w \in ps : u < w
  BY <1>1 DEF Done
<1>4. RxOK(o, D, tk, Start)
  <2>1. RxOK(o, D, taken, Start)
    BY NowIs
  <2>2. \A u \in D, w \in new : u < w
    OBVIOUS
  <2> QED
    BY <1>1, <1>3, <2>1, <2>2, TakenGrows
<1>5. ASSUME NEW w \in ps, NEW u \in tk, u < w PROVE u \in D \cup ps
  <2>1. u \in D \/ u \in buffer \cup new
    BY DEF Done
  <2> QED
    BY <1>5, <2>1
<1>6. RxOK(o, D \cup ps, tk, R) /\ Extends(Start, R)
  <2> HIDE DEF D, tk
  <2> QED
    <3>1. \A w \in ps, u \in tk : u < w => u \in D \cup ps
      BY <1>5
    <3> QED
      BY <1>1, <1>3, <1>4, <3>1, ReassembledOK
<1>7. R \in RxStates /\ R.err = "none"
  BY <1>6 DEF RxOK, Good
<1>8. Start' = R
  <2> HIDE DEF R
  <2>1. R = [buffered |-> R.buffered, lastSno |-> R.lastSno, losses |-> R.losses,
             delivered |-> R.delivered, err |-> R.err]
    BY <1>7 DEF RxStates
  <2>2. /\ buffered' = R.buffered /\ lastSno' = R.lastSno
        /\ losses' = R.losses /\ delivered' = R.delivered
    BY DEF Reassemble, R
  <2> QED
    BY <1>7, <2>1, <2>2 DEF Start
<1>9. Done' = Done \cup ps
  <2>1. \A u \in Done : u \notin new
    <3>1. \A u \in Done : u \in Nat /\ ~(u < u)
      BY <1>3, ChunkTypes, <1>1
    <3> QED
      BY <3>1
  <2>2. Done' = (taken \cup new) \ ((buffer \cup new) \ ps)
    BY DEF Done
  <2>3. Done = taken \ buffer
    BY DEF Done
  <2> QED
    BY <1>1, <1>3, <2>1, <2>2, <2>3
<1>10. rxErr' = "none"
  BY <1>7
<1>11. ASSUME NEW E, NEW t, NEW st, Now(E, t, st)' PROVE RxOK(o, E, t, st)'
  <2>1. E = D \cup ps /\ t = tk /\ st = R
    BY <1>8, <1>9, <1>11 DEF Now
  <2>2. RxOK(o, E, t, st)
    BY <1>6, <2>1
  <2>3. E \in SUBSET Nat
    BY <1>2, <1>3, <2>1 DEF PduNos
  <2> QED
    BY <2>2, <2>3, RxSame
<1> QED
  BY <1>6, <1>8, <1>9, <1>10, <1>11

\* Accept: what the PDU meets, takes out of the buffer and leaves.
LEMMA AcceptPasses ==
    ASSUME IInv, NEW t \in Nat, Accept(t), buffer \subseteq taken,
           multicast /\ ~init => taken = {}
    PROVE  \E ps \in SUBSET (buffer \cup {t}) :
              /\ buffer' = (buffer \cup {t}) \ ps /\ taken' = taken \cup {t}
              /\ \A w \in ps, u \in (buffer \cup {t}) \ ps : ~(u < w)
              /\ \A w \in ps : w < window'.ur
              /\ (multicast /\ ~init) \/ window.ur <= window'.ur
              /\ (multicast /\ ~init) \/ window.ur <= t
              /\ multicast' = multicast /\ (multicast' => init')
              /\ Reassemble(ps) /\ rxErr' = Reassembled(ps).err
<1> DEFINE e == Entry(t)
           moved == Moved(e, t)
           kept == {u \in buffer : u >= moved.first}
           held == kept \cup {t}
           r == FirstMissing(moved.ur, moved, held)
           after == [moved EXCEPT !.ur = r]
           passed == (buffer \ kept) \cup {u \in held : u < after.ur}
<1>1. /\ e \in Window /\ e.size # 0 /\ e.size <= WindowSize
      /\ e.first <= e.ur /\ e.ur <= e.uh /\ e.uh <= e.first + e.size
      /\ \A u \in buffer : e.ur < u /\ u < e.uh
  BY Met
<1>2. ~Discards(e, t)
  BY DEF Accept
<1>3. window' = [after EXCEPT !.ux = IF ~StillWaits(after) /\ Gap(after)
                                      THEN after.uh ELSE @]
      /\ buffer' = held \ passed /\ taken' = taken \cup {t}
      /\ init' = (init \/ multicast) /\ multicast' = multicast
      /\ Reassemble(passed)
      /\ rxErr' = CASE t \in kept -> "occupiedSlot"
                    [] t - moved.first \notin 0..(WindowSize - 1) -> "outOfWindow"
                    [] OTHER -> Reassembled(passed).err
  BY Zenon DEF Accept
<1>4. e.first \in Nat /\ e.ur \in Nat /\ e.uh \in Nat /\ e.size \in Nat /\ e.ux \in Nat
  BY <1>1 DEF Window
<1>5. (multicast /\ ~init) \/ e = window
  BY DEF Entry
<1> HIDE DEF e
<1>6. t >= e.ur /\ (t < e.uh => t \notin buffer)
  BY <1>2, <1>4 DEF Discards
<1>7. /\ moved \in Window /\ moved.size = e.size
      /\ moved.first <= moved.ur
      /\ e.ur <= moved.ur /\ moved.ur <= t
      /\ moved.uh > t /\ moved.uh <= moved.first + e.size
  BY <1>1, <1>6, Moves
<1> HIDE DEF moved
<1>8. /\ moved.first \in Nat /\ moved.ur \in Nat /\ moved.uh \in Nat
      /\ moved.size \in Nat /\ moved.ux \in Nat
  BY <1>7 DEF Window
<1>9. buffer \in SUBSET Nat /\ held \in SUBSET Nat
  BY DEF IInv, WindowType
<1>10. r \in Nat /\ moved.ur <= r
  <2> HIDE DEF held
  <2>1. moved.ur <= moved.uh
    BY <1>7, <1>8
  <2> QED
    BY <1>8, <1>9, <2>1, Missing
<1>11. after \in Window /\ after.ur = r
  <2> HIDE DEF r
  <2> QED
    BY <1>7, <1>8, <1>10 DEF Window
<1>12. window'.ur = r
  <2> HIDE DEF after
  <2> QED
    BY <1>3, <1>11 DEF Window
<1>13. t \notin buffer
  BY <1>1, <1>4, <1>6
<1> HIDE DEF r, after
<1>14. \A u \in buffer \cup {t} : u \in Nat /\ (u \in passed <=> u < r)
  <2> SUFFICES ASSUME NEW u \in buffer \cup {t} PROVE u \in Nat /\ (u \in passed <=> u < r)
    OBVIOUS
  <2>1. u \in Nat
    BY <1>9
  <2>2. CASE u \in held
    <3>1. u \notin buffer \ kept
      BY <1>13, <2>2
    <3> QED
      BY <1>11, <2>1, <2>2, <3>1
  <2>3. CASE u \notin held
    <3>1. u \in buffer \ kept /\ ~(u >= moved.first)
      BY <2>3
    <3>2. u < r
      BY <1>7, <1>8, <1>10, <2>1, <3>1
    <3> QED
      BY <2>1, <3>1, <3>2
  <2> QED
    BY <2>2, <2>3
<1>15. passed \in SUBSET (buffer \cup {t})
  OBVIOUS
<1>16. buffer' = (buffer \cup {t}) \ passed
  <2>1. \A u : u \in held \ passed <=> u \in (buffer \cup {t}) \ passed
    OBVIOUS
  <2> QED
    BY <1>3, <2>1
<1>17. rxErr' = Reassembled(passed).err
  <2>1. t \notin kept
    BY <1>13
  <2>2. t - moved.first \in 0..(WindowSize - 1)
    <3>1. WindowSize \in Nat
      BY UmRxAssumption
    <3>2. t - moved.first >= 0 /\ t - moved.first < e.size
      BY <1>4, <1>7, <1>8
    <3> QED
      BY <1>1, <1>4, <1>8, <3>1, <3>2
  <2> HIDE DEF kept, passed
  <2> QED
    BY <1>3, <2>1, <2>2
<1> DEFINE ps == passed
<1>18. /\ \A w \in ps, u \in (buffer \cup {t}) \ ps : ~(u < w)
       /\ \A w \in ps : w < window'.ur
  <2> HIDE DEF passed
  <2> QED
    BY <1>10, <1>12, <1>14, <1>15
<1>19. /\ (multicast /\ ~init) \/ window.ur <= window'.ur
       /\ (multicast /\ ~init) \/ window.ur <= t
  BY <1>4, <1>5, <1>6, <1>7, <1>8, <1>10, <1>12
<1> HIDE DEF passed, held, kept
<1> QED
  BY <1>3, <1>15, <1>16, <1>17, <1>18, <1>19

\* t-Reordering: what it takes out of the buffer and leaves.
LEMMA ExpirePasses ==
    ASSUME IInv, ReorderingExpires
    PROVE  \E ps \in SUBSET buffer :
              /\ buffer' = buffer \ ps
              /\ \A w \in ps, u \in buffer \ ps : ~(u < w)
              /\ \A w \in ps : w < window'.ur
              /\ window.ur <= window'.ur
              /\ UNCHANGED <<multicast, init, taken>>
              /\ Reassemble(ps) /\ rxErr' = Reassembled(ps).err
<1> DEFINE from == Max({window.ur, Min({window.ux, window.uh})})
           r == FirstMissing(from, window, buffer)
           after == [window EXCEPT !.ur = r]
           ps == {u \in buffer : u < after.ur}
<1>1. /\ reordering
      /\ window' = [after EXCEPT !.ux = IF Gap(after) THEN after.uh ELSE @]
      /\ buffer' = buffer \ ps
      /\ Reassemble(ps) /\ rxErr' = Reassembled(ps).err
      /\ UNCHANGED <<multicast, init, taken>>
  BY Zenon DEF ReorderingExpires
<1>2. /\ window.first \in Nat /\ window.ur \in Nat /\ window.ux \in Nat
      /\ window.uh \in Nat /\ window.size \in Nat
      /\ buffer \in SUBSET Nat
  BY DEF IInv, WindowType, Window
<1>3. window.ux \in (window.ur + 1)..window.uh /\ window.ur <= window.uh
  BY <1>1 DEF IInv, GapIsTimed, WindowInOrder
<1>4. from \in Nat /\ window.ur <= from /\ from <= window.uh
  <2> DEFINE x == Min({window.ux, window.uh})
  <2>1. x \in {window.ux, window.uh}
    <3>1. window.ux \in Int /\ window.uh \in Int
      BY <1>2
    <3> QED
      BY ONLY <3>1, MinTwo, Zenon
  <2> HIDE DEF x
  <2>2. Max({window.ur, x}) \in {window.ur, x} /\ Max({window.ur, x}) >= window.ur
    <3>1. window.ur \in Int /\ x \in Int
      BY <1>2, <2>1
    <3> QED
      BY ONLY <3>1, MaxTwo, Zenon
  <2>3. from = Max({window.ur, x})
    BY DEF x
  <2> HIDE DEF from
  <2> QED
    BY <1>2, <1>3, <2>1, <2>2, <2>3
<1> HIDE DEF from
<1>5. r \in Nat /\ from <= r
  BY <1>2, <1>4, Missing
<1> HIDE DEF r
<1>6. after \in Window /\ after.ur = r
  BY <1>2, <1>5 DEF IInv, WindowType, Window
<1>7. ps \in SUBSET buffer /\ \A u \in buffer : u \in Nat /\ (u \in ps <=> u < r)
  BY <1>2, <1>6
<1> HIDE DEF after, ps
<1>8. window'.ur = r
  BY <1>1, <1>6 DEF Window
<1>9. window.ur <= window'.ur
  BY <1>2, <1>4, <1>5, <1>8
<1>10. /\ \A w \in ps, u \in buffer \ ps : ~(u < w)
       /\ \A w \in ps : w < window'.ur
  BY <1>5, <1>7, <1>8
<1> QED
  BY <1>1, <1>7, <1>9, <1>10

LEMMA TxSame ==
    ASSUME NEW o, TxOK(o), UNCHANGED txVars
    PROVE  TxOK(o)'
<1>1. /\ sduLength' = sduLength /\ sduQueue' = sduQueue /\ fragmentInfo' = fragmentInfo
      /\ firstIsFragment' = firstIsFragment /\ sno' = sno /\ pdus' = pdus
  BY DEF txVars
<1>2. TxTypes' = TxTypes /\ PdusOK(o)' = PdusOK(o) /\ QueueOK(o)' = QueueOK(o)
  BY <1>1 DEF TxTypes, PdusOK, PduOK, Later, QueueOK, ChunksOf, Count, SduAt, SizeAt, Cut,
              Ends, PduNos, Sdus, LengthOf
<1> QED
  BY <1>2 DEF TxOK

LEMMA AcceptKeeps ==
    ASSUME IInv, NEW o, SduInv(o), NEW t \in air, Accept(t), air' = air \ {t},
           UNCHANGED txVars
    PROVE  SduInv(o)' /\ Extends(Start, Start')
<1>1. /\ TxOK(o) /\ Rest /\ buffer \subseteq taken /\ taken \subseteq PduNos
      /\ (multicast /\ ~init => taken = {}) /\ air \subseteq PduNos
      /\ \A u \in Done : u < window.ur
  BY DEF SduInv, Rest
<1>2. sno \in Nat /\ t \in Nat /\ t \in PduNos /\ sno' = sno /\ pdus' = pdus
      /\ \A u \in PduNos : u \in Nat
  BY <1>1 DEF TxOK, TxTypes, PduNos, txVars
<1>3. window \in Window /\ window.ur \in Nat /\ \A u \in buffer : window.ur < u
  BY DEF IInv, WindowType, Window, WindowInOrder
<1>4. PICK ps \in SUBSET (buffer \cup {t}) :
              /\ buffer' = (buffer \cup {t}) \ ps /\ taken' = taken \cup {t}
              /\ \A w \in ps, u \in (buffer \cup {t}) \ ps : ~(u < w)
              /\ \A w \in ps : w < window'.ur
              /\ (multicast /\ ~init) \/ window.ur <= window'.ur
              /\ (multicast /\ ~init) \/ window.ur <= t
              /\ multicast' = multicast /\ (multicast' => init')
              /\ Reassemble(ps) /\ rxErr' = Reassembled(ps).err
  BY <1>1, <1>2, AcceptPasses
<1>5. ASSUME NEW u \in Done, NEW w \in {t} \cup buffer PROVE u < w
  <2>1. ~(multicast /\ ~init)
    BY <1>1 DEF Done
  <2>2. u \in Nat /\ w \in Nat /\ u < window.ur
    BY <1>1, <1>2 DEF Done
  <2>3. window.ur <= w
    <3>1. CASE w = t
      BY <1>4, <2>1, <3>1
    <3>2. CASE w # t
      BY <1>3, <2>2, <3>2
    <3> QED
      BY <3>1, <3>2
  <2> QED
    BY <1>3, <2>2, <2>3
<1>6. /\ rxErr' = "none" /\ Done' = Done \cup ps
      /\ \A D, tk, st : Now(D, tk, st)' => RxOK(o, D, tk, st)'
      /\ Extends(Start, Start')
  <2>1. PICK new \in SUBSET PduNos : new = {t}
    BY <1>2
  <2>2. \A u \in Done, w \in new \cup buffer : u < w
    BY <1>5, <2>1
  <2> QED
    BY <1>2, <1>4, <2>1, <2>2, PassKeeps
<1>7. TxOK(o)'
  BY <1>1, TxSame
<1>8. window'.ur \in Nat
  <2>1. air' \in SUBSET Nat
    BY <1>1, <1>2
  <2>2. IInv'
    BY <1>2, <2>1, AcceptKeepsWindow
  <2> QED
    BY <2>2 DEF IInv, WindowType, Window
<1>9. Rest'
  <2>1. PduNos' = PduNos
    BY <1>2 DEF PduNos
  <2>2. \A u \in Done' : u < window'.ur
    <3>1. ASSUME NEW u \in Done PROVE u < window'.ur
      <4>1. ~(multicast /\ ~init) /\ u < window.ur /\ u \in Nat
        BY <1>1, <1>2 DEF Done
      <4> QED
        BY <1>3, <1>4, <1>8, <4>1
    <3> QED
      BY <1>4, <1>6, <3>1
  <2>3. buffer' \subseteq taken' /\ taken' \subseteq PduNos /\ air' \subseteq PduNos
    BY <1>1, <1>2, <1>4
  <2>4. multicast' /\ ~init' => taken' = {}
    BY <1>4
  <2> QED
    BY <2>1, <2>2, <2>3, <2>4 DEF Rest
<1> QED
  BY <1>6, <1>7, <1>9 DEF SduInv

LEMMA ExpireKeeps ==
    ASSUME IInv, NEW o, SduInv(o), ReorderingExpires, UNCHANGED <<txVars, air>>
    PROVE  SduInv(o)' /\ Extends(Start, Start')
<1>1. /\ TxOK(o) /\ Rest /\ buffer \subseteq taken /\ taken \subseteq PduNos
      /\ (multicast /\ ~init => taken = {}) /\ air \subseteq PduNos
      /\ \A u \in Done : u < window.ur
  BY DEF SduInv, Rest
<1>2. sno \in Nat /\ sno' = sno /\ pdus' = pdus /\ \A u \in PduNos : u \in Nat
  BY <1>1 DEF TxOK, TxTypes, PduNos, txVars
<1>3. window \in Window /\ window.ur \in Nat /\ \A u \in buffer : window.ur < u
  BY DEF IInv, WindowType, Window, WindowInOrder
<1>4. PICK ps \in SUBSET buffer :
              /\ buffer' = buffer \ ps
              /\ \A w \in ps, u \in buffer \ ps : ~(u < w)
              /\ \A w \in ps : w < window'.ur
              /\ window.ur <= window'.ur
              /\ UNCHANGED <<multicast, init, taken>>
              /\ Reassemble(ps) /\ rxErr' = Reassembled(ps).err
  BY ExpirePasses
<1>5. ASSUME NEW u \in Done, NEW w \in buffer PROVE u < w
  BY <1>1, <1>2, <1>3 DEF Done
<1>6. /\ rxErr' = "none" /\ Done' = Done \cup ps
      /\ \A D, tk, st : Now(D, tk, st)' => RxOK(o, D, tk, st)'
      /\ Extends(Start, Start')
  <2>1. PICK new \in SUBSET PduNos : new = {}
    OBVIOUS
  <2>2. \A u \in Done, w \in new \cup buffer : u < w
    BY <1>5, <2>1
  <2>3. buffer \cup new = buffer /\ taken \cup new = taken
    BY <2>1
  <2> QED
    BY <1>2, <1>4, <2>2, <2>3, PassKeeps
<1>7. TxOK(o)'
  BY <1>1, TxSame
<1>8. window'.ur \in Nat
  <2>1. IInv'
    BY <1>2, ExpireKeepsWindow
  <2> QED
    BY <2>1 DEF IInv, WindowType, Window
<1>9. Rest'
  <2>1. PduNos' = PduNos
    BY <1>2 DEF PduNos
  <2>2. \A u \in Done' : u < window'.ur
    <3>1. ASSUME NEW u \in Done PROVE u < window'.ur
      <4>1. u < window.ur /\ u \in Nat
        BY <1>1, <1>2 DEF Done
      <4> QED
        BY <1>3, <1>4, <1>8, <4>1
    <3> QED
      BY <1>4, <1>6, <3>1
  <2> QED
    BY <1>1, <1>4, <2>1, <2>2 DEF Rest
<1> QED
  BY <1>6, <1>7, <1>9 DEF SduInv

SduIInv == \E o : SduInv(o)

LEMMA SduInitHolds == Init => SduIInv
<1> SUFFICES ASSUME Init PROVE SduIInv
  OBVIOUS
<1>1. /\ sduLength = <<>> /\ sduQueue = <<>> /\ fragmentInfo = 0
      /\ firstIsFragment = FALSE /\ sno = 0 /\ pdus = <<>>
      /\ buffer = {} /\ taken = {} /\ air = {} /\ rxErr = "none"
      /\ buffered = NoSdu /\ lastSno = 0 /\ losses = 0 /\ delivered = <<>>
  BY DEF Init, TxInit, RxInit
<1>2. PICK o : o = [t \in 0..0 |-> 0]
  OBVIOUS
<1>3. o[0] = 0 /\ o \in [0..0 -> Nat]
  BY <1>2
<1>4. PduNos = {} /\ Len(sduQueue) = 0 /\ 1..Len(sduQueue) = {}
  BY <1>1 DEF PduNos
<1>5. TxTypes
  <2>1. \A S : <<>> \in Seq(S)
    OBVIOUS
  <2>2. sduLength \in Seq(Nat \ {0}) /\ sduQueue \in Seq(Nat) /\ pdus \in Seq(Pdu)
    BY <1>1, <2>1
  <2> QED
    BY <1>1, <2>2 DEF TxTypes
<1>6. PdusOK(o)
  BY <1>1, <1>3, <1>4 DEF PdusOK
<1>7. QueueOK(o)
  BY <1>1, <1>3, <1>4 DEF QueueOK
<1>8. Rest
  BY <1>1, <1>4 DEF Rest, Done
<1>9. ASSUME NEW D, NEW tk, NEW st, Now(D, tk, st) PROVE RxOK(o, D, tk, st)
  <2>1. D = {} /\ tk = {} /\ st = [buffered |-> NoSdu, lastSno |-> 0, losses |-> 0,
                                   delivered |-> <<>>, err |-> "none"]
    BY <1>1, <1>9 DEF Now, Done, Start
  <2>2. /\ st.buffered = NoSdu /\ st.lastSno = 0 /\ st.losses = 0
        /\ st.delivered = <<>> /\ st.err = "none" /\ Len(st.delivered) = 0
    BY <2>1
  <2>3. st \in RxStates
    <3>1. NoSdu \in [sdu : Nat, size : Nat, pdu : Nat] /\ <<>> \in Seq(Nat)
      BY DEF NoSdu
    <3> QED
      BY <2>1, <3>1 DEF RxStates
  <2>4. Counted(st)
    <3>1. 1..0 = {}
      OBVIOUS
    <3>2. Missed(st) = {}
      BY <2>2, <3>1 DEF Missed
    <3> QED
      BY <2>2, <3>2, FS_EmptySet DEF Counted
  <2>5. Rising(st) /\ \A s : ~Up(st, s)
    BY <2>2 DEF Rising, Up
  <2>6. Fin(D) = {}
    BY <2>1 DEF Fin
  <2> QED
    BY <2>1, <2>2, <2>3, <2>4, <2>5, <2>6 DEF RxOK, Good, Waits
<1> QED
  BY <1>1, <1>5, <1>6, <1>7, <1>8, <1>9 DEF SduIInv, SduInv, TxOK

\* What the steps do: all keep the invariant, and PDCP at the receiving end only
\* ever gets more.
LEMMA SduStep ==
    ASSUME IInv, NEW o, SduInv(o), [Next]_vars
    PROVE  /\ SduIInv'
           /\ \/ Len(sduLength') = Len(sduLength) + 1 /\ delivered' = delivered
              \/ sduLength' = sduLength /\ Extends(Start, Start')
<1>0. TxOK(o) /\ air \subseteq PduNos /\ Start \in RxStates
  BY NowIs DEF SduInv, Rest, RxOK, Good
<1>1. ASSUME NEW len \in SduLengths, FromPdcp(len)
      PROVE  SduInv(o)' /\ Len(sduLength') = Len(sduLength) + 1 /\ delivered' = delivered
  <2>1. Enque(len) /\ UNCHANGED <<rxVars, air>> /\ len \in Nat \ {0}
    BY <1>1, UmTxAssumption DEF FromPdcp
  <2>2. TxOK(o)' /\ Len(sduLength') = Len(sduLength) + 1
    BY <1>0, <2>1, EnqueKeepsTx
  <2>3. pdus' = pdus /\ sno' = sno
    BY <2>1 DEF Enque
  <2>4. SduInv(o)'
    BY <2>1, <2>2, <2>3, ReceiverUntouched
  <2> QED
    BY <2>1, <2>2, <2>4 DEF rxVars, sduVars
<1>2. ASSUME delivered' = delivered PROVE Extends(Start, Start')
  <2>1. Start.delivered = delivered /\ Start'.delivered = delivered
    BY <1>2 DEF Start
  <2>2. Len(delivered) \in Nat
    BY <1>0 DEF RxStates, Start
  <2> QED
    BY <2>1, <2>2 DEF Extends
<1>3. ASSUME NEW room \in Requests, MacRequest(room)
      PROVE  SduIInv' /\ sduLength' = sduLength /\ delivered' = delivered
  <2>1. RlcPduMake(room) /\ air' = air \cup {sno} /\ UNCHANGED rxVars /\ room \in Nat
    BY <1>3, UmTxAssumption DEF MacRequest
  <2>2. PICK n, cut, rest, cs : Made(n, cut, rest, cs)
    BY <1>0, <2>1, RequestMakes
  <2>3. \E q : SduInv(q)'
    BY <2>1, <2>2, RequestKeeps
  <2>4. sduLength' = sduLength
    BY <2>2 DEF Made
  <2> QED
    BY <2>1, <2>3, <2>4 DEF SduIInv, rxVars, sduVars
<1>4. ASSUME NEW t \in air, UNCHANGED <<txVars, rxVars>>, air' \subseteq air
      PROVE  SduInv(o)' /\ sduLength' = sduLength /\ delivered' = delivered
  <2>1. TxOK(o)'
    BY <1>0, <1>4, TxSame
  <2>2. pdus' = pdus /\ sno' = sno /\ sduLength' = sduLength /\ delivered' = delivered
    BY <1>4 DEF txVars, rxVars, sduVars
  <2> QED
    BY <1>4, <2>1, <2>2, ReceiverUntouched
<1>5. ASSUME NEW t \in air, Arrive(t)
      PROVE  SduInv(o)' /\ sduLength' = sduLength /\ Extends(Start, Start')
  <2>1. air' = air \ {t} /\ UNCHANGED txVars /\ sduLength' = sduLength
    BY <1>5 DEF Arrive, txVars
  <2>2. CASE Discard(t)
    <3>1. UNCHANGED rxVars
      BY <2>2 DEF Discard
    <3> QED
      BY <1>2, <1>4, <2>1, <3>1
  <2>3. CASE Accept(t)
    BY <2>1, <2>3, AcceptKeeps
  <2> QED
    BY <1>5, <2>2, <2>3 DEF Arrive
<1>6. ASSUME NEW t \in air, Lose(t)
      PROVE  SduInv(o)' /\ sduLength' = sduLength /\ Extends(Start, Start')
  BY <1>2, <1>4, <1>6 DEF Lose
<1>7. CASE Expire
  <2>1. ReorderingExpires /\ UNCHANGED <<txVars, air>> /\ sduLength' = sduLength
    BY <1>7 DEF Expire, txVars
  <2> QED
    BY <2>1, ExpireKeeps DEF SduIInv
<1>8. CASE UNCHANGED vars
  <2>1. UNCHANGED <<txVars, rxVars>> /\ air' \subseteq air /\ pdus' = pdus /\ sno' = sno
        /\ sduLength' = sduLength /\ delivered' = delivered
    BY <1>8 DEF vars, txVars, rxVars, sduVars
  <2>2. TxOK(o)'
    BY <1>0, <2>1, TxSame
  <2>3. SduInv(o)'
    BY <2>1, <2>2, ReceiverUntouched
  <2> QED
    BY <1>2, <2>1, <2>3 DEF SduIInv
<1> QED
  BY <1>1, <1>2, <1>3, <1>5, <1>6, <1>7, <1>8 DEF Next, SduIInv

THEOREM SduInductive == Spec => []SduIInv
<1>1. Init => SduIInv
  BY SduInitHolds
<1>2. IInv /\ SduIInv /\ [Next]_vars => SduIInv'
  BY SduStep DEF SduIInv
<1> QED
  BY <1>1, <1>2, Inductive, PTL DEF Spec

-----------------------------------------------------------------------------
(* What it means for the SDUs. *)

\* The last PDU with a part of an SDU has its end, unless it was cut there and
\* is still at the head of the queue.
LEMMA CarriedToEnd ==
    ASSUME NEW o, TxOK(o), NEW s, Carriers(s) # {}
    PROVE  \E t \in Carriers(s) : \E i \in 1..Count(t) :
              /\ SduAt(t, i) = s
              /\ \/ Ends(t, i)
                 \/ t = sno - 1 /\ i = Count(t) /\ o[sno] > 0
<1>1. sno \in Nat /\ \A t \in Carriers(s) : t \in Nat /\ t < sno /\ t \in PduNos
  BY CarriersAre, ChunkTypes DEF TxOK, TxTypes
<1>2. PICK t \in Carriers(s) : \A u \in Carriers(s) : u <= t
  <2> DEFINE T == {sno - u : u \in Carriers(s)}
  <2>1. T # {} /\ T \in SUBSET Nat
    BY <1>1
  <2>2. PICK m \in T : \A n \in T : m <= n
    <3> HIDE DEF T
    <3> QED
      BY <2>1, LeastOf
  <2>3. PICK t \in Carriers(s) : m = sno - t
    BY <2>2
  <2>4. \A u \in Carriers(s) : m <= sno - u
    BY <2>2
  <2>5. \A u \in Carriers(s) : u <= t
    <3> HIDE DEF T
    <3> QED
      BY <1>1, <2>3, <2>4
  <2> QED
    BY <2>5
<1>3. PICK i \in 1..Count(t) : SduAt(t, i) = s
  BY CarriersAre
<1>4. SUFFICES ASSUME ~Ends(t, i) PROVE t = sno - 1 /\ i = Count(t) /\ o[sno] > 0
  BY <1>3
<1>5. i = Count(t) /\ Cut(t) /\ o[t + 1] > 0 /\ PduOK(o, t) /\ t \in Nat /\ t < sno
  BY <1>1, <1>4, ChunkTypes DEF Ends, TxOK, PdusOK
<1>6. ASSUME t + 1 \in PduNos PROVE FALSE
  <2>1. SduAt(t + 1, 1) = s
    BY <1>3, <1>5, <1>6 DEF PduOK
  <2>2. PICK u \in PduNos : u = t + 1
    BY <1>6
  <2>3. 1 \in 1..Count(u)
    BY ChunkTypes
  <2>4. u \in Carriers(s)
    BY <2>1, <2>2, <2>3, CarriersAre
  <2> QED
    BY <1>2, <1>5, <2>2, <2>4
<1>7. t + 1 = sno
  BY <1>1, <1>5, <1>6 DEF PduNos
<1> QED
  BY <1>1, <1>5, <1>7

LEMMA WholeOnly ==
    ASSUME IInv, NEW o, SduInv(o)
    PROVE  WholeSdusOnly
<1> SUFFICES ASSUME NEW s \in Sdus,
                    NEW up, up = \E i \in 1..Len(delivered) : delivered[i] = s
             PROVE  /\ up => Carriers(s) # {} /\ Carriers(s) \subseteq taken
                    /\ Passed(s) /\ Carriers(s) \subseteq taken => up
  BY DEF WholeSdusOnly
<1>1. TxOK(o) /\ taken \subseteq PduNos
  BY DEF SduInv, Rest
<1>2. up <=> s \in Fin(Done) /\ Carriers(s) \subseteq taken
  <2>1. Up(Start, s) <=> s \in Fin(Done) /\ Carriers(s) \subseteq taken
    BY NowIs DEF RxOK, Good
  <2>2. Start.delivered = delivered
    BY DEF Start
  <2> QED
    BY <2>1, <2>2 DEF Up
<1>3. ASSUME s \in Fin(Done) PROVE Carriers(s) # {}
  <2>1. PICK t \in Done : \E i \in 1..Count(t) : SduAt(t, i) = s
    BY <1>3 DEF Fin
  <2> QED
    BY <1>1, <2>1, CarriersAre DEF Done
<1>4. ASSUME Passed(s), Carriers(s) \subseteq taken PROVE s \in Fin(Done)
  <2>1. Carriers(s) # {} /\ (\A i \in 1..Len(sduQueue) : sduQueue[i] # s)
        /\ (\A t \in Carriers(s) : t < window.ur)
    BY <1>4 DEF Passed
  <2>2. PICK t \in Carriers(s) : \E i \in 1..Count(t) :
              /\ SduAt(t, i) = s
              /\ \/ Ends(t, i)
                 \/ t = sno - 1 /\ i = Count(t) /\ o[sno] > 0
    BY <1>1, <2>1, CarriedToEnd
  <2>3. PICK i \in 1..Count(t) :
              /\ SduAt(t, i) = s
              /\ \/ Ends(t, i)
                 \/ t = sno - 1 /\ i = Count(t) /\ o[sno] > 0
    BY <2>2
  <2>4. Ends(t, i)
    <3> SUFFICES ASSUME t = sno - 1, i = Count(t), o[sno] > 0 PROVE FALSE
      BY <2>3
    <3>1. sduQueue # <<>> /\ sduQueue[1] = s
      BY <1>1, <2>3 DEF TxOK, QueueOK
    <3>2. 1 \in 1..Len(sduQueue)
      BY <1>1, <3>1 DEF TxOK, TxTypes
    <3> QED
      BY <2>1, <3>1, <3>2
  <2>5. t \in Done
    <3>1. window.ur \in Nat /\ \A u \in buffer : u \in Nat /\ window.ur < u
      BY DEF IInv, WindowType, Window, WindowInOrder
    <3>2. t \in taken /\ t < window.ur /\ t \in Nat
      BY <1>1, <1>4, <2>1, ChunkTypes
    <3> QED
      BY <3>1, <3>2 DEF Done
  <2>6. s \in Nat
    BY <1>1 DEF TxOK, TxTypes, Sdus
  <2> QED
    BY <2>3, <2>4, <2>5, <2>6 DEF Fin
<1> QED
  BY <1>2, <1>3, <1>4

\* What the PDUs before PDU n hold of SDU s.
Ended(s, n) == \E t \in PduNos : t < n /\ \E i \in 1..Count(t) : SduAt(t, i) = s /\ Ends(t, i)
CutAt(s, n) == \E t \in PduNos : t + 1 = n /\ Cut(t) /\ SduAt(t, Count(t)) = s
SentBy(o, s, n) == IF Ended(s, n) THEN LengthOf(s) ELSE IF CutAt(s, n) THEN o[n] ELSE 0
PartIn(s, t) ==
    LET c == pdus[t + 1].chunks
    IN  IF t \in Carriers(s) THEN c[CHOOSE i \in DOMAIN c : c[i].sdu = s].size ELSE 0

LEMMA PartInIs ==
    ASSUME NEW o, TxOK(o), NEW t \in PduNos, NEW i \in 1..Count(t)
    PROVE  PartIn(SduAt(t, i), t) = SizeAt(t, i)
<1> DEFINE s == SduAt(t, i)
           c == pdus[t + 1].chunks
<1>1. DOMAIN c = 1..Count(t)
  <2>1. t + 1 \in 1..Len(pdus) /\ pdus \in Seq(Pdu)
    BY ChunkTypes DEF TxOK, TxTypes
  <2>2. pdus[t + 1] \in Pdu
    <3> DEFINE P == Pdu
    <3>1. pdus \in Seq(P)
      BY <2>1
    <3> HIDE DEF P
    <3>2. pdus[t + 1] \in P
      BY <2>1, <3>1
    <3> QED
      BY <3>2 DEF P
  <2>3. pdus[t + 1].chunks \in Seq(Chunk)
    BY <2>2 DEF Pdu
  <2> QED
    BY <2>3 DEF Count, ChunksOf
<1>2. \A j \in 1..Count(t) : c[j].sdu = SduAt(t, j) /\ c[j].size = SizeAt(t, j)
  BY DEF SduAt, SizeAt, ChunksOf
<1>3. ASSUME NEW j \in 1..Count(t), SduAt(t, j) = s PROVE j = i
  <2>0. PduOK(o, t)
    BY DEF TxOK, PdusOK
  <2>1. Count(t) \in Nat /\ i \in Nat /\ j \in Nat /\ s \in Nat
    BY ChunkTypes
  <2>2. i < j \/ j < i \/ i = j
    BY <2>1
  <2> QED
    BY <1>3, <2>0, <2>1, <2>2 DEF PduOK
<1>4. (CHOOSE j \in DOMAIN c : c[j].sdu = s) = i
  <2>1. i \in DOMAIN c /\ c[i].sdu = s
    BY <1>1, <1>2
  <2>2. \A j \in DOMAIN c : c[j].sdu = s => j = i
    BY <1>1, <1>2, <1>3
  <2> HIDE DEF s, c
  <2> QED
    BY <2>1, <2>2
<1>5. t \in Carriers(s)
  BY CarriersAre
<1> QED
  BY <1>2, <1>4, <1>5 DEF PartIn

\* Each PDU adds its part.
LEMMA SentGrows ==
    ASSUME NEW o, TxOK(o), NEW s \in Sdus, NEW t \in PduNos
    PROVE  SentBy(o, s, t + 1) = SentBy(o, s, t) + PartIn(s, t)
<1>1. /\ t \in Nat /\ o[t] \in Nat /\ o[t + 1] \in Nat /\ LengthOf(s) \in Nat
      /\ Count(t) \in 1..Count(t) /\ 1 \in 1..Count(t) /\ Count(t) \in Nat /\ PduOK(o, t)
  <2>1. t \in Nat /\ o[t] \in Nat /\ o[t + 1] \in Nat /\ Count(t) \in Nat /\ Count(t) # 0
    BY ChunkTypes
  <2>2. LengthOf(s) \in Nat
    BY LeftIs
  <2>3. PduOK(o, t)
    BY DEF TxOK, PdusOK
  <2> QED
    BY <2>1, <2>2, <2>3
<1>2. \A u \in PduNos : u \in Nat /\ (u < t + 1 <=> u < t \/ u = t)
  BY <1>1, ChunkTypes
<1>3. ASSUME NEW u \in PduNos, u + 1 = t, Cut(u), SduAt(u, Count(u)) = s PROVE SduAt(t, 1) = s
  <2>1. PduOK(o, u) /\ u + 1 \in PduNos
    BY <1>3 DEF TxOK, PdusOK
  <2> QED
    BY <1>3, <2>1 DEF PduOK
<1>4. CASE t \notin Carriers(s)
  <2>1. \A i \in 1..Count(t) : SduAt(t, i) # s
    BY <1>4, CarriersAre
  <2>2. Ended(s, t + 1) <=> Ended(s, t)
    BY <1>2, <2>1 DEF Ended
  <2>3. ~CutAt(s, t)
    BY <1>1, <1>3, <2>1 DEF CutAt
  <2>4. ~CutAt(s, t + 1)
    <3>1. \A u \in PduNos : u + 1 = t + 1 => u = t
      BY <1>1, <1>2
    <3> QED
      BY <1>1, <2>1, <3>1 DEF CutAt
  <2>5. PartIn(s, t) = 0
    BY <1>4 DEF PartIn
  <2> QED
    BY <1>1, <2>2, <2>3, <2>4, <2>5 DEF SentBy
<1>5. CASE t \in Carriers(s)
  <2>1. PICK i \in 1..Count(t) : SduAt(t, i) = s
    BY <1>5, CarriersAre
  <2>2. PartIn(s, t) = SizeAt(t, i) /\ SizeAt(t, i) \in Nat
    BY <2>1, PartInIs, ChunkTypes
  <2>3. ~Ended(s, t)
    <3> SUFFICES ASSUME NEW u \in PduNos, u < t, NEW j \in 1..Count(u),
                        SduAt(u, j) = s, Ends(u, j)
                 PROVE  FALSE
      BY DEF Ended
    <3>1. t <= u
      BY <1>5, LastCarrier
    <3> QED
      BY <1>1, <1>2, <3>1
  <2>4. ASSUME NEW j \in 1..Count(t), SduAt(t, j) = s PROVE j = i
    <3>1. i \in Nat /\ j \in Nat /\ s \in Nat
      BY <2>1, ChunkTypes
    <3>2. i < j \/ j < i \/ i = j
      BY <3>1
    <3> QED
      BY <1>1, <2>1, <2>4, <3>1, <3>2 DEF PduOK
  <2>5. (IF CutAt(s, t) THEN o[t] ELSE 0) = StartOf(o, t, i)
    <3>1. CASE CutAt(s, t)
      <4>1. SduAt(t, 1) = s
        BY <1>3, <3>1 DEF CutAt
      <4>2. i = 1
        BY <1>1, <2>4, <4>1
      <4> QED
        BY <3>1, <4>2 DEF StartOf
    <3>2. CASE ~CutAt(s, t)
      <4>1. ASSUME i = 1, o[t] > 0 PROVE FALSE
        <5>1. /\ t - 1 \in PduNos /\ t - 1 + 1 = t /\ Cut(t - 1)
              /\ SduAt(t - 1, Count(t - 1)) = SduAt(t, 1)
          BY <4>1, GoesOn
        <5> QED
          BY <2>1, <3>2, <4>1, <5>1 DEF CutAt
      <4> QED
        BY <1>1, <3>2, <4>1 DEF StartOf
    <3> QED
      BY <3>1, <3>2
  <2>6. SentBy(o, s, t) = StartOf(o, t, i)
    BY <2>3, <2>5 DEF SentBy
  <2>7. CASE Ends(t, i)
    <3>1. Ended(s, t + 1)
      BY <1>2, <2>1, <2>7 DEF Ended
    <3>2. StartOf(o, t, i) + SizeAt(t, i) = LengthOf(s)
      BY <1>1, <2>1, <2>7 DEF PduOK
    <3> QED
      BY <2>2, <2>6, <3>1, <3>2 DEF SentBy
  <2>8. CASE ~Ends(t, i)
    <3>1. i = Count(t) /\ Cut(t) /\ o[t + 1] = StartOf(o, t, i) + SizeAt(t, i)
      BY <1>1, <2>1, <2>8 DEF PduOK, Ends
    <3>2. CutAt(s, t + 1)
      BY <2>1, <3>1 DEF CutAt
    <3>3. ~Ended(s, t + 1)
      BY <1>2, <2>3, <2>4, <2>8 DEF Ended
    <3> QED
      BY <2>2, <2>6, <3>1, <3>2, <3>3 DEF SentBy
  <2> QED
    BY <2>7, <2>8
<1> QED
  BY <1>4, <1>5

LEMMA SentIs ==
    ASSUME NEW o, TxOK(o), NEW s \in Sdus,
           NEW f, f = [t \in 0..sno |-> IF t = 0 THEN 0 ELSE f[t - 1] + PartIn(s, t - 1)]
    PROVE  f[sno] = SentBy(o, s, sno)
<1> DEFINE T == {n \in 0..sno : f[n] # SentBy(o, s, n)}
<1>1. sno \in Nat /\ sno \in 0..sno /\ 0 \in 0..sno
  BY DEF TxOK, TxTypes
<1>2. SUFFICES ASSUME T # {} PROVE FALSE
  BY <1>1
<1>3. PICK m \in T : \A n \in T : m <= n
  <2>1. T \in SUBSET Nat
    OBVIOUS
  <2> HIDE DEF T
  <2> QED
    BY <1>2, <2>1, LeastOf
<1>4. m \in 0..sno /\ f[m] # SentBy(o, s, m)
  BY <1>3
<1>5. CASE m = 0
  <2>1. \A t \in PduNos : t \in Nat /\ ~(t < 0) /\ t + 1 # 0
    BY ChunkTypes
  <2>2. SentBy(o, s, 0) = 0
    BY <2>1 DEF SentBy, Ended, CutAt
  <2>3. f[0] = 0
    BY <1>1
  <2> QED
    BY <1>4, <1>5, <2>2, <2>3
<1>6. CASE m # 0
  <2>1. m - 1 \in PduNos /\ m - 1 \in 0..sno /\ m - 1 + 1 = m /\ ~(m <= m - 1)
    BY <1>1, <1>4, <1>6 DEF PduNos
  <2>2. f[m - 1] = SentBy(o, s, m - 1)
    BY <1>3, <2>1
  <2>3. f[m] = f[m - 1] + PartIn(s, m - 1)
    BY <1>4, <1>6
  <2>4. SentBy(o, s, m - 1 + 1) = SentBy(o, s, m - 1) + PartIn(s, m - 1)
    BY <2>1, SentGrows
  <2> QED
    BY <1>4, <2>1, <2>2, <2>3, <2>4
<1> QED
  BY <1>5, <1>6

LEMMA BytesAreKept ==
    ASSUME NEW o, TxOK(o)
    PROVE  BytesKept
<1> DEFINE S(s) == CHOOSE f : f = [t \in 0..sno |-> IF t = 0 THEN 0
                                                   ELSE f[t - 1] + PartIn(s, t - 1)]
           W(s) == IF \E i \in 1..Len(sduQueue) : sduQueue[i] = s
                   THEN IF sduQueue[1] = s THEN Left(1) ELSE LengthOf(s)
                   ELSE 0
<1>1. SUFFICES ASSUME NEW s \in Sdus, Carriers(s) # {}
               PROVE  S(s)[sno] + W(s) = LengthOf(s)
  BY DEF BytesKept, PartIn
<1>2. sno \in Nat /\ LengthOf(s) \in Nat /\ Len(sduQueue) \in Nat /\ o[sno] \in Nat
  BY LeftIs DEF TxOK, TxTypes
<1>3. S(s)[sno] = SentBy(o, s, sno)
  <2>1. PICK g : g = [k \in 0..sno |-> PartIn(s, k)]
    OBVIOUS
  <2>2. PICK f : RunningSum(f, g, sno)
    BY <1>2, RunningSumExists
  <2>3. f = [t \in 0..sno |-> IF t = 0 THEN 0 ELSE f[t - 1] + PartIn(s, t - 1)]
    <3>1. \A t \in 0..sno : t # 0 => t - 1 \in 0..sno /\ g[t - 1] = PartIn(s, t - 1)
      BY <1>2, <2>1
    <3> QED
      BY <2>2, <3>1 DEF RunningSum
  <2>4. S(s) = [t \in 0..sno |-> IF t = 0 THEN 0 ELSE S(s)[t - 1] + PartIn(s, t - 1)]
    BY <2>3
  <2> HIDE DEF S
  <2>5. PICK h : h = S(s)
    OBVIOUS
  <2>6. h = [t \in 0..sno |-> IF t = 0 THEN 0 ELSE h[t - 1] + PartIn(s, t - 1)]
    BY <2>4, <2>5
  <2> QED
    BY <2>5, <2>6, SentIs
<1> HIDE DEF S
<1>4. PICK t \in Carriers(s) : \E i \in 1..Count(t) :
              /\ SduAt(t, i) = s
              /\ \/ Ends(t, i)
                 \/ t = sno - 1 /\ i = Count(t) /\ o[sno] > 0
  BY <1>1, CarriedToEnd
<1>5. PICK i \in 1..Count(t) :
              /\ SduAt(t, i) = s
              /\ \/ Ends(t, i)
                 \/ t = sno - 1 /\ i = Count(t) /\ o[sno] > 0
  BY <1>4
<1>6. t \in PduNos /\ t \in Nat /\ t < sno /\ s \in Nat
  BY <1>5, CarriersAre, ChunkTypes
<1>7. \A j \in 1..Len(sduQueue) : sduQueue[j] \in Nat
  BY DEF TxOK, QueueOK, Sdus, TxTypes
<1>8. CASE Ends(t, i)
  <2>1. Ended(s, sno)
    BY <1>5, <1>6, <1>8 DEF Ended
  <2>2. \A j \in 1..Len(sduQueue) : sduQueue[j] # s
    BY <1>5, <1>6, <1>7, <1>8, QueueIsLater
  <2> QED
    BY <1>2, <1>3, <2>1, <2>2 DEF SentBy
<1>9. CASE ~Ends(t, i)
  <2>1. t + 1 = sno /\ o[sno] > 0 /\ i = Count(t) /\ t = sno - 1
    BY <1>2, <1>5, <1>6, <1>9
  <2>2. sduQueue # <<>> /\ sduQueue[1] = s
    BY <1>5, <2>1 DEF TxOK, QueueOK
  <2>3. 1 \in 1..Len(sduQueue) /\ 1 # Len(sduQueue) + 1
    BY <2>2 DEF TxOK, TxTypes
  <2>4. Left(1) = LengthOf(s) - o[sno]
    BY <2>2, <2>3, LeftIs DEF StartOf
  <2>5. ~Ended(s, sno)
    <3> SUFFICES ASSUME NEW u \in PduNos, NEW j \in 1..Count(u), SduAt(u, j) = s, Ends(u, j)
                 PROVE  FALSE
      BY DEF Ended
    <3>1. SduAt(u, j) < sduQueue[1]
      BY <2>3, QueueIsLater
    <3> QED
      BY <1>6, <2>2, <3>1
  <2>6. CutAt(s, sno)
    <3>1. Cut(t)
      BY <1>6, <2>1 DEF TxOK, PdusOK, PduOK
    <3> QED
      BY <1>5, <1>6, <2>1, <3>1 DEF CutAt
  <2>7. W(s) = Left(1)
    BY <2>2, <2>3
  <2> QED
    BY <1>2, <1>3, <2>4, <2>5, <2>6, <2>7 DEF SentBy
<1> QED
  BY <1>8, <1>9

\* No byte and no SDU goes astray unnoticed between PDCP of one end and PDCP of
\* the other: no length is wrong, no SDU is put together from less than all its
\* PDUs, none is forgotten, every byte is sent once and what PDCP did not get is
\* counted, whatever was cut, lost, overtaken or given up.
THEOREM EverySduAccounted == Spec => []SdusAccounted
<1>1. ASSUME IInv, SduIInv PROVE SdusAccounted
  <2>1. PICK o : SduInv(o)
    BY <1>1 DEF SduIInv
  <2>2. NeverThrows
    BY <2>1 DEF SduInv, NeverThrows
  <2>3. WholeSdusOnly
    BY <1>1, <2>1, WholeOnly
  <2>4. BytesKept
    <3>1. TxOK(o)
      BY <2>1 DEF SduInv
    <3> QED
      BY <3>1, BytesAreKept
  <2>5. LossesCounted
    <3>1. Counted(Start)
      BY <2>1, NowIs DEF RxOK, Good
    <3>2. Start.losses = losses /\ Start.lastSno = lastSno /\ Start.delivered = delivered
      BY DEF Start
    <3> QED
      BY <3>1, <3>2 DEF Counted, Missed, LossesCounted
  <2> QED
    BY <2>2, <2>3, <2>4, <2>5 DEF SdusAccounted
<1> QED
  BY <1>1, Inductive, SduInductive, PTL

\* What PDCP got, it was handed over, and it rises.
InOrder ==
    /\ delivered \in Seq(Nat) /\ sduLength \in Seq(Nat \ {0})
    /\ \A i \in 1..Len(delivered) : delivered[i] \in 0..(Len(sduLength) - 1)
    /\ \A i, j \in 1..Len(delivered) : i < j => delivered[i] < delivered[j]

LEMMA OrderHolds == SduIInv => InOrder
<1> SUFFICES ASSUME NEW o, SduInv(o) PROVE InOrder
  BY DEF SduIInv
<1>1. TxOK(o) /\ taken \subseteq PduNos /\ sduLength \in Seq(Nat \ {0})
  BY DEF SduInv, Rest, TxOK, TxTypes
<1>2. Start \in RxStates /\ Rising(Start) /\ \A s : Up(Start, s) => s \in Fin(Done)
  BY NowIs DEF RxOK, Good
<1>3. Start.delivered = delivered
  BY DEF Start
<1>4. ASSUME NEW i \in 1..Len(delivered) PROVE delivered[i] \in 0..(Len(sduLength) - 1)
  <2>1. delivered[i] \in Fin(Done)
    BY <1>2, <1>3 DEF Up
  <2>2. PICK t \in Done : \E j \in 1..Count(t) : SduAt(t, j) = delivered[i]
    BY <2>1 DEF Fin
  <2>3. t \in PduNos
    BY <1>1 DEF Done
  <2>4. delivered[i] \in Sdus
    BY <1>1, <2>2, <2>3, ChunkTypes
  <2> QED
    BY <2>4 DEF Sdus
<1> QED
  BY <1>1, <1>2, <1>3, <1>4 DEF InOrder, RxStates, Rising

\* RLC UM implements its abstract specification: SDUs may get lost, but those
\* that reach PDCP do so once and in the order they were handed over, although
\* the HARQ processes finish their PDUs in any order.
THEOREM KeepsPromise == Spec => KeepsOrder
<1>1. Init => Service!Init
  BY DEF Init, TxInit, RxInit, Service!Init
<1>2. ASSUME IInv, SduIInv, InOrder, InOrder', [Next]_vars
      PROVE  [Service!Send \/ Service!Deliver]_<<Len(sduLength), delivered>>
  <2>1. PICK o : SduInv(o)
    BY <1>2 DEF SduIInv
  <2>2. \/ Len(sduLength') = Len(sduLength) + 1 /\ delivered' = delivered
        \/ sduLength' = sduLength /\ Extends(Start, Start')
    BY <1>2, <2>1, SduStep
  <2>3. CASE Len(sduLength') = Len(sduLength) + 1 /\ delivered' = delivered
    BY <2>3 DEF Service!Send
  <2>4. CASE sduLength' = sduLength /\ Extends(Start, Start')
    <3>1. Start.delivered = delivered /\ Start'.delivered = delivered'
      BY DEF Start
    <3>2. Len(delivered) \in Nat /\ Len(delivered') \in Nat
      BY <1>2 DEF InOrder
    <3>3. /\ Len(delivered') >= Len(delivered)
          /\ \A i \in 1..Len(delivered) : delivered'[i] = delivered[i]
      BY <2>4, <3>1, <3>2 DEF Extends
    <3>4. ASSUME NEW i \in (Len(delivered) + 1)..Len(delivered')
          PROVE  /\ delivered'[i] \in 0..(Len(sduLength) - 1)
                 /\ i > 1 => delivered'[i] > delivered'[i - 1]
      <4>1. i \in 1..Len(delivered') /\ (i > 1 => i - 1 \in 1..Len(delivered') /\ i - 1 < i)
        BY <3>2
      <4>2. delivered'[i] \in 0..(Len(sduLength') - 1)
        BY <1>2, <4>1 DEF InOrder
      <4>3. i > 1 => delivered'[i - 1] < delivered'[i]
        BY <1>2, <4>1 DEF InOrder
      <4>4. delivered'[i] \in Int /\ (i > 1 => delivered'[i - 1] \in Int)
        BY <1>2, <4>1 DEF InOrder
      <4> QED
        BY <2>4, <4>2, <4>3, <4>4
    <3> QED
      BY <2>4, <3>3, <3>4 DEF Service!Deliver
  <2> QED
    BY <2>2, <2>3, <2>4
<1>3. Spec => []InOrder
  BY SduInductive, OrderHolds, PTL
<1> QED
  BY <1>1, <1>2, <1>3, Inductive, SduInductive, PTL DEF Spec, KeepsOrder, Service!Spec

\* The lengths of the SDUs are among those PDCP hands over.
LengthsKnown == sduLength \in Seq(SduLengths)

\* Both entities keep their types: an SDU that waits is one PDCP handed over,
\* the window keeps its four fields, and no error is raised.
THEOREM TypesAreKept == Spec => []TypeOK
<1>1. Init => LengthsKnown
  <2>1. \A S : <<>> \in Seq(S)
    OBVIOUS
  <2> QED
    BY <2>1 DEF Init, TxInit, LengthsKnown
<1>2. ASSUME LengthsKnown, [Next]_vars PROVE LengthsKnown'
  <2>1. CASE \E len \in SduLengths : FromPdcp(len)
    <3>1. PICK len \in SduLengths : sduLength' = Append(sduLength, len)
      BY <2>1 DEF FromPdcp, Enque
    <3> QED
      BY <1>2, <3>1 DEF LengthsKnown
  <2>2. CASE UNCHANGED sduLength
    BY <1>2, <2>2 DEF LengthsKnown
  <2>3. (\E len \in SduLengths : FromPdcp(len)) \/ UNCHANGED sduLength
    BY <1>2 DEF Next, MacRequest, RlcPduMake, Arrive, Lose, Expire, vars, txVars
  <2> QED
    BY <2>1, <2>2, <2>3
<1>3. ASSUME IInv, SduIInv, LengthsKnown PROVE TypeOK
  <2>1. PICK o : SduInv(o)
    BY <1>3 DEF SduIInv
  <2>2. TxTypes /\ taken \subseteq PduNos /\ rxErr = "none"
        /\ \A k \in 1..Len(sduQueue) : sduQueue[k] \in Sdus
    BY <2>1 DEF SduInv, TxOK, QueueOK, Rest
  <2>3. sduQueue \in Seq(Sdus)
    <3> DEFINE S == Sdus
    <3>1. PICK n \in Nat : Len(sduQueue) = n /\ sduQueue \in [1..n -> Nat]
      BY <2>2 DEF TxTypes
    <3>2. \A k \in 1..n : sduQueue[k] \in S
      BY <2>2, <3>1
    <3> HIDE DEF S
    <3>3. sduQueue \in [1..n -> S]
      BY <3>1, <3>2
    <3>4. sduQueue \in Seq(S)
      BY <3>3
    <3> QED
      BY <3>4 DEF S
  <2>4. Start \in RxStates
    BY <2>1, NowIs DEF RxOK, Good
  <2>5. /\ buffered \in [sdu : Nat, size : Nat, pdu : Nat]
        /\ lastSno \in Nat /\ losses \in Nat /\ delivered \in Seq(Nat)
    BY <2>4 DEF Start, RxStates
  <2>6. TxTypeOK
    BY <1>3, <2>2, <2>3 DEF LengthsKnown, TxTypes, TxTypeOK
  <2>7. taken \subseteq Nat
    BY <2>2 DEF TxTypes, PduNos
  <2>8. RxTypeOK
    BY <1>3, <2>2, <2>5, <2>7 DEF IInv, WindowType, RxTypeOK
  <2> QED
    BY <1>3, <2>6, <2>8 DEF TypeOK, IInv, WindowType
<1> QED
  BY <1>1, <1>2, <1>3, Inductive, SduInductive, PTL DEF Spec
=============================================================================
