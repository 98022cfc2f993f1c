-------------------------- MODULE MultiTimerProofs --------------------------
(***************************************************************************)
(* Theorems about MultiTimer for any set of events and delays: its lists   *)
(* and the pending message stay in step, and it implements EventTimers.    *)
(***************************************************************************)
EXTENDS MultiTimer, WellFoundedInduction, TLAPS

\* Every entry is found through reverseList_ under its own event, and no two
\* entries were inserted at once.
Linked ==
    /\ \A e \in Events : reverseList[e] # None =>
           reverseList[e] \in directList /\ reverseList[e].event = e
    /\ \A x \in directList : reverseList[x.event] = x
    /\ \A x \in directList : x.nth < inserted
    /\ \A x, y \in directList : x.nth = y.nth => x = y

IInv == TypeOK /\ (NoMisuse => Linked) /\ MessageIsFirst /\ NothingOverdue
               /\ HandleFindsEvent

------------------------------------------------------------------------------
(* begin().                                                                *)

LEMMA LeastNat ==
    ASSUME NEW T \in SUBSET Nat, T # {}
    PROVE  \E m \in T : \A n \in T : m <= n
<1>1. PICK m \in T : \A n \in T : ~ (<<n, m>> \in OpToRel(<, Nat))
  BY WFMin, NatLessThanWellFounded
<1>2. \A n \in T : ~ (n < m)
  BY <1>1 DEF OpToRel
<1>3. QED
  BY <1>2

\* A multimap that is not empty has a first entry.
LEMMA HasFirst ==
    ASSUME NEW list \in SUBSET Entries, list # {}
    PROVE  \E x \in list : \A y \in list : Before(x, y)
<1> DEFINE times == {x.time : x \in list}
<1>1. times \in SUBSET Nat /\ times # {}
  BY DEF Entries
<1>2. PICK t \in times : \A u \in times : t <= u
  <2> HIDE DEF times
  <2> QED BY <1>1, LeastNat
<1> DEFINE ties == {x \in list : x.time = t}
           nths == {x.nth : x \in ties}
<1>3. nths \in SUBSET Nat /\ nths # {}
  BY DEF Entries
<1>4. PICK n \in nths : \A u \in nths : n <= u
  <2> HIDE DEF nths
  <2> QED BY <1>3, LeastNat
<1>5. PICK x \in ties : x.nth = n
  BY <1>4
<1>6. ASSUME NEW y \in list PROVE Before(x, y)
  <2>1. t <= y.time /\ x.time = t /\ t \in Nat /\ y.time \in Nat
    BY <1>1, <1>2 DEF Entries
  <2>2. CASE y.time = t
    <3>1. y.nth \in nths
      BY <2>2
    <3>2. x.nth <= y.nth
      BY <1>4, <1>5, <3>1
    <3>3. QED BY <2>1, <2>2, <3>2 DEF Before
  <2>3. CASE y.time # t
    BY <2>1, <2>3 DEF Before
  <2>4. QED BY <2>2, <2>3
<1>7. QED
  BY <1>6

LEMMA BeginIsFirst ==
    ASSUME NEW list \in SUBSET Entries, list # {}
    PROVE  Begin(list) \in list /\ \A y \in list : Before(Begin(list), y)
BY HasFirst DEF Begin

\* No two entries of a list are first.
LEMMA FirstIsBegin ==
    ASSUME NEW list \in SUBSET Entries,
           \A x, y \in list : x.nth = y.nth => x = y,
           NEW x \in list, \A y \in list : Before(x, y)
    PROVE  Begin(list) = x
<1>1. Before(Begin(list), x) /\ Before(x, Begin(list)) /\ Begin(list) \in list
  BY BeginIsFirst
<1>2. Begin(list).nth = x.nth
  BY <1>1 DEF Before, Entries
<1>3. QED
  BY <1>1, <1>2

------------------------------------------------------------------------------
(* The invariant.                                                          *)

LEMMA InitIInv == Init => IInv
<1> SUFFICES ASSUME Init PROVE IInv
  OBVIOUS
<1>1. TypeOK
  BY DEF Init, TypeOK
<1>2. Linked /\ MessageIsFirst /\ NothingOverdue /\ HandleFindsEvent
  BY DEF Init, Linked, MessageIsFirst, FirstOf, NothingOverdue,
         HandleFindsEvent
<1>3. QED
  BY <1>1, <1>2 DEF IInv

\* A call that throws leaves nothing to show but the types.
LEMMA ThrowIInv ==
    ASSUME IInv, NEW error \in {"element already exists", "element not found"},
           Throw(error), directList' \in SUBSET Entries
    PROVE  IInv'
<1>1. TypeOK'
  BY DEF IInv, TypeOK, Throw
<1>2. ~ NoMisuse' /\ HandleFindsEvent'
  BY DEF Throw, NoMisuse, HandleFindsEvent
<1>3. QED
  BY <1>1, <1>2 DEF IInv, MessageIsFirst, NothingOverdue

LEMMA AddIInv ==
    ASSUME IInv, NEW e \in Events, NEW delay \in Delays, Add(e, delay)
    PROVE  IInv'
<1> DEFINE x == [time |-> now + delay, nth |-> inserted, event |-> e]
<1>1. delay \in Nat /\ now \in Nat /\ inserted \in Nat
  BY MultiTimerAssumption DEF IInv, TypeOK
<1>2. x \in Entries
  BY <1>1 DEF Entries
<1>3. directList' = directList \union {x} /\ NoMisuse
  BY DEF Add, Known, NoMisuse
<1>4. directList' \in SUBSET Entries
  BY <1>2, <1>3 DEF IInv, TypeOK
<1>5. CASE reverseList[e] # None
  BY <1>4, <1>5, ThrowIInv DEF Add, Known
<1>6. CASE reverseList[e] = None
  <2>1. /\ reverseList' = [reverseList EXCEPT ![e] = x]
        /\ intr' = IF IsEarlier(delay) THEN Scheduled(x) ELSE intr
        /\ busy' = TRUE /\ inserted' = inserted + 1
        /\ now' = now /\ thrown' = "no" /\ thrown = "no"
    BY <1>6 DEF Add, Known
  <2>2. Linked /\ directList \in SUBSET Entries
    BY <1>3 DEF IInv, TypeOK
  <2>3. Scheduled(x) \in Messages
    BY <1>1 DEF Scheduled, Messages
  <2>4. TypeOK'
    <3> HIDE DEF x
    <3> QED BY <1>1, <1>2, <1>4, <2>1, <2>3 DEF IInv, TypeOK
  <2>5. x.nth = inserted /\ x.event = e /\ x.time = now + delay
    OBVIOUS
  <2>6. x # None
    BY <1>2, NoneAssumption
  <2>7. Linked'
    <3> HIDE DEF x
    <3>1. \A y \in directList : y.event # e
      BY <1>6, <2>2, NoneAssumption DEF Linked
    <3>2. \A f \in Events : reverseList'[f] # None =>
             reverseList'[f] \in directList' /\ reverseList'[f].event = f
      BY <1>3, <2>1, <2>2, <2>5 DEF Linked, IInv, TypeOK
    <3>3. \A y \in directList' : reverseList'[y.event] = y
      BY <1>3, <2>1, <2>2, <2>5, <3>1 DEF Linked, IInv, TypeOK
    <3>4. \A y \in directList : y.nth < inserted /\ y.nth \in Nat
      BY <2>2 DEF Linked, Entries
    <3>5. \A y \in directList' : y.nth < inserted'
      BY <1>1, <1>3, <2>1, <2>5, <3>4
    <3>6. \A y \in directList : y.nth # x.nth
      BY <1>1, <2>5, <3>4
    <3>7. \A y, z \in directList' : y.nth = z.nth => y = z
      BY <1>3, <2>2, <3>6 DEF Linked
    <3>8. QED BY <3>2, <3>3, <3>5, <3>7 DEF Linked
  <2>8. NothingOverdue'
    <3> HIDE DEF x
    <3> QED BY <1>1, <1>3, <2>1, <2>5 DEF IInv, NothingOverdue, NoMisuse
  <2>9. MessageIsFirst'
    <3>1. directList' # {} /\ \A y, z \in directList' : y.nth = z.nth => y = z
      BY <1>3, <2>7 DEF Linked
    <3>2. busy = (directList # {}) /\ intr = FirstOf(directList)
      BY <1>3 DEF IInv, MessageIsFirst
    <3>3. CASE directList = {}
      <4>1. IsEarlier(delay)
        BY <3>2, <3>3 DEF IsEarlier
      <4>2. Before(x, x) /\ directList' = {x}
        BY <1>1, <1>3, <3>3 DEF Before
      <4>3. Begin(directList') = x
        <5> HIDE DEF x
        <5> QED BY <1>4, <3>1, <4>2, FirstIsBegin
      <4>4. QED BY <2>1, <3>1, <4>1, <4>3 DEF MessageIsFirst, FirstOf
    <3>4. CASE directList # {}
      <4> DEFINE b == Begin(directList)
      <4>1. b \in directList /\ \A y \in directList : Before(b, y)
        BY <2>2, <3>4, BeginIsFirst
      <4>2. b.nth < inserted /\ b.nth \in Nat /\ b.time \in Nat
        BY <2>2, <4>1 DEF Linked, Entries
      <4>3. CASE delay < b.time - now
        <5>1. IsEarlier(delay)
          BY <4>3 DEF IsEarlier
        <5>2. ASSUME NEW y \in directList' PROVE Before(x, y)
          <6>1. CASE y \in directList
            <7>1. b.time <= y.time /\ y.time \in Nat
              BY <2>2, <4>1, <4>2, <6>1 DEF Before, Entries
            <7>2. QED BY <1>1, <2>5, <4>2, <4>3, <7>1 DEF Before
          <6>2. CASE y = x
            BY <1>1, <6>2 DEF Before
          <6>3. QED BY <1>3, <6>1, <6>2
        <5>3. Begin(directList') = x
          <6> HIDE DEF x
          <6> QED BY <1>3, <1>4, <3>1, <5>2, FirstIsBegin
        <5>4. QED BY <2>1, <3>1, <5>1, <5>3 DEF MessageIsFirst, FirstOf
      <4>4. CASE ~ (delay < b.time - now)
        <5>1. ~ IsEarlier(delay)
          BY <3>2, <3>4, <4>4 DEF IsEarlier
        <5>2. Before(b, x)
          BY <1>1, <2>5, <4>2, <4>4 DEF Before
        <5>3. Begin(directList') = b
          <6> HIDE DEF x, b
          <6> QED BY <1>3, <1>4, <3>1, <4>1, <5>2, FirstIsBegin
        <5>4. QED BY <2>1, <3>1, <3>2, <3>4, <5>1, <5>3
                  DEF MessageIsFirst, FirstOf
      <4>5. QED BY <4>3, <4>4
    <3>5. QED BY <3>3, <3>4
  <2>10. QED
    BY <2>1, <2>4, <2>7, <2>8, <2>9 DEF IInv, HandleFindsEvent
<1>7. QED
  BY <1>5, <1>6

\* An entry taken off both lists, with the message put right.
LEMMA EraseIInv ==
    ASSUME IInv, NoMisuse, NEW x \in directList,
           directList' = directList \ {x},
           reverseList' = [reverseList EXCEPT ![x.event] = None],
           busy' = (directList' # {}),
           intr' = IF x = Begin(directList) THEN FirstOf(directList')
                                            ELSE intr,
           UNCHANGED <<now, inserted, thrown>>
    PROVE  IInv'
<1>1. Linked /\ directList \in SUBSET Entries /\ thrown = "no"
      /\ reverseList \in [Events -> Entries \union {None}]
  BY DEF IInv, TypeOK, NoMisuse
<1>2. directList' \in SUBSET Entries /\ x.event \in Events
  BY <1>1 DEF Entries
<1>3. reverseList[x.event] = x
  BY <1>1 DEF Linked
<1>4. Linked'
  <2>1. \A f \in Events : reverseList'[f] # None =>
           reverseList'[f] \in directList' /\ reverseList'[f].event = f
    BY <1>1, <1>2 DEF Linked
  <2>2. ASSUME NEW y \in directList' PROVE reverseList'[y.event] = y
    <3>1. reverseList[y.event] = y /\ y # x /\ y.event \in Events
      BY <1>1 DEF Linked, Entries
    <3>2. y.event # x.event
      BY <1>3, <3>1
    <3>3. QED BY <1>1, <3>1, <3>2
  <2>3. QED BY <1>1, <2>1, <2>2 DEF Linked
<1>5. NothingOverdue'
  BY DEF IInv, NothingOverdue, NoMisuse
<1>6. \A y, z \in directList' : y.nth = z.nth => y = z
  BY <1>4 DEF Linked
<1>7. MessageIsFirst'
  <2>1. CASE x = Begin(directList)
    BY <2>1 DEF MessageIsFirst
  <2>2. CASE x # Begin(directList)
    <3>1. Begin(directList) \in directList'
          /\ \A y \in directList' : Before(Begin(directList), y)
      BY <1>1, <2>2, BeginIsFirst
    <3>2. Begin(directList') = Begin(directList)
      BY <1>2, <1>6, <3>1, FirstIsBegin
    <3>3. directList # {} /\ directList' # {}
      BY <3>1
    <3>4. QED BY <2>2, <3>2, <3>3 DEF IInv, MessageIsFirst, FirstOf
  <2>3. QED BY <2>1, <2>2
<1>8. intr' \in Messages \union {None}
  <2>1. CASE directList' = {}
    BY <1>7, <2>1 DEF MessageIsFirst, FirstOf, NoMisuse, IInv, TypeOK
  <2>2. CASE directList' # {}
    <3>1. Begin(directList') \in Entries
      BY <1>2, <2>2, BeginIsFirst
    <3>2. Scheduled(Begin(directList')) \in Messages
      BY <3>1 DEF Scheduled, Entries, Messages
    <3>3. QED BY <2>2, <3>2 DEF IInv, TypeOK, FirstOf
  <2>3. QED BY <2>1, <2>2
<1>9. TypeOK'
  BY <1>1, <1>2, <1>8 DEF IInv, TypeOK
<1>10. QED
  BY <1>1, <1>4, <1>5, <1>7, <1>9 DEF IInv, HandleFindsEvent

LEMMA RemoveIInv ==
    ASSUME IInv, NEW e \in Events, Remove(e)
    PROVE  IInv'
<1> DEFINE x == reverseList[e]
<1>1. NoMisuse /\ Linked
  BY DEF Remove, Known, NoMisuse, IInv
<1>2. CASE x = None
  <2>1. directList' \in SUBSET Entries
    BY <1>2 DEF Remove, Known, IInv, TypeOK
  <2>2. QED BY <1>2, <2>1, ThrowIInv DEF Remove, Known
<1>3. CASE x # None
  <2>1. x \in directList /\ x.event = e
    BY <1>1, <1>3 DEF Linked
  <2>2. /\ directList' = directList \ {x}
        /\ reverseList' = [reverseList EXCEPT ![e] = None]
        /\ busy' = (x # Begin(directList) \/ directList' # {})
        /\ Removed(x)
        /\ UNCHANGED <<now, inserted, thrown>>
    BY <1>3 DEF Remove, Known
  <2>3. directList \in SUBSET Entries /\ directList # {}
    BY <2>1 DEF IInv, TypeOK
  <2>4. x # Begin(directList) => Begin(directList) \in directList'
    BY <2>2, <2>3, BeginIsFirst
  <2>5. busy' = (directList' # {})
    BY <2>2, <2>4
  <2>6. intr' = IF x = Begin(directList) THEN FirstOf(directList') ELSE intr
    BY <2>2 DEF Removed, FirstOf
  <2> HIDE DEF x
  <2>7. reverseList' = [reverseList EXCEPT ![x.event] = None]
    BY <2>1, <2>2
  <2>8. QED
    BY <1>1, <2>1, <2>2, <2>5, <2>6, <2>7, EraseIInv
<1>4. QED
  BY <1>2, <1>3

\* The list holds an event whenever the message arrives, and it is the
\* message's event that is taken off.
LEMMA MessageMeetsFirst ==
    ASSUME IInv, Handle
    PROVE  /\ directList # {} /\ directList \in SUBSET Entries
           /\ Begin(directList) \in directList
           /\ intr = Scheduled(Begin(directList))
           /\ Begin(directList).time = now
<1>1. directList # {} /\ directList \in SUBSET Entries
  BY DEF IInv, TypeOK, MessageIsFirst, FirstOf, Handle, NoMisuse
<1>2. Begin(directList) \in directList
  BY <1>1, BeginIsFirst
<1>3. intr = Scheduled(Begin(directList))
  BY <1>1 DEF IInv, MessageIsFirst, FirstOf, Handle, NoMisuse
<1>4. QED
  BY <1>1, <1>2, <1>3 DEF Handle, Scheduled

LEMMA HandleIInv ==
    ASSUME IInv, Handle
    PROVE  IInv'
<1> DEFINE x == Begin(directList)
<1>1. directList # {} /\ x \in directList
  BY MessageMeetsFirst
<1>2. /\ NoMisuse
      /\ directList' = directList \ {x}
      /\ reverseList' = [reverseList EXCEPT ![x.event] = None]
      /\ busy' = (directList' # {})
      /\ intr' = FirstOf(directList')
      /\ UNCHANGED <<now, inserted, thrown>>
  BY <1>1 DEF Handle, NoMisuse
<1>3. QED
  BY <1>1, <1>2, EraseIInv

\* While time passes nothing becomes overdue: the message holds time back.
LEMMA TickIInv ==
    ASSUME IInv, Tick
    PROVE  IInv'
<1>1. now' = now + 1 /\ now \in Nat /\ NoMisuse
      /\ directList \in SUBSET Entries
      /\ UNCHANGED <<timerVars, inserted, thrown>>
  BY DEF Tick, IInv, TypeOK, NoMisuse
<1>2. TypeOK' /\ Linked' /\ MessageIsFirst' /\ HandleFindsEvent' /\ NoMisuse'
  BY <1>1 DEF IInv, TypeOK, Linked, MessageIsFirst, FirstOf, NoMisuse,
              HandleFindsEvent, timerVars
<1>3. ASSUME NEW x \in directList PROVE now + 1 <= x.time
  <2> DEFINE b == Begin(directList)
  <2>1. b \in directList /\ Before(b, x)
    BY <1>1, BeginIsFirst
  <2>2. intr = Scheduled(b)
    BY <1>1 DEF IInv, MessageIsFirst, FirstOf
  <2>3. intr # None
    BY <1>1, <2>1, <2>2, NoneAssumption DEF Scheduled, Messages, Entries
  <2>4. b.time # now /\ now <= b.time
    BY <1>1, <2>1, <2>2, <2>3 DEF Tick, Scheduled, IInv, NothingOverdue
  <2>5. b.time \in Nat /\ x.time \in Nat /\ b.time <= x.time
    BY <1>1, <2>1 DEF Before, Entries
  <2>6. QED BY <1>1, <2>4, <2>5
<1>4. NothingOverdue'
  BY <1>1, <1>3 DEF NothingOverdue, timerVars
<1>5. QED
  BY <1>2, <1>4 DEF IInv

LEMMA NextIInv == IInv /\ [Next]_vars => IInv'
<1> SUFFICES ASSUME IInv, [Next]_vars PROVE IInv'
  OBVIOUS
<1>1. ASSUME NEW e \in Events, NEW delay \in Delays, Add(e, delay)
      PROVE  IInv'
  BY <1>1, AddIInv
<1>2. ASSUME NEW e \in Events, Remove(e) PROVE IInv'
  BY <1>2, RemoveIInv
<1>3. CASE Handle
  BY <1>3, HandleIInv
<1>4. CASE Tick
  BY <1>4, TickIInv
<1>5. CASE UNCHANGED vars
  BY <1>5 DEF IInv, TypeOK, Linked, MessageIsFirst, FirstOf, NothingOverdue,
              HandleFindsEvent, NoMisuse, vars, timerVars
<1>6. QED
  BY <1>1, <1>2, <1>3, <1>4, <1>5 DEF Next

LEMMA IInvHolds == Spec => []IInv
BY InitIInv, NextIInv, PTL DEF Spec

------------------------------------------------------------------------------
(* The theorems.                                                           *)

\* Every variable of the multi-timer keeps its type.
THEOREM TypeCorrect == Spec => []TypeOK
<1>1. IInv => TypeOK
  BY DEF IInv
<1>2. QED
  BY <1>1, IInvHolds, PTL

\* directList_ and reverseList_ hold the same events after any sequence of
\* add, remove and handle: no iterator dangles.
THEOREM ListsStayTogether == Spec => []ListsAgree
<1>1. IInv => ListsAgree
  <2> SUFFICES ASSUME IInv, NoMisuse
               PROVE  directList = {reverseList[e] : e \in Events} \ {None}
    BY DEF ListsAgree
  <2>1. Linked /\ directList \in SUBSET Entries
    BY DEF IInv, TypeOK
  <2>2. \A x \in directList : x.event \in Events /\ x # None
    BY <2>1, NoneAssumption DEF Entries
  <2>3. QED BY <2>1, <2>2 DEF Linked
<1>2. QED
  BY <1>1, IInvHolds, PTL

\* The pending OMNeT++ message is always the one for the first event.
THEOREM MessageStaysFirst == Spec => []MessageIsFirst
<1>1. IInv => MessageIsFirst
  BY DEF IInv
<1>2. QED
  BY <1>1, IInvHolds, PTL

\* No event is ever overdue.
THEOREM NothingIsLate == Spec => []NothingOverdue
<1>1. IInv => NothingOverdue
  BY DEF IInv
<1>2. QED
  BY <1>1, IInvHolds, PTL

\* TMultiTimer::handle never throws.
THEOREM HandleNeverThrows == Spec => []HandleFindsEvent
<1>1. IInv => HandleFindsEvent
  BY DEF IInv
<1>2. QED
  BY <1>1, IInvHolds, PTL

\* The lists, the pending message and the clock agree after any sequence of add,
\* remove and handle.
THEOREM ListsStaySound == Spec => []ListsSound
<1>1. ListsAgree /\ MessageIsFirst /\ NothingOverdue /\ HandleFindsEvent => ListsSound
  BY DEF ListsSound
<1>2. QED
  BY <1>1, ListsStayTogether, MessageStaysFirst, NothingIsLate,
     HandleNeverThrows, PTL

\* Events due at the same instant are dispatched in the order of their
\* insertion.
THEOREM OldestGoesFirst == Spec => FirstAddedFirst
<1>1. ASSUME IInv, Handle, NEW x \in directList, NEW y \in directList,
             x.time = y.time, x.nth < y.nth
      PROVE  y \in directList'
  <2> DEFINE b == Begin(directList)
  <2>1. directList # {} /\ directList \in SUBSET Entries
        /\ directList' = directList \ {b}
    BY <1>1, MessageMeetsFirst DEF Handle
  <2>2. Before(b, x)
    BY <2>1, BeginIsFirst
  <2>3. y # b
    BY <1>1, <2>1, <2>2 DEF Before, Entries
  <2>4. QED BY <2>1, <2>3
<1>2. IInv /\ [Next]_vars =>
        [\A x, y \in directList :
           Handle /\ x.time = y.time /\ x.nth < y.nth => y \in directList']_vars
  BY <1>1
<1>3. QED
  BY <1>2, IInvHolds, PTL DEF Spec, FirstAddedFirst

------------------------------------------------------------------------------
(* The refinement.                                                         *)

LEMMA DueOfAdd ==
    ASSUME IInv, NEW e \in Events, NEW delay \in Delays, Add(e, delay)
    PROVE  Timers!Add(e) \/ UNCHANGED Timers!vars
<1>1. delay \in Nat /\ now \in Nat /\ inserted \in Nat /\ None \notin Nat
      /\ reverseList \in [Events -> Entries \union {None}]
  BY MultiTimerAssumption DEF IInv, TypeOK
<1>2. CASE reverseList[e] # None
  BY <1>2 DEF Add, Known, Throw, Timers!vars, due
<1>3. CASE reverseList[e] = None
  <2> DEFINE x == [time |-> now + delay, nth |-> inserted, event |-> e]
  <2>1. reverseList' = [reverseList EXCEPT ![e] = x] /\ now' = now
    BY <1>3 DEF Add, Known
  <2>2. x \in Entries /\ x.time = now + delay
    BY <1>1 DEF Entries
  <2>3. x # None
    BY <2>2, NoneAssumption
  <2> HIDE DEF x
  <2>4. due[e] = None /\ due \in [Events -> Nat \union {None}]
    BY <1>1, <1>3 DEF due, Entries
  <2>5. due' = [due EXCEPT ![e] = now + delay]
    BY <1>1, <2>1, <2>2, <2>3 DEF due
  <2>6. due'[e] = now + delay
    BY <2>4, <2>5
  <2>7. due'[e] \in Nat /\ due'[e] >= now
    BY <1>1, <2>6
  <2>8. due' = [due EXCEPT ![e] = due'[e]]
    BY <2>5, <2>6
  <2>9. QED BY <2>1, <2>4, <2>7, <2>8 DEF Timers!Add
<1>4. QED
  BY <1>2, <1>3

LEMMA DueOfErase ==
    ASSUME IInv, NEW e \in Events, now' = now,
           reverseList' = [reverseList EXCEPT ![e] = None]
    PROVE  due' = [due EXCEPT ![e] = None]
<1>1. reverseList \in [Events -> Entries \union {None}]
  BY DEF IInv, TypeOK
<1>2. QED
  BY <1>1 DEF due

LEMMA DueOfRemove ==
    ASSUME IInv, NEW e \in Events, Remove(e)
    PROVE  Timers!Remove(e) \/ UNCHANGED Timers!vars
<1>1. None \notin Nat /\ reverseList \in [Events -> Entries \union {None}]
  BY MultiTimerAssumption DEF IInv, TypeOK
<1>2. CASE reverseList[e] = None
  BY <1>2 DEF Remove, Known, Throw, Timers!vars, due
<1>3. CASE reverseList[e] # None
  <2>1. reverseList' = [reverseList EXCEPT ![e] = None] /\ now' = now
    BY <1>3 DEF Remove, Known
  <2>2. due[e] # None
    BY <1>1, <1>3 DEF due, Entries
  <2>3. due' = [due EXCEPT ![e] = None]
    BY <2>1, DueOfErase
  <2>4. QED BY <2>1, <2>2, <2>3 DEF Timers!Remove
<1>4. QED
  BY <1>2, <1>3

LEMMA DueOfHandle ==
    ASSUME IInv, Handle
    PROVE  \E e \in Events : Timers!Dispatch(e)
<1> DEFINE x == Begin(directList)
           e == x.event
<1>1. directList # {} /\ x \in directList /\ x.time = now /\ x \in Entries
  BY MessageMeetsFirst
<1>2. e \in Events /\ reverseList[e] = x /\ x # None
  BY <1>1, NoneAssumption DEF IInv, Linked, Handle, NoMisuse, Entries
<1>3. due[e] = now
  BY <1>1, <1>2 DEF due
<1>4. reverseList' = [reverseList EXCEPT ![e] = None] /\ now' = now
  BY <1>1 DEF Handle
<1>5. due' = [due EXCEPT ![e] = None]
  <2> HIDE DEF e
  <2> QED BY <1>2, <1>4, DueOfErase
<1>6. QED
  BY <1>2, <1>3, <1>4, <1>5 DEF Timers!Dispatch

LEMMA DueOfTick ==
    ASSUME IInv, Tick
    PROVE  Timers!Tick
<1>1. IInv' /\ now' = now + 1 /\ reverseList' = reverseList /\ now \in Nat
      /\ directList' = directList /\ thrown' = "no" /\ thrown = "no"
  BY TickIInv DEF Tick, timerVars, IInv, TypeOK
<1>2. ASSUME NEW e \in Events PROVE due[e] # now
  <2>1. CASE reverseList[e] = None
    BY <1>1, <2>1, MultiTimerAssumption DEF due
  <2>2. CASE reverseList[e] # None
    <3>1. reverseList[e] \in directList
      BY <1>1, <2>2 DEF IInv, Linked, NoMisuse
    <3>2. now + 1 <= reverseList[e].time
      BY <1>1, <3>1 DEF IInv, NothingOverdue, NoMisuse
    <3>3. QED BY <1>1, <2>2, <3>2 DEF due
  <2>3. QED BY <2>1, <2>2
<1>3. due' = due
  BY <1>1 DEF due
<1>4. QED
  BY <1>1, <1>2, <1>3 DEF Timers!Tick

\* The multi-timer with its two lists and its one message implements a set of
\* independent timers: whatever is added and removed in whatever order, an
\* event is dispatched exactly when it is due.
THEOREM ImplementsTimers == Spec => KeepsTime
<1>1. Init => Timers!Init
  BY DEF Init, Timers!Init, due
<1>2. ASSUME IInv, [Next]_vars
      PROVE  [Timers!Next]_(Timers!vars)
  <2>1. ASSUME NEW e \in Events, NEW delay \in Delays, Add(e, delay)
        PROVE  [Timers!Next]_(Timers!vars)
    BY <1>2, <2>1, DueOfAdd DEF Timers!Next
  <2>2. ASSUME NEW e \in Events, Remove(e)
        PROVE  [Timers!Next]_(Timers!vars)
    BY <1>2, <2>2, DueOfRemove DEF Timers!Next
  <2>3. CASE Handle
    BY <1>2, <2>3, DueOfHandle DEF Timers!Next
  <2>4. CASE Tick
    BY <1>2, <2>4, DueOfTick DEF Timers!Next
  <2>5. CASE UNCHANGED vars
    BY <2>5 DEF vars, timerVars, Timers!vars, due
  <2>6. QED
    BY <1>2, <2>1, <2>2, <2>3, <2>4, <2>5 DEF Next
<1>3. QED
  BY <1>1, <1>2, IInvHolds, PTL DEF Spec, KeepsTime, Timers!Spec
=============================================================================
