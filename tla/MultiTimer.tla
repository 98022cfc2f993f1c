----------------------------- MODULE MultiTimer -----------------------------
(***************************************************************************)
(* TMultiTimer, the timer behind the retransmissions of RLC AM: many       *)
(* events over a single pending OMNeT++ message.  The multi-timer keeps    *)
(* the events sorted by the time they are due in a multimap (directList_)  *)
(* and finds them by identifier in a second map (reverseList_), and every  *)
(* operation has to leave the message scheduled for the first event.       *)
(*                                                                         *)
(* A multimap keeps entries with equal keys in the order in which they     *)
(* were inserted, which the field nth stands for; an iterator is the entry *)
(* it points to.                                                           *)
(*                                                                         *)
(* The owner calls add and remove at any time.  A call that throws ends    *)
(* the simulation, thrown records it.                                      *)
(***************************************************************************)
EXTENDS Integers, FiniteSets

CONSTANTS
    Events,         \* the event identifiers
    Delays,         \* the delays the owner asks for
    None,           \* no entry, no message
    MaxNow,         \* bound: the last instant at which a timer runs out
    MaxAdds         \* bound: the insertions

ASSUME MultiTimerAssumption ==
    /\ Delays \subseteq Nat
    /\ MaxNow \in Nat /\ MaxAdds \in Nat
    /\ None \notin Nat

Entries == [time : Nat, nth : Nat, event : Events]
Messages == [at : Nat, event : Events]

ASSUME NoneAssumption == None \notin Entries /\ None \notin Messages

VARIABLES
    now,            \* simulated time, NOW
    directList,     \* directList_, the multimap
    reverseList,    \* reverseList_: for each event its entry, or None
    intr,           \* the message intr_ in the event queue, or None
    busy,           \* busy_
    inserted,       \* the insertions so far
    thrown          \* the error that ended the simulation, "no" if none

timerVars == <<directList, reverseList, intr, busy>>
vars == <<now, timerVars, inserted, thrown>>

Init ==
    /\ now = 0
    /\ directList = {}
    /\ reverseList = [e \in Events |-> None]
    /\ intr = None
    /\ busy = FALSE
    /\ inserted = 0
    /\ thrown = "no"

------------------------------------------------------------------------------
Before(x, y) == x.time < y.time \/ (x.time = y.time /\ x.nth <= y.nth)

\* begin(): the entry with the lowest key, the oldest of them.
Begin(list) == CHOOSE x \in list : \A y \in list : Before(x, y)

Scheduled(x) == [at |-> x.time, event |-> x.event]

\* busy(event)
Known(e) == reverseList[e] # None

\* Mutant of FirstOf: nothing is scheduled after the first event.
FirstOfNothing(list) == IF list = {} THEN intr ELSE None
\* The message for the entry that comes first, if there is one.
FirstOf(list) == IF list = {} THEN None ELSE Scheduled(Begin(list))

\* Mutant of IsEarlier: a later event takes the message, too.
IsEarlierOrLater(delay) == delay \in Nat
\* The new event overtakes the scheduled one; what is remaining is read
\* before the insertion.
IsEarlier(delay) == ~busy \/ delay < Begin(directList).time - now

Throw(error) ==
    /\ thrown' = error
    /\ UNCHANGED <<now, reverseList, intr, busy, inserted>>

Add(e, delay) ==
    LET x == [time |-> now + delay, nth |-> inserted, event |-> e]
    IN  /\ thrown = "no" /\ inserted < MaxAdds /\ now + delay <= MaxNow
        /\ directList' = directList \union {x}
        /\ IF Known(e)
           THEN Throw("element already exists")
           ELSE /\ reverseList' = [reverseList EXCEPT ![e] = x]
                /\ intr' = IF IsEarlier(delay) THEN Scheduled(x) ELSE intr
                /\ busy' = TRUE
                /\ inserted' = inserted + 1
                /\ UNCHANGED <<now, thrown>>

\* Mutant of Removed: the message is only replaced by a later one.
RemovedLazily(x) ==
    intr' = IF x = Begin(directList) /\ directList = {x} THEN None ELSE intr
\* remove() replaces the message only if the removed event was the first.
Removed(x) ==
    intr' = IF x = Begin(directList) THEN FirstOf(directList \ {x}) ELSE intr

Remove(e) ==
    LET x == reverseList[e]
    IN  /\ thrown = "no"
        /\ IF ~Known(e)
           THEN directList' = directList /\ Throw("element not found")
           ELSE /\ Removed(x)
                /\ directList' = directList \ {x}
                /\ busy' = (x # Begin(directList) \/ directList' # {})
                /\ reverseList' = [reverseList EXCEPT ![e] = None]
                /\ UNCHANGED <<now, inserted, thrown>>

\* The message arrives and its owner calls handle(), which takes the first
\* event off the lists whatever the event of the message is.
Handle ==
    LET first == Begin(directList)
    IN  /\ thrown = "no" /\ intr # None /\ intr.at = now
        /\ IF directList = {}
           THEN directList' = {} /\ Throw("the list is empty")
           ELSE /\ reverseList' = [reverseList EXCEPT ![first.event] = None]
                /\ directList' = directList \ {first}
                /\ busy' = (directList' # {})
                /\ intr' = FirstOf(directList')
                /\ UNCHANGED <<now, inserted, thrown>>

\* The event queue is ordered by time: what is due at this instant comes first.
Tick ==
    /\ thrown = "no" /\ now < MaxNow
    /\ intr # None => intr.at # now
    /\ now' = now + 1
    /\ UNCHANGED <<timerVars, inserted, thrown>>

Next ==
    \/ \E e \in Events : (\E delay \in Delays : Add(e, delay)) \/ Remove(e)
    \/ Handle
    \/ Tick

\* Fairness is that of the event queue, which always goes on to the next event.
Fairness == WF_vars(Handle) /\ WF_vars(Tick)
Spec == Init /\ [][Next]_vars /\ Fairness

------------------------------------------------------------------------------
NoMisuse == thrown = "no"

TypeOK ==
    /\ now \in Nat
    /\ directList \in SUBSET Entries
    /\ reverseList \in [Events -> Entries \union {None}]
    /\ intr \in Messages \union {None}
    /\ busy \in BOOLEAN
    /\ inserted \in Nat
    /\ thrown \in {"no", "element already exists", "element not found",
                   "the list is empty"}

\* The two lists hold the same events, each once: no iterator in reverseList_
\* dangles and no event in directList_ is left without one.
ListsAgree ==
    NoMisuse =>
        directList = {reverseList[e] : e \in Events} \ {None}

\* The pending message is the one for the first event, so that the event the
\* owner is told of is the one that handle() takes off the lists
\* (AmTxQueue::pduTimerHandle passes the event of the message and then acts on
\* the PDU of that number).
MessageIsFirst ==
    NoMisuse => /\ intr = FirstOf(directList)
                /\ busy = (directList # {})

\* No event is overdue: scheduleAt is never asked for a time in the past.
NothingOverdue ==
    NoMisuse => \A x \in directList : now <= x.time

\* handle() never finds the list empty (TTimer.cc:96), whatever the owner does.
HandleFindsEvent == thrown # "the list is empty"

\* The lists, the message and the clock agree: what handle() relies on.
ListsSound == ListsAgree /\ MessageIsFirst /\ NothingOverdue /\ HandleFindsEvent

\* Events due at the same instant are dispatched in the order in which they
\* were added.
FirstAddedFirst ==
    [][\A x, y \in directList :
         Handle /\ x.time = y.time /\ x.nth < y.nth => y \in directList'
    ]_vars

\* An event that runs ends, by being dispatched or removed.
EveryEventEnds ==
    \A e \in Events :
        reverseList[e] # None ~> reverseList[e] = None \/ thrown # "no"

\* A multi-timer keeps the promise of EventTimers: each event that is not
\* removed is dispatched once, at its own time.
due == [e \in Events |-> IF reverseList[e] = None THEN None
                         ELSE reverseList[e].time]
Timers == INSTANCE EventTimers WITH Idle <- None, due <- due
KeepsTime == Timers!Spec
=============================================================================
