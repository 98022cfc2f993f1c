---------------------------- MODULE MecLifecycle ----------------------------
(***************************************************************************)
(* The life cycle of MEC applications: DeviceApps ask the UALCMP over HTTP *)
(* to create and delete the application of their UE, the UALCMP passes the *)
(* requests to the MecOrchestrator, and the orchestrator places the        *)
(* application on a MEC host, whose VirtualisationInfrastructureManager    *)
(* (VIM) gives it a gate and resources.                                    *)
(*                                                                         *)
(* UE applications send START and STOP whenever they like.  HTTP messages  *)
(* travel for any time, so do the delays of the orchestrator (onboarding,  *)
(* instantiation, termination); messages on the connections between UALCMP *)
(* and orchestrator arrive in order.  An exception ends the simulation.    *)
(***************************************************************************)
EXTENDS Integers, Sequences, FiniteSets

CONSTANTS
    Devices,        \* the DeviceApps, by their associateDevAppId
    NumHosts,       \* the length of mecHostList
    MaxApps,        \* maxMECApps of a host
    Capacities,     \* possible resources of a host; an application needs one
    QueueSizes,     \* possible values of requestQueueSize, 0 is no limit
    NoRequest,      \* nullptr
    MaxStarts       \* bound: the creations that are asked for

ASSUME LifecycleAssumption ==
    /\ NumHosts \in Nat /\ MaxApps \in Nat /\ MaxStarts \in Nat
    /\ Capacities \subseteq Nat /\ QueueSizes \subseteq Nat
    /\ IsFiniteSet(Devices)
    /\ NoRequest \notin [dev : Devices, method : {"GET", "POST", "DELETE"}, ctx : Int]

Hosts == 1..NumHosts
Gates == 0..MaxApps - 1

VARIABLES
    capacity, queueSize,    \* the parameters of this simulation
    appState,       \* DeviceApp::appState
    appContext,     \* DeviceApp::appContextUri, as the id of the context
    requests,       \* HTTP requests under way to the UALCMP
    responses,      \* HTTP responses under way to the devices
    queue,          \* MecServiceBase::requests_
    served,         \* currentRequestMessageServed_; requestService_ is scheduled
    requestSno,     \* UALCMPApp::requestSno
    pending,        \* UALCMPApp::pendingRequests: request id and connection
    toOrchestrator, toUALCMP,   \* the connections between the two
    meAppMap,       \* MecOrchestrator::meAppMap
    contextIdCounter,   \* counted from its first value, which is arbitrary
    delayed,        \* self-messages of the orchestrator
    vim,            \* the VIM of each host
    thrown,         \* a cRuntimeError has ended the simulation
    starts,         \* counts towards MaxStarts
    turnedDown      \* history: a creation failed or a request met a full queue

configVars == <<capacity, queueSize>>
deviceVars == <<appState, appContext>>
ualcmpVars == <<queue, served, requestSno, pending>>
orchVars == <<meAppMap, contextIdCounter, delayed, vim>>
linkVars == <<toOrchestrator, toUALCMP>>
vars == <<configVars, deviceVars, requests, responses, ualcmpVars, linkVars,
          orchVars, thrown, starts, turnedDown>>

Request(d, method, c) == [dev |-> d, method |-> method, ctx |-> c]
Response(d, code, c) == [dev |-> d, code |-> code, ctx |-> c]

EmptyVim == [apps |-> {}, freeGates |-> [i \in 1..MaxApps |-> i - 1],
             currentMEApps |-> 0, allocated |-> 0]

Init ==
    /\ capacity \in Capacities /\ queueSize \in QueueSizes
    /\ appState = [d \in Devices |-> "IDLE"]
    /\ appContext = [d \in Devices |-> -1]
    /\ requests = {} /\ responses = {}
    /\ queue = <<>> /\ served = NoRequest
    /\ requestSno = 0 /\ pending = {}
    /\ toOrchestrator = <<>> /\ toUALCMP = <<>>
    /\ meAppMap = {} /\ contextIdCounter = 0 /\ delayed = {}
    /\ vim = [h \in Hosts |-> EmptyVim]
    /\ thrown = FALSE /\ starts = 0 /\ turnedDown = FALSE

------------------------------------------------------------------------------
(* DeviceApp.  START and STOP are ignored in every other state.            *)

StartContext(d) ==
    /\ ~thrown /\ starts < MaxStarts
    /\ appState[d] = "IDLE"
    /\ appState' = [appState EXCEPT ![d] = "START"]
    /\ requests' = requests \cup {Request(d, "GET", -1)}
    /\ starts' = starts + 1
    /\ UNCHANGED <<configVars, appContext, responses, ualcmpVars, linkVars,
                   orchVars, thrown, turnedDown>>

StopContext(d) ==
    /\ ~thrown
    /\ appState[d] = "APPCREATED"
    /\ appState' = [appState EXCEPT ![d] = "DELETING"]
    /\ requests' = requests \cup {Request(d, "DELETE", appContext[d])}
    /\ UNCHANGED <<configVars, appContext, responses, ualcmpVars, linkVars,
                   orchVars, thrown, starts, turnedDown>>

\* The state a response leads to.  One with any other code changes nothing.
StateAfter(state, code) ==
    CASE state = "CREATING" /\ code = 201 -> "APPCREATED"
      [] state = "DELETING" /\ code \in {204, 404} -> "IDLE"
      [] state = "DELETING" /\ code = 500 -> "APPCREATED"
      [] OTHER -> state

\* The responses handleUALCMPMessage throws on.
Throws(state, code) ==
    \/ state \in {"IDLE", "APPCREATED"}
    \/ state = "START" /\ code # 200
    \/ state = "CREATING" /\ code = 500

\* handleUALCMPMessage: the list of applications is answered by a POST.
ListArrives(m) ==
    /\ ~thrown
    /\ appState[m.dev] = "START" /\ m.code = 200
    /\ appState' = [appState EXCEPT ![m.dev] = "CREATING"]
    /\ responses' = responses \ {m}
    /\ requests' = requests \cup {Request(m.dev, "POST", -1)}
    /\ UNCHANGED <<configVars, appContext, ualcmpVars, linkVars, orchVars,
                   thrown, starts, turnedDown>>

ResultArrives(m) ==
    /\ ~thrown
    /\ ~(appState[m.dev] = "START" /\ m.code = 200)
    /\ thrown' = Throws(appState[m.dev], m.code)
    /\ appState' = [appState EXCEPT ![m.dev] = StateAfter(@, m.code)]
    /\ appContext' = [appContext EXCEPT ![m.dev] =
                        IF appState[m.dev] = "CREATING" /\ m.code = 201
                        THEN m.ctx ELSE @]
    /\ responses' = responses \ {m}
    /\ UNCHANGED <<configVars, requests, ualcmpVars, linkVars, orchVars, starts,
                   turnedDown>>

------------------------------------------------------------------------------
(* UALCMPApp, which serves one request at a time (MecServiceBase).         *)

QueueFull == queueSize # 0 /\ Len(queue) = queueSize

\* Mutant of ServeNext: only a request that arrives starts the server.
ServeNextNever(q) ==
    IF served # NoRequest THEN served' = NoRequest /\ queue' = q
                          ELSE served' = Head(q) /\ queue' = Tail(q)
\* scheduleNextEvent: an idle server takes the head of the queue.
ServeNext(q) ==
    IF q = <<>> THEN served' = NoRequest /\ queue' = <<>>
                ELSE served' = Head(q) /\ queue' = Tail(q)

\* newRequest; handleRequestQueueFull answers 503.
RefuseRequest(m) ==
    /\ ~thrown
    /\ QueueFull
    /\ requests' = requests \ {m}
    /\ responses' = responses \cup {Response(m.dev, 503, -1)}
    /\ turnedDown' = TRUE
    /\ UNCHANGED <<configVars, deviceVars, ualcmpVars, linkVars, orchVars, thrown,
                   starts>>

AcceptRequest(m) ==
    /\ ~thrown
    /\ ~QueueFull
    /\ requests' = requests \ {m}
    /\ IF served = NoRequest
       THEN ServeNext(Append(queue, m))
       ELSE queue' = Append(queue, m) /\ served' = served
    /\ UNCHANGED <<configVars, deviceVars, responses, requestSno, pending, linkVars,
                   orchVars, thrown, starts, turnedDown>>

\* handleGETRequest answers at once.
ServeGet ==
    /\ ~thrown
    /\ served # NoRequest /\ served.method = "GET"
    /\ responses' = responses \cup {Response(served.dev, 200, -1)}
    /\ ServeNext(queue)
    /\ UNCHANGED <<configVars, deviceVars, requests, requestSno, pending, linkVars,
                   orchVars, thrown, starts, turnedDown>>

\* Mutant of Numbered: a DELETE keeps the number.
NumberedPosts == IF served.method = "POST" THEN requestSno + 1 ELSE requestSno
\* The number of the next request.
Numbered == requestSno + 1

\* handlePOSTRequest and handleDELETERequest number the request, note its
\* connection and pass it on.
PassOn ==
    /\ ~thrown
    /\ served # NoRequest /\ served.method \in {"POST", "DELETE"}
    /\ pending' = pending \cup {[sno |-> requestSno, dev |-> served.dev]}
    /\ toOrchestrator' = Append(toOrchestrator,
                                [method |-> served.method, sno |-> requestSno,
                                 dev |-> served.dev, ctx |-> served.ctx])
    /\ requestSno' = Numbered
    /\ ServeNext(queue)
    /\ UNCHANGED <<configVars, deviceVars, requests, responses, toUALCMP, orchVars,
                   thrown, starts, turnedDown>>

\* handleCreateContextAppAckMessage and handleDeleteContextAppAckMessage.
Code(ack) ==
    CASE ~ack.success -> 500
      [] ack.success /\ ack.method = "POST" -> 201
      [] OTHER -> 204

AckArrives ==
    /\ ~thrown
    /\ toUALCMP # <<>>
    /\ LET ack == Head(toUALCMP)
           asked == {p \in pending : p.sno = ack.sno}
       IN  /\ responses' = responses \cup
                            {Response(p.dev, Code(ack), ack.ctx) : p \in asked}
           /\ pending' = pending \ asked
    /\ toUALCMP' = Tail(toUALCMP)
    /\ UNCHANGED <<configVars, deviceVars, requests, queue, served, requestSno,
                   toOrchestrator, orchVars, thrown, starts, turnedDown>>

------------------------------------------------------------------------------
(* MecOrchestrator, and the VIMs, whose methods it calls.                  *)

\* isAllocable: the resources that are left must exceed the demand.
Allocable(h) ==
    /\ vim[h].currentMEApps < MaxApps
    /\ 1 < capacity - vim[h].allocated

\* findBestMecHost: the first host with room, or for an application that
\* requires a MEC service the last one, which overrides the others whether it
\* runs the service or not.
BestHosts ==
    {h \in Hosts : /\ Allocable(h)
                   /\ \/ \A g \in Hosts : Allocable(g) => h <= g
                      \/ \A g \in Hosts : Allocable(g) => g <= h}

ContextsOf(d) == {c \in meAppMap : c.dev = d}

\* instantiateMEApp.
Instantiated(v, d) ==
    [apps |-> v.apps \cup {[dev |-> d, gate |-> Head(v.freeGates)]},
     freeGates |-> Tail(v.freeGates),
     currentMEApps |-> v.currentMEApps + 1,
     allocated |-> v.allocated + 1]

\* Mutant of Terminated: the gate is not given back.
TerminatedGateKept(v, d) ==
    LET app == CHOOSE a \in v.apps : a.dev = d
    IN  [v EXCEPT !.apps = @ \ {app}, !.currentMEApps = @ - 1, !.allocated = @ - 1]
\* terminateMEApp.
Terminated(v, d) ==
    LET app == CHOOSE a \in v.apps : a.dev = d
    IN  [apps |-> v.apps \ {app},
         freeGates |-> Append(v.freeGates, app.gate),
         currentMEApps |-> v.currentMEApps - 1,
         allocated |-> v.allocated - 1]

Ack(method, sno, success, c) ==
    [method |-> method, sno |-> sno, success |-> success, ctx |-> c]

Received(method) ==
    /\ ~thrown
    /\ toOrchestrator # <<>> /\ Head(toOrchestrator).method = method
    /\ toOrchestrator' = Tail(toOrchestrator)

\* startMECApp of an application that exists already.
AlreadyStarted(m) ==
    /\ \E c \in ContextsOf(m.dev) :
          toUALCMP' = Append(toUALCMP, Ack("POST", m.sno, TRUE, c.ctx))
    /\ UNCHANGED <<orchVars, turnedDown>>

\* startMECApp: the application runs at once, the answer takes its time.
Place(m, h) ==
    /\ meAppMap' = meAppMap \cup {[ctx |-> contextIdCounter, dev |-> m.dev,
                                   host |-> h]}
    /\ contextIdCounter' = contextIdCounter + 1
    /\ vim' = [vim EXCEPT ![h] = Instantiated(@, m.dev)]
    /\ delayed' = delayed \cup {Ack("POST", m.sno, TRUE, contextIdCounter)}
    /\ UNCHANGED <<toUALCMP, turnedDown>>

\* startMECApp when no host has room.
DoNotPlace(m) ==
    /\ delayed' = delayed \cup {Ack("POST", m.sno, FALSE, -1)}
    /\ turnedDown' = TRUE
    /\ UNCHANGED <<meAppMap, contextIdCounter, vim, toUALCMP>>

StartMECApp ==
    /\ Received("POST")
    /\ LET m == Head(toOrchestrator)
       IN  IF ContextsOf(m.dev) # {} THEN AlreadyStarted(m)
           ELSE IF BestHosts = {} THEN DoNotPlace(m)
           ELSE \E h \in BestHosts : Place(m, h)
    /\ UNCHANGED <<configVars, deviceVars, requests, responses, ualcmpVars, thrown,
                   starts>>

\* stopMECApp: an unknown context is answered at once.
StopMECApp ==
    /\ Received("DELETE")
    /\ LET m == Head(toOrchestrator)
           known == {c \in meAppMap : c.ctx = m.ctx}
       IN  IF known = {}
           THEN /\ toUALCMP' = Append(toUALCMP, Ack("DELETE", m.sno, FALSE, m.ctx))
                /\ UNCHANGED <<meAppMap, delayed, vim>>
           ELSE \E c \in known :
                  /\ meAppMap' = meAppMap \ {c}
                  /\ vim' = [vim EXCEPT ![c.host] = Terminated(@, c.dev)]
                  /\ delayed' = delayed \cup {Ack("DELETE", m.sno, TRUE, m.ctx)}
                  /\ toUALCMP' = toUALCMP
    /\ UNCHANGED <<configVars, deviceVars, requests, responses, ualcmpVars,
                   contextIdCounter, thrown, starts, turnedDown>>

\* sendCreateAppContextAck and sendDeleteAppContextAck at the end of a delay.
\* The refusal of a creation does not carry its request id, which stays 0; a
\* creation whose context is gone is not answered.
DelayEnds(m) ==
    /\ ~thrown
    /\ delayed' = delayed \ {m}
    /\ toUALCMP' =
         CASE m.method = "POST" /\ ~m.success ->
                Append(toUALCMP, [m EXCEPT !.sno = 0])
           [] m.method = "POST" /\ m.success
                /\ \A c \in meAppMap : c.ctx # m.ctx -> toUALCMP
           [] OTHER -> Append(toUALCMP, m)
    /\ UNCHANGED <<configVars, deviceVars, requests, responses, ualcmpVars,
                   toOrchestrator, meAppMap, contextIdCounter, vim, thrown, starts,
                   turnedDown>>

------------------------------------------------------------------------------

RequestArrives(d) ==
    \E m \in requests : m.dev = d /\ (RefuseRequest(m) \/ AcceptRequest(m))
ResponseArrives(d) ==
    \E m \in responses : m.dev = d /\ (ListArrives(m) \/ ResultArrives(m))
Serve == ServeGet \/ PassOn
Orchestrate == StartMECApp \/ StopMECApp

Next ==
    \/ \E d \in Devices : \/ StartContext(d) \/ StopContext(d)
                          \/ RequestArrives(d) \/ ResponseArrives(d)
    \/ Serve \/ Orchestrate \/ AckArrives
    \/ \E m \in delayed : DelayEnds(m)

Spec == Init /\ [][Next]_vars

\* TCP delivers, and every event that is scheduled is handled.
FairSpec ==
    /\ Spec
    /\ \A d \in Devices :
         /\ WF_vars(RequestArrives(d)) /\ WF_vars(ResponseArrives(d))
         /\ WF_vars(\E m \in delayed : /\ [sno |-> m.sno, dev |-> d] \in pending
                                       /\ DelayEnds(m))
    /\ WF_vars(Serve) /\ WF_vars(Orchestrate) /\ WF_vars(AckArrives)

------------------------------------------------------------------------------

AppsOn(h) == {c \in meAppMap : c.host = h}

\* The orchestrator and the VIMs agree whatever was refused or thrown: a host
\* runs one application for every context the orchestrator keeps for it, a
\* device has one context, the counters of the host count those applications,
\* and its gates are each free or used by one of them.
HostAgrees(h) ==
    LET v == vim[h]
        used == {a.gate : a \in v.apps}
        n == Cardinality(AppsOn(h))
    IN  /\ {a.dev : a \in v.apps} = {c.dev : c \in AppsOn(h)}
        /\ n = v.currentMEApps /\ n = v.allocated
        /\ n = Cardinality(v.apps) /\ n = Cardinality(used)
        /\ Len(v.freeGates) = MaxApps - n
        /\ used \cup {v.freeGates[i] : i \in DOMAIN v.freeGates} = Gates
HostsAgree ==
    /\ \A h \in Hosts : HostAgrees(h)
    /\ \A d \in Devices : Cardinality(ContextsOf(d)) <= 1

Waiting(d) == appState[d] \in {"START", "CREATING", "DELETING"}

\* The places a request of a device and its answer can be in.
NumbersOf(d) == {p.sno : p \in {x \in pending : x.dev = d}}
Under(d) ==
    Cardinality({m \in requests : m.dev = d})
      + Cardinality({i \in DOMAIN queue : queue[i].dev = d})
      + (IF served # NoRequest /\ served.dev = d THEN 1 ELSE 0)
      + Cardinality({i \in DOMAIN toOrchestrator :
                       toOrchestrator[i].sno \in NumbersOf(d)})
      + Cardinality({m \in delayed : m.sno \in NumbersOf(d)})
      + Cardinality({i \in DOMAIN toUALCMP : toUALCMP[i].sno \in NumbersOf(d)})
      + Cardinality({m \in responses : m.dev = d})

\* What an answer that reaches a device must be: the list, the context that
\* runs the device's application, or the end of the device's context.
Suits(m) ==
    CASE appState[m.dev] = "START"    -> m.code = 200
      [] appState[m.dev] = "CREATING" ->
           m.code = 201 /\ \E c \in ContextsOf(m.dev) : c.ctx = m.ctx
      [] appState[m.dev] = "DELETING" -> m.code = 204 /\ ContextsOf(m.dev) = {}
      [] OTHER -> FALSE

\* The device knows the context, or the answer that tells it is under way.
Known(c) ==
    \/ appContext[c.dev] = c.ctx /\ appState[c.dev] \in {"APPCREATED", "DELETING"}
    \/ /\ appState[c.dev] = "CREATING"
       /\ \/ \E m \in delayed : m.ctx = c.ctx
          \/ \E i \in DOMAIN toUALCMP : toUALCMP[i].ctx = c.ctx
          \/ \E m \in responses : m.dev = c.dev /\ m.ctx = c.ctx

\* Room for every device on the hosts and in the queue.
Enough ==
    /\ NumHosts * (IF capacity - 1 < MaxApps THEN capacity - 1 ELSE MaxApps)
         >= Cardinality(Devices)
    /\ queueSize = 0 \/ queueSize >= Cardinality(Devices) - 1

\* Devices and orchestrator agree through all the hops between them, until a
\* creation fails or a request meets a full queue: exactly one request or
\* answer is under way for a device that waits and none for another, the
\* answer suits what the device asked for, no context is left behind that its
\* device does not hear of, and nothing throws.  With room for everybody no
\* creation fails and no request is refused.  Whatever happens, a device that
\* believes its application runs holds the context of it.
DevicesAgree ==
    /\ Enough => ~turnedDown
    /\ \A d \in Devices :
         appState[d] = "APPCREATED" => \E c \in ContextsOf(d) : c.ctx = appContext[d]
    /\ ~turnedDown =>
         /\ ~thrown
         /\ \A d \in Devices : Under(d) = IF Waiting(d) THEN 1 ELSE 0
         /\ \A m \in responses : Suits(m)
         /\ \A c \in meAppMap : Known(c)

\* Every request is answered: a device does not wait for ever, until a creation
\* fails or a request meets a full queue.
WaitEnds == \A d \in Devices : Waiting(d) ~> (~Waiting(d) \/ turnedDown)
=============================================================================
