-------------------------- MODULE MecLifecycleProofs --------------------------
(***************************************************************************)
(* For any number of devices, hosts, gates and resources, the orchestrator *)
(* and the hosts agree (HostsAgree), and so do the devices and the         *)
(* orchestrator (DevicesAgree).  The first needs nothing about the         *)
(* messages, as every event touches a context and its application          *)
(* together; the second follows the request of each device, and the answer *)
(* to it, from place to place.                                             *)
(***************************************************************************)
EXTENDS MecLifecycle, FiniteSetTheorems, FunctionTheorems, SequenceTheorems,
        WellFoundedInduction, TLAPS

\* The contexts: finitely many, one for a number and one for a device.
MapInv ==
    /\ contextIdCounter \in Nat
    /\ IsFiniteSet(meAppMap)
    /\ \A c \in meAppMap : c.host \in Hosts /\ c.ctx \in Nat /\ c.ctx < contextIdCounter
    /\ \A c, e \in meAppMap : c.ctx = e.ctx \/ c.dev = e.dev => c = e

\* The applications of a host: finitely many, one for a device and for a gate,
\* and every gate is free or used, once.
AppsInv(v) ==
    /\ IsFiniteSet(v.apps)
    /\ \A a, b \in v.apps : a.dev = b.dev \/ a.gate = b.gate => a = b
    /\ v.currentMEApps = Cardinality(v.apps)
    /\ v.allocated = Cardinality(v.apps)
    /\ v.freeGates \in Seq(Gates)
    /\ Len(v.freeGates) = MaxApps - Cardinality(v.apps)
    /\ \A a \in v.apps : a.gate \in Gates
    /\ \A g \in Gates : \/ \E a \in v.apps : a.gate = g
                        \/ \E i \in 1..Len(v.freeGates) : v.freeGates[i] = g
    /\ \A i \in 1..Len(v.freeGates) : \A a \in v.apps : a.gate # v.freeGates[i]
    /\ \A i, j \in 1..Len(v.freeGates) :
          v.freeGates[i] = v.freeGates[j] => i = j

\* A host runs the applications the orchestrator knows, and their number.
Agree(apps, contexts) ==
    /\ \A a \in apps : \E c \in contexts : c.dev = a.dev
    /\ \A c \in contexts : \E a \in apps : a.dev = c.dev
    /\ Cardinality(contexts) = Cardinality(apps)

HostInv(h) == AppsInv(vim[h]) /\ Agree(vim[h].apps, AppsOn(h))

\* The inductive invariant.
IInv ==
    /\ MapInv
    /\ DOMAIN vim = Hosts
    /\ \A h \in Hosts : HostInv(h)

------------------------------------------------------------------------------
(* The VIM of one host. *)

\* instantiateMEApp takes a gate that no application uses.
LEMMA InstantiatedKeeps ==
    ASSUME NEW v, NEW d, AppsInv(v), v.currentMEApps < MaxApps,
           \A a \in v.apps : a.dev # d
    PROVE  /\ AppsInv(Instantiated(v, d))
           /\ Instantiated(v, d).apps = v.apps \cup {[dev |-> d, gate |-> Head(v.freeGates)]}
           /\ [dev |-> d, gate |-> Head(v.freeGates)] \notin v.apps
<1> DEFINE g == Head(v.freeGates)
           x == [dev |-> d, gate |-> g]
           w == Instantiated(v, d)
<1>1. Cardinality(v.apps) \in Nat
  BY FS_CardinalityType DEF AppsInv
<1>2. Len(v.freeGates) >= 1 /\ v.freeGates # <<>>
  BY <1>1, LifecycleAssumption DEF AppsInv
<1>3. g = v.freeGates[1] /\ g \in Gates
  BY <1>2 DEF AppsInv
<1>4. /\ w.freeGates \in Seq(Gates) /\ Len(w.freeGates) = Len(v.freeGates) - 1
      /\ \A i \in 1..Len(w.freeGates) :
            i + 1 \in 1..Len(v.freeGates) /\ w.freeGates[i] = v.freeGates[i + 1]
  BY <1>2 DEF Instantiated, AppsInv
<1>5. /\ w.apps = v.apps \cup {x} /\ x \notin v.apps
      /\ w.currentMEApps = v.currentMEApps + 1 /\ w.allocated = v.allocated + 1
  BY DEF Instantiated
<1>6. IsFiniteSet(w.apps) /\ Cardinality(w.apps) = Cardinality(v.apps) + 1
  BY <1>5, FS_AddElement DEF AppsInv
<1>7. \A a \in v.apps : a.gate # g
  BY <1>2, <1>3 DEF AppsInv
<1>8. \A a, b \in w.apps : a.dev = b.dev \/ a.gate = b.gate => a = b
  BY <1>5, <1>7 DEF AppsInv
<1>9. \A a \in w.apps : a.gate \in Gates
  BY <1>3, <1>5 DEF AppsInv
<1>10. ASSUME NEW f \in Gates
       PROVE  \/ \E a \in w.apps : a.gate = f
              \/ \E i \in 1..Len(w.freeGates) : w.freeGates[i] = f
  <2>1. CASE \E a \in v.apps : a.gate = f
    BY <1>5, <2>1
  <2>2. CASE \E i \in 1..Len(v.freeGates) : v.freeGates[i] = f
    <3>1. PICK i \in 1..Len(v.freeGates) : v.freeGates[i] = f
      BY <2>2
    <3>2. CASE i = 1
      BY <1>3, <1>5, <3>1, <3>2
    <3>3. CASE i # 1
      <4>1. i - 1 \in 1..Len(w.freeGates) /\ i - 1 + 1 = i
        BY <1>4, <3>1, <3>3, <1>1 DEF AppsInv
      <4> QED
        BY <1>4, <3>1, <4>1
    <3> QED
      BY <3>2, <3>3
  <2> QED
    BY <2>1, <2>2 DEF AppsInv
<1>11. \A i \in 1..Len(w.freeGates) : \A a \in w.apps : a.gate # w.freeGates[i]
  <2>1. TAKE i \in 1..Len(w.freeGates)
  <2>2. i + 1 # 1 /\ i + 1 \in 1..Len(v.freeGates) /\ 1 \in 1..Len(v.freeGates)
    BY <1>2, <1>4
  <2>3. v.freeGates[i + 1] # g
    BY <1>3, <2>2 DEF AppsInv
  <2> QED
    BY <1>4, <1>5, <2>2, <2>3 DEF AppsInv
<1>12. \A i, j \in 1..Len(w.freeGates) : w.freeGates[i] = w.freeGates[j] => i = j
  <2>1. TAKE i, j \in 1..Len(w.freeGates)
  <2>2. v.freeGates[i + 1] = v.freeGates[j + 1] => i + 1 = j + 1
    BY <1>4 DEF AppsInv
  <2> QED
    BY <1>4, <2>2
<1>13. /\ w.currentMEApps = Cardinality(w.apps) /\ w.allocated = Cardinality(w.apps)
       /\ Len(w.freeGates) = MaxApps - Cardinality(w.apps)
  BY <1>1, <1>4, <1>5, <1>6, LifecycleAssumption DEF AppsInv
<1> QED
  BY <1>4, <1>5, <1>6, <1>8, <1>9, <1>10, <1>11, <1>12, <1>13 DEF AppsInv

\* terminateMEApp gives back the gate of the application it ends.
LEMMA TerminatedKeeps ==
    ASSUME NEW v, NEW d, AppsInv(v), NEW x \in v.apps, x.dev = d
    PROVE  /\ AppsInv(Terminated(v, d))
           /\ Terminated(v, d).apps = v.apps \ {x}
<1> DEFINE w == Terminated(v, d)
<1>1. Cardinality(v.apps) \in Nat
  BY FS_CardinalityType DEF AppsInv
<1>2. (CHOOSE a \in v.apps : a.dev = d) = x
  BY DEF AppsInv
<1>3. /\ w.apps = v.apps \ {x} /\ w.freeGates = Append(v.freeGates, x.gate)
      /\ w.currentMEApps = v.currentMEApps - 1 /\ w.allocated = v.allocated - 1
  BY <1>2 DEF Terminated
<1>4. x.gate \in Gates
  BY DEF AppsInv
<1>5. /\ w.freeGates \in Seq(Gates) /\ Len(w.freeGates) = Len(v.freeGates) + 1
      /\ \A i \in 1..Len(v.freeGates) : w.freeGates[i] = v.freeGates[i]
      /\ w.freeGates[Len(v.freeGates) + 1] = x.gate
      /\ Len(v.freeGates) \in Nat
  BY <1>3, <1>4 DEF AppsInv
<1>6. IsFiniteSet(w.apps) /\ Cardinality(w.apps) = Cardinality(v.apps) - 1
  BY <1>3, FS_RemoveElement DEF AppsInv
<1>7. \A a \in w.apps : a \in v.apps /\ a.gate # x.gate
  BY <1>3 DEF AppsInv
<1>8. ASSUME NEW f \in Gates
      PROVE  \/ \E a \in w.apps : a.gate = f
             \/ \E i \in 1..Len(w.freeGates) : w.freeGates[i] = f
  <2>1. CASE f = x.gate
    <3>1. Len(v.freeGates) + 1 \in 1..Len(w.freeGates)
      BY <1>5
    <3> QED
      BY <1>5, <2>1, <3>1
  <2>2. CASE f # x.gate /\ \E a \in v.apps : a.gate = f
    BY <1>3, <2>2
  <2>3. CASE \E i \in 1..Len(v.freeGates) : v.freeGates[i] = f
    BY <1>5, <2>3
  <2> QED
    BY <2>1, <2>2, <2>3 DEF AppsInv
<1>9. \A i \in 1..Len(w.freeGates) :
        \/ i \in 1..Len(v.freeGates) /\ w.freeGates[i] = v.freeGates[i]
        \/ i = Len(v.freeGates) + 1 /\ w.freeGates[i] = x.gate
  BY <1>5
<1>10. \A i \in 1..Len(w.freeGates) : \A a \in w.apps : a.gate # w.freeGates[i]
  BY <1>7, <1>9 DEF AppsInv
<1>11. \A i, j \in 1..Len(w.freeGates) : w.freeGates[i] = w.freeGates[j] => i = j
  BY <1>9 DEF AppsInv
<1>12. /\ w.currentMEApps = Cardinality(w.apps) /\ w.allocated = Cardinality(w.apps)
       /\ Len(w.freeGates) = MaxApps - Cardinality(w.apps)
  BY <1>1, <1>3, <1>5, <1>6, LifecycleAssumption DEF AppsInv
<1>13. /\ \A a, b \in w.apps : a.dev = b.dev \/ a.gate = b.gate => a = b
       /\ \A a \in w.apps : a.gate \in Gates
  BY <1>3 DEF AppsInv
<1> QED
  BY <1>3, <1>5, <1>6, <1>8, <1>10, <1>11, <1>12, <1>13 DEF AppsInv

------------------------------------------------------------------------------
(* The events.  Only the orchestrator changes the contexts and the hosts.  *)

hostVars == <<meAppMap, contextIdCounter, vim>>

LEMMA UnchangedKeeps ==
    ASSUME IInv, UNCHANGED hostVars
    PROVE  IInv'
<1>1. \A h : AppsOn(h)' = AppsOn(h)
  BY DEF AppsOn, hostVars
<1> QED
  BY <1>1 DEF IInv, MapInv, HostInv, hostVars

\* A new context is placed on a host with room for it.
LEMMA PlaceKeeps ==
    ASSUME IInv, NEW m, ContextsOf(m.dev) = {}, NEW h \in BestHosts, Place(m, h)
    PROVE  IInv'
<1> DEFINE new == [ctx |-> contextIdCounter, dev |-> m.dev, host |-> h]
<1>1. h \in Hosts /\ vim[h].currentMEApps < MaxApps
  BY DEF BestHosts, Allocable
<1>2. /\ meAppMap' = meAppMap \cup {new} /\ contextIdCounter' = contextIdCounter + 1
      /\ vim' = [vim EXCEPT ![h] = Instantiated(@, m.dev)]
  BY DEF Place
<1>3. \A c \in meAppMap : c.dev # m.dev /\ c.ctx # contextIdCounter
  BY DEF ContextsOf, IInv, MapInv
<1>4. MapInv'
  <2>1. IsFiniteSet(meAppMap')
    BY <1>2, FS_AddElement DEF IInv, MapInv
  <2>2. \A c \in meAppMap' : c.host \in Hosts /\ c.ctx \in Nat /\ c.ctx < contextIdCounter'
    BY <1>1, <1>2 DEF IInv, MapInv
  <2>3. \A c, e \in meAppMap' : c.ctx = e.ctx \/ c.dev = e.dev => c = e
    BY <1>2, <1>3 DEF IInv, MapInv
  <2> QED
    BY <1>2, <2>1, <2>2, <2>3 DEF IInv, MapInv
<1>5. HostInv(h)'
  <2>1. AppsInv(vim[h]) /\ Agree(vim[h].apps, AppsOn(h))
    BY <1>1 DEF IInv, HostInv
  <2>2. \A a \in vim[h].apps : a.dev # m.dev
    BY <1>3, <2>1 DEF Agree, AppsOn
  <2>3. vim'[h] = Instantiated(vim[h], m.dev)
    BY <1>1, <1>2 DEF IInv
  <2> DEFINE x == [dev |-> m.dev, gate |-> Head(vim[h].freeGates)]
  <2>4. /\ x.dev = m.dev /\ x \notin vim[h].apps
        /\ AppsInv(vim'[h]) /\ vim'[h].apps = vim[h].apps \cup {x}
    BY <1>1, <2>1, <2>2, <2>3, InstantiatedKeeps
  <2> HIDE DEF x
  <2>5. AppsOn(h)' = AppsOn(h) \cup {new} /\ new \notin AppsOn(h)
    BY <1>2, <1>3 DEF AppsOn
  <2>6. IsFiniteSet(AppsOn(h)) /\ IsFiniteSet(vim[h].apps)
    BY <2>1, FS_Subset DEF IInv, MapInv, AppsOn, AppsInv
  <2>7. Cardinality(AppsOn(h)') = Cardinality(vim'[h].apps)
    <3>1. Cardinality(AppsOn(h)') = Cardinality(AppsOn(h)) + 1
      BY <2>5, <2>6, FS_AddElement
    <3>2. Cardinality(vim'[h].apps) = Cardinality(vim[h].apps) + 1
      BY <2>4, <2>6, FS_AddElement
    <3> QED
      BY <2>1, <3>1, <3>2 DEF Agree
  <2>8. Agree(vim'[h].apps, AppsOn(h)')
    BY <2>1, <2>4, <2>5, <2>7 DEF Agree
  <2> QED
    BY <2>4, <2>8 DEF HostInv
<1>6. ASSUME NEW g \in Hosts, g # h
      PROVE  HostInv(g)'
  <2>1. vim'[g] = vim[g] /\ AppsOn(g)' = AppsOn(g)
    BY <1>2, <1>6 DEF IInv, AppsOn
  <2> QED
    BY <2>1 DEF IInv, HostInv
<1>7. DOMAIN vim' = Hosts
  BY <1>2 DEF IInv
<1> QED
  BY <1>4, <1>5, <1>6, <1>7 DEF IInv

LEMMA StartKeeps ==
    ASSUME IInv, StartMECApp
    PROVE  IInv'
<1> DEFINE m == Head(toOrchestrator)
<1>1. CASE ContextsOf(m.dev) # {}
  BY <1>1, UnchangedKeeps DEF StartMECApp, AlreadyStarted, orchVars, hostVars
<1>2. CASE ContextsOf(m.dev) = {} /\ BestHosts = {}
  BY <1>2, UnchangedKeeps DEF StartMECApp, DoNotPlace, hostVars
<1>3. CASE ContextsOf(m.dev) = {} /\ BestHosts # {}
  BY <1>3, PlaceKeeps DEF StartMECApp
<1> QED
  BY <1>1, <1>2, <1>3

\* A context and its application go together.
LEMMA StopKeeps ==
    ASSUME IInv, StopMECApp
    PROVE  IInv'
<1> DEFINE m == Head(toOrchestrator)
           known == {c \in meAppMap : c.ctx = m.ctx}
<1>1. CASE known = {}
  BY <1>1, UnchangedKeeps DEF StopMECApp, hostVars
<1>2. CASE known # {}
  <2>1. PICK c \in known : /\ meAppMap' = meAppMap \ {c}
                           /\ vim' = [vim EXCEPT ![c.host] = Terminated(@, c.dev)]
    BY <1>2 DEF StopMECApp
  <2> DEFINE h == c.host
  <2>2. c \in meAppMap /\ h \in Hosts /\ contextIdCounter' = contextIdCounter
    BY <2>1 DEF IInv, MapInv, StopMECApp
  <2>3. MapInv'
    BY <2>1, <2>2, FS_RemoveElement DEF IInv, MapInv
  <2>4. HostInv(h)'
    <3>1. AppsInv(vim[h]) /\ Agree(vim[h].apps, AppsOn(h)) /\ c \in AppsOn(h)
      BY <2>2 DEF IInv, HostInv, AppsOn
    <3>2. PICK x \in vim[h].apps : x.dev = c.dev
      BY <3>1 DEF Agree
    <3>3. vim'[h] = Terminated(vim[h], c.dev)
      BY <2>1, <2>2 DEF IInv
    <3>4. AppsInv(vim'[h]) /\ vim'[h].apps = vim[h].apps \ {x}
      BY <3>1, <3>2, <3>3, TerminatedKeeps
    <3>5. AppsOn(h)' = AppsOn(h) \ {c}
      BY <2>1 DEF AppsOn
    <3>6. IsFiniteSet(AppsOn(h)) /\ IsFiniteSet(vim[h].apps)
      BY <3>1, FS_Subset DEF IInv, MapInv, AppsOn, AppsInv
    <3>7. Cardinality(AppsOn(h)') = Cardinality(vim'[h].apps)
      <4>1. Cardinality(AppsOn(h)') = Cardinality(AppsOn(h)) - 1
        BY <3>1, <3>5, <3>6, FS_RemoveElement
      <4>2. Cardinality(vim'[h].apps) = Cardinality(vim[h].apps) - 1
        BY <3>2, <3>4, <3>6, FS_RemoveElement
      <4> QED
        BY <3>1, <4>1, <4>2 DEF Agree
    <3>8. \A a \in vim'[h].apps : \E e \in AppsOn(h)' : e.dev = a.dev
      BY <3>1, <3>2, <3>4, <3>5 DEF Agree, AppsInv
    <3>9. \A e \in AppsOn(h)' : \E a \in vim'[h].apps : a.dev = e.dev
      BY <2>2, <3>1, <3>2, <3>4, <3>5 DEF Agree, AppsOn, IInv, MapInv
    <3> QED
      BY <3>4, <3>7, <3>8, <3>9 DEF HostInv, Agree
  <2>5. ASSUME NEW g \in Hosts, g # h
        PROVE  HostInv(g)'
    <3>1. vim'[g] = vim[g] /\ AppsOn(g)' = AppsOn(g)
      BY <2>1, <2>2, <2>5 DEF IInv, AppsOn
    <3> QED
      BY <3>1 DEF IInv, HostInv
  <2>6. DOMAIN vim' = Hosts
    BY <2>1 DEF IInv
  <2> QED
    BY <2>3, <2>4, <2>5, <2>6 DEF IInv
<1> QED
  BY <1>1, <1>2

\* No other event changes a context or a host.
LEMMA OthersKeep ==
    ASSUME [Next]_vars, ~StartMECApp, ~StopMECApp
    PROVE  UNCHANGED hostVars
<1>1. ASSUME NEW d \in Devices, StartContext(d) \/ StopContext(d)
      PROVE  UNCHANGED hostVars
  BY <1>1 DEF StartContext, StopContext, orchVars, hostVars
<1>2. ASSUME NEW d \in Devices, RequestArrives(d)
      PROVE  UNCHANGED hostVars
  BY <1>2 DEF RequestArrives, RefuseRequest, AcceptRequest, orchVars, hostVars
<1>3. ASSUME NEW d \in Devices, ResponseArrives(d)
      PROVE  UNCHANGED hostVars
  BY <1>3 DEF ResponseArrives, ListArrives, ResultArrives, orchVars, hostVars
<1>4. ASSUME Serve \/ AckArrives
      PROVE  UNCHANGED hostVars
  BY <1>4 DEF Serve, ServeGet, PassOn, AckArrives, orchVars, hostVars
<1>5. ASSUME NEW m \in delayed, DelayEnds(m)
      PROVE  UNCHANGED hostVars
  BY <1>5 DEF DelayEnds, hostVars
<1>6. ASSUME UNCHANGED vars
      PROVE  UNCHANGED hostVars
  BY <1>6 DEF vars, orchVars, hostVars
<1> QED
  BY <1>1, <1>2, <1>3, <1>4, <1>5, <1>6 DEF Next, Orchestrate

LEMMA InitInvariant == Init => IInv
<1> SUFFICES ASSUME Init PROVE IInv
  OBVIOUS
<1>1. MapInv
  BY FS_EmptySet DEF Init, MapInv
<1>2. ASSUME NEW h \in Hosts
      PROVE  HostInv(h)
  <2>1. vim[h] = EmptyVim /\ AppsOn(h) = {}
    BY DEF Init, AppsOn
  <2>2. /\ EmptyVim.freeGates \in Seq(Gates) /\ Len(EmptyVim.freeGates) = MaxApps
        /\ \A i \in 1..MaxApps : EmptyVim.freeGates[i] = i - 1
    BY LifecycleAssumption DEF EmptyVim, Gates
  <2>3. ASSUME NEW f \in Gates
        PROVE  \E i \in 1..Len(EmptyVim.freeGates) : EmptyVim.freeGates[i] = f
    <3>1. f \in Int /\ f + 1 \in 1..MaxApps
      BY LifecycleAssumption DEF Gates
    <3>2. EmptyVim.freeGates[f + 1] = f + 1 - 1
      BY <2>2, <3>1
    <3>3. f + 1 \in 1..Len(EmptyVim.freeGates)
      BY <2>2, <3>1
    <3> QED
      BY <3>1, <3>2, <3>3
  <2>4. EmptyVim.apps = {} /\ EmptyVim.currentMEApps = 0 /\ EmptyVim.allocated = 0
    BY DEF EmptyVim
  <2>5. AppsInv(EmptyVim)
    BY <2>2, <2>3, <2>4, FS_EmptySet, LifecycleAssumption DEF AppsInv
  <2> QED
    BY <2>1, <2>4, <2>5, FS_EmptySet DEF HostInv, Agree
<1>3. DOMAIN vim = Hosts
  BY DEF Init
<1> QED
  BY <1>1, <1>2, <1>3 DEF IInv

\* Contexts and applications stay in step through every event of the life cycle.
THEOREM Invariant == Spec => []IInv
<1>1. IInv /\ [Next]_vars => IInv'
  BY StartKeeps, StopKeeps, OthersKeep, UnchangedKeeps
<1> QED
  BY <1>1, InitInvariant, PTL DEF Spec

------------------------------------------------------------------------------
(* The hosts. *)

\* The gates in use are as many as the applications.
LEMMA GatesCounted ==
    ASSUME NEW apps, IsFiniteSet(apps),
           \A a, b \in apps : a.gate = b.gate => a = b
    PROVE  Cardinality({a.gate : a \in apps}) = Cardinality(apps)
<1> DEFINE gate == [a \in apps |-> a.gate]
           gates == {a.gate : a \in apps}
<1>1. gate \in Bijection(apps, gates)
  BY Fun_IsBij, Zenon
<1> QED
  BY <1>1, FS_Bijection DEF ExistsBijection

\* Orchestrator and hosts agree, whatever is refused, for any number of devices,
\* hosts, gates and resources, and without any assumption about the messages.
THEOREM HostsStayInAgreement == Spec => []HostsAgree
<1>1. IInv => HostsAgree
  <2> SUFFICES ASSUME IInv PROVE HostsAgree
    OBVIOUS
  <2>1. ASSUME NEW h \in Hosts
        PROVE  HostAgrees(h)
    <3> DEFINE v == vim[h]
    <3>1. AppsInv(v) /\ Agree(v.apps, AppsOn(h))
      BY DEF IInv, HostInv
    <3>2. {a.dev : a \in v.apps} = {c.dev : c \in AppsOn(h)}
      BY <3>1 DEF Agree
    <3>3. Cardinality({a.gate : a \in v.apps}) = Cardinality(v.apps)
      BY <3>1, GatesCounted DEF AppsInv
    <3>4. {a.gate : a \in v.apps} \cup {v.freeGates[i] : i \in DOMAIN v.freeGates}
            = Gates
      BY <3>1 DEF AppsInv
    <3> QED
      BY <3>1, <3>2, <3>3, <3>4 DEF AppsInv, Agree, HostAgrees
  <2>2. ASSUME NEW d \in Devices
        PROVE  Cardinality(ContextsOf(d)) <= 1
    <3>1. CASE ContextsOf(d) = {}
      BY <3>1, FS_EmptySet
    <3>2. CASE ContextsOf(d) # {}
      <4>1. PICK c : c \in ContextsOf(d)
        BY <3>2
      <4>2. ContextsOf(d) = {c}
        BY <4>1 DEF ContextsOf, IInv, MapInv
      <4> QED
        BY <4>2, FS_Singleton
    <3> QED
      BY <3>1, <3>2
  <2> QED
    BY <2>1, <2>2 DEF HostsAgree
<1> QED
  BY <1>1, Invariant, PTL

------------------------------------------------------------------------------
(* The devices and the orchestrator.  pl[d] is the place in which the       *)
(* request of device d, or the answer to it, is.                           *)

Asks == [dev : Devices, method : {"GET", "POST", "DELETE"}, ctx : Int]
Orders == [method : {"POST", "DELETE"}, sno : Nat, dev : Devices, ctx : Int]
Acks == [method : {"POST", "DELETE"}, sno : Nat, success : BOOLEAN, ctx : Int]
Answers == [dev : Devices, code : {200, 201, 204, 500, 503}, ctx : Int]
States == {"IDLE", "START", "CREATING", "APPCREATED", "DELETING"}

MessageTypes ==
    /\ appState \in [Devices -> States] /\ appContext \in [Devices -> Int]
    /\ requests \in SUBSET Asks /\ queue \in Seq(Asks)
    /\ served \in Asks \cup {NoRequest} /\ (served = NoRequest => queue = <<>>)
    /\ requestSno \in Nat /\ pending \in SUBSET [sno : Nat, dev : Devices]
    /\ toOrchestrator \in Seq(Orders) /\ delayed \in SUBSET Acks
    /\ toUALCMP \in Seq(Acks) /\ responses \in SUBSET Answers
    /\ \A c \in meAppMap : c.dev \in Devices

AtOrchestrator == {"ordered", "delayed", "acked", "lost"}
Places == AtOrchestrator \cup {"none", "asked", "queued", "served", "answered"}

\* Each device has one request or answer under way, if any.
OneUnderWay(pl) ==
    /\ pl \in [Devices -> Places]
    /\ \A d \in Devices :
          /\ pl[d] = "asked" <=> \E m \in requests : m.dev = d
          /\ pl[d] = "queued" <=> \E i \in 1..Len(queue) : queue[i].dev = d
          /\ pl[d] = "served" <=> served # NoRequest /\ served.dev = d
          /\ pl[d] \in AtOrchestrator <=> \E p \in pending : p.dev = d
          /\ pl[d] = "answered" <=> \E m \in responses : m.dev = d
    /\ \A m, n \in requests : m.dev = n.dev => m = n
    /\ \A i, j \in 1..Len(queue) : queue[i].dev = queue[j].dev => i = j
    /\ \A p, q \in pending : p.dev = q.dev \/ p.sno = q.sno => p = q
    /\ \A m, n \in responses : m.dev = n.dev => m = n

\* A request suits the state of its device and what the orchestrator has of it.
Fits(m) ==
    \/ m.method = "GET" /\ appState[m.dev] = "START"
    \/ m.method = "POST" /\ appState[m.dev] = "CREATING" /\ ContextsOf(m.dev) = {}
    \/ /\ m.method = "DELETE" /\ appState[m.dev] = "DELETING"
       /\ \E c \in ContextsOf(m.dev) : c.ctx = m.ctx

RequestsFit ==
    /\ \A m \in requests : Fits(m)
    /\ \A i \in 1..Len(queue) : Fits(queue[i])
    /\ served # NoRequest => Fits(served)

\* So does the answer the orchestrator has for device d.
Tells(m, d) ==
    IF m.method = "POST"
    THEN /\ appState[d] = "CREATING"
         /\ IF m.success THEN \E c \in ContextsOf(d) : c.ctx = m.ctx ELSE turnedDown
    ELSE m.success /\ appState[d] = "DELETING" /\ ContextsOf(d) = {}

AnswerFits(m) ==
    \/ m.code = 200 /\ appState[m.dev] = "START"
    \/ /\ m.code = 201 /\ appState[m.dev] = "CREATING"
       /\ \E c \in ContextsOf(m.dev) : c.ctx = m.ctx
    \/ m.code = 204 /\ appState[m.dev] = "DELETING" /\ ContextsOf(m.dev) = {}
    \/ turnedDown /\ m.code = 500 /\ appState[m.dev] = "CREATING"
    \/ turnedDown /\ m.code = 503 /\ Waiting(m.dev)

\* The refusal of a creation has answered request 0, which is not pending any more.
Orphan(n) == turnedDown /\ n = 0 /\ requestSno > 0 /\ \A p \in pending : p.sno # 0

OrdersFit(pl) ==
    \A i \in 1..Len(toOrchestrator) :
       LET m == toOrchestrator[i]
       IN  \/ /\ \E p \in pending : p.sno = m.sno /\ p.dev = m.dev
              /\ pl[m.dev] = "ordered" /\ Fits(m)
           \/ /\ Orphan(m.sno) /\ m.method = "POST"
              /\ \E r \in responses : r.dev = m.dev /\ r.code = 500
DelayedFit(pl) ==
    \A m \in delayed :
       \/ \E p \in pending : p.sno = m.sno /\ pl[p.dev] = "delayed" /\ Tells(m, p.dev)
       \/ Orphan(m.sno)
AcksFit(pl) ==
    \A i \in 1..Len(toUALCMP) :
       LET m == toUALCMP[i]
       IN  \/ \E p \in pending : p.sno = m.sno /\ pl[p.dev] = "acked"
                                 /\ m.success /\ Tells(m, p.dev)
           \/ turnedDown /\ m.sno = 0 /\ m.method = "POST" /\ ~m.success
           \/ Orphan(m.sno)

\* A number is used once.
NumbersOnce ==
    /\ \A p \in pending : /\ p.sno < requestSno
                          /\ p.sno = 0 => appState[p.dev] = "CREATING"
    /\ requestSno = 0 => meAppMap = {}
    /\ \A i, j \in 1..Len(toOrchestrator) :
          toOrchestrator[i].sno = toOrchestrator[j].sno => i = j
    /\ \A m, n \in delayed : m.sno = n.sno => m = n
    /\ \A i \in 1..Len(toOrchestrator), m \in delayed : toOrchestrator[i].sno # m.sno
    /\ \A i, j \in 1..Len(toUALCMP) :
          toUALCMP[i].sno = toUALCMP[j].sno => i = j \/ (turnedDown /\ toUALCMP[i].sno = 0)

\* Until something is turned down, what is pending is somewhere.
NothingLost(pl) ==
    ~turnedDown =>
      /\ \A d \in Devices : pl[d] # "lost" /\ (Waiting(d) => pl[d] # "none")
      /\ \A p \in pending :
            /\ pl[p.dev] = "ordered" => \E i \in 1..Len(toOrchestrator) : toOrchestrator[i].sno = p.sno
            /\ pl[p.dev] = "delayed" => \E m \in delayed : m.sno = p.sno
            /\ pl[p.dev] = "acked" => \E i \in 1..Len(toUALCMP) : toUALCMP[i].sno = p.sno

\* What a state says of the place and of the contexts.
StateFits(pl) ==
    \A d \in Devices :
      /\ ~Waiting(d) => pl[d] = "none"
      /\ appState[d] \in {"IDLE", "START"} => ContextsOf(d) = {}
      /\ appState[d] \in {"APPCREATED", "DELETING"} =>
            \A c \in ContextsOf(d) : c.ctx = appContext[d]
      /\ pl[d] \in AtOrchestrator => appState[d] \in {"CREATING", "DELETING"}

Placed(pl) ==
    /\ OneUnderWay(pl) /\ RequestsFit /\ (\A m \in responses : AnswerFits(m))
    /\ OrdersFit(pl) /\ DelayedFit(pl) /\ AcksFit(pl)
    /\ NumbersOnce /\ NothingLost(pl) /\ StateFits(pl)

CreatedRuns ==
    \A d \in Devices :
       appState[d] = "APPCREATED" => \E c \in ContextsOf(d) : c.ctx = appContext[d]

\* A step that has nothing to do with the orchestrator.
OrchestratorSame(pl, q) ==
    /\ UNCHANGED <<toOrchestrator, delayed, toUALCMP, pending, requestSno, meAppMap>>
    /\ turnedDown => turnedDown'
    /\ \A e \in Devices : pl[e] \in AtOrchestrator \/ q[e] \in AtOrchestrator
                          => q[e] = pl[e] /\ appState'[e] = appState[e]
    /\ \A r \in responses : r.code = 500 => r \in responses'
    /\ ~turnedDown' => \A e \in Devices : Waiting(e)' => q[e] # "none"

\* What happens to a device whose request is not at the orchestrator does not
\* concern the messages to and from the orchestrator.
LEMMA OrchestratorKept ==
    ASSUME MessageTypes, NEW pl, Placed(pl), NEW q \in [Devices -> Places],
           OrchestratorSame(pl, q)
    PROVE  OrdersFit(q)' /\ DelayedFit(q)' /\ AcksFit(q)' /\ NumbersOnce' /\ NothingLost(q)'
<1> USE DEF OrchestratorSame
<1>1. \A d : ContextsOf(d)' = ContextsOf(d)
  BY DEF ContextsOf
<1>2. \A n : Orphan(n) => Orphan(n)'
  BY DEF Orphan
<1>3. \A p \in pending : p.dev \in Devices /\ pl[p.dev] \in AtOrchestrator
  BY DEF Placed, OneUnderWay, MessageTypes
<1>4. \A p \in pending : q[p.dev] = pl[p.dev] /\ appState'[p.dev] = appState[p.dev]
  BY <1>3
<1>5. OrdersFit(q)'
  <2> SUFFICES ASSUME NEW i \in 1..Len(toOrchestrator), NEW m, m = toOrchestrator[i]
               PROVE  \/ /\ \E p \in pending : p.sno = m.sno /\ p.dev = m.dev
                         /\ q[m.dev] = "ordered" /\ Fits(m)'
                      \/ /\ Orphan(m.sno)' /\ m.method = "POST"
                         /\ \E r \in responses' : r.dev = m.dev /\ r.code = 500
    BY DEF OrdersFit
  <2>1. CASE Orphan(m.sno) /\ m.method = "POST"
             /\ \E r \in responses : r.dev = m.dev /\ r.code = 500
    BY <1>2, <2>1
  <2>2. CASE (\E p \in pending : p.sno = m.sno /\ p.dev = m.dev)
             /\ pl[m.dev] = "ordered" /\ Fits(m)
    <3>1. PICK p \in pending : p.sno = m.sno /\ p.dev = m.dev
      BY <2>2
    <3>2. q[m.dev] = "ordered" /\ appState'[m.dev] = appState[m.dev]
      BY <1>4, <2>2, <3>1
    <3>3. Fits(m)'
      BY <1>1, <2>2, <3>2 DEF Fits
    <3> QED
      BY <3>1, <3>2, <3>3
  <2> QED
    BY <2>1, <2>2 DEF Placed, OrdersFit
<1>6. DelayedFit(q)'
  <2> SUFFICES ASSUME NEW m \in delayed, ~Orphan(m.sno)
               PROVE  \E p \in pending : p.sno = m.sno /\ q[p.dev] = "delayed"
                                         /\ Tells(m, p.dev)'
    BY <1>2 DEF DelayedFit
  <2>1. PICK p \in pending : p.sno = m.sno /\ pl[p.dev] = "delayed" /\ Tells(m, p.dev)
    BY DEF Placed, DelayedFit
  <2>2. Tells(m, p.dev)'
    BY <1>1, <1>4, <2>1 DEF Tells
  <2> QED
    BY <1>4, <2>1, <2>2
<1>7. AcksFit(q)'
  <2> SUFFICES ASSUME NEW i \in 1..Len(toUALCMP), NEW m, m = toUALCMP[i],
                      ~Orphan(m.sno),
                      ~(turnedDown /\ m.sno = 0 /\ m.method = "POST" /\ ~m.success)
               PROVE  \E p \in pending : p.sno = m.sno /\ q[p.dev] = "acked"
                                         /\ m.success /\ Tells(m, p.dev)'
    BY <1>2 DEF AcksFit
  <2>1. PICK p \in pending : p.sno = m.sno /\ pl[p.dev] = "acked" /\ m.success
                             /\ Tells(m, p.dev)
    BY DEF Placed, AcksFit
  <2>2. Tells(m, p.dev)'
    BY <1>1, <1>4, <2>1 DEF Tells
  <2> QED
    BY <1>4, <2>1, <2>2
<1>8. NumbersOnce'
  BY <1>4 DEF Placed, NumbersOnce
<1>9. NothingLost(q)'
  <2> SUFFICES ASSUME ~turnedDown' PROVE NothingLost(q)'
    BY DEF NothingLost
  <2>1. \A d \in Devices : q[d] # "lost"
    BY DEF Placed, NothingLost, AtOrchestrator
  <2> QED
    BY <1>4, <2>1 DEF Placed, NothingLost
<1> QED
  BY <1>5, <1>6, <1>7, <1>8, <1>9

\* The UALCMP has served a request, which goes to place x, and takes the next.
Handed(pl, x) ==
    [d \in Devices |-> IF d = served.dev THEN x
                       ELSE IF queue # <<>> /\ d = queue[1].dev THEN "served" ELSE pl[d]]

\* The places when the UALCMP takes the next request (scheduleNextEvent).
LEMMA NextServed ==
    ASSUME MessageTypes, NEW pl, OneUnderWay(pl), served # NoRequest, ServeNext(queue),
           NEW x \in Places \ {"queued", "served"}, NEW q, q = Handed(pl, x)
    PROVE  /\ q \in [Devices -> Places] /\ queue' \in Seq(Asks)
           /\ served' \in Asks \cup {NoRequest} /\ (served' = NoRequest => queue' = <<>>)
           /\ served.dev \in Devices /\ pl[served.dev] = "served" /\ q[served.dev] = x
           /\ \A d \in Devices :
                 /\ q[d] = "queued" <=> \E i \in 1..Len(queue') : queue'[i].dev = d
                 /\ q[d] = "served" <=> served' # NoRequest /\ served'.dev = d
                 /\ d # served.dev => \/ q[d] = pl[d]
                                      \/ pl[d] = "queued" /\ q[d] = "served"
           /\ \A i, j \in 1..Len(queue') : queue'[i].dev = queue'[j].dev => i = j
           /\ \A i \in 1..Len(queue) : queue[i].dev # served.dev
           /\ served' # NoRequest => \E i \in 1..Len(queue) : served' = queue[i]
           /\ \A i \in 1..Len(queue') : \E j \in 1..Len(queue) : queue'[i] = queue[j]
<1> DEFINE A == Asks
<1>1. queue \in Seq(A) /\ served \in A
  BY DEF MessageTypes
<1>2. \A m \in A : m # NoRequest /\ m.dev \in Devices
  BY LifecycleAssumption DEF Asks
<1> HIDE DEF A
<1>3. served.dev \in Devices /\ pl[served.dev] = "served"
  BY <1>1, <1>2 DEF OneUnderWay
<1>4. \A i \in 1..Len(queue) : /\ queue[i] \in A /\ queue[i].dev \in Devices
                               /\ pl[queue[i].dev] = "queued" /\ queue[i].dev # served.dev
  <2>1. \A i \in 1..Len(queue) : queue[i] \in A /\ queue[i].dev \in Devices
    BY <1>1, <1>2
  <2>2. \A i \in 1..Len(queue) : pl[queue[i].dev] = "queued"
    BY <2>1 DEF OneUnderWay
  <2> QED
    BY <1>3, <2>1, <2>2
<1>5. \A i, j \in 1..Len(queue) : queue[i].dev = queue[j].dev => i = j
  BY DEF OneUnderWay
<1>6. pl \in [Devices -> Places] /\ \A d \in Devices :
         /\ pl[d] = "queued" <=> \E i \in 1..Len(queue) : queue[i].dev = d
         /\ pl[d] = "served" <=> served.dev = d
  BY <1>2, <1>1 DEF OneUnderWay
<1>7. /\ q \in [Devices -> Places] /\ q[served.dev] = x
      /\ \A d \in Devices : q[d] = IF d = served.dev THEN x
                                   ELSE IF queue # <<>> /\ d = queue[1].dev THEN "served"
                                   ELSE pl[d]
  BY <1>3, <1>6 DEF Handed, Places
<1>8. CASE queue = <<>>
  <2>1. served' = NoRequest /\ queue' = <<>> /\ 1..Len(queue') = {} /\ 1..Len(queue) = {}
    BY <1>8 DEF ServeNext
  <2>2. \A d \in Devices : q[d] # "queued" /\ q[d] # "served" /\ (d # served.dev => q[d] = pl[d])
    BY <1>6, <1>7, <1>8, <2>1
  <2>3. queue' \in Seq(Asks)
    BY <2>1
  <2> QED
    BY <1>3, <1>7, <2>1, <2>2, <2>3
<1>9. CASE queue # <<>>
  <2>1. served' = queue[1] /\ queue' = Tail(queue) /\ Len(queue) \in Nat /\ 1 \in 1..Len(queue)
    BY <1>1, <1>9 DEF ServeNext
  <2>2. /\ queue' \in Seq(A) /\ Len(queue') = Len(queue) - 1
        /\ \A i \in 1..Len(queue') : i + 1 \in 1..Len(queue) /\ queue'[i] = queue[i + 1]
    BY <1>1, <1>9, <2>1
  <2>3. served' \in A /\ served' # NoRequest
    BY <1>2, <1>4, <2>1
  <2>4. ASSUME NEW d \in Devices
        PROVE  /\ q[d] = "queued" <=> \E i \in 1..Len(queue') : queue'[i].dev = d
               /\ q[d] = "served" <=> served'.dev = d
               /\ d # served.dev => q[d] = pl[d] \/ (pl[d] = "queued" /\ q[d] = "served")
    <3>1. \A i \in 1..Len(queue) : i # 1 => i - 1 \in 1..Len(queue') /\ queue'[i - 1] = queue[i]
      BY <2>1, <2>2
    <3>2. \A i \in 1..Len(queue') : i + 1 # 1 /\ queue'[i].dev # queue[1].dev
      BY <1>5, <2>1, <2>2
    <3>3. CASE d = served.dev
      BY <1>4, <1>7, <2>1, <2>2, <3>3
    <3>4. CASE d = queue[1].dev
      BY <1>4, <1>7, <1>9, <2>1, <3>2, <3>4
    <3>5. CASE d # served.dev /\ d # queue[1].dev
      <4>1. q[d] = pl[d]
        BY <1>7, <3>5
      <4>2. (\E i \in 1..Len(queue) : queue[i].dev = d)
            <=> \E i \in 1..Len(queue') : queue'[i].dev = d
        BY <2>2, <3>1, <3>5
      <4> QED
        BY <1>6, <2>1, <3>5, <4>1, <4>2
    <3> QED
      BY <3>3, <3>4, <3>5
  <2>5. \A i, j \in 1..Len(queue') : queue'[i].dev = queue'[j].dev => i = j
    <3>1. TAKE i, j \in 1..Len(queue')
    <3>2. queue'[i].dev = queue'[j].dev => i + 1 = j + 1
      BY <1>5, <2>2
    <3> QED
      BY <2>1, <2>2, <3>2
  <2> QED
    BY <1>3, <1>4, <1>7, <2>1, <2>2, <2>3, <2>4, <2>5 DEF A
<1> QED
  BY <1>8, <1>9
------------------------------------------------------------------------------
(* What a step does to one device.                                         *)

\* The inductive invariant while nothing has thrown.
Good == MessageTypes /\ CreatedRuns /\ \E pl : Placed(pl)

\* The part of Placed that is about device d alone.
Alone(d, pl) ==
    /\ pl[d] = "asked" <=> \E m \in requests : m.dev = d
    /\ pl[d] = "queued" <=> \E i \in 1..Len(queue) : queue[i].dev = d
    /\ pl[d] = "served" <=> served # NoRequest /\ served.dev = d
    /\ pl[d] \in AtOrchestrator <=> \E p \in pending : p.dev = d
    /\ pl[d] = "answered" <=> \E m \in responses : m.dev = d
    /\ \A m, n \in requests : m.dev = d /\ n.dev = d => m = n
    /\ \A m, n \in responses : m.dev = d /\ n.dev = d => m = n
    /\ \A m \in requests : m.dev = d => Fits(m)
    /\ \A i \in 1..Len(queue) : queue[i].dev = d => Fits(queue[i])
    /\ served # NoRequest /\ served.dev = d => Fits(served)
    /\ \A m \in responses : m.dev = d => AnswerFits(m)
    /\ ~Waiting(d) => pl[d] = "none"
    /\ appState[d] \in {"IDLE", "START"} => ContextsOf(d) = {}
    /\ appState[d] \in {"APPCREATED", "DELETING"} =>
          \A c \in ContextsOf(d) : c.ctx = appContext[d]
    /\ pl[d] \in AtOrchestrator => appState[d] \in {"CREATING", "DELETING"}

\* Placed says it of each device.
LEMMA PlacedAlone ==
    ASSUME NEW pl, Placed(pl), NEW d \in Devices
    PROVE  Alone(d, pl)
<1>1. OneUnderWay(pl) /\ RequestsFit /\ (\A m \in responses : AnswerFits(m)) /\ StateFits(pl)
  BY DEF Placed
<1>2. /\ pl[d] = "asked" <=> \E m \in requests : m.dev = d
      /\ pl[d] = "queued" <=> \E i \in 1..Len(queue) : queue[i].dev = d
      /\ pl[d] = "served" <=> served # NoRequest /\ served.dev = d
      /\ pl[d] \in AtOrchestrator <=> \E p \in pending : p.dev = d
      /\ pl[d] = "answered" <=> \E m \in responses : m.dev = d
      /\ \A m, n \in requests : m.dev = d /\ n.dev = d => m = n
      /\ \A m, n \in responses : m.dev = d /\ n.dev = d => m = n
  BY <1>1 DEF OneUnderWay
<1>3. /\ ~Waiting(d) => pl[d] = "none"
      /\ appState[d] \in {"IDLE", "START"} => ContextsOf(d) = {}
      /\ appState[d] \in {"APPCREATED", "DELETING"} =>
            \A c \in ContextsOf(d) : c.ctx = appContext[d]
      /\ pl[d] \in AtOrchestrator => appState[d] \in {"CREATING", "DELETING"}
  BY <1>1 DEF StateFits
<1> QED
  BY <1>1, <1>2, <1>3 DEF Alone, RequestsFit

\* A step that is about device d.
OthersSame(d) ==
    /\ \A e \in Devices : e # d => /\ appState'[e] = appState[e]
                                   /\ appContext'[e] = appContext[e]
                                   /\ ContextsOf(e)' = ContextsOf(e)
    /\ \A m \in requests \cup requests' : m.dev # d => (m \in requests <=> m \in requests')
    /\ \A m \in responses \cup responses' : m.dev # d => (m \in responses <=> m \in responses')
    /\ \A p \in pending \cup pending' : p.dev # d => (p \in pending <=> p \in pending')
    /\ \A p, r \in pending' : p.dev = r.dev \/ p.sno = r.sno => p = r

QueueMoves(d, pl, q) ==
    /\ \A e \in Devices : e # d =>
          /\ q[e] = pl[e] \/ (pl[e] = "queued" /\ q[e] = "served")
          /\ q[e] = "queued" <=> \E i \in 1..Len(queue') : queue'[i].dev = e
          /\ q[e] = "served" <=> served' # NoRequest /\ served'.dev = e
    /\ \A i, j \in 1..Len(queue') : queue'[i].dev = queue'[j].dev => i = j
    /\ \A i \in 1..Len(queue') :
          queue'[i].dev # d => \E j \in 1..Len(queue) : queue'[i] = queue[j]
    /\ served' # NoRequest /\ served'.dev # d =>
          served' = served \/ \E j \in 1..Len(queue) : served' = queue[j]

\* A step that is about device d leaves the others as they are, but that it may
\* take the request of one from the queue to be served.
LEMMA OthersPlaced ==
    ASSUME MessageTypes, MessageTypes', NEW pl, Placed(pl), NEW d \in Devices,
           NEW q \in [Devices -> Places], Alone(d, q)', turnedDown => turnedDown',
           OthersSame(d), QueueMoves(d, pl, q)
    PROVE  OneUnderWay(q)' /\ RequestsFit' /\ (\A m \in responses' : AnswerFits(m)') /\ StateFits(q)'
<1>1. OneUnderWay(pl) /\ RequestsFit /\ (\A m \in responses : AnswerFits(m)) /\ StateFits(pl)
  BY DEF Placed
<1> USE DEF OthersSame, QueueMoves
<1>2. /\ \A m \in requests' : m.dev \in Devices
      /\ \A m \in responses' : m.dev \in Devices
      /\ \A i \in 1..Len(queue') : queue'[i].dev \in Devices
      /\ served' # NoRequest => served'.dev \in Devices
  <2> DEFINE A == Asks
  <2>1. \A m \in A : m.dev \in Devices
    BY DEF Asks
  <2>2. queue' \in Seq(A) /\ requests' \in SUBSET A /\ served' \in A \cup {NoRequest}
    BY DEF MessageTypes
  <2>3. \A m \in responses' : m.dev \in Devices
    BY DEF MessageTypes, Answers
  <2> HIDE DEF A
  <2>4. \A i \in 1..Len(queue') : queue'[i] \in A
    BY <2>2
  <2> QED
    BY <2>1, <2>2, <2>3, <2>4
<1>3. OneUnderWay(q)'
  <2>1. ASSUME NEW e \in Devices
        PROVE  /\ q[e] = "asked" <=> \E m \in requests' : m.dev = e
               /\ q[e] = "queued" <=> \E i \in 1..Len(queue') : queue'[i].dev = e
               /\ q[e] = "served" <=> served' # NoRequest /\ served'.dev = e
               /\ q[e] \in AtOrchestrator <=> \E p \in pending' : p.dev = e
               /\ q[e] = "answered" <=> \E m \in responses' : m.dev = e
    <3>1. CASE e = d
      BY <3>1 DEF Alone
    <3>2. CASE e # d
      <4>1. /\ pl[e] = "asked" <=> \E m \in requests : m.dev = e
            /\ pl[e] \in AtOrchestrator <=> \E p \in pending : p.dev = e
            /\ pl[e] = "answered" <=> \E m \in responses : m.dev = e
        BY <1>1 DEF OneUnderWay
      <4>2. /\ q[e] = "asked" <=> pl[e] = "asked"
            /\ q[e] \in AtOrchestrator <=> pl[e] \in AtOrchestrator
            /\ q[e] = "answered" <=> pl[e] = "answered"
        BY <3>2 DEF AtOrchestrator
      <4>3. q[e] = "asked" <=> \E m \in requests' : m.dev = e
        BY <3>2, <4>1, <4>2
      <4>4. q[e] \in AtOrchestrator <=> \E p \in pending' : p.dev = e
        BY <3>2, <4>1, <4>2
      <4>5. q[e] = "answered" <=> \E m \in responses' : m.dev = e
        BY <3>2, <4>1, <4>2
      <4> QED
        BY <3>2, <4>3, <4>4, <4>5
    <3> QED
      BY <3>1, <3>2
  <2>2. \A m, n \in requests' : m.dev = n.dev => m = n
    BY <1>1 DEF OneUnderWay, Alone
  <2>3. \A m, n \in responses' : m.dev = n.dev => m = n
    BY <1>1 DEF OneUnderWay, Alone
  <2> QED
    BY <2>1, <2>2, <2>3 DEF OneUnderWay
<1>4. ASSUME NEW m, m.dev \in Devices, m.dev # d
      PROVE  (Fits(m) => Fits(m)') /\ (AnswerFits(m) => AnswerFits(m)')
  <2>1. appState'[m.dev] = appState[m.dev] /\ ContextsOf(m.dev)' = ContextsOf(m.dev)
    BY <1>4
  <2>2. Fits(m) => Fits(m)'
    BY <2>1 DEF Fits
  <2>3. AnswerFits(m) => AnswerFits(m)'
    BY <2>1 DEF AnswerFits, Waiting
  <2> QED
    BY <2>2, <2>3
<1>5. RequestsFit'
  <2>1. \A m \in requests' : Fits(m)'
    BY <1>1, <1>2, <1>4 DEF RequestsFit, Alone
  <2>2. ASSUME NEW i \in 1..Len(queue')
        PROVE  Fits(queue[i])'
    BY <1>1, <1>2, <1>4 DEF RequestsFit, Alone
  <2>3. served' # NoRequest => Fits(served)'
    BY <1>1, <1>2, <1>4 DEF RequestsFit, Alone
  <2> QED
    BY <2>1, <2>2, <2>3 DEF RequestsFit
<1>6. \A m \in responses' : AnswerFits(m)'
  BY <1>1, <1>2, <1>4 DEF Alone
<1>7. StateFits(q)'
  <2> SUFFICES ASSUME NEW e \in Devices
               PROVE  /\ ~Waiting(e)' => q[e] = "none"
                      /\ appState'[e] \in {"IDLE", "START"} => ContextsOf(e)' = {}
                      /\ appState'[e] \in {"APPCREATED", "DELETING"} =>
                            \A c \in ContextsOf(e)' : c.ctx = appContext'[e]
                      /\ q[e] \in AtOrchestrator => appState'[e] \in {"CREATING", "DELETING"}
    BY DEF StateFits
  <2>1. CASE e = d
    BY <2>1 DEF Alone
  <2>2. CASE e # d
    <3>1. /\ appState'[e] = appState[e] /\ appContext'[e] = appContext[e]
          /\ ContextsOf(e)' = ContextsOf(e) /\ (Waiting(e)' <=> Waiting(e))
          /\ q[e] = pl[e] \/ (pl[e] = "queued" /\ q[e] = "served")
      BY <2>2 DEF Waiting
    <3>2. q[e] \in AtOrchestrator => pl[e] \in AtOrchestrator
      BY <3>1 DEF AtOrchestrator
    <3>3. /\ ~Waiting(e) => pl[e] = "none"
          /\ appState[e] \in {"IDLE", "START"} => ContextsOf(e) = {}
          /\ appState[e] \in {"APPCREATED", "DELETING"} =>
                \A c \in ContextsOf(e) : c.ctx = appContext[e]
          /\ pl[e] \in AtOrchestrator => appState[e] \in {"CREATING", "DELETING"}
      BY <1>1 DEF StateFits
    <3> QED
      BY <3>1, <3>2, <3>3
  <2> QED
    BY <2>1, <2>2
<1> QED
  BY <1>3, <1>5, <1>6, <1>7

\* A step in which device d moves to place x and the UALCMP serves the same request.
LEMMA DeviceMoves ==
    ASSUME MessageTypes, MessageTypes', NEW pl, Placed(pl), NEW d \in Devices,
           NEW x \in Places, NEW q, q = [pl EXCEPT ![d] = x], Alone(d, q)',
           turnedDown => turnedDown', UNCHANGED <<queue, served>>,
           OthersSame(d)
    PROVE  OneUnderWay(q)' /\ RequestsFit' /\ (\A m \in responses' : AnswerFits(m)') /\ StateFits(q)'
<1>1. pl \in [Devices -> Places]
  BY DEF Placed, OneUnderWay
<1>2. q \in [Devices -> Places] /\ \A e \in Devices : e # d => q[e] = pl[e]
  BY <1>1
<1>3. QueueMoves(d, pl, q)
  BY <1>2 DEF Placed, OneUnderWay, QueueMoves
<1> QED
  BY <1>2, <1>3, OthersPlaced

\* START is asked for with a GET.
LEMMA StartContextKeeps ==
    ASSUME Good, NEW d \in Devices, StartContext(d)
    PROVE  Good'
<1> DEFINE m == Request(d, "GET", -1)
<1>1. PICK pl : Placed(pl)
  BY DEF Good
<1>2. PICK q : q = [pl EXCEPT ![d] = "asked"]
  OBVIOUS
<1>3. /\ appState[d] = "IDLE" /\ appState' = [appState EXCEPT ![d] = "START"]
      /\ requests' = requests \cup {m}
      /\ UNCHANGED <<appContext, responses, queue, served, requestSno, pending,
                     toOrchestrator, toUALCMP, meAppMap, delayed, turnedDown>>
  BY DEF StartContext, ualcmpVars, linkVars, orchVars
<1>4. MessageTypes /\ CreatedRuns
  BY DEF Good
<1>5. Alone(d, pl) /\ pl[d] = "none" /\ ContextsOf(d) = {}
  <2>1. Alone(d, pl)
    BY <1>1, PlacedAlone
  <2> QED
    BY <1>3, <2>1 DEF Alone, Waiting
<1>6. /\ pl \in [Devices -> Places] /\ appState \in [Devices -> States]
      /\ \A e : ContextsOf(e)' = ContextsOf(e)
  BY <1>1, <1>3, <1>4 DEF Placed, OneUnderWay, MessageTypes, ContextsOf
<1>7. /\ q \in [Devices -> Places] /\ q[d] = "asked" /\ appState'[d] = "START"
      /\ \A e \in Devices : e # d => q[e] = pl[e] /\ appState'[e] = appState[e]
  BY <1>2, <1>3, <1>6 DEF Places
<1>8. m \in Asks /\ m.dev = d /\ m.method = "GET"
  BY DEF Request, Asks
<1>9. MessageTypes'
  <2>1. appState' \in [Devices -> States]
    BY <1>3, <1>6 DEF States
  <2> QED
    BY <1>3, <1>4, <1>8, <2>1 DEF MessageTypes
<1>10. Fits(m)'
  BY <1>7, <1>8 DEF Fits
<1> HIDE DEF m
<1>11. Alone(d, q)'
  BY <1>3, <1>5, <1>6, <1>7, <1>8, <1>10 DEF Alone, AtOrchestrator, Waiting
<1>12. OneUnderWay(q)' /\ RequestsFit' /\ (\A n \in responses' : AnswerFits(n)') /\ StateFits(q)'
  <2>1. OthersSame(d)
    BY <1>1, <1>3, <1>6, <1>7, <1>8 DEF Placed, OneUnderWay, OthersSame
  <2>2. "asked" \in Places /\ UNCHANGED <<queue, served, turnedDown>>
    BY <1>3 DEF Places
  <2> QED
    BY <1>1, <1>2, <1>4, <1>9, <1>11, <2>1, <2>2, DeviceMoves
<1>13. OrdersFit(q)' /\ DelayedFit(q)' /\ AcksFit(q)' /\ NumbersOnce' /\ NothingLost(q)'
  <2>1. \A e \in Devices : pl[e] \in AtOrchestrator \/ q[e] \in AtOrchestrator
                           => q[e] = pl[e] /\ appState'[e] = appState[e]
    BY <1>5, <1>7 DEF AtOrchestrator
  <2>2. ~turnedDown' => \A e \in Devices : Waiting(e)' => q[e] # "none"
    BY <1>1, <1>3, <1>7 DEF Placed, NothingLost, Waiting
  <2>5. OrchestratorSame(pl, q)
    BY <1>3, <2>1, <2>2 DEF OrchestratorSame
  <2> QED
    BY <1>1, <1>4, <1>7, <2>5, OrchestratorKept
<1>14. CreatedRuns'
  BY <1>3, <1>4, <1>6, <1>7 DEF CreatedRuns
<1> QED
  BY <1>9, <1>12, <1>13, <1>14 DEF Good, Placed

\* STOP is asked for with a DELETE of the context the device has.
LEMMA StopContextKeeps ==
    ASSUME Good, NEW d \in Devices, StopContext(d)
    PROVE  Good'
<1>15. PICK m : m = Request(d, "DELETE", appContext[d])
  OBVIOUS
<1>1. PICK pl : Placed(pl)
  BY DEF Good
<1>2. PICK q : q = [pl EXCEPT ![d] = "asked"]
  OBVIOUS
<1>3. /\ appState[d] = "APPCREATED" /\ appState' = [appState EXCEPT ![d] = "DELETING"]
      /\ requests' = requests \cup {m}
      /\ UNCHANGED <<appContext, responses, queue, served, requestSno, pending,
                     toOrchestrator, toUALCMP, meAppMap, delayed, turnedDown>>
  BY <1>15 DEF StopContext, ualcmpVars, linkVars, orchVars
<1>4. MessageTypes /\ CreatedRuns
  BY DEF Good
<1>5. Alone(d, pl) /\ pl[d] = "none" /\ \E c \in ContextsOf(d) : c.ctx = appContext[d]
  <2>1. Alone(d, pl)
    BY <1>1, PlacedAlone
  <2> QED
    BY <1>3, <1>4, <2>1 DEF Alone, Waiting, CreatedRuns
<1>6. /\ pl \in [Devices -> Places] /\ appState \in [Devices -> States]
      /\ \A e : ContextsOf(e)' = ContextsOf(e)
  BY <1>1, <1>3, <1>4 DEF Placed, OneUnderWay, MessageTypes, ContextsOf
<1>7. /\ q \in [Devices -> Places] /\ q[d] = "asked" /\ appState'[d] = "DELETING"
      /\ \A e \in Devices : e # d => q[e] = pl[e] /\ appState'[e] = appState[e]
  BY <1>2, <1>3, <1>6 DEF Places
<1>8. m \in Asks /\ m.dev = d /\ m.method = "DELETE" /\ m.ctx = appContext[d]
  <2>1. appContext[d] \in Int
    BY <1>4 DEF MessageTypes
  <2> QED
    BY <1>15, <2>1 DEF Request, Asks
<1>9. MessageTypes'
  <2>1. appState' \in [Devices -> States]
    BY <1>3, <1>6 DEF States
  <2> QED
    BY <1>3, <1>4, <1>8, <2>1 DEF MessageTypes
<1>10. Fits(m)'
  BY <1>5, <1>6, <1>7, <1>8 DEF Fits
<1>11. Alone(d, q)'
  BY <1>3, <1>5, <1>6, <1>7, <1>8, <1>10 DEF Alone, AtOrchestrator, Waiting
<1>12. OneUnderWay(q)' /\ RequestsFit' /\ (\A n \in responses' : AnswerFits(n)') /\ StateFits(q)'
  <2>1. OthersSame(d)
    BY <1>1, <1>3, <1>6, <1>7, <1>8 DEF Placed, OneUnderWay, OthersSame
  <2>2. "asked" \in Places /\ UNCHANGED <<queue, served, turnedDown>>
    BY <1>3 DEF Places
  <2> QED
    BY <1>1, <1>2, <1>4, <1>9, <1>11, <2>1, <2>2, DeviceMoves
<1>13. OrdersFit(q)' /\ DelayedFit(q)' /\ AcksFit(q)' /\ NumbersOnce' /\ NothingLost(q)'
  <2>1. \A e \in Devices : pl[e] \in AtOrchestrator \/ q[e] \in AtOrchestrator
                           => q[e] = pl[e] /\ appState'[e] = appState[e]
    BY <1>5, <1>7 DEF AtOrchestrator
  <2>2. ~turnedDown' => \A e \in Devices : Waiting(e)' => q[e] # "none"
    BY <1>1, <1>3, <1>7 DEF Placed, NothingLost, Waiting
  <2>5. OrchestratorSame(pl, q)
    BY <1>3, <2>1, <2>2 DEF OrchestratorSame
  <2> QED
    BY <1>1, <1>4, <1>7, <2>5, OrchestratorKept
<1>14. CreatedRuns'
  BY <1>3, <1>4, <1>6, <1>7 DEF CreatedRuns
<1> QED
  BY <1>9, <1>12, <1>13, <1>14 DEF Good, Placed

\* The list of applications is answered by a POST.
LEMMA ListArrivesKeeps ==
    ASSUME Good, NEW a \in responses, ListArrives(a)
    PROVE  Good'
<1>15. PICK d, m : d = a.dev /\ m = Request(d, "POST", -1)
  OBVIOUS
<1>1. PICK pl : Placed(pl)
  BY DEF Good
<1>2. PICK q : q = [pl EXCEPT ![d] = "asked"]
  OBVIOUS
<1>3. /\ appState[d] = "START" /\ a.code = 200
      /\ appState' = [appState EXCEPT ![d] = "CREATING"]
      /\ requests' = requests \cup {m} /\ responses' = responses \ {a}
      /\ UNCHANGED <<appContext, queue, served, requestSno, pending,
                     toOrchestrator, toUALCMP, meAppMap, delayed, turnedDown>>
  BY <1>15 DEF ListArrives, ualcmpVars, linkVars, orchVars
<1>4. MessageTypes /\ CreatedRuns /\ d \in Devices
  BY <1>15 DEF Good, MessageTypes, Answers
<1>8. m \in Asks /\ m.dev = d /\ m.method = "POST"
  BY <1>4, <1>15 DEF Request, Asks
<1>5. Alone(d, pl) /\ pl[d] = "answered" /\ ContextsOf(d) = {}
      /\ \A r \in responses : r.dev = d => r = a
  <2>1. Alone(d, pl)
    BY <1>1, <1>4, PlacedAlone
  <2> QED
    BY <1>3, <1>15, <2>1 DEF Alone
<1>6. /\ pl \in [Devices -> Places] /\ appState \in [Devices -> States]
      /\ \A e : ContextsOf(e)' = ContextsOf(e)
  BY <1>1, <1>3, <1>4 DEF Placed, OneUnderWay, MessageTypes, ContextsOf
<1>7. /\ q \in [Devices -> Places] /\ q[d] = "asked" /\ appState'[d] = "CREATING"
      /\ \A e \in Devices : e # d => q[e] = pl[e] /\ appState'[e] = appState[e]
  BY <1>2, <1>3, <1>4, <1>6 DEF Places
<1>9. MessageTypes'
  <2>1. appState' \in [Devices -> States]
    BY <1>3, <1>6 DEF States
  <2> QED
    BY <1>3, <1>4, <1>8, <2>1 DEF MessageTypes
<1>10. Fits(m)'
  BY <1>5, <1>6, <1>7, <1>8 DEF Fits
<1>11. Alone(d, q)'
  BY <1>3, <1>5, <1>6, <1>7, <1>8, <1>10, <1>15 DEF Alone, AtOrchestrator, Waiting
<1>12. OneUnderWay(q)' /\ RequestsFit' /\ (\A n \in responses' : AnswerFits(n)') /\ StateFits(q)'
  <2>1. OthersSame(d)
    BY <1>1, <1>3, <1>6, <1>7, <1>8, <1>15 DEF Placed, OneUnderWay, OthersSame
  <2>2. "asked" \in Places /\ UNCHANGED <<queue, served, turnedDown>>
    BY <1>3 DEF Places
  <2> QED
    BY <1>1, <1>2, <1>4, <1>9, <1>11, <2>1, <2>2, DeviceMoves
<1>13. OrdersFit(q)' /\ DelayedFit(q)' /\ AcksFit(q)' /\ NumbersOnce' /\ NothingLost(q)'
  <2>1. \A e \in Devices : pl[e] \in AtOrchestrator \/ q[e] \in AtOrchestrator
                           => q[e] = pl[e] /\ appState'[e] = appState[e]
    BY <1>5, <1>7 DEF AtOrchestrator
  <2>2. ~turnedDown' => \A e \in Devices : Waiting(e)' => q[e] # "none"
    BY <1>1, <1>3, <1>7 DEF Placed, NothingLost, Waiting
  <2>3. \A r \in responses : r.code = 500 => r \in responses'
    BY <1>3
  <2>5. OrchestratorSame(pl, q)
    BY <1>3, <2>1, <2>2, <2>3 DEF OrchestratorSame
  <2> QED
    BY <1>1, <1>4, <1>7, <2>5, OrchestratorKept
<1>14. CreatedRuns'
  BY <1>3, <1>4, <1>6, <1>7 DEF CreatedRuns
<1> QED
  BY <1>9, <1>12, <1>13, <1>14 DEF Good, Placed

\* A request that meets a full queue is answered with 503.
LEMMA RefuseRequestKeeps ==
    ASSUME Good, NEW a \in requests, RefuseRequest(a)
    PROVE  Good'
<1> DEFINE d == a.dev
           m == Response(d, 503, -1)
<1>1. PICK pl : Placed(pl)
  BY DEF Good
<1>2. PICK q : q = [pl EXCEPT ![d] = "answered"]
  OBVIOUS
<1>3. /\ requests' = requests \ {a} /\ responses' = responses \cup {m} /\ turnedDown'
      /\ UNCHANGED <<appState, appContext, queue, served, requestSno, pending,
                     toOrchestrator, toUALCMP, meAppMap, delayed>>
  BY DEF RefuseRequest, ualcmpVars, linkVars, orchVars, deviceVars
<1>4. MessageTypes /\ CreatedRuns /\ d \in Devices
  BY DEF Good, MessageTypes, Asks
<1>8. m \in Answers /\ m.dev = d /\ m.code = 503
  BY <1>4 DEF Response, Answers
<1>5. Alone(d, pl) /\ pl[d] = "asked" /\ Waiting(d)
      /\ \A r \in requests : r.dev = d => r = a
  <2>1. Alone(d, pl)
    BY <1>1, <1>4, PlacedAlone
  <2> QED
    BY <1>3, <2>1 DEF Alone
<1>15. a.dev = d
  OBVIOUS
<1> HIDE DEF m, d
<1>6. /\ pl \in [Devices -> Places]
      /\ \A e : ContextsOf(e)' = ContextsOf(e)
  BY <1>1, <1>3, <1>4 DEF Placed, OneUnderWay, ContextsOf
<1>7. /\ q \in [Devices -> Places] /\ q[d] = "answered"
      /\ \A e \in Devices : e # d => q[e] = pl[e]
  BY <1>2, <1>4, <1>6 DEF Places
<1>9. MessageTypes'
  BY <1>3, <1>4, <1>8 DEF MessageTypes
<1>10. AnswerFits(m)'
  BY <1>3, <1>5, <1>8 DEF AnswerFits, Waiting
<1>16. ASSUME NEW r PROVE Fits(r)' <=> Fits(r)
  BY <1>3, <1>6 DEF Fits
<1>11. Alone(d, q)'
  BY <1>3, <1>5, <1>6, <1>7, <1>8, <1>10, <1>16 DEF Alone, AtOrchestrator, Waiting
<1>12. OneUnderWay(q)' /\ RequestsFit' /\ (\A n \in responses' : AnswerFits(n)') /\ StateFits(q)'
  <2>1. OthersSame(d)
    BY <1>1, <1>3, <1>6, <1>7, <1>8, <1>15 DEF Placed, OneUnderWay, OthersSame
  <2>2. "answered" \in Places /\ UNCHANGED <<queue, served>> /\ turnedDown'
    BY <1>3 DEF Places
  <2> QED
    BY <1>1, <1>2, <1>4, <1>9, <1>11, <2>1, <2>2, DeviceMoves
<1>13. OrdersFit(q)' /\ DelayedFit(q)' /\ AcksFit(q)' /\ NumbersOnce' /\ NothingLost(q)'
  <2>1. \A e \in Devices : pl[e] \in AtOrchestrator \/ q[e] \in AtOrchestrator
                           => q[e] = pl[e] /\ appState'[e] = appState[e]
    BY <1>3, <1>5, <1>7 DEF AtOrchestrator
  <2>5. OrchestratorSame(pl, q)
    BY <1>3, <2>1 DEF OrchestratorSame
  <2> QED
    BY <1>1, <1>4, <1>7, <2>5, OrchestratorKept
<1>14. CreatedRuns'
  BY <1>3, <1>4, <1>6 DEF CreatedRuns
<1> QED
  BY <1>9, <1>12, <1>13, <1>14 DEF Good, Placed

\* What an answer does to the device that gets it: unless it throws, it ends the
\* wait, or it is a refusal that leaves the device waiting for ever.
LEMMA AnswerTaken ==
    ASSUME Good, MapInv, NEW a \in responses, ResultArrives(a)
    PROVE  /\ a.dev \in Devices
           /\ appState' = [appState EXCEPT ![a.dev] = StateAfter(@, a.code)]
           /\ thrown' => turnedDown /\ appState' = appState /\ appContext' = appContext
           /\ ~thrown' =>
                 \/ /\ a.code = 201 /\ appState'[a.dev] = "APPCREATED"
                    /\ appContext' = [appContext EXCEPT ![a.dev] = a.ctx]
                    /\ \E c \in ContextsOf(a.dev) : c.ctx = a.ctx
                    /\ \A c \in ContextsOf(a.dev) : c.ctx = a.ctx
                 \/ /\ a.code = 204 /\ appState'[a.dev] = "IDLE" /\ ContextsOf(a.dev) = {}
                    /\ appContext' = appContext
                 \/ /\ a.code = 503 /\ turnedDown /\ appState' = appState
                    /\ appState[a.dev] \in {"CREATING", "DELETING"}
                    /\ appContext' = appContext
<1>1. PICK d, pl : d = a.dev /\ Placed(pl)
  BY DEF Good
<1>2. /\ MessageTypes /\ d \in Devices /\ appState \in [Devices -> States]
      /\ appContext \in [Devices -> Int] /\ a.code \in {200, 201, 204, 500, 503}
  BY <1>1 DEF Good, MessageTypes, Answers
<1>3. Waiting(d)
  <2>1. Alone(d, pl) /\ "none" # "answered"
    BY <1>1, <1>2, PlacedAlone
  <2> QED
    BY <1>1, <2>1 DEF Alone
<1>4. AnswerFits(a)
  BY <1>1 DEF Placed
<1>5. /\ ~(appState[d] = "START" /\ a.code = 200)
      /\ thrown' = Throws(appState[d], a.code)
      /\ appState' = [appState EXCEPT ![d] = StateAfter(appState[d], a.code)]
      /\ appContext' = [appContext EXCEPT ![d] =
                          IF appState[d] = "CREATING" /\ a.code = 201
                          THEN a.ctx ELSE appContext[d]]
  BY <1>1 DEF ResultArrives
<1>6. ~(appState[d] = "CREATING" /\ a.code = 201) => appContext' = appContext
  BY <1>2, <1>5
<1>7. StateAfter(appState[d], a.code) = appState[d] => appState' = appState
  BY <1>2, <1>5
<1>8. appState'[d] = StateAfter(appState[d], a.code)
  BY <1>2, <1>5
<1>9. CASE appState[d] = "START"
  <2>1. a.code = 503 /\ turnedDown /\ StateAfter(appState[d], a.code) = appState[d]
        /\ Throws(appState[d], a.code)
    BY <1>1, <1>4, <1>5, <1>9 DEF AnswerFits, StateAfter, Throws
  <2> QED
    BY <1>1, <1>2, <1>5, <1>6, <1>7, <1>9, <2>1
<1>10. CASE appState[d] = "CREATING"
  <2>1. CASE a.code = 201
    <3>1. \E c \in ContextsOf(d) : c.ctx = a.ctx
      BY <1>1, <1>4, <1>10, <2>1 DEF AnswerFits
    <3>2. \A c \in ContextsOf(d) : c.ctx = a.ctx
      BY <3>1 DEF MapInv, ContextsOf
    <3>3. StateAfter(appState[d], a.code) = "APPCREATED" /\ ~Throws(appState[d], a.code)
      BY <1>10, <2>1 DEF StateAfter, Throws
    <3>4. appContext' = [appContext EXCEPT ![d] = a.ctx]
      BY <1>5, <1>10, <2>1
    <3>5. appState'[d] = "APPCREATED" /\ ~thrown'
      BY <1>5, <1>8, <3>3
    <3>6. appState' = [appState EXCEPT ![a.dev] = StateAfter(@, a.code)]
      BY <1>1, <1>5
    <3> QED
      BY <1>1, <1>2, <2>1, <3>1, <3>2, <3>4, <3>5, <3>6
  <2>2. CASE a.code # 201
    <3>1. /\ turnedDown /\ a.code \in {500, 503}
          /\ StateAfter(appState[d], a.code) = appState[d]
          /\ Throws(appState[d], a.code) => a.code = 500
      BY <1>1, <1>4, <1>5, <1>10, <2>2 DEF AnswerFits, StateAfter, Throws
    <3>2. a.code = 500 => Throws(appState[d], a.code)
      BY <1>10 DEF Throws
    <3>3. /\ appState' = appState /\ appContext' = appContext /\ turnedDown
          /\ ~thrown' => a.code = 503
      BY <1>5, <1>6, <1>7, <2>2, <3>1, <3>2
    <3>4. appState' = [appState EXCEPT ![a.dev] = StateAfter(@, a.code)]
      BY <1>1, <1>5
    <3> QED
      BY <1>1, <1>2, <1>10, <3>3, <3>4
  <2> QED
    BY <2>1, <2>2
<1>11. CASE appState[d] = "DELETING"
  <2>1. ~Throws(appState[d], a.code)
    BY <1>11 DEF Throws
  <2>2. CASE a.code = 204
    <3>1. StateAfter(appState[d], a.code) = "IDLE" /\ ContextsOf(d) = {}
      BY <1>1, <1>4, <1>11, <2>2 DEF AnswerFits, StateAfter
    <3> QED
      BY <1>1, <1>2, <1>5, <1>6, <1>8, <1>11, <2>1, <2>2, <3>1
  <2>3. CASE a.code # 204
    <3>1. a.code = 503 /\ turnedDown /\ StateAfter(appState[d], a.code) = appState[d]
      BY <1>1, <1>4, <1>11, <2>3 DEF AnswerFits, StateAfter
    <3> QED
      BY <1>1, <1>2, <1>5, <1>6, <1>7, <1>11, <2>1, <3>1
  <2> QED
    BY <2>2, <2>3
<1> QED
  BY <1>3, <1>9, <1>10, <1>11 DEF Waiting

\* An answer that does not throw ends the wait of its device.
LEMMA ResultArrivesKeeps ==
    ASSUME Good, MapInv, NEW a \in responses, ResultArrives(a), ~thrown'
    PROVE  Good'
<1>1. PICK d, pl, q : d = a.dev /\ Placed(pl) /\ q = [pl EXCEPT ![d] = "none"]
  BY DEF Good
<1>2. /\ responses' = responses \ {a}
      /\ UNCHANGED <<requests, queue, served, requestSno, pending,
                     toOrchestrator, toUALCMP, meAppMap, delayed, turnedDown>>
  BY DEF ResultArrives, ualcmpVars, linkVars, orchVars
<1>3. /\ d \in Devices
      /\ \A e \in Devices : e # d => appState'[e] = appState[e] /\ appContext'[e] = appContext[e]
      /\ \/ /\ a.code = 201 /\ appState'[d] = "APPCREATED" /\ appContext'[d] = a.ctx
            /\ \E c \in ContextsOf(d) : c.ctx = a.ctx
            /\ \A c \in ContextsOf(d) : c.ctx = a.ctx
         \/ a.code = 204 /\ appState'[d] = "IDLE" /\ ContextsOf(d) = {}
         \/ /\ a.code = 503 /\ turnedDown /\ appState'[d] = appState[d]
            /\ appState'[d] \in {"CREATING", "DELETING"} /\ appContext'[d] = appContext[d]
      /\ appState' \in [Devices -> States] /\ appContext' \in [Devices -> Int]
  <2>1. appState \in [Devices -> States] /\ appContext \in [Devices -> Int] /\ a.ctx \in Int
    BY DEF Good, MessageTypes, Answers
  <2>2. \A s \in States : \A n : StateAfter(s, n) \in States
    BY DEF StateAfter, States
  <2>3. /\ a.dev \in Devices
        /\ appState' = [appState EXCEPT ![a.dev] = StateAfter(appState[a.dev], a.code)]
        /\ \/ /\ a.code = 201 /\ appState'[a.dev] = "APPCREATED"
              /\ appContext' = [appContext EXCEPT ![a.dev] = a.ctx]
              /\ \E c \in ContextsOf(a.dev) : c.ctx = a.ctx
              /\ \A c \in ContextsOf(a.dev) : c.ctx = a.ctx
           \/ /\ a.code = 204 /\ appState'[a.dev] = "IDLE" /\ ContextsOf(a.dev) = {}
              /\ appContext' = appContext
           \/ /\ a.code = 503 /\ turnedDown /\ appState' = appState
              /\ appState[a.dev] \in {"CREATING", "DELETING"}
              /\ appContext' = appContext
    BY AnswerTaken
  <2>4. appState' \in [Devices -> States]
    BY <2>1, <2>2, <2>3
  <2>5. appContext' \in [Devices -> Int]
    BY <2>1, <2>3
  <2>6. \A e \in Devices : e # d => appState'[e] = appState[e] /\ appContext'[e] = appContext[e]
    BY <1>1, <2>1, <2>3
  <2> QED
    BY <1>1, <2>1, <2>3, <2>4, <2>5, <2>6
<1>4. MessageTypes /\ CreatedRuns
  BY DEF Good
<1>5. Alone(d, pl) /\ pl[d] = "answered" /\ \A r \in responses : r.dev = d => r = a
  <2>1. Alone(d, pl)
    BY <1>1, <1>3, PlacedAlone
  <2> QED
    BY <1>1, <2>1 DEF Alone
<1>6. /\ pl \in [Devices -> Places] /\ \A e : ContextsOf(e)' = ContextsOf(e)
  BY <1>1, <1>2 DEF Placed, OneUnderWay, ContextsOf
<1>7. /\ q \in [Devices -> Places] /\ q[d] = "none"
      /\ \A e \in Devices : e # d => q[e] = pl[e]
  BY <1>1, <1>3, <1>6 DEF Places
<1>8. a.dev = d /\ a \in responses
  BY <1>1
<1>9. MessageTypes'
  BY <1>2, <1>3, <1>4 DEF MessageTypes
<1>10. ~Waiting(d)' => appState'[d] \in {"APPCREATED", "IDLE"}
  BY <1>3 DEF Waiting
<1>11. Alone(d, q)'
  <2>1. /\ q[d] # "asked" /\ ~\E m \in requests' : m.dev = d
        /\ q[d] # "queued" /\ ~\E i \in 1..Len(queue') : queue'[i].dev = d
        /\ q[d] # "served" /\ ~(served' # NoRequest /\ served'.dev = d)
        /\ q[d] \notin AtOrchestrator /\ ~\E p \in pending' : p.dev = d
        /\ q[d] # "answered" /\ ~\E m \in responses' : m.dev = d
    BY <1>2, <1>5, <1>7 DEF Alone, AtOrchestrator
  <2>2. /\ appState'[d] \in {"IDLE", "START"} => ContextsOf(d)' = {}
        /\ appState'[d] \in {"APPCREATED", "DELETING"} =>
              \A c \in ContextsOf(d)' : c.ctx = appContext'[d]
    BY <1>3, <1>5, <1>6 DEF Alone
  <2> QED
    BY <1>7, <2>1, <2>2 DEF Alone
<1>12. OneUnderWay(q)' /\ RequestsFit' /\ (\A n \in responses' : AnswerFits(n)') /\ StateFits(q)'
  <2>1. OthersSame(d)
    BY <1>1, <1>2, <1>3, <1>6, <1>7, <1>8 DEF Placed, OneUnderWay, OthersSame
  <2>2. "none" \in Places /\ UNCHANGED <<queue, served, turnedDown>>
    BY <1>2 DEF Places
  <2>3. d \in Devices
    BY <1>3
  <2> QED
    BY <1>1, <1>4, <1>9, <1>11, <2>1, <2>2, <2>3, DeviceMoves
<1>13. OrdersFit(q)' /\ DelayedFit(q)' /\ AcksFit(q)' /\ NumbersOnce' /\ NothingLost(q)'
  <2>1. \A e \in Devices : pl[e] \in AtOrchestrator \/ q[e] \in AtOrchestrator
                           => q[e] = pl[e] /\ appState'[e] = appState[e]
    BY <1>3, <1>5, <1>7 DEF AtOrchestrator
  <2>2. ~turnedDown' => \A e \in Devices : Waiting(e)' => q[e] # "none"
    BY <1>1, <1>2, <1>3, <1>7 DEF Placed, NothingLost, Waiting
  <2>3. \A r \in responses : r.code = 500 => r \in responses'
    BY <1>2, <1>3
  <2>5. OrchestratorSame(pl, q)
    BY <1>2, <2>1, <2>2, <2>3 DEF OrchestratorSame
  <2> QED
    BY <1>1, <1>4, <1>7, <2>5, OrchestratorKept
<1>14. CreatedRuns'
  BY <1>3, <1>4, <1>6 DEF CreatedRuns
<1> QED
  BY <1>9, <1>12, <1>13, <1>14 DEF Good, Placed

\* A request is put into the queue, or served at once.
LEMMA AcceptRequestKeeps ==
    ASSUME Good, NEW a \in requests, AcceptRequest(a)
    PROVE  Good'
<1>1. PICK d, pl, q : d = a.dev /\ Placed(pl)
                      /\ q = [pl EXCEPT ![d] = IF served = NoRequest THEN "served" ELSE "queued"]
  BY DEF Good
<1>2. /\ requests' = requests \ {a}
      /\ UNCHANGED <<appState, appContext, responses, requestSno, pending, toOrchestrator,
                     toUALCMP, meAppMap, delayed, turnedDown>>
  BY DEF AcceptRequest, linkVars, orchVars, deviceVars
<1>3. MessageTypes /\ CreatedRuns /\ d \in Devices /\ a \in Asks /\ a # NoRequest /\ a.dev = d
  BY <1>1, LifecycleAssumption DEF Good, MessageTypes, Asks
<1>4. /\ queue \in Seq(Asks) /\ Len(queue) \in Nat /\ (served = NoRequest => queue = <<>>)
      /\ \A i \in 1..Len(queue) : queue[i] \in Asks
  <2> DEFINE A == Asks
  <2>1. queue \in Seq(A) /\ (served = NoRequest => queue = <<>>)
    BY <1>3 DEF MessageTypes
  <2> HIDE DEF A
  <2>2. Len(queue) \in Nat /\ \A i \in 1..Len(queue) : queue[i] \in A
    BY <2>1
  <2> QED
    BY <2>1, <2>2 DEF A
<1>5. Alone(d, pl) /\ pl[d] = "asked" /\ Waiting(d)
      /\ (\A r \in requests : r.dev = d => r = a) /\ Fits(a)
      /\ \A i \in 1..Len(queue) : queue[i].dev # d
  <2>1. Alone(d, pl)
    BY <1>1, <1>3, PlacedAlone
  <2> QED
    BY <1>1, <2>1 DEF Alone
<1>6. \/ served = NoRequest /\ queue = <<>> /\ served' = a /\ queue' = <<>>
      \/ served # NoRequest /\ served' = served /\ queue' = Append(queue, a)
  <2>1. CASE served = NoRequest
    <3>1. Append(queue, a) = <<a>>
      BY <1>4, <2>1
    <3>2. <<a>> # <<>> /\ Head(<<a>>) = a /\ Tail(<<a>>) = <<>>
      OBVIOUS
    <3> QED
      BY <1>4, <2>1, <3>1, <3>2 DEF AcceptRequest, ServeNext
  <2>2. CASE served # NoRequest
    BY <2>2 DEF AcceptRequest
  <2> QED
    BY <2>1, <2>2
<1>7. /\ pl \in [Devices -> Places] /\ \A e : ContextsOf(e)' = ContextsOf(e)
      /\ \A m : (Fits(m)' <=> Fits(m)) /\ (AnswerFits(m)' <=> AnswerFits(m))
  <2>1. \A e : (ContextsOf(e)' = ContextsOf(e)) /\ (Waiting(e)' <=> Waiting(e))
    BY <1>2 DEF ContextsOf, Waiting
  <2> QED
    BY <1>1, <1>2, <2>1 DEF Placed, OneUnderWay, Fits, AnswerFits
<1>8. /\ q \in [Devices -> Places]
      /\ q[d] = IF served = NoRequest THEN "served" ELSE "queued"
      /\ \A e \in Devices : e # d => q[e] = pl[e]
  BY <1>1, <1>3, <1>7 DEF Places
<1>9. MessageTypes'
  <2>1. queue' \in Seq(Asks)
    BY <1>3, <1>4, <1>6
  <2>2. served' \in Asks \cup {NoRequest} /\ (served' = NoRequest => queue' = <<>>)
    BY <1>3, <1>6 DEF MessageTypes
  <2> QED
    BY <1>2, <1>3, <2>1, <2>2 DEF MessageTypes
<1>10. /\ \A i \in 1..Len(queue') : \/ i \in 1..Len(queue) /\ queue'[i] = queue[i]
                                    \/ i = Len(queue) + 1 /\ queue'[i] = a
       /\ \A i \in 1..Len(queue) : i \in 1..Len(queue') /\ queue'[i] = queue[i]
       /\ served # NoRequest => Len(queue) + 1 \in 1..Len(queue') /\ queue'[Len(queue) + 1] = a
       /\ served = NoRequest => Len(queue') = 0
  <2>1. CASE served = NoRequest
    BY <1>6, <2>1
  <2>2. CASE served # NoRequest
    <3> DEFINE A == Asks
    <3>1. queue' = Append(queue, a) /\ queue \in Seq(A) /\ a \in A
      BY <1>3, <1>4, <1>6, <2>2
    <3> HIDE DEF A
    <3>2. Len(queue') = Len(queue) + 1 /\ Len(queue) \in Nat
          /\ (\A i \in 1..Len(queue) : queue'[i] = queue[i]) /\ queue'[Len(queue) + 1] = a
      BY <3>1
    <3> QED
      BY <2>2, <3>2
  <2> QED
    BY <2>1, <2>2
<1>11. Alone(d, q)'
  <2>1. q[d] = "queued" <=> \E i \in 1..Len(queue') : queue'[i].dev = d
    BY <1>3, <1>8, <1>10
  <2>2. q[d] = "served" <=> served' # NoRequest /\ served'.dev = d
    BY <1>3, <1>5, <1>6, <1>8 DEF Alone
  <2>3. /\ \A i \in 1..Len(queue') : queue'[i].dev = d => Fits(queue'[i])
        /\ served' # NoRequest /\ served'.dev = d => Fits(served')
    BY <1>5, <1>6, <1>10 DEF Alone
  <2>4. /\ \A i \in 1..Len(queue') : queue'[i].dev = d => Fits(queue[i])'
        /\ served' # NoRequest /\ served'.dev = d => Fits(served)'
    BY <1>7, <2>3
  <2>5. q[d] # "asked" /\ q[d] \notin AtOrchestrator /\ q[d] # "answered"
    BY <1>8 DEF AtOrchestrator
  <2>6. /\ ~\E m \in requests' : m.dev = d
        /\ ~\E p \in pending' : p.dev = d
        /\ ~\E m \in responses' : m.dev = d
        /\ Waiting(d)'
        /\ appState'[d] \in {"IDLE", "START"} => ContextsOf(d)' = {}
        /\ appState'[d] \in {"APPCREATED", "DELETING"} =>
              \A c \in ContextsOf(d)' : c.ctx = appContext'[d]
    BY <1>2, <1>5, <1>7 DEF Alone, AtOrchestrator, Waiting
  <2> QED
    BY <2>1, <2>2, <2>4, <2>5, <2>6 DEF Alone
<1>12. OneUnderWay(q)' /\ RequestsFit' /\ (\A n \in responses' : AnswerFits(n)') /\ StateFits(q)'
  <2>1. OthersSame(d)
    BY <1>1, <1>2, <1>3, <1>7, <1>8 DEF Placed, OneUnderWay, OthersSame
  <2>2. QueueMoves(d, pl, q)
    <3>1. /\ \A e \in Devices :
                /\ pl[e] = "queued" <=> \E i \in 1..Len(queue) : queue[i].dev = e
                /\ pl[e] = "served" <=> served # NoRequest /\ served.dev = e
          /\ \A i, j \in 1..Len(queue) : queue[i].dev = queue[j].dev => i = j
      BY <1>1 DEF Placed, OneUnderWay
    <3>2. ASSUME NEW e \in Devices, e # d
          PROVE  /\ q[e] = "queued" <=> \E i \in 1..Len(queue') : queue'[i].dev = e
                 /\ q[e] = "served" <=> served' # NoRequest /\ served'.dev = e
      <4>1. q[e] = "queued" <=> \E i \in 1..Len(queue') : queue'[i].dev = e
        BY <1>3, <1>8, <1>10, <3>1, <3>2
      <4>2. q[e] = "served" <=> served' # NoRequest /\ served'.dev = e
        BY <1>3, <1>6, <1>8, <3>1, <3>2
      <4> QED
        BY <4>1, <4>2
    <3>3. \A i, j \in 1..Len(queue') : queue'[i].dev = queue'[j].dev => i = j
      BY <1>3, <1>5, <1>10, <3>1
    <3>4. \A i \in 1..Len(queue') :
             queue'[i].dev # d => \E j \in 1..Len(queue) : queue'[i] = queue[j]
      BY <1>3, <1>10
    <3>5. served' # NoRequest /\ served'.dev # d => served' = served
      BY <1>3, <1>6
    <3> QED
      BY <1>8, <3>2, <3>3, <3>4, <3>5 DEF QueueMoves
  <2>3. turnedDown => turnedDown'
    BY <1>2
  <2>4. q \in [Devices -> Places] /\ MessageTypes /\ d \in Devices
    BY <1>3, <1>8
  <2> QED
    BY <1>1, <1>9, <1>11, <2>1, <2>2, <2>3, <2>4, OthersPlaced
<1>13. OrdersFit(q)' /\ DelayedFit(q)' /\ AcksFit(q)' /\ NumbersOnce' /\ NothingLost(q)'
  <2>1. \A e \in Devices : pl[e] \in AtOrchestrator \/ q[e] \in AtOrchestrator
                           => q[e] = pl[e] /\ appState'[e] = appState[e]
    BY <1>2, <1>5, <1>8 DEF AtOrchestrator
  <2>2. ~turnedDown' => \A e \in Devices : Waiting(e)' => q[e] # "none"
    BY <1>1, <1>2, <1>8 DEF Placed, NothingLost, Waiting
  <2>5. OrchestratorSame(pl, q)
    BY <1>2, <2>1, <2>2 DEF OrchestratorSame
  <2> QED
    BY <1>1, <1>3, <1>8, <2>5, OrchestratorKept
<1>14. CreatedRuns'
  BY <1>2, <1>3, <1>7 DEF CreatedRuns
<1> QED
  BY <1>9, <1>12, <1>13, <1>14 DEF Good, Placed

\* The request that was served goes to place x, and the next is served.
LEMMA ServedLeaves ==
    ASSUME MessageTypes, NEW pl, Placed(pl), served # NoRequest, ServeNext(queue),
           NEW x \in Places \ {"queued", "served"}, NEW q, q = Handed(pl, x),
           NEW d, d = served.dev
    PROVE  /\ q \in [Devices -> Places] /\ queue' \in Seq(Asks)
           /\ served' \in Asks \cup {NoRequest} /\ (served' = NoRequest => queue' = <<>>)
           /\ d \in Devices /\ pl[d] = "served" /\ q[d] = x
           /\ \A e \in Devices : e # d => \/ q[e] = pl[e]
                                          \/ pl[e] = "queued" /\ q[e] = "served"
           /\ ~\E i \in 1..Len(queue') : queue'[i].dev = d
           /\ ~(served' # NoRequest /\ served'.dev = d)
           /\ QueueMoves(d, pl, q)
<1>1. OneUnderWay(pl)
  BY DEF Placed
<1>2. /\ q \in [Devices -> Places] /\ queue' \in Seq(Asks)
      /\ served' \in Asks \cup {NoRequest} /\ (served' = NoRequest => queue' = <<>>)
      /\ d \in Devices /\ pl[d] = "served" /\ q[d] = x
      /\ \A e \in Devices :
            /\ q[e] = "queued" <=> \E i \in 1..Len(queue') : queue'[i].dev = e
            /\ q[e] = "served" <=> served' # NoRequest /\ served'.dev = e
            /\ e # d => \/ q[e] = pl[e]
                        \/ pl[e] = "queued" /\ q[e] = "served"
      /\ \A i, j \in 1..Len(queue') : queue'[i].dev = queue'[j].dev => i = j
      /\ \A i \in 1..Len(queue) : queue[i].dev # d
      /\ served' # NoRequest => \E i \in 1..Len(queue) : served' = queue[i]
      /\ \A i \in 1..Len(queue') : \E j \in 1..Len(queue) : queue'[i] = queue[j]
  BY <1>1, NextServed
<1>3. /\ ~\E i \in 1..Len(queue') : queue'[i].dev = d
      /\ ~(served' # NoRequest /\ served'.dev = d)
  BY <1>2
<1>4. QueueMoves(d, pl, q)
  BY <1>2 DEF QueueMoves
<1> QED
  BY <1>2, <1>3, <1>4

\* A GET is answered at once.
LEMMA ServeGetKeeps ==
    ASSUME Good, ServeGet
    PROVE  Good'
<1>1. PICK d, pl, q, m : /\ d = served.dev /\ Placed(pl) /\ q = Handed(pl, "answered")
                         /\ m = Response(served.dev, 200, -1)
  BY DEF Good
<1>2. /\ served # NoRequest /\ served.method = "GET" /\ ServeNext(queue)
      /\ responses' = responses \cup {m}
      /\ UNCHANGED <<appState, appContext, requests, requestSno, pending, toOrchestrator,
                     toUALCMP, meAppMap, delayed, turnedDown>>
  BY <1>1 DEF ServeGet, linkVars, orchVars, deviceVars
<1>3. MessageTypes /\ CreatedRuns
  BY DEF Good
<1>4. /\ "answered" \in Places \ {"queued", "served"}
      /\ "answered" \notin AtOrchestrator /\ "served" \notin AtOrchestrator
  BY DEF Places, AtOrchestrator
<1>5. /\ q \in [Devices -> Places] /\ queue' \in Seq(Asks)
      /\ served' \in Asks \cup {NoRequest} /\ (served' = NoRequest => queue' = <<>>)
      /\ d \in Devices /\ pl[d] = "served" /\ q[d] = "answered"
      /\ \A e \in Devices : e # d => \/ q[e] = pl[e]
                                     \/ pl[e] = "queued" /\ q[e] = "served"
      /\ ~\E i \in 1..Len(queue') : queue'[i].dev = d
      /\ ~(served' # NoRequest /\ served'.dev = d)
      /\ QueueMoves(d, pl, q)
  BY <1>1, <1>2, <1>3, <1>4, ServedLeaves
<1>6. Alone(d, pl)
  BY <1>1, <1>5, PlacedAlone
<1>7. /\ \A e : (ContextsOf(e)' = ContextsOf(e)) /\ (Waiting(e)' <=> Waiting(e))
      /\ \A n : (Fits(n)' <=> Fits(n)) /\ (AnswerFits(n)' <=> AnswerFits(n))
  <2>1. \A e : (ContextsOf(e)' = ContextsOf(e)) /\ (Waiting(e)' <=> Waiting(e))
    BY <1>2 DEF ContextsOf, Waiting
  <2> QED
    BY <1>2, <2>1 DEF Fits, AnswerFits
<1>8. m \in Answers /\ m.dev = d /\ m.code = 200
  BY <1>1, <1>5 DEF Response, Answers
<1>9. MessageTypes'
  BY <1>2, <1>3, <1>5, <1>8 DEF MessageTypes
<1>10. AnswerFits(m)' /\ Waiting(d)
  <2>1. appState[d] = "START"
    BY <1>1, <1>2, <1>5, <1>6 DEF Alone, Fits
  <2> QED
    BY <1>2, <1>8, <2>1 DEF AnswerFits, Waiting
<1>11. Alone(d, q)'
  <2>1. /\ q[d] # "asked" /\ q[d] # "queued" /\ q[d] # "served" /\ q[d] \notin AtOrchestrator
        /\ ~\E n \in requests' : n.dev = d
        /\ ~\E p \in pending' : p.dev = d
        /\ \A n \in responses' : n.dev = d <=> n = m
    BY <1>2, <1>4, <1>5, <1>6, <1>8 DEF Alone
  <2>2. /\ Waiting(d)'
        /\ appState'[d] \in {"IDLE", "START"} => ContextsOf(d)' = {}
        /\ appState'[d] \in {"APPCREATED", "DELETING"} =>
              \A c \in ContextsOf(d)' : c.ctx = appContext'[d]
    BY <1>2, <1>6, <1>7, <1>10 DEF Alone
  <2> QED
    BY <1>2, <1>5, <1>8, <1>10, <2>1, <2>2 DEF Alone
<1>12. OneUnderWay(q)' /\ RequestsFit' /\ (\A n \in responses' : AnswerFits(n)') /\ StateFits(q)'
  <2>1. OthersSame(d)
    <3>1. \A p, r \in pending : p.dev = r.dev \/ p.sno = r.sno => p = r
      BY <1>1 DEF Placed, OneUnderWay
    <3> QED
      BY <1>2, <1>7, <1>8, <3>1 DEF OthersSame
  <2>2. turnedDown => turnedDown'
    BY <1>2
  <2> QED
    BY <1>1, <1>3, <1>5, <1>9, <1>11, <2>1, <2>2, OthersPlaced
<1>13. OrdersFit(q)' /\ DelayedFit(q)' /\ AcksFit(q)' /\ NumbersOnce' /\ NothingLost(q)'
  <2>1. \A e \in Devices : pl[e] \in AtOrchestrator \/ q[e] \in AtOrchestrator
                           => q[e] = pl[e] /\ appState'[e] = appState[e]
    BY <1>2, <1>5 DEF AtOrchestrator
  <2>2. ~turnedDown' => \A e \in Devices : Waiting(e)' => q[e] # "none"
    BY <1>1, <1>2, <1>5, <1>7 DEF Placed, NothingLost
  <2>5. OrchestratorSame(pl, q)
    BY <1>2, <2>1, <2>2 DEF OrchestratorSame
  <2> QED
    BY <1>1, <1>3, <1>5, <2>5, OrchestratorKept
<1>14. CreatedRuns'
  BY <1>2, <1>3, <1>7 DEF CreatedRuns
<1> QED
  BY <1>9, <1>12, <1>13, <1>14 DEF Good, Placed

------------------------------------------------------------------------------
(* The orchestrator. *)

\* Append, by its elements.
LEMMA AppendedLast ==
    ASSUME NEW S, NEW s \in Seq(S), NEW x \in S, NEW t, t = Append(s, x)
    PROVE  /\ t \in Seq(S) /\ Len(s) + 1 \in 1..Len(t) /\ t[Len(s) + 1] = x
           /\ \A i \in 1..Len(s) : i \in 1..Len(t) /\ t[i] = s[i] /\ i # Len(s) + 1
           /\ \A i \in 1..Len(t) : \/ i \in 1..Len(s) /\ t[i] = s[i]
                                   \/ i = Len(s) + 1 /\ t[i] = x
  OBVIOUS

\* Head and Tail, by the elements.
LEMMA TailOf ==
    ASSUME NEW S, NEW s \in Seq(S), s # <<>>, NEW t, t = Tail(s)
    PROVE  /\ t \in Seq(S) /\ 1 \in 1..Len(s) /\ Head(s) = s[1] /\ Head(s) \in S
           /\ \A i \in 1..Len(t) : i + 1 \in 1..Len(s) /\ t[i] = s[i + 1] /\ i + 1 # 1
           /\ \A i \in 1..Len(s) : i # 1 => i - 1 \in 1..Len(t) /\ t[i - 1] = s[i]
  OBVIOUS

\* A request is numbered and passed on.
LEMMA PassOnKeeps ==
    ASSUME Good, PassOn
    PROVE  Good'
<1>1. PICK d, n, pl, q, o, p :
         /\ d = served.dev /\ n = requestSno /\ Placed(pl) /\ q = Handed(pl, "ordered")
         /\ o = [method |-> served.method, sno |-> requestSno,
                 dev |-> served.dev, ctx |-> served.ctx]
         /\ p = [sno |-> requestSno, dev |-> served.dev]
  BY DEF Good
<1>2. /\ served # NoRequest /\ served.method \in {"POST", "DELETE"} /\ ServeNext(queue)
      /\ pending' = pending \cup {p} /\ toOrchestrator' = Append(toOrchestrator, o)
      /\ requestSno' = n + 1
      /\ UNCHANGED <<appState, appContext, requests, responses, toUALCMP, meAppMap,
                     delayed, turnedDown>>
  BY <1>1 DEF PassOn, Numbered, orchVars, deviceVars
<1>3. MessageTypes /\ CreatedRuns /\ served \in Asks /\ n \in Nat
  BY <1>1, <1>2 DEF Good, MessageTypes
<1>4. /\ "ordered" \in Places \ {"queued", "served"}
      /\ "ordered" \in AtOrchestrator /\ "served" \notin AtOrchestrator
      /\ "queued" \notin AtOrchestrator
  BY DEF Places, AtOrchestrator
<1>5. /\ q \in [Devices -> Places] /\ queue' \in Seq(Asks)
      /\ served' \in Asks \cup {NoRequest} /\ (served' = NoRequest => queue' = <<>>)
      /\ d \in Devices /\ pl[d] = "served" /\ q[d] = "ordered"
      /\ \A e \in Devices : e # d => \/ q[e] = pl[e]
                                     \/ pl[e] = "queued" /\ q[e] = "served"
      /\ ~\E i \in 1..Len(queue') : queue'[i].dev = d
      /\ ~(served' # NoRequest /\ served'.dev = d)
      /\ QueueMoves(d, pl, q)
  BY <1>1, <1>2, <1>3, <1>4, ServedLeaves
<1>6. Alone(d, pl)
  BY <1>1, <1>5, PlacedAlone
<1>7. /\ \A e : (ContextsOf(e)' = ContextsOf(e)) /\ (Waiting(e)' <=> Waiting(e))
      /\ \A m : (Fits(m)' <=> Fits(m)) /\ (AnswerFits(m)' <=> AnswerFits(m))
      /\ \A m, e : Tells(m, e)' <=> Tells(m, e)
  <2>1. \A e : (ContextsOf(e)' = ContextsOf(e)) /\ (Waiting(e)' <=> Waiting(e))
    BY <1>2 DEF ContextsOf, Waiting
  <2>2. \A m : (Fits(m)' <=> Fits(m)) /\ (AnswerFits(m)' <=> AnswerFits(m))
    BY <1>2, <2>1 DEF Fits, AnswerFits
  <2>3. \A m, e : Tells(m, e)' <=> Tells(m, e)
    BY <1>2, <2>1 DEF Tells
  <2> QED
    BY <2>1, <2>2, <2>3
<1>8. /\ o \in Orders /\ o.dev = d /\ o.sno = n /\ p \in [sno : Nat, dev : Devices]
      /\ p.sno = n /\ p.dev = d /\ o.method \in {"POST", "DELETE"}
      /\ o.method = served.method /\ o.ctx = served.ctx
  BY <1>1, <1>2, <1>3, <1>5 DEF Orders, Asks
<1>9. Fits(o) /\ appState[d] \in {"CREATING", "DELETING"}
      /\ (n = 0 => appState[d] = "CREATING")
  <2>1. Fits(served)
    BY <1>1, <1>2, <1>5, <1>6 DEF Alone
  <2>2. Fits(o)
    BY <1>1, <1>2, <1>8, <2>1 DEF Fits
  <2>3. n = 0 => meAppMap = {}
    BY <1>1 DEF Placed, NumbersOnce
  <2> QED
    BY <1>8, <2>2, <2>3 DEF Fits, ContextsOf
<1>10. /\ toOrchestrator' \in Seq(Orders) /\ Len(toOrchestrator) + 1 \in 1..Len(toOrchestrator')
       /\ toOrchestrator'[Len(toOrchestrator) + 1] = o
       /\ \A i \in 1..Len(toOrchestrator) :
             i \in 1..Len(toOrchestrator') /\ toOrchestrator'[i] = toOrchestrator[i]
       /\ \A i \in 1..Len(toOrchestrator') :
             \/ i \in 1..Len(toOrchestrator) /\ toOrchestrator'[i] = toOrchestrator[i]
             \/ i = Len(toOrchestrator) + 1 /\ toOrchestrator'[i] = o
  <2>1. toOrchestrator \in Seq(Orders)
    BY <1>3 DEF MessageTypes
  <2> QED
    BY <1>2, <1>8, <2>1, AppendedLast
<1>11. MessageTypes'
  BY <1>2, <1>3, <1>5, <1>8, <1>10 DEF MessageTypes
<1>12. Alone(d, q)'
  <2>1. /\ q[d] # "asked" /\ q[d] # "queued" /\ q[d] # "served" /\ q[d] # "answered"
        /\ ~\E m \in requests' : m.dev = d
        /\ ~\E m \in responses' : m.dev = d
        /\ \E x \in pending' : x.dev = d
    BY <1>2, <1>5, <1>6, <1>8 DEF Alone
  <2>2. /\ Waiting(d)' /\ appState'[d] \in {"CREATING", "DELETING"}
        /\ appState'[d] \in {"IDLE", "START"} => ContextsOf(d)' = {}
        /\ appState'[d] \in {"APPCREATED", "DELETING"} =>
              \A c \in ContextsOf(d)' : c.ctx = appContext'[d]
    BY <1>2, <1>6, <1>7, <1>9 DEF Alone, Waiting
  <2> QED
    BY <1>4, <1>5, <2>1, <2>2 DEF Alone
<1>13. \A x \in pending : /\ x.sno \in Nat /\ x.sno < n /\ x.sno # n /\ x.dev \in Devices /\ x.dev # d
                          /\ pl[x.dev] \in AtOrchestrator /\ q[x.dev] = pl[x.dev]
  <2>1. \A x \in pending : x.sno \in Nat /\ x.dev \in Devices
    BY <1>3 DEF MessageTypes
  <2>2. \A x \in pending : x.sno < n /\ pl[x.dev] \in AtOrchestrator
    BY <1>1, <2>1 DEF Placed, NumbersOnce, OneUnderWay
  <2> QED
    BY <1>3, <1>4, <1>5, <2>1, <2>2
<1>14. OneUnderWay(q)' /\ RequestsFit' /\ (\A m \in responses' : AnswerFits(m)') /\ StateFits(q)'
  <2>1. OthersSame(d)
    <3>1. \A x, y \in pending : x.dev = y.dev \/ x.sno = y.sno => x = y
      BY <1>1 DEF Placed, OneUnderWay
    <3>2. \A x, y \in pending' : x.dev = y.dev \/ x.sno = y.sno => x = y
      BY <1>2, <1>8, <1>13, <3>1
    <3> QED
      BY <1>2, <1>7, <1>8, <3>2 DEF OthersSame
  <2>2. turnedDown => turnedDown'
    BY <1>2
  <2> QED
    BY <1>1, <1>3, <1>5, <1>11, <1>12, <2>1, <2>2, OthersPlaced
<1>15. \A k : Orphan(k) => Orphan(k)' /\ k # n
  BY <1>2, <1>3, <1>8, <1>1 DEF Orphan
<1>16. /\ \A i \in 1..Len(toOrchestrator) : toOrchestrator[i].sno # n
       /\ \A m \in delayed : m.sno # n
  BY <1>1, <1>13, <1>15 DEF Placed, OrdersFit, DelayedFit
<1>17. OrdersFit(q)'
  <2> SUFFICES ASSUME NEW i \in 1..Len(toOrchestrator'), NEW m, m = toOrchestrator'[i]
               PROVE  \/ /\ \E x \in pending' : x.sno = m.sno /\ x.dev = m.dev
                         /\ q[m.dev] = "ordered" /\ Fits(m)'
                      \/ /\ Orphan(m.sno)' /\ m.method = "POST"
                         /\ \E r \in responses' : r.dev = m.dev /\ r.code = 500
    BY DEF OrdersFit
  <2>1. CASE m = o
    <3>1. p \in pending' /\ p.sno = m.sno /\ p.dev = m.dev
      BY <1>2, <1>8, <2>1
    <3>2. q[m.dev] = "ordered" /\ Fits(m)
      BY <1>5, <1>8, <1>9, <2>1
    <3>3. Fits(m)'
      BY <1>7, <3>2
    <3> QED
      BY <3>1, <3>2, <3>3
  <2>2. CASE m # o
    <3>1. i \in 1..Len(toOrchestrator) /\ m = toOrchestrator[i]
      BY <1>10, <2>2
    <3>2. \/ /\ \E x \in pending : x.sno = m.sno /\ x.dev = m.dev
             /\ pl[m.dev] = "ordered" /\ Fits(m)
          \/ /\ Orphan(m.sno) /\ m.method = "POST"
             /\ \E r \in responses : r.dev = m.dev /\ r.code = 500
      BY <1>1, <3>1 DEF Placed, OrdersFit
    <3>3. CASE /\ \E x \in pending : x.sno = m.sno /\ x.dev = m.dev
               /\ pl[m.dev] = "ordered" /\ Fits(m)
      <4>1. PICK x \in pending : x.sno = m.sno /\ x.dev = m.dev
        BY <3>3
      <4>2. q[m.dev] = "ordered" /\ x \in pending'
        BY <1>2, <1>13, <3>3, <4>1
      <4> QED
        BY <1>7, <3>3, <4>1, <4>2
    <3>4. CASE /\ Orphan(m.sno) /\ m.method = "POST"
               /\ \E r \in responses : r.dev = m.dev /\ r.code = 500
      BY <1>2, <1>15, <3>4
    <3> QED
      BY <3>2, <3>3, <3>4
  <2> QED
    BY <2>1, <2>2
<1>18. DelayedFit(q)'
  <2> SUFFICES ASSUME NEW m \in delayed
               PROVE  \/ \E x \in pending' : x.sno = m.sno /\ q[x.dev] = "delayed" /\ Tells(m, x.dev)'
                      \/ Orphan(m.sno)'
    BY <1>2 DEF DelayedFit
  <2>1. \/ \E x \in pending : x.sno = m.sno /\ pl[x.dev] = "delayed" /\ Tells(m, x.dev)
        \/ Orphan(m.sno)
    BY <1>1 DEF Placed, DelayedFit
  <2> QED
    BY <1>2, <1>7, <1>13, <1>15, <2>1
<1>19. AcksFit(q)'
  <2> SUFFICES ASSUME NEW i \in 1..Len(toUALCMP), NEW m, m = toUALCMP[i]
               PROVE  \/ \E x \in pending' : x.sno = m.sno /\ q[x.dev] = "acked"
                                             /\ m.success /\ Tells(m, x.dev)'
                      \/ turnedDown' /\ m.sno = 0 /\ m.method = "POST" /\ ~m.success
                      \/ Orphan(m.sno)'
    BY <1>2 DEF AcksFit
  <2>1. \/ \E x \in pending : x.sno = m.sno /\ pl[x.dev] = "acked"
                              /\ m.success /\ Tells(m, x.dev)
        \/ turnedDown /\ m.sno = 0 /\ m.method = "POST" /\ ~m.success
        \/ Orphan(m.sno)
    BY <1>1 DEF Placed, AcksFit
  <2> QED
    BY <1>2, <1>7, <1>13, <1>15, <2>1
<1>20. NumbersOnce'
  <2>1. /\ \A x \in pending : x.sno = 0 => appState[x.dev] = "CREATING"
        /\ \A i, j \in 1..Len(toOrchestrator) :
              toOrchestrator[i].sno = toOrchestrator[j].sno => i = j
        /\ \A m, k \in delayed : m.sno = k.sno => m = k
        /\ \A i \in 1..Len(toOrchestrator), m \in delayed : toOrchestrator[i].sno # m.sno
        /\ \A i, j \in 1..Len(toUALCMP) :
              toUALCMP[i].sno = toUALCMP[j].sno => i = j \/ (turnedDown /\ toUALCMP[i].sno = 0)
    BY <1>1 DEF Placed, NumbersOnce
  <2>2. \A x \in pending' : x.sno < requestSno' /\ (x.sno = 0 => appState'[x.dev] = "CREATING")
    BY <1>2, <1>3, <1>8, <1>9, <1>13, <2>1
  <2>3. requestSno' # 0
    BY <1>2, <1>3
  <2>4. \A i, j \in 1..Len(toOrchestrator') :
           toOrchestrator'[i].sno = toOrchestrator'[j].sno => i = j
    BY <1>8, <1>10, <1>16, <2>1
  <2>5. \A i \in 1..Len(toOrchestrator'), m \in delayed' : toOrchestrator'[i].sno # m.sno
    BY <1>2, <1>8, <1>10, <1>16, <2>1
  <2>6. /\ \A m, k \in delayed' : m.sno = k.sno => m = k
        /\ \A i, j \in 1..Len(toUALCMP') :
              toUALCMP'[i].sno = toUALCMP'[j].sno => i = j \/ (turnedDown' /\ toUALCMP'[i].sno = 0)
    BY <1>2, <2>1
  <2> QED
    BY <2>2, <2>3, <2>4, <2>5, <2>6 DEF NumbersOnce
<1>21. NothingLost(q)'
  <2> SUFFICES ASSUME ~turnedDown' PROVE NothingLost(q)'
    BY DEF NothingLost
  <2>1. /\ \A e \in Devices : pl[e] # "lost" /\ (Waiting(e) => pl[e] # "none")
        /\ \A x \in pending :
              /\ pl[x.dev] = "ordered" => \E i \in 1..Len(toOrchestrator) : toOrchestrator[i].sno = x.sno
              /\ pl[x.dev] = "delayed" => \E m \in delayed : m.sno = x.sno
              /\ pl[x.dev] = "acked" => \E i \in 1..Len(toUALCMP) : toUALCMP[i].sno = x.sno
    BY <1>1, <1>2 DEF Placed, NothingLost
  <2>2. \A e \in Devices : q[e] # "lost" /\ (Waiting(e)' => q[e] # "none")
    BY <1>5, <1>7, <2>1
  <2>3. ASSUME NEW x \in pending'
        PROVE  /\ q[x.dev] = "ordered" => \E i \in 1..Len(toOrchestrator') : toOrchestrator'[i].sno = x.sno
               /\ q[x.dev] = "delayed" => \E m \in delayed' : m.sno = x.sno
               /\ q[x.dev] = "acked" => \E i \in 1..Len(toUALCMP') : toUALCMP'[i].sno = x.sno
    <3>1. CASE x = p
      BY <1>5, <1>8, <1>10, <3>1
    <3>2. CASE x # p
      <4>1. x \in pending /\ q[x.dev] = pl[x.dev]
        BY <1>2, <1>13, <3>2
      <4> QED
        BY <1>2, <1>10, <2>1, <4>1
    <3> QED
      BY <3>1, <3>2
  <2> QED
    BY <2>2, <2>3 DEF NothingLost
<1>22. CreatedRuns'
  BY <1>2, <1>3, <1>7 DEF CreatedRuns
<1> QED
  BY <1>11, <1>14, <1>17, <1>18, <1>19, <1>20, <1>21, <1>22 DEF Good, Placed

\* The orchestrator has dealt with order m, and a is the answer it will give.
OrderDone(m, a) ==
    /\ toOrchestrator # <<>> /\ m = Head(toOrchestrator) /\ toOrchestrator' = Tail(toOrchestrator)
    /\ delayed' = delayed \cup {a} /\ a \in Acks /\ a.sno = m.sno
    /\ UNCHANGED <<appState, appContext, requests, responses, queue, served, requestSno,
                   pending, toUALCMP>>
    /\ turnedDown => turnedDown'
    /\ \A e \in Devices : e # m.dev => ContextsOf(e)' = ContextsOf(e)
    /\ \A c \in meAppMap' : c.dev \in Devices

\* An order that is dealt with moves its device from the connection to the delay.
LEMMA OrderDoneKeeps ==
    ASSUME Good, NEW m, NEW a, OrderDone(m, a), Fits(m) => Tells(a, m.dev)'
    PROVE  Good'
<1>1. PICK d, pl, q :
         /\ d = m.dev /\ Placed(pl)
         /\ q = [pl EXCEPT ![d] = IF pl[d] = "ordered" THEN "delayed" ELSE pl[d]]
  BY DEF Good
<1>2. /\ toOrchestrator # <<>> /\ m = Head(toOrchestrator) /\ toOrchestrator' = Tail(toOrchestrator)
      /\ delayed' = delayed \cup {a} /\ a \in Acks /\ a.sno = m.sno
      /\ UNCHANGED <<appState, appContext, requests, responses, queue, served, requestSno,
                     pending, toUALCMP>>
      /\ turnedDown => turnedDown'
      /\ \A e \in Devices : e # d => ContextsOf(e)' = ContextsOf(e)
      /\ \A c \in meAppMap' : c.dev \in Devices
  BY <1>1 DEF OrderDone
<1>3. MessageTypes /\ CreatedRuns
  BY DEF Good
<1>4. /\ toOrchestrator' \in Seq(Orders) /\ 1 \in 1..Len(toOrchestrator)
      /\ m = toOrchestrator[1] /\ m \in Orders
      /\ \A i \in 1..Len(toOrchestrator') :
            i + 1 \in 1..Len(toOrchestrator) /\ toOrchestrator'[i] = toOrchestrator[i + 1] /\ i + 1 # 1
      /\ \A i \in 1..Len(toOrchestrator) :
            i # 1 => i - 1 \in 1..Len(toOrchestrator') /\ toOrchestrator'[i - 1] = toOrchestrator[i]
  <2>1. toOrchestrator \in Seq(Orders)
    BY <1>3 DEF MessageTypes
  <2> QED
    BY <1>2, <2>1, TailOf
<1>5. d \in Devices /\ pl \in [Devices -> Places]
  BY <1>1, <1>4 DEF Orders, Placed, OneUnderWay
<1>6. Alone(d, pl)
  BY <1>1, <1>5, PlacedAlone
<1>7. \/ /\ \E p \in pending : p.sno = m.sno /\ p.dev = d
         /\ pl[d] = "ordered" /\ Fits(m) /\ Tells(a, d)'
      \/ /\ Orphan(m.sno) /\ m.method = "POST" /\ pl[d] = "answered" /\ turnedDown
         /\ \E r \in responses : r.dev = d /\ r.code = 500
         /\ appState[d] = "CREATING"
  <2>1. \/ /\ \E p \in pending : p.sno = m.sno /\ p.dev = d
           /\ pl[d] = "ordered" /\ Fits(m)
        \/ /\ Orphan(m.sno) /\ m.method = "POST"
           /\ \E r \in responses : r.dev = d /\ r.code = 500
    BY <1>1, <1>4 DEF Placed, OrdersFit
  <2>2. CASE \E r \in responses : r.dev = d /\ r.code = 500
    <3>1. PICK r \in responses : r.dev = d /\ r.code = 500
      BY <2>2
    <3>2. pl[d] = "answered" /\ AnswerFits(r)
      BY <1>6, <3>1 DEF Alone
    <3>3. appState[d] = "CREATING"
      BY <3>1, <3>2 DEF AnswerFits
    <3> QED
      BY <2>1, <3>1, <3>2, <3>3 DEF Orphan
  <2> QED
    BY <1>1, <2>1, <2>2
<1>8. /\ q \in [Devices -> Places]
      /\ q[d] = IF pl[d] = "ordered" THEN "delayed" ELSE pl[d]
      /\ \A e \in Devices : e # d => q[e] = pl[e]
      /\ (IF pl[d] = "ordered" THEN "delayed" ELSE pl[d]) \in Places
  BY <1>1, <1>5 DEF Places, AtOrchestrator
<1>9. MessageTypes'
  BY <1>2, <1>3, <1>4 DEF MessageTypes
<1>10. \A k : Orphan(k) => Orphan(k)'
  BY <1>2 DEF Orphan
<1>11. \A e : Waiting(e)' <=> Waiting(e)
  BY <1>2 DEF Waiting
<1>12. \A e \in Devices : e # d =>
          /\ \A k : Tells(k, e) => Tells(k, e)'
          /\ \A k : k.dev = e => (Fits(k) => Fits(k)')
  BY <1>2 DEF Tells, Fits
<1>13. /\ ~\E n \in requests : n.dev = d
       /\ ~\E i \in 1..Len(queue) : queue[i].dev = d
       /\ ~(served # NoRequest /\ served.dev = d)
       /\ appState[d] = "CREATING" \/ (appState[d] = "DELETING" /\ ContextsOf(d)' = {})
       /\ (pl[d] \in AtOrchestrator <=> q[d] \in AtOrchestrator)
       /\ (pl[d] = "answered" <=> q[d] = "answered")
       /\ q[d] \notin {"asked", "queued", "served"}
  BY <1>2, <1>6, <1>7, <1>8 DEF Alone, AtOrchestrator, Tells
<1>14. Alone(d, q)'
  <2>1. \A n \in responses : n.dev = d => AnswerFits(n)'
    BY <1>2, <1>6, <1>7 DEF Alone, AtOrchestrator, AnswerFits
  <2>2. /\ q[d] = "asked" <=> \E n \in requests' : n.dev = d
        /\ q[d] = "queued" <=> \E i \in 1..Len(queue') : queue'[i].dev = d
        /\ q[d] = "served" <=> served' # NoRequest /\ served'.dev = d
        /\ q[d] \in AtOrchestrator <=> \E p \in pending' : p.dev = d
        /\ q[d] = "answered" <=> \E n \in responses' : n.dev = d
    BY <1>2, <1>6, <1>13 DEF Alone
  <2>3. \A n, k \in responses' : n.dev = d /\ k.dev = d => n = k
    BY <1>2, <1>6 DEF Alone
  <2>4. /\ Waiting(d)' /\ appState'[d] \in {"CREATING", "DELETING"}
        /\ appState'[d] \in {"IDLE", "START"} => ContextsOf(d)' = {}
        /\ appState'[d] \in {"APPCREATED", "DELETING"} =>
              \A c \in ContextsOf(d)' : c.ctx = appContext'[d]
    BY <1>2, <1>13 DEF Waiting
  <2> QED
    BY <1>2, <1>13, <2>1, <2>2, <2>3, <2>4 DEF Alone
<1>15. OneUnderWay(q)' /\ RequestsFit' /\ (\A n \in responses' : AnswerFits(n)') /\ StateFits(q)'
  <2>1. OthersSame(d)
    <3>1. \A x, y \in pending : x.dev = y.dev \/ x.sno = y.sno => x = y
      BY <1>1 DEF Placed, OneUnderWay
    <3> QED
      BY <1>2, <3>1 DEF OthersSame
  <2>2. (turnedDown => turnedDown') /\ UNCHANGED <<queue, served>>
    BY <1>2
  <2> QED
    BY <1>1, <1>3, <1>5, <1>8, <1>9, <1>14, <2>1, <2>2, DeviceMoves
<1>16. \A x \in pending : /\ x.dev \in Devices /\ pl[x.dev] \in AtOrchestrator
                          /\ x.sno # m.sno => x.dev # d /\ q[x.dev] = pl[x.dev]
                          /\ x.dev = d => x.sno = m.sno /\ pl[d] = "ordered"
                          /\ x.sno = m.sno => x.dev = d
  <2>1. \A x \in pending : x.dev \in Devices
    BY <1>3 DEF MessageTypes
  <2>2. \A x \in pending : pl[x.dev] \in AtOrchestrator
    BY <1>1, <2>1 DEF Placed, OneUnderWay
  <2>3. \A x, y \in pending : x.dev = y.dev \/ x.sno = y.sno => x = y
    BY <1>1 DEF Placed, OneUnderWay
  <2>4. \A x \in pending : x.dev = d => x.sno = m.sno /\ pl[d] = "ordered"
    BY <1>7, <2>2, <2>3 DEF AtOrchestrator
  <2>5. \A x \in pending : x.sno = m.sno => x.dev = d
    BY <1>7, <2>3 DEF Orphan
  <2> QED
    BY <1>8, <2>1, <2>2, <2>4, <2>5
<1>17. /\ \A i, j \in 1..Len(toOrchestrator) :
              toOrchestrator[i].sno = toOrchestrator[j].sno => i = j
       /\ \A k, l \in delayed : k.sno = l.sno => k = l
       /\ \A i \in 1..Len(toOrchestrator), k \in delayed : toOrchestrator[i].sno # k.sno
       /\ \A i, j \in 1..Len(toUALCMP) :
              toUALCMP[i].sno = toUALCMP[j].sno => i = j \/ (turnedDown /\ toUALCMP[i].sno = 0)
       /\ \A x \in pending : x.sno < requestSno /\ (x.sno = 0 => appState[x.dev] = "CREATING")
  BY <1>1 DEF Placed, NumbersOnce
<1>18. /\ \A i \in 1..Len(toOrchestrator) : i # 1 => toOrchestrator[i].sno # m.sno
       /\ \A k \in delayed : k.sno # m.sno
  BY <1>4, <1>17
<1>19. OrdersFit(q)'
  <2> SUFFICES ASSUME NEW i \in 1..Len(toOrchestrator'), NEW o, o = toOrchestrator'[i]
               PROVE  \/ /\ \E x \in pending' : x.sno = o.sno /\ x.dev = o.dev
                         /\ q[o.dev] = "ordered" /\ Fits(o)'
                      \/ /\ Orphan(o.sno)' /\ o.method = "POST"
                         /\ \E r \in responses' : r.dev = o.dev /\ r.code = 500
    BY DEF OrdersFit
  <2>1. i + 1 \in 1..Len(toOrchestrator) /\ o = toOrchestrator[i + 1] /\ o.sno # m.sno
    BY <1>4, <1>18
  <2>2. \/ /\ \E x \in pending : x.sno = o.sno /\ x.dev = o.dev
           /\ pl[o.dev] = "ordered" /\ Fits(o)
        \/ /\ Orphan(o.sno) /\ o.method = "POST"
           /\ \E r \in responses : r.dev = o.dev /\ r.code = 500
    BY <1>1, <2>1 DEF Placed, OrdersFit
  <2>3. CASE /\ \E x \in pending : x.sno = o.sno /\ x.dev = o.dev
             /\ pl[o.dev] = "ordered" /\ Fits(o)
    <3>1. PICK x \in pending : x.sno = o.sno /\ x.dev = o.dev
      BY <2>3
    <3>2. o.dev \in Devices /\ o.dev # d /\ q[o.dev] = "ordered"
      BY <1>16, <2>1, <2>3, <3>1
    <3>3. Fits(o)'
      BY <1>12, <2>3, <3>2
    <3> QED
      BY <1>2, <3>1, <3>2, <3>3
  <2>4. CASE /\ Orphan(o.sno) /\ o.method = "POST"
             /\ \E r \in responses : r.dev = o.dev /\ r.code = 500
    BY <1>2, <1>10, <2>4
  <2> QED
    BY <2>2, <2>3, <2>4
<1>20. DelayedFit(q)'
  <2> SUFFICES ASSUME NEW k \in delayed'
               PROVE  \/ \E x \in pending' : x.sno = k.sno /\ q[x.dev] = "delayed" /\ Tells(k, x.dev)'
                      \/ Orphan(k.sno)'
    BY DEF DelayedFit
  <2>1. CASE k = a
    BY <1>2, <1>7, <1>8, <1>10, <2>1
  <2>2. CASE k \in delayed
    <3>1. \/ \E x \in pending : x.sno = k.sno /\ pl[x.dev] = "delayed" /\ Tells(k, x.dev)
          \/ Orphan(k.sno)
      BY <1>1, <2>2 DEF Placed, DelayedFit
    <3> QED
      BY <1>2, <1>10, <1>12, <1>16, <1>18, <2>2, <3>1
  <2> QED
    BY <1>2, <2>1, <2>2
<1>21. AcksFit(q)'
  <2> SUFFICES ASSUME NEW i \in 1..Len(toUALCMP), NEW k, k = toUALCMP[i]
               PROVE  \/ \E x \in pending' : x.sno = k.sno /\ q[x.dev] = "acked"
                                             /\ k.success /\ Tells(k, x.dev)'
                      \/ turnedDown' /\ k.sno = 0 /\ k.method = "POST" /\ ~k.success
                      \/ Orphan(k.sno)'
    BY <1>2 DEF AcksFit
  <2>1. \/ \E x \in pending : x.sno = k.sno /\ pl[x.dev] = "acked"
                              /\ k.success /\ Tells(k, x.dev)
        \/ turnedDown /\ k.sno = 0 /\ k.method = "POST" /\ ~k.success
        \/ Orphan(k.sno)
    BY <1>1 DEF Placed, AcksFit
  <2>2. \A x \in pending : pl[x.dev] = "acked" => x.dev # d /\ q[x.dev] = "acked"
    BY <1>16
  <2> QED
    BY <1>2, <1>10, <1>12, <1>16, <2>1, <2>2
<1>22. NumbersOnce'
  <2>1. requestSno' = 0 => meAppMap' = {}
    <3>1. requestSno # 0
      <4>1. \A x \in pending : x.sno \in Nat
        BY <1>3 DEF MessageTypes
      <4>2. requestSno \in Nat
        BY <1>3 DEF MessageTypes
      <4> QED
        BY <1>7, <1>17, <4>1, <4>2 DEF Orphan
    <3> QED
      BY <1>2, <3>1
  <2>2. \A i, j \in 1..Len(toOrchestrator') :
           toOrchestrator'[i].sno = toOrchestrator'[j].sno => i = j
    <3>1. TAKE i, j \in 1..Len(toOrchestrator')
    <3>2. toOrchestrator[i + 1].sno = toOrchestrator[j + 1].sno => i + 1 = j + 1
      BY <1>4, <1>17
    <3> QED
      BY <1>4, <3>2
  <2>3. \A k, l \in delayed' : k.sno = l.sno => k = l
    BY <1>2, <1>17, <1>18
  <2>4. \A i \in 1..Len(toOrchestrator'), k \in delayed' : toOrchestrator'[i].sno # k.sno
    BY <1>2, <1>4, <1>17, <1>18
  <2>5. /\ \A i, j \in 1..Len(toUALCMP') :
              toUALCMP'[i].sno = toUALCMP'[j].sno => i = j \/ (turnedDown' /\ toUALCMP'[i].sno = 0)
        /\ \A x \in pending' : x.sno < requestSno' /\ (x.sno = 0 => appState'[x.dev] = "CREATING")
    BY <1>2, <1>17
  <2> QED
    BY <2>1, <2>2, <2>3, <2>4, <2>5 DEF NumbersOnce
<1>23. NothingLost(q)'
  <2> SUFFICES ASSUME ~turnedDown' PROVE NothingLost(q)'
    BY DEF NothingLost
  <2>1. /\ \A e \in Devices : pl[e] # "lost" /\ (Waiting(e) => pl[e] # "none")
        /\ \A x \in pending :
              /\ pl[x.dev] = "ordered" => \E i \in 1..Len(toOrchestrator) : toOrchestrator[i].sno = x.sno
              /\ pl[x.dev] = "delayed" => \E k \in delayed : k.sno = x.sno
              /\ pl[x.dev] = "acked" => \E i \in 1..Len(toUALCMP) : toUALCMP[i].sno = x.sno
    BY <1>1, <1>2 DEF Placed, NothingLost
  <2>2. \A e \in Devices : q[e] # "lost" /\ (Waiting(e)' => q[e] # "none")
    BY <1>8, <1>11, <2>1
  <2>3. ASSUME NEW x \in pending'
        PROVE  /\ q[x.dev] = "ordered" => \E i \in 1..Len(toOrchestrator') : toOrchestrator'[i].sno = x.sno
               /\ q[x.dev] = "delayed" => \E k \in delayed' : k.sno = x.sno
               /\ q[x.dev] = "acked" => \E i \in 1..Len(toUALCMP') : toUALCMP'[i].sno = x.sno
    <3>1. x \in pending
      BY <1>2
    <3>2. CASE x.sno = m.sno
      <4>1. x.dev = d /\ pl[d] = "ordered" /\ q[d] = "delayed"
        BY <1>8, <1>16, <3>1, <3>2
      <4>2. a \in delayed' /\ a.sno = x.sno
        BY <1>2, <3>2
      <4> QED
        BY <4>1, <4>2
    <3>3. CASE x.sno # m.sno
      <4>1. q[x.dev] = pl[x.dev]
        BY <1>16, <3>1, <3>3
      <4>2. \A i \in 1..Len(toOrchestrator) : toOrchestrator[i].sno = x.sno
               => i - 1 \in 1..Len(toOrchestrator') /\ toOrchestrator'[i - 1].sno = x.sno
        BY <1>4, <3>3
      <4> QED
        BY <1>2, <2>1, <3>1, <4>1, <4>2
    <3> QED
      BY <3>2, <3>3
  <2> QED
    BY <2>2, <2>3 DEF NothingLost
<1>24. CreatedRuns'
  BY <1>2, <1>3, <1>13 DEF CreatedRuns
<1> QED
  BY <1>9, <1>15, <1>19, <1>20, <1>21, <1>22, <1>23, <1>24 DEF Good, Placed

\* A step that changes what is on the way to and from the orchestrator only.
OnlyLinks ==
    UNCHANGED <<appState, appContext, requests, responses, queue, served, requestSno,
                pending, meAppMap, turnedDown>>

\* Such a step changes nothing of what a device or an answer must fit.
LEMMA LinksOnly ==
    ASSUME OnlyLinks
    PROVE  /\ \A k : (Fits(k)' <=> Fits(k)) /\ (Orphan(k)' <=> Orphan(k))
           /\ \A k, e : Tells(k, e)' <=> Tells(k, e)
           /\ \A e : (ContextsOf(e)' = ContextsOf(e)) /\ (Waiting(e)' <=> Waiting(e))
           /\ CreatedRuns => CreatedRuns'
           /\ \A pl : Placed(pl) => /\ OneUnderWay(pl)' /\ RequestsFit'
                                    /\ \A n \in responses' : AnswerFits(n)'
                                    /\ StateFits(pl)'
<1> USE DEF OnlyLinks
<1>1. /\ \A e : (ContextsOf(e)' = ContextsOf(e)) /\ (Waiting(e)' <=> Waiting(e))
      /\ \A k : (Fits(k)' <=> Fits(k)) /\ (AnswerFits(k)' <=> AnswerFits(k))
      /\ \A k, e : Tells(k, e)' <=> Tells(k, e)
      /\ \A k : Orphan(k)' <=> Orphan(k)
  <2>1. \A e : (ContextsOf(e)' = ContextsOf(e)) /\ (Waiting(e)' <=> Waiting(e))
    BY DEF ContextsOf, Waiting
  <2>2. \A k : (Fits(k)' <=> Fits(k)) /\ (AnswerFits(k)' <=> AnswerFits(k))
    BY <2>1 DEF Fits, AnswerFits
  <2>3. \A k, e : Tells(k, e)' <=> Tells(k, e)
    BY <2>1 DEF Tells
  <2>4. \A k : Orphan(k)' <=> Orphan(k)
    BY DEF Orphan
  <2> QED
    BY <2>1, <2>2, <2>3, <2>4
<1>2. ASSUME NEW pl, Placed(pl)
      PROVE  /\ OneUnderWay(pl)' /\ RequestsFit'
             /\ \A n \in responses' : AnswerFits(n)'
             /\ StateFits(pl)'
  <2>1. OneUnderWay(pl)'
    BY <1>2 DEF Placed, OneUnderWay
  <2>2. RequestsFit' /\ (\A n \in responses' : AnswerFits(n)')
    BY <1>1, <1>2 DEF Placed, RequestsFit
  <2>3. StateFits(pl)'
    BY <1>1, <1>2 DEF Placed, StateFits
  <2> QED
    BY <2>1, <2>2, <2>3
<1>3. CreatedRuns => CreatedRuns'
  BY <1>1 DEF CreatedRuns
<1> QED
  BY <1>1, <1>2, <1>3

\* Only an order nobody waits for is for an application that exists already.
LEMMA AlreadyStartedKeeps ==
    ASSUME Good, MapInv, StartMECApp, NEW m, m = Head(toOrchestrator), ContextsOf(m.dev) # {}
    PROVE  Good'
<1>1. PICK pl : Placed(pl)
  BY DEF Good
<1>2. PICK c \in ContextsOf(m.dev) : toUALCMP' = Append(toUALCMP, Ack("POST", m.sno, TRUE, c.ctx))
  BY DEF StartMECApp, AlreadyStarted
<1>3. /\ toOrchestrator # <<>> /\ m.method = "POST" /\ toOrchestrator' = Tail(toOrchestrator)
      /\ UNCHANGED <<appState, appContext, requests, responses, queue, served, requestSno,
                     pending, delayed, meAppMap, turnedDown>>
  BY DEF StartMECApp, AlreadyStarted, Received, orchVars, deviceVars, ualcmpVars
<1>4. PICK a : a = Ack("POST", m.sno, TRUE, c.ctx)
  OBVIOUS
<1>5. MessageTypes /\ CreatedRuns
  BY DEF Good
<1>6. /\ toOrchestrator' \in Seq(Orders) /\ 1 \in 1..Len(toOrchestrator)
      /\ m = toOrchestrator[1] /\ m \in Orders
      /\ \A i \in 1..Len(toOrchestrator') :
            i + 1 \in 1..Len(toOrchestrator) /\ toOrchestrator'[i] = toOrchestrator[i + 1] /\ i + 1 # 1
      /\ \A i \in 1..Len(toOrchestrator) :
            i # 1 => i - 1 \in 1..Len(toOrchestrator') /\ toOrchestrator'[i - 1] = toOrchestrator[i]
  <2>1. toOrchestrator \in Seq(Orders)
    BY <1>5 DEF MessageTypes
  <2> QED
    BY <1>3, <2>1, TailOf
<1>7. Orphan(m.sno)
  <2>1. m.dev \in Devices /\ (~Orphan(m.sno) => Fits(m))
    BY <1>1, <1>6 DEF Placed, OrdersFit, Orders
  <2> QED
    BY <1>3, <2>1 DEF Fits
<1>8. a \in Acks /\ a.sno = 0 /\ turnedDown
  <2>1. c.ctx \in Int
    BY <1>2 DEF MapInv, ContextsOf
  <2> QED
    BY <1>4, <1>7, <2>1 DEF Ack, Acks, Orphan
<1>9. /\ toUALCMP' \in Seq(Acks)
      /\ \A i \in 1..Len(toUALCMP') :
            \/ i \in 1..Len(toUALCMP) /\ toUALCMP'[i] = toUALCMP[i]
            \/ i = Len(toUALCMP) + 1 /\ toUALCMP'[i] = a
  <2>1. toUALCMP \in Seq(Acks)
    BY <1>5 DEF MessageTypes
  <2>2. toUALCMP' = Append(toUALCMP, a)
    BY <1>2, <1>4, Zenon
  <2> QED
    BY <1>8, <2>1, <2>2, AppendedLast
<1>10. MessageTypes'
  BY <1>3, <1>5, <1>6, <1>9 DEF MessageTypes
<1>11. OnlyLinks
  BY <1>3 DEF OnlyLinks
<1>12. /\ \A k : (Fits(k)' <=> Fits(k)) /\ (Orphan(k)' <=> Orphan(k))
       /\ \A k, e : Tells(k, e)' <=> Tells(k, e)
  BY <1>11, LinksOnly
<1>13. OrdersFit(pl)'
  <2> SUFFICES ASSUME NEW i \in 1..Len(toOrchestrator'), NEW o, o = toOrchestrator'[i]
               PROVE  \/ /\ \E x \in pending' : x.sno = o.sno /\ x.dev = o.dev
                         /\ pl[o.dev] = "ordered" /\ Fits(o)'
                      \/ /\ Orphan(o.sno)' /\ o.method = "POST"
                         /\ \E r \in responses' : r.dev = o.dev /\ r.code = 500
    BY DEF OrdersFit
  <2>1. i + 1 \in 1..Len(toOrchestrator) /\ o = toOrchestrator[i + 1]
    BY <1>6
  <2> QED
    BY <1>1, <1>3, <1>12, <2>1 DEF Placed, OrdersFit
<1>14. DelayedFit(pl)'
  BY <1>1, <1>3, <1>12 DEF Placed, DelayedFit
<1>15. AcksFit(pl)'
  <2> SUFFICES ASSUME NEW i \in 1..Len(toUALCMP'), NEW k, k = toUALCMP'[i]
               PROVE  \/ \E x \in pending' : x.sno = k.sno /\ pl[x.dev] = "acked"
                                             /\ k.success /\ Tells(k, x.dev)'
                      \/ turnedDown' /\ k.sno = 0 /\ k.method = "POST" /\ ~k.success
                      \/ Orphan(k.sno)'
    BY DEF AcksFit
  <2>1. CASE k = a
    BY <1>7, <1>8, <1>12, <2>1 DEF Orphan
  <2>2. CASE k # a
    <3>1. i \in 1..Len(toUALCMP) /\ k = toUALCMP[i]
      BY <1>9, <2>2
    <3>2. \/ \E x \in pending : x.sno = k.sno /\ pl[x.dev] = "acked"
                                /\ k.success /\ Tells(k, x.dev)
          \/ turnedDown /\ k.sno = 0 /\ k.method = "POST" /\ ~k.success
          \/ Orphan(k.sno)
      BY <1>1, <3>1 DEF Placed, AcksFit
    <3> QED
      BY <1>3, <1>12, <3>2
  <2> QED
    BY <2>1, <2>2
<1>16. NumbersOnce'
  <2>1. /\ \A i, j \in 1..Len(toOrchestrator) :
              toOrchestrator[i].sno = toOrchestrator[j].sno => i = j
        /\ \A k, l \in delayed : k.sno = l.sno => k = l
        /\ \A i \in 1..Len(toOrchestrator), k \in delayed : toOrchestrator[i].sno # k.sno
        /\ \A i, j \in 1..Len(toUALCMP) :
              toUALCMP[i].sno = toUALCMP[j].sno => i = j \/ (turnedDown /\ toUALCMP[i].sno = 0)
        /\ \A x \in pending : x.sno < requestSno /\ (x.sno = 0 => appState[x.dev] = "CREATING")
        /\ requestSno = 0 => meAppMap = {}
    BY <1>1 DEF Placed, NumbersOnce
  <2>2. \A i, j \in 1..Len(toOrchestrator') :
           toOrchestrator'[i].sno = toOrchestrator'[j].sno => i = j
    <3>1. TAKE i, j \in 1..Len(toOrchestrator')
    <3>2. toOrchestrator[i + 1].sno = toOrchestrator[j + 1].sno => i + 1 = j + 1
      BY <1>6, <2>1
    <3> QED
      BY <1>6, <3>2
  <2>3. \A i \in 1..Len(toOrchestrator'), k \in delayed' : toOrchestrator'[i].sno # k.sno
    BY <1>3, <1>6, <2>1
  <2>4. \A i, j \in 1..Len(toUALCMP') :
           toUALCMP'[i].sno = toUALCMP'[j].sno => i = j \/ (turnedDown' /\ toUALCMP'[i].sno = 0)
    BY <1>3, <1>8, <1>9, <2>1
  <2> QED
    BY <1>3, <2>1, <2>2, <2>3, <2>4 DEF NumbersOnce
<1>17. NothingLost(pl)'
  BY <1>3, <1>8 DEF NothingLost
<1>18. CreatedRuns' /\ OneUnderWay(pl)' /\ RequestsFit'
       /\ (\A n \in responses' : AnswerFits(n)') /\ StateFits(pl)'
  BY <1>1, <1>5, <1>11, LinksOnly
<1> QED
  BY <1>10, <1>13, <1>14, <1>15, <1>16, <1>17, <1>18 DEF Good, Placed

\* startMECApp, in all its cases.
LEMMA StartMECAppKeeps ==
    ASSUME Good, MapInv, StartMECApp
    PROVE  Good'
<1>1. PICK m : m = Head(toOrchestrator)
  OBVIOUS
<1>2. /\ toOrchestrator # <<>> /\ m.method = "POST" /\ toOrchestrator' = Tail(toOrchestrator)
      /\ UNCHANGED <<appState, appContext, requests, responses, queue, served, requestSno,
                     pending>>
  BY <1>1 DEF StartMECApp, Received, deviceVars, ualcmpVars
<1>3. MessageTypes /\ m \in Orders
  <2>1. toOrchestrator \in Seq(Orders) /\ MessageTypes
    BY DEF Good, MessageTypes
  <2> QED
    BY <1>1, <1>2, <2>1, TailOf
<1>4. m.dev \in Devices /\ m.sno \in Nat /\ \A c \in meAppMap : c.dev \in Devices
  BY <1>3 DEF Orders, MessageTypes
<1>5. Fits(m) => appState[m.dev] = "CREATING"
  BY <1>2 DEF Fits
<1>6. CASE ContextsOf(m.dev) # {}
  BY <1>1, <1>6, AlreadyStartedKeeps
<1>7. CASE ContextsOf(m.dev) = {} /\ BestHosts = {}
  <2>1. PICK a : a = Ack("POST", m.sno, FALSE, -1)
    OBVIOUS
  <2>2. delayed' = delayed \cup {a} /\ turnedDown' /\ UNCHANGED <<meAppMap, toUALCMP>>
    BY <1>1, <1>7, <2>1 DEF StartMECApp, DoNotPlace
  <2>3. a \in Acks /\ a.sno = m.sno /\ a.method = "POST" /\ ~a.success
    BY <1>4, <2>1 DEF Ack, Acks
  <2>4. OrderDone(m, a)
    BY <1>1, <1>2, <1>4, <2>2, <2>3 DEF OrderDone, ContextsOf
  <2>5. Fits(m) => Tells(a, m.dev)'
    BY <1>2, <1>5, <2>2, <2>3 DEF Tells
  <2> QED
    BY <2>4, <2>5, OrderDoneKeeps
<1>8. CASE ContextsOf(m.dev) = {} /\ BestHosts # {}
  <2>1. PICK h \in BestHosts : Place(m, h)
    BY <1>1, <1>8 DEF StartMECApp
  <2>2. PICK a, c : /\ a = Ack("POST", m.sno, TRUE, contextIdCounter)
                    /\ c = [ctx |-> contextIdCounter, dev |-> m.dev, host |-> h]
    OBVIOUS
  <2>3. /\ delayed' = delayed \cup {a} /\ meAppMap' = meAppMap \cup {c}
        /\ UNCHANGED <<turnedDown, toUALCMP>>
    BY <2>1, <2>2 DEF Place
  <2>4. /\ a \in Acks /\ a.sno = m.sno /\ a.method = "POST" /\ a.success
        /\ c.dev = m.dev /\ c.ctx = a.ctx
    BY <1>4, <2>2 DEF Ack, Acks, MapInv
  <2>5. OrderDone(m, a)
    BY <1>1, <1>2, <1>4, <2>3, <2>4 DEF OrderDone, ContextsOf
  <2>6. Fits(m) => Tells(a, m.dev)'
    <3>1. c \in ContextsOf(m.dev)'
      BY <2>3, <2>4 DEF ContextsOf
    <3> QED
      BY <1>2, <1>5, <2>4, <3>1 DEF Tells
  <2> QED
    BY <2>5, <2>6, OrderDoneKeeps
<1> QED
  BY <1>6, <1>7, <1>8

\* A DELETE is for the context of its device.
LEMMA StopMECAppKeeps ==
    ASSUME Good, MapInv, StopMECApp
    PROVE  Good'
<1>1. PICK m, pl : m = Head(toOrchestrator) /\ Placed(pl)
  BY DEF Good
<1>2. /\ toOrchestrator # <<>> /\ m.method = "DELETE" /\ toOrchestrator' = Tail(toOrchestrator)
      /\ UNCHANGED <<appState, appContext, requests, responses, queue, served, requestSno,
                     pending, turnedDown>>
  BY <1>1 DEF StopMECApp, Received, deviceVars, ualcmpVars
<1>3. MessageTypes /\ m \in Orders /\ 1 \in 1..Len(toOrchestrator) /\ m = toOrchestrator[1]
  <2>1. toOrchestrator \in Seq(Orders) /\ MessageTypes
    BY DEF Good, MessageTypes
  <2> QED
    BY <1>1, <1>2, <2>1, TailOf
<1>4. /\ m.dev \in Devices /\ m.sno \in Nat /\ m.ctx \in Int
      /\ \A c \in meAppMap : c.dev \in Devices
  BY <1>3 DEF Orders, MessageTypes
<1>5. Fits(m)
  BY <1>1, <1>2, <1>3 DEF Placed, OrdersFit
<1>6. /\ appState[m.dev] = "DELETING"
      /\ \E e \in meAppMap : e.dev = m.dev /\ e.ctx = m.ctx
      /\ \A e \in meAppMap : e.dev = m.dev \/ e.ctx = m.ctx => e.dev = m.dev /\ e.ctx = m.ctx
  BY <1>2, <1>5 DEF Fits, ContextsOf, MapInv
<1>7. PICK c, a : /\ c \in meAppMap /\ c.ctx = m.ctx /\ meAppMap' = meAppMap \ {c}
                 /\ a = Ack("DELETE", m.sno, TRUE, m.ctx)
                 /\ delayed' = delayed \cup {a} /\ toUALCMP' = toUALCMP
  <2> DEFINE known == {e \in meAppMap : e.ctx = m.ctx}
  <2>1. known # {}
    BY <1>6
  <2> QED
    BY <1>1, <2>1 DEF StopMECApp
<1>8. /\ a \in Acks /\ a.sno = m.sno /\ a.method = "DELETE" /\ a.success
  BY <1>4, <1>7 DEF Ack, Acks
<1>9. ContextsOf(m.dev)' = {} /\ \A e \in Devices : e # m.dev => ContextsOf(e)' = ContextsOf(e)
  BY <1>6, <1>7 DEF ContextsOf, MapInv
<1>10. OrderDone(m, a)
  BY <1>1, <1>2, <1>4, <1>7, <1>8, <1>9 DEF OrderDone
<1>11. Tells(a, m.dev)'
  BY <1>2, <1>6, <1>8, <1>9 DEF Tells
<1> QED
  BY <1>10, <1>11, OrderDoneKeeps

\* A delay ends of which no device waits for the answer any more.
LEMMA OrphanDelayEnds ==
    ASSUME Good, NEW m \in delayed, DelayEnds(m), Orphan(m.sno)
    PROVE  Good'
<1>1. PICK pl : Placed(pl)
  BY DEF Good
<1>2. /\ OnlyLinks /\ delayed' = delayed \ {m} /\ toOrchestrator' = toOrchestrator
      /\ turnedDown /\ m.sno = 0
  BY DEF DelayEnds, OnlyLinks, deviceVars, ualcmpVars, Orphan
<1>3. MessageTypes /\ CreatedRuns /\ m \in Acks
  BY DEF Good, MessageTypes
<1>4. PICK k \in Acks : /\ k.sno = 0
                        /\ toUALCMP' = toUALCMP \/ toUALCMP' = Append(toUALCMP, k)
  <2>1. [m EXCEPT !.sno = 0] \in Acks /\ [m EXCEPT !.sno = 0].sno = 0
    BY <1>3 DEF Acks
  <2> QED
    BY <1>2, <1>3, <2>1 DEF DelayEnds
<1>5. /\ toUALCMP' \in Seq(Acks)
      /\ \A i \in 1..Len(toUALCMP') :
            \/ i \in 1..Len(toUALCMP) /\ toUALCMP'[i] = toUALCMP[i]
            \/ i = Len(toUALCMP) + 1 /\ toUALCMP'[i] = k
  <2>1. toUALCMP \in Seq(Acks)
    BY <1>3 DEF MessageTypes
  <2>2. CASE toUALCMP' = toUALCMP
    BY <2>1, <2>2
  <2>3. CASE toUALCMP' = Append(toUALCMP, k)
    BY <2>1, <2>3, AppendedLast
  <2> QED
    BY <1>4, <2>2, <2>3
<1>6. MessageTypes'
  BY <1>2, <1>3, <1>5 DEF MessageTypes, OnlyLinks
<1>7. /\ \A l : (Fits(l)' <=> Fits(l)) /\ (Orphan(l)' <=> Orphan(l))
      /\ \A l, e : Tells(l, e)' <=> Tells(l, e)
      /\ CreatedRuns' /\ OneUnderWay(pl)' /\ RequestsFit'
      /\ (\A n \in responses' : AnswerFits(n)') /\ StateFits(pl)'
  BY <1>1, <1>2, <1>3, LinksOnly
<1>8. OrdersFit(pl)' /\ DelayedFit(pl)'
  <2>1. pending' = pending /\ responses' = responses
    BY <1>2 DEF OnlyLinks
  <2>2. OrdersFit(pl)'
    BY <1>1, <1>2, <1>7, <2>1 DEF Placed, OrdersFit
  <2>3. DelayedFit(pl)'
    BY <1>1, <1>2, <1>7, <2>1 DEF Placed, DelayedFit
  <2> QED
    BY <2>2, <2>3
<1>9. AcksFit(pl)'
  <2> SUFFICES ASSUME NEW i \in 1..Len(toUALCMP'), NEW a, a = toUALCMP'[i]
               PROVE  \/ \E x \in pending' : x.sno = a.sno /\ pl[x.dev] = "acked"
                                             /\ a.success /\ Tells(a, x.dev)'
                      \/ turnedDown' /\ a.sno = 0 /\ a.method = "POST" /\ ~a.success
                      \/ Orphan(a.sno)'
    BY DEF AcksFit
  <2>1. CASE a = k
    BY <1>2, <1>4, <1>7, <2>1
  <2>2. CASE a # k
    <3>1. i \in 1..Len(toUALCMP) /\ a = toUALCMP[i]
      BY <1>5, <2>2
    <3>2. \/ \E x \in pending : x.sno = a.sno /\ pl[x.dev] = "acked"
                                /\ a.success /\ Tells(a, x.dev)
          \/ turnedDown /\ a.sno = 0 /\ a.method = "POST" /\ ~a.success
          \/ Orphan(a.sno)
      BY <1>1, <3>1 DEF Placed, AcksFit
    <3> QED
      BY <1>2, <1>7, <3>2 DEF OnlyLinks
  <2> QED
    BY <2>1, <2>2
<1>10. NumbersOnce'
  <2>1. /\ \A i, j \in 1..Len(toOrchestrator) :
              toOrchestrator[i].sno = toOrchestrator[j].sno => i = j
        /\ \A a, l \in delayed : a.sno = l.sno => a = l
        /\ \A i \in 1..Len(toOrchestrator), a \in delayed : toOrchestrator[i].sno # a.sno
        /\ \A i, j \in 1..Len(toUALCMP) :
              toUALCMP[i].sno = toUALCMP[j].sno => i = j \/ (turnedDown /\ toUALCMP[i].sno = 0)
        /\ \A x \in pending : x.sno < requestSno /\ (x.sno = 0 => appState[x.dev] = "CREATING")
        /\ requestSno = 0 => meAppMap = {}
    BY <1>1 DEF Placed, NumbersOnce
  <2>2. \A i, j \in 1..Len(toUALCMP') :
           toUALCMP'[i].sno = toUALCMP'[j].sno => i = j \/ (turnedDown' /\ toUALCMP'[i].sno = 0)
    BY <1>2, <1>4, <1>5, <2>1 DEF OnlyLinks
  <2> QED
    BY <1>2, <2>1, <2>2 DEF NumbersOnce, OnlyLinks
<1>11. NothingLost(pl)'
  BY <1>2 DEF NothingLost, OnlyLinks
<1> QED
  BY <1>6, <1>7, <1>8, <1>9, <1>10, <1>11 DEF Good, Placed

\* A delay ends of which a device waits for the answer.  The refusal of a
\* creation has lost its number.
LEMMA ExpectedDelayEnds ==
    ASSUME Good, NEW m \in delayed, DelayEnds(m), ~Orphan(m.sno)
    PROVE  Good'
<1>1. PICK pl : Placed(pl)
  BY DEF Good
<1>2. PICK p \in pending : p.sno = m.sno /\ pl[p.dev] = "delayed" /\ Tells(m, p.dev)
  BY <1>1 DEF Placed, DelayedFit
<1>3. PICK d, x, q : /\ d = p.dev /\ x = (IF m.success THEN "acked" ELSE "lost")
                     /\ q = [pl EXCEPT ![d] = x]
  OBVIOUS
<1>4. /\ OnlyLinks /\ delayed' = delayed \ {m} /\ toOrchestrator' = toOrchestrator
  BY DEF DelayEnds, OnlyLinks, deviceVars, ualcmpVars
<1>5. MessageTypes /\ CreatedRuns /\ m \in Acks /\ d \in Devices /\ m.sno \in Nat
  BY <1>3 DEF Good, MessageTypes, Acks
<1>6. PICK k \in Acks :
         /\ toUALCMP' = Append(toUALCMP, k)
         /\ \/ m.success /\ k = m
            \/ ~m.success /\ turnedDown /\ k.sno = 0 /\ k.method = "POST" /\ ~k.success
  <2>1. CASE m.success
    <3>1. m.method = "POST" => \E c \in meAppMap : c.ctx = m.ctx
      BY <1>2, <2>1 DEF Tells, ContextsOf
    <3>2. toUALCMP' = Append(toUALCMP, m)
      BY <2>1, <3>1 DEF DelayEnds
    <3> QED
      BY <1>5, <2>1, <3>2
  <2>2. CASE ~m.success
    <3> DEFINE n == [m EXCEPT !.sno = 0]
    <3>1. m.method = "POST" /\ turnedDown
      BY <1>2, <2>2 DEF Tells
    <3>2. toUALCMP' = Append(toUALCMP, n)
      BY <2>2, <3>1 DEF DelayEnds
    <3>3. n \in Acks /\ n.sno = 0 /\ n.method = "POST" /\ ~n.success
      BY <1>5, <2>2, <3>1 DEF Acks
    <3> QED
      BY <2>2, <3>1, <3>2, <3>3
  <2> QED
    BY <2>1, <2>2
<1>7. /\ toUALCMP' \in Seq(Acks) /\ Len(toUALCMP) + 1 \in 1..Len(toUALCMP')
      /\ toUALCMP'[Len(toUALCMP) + 1] = k
      /\ \A i \in 1..Len(toUALCMP) : i \in 1..Len(toUALCMP') /\ toUALCMP'[i] = toUALCMP[i]
      /\ \A i \in 1..Len(toUALCMP') :
            \/ i \in 1..Len(toUALCMP) /\ toUALCMP'[i] = toUALCMP[i]
            \/ i = Len(toUALCMP) + 1 /\ toUALCMP'[i] = k
  <2>1. toUALCMP \in Seq(Acks)
    BY <1>5 DEF MessageTypes
  <2> QED
    BY <1>6, <2>1, AppendedLast
<1>8. MessageTypes'
  BY <1>4, <1>5, <1>7 DEF MessageTypes, OnlyLinks
<1>9. /\ \A l : (Fits(l)' <=> Fits(l)) /\ (Orphan(l)' <=> Orphan(l))
      /\ \A l, e : Tells(l, e)' <=> Tells(l, e)
      /\ \A e : (ContextsOf(e)' = ContextsOf(e)) /\ (Waiting(e)' <=> Waiting(e))
      /\ CreatedRuns' /\ OneUnderWay(pl)' /\ RequestsFit'
      /\ (\A n \in responses' : AnswerFits(n)') /\ StateFits(pl)'
  BY <1>1, <1>4, <1>5, LinksOnly
<1>10. /\ pl \in [Devices -> Places] /\ x \in AtOrchestrator /\ x # "delayed" /\ x # "ordered"
       /\ pl[d] \in AtOrchestrator /\ pl[d] = "delayed" /\ x \in Places
  BY <1>1, <1>2, <1>3 DEF Placed, OneUnderWay, AtOrchestrator, Places
<1>11. /\ q \in [Devices -> Places] /\ q[d] = x
       /\ \A e \in Devices : e # d => q[e] = pl[e]
  BY <1>3, <1>5, <1>10
<1>12. \A y \in pending : /\ y.dev \in Devices
                          /\ (y.sno = m.sno \/ y.dev = d) => y = p
                          /\ y # p => y.dev # d /\ q[y.dev] = pl[y.dev]
  <2>1. \A y \in pending : y.dev \in Devices
    BY <1>5 DEF MessageTypes
  <2>2. \A y, z \in pending : y.dev = z.dev \/ y.sno = z.sno => y = z
    BY <1>1 DEF Placed, OneUnderWay
  <2> QED
    BY <1>2, <1>3, <1>11, <2>1, <2>2
<1>13. OneUnderWay(q)' /\ RequestsFit' /\ (\A n \in responses' : AnswerFits(n)') /\ StateFits(q)'
  <2>1. Alone(d, pl)
    BY <1>1, <1>5, PlacedAlone
  <2>2. OneUnderWay(q)'
    <3>1. \A e \in Devices : /\ q[e] = "asked" <=> pl[e] = "asked"
                             /\ q[e] = "queued" <=> pl[e] = "queued"
                             /\ q[e] = "served" <=> pl[e] = "served"
                             /\ q[e] \in AtOrchestrator <=> pl[e] \in AtOrchestrator
                             /\ q[e] = "answered" <=> pl[e] = "answered"
      BY <1>10, <1>11 DEF AtOrchestrator
    <3> QED
      BY <1>9, <1>11, <3>1 DEF OneUnderWay
  <2>3. StateFits(q)'
    <3> SUFFICES ASSUME NEW e \in Devices
                 PROVE  /\ ~Waiting(e)' => q[e] = "none"
                        /\ appState'[e] \in {"IDLE", "START"} => ContextsOf(e)' = {}
                        /\ appState'[e] \in {"APPCREATED", "DELETING"} =>
                              \A c \in ContextsOf(e)' : c.ctx = appContext'[e]
                        /\ q[e] \in AtOrchestrator => appState'[e] \in {"CREATING", "DELETING"}
      BY DEF StateFits
    <3>1. /\ ~Waiting(e)' => pl[e] = "none"
          /\ appState'[e] \in {"IDLE", "START"} => ContextsOf(e)' = {}
          /\ appState'[e] \in {"APPCREATED", "DELETING"} =>
                \A c \in ContextsOf(e)' : c.ctx = appContext'[e]
          /\ pl[e] \in AtOrchestrator => appState'[e] \in {"CREATING", "DELETING"}
      BY <1>9 DEF StateFits
    <3>2. (q[e] \in AtOrchestrator => pl[e] \in AtOrchestrator) /\ (pl[e] = "none" => q[e] = "none")
      BY <1>10, <1>11
    <3> QED
      BY <3>1, <3>2
  <2> QED
    BY <1>9, <2>2, <2>3
<1>14. OrdersFit(q)'
  <2> SUFFICES ASSUME NEW i \in 1..Len(toOrchestrator), NEW o, o = toOrchestrator[i]
               PROVE  \/ /\ \E y \in pending : y.sno = o.sno /\ y.dev = o.dev
                         /\ q[o.dev] = "ordered" /\ Fits(o)
                      \/ /\ Orphan(o.sno) /\ o.method = "POST"
                         /\ \E r \in responses : r.dev = o.dev /\ r.code = 500
    BY <1>4, <1>9 DEF OrdersFit, OnlyLinks
  <2>1. \/ /\ \E y \in pending : y.sno = o.sno /\ y.dev = o.dev
           /\ pl[o.dev] = "ordered" /\ Fits(o)
        \/ /\ Orphan(o.sno) /\ o.method = "POST"
           /\ \E r \in responses : r.dev = o.dev /\ r.code = 500
    BY <1>1 DEF Placed, OrdersFit
  <2>2. \A y \in pending : y.dev = o.dev /\ pl[o.dev] = "ordered" => q[o.dev] = "ordered"
    BY <1>3, <1>10, <1>12
  <2> QED
    BY <2>1, <2>2
<1>15. /\ \A i, j \in 1..Len(toOrchestrator) :
              toOrchestrator[i].sno = toOrchestrator[j].sno => i = j
       /\ \A a, l \in delayed : a.sno = l.sno => a = l
       /\ \A i \in 1..Len(toOrchestrator), a \in delayed : toOrchestrator[i].sno # a.sno
       /\ \A i, j \in 1..Len(toUALCMP) :
             toUALCMP[i].sno = toUALCMP[j].sno => i = j \/ (turnedDown /\ toUALCMP[i].sno = 0)
       /\ \A y \in pending : y.sno < requestSno /\ (y.sno = 0 => appState[y.dev] = "CREATING")
       /\ requestSno = 0 => meAppMap = {}
  BY <1>1 DEF Placed, NumbersOnce
<1>16. DelayedFit(q)'
  <2> SUFFICES ASSUME NEW a \in delayed, a # m
               PROVE  \/ \E y \in pending : y.sno = a.sno /\ q[y.dev] = "delayed" /\ Tells(a, y.dev)
                      \/ Orphan(a.sno)
    BY <1>4, <1>9 DEF DelayedFit, OnlyLinks
  <2>1. \/ \E y \in pending : y.sno = a.sno /\ pl[y.dev] = "delayed" /\ Tells(a, y.dev)
        \/ Orphan(a.sno)
    BY <1>1 DEF Placed, DelayedFit
  <2> QED
    BY <1>2, <1>12, <1>15, <2>1
<1>17. \A i \in 1..Len(toUALCMP) : \A a : a = toUALCMP[i] =>
          /\ \/ \E y \in pending : y.sno = a.sno /\ q[y.dev] = "acked"
                                   /\ a.success /\ Tells(a, y.dev)
             \/ turnedDown /\ a.sno = 0 /\ a.method = "POST" /\ ~a.success
             \/ Orphan(a.sno)
          /\ a.sno = m.sno => turnedDown /\ a.sno = 0
  <2> SUFFICES ASSUME NEW i \in 1..Len(toUALCMP), NEW a, a = toUALCMP[i]
               PROVE  /\ \/ \E y \in pending : y.sno = a.sno /\ q[y.dev] = "acked"
                                               /\ a.success /\ Tells(a, y.dev)
                         \/ turnedDown /\ a.sno = 0 /\ a.method = "POST" /\ ~a.success
                         \/ Orphan(a.sno)
                      /\ a.sno = m.sno => turnedDown /\ a.sno = 0
    OBVIOUS
  <2>1. \/ \E y \in pending : y.sno = a.sno /\ pl[y.dev] = "acked"
                              /\ a.success /\ Tells(a, y.dev)
        \/ turnedDown /\ a.sno = 0 /\ a.method = "POST" /\ ~a.success
        \/ Orphan(a.sno)
    BY <1>1 DEF Placed, AcksFit
  <2>2. \A y \in pending : pl[y.dev] = "acked" => q[y.dev] = "acked" /\ y # p
    BY <1>3, <1>10, <1>12
  <2>3. Orphan(a.sno) => turnedDown /\ a.sno = 0
    BY DEF Orphan
  <2> QED
    BY <1>12, <2>1, <2>2, <2>3
<1>18. \/ \E y \in pending : y.sno = k.sno /\ q[y.dev] = "acked"
                             /\ k.success /\ Tells(k, y.dev)
       \/ turnedDown /\ k.sno = 0 /\ k.method = "POST" /\ ~k.success
  BY <1>2, <1>3, <1>6, <1>11
<1>19. AcksFit(q)'
  <2> SUFFICES ASSUME NEW i \in 1..Len(toUALCMP'), NEW a, a = toUALCMP'[i]
               PROVE  \/ \E y \in pending : y.sno = a.sno /\ q[y.dev] = "acked"
                                             /\ a.success /\ Tells(a, y.dev)
                      \/ turnedDown /\ a.sno = 0 /\ a.method = "POST" /\ ~a.success
                      \/ Orphan(a.sno)
    BY <1>4, <1>9 DEF AcksFit, OnlyLinks
  <2> QED
    BY <1>7, <1>17, <1>18
<1>20. NumbersOnce'
  <2>1. \A i, j \in 1..Len(toUALCMP') :
           toUALCMP'[i].sno = toUALCMP'[j].sno => i = j \/ (turnedDown /\ toUALCMP'[i].sno = 0)
    BY <1>6, <1>7, <1>15, <1>17
  <2> QED
    BY <1>4, <1>15, <2>1 DEF NumbersOnce, OnlyLinks
<1>21. NothingLost(q)'
  <2> SUFFICES ASSUME ~turnedDown PROVE NothingLost(q)'
    BY <1>4 DEF NothingLost, OnlyLinks
  <2>1. /\ \A e \in Devices : pl[e] # "lost" /\ (Waiting(e) => pl[e] # "none")
        /\ \A y \in pending :
              /\ pl[y.dev] = "ordered" => \E i \in 1..Len(toOrchestrator) : toOrchestrator[i].sno = y.sno
              /\ pl[y.dev] = "delayed" => \E a \in delayed : a.sno = y.sno
              /\ pl[y.dev] = "acked" => \E i \in 1..Len(toUALCMP) : toUALCMP[i].sno = y.sno
    BY <1>1 DEF Placed, NothingLost
  <2>2. x = "acked" /\ k = m
    BY <1>3, <1>6
  <2>3. \A e \in Devices : q[e] # "lost" /\ (Waiting(e)' => q[e] # "none")
    BY <1>9, <1>11, <2>1, <2>2
  <2>4. ASSUME NEW y \in pending
        PROVE  /\ q[y.dev] = "ordered" => \E i \in 1..Len(toOrchestrator) : toOrchestrator[i].sno = y.sno
               /\ q[y.dev] = "delayed" => \E a \in delayed' : a.sno = y.sno
               /\ q[y.dev] = "acked" => \E i \in 1..Len(toUALCMP') : toUALCMP'[i].sno = y.sno
    <3>1. CASE y = p
      <4>1. q[y.dev] = "acked" /\ toUALCMP'[Len(toUALCMP) + 1].sno = y.sno
        BY <1>2, <1>3, <1>7, <1>11, <2>2, <3>1
      <4> QED
        BY <1>7, <4>1
    <3>2. CASE y # p
      <4>1. q[y.dev] = pl[y.dev] /\ y.sno # m.sno
        BY <1>12, <3>2
      <4> QED
        BY <1>4, <1>7, <2>1, <4>1
    <3> QED
      BY <3>1, <3>2
  <2>5. pending' = pending /\ toOrchestrator' = toOrchestrator
    BY <1>4 DEF OnlyLinks
  <2> QED
    BY <2>3, <2>4, <2>5 DEF NothingLost
<1> QED
  BY <1>8, <1>9, <1>13, <1>14, <1>16, <1>19, <1>20, <1>21 DEF Good, Placed

\* An answer nobody waits for.
LEMMA UnexpectedAckArrives ==
    ASSUME Good, AckArrives, \A p \in pending : p.sno # Head(toUALCMP).sno
    PROVE  Good'
<1>1. PICK pl, a : Placed(pl) /\ a = Head(toUALCMP)
  BY DEF Good
<1>2. /\ OnlyLinks /\ delayed' = delayed /\ toOrchestrator' = toOrchestrator
      /\ toUALCMP # <<>> /\ toUALCMP' = Tail(toUALCMP)
  <2> DEFINE asked == {p \in pending : p.sno = Head(toUALCMP).sno}
  <2>1. asked = {}
    OBVIOUS
  <2>2. {Response(p.dev, Code(Head(toUALCMP)), Head(toUALCMP).ctx) : p \in asked} = {}
    BY <2>1
  <2> QED
    BY <2>1, <2>2 DEF AckArrives, OnlyLinks, deviceVars, orchVars
<1>3. MessageTypes /\ CreatedRuns
  BY DEF Good
<1>4. /\ toUALCMP' \in Seq(Acks) /\ 1 \in 1..Len(toUALCMP) /\ a = toUALCMP[1]
      /\ \A i \in 1..Len(toUALCMP') :
            i + 1 \in 1..Len(toUALCMP) /\ toUALCMP'[i] = toUALCMP[i + 1] /\ i + 1 # 1
  <2>1. toUALCMP \in Seq(Acks)
    BY <1>3 DEF MessageTypes
  <2> QED
    BY <1>1, <1>2, <2>1, TailOf
<1>5. turnedDown
  <2>1. ~\E p \in pending : p.sno = a.sno
    BY <1>1
  <2> QED
    BY <1>1, <1>4, <2>1 DEF Placed, AcksFit, Orphan
<1>6. MessageTypes'
  BY <1>2, <1>3, <1>4 DEF MessageTypes, OnlyLinks
<1>7. /\ \A l : (Fits(l)' <=> Fits(l)) /\ (Orphan(l)' <=> Orphan(l))
      /\ \A l, e : Tells(l, e)' <=> Tells(l, e)
      /\ CreatedRuns' /\ OneUnderWay(pl)' /\ RequestsFit'
      /\ (\A n \in responses' : AnswerFits(n)') /\ StateFits(pl)'
  BY <1>1, <1>2, <1>3, LinksOnly
<1>8. OrdersFit(pl)' /\ DelayedFit(pl)'
  <2>1. pending' = pending /\ responses' = responses
    BY <1>2 DEF OnlyLinks
  <2>2. OrdersFit(pl)'
    BY <1>1, <1>2, <1>7, <2>1 DEF Placed, OrdersFit
  <2>3. DelayedFit(pl)'
    BY <1>1, <1>2, <1>7, <2>1 DEF Placed, DelayedFit
  <2> QED
    BY <2>2, <2>3
<1>9. AcksFit(pl)'
  <2> SUFFICES ASSUME NEW i \in 1..Len(toUALCMP'), NEW b, b = toUALCMP'[i]
               PROVE  \/ \E x \in pending : x.sno = b.sno /\ pl[x.dev] = "acked"
                                            /\ b.success /\ Tells(b, x.dev)
                      \/ turnedDown /\ b.sno = 0 /\ b.method = "POST" /\ ~b.success
                      \/ Orphan(b.sno)
    BY <1>2, <1>7 DEF AcksFit, OnlyLinks
  <2>1. i + 1 \in 1..Len(toUALCMP) /\ b = toUALCMP[i + 1]
    BY <1>4
  <2> QED
    BY <1>1, <2>1 DEF Placed, AcksFit
<1>10. NumbersOnce'
  <2>1. /\ \A i, j \in 1..Len(toOrchestrator) :
              toOrchestrator[i].sno = toOrchestrator[j].sno => i = j
        /\ \A k, l \in delayed : k.sno = l.sno => k = l
        /\ \A i \in 1..Len(toOrchestrator), k \in delayed : toOrchestrator[i].sno # k.sno
        /\ \A i, j \in 1..Len(toUALCMP) :
              toUALCMP[i].sno = toUALCMP[j].sno => i = j \/ (turnedDown /\ toUALCMP[i].sno = 0)
        /\ \A x \in pending : x.sno < requestSno /\ (x.sno = 0 => appState[x.dev] = "CREATING")
        /\ requestSno = 0 => meAppMap = {}
    BY <1>1 DEF Placed, NumbersOnce
  <2>2. \A i, j \in 1..Len(toUALCMP') :
           toUALCMP'[i].sno = toUALCMP'[j].sno => i = j \/ (turnedDown' /\ toUALCMP'[i].sno = 0)
    <3>1. TAKE i, j \in 1..Len(toUALCMP')
    <3>2. toUALCMP[i + 1].sno = toUALCMP[j + 1].sno
            => i + 1 = j + 1 \/ (turnedDown /\ toUALCMP[i + 1].sno = 0)
      BY <1>4, <2>1
    <3> QED
      BY <1>2, <1>4, <3>2 DEF OnlyLinks
  <2> QED
    BY <1>2, <2>1, <2>2 DEF NumbersOnce, OnlyLinks
<1>11. NothingLost(pl)'
  BY <1>2, <1>5 DEF NothingLost, OnlyLinks
<1> QED
  BY <1>6, <1>7, <1>8, <1>9, <1>10, <1>11 DEF Good, Placed

\* An answer goes to the device that waits for it.
LEMMA AckArrivesKeeps ==
    ASSUME Good, AckArrives, NEW p \in pending, p.sno = Head(toUALCMP).sno
    PROVE  Good'
<1>1. PICK pl, a, d, q, r :
         /\ Placed(pl) /\ a = Head(toUALCMP) /\ d = p.dev /\ q = [pl EXCEPT ![d] = "answered"]
         /\ r = Response(d, Code(a), a.ctx)
  BY DEF Good
<1>2. MessageTypes /\ CreatedRuns
  BY DEF Good
<1>3. \A y, z \in pending : y.dev = z.dev \/ y.sno = z.sno => y = z
  BY <1>1 DEF Placed, OneUnderWay
<1>4. /\ responses' = responses \cup {r} /\ pending' = pending \ {p}
      /\ toUALCMP # <<>> /\ toUALCMP' = Tail(toUALCMP)
      /\ UNCHANGED <<appState, appContext, requests, queue, served, requestSno,
                     toOrchestrator, meAppMap, delayed, turnedDown>>
  <2>1. {y \in pending : y.sno = a.sno} = {p}
    BY <1>1, <1>3
  <2>2. {Response(y.dev, Code(a), a.ctx) : y \in {p}} = {r}
    BY <1>1
  <2> QED
    BY <1>1, <2>1, <2>2 DEF AckArrives, deviceVars, orchVars
<1>5. /\ toUALCMP' \in Seq(Acks) /\ 1 \in 1..Len(toUALCMP) /\ a = toUALCMP[1] /\ a \in Acks
      /\ \A i \in 1..Len(toUALCMP') :
            i + 1 \in 1..Len(toUALCMP) /\ toUALCMP'[i] = toUALCMP[i + 1] /\ i + 1 # 1
      /\ \A i \in 1..Len(toUALCMP) :
            i # 1 => i - 1 \in 1..Len(toUALCMP') /\ toUALCMP'[i - 1] = toUALCMP[i]
  <2>1. toUALCMP \in Seq(Acks)
    BY <1>2 DEF MessageTypes
  <2> QED
    BY <1>1, <1>4, <2>1, TailOf
<1>6. d \in Devices /\ p.sno \in Nat /\ pl \in [Devices -> Places] /\ p.sno = a.sno
  BY <1>1, <1>2 DEF MessageTypes, Placed, OneUnderWay
<1>7. Alone(d, pl) /\ pl[d] \in AtOrchestrator
  <2>1. Alone(d, pl)
    BY <1>1, <1>6, PlacedAlone
  <2> QED
    BY <1>1, <2>1 DEF Alone
<1>8. \/ pl[d] = "acked" /\ a.success /\ Tells(a, d)
      \/ /\ turnedDown /\ a.sno = 0 /\ a.method = "POST" /\ ~a.success
         /\ appState[d] = "CREATING"
  <2>1. ~Orphan(a.sno)
    BY <1>6 DEF Orphan
  <2>2. p.sno = 0 => appState[d] = "CREATING"
    BY <1>1 DEF Placed, NumbersOnce
  <2>3. \/ \E x \in pending : x.sno = a.sno /\ pl[x.dev] = "acked"
                              /\ a.success /\ Tells(a, x.dev)
        \/ turnedDown /\ a.sno = 0 /\ a.method = "POST" /\ ~a.success
    BY <1>1, <1>5, <2>1 DEF Placed, AcksFit
  <2> QED
    BY <1>1, <1>3, <1>6, <2>2, <2>3
<1>9. /\ \A e : (ContextsOf(e)' = ContextsOf(e)) /\ (Waiting(e)' <=> Waiting(e))
      /\ \A k : (Fits(k)' <=> Fits(k)) /\ (AnswerFits(k)' <=> AnswerFits(k))
      /\ \A k, e : Tells(k, e)' <=> Tells(k, e)
      /\ \A k : Orphan(k) => Orphan(k)'
  <2>1. \A e : (ContextsOf(e)' = ContextsOf(e)) /\ (Waiting(e)' <=> Waiting(e))
    BY <1>4 DEF ContextsOf, Waiting
  <2>2. \A k : (Fits(k)' <=> Fits(k)) /\ (AnswerFits(k)' <=> AnswerFits(k))
    BY <1>4, <2>1 DEF Fits, AnswerFits
  <2>3. \A k, e : Tells(k, e)' <=> Tells(k, e)
    BY <1>4, <2>1 DEF Tells
  <2>4. \A k : Orphan(k) => Orphan(k)'
    BY <1>4 DEF Orphan
  <2> QED
    BY <2>1, <2>2, <2>3, <2>4
<1>10. /\ r \in Answers /\ r.dev = d /\ AnswerFits(r)
       /\ ~a.success => r.code = 500
  <2>1. r.dev = d /\ r.code = Code(a) /\ r.ctx = a.ctx
    BY <1>1 DEF Response
  <2>2. r \in Answers
    BY <1>1, <1>5, <1>6 DEF Response, Answers, Acks, Code
  <2>3. CASE ~a.success
    <3>1. Code(a) = 500
      BY <2>3 DEF Code
    <3> QED
      BY <1>8, <2>1, <2>2, <2>3, <3>1 DEF AnswerFits
  <2>4. CASE a.success /\ a.method = "POST"
    <3>1. Code(a) = 201
      BY <2>4 DEF Code
    <3>2. appState[d] = "CREATING" /\ \E c \in ContextsOf(d) : c.ctx = a.ctx
      BY <1>8, <2>4 DEF Tells
    <3> QED
      BY <2>1, <2>2, <2>4, <3>1, <3>2 DEF AnswerFits
  <2>5. CASE a.success /\ a.method # "POST"
    <3>1. Code(a) = 204
      BY <2>5 DEF Code
    <3>2. appState[d] = "DELETING" /\ ContextsOf(d) = {}
      BY <1>8, <2>5 DEF Tells
    <3> QED
      BY <2>1, <2>2, <2>5, <3>1, <3>2 DEF AnswerFits
  <2> QED
    BY <2>3, <2>4, <2>5
<1>11. MessageTypes'
  BY <1>2, <1>4, <1>5, <1>10 DEF MessageTypes
<1>12. /\ q \in [Devices -> Places] /\ q[d] = "answered" /\ "answered" \notin AtOrchestrator
       /\ \A e \in Devices : e # d => q[e] = pl[e]
       /\ "answered" \in Places /\ (pl[d] \notin {"none", "asked", "queued", "served", "answered"})
  BY <1>1, <1>6, <1>7 DEF Places, AtOrchestrator
<1>13. Alone(d, q)'
  <2>1. /\ ~\E m \in requests' : m.dev = d
        /\ ~\E i \in 1..Len(queue') : queue'[i].dev = d
        /\ ~(served' # NoRequest /\ served'.dev = d)
        /\ ~\E y \in pending' : y.dev = d
        /\ \A n \in responses' : n.dev = d <=> n = r
    BY <1>1, <1>3, <1>4, <1>7, <1>10, <1>12 DEF Alone
  <2>2. /\ Waiting(d)'
        /\ appState'[d] \in {"IDLE", "START"} => ContextsOf(d)' = {}
        /\ appState'[d] \in {"APPCREATED", "DELETING"} =>
              \A c \in ContextsOf(d)' : c.ctx = appContext'[d]
    BY <1>4, <1>7, <1>9, <1>12 DEF Alone
  <2>3. AnswerFits(r)' /\ r \in responses'
    BY <1>4, <1>9, <1>10
  <2> QED
    BY <1>12, <2>1, <2>2, <2>3 DEF Alone
<1>14. OneUnderWay(q)' /\ RequestsFit' /\ (\A n \in responses' : AnswerFits(n)') /\ StateFits(q)'
  <2>1. OthersSame(d)
    BY <1>1, <1>3, <1>4, <1>9, <1>10 DEF OthersSame
  <2>2. UNCHANGED <<queue, served, turnedDown>>
    BY <1>4
  <2> QED
    BY <1>1, <1>2, <1>6, <1>11, <1>12, <1>13, <2>1, <2>2, DeviceMoves
<1>15. \A y \in pending : /\ y.dev \in Devices
                          /\ (y.sno = a.sno \/ y.dev = d) => y = p
                          /\ y # p => y.dev # d /\ q[y.dev] = pl[y.dev] /\ y \in pending'
  <2>1. \A y \in pending : y.dev \in Devices
    BY <1>2 DEF MessageTypes
  <2> QED
    BY <1>1, <1>3, <1>4, <1>6, <1>12, <2>1
<1>16. /\ \A i, j \in 1..Len(toOrchestrator) :
              toOrchestrator[i].sno = toOrchestrator[j].sno => i = j
       /\ \A k, l \in delayed : k.sno = l.sno => k = l
       /\ \A i \in 1..Len(toOrchestrator), k \in delayed : toOrchestrator[i].sno # k.sno
       /\ \A i, j \in 1..Len(toUALCMP) :
             toUALCMP[i].sno = toUALCMP[j].sno => i = j \/ (turnedDown /\ toUALCMP[i].sno = 0)
       /\ \A y \in pending : y.sno < requestSno /\ (y.sno = 0 => appState[y.dev] = "CREATING")
       /\ requestSno = 0 => meAppMap = {}
  BY <1>1 DEF Placed, NumbersOnce
<1>17. turnedDown /\ p.sno = 0 => Orphan(p.sno)'
  <2>1. requestSno \in Nat /\ p.sno < requestSno
    BY <1>2, <1>16 DEF MessageTypes
  <2>2. \A y \in pending' : y.sno # p.sno
    BY <1>3, <1>4
  <2> QED
    BY <1>4, <1>6, <2>1, <2>2 DEF Orphan
<1>18. OrdersFit(q)'
  <2> SUFFICES ASSUME NEW i \in 1..Len(toOrchestrator), NEW o, o = toOrchestrator[i]
               PROVE  \/ /\ \E y \in pending' : y.sno = o.sno /\ y.dev = o.dev
                         /\ q[o.dev] = "ordered" /\ Fits(o)
                      \/ /\ Orphan(o.sno)' /\ o.method = "POST"
                         /\ \E n \in responses' : n.dev = o.dev /\ n.code = 500
    BY <1>4, <1>9 DEF OrdersFit
  <2>1. \/ /\ \E y \in pending : y.sno = o.sno /\ y.dev = o.dev
           /\ pl[o.dev] = "ordered" /\ Fits(o)
        \/ /\ Orphan(o.sno) /\ o.method = "POST"
           /\ \E n \in responses : n.dev = o.dev /\ n.code = 500
    BY <1>1 DEF Placed, OrdersFit
  <2>2. CASE /\ Orphan(o.sno) /\ o.method = "POST"
             /\ \E n \in responses : n.dev = o.dev /\ n.code = 500
    BY <1>4, <1>9, <2>2
  <2>3. CASE /\ \E y \in pending : y.sno = o.sno /\ y.dev = o.dev
             /\ pl[o.dev] = "ordered" /\ Fits(o)
    <3>1. PICK y \in pending : y.sno = o.sno /\ y.dev = o.dev
      BY <2>3
    <3>2. CASE y # p
      BY <1>15, <2>3, <3>1, <3>2
    <3>3. CASE y = p
      <4>1. o.dev = d /\ o.sno = p.sno /\ pl[d] = "ordered"
        BY <1>1, <2>3, <3>1, <3>3
      <4>2. turnedDown /\ a.sno = 0 /\ ~a.success /\ appState[d] = "CREATING"
        BY <1>8, <4>1
      <4>3. o.method = "POST" /\ r \in responses' /\ r.code = 500
        BY <1>4, <1>10, <2>3, <4>1, <4>2 DEF Fits
      <4> QED
        BY <1>6, <1>10, <1>17, <4>1, <4>2, <4>3
    <3> QED
      BY <3>2, <3>3
  <2> QED
    BY <2>1, <2>2, <2>3
<1>19. DelayedFit(q)'
  <2> SUFFICES ASSUME NEW k \in delayed
               PROVE  \/ \E y \in pending' : y.sno = k.sno /\ q[y.dev] = "delayed" /\ Tells(k, y.dev)
                      \/ Orphan(k.sno)'
    BY <1>4, <1>9 DEF DelayedFit
  <2>1. \/ \E y \in pending : y.sno = k.sno /\ pl[y.dev] = "delayed" /\ Tells(k, y.dev)
        \/ Orphan(k.sno)
    BY <1>1 DEF Placed, DelayedFit
  <2>2. CASE Orphan(k.sno)
    BY <1>9, <2>2
  <2>3. CASE \E y \in pending : y.sno = k.sno /\ pl[y.dev] = "delayed" /\ Tells(k, y.dev)
    <3>1. PICK y \in pending : y.sno = k.sno /\ pl[y.dev] = "delayed" /\ Tells(k, y.dev)
      BY <2>3
    <3>2. CASE y # p
      BY <1>15, <3>1, <3>2
    <3>3. CASE y = p
      BY <1>1, <1>6, <1>8, <1>17, <3>1, <3>3
    <3> QED
      BY <3>2, <3>3
  <2> QED
    BY <2>1, <2>2, <2>3
<1>20. AcksFit(q)'
  <2> SUFFICES ASSUME NEW i \in 1..Len(toUALCMP'), NEW b, b = toUALCMP'[i]
               PROVE  \/ \E y \in pending' : y.sno = b.sno /\ q[y.dev] = "acked"
                                             /\ b.success /\ Tells(b, y.dev)
                      \/ turnedDown /\ b.sno = 0 /\ b.method = "POST" /\ ~b.success
                      \/ Orphan(b.sno)'
    BY <1>4, <1>9 DEF AcksFit
  <2>1. i + 1 \in 1..Len(toUALCMP) /\ b = toUALCMP[i + 1] /\ i + 1 # 1
    BY <1>5
  <2>2. \/ \E y \in pending : y.sno = b.sno /\ pl[y.dev] = "acked"
                              /\ b.success /\ Tells(b, y.dev)
        \/ turnedDown /\ b.sno = 0 /\ b.method = "POST" /\ ~b.success
        \/ Orphan(b.sno)
    BY <1>1, <2>1 DEF Placed, AcksFit
  <2>3. CASE \E y \in pending : y.sno = b.sno /\ pl[y.dev] = "acked"
                                /\ b.success /\ Tells(b, y.dev)
    <3>1. PICK y \in pending : y.sno = b.sno /\ pl[y.dev] = "acked"
                               /\ b.success /\ Tells(b, y.dev)
      BY <2>3
    <3>2. CASE y # p
      BY <1>15, <3>1, <3>2
    <3>3. CASE y = p
      <4>1. turnedDown /\ p.sno = 0 /\ b.sno = p.sno
        BY <1>5, <1>6, <1>16, <2>1, <3>1, <3>3
      <4> QED
        BY <1>17, <4>1
    <3> QED
      BY <3>2, <3>3
  <2> QED
    BY <1>9, <2>2, <2>3
<1>21. NumbersOnce'
  <2>1. \A i, j \in 1..Len(toUALCMP') :
           toUALCMP'[i].sno = toUALCMP'[j].sno => i = j \/ (turnedDown' /\ toUALCMP'[i].sno = 0)
    <3>1. TAKE i, j \in 1..Len(toUALCMP')
    <3>2. toUALCMP[i + 1].sno = toUALCMP[j + 1].sno
            => i + 1 = j + 1 \/ (turnedDown /\ toUALCMP[i + 1].sno = 0)
      BY <1>5, <1>16
    <3> QED
      BY <1>4, <1>5, <3>2
  <2> QED
    BY <1>4, <1>16, <2>1 DEF NumbersOnce
<1>22. NothingLost(q)'
  <2> SUFFICES ASSUME ~turnedDown PROVE NothingLost(q)'
    BY <1>4 DEF NothingLost
  <2>1. /\ \A e \in Devices : pl[e] # "lost" /\ (Waiting(e) => pl[e] # "none")
        /\ \A y \in pending :
              /\ pl[y.dev] = "ordered" => \E i \in 1..Len(toOrchestrator) : toOrchestrator[i].sno = y.sno
              /\ pl[y.dev] = "delayed" => \E k \in delayed : k.sno = y.sno
              /\ pl[y.dev] = "acked" => \E i \in 1..Len(toUALCMP) : toUALCMP[i].sno = y.sno
    BY <1>1 DEF Placed, NothingLost
  <2>2. \A e \in Devices : q[e] # "lost" /\ (Waiting(e)' => q[e] # "none")
    BY <1>9, <1>12, <2>1
  <2>3. ASSUME NEW y \in pending'
        PROVE  /\ q[y.dev] = "ordered" => \E i \in 1..Len(toOrchestrator) : toOrchestrator[i].sno = y.sno
               /\ q[y.dev] = "delayed" => \E k \in delayed : k.sno = y.sno
               /\ q[y.dev] = "acked" => \E i \in 1..Len(toUALCMP') : toUALCMP'[i].sno = y.sno
    <3>1. y \in pending /\ y # p
      BY <1>4
    <3>2. q[y.dev] = pl[y.dev] /\ y.sno # a.sno
      BY <1>15, <3>1
    <3>3. \A i \in 1..Len(toUALCMP) : toUALCMP[i].sno = y.sno
             => i - 1 \in 1..Len(toUALCMP') /\ toUALCMP'[i - 1].sno = y.sno
      BY <1>5, <3>2
    <3> QED
      BY <2>1, <3>1, <3>2, <3>3
  <2> QED
    BY <1>4, <2>2, <2>3 DEF NothingLost
<1>23. CreatedRuns'
  BY <1>2, <1>4, <1>9 DEF CreatedRuns
<1> QED
  BY <1>11, <1>14, <1>18, <1>19, <1>20, <1>21, <1>22, <1>23 DEF Good, Placed

------------------------------------------------------------------------------
(* The inductive invariant of the devices and the orchestrator: after an   *)
(* exception only that something was turned down and that created          *)
(* applications run.                                                       *)

DeviceInv ==
    /\ CreatedRuns
    /\ thrown => turnedDown
    /\ thrown \/ Good

\* At first no request is anywhere.
LEMMA InitPlaced == Init => DeviceInv
<1> SUFFICES ASSUME Init PROVE DeviceInv
  OBVIOUS
<1>1. PICK pl : pl = [d \in Devices |-> "none"]
  OBVIOUS
<1>2. /\ appState = [d \in Devices |-> "IDLE"] /\ appContext = [d \in Devices |-> -1]
      /\ requests = {} /\ responses = {} /\ queue = <<>> /\ served = NoRequest
      /\ requestSno = 0 /\ pending = {} /\ toOrchestrator = <<>> /\ toUALCMP = <<>>
      /\ meAppMap = {} /\ delayed = {} /\ ~thrown /\ ~turnedDown
      /\ 1..Len(queue) = {} /\ 1..Len(toOrchestrator) = {} /\ 1..Len(toUALCMP) = {}
  BY DEF Init
<1>3. /\ pl \in [Devices -> Places]
      /\ \A d \in Devices : pl[d] = "none" /\ ~Waiting(d) /\ ContextsOf(d) = {}
                            /\ appState[d] = "IDLE"
  BY <1>1, <1>2 DEF Places, Waiting, ContextsOf
<1>4. MessageTypes
  <2>1. <<>> \in Seq(Asks) /\ <<>> \in Seq(Orders) /\ <<>> \in Seq(Acks)
    OBVIOUS
  <2>2. appState \in [Devices -> States] /\ appContext \in [Devices -> Int]
    BY <1>2 DEF States
  <2> QED
    BY <1>2, <2>1, <2>2 DEF MessageTypes
<1>5. CreatedRuns
  BY <1>3 DEF CreatedRuns
<1>6. OneUnderWay(pl)
  BY <1>2, <1>3 DEF OneUnderWay, AtOrchestrator
<1>7. RequestsFit /\ (\A m \in responses : AnswerFits(m)) /\ OrdersFit(pl) /\ DelayedFit(pl)
      /\ AcksFit(pl)
  BY <1>2 DEF RequestsFit, OrdersFit, DelayedFit, AcksFit
<1>8. NumbersOnce /\ NothingLost(pl)
  BY <1>2, <1>3 DEF NumbersOnce, NothingLost
<1>9. StateFits(pl)
  BY <1>3 DEF StateFits, AtOrchestrator
<1> QED
  BY <1>2, <1>4, <1>5, <1>6, <1>7, <1>8, <1>9 DEF DeviceInv, Good, Placed

\* Every step keeps the invariant, one that throws as well.
LEMMA DeviceStep ==
    ASSUME MapInv, DeviceInv, [Next]_vars
    PROVE  DeviceInv'
<1>1. ASSUME NEW d \in Devices, StartContext(d)
      PROVE  DeviceInv'
  <2>1. ~thrown /\ ~thrown'
    BY <1>1 DEF StartContext
  <2> QED
    BY <1>1, <2>1, StartContextKeeps DEF DeviceInv, Good
<1>2. ASSUME NEW d \in Devices, StopContext(d)
      PROVE  DeviceInv'
  <2>1. ~thrown /\ ~thrown'
    BY <1>2 DEF StopContext
  <2> QED
    BY <1>2, <2>1, StopContextKeeps DEF DeviceInv, Good
<1>3. ASSUME NEW d \in Devices, RequestArrives(d)
      PROVE  DeviceInv'
  <2>1. PICK m \in requests : RefuseRequest(m) \/ AcceptRequest(m)
    BY <1>3 DEF RequestArrives
  <2>2. ~thrown /\ ~thrown'
    BY <2>1 DEF RefuseRequest, AcceptRequest
  <2>3. Good
    BY <2>2 DEF DeviceInv
  <2>4. Good'
    BY <2>1, <2>3, RefuseRequestKeeps, AcceptRequestKeeps
  <2> QED
    BY <2>2, <2>4 DEF DeviceInv, Good
<1>4. ASSUME NEW d \in Devices, ResponseArrives(d)
      PROVE  DeviceInv'
  <2>1. PICK m \in responses : ListArrives(m) \/ ResultArrives(m)
    BY <1>4 DEF ResponseArrives
  <2>2. ~thrown /\ Good /\ CreatedRuns
    BY <2>1 DEF ListArrives, ResultArrives, DeviceInv
  <2>3. CASE ListArrives(m)
    <3>1. ~thrown'
      BY <2>3 DEF ListArrives
    <3> QED
      BY <2>2, <2>3, <3>1, ListArrivesKeeps DEF DeviceInv, Good
  <2>4. CASE ResultArrives(m) /\ ~thrown'
    BY <2>2, <2>4, ResultArrivesKeeps DEF DeviceInv, Good
  <2>5. CASE ResultArrives(m) /\ thrown'
    <3>1. turnedDown /\ appState' = appState /\ appContext' = appContext
      BY <2>2, <2>5, AnswerTaken
    <3>2. turnedDown' = turnedDown /\ meAppMap' = meAppMap
      BY <2>5 DEF ResultArrives, orchVars
    <3>3. CreatedRuns'
      BY <2>2, <3>1, <3>2 DEF CreatedRuns, ContextsOf
    <3> QED
      BY <2>5, <3>1, <3>2, <3>3 DEF DeviceInv
  <2> QED
    BY <2>1, <2>3, <2>4, <2>5
<1>5. ASSUME Serve \/ Orchestrate
      PROVE  DeviceInv'
  <2>1. ~thrown /\ ~thrown'
    <3>1. ServeGet \/ PassOn => ~thrown /\ thrown' = thrown
      BY DEF ServeGet, PassOn
    <3>2. StartMECApp => ~thrown /\ thrown' = thrown
      BY DEF StartMECApp, Received
    <3>3. StopMECApp => ~thrown /\ thrown' = thrown
      BY DEF StopMECApp, Received
    <3> QED
      BY <1>5, <3>1, <3>2, <3>3 DEF Serve, Orchestrate
  <2>2. Good
    BY <2>1 DEF DeviceInv
  <2>3. Good'
    BY <1>5, <2>2, ServeGetKeeps, PassOnKeeps, StartMECAppKeeps, StopMECAppKeeps
       DEF Serve, Orchestrate
  <2> QED
    BY <2>1, <2>3 DEF DeviceInv, Good
<1>6. ASSUME AckArrives
      PROVE  DeviceInv'
  <2>1. ~thrown /\ ~thrown'
    BY <1>6 DEF AckArrives
  <2>2. Good
    BY <2>1 DEF DeviceInv
  <2>3. Good'
    <3>1. CASE \A p \in pending : p.sno # Head(toUALCMP).sno
      BY <1>6, <2>2, <3>1, UnexpectedAckArrives
    <3>2. CASE \E p \in pending : p.sno = Head(toUALCMP).sno
      BY <1>6, <2>2, <3>2, AckArrivesKeeps
    <3> QED
      BY <3>1, <3>2
  <2> QED
    BY <2>1, <2>3 DEF DeviceInv, Good
<1>7. ASSUME NEW m \in delayed, DelayEnds(m)
      PROVE  DeviceInv'
  <2>1. ~thrown /\ ~thrown'
    BY <1>7 DEF DelayEnds
  <2>2. Good
    BY <2>1 DEF DeviceInv
  <2>3. Good'
    BY <1>7, <2>2, OrphanDelayEnds, ExpectedDelayEnds
  <2> QED
    BY <2>1, <2>3 DEF DeviceInv, Good
<1>8. ASSUME UNCHANGED vars
      PROVE  DeviceInv'
  <2>1. /\ OnlyLinks /\ thrown' = thrown
        /\ UNCHANGED <<delayed, toOrchestrator, toUALCMP>>
    BY <1>8 DEF vars, OnlyLinks, deviceVars, ualcmpVars, orchVars, linkVars
  <2>2. ASSUME Good PROVE Good'
    <3>1. PICK pl : Placed(pl)
      BY <2>2 DEF Good
    <3>2. MessageTypes' /\ CreatedRuns'
      BY <2>1, <2>2, LinksOnly DEF Good, MessageTypes, OnlyLinks
    <3>3. OneUnderWay(pl)' /\ RequestsFit' /\ (\A n \in responses' : AnswerFits(n)') /\ StateFits(pl)'
      BY <2>1, <3>1, LinksOnly
    <3>4. OrchestratorSame(pl, pl)
      <4>1. ~turnedDown => \A e \in Devices : Waiting(e) => pl[e] # "none"
        BY <3>1 DEF Placed, NothingLost
      <4> QED
        BY <2>1, <4>1 DEF OrchestratorSame, OnlyLinks, Waiting
    <3>5. MessageTypes /\ pl \in [Devices -> Places]
      BY <2>2, <3>1 DEF Good, Placed, OneUnderWay
    <3>6. OrdersFit(pl)' /\ DelayedFit(pl)' /\ AcksFit(pl)' /\ NumbersOnce' /\ NothingLost(pl)'
      BY <3>1, <3>4, <3>5, OrchestratorKept
    <3> QED
      BY <3>2, <3>3, <3>6 DEF Good, Placed
  <2>3. CreatedRuns'
    BY <2>1, LinksOnly DEF DeviceInv
  <2> QED
    BY <2>1, <2>2, <2>3 DEF DeviceInv, OnlyLinks
<1> QED
  BY <1>1, <1>2, <1>3, <1>4, <1>5, <1>6, <1>7, <1>8 DEF Next

------------------------------------------------------------------------------
(* With room for everybody nothing is turned down.                         *)

\* n distinct devices.
LEMMA DistinctDevices ==
    ASSUME NEW n \in Nat, NEW D, D \subseteq Devices, NEW f \in [1..n -> D],
           \A i, j \in 1..n : f[i] = f[j] => i = j
    PROVE  IsFiniteSet(D) /\ n <= Cardinality(D)
<1>1. IsFiniteSet(D) /\ Cardinality(D) \in Nat
  BY FS_Subset, FS_CardinalityType, LifecycleAssumption
<1>2. IsFiniteSet(1..n) /\ Cardinality(1..n) = n
  BY FS_Interval
<1>3. CASE Cardinality(D) < n
  <2>1. \E i, j \in 1..n : i # j /\ f[i] = f[j]
    BY <1>1, <1>2, <1>3, FS_PigeonHole
  <2> QED
    BY <2>1
<1> QED
  BY <1>1, <1>3

\* Devices are in the queue and are served, and one more asks.
LEMMA QueueHasRoom ==
    ASSUME Good, NEW a \in requests, RefuseRequest(a), queueSize \in Nat
    PROVE  ~Enough
<1>1. PICK pl, n : Placed(pl) /\ n = Len(queue)
  BY DEF Good
<1>2. MessageTypes /\ queueSize # 0 /\ n = queueSize
  BY <1>1 DEF Good, RefuseRequest, QueueFull
<1>3. n \in Nat /\ n # 0 /\ queue # <<>> /\ \A i \in 1..n : queue[i].dev \in Devices
  <2> DEFINE A == Asks
  <2>1. queue \in Seq(A) /\ \A m \in A : m.dev \in Devices
    BY <1>2 DEF MessageTypes, Asks
  <2> HIDE DEF A
  <2>2. n \in Nat /\ n # 0 /\ \A i \in 1..n : queue[i] \in A
    <3>1. Len(queue) \in Nat /\ \A i \in 1..Len(queue) : queue[i] \in A
      BY <2>1
    <3>2. n = Len(queue) /\ n # 0
      BY <1>1, <1>2
    <3> QED
      BY <3>1, <3>2
  <2>3. queue # <<>>
    <3>1. Len(<<>>) = 0
      OBVIOUS
    <3> QED
      BY <1>1, <2>2, <3>1
  <2> QED
    BY <2>1, <2>2, <2>3
<1>4. PICK s, d : s = served.dev /\ d = a.dev
  OBVIOUS
<1>5. served # NoRequest /\ s \in Devices /\ d \in Devices
  BY <1>2, <1>3, <1>4 DEF MessageTypes, Asks
<1>6. /\ \A i \in 1..n : pl[queue[i].dev] = "queued"
      /\ pl[s] = "served" /\ pl[d] = "asked"
  BY <1>1, <1>3, <1>4, <1>5 DEF Placed, OneUnderWay
<1>7. PICK D : D = (Devices \ {s}) \ {d}
  OBVIOUS
<1>8. PICK f : f = [i \in 1..n |-> queue[i].dev]
  OBVIOUS
<1>9. f \in [1..n -> D] /\ \A i, j \in 1..n : f[i] = f[j] => i = j
  <2>1. \A i \in 1..n : queue[i].dev \in D
    BY <1>3, <1>6, <1>7
  <2>2. \A i, j \in 1..n : queue[i].dev = queue[j].dev => i = j
    BY <1>1 DEF Placed, OneUnderWay
  <2> QED
    BY <1>8, <2>1, <2>2
<1>10. n <= Cardinality(D)
  BY <1>3, <1>7, <1>9, DistinctDevices
<1>11. Cardinality(D) = Cardinality(Devices) - 2 /\ Cardinality(Devices) \in Nat
  <2>1. IsFiniteSet(Devices \ {s}) /\ Cardinality(Devices \ {s}) = Cardinality(Devices) - 1
    BY <1>5, FS_RemoveElement, LifecycleAssumption
  <2>2. d \in Devices \ {s}
    BY <1>5, <1>6
  <2>3. Cardinality(D) = Cardinality(Devices \ {s}) - 1
    BY <1>7, <2>1, <2>2, FS_RemoveElement
  <2>4. Cardinality(Devices) \in Nat
    BY FS_CardinalityType, LifecycleAssumption
  <2> QED
    BY <2>1, <2>3, <2>4
<1> QED
  BY <1>2, <1>3, <1>10, <1>11 DEF Enough

\* A set of numbers that is not empty has a smallest one.
LEMMA Smallest ==
    ASSUME NEW T \in SUBSET Nat, T # {}
    PROVE  \E m \in T : \A n \in T : m <= n
<1>1. PICK m \in T : \A n \in T : ~ (<<n, m>> \in OpToRel(<, Nat))
  BY WFMin, NatLessThanWellFounded
<1>2. \A n \in T : ~ (n < m)
  BY <1>1 DEF OpToRel
<1> QED
  BY <1>2

\* What one more host adds.
LEMMA OneMore ==
    \A n, k \in Int : /\ (n - 1) * k + k = n * k
                      /\ (n - 1) * k \in Int /\ n * k \in Int
<1>1. \A n, k \in Int : n * k \in Int /\ n - 1 \in Int
  OBVIOUS
<1>2. \A n, k \in Int : (n - 1) * k \in Int
  BY <1>1, Zenon
<1>3. \A n, k \in Int : (n - 1) * k + k = n * k
  OBVIOUS
<1> QED
  BY <1>1, <1>2, <1>3

\* The applications of the first hosts.
LEMMA HostsFilled ==
    ASSUME NEW k \in Int, IsFiniteSet(meAppMap),
           \A c \in meAppMap : c.host \in Hosts,
           \A h \in Hosts : Cardinality(AppsOn(h)) >= k
    PROVE  Cardinality(meAppMap) >= NumHosts * k
<1> DEFINE First(n) == {c \in meAppMap : c.host <= n}
           T == {n \in 0..NumHosts : ~(Cardinality(First(n)) >= n * k)}
<1>0. NumHosts \in Nat /\ \A n : IsFiniteSet(First(n)) /\ Cardinality(First(n)) \in Nat
  BY FS_Subset, FS_CardinalityType, LifecycleAssumption
<1>1. T = {}
  <2> SUFFICES ASSUME T # {} PROVE FALSE
    OBVIOUS
  <2>1. PICK n \in T : \A l \in T : n <= l
    <3>1. T \in SUBSET Nat
      BY <1>0
    <3> QED
      BY <3>1, Smallest
  <2>2. n \in 0..NumHosts /\ n \in Nat /\ ~(Cardinality(First(n)) >= n * k)
    BY <1>0, <2>1
  <2>3. CASE n = 0
    <3>1. n * k = 0
      BY <2>3
    <3> QED
      BY <1>0, <2>2, <3>1
  <2>4. CASE n # 0
    <3>1. n - 1 \in 0..NumHosts /\ n - 1 \notin T
      BY <1>0, <2>1, <2>2, <2>4
    <3>2. Cardinality(First(n - 1)) >= (n - 1) * k
      BY <3>1
    <3>3. n \in Hosts
      BY <1>0, <2>2, <2>4 DEF Hosts
    <3>4. First(n) = First(n - 1) \cup AppsOn(n) /\ First(n - 1) \cap AppsOn(n) = {}
      <4>1. \A c \in meAppMap : c.host \in Nat
        BY <1>0 DEF Hosts
      <4>2. \A c \in meAppMap : c.host <= n <=> c.host <= n - 1 \/ c.host = n
        BY <2>2, <4>1
      <4>3. \A c \in meAppMap : ~(c.host <= n - 1 /\ c.host = n)
        BY <2>2, <4>1
      <4> QED
        BY <4>2, <4>3 DEF AppsOn
    <3>5. IsFiniteSet(AppsOn(n)) /\ Cardinality(AppsOn(n)) \in Nat /\ Cardinality(AppsOn(n)) >= k
      BY <3>3, FS_Subset, FS_CardinalityType DEF AppsOn
    <3>6. Cardinality(First(n)) = Cardinality(First(n - 1)) + Cardinality(AppsOn(n))
      <4> HIDE DEF First
      <4>1. Cardinality(First(n - 1) \cup AppsOn(n))
              = Cardinality(First(n - 1)) + Cardinality(AppsOn(n))
                - Cardinality(First(n - 1) \cap AppsOn(n))
        BY <1>0, <3>5, FS_Union
      <4>2. Cardinality(First(n - 1) \cap AppsOn(n)) = 0
        BY <3>4, FS_EmptySet
      <4>3. Cardinality(First(n - 1)) \in Nat
        BY <1>0
      <4> QED
        BY <3>4, <3>5, <4>1, <4>2, <4>3
    <3>0. n \in Int /\ k \in Int
      BY <2>2
    <3>7. (n - 1) * k + k = n * k /\ (n - 1) * k \in Int /\ n * k \in Int
      BY ONLY <3>0, OneMore, Zenon
    <3>8. Cardinality(First(n - 1)) \in Nat
      BY <1>0
    <3> HIDE DEF First
    <3>9. Cardinality(First(n)) >= n * k
      BY <3>2, <3>5, <3>6, <3>7, <3>8
    <3> QED
      BY <2>2, <3>9
  <2> QED
    BY <2>3, <2>4
<1>2. NumHosts \in 0..NumHosts
  BY <1>0
<1>3. Cardinality(First(NumHosts)) >= NumHosts * k
  BY <1>1, <1>2
<1>4. First(NumHosts) = meAppMap
  BY <1>0 DEF Hosts
<1> QED
  BY <1>3, <1>4

\* No host has room, and another application is to be placed.
LEMMA HostsHaveRoom ==
    ASSUME IInv, MessageTypes, NEW d \in Devices, ContextsOf(d) = {},
           BestHosts = {}, capacity \in Nat
    PROVE  ~Enough
<1>1. PICK k : k = IF capacity - 1 < MaxApps THEN capacity - 1 ELSE MaxApps
  OBVIOUS
<1>2. k \in Int /\ NumHosts \in Nat /\ MaxApps \in Nat
  BY <1>1, LifecycleAssumption
<1>3. \A h \in Hosts : ~Allocable(h)
  <2>1. PICK T : T = {h \in Hosts : Allocable(h)}
    OBVIOUS
  <2>2. T \in SUBSET Nat
    BY <1>2, <2>1 DEF Hosts
  <2>3. CASE T # {}
    <3>1. PICK h \in T : \A g \in T : h <= g
      BY <2>2, <2>3, Smallest
    <3>2. h \in BestHosts
      BY <2>1, <3>1 DEF BestHosts
    <3> QED
      BY <3>2
  <2> QED
    BY <2>1, <2>3
<1>4. ASSUME NEW h \in Hosts PROVE Cardinality(AppsOn(h)) >= k
  <2>1. PICK n : n = Cardinality(AppsOn(h))
    OBVIOUS
  <2>2. vim[h].currentMEApps = n /\ vim[h].allocated = n
    BY <2>1 DEF IInv, HostInv, AppsInv, Agree
  <2>3. n \in Nat
    <3>1. IsFiniteSet(AppsOn(h))
      BY FS_Subset DEF AppsOn, IInv, MapInv
    <3> QED
      BY <2>1, <3>1, FS_CardinalityType
  <2>4. ~(n < MaxApps) \/ ~(1 < capacity - n)
    BY <1>3, <2>2 DEF Allocable
  <2>5. n >= k
    BY <1>1, <1>2, <2>3, <2>4
  <2> QED
    BY <2>1, <2>5
<1>5. Cardinality(meAppMap) >= NumHosts * k
  <2>1. IsFiniteSet(meAppMap) /\ \A c \in meAppMap : c.host \in Hosts
    BY DEF IInv, MapInv
  <2> QED
    BY <1>2, <1>4, <2>1, HostsFilled
<1>6. Cardinality(meAppMap) < Cardinality(Devices) /\ Cardinality(meAppMap) \in Nat
      /\ Cardinality(Devices) \in Nat
  <2>1. PICK D : D = Devices \ {d}
    OBVIOUS
  <2>2. /\ IsFiniteSet(D) /\ Cardinality(D) \in Nat /\ Cardinality(Devices) \in Nat
        /\ Cardinality(D) = Cardinality(Devices) - 1
    BY <2>1, FS_RemoveElement, FS_CardinalityType, LifecycleAssumption
  <2>3. IsFiniteSet(meAppMap) /\ Cardinality(meAppMap) \in Nat
    BY FS_CardinalityType DEF IInv, MapInv
  <2>4. CASE Cardinality(D) < Cardinality(meAppMap)
    <3>1. PICK f : f = [c \in meAppMap |-> c.dev]
      OBVIOUS
    <3>2. \A c \in meAppMap : c.dev \in D
      BY <2>1 DEF MessageTypes, ContextsOf
    <3>3. f \in [meAppMap -> D]
      BY <3>1, <3>2
    <3>4. \E c, e \in meAppMap : c # e /\ f[c] = f[e]
      BY <2>2, <2>3, <2>4, <3>3, FS_PigeonHole
    <3>5. \E c, e \in meAppMap : c # e /\ c.dev = e.dev
      BY <3>1, <3>4
    <3> QED
      BY <3>5 DEF IInv, MapInv
  <2> QED
    BY <2>2, <2>3, <2>4
<1>7. NumHosts * k \in Int
  BY <1>2
<1>8. ~(NumHosts * k >= Cardinality(Devices))
  BY <1>5, <1>6, <1>7
<1> QED
  BY <1>1, <1>8 DEF Enough

\* With room for everybody nothing is turned down.
RoomInv ==
    /\ capacity \in Capacities /\ queueSize \in QueueSizes
    /\ Enough => ~turnedDown

\* A step turns nothing down when there is room for everybody.
LEMMA RoomKept ==
    ASSUME IInv, DeviceInv, RoomInv, [Next]_vars
    PROVE  RoomInv'
<1>1. capacity' = capacity /\ queueSize' = queueSize
      /\ (turnedDown' = turnedDown \/ (~thrown /\ ~Enough))
  <2>0. capacity \in Nat /\ queueSize \in Nat
    BY LifecycleAssumption DEF RoomInv
  <2>1. ASSUME NEW d \in Devices, StartContext(d) \/ StopContext(d)
        PROVE  UNCHANGED <<configVars, turnedDown>>
    BY <2>1 DEF StartContext, StopContext
  <2>2. ASSUME NEW m \in requests, AcceptRequest(m)
        PROVE  UNCHANGED <<configVars, turnedDown>>
    BY <2>2 DEF AcceptRequest
  <2>3. ASSUME NEW m \in requests, RefuseRequest(m)
        PROVE  UNCHANGED configVars /\ ~thrown /\ ~Enough
    <3>1. UNCHANGED configVars /\ ~thrown
      BY <2>3 DEF RefuseRequest
    <3>2. Good
      BY <3>1 DEF DeviceInv
    <3> QED
      BY <2>0, <2>3, <3>1, <3>2, QueueHasRoom
  <2>4. ASSUME NEW d \in Devices, ResponseArrives(d)
        PROVE  UNCHANGED <<configVars, turnedDown>>
    BY <2>4 DEF ResponseArrives, ListArrives, ResultArrives
  <2>5. ASSUME Serve \/ AckArrives \/ StopMECApp
        PROVE  UNCHANGED <<configVars, turnedDown>>
    BY <2>5 DEF Serve, ServeGet, PassOn, AckArrives, StopMECApp
  <2>6. ASSUME StartMECApp
        PROVE  UNCHANGED configVars /\ (turnedDown' = turnedDown \/ (~thrown /\ ~Enough))
    <3>1. PICK m : m = Head(toOrchestrator)
      OBVIOUS
    <3>2. /\ UNCHANGED configVars /\ ~thrown /\ toOrchestrator # <<>>
          /\ \/ AlreadyStarted(m)
             \/ ContextsOf(m.dev) = {} /\ BestHosts = {}
             \/ \E h \in BestHosts : Place(m, h)
      BY <2>6, <3>1 DEF StartMECApp, Received
    <3>3. AlreadyStarted(m) => turnedDown' = turnedDown
      BY DEF AlreadyStarted
    <3>4. ASSUME NEW h \in BestHosts, Place(m, h) PROVE turnedDown' = turnedDown
      BY <3>4 DEF Place
    <3>5. CASE ContextsOf(m.dev) = {} /\ BestHosts = {}
      <4>1. MessageTypes
        BY <3>2 DEF DeviceInv, Good
      <4>2. m \in Orders
        <5> DEFINE O == Orders
        <5>1. toOrchestrator \in Seq(O)
          BY <4>1 DEF MessageTypes
        <5> HIDE DEF O
        <5>2. m \in O
          BY <3>1, <3>2, <5>1
        <5> QED
          BY <5>2 DEF O
      <4>3. m.dev \in Devices
        BY <4>2 DEF Orders
      <4> QED
        BY <2>0, <3>2, <3>5, <4>1, <4>3, HostsHaveRoom
    <3> QED
      BY <3>2, <3>3, <3>4, <3>5
  <2>7. ASSUME NEW m \in delayed, DelayEnds(m)
        PROVE  UNCHANGED <<configVars, turnedDown>>
    BY <2>7 DEF DelayEnds
  <2>8. ASSUME UNCHANGED vars
        PROVE  UNCHANGED <<configVars, turnedDown>>
    BY <2>8 DEF vars
  <2>9. UNCHANGED configVars /\ (turnedDown' = turnedDown \/ (~thrown /\ ~Enough))
    BY <2>1, <2>2, <2>3, <2>4, <2>5, <2>6, <2>7, <2>8
       DEF Next, RequestArrives, Orchestrate
  <2> QED
    BY <2>9 DEF configVars
<1>2. Enough' <=> Enough
  BY <1>1 DEF Enough
<1> QED
  BY <1>1, <1>2 DEF RoomInv

\* At first nothing is turned down.
LEMMA InitRoom == Init => RoomInv
BY DEF Init, RoomInv

------------------------------------------------------------------------------
(* What the inductive invariant says of the devices.                       *)

\* How many a set with at most one element has.
LEMMA AtMostOne ==
    ASSUME NEW S, \A x, y \in S : x = y
    PROVE  Cardinality(S) = IF S = {} THEN 0 ELSE 1
<1>1. CASE S = {}
  BY <1>1, FS_EmptySet
<1>2. CASE S # {}
  <2>1. PICK x : x \in S
    BY <1>2
  <2>2. S = {x}
    BY <2>1
  <2> QED
    BY <1>2, <2>2, FS_Singleton
<1> QED
  BY <1>1, <1>2

\* The numbers of a device's requests are those that are pending for it.
LEMMA Numbers ==
    ASSUME NEW d
    PROVE  \A n : n \in NumbersOf(d) <=> \E p \in pending : p.dev = d /\ p.sno = n
BY DEF NumbersOf

\* One request or answer is under way for a device that waits.
LEMMA OneIsUnderWay ==
    ASSUME MessageTypes, ~turnedDown, NEW pl, Placed(pl), NEW d \in Devices
    PROVE  Under(d) = IF Waiting(d) THEN 1 ELSE 0
<1>1. /\ pl[d] \in Places /\ pl[d] # "lost" /\ (Waiting(d) <=> pl[d] # "none")
  BY DEF Placed, OneUnderWay, NothingLost, StateFits
<1>2. /\ DOMAIN queue = 1..Len(queue)
      /\ DOMAIN toOrchestrator = 1..Len(toOrchestrator)
      /\ DOMAIN toUALCMP = 1..Len(toUALCMP)
  BY DEF MessageTypes
<1>3. \A p, q \in pending : p.dev = q.dev \/ p.sno = q.sno => p = q
  BY DEF Placed, OneUnderWay
<1>4. Cardinality({m \in requests : m.dev = d}) = IF pl[d] = "asked" THEN 1 ELSE 0
  <2> DEFINE S == {m \in requests : m.dev = d}
  <2>1. (\A x, y \in S : x = y) /\ (S # {} <=> pl[d] = "asked")
    BY DEF Placed, OneUnderWay
  <2> QED
    BY <2>1, AtMostOne
<1>5. Cardinality({i \in DOMAIN queue : queue[i].dev = d})
        = IF pl[d] = "queued" THEN 1 ELSE 0
  <2> DEFINE S == {i \in DOMAIN queue : queue[i].dev = d}
  <2>1. (\A x, y \in S : x = y) /\ (S # {} <=> pl[d] = "queued")
    BY <1>2 DEF Placed, OneUnderWay
  <2> QED
    BY <2>1, AtMostOne
<1>6. served # NoRequest /\ served.dev = d <=> pl[d] = "served"
  BY DEF Placed, OneUnderWay
<1>7. Cardinality({i \in DOMAIN toOrchestrator :
                     toOrchestrator[i].sno \in NumbersOf(d)})
        = IF pl[d] = "ordered" THEN 1 ELSE 0
  <2> DEFINE S == {i \in DOMAIN toOrchestrator :
                     toOrchestrator[i].sno \in NumbersOf(d)}
  <2>1. ASSUME NEW x \in S, NEW y \in S PROVE x = y
    <3>1. PICK p \in pending : p.dev = d /\ p.sno = toOrchestrator[x].sno
      BY Numbers
    <3>2. PICK q \in pending : q.dev = d /\ q.sno = toOrchestrator[y].sno
      BY Numbers
    <3>3. toOrchestrator[x].sno = toOrchestrator[y].sno
      BY <1>3, <3>1, <3>2
    <3> QED
      BY <1>2, <3>3 DEF Placed, NumbersOnce
  <2>2. ASSUME NEW x \in S PROVE pl[d] = "ordered"
    <3>1. PICK p \in pending : p.dev = d /\ p.sno = toOrchestrator[x].sno
      BY Numbers
    <3>2. PICK q \in pending : q.sno = toOrchestrator[x].sno /\ pl[q.dev] = "ordered"
      BY <1>2 DEF Placed, OrdersFit, Orphan
    <3> QED
      BY <1>3, <3>1, <3>2
  <2>3. ASSUME pl[d] = "ordered" PROVE S # {}
    <3>1. PICK p \in pending : p.dev = d
      BY <2>3 DEF Placed, OneUnderWay, AtOrchestrator
    <3>2. PICK i \in 1..Len(toOrchestrator) : toOrchestrator[i].sno = p.sno
      BY <2>3, <3>1 DEF Placed, NothingLost
    <3>3. i \in S
      BY <1>2, <3>1, <3>2, Numbers
    <3> QED
      BY <3>3
  <2> HIDE DEF S
  <2>4. Cardinality(S) = IF S = {} THEN 0 ELSE 1
    BY <2>1, AtMostOne
  <2>5. Cardinality(S) = IF pl[d] = "ordered" THEN 1 ELSE 0
    BY <2>2, <2>3, <2>4
  <2> QED
    BY <2>5 DEF S
<1>8. Cardinality({m \in delayed : m.sno \in NumbersOf(d)})
        = IF pl[d] = "delayed" THEN 1 ELSE 0
  <2> DEFINE S == {m \in delayed : m.sno \in NumbersOf(d)}
  <2>1. ASSUME NEW x \in S, NEW y \in S PROVE x = y
    <3>1. PICK p \in pending : p.dev = d /\ p.sno = x.sno
      BY Numbers
    <3>2. PICK q \in pending : q.dev = d /\ q.sno = y.sno
      BY Numbers
    <3>3. x.sno = y.sno
      BY <1>3, <3>1, <3>2
    <3> QED
      BY <3>3 DEF Placed, NumbersOnce
  <2>2. ASSUME NEW x \in S PROVE pl[d] = "delayed"
    <3>1. PICK p \in pending : p.dev = d /\ p.sno = x.sno
      BY Numbers
    <3>2. PICK q \in pending : q.sno = x.sno /\ pl[q.dev] = "delayed"
      BY DEF Placed, DelayedFit, Orphan
    <3> QED
      BY <1>3, <3>1, <3>2
  <2>3. ASSUME pl[d] = "delayed" PROVE S # {}
    <3>1. PICK p \in pending : p.dev = d
      BY <2>3 DEF Placed, OneUnderWay, AtOrchestrator
    <3>2. PICK m \in delayed : m.sno = p.sno
      BY <2>3, <3>1 DEF Placed, NothingLost
    <3>3. m \in S
      BY <3>1, <3>2, Numbers
    <3> QED
      BY <3>3
  <2> HIDE DEF S
  <2>4. Cardinality(S) = IF S = {} THEN 0 ELSE 1
    BY <2>1, AtMostOne
  <2>5. Cardinality(S) = IF pl[d] = "delayed" THEN 1 ELSE 0
    BY <2>2, <2>3, <2>4
  <2> QED
    BY <2>5 DEF S
<1>9. Cardinality({i \in DOMAIN toUALCMP : toUALCMP[i].sno \in NumbersOf(d)})
        = IF pl[d] = "acked" THEN 1 ELSE 0
  <2> DEFINE S == {i \in DOMAIN toUALCMP : toUALCMP[i].sno \in NumbersOf(d)}
  <2>1. ASSUME NEW x \in S, NEW y \in S PROVE x = y
    <3>1. PICK p \in pending : p.dev = d /\ p.sno = toUALCMP[x].sno
      BY Numbers
    <3>2. PICK q \in pending : q.dev = d /\ q.sno = toUALCMP[y].sno
      BY Numbers
    <3>3. toUALCMP[x].sno = toUALCMP[y].sno
      BY <1>3, <3>1, <3>2
    <3> QED
      BY <1>2, <3>3 DEF Placed, NumbersOnce
  <2>2. ASSUME NEW x \in S PROVE pl[d] = "acked"
    <3>1. PICK p \in pending : p.dev = d /\ p.sno = toUALCMP[x].sno
      BY Numbers
    <3>2. PICK q \in pending : q.sno = toUALCMP[x].sno /\ pl[q.dev] = "acked"
      BY <1>2 DEF Placed, AcksFit, Orphan
    <3> QED
      BY <1>3, <3>1, <3>2
  <2>3. ASSUME pl[d] = "acked" PROVE S # {}
    <3>1. PICK p \in pending : p.dev = d
      BY <2>3 DEF Placed, OneUnderWay, AtOrchestrator
    <3>2. PICK i \in 1..Len(toUALCMP) : toUALCMP[i].sno = p.sno
      BY <2>3, <3>1 DEF Placed, NothingLost
    <3>3. i \in S
      BY <1>2, <3>1, <3>2, Numbers
    <3> QED
      BY <3>3
  <2> HIDE DEF S
  <2>4. Cardinality(S) = IF S = {} THEN 0 ELSE 1
    BY <2>1, AtMostOne
  <2>5. Cardinality(S) = IF pl[d] = "acked" THEN 1 ELSE 0
    BY <2>2, <2>3, <2>4
  <2> QED
    BY <2>5 DEF S
<1>10. Cardinality({m \in responses : m.dev = d}) = IF pl[d] = "answered" THEN 1 ELSE 0
  <2> DEFINE S == {m \in responses : m.dev = d}
  <2>1. (\A x, y \in S : x = y) /\ (S # {} <=> pl[d] = "answered")
    BY DEF Placed, OneUnderWay
  <2> QED
    BY <2>1, AtMostOne
<1> QED
  BY <1>1, <1>4, <1>5, <1>6, <1>7, <1>8, <1>9, <1>10 DEF Under, Places, AtOrchestrator

\* The device of a context knows it or hears of it.
LEMMA ContextIsKnown ==
    ASSUME MapInv, MessageTypes, ~turnedDown, NEW pl, Placed(pl), NEW c \in meAppMap
    PROVE  Known(c)
<1>1. PICK d : d = c.dev
  OBVIOUS
<1>2. d \in Devices /\ c \in ContextsOf(d) /\ \A e \in ContextsOf(d) : e = c
  BY <1>1 DEF MessageTypes, ContextsOf, MapInv
<1>3. CASE appState[d] \in {"APPCREATED", "DELETING"}
  BY <1>1, <1>2, <1>3 DEF Placed, StateFits, Known
<1>4. CASE appState[d] = "CREATING"
  <2>1. pl[d] \in Places /\ pl[d] # "lost" /\ pl[d] # "none"
    BY <1>2, <1>4 DEF Placed, OneUnderWay, NothingLost, Waiting
  <2>2. \A p, q \in pending : p.dev = q.dev \/ p.sno = q.sno => p = q
    BY DEF Placed, OneUnderWay
  <2>3. \A m : m.dev = d => ~Fits(m)
    BY <1>2, <1>4 DEF Fits
  <2>4. pl[d] # "asked" /\ pl[d] # "queued" /\ pl[d] # "served"
    BY <1>2, <2>3 DEF Placed, OneUnderWay, RequestsFit
  <2>5. pl[d] \in AtOrchestrator => \E p \in pending : p.dev = d
    BY <1>2 DEF Placed, OneUnderWay
  <2>6. \A m : Tells(m, d) => m.ctx = c.ctx
    BY <1>2, <1>4 DEF Tells
  <2>7. pl[d] # "ordered"
    <3> SUFFICES ASSUME pl[d] = "ordered" PROVE FALSE
      OBVIOUS
    <3>1. PICK p \in pending : p.dev = d
      BY <2>5 DEF AtOrchestrator
    <3>2. PICK i \in 1..Len(toOrchestrator) : toOrchestrator[i].sno = p.sno
      BY <3>1 DEF Placed, NothingLost
    <3>3. PICK q \in pending : /\ q.sno = toOrchestrator[i].sno
                               /\ q.dev = toOrchestrator[i].dev
                               /\ Fits(toOrchestrator[i])
      BY DEF Placed, OrdersFit, Orphan
    <3> QED
      BY <2>2, <2>3, <3>1, <3>2, <3>3
  <2>8. CASE pl[d] = "delayed"
    <3>1. PICK p \in pending : p.dev = d
      BY <2>5, <2>8 DEF AtOrchestrator
    <3>2. PICK m \in delayed : m.sno = p.sno
      BY <2>8, <3>1 DEF Placed, NothingLost
    <3>3. PICK q \in pending : q.sno = m.sno /\ Tells(m, q.dev)
      BY DEF Placed, DelayedFit, Orphan
    <3>4. Tells(m, d)
      BY <2>2, <3>1, <3>2, <3>3
    <3> QED
      BY <1>1, <1>4, <2>6, <3>4 DEF Known
  <2>9. CASE pl[d] = "acked"
    <3>1. PICK p \in pending : p.dev = d
      BY <2>5, <2>9 DEF AtOrchestrator
    <3>2. PICK i \in 1..Len(toUALCMP) : toUALCMP[i].sno = p.sno
      BY <2>9, <3>1 DEF Placed, NothingLost
    <3>3. PICK q \in pending : q.sno = toUALCMP[i].sno /\ Tells(toUALCMP[i], q.dev)
      BY DEF Placed, AcksFit, Orphan
    <3>4. Tells(toUALCMP[i], d)
      BY <2>2, <3>1, <3>2, <3>3
    <3>5. i \in DOMAIN toUALCMP
      BY DEF MessageTypes
    <3> QED
      BY <1>1, <1>4, <2>6, <3>4, <3>5 DEF Known
  <2>10. CASE pl[d] = "answered"
    <3>1. PICK m \in responses : m.dev = d
      BY <1>2, <2>10 DEF Placed, OneUnderWay
    <3>2. AnswerFits(m)
      BY DEF Placed
    <3>3. m.ctx = c.ctx
      BY <1>2, <1>4, <3>1, <3>2 DEF AnswerFits
    <3> QED
      BY <1>1, <1>4, <3>1, <3>3 DEF Known
  <2> QED
    BY <2>1, <2>4, <2>7, <2>8, <2>9, <2>10 DEF Places, AtOrchestrator
<1>5. CASE appState[d] \in {"IDLE", "START"}
  BY <1>2, <1>5 DEF Placed, StateFits
<1>6. appState[d] \in States
  BY <1>2 DEF MessageTypes
<1> QED
  BY <1>3, <1>4, <1>5, <1>6 DEF States

\* Devices and orchestrator agree through all the hops between them, for any
\* number of devices, hosts, gates and resources and any order of the messages:
\* until a creation fails or a request meets a full queue nothing throws, one
\* request or answer is under way for each device that waits, it suits, and no
\* context is left behind.  With room for every device that is for ever.
THEOREM DevicesStayInAgreement == Spec => []DevicesAgree
<1>1. Init => DeviceInv /\ RoomInv
  BY InitPlaced, InitRoom
<1>2. IInv /\ (DeviceInv /\ RoomInv) /\ [Next]_vars => (DeviceInv /\ RoomInv)'
  BY DeviceStep, RoomKept DEF IInv
<1>3. IInv /\ DeviceInv /\ RoomInv => DevicesAgree
  <2> SUFFICES ASSUME IInv, DeviceInv, RoomInv PROVE DevicesAgree
    OBVIOUS
  <2>1. \A d \in Devices :
          appState[d] = "APPCREATED" => \E c \in ContextsOf(d) : c.ctx = appContext[d]
    BY DEF DeviceInv, CreatedRuns
  <2>2. ASSUME ~turnedDown
        PROVE  /\ ~thrown
               /\ \A d \in Devices : Under(d) = IF Waiting(d) THEN 1 ELSE 0
               /\ \A m \in responses : Suits(m)
               /\ \A c \in meAppMap : Known(c)
    <3>1. ~thrown /\ MessageTypes /\ MapInv
      BY <2>2 DEF DeviceInv, Good, IInv
    <3>2. PICK pl : Placed(pl)
      BY <2>2 DEF DeviceInv, Good
    <3>3. \A d \in Devices : Under(d) = IF Waiting(d) THEN 1 ELSE 0
      BY <2>2, <3>1, <3>2, OneIsUnderWay
    <3>4. ASSUME NEW m \in responses PROVE Suits(m)
      <4>1. AnswerFits(m)
        BY <3>2 DEF Placed
      <4> QED
        BY <2>2, <4>1 DEF AnswerFits, Suits
    <3>5. \A c \in meAppMap : Known(c)
      BY <2>2, <3>1, <3>2, ContextIsKnown
    <3> QED
      BY <3>1, <3>3, <3>4, <3>5
  <2>3. Enough => ~turnedDown
    BY DEF RoomInv
  <2> QED
    BY <2>1, <2>2, <2>3 DEF DevicesAgree
<1> QED
  BY <1>1, <1>2, <1>3, Invariant, PTL DEF Spec
=============================================================================
