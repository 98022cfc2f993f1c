--------------------------- MODULE HandoverProofs ---------------------------
(***************************************************************************)
(* Proofs about both ends of a handover.                                   *)
(*                                                                         *)
(* HandoverForwarding: when commands are in time, forwarding and holding   *)
(* accompany the handover and end with it, for any number of base          *)
(* stations, packets and handovers; and, whenever commands arrive, no      *)
(* packet is lost or copied on the way and none overtakes another that     *)
(* takes the same way.                                                     *)
(*                                                                         *)
(* NrUeHandover: however the handovers of the LTE and the NR stack of a UE *)
(* overlap, the NR stack never stays with a secondary node whose master    *)
(* the LTE stack has left, and the UE, its IP2Nic and the base stations    *)
(* agree afterwards.                                                       *)
(***************************************************************************)
EXTENDS HandoverForwarding, NrUeHandover, FiniteSetTheorems, SequenceTheorems,
        WellFoundedInduction, TLAPS

NoCommand(except) ==
    \A s, t \in Bs : <<s, t>> \notin except => x2Control[s][t] = <<>>
ForwardsAt(at) == \A s \in Bs : s \notin at => hoForwarding[s] = NoBs

(* Nothing goes on between two base stations. *)
Quiet ==
    /\ NoCommand({}) /\ ForwardsAt({}) /\ hoHolding = {}
    /\ moving => serving = NoBs \/ candidate = NoBs

(* s is handing the UE over to t: the start command is on its way and t     *)
(* does not hold yet, or it has arrived and t holds.                        *)
Handing(s, t) ==
    /\ moving /\ serving = s /\ candidate = t /\ s # t
    /\ hoForwarding[s] = t /\ ForwardsAt({s})
    /\ NoCommand({<<s, t>>})
    /\ \/ x2Control[s][t] = <<"start">> /\ hoHolding = {}
       \/ x2Control[s][t] = <<>> /\ hoHolding = {t}

(* t has taken over from s, and s does not know yet. *)
Ending(s, t) ==
    /\ ~moving /\ s # t
    /\ hoForwarding[s] = t /\ ForwardsAt({s})
    /\ NoCommand({<<t, s>>})
    /\ x2Control[t][s] = <<"complete">> /\ hoHolding = {}

Phase == \/ Quiet
         \/ \E s, t \in Bs : Handing(s, t)
         \/ \E s, t \in Bs : Ending(s, t)

IpHeld == \A b \in Bs : hoFromIp[b] # <<>> => b \in hoHolding

IInv == TypeOK /\ Phase /\ IpHeld

phaseVars == <<serving, candidate, moving, x2Control, hoForwarding, hoHolding>>
-----------------------------------------------------------------------------
(* Types. *)
LEMMA TableExcept ==
    ASSUME NEW A, NEW S, NEW F \in [A -> [A -> S]], NEW a \in A, NEW b \in A, NEW v \in S
    PROVE  [F EXCEPT ![a][b] = v] \in [A -> [A -> S]]
<1>1. F[a] \in [A -> S]
  OBVIOUS
<1>2. [F[a] EXCEPT ![b] = v] \in [A -> S]
  BY <1>1
<1>3. [F EXCEPT ![a][b] = v] = [F EXCEPT ![a] = [F[a] EXCEPT ![b] = v]]
  OBVIOUS
<1>4. [F EXCEPT ![a] = [F[a] EXCEPT ![b] = v]] \in [A -> [A -> S]]
  BY <1>2
<1> QED
  BY <1>3, <1>4

LEMMA ToStackType ==
    ASSUME TypeOK, NEW b \in Bs, NEW packets \in Seq(Nat), NEW at \in Bs \cup {NoBs},
           ToStackBs(b, packets, at)
    PROVE  /\ toStack' \in Seq([bs : Bs, packet : Nat])
           /\ deleted' \in SUBSET Nat
<1>1. CASE at = NoBs
  <2>1. Range(packets) \in SUBSET Nat
    BY DEF Range
  <2> QED
    BY <1>1, <2>1 DEF ToStackBs, TypeOK
<1>2. CASE at # NoBs
  <2> DEFINE down == [i \in 1..Len(packets) |-> [bs |-> b, packet |-> packets[i]]]
  <2>1. \A i \in 1..Len(packets) : [bs |-> b, packet |-> packets[i]] \in [bs : Bs, packet : Nat]
    OBVIOUS
  <2>2. Len(packets) \in Nat
    OBVIOUS
  <2>3. down \in Seq([bs : Bs, packet : Nat])
    <3>1. down \in [1..Len(packets) -> [bs : Bs, packet : Nat]]
      BY <2>1
    <3> QED
      BY <3>1, <2>2, SeqDef
  <2>4. toStack' = toStack \o down /\ deleted' = deleted
    BY <1>2 DEF ToStackBs
  <2> HIDE DEF down
  <2> QED
    BY <2>3, <2>4 DEF TypeOK
<1> QED
  BY <1>1, <1>2

LEMMA InitType == Init => TypeOK
<1> SUFFICES ASSUME Init PROVE TypeOK
  OBVIOUS
<1>1. <<>> \in Seq(Nat) /\ <<>> \in Seq(Commands) /\ <<>> \in Seq(Bs \cup {NoBs})
      /\ <<>> \in Seq([bs : Bs, packet : Nat])
  OBVIOUS
<1>2. x2Control \in [Bs -> [Bs -> Seq(Commands)]] /\ x2Data \in [Bs -> [Bs -> Seq(Nat)]]
  BY <1>1 DEF Init
<1>3. core \in [Bs -> Seq(Nat)] /\ hoFromX2 \in [Bs -> Seq(Nat)]
      /\ hoFromIp \in [Bs -> Seq(Nat)] /\ hoForwarding \in [Bs -> Bs \cup {NoBs}]
  BY <1>1 DEF Init
<1> QED
  BY <1>1, <1>2, <1>3 DEF Init, TypeOK

LEMMA CoreSendsType ==
    ASSUME TypeOK, CoreSends
    PROVE  TypeOK'
<1>1. Len(routed) + 1 \in Nat /\ routed' \in Seq(Bs \cup {NoBs})
  BY DEF CoreSends, TypeOK
<1>2. core' \in [Bs -> Seq(Nat)] /\ deleted' \in SUBSET Nat
  <2>1. CASE serving = NoBs
    BY <1>1, <2>1 DEF CoreSends, TypeOK
  <2>2. CASE serving # NoBs
    <3>1. serving \in Bs /\ core[serving] \in Seq(Nat)
      BY <2>2 DEF TypeOK
    <3>2. Append(core[serving], Len(routed) + 1) \in Seq(Nat)
      BY <3>1, <1>1
    <3> QED
      BY <2>2, <3>1, <3>2 DEF CoreSends, TypeOK
  <2> QED
    BY <2>1, <2>2
<1> QED
  BY <1>1, <1>2 DEF CoreSends, TypeOK, ueVars, bufferVars

LEMMA FromIpBsType ==
    ASSUME TypeOK, NEW b \in Bs, FromIpBs(b)
    PROVE  TypeOK'
<1> DEFINE n == Head(core[b])
           t == hoForwarding[b]
<1>1. core[b] \in Seq(Nat) /\ core[b] # <<>> /\ t \in Bs \cup {NoBs}
  BY DEF FromIpBs, TypeOK
<1>2. n \in Nat /\ Tail(core[b]) \in Seq(Nat)
  BY <1>1
<1>3. core' \in [Bs -> Seq(Nat)]
  BY <1>2 DEF FromIpBs, TypeOK
<1>4. serving' \in Bs \cup {NoBs} /\ candidate' \in Bs \cup {NoBs} /\ moving' \in BOOLEAN
      /\ handovers' \in Nat /\ routed' \in Seq(Bs \cup {NoBs})
      /\ x2Control' \in [Bs -> [Bs -> Seq(Commands)]]
      /\ hoForwarding' \in [Bs -> Bs \cup {NoBs}] /\ hoHolding' \in SUBSET Bs
      /\ hoFromX2' \in [Bs -> Seq(Nat)]
  BY DEF FromIpBs, TypeOK, ueVars
<1> HIDE DEF n, t
<1>5. CASE /\ t # NoBs
           /\ x2Data' = [x2Data EXCEPT ![b][t] = Append(@, n)]
           /\ UNCHANGED <<hoFromIp, outVars>>
  <2>1. t \in Bs /\ x2Data[b] \in [Bs -> Seq(Nat)] /\ x2Data[b][t] \in Seq(Nat)
    BY <1>1, <1>5 DEF TypeOK
  <2>2. Append(x2Data[b][t], n) \in Seq(Nat)
    BY <2>1, <1>2
  <2>3. x2Data' \in [Bs -> [Bs -> Seq(Nat)]]
    BY <2>1, <2>2, <1>5 DEF TypeOK
  <2> QED
    BY <1>3, <1>4, <1>5, <2>3 DEF TypeOK, outVars
<1>6. CASE /\ hoFromIp' = [hoFromIp EXCEPT ![b] = Append(@, n)]
           /\ UNCHANGED <<x2Data, outVars>>
  <2>1. Append(hoFromIp[b], n) \in Seq(Nat)
    BY <1>2 DEF TypeOK
  <2> QED
    BY <1>3, <1>4, <1>6, <2>1 DEF TypeOK, outVars
<1>7. CASE /\ ToStackBs(b, <<n>>, serving)
           /\ UNCHANGED <<x2Data, hoFromIp>>
  <2>1. <<n>> \in Seq(Nat) /\ serving \in Bs \cup {NoBs}
    BY <1>2 DEF TypeOK
  <2> QED
    BY <1>3, <1>4, <1>7, <2>1, ToStackType DEF TypeOK
<1> QED
  BY <1>5, <1>6, <1>7 DEF FromIpBs, n, t

LEMMA ReceiveTunneledType ==
    ASSUME TypeOK, NEW s \in Bs, NEW t \in Bs, ReceiveTunneledPacketOnHandover(s, t)
    PROVE  TypeOK'
<1>1. x2Data[s] \in [Bs -> Seq(Nat)] /\ x2Data[s][t] \in Seq(Nat) /\ x2Data[s][t] # <<>>
  BY DEF ReceiveTunneledPacketOnHandover, TypeOK
<1>2. Head(x2Data[s][t]) \in Nat /\ Tail(x2Data[s][t]) \in Seq(Nat)
  BY <1>1
<1>3. Append(hoFromX2[t], Head(x2Data[s][t])) \in Seq(Nat)
  BY <1>2 DEF TypeOK
<1> QED
  BY <1>1, <1>2, <1>3
  DEF ReceiveTunneledPacketOnHandover, TypeOK, ueVars, outVars

LEMMA ReceiveCommandType ==
    ASSUME TypeOK, NEW s \in Bs, NEW t \in Bs, ReceiveHandoverCommand(s, t)
    PROVE  TypeOK'
<1>1. x2Control[s] \in [Bs -> Seq(Commands)] /\ x2Control[s][t] \in Seq(Commands)
      /\ x2Control[s][t] # <<>>
  BY DEF ReceiveHandoverCommand, StopForwarding, TypeOK
<1>2. Tail(x2Control[s][t]) \in Seq(Commands)
  BY <1>1
<1>3. x2Control' = [x2Control EXCEPT ![s][t] = Tail(x2Control[s][t])]
  BY DEF ReceiveHandoverCommand, StopForwarding
<1>4. x2Control' \in [Bs -> [Bs -> Seq(Commands)]]
  <2>1. x2Control \in [Bs -> [Bs -> Seq(Commands)]]
    BY DEF TypeOK
  <2> QED
    BY ONLY <1>2, <1>3, <2>1, TableExcept, s \in Bs, t \in Bs
<1>5. hoHolding' \in SUBSET Bs /\ hoForwarding' \in [Bs -> Bs \cup {NoBs}]
  <2>1. CASE Head(x2Control[s][t]) = "start"
    BY <2>1 DEF ReceiveHandoverCommand, StopForwarding, TypeOK
  <2>2. CASE Head(x2Control[s][t]) # "start"
    BY <2>2 DEF ReceiveHandoverCommand, StopForwarding, TypeOK
  <2> QED
    BY <2>1, <2>2
<1> QED
  BY <1>4, <1>5
  DEF ReceiveHandoverCommand, StopForwarding, TypeOK, ueVars, networkVars, bufferVars, outVars

LEMMA TriggerType ==
    ASSUME TypeOK, NEW c \in Bs \cup {NoBs}, TriggerHandover(c)
    PROVE  TypeOK'
<1>3. handovers' \in Nat /\ moving' \in BOOLEAN /\ candidate' \in Bs \cup {NoBs}
  BY DEF TriggerHandover, StartForwarding, TypeOK
<1>1. CASE serving # NoBs /\ c # NoBs
  <2>1. serving \in Bs /\ c \in Bs
    BY <1>1 DEF TypeOK
  <2>2. x2Control[serving] \in [Bs -> Seq(Commands)] /\ x2Control[serving][c] \in Seq(Commands)
    BY <2>1 DEF TypeOK
  <2>3. Append(x2Control[serving][c], "start") \in Seq(Commands)
    BY <2>2 DEF Commands
  <2>4. hoForwarding' \in [Bs -> Bs \cup {NoBs}]
    BY <1>1, <2>1 DEF TriggerHandover, StartForwarding, TypeOK
  <2>5. x2Control' \in [Bs -> [Bs -> Seq(Commands)]]
    <3>1. x2Control' = [x2Control EXCEPT ![serving][c] = Append(x2Control[serving][c], "start")]
      BY <1>1 DEF TriggerHandover, StartForwarding
    <3>2. x2Control \in [Bs -> [Bs -> Seq(Commands)]]
      BY DEF TypeOK
    <3> QED
      BY ONLY <2>1, <2>3, <3>1, <3>2, TableExcept
  <2> QED
    BY <2>4, <2>5, <1>3 DEF TriggerHandover, StartForwarding, TypeOK, networkVars, bufferVars, outVars
<1>2. CASE ~(serving # NoBs /\ c # NoBs)
  BY <1>2, <1>3 DEF TriggerHandover, StartForwarding, TypeOK, networkVars, bufferVars, outVars
<1> QED
  BY <1>1, <1>2

LEMMA DoHandoverType ==
    ASSUME TypeOK, DoHandover
    PROVE  TypeOK'
<1>1. CASE serving # NoBs /\ candidate # NoBs
  <2>1. serving \in Bs /\ candidate \in Bs
    BY <1>1 DEF TypeOK
  <2>2. x2Control[candidate] \in [Bs -> Seq(Commands)]
        /\ x2Control[candidate][serving] \in Seq(Commands)
    BY <2>1 DEF TypeOK
  <2>3. Append(x2Control[candidate][serving], "complete") \in Seq(Commands)
    BY <2>2 DEF Commands
  <2>4. x2Control' \in [Bs -> [Bs -> Seq(Commands)]]
    <3>1. x2Control' = [x2Control EXCEPT
                ![candidate][serving] = Append(x2Control[candidate][serving], "complete")]
      BY <1>1 DEF DoHandover, Held, HoldingWithout
    <3>2. x2Control \in [Bs -> [Bs -> Seq(Commands)]]
      BY DEF TypeOK
    <3> QED
      BY ONLY <2>1, <2>3, <3>1, <3>2, TableExcept
  <2>5. hoFromX2[candidate] \o hoFromIp[candidate] \in Seq(Nat)
    BY <2>1 DEF TypeOK
  <2>6. ToStackBs(candidate, hoFromX2[candidate] \o hoFromIp[candidate], candidate)
    BY <1>1 DEF DoHandover, Held, HoldingWithout
  <2>7. /\ toStack' \in Seq([bs : Bs, packet : Nat])
        /\ deleted' \in SUBSET Nat
    BY <2>1, <2>5, <2>6, ToStackType
  <2>8. hoFromX2' \in [Bs -> Seq(Nat)] /\ hoFromIp' \in [Bs -> Seq(Nat)]
        /\ hoHolding' \in SUBSET Bs
    <3>1. <<>> \in Seq(Nat)
      OBVIOUS
    <3> QED
      BY <1>1, <3>1 DEF DoHandover, Held, HoldingWithout, TypeOK
  <2> QED
    BY <2>1, <2>4, <2>7, <2>8 DEF DoHandover, Held, HoldingWithout, TypeOK, networkVars
<1>2. CASE ~(serving # NoBs /\ candidate # NoBs)
  BY <1>2 DEF DoHandover, Held, HoldingWithout, TypeOK, networkVars, bufferVars, outVars
<1> QED
  BY <1>1, <1>2

LEMMA NextType ==
    ASSUME TypeOK, [Next]_vars
    PROVE  TypeOK'
<1>1. CASE UNCHANGED vars
  BY <1>1 DEF TypeOK, vars, ueVars, networkVars, bufferVars, outVars
<1> QED
  BY <1>1, CoreSendsType, FromIpBsType, ReceiveTunneledType, ReceiveCommandType,
     TriggerType, DoHandoverType DEF Next

(* Every variable keeps its type, for any number of base stations, packets  *)
(* and handovers.                                                           *)
THEOREM TypeCorrect == Spec => []TypeOK
<1>1. TypeOK /\ [Next]_vars => TypeOK'
  BY NextType
<1> QED
  BY InitType, <1>1, PTL DEF Spec
-----------------------------------------------------------------------------
(* The phases of a handover. *)

(* A step that leaves the handover alone keeps the phase. *)
LEMMA PhaseUntouched ==
    ASSUME Phase, UNCHANGED phaseVars
    PROVE  Phase'
<1>1. /\ serving' = serving /\ candidate' = candidate /\ moving' = moving
      /\ x2Control' = x2Control /\ hoForwarding' = hoForwarding
      /\ hoHolding' = hoHolding
  BY DEF phaseVars
<1>2. CASE Quiet
  <2>1. Quiet'
    BY <1>1, <1>2 DEF Quiet, NoCommand, ForwardsAt
  <2> QED
    BY <2>1 DEF Phase
<1>3. ASSUME NEW s \in Bs, NEW t \in Bs, Handing(s, t)
      PROVE  Phase'
  <2>1. Handing(s, t)'
    BY <1>1, <1>3 DEF Handing, NoCommand, ForwardsAt
  <2> QED
    BY <2>1 DEF Phase
<1>4. ASSUME NEW s \in Bs, NEW t \in Bs, Ending(s, t)
      PROVE  Phase'
  <2>1. Ending(s, t)'
    BY <1>1, <1>4 DEF Ending, NoCommand, ForwardsAt
  <2> QED
    BY <2>1 DEF Phase
<1> QED
  BY <1>2, <1>3, <1>4 DEF Phase

LEMMA InitPhase == Init => IInv
<1> SUFFICES ASSUME Init PROVE IInv
  OBVIOUS
<1>1. Quiet
  BY DEF Init, Quiet, NoCommand, ForwardsAt
<1>2. IpHeld
  BY DEF Init, IpHeld
<1> QED
  BY InitType, <1>1, <1>2 DEF IInv, Phase

LEMMA CoreSendsPhase ==
    ASSUME Phase, IpHeld, CoreSends
    PROVE  Phase' /\ IpHeld'
<1>1. UNCHANGED phaseVars /\ UNCHANGED hoFromIp
  BY DEF CoreSends, phaseVars, ueVars, bufferVars
<1> QED
  BY <1>1, PhaseUntouched DEF IpHeld, phaseVars

LEMMA ReceiveTunneledPhase ==
    ASSUME Phase, IpHeld, NEW s \in Bs, NEW t \in Bs,
           ReceiveTunneledPacketOnHandover(s, t)
    PROVE  Phase' /\ IpHeld'
<1>1. UNCHANGED phaseVars /\ UNCHANGED hoFromIp
  BY DEF ReceiveTunneledPacketOnHandover, phaseVars, ueVars
<1> QED
  BY <1>1, PhaseUntouched DEF IpHeld, phaseVars

LEMMA FromIpBsPhase ==
    ASSUME TypeOK, Phase, IpHeld, NEW b \in Bs, FromIpBs(b)
    PROVE  Phase' /\ IpHeld'
<1>1. UNCHANGED phaseVars
  BY DEF FromIpBs, phaseVars, ueVars
<1>2. hoFromIp' = hoFromIp \/ b \in hoHolding
  BY DEF FromIpBs
<1>3. \A c \in Bs \ {b} : hoFromIp'[c] = hoFromIp[c]
  BY DEF FromIpBs, TypeOK
<1>4. IpHeld'
  BY <1>1, <1>2, <1>3 DEF IpHeld, phaseVars
<1> QED
  BY <1>1, <1>4, PhaseUntouched

(* A start command makes the target hold, a complete command makes the      *)
(* source stop forwarding.                                                  *)
LEMMA ReceiveCommandPhase ==
    ASSUME TypeOK, Phase, IpHeld, NEW s \in Bs, NEW t \in Bs,
           ReceiveHandoverCommand(s, t)
    PROVE  Phase' /\ IpHeld'
<1>1. /\ serving' = serving /\ candidate' = candidate /\ moving' = moving
      /\ hoFromIp' = hoFromIp
  BY DEF ReceiveHandoverCommand, StopForwarding, ueVars, bufferVars
<1>2. x2Control[s][t] # <<>>
      /\ x2Control' = [x2Control EXCEPT ![s][t] = Tail(@)]
  BY DEF ReceiveHandoverCommand, StopForwarding
<1>3. \A p, q \in Bs : <<p, q>> # <<s, t>> => x2Control'[p][q] = x2Control[p][q]
  BY <1>2 DEF TypeOK
<1>4. x2Control'[s][t] = Tail(x2Control[s][t])
  BY <1>2 DEF TypeOK
<1>5. CASE Quiet
  BY <1>2, <1>5 DEF Quiet, NoCommand
<1>6. ASSUME NEW p \in Bs, NEW q \in Bs, Handing(p, q)
      PROVE  Phase' /\ IpHeld'
  <2>1. p = s /\ q = t
    BY <1>2, <1>6 DEF Handing, NoCommand
  <2>2. x2Control[s][t] = <<"start">> /\ hoHolding = {}
    BY <1>2, <1>6, <2>1 DEF Handing
  <2>3. x2Control'[s][t] = <<>>
    BY <1>4, <2>2
  <2>4. hoHolding' = {t} /\ hoForwarding' = hoForwarding
    <3>1. Head(x2Control[s][t]) = "start"
      BY <2>2
    <3> QED
      BY <2>2, <3>1 DEF ReceiveHandoverCommand, StopForwarding
  <2>5. NoCommand({<<s, t>>})'
    BY <1>3, <1>6, <2>1 DEF Handing, NoCommand
  <2>6. Handing(s, t)'
    BY <1>1, <1>6, <2>1, <2>3, <2>4, <2>5 DEF Handing, ForwardsAt
  <2>7. IpHeld'
    BY <1>1, <2>2, <2>4 DEF IpHeld
  <2> QED
    BY <2>6, <2>7 DEF Phase
<1>7. ASSUME NEW p \in Bs, NEW q \in Bs, Ending(p, q)
      PROVE  Phase' /\ IpHeld'
  <2>1. q = s /\ p = t
    BY <1>2, <1>7 DEF Ending, NoCommand
  <2>2. x2Control[s][t] = <<"complete">> /\ hoHolding = {}
    BY <1>7, <2>1 DEF Ending
  <2>3. x2Control'[s][t] = <<>>
    BY <1>4, <2>2
  <2>4. hoHolding' = {} /\ hoForwarding' = [hoForwarding EXCEPT ![t] = NoBs]
    <3>1. Head(x2Control[s][t]) # "start"
      BY <2>2
    <3> QED
      BY <2>2, <3>1 DEF ReceiveHandoverCommand, StopForwarding
  <2>5. ForwardsAt({})'
    BY <1>7, <2>1, <2>4 DEF Ending, ForwardsAt, TypeOK
  <2>6. NoCommand({})'
    BY <1>3, <1>7, <2>1, <2>3 DEF Ending, NoCommand
  <2>7. Quiet'
    BY <1>1, <1>7, <2>4, <2>5, <2>6 DEF Ending, Quiet
  <2>8. IpHeld'
    BY <1>1, <2>2, <2>4 DEF IpHeld
  <2> QED
    BY <2>7, <2>8 DEF Phase
<1> QED
  BY <1>5, <1>6, <1>7 DEF Phase

LEMMA TriggerPhase ==
    ASSUME CommandsInTime, TypeOK, Phase, IpHeld, NEW c \in Bs \cup {NoBs},
           TriggerHandover(c)
    PROVE  Phase' /\ IpHeld'
<1>1. /\ ~moving /\ c # serving /\ moving' = TRUE /\ candidate' = c
      /\ serving' = serving /\ hoFromIp' = hoFromIp /\ hoHolding' = hoHolding
      /\ CommandsDone
  BY DEF TriggerHandover, StartForwarding, bufferVars
<1>2. Quiet
  <2>1. ASSUME NEW p \in Bs, NEW q \in Bs, Ending(p, q)
        PROVE  FALSE
    BY <1>1, <2>1 DEF Ending, CommandsDone
  <2> QED
    BY <1>1, <2>1 DEF Phase, Handing
<1>3. IpHeld'
  BY <1>1 DEF IpHeld
<1>4. CASE serving # NoBs /\ c # NoBs
  <2>1. serving \in Bs /\ c \in Bs
    BY <1>4 DEF TypeOK
  <2>2. /\ hoForwarding' = [hoForwarding EXCEPT ![serving] = c]
        /\ x2Control' = [x2Control EXCEPT ![serving][c] = Append(@, "start")]
    BY <1>4 DEF TriggerHandover, StartForwarding
  <2>3. x2Control'[serving][c] = Append(x2Control[serving][c], "start")
        /\ \A p, q \in Bs : <<p, q>> # <<serving, c>> => x2Control'[p][q] = x2Control[p][q]
    BY <2>1, <2>2 DEF TypeOK
  <2>4. x2Control[serving][c] = <<>>
    BY <1>2, <2>1 DEF Quiet, NoCommand
  <2>5. x2Control'[serving][c] = <<"start">>
    BY <2>3, <2>4
  <2>6. NoCommand({<<serving, c>>})'
    BY <1>1, <1>2, <2>3 DEF Quiet, NoCommand
  <2>7. hoForwarding'[serving] = c /\ ForwardsAt({serving})'
    BY <1>1, <1>2, <2>1, <2>2 DEF Quiet, ForwardsAt, TypeOK
  <2>8. Handing(serving, c)'
    BY <1>1, <1>2, <2>5, <2>6, <2>7 DEF Handing, Quiet
  <2>9. \E s, t \in Bs : Handing(s, t)'
    BY <1>1, <2>1, <2>8
  <2> QED
    BY <1>3, <2>9 DEF Phase
<1>5. CASE ~(serving # NoBs /\ c # NoBs)
  <2>1. UNCHANGED <<hoForwarding, x2Control>>
    BY <1>5 DEF TriggerHandover, StartForwarding
  <2>2. Quiet'
    BY <1>1, <1>2, <1>5, <2>1 DEF Quiet, NoCommand, ForwardsAt
  <2> QED
    BY <1>3, <2>2 DEF Phase
<1> QED
  BY <1>4, <1>5

LEMMA DoHandoverPhase ==
    ASSUME CommandsInTime, TypeOK, Phase, IpHeld, DoHandover
    PROVE  Phase' /\ IpHeld'
<1>1. /\ moving /\ moving' = FALSE /\ serving' = candidate /\ candidate' = candidate
      /\ hoForwarding' = hoForwarding /\ ~StartInFlight
  BY DEF DoHandover, Held, HoldingWithout
<1>2. CASE Quiet
  <2>1. UNCHANGED <<x2Control, hoHolding, bufferVars>>
    BY <1>1, <1>2 DEF DoHandover, Held, HoldingWithout, Quiet
  <2>2. Quiet'
    BY <1>1, <1>2, <2>1 DEF Quiet, NoCommand, ForwardsAt
  <2>3. IpHeld'
    BY <2>1 DEF IpHeld, bufferVars
  <2> QED
    BY <2>2, <2>3 DEF Phase
<1>3. ASSUME NEW s \in Bs, NEW t \in Bs, Handing(s, t)
      PROVE  Phase' /\ IpHeld'
  <2>1. serving = s /\ candidate = t /\ s # t /\ s # NoBs /\ t # NoBs
    BY <1>3, BsAssumption DEF Handing
  <2>2. x2Control[s][t] = <<>> /\ hoHolding = {t}
    <3>1. x2Control[s][t] # <<"start">>
      <4>1. "start" \in Range(<<"start">>)
        BY DEF Range
      <4> QED
        BY <1>1, <4>1 DEF StartInFlight
    <3> QED
      BY <1>3, <3>1 DEF Handing
  <2>3. /\ x2Control' = [x2Control EXCEPT ![t][s] = Append(@, "complete")]
        /\ hoFromIp' = [hoFromIp EXCEPT ![t] = <<>>]
        /\ hoHolding' = hoHolding \ {t}
    BY <2>1 DEF DoHandover, Held, HoldingWithout
  <2>4. x2Control'[t][s] = Append(x2Control[t][s], "complete")
        /\ \A p, q \in Bs : <<p, q>> # <<t, s>> => x2Control'[p][q] = x2Control[p][q]
    BY <2>3 DEF TypeOK
  <2>5. x2Control[t][s] = <<>>
    BY <1>3, <2>1 DEF Handing, NoCommand
  <2>6. x2Control'[t][s] = <<"complete">>
    BY <2>4, <2>5
  <2>7. NoCommand({<<t, s>>})'
    BY <1>3, <2>2, <2>4 DEF Handing, NoCommand
  <2>8. hoHolding' = {}
    BY <2>2, <2>3
  <2>9. Ending(s, t)'
    BY <1>1, <1>3, <2>1, <2>6, <2>7, <2>8 DEF Handing, Ending, ForwardsAt
  <2>10. IpHeld'
    <3>1. hoFromIp'[t] = <<>>
      BY <2>3 DEF TypeOK
    <3>2. \A b \in Bs \ {t} : hoFromIp'[b] = hoFromIp[b] /\ hoFromIp[b] = <<>>
      BY <2>2, <2>3 DEF TypeOK, IpHeld
    <3> QED
      BY <3>1, <3>2 DEF IpHeld
  <2> QED
    BY <2>9, <2>10 DEF Phase
<1>4. ASSUME NEW s \in Bs, NEW t \in Bs, Ending(s, t)
      PROVE  Phase' /\ IpHeld'
  BY <1>1, <1>4 DEF Ending
<1> QED
  BY <1>2, <1>3, <1>4 DEF Phase

LEMMA NextPhase ==
    ASSUME CommandsInTime, IInv, [Next]_vars
    PROVE  IInv'
<1>1. TypeOK'
  BY NextType DEF IInv
<1>2. Phase' /\ IpHeld'
  <2>1. CASE UNCHANGED vars
    BY <2>1, PhaseUntouched DEF IInv, IpHeld, vars, phaseVars, ueVars, bufferVars
  <2> QED
    BY <2>1, CoreSendsPhase, FromIpBsPhase, ReceiveTunneledPhase,
       ReceiveCommandPhase, TriggerPhase, DoHandoverPhase DEF Next, IInv
<1> QED
  BY <1>1, <1>2 DEF IInv

LEMMA Inductive ==
    ASSUME CommandsInTime
    PROVE  Spec => []IInv
<1>1. IInv /\ [Next]_vars => IInv'
  BY NextPhase
<1> QED
  BY InitPhase, <1>1, PTL DEF Spec

-----------------------------------------------------------------------------
(* When commands are in time, no base station forwards the packets of a UE  *)
(* that is not being handed over to the target of its entry, or whose       *)
(* completion it has yet to learn.                                          *)
THEOREM ForwardingAccompaniesHandover ==
    ASSUME CommandsInTime
    PROVE  Spec => []ForwardsOnlyDuringHandover
<1>1. IInv => ForwardsOnlyDuringHandover
  <2> SUFFICES ASSUME IInv, NEW b \in Bs, hoForwarding[b] # NoBs
               PROVE  \/ Between(b, hoForwarding[b])
                      \/ ~moving /\ x2Control[hoForwarding[b]][b] # <<>>
    BY DEF ForwardsOnlyDuringHandover
  <2>1. CASE Quiet
    BY <2>1 DEF Quiet, ForwardsAt
  <2>2. ASSUME NEW s \in Bs, NEW t \in Bs, Handing(s, t)
        PROVE  Between(b, hoForwarding[b])
    BY <2>2, BsAssumption DEF Handing, ForwardsAt, Between
  <2>3. ASSUME NEW s \in Bs, NEW t \in Bs, Ending(s, t)
        PROVE  ~moving /\ x2Control[hoForwarding[b]][b] # <<>>
    BY <2>3 DEF Ending, ForwardsAt
  <2> QED
    BY <2>1, <2>2, <2>3 DEF IInv, Phase
<1> QED
  BY Inductive, <1>1, PTL

(* When commands are in time, the source of a handover forwards to its      *)
(* target from the first moment to the last.                                *)
THEOREM HandoverIsForwarded ==
    ASSUME CommandsInTime
    PROVE  Spec => []HandoverForwards
<1>1. IInv => HandoverForwards
  <2> SUFFICES ASSUME IInv, NEW p \in Bs, NEW q \in Bs, Between(p, q)
               PROVE  hoForwarding[p] = q
    BY DEF HandoverForwards
  <2>1. ~Quiet
    BY BsAssumption DEF Between, Quiet
  <2>2. ASSUME NEW s \in Bs, NEW t \in Bs, Handing(s, t)
        PROVE  hoForwarding[p] = q
    BY <2>2 DEF Handing, Between
  <2>3. ASSUME NEW s \in Bs, NEW t \in Bs, Ending(s, t)
        PROVE  FALSE
    BY <2>3 DEF Ending, Between
  <2> QED
    BY <2>1, <2>2, <2>3 DEF IInv, Phase
<1> QED
  BY Inductive, <1>1, PTL

(* When commands are in time, a base station holds packets only for the     *)
(* handover that is going on, and leaves no packet of the core behind.      *)
THEOREM HoldingAccompaniesHandover ==
    ASSUME CommandsInTime
    PROVE  Spec => []HoldsOnlyDuringHandover
<1>1. IInv => HoldsOnlyDuringHandover
  <2> SUFFICES ASSUME IInv PROVE HoldsOnlyDuringHandover
    OBVIOUS
  <2>1. \A b \in hoHolding : moving /\ candidate = b
    BY DEF IInv, Phase, Quiet, Handing, Ending
  <2> QED
    BY <2>1 DEF HoldsOnlyDuringHandover, IInv, IpHeld
<1> QED
  BY Inductive, <1>1, PTL

(* When commands are in time, forwarding at the source and holding at the   *)
(* target begin and end with the handover.                                  *)
THEOREM ForwardingStaysWithHandover ==
    ASSUME CommandsInTime
    PROVE  Spec => []ForwardingFollowsHandover
<1>1. ForwardsOnlyDuringHandover /\ HandoverForwards /\ HoldsOnlyDuringHandover
        => ForwardingFollowsHandover
  BY DEF ForwardingFollowsHandover
<1> QED
  BY <1>1, ForwardingAccompaniesHandover, HandoverIsForwarded,
     HoldingAccompaniesHandover, PTL
-----------------------------------------------------------------------------
(* Where a packet is.  A packet is in at most one place, was sent by the    *)
(* core, is somewhere once sent, and no queue has it twice; every step      *)
(* moves a set of packets to one place.                                     *)
Down(n) == \E i \in 1..Len(toStack) : toStack[i].packet = n
In(place, at, n) ==
    \/ place = "core" /\ at \in Bs /\ n \in Range(core[at])
    \/ place = "fromX2" /\ at \in Bs /\ n \in Range(hoFromX2[at])
    \/ place = "fromIp" /\ at \in Bs /\ n \in Range(hoFromIp[at])
    \/ place = "x2" /\ \E s, t \in Bs : at = <<s, t>> /\ n \in Range(x2Data[s][t])
    \/ place = "down" /\ at = NoBs /\ Down(n)
    \/ place = "deleted" /\ at = NoBs /\ n \in deleted

OnePlace == \A p, at, q, by, n : In(p, at, n) /\ In(q, by, n) => p = q /\ at = by
Sent == \A p, at, n : In(p, at, n) => n \in 1..Len(routed)
NoneLost == \A n \in 1..Len(routed) : \E p, at : In(p, at, n)
NoneTwice ==
    /\ \A b \in Bs : /\ IsInjective(core[b]) /\ IsInjective(hoFromX2[b])
                     /\ IsInjective(hoFromIp[b])
    /\ \A s, t \in Bs : IsInjective(x2Data[s][t])
    /\ \A i, j \in 1..Len(toStack) : toStack[i].packet = toStack[j].packet => i = j

Accounted == OnePlace /\ Sent /\ NoneLost /\ NoneTwice

(* A queue of distinct packets that loses its first, gets one more, or is   *)
(* appended to another.                                                     *)
LEMMA QueueTail ==
    ASSUME NEW s \in Seq(Nat), s # <<>>, IsInjective(s)
    PROVE  /\ Range(Tail(s)) = Range(s) \ {Head(s)} /\ IsInjective(Tail(s))
           /\ Head(s) \in Range(s) /\ Head(s) \in Nat
<1>1. /\ Len(s) \in Nat \ {0} /\ DOMAIN s = 1..Len(s) /\ Head(s) = s[1]
      /\ DOMAIN Tail(s) = 1..Len(s) - 1
      /\ \A i \in 1..Len(s) - 1 : Tail(s)[i] = s[i + 1]
  OBVIOUS
<1>2. Range(Tail(s)) \subseteq Range(s) \ {Head(s)}
  <2> SUFFICES ASSUME NEW i \in 1..Len(s) - 1
               PROVE  s[i + 1] \in Range(s) /\ s[i + 1] # s[1]
    BY <1>1 DEF Range
  <2> QED
    BY <1>1 DEF Range, IsInjective
<1>3. Range(s) \ {Head(s)} \subseteq Range(Tail(s))
  <2> SUFFICES ASSUME NEW i \in 1..Len(s), s[i] # s[1]
               PROVE  s[i] \in Range(Tail(s))
    BY <1>1 DEF Range
  <2>1. i - 1 \in 1..Len(s) - 1 /\ Tail(s)[i - 1] = s[i]
    BY <1>1
  <2> QED
    BY <1>1, <2>1 DEF Range
<1>4. IsInjective(Tail(s))
  BY <1>1 DEF IsInjective
<1>5. 1 \in DOMAIN s /\ s[1] \in Nat
  BY <1>1
<1> QED
  BY <1>1, <1>2, <1>3, <1>4, <1>5 DEF Range

LEMMA QueueAppend ==
    ASSUME NEW s \in Seq(Nat), NEW n \in Nat, IsInjective(s), n \notin Range(s)
    PROVE  Range(Append(s, n)) = Range(s) \cup {n} /\ IsInjective(Append(s, n))
<1> DEFINE t == Append(s, n)
<1>1. /\ Len(s) \in Nat /\ DOMAIN s = 1..Len(s) /\ DOMAIN t = 1..Len(s) + 1
      /\ t[Len(s) + 1] = n /\ \A i \in 1..Len(s) : t[i] = s[i]
  OBVIOUS
<1> HIDE DEF t
<1>2. \A i \in 1..Len(s) + 1 : i \in 1..Len(s) \/ i = Len(s) + 1
  BY <1>1
<1>3. Range(t) = Range(s) \cup {n}
  BY <1>1, <1>2 DEF Range
<1>4. IsInjective(t)
  BY <1>1, <1>2 DEF IsInjective, Range
<1> QED
  BY <1>3, <1>4 DEF t

LEMMA QueueConcat ==
    ASSUME NEW s \in Seq(Nat), NEW t \in Seq(Nat), IsInjective(s), IsInjective(t),
           \A n \in Range(s) : n \notin Range(t)
    PROVE  Range(s \o t) = Range(s) \cup Range(t) /\ IsInjective(s \o t)
<1> DEFINE u == s \o t
<1>1. /\ Len(s) \in Nat /\ Len(t) \in Nat /\ DOMAIN s = 1..Len(s) /\ DOMAIN t = 1..Len(t)
      /\ DOMAIN u = 1..Len(s) + Len(t)
      /\ \A i \in 1..Len(s) : u[i] = s[i]
      /\ \A i \in 1..Len(t) : u[Len(s) + i] = t[i]
  OBVIOUS
<1> HIDE DEF u
<1>2. \A i \in 1..Len(s) + Len(t) :
         \/ i \in 1..Len(s) /\ u[i] = s[i]
         \/ i - Len(s) \in 1..Len(t) /\ u[i] = t[i - Len(s)]
  <2> SUFFICES ASSUME NEW i \in 1..Len(s) + Len(t), i \notin 1..Len(s)
               PROVE  i - Len(s) \in 1..Len(t) /\ u[i] = t[i - Len(s)]
    BY <1>1
  <2>1. i - Len(s) \in 1..Len(t) /\ Len(s) + (i - Len(s)) = i
    BY <1>1
  <2> QED
    BY <1>1, <2>1
<1>3. Range(u) = Range(s) \cup Range(t)
  <2>1. \A i \in 1..Len(t) : Len(s) + i \in 1..Len(s) + Len(t)
    BY <1>1
  <2>2. \A i \in 1..Len(s) : i \in 1..Len(s) + Len(t)
    BY <1>1
  <2>3. Range(u) \subseteq Range(s) \cup Range(t)
    BY <1>1, <1>2 DEF Range
  <2>4. Range(s) \subseteq Range(u)
    BY <1>1, <2>2 DEF Range
  <2>5. Range(t) \subseteq Range(u)
    BY <1>1, <2>1 DEF Range
  <2> QED
    BY <2>3, <2>4, <2>5
<1>4. IsInjective(u)
  <2> SUFFICES ASSUME NEW i \in 1..Len(s) + Len(t), NEW j \in 1..Len(s) + Len(t), u[i] = u[j]
               PROVE  i = j
    BY <1>1 DEF IsInjective
  <2>1. i \in 1..Len(s) => u[i] \in Range(s)
    BY <1>1 DEF Range
  <2>2. j \in 1..Len(s) => u[j] \in Range(s)
    BY <1>1 DEF Range
  <2>3. i \notin 1..Len(s) => u[i] \in Range(t)
    BY <1>1, <1>2 DEF Range
  <2>4. j \notin 1..Len(s) => u[j] \in Range(t)
    BY <1>1, <1>2 DEF Range
  <2>5. CASE i \in 1..Len(s) /\ j \in 1..Len(s)
    BY <1>1, <2>5 DEF IsInjective
  <2>6. CASE i \notin 1..Len(s) /\ j \notin 1..Len(s)
    <3>1. i - Len(s) \in 1..Len(t) /\ j - Len(s) \in 1..Len(t)
          /\ t[i - Len(s)] = t[j - Len(s)]
      BY <1>2, <2>6
    <3>2. i - Len(s) = j - Len(s)
      BY <1>1, <3>1 DEF IsInjective
    <3> QED
      BY <1>1, <3>2
  <2> QED
    BY <2>1, <2>2, <2>3, <2>4, <2>5, <2>6
<1> QED
  BY <1>3, <1>4 DEF u

(* Packets that go to one place, from wherever they were. *)
LEMMA PacketsGo ==
    ASSUME OnePlace, NEW to, NEW there, NEW Moved,
           \A p, at, n : In(p, at, n)' <=>
               IF p = to /\ at = there THEN In(p, at, n) \/ n \in Moved
               ELSE In(p, at, n) /\ n \notin Moved
    PROVE  /\ OnePlace'
           /\ \A n : (\E p, at : In(p, at, n)') <=>
                         (n \in Moved \/ \E p, at : In(p, at, n))
<1>1. OnePlace'
  <2> SUFFICES ASSUME NEW p, NEW at, NEW q, NEW by, NEW n, In(p, at, n)', In(q, by, n)'
               PROVE  p = q /\ at = by
    BY DEF OnePlace
  <2> QED
    BY DEF OnePlace
<1>2. ASSUME NEW n, n \in Moved PROVE \E p, at : In(p, at, n)'
  <2>1. In(to, there, n)'
    BY <1>2
  <2> QED
    BY <2>1
<1>3. ASSUME NEW n, n \notin Moved
      PROVE  (\E p, at : In(p, at, n)') <=> \E p, at : In(p, at, n)
  BY <1>3
<1> QED
  BY <1>1, <1>2, <1>3

LEMMA AllTypes ==
    ASSUME TypeOK
    PROVE  /\ \A b \in Bs : /\ core[b] \in Seq(Nat) /\ hoFromX2[b] \in Seq(Nat)
                            /\ hoFromIp[b] \in Seq(Nat)
           /\ \A s, t \in Bs : x2Data[s][t] \in Seq(Nat)
           /\ toStack \in Seq([bs : Bs, packet : Nat]) /\ Len(toStack) \in Nat
           /\ Len(routed) \in Nat
BY DEF TypeOK

(* A step of the model moves packets; what follows is the same for all. *)
LEMMA StillAccounted ==
    ASSUME Accounted, NoneTwice', NEW to, NEW there, NEW Moved,
           \A p, at, n : In(p, at, n)' <=>
               IF p = to /\ at = there THEN In(p, at, n) \/ n \in Moved
               ELSE In(p, at, n) /\ n \notin Moved,
           Len(routed) \in Nat, Len(routed') \in Nat, Len(routed) <= Len(routed'),
           Moved \subseteq 1..Len(routed'),
           1..Len(routed') \subseteq 1..Len(routed) \cup Moved
    PROVE  Accounted'
<1>1. /\ OnePlace'
      /\ \A n : (\E p, at : In(p, at, n)') <=>
                  (n \in Moved \/ \E p, at : In(p, at, n))
  BY PacketsGo DEF Accounted
<1>2. \A n : n \in 1..Len(routed) => n \in 1..Len(routed')
  OBVIOUS
<1>3. Sent'
  BY <1>1, <1>2 DEF Accounted, Sent
<1>4. NoneLost'
  BY <1>1 DEF Accounted, NoneLost
<1> QED
  BY <1>1, <1>3, <1>4 DEF Accounted

LEMMA CoreSendsAccounted ==
    ASSUME TypeOK, Accounted, CoreSends
    PROVE  Accounted'
<1> DEFINE n == Len(routed) + 1
<1>1. /\ n \in Nat /\ Len(routed') = n
      /\ UNCHANGED <<x2Data, hoFromX2, hoFromIp, toStack>>
      /\ \A p, at : ~In(p, at, n)
  <2>1. routed \in Seq(Bs \cup {NoBs}) /\ routed' = Append(routed, serving)
    BY DEF TypeOK, CoreSends
  <2>2. \A p, at : ~In(p, at, n)
    BY <2>1 DEF Accounted, Sent
  <2> QED
    BY <2>1, <2>2 DEF CoreSends, bufferVars
<1>4. /\ Len(routed) \in Nat /\ Len(routed') \in Nat /\ Len(routed) <= Len(routed')
      /\ {n} \subseteq 1..Len(routed') /\ 1..Len(routed') \subseteq 1..Len(routed) \cup {n}
  BY <1>1, AllTypes
<1>2. CASE serving = NoBs
  <2>1. deleted' = deleted \cup {n} /\ core' = core
    BY <1>2 DEF CoreSends
  <2>2. \A p, at, m : In(p, at, m)' <=>
               IF p = "deleted" /\ at = NoBs THEN In(p, at, m) \/ m \in {n}
               ELSE In(p, at, m) /\ m \notin {n}
    BY <1>1, <2>1 DEF In, Down
  <2>3. NoneTwice'
    BY <1>1, <2>1 DEF Accounted, NoneTwice
  <2> HIDE DEF n
  <2> QED
    BY <1>4, <2>2, <2>3, StillAccounted
<1>3. CASE serving # NoBs
  <2>1. serving \in Bs /\ deleted' = deleted
        /\ core' = [core EXCEPT ![serving] = Append(core[serving], n)]
    BY <1>3 DEF CoreSends, TypeOK
  <2>2. core'[serving] = Append(core[serving], n)
        /\ \A b \in Bs : b # serving => core'[b] = core[b]
    BY <2>1 DEF TypeOK
  <2>3. n \notin Range(core[serving]) /\ IsInjective(core[serving])
    BY <1>1, <2>1 DEF In, Accounted, NoneTwice
  <2>4. Range(core'[serving]) = Range(core[serving]) \cup {n} /\ IsInjective(core'[serving])
    BY <1>1, <2>1, <2>2, <2>3, AllTypes, QueueAppend
  <2>5. \A p, at, m : In(p, at, m)' <=>
               IF p = "core" /\ at = serving THEN In(p, at, m) \/ m \in {n}
               ELSE In(p, at, m) /\ m \notin {n}
    BY <1>1, <2>1, <2>2, <2>4 DEF In, Down
  <2>6. NoneTwice'
    BY <1>1, <2>1, <2>2, <2>4 DEF Accounted, NoneTwice
  <2> HIDE DEF n
  <2> QED
    BY <1>4, <2>5, <2>6, StillAccounted
<1> QED
  BY <1>2, <1>3

LEMMA TunneledAccounted ==
    ASSUME TypeOK, Accounted, NEW s \in Bs, NEW t \in Bs,
           ReceiveTunneledPacketOnHandover(s, t)
    PROVE  Accounted'
<1> DEFINE q == x2Data[s][t]
           n == Head(q)
<1>1. /\ UNCHANGED <<core, hoFromIp, toStack, deleted, routed>>
      /\ q \in Seq(Nat) /\ q # <<>> /\ IsInjective(q)
  BY AllTypes DEF ReceiveTunneledPacketOnHandover, outVars, Accounted, NoneTwice
<1>2. /\ x2Data'[s][t] = Tail(q)
      /\ \A a, b \in Bs : ~(a = s /\ b = t) => x2Data'[a][b] = x2Data[a][b]
      /\ hoFromX2'[t] = Append(hoFromX2[t], n)
      /\ \A b \in Bs : b # t => hoFromX2'[b] = hoFromX2[b]
  BY DEF ReceiveTunneledPacketOnHandover, TypeOK
<1>3. /\ Range(Tail(q)) = Range(q) \ {n} /\ IsInjective(Tail(q))
      /\ n \in Range(q) /\ n \in Nat
  BY <1>1, QueueTail
<1>4. In("x2", <<s, t>>, n)
  BY <1>3 DEF In
<1>5. n \notin Range(hoFromX2[t])
  <2>1. ~In("fromX2", t, n)
    BY <1>4 DEF Accounted, OnePlace
  <2> QED
    BY <2>1 DEF In
<1>6. Range(hoFromX2'[t]) = Range(hoFromX2[t]) \cup {n} /\ IsInjective(hoFromX2'[t])
  <2>1. IsInjective(hoFromX2[t]) /\ hoFromX2[t] \in Seq(Nat)
    BY AllTypes DEF Accounted, NoneTwice
  <2> QED
    BY <1>2, <1>3, <1>5, <2>1, QueueAppend
<1> HIDE DEF q, n
<1>7. \A p, at, m : In(p, at, m)' <=>
             IF p = "fromX2" /\ at = t THEN In(p, at, m) \/ m \in {n}
             ELSE In(p, at, m) /\ m \notin {n}
  <2>1. \A p, at : In(p, at, n) => p = "x2" /\ at = <<s, t>>
    BY <1>4 DEF Accounted, OnePlace
  <2> SUFFICES ASSUME NEW p, NEW at, NEW m
               PROVE  In(p, at, m)' <=>
                        IF p = "fromX2" /\ at = t THEN In(p, at, m) \/ m \in {n}
                        ELSE In(p, at, m) /\ m \notin {n}
    OBVIOUS
  <2>2. CASE p = "x2"
    <3>1. In(p, at, m) <=> \E a, b \in Bs : at = <<a, b>> /\ m \in Range(x2Data[a][b])
      BY <2>2 DEF In
    <3>2. In(p, at, m)' <=> \E a, b \in Bs : at = <<a, b>> /\ m \in Range(x2Data'[a][b])
      BY <2>2 DEF In
    <3>3. \A a, b \in Bs : at = <<a, b>> =>
             (m \in Range(x2Data'[a][b]) <=> m \in Range(x2Data[a][b]) /\ m # n)
      <4> SUFFICES ASSUME NEW a \in Bs, NEW b \in Bs, at = <<a, b>>
                   PROVE  m \in Range(x2Data'[a][b]) <=>
                            m \in Range(x2Data[a][b]) /\ m # n
        OBVIOUS
      <4>1. CASE a = s /\ b = t
        BY <1>2, <1>3, <4>1 DEF q
      <4>2. CASE ~(a = s /\ b = t)
        <5>1. x2Data'[a][b] = x2Data[a][b]
          BY <1>2, <4>2
        <5>2. ~In("x2", <<a, b>>, n)
          BY <2>1, <4>2
        <5>3. n \notin Range(x2Data[a][b])
          BY <5>2 DEF In
        <5> QED
          BY <5>1, <5>3
      <4> QED
        BY <4>1, <4>2
    <3> QED
      BY <2>2, <3>1, <3>2, <3>3
  <2>3. CASE p = "fromX2"
    <3>1. In(p, at, m) <=> at \in Bs /\ m \in Range(hoFromX2[at])
      BY <2>3 DEF In
    <3>2. In(p, at, m)' <=> at \in Bs /\ m \in Range(hoFromX2'[at])
      BY <2>3 DEF In
    <3>3. ~In(p, at, n)
      BY <2>1, <2>3
    <3>4. CASE at = t
      BY <1>6, <2>3, <3>1, <3>2, <3>4
    <3>5. CASE at # t
      <4>1. at \in Bs => hoFromX2'[at] = hoFromX2[at]
        BY <1>2, <3>5
      <4> QED
        BY <2>3, <3>1, <3>2, <3>3, <3>5, <4>1
    <3> QED
      BY <3>4, <3>5
  <2>4. CASE p \notin {"x2", "fromX2"}
    BY <1>1, <2>1, <2>4 DEF In, Down
  <2> QED
    BY <2>2, <2>3, <2>4
<1>8. NoneTwice'
  <2>1. ASSUME NEW a \in Bs, NEW b \in Bs PROVE IsInjective(x2Data'[a][b])
    <3>1. CASE a = s /\ b = t
      BY <1>2, <1>3, <3>1
    <3>2. CASE ~(a = s /\ b = t)
      <4>1. x2Data'[a][b] = x2Data[a][b]
        BY <1>2, <3>2
      <4> QED
        BY <4>1 DEF Accounted, NoneTwice
    <3> QED
      BY <3>1, <3>2
  <2> QED
    BY <1>1, <1>2, <1>6, <2>1 DEF Accounted, NoneTwice
<1>9. {n} \subseteq 1..Len(routed)
  BY <1>4 DEF Accounted, Sent
<1>10. /\ Len(routed) \in Nat /\ Len(routed') = Len(routed)
       /\ {n} \subseteq 1..Len(routed') /\ 1..Len(routed') \subseteq 1..Len(routed) \cup {n}
  BY <1>1, <1>9, AllTypes
<1>11. Len(routed') \in Nat /\ Len(routed) <= Len(routed')
  BY <1>10
<1> QED
  BY <1>7, <1>8, <1>10, <1>11, StillAccounted

LEMMA ConcatIs ==
    ASSUME NEW S, NEW s \in Seq(S), NEW t \in Seq(S)
    PROVE  /\ Len(s) \in Nat /\ Len(t) \in Nat /\ Len(s \o t) = Len(s) + Len(t)
           /\ \A i \in 1..Len(s) : (s \o t)[i] = s[i]
           /\ \A i \in 1..Len(t) : (s \o t)[Len(s) + i] = t[i]
OBVIOUS

(* What is handed down, in the order of the packets. *)
LEMMA HandedDown ==
    ASSUME TypeOK, NEW b \in Bs, NEW packets \in Seq(Nat), NEW at \in Bs,
           ToStackBs(b, packets, at)
    PROVE  /\ deleted' = deleted
           /\ Len(toStack) \in Nat /\ Len(packets) \in Nat
           /\ Len(toStack') = Len(toStack) + Len(packets)
           /\ \A i \in 1..Len(toStack) : toStack'[i] = toStack[i]
           /\ \A i \in 1..Len(packets) :
                 toStack'[Len(toStack) + i] = [bs |-> b, packet |-> packets[i]]
           /\ \A i \in 1..Len(toStack') :
                 i \in 1..Len(toStack) \/ i - Len(toStack) \in 1..Len(packets)
<1> DEFINE down == [i \in 1..Len(packets) |-> [bs |-> b, packet |-> packets[i]]]
<1>1. toStack' = toStack \o down /\ deleted' = deleted
  BY BsAssumption DEF ToStackBs
<1>2. Len(packets) \in Nat /\ toStack \in Seq([bs : Bs, packet : Nat])
  BY DEF TypeOK
<1>3. down \in Seq([bs : Bs, packet : Nat]) /\ Len(down) = Len(packets)
  <2>1. \A i \in 1..Len(packets) : [bs |-> b, packet |-> packets[i]] \in [bs : Bs, packet : Nat]
    OBVIOUS
  <2>2. down \in [1..Len(packets) -> [bs : Bs, packet : Nat]]
    BY <2>1
  <2> QED
    BY <1>2, <2>2, SeqDef
<1>4. \A i \in 1..Len(packets) : down[i] = [bs |-> b, packet |-> packets[i]]
  OBVIOUS
<1> HIDE DEF down
<1>5. /\ Len(toStack) \in Nat /\ Len(toStack') = Len(toStack) + Len(packets)
      /\ \A i \in 1..Len(toStack) : toStack'[i] = toStack[i]
      /\ \A i \in 1..Len(packets) : toStack'[Len(toStack) + i] = down[i]
  <2>1. /\ Len(toStack) \in Nat /\ Len(toStack \o down) = Len(toStack) + Len(down)
        /\ \A i \in 1..Len(toStack) : (toStack \o down)[i] = toStack[i]
        /\ \A i \in 1..Len(down) : (toStack \o down)[Len(toStack) + i] = down[i]
    <3> DEFINE R == [bs : Bs, packet : Nat]
    <3>1. toStack \in Seq(R) /\ down \in Seq(R)
      BY <1>2, <1>3
    <3> HIDE DEF R
    <3> QED
      BY <3>1, ConcatIs
  <2> QED
    BY <1>1, <1>3, <2>1
<1> QED
  BY <1>1, <1>2, <1>4, <1>5

LEMMA DownAccounted ==
    ASSUME TypeOK, NoneTwice, NEW b \in Bs, NEW packets \in Seq(Nat), NEW at \in Bs,
           ToStackBs(b, packets, at), IsInjective(packets),
           \A n \in Range(packets) : ~Down(n)
    PROVE  /\ \A n : Down(n)' <=> Down(n) \/ n \in Range(packets)
           /\ \A i, j \in 1..Len(toStack') : toStack'[i].packet = toStack'[j].packet => i = j
<1> DEFINE old == Len(toStack)
<1>0. /\ old \in Nat /\ Len(packets) \in Nat
      /\ Len(toStack') = old + Len(packets)
      /\ \A i \in 1..old : toStack'[i] = toStack[i]
      /\ \A i \in 1..Len(packets) : toStack'[old + i] = [bs |-> b, packet |-> packets[i]]
      /\ \A i \in 1..Len(toStack') : i \in 1..old \/ i - old \in 1..Len(packets)
      /\ DOMAIN packets = 1..Len(packets)
  BY HandedDown
<1> HIDE DEF old
<1>1. \A i \in 1..Len(toStack') : i \notin 1..old =>
         i - old \in 1..Len(packets) /\ toStack'[i].packet = packets[i - old]
  <2> SUFFICES ASSUME NEW i \in 1..Len(toStack'), i \notin 1..old
               PROVE  i - old \in 1..Len(packets) /\ toStack'[i].packet = packets[i - old]
    OBVIOUS
  <2>1. i - old \in 1..Len(packets) /\ old + (i - old) = i
    BY <1>0
  <2>2. toStack'[old + (i - old)] = [bs |-> b, packet |-> packets[i - old]]
    BY <1>0, <2>1
  <2> QED
    BY <2>1, <2>2
<1>2. ASSUME NEW n PROVE Down(n)' <=> Down(n) \/ n \in Range(packets)
  <2>1. ASSUME Down(n)' PROVE Down(n) \/ n \in Range(packets)
    <3>1. PICK i \in 1..Len(toStack') : toStack'[i].packet = n
      BY <2>1 DEF Down
    <3> QED
      BY <1>0, <1>1, <3>1 DEF Down, Range, old
  <2>2. ASSUME Down(n) PROVE Down(n)'
    <3>1. PICK i \in 1..old : toStack[i].packet = n
      BY <2>2 DEF Down, old
    <3>2. i \in 1..Len(toStack')
      BY <1>0
    <3> QED
      BY <1>0, <3>1, <3>2 DEF Down
  <2>3. ASSUME n \in Range(packets) PROVE Down(n)'
    <3>1. PICK i \in 1..Len(packets) : packets[i] = n
      BY <1>0, <2>3 DEF Range
    <3>2. old + i \in 1..Len(toStack')
      BY <1>0
    <3>3. toStack'[old + i].packet = n
      <4>1. toStack'[old + i] = [bs |-> b, packet |-> packets[i]]
        BY <1>0
      <4> QED
        BY <3>1, <4>1
    <3> DEFINE j == old + i
    <3>4. j \in 1..Len(toStack') /\ toStack'[j].packet = n
      BY <3>2, <3>3
    <3> HIDE DEF j
    <3>5. \E k \in 1..Len(toStack') : toStack'[k].packet = n
      BY <3>4
    <3> QED
      BY <3>5 DEF Down
  <2> QED
    BY <2>1, <2>2, <2>3
<1>3. ASSUME NEW i \in 1..Len(toStack'), NEW j \in 1..Len(toStack'),
             toStack'[i].packet = toStack'[j].packet
      PROVE  i = j
  <2>1. \A k \in 1..Len(toStack') : k \in 1..old => Down(toStack'[k].packet)
    BY <1>0 DEF Down, old
  <2>2. \A k \in 1..Len(toStack') : k \notin 1..old => ~Down(toStack'[k].packet)
    BY <1>0, <1>1 DEF Range
  <2>3. CASE i \in 1..old /\ j \in 1..old
    BY <1>0, <1>3, <2>3 DEF NoneTwice, old
  <2>4. CASE i \notin 1..old /\ j \notin 1..old
    <3>1. i - old \in 1..Len(packets) /\ j - old \in 1..Len(packets)
          /\ packets[i - old] = packets[j - old]
      BY <1>1, <1>3, <2>4
    <3>2. i - old = j - old
      BY <1>0, <3>1 DEF IsInjective
    <3> QED
      BY <1>0, <3>2
  <2> QED
    BY <1>3, <2>1, <2>2, <2>3, <2>4
<1> QED
  BY <1>2, <1>3

LEMMA FromIpAccounted ==
    ASSUME TypeOK, Accounted, NEW b \in Bs, FromIpBs(b)
    PROVE  Accounted'
<1> DEFINE n == Head(core[b])
           t == hoForwarding[b]
<1>1. /\ UNCHANGED <<hoFromX2, routed>>
      /\ core[b] \in Seq(Nat) /\ core[b] # <<>> /\ IsInjective(core[b])
  BY AllTypes DEF FromIpBs, Accounted, NoneTwice
<1>2. /\ core'[b] = Tail(core[b])
      /\ \A a \in Bs : a # b => core'[a] = core[a]
  BY DEF FromIpBs, TypeOK
<1>3. /\ Range(core'[b]) = Range(core[b]) \ {n} /\ IsInjective(core'[b])
      /\ n \in Range(core[b]) /\ n \in Nat
  BY <1>1, <1>2, QueueTail
<1>4. In("core", b, n) /\ \A p, at : In(p, at, n) => p = "core" /\ at = b
  <2>1. In("core", b, n)
    BY <1>3 DEF In
  <2> QED
    BY <2>1 DEF Accounted, OnePlace
<1>5. /\ Len(routed) \in Nat /\ Len(routed') \in Nat /\ Len(routed) <= Len(routed')
      /\ {n} \subseteq 1..Len(routed') /\ 1..Len(routed') \subseteq 1..Len(routed) \cup {n}
  <2>1. n \in 1..Len(routed)
    BY <1>4 DEF Accounted, Sent
  <2>2. Len(routed) \in Nat /\ routed' = routed
    BY <1>1, AllTypes
  <2> QED
    BY <2>1, <2>2
<1>6. t \in Bs \cup {NoBs} /\ serving \in Bs \cup {NoBs}
  BY DEF TypeOK
<1>7. \/ /\ t # NoBs
         /\ x2Data' = [x2Data EXCEPT ![b][t] = Append(@, n)]
         /\ UNCHANGED <<hoFromIp, outVars>>
      \/ /\ hoFromIp' = [hoFromIp EXCEPT ![b] = Append(@, n)]
         /\ UNCHANGED <<x2Data, outVars>>
      \/ /\ ToStackBs(b, <<n>>, serving)
         /\ UNCHANGED <<x2Data, hoFromIp>>
  BY DEF FromIpBs
<1> HIDE DEF n, t
<1>8. \A at, m : In("core", at, m)' <=> In("core", at, m) /\ m \notin {n}
  <2> SUFFICES ASSUME NEW at, NEW m
               PROVE  In("core", at, m)' <=> In("core", at, m) /\ m # n
    OBVIOUS
  <2>1. In("core", at, m) <=> at \in Bs /\ m \in Range(core[at])
    BY DEF In
  <2>2. In("core", at, m)' <=> at \in Bs /\ m \in Range(core'[at])
    BY DEF In
  <2>3. CASE at = b
    BY <1>3, <2>1, <2>2, <2>3
  <2>4. CASE at # b
    <3>1. at \in Bs => core'[at] = core[at]
      BY <1>2, <2>4
    <3> QED
      BY <1>4, <2>1, <2>2, <2>4, <3>1
  <2> QED
    BY <2>3, <2>4
<1>9. \A a \in Bs : IsInjective(core'[a])
  BY <1>2, <1>3 DEF Accounted, NoneTwice
<1>10. CASE /\ t # NoBs
            /\ x2Data' = [x2Data EXCEPT ![b][t] = Append(@, n)]
            /\ UNCHANGED <<hoFromIp, outVars>>
  <2>1. t \in Bs /\ UNCHANGED <<toStack, deleted, hoFromIp, hoFromX2>>
    BY <1>1, <1>6, <1>10 DEF outVars
  <2>2. /\ x2Data'[b][t] = Append(x2Data[b][t], n)
        /\ \A a, c \in Bs : ~(a = b /\ c = t) => x2Data'[a][c] = x2Data[a][c]
    BY <1>10, <2>1 DEF TypeOK
  <2>3. n \notin Range(x2Data[b][t])
    <3>1. ~In("x2", <<b, t>>, n)
      BY <1>4
    <3> QED
      BY <2>1, <3>1 DEF In
  <2>4. Range(x2Data'[b][t]) = Range(x2Data[b][t]) \cup {n} /\ IsInjective(x2Data'[b][t])
    <3>1. x2Data[b][t] \in Seq(Nat) /\ IsInjective(x2Data[b][t])
      BY <2>1, AllTypes DEF Accounted, NoneTwice
    <3> QED
      BY <1>3, <2>2, <2>3, <3>1, QueueAppend
  <2>5. \A p, at, m : In(p, at, m)' <=>
             IF p = "x2" /\ at = <<b, t>> THEN In(p, at, m) \/ m \in {n}
             ELSE In(p, at, m) /\ m \notin {n}
    <3> SUFFICES ASSUME NEW p, NEW at, NEW m
                 PROVE  In(p, at, m)' <=>
                          IF p = "x2" /\ at = <<b, t>> THEN In(p, at, m) \/ m \in {n}
                          ELSE In(p, at, m) /\ m \notin {n}
      OBVIOUS
    <3>1. CASE p = "x2" /\ at = <<b, t>>
      <4>1. In(p, at, m) <=> m \in Range(x2Data[b][t])
        BY <2>1, <3>1 DEF In
      <4>2. In(p, at, m)' <=> m \in Range(x2Data'[b][t])
        BY <2>1, <3>1 DEF In
      <4> QED
        BY <2>4, <3>1, <4>1, <4>2
    <3>2. CASE p = "x2" /\ at # <<b, t>>
      <4>1. \A a, c \in Bs : at = <<a, c>> => x2Data'[a][c] = x2Data[a][c]
        BY <2>2, <3>2
      <4>2. In(p, at, m)' <=> In(p, at, m)
        BY <3>2, <4>1 DEF In
      <4> QED
        BY <1>4, <3>2, <4>2
    <3>3. CASE p = "core"
      BY <1>8, <3>3
    <3>4. CASE p \notin {"core", "x2"}
      BY <1>4, <2>1, <3>4 DEF In, Down
    <3> QED
      BY <3>1, <3>2, <3>3, <3>4
  <2>6. NoneTwice'
    <3>1. ASSUME NEW a \in Bs, NEW c \in Bs PROVE IsInjective(x2Data'[a][c])
      <4>1. CASE a = b /\ c = t
        BY <2>4, <4>1
      <4>2. CASE ~(a = b /\ c = t)
        <5>1. x2Data'[a][c] = x2Data[a][c]
          BY <2>2, <4>2
        <5> QED
          BY <5>1 DEF Accounted, NoneTwice
      <4> QED
        BY <4>1, <4>2
    <3> QED
      BY <1>9, <2>1, <3>1 DEF Accounted, NoneTwice
  <2> QED
    BY <1>5, <2>5, <2>6, StillAccounted
<1>11. CASE /\ hoFromIp' = [hoFromIp EXCEPT ![b] = Append(@, n)]
            /\ UNCHANGED <<x2Data, outVars>>
  <2>1. UNCHANGED <<toStack, deleted, x2Data, hoFromX2>>
    BY <1>1, <1>11 DEF outVars
  <2>2. /\ hoFromIp'[b] = Append(hoFromIp[b], n)
        /\ \A a \in Bs : a # b => hoFromIp'[a] = hoFromIp[a]
    BY <1>11 DEF TypeOK
  <2>3. n \notin Range(hoFromIp[b])
    <3>1. ~In("fromIp", b, n)
      BY <1>4
    <3> QED
      BY <3>1 DEF In
  <2>4. Range(hoFromIp'[b]) = Range(hoFromIp[b]) \cup {n} /\ IsInjective(hoFromIp'[b])
    <3>1. hoFromIp[b] \in Seq(Nat) /\ IsInjective(hoFromIp[b])
      BY AllTypes DEF Accounted, NoneTwice
    <3> QED
      BY <1>3, <2>2, <2>3, <3>1, QueueAppend
  <2>5. \A p, at, m : In(p, at, m)' <=>
             IF p = "fromIp" /\ at = b THEN In(p, at, m) \/ m \in {n}
             ELSE In(p, at, m) /\ m \notin {n}
    <3> SUFFICES ASSUME NEW p, NEW at, NEW m
                 PROVE  In(p, at, m)' <=>
                          IF p = "fromIp" /\ at = b THEN In(p, at, m) \/ m \in {n}
                          ELSE In(p, at, m) /\ m \notin {n}
      OBVIOUS
    <3>1. CASE p = "fromIp"
      <4>1. In(p, at, m) <=> at \in Bs /\ m \in Range(hoFromIp[at])
        BY <3>1 DEF In
      <4>2. In(p, at, m)' <=> at \in Bs /\ m \in Range(hoFromIp'[at])
        BY <3>1 DEF In
      <4>3. CASE at = b
        BY <2>4, <3>1, <4>1, <4>2, <4>3
      <4>4. CASE at # b
        <5>1. at \in Bs => hoFromIp'[at] = hoFromIp[at]
          BY <2>2, <4>4
        <5> QED
          BY <1>4, <3>1, <4>1, <4>2, <4>4, <5>1
      <4> QED
        BY <4>3, <4>4
    <3>2. CASE p = "core"
      BY <1>8, <3>2
    <3>3. CASE p \notin {"core", "fromIp"}
      BY <1>4, <2>1, <3>3 DEF In, Down
    <3> QED
      BY <3>1, <3>2, <3>3
  <2>6. NoneTwice'
    BY <1>9, <2>1, <2>2, <2>4 DEF Accounted, NoneTwice
  <2> QED
    BY <1>5, <2>5, <2>6, StillAccounted
<1>12. CASE /\ ToStackBs(b, <<n>>, serving)
            /\ UNCHANGED <<x2Data, hoFromIp>>
  <2>1. /\ <<n>> \in Seq(Nat) /\ Range(<<n>>) = {n} /\ IsInjective(<<n>>)
    BY <1>3 DEF Range, IsInjective
  <2>2. CASE serving = NoBs
    <3>1. deleted' = deleted \cup {n} /\ toStack' = toStack
      BY <1>12, <2>1, <2>2 DEF ToStackBs
    <3>2. \A p, at, m : In(p, at, m)' <=>
             IF p = "deleted" /\ at = NoBs THEN In(p, at, m) \/ m \in {n}
             ELSE In(p, at, m) /\ m \notin {n}
      <4> SUFFICES ASSUME NEW p, NEW at, NEW m
                   PROVE  In(p, at, m)' <=>
                            IF p = "deleted" /\ at = NoBs THEN In(p, at, m) \/ m \in {n}
                            ELSE In(p, at, m) /\ m \notin {n}
        OBVIOUS
      <4>1. CASE p = "deleted"
        BY <3>1, <4>1 DEF In
      <4>2. CASE p = "core"
        BY <1>8, <4>2
      <4>3. CASE p \notin {"core", "deleted"}
        BY <1>1, <1>4, <1>12, <3>1, <4>3 DEF In, Down
      <4> QED
        BY <4>1, <4>2, <4>3
    <3>3. NoneTwice'
      BY <1>1, <1>9, <1>12, <3>1 DEF Accounted, NoneTwice
    <3> QED
      BY <1>5, <3>2, <3>3, StillAccounted
  <2>3. CASE serving # NoBs
    <3>1. ~Down(n)
      <4>1. ~In("down", NoBs, n)
        BY <1>4
      <4> QED
        BY <4>1 DEF In
    <3>2. /\ \A m : Down(m)' <=> Down(m) \/ m \in {n}
          /\ \A i, j \in 1..Len(toStack') : toStack'[i].packet = toStack'[j].packet => i = j
          /\ deleted' = deleted
      <4>1. serving \in Bs
        BY <1>6, <2>3
      <4>2. \A m \in Range(<<n>>) : ~Down(m)
        BY <2>1, <3>1
      <4>3. /\ \A m : Down(m)' <=> Down(m) \/ m \in Range(<<n>>)
            /\ \A i, j \in 1..Len(toStack') : toStack'[i].packet = toStack'[j].packet => i = j
        BY <1>12, <2>1, <4>1, <4>2, DownAccounted DEF Accounted
      <4>4. deleted' = deleted
        BY <1>12, <2>3 DEF ToStackBs
      <4> QED
        BY <2>1, <4>3, <4>4
    <3>3. \A p, at, m : In(p, at, m)' <=>
             IF p = "down" /\ at = NoBs THEN In(p, at, m) \/ m \in {n}
             ELSE In(p, at, m) /\ m \notin {n}
      <4> SUFFICES ASSUME NEW p, NEW at, NEW m
                   PROVE  In(p, at, m)' <=>
                            IF p = "down" /\ at = NoBs THEN In(p, at, m) \/ m \in {n}
                            ELSE In(p, at, m) /\ m \notin {n}
        OBVIOUS
      <4>1. CASE p = "down"
        BY <3>2, <4>1 DEF In
      <4>2. CASE p = "core"
        BY <1>8, <4>2
      <4>3. CASE p \notin {"core", "down"}
        <5>1. p # "core" /\ p # "down"
          BY <4>3
        <5>2. /\ x2Data' = x2Data /\ hoFromIp' = hoFromIp
              /\ hoFromX2' = hoFromX2 /\ deleted' = deleted
          BY <1>1, <1>12, <3>2
        <5>3. In(p, at, m)' <=> In(p, at, m)
          BY <5>1, <5>2 DEF In
        <5> QED
          BY <1>4, <5>1, <5>3
      <4> QED
        BY <4>1, <4>2, <4>3
    <3>4. NoneTwice'
      BY <1>1, <1>9, <1>12, <3>2 DEF Accounted, NoneTwice
    <3> QED
      BY <1>5, <3>3, <3>4, StillAccounted
  <2> QED
    BY <2>2, <2>3
<1> QED
  BY <1>7, <1>10, <1>11, <1>12

LEMMA DoHandoverAccounted ==
    ASSUME TypeOK, Accounted, DoHandover
    PROVE  Accounted'
<1> DEFINE c == candidate
           held == hoFromX2[c] \o hoFromIp[c]
<1>1. UNCHANGED <<core, x2Data, routed>>
  BY DEF DoHandover, networkVars
<1>2. CASE ~(serving # NoBs /\ c # NoBs)
  <2>1. UNCHANGED <<hoFromX2, hoFromIp, toStack, deleted>>
    BY <1>2 DEF DoHandover, bufferVars, outVars
  <2>2. \A p, at, n : In(p, at, n)' <=> In(p, at, n)
    BY <1>1, <2>1 DEF In, Down
  <2>3. OnePlace' /\ Sent' /\ NoneLost'
    BY <1>1, <2>2 DEF Accounted, OnePlace, Sent, NoneLost
  <2>4. NoneTwice'
    BY <1>1, <2>1 DEF Accounted, NoneTwice
  <2> QED
    BY <2>3, <2>4 DEF Accounted
<1>3. CASE serving # NoBs /\ c # NoBs
  <2>1. c \in Bs
    BY <1>3 DEF TypeOK
  <2>2. /\ ToStackBs(c, held, c)
        /\ hoFromX2' = [hoFromX2 EXCEPT ![c] = <<>>]
        /\ hoFromIp' = [hoFromIp EXCEPT ![c] = <<>>]
    BY <1>3 DEF DoHandover, Held
  <2>3. /\ hoFromX2'[c] = <<>> /\ hoFromIp'[c] = <<>>
        /\ \A b \in Bs : b # c => hoFromX2'[b] = hoFromX2[b] /\ hoFromIp'[b] = hoFromIp[b]
    BY <2>1, <2>2 DEF TypeOK
  <2>4. Range(<<>>) = {} /\ IsInjective(<<>>)
    BY DEF Range, IsInjective
  <2>5. /\ hoFromX2[c] \in Seq(Nat) /\ hoFromIp[c] \in Seq(Nat)
        /\ IsInjective(hoFromX2[c]) /\ IsInjective(hoFromIp[c])
    BY <2>1, AllTypes DEF Accounted, NoneTwice
  <2>6. \A n : (n \in Range(hoFromX2[c]) <=> In("fromX2", c, n))
               /\ (n \in Range(hoFromIp[c]) <=> In("fromIp", c, n))
    BY <2>1 DEF In
  <2>7. Range(held) = Range(hoFromX2[c]) \cup Range(hoFromIp[c]) /\ IsInjective(held)
        /\ held \in Seq(Nat)
    <3>1. \A n \in Range(hoFromX2[c]) : n \notin Range(hoFromIp[c])
      BY <2>6 DEF Accounted, OnePlace
    <3>2. held \in Seq(Nat)
      BY <2>5
    <3> QED
      BY <2>5, <3>1, <3>2, QueueConcat
  <2>8. \A n \in Range(held) : ~Down(n)
    <3> SUFFICES ASSUME NEW n \in Range(held), Down(n) PROVE FALSE
      OBVIOUS
    <3>1. In("down", NoBs, n)
      BY DEF In
    <3> QED
      BY <2>6, <2>7, <3>1 DEF Accounted, OnePlace
  <2> HIDE DEF held
  <2>9. /\ \A n : Down(n)' <=> Down(n) \/ n \in Range(held)
        /\ \A i, j \in 1..Len(toStack') : toStack'[i].packet = toStack'[j].packet => i = j
    BY <2>1, <2>2, <2>7, <2>8, DownAccounted DEF Accounted
  <2>10. deleted' = deleted
    BY <1>3, <2>2 DEF ToStackBs
  <2> HIDE DEF c
  <2>11. \A p, at, n : n \in Range(held) /\ In(p, at, n) =>
            p \in {"fromX2", "fromIp"} /\ at = c
    BY <2>6, <2>7 DEF Accounted, OnePlace
  <2>12. \A p, at, n : In(p, at, n)' <=>
             IF p = "down" /\ at = NoBs THEN In(p, at, n) \/ n \in Range(held)
             ELSE In(p, at, n) /\ n \notin Range(held)
    <3> SUFFICES ASSUME NEW p, NEW at, NEW n
                 PROVE  In(p, at, n)' <=>
                          IF p = "down" /\ at = NoBs THEN In(p, at, n) \/ n \in Range(held)
                          ELSE In(p, at, n) /\ n \notin Range(held)
      OBVIOUS
    <3>1. CASE p = "down"
      BY <2>9, <3>1 DEF In
    <3>2. CASE p = "fromX2"
      <4>1. In(p, at, n) <=> at \in Bs /\ n \in Range(hoFromX2[at])
        BY <3>2 DEF In
      <4>2. In(p, at, n)' <=> at \in Bs /\ n \in Range(hoFromX2'[at])
        BY <3>2 DEF In
      <4>3. CASE at = c
        BY <2>3, <2>4, <2>7, <3>2, <4>1, <4>2, <4>3
      <4>4. CASE at # c
        <5>1. at \in Bs => hoFromX2'[at] = hoFromX2[at]
          BY <2>3, <4>4
        <5> QED
          BY <2>11, <3>2, <4>1, <4>2, <4>4, <5>1
      <4> QED
        BY <4>3, <4>4
    <3>3. CASE p = "fromIp"
      <4>1. In(p, at, n) <=> at \in Bs /\ n \in Range(hoFromIp[at])
        BY <3>3 DEF In
      <4>2. In(p, at, n)' <=> at \in Bs /\ n \in Range(hoFromIp'[at])
        BY <3>3 DEF In
      <4>3. CASE at = c
        BY <2>3, <2>4, <2>7, <3>3, <4>1, <4>2, <4>3
      <4>4. CASE at # c
        <5>1. at \in Bs => hoFromIp'[at] = hoFromIp[at]
          BY <2>3, <4>4
        <5> QED
          BY <2>11, <3>3, <4>1, <4>2, <4>4, <5>1
      <4> QED
        BY <4>3, <4>4
    <3>4. CASE p \notin {"down", "fromX2", "fromIp"}
      <4>1. In(p, at, n)' <=> In(p, at, n)
        BY <1>1, <2>10, <3>4 DEF In
      <4> QED
        BY <2>11, <3>4, <4>1
    <3> QED
      BY <3>1, <3>2, <3>3, <3>4
  <2>13. NoneTwice'
    <3>1. ASSUME NEW b \in Bs PROVE IsInjective(hoFromX2'[b]) /\ IsInjective(hoFromIp'[b])
      BY <2>3, <2>4 DEF Accounted, NoneTwice
    <3> QED
      BY <1>1, <2>9, <3>1 DEF Accounted, NoneTwice
  <2>14. Range(held) \subseteq 1..Len(routed)
    BY <2>6, <2>7 DEF Accounted, Sent
  <2>15. /\ Len(routed) \in Nat /\ Len(routed') \in Nat /\ Len(routed) <= Len(routed')
         /\ Range(held) \subseteq 1..Len(routed')
         /\ 1..Len(routed') \subseteq 1..Len(routed) \cup Range(held)
    <3>1. Len(routed) \in Nat /\ routed' = routed
      BY <1>1, AllTypes
    <3> QED
      BY <2>14, <3>1
  <2> QED
    BY <2>12, <2>13, <2>15, StillAccounted
<1> QED
  BY <1>2, <1>3

LEMMA InitAccounted == Init => Accounted
<1> SUFFICES ASSUME Init PROVE Accounted
  OBVIOUS
<1>1. Range(<<>>) = {} /\ IsInjective(<<>>) /\ Len(<<>>) = 0
  BY DEF Range, IsInjective
<1>2. /\ \A b \in Bs : core[b] = <<>> /\ hoFromX2[b] = <<>> /\ hoFromIp[b] = <<>>
      /\ \A s, t \in Bs : x2Data[s][t] = <<>>
      /\ toStack = <<>> /\ deleted = {} /\ routed = <<>>
  BY DEF Init
<1>3. \A p, at, n : ~In(p, at, n)
  BY <1>1, <1>2 DEF In, Down
<1>4. NoneTwice
  BY <1>1, <1>2 DEF NoneTwice
<1> QED
  BY <1>1, <1>2, <1>3, <1>4 DEF Accounted, OnePlace, Sent, NoneLost

LEMMA NextAccounted == TypeOK /\ Accounted /\ [Next]_vars => Accounted'
<1> SUFFICES ASSUME TypeOK, Accounted, [Next]_vars PROVE Accounted'
  OBVIOUS
<1>1. ASSUME UNCHANGED <<core, x2Data, hoFromX2, hoFromIp, toStack, deleted, routed>>
      PROVE  Accounted'
  <2>1. \A p, at, n : In(p, at, n)' <=> In(p, at, n)
    BY <1>1 DEF In, Down
  <2>2. OnePlace' /\ Sent' /\ NoneLost'
    BY <1>1, <2>1 DEF Accounted, OnePlace, Sent, NoneLost
  <2>3. NoneTwice'
    BY <1>1 DEF Accounted, NoneTwice
  <2> QED
    BY <2>2, <2>3 DEF Accounted
<1>2. ASSUME NEW s \in Bs, NEW t \in Bs, ReceiveHandoverCommand(s, t) PROVE Accounted'
  BY <1>1, <1>2 DEF ReceiveHandoverCommand, networkVars, bufferVars, outVars
<1>3. ASSUME NEW c \in Bs \cup {NoBs}, TriggerHandover(c) PROVE Accounted'
  BY <1>1, <1>3 DEF TriggerHandover, networkVars, bufferVars, outVars
<1>4. CASE UNCHANGED vars
  BY <1>1, <1>4 DEF vars, networkVars, bufferVars, outVars
<1> QED
  BY <1>2, <1>3, <1>4, CoreSendsAccounted, FromIpAccounted, TunneledAccounted,
     DoHandoverAccounted DEF Next

LEMMA SetToSeqOf ==
    ASSUME NEW S, IsFiniteSet(S)
    PROVE  Range(SetToSeq(S)) = S /\ IsInjective(SetToSeq(S))
<1> DEFINE D == 1..Cardinality(S)
           f == SetToSeq(S)
<1>1. Cardinality(S) \in Nat /\ ExistsBijection(D, S)
  BY FS_CardinalityType
<1>2. \E g \in [D -> S] : IsInjective(g)
  BY <1>1 DEF ExistsBijection, Bijection, Injection
<1>3. f \in [D -> S] /\ IsInjective(f)
  BY <1>2 DEF SetToSeq
<1>4. IsFiniteSet(D) /\ Cardinality(D) = Cardinality(S)
  BY <1>1, FS_Interval
<1> HIDE DEF f, D
<1>5. f \in Surjection(D, S)
  <2>1. f \in Injection(D, S)
    BY <1>3 DEF Injection
  <2> QED
    BY <1>4, <2>1, FS_Injection
<1>6. Range(f) = S
  BY <1>3, <1>5 DEF Surjection, Range
<1> QED
  BY <1>3, <1>6 DEF f

(* PacketsAccounted: every packet the core has sent is in exactly one       *)
(* place, once: on a link, in a buffer of IP2Nic, handed down or deleted.   *)
(* Forwarding, holding and flushing neither lose nor copy one, over any     *)
(* number of handovers between any base stations, and also when commands    *)
(* come so late that a source goes on forwarding to a UE that is back.      *)
THEOREM EveryPacketAccounted == Spec => []PacketsAccounted
<1>1. TypeOK /\ Accounted => PacketsAccounted
  <2> SUFFICES ASSUME TypeOK, Accounted PROVE PacketsAccounted
    OBVIOUS
  <2> DEFINE handed == [i \in 1..Len(toStack) |-> toStack[i].packet]
             Places ==
                {<<"core", b, core[b]>> : b \in Bs}
                \cup {<<"fromX2", b, hoFromX2[b]>> : b \in Bs}
                \cup {<<"fromIp", b, hoFromIp[b]>> : b \in Bs}
                \cup {<<"x2", <<st[1], st[2]>>, x2Data[st[1]][st[2]]>> : st \in Bs \X Bs}
                \cup {<<"down", NoBs, handed>>, <<"deleted", NoBs, SetToSeq(deleted)>>}
  <2>1. /\ \A n : n \in Range(handed) <=> Down(n)
        /\ IsInjective(handed)
    BY DEF Range, Down, IsInjective, Accounted, NoneTwice
  <2>2. Range(SetToSeq(deleted)) = deleted /\ IsInjective(SetToSeq(deleted))
    <3>1. deleted \subseteq 1..Len(routed)
      BY DEF Accounted, Sent, In
    <3>2. IsFiniteSet(1..Len(routed))
      <4>1. 1 \in Int /\ Len(routed) \in Int
        BY AllTypes
      <4> QED
        BY <4>1, FS_Interval
    <3>3. IsFiniteSet(deleted)
      BY <3>1, <3>2, FS_Subset
    <3> QED
      BY <3>3, SetToSeqOf
  <2> HIDE DEF handed
  <2>3. ASSUME NEW p \in Places
        PROVE  /\ \A n : n \in Range(p[3]) <=> In(p[1], p[2], n)
               /\ IsInjective(p[3])
    <3>1. ASSUME NEW b \in Bs, p = <<"core", b, core[b]>>
          PROVE  /\ \A n : n \in Range(p[3]) <=> In(p[1], p[2], n)
                 /\ IsInjective(p[3])
      BY <3>1 DEF In, Accounted, NoneTwice
    <3>2. ASSUME NEW b \in Bs, p = <<"fromX2", b, hoFromX2[b]>>
          PROVE  /\ \A n : n \in Range(p[3]) <=> In(p[1], p[2], n)
                 /\ IsInjective(p[3])
      BY <3>2 DEF In, Accounted, NoneTwice
    <3>3. ASSUME NEW b \in Bs, p = <<"fromIp", b, hoFromIp[b]>>
          PROVE  /\ \A n : n \in Range(p[3]) <=> In(p[1], p[2], n)
                 /\ IsInjective(p[3])
      BY <3>3 DEF In, Accounted, NoneTwice
    <3>4. ASSUME NEW s \in Bs, NEW t \in Bs, p = <<"x2", <<s, t>>, x2Data[s][t]>>
          PROVE  /\ \A n : n \in Range(p[3]) <=> In(p[1], p[2], n)
                 /\ IsInjective(p[3])
      BY <3>4 DEF In, Accounted, NoneTwice
    <3>5. CASE p = <<"down", NoBs, handed>>
      BY <2>1, <3>5 DEF In
    <3>6. CASE p = <<"deleted", NoBs, SetToSeq(deleted)>>
      <4>1. p[1] = "deleted" /\ p[2] = NoBs /\ p[3] = SetToSeq(deleted)
        BY <3>6
      <4> QED
        BY <2>2, <4>1 DEF In
    <3> QED
      BY <3>1, <3>2, <3>3, <3>4, <3>5, <3>6
  <2>4. ASSUME NEW k, NEW at, NEW n, In(k, at, n)
        PROVE  \E p \in Places : p[1] = k /\ p[2] = at
    <3>1. CASE k = "core" /\ at \in Bs
      <4>1. <<"core", at, core[at]>> \in Places
        BY <3>1
      <4> QED
        BY <3>1, <4>1
    <3>2. CASE k = "fromX2" /\ at \in Bs
      <4>1. <<"fromX2", at, hoFromX2[at]>> \in Places
        BY <3>2
      <4> QED
        BY <3>2, <4>1
    <3>3. CASE k = "fromIp" /\ at \in Bs
      <4>1. <<"fromIp", at, hoFromIp[at]>> \in Places
        BY <3>3
      <4> QED
        BY <3>3, <4>1
    <3>4. CASE k = "x2" /\ at \in Bs \X Bs
      <4>1. <<"x2", <<at[1], at[2]>>, x2Data[at[1]][at[2]]>> \in Places
        BY <3>4
      <4>2. <<at[1], at[2]>> = at
        BY <3>4
      <4> QED
        BY <3>4, <4>1, <4>2
    <3>5. CASE k = "down" /\ at = NoBs
      <4>1. <<"down", NoBs, handed>> \in Places
        OBVIOUS
      <4> QED
        BY <3>5, <4>1
    <3>6. CASE k = "deleted" /\ at = NoBs
      <4>1. <<"deleted", NoBs, SetToSeq(deleted)>> \in Places
        OBVIOUS
      <4> QED
        BY <3>6, <4>1
    <3>7. k = "x2" => at \in Bs \X Bs
      BY <2>4 DEF In
    <3> QED
      BY <2>4, <3>1, <3>2, <3>3, <3>4, <3>5, <3>6, <3>7 DEF In
  <2>5. ASSUME NEW p \in Places, NEW q \in Places, p[1] = q[1], p[2] = q[2]
        PROVE  p = q
    BY <2>5
  <2> HIDE DEF Places
  <2>6. ASSUME NEW n \in 1..Len(routed)
        PROVE  \E p \in Places : /\ n \in Range(p[3])
                                 /\ \A q \in Places \ {p} : n \notin Range(q[3])
    <3>1. PICK k, at : In(k, at, n)
      BY DEF Accounted, NoneLost
    <3>2. PICK p \in Places : p[1] = k /\ p[2] = at
      BY <2>4, <3>1
    <3>3. n \in Range(p[3])
      BY <2>3, <3>1, <3>2
    <3>4. ASSUME NEW q \in Places, n \in Range(q[3]) PROVE q = p
      <4>1. In(q[1], q[2], n)
        BY <2>3, <3>4
      <4>2. q[1] = k /\ q[2] = at
        BY <3>1, <4>1 DEF Accounted, OnePlace
      <4> QED
        BY <2>5, <3>2, <4>2
    <3> QED
      BY <3>3, <3>4
  <2>7. \A p \in Places : IsInjective(p[3])
    BY <2>3
  <2> QED
    BY <2>6, <2>7 DEF PacketsAccounted, Places, handed
<1> QED
  BY <1>1, InitAccounted, NextAccounted, TypeCorrect, PTL DEF Spec
-----------------------------------------------------------------------------
(* The order of the packets that the core sent to the same base station, by *)
(* r, and that take the same way from there.                                *)
InOrder(r, q) ==
    \A i, j \in 1..Len(q) : i < j /\ r[q[i]] = r[q[j]] => q[i] < q[j]
Ahead(r, P, q) ==
    \A m \in P, n \in Range(q) : r[m] = r[n] => m < n

DownAt(b) == {toStack[i].packet : i \in {k \in 1..Len(toStack) : toStack[k].bs = b}}

(* Where the core sent what is in a queue. *)
Routes ==
    /\ \A b \in Bs : /\ \A n \in Range(core[b]) : routed[n] = b
                     /\ \A n \in Range(hoFromIp[b]) : routed[n] = b
                     /\ \A n \in Range(hoFromX2[b]) : routed[n] # b
    /\ \A s, t \in Bs : \A n \in Range(x2Data[s][t]) : routed[n] = s /\ s # t

(* Each queue is in order, and behind everything that went before it. *)
CoreInOrder ==
    \A b \in Bs : /\ InOrder(routed, core[b])
                  /\ Ahead(routed, 1..Len(routed) \ Range(core[b]), core[b])
TunnelsInOrder ==
    \A s, t \in Bs : /\ InOrder(routed, x2Data[s][t])
                     /\ Ahead(routed, Range(hoFromX2[t]) \cup DownAt(t), x2Data[s][t])
BuffersInOrder ==
    \A b \in Bs : /\ InOrder(routed, hoFromX2[b]) /\ InOrder(routed, hoFromIp[b])
                  /\ Ahead(routed, DownAt(b), hoFromX2[b])
                  /\ Ahead(routed, DownAt(b), hoFromIp[b])
(* A base station that does not hold has nothing of the core's left, and    *)
(* none forwards to itself.                                                 *)
HeldAndForwarded == IpHeld /\ \A b \in Bs : hoForwarding[b] # b

PathInv == /\ Routes /\ CoreInOrder /\ TunnelsInOrder /\ BuffersInOrder
           /\ HeldAndForwarded /\ PathKeepsOrder

LEMMA OrderTail ==
    ASSUME NEW r, NEW q \in Seq(Nat), q # <<>>, IsInjective(q), InOrder(r, q),
           NEW P, Ahead(r, P, q)
    PROVE  InOrder(r, Tail(q)) /\ Ahead(r, P \cup {Head(q)}, Tail(q))
<1>1. /\ Len(q) \in Nat \ {0} /\ DOMAIN q = 1..Len(q) /\ Head(q) = q[1]
      /\ Len(Tail(q)) = Len(q) - 1 /\ DOMAIN Tail(q) = 1..Len(q) - 1
      /\ \A i \in 1..Len(q) - 1 : Tail(q)[i] = q[i + 1]
  OBVIOUS
<1>2. InOrder(r, Tail(q))
  BY <1>1 DEF InOrder
<1>3. \A n \in Range(Tail(q)) : n \in Range(q) /\ (r[Head(q)] = r[n] => Head(q) < n)
  <2> SUFFICES ASSUME NEW i \in 1..Len(q) - 1
               PROVE  q[i + 1] \in Range(q) /\ (r[q[1]] = r[q[i + 1]] => q[1] < q[i + 1])
    BY <1>1 DEF Range
  <2>1. i + 1 \in 1..Len(q) /\ 1 \in 1..Len(q) /\ 1 < i + 1
    BY <1>1
  <2> QED
    BY <1>1, <2>1 DEF InOrder, Range
<1> QED
  BY <1>2, <1>3 DEF Ahead

LEMMA OrderAppend ==
    ASSUME NEW r, NEW q \in Seq(Nat), NEW n \in Nat, InOrder(r, q),
           \A m \in Range(q) : r[m] = r[n] => m < n
    PROVE  InOrder(r, Append(q, n))
<1> DEFINE t == Append(q, n)
<1>1. /\ Len(q) \in Nat /\ DOMAIN q = 1..Len(q) /\ Len(t) = Len(q) + 1
      /\ t[Len(q) + 1] = n /\ \A i \in 1..Len(q) : t[i] = q[i]
  OBVIOUS
<1> HIDE DEF t
<1>2. \A i \in 1..Len(q) + 1 : i \in 1..Len(q) \/ i = Len(q) + 1
  BY <1>1
<1>3. \A i \in 1..Len(q) : q[i] \in Range(q)
  BY <1>1 DEF Range
<1>4. InOrder(r, t)
  BY <1>1, <1>2, <1>3 DEF InOrder
<1> QED
  BY <1>4 DEF t

LEMMA OrderConcat ==
    ASSUME NEW r, NEW q \in Seq(Nat), NEW u \in Seq(Nat), InOrder(r, q), InOrder(r, u),
           \A m \in Range(q), n \in Range(u) : r[m] # r[n]
    PROVE  InOrder(r, q \o u)
<1> DEFINE t == q \o u
<1>1. /\ Len(q) \in Nat /\ Len(u) \in Nat /\ DOMAIN q = 1..Len(q) /\ DOMAIN u = 1..Len(u)
      /\ Len(t) = Len(q) + Len(u)
      /\ \A i \in 1..Len(q) : t[i] = q[i]
      /\ \A i \in 1..Len(u) : t[Len(q) + i] = u[i]
  OBVIOUS
<1> HIDE DEF t
<1>2. \A i \in 1..Len(q) + Len(u) :
         \/ i \in 1..Len(q) /\ t[i] = q[i]
         \/ i > Len(q) /\ i - Len(q) \in 1..Len(u) /\ t[i] = u[i - Len(q)]
  <2> SUFFICES ASSUME NEW i \in 1..Len(q) + Len(u), i \notin 1..Len(q)
               PROVE  i > Len(q) /\ i - Len(q) \in 1..Len(u) /\ t[i] = u[i - Len(q)]
    BY <1>1
  <2>1. i > Len(q) /\ i - Len(q) \in 1..Len(u) /\ Len(q) + (i - Len(q)) = i
    BY <1>1
  <2> QED
    BY <1>1, <2>1
<1>3. ASSUME NEW i \in 1..Len(q) + Len(u), NEW j \in 1..Len(q) + Len(u), i < j,
             r[t[i]] = r[t[j]]
      PROVE  t[i] < t[j]
  <2>1. CASE i \in 1..Len(q) /\ j \in 1..Len(q)
    BY <1>1, <1>3, <2>1 DEF InOrder
  <2>2. CASE i \in 1..Len(q) /\ j \notin 1..Len(q)
    <3>1. t[i] = q[i] /\ q[i] \in Range(q)
      BY <1>1, <2>2 DEF Range
    <3>2. j - Len(q) \in 1..Len(u) /\ t[j] = u[j - Len(q)]
      BY <1>2, <2>2
    <3>3. u[j - Len(q)] \in Range(u)
      BY <1>1, <3>2 DEF Range
    <3> QED
      BY <1>3, <3>1, <3>2, <3>3
  <2>3. CASE i \notin 1..Len(q)
    <3>1. j > Len(q)
      BY <1>1, <1>3, <2>3
    <3>2. /\ i - Len(q) \in 1..Len(u) /\ t[i] = u[i - Len(q)]
          /\ j - Len(q) \in 1..Len(u) /\ t[j] = u[j - Len(q)]
      BY <1>1, <1>2, <2>3, <3>1
    <3>3. i - Len(q) < j - Len(q)
      BY <1>1, <1>3
    <3> QED
      BY <1>3, <3>2, <3>3 DEF InOrder
  <2> QED
    BY <2>1, <2>2, <2>3
<1>4. InOrder(r, t)
  BY <1>1, <1>3 DEF InOrder
<1> QED
  BY <1>4 DEF t

(* What is handed down in order stays in order. *)
LEMMA DownInOrder ==
    ASSUME TypeOK, PathKeepsOrder, routed' = routed,
           NEW b \in Bs, NEW packets \in Seq(Nat), NEW at \in Bs,
           ToStackBs(b, packets, at),
           InOrder(routed, packets), Ahead(routed, DownAt(b), packets)
    PROVE  /\ PathKeepsOrder'
           /\ DownAt(b)' = DownAt(b) \cup Range(packets)
           /\ \A a \in Bs : a # b => DownAt(a)' = DownAt(a)
<1> DEFINE old == Len(toStack)
<1>0. /\ old \in Nat /\ Len(packets) \in Nat
      /\ Len(toStack') = old + Len(packets)
      /\ \A i \in 1..old : toStack'[i] = toStack[i]
      /\ \A i \in 1..Len(packets) : toStack'[old + i] = [bs |-> b, packet |-> packets[i]]
      /\ \A i \in 1..Len(toStack') : i \in 1..old \/ i - old \in 1..Len(packets)
      /\ DOMAIN packets = 1..Len(packets)
  <2>1. DOMAIN packets = 1..Len(packets) /\ Len(packets) \in Nat
    OBVIOUS
  <2>2. /\ Len(toStack) \in Nat
        /\ Len(toStack') = Len(toStack) + Len(packets)
        /\ \A i \in 1..Len(toStack) : toStack'[i] = toStack[i]
        /\ \A i \in 1..Len(packets) :
              toStack'[Len(toStack) + i] = [bs |-> b, packet |-> packets[i]]
        /\ \A i \in 1..Len(toStack') :
              i \in 1..Len(toStack) \/ i - Len(toStack) \in 1..Len(packets)
    BY HandedDown
  <2> QED
    BY <2>1, <2>2
<1> HIDE DEF old
<1>1. \A i \in 1..Len(toStack') : i \notin 1..old =>
         /\ i > old /\ i - old \in 1..Len(packets)
         /\ toStack'[i].packet = packets[i - old] /\ toStack'[i].bs = b
  <2> SUFFICES ASSUME NEW i \in 1..Len(toStack'), i \notin 1..old
               PROVE  /\ i > old /\ i - old \in 1..Len(packets)
                      /\ toStack'[i].packet = packets[i - old] /\ toStack'[i].bs = b
    OBVIOUS
  <2>1. i > old /\ i - old \in 1..Len(packets) /\ old + (i - old) = i
    BY <1>0
  <2>2. toStack'[old + (i - old)] = [bs |-> b, packet |-> packets[i - old]]
    BY <1>0, <2>1
  <2> QED
    BY <2>1, <2>2
<1>2. ASSUME NEW i \in 1..Len(toStack'), NEW j \in 1..Len(toStack'), i < j,
             toStack'[i].bs = toStack'[j].bs,
             routed[toStack'[i].packet] = routed[toStack'[j].packet]
      PROVE  toStack'[i].packet < toStack'[j].packet
  <2>1. CASE i \in 1..old /\ j \in 1..old
    BY <1>0, <1>2, <2>1 DEF PathKeepsOrder, old
  <2>2. CASE i \in 1..old /\ j \notin 1..old
    <3>1. /\ j - old \in 1..Len(packets) /\ toStack'[j].packet = packets[j - old]
          /\ toStack'[j].bs = b
      BY <1>1, <2>2
    <3>2. toStack[i].packet \in DownAt(b)
      BY <1>0, <1>2, <2>2, <3>1 DEF DownAt, old
    <3>3. packets[j - old] \in Range(packets)
      BY <1>0, <3>1 DEF Range
    <3> QED
      BY <1>0, <1>2, <2>2, <3>1, <3>2, <3>3 DEF Ahead
  <2>3. CASE i \notin 1..old
    <3>1. j \notin 1..old
      BY <1>0, <1>1, <1>2, <2>3
    <3>2. /\ i - old \in 1..Len(packets) /\ toStack'[i].packet = packets[i - old]
          /\ j - old \in 1..Len(packets) /\ toStack'[j].packet = packets[j - old]
      BY <1>1, <2>3, <3>1
    <3>3. i - old < j - old
      BY <1>0, <1>2
    <3> QED
      BY <1>2, <3>2, <3>3 DEF InOrder
  <2> QED
    BY <2>1, <2>2, <2>3
<1>3. \A i \in 1..old : i \in 1..Len(toStack')
  BY <1>0
<1>4. DownAt(b)' = DownAt(b) \cup Range(packets)
  <2>1. ASSUME NEW n \in DownAt(b)' PROVE n \in DownAt(b) \cup Range(packets)
    <3>1. PICK i \in 1..Len(toStack') : toStack'[i].bs = b /\ toStack'[i].packet = n
      BY DEF DownAt
    <3> QED
      BY <1>0, <1>1, <3>1 DEF DownAt, Range, old
  <2>2. ASSUME NEW n \in DownAt(b) PROVE n \in DownAt(b)'
    <3>1. PICK i \in 1..old : toStack[i].bs = b /\ toStack[i].packet = n
      BY DEF DownAt, old
    <3> QED
      BY <1>0, <1>3, <3>1 DEF DownAt
  <2>3. ASSUME NEW n \in Range(packets) PROVE n \in DownAt(b)'
    <3>1. PICK i \in 1..Len(packets) : packets[i] = n
      BY <1>0 DEF Range
    <3>2. old + i \in 1..Len(toStack')
      BY <1>0
    <3>3. toStack'[old + i] = [bs |-> b, packet |-> packets[i]]
      BY <1>0
    <3> DEFINE k == old + i
    <3>4. k \in 1..Len(toStack') /\ toStack'[k].bs = b /\ toStack'[k].packet = n
      BY <3>1, <3>2, <3>3
    <3> HIDE DEF k
    <3> QED
      BY <3>4 DEF DownAt
  <2> QED
    BY <2>1, <2>2, <2>3
<1>5. ASSUME NEW a \in Bs, a # b PROVE DownAt(a)' = DownAt(a)
  <2>1. ASSUME NEW n \in DownAt(a)' PROVE n \in DownAt(a)
    <3>1. PICK i \in 1..Len(toStack') : toStack'[i].bs = a /\ toStack'[i].packet = n
      BY DEF DownAt
    <3>2. i \in 1..old
      BY <1>1, <1>5, <3>1
    <3> QED
      BY <1>0, <3>1, <3>2 DEF DownAt, old
  <2>2. ASSUME NEW n \in DownAt(a) PROVE n \in DownAt(a)'
    <3>1. PICK i \in 1..old : toStack[i].bs = a /\ toStack[i].packet = n
      BY DEF DownAt, old
    <3> QED
      BY <1>0, <1>3, <3>1 DEF DownAt
  <2> QED
    BY <2>1, <2>2
<1>6. PathKeepsOrder'
  BY <1>2 DEF PathKeepsOrder
<1> QED
  BY <1>4, <1>5, <1>6

LEMMA InitPath == Init => PathInv
<1> SUFFICES ASSUME Init PROVE PathInv
  OBVIOUS
<1>1. /\ routed = <<>> /\ toStack = <<>> /\ Range(<<>>) = {}
      /\ \A b \in Bs : /\ core[b] = <<>> /\ hoFromX2[b] = <<>> /\ hoFromIp[b] = <<>>
                       /\ hoForwarding[b] = NoBs
      /\ \A s, t \in Bs : x2Data[s][t] = <<>>
  BY DEF Init, Range
<1>2. \A r : InOrder(r, <<>>) /\ \A P : Ahead(r, P, <<>>)
  BY <1>1 DEF InOrder, Ahead
<1>3. PathKeepsOrder
  BY <1>1 DEF PathKeepsOrder
<1> QED
  BY <1>1, <1>2, <1>3, BsAssumption
     DEF PathInv, Routes, CoreInOrder, TunnelsInOrder, BuffersInOrder,
         HeldAndForwarded, IpHeld

(* What is handed down has been sent and has left the core. *)
LEMMA DownHasLeft ==
    ASSUME TypeOK, Accounted
    PROVE  \A a \in Bs : \A m \in DownAt(a) : In("down", NoBs, m) /\ m \in 1..Len(routed)
<1>1. \A a \in Bs : \A m \in DownAt(a) : In("down", NoBs, m)
  BY DEF DownAt, In, Down
<1> QED
  BY <1>1 DEF Accounted, Sent

(* A new packet is the last of its path; where the others went is known.    *)
LEMMA OrderSent ==
    ASSUME NEW r, NEW w, NEW S, NEW q, Range(q) \subseteq S, \A n \in S : w[n] = r[n],
           Len(q) \in Nat, DOMAIN q = 1..Len(q)
    PROVE  /\ InOrder(r, q) => InOrder(w, q)
           /\ \A P \in SUBSET S : Ahead(r, P, q) => Ahead(w, P, q)
<1>1. \A i \in 1..Len(q) : q[i] \in S
  BY DEF Range
<1> QED
  BY <1>1 DEF InOrder, Ahead

LEMMA CoreSendsPath ==
    ASSUME TypeOK, Accounted, PathInv, CoreSends
    PROVE  PathInv'
<1> DEFINE n == Len(routed) + 1
           Old == 1..Len(routed)
<1>1. /\ Len(routed) \in Nat /\ n \in Nat /\ Len(routed') = n /\ routed'[n] = serving
      /\ \A m \in Old : routed'[m] = routed[m]
      /\ Old \subseteq Nat /\ \A m \in Old : m < n
      /\ 1..Len(routed') = Old \cup {n} /\ n \notin Old
  <2>1. routed \in Seq(Bs \cup {NoBs}) /\ routed' = Append(routed, serving)
    BY DEF TypeOK, CoreSends
  <2>2. Len(routed) \in Nat /\ n \in Nat /\ Len(routed') = n /\ routed'[n] = serving
        /\ \A m \in Old : routed'[m] = routed[m]
    BY <2>1
  <2> QED
    BY <2>2
<1>2. UNCHANGED <<x2Data, hoFromX2, hoFromIp, toStack, hoForwarding, hoHolding>>
  BY DEF CoreSends, bufferVars
<1> HIDE DEF n
<1>3. /\ \A b \in Bs : /\ Range(core[b]) \subseteq Old /\ Range(hoFromX2[b]) \subseteq Old
                       /\ Range(hoFromIp[b]) \subseteq Old /\ DownAt(b) \subseteq Old
      /\ \A s, t \in Bs : Range(x2Data[s][t]) \subseteq Old
  <2>1. \A b \in Bs : \A m :
            /\ m \in Range(core[b]) => In("core", b, m)
            /\ m \in Range(hoFromX2[b]) => In("fromX2", b, m)
            /\ m \in Range(hoFromIp[b]) => In("fromIp", b, m)
    BY DEF In
  <2>2. \A s, t \in Bs : \A m : m \in Range(x2Data[s][t]) => In("x2", <<s, t>>, m)
    BY DEF In
  <2> QED
    BY <2>1, <2>2, DownHasLeft DEF Accounted, Sent
<1> HIDE DEF Old
<1>4. ASSUME NEW q \in Seq(Nat), Range(q) \subseteq Old
      PROVE  /\ InOrder(routed, q) => InOrder(routed', q)
             /\ \A P \in SUBSET Old : Ahead(routed, P, q) => Ahead(routed', P, q)
  <2>1. Len(q) \in Nat /\ DOMAIN q = 1..Len(q)
    OBVIOUS
  <2> QED
    BY <1>1, <1>4, <2>1, OrderSent
<1>5. \A b \in Bs : \/ core'[b] = core[b] /\ serving # b
                    \/ core'[b] = Append(core[b], n) /\ serving = b
  <2>1. CASE serving = NoBs
    <3>1. core' = core
      BY <2>1 DEF CoreSends
    <3> QED
      BY <2>1, <3>1, BsAssumption
  <2>2. CASE serving # NoBs
    <3>1. core' = [core EXCEPT ![serving] = Append(core[serving], n)]
      BY <2>2 DEF CoreSends, n
    <3> QED
      BY <3>1 DEF TypeOK
  <2> QED
    BY <2>1, <2>2
<1>6. \A b \in Bs : DownAt(b)' = DownAt(b)
  BY <1>2 DEF DownAt
<1>7. Routes'
  <2>1. ASSUME NEW b \in Bs PROVE \A m \in Range(core'[b]) : routed'[m] = b
    <3>1. CASE core'[b] = core[b]
      BY <1>1, <1>3, <3>1 DEF PathInv, Routes
    <3>2. CASE core'[b] = Append(core[b], n) /\ serving = b
      <4>1. Range(core'[b]) = Range(core[b]) \cup {n}
        <5>1. n \notin Range(core[b]) /\ core[b] \in Seq(Nat) /\ IsInjective(core[b])
          BY <1>1, <1>3, AllTypes DEF Accounted, NoneTwice
        <5> QED
          BY <1>1, <3>2, <5>1, QueueAppend
      <4> QED
        BY <1>1, <1>3, <3>2, <4>1 DEF PathInv, Routes
    <3> QED
      BY <1>5, <3>1, <3>2
  <2>2. \A b \in Bs : /\ \A m \in Range(hoFromIp[b]) : routed'[m] = b
                      /\ \A m \in Range(hoFromX2[b]) : routed'[m] # b
    BY <1>1, <1>3 DEF PathInv, Routes
  <2>3. \A s, t \in Bs : \A m \in Range(x2Data[s][t]) : routed'[m] = s /\ s # t
    BY <1>1, <1>3 DEF PathInv, Routes
  <2> QED
    BY <1>2, <2>1, <2>2, <2>3 DEF Routes
<1>8. CoreInOrder'
  <2> SUFFICES ASSUME NEW b \in Bs
               PROVE  /\ InOrder(routed', core'[b])
                      /\ Ahead(routed', 1..Len(routed') \ Range(core'[b]), core'[b])
    BY DEF CoreInOrder
  <2>1. /\ core[b] \in Seq(Nat) /\ IsInjective(core[b]) /\ n \notin Range(core[b])
        /\ InOrder(routed', core[b])
        /\ Ahead(routed', Old \ Range(core[b]), core[b])
    <3>1. core[b] \in Seq(Nat) /\ IsInjective(core[b]) /\ n \notin Range(core[b])
      BY <1>1, <1>3, AllTypes DEF Accounted, NoneTwice
    <3>2. InOrder(routed, core[b]) /\ Ahead(routed, Old \ Range(core[b]), core[b])
      BY DEF PathInv, CoreInOrder, Old
    <3>3. Old \ Range(core[b]) \in SUBSET Old
      OBVIOUS
    <3> QED
      BY <1>3, <1>4, <3>1, <3>2, <3>3
  <2>2. CASE core'[b] = core[b] /\ serving # b
    <3>1. \A m \in Range(core[b]) : routed'[m] = b
      BY <1>1, <1>3 DEF PathInv, Routes
    <3> QED
      BY <1>1, <2>1, <2>2, <3>1 DEF Ahead
  <2>3. CASE core'[b] = Append(core[b], n) /\ serving = b
    <3>1. Range(core'[b]) = Range(core[b]) \cup {n}
      BY <1>1, <2>1, <2>3, QueueAppend
    <3>2. InOrder(routed', core'[b])
      <4>1. \A m \in Range(core[b]) : m < n
        BY <1>1, <1>3
      <4> QED
        BY <1>1, <2>1, <2>3, <4>1, OrderAppend
    <3> QED
      BY <1>1, <2>1, <3>1, <3>2 DEF Ahead
  <2> QED
    BY <1>5, <2>2, <2>3
<1>9. TunnelsInOrder'
  <2> SUFFICES ASSUME NEW s \in Bs, NEW t \in Bs
               PROVE  /\ InOrder(routed', x2Data[s][t])
                      /\ Ahead(routed', Range(hoFromX2[t]) \cup DownAt(t), x2Data[s][t])
    BY <1>2, <1>6 DEF TunnelsInOrder
  <2>1. Range(hoFromX2[t]) \cup DownAt(t) \in SUBSET Old /\ x2Data[s][t] \in Seq(Nat)
    BY <1>3, AllTypes
  <2>2. /\ InOrder(routed, x2Data[s][t])
        /\ Ahead(routed, Range(hoFromX2[t]) \cup DownAt(t), x2Data[s][t])
    BY DEF PathInv, TunnelsInOrder
  <2> QED
    BY <1>3, <1>4, <2>1, <2>2
<1>10. BuffersInOrder'
  <2> SUFFICES ASSUME NEW b \in Bs
               PROVE  /\ InOrder(routed', hoFromX2[b]) /\ InOrder(routed', hoFromIp[b])
                      /\ Ahead(routed', DownAt(b), hoFromX2[b])
                      /\ Ahead(routed', DownAt(b), hoFromIp[b])
    BY <1>2, <1>6 DEF BuffersInOrder
  <2>1. /\ InOrder(routed, hoFromX2[b]) /\ InOrder(routed, hoFromIp[b])
        /\ Ahead(routed, DownAt(b), hoFromX2[b])
        /\ Ahead(routed, DownAt(b), hoFromIp[b])
    BY DEF PathInv, BuffersInOrder
  <2>2. DownAt(b) \in SUBSET Old /\ hoFromX2[b] \in Seq(Nat) /\ hoFromIp[b] \in Seq(Nat)
    BY <1>3, AllTypes
  <2> QED
    BY <1>3, <1>4, <2>1, <2>2
<1>11. HeldAndForwarded'
  BY <1>2 DEF PathInv, HeldAndForwarded, IpHeld
<1>12. PathKeepsOrder'
  <2>1. \A i \in 1..Len(toStack) : toStack[i].packet \in Old
    <3>1. \A i \in 1..Len(toStack) : toStack[i].bs \in Bs
      <4> DEFINE R == [bs : Bs, packet : Nat]
      <4>1. toStack \in Seq(R)
        BY DEF TypeOK
      <4>2. \A r \in R : r.bs \in Bs
        OBVIOUS
      <4> HIDE DEF R
      <4>3. \A i \in 1..Len(toStack) : toStack[i] \in R
        BY <4>1
      <4> QED
        BY <4>2, <4>3
    <3> QED
      BY <1>3, <3>1 DEF DownAt
  <2> QED
    BY <1>1, <1>2, <2>1 DEF PathInv, PathKeepsOrder
<1> QED
  BY <1>7, <1>8, <1>9, <1>10, <1>11, <1>12 DEF PathInv

LEMMA FromIpPath ==
    ASSUME TypeOK, Accounted, PathInv, NEW b \in Bs, FromIpBs(b)
    PROVE  PathInv'
<1> DEFINE n == Head(core[b])
           t == hoForwarding[b]
<1>1. /\ UNCHANGED <<hoFromX2, routed, hoForwarding, hoHolding>>
      /\ core[b] \in Seq(Nat) /\ core[b] # <<>> /\ IsInjective(core[b])
  BY AllTypes DEF FromIpBs, Accounted, NoneTwice
<1>2. /\ core'[b] = Tail(core[b])
      /\ \A a \in Bs : a # b => core'[a] = core[a]
  BY DEF FromIpBs, TypeOK
<1>3. /\ Range(core'[b]) = Range(core[b]) \ {n} /\ n \in Range(core[b]) /\ n \in Nat
  BY <1>1, <1>2, QueueTail
<1>4. t \in Bs \cup {NoBs} /\ serving \in Bs \cup {NoBs} /\ t # b /\ routed[n] = b
  BY <1>3 DEF TypeOK, PathInv, HeldAndForwarded, Routes
<1>5. \/ /\ t # NoBs
         /\ x2Data' = [x2Data EXCEPT ![b][t] = Append(@, n)]
         /\ UNCHANGED <<hoFromIp, outVars>>
      \/ /\ b \in hoHolding
         /\ hoFromIp' = [hoFromIp EXCEPT ![b] = Append(@, n)]
         /\ UNCHANGED <<x2Data, outVars>>
      \/ /\ b \notin hoHolding /\ ToStackBs(b, <<n>>, serving)
         /\ UNCHANGED <<x2Data, hoFromIp>>
  BY DEF FromIpBs
(* What has left the core before is older. *)
<1>6. \A p, at, m : In(p, at, m) /\ p # "core" /\ routed[m] = b => m < n
  <2> SUFFICES ASSUME NEW p, NEW at, NEW m, In(p, at, m), p # "core", routed[m] = b
               PROVE  m < n
    OBVIOUS
  <2>1. m \notin Range(core[b])
    <3>1. ~In("core", b, m)
      BY DEF Accounted, OnePlace
    <3> QED
      BY <3>1 DEF In
  <2>2. m \in 1..Len(routed)
    BY DEF Accounted, Sent
  <2>3. Ahead(routed, 1..Len(routed) \ Range(core[b]), core[b])
    BY DEF PathInv, CoreInOrder
  <2> QED
    BY <1>3, <1>4, <2>1, <2>2, <2>3 DEF Ahead
<1> HIDE DEF n, t
<1>7. /\ \A m \in DownAt(b) : routed[m] = b => m < n
      /\ \A m \in Range(hoFromIp[b]) : m < n
      /\ \A c \in Bs : \A m \in Range(x2Data[b][c]) : m < n
  <2>1. \A m \in DownAt(b) : routed[m] = b => m < n
    BY <1>6, DownHasLeft
  <2>2. \A m \in Range(hoFromIp[b]) : In("fromIp", b, m) /\ routed[m] = b
    BY DEF In, PathInv, Routes
  <2>3. \A c \in Bs : \A m \in Range(x2Data[b][c]) :
           In("x2", <<b, c>>, m) /\ routed[m] = b
    BY DEF In, PathInv, Routes
  <2> QED
    BY <1>6, <2>1, <2>2, <2>3
<1>8. CoreInOrder'
  <2> SUFFICES ASSUME NEW a \in Bs
               PROVE  /\ InOrder(routed, core'[a])
                      /\ Ahead(routed, 1..Len(routed) \ Range(core'[a]), core'[a])
    BY <1>1 DEF CoreInOrder
  <2>1. /\ InOrder(routed, core[a])
        /\ Ahead(routed, 1..Len(routed) \ Range(core[a]), core[a])
    BY DEF PathInv, CoreInOrder
  <2>2. CASE a # b
    BY <1>2, <2>1, <2>2
  <2>3. CASE a = b
    <3>1. /\ InOrder(routed, core'[b])
          /\ Ahead(routed, (1..Len(routed) \ Range(core[b])) \cup {n}, core'[b])
      BY <1>1, <1>2, <2>1, <2>3, OrderTail DEF n
    <3> QED
      BY <1>3, <2>3, <3>1 DEF Ahead
  <2> QED
    BY <2>2, <2>3
<1>9. \A a \in Bs : \A m \in Range(core'[a]) : routed[m] = a
  BY <1>2, <1>3 DEF PathInv, Routes
<1>10. CASE /\ t # NoBs
            /\ x2Data' = [x2Data EXCEPT ![b][t] = Append(@, n)]
            /\ UNCHANGED <<hoFromIp, outVars>>
  <2>1. t \in Bs /\ UNCHANGED <<toStack, hoFromIp, hoFromX2>>
    BY <1>1, <1>4, <1>10 DEF outVars
  <2>2. /\ x2Data'[b][t] = Append(x2Data[b][t], n)
        /\ \A a, c \in Bs : ~(a = b /\ c = t) => x2Data'[a][c] = x2Data[a][c]
    BY <1>10, <2>1 DEF TypeOK
  <2>3. x2Data[b][t] \in Seq(Nat) /\ IsInjective(x2Data[b][t])
    BY <2>1, AllTypes DEF Accounted, NoneTwice
  <2>4. Range(x2Data'[b][t]) = Range(x2Data[b][t]) \cup {n}
    <3>1. n \notin Range(x2Data[b][t])
      BY <1>3, <1>7, <2>1
    <3> QED
      BY <1>3, <2>2, <2>3, <3>1, QueueAppend
  <2>5. \A c \in Bs : DownAt(c)' = DownAt(c)
    BY <2>1 DEF DownAt
  <2>6. Routes'
    <3>1. ASSUME NEW a \in Bs, NEW c \in Bs
          PROVE  \A m \in Range(x2Data'[a][c]) : routed[m] = a /\ a # c
      <4>1. \A m \in Range(x2Data[a][c]) : routed[m] = a /\ a # c
        BY DEF PathInv, Routes
      <4>2. CASE a = b /\ c = t
        BY <1>4, <2>4, <4>1, <4>2
      <4>3. CASE ~(a = b /\ c = t)
        BY <2>2, <4>1, <4>3
      <4> QED
        BY <4>2, <4>3
    <3>2. \A a \in Bs : /\ \A m \in Range(hoFromIp[a]) : routed[m] = a
                        /\ \A m \in Range(hoFromX2[a]) : routed[m] # a
      BY DEF PathInv, Routes
    <3> QED
      BY <1>1, <1>9, <2>1, <3>1, <3>2 DEF Routes
  <2>7. TunnelsInOrder'
    <3> SUFFICES ASSUME NEW a \in Bs, NEW c \in Bs
                 PROVE  /\ InOrder(routed, x2Data'[a][c])
                        /\ Ahead(routed, Range(hoFromX2[c]) \cup DownAt(c), x2Data'[a][c])
      BY <1>1, <2>1, <2>5 DEF TunnelsInOrder
    <3>1. /\ InOrder(routed, x2Data[a][c])
          /\ Ahead(routed, Range(hoFromX2[c]) \cup DownAt(c), x2Data[a][c])
      BY DEF PathInv, TunnelsInOrder
    <3>2. CASE ~(a = b /\ c = t)
      BY <2>2, <3>1, <3>2
    <3>3. CASE a = b /\ c = t
      <4>1. InOrder(routed, x2Data'[b][t])
        BY <1>3, <1>7, <2>1, <2>2, <2>3, <3>1, <3>3, OrderAppend
      <4>2. \A m \in Range(hoFromX2[t]) \cup DownAt(t) : routed[m] = b => m < n
        <5>1. \A m \in Range(hoFromX2[t]) : In("fromX2", t, m)
          BY <2>1 DEF In
        <5>2. \A m \in DownAt(t) : In("down", NoBs, m)
          BY <2>1, DownHasLeft
        <5> QED
          BY <1>6, <5>1, <5>2
      <4>3. Ahead(routed, Range(hoFromX2[t]) \cup DownAt(t), x2Data'[b][t])
        BY <1>4, <2>4, <3>1, <3>3, <4>2 DEF Ahead
      <4> QED
        BY <3>3, <4>1, <4>3
    <3> QED
      BY <3>2, <3>3
  <2>8. BuffersInOrder'
    BY <1>1, <2>1, <2>5 DEF PathInv, BuffersInOrder
  <2>9. HeldAndForwarded' /\ PathKeepsOrder'
    BY <1>1, <2>1 DEF PathInv, HeldAndForwarded, IpHeld, PathKeepsOrder
  <2> QED
    BY <1>8, <2>6, <2>7, <2>8, <2>9 DEF PathInv
<1>11. CASE /\ b \in hoHolding
            /\ hoFromIp' = [hoFromIp EXCEPT ![b] = Append(@, n)]
            /\ UNCHANGED <<x2Data, outVars>>
  <2>1. UNCHANGED <<toStack, x2Data, hoFromX2>>
    BY <1>1, <1>11 DEF outVars
  <2>2. /\ hoFromIp'[b] = Append(hoFromIp[b], n)
        /\ \A a \in Bs : a # b => hoFromIp'[a] = hoFromIp[a]
    BY <1>11 DEF TypeOK
  <2>3. hoFromIp[b] \in Seq(Nat) /\ IsInjective(hoFromIp[b])
    BY AllTypes DEF Accounted, NoneTwice
  <2>4. Range(hoFromIp'[b]) = Range(hoFromIp[b]) \cup {n}
    <3>1. n \notin Range(hoFromIp[b])
      BY <1>3, <1>7
    <3> QED
      BY <1>3, <2>2, <2>3, <3>1, QueueAppend
  <2>5. \A c \in Bs : DownAt(c)' = DownAt(c)
    BY <2>1 DEF DownAt
  <2>6. Routes'
    <3>1. \A a \in Bs : /\ \A m \in Range(hoFromIp'[a]) : routed[m] = a
                        /\ \A m \in Range(hoFromX2[a]) : routed[m] # a
      BY <1>4, <2>2, <2>4 DEF PathInv, Routes
    <3>2. \A a, c \in Bs : \A m \in Range(x2Data[a][c]) : routed[m] = a /\ a # c
      BY DEF PathInv, Routes
    <3> QED
      BY <1>1, <1>9, <2>1, <3>1, <3>2 DEF Routes
  <2>7. TunnelsInOrder'
    BY <1>1, <2>1, <2>5 DEF PathInv, TunnelsInOrder
  <2>8. BuffersInOrder'
    <3> SUFFICES ASSUME NEW a \in Bs
                 PROVE  /\ InOrder(routed, hoFromX2[a]) /\ InOrder(routed, hoFromIp'[a])
                        /\ Ahead(routed, DownAt(a), hoFromX2[a])
                        /\ Ahead(routed, DownAt(a), hoFromIp'[a])
      BY <1>1, <2>1, <2>5 DEF BuffersInOrder
    <3>1. /\ InOrder(routed, hoFromX2[a]) /\ InOrder(routed, hoFromIp[a])
          /\ Ahead(routed, DownAt(a), hoFromX2[a])
          /\ Ahead(routed, DownAt(a), hoFromIp[a])
      BY DEF PathInv, BuffersInOrder
    <3>2. CASE a # b
      BY <2>2, <3>1, <3>2
    <3>3. CASE a = b
      <4>1. InOrder(routed, hoFromIp'[b])
        BY <1>3, <1>7, <2>2, <2>3, <3>1, <3>3, OrderAppend
      <4>2. Ahead(routed, DownAt(b), hoFromIp'[b])
        BY <1>4, <1>7, <2>4, <3>1, <3>3 DEF Ahead
      <4> QED
        BY <3>1, <3>3, <4>1, <4>2
    <3> QED
      BY <3>2, <3>3
  <2>9. HeldAndForwarded' /\ PathKeepsOrder'
    BY <1>1, <1>11, <2>1, <2>2 DEF PathInv, HeldAndForwarded, IpHeld, PathKeepsOrder
  <2> QED
    BY <1>8, <2>6, <2>7, <2>8, <2>9 DEF PathInv
<1>12. CASE /\ b \notin hoHolding /\ ToStackBs(b, <<n>>, serving)
            /\ UNCHANGED <<x2Data, hoFromIp>>
  <2>1. Routes'
    <3>1. \A a \in Bs : /\ \A m \in Range(hoFromIp[a]) : routed[m] = a
                        /\ \A m \in Range(hoFromX2[a]) : routed[m] # a
      BY DEF PathInv, Routes
    <3>2. \A a, c \in Bs : \A m \in Range(x2Data[a][c]) : routed[m] = a /\ a # c
      BY DEF PathInv, Routes
    <3> QED
      BY <1>1, <1>9, <1>12, <3>1, <3>2 DEF Routes
  <2>2. HeldAndForwarded'
    BY <1>1, <1>12 DEF PathInv, HeldAndForwarded, IpHeld
  <2>3. CASE serving = NoBs
    <3>1. toStack' = toStack
      BY <1>12, <2>3 DEF ToStackBs
    <3>2. \A c \in Bs : DownAt(c)' = DownAt(c)
      BY <3>1 DEF DownAt
    <3>3. TunnelsInOrder' /\ BuffersInOrder' /\ PathKeepsOrder'
      BY <1>1, <1>12, <3>1, <3>2
         DEF PathInv, TunnelsInOrder, BuffersInOrder, PathKeepsOrder
    <3> QED
      BY <1>8, <2>1, <2>2, <3>3 DEF PathInv
  <2>4. CASE serving # NoBs
    <3>1. <<n>> \in Seq(Nat) /\ Range(<<n>>) = {n} /\ Len(<<n>>) = 1
      BY <1>3 DEF Range
    <3>2. InOrder(routed, <<n>>) /\ Ahead(routed, DownAt(b), <<n>>)
      BY <1>4, <1>7, <3>1 DEF InOrder, Ahead
    <3>3. /\ PathKeepsOrder' /\ DownAt(b)' = DownAt(b) \cup {n}
          /\ \A a \in Bs : a # b => DownAt(a)' = DownAt(a)
      <4>1. serving \in Bs
        BY <1>4, <2>4
      <4>2. /\ PathKeepsOrder' /\ DownAt(b)' = DownAt(b) \cup Range(<<n>>)
            /\ \A a \in Bs : a # b => DownAt(a)' = DownAt(a)
        BY <1>1, <1>12, <3>1, <3>2, <4>1, DownInOrder DEF PathInv
      <4> QED
        BY <3>1, <4>2
    <3>4. TunnelsInOrder'
      <4>1. ASSUME NEW a \in Bs, NEW c \in Bs
            PROVE  /\ InOrder(routed, x2Data[a][c])
                   /\ Ahead(routed, Range(hoFromX2[c]) \cup DownAt(c)', x2Data[a][c])
        <5>1. /\ InOrder(routed, x2Data[a][c])
              /\ Ahead(routed, Range(hoFromX2[c]) \cup DownAt(c), x2Data[a][c])
          BY DEF PathInv, TunnelsInOrder
        <5>2. CASE c # b
          BY <3>3, <5>1, <5>2
        <5>3. CASE c = b
          <6>1. \A m \in Range(x2Data[a][c]) : routed[m] # routed[n]
            BY <1>4, <5>3 DEF PathInv, Routes
          <6> QED
            BY <3>3, <5>1, <5>3, <6>1 DEF Ahead
        <5> QED
          BY <5>2, <5>3
      <4> QED
        BY <1>1, <1>12, <4>1 DEF TunnelsInOrder
    <3>5. BuffersInOrder'
      <4>1. ASSUME NEW a \in Bs
            PROVE  /\ InOrder(routed, hoFromX2[a]) /\ InOrder(routed, hoFromIp[a])
                   /\ Ahead(routed, DownAt(a)', hoFromX2[a])
                   /\ Ahead(routed, DownAt(a)', hoFromIp[a])
        <5>1. /\ InOrder(routed, hoFromX2[a]) /\ InOrder(routed, hoFromIp[a])
              /\ Ahead(routed, DownAt(a), hoFromX2[a])
              /\ Ahead(routed, DownAt(a), hoFromIp[a])
          BY DEF PathInv, BuffersInOrder
        <5>2. CASE a # b
          BY <3>3, <5>1, <5>2
        <5>3. CASE a = b
          <6>1. \A m \in Range(hoFromX2[b]) : routed[m] # routed[n]
            BY <1>4 DEF PathInv, Routes
          <6>2. Range(hoFromIp[b]) = {}
            <7>1. hoFromIp[b] = <<>>
              BY <1>12 DEF PathInv, HeldAndForwarded, IpHeld
            <7> QED
              BY <7>1 DEF Range
          <6> QED
            BY <3>3, <5>1, <5>3, <6>1, <6>2 DEF Ahead
        <5> QED
          BY <5>2, <5>3
      <4> QED
        BY <1>1, <1>12, <4>1 DEF BuffersInOrder
    <3> QED
      BY <1>8, <2>1, <2>2, <3>3, <3>4, <3>5 DEF PathInv
  <2> QED
    BY <2>3, <2>4
<1> QED
  BY <1>5, <1>10, <1>11, <1>12

LEMMA TunneledPath ==
    ASSUME TypeOK, Accounted, PathInv, NEW s \in Bs, NEW t \in Bs,
           ReceiveTunneledPacketOnHandover(s, t)
    PROVE  PathInv'
<1> DEFINE q == x2Data[s][t]
           n == Head(q)
<1>1. /\ UNCHANGED <<core, hoFromIp, toStack, routed, hoForwarding, hoHolding>>
      /\ q \in Seq(Nat) /\ q # <<>> /\ IsInjective(q)
  BY AllTypes DEF ReceiveTunneledPacketOnHandover, outVars, Accounted, NoneTwice
<1>2. /\ x2Data'[s][t] = Tail(q)
      /\ \A a, b \in Bs : ~(a = s /\ b = t) => x2Data'[a][b] = x2Data[a][b]
      /\ hoFromX2'[t] = Append(hoFromX2[t], n)
      /\ \A b \in Bs : b # t => hoFromX2'[b] = hoFromX2[b]
  BY DEF ReceiveTunneledPacketOnHandover, TypeOK
<1>3. /\ Range(Tail(q)) = Range(q) \ {n} /\ n \in Range(q) /\ n \in Nat
  BY <1>1, QueueTail
<1>4. /\ routed[n] = s /\ s # t
      /\ \A m \in Range(hoFromX2[t]) \cup DownAt(t) : routed[m] = s => m < n
      /\ InOrder(routed, q) /\ Ahead(routed, Range(hoFromX2[t]) \cup DownAt(t), q)
  BY <1>3 DEF PathInv, Routes, TunnelsInOrder, Ahead
<1>5. /\ InOrder(routed, Tail(q))
      /\ Ahead(routed, (Range(hoFromX2[t]) \cup DownAt(t)) \cup {n}, Tail(q))
  BY <1>1, <1>4, OrderTail
<1>6. Range(hoFromX2'[t]) = Range(hoFromX2[t]) \cup {n}
  <2>1. /\ hoFromX2[t] \in Seq(Nat) /\ IsInjective(hoFromX2[t])
        /\ n \notin Range(hoFromX2[t])
    BY <1>3, <1>4, AllTypes DEF Accounted, NoneTwice
  <2> QED
    BY <1>2, <1>3, <2>1, QueueAppend
<1>7. \A c \in Bs : DownAt(c)' = DownAt(c)
  BY <1>1 DEF DownAt
<1> HIDE DEF n
<1>8. Routes'
  <2>1. \A b \in Bs : \A m \in Range(hoFromX2'[b]) : routed[m] # b
    BY <1>2, <1>4, <1>6 DEF PathInv, Routes
  <2>2. \A a, b \in Bs : \A m \in Range(x2Data'[a][b]) : routed[m] = a /\ a # b
    BY <1>2, <1>3, <1>4 DEF PathInv, Routes
  <2>3. \A b \in Bs : /\ \A m \in Range(core[b]) : routed[m] = b
                      /\ \A m \in Range(hoFromIp[b]) : routed[m] = b
    BY DEF PathInv, Routes
  <2> QED
    BY <1>1, <2>1, <2>2, <2>3 DEF Routes
<1>9. CoreInOrder' /\ HeldAndForwarded' /\ PathKeepsOrder'
  BY <1>1 DEF PathInv, CoreInOrder, HeldAndForwarded, IpHeld, PathKeepsOrder
<1>10. TunnelsInOrder'
  <2> SUFFICES ASSUME NEW a \in Bs, NEW b \in Bs
               PROVE  /\ InOrder(routed, x2Data'[a][b])
                      /\ Ahead(routed, Range(hoFromX2'[b]) \cup DownAt(b), x2Data'[a][b])
    BY <1>1, <1>7 DEF TunnelsInOrder
  <2>1. /\ InOrder(routed, x2Data[a][b])
        /\ Ahead(routed, Range(hoFromX2[b]) \cup DownAt(b), x2Data[a][b])
    BY DEF PathInv, TunnelsInOrder
  <2>2. CASE b # t
    BY <1>2, <2>1, <2>2
  <2>3. CASE b = t /\ a = s
    BY <1>2, <1>5, <1>6, <2>3 DEF Ahead
  <2>4. CASE b = t /\ a # s
    <3>1. x2Data'[a][b] = x2Data[a][b]
      BY <1>2, <2>4
    <3>2. \A m \in Range(x2Data[a][b]) : routed[m] # routed[n]
      BY <1>4, <2>4 DEF PathInv, Routes
    <3> QED
      BY <1>6, <2>1, <2>4, <3>1, <3>2 DEF Ahead
  <2> QED
    BY <2>2, <2>3, <2>4
<1>11. BuffersInOrder'
  <2> SUFFICES ASSUME NEW b \in Bs
               PROVE  /\ InOrder(routed, hoFromX2'[b]) /\ InOrder(routed, hoFromIp[b])
                      /\ Ahead(routed, DownAt(b), hoFromX2'[b])
                      /\ Ahead(routed, DownAt(b), hoFromIp[b])
    BY <1>1, <1>7 DEF BuffersInOrder
  <2>1. /\ InOrder(routed, hoFromX2[b]) /\ InOrder(routed, hoFromIp[b])
        /\ Ahead(routed, DownAt(b), hoFromX2[b])
        /\ Ahead(routed, DownAt(b), hoFromIp[b])
    BY DEF PathInv, BuffersInOrder
  <2>2. CASE b # t
    BY <1>2, <2>1, <2>2
  <2>3. CASE b = t
    <3>1. InOrder(routed, hoFromX2'[t])
      <4>1. hoFromX2[t] \in Seq(Nat)
        BY AllTypes
      <4> QED
        BY <1>2, <1>3, <1>4, <2>1, <2>3, <4>1, OrderAppend
    <3>2. Ahead(routed, DownAt(t), hoFromX2'[t])
      BY <1>4, <1>6, <2>1, <2>3 DEF Ahead
    <3> QED
      BY <2>1, <2>3, <3>1, <3>2
  <2> QED
    BY <2>2, <2>3
<1> QED
  BY <1>8, <1>9, <1>10, <1>11 DEF PathInv

LEMMA DoHandoverPath ==
    ASSUME TypeOK, Accounted, PathInv, DoHandover
    PROVE  PathInv'
<1>1. UNCHANGED <<core, x2Data, routed, hoForwarding>>
  BY DEF DoHandover, networkVars
<1>2. CoreInOrder'
  BY <1>1 DEF PathInv, CoreInOrder
<1>3. CASE ~(serving # NoBs /\ candidate # NoBs)
  <2>1. UNCHANGED <<hoFromX2, hoFromIp, toStack, hoHolding>>
    BY <1>3 DEF DoHandover, bufferVars, outVars
  <2>2. \A b \in Bs : DownAt(b)' = DownAt(b)
    BY <2>1 DEF DownAt
  <2>3. Routes' /\ TunnelsInOrder' /\ BuffersInOrder'
    BY <1>1, <2>1, <2>2 DEF PathInv, Routes, TunnelsInOrder, BuffersInOrder
  <2>4. HeldAndForwarded' /\ PathKeepsOrder'
    BY <1>1, <2>1 DEF PathInv, HeldAndForwarded, IpHeld, PathKeepsOrder
  <2> QED
    BY <1>2, <2>3, <2>4 DEF PathInv
<1>4. CASE serving # NoBs /\ candidate # NoBs
  <2>1. PICK c \in Bs : c = candidate
    BY <1>4 DEF TypeOK
  <2> DEFINE held == hoFromX2[c] \o hoFromIp[c]
  <2>2. /\ ToStackBs(c, held, c)
        /\ hoFromX2' = [hoFromX2 EXCEPT ![c] = <<>>]
        /\ hoFromIp' = [hoFromIp EXCEPT ![c] = <<>>]
        /\ hoHolding' = hoHolding \ {c}
    BY <1>4, <2>1 DEF DoHandover, Held, HoldingWithout
  <2>3. /\ hoFromX2'[c] = <<>> /\ hoFromIp'[c] = <<>>
        /\ \A b \in Bs : b # c => hoFromX2'[b] = hoFromX2[b] /\ hoFromIp'[b] = hoFromIp[b]
    BY <2>1, <2>2 DEF TypeOK
  <2>4. Range(<<>>) = {} /\ \A r : InOrder(r, <<>>) /\ \A P : Ahead(r, P, <<>>)
    BY DEF Range, InOrder, Ahead
  <2>5. /\ hoFromX2[c] \in Seq(Nat) /\ hoFromIp[c] \in Seq(Nat)
        /\ IsInjective(hoFromX2[c]) /\ IsInjective(hoFromIp[c])
        /\ InOrder(routed, hoFromX2[c]) /\ InOrder(routed, hoFromIp[c])
        /\ Ahead(routed, DownAt(c), hoFromX2[c]) /\ Ahead(routed, DownAt(c), hoFromIp[c])
    BY <2>1, AllTypes DEF Accounted, NoneTwice, PathInv, BuffersInOrder
  <2>6. \A m \in Range(hoFromX2[c]), n \in Range(hoFromIp[c]) : routed[m] # routed[n] /\ m # n
    BY <2>1 DEF PathInv, Routes
  <2>7. held \in Seq(Nat) /\ Range(held) = Range(hoFromX2[c]) \cup Range(hoFromIp[c])
    BY <2>5, <2>6, QueueConcat
  <2>8. InOrder(routed, held)
    BY <2>5, <2>6, OrderConcat
  <2>9. Ahead(routed, DownAt(c), held)
    BY <2>5, <2>7 DEF Ahead
  <2>10. /\ PathKeepsOrder' /\ DownAt(c)' = DownAt(c) \cup Range(held)
         /\ \A a \in Bs : a # c => DownAt(a)' = DownAt(a)
    BY <1>1, <2>1, <2>2, <2>7, <2>8, <2>9, DownInOrder DEF PathInv
  <2> HIDE DEF held
  <2>11. Routes'
    <3>1. \A a \in Bs : /\ \A m \in Range(hoFromIp'[a]) : routed[m] = a
                        /\ \A m \in Range(hoFromX2'[a]) : routed[m] # a
      BY <2>3, <2>4 DEF PathInv, Routes
    <3>2. /\ \A a \in Bs : \A m \in Range(core[a]) : routed[m] = a
          /\ \A a, b \in Bs : \A m \in Range(x2Data[a][b]) : routed[m] = a /\ a # b
      BY DEF PathInv, Routes
    <3> QED
      BY <1>1, <3>1, <3>2 DEF Routes
  <2>12. TunnelsInOrder'
    <3> SUFFICES ASSUME NEW s \in Bs, NEW t \in Bs
                 PROVE  /\ InOrder(routed, x2Data[s][t])
                        /\ Ahead(routed, Range(hoFromX2'[t]) \cup DownAt(t)', x2Data[s][t])
      BY <1>1 DEF TunnelsInOrder
    <3>1. /\ InOrder(routed, x2Data[s][t])
          /\ Ahead(routed, Range(hoFromX2[t]) \cup DownAt(t), x2Data[s][t])
      BY DEF PathInv, TunnelsInOrder
    <3>2. CASE t # c
      BY <2>3, <2>10, <3>1, <3>2
    <3>3. CASE t = c
      <4>1. Range(hoFromX2'[t]) \cup DownAt(t)' =
              (Range(hoFromX2[t]) \cup DownAt(t)) \cup Range(hoFromIp[t])
        BY <2>3, <2>4, <2>7, <2>10, <3>3
      <4>2. \A m \in Range(hoFromIp[t]), n \in Range(x2Data[s][t]) : routed[m] # routed[n]
        BY DEF PathInv, Routes
      <4> QED
        BY <3>1, <4>1, <4>2 DEF Ahead
    <3> QED
      BY <3>2, <3>3
  <2>13. BuffersInOrder'
    <3> SUFFICES ASSUME NEW b \in Bs
                 PROVE  /\ InOrder(routed, hoFromX2'[b]) /\ InOrder(routed, hoFromIp'[b])
                        /\ Ahead(routed, DownAt(b)', hoFromX2'[b])
                        /\ Ahead(routed, DownAt(b)', hoFromIp'[b])
      BY <1>1 DEF BuffersInOrder
    <3>1. /\ InOrder(routed, hoFromX2[b]) /\ InOrder(routed, hoFromIp[b])
          /\ Ahead(routed, DownAt(b), hoFromX2[b])
          /\ Ahead(routed, DownAt(b), hoFromIp[b])
      BY DEF PathInv, BuffersInOrder
    <3>2. CASE b # c
      BY <2>3, <2>10, <3>1, <3>2
    <3>3. CASE b = c
      BY <2>3, <2>4, <3>3
    <3> QED
      BY <3>2, <3>3
  <2>14. HeldAndForwarded'
    BY <1>1, <2>2, <2>3 DEF PathInv, HeldAndForwarded, IpHeld
  <2> QED
    BY <1>2, <2>10, <2>11, <2>12, <2>13, <2>14 DEF PathInv
<1> QED
  BY <1>3, <1>4

(* Commands and triggers move no packet. *)
LEMMA NoPacketMoves ==
    ASSUME PathInv, HeldAndForwarded', UNCHANGED <<routed, networkVars, bufferVars, outVars>>
    PROVE  PathInv'
<1>1. UNCHANGED <<routed, core, x2Data, hoFromX2, hoFromIp, toStack>>
  BY DEF networkVars, bufferVars, outVars
<1>2. \A b \in Bs : DownAt(b)' = DownAt(b)
  BY <1>1 DEF DownAt
<1>3. Routes' /\ CoreInOrder'
  BY <1>1 DEF PathInv, Routes, CoreInOrder
<1>4. TunnelsInOrder'
  BY <1>1, <1>2 DEF PathInv, TunnelsInOrder
<1>5. BuffersInOrder'
  BY <1>1, <1>2 DEF PathInv, BuffersInOrder
<1>6. PathKeepsOrder'
  BY <1>1 DEF PathInv, PathKeepsOrder
<1> QED
  BY <1>3, <1>4, <1>5, <1>6 DEF PathInv

LEMMA CommandPath ==
    ASSUME TypeOK, PathInv, NEW s \in Bs, NEW t \in Bs, ReceiveHandoverCommand(s, t)
    PROVE  PathInv'
<1>1. UNCHANGED <<routed, networkVars, bufferVars, outVars>>
  BY DEF ReceiveHandoverCommand
<1>2. HeldAndForwarded'
  <2>1. hoHolding' = hoHolding \cup {t} \/ hoHolding' = hoHolding
    BY DEF ReceiveHandoverCommand
  <2>2. hoForwarding' = [hoForwarding EXCEPT ![t] = NoBs] \/ hoForwarding' = hoForwarding
    BY DEF ReceiveHandoverCommand, StopForwarding
  <2>3. \A b \in Bs : hoForwarding'[b] = NoBs \/ hoForwarding'[b] = hoForwarding[b]
    BY <2>2 DEF TypeOK
  <2>4. hoFromIp' = hoFromIp
    BY <1>1 DEF bufferVars
  <2> QED
    BY <2>1, <2>3, <2>4, BsAssumption DEF PathInv, HeldAndForwarded, IpHeld
<1> QED
  BY <1>1, <1>2, NoPacketMoves

LEMMA TriggerPath ==
    ASSUME TypeOK, PathInv, NEW c \in Bs \cup {NoBs}, TriggerHandover(c)
    PROVE  PathInv'
<1>1. UNCHANGED <<routed, networkVars, bufferVars, outVars>>
  BY DEF TriggerHandover
<1>2. HeldAndForwarded'
  <2>1. hoHolding' = hoHolding /\ hoFromIp' = hoFromIp /\ c # serving
    BY DEF TriggerHandover, bufferVars
  <2>2. hoForwarding' = [hoForwarding EXCEPT ![serving] = c] \/ hoForwarding' = hoForwarding
    BY DEF TriggerHandover, StartForwarding
  <2>3. \A b \in Bs : hoForwarding'[b] # b
    BY <2>1, <2>2 DEF TypeOK, PathInv, HeldAndForwarded
  <2> QED
    BY <2>1, <2>3 DEF PathInv, HeldAndForwarded, IpHeld
<1> QED
  BY <1>1, <1>2, NoPacketMoves

LEMMA NextPath == TypeOK /\ Accounted /\ PathInv /\ [Next]_vars => PathInv'
<1> SUFFICES ASSUME TypeOK, Accounted, PathInv, [Next]_vars PROVE PathInv'
  OBVIOUS
<1>1. CASE CoreSends
  BY <1>1, CoreSendsPath
<1>2. CASE \E b \in Bs : FromIpBs(b)
  BY <1>2, FromIpPath
<1>3. CASE \E s, t \in Bs : ReceiveTunneledPacketOnHandover(s, t)
  BY <1>3, TunneledPath
<1>4. CASE \E s, t \in Bs : ReceiveHandoverCommand(s, t)
  BY <1>4, CommandPath
<1>5. CASE \E c \in Bs \cup {NoBs} : TriggerHandover(c)
  BY <1>5, TriggerPath
<1>6. CASE DoHandover
  BY <1>6, DoHandoverPath
<1>7. CASE UNCHANGED vars
  <2>1. /\ UNCHANGED <<routed, networkVars, bufferVars, outVars>>
        /\ UNCHANGED <<hoForwarding, hoHolding>>
    BY <1>7 DEF vars
  <2>2. HeldAndForwarded'
    BY <2>1 DEF PathInv, HeldAndForwarded, IpHeld, bufferVars
  <2> QED
    BY <2>1, <2>2, NoPacketMoves
<1> QED
  BY <1>1, <1>2, <1>3, <1>4, <1>5, <1>6, <1>7 DEF Next

(* PathKeepsOrder: packets the core sent to the same base station and that  *)
(* reach the UE by the same one are handed down in the order they were      *)
(* sent, over any number of handovers.  It needs neither commands in time   *)
(* nor a single handover at a time: every place on the path (core, tunnel,  *)
(* buffer) is a queue, and IP2Nic hands down past a buffer only when that   *)
(* buffer has nothing of the same path.                                     *)
THEOREM PathsKeepOrder == Spec => []PathKeepsOrder
<1>1. PathInv => PathKeepsOrder
  BY DEF PathInv
<1> QED
  BY <1>1, InitPath, NextPath, InitAccounted, NextAccounted, TypeCorrect, PTL DEF Spec
-----------------------------------------------------------------------------

(***************************************************************************)
(* NrUeHandover.  The two stacks meet in the event queue, so the invariant *)
(* says which events are in it and in which order they will occur.         *)
(***************************************************************************)

\* Queues: sets of events, and what a queue holds.
Event == [in : Nat, what : {"starter", "trigger"}, stack : Stacks]
Scheduled(q) == {q[i] : i \in DOMAIN q}
QueueInOrder(q) == \A i, j \in DOMAIN q : i < j => q[i].in <= q[j].in
Once(q, S) == \A i, j \in DOMAIN q : q[i] \in S /\ q[j] \in S => i = j
Starters(k) == {e \in Event : e.what = "starter" /\ e.stack = k}
Triggers(k) == {e \in Event : e.what = "trigger" /\ e.stack = k}
EventsOf(k) == {e \in Event : e.stack = k}
\* An event when an earlier one has occurred.
Sooner(e, d) == [e EXCEPT !.in = @ - d]

\* A set of indices has a least one.
LEMMA LeastIndex ==
    ASSUME NEW S \in SUBSET Nat, S # {}
    PROVE  \E m \in S : \A y \in S : m <= y
<1>1. PICK m \in S : \A y \in S : ~ (<<y, m>> \in OpToRel(<, Nat))
  BY WFMin, NatLessThanWellFounded
<1>2. \A y \in S : ~ (y < m)
  BY <1>1 DEF OpToRel
<1> QED
  BY <1>2

\* Where Insert puts an event.
LEMMA Place ==
    ASSUME NEW q \in Seq(Event), QueueInOrder(q), NEW d \in Nat
    PROVE  \E n \in 0..Len(q) :
             /\ Cardinality({i \in DOMAIN q : q[i].in <= d}) = n
             /\ \A i \in 1..n : q[i].in <= d
             /\ \A i \in (n + 1)..Len(q) : d < q[i].in
<1>1. Len(q) \in Nat /\ DOMAIN q = 1..Len(q)
  OBVIOUS
<1>0. \A i \in 1..Len(q) : q[i] \in Event
  BY <1>1
<1>2. \A i \in 1..Len(q) : q[i].in \in Nat
  BY <1>0 DEF Event
<1> DEFINE after == {i \in 1..Len(q) : d < q[i].in}
<1>3. PICK n \in 0..Len(q) : after = (n + 1)..Len(q)
  <2>1. CASE after = {}
    <3>1. after = (Len(q) + 1)..Len(q)
      BY <1>1, <2>1
    <3> QED
      BY <1>1, <3>1
  <2>2. CASE after # {}
    <3>0. after \in SUBSET Nat
      OBVIOUS
    <3>1. PICK m \in after : \A y \in after : m <= y
      <4> HIDE DEF after
      <4> QED
        BY <2>2, <3>0, LeastIndex
    <3>2. m \in 1..Len(q) /\ d < q[m].in
      BY <3>1
    <3>3. \A i \in m..Len(q) : i \in after
      <4> SUFFICES ASSUME NEW i \in m..Len(q) PROVE i \in after
        OBVIOUS
      <4>1. i \in 1..Len(q) /\ (i = m \/ m < i)
        BY <1>1, <3>2
      <4>2. q[m].in <= q[i].in
        BY <1>1, <1>2, <3>2, <4>1 DEF QueueInOrder
      <4> QED
        BY <1>2, <3>2, <4>1, <4>2
    <3>4. after \subseteq m..Len(q)
      BY <1>1, <3>1, <3>2
    <3>5. after = m..Len(q) /\ m - 1 \in 0..Len(q) /\ (m - 1) + 1 = m
      BY <1>1, <3>2, <3>3, <3>4
    <3> HIDE DEF after
    <3> QED
      BY <3>5
  <2> QED
    BY <2>1, <2>2
<1>4. {i \in DOMAIN q : q[i].in <= d} = 1..n
  <2>1. \A i \in 1..Len(q) : q[i].in <= d <=> i \notin after
    BY <1>2
  <2>2. \A i \in 1..Len(q) : i \notin (n + 1)..Len(q) <=> i \in 1..n
    BY <1>1
  <2>3. \A i \in 1..n : i \in 1..Len(q)
    BY <1>1
  <2> HIDE DEF after
  <2> QED
    BY <1>1, <1>3, <2>1, <2>2, <2>3
<1>5. Cardinality(1..n) = n
  BY FS_Interval
<1>6. \A i \in (n + 1)..Len(q) : i \in after
  BY <1>3
<1>7. \A i \in 1..n : i \in {j \in DOMAIN q : q[j].in <= d}
  BY <1>4
<1> QED
  BY <1>4, <1>5, <1>6, <1>7

LEMMA Pieces ==
    ASSUME NEW T, NEW q \in Seq(T), NEW n \in 0..Len(q)
    PROVE  /\ SubSeq(q, 1, n) \in Seq(T) /\ Len(SubSeq(q, 1, n)) = n
           /\ \A i \in 1..n : SubSeq(q, 1, n)[i] = q[i]
           /\ SubSeq(q, n + 1, Len(q)) \in Seq(T)
           /\ Len(SubSeq(q, n + 1, Len(q))) = Len(q) - n
           /\ \A i \in 1..(Len(q) - n) : SubSeq(q, n + 1, Len(q))[i] = q[n + i]
<1>1. Len(q) \in Nat /\ \A i \in 1..Len(q) : q[i] \in T
  BY ElementOfSeq, LenProperties
<1>2. n \in Nat /\ n <= Len(q) /\ n \in Int /\ Len(q) \in Int /\ n + 1 \in Int
  BY <1>1
<1>3. /\ SubSeq(q, 1, n) \in Seq(T)
      /\ Len(SubSeq(q, 1, n)) = IF 1 <= n THEN n - 1 + 1 ELSE 0
      /\ \A i \in 1..(n - 1 + 1) : SubSeq(q, 1, n)[i] = q[1 + i - 1]
  <2>1. \A i \in 1..n : q[i] \in T
    BY <1>1, <1>2
  <2> QED
    BY <1>2, <2>1, SubSeqProperties
<1>4. /\ SubSeq(q, n + 1, Len(q)) \in Seq(T)
      /\ Len(SubSeq(q, n + 1, Len(q))) = IF n + 1 <= Len(q) THEN Len(q) - (n + 1) + 1 ELSE 0
      /\ \A i \in 1..(Len(q) - (n + 1) + 1) : SubSeq(q, n + 1, Len(q))[i] = q[(n + 1) + i - 1]
  <2>1. \A i \in (n + 1)..Len(q) : q[i] \in T
    BY <1>1, <1>2
  <2> QED
    BY <1>2, <2>1, SubSeqProperties
<1>5. \A i \in Int : 1 + i - 1 = i /\ (n + 1) + i - 1 = n + i
  BY <1>2
<1>6. n - 1 + 1 = n /\ Len(q) - (n + 1) + 1 = Len(q) - n
  BY <1>2
<1>7. (IF 1 <= n THEN n - 1 + 1 ELSE 0) = n
  BY <1>2
<1>8. (IF n + 1 <= Len(q) THEN Len(q) - (n + 1) + 1 ELSE 0) = Len(q) - n
  BY <1>1, <1>2
<1>9. \A i \in 1..n : SubSeq(q, 1, n)[i] = q[i]
  BY <1>3, <1>5, <1>6
<1>10. \A i \in 1..(Len(q) - n) : SubSeq(q, n + 1, Len(q))[i] = q[n + i]
  BY <1>4, <1>5, <1>6
<1> QED
  BY <1>3, <1>4, <1>7, <1>8, <1>9, <1>10

\* Insert, place by place: after the events that are due no later than the new
\* one, before the others.
LEMMA Inserted ==
    ASSUME NEW q \in Seq(Event), QueueInOrder(q), NEW e \in Event
    PROVE  \E n \in 0..Len(q) :
             /\ Insert(q, e) \in Seq(Event) /\ Len(Insert(q, e)) = Len(q) + 1
             /\ \A i \in 1..(Len(q) + 1) : Insert(q, e)[i] =
                    IF i <= n THEN q[i] ELSE IF i = n + 1 THEN e ELSE q[i - 1]
             /\ \A i \in 1..n : q[i].in <= e.in
             /\ \A i \in (n + 1)..Len(q) : e.in < q[i].in
<1>1. e.in \in Nat /\ Len(q) \in Nat /\ DOMAIN q = 1..Len(q)
  BY DEF Event
<1>2. PICK n \in 0..Len(q) :
             /\ Cardinality({i \in DOMAIN q : q[i].in <= e.in}) = n
             /\ \A i \in 1..n : q[i].in <= e.in
             /\ \A i \in (n + 1)..Len(q) : e.in < q[i].in
  BY <1>1, Place
<1>3. Insert(q, e) = SubSeq(q, 1, n) \o <<e>> \o SubSeq(q, n + 1, Len(q))
  BY <1>2 DEF Insert
<1>4. PICK a : a = SubSeq(q, 1, n)
  OBVIOUS
<1>5. PICK b : b = SubSeq(q, n + 1, Len(q))
  OBVIOUS
<1>6. PICK one : one = <<e>>
  OBVIOUS
<1>7. one \in Seq(Event) /\ Len(one) = 1 /\ one[1] = e
  <2>1. <<e>> \in Seq(Event) /\ Len(<<e>>) = 1 /\ <<e>>[1] = e
    OBVIOUS
  <2> QED
    BY <1>6, <2>1
<1>8. /\ a \in Seq(Event) /\ Len(a) = n /\ \A i \in 1..n : a[i] = q[i]
      /\ b \in Seq(Event) /\ Len(b) = Len(q) - n /\ \A i \in 1..(Len(q) - n) : b[i] = q[n + i]
  BY <1>4, <1>5, Pieces
<1>9. PICK c : c = a \o one
  OBVIOUS
<1>10. /\ c \in Seq(Event) /\ Len(c) = Len(a) + Len(one)
       /\ \A i \in 1..(Len(a) + Len(one)) : c[i] = IF i <= Len(a) THEN a[i] ELSE one[i - Len(a)]
  BY <1>7, <1>8, <1>9, ConcatProperties
<1>11. /\ c \o b \in Seq(Event) /\ Len(c \o b) = Len(c) + Len(b)
       /\ \A i \in 1..(Len(c) + Len(b)) : (c \o b)[i] = IF i <= Len(c) THEN c[i] ELSE b[i - Len(c)]
  <2>1. b \in Seq(Event) /\ c \in Seq(Event)
    BY <1>8, <1>10
  <2> QED
    BY <2>1, ConcatProperties
<1>12. PICK r : r = c \o b
  OBVIOUS
<1>13. Insert(q, e) = r
  BY <1>3, <1>4, <1>5, <1>6, <1>9, <1>12
<1>14. Len(c) = n + 1 /\ Len(c) + Len(b) = Len(q) + 1
  BY <1>1, <1>7, <1>8, <1>10
<1>15. ASSUME NEW i \in 1..(Len(q) + 1)
       PROVE  r[i] = IF i <= n THEN q[i] ELSE IF i = n + 1 THEN e ELSE q[i - 1]
  <2>1. CASE i <= n
    <3>1. i \in 1..n /\ i <= n + 1 /\ i \in 1..(n + 1)
      BY <1>1, <2>1
    <3>2. r[i] = c[i] /\ c[i] = a[i] /\ a[i] = q[i]
      BY <1>7, <1>8, <1>10, <1>11, <1>12, <1>14, <2>1, <3>1
    <3> QED
      BY <2>1, <3>2
  <2>2. CASE i = n + 1
    <3>1. ~(i <= n) /\ i - n = 1 /\ i \in 1..(n + 1) /\ i <= n + 1
      BY <1>1, <2>2
    <3>2. r[i] = c[i] /\ c[i] = one[1]
      BY <1>7, <1>8, <1>10, <1>11, <1>12, <1>14, <3>1
    <3> QED
      BY <1>7, <2>2, <3>1, <3>2
  <2>3. CASE n + 1 < i
    <3>1. ~(i <= n) /\ i # n + 1 /\ ~(i <= n + 1)
      BY <1>1, <2>3
    <3>2. i - (n + 1) \in 1..(Len(q) - n) /\ n + (i - (n + 1)) = i - 1
      BY <1>1, <2>3
    <3>3. r[i] = b[i - (n + 1)]
      BY <1>11, <1>12, <1>14, <3>1
    <3>4. b[i - (n + 1)] = q[i - 1]
      BY <1>8, <3>2
    <3> QED
      BY <3>1, <3>3, <3>4
  <2> QED
    BY <1>1, <2>1, <2>2, <2>3
<1> QED
  BY <1>2, <1>11, <1>12, <1>13, <1>14, <1>15

\* What Insert does to a queue: it adds the event, and leaves the queue in
\* order.
LEMMA InsertSound ==
    ASSUME NEW q \in Seq(Event), QueueInOrder(q), NEW e \in Event
    PROVE  /\ Insert(q, e) \in Seq(Event) /\ QueueInOrder(Insert(q, e))
           /\ Scheduled(Insert(q, e)) = Scheduled(q) \cup {e}
           /\ Insert(q, e) # <<>>
           /\ \A S : Once(q, S) /\ (e \in S => Scheduled(q) \cap S = {}) => Once(Insert(q, e), S)
<1>1. PICK r : r = Insert(q, e)
  OBVIOUS
<1>2. PICK n \in 0..Len(q) :
             /\ r \in Seq(Event) /\ Len(r) = Len(q) + 1
             /\ \A i \in 1..(Len(q) + 1) : r[i] =
                    IF i <= n THEN q[i] ELSE IF i = n + 1 THEN e ELSE q[i - 1]
             /\ \A i \in 1..n : q[i].in <= e.in
             /\ \A i \in (n + 1)..Len(q) : e.in < q[i].in
  BY <1>1, Inserted
<1>3. /\ Len(q) \in Nat /\ DOMAIN q = 1..Len(q) /\ DOMAIN r = 1..(Len(q) + 1)
      /\ n \in Nat /\ n <= Len(q)
  BY <1>2
<1>4. /\ \A i \in 1..n : i \in 1..(Len(q) + 1) /\ i \in 1..Len(q) /\ r[i] = q[i]
      /\ r[n + 1] = e /\ n + 1 \in 1..(Len(q) + 1)
      /\ \A i \in (n + 1)..Len(q) : i \in 1..Len(q) /\ i + 1 \in 1..(Len(q) + 1) /\ r[i + 1] = q[i]
  <2>1. \A i \in 1..n : i \in 1..(Len(q) + 1) /\ i \in 1..Len(q) /\ i <= n
    BY <1>3
  <2>2. n + 1 \in 1..(Len(q) + 1) /\ ~(n + 1 <= n)
    BY <1>3
  <2>3. \A i \in (n + 1)..Len(q) :
            i \in 1..Len(q) /\ i + 1 \in 1..(Len(q) + 1) /\ ~(i + 1 <= n) /\ i + 1 # n + 1 /\ (i + 1) - 1 = i
    BY <1>3
  <2> QED
    BY <1>2, <2>1, <2>2, <2>3
<1>5. \A i \in 1..(Len(q) + 1) :
         \/ i \in 1..n
         \/ i = n + 1
         \/ n + 1 < i /\ i - 1 \in (n + 1)..Len(q) /\ (i - 1) + 1 = i
  BY <1>3
<1>6. \A i \in 1..Len(q) : i \in 1..n \/ i \in (n + 1)..Len(q)
  BY <1>3
<1>7. \A i \in 1..(Len(q) + 1) :
         \/ i \in 1..n /\ r[i] = q[i]
         \/ i = n + 1 /\ r[i] = e
         \/ n + 1 < i /\ i - 1 \in (n + 1)..Len(q) /\ r[i] = q[i - 1]
  BY <1>4, <1>5
<1>8. QueueInOrder(r)
  <2> SUFFICES ASSUME NEW i \in 1..(Len(q) + 1), NEW j \in 1..(Len(q) + 1), i < j
               PROVE  r[i].in <= r[j].in
    BY <1>3 DEF QueueInOrder
  <2>1. \A x, y \in 1..Len(q) : x < y => q[x].in <= q[y].in
    BY <1>3 DEF QueueInOrder
  <2>2. \A x \in 1..Len(q) : q[x].in \in Nat
    <3>1. \A x \in 1..Len(q) : q[x] \in Event
      BY <1>3
    <3> QED
      BY <3>1 DEF Event
  <2>3. e.in \in Nat
    BY DEF Event
  <2>4. CASE i \in 1..n
    <3>1. i \in 1..Len(q) /\ r[i] = q[i] /\ q[i].in <= e.in
      BY <1>2, <1>4, <2>4
    <3>2. CASE j \in 1..n
      <4>1. j \in 1..Len(q) /\ r[j] = q[j]
        BY <1>4, <3>2
      <4> QED
        BY <2>1, <3>1, <4>1
    <3>3. CASE j = n + 1
      BY <1>4, <3>1, <3>3
    <3>4. CASE n + 1 < j
      <4>1. j - 1 \in 1..Len(q) /\ r[j] = q[j - 1] /\ e.in < q[j - 1].in
        BY <1>2, <1>4, <1>7, <3>4
      <4> QED
        BY <2>2, <2>3, <3>1, <4>1
    <3> QED
      BY <1>7, <3>2, <3>3, <3>4
  <2>5. CASE i = n + 1
    <3>1. n + 1 < j
      BY <2>5
    <3>2. j - 1 \in 1..Len(q) /\ r[j] = q[j - 1] /\ e.in < q[j - 1].in
      BY <1>2, <1>3, <1>4, <1>7, <3>1
    <3> QED
      BY <1>4, <2>2, <2>3, <2>5, <3>2
  <2>6. CASE n + 1 < i
    <3>1. n + 1 < j /\ i - 1 < j - 1
      BY <1>3, <2>6
    <3>2. i - 1 \in 1..Len(q) /\ r[i] = q[i - 1] /\ j - 1 \in 1..Len(q) /\ r[j] = q[j - 1]
      BY <1>3, <1>4, <1>7, <2>6, <3>1
    <3> QED
      BY <2>1, <3>1, <3>2
  <2> QED
    BY <1>7, <2>4, <2>5, <2>6
<1>9. Scheduled(r) = Scheduled(q) \cup {e}
  <2>1. \A i \in 1..(Len(q) + 1) : r[i] \in Scheduled(q) \cup {e}
    BY <1>3, <1>4, <1>7 DEF Scheduled
  <2>2. \A i \in 1..Len(q) : q[i] \in Scheduled(r)
    BY <1>3, <1>4, <1>6 DEF Scheduled
  <2>3. e \in Scheduled(r)
    BY <1>3, <1>4 DEF Scheduled
  <2> QED
    BY <1>3, <2>1, <2>2, <2>3 DEF Scheduled
<1>10. r # <<>>
  BY <1>2, <1>3
<1>11. ASSUME NEW S, Once(q, S), e \in S => Scheduled(q) \cap S = {}
       PROVE  Once(r, S)
  <2> SUFFICES ASSUME NEW i \in 1..(Len(q) + 1), NEW j \in 1..(Len(q) + 1), r[i] \in S, r[j] \in S
               PROVE  i = j
    BY <1>3 DEF Once
  <2>1. \A x, y \in 1..Len(q) : q[x] \in S /\ q[y] \in S => x = y
    BY <1>3, <1>11 DEF Once
  <2>2. e \in S => \A x \in 1..Len(q) : q[x] \notin S
    BY <1>3, <1>11 DEF Scheduled
  <2>3. CASE e \in S
    <3>1. \A x \in 1..(Len(q) + 1) : r[x] \in S => x = n + 1
      BY <1>4, <1>6, <1>7, <1>3, <2>2, <2>3
    <3> QED
      BY <3>1
  <2>4. CASE e \notin S
    <3>1. i # n + 1 /\ j # n + 1
      BY <1>4, <2>4
    <3>2. \/ i \in 1..n /\ i \in 1..Len(q) /\ q[i] \in S
          \/ n + 1 < i /\ i - 1 \in (n + 1)..Len(q) /\ i - 1 \in 1..Len(q) /\ q[i - 1] \in S
      BY <1>4, <1>7, <3>1
    <3>3. \/ j \in 1..n /\ j \in 1..Len(q) /\ q[j] \in S
          \/ n + 1 < j /\ j - 1 \in (n + 1)..Len(q) /\ j - 1 \in 1..Len(q) /\ q[j - 1] \in S
      BY <1>4, <1>7, <3>1
    <3> QED
      BY <1>3, <2>1, <3>2, <3>3
  <2> QED
    BY <2>3, <2>4
<1> QED
  <2>1. \A S : Once(q, S) /\ (e \in S => Scheduled(q) \cap S = {}) => Once(r, S)
    BY <1>11
  <2> QED
    BY <1>1, <1>2, <1>8, <1>9, <1>10, <2>1

\* cancelEvent takes the start of stack k out, and nothing else.
LEMMA CancelSound ==
    ASSUME NEW q \in Seq(Event), QueueInOrder(q), NEW k \in Stacks, Once(q, Starters(k))
    PROVE  /\ CancelStarter(q, k) \in Seq(Event) /\ QueueInOrder(CancelStarter(q, k))
           /\ Scheduled(CancelStarter(q, k)) = Scheduled(q) \ Starters(k)
           /\ \A S : Once(q, S) => Once(CancelStarter(q, k), S)
<1>1. Len(q) \in Nat /\ DOMAIN q = 1..Len(q) /\ \A i \in 1..Len(q) : q[i] \in Event
  BY ElementOfSeq, LenProperties
<1>2. \A i \in 1..Len(q) : IsStarterOf(q[i], k) <=> q[i] \in Starters(k)
  BY <1>1 DEF IsStarterOf, Starters
<1>3. CASE ~StarterScheduled(q, k)
  <2>1. CancelStarter(q, k) = q
    BY <1>3 DEF CancelStarter
  <2>2. \A i \in 1..Len(q) : q[i] \notin Starters(k)
    BY <1>1, <1>2, <1>3 DEF StarterScheduled
  <2> QED
    BY <1>1, <2>1, <2>2 DEF Scheduled
<1>4. CASE StarterScheduled(q, k)
  <2>1. PICK c : c = CHOOSE i \in DOMAIN q : IsStarterOf(q[i], k)
    OBVIOUS
  <2>2. c \in 1..Len(q) /\ IsStarterOf(q[c], k) /\ q[c] \in Starters(k)
    BY <1>1, <1>2, <1>4, <2>1 DEF StarterScheduled
  <2>3. CancelStarter(q, k) = SubSeq(q, 1, c - 1) \o SubSeq(q, c + 1, Len(q))
    BY <1>4, <2>1 DEF CancelStarter
  <2>4. c - 1 \in 0..Len(q) /\ c \in 0..Len(q) /\ c \in Nat /\ c - 1 \in Nat
    BY <1>1, <2>2
  <2>5. PICK a : a = SubSeq(q, 1, c - 1)
    OBVIOUS
  <2>6. PICK b : b = SubSeq(q, c + 1, Len(q))
    OBVIOUS
  <2>7. a \in Seq(Event) /\ Len(a) = c - 1 /\ \A i \in 1..(c - 1) : a[i] = q[i]
    BY <2>4, <2>5, Pieces
  <2>8. b \in Seq(Event) /\ Len(b) = Len(q) - c /\ \A i \in 1..(Len(q) - c) : b[i] = q[c + i]
    BY <2>4, <2>6, Pieces
  <2>9. PICK r : r = a \o b
    OBVIOUS
  <2>10. /\ r \in Seq(Event) /\ Len(r) = Len(a) + Len(b)
         /\ \A i \in 1..(Len(a) + Len(b)) : r[i] = IF i <= Len(a) THEN a[i] ELSE b[i - Len(a)]
    <3>1. a \in Seq(Event) /\ b \in Seq(Event)
      BY <2>7, <2>8
    <3> QED
      BY <2>9, <3>1, ConcatProperties
  <2>11. CancelStarter(q, k) = r
    BY <2>3, <2>5, <2>6, <2>9
  <2>12. Len(r) = Len(q) - 1 /\ DOMAIN r = 1..(Len(q) - 1)
    <3>1. Len(a) + Len(b) = Len(q) - 1
      BY <1>1, <2>4, <2>7, <2>8
    <3>2. Len(r) = Len(q) - 1
      BY <2>10, <3>1
    <3> QED
      BY <2>10, <3>2
  <2>13. \A i \in 1..(Len(q) - 1) :
           \/ i < c /\ i \in 1..Len(q) /\ r[i] = q[i]
           \/ c <= i /\ i + 1 \in 1..Len(q) /\ r[i] = q[i + 1]
    <3> SUFFICES ASSUME NEW i \in 1..(Len(q) - 1)
                 PROVE  \/ i < c /\ i \in 1..Len(q) /\ r[i] = q[i]
                        \/ c <= i /\ i + 1 \in 1..Len(q) /\ r[i] = q[i + 1]
      OBVIOUS
    <3>1. i \in 1..(Len(a) + Len(b))
      BY <1>1, <2>4, <2>7, <2>8
    <3>2. CASE i < c
      <4>1. i <= Len(a) /\ i \in 1..(c - 1) /\ i \in 1..Len(q)
        BY <1>1, <2>4, <2>7, <3>2
      <4>2. r[i] = q[i]
        BY <2>7, <2>10, <3>1, <4>1
      <4> QED
        BY <3>2, <4>1, <4>2
    <3>3. CASE c <= i
      <4>1. ~(i <= Len(a)) /\ i - Len(a) = i - (c - 1) /\ i + 1 \in 1..Len(q)
        BY <1>1, <2>4, <2>7, <3>3
      <4>2. i - (c - 1) \in 1..(Len(q) - c) /\ c + (i - (c - 1)) = i + 1
        BY <1>1, <2>4, <3>3
      <4>3. r[i] = b[i - (c - 1)]
        BY <2>10, <3>1, <4>1
      <4>4. b[i - (c - 1)] = q[i + 1]
        BY <2>8, <4>2
      <4> QED
        BY <3>3, <4>1, <4>3, <4>4
    <3> QED
      BY <2>4, <3>2, <3>3
  <2>14. \A x \in 1..Len(q) : q[x] \in Starters(k) => x = c
    BY <1>1, <2>2 DEF Once
  <2>15. QueueInOrder(r)
    <3> SUFFICES ASSUME NEW i \in 1..(Len(q) - 1), NEW j \in 1..(Len(q) - 1), i < j
                 PROVE  r[i].in <= r[j].in
      BY <2>12 DEF QueueInOrder
    <3>1. \A x, y \in 1..Len(q) : x < y => q[x].in <= q[y].in
      BY <1>1 DEF QueueInOrder
    <3>2. i < j + 1 /\ i + 1 < j + 1
      OBVIOUS
    <3> QED
      BY <2>4, <2>13, <3>1, <3>2
  <2>16. Scheduled(r) = Scheduled(q) \ Starters(k)
    <3>1. \A i \in 1..(Len(q) - 1) : r[i] \in Scheduled(q) \ Starters(k)
      <4> SUFFICES ASSUME NEW i \in 1..(Len(q) - 1) PROVE r[i] \in Scheduled(q) \ Starters(k)
        OBVIOUS
      <4>1. PICK x \in 1..Len(q) : r[i] = q[x] /\ x # c
        BY <2>4, <2>13
      <4> QED
        BY <1>1, <2>14, <4>1 DEF Scheduled
    <3>2. \A x \in 1..Len(q) : q[x] \notin Starters(k) => q[x] \in Scheduled(r)
      <4> SUFFICES ASSUME NEW x \in 1..Len(q), q[x] \notin Starters(k) PROVE q[x] \in Scheduled(r)
        OBVIOUS
      <4>1. x # c
        BY <2>2
      <4>2. CASE x < c
        <5>1. x \in 1..(Len(q) - 1) /\ ~(c <= x)
          BY <2>2, <2>4, <4>2
        <5>2. r[x] = q[x]
          BY <2>13, <5>1
        <5> QED
          BY <2>12, <5>1, <5>2 DEF Scheduled
      <4>3. CASE c < x
        <5>1. x - 1 \in 1..(Len(q) - 1) /\ ~(x - 1 < c) /\ (x - 1) + 1 = x
          BY <2>2, <2>4, <4>3
        <5>2. r[x - 1] = q[x]
          BY <2>13, <5>1
        <5> QED
          BY <2>12, <5>1, <5>2 DEF Scheduled
      <4> QED
        BY <2>4, <4>1, <4>2, <4>3
    <3> QED
      BY <1>1, <2>12, <3>1, <3>2 DEF Scheduled
  <2>17. ASSUME NEW S, Once(q, S)
         PROVE  Once(r, S)
    <3> SUFFICES ASSUME NEW i \in 1..(Len(q) - 1), NEW j \in 1..(Len(q) - 1), r[i] \in S, r[j] \in S
                 PROVE  i = j
      BY <2>12 DEF Once
    <3>1. \A x, y \in 1..Len(q) : q[x] \in S /\ q[y] \in S => x = y
      BY <1>1, <2>17 DEF Once
    <3>2. \/ i < c /\ i \in 1..Len(q) /\ r[i] = q[i]
          \/ c <= i /\ i + 1 \in 1..Len(q) /\ r[i] = q[i + 1]
      BY <2>13
    <3>3. \/ j < c /\ j \in 1..Len(q) /\ r[j] = q[j]
          \/ c <= j /\ j + 1 \in 1..Len(q) /\ r[j] = q[j + 1]
      BY <2>13
    <3> QED
      BY <2>4, <3>1, <3>2, <3>3
  <2>18. \A S : Once(q, S) => Once(r, S)
    BY <2>17
  <2> QED
    BY <2>10, <2>11, <2>15, <2>16, <2>18
<1> QED
  BY <1>3, <1>4

\* What is left when the first event occurs: the others, so much sooner.
LEMMA LaterSound ==
    ASSUME events \in Seq(Event), events # <<>>, QueueInOrder(events)
    PROVE  /\ Head(events) \in Scheduled(events) /\ Head(events) \in Event
           /\ \A e \in Scheduled(events) : e \in Event /\ Head(events).in <= e.in
           /\ Later \in Seq(Event) /\ QueueInOrder(Later)
           /\ \A x \in Scheduled(Later) :
                 \E e \in Scheduled(events) : x = Sooner(e, Head(events).in)
           /\ \A e \in Scheduled(events) :
                 e = Head(events) \/ Sooner(e, Head(events).in) \in Scheduled(Later)
           /\ \A k \in Stacks : \A T \in {Starters(k), EventsOf(k)} : Once(events, T) =>
                 /\ Once(Later, T)
                 /\ Head(events) \in T => Scheduled(Later) \cap T = {}
<1>1. /\ Len(events) \in Nat /\ DOMAIN events = 1..Len(events) /\ Len(events) >= 1
      /\ \A i \in 1..Len(events) : events[i] \in Event
  BY ElementOfSeq, LenProperties, EmptySeq
<1>2. Head(events) = events[1] /\ 1 \in 1..Len(events)
  BY <1>1
<1>3. PICK d : d = events[1].in
  OBVIOUS
<1>4. d \in Nat /\ \A i \in 1..Len(events) : events[i].in \in Nat /\ d <= events[i].in
  <2>1. \A i \in 1..Len(events) : events[i].in \in Nat
    BY <1>1 DEF Event
  <2>2. \A i \in 1..Len(events) : i = 1 \/ 1 < i
    OBVIOUS
  <2> QED
    BY <1>1, <1>2, <1>3, <2>1, <2>2 DEF QueueInOrder
<1>5. /\ Later = [i \in 1..(Len(events) - 1) |-> Sooner(events[i + 1], d)]
      /\ \A i \in 1..(Len(events) - 1) : i + 1 \in 1..Len(events)
  BY <1>1, <1>2, <1>3 DEF Later, Sooner
<1>6. \A e \in Event : d <= e.in =>
        /\ Sooner(e, d) \in Event /\ Sooner(e, d).in = e.in - d
        /\ \A k : /\ Sooner(e, d) \in Starters(k) <=> e \in Starters(k)
                  /\ Sooner(e, d) \in EventsOf(k) <=> e \in EventsOf(k)
  <2> SUFFICES ASSUME NEW e \in Event, d <= e.in
               PROVE  /\ Sooner(e, d) \in Event /\ Sooner(e, d).in = e.in - d
                      /\ \A k : /\ Sooner(e, d) \in Starters(k) <=> e \in Starters(k)
                                /\ Sooner(e, d) \in EventsOf(k) <=> e \in EventsOf(k)
    OBVIOUS
  <2>1. e.in \in Nat /\ e.in - d \in Nat
    BY <1>4 DEF Event
  <2>2. /\ Sooner(e, d) = [in |-> e.in - d, what |-> e.what, stack |-> e.stack]
    BY DEF Sooner, Event
  <2>3. Sooner(e, d) \in Event
    BY <2>1, <2>2 DEF Event
  <2> QED
    BY <2>2, <2>3 DEF Starters, EventsOf
<1>7. \A i \in 1..(Len(events) - 1) :
        /\ i + 1 \in 1..Len(events) /\ events[i + 1] \in Event
        /\ Later[i] = Sooner(events[i + 1], d) /\ d <= events[i + 1].in
  BY <1>1, <1>4, <1>5
<1>8. Later \in Seq(Event) /\ Len(Later) = Len(events) - 1 /\ DOMAIN Later = 1..(Len(events) - 1)
  <2>1. \A i \in 1..(Len(events) - 1) : Sooner(events[i + 1], d) \in Event
    BY <1>6, <1>7
  <2>2. Len(events) - 1 \in Nat
    BY <1>1
  <2>3. Later \in [1..(Len(events) - 1) -> Event]
    BY <1>5, <2>1
  <2> QED
    BY <2>2, <2>3
<1>9. QueueInOrder(Later)
  <2> SUFFICES ASSUME NEW i \in 1..(Len(events) - 1), NEW j \in 1..(Len(events) - 1), i < j
               PROVE  Later[i].in <= Later[j].in
    BY <1>8 DEF QueueInOrder
  <2>1. events[i + 1].in <= events[j + 1].in
    BY <1>1, <1>7 DEF QueueInOrder
  <2>2. Later[i].in = events[i + 1].in - d /\ Later[j].in = events[j + 1].in - d
    BY <1>6, <1>7
  <2> QED
    BY <1>4, <1>7, <2>1, <2>2
<1>10. \A x \in Scheduled(Later) : \E e \in Scheduled(events) : x = Sooner(e, d)
  BY <1>1, <1>7, <1>8 DEF Scheduled
<1>11. \A e \in Scheduled(events) : e = Head(events) \/ Sooner(e, d) \in Scheduled(Later)
  <2> SUFFICES ASSUME NEW i \in 1..Len(events)
               PROVE  events[i] = Head(events) \/ Sooner(events[i], d) \in Scheduled(Later)
    BY <1>1 DEF Scheduled
  <2>1. CASE i = 1
    BY <1>2, <2>1
  <2>2. CASE i # 1
    <3>1. i - 1 \in 1..(Len(events) - 1) /\ (i - 1) + 1 = i
      BY <1>1, <2>2
    <3>2. Later[i - 1] = Sooner(events[i], d)
      BY <1>7, <3>1
    <3> QED
      BY <1>8, <3>1, <3>2 DEF Scheduled
  <2> QED
    BY <2>1, <2>2
<1>12. ASSUME NEW k \in Stacks, NEW T \in {Starters(k), EventsOf(k)}, Once(events, T)
       PROVE  Once(Later, T) /\ (Head(events) \in T => Scheduled(Later) \cap T = {})
  <2>1. \A i \in 1..(Len(events) - 1) : Later[i] \in T <=> events[i + 1] \in T
    BY <1>6, <1>7, <1>12
  <2>2. \A x, y \in 1..Len(events) : events[x] \in T /\ events[y] \in T => x = y
    BY <1>1, <1>12 DEF Once
  <2>3. \A i, j \in 1..(Len(events) - 1) : Later[i] \in T /\ Later[j] \in T => i = j
    <3> SUFFICES ASSUME NEW i \in 1..(Len(events) - 1), NEW j \in 1..(Len(events) - 1),
                        Later[i] \in T, Later[j] \in T
                 PROVE  i = j
      OBVIOUS
    <3>1. i + 1 = j + 1
      BY <1>7, <2>1, <2>2
    <3> QED
      BY <3>1
  <2>4. ASSUME Head(events) \in T, NEW i \in 1..(Len(events) - 1), Later[i] \in T
        PROVE  FALSE
    <3>1. i + 1 = 1
      BY <1>2, <1>7, <2>1, <2>2, <2>4
    <3> QED
      BY <3>1
  <2> QED
    BY <1>8, <2>3, <2>4 DEF Once, Scheduled
<1>13. Head(events) \in Scheduled(events) /\ Head(events) \in Event
  BY <1>1, <1>2 DEF Scheduled
<1>14. \A e \in Scheduled(events) : e \in Event /\ Head(events).in <= e.in
  BY <1>1, <1>2, <1>3, <1>4 DEF Scheduled
<1>15. Head(events).in = d
  BY <1>2, <1>3
<1> QED
  BY <1>8, <1>9, <1>10, <1>11, <1>12, <1>13, <1>14, <1>15

\* The handover of stack k waits for its start; for its end.
Starting(k) == Scheduled(events) \cap Starters(k) # {}
Moving(k)   == Scheduled(events) \cap Triggers(k) # {}

\* A start of the NR stack is near and precedes the end of any handover, each
\* stack waits for one start at most, and the LTE stack for one event.
NrStartsFirst(q) ==
    \A e, f \in Scheduled(q) :
        e \in Starters("nr") /\ f.what = "trigger" => e.in < f.in
NrStartsSoon(q) ==
    \A e \in Scheduled(q) : e \in Starters("nr") => e.in <= Delta
Tidy(q) ==
    /\ q \in Seq(Event) /\ QueueInOrder(q)
    /\ Once(q, Starters("nr")) /\ Once(q, Starters("lte")) /\ Once(q, EventsOf("lte"))
    /\ NrStartsFirst(q) /\ NrStartsSoon(q)

\* Within a round nothing but starts is scheduled.
HearingOnly ==
    toHear # {} => \A e \in Scheduled(events) : e.what = "starter" /\ e.in = Delta

\* A start l of the LTE stack either coincides with any start of the NR stack, and
\* precedes the ends of handovers by the detachment latency, or it waits for a
\* detachment of the NR stack, which it forced and which ends before it.
InTime(l) ==
    \A e \in Scheduled(events) :
        /\ e \in Starters("nr") => e.in = l.in
        /\ e.what = "trigger" => e.in >= l.in + Detach
AfterDetachment(l) ==
    /\ candidateMaster["nr"] = NoBs
    /\ \/ master["nr"] = NoBs
       \/ \E e \in Scheduled(events) :
             /\ e.stack = "nr" /\ e.in < l.in
             /\ e.what = "starter" => l.in >= e.in + Detach + Delta
LteWaits ==
    \A l \in Scheduled(events) : l \in Starters("lte") => InTime(l) \/ AfterDetachment(l)

Queue == Tidy(events) /\ HearingOnly /\ LteWaits

\* Base stations have the technology of the stack that uses them.
Of(k, b) == b # NoBs => Tech(b) = k
Technologies ==
    /\ \A k \in Stacks : Of(k, master[k]) /\ Of(k, candidateMaster[k])
    /\ triggered["lte"] # Free => Of("lte", triggered["lte"][2])
\* A start has somewhere to go, and the binder knows of it.
StartersMove  == \A k \in Stacks : Starting(k) => candidateMaster[k] # master[k]
LteAnnounced  == Starting("lte") \/ Moving("lte") => triggered["lte"] # Free
\* Where the NR stack is going is its own master, nothing, or secondary to the
\* base station of the LTE stack, which then stays; and the LTE stack leaves only
\* a base station the NR stack does not depend on.
NrStartsLegally ==
    Starting("nr") => OfMaster(candidateMaster["nr"]) \in {candidateMaster["nr"], master["lte"]}
NrMovesLegally ==
    Moving("nr") =>
        \/ OfMaster(candidateMaster["nr"]) = candidateMaster["nr"]
        \/ /\ OfMaster(candidateMaster["nr"]) = master["lte"]
           /\ ~Starting("lte") /\ ~Moving("lte")
LteMovesLegally ==
    Moving("lte") /\ master["nr"] # NoBs => OfMaster(master["nr"]) # master["lte"]
\* A start of the NR stack during a handover of its own was forced.
Forced ==
    Starting("nr") /\ Moving("nr") =>
        /\ candidateMaster["nr"] = NoBs
        /\ \E e, l \in Scheduled(events) :
              e \in Starters("nr") /\ l \in Starters("lte") /\ e.in < l.in
Places ==
    /\ Technologies /\ StartersMove /\ LteAnnounced /\ NrStartsLegally
    /\ NrMovesLegally /\ LteMovesLegally /\ Forced

\* The UE's IP2Nic is ahead of the stack by one handover at most.
Nic ==
    \A k \in Stacks :
        /\ ~Moving(k) => nicMaster[k] = master[k]
        /\ Moving(k) /\ ~Starting(k) => nicMaster[k] = candidateMaster[k]
\* Uplink packets are held while a handover will release them, or the UE is left
\* with no master.
Leaving(k) ==
    \/ master[k] = NoBs
    \/ candidateMaster[k] = NoBs /\ (Starting(k) \/ Moving(k))
Hold ==
    ueHold =>
        /\ toHear # {} => \A k \in Stacks : master[k] = NoBs
        /\ \/ \E k \in Stacks : Moving(k) /\ nicMaster[k] # NoBs
           \/ \A k \in Stacks : Leaving(k)
           \/ Leaving("nr") /\ Starting("lte")
\* A base station forwards during the handover that told it to.
Forward ==
    \A k \in Stacks, b \in Bs : forwarding[k][b] # NoBs =>
        \/ k = "nr" /\ OfMaster(forwarding[k][b]) = forwarding[k][b]
        \/ Moving(k) /\ ~Starting(k) /\ master[k] = b /\ candidateMaster[k] = forwarding[k][b]
\* What cannot have ended the simulation.
Running ==
    /\ failure # "assertion"
    /\ AttachedAtStart => failure = "no" /\ \A b \in Bs : cellInfo[Tech(b)] # NoBs

UeInv ==
    /\ UeTypeOK /\ Queue /\ Places /\ SecondaryFollowsMaster
    /\ Nic /\ Hold /\ Forward /\ Running

-----------------------------------------------------------------------------
\* Queues.
LEMMA SoonerSound ==
    ASSUME NEW e \in Event, NEW d \in Nat, d <= e.in
    PROVE  /\ Sooner(e, d) \in Event /\ Sooner(e, d).in = e.in - d
           /\ Sooner(e, d).what = e.what /\ Sooner(e, d).stack = e.stack
           /\ \A k : /\ Sooner(e, d) \in Starters(k) <=> e \in Starters(k)
                     /\ Sooner(e, d) \in Triggers(k) <=> e \in Triggers(k)
                     /\ Sooner(e, d) \in EventsOf(k) <=> e \in EventsOf(k)
<1>1. e.in \in Nat /\ e.in - d \in Nat
  BY DEF Event
<1>2. Sooner(e, d) = [in |-> e.in - d, what |-> e.what, stack |-> e.stack]
  BY DEF Sooner, Event
<1>3. Sooner(e, d) \in Event
  BY <1>1, <1>2 DEF Event
<1> QED
  BY <1>2, <1>3 DEF Starters, Triggers, EventsOf

\* Kinds of events.
LEMMA Kinds ==
    ASSUME NEW e \in Event
    PROVE  /\ e.in \in Nat /\ e.what \in {"starter", "trigger"} /\ e.stack \in {"lte", "nr"}
           /\ \A k : /\ e \in Starters(k) <=> e.what = "starter" /\ e.stack = k
                     /\ e \in Triggers(k) <=> e.what = "trigger" /\ e.stack = k
                     /\ e \in EventsOf(k) <=> e.stack = k
BY DEF Event, Stacks, Starters, Triggers, EventsOf

LEMMA NewEvents ==
    ASSUME NEW k \in Stacks, NEW d \in Nat
    PROVE  /\ Starter(k, d) \in Event /\ Starter(k, d).in = d
           /\ Starter(k, d).what = "starter" /\ Starter(k, d).stack = k
           /\ Trigger(k, d) \in Event /\ Trigger(k, d).in = d
           /\ Trigger(k, d).what = "trigger" /\ Trigger(k, d).stack = k
BY DEF Event, Starter, Trigger

\* The elements of a queue are events.
LEMMA Elements ==
    ASSUME NEW q \in Seq(Event)
    PROVE  Scheduled(q) \subseteq Event
<1>1. DOMAIN q = 1..Len(q) /\ \A i \in 1..Len(q) : q[i] \in Event
  BY ElementOfSeq, LenProperties
<1> QED
  BY <1>1 DEF Scheduled

\* The queue after its first event.
LEMMA LaterTidy ==
    ASSUME Tidy(events), events # <<>>
    PROVE  /\ Tidy(Later)
           /\ Head(events) \in Scheduled(events) /\ Head(events) \in Event
           /\ \A e \in Scheduled(events) : e \in Event /\ Head(events).in <= e.in
           /\ \A x \in Scheduled(Later) : x \in Event /\
                 \E e \in Scheduled(events) :
                    /\ x = Sooner(e, Head(events).in) /\ x.in = e.in - Head(events).in
                    /\ x.what = e.what /\ x.stack = e.stack
           /\ \A e \in Scheduled(events) :
                 \/ e = Head(events)
                 \/ \E x \in Scheduled(Later) :
                       /\ x = Sooner(e, Head(events).in) /\ x.in = e.in - Head(events).in
                       /\ x.what = e.what /\ x.stack = e.stack
           /\ Head(events) \in Starters("nr") => Scheduled(Later) \cap Starters("nr") = {}
           /\ Head(events) \in EventsOf("lte") => Scheduled(Later) \cap EventsOf("lte") = {}
<1>1. /\ Head(events) \in Scheduled(events) /\ Head(events) \in Event
      /\ \A e \in Scheduled(events) : e \in Event /\ Head(events).in <= e.in
      /\ Later \in Seq(Event) /\ QueueInOrder(Later)
      /\ \A x \in Scheduled(Later) :
            \E e \in Scheduled(events) : x = Sooner(e, Head(events).in)
      /\ \A e \in Scheduled(events) :
            e = Head(events) \/ Sooner(e, Head(events).in) \in Scheduled(Later)
      /\ \A k \in Stacks : \A T \in {Starters(k), EventsOf(k)} : Once(events, T) =>
            /\ Once(Later, T)
            /\ Head(events) \in T => Scheduled(Later) \cap T = {}
  <2>1. events \in Seq(Event) /\ QueueInOrder(events)
    BY DEF Tidy
  <2> QED
    BY <2>1, LaterSound
<1>2. PICK d : d = Head(events).in
  OBVIOUS
<1>3. d \in Nat
  BY <1>1, <1>2, Kinds
<1>4. \A e \in Scheduled(events) :
         /\ Sooner(e, d).in = e.in - d /\ e.in \in Nat /\ Sooner(e, d) \in Event
         /\ Sooner(e, d).what = e.what /\ Sooner(e, d).stack = e.stack
         /\ \A k : Sooner(e, d) \in Starters(k) <=> e \in Starters(k)
  BY <1>1, <1>2, <1>3, SoonerSound, Kinds
<1>5. /\ Once(Later, Starters("nr")) /\ Once(Later, Starters("lte")) /\ Once(Later, EventsOf("lte"))
      /\ Head(events) \in Starters("nr") => Scheduled(Later) \cap Starters("nr") = {}
      /\ Head(events) \in EventsOf("lte") => Scheduled(Later) \cap EventsOf("lte") = {}
  <2>1. /\ Once(events, Starters("nr")) /\ Once(events, Starters("lte"))
        /\ Once(events, EventsOf("lte"))
    BY DEF Tidy
  <2>2. "nr" \in Stacks /\ "lte" \in Stacks
    BY DEF Stacks
  <2> QED
    BY <1>1, <2>1, <2>2
<1>6. NrStartsFirst(Later)
  <2> SUFFICES ASSUME NEW x \in Scheduled(Later), NEW y \in Scheduled(Later),
                      x \in Starters("nr"), y.what = "trigger"
               PROVE  x.in < y.in
    BY DEF NrStartsFirst
  <2>1. PICK e \in Scheduled(events) : x = Sooner(e, d)
    BY <1>1, <1>2
  <2>2. PICK f \in Scheduled(events) : y = Sooner(f, d)
    BY <1>1, <1>2
  <2>3. e.in < f.in
    BY <1>4, <2>1, <2>2 DEF Tidy, NrStartsFirst
  <2> QED
    BY <1>3, <1>4, <2>1, <2>2, <2>3
<1>7. NrStartsSoon(Later)
  <2> SUFFICES ASSUME NEW x \in Scheduled(Later), x \in Starters("nr")
               PROVE  x.in <= Delta
    BY DEF NrStartsSoon
  <2>1. PICK e \in Scheduled(events) : x = Sooner(e, d)
    BY <1>1, <1>2
  <2>2. e.in <= Delta
    BY <1>4, <2>1 DEF Tidy, NrStartsSoon
  <2> QED
    BY <1>3, <1>4, <2>1, <2>2 DEF Delta
<1>8. Tidy(Later)
  BY <1>1, <1>5, <1>6, <1>7 DEF Tidy
<1>9. \A x \in Scheduled(Later) : x \in Event /\
                 \E e \in Scheduled(events) :
                    /\ x = Sooner(e, Head(events).in) /\ x.in = e.in - Head(events).in
                    /\ x.what = e.what /\ x.stack = e.stack
  BY <1>1, <1>2, <1>4
<1>10. \A e \in Scheduled(events) :
                 \/ e = Head(events)
                 \/ \E x \in Scheduled(Later) :
                       /\ x = Sooner(e, Head(events).in) /\ x.in = e.in - Head(events).in
                       /\ x.what = e.what /\ x.stack = e.stack
  BY <1>1, <1>2, <1>4
<1> QED
  BY <1>1, <1>5, <1>8, <1>9, <1>10

\* The end of a handover takes its place.
LEMMA TidyTrigger ==
    ASSUME NEW q, Tidy(q), NEW k \in Stacks, NEW d \in Nat, d >= Detach,
           k = "lte" => Scheduled(q) \cap EventsOf("lte") = {}
    PROVE  /\ Tidy(Insert(q, Trigger(k, d)))
           /\ Scheduled(Insert(q, Trigger(k, d))) = Scheduled(q) \cup {Trigger(k, d)}
<1>1. PICK t : t = Trigger(k, d)
  OBVIOUS
<1>2. t \in Event /\ t.in = d /\ t.what = "trigger" /\ t.stack = k
  BY <1>1, NewEvents
<1>3. PICK r : r = Insert(q, t)
  OBVIOUS
<1>4. /\ r \in Seq(Event) /\ QueueInOrder(r) /\ Scheduled(r) = Scheduled(q) \cup {t}
      /\ \A S : Once(q, S) /\ (t \in S => Scheduled(q) \cap S = {}) => Once(r, S)
  BY <1>2, <1>3, InsertSound DEF Tidy
<1>5. t \notin Starters("nr") /\ t \notin Starters("lte") /\ (t \in EventsOf("lte") => k = "lte")
  BY <1>2, Kinds
<1>6. Once(r, Starters("nr")) /\ Once(r, Starters("lte")) /\ Once(r, EventsOf("lte"))
  BY <1>4, <1>5 DEF Tidy
<1>7. NrStartsSoon(r)
  BY <1>4, <1>5 DEF Tidy, NrStartsSoon
<1>8. NrStartsFirst(r)
  <2> SUFFICES ASSUME NEW e \in Scheduled(r), NEW f \in Scheduled(r),
                      e \in Starters("nr"), f.what = "trigger"
               PROVE  e.in < f.in
    BY DEF NrStartsFirst
  <2>1. e \in Scheduled(q)
    BY <1>4, <1>5
  <2>2. CASE f \in Scheduled(q)
    BY <2>1, <2>2 DEF Tidy, NrStartsFirst
  <2>3. CASE f = t
    <3>1. e.in <= Delta /\ e.in \in Nat
      BY <2>1, Kinds DEF Tidy, NrStartsSoon, Starters
    <3> QED
      BY <1>2, <2>3, <3>1, LatencyAssumption DEF Delta
  <2> QED
    BY <1>4, <2>2, <2>3
<1> QED
  BY <1>1, <1>3, <1>4, <1>6, <1>7, <1>8 DEF Tidy

\* Masters and secondary nodes.
LEMMA TechFacts ==
    /\ NoBs \notin Bs /\ OfMaster(NoBs) = NoBs
    /\ \A b \in Node :
         /\ OfMaster(b) \in Node /\ (OfMaster(b) = NoBs <=> b = NoBs)
         /\ Of("lte", b) => OfMaster(b) = b
         /\ OfMaster(b) # b => Of("nr", b) /\ Of("lte", OfMaster(b))
         /\ Of("lte", b) /\ Of("nr", b) => b = NoBs
    /\ \A b \in Bs : Tech(b) \in Stacks /\ Of(Tech(b), b) /\ OfMaster(b) = MasterNode[b]
    /\ \A k \in Stacks : Of(k, NoBs)
    /\ "nr" \in Stacks /\ "lte" \in Stacks /\ Stacks = {"nr", "lte"}
    /\ Other("nr") = "lte" /\ Other("lte") = "nr"
<1>1. NoBs \notin Bs /\ OfMaster(NoBs) = NoBs
  BY BsAssumption DEF OfMaster
<1>2. ASSUME NEW b \in Node
      PROVE  /\ OfMaster(b) \in Node /\ (OfMaster(b) = NoBs <=> b = NoBs)
             /\ Of("lte", b) => OfMaster(b) = b
             /\ OfMaster(b) # b => Of("nr", b) /\ Of("lte", OfMaster(b))
             /\ Of("lte", b) /\ Of("nr", b) => b = NoBs
  BY <1>1, ConstantsAssumption DEF OfMaster, Of, Tech, Node
<1>3. \A b \in Bs : Tech(b) \in Stacks /\ Of(Tech(b), b) /\ OfMaster(b) = MasterNode[b]
  BY <1>1 DEF Tech, Stacks, Of, OfMaster
<1> QED
  BY <1>1, <1>2, <1>3 DEF Stacks, Other, Of

\* Which events are left.
LEMMA LaterKinds ==
    ASSUME Tidy(events), events # <<>>, NEW k \in Stacks
    PROVE  /\ Scheduled(Later) \cap Starters(k) # {} => Starting(k)
           /\ Scheduled(Later) \cap Triggers(k) # {} => Moving(k)
           /\ Starting(k) /\ Head(events) \notin Starters(k) =>
                 Scheduled(Later) \cap Starters(k) # {}
           /\ Moving(k) /\ Head(events) \notin Triggers(k) =>
                 Scheduled(Later) \cap Triggers(k) # {}
           /\ Head(events) \in Starters(k) => Starting(k)
           /\ Head(events) \in Triggers(k) => Moving(k)
<1>1. /\ Head(events) \in Scheduled(events)
      /\ \A e \in Scheduled(events) : e \in Event
      /\ \A x \in Scheduled(Later) : x \in Event /\
            \E e \in Scheduled(events) : x.what = e.what /\ x.stack = e.stack
      /\ \A e \in Scheduled(events) :
            \/ e = Head(events)
            \/ \E x \in Scheduled(Later) : x.what = e.what /\ x.stack = e.stack
  BY LaterTidy
<1>2. ASSUME NEW x \in Scheduled(Later), x \in Starters(k) PROVE Starting(k)
  <2>1. PICK e \in Scheduled(events) : x.what = e.what /\ x.stack = e.stack
    BY <1>1
  <2>2. e \in Starters(k)
    BY <1>1, <1>2, <2>1, Kinds
  <2> QED
    BY <2>2 DEF Starting
<1>3. ASSUME NEW x \in Scheduled(Later), x \in Triggers(k) PROVE Moving(k)
  <2>1. PICK e \in Scheduled(events) : x.what = e.what /\ x.stack = e.stack
    BY <1>1
  <2>2. e \in Triggers(k)
    BY <1>1, <1>3, <2>1, Kinds
  <2> QED
    BY <2>2 DEF Moving
<1>4. ASSUME Starting(k), Head(events) \notin Starters(k)
      PROVE  Scheduled(Later) \cap Starters(k) # {}
  <2>1. PICK e \in Scheduled(events) : e \in Starters(k)
    BY <1>4 DEF Starting
  <2>2. PICK x \in Scheduled(Later) : x.what = e.what /\ x.stack = e.stack
    BY <1>1, <1>4, <2>1
  <2>3. x \in Starters(k)
    BY <1>1, <2>1, <2>2, Kinds
  <2> QED
    BY <2>3
<1>5. ASSUME Moving(k), Head(events) \notin Triggers(k)
      PROVE  Scheduled(Later) \cap Triggers(k) # {}
  <2>1. PICK e \in Scheduled(events) : e \in Triggers(k)
    BY <1>5 DEF Moving
  <2>2. PICK x \in Scheduled(Later) : x.what = e.what /\ x.stack = e.stack
    BY <1>1, <1>5, <2>1
  <2>3. x \in Triggers(k)
    BY <1>1, <2>1, <2>2, Kinds
  <2> QED
    BY <2>3
<1> QED
  BY <1>1, <1>2, <1>3, <1>4, <1>5 DEF Starting, Moving

\* A waiting start of the LTE stack keeps its place when the first event, if it
\* is not a start of the NR stack, has occurred.
LEMMA LaterInTime ==
    ASSUME Tidy(events), events # <<>>, NEW l \in Scheduled(events), InTime(l)
    PROVE  /\ \A x \in Scheduled(Later) :
                 /\ x \in Starters("nr") => x.in = l.in - Head(events).in
                 /\ x.what = "trigger" => x.in >= l.in - Head(events).in + Detach
           /\ Head(events) \in Starters("nr") => l.in = Head(events).in
<1>1. PICK d : d = Head(events).in
  OBVIOUS
<1>2. /\ Head(events) \in Scheduled(events)
      /\ \A e \in Scheduled(events) : e \in Event /\ d <= e.in
      /\ \A x \in Scheduled(Later) : x \in Event /\
            \E e \in Scheduled(events) : x.in = e.in - d /\ x.what = e.what /\ x.stack = e.stack
  BY <1>1, LaterTidy
<1>3. d \in Nat /\ l.in \in Nat
  BY <1>1, <1>2, Kinds
<1>4. ASSUME NEW x \in Scheduled(Later)
      PROVE  /\ x \in Starters("nr") => x.in = l.in - d
             /\ x.what = "trigger" => x.in >= l.in - d + Detach
  <2>1. PICK e \in Scheduled(events) : x.in = e.in - d /\ x.what = e.what /\ x.stack = e.stack
    BY <1>2
  <2>2. x \in Event /\ e \in Event /\ e.in \in Nat
    BY <1>2, Kinds
  <2>3. x \in Starters("nr") => e \in Starters("nr")
    BY <2>1, <2>2, Kinds
  <2>4. /\ e \in Starters("nr") => e.in = l.in
        /\ e.what = "trigger" => e.in >= l.in + Detach
    BY DEF InTime
  <2>5. x.in = e.in - d
    BY <2>1
  <2>6. x.what = "trigger" => x.in >= l.in - d + Detach
    BY <1>3, <2>1, <2>2, <2>4, <2>5, LatencyAssumption
  <2> QED
    BY <2>3, <2>4, <2>5, <2>6
<1>5. Head(events) \in Starters("nr") => l.in = d
  BY <1>1, <1>2 DEF InTime
<1> QED
  BY <1>1, <1>4, <1>5

-----------------------------------------------------------------------------
(* The invariant, action by action. *)
LEMMA InitUeInv == UeInit => UeInv
<1> SUFFICES ASSUME UeInit PROVE UeInv
  OBVIOUS
<1>1. events = <<>> /\ toHear = {} /\ Scheduled(events) = {}
  BY DEF UeInit, Scheduled
<1>2. \A k : ~Starting(k) /\ ~Moving(k)
  BY <1>1 DEF Starting, Moving
<1>3. UeTypeOK
  <2>1. <<>> \in Seq([in : Nat, what : {"starter", "trigger"}, stack : Stacks])
    OBVIOUS
  <2>2. Never \in Int /\ 0 \in Int /\ NoBs \in Node /\ Free = <<>>
    BY DEF Never, Node, Free
  <2>3. {Never} \cup Levels \subseteq Int
    BY <2>2, ConstantsAssumption
  <2>4. candidateRssi \in [Stacks -> Int] /\ currentRssi \in [Stacks -> Int]
    BY <2>3 DEF UeInit
  <2> QED
    BY <2>1, <2>2, <2>4 DEF UeInit, UeTypeOK
<1>4. Queue
  <2>1. events \in Seq(Event) /\ QueueInOrder(events) /\ \A S : Once(events, S)
    BY <1>1 DEF QueueInOrder, Once
  <2> QED
    BY <1>1, <2>1 DEF Queue, Tidy, NrStartsFirst, NrStartsSoon, HearingOnly, LteWaits
<1>5. Places
  <2>1. Technologies
    <3>1. triggered["lte"] = Free
      BY TechFacts DEF UeInit
    <3> QED
      BY <3>1 DEF UeInit, Technologies, Of
  <2> QED
    BY <1>2, <2>1 DEF Places, StartersMove, LteAnnounced, NrStartsLegally, NrMovesLegally,
       LteMovesLegally, Forced
<1>6. SecondaryFollowsMaster
  BY DEF UeInit, SecondaryFollowsMaster
<1>7. Nic /\ Hold
  BY <1>2 DEF UeInit, Nic, Hold
<1>8. Forward
  BY DEF UeInit, Forward
<1>9. Running
  BY DEF UeInit, Running
<1> QED
  BY <1>3, <1>4, <1>5, <1>6, <1>7, <1>8, <1>9 DEF UeInv

LEMMA NewRoundUeInv ==
    ASSUME UeInv, NewRound
    PROVE  UeInv'
<1>1. /\ events = <<>> /\ toHear' = Bs
      /\ UNCHANGED <<phyVars, events, triggered, nicVars, failure>>
  BY DEF NewRound
<1>2. Scheduled(events) = {} /\ Scheduled(events') = {}
  BY <1>1 DEF Scheduled
<1>3. \A k : ~Starting(k) /\ ~Moving(k) /\ ~Starting(k)' /\ ~Moving(k)'
  BY <1>2 DEF Starting, Moving
<1>4. UeTypeOK'
  BY <1>1 DEF UeInv, UeTypeOK, phyVars, nicVars
<1>5. Queue'
  BY <1>1, <1>2 DEF UeInv, Queue, Tidy, HearingOnly, LteWaits, NrStartsFirst, NrStartsSoon
<1>6. Places'
  <2>1. Technologies'
    BY <1>1 DEF UeInv, Places, Technologies, phyVars
  <2> QED
    BY <1>3, <2>1 DEF Places, StartersMove, LteAnnounced, NrStartsLegally, NrMovesLegally,
       LteMovesLegally, Forced
<1>7. SecondaryFollowsMaster' /\ Running'
  BY <1>1 DEF UeInv, SecondaryFollowsMaster, Running, phyVars
<1>8. Nic' /\ Hold'
  BY <1>1, <1>3 DEF UeInv, Nic, Hold, Leaving, phyVars, nicVars
<1>9. Forward'
  BY <1>1, <1>3 DEF UeInv, Forward, phyVars, nicVars
<1> QED
  BY <1>4, <1>5, <1>6, <1>7, <1>8, <1>9 DEF UeInv

\* While broadcasts arrive every event is a start that is handoverDelta_ away.
AllStart(q) == \A e \in Scheduled(q) : e.what = "starter" /\ e.in = Delta

\* scheduleAt and cancelEvent for a start.
LEMMA ScheduledOnceTidy ==
    ASSUME NEW q, Tidy(q), AllStart(q), NEW k \in Stacks
    PROVE  /\ Tidy(ScheduledOnce(q, k)) /\ AllStart(ScheduledOnce(q, k))
           /\ Scheduled(ScheduledOnce(q, k)) \cap Starters(k) # {}
           /\ \A j \in Stacks : j # k =>
                 (Scheduled(ScheduledOnce(q, k)) \cap Starters(j) # {}
                  <=> Scheduled(q) \cap Starters(j) # {})
<1>1. q \in Seq(Event) /\ QueueInOrder(q) /\ Scheduled(q) \subseteq Event
  BY Elements DEF Tidy
<1>2. StarterScheduled(q, k) <=> Scheduled(q) \cap Starters(k) # {}
  <2>1. \A i \in DOMAIN q : q[i] \in Event
    BY <1>1 DEF Scheduled
  <2>2. \A i \in DOMAIN q : IsStarterOf(q[i], k) <=> q[i] \in Starters(k)
    BY <2>1 DEF IsStarterOf, Starters
  <2> QED
    BY <2>2 DEF StarterScheduled, Scheduled
<1>3. CASE StarterScheduled(q, k)
  BY <1>2, <1>3 DEF ScheduledOnce
<1>4. CASE ~StarterScheduled(q, k)
  <2>1. PICK s : s = Starter(k, Delta)
    OBVIOUS
  <2>2. s \in Event /\ s.in = Delta /\ s.what = "starter" /\ s.stack = k
    BY <2>1, NewEvents DEF Delta
  <2>3. PICK r : r = Insert(q, s)
    OBVIOUS
  <2>4. ScheduledOnce(q, k) = r
    BY <1>4, <2>1, <2>3 DEF ScheduledOnce
  <2>5. /\ r \in Seq(Event) /\ QueueInOrder(r) /\ Scheduled(r) = Scheduled(q) \cup {s}
        /\ \A S : Once(q, S) /\ (s \in S => Scheduled(q) \cap S = {}) => Once(r, S)
    BY <1>1, <2>2, <2>3, InsertSound
  <2>6. \A j : s \in Starters(j) <=> j = k
    BY <2>2, Kinds
  <2>7. Scheduled(q) \cap Starters(k) = {}
    BY <1>2, <1>4
  <2>8. s \in EventsOf("lte") => Scheduled(q) \cap EventsOf("lte") = {}
    <3>1. ASSUME NEW e \in Scheduled(q), e \in EventsOf("lte"), s \in EventsOf("lte")
          PROVE  FALSE
      <4>1. e \in Event /\ e.what = "starter" /\ e.stack = "lte" /\ k = "lte"
        BY <1>1, <2>2, <3>1, Kinds DEF AllStart
      <4>2. e \in Starters(k)
        BY <4>1, Kinds
      <4> QED
        BY <2>7, <4>2
    <3> QED
      BY <3>1
  <2>9. Once(r, Starters("nr")) /\ Once(r, Starters("lte")) /\ Once(r, EventsOf("lte"))
    BY <2>5, <2>6, <2>7, <2>8 DEF Tidy
  <2>10. AllStart(r)
    BY <2>2, <2>5 DEF AllStart
  <2>11. NrStartsFirst(r) /\ NrStartsSoon(r)
    BY <2>10 DEF AllStart, NrStartsFirst, NrStartsSoon, Delta
  <2> QED
    BY <2>4, <2>5, <2>6, <2>9, <2>10, <2>11 DEF Tidy
<1> QED
  BY <1>3, <1>4

LEMMA CancelTidy ==
    ASSUME NEW q, Tidy(q), NEW k \in Stacks
    PROVE  /\ Tidy(CancelStarter(q, k))
           /\ Scheduled(CancelStarter(q, k)) = Scheduled(q) \ Starters(k)
<1>1. Once(q, Starters(k)) /\ q \in Seq(Event) /\ QueueInOrder(q)
  BY DEF Tidy, Stacks
<1>2. PICK r : r = CancelStarter(q, k)
  OBVIOUS
<1>3. /\ r \in Seq(Event) /\ QueueInOrder(r) /\ Scheduled(r) = Scheduled(q) \ Starters(k)
      /\ \A S : Once(q, S) => Once(r, S)
  BY <1>1, <1>2, CancelSound
<1>4. Tidy(r)
  BY <1>3 DEF Tidy, NrStartsFirst, NrStartsSoon
<1> QED
  BY <1>2, <1>3, <1>4

\* What hearing a broadcast leaves alone, and what it has to establish.
LEMMA HearingUeInv ==
    ASSUME UeInv, toHear # {}, UeTypeOK',
           UNCHANGED <<master, cellInfo, nicVars, failure>>,
           Tidy(events'), AllStart(events'),
           Technologies', StartersMove', LteAnnounced', NrStartsLegally'
    PROVE  UeInv'
<1>1. AllStart(events) /\ Scheduled(events) \subseteq Event /\ Scheduled(events') \subseteq Event
  <2>1. events \in Seq(Event) /\ events' \in Seq(Event)
    BY DEF UeInv, Queue, Tidy
  <2> QED
    BY <2>1, Elements DEF UeInv, Queue, HearingOnly, AllStart
<1>2. \A k : ~Moving(k) /\ ~Moving(k)'
  <2>1. \A k : ~Moving(k)
    BY <1>1, Kinds DEF AllStart, Moving
  <2>2. ASSUME NEW k PROVE ~Moving(k)'
    <3>1. \A e \in Scheduled(events') : e \notin Triggers(k)
      BY <1>1, Kinds DEF AllStart
    <3> QED
      BY <3>1 DEF Moving
  <2> QED
    BY <2>1, <2>2
<1>3. Queue'
  <2>1. HearingOnly'
    BY DEF HearingOnly, AllStart
  <2>2. LteWaits'
    <3> SUFFICES ASSUME NEW l \in Scheduled(events'), l \in Starters("lte")
                 PROVE  InTime(l)'
      BY DEF LteWaits
    <3>1. \A e \in Scheduled(events') : e.in = l.in /\ e.what # "trigger"
      BY DEF AllStart
    <3> QED
      BY <3>1 DEF InTime
  <2> QED
    BY <2>1, <2>2 DEF Queue
<1>4. NrMovesLegally' /\ LteMovesLegally' /\ Forced'
  BY <1>2 DEF NrMovesLegally, LteMovesLegally, Forced
<1>5. SecondaryFollowsMaster' /\ Running'
  BY DEF UeInv, SecondaryFollowsMaster, Running
<1>6. Nic'
  BY <1>2 DEF UeInv, Nic, nicVars
<1>7. Hold'
  BY <1>2 DEF UeInv, Hold, Leaving, nicVars
<1>8. Forward'
  BY <1>2 DEF UeInv, Forward, nicVars
<1> QED
  BY <1>3, <1>4, <1>5, <1>6, <1>7, <1>8 DEF UeInv, Places

\* An entry in the binder is an entry.
LEMMA PairNotFree == \A x, y : <<x, y>> # Free
<1> SUFFICES ASSUME NEW x, NEW y, <<x, y>> = <<>> PROVE FALSE
  BY DEF Free
<1>1. Len(<<x, y>>) = 2 /\ Len(<<>>) = 0
  OBVIOUS
<1> QED
  BY <1>1

\* Levels stay levels.
LEMMA LevelSet ==
    ASSUME NEW f \in [Stacks -> Int], NEW k, NEW v \in Int, NEW g,
           g = [f EXCEPT ![k] = v]
    PROVE  g \in [Stacks -> Int]
OBVIOUS

\* A broadcast moves, adds or cancels a start of its own stack.
LEMMA HearUeInv ==
    ASSUME UeInv, NEW b \in Bs, NEW level \in Levels, Hear(b, level)
    PROVE  UeInv'
<1> DEFINE k == Tech(b)
<1>1. /\ toHear # {} /\ toHear' \in SUBSET Bs /\ b \in Node
      /\ UNCHANGED <<nicVars, failure>>
      /\ \/ HearNothing(b, level)
         \/ HearBetterCandidate(b, level)
         \/ HearBetterMaster(b, level)
         \/ HearMaster(b, level)
  BY DEF Hear, UeInv, UeTypeOK, Node
<1>2. /\ UeTypeOK /\ Tidy(events) /\ AllStart(events) /\ Technologies /\ StartersMove
      /\ LteAnnounced /\ NrStartsLegally
  BY <1>1 DEF UeInv, Queue, HearingOnly, AllStart, Places
<1>3. /\ k \in Stacks /\ Of(k, b) /\ Of(k, NoBs) /\ OfMaster(b) = MasterNode[b]
      /\ OfMaster(NoBs) = NoBs /\ "nr" \in Stacks /\ "lte" \in Stacks /\ b # NoBs
      /\ NoBs \in Node /\ (k = "nr" => Other(k) = "lte") /\ Stacks = {"nr", "lte"}
  BY TechFacts DEF Node
<1>4. level \in Int
  BY ConstantsAssumption
<1>5. \A q : Tidy(q) => q \in Seq([in : Nat, what : {"starter", "trigger"}, stack : Stacks])
  BY DEF Tidy, Event
<1>6. CASE HearNothing(b, level)
  <2>1. UNCHANGED <<phyVars, events, triggered>>
    BY <1>6 DEF HearNothing
  <2>2. UeTypeOK'
    BY <1>1, <1>2, <2>1 DEF UeTypeOK, phyVars, nicVars
  <2>3. Technologies' /\ StartersMove' /\ LteAnnounced' /\ NrStartsLegally'
    <3>1. \A j : (Starting(j)' <=> Starting(j)) /\ (Moving(j)' <=> Moving(j))
      BY <2>1 DEF Starting, Moving
    <3> QED
      BY <1>2, <2>1, <3>1 DEF Technologies, StartersMove, LteAnnounced, NrStartsLegally, phyVars
  <2>4. UNCHANGED <<master, cellInfo, nicVars, failure>> /\ Tidy(events') /\ AllStart(events')
    BY <1>1, <1>2, <2>1 DEF phyVars
  <2> QED
    BY <1>1, <2>2, <2>3, <2>4, HearingUeInv
<1>7. ASSUME UNCHANGED <<master, cellInfo>>, events' = ScheduledOnce(events, k),
             NEW c \in Node, candidateMaster' = [candidateMaster EXCEPT ![k] = c],
             triggered' = [triggered EXCEPT ![k] = <<master[k], c>>],
             candidateRssi' \in [Stacks -> Int], hysteresis' \in [Stacks -> Int],
             currentRssi' \in [Stacks -> Int],
             Of(k, c), c # master[k],
             k = "nr" => OfMaster(c) \in {c, master["lte"]}
      PROVE  UeInv'
  <2>1. /\ Tidy(events') /\ AllStart(events') /\ Scheduled(events') \cap Starters(k) # {}
        /\ \A j \in Stacks : j # k =>
              (Scheduled(events') \cap Starters(j) # {} <=> Scheduled(events) \cap Starters(j) # {})
    BY <1>2, <1>3, <1>7, ScheduledOnceTidy
  <2>2. \A j \in Stacks : j # k => (Starting(j)' <=> Starting(j))
    BY <2>1 DEF Starting
  <2>3. UeTypeOK'
    <3>1. <<master[k], c>> \in Node \X Node
      BY <1>2, <1>3 DEF UeTypeOK
    <3>2. triggered' \in [Stacks -> {Free} \cup (Node \X Node)]
      BY <1>2, <1>3, <1>7, <3>1 DEF UeTypeOK
    <3>3. candidateMaster' \in [Stacks -> Node]
      BY <1>2, <1>3, <1>7 DEF UeTypeOK
    <3> QED
      BY <1>1, <1>2, <1>5, <1>7, <2>1, <3>2, <3>3 DEF UeTypeOK, nicVars
  <2>4. /\ candidateMaster'[k] = c /\ triggered'[k] = <<master[k], c>>
        /\ \A j \in Stacks : j # k => candidateMaster'[j] = candidateMaster[j] /\ triggered'[j] = triggered[j]
    BY <1>2, <1>3, <1>7 DEF UeTypeOK
  <2>5. Technologies'
    <3>1. \A j \in Stacks : Of(j, candidateMaster[j])' <=> Of(j, candidateMaster'[j])
      BY DEF Of
    <3>2. Of(k, c)
      BY <1>7
    <3> QED
      BY <1>2, <1>3, <1>7, <2>4, <3>1, <3>2 DEF Technologies, Of
  <2>6. StartersMove'
    BY <1>2, <1>7, <2>2, <2>4 DEF StartersMove
  <2>7. LteAnnounced'
    <3>1. ~Moving("lte")'
      <4>1. Scheduled(events') \subseteq Event
        BY <2>1, Elements DEF Tidy
      <4>2. \A e \in Scheduled(events') : e \notin Triggers("lte")
        BY <2>1, <4>1, Kinds DEF AllStart
      <4> QED
        BY <4>2 DEF Moving
    <3>2. k = "lte" => triggered'["lte"] # Free
      BY <2>4, PairNotFree
    <3>3. CASE k = "lte"
      BY <3>2, <3>3 DEF LteAnnounced
    <3>4. CASE k # "lte"
      <4>1. triggered'["lte"] = triggered["lte"] /\ (Starting("lte")' <=> Starting("lte"))
        BY <1>3, <2>2, <2>4, <3>4
      <4> QED
        BY <1>2, <3>1, <4>1 DEF LteAnnounced
    <3> QED
      BY <3>3, <3>4
  <2>8. NrStartsLegally'
    <3>1. CASE k = "nr"
      <4>1. OfMaster(candidateMaster["nr"])' = OfMaster(c)
        BY <2>4, <3>1 DEF OfMaster
      <4> QED
        BY <1>7, <2>4, <3>1, <4>1 DEF NrStartsLegally
    <3>2. CASE k # "nr"
      <4>1. candidateMaster'["nr"] = candidateMaster["nr"] /\ (Starting("nr")' <=> Starting("nr"))
        BY <1>3, <2>2, <2>4, <3>2
      <4> QED
        BY <1>2, <1>7, <4>1 DEF NrStartsLegally, OfMaster
    <3> QED
      BY <3>1, <3>2
  <2> QED
    BY <1>1, <1>7, <2>1, <2>3, <2>5, <2>6, <2>7, <2>8, HearingUeInv
<1>8. CASE HearBetterCandidate(b, level)
  <2>1. /\ UNCHANGED <<master, cellInfo>> /\ events' = ScheduledOnce(events, k)
        /\ candidateMaster' = [candidateMaster EXCEPT ![k] = b]
        /\ triggered' = [triggered EXCEPT ![k] = <<master[k], b>>]
        /\ b # master[k] /\ Eligible(b)
        /\ candidateRssi' = [candidateRssi EXCEPT ![k] = level]
        /\ hysteresis' = [hysteresis EXCEPT ![k] = level] /\ currentRssi' = currentRssi
    BY <1>8 DEF HearBetterCandidate
  <2>2. /\ candidateRssi' \in [Stacks -> Int] /\ hysteresis' \in [Stacks -> Int]
        /\ currentRssi' \in [Stacks -> Int]
    BY <1>2, <1>4, <2>1 DEF UeTypeOK
  <2>3. k = "nr" => OfMaster(b) \in {b, master["lte"]}
    BY <1>3, <2>1 DEF Eligible
  <2> HIDE DEF k
  <2> QED
    BY <1>1, <1>3, <1>7, <2>1, <2>2, <2>3
<1>9. CASE HearBetterMaster(b, level)
  <2>1. /\ UNCHANGED <<master, cellInfo, triggered>> /\ events' = CancelStarter(events, k)
        /\ candidateMaster' = [candidateMaster EXCEPT ![k] = b]
        /\ candidateRssi' = [candidateRssi EXCEPT ![k] = level]
        /\ hysteresis' = [hysteresis EXCEPT ![k] = level]
        /\ currentRssi' = [currentRssi EXCEPT ![k] = level]
    BY <1>9 DEF HearBetterMaster
  <2>2. /\ candidateRssi' \in [Stacks -> Int] /\ hysteresis' \in [Stacks -> Int]
        /\ currentRssi' \in [Stacks -> Int]
    BY <1>2, <1>4, <2>1 DEF UeTypeOK
  <2>3. Tidy(events') /\ Scheduled(events') = Scheduled(events) \ Starters(k)
    BY <1>2, <1>3, <2>1, CancelTidy
  <2>4. AllStart(events')
    BY <1>2, <2>3 DEF AllStart
  <2>5. UeTypeOK'
    <3>1. candidateMaster' \in [Stacks -> Node]
      BY <1>1, <1>2, <2>1 DEF UeTypeOK
    <3> QED
      BY <1>1, <1>2, <1>5, <2>1, <2>2, <2>3, <3>1 DEF UeTypeOK, nicVars
  <2>6. /\ candidateMaster'[k] = b
        /\ \A j \in Stacks : j # k => candidateMaster'[j] = candidateMaster[j]
    BY <1>2, <1>3, <2>1 DEF UeTypeOK
  <2>7. ~Starting(k)' /\ \A j : (Starting(j)' => Starting(j)) /\ (Moving(j)' => Moving(j))
    BY <2>3 DEF Starting, Moving
  <2>8. Technologies'
    <3>1. \A j \in Stacks : Of(j, candidateMaster[j])' <=> Of(j, candidateMaster'[j])
      BY DEF Of
    <3> HIDE DEF k
    <3> QED
      BY <1>2, <1>3, <2>1, <2>6, <3>1 DEF Technologies, Of
  <2>9. StartersMove'
    BY <1>2, <2>1, <2>6, <2>7 DEF StartersMove
  <2>10. LteAnnounced'
    BY <1>2, <2>1, <2>7 DEF LteAnnounced
  <2>11. NrStartsLegally'
    <3>1. CASE k = "nr"
      BY <2>7, <3>1 DEF NrStartsLegally
    <3>2. CASE k # "nr"
      BY <1>2, <1>3, <2>1, <2>6, <2>7, <3>2 DEF NrStartsLegally, OfMaster
    <3> QED
      BY <3>1, <3>2
  <2> HIDE DEF k
  <2> QED
    BY <1>1, <2>1, <2>3, <2>4, <2>5, <2>8, <2>9, <2>10, <2>11, HearingUeInv
<1>10. CASE HearMaster(b, level)
  <2>0. \/ events' = events /\ UNCHANGED <<candidateMaster, triggered>>
        \/ /\ candidateMaster[k] = b
           /\ candidateMaster' = [candidateMaster EXCEPT ![k] = NoBs]
           /\ candidateRssi' = [candidateRssi EXCEPT ![k] = 0]
           /\ hysteresis' = [hysteresis EXCEPT ![k] = 0]
           /\ triggered' = [triggered EXCEPT ![k] = <<b, NoBs>>]
           /\ events' = ScheduledOnce(events, k)
           /\ currentRssi' = currentRssi
    BY <1>10 DEF HearMaster
  <2>1. b = master[k] /\ UNCHANGED <<master, cellInfo>>
    BY <1>10 DEF HearMaster
  <2>2. CASE events' = events /\ UNCHANGED <<candidateMaster, triggered>>
    <3>1. UeTypeOK'
      <4>1. /\ candidateRssi' \in [Stacks -> Int] /\ hysteresis' \in [Stacks -> Int]
            /\ currentRssi' \in [Stacks -> Int]
        <5>1. \/ /\ currentRssi' = [currentRssi EXCEPT ![k] = level]
                 /\ candidateRssi' = [candidateRssi EXCEPT ![k] = level]
                 /\ hysteresis' = [hysteresis EXCEPT ![k] = level]
              \/ /\ candidateRssi' = [candidateRssi EXCEPT ![k] = 0]
                 /\ hysteresis' = [hysteresis EXCEPT ![k] = 0]
                 /\ currentRssi' = currentRssi
              \/ UNCHANGED <<candidateRssi, hysteresis, currentRssi>>
          BY <1>10, <2>2 DEF HearMaster
        <5>2. /\ candidateRssi \in [Stacks -> Int] /\ hysteresis \in [Stacks -> Int]
              /\ currentRssi \in [Stacks -> Int]
          BY <1>2 DEF UeTypeOK
        <5> HIDE DEF k
        <5> QED
          BY <1>4, <5>1, <5>2, LevelSet
      <4> QED
        BY <1>1, <1>2, <2>1, <2>2, <4>1 DEF UeTypeOK, nicVars
    <3>2. \A j : (Starting(j)' <=> Starting(j)) /\ (Moving(j)' <=> Moving(j))
      BY <2>2 DEF Starting, Moving
    <3>3. Technologies' /\ StartersMove' /\ LteAnnounced' /\ NrStartsLegally'
      BY <1>2, <2>1, <2>2, <3>2
         DEF Technologies, StartersMove, LteAnnounced, NrStartsLegally, Of, OfMaster
    <3> QED
      BY <1>1, <1>2, <2>1, <2>2, <3>1, <3>3, HearingUeInv
  <2>3. CASE /\ candidateMaster[k] = b
             /\ candidateMaster' = [candidateMaster EXCEPT ![k] = NoBs]
             /\ candidateRssi' = [candidateRssi EXCEPT ![k] = 0]
             /\ hysteresis' = [hysteresis EXCEPT ![k] = 0]
             /\ triggered' = [triggered EXCEPT ![k] = <<b, NoBs>>]
             /\ events' = ScheduledOnce(events, k)
             /\ currentRssi' = currentRssi
    <3>1. /\ candidateRssi' \in [Stacks -> Int] /\ hysteresis' \in [Stacks -> Int]
          /\ currentRssi' \in [Stacks -> Int]
      <4>1. /\ candidateRssi \in [Stacks -> Int] /\ hysteresis \in [Stacks -> Int]
            /\ currentRssi \in [Stacks -> Int]
        BY <1>2 DEF UeTypeOK
      <4>2. 0 \in Int
        OBVIOUS
      <4>3. /\ candidateRssi' = [candidateRssi EXCEPT ![k] = 0]
            /\ hysteresis' = [hysteresis EXCEPT ![k] = 0] /\ currentRssi' = currentRssi
        BY <2>3
      <4> HIDE DEF k
      <4>4. candidateRssi' \in [Stacks -> Int]
        BY <4>1, <4>2, <4>3, LevelSet
      <4>5. hysteresis' \in [Stacks -> Int]
        BY <4>1, <4>2, <4>3, LevelSet
      <4> QED
        BY <4>1, <4>3, <4>4, <4>5
    <3> HIDE DEF k
    <3> QED
      BY <1>1, <1>3, <1>7, <2>1, <2>3, <3>1
  <2> QED
    BY <2>0, <2>2, <2>3
<1> HIDE DEF k
<1> QED
  BY <1>1, <1>6, <1>8, <1>9, <1>10

\* What the first event is.
LEMMA OccursFacts ==
    ASSUME UeInv, NEW k \in Stacks, NEW what \in {"starter", "trigger"}, Occurs(what, k)
    PROVE  /\ failure = "no" /\ toHear = {} /\ events # <<>> /\ Tidy(events)
           /\ Head(events) \in Scheduled(events) /\ Head(events) \in Event
           /\ Head(events).what = what /\ Head(events).stack = k /\ Head(events).in \in Nat
           /\ \A e \in Scheduled(events) : e \in Event /\ e.in \in Nat /\ Head(events).in <= e.in
           /\ what = "starter" => Head(events) \in Starters(k)
           /\ what = "trigger" => Head(events) \in Triggers(k)
           /\ Head(events) \in EventsOf(k)
<1>1. /\ failure = "no" /\ toHear = {} /\ events # <<>> /\ Tidy(events)
      /\ Head(events).what = what /\ Head(events).stack = k
  BY DEF Occurs, UeInv, Queue
<1>2. /\ Head(events) \in Scheduled(events) /\ Head(events) \in Event
      /\ \A e \in Scheduled(events) : e \in Event /\ Head(events).in <= e.in
  BY <1>1, LaterTidy
<1> QED
  BY <1>1, <1>2, Kinds

\* A stack that starts its handover leaves it with one event at most, and the
\* LTE stack has one event at most.
LEMMA FirstIsAlone ==
    ASSUME Tidy(events), events # <<>>
    PROVE  /\ \A k \in Stacks : Head(events) \in Starters(k) =>
                 /\ Scheduled(Later) \cap Starters(k) = {}
                 /\ \A e \in Scheduled(events) : e \in Starters(k) => e = Head(events)
           /\ Head(events) \in Starters("lte") =>
                 ~Moving("lte") /\ Scheduled(Later) \cap EventsOf("lte") = {}
           /\ Head(events) \in Triggers("lte") =>
                 ~Starting("lte") /\ Scheduled(Later) \cap EventsOf("lte") = {}
           /\ \A k \in Stacks : Head(events) \in Triggers(k) => ~Starting("nr")
<1>1. /\ Head(events) \in Scheduled(events) /\ Head(events) \in Event
      /\ \A e \in Scheduled(events) : e \in Event /\ Head(events).in <= e.in
      /\ Head(events) \in Starters("nr") => Scheduled(Later) \cap Starters("nr") = {}
      /\ Head(events) \in EventsOf("lte") => Scheduled(Later) \cap EventsOf("lte") = {}
      /\ \A x \in Scheduled(Later) : x \in Event
  BY LaterTidy
<1>2. ASSUME NEW S, Once(events, S), NEW e \in Scheduled(events), NEW f \in Scheduled(events),
             e \in S, f \in S
      PROVE  e = f
  BY <1>2 DEF Once, Scheduled
<1>3. /\ Once(events, Starters("nr")) /\ Once(events, Starters("lte"))
      /\ Once(events, EventsOf("lte")) /\ NrStartsFirst(events)
  BY DEF Tidy
<1>4. \A k : Starters(k) \subseteq EventsOf(k) /\ Triggers(k) \subseteq EventsOf(k)
  BY DEF Starters, Triggers, EventsOf
<1>5. \A k \in Stacks : Head(events) \in Starters(k) => Scheduled(Later) \cap Starters(k) = {}
  BY <1>1, <1>4 DEF Stacks
<1>6. \A k \in Stacks : Head(events) \in Starters(k) =>
          \A e \in Scheduled(events) : e \in Starters(k) => e = Head(events)
  BY <1>1, <1>2, <1>3 DEF Stacks
<1>7. Head(events) \in EventsOf("lte") =>
          \A e \in Scheduled(events) : e \in EventsOf("lte") => e = Head(events)
  BY <1>1, <1>2, <1>3
<1>8. Starters("lte") \cap Triggers("lte") = {}
  BY DEF Starters, Triggers
<1>9. Head(events) \in Starters("lte") => ~Moving("lte")
  BY <1>4, <1>7, <1>8 DEF Moving
<1>10. Head(events) \in Triggers("lte") => ~Starting("lte")
  BY <1>4, <1>7, <1>8 DEF Starting
<1>11. ASSUME NEW k \in Stacks, Head(events) \in Triggers(k) PROVE ~Starting("nr")
  <2> SUFFICES ASSUME NEW e \in Scheduled(events), e \in Starters("nr") PROVE FALSE
    BY DEF Starting
  <2>1. e.in < Head(events).in
    <3>1. Head(events).what = "trigger"
      BY <1>11 DEF Triggers
    <3> QED
      BY <1>1, <1>3, <3>1 DEF NrStartsFirst
  <2>2. Head(events).in <= e.in /\ e.in \in Nat /\ Head(events).in \in Nat
    BY <1>1, Kinds
  <2> QED
    BY <2>1, <2>2
<1> QED
  BY <1>1, <1>4, <1>5, <1>6, <1>9, <1>10, <1>11

\* The end of a handover takes effect where its start said, for no start of the NR
\* stack comes between them and the LTE stack has no other event.
LEMMA DoHandoverUeInv ==
    ASSUME UeInv, NEW k \in Stacks, DoHandoverOf(k)
    PROVE  UeInv'
<1> DEFINE m == master[k]
           c == candidateMaster[k]
<1>1. /\ Occurs("trigger", k) /\ events' = Later
      /\ master' = [master EXCEPT ![k] = c]
      /\ currentRssi' = [currentRssi EXCEPT ![k] = candidateRssi[k]]
      /\ hysteresis' = [hysteresis EXCEPT ![k] = candidateRssi[k]]
      /\ cellInfo' = IF c # NoBs THEN [cellInfo EXCEPT ![k] = c] ELSE cellInfo
      /\ failure' = IF c # NoBs /\ cellInfo[k] = NoBs THEN "null pointer" ELSE "no"
      /\ triggered' = [triggered EXCEPT ![k] = Free]
      /\ ueHold' = (ueHold /\ nicMaster[k] = NoBs)
      /\ forwarding' = IF m # NoBs /\ c # NoBs
                       THEN [forwarding EXCEPT ![k][m] = NoBs] ELSE forwarding
      /\ UNCHANGED <<candidateMaster, candidateRssi, nicMaster, toHear>>
  BY DEF DoHandoverOf, airVars
<1>2. /\ UeTypeOK /\ Queue /\ Tidy(events) /\ Technologies /\ StartersMove /\ LteAnnounced
      /\ NrStartsLegally /\ NrMovesLegally /\ LteMovesLegally /\ Forced
      /\ SecondaryFollowsMaster /\ Nic /\ Hold /\ Forward /\ Running
  BY DEF UeInv, Places, Queue
<1>3. /\ toHear = {} /\ events # <<>> /\ Head(events) \in Triggers(k)
      /\ Head(events).what = "trigger" /\ Head(events).stack = k /\ Head(events).in \in Nat
      /\ \A e \in Scheduled(events) : e \in Event /\ e.in \in Nat /\ Head(events).in <= e.in
  BY <1>1, OccursFacts
<1>4. Tidy(events')
  BY <1>1, <1>2, <1>3, LaterTidy
<1>5. \A j \in Stacks : j # k =>
          (Starting(j)' <=> Starting(j)) /\ (Moving(j)' <=> Moving(j))
  <2>1. ASSUME NEW j \in Stacks, j # k
        PROVE  (Starting(j)' <=> Starting(j)) /\ (Moving(j)' <=> Moving(j))
    <3>1. Head(events) \notin Starters(j) /\ Head(events) \notin Triggers(j)
      BY <1>3, <2>1 DEF Starters, Triggers
    <3> QED
      BY <1>1, <1>2, <1>3, <3>1, LaterKinds DEF Starting, Moving
  <2> QED
    BY <2>1
<1>6. /\ Moving(k) /\ ~Starting("nr") /\ ~Starting("nr")' /\ ~Starting(k) /\ ~Starting(k)'
      /\ k = "lte" => ~Starting("lte")' /\ ~Moving("lte")'
      /\ \A j \in Stacks : (Starting(j)' => Starting(j)) /\ (Moving(j)' => Moving(j))
  <2>1. Moving(k) /\ ~Starting("nr") /\ (k = "lte" => ~Starting("lte"))
    BY <1>2, <1>3, LaterKinds, FirstIsAlone
  <2>2. \A j \in Stacks : (Starting(j)' => Starting(j)) /\ (Moving(j)' => Moving(j))
    BY <1>1, <1>2, <1>3, LaterKinds DEF Starting, Moving
  <2>3. k = "lte" => Scheduled(events') \cap EventsOf("lte") = {}
    BY <1>1, <1>2, <1>3, FirstIsAlone
  <2>4. Triggers("lte") \subseteq EventsOf("lte")
    BY DEF Triggers, EventsOf
  <2>5. k = "lte" => ~Moving("lte")'
    BY <2>3, <2>4 DEF Moving
  <2> QED
    BY <2>1, <2>2, <2>5 DEF Stacks
<1>7. /\ "nr" \in Stacks /\ "lte" \in Stacks /\ Stacks = {"nr", "lte"} /\ NoBs \notin Bs
      /\ \A j \in Stacks : Of(j, NoBs)
  BY TechFacts
<1>8. /\ c \in Node /\ m \in Node /\ Of(k, c) /\ Of(k, m)
      /\ master'[k] = c /\ \A j \in Stacks : j # k => master'[j] = master[j]
      /\ triggered'[k] = Free /\ \A j \in Stacks : j # k => triggered'[j] = triggered[j]
  BY <1>1, <1>2 DEF UeTypeOK, Technologies
<1>9. UeTypeOK'
  <2>1. master' \in [Stacks -> Node] /\ cellInfo' \in [Stacks -> Node]
    BY <1>1, <1>2, <1>8 DEF UeTypeOK
  <2>2. currentRssi' \in [Stacks -> Int] /\ hysteresis' \in [Stacks -> Int]
    BY <1>1, <1>2 DEF UeTypeOK
  <2>3. events' \in Seq([in : Nat, what : {"starter", "trigger"}, stack : Stacks])
    BY <1>4 DEF Tidy, Event
  <2>4. triggered' \in [Stacks -> {Free} \cup (Node \X Node)]
    BY <1>1, <1>2 DEF UeTypeOK
  <2>5. forwarding' \in [Stacks -> [Bs -> Node]]
    <3>1. NoBs \in Node
      BY DEF Node
    <3>2. CASE m # NoBs /\ c # NoBs
      <4>1. forwarding[k] \in [Bs -> Node]
        BY <1>2 DEF UeTypeOK
      <4>2. [forwarding[k] EXCEPT ![m] = NoBs] \in [Bs -> Node]
        BY <3>1, <4>1
      <4>3. forwarding' = [forwarding EXCEPT ![k] = [forwarding[k] EXCEPT ![m] = NoBs]]
        BY <1>1, <3>2
      <4> QED
        BY <1>2, <4>2, <4>3 DEF UeTypeOK
    <3>3. CASE ~(m # NoBs /\ c # NoBs)
      BY <1>1, <1>2, <3>3 DEF UeTypeOK
    <3> QED
      BY <3>2, <3>3
  <2>6. ueHold' \in BOOLEAN /\ failure' \in {"no", "assertion", "null pointer"}
    BY <1>1
  <2> QED
    BY <1>1, <1>2, <2>1, <2>2, <2>3, <2>4, <2>5, <2>6 DEF UeTypeOK
<1>10. Queue'
  <2>1. HearingOnly'
    BY <1>1, <1>3 DEF HearingOnly
  <2>2. LteWaits'
    <3> SUFFICES ASSUME NEW x \in Scheduled(events'), x \in Starters("lte")
                 PROVE  InTime(x)' \/ AfterDetachment(x)'
      BY DEF LteWaits
    <3>1. k = "nr"
      <4>1. Starting("lte")'
        BY DEF Starting
      <4> QED
        BY <1>6, <1>7, <4>1
    <3>2. PICK l \in Scheduled(events) :
              x.in = l.in - Head(events).in /\ x.what = l.what /\ x.stack = l.stack /\ x \in Event
      BY <1>1, <1>2, <1>3, LaterTidy
    <3>3. l \in Starters("lte")
      BY <1>3, <3>2, Kinds
    <3>4. CASE InTime(l)
      <4>1. \A y \in Scheduled(events') :
                /\ y \in Starters("nr") => y.in = x.in
                /\ y.what = "trigger" => y.in >= x.in + Detach
        BY <1>1, <1>2, <1>3, <3>2, <3>4, LaterInTime
      <4> QED
        BY <4>1 DEF InTime
    <3>5. CASE AfterDetachment(l)
      <4>1. candidateMaster["nr"] = NoBs
        BY <3>5 DEF AfterDetachment
      <4>2. candidateMaster'["nr"] = NoBs /\ master'["nr"] = NoBs
        BY <1>1, <1>8, <3>1, <4>1
      <4> QED
        BY <4>2 DEF AfterDetachment
    <3> QED
      BY <1>2, <3>3, <3>4, <3>5 DEF Queue, LteWaits
  <2> QED
    BY <1>4, <2>1, <2>2 DEF Queue
<1>11. Technologies'
  <2>1. \A j \in Stacks : Of(j, master'[j]) /\ Of(j, candidateMaster'[j])
    BY <1>1, <1>2, <1>8 DEF Technologies
  <2>2. triggered'["lte"] # Free => Of("lte", triggered'["lte"][2])
    BY <1>2, <1>7, <1>8 DEF Technologies
  <2> QED
    BY <2>1, <2>2 DEF Technologies, Of
<1>12. StartersMove'
  BY <1>1, <1>2, <1>6, <1>8 DEF StartersMove
<1>13. LteAnnounced'
  <2>1. CASE k = "lte"
    BY <1>6, <2>1 DEF LteAnnounced
  <2>2. CASE k # "lte"
    <3>1. triggered'["lte"] = triggered["lte"]
      BY <1>7, <1>8, <2>2
    <3>2. (Starting("lte")' => Starting("lte")) /\ (Moving("lte")' => Moving("lte"))
      BY <1>6, <1>7
    <3> QED
      BY <1>2, <3>1, <3>2 DEF LteAnnounced
  <2> QED
    BY <2>1, <2>2
<1>14. NrStartsLegally' /\ Forced'
  BY <1>6 DEF NrStartsLegally, Forced
<1>15. Moving("nr") =>
          /\ \/ OfMaster(candidateMaster["nr"]) = candidateMaster["nr"]
             \/ OfMaster(candidateMaster["nr"]) = master["lte"] /\ ~Starting("lte") /\ ~Moving("lte")
          /\ k = "lte" => OfMaster(candidateMaster["nr"]) = candidateMaster["nr"]
  BY <1>2, <1>6 DEF NrMovesLegally
<1>16. NrMovesLegally'
  <2> SUFFICES ASSUME Moving("nr")'
               PROVE  \/ OfMaster(candidateMaster["nr"])' = candidateMaster'["nr"]
                      \/ /\ OfMaster(candidateMaster["nr"])' = master'["lte"]
                         /\ ~Starting("lte")' /\ ~Moving("lte")'
    BY DEF NrMovesLegally
  <2>1. Moving("nr") /\ OfMaster(candidateMaster["nr"])' = OfMaster(candidateMaster["nr"])
        /\ candidateMaster'["nr"] = candidateMaster["nr"]
    BY <1>1, <1>6, <1>7 DEF OfMaster
  <2>2. CASE OfMaster(candidateMaster["nr"]) = candidateMaster["nr"]
    BY <2>1, <2>2
  <2>3. CASE OfMaster(candidateMaster["nr"]) # candidateMaster["nr"]
    <3>1. k = "nr" /\ OfMaster(candidateMaster["nr"]) = master["lte"] /\ ~Starting("lte") /\ ~Moving("lte")
      BY <1>7, <1>15, <2>1, <2>3
    <3>2. master'["lte"] = master["lte"]
      BY <1>7, <1>8, <3>1
    <3> QED
      BY <1>6, <1>7, <2>1, <3>1, <3>2
  <2> QED
    BY <2>2, <2>3
<1>17. LteMovesLegally' /\ SecondaryFollowsMaster'
  <2>1. CASE k = "lte"
    <3>1. ~Moving("lte")' /\ Moving("lte") /\ master'["nr"] = master["nr"]
      BY <1>6, <1>7, <1>8, <2>1
    <3>2. LteMovesLegally'
      BY <3>1 DEF LteMovesLegally
    <3>3. master["nr"] # NoBs => OfMaster(master["nr"]) = master["nr"]
      BY <1>2, <3>1 DEF LteMovesLegally, SecondaryFollowsMaster
    <3> QED
      BY <3>1, <3>2, <3>3 DEF SecondaryFollowsMaster, OfMaster
  <2>2. CASE k = "nr"
    <3>1. /\ Moving("nr") /\ master'["nr"] = candidateMaster["nr"] /\ master'["lte"] = master["lte"]
          /\ Moving("lte")' => Moving("lte")
      BY <1>6, <1>7, <1>8, <2>2
    <3>2. OfMaster(master'["nr"]) \in {master'["nr"], master'["lte"]}
      BY <1>15, <3>1 DEF OfMaster
    <3>3. OfMaster(master["nr"])' = OfMaster(master'["nr"])
      BY DEF OfMaster
    <3>4. SecondaryFollowsMaster'
      BY <3>2, <3>3 DEF SecondaryFollowsMaster
    <3>5. ASSUME Moving("lte")', master'["nr"] # NoBs
          PROVE  OfMaster(master'["nr"]) # master'["lte"]
      <4>1. OfMaster(master'["nr"]) = master'["nr"]
        BY <1>15, <3>1, <3>5 DEF OfMaster
      <4>2. master'["nr"] \in Node /\ Of("nr", master'["nr"]) /\ Of("lte", master["lte"])
        BY <1>2, <1>7, <1>8, <2>2 DEF Technologies
      <4> QED
        BY <3>1, <3>5, <4>1, <4>2, TechFacts
    <3>6. LteMovesLegally'
      BY <3>3, <3>5 DEF LteMovesLegally
    <3> QED
      BY <3>4, <3>6
  <2> QED
    BY <1>7, <2>1, <2>2
<1>18. Nic'
  <2> SUFFICES ASSUME NEW j \in Stacks
               PROVE  /\ ~Moving(j)' => nicMaster'[j] = master'[j]
                      /\ Moving(j)' /\ ~Starting(j)' => nicMaster'[j] = candidateMaster'[j]
    BY DEF Nic
  <2>1. CASE j = k
    <3>1. nicMaster[k] = candidateMaster[k]
      BY <1>2, <1>6 DEF Nic
    <3> QED
      BY <1>1, <1>8, <2>1, <3>1
  <2>2. CASE j # k
    BY <1>1, <1>2, <1>5, <1>8, <2>2 DEF Nic
  <2> QED
    BY <2>1, <2>2
<1>19. Hold'
  <2> SUFFICES ASSUME ueHold'
               PROVE  \/ \E j \in Stacks : Moving(j)' /\ nicMaster'[j] # NoBs
                      \/ \A j \in Stacks : Leaving(j)'
                      \/ Leaving("nr")' /\ Starting("lte")'
    BY <1>1, <1>3 DEF Hold
  <2>1. ueHold /\ nicMaster[k] = NoBs
    BY <1>1
  <2>2. master'[k] = NoBs /\ Leaving(k)'
    <3>1. nicMaster[k] = candidateMaster[k]
      BY <1>2, <1>6 DEF Nic
    <3>2. master'[k] = NoBs
      BY <1>8, <2>1, <3>1
    <3> QED
      BY <3>2 DEF Leaving
  <2>3. \A j \in Stacks : Leaving(j) => Leaving(j)'
    <3> SUFFICES ASSUME NEW j \in Stacks, j # k, Leaving(j) PROVE Leaving(j)'
      BY <2>2
    <3> QED
      BY <1>1, <1>5, <1>8 DEF Leaving
  <2>4. CASE \E j \in Stacks : Moving(j) /\ nicMaster[j] # NoBs
    BY <1>1, <1>5, <2>1, <2>4
  <2>5. CASE \A j \in Stacks : Leaving(j)
    BY <2>3, <2>5
  <2>6. CASE Leaving("nr") /\ Starting("lte")
    <3>1. k = "nr"
      BY <1>6, <1>7, <2>6
    <3> QED
      BY <1>5, <1>7, <2>2, <2>6, <3>1
  <2> QED
    BY <1>2, <2>1, <2>4, <2>5, <2>6 DEF Hold
<1>20. Forward'
  <2> SUFFICES ASSUME NEW j \in Stacks, NEW b \in Bs, forwarding'[j][b] # NoBs,
                      ~(j = "nr" /\ OfMaster(forwarding'[j][b]) = forwarding'[j][b])
               PROVE  Moving(j)' /\ ~Starting(j)' /\ master'[j] = b /\ candidateMaster'[j] = forwarding'[j][b]
    BY DEF Forward, OfMaster
  <2>1. forwarding'[j][b] = forwarding[j][b] /\ ~(j = k /\ b = m /\ c # NoBs)
    <3>1. CASE m # NoBs /\ c # NoBs
      <4>1. forwarding' = [forwarding EXCEPT ![k][m] = NoBs] /\ m \in Bs
        BY <1>1, <1>8, <3>1 DEF Node
      <4> HIDE DEF m, c
      <4>2. forwarding'[j][b] = IF j = k /\ b = m THEN NoBs ELSE forwarding[j][b]
        BY <1>2, <4>1 DEF UeTypeOK
      <4> QED
        BY <4>2
    <3>2. CASE ~(m # NoBs /\ c # NoBs)
      <4>1. forwarding' = forwarding
        BY <1>1, <3>2
      <4> QED
        BY <1>7, <3>2, <4>1
    <3> QED
      BY <3>1, <3>2
  <2>2. Moving(j) /\ ~Starting(j) /\ master[j] = b /\ candidateMaster[j] = forwarding[j][b]
    BY <1>2, <2>1 DEF Forward
  <2>3. j # k
    BY <2>1, <2>2
  <2> QED
    BY <1>1, <1>5, <1>8, <2>1, <2>2, <2>3
<1>21. Running'
  <2>1. AttachedAtStart => \A b \in Bs : cellInfo[Tech(b)] # NoBs
    BY <1>2 DEF Running
  <2>4. c # NoBs => c \in Bs /\ Tech(c) = k
    BY <1>2 DEF UeTypeOK, Node, Technologies, Of
  <2>2. AttachedAtStart => failure' = "no"
    BY <1>1, <2>1, <2>4
  <2>5. \A b \in Bs : Tech(b) \in Stacks
    BY DEF Tech, Stacks
  <2>3. AttachedAtStart => \A b \in Bs : cellInfo'[Tech(b)] # NoBs
    BY <1>1, <1>2, <2>1, <2>5 DEF UeTypeOK
  <2> QED
    BY <1>1, <2>2, <2>3 DEF Running
<1> QED
  BY <1>9, <1>10, <1>11, <1>12, <1>13, <1>14, <1>16, <1>17, <1>18, <1>19, <1>20, <1>21 DEF UeInv, Places

\* What holds when a start occurs.
LEMMA StarterFacts ==
    ASSUME UeInv, NEW k \in Stacks, StarterOccurs(k)
    PROVE  /\ Occurs("starter", k) /\ failure = "no" /\ failure' = "no" /\ toHear = {}
           /\ events # <<>> /\ Tidy(events) /\ Head(events) \in Starters(k)
           /\ Head(events) \in Scheduled(events) /\ Head(events).in \in Nat
           /\ \A e \in Scheduled(events) : e \in Event /\ e.in \in Nat /\ Head(events).in <= e.in
           /\ Starting(k) /\ candidateMaster[k] # master[k]
           /\ Tidy(Later) /\ Scheduled(Later) \cap Starters(k) = {}
           /\ \A e \in Scheduled(events) : e \in Starters(k) => e = Head(events)
           /\ k = "lte" => ~Moving("lte") /\ Scheduled(Later) \cap EventsOf("lte") = {}
           /\ \A j \in Stacks : j # k => (Scheduled(Later) \cap Starters(j) # {} <=> Starting(j))
           /\ \A j \in Stacks : Scheduled(Later) \cap Triggers(j) # {} <=> Moving(j)
<1>1. Occurs("starter", k) /\ failure' = IF candidateMaster[k] = master[k] THEN "assertion" ELSE "no"
  BY DEF StarterOccurs
<1>2. /\ failure = "no" /\ toHear = {} /\ events # <<>> /\ Tidy(events)
      /\ Head(events) \in Scheduled(events) /\ Head(events) \in Event
      /\ Head(events).what = "starter" /\ Head(events).stack = k /\ Head(events).in \in Nat
      /\ \A e \in Scheduled(events) : e \in Event /\ e.in \in Nat /\ Head(events).in <= e.in
      /\ Head(events) \in Starters(k)
  BY <1>1, OccursFacts
<1>3. Starting(k)
  BY <1>2 DEF Starting
<1>4. candidateMaster[k] # master[k]
  BY <1>3 DEF UeInv, Places, StartersMove
<1>5. Tidy(Later)
  BY <1>2, LaterTidy
<1>6. /\ Scheduled(Later) \cap Starters(k) = {}
      /\ \A e \in Scheduled(events) : e \in Starters(k) => e = Head(events)
      /\ k = "lte" => ~Moving("lte") /\ Scheduled(Later) \cap EventsOf("lte") = {}
  BY <1>2, FirstIsAlone
<1>7. \A j \in Stacks : j # k => (Scheduled(Later) \cap Starters(j) # {} <=> Starting(j))
  <2>1. \A j \in Stacks : j # k => Head(events) \notin Starters(j)
    BY <1>2 DEF Starters
  <2> QED
    BY <1>2, <2>1, LaterKinds
<1>8. \A j \in Stacks : Scheduled(Later) \cap Triggers(j) # {} <=> Moving(j)
  <2>1. \A j \in Stacks : Head(events) \notin Triggers(j)
    BY <1>2 DEF Triggers
  <2> QED
    BY <1>2, <2>1, LaterKinds
<1> QED
  BY <1>1, <1>2, <1>3, <1>4, <1>5, <1>6, <1>7, <1>8

\* The parts of the invariant, one by one.
LEMMA UeParts ==
    ASSUME UeInv
    PROVE  /\ UeTypeOK /\ Queue /\ Tidy(events) /\ Technologies /\ StartersMove /\ LteAnnounced
           /\ NrStartsLegally /\ NrMovesLegally /\ LteMovesLegally /\ Forced
           /\ SecondaryFollowsMaster /\ Nic /\ Hold /\ Forward /\ Running
BY DEF UeInv, Places, Queue

\* Only the NR stack yields, and it gives its handover up.
LEMMA YieldsUeInv ==
    ASSUME UeInv, NEW k \in Stacks, TriggerYields(k)
    PROVE  UeInv'
<1>1. /\ StarterOccurs(k) /\ MasterIsBusy(k)
      /\ UNCHANGED <<phyVars, nicVars, airVars>>
  BY DEF TriggerYields
<1>2. /\ UeTypeOK /\ Queue /\ Tidy(events) /\ Technologies /\ StartersMove /\ LteAnnounced
      /\ NrStartsLegally /\ NrMovesLegally /\ LteMovesLegally /\ Forced
      /\ SecondaryFollowsMaster /\ Nic /\ Hold /\ Forward /\ Running
  BY UeParts
<1>3. /\ failure' = "no" /\ toHear = {} /\ events # <<>> /\ Head(events) \in Starters(k)
      /\ Tidy(Later) /\ Scheduled(Later) \cap Starters(k) = {}
      /\ \A e \in Scheduled(events) : e \in Event /\ e.in \in Nat /\ Head(events).in <= e.in
      /\ \A j \in Stacks : j # k => (Scheduled(Later) \cap Starters(j) # {} <=> Starting(j))
      /\ \A j \in Stacks : Scheduled(Later) \cap Triggers(j) # {} <=> Moving(j)
      /\ Starting(k)
  BY <1>1, StarterFacts
<1>4. /\ "nr" \in Stacks /\ "lte" \in Stacks /\ Stacks = {"nr", "lte"} /\ NoBs \notin Bs
      /\ \A b \in Node :
         /\ Of("lte", b) => OfMaster(b) = b
         /\ OfMaster(b) # b => Of("nr", b)
         /\ Of("lte", b) /\ Of("nr", b) => b = NoBs
      /\ OfMaster(NoBs) = NoBs
  BY TechFacts
<1>5. /\ candidateMaster["lte"] \in Node /\ candidateMaster["nr"] \in Node
      /\ Of("lte", candidateMaster["lte"]) /\ Of("nr", candidateMaster["nr"])
  BY <1>2, <1>4 DEF UeTypeOK, Technologies
<1>6. k = "nr" /\ OfMaster(candidateMaster["nr"]) # candidateMaster["nr"] /\ triggered["lte"] # Free
      /\ candidateMaster["nr"] # NoBs
  <2>1. OfMaster(candidateMaster[k]) # candidateMaster[k] /\ triggered[Other(k)] # Free
    BY <1>1 DEF MasterIsBusy
  <2>2. k = "nr"
    BY <1>4, <1>5, <2>1
  <2> QED
    BY <1>4, <2>1, <2>2, TechFacts
<1>7. events' = Later /\ triggered' = [triggered EXCEPT !["nr"] = Free]
  <2>1. triggered["lte"][2] # candidateMaster["nr"]
    <3>1. Of("lte", triggered["lte"][2])
      BY <1>2, <1>6 DEF Technologies
    <3> QED
      BY <1>4, <1>5, <1>6, <3>1
  <2>2. Other(k) = "lte"
    BY <1>6, TechFacts
  <2> QED
    BY <1>6, <2>1, <2>2 DEF TriggerYields
<1>8. /\ UNCHANGED <<master, candidateMaster, candidateRssi, currentRssi, hysteresis, cellInfo>>
      /\ UNCHANGED <<nicMaster, ueHold, forwarding>> /\ toHear' = toHear
  BY <1>1 DEF phyVars, nicVars, airVars
<1>9. /\ ~Starting("nr")' /\ (Starting("lte")' <=> Starting("lte"))
      /\ \A j \in Stacks : Moving(j)' <=> Moving(j)
  BY <1>3, <1>4, <1>6, <1>7 DEF Starting, Moving
<1>10. ~Moving("nr")
  BY <1>2, <1>3, <1>6 DEF Forced
<1>11. triggered'["lte"] = triggered["lte"]
  BY <1>2, <1>4, <1>7 DEF UeTypeOK
<1>12. UeTypeOK'
  <2>1. events' \in Seq([in : Nat, what : {"starter", "trigger"}, stack : Stacks])
    BY <1>3, <1>7 DEF Tidy, Event
  <2>2. triggered' \in [Stacks -> {Free} \cup (Node \X Node)]
    BY <1>2, <1>7 DEF UeTypeOK
  <2> QED
    BY <1>2, <1>3, <1>8, <2>1, <2>2 DEF UeTypeOK
<1>13. Queue'
  <2>1. HearingOnly' /\ Tidy(events')
    BY <1>3, <1>7, <1>8 DEF HearingOnly
  <2>2. LteWaits'
    <3> SUFFICES ASSUME NEW x \in Scheduled(events'), x \in Starters("lte")
                 PROVE  InTime(x)'
      BY DEF LteWaits
    <3>1. PICK l \in Scheduled(events) :
              x.in = l.in - Head(events).in /\ x.what = l.what /\ x.stack = l.stack /\ x \in Event
      BY <1>2, <1>3, <1>7, LaterTidy
    <3>2. l \in Starters("lte")
      BY <1>3, <3>1, Kinds
    <3>3. InTime(l)
      BY <1>2, <1>6, <3>2 DEF Queue, LteWaits, AfterDetachment
    <3>4. \A y \in Scheduled(events') :
                /\ y \in Starters("nr") => y.in = x.in
                /\ y.what = "trigger" => y.in >= x.in + Detach
      BY <1>2, <1>3, <1>7, <3>1, <3>3, LaterInTime
    <3> QED
      BY <3>4 DEF InTime
  <2> QED
    BY <2>1, <2>2 DEF Queue
<1>14. Technologies'
  BY <1>2, <1>8, <1>11 DEF Technologies, Of
<1>15. StartersMove'
  BY <1>2, <1>4, <1>8, <1>9 DEF StartersMove
<1>16. LteAnnounced' /\ NrStartsLegally' /\ Forced'
  BY <1>6, <1>9, <1>11 DEF LteAnnounced, NrStartsLegally, Forced
<1>17. NrMovesLegally'
  BY <1>4, <1>9, <1>10 DEF NrMovesLegally
<1>18. LteMovesLegally' /\ SecondaryFollowsMaster' /\ Running'
  BY <1>2, <1>3, <1>4, <1>8, <1>9 DEF LteMovesLegally, SecondaryFollowsMaster, Running, OfMaster
<1>19. Nic'
  <2> SUFFICES ASSUME NEW j \in Stacks
               PROVE  /\ ~Moving(j)' => nicMaster'[j] = master'[j]
                      /\ Moving(j)' /\ ~Starting(j)' => nicMaster'[j] = candidateMaster'[j]
    BY DEF Nic
  <2>1. CASE j = "nr"
    BY <1>2, <1>8, <1>9, <1>10, <2>1 DEF Nic
  <2>2. CASE j = "lte"
    BY <1>2, <1>8, <1>9, <2>2 DEF Nic
  <2> QED
    BY <1>4, <2>1, <2>2
<1>20. Hold'
  <2> SUFFICES ASSUME ueHold
               PROVE  \/ \E j \in Stacks : Moving(j)' /\ nicMaster'[j] # NoBs
                      \/ \A j \in Stacks : Leaving(j)'
                      \/ Leaving("nr")' /\ Starting("lte")'
    BY <1>3, <1>8 DEF Hold
  <2>1. \A j \in Stacks : Leaving(j) => Leaving(j)'
    <3>1. Leaving("nr") => Leaving("nr")'
      BY <1>6, <1>8 DEF Leaving
    <3>2. Leaving("lte") => Leaving("lte")'
      BY <1>4, <1>8, <1>9 DEF Leaving
    <3> QED
      BY <1>4, <3>1, <3>2
  <2>2. \/ \E j \in Stacks : Moving(j) /\ nicMaster[j] # NoBs
        \/ \A j \in Stacks : Leaving(j)
        \/ Leaving("nr") /\ Starting("lte")
    BY <1>2 DEF Hold
  <2> QED
    BY <1>4, <1>8, <1>9, <2>1, <2>2
<1>21. Forward'
  <2> SUFFICES ASSUME NEW j \in Stacks, NEW b \in Bs, forwarding[j][b] # NoBs,
                      ~(j = "nr" /\ OfMaster(forwarding[j][b]) = forwarding[j][b])
               PROVE  Moving(j)' /\ ~Starting(j)' /\ master'[j] = b /\ candidateMaster'[j] = forwarding'[j][b]
    BY <1>8 DEF Forward, OfMaster
  <2>1. Moving(j) /\ ~Starting(j) /\ master[j] = b /\ candidateMaster[j] = forwarding[j][b]
    BY <1>2 DEF Forward
  <2> QED
    BY <1>4, <1>8, <1>9, <2>1
<1> QED
  BY <1>12, <1>13, <1>14, <1>15, <1>16, <1>17, <1>18, <1>19, <1>20, <1>21 DEF UeInv, Places

\* A handover that starts ends after everything that must precede it.
LEMMA HandoverStartsUeInv ==
    ASSUME UeInv, NEW k \in Stacks, TriggerHandoverOf(k)
    PROVE  UeInv'
<1> DEFINE m == master[k]
           c == candidateMaster[k]
<1>1. PICK latency : latency = (IF m # NoBs THEN Detach ELSE 0) + (IF c # NoBs THEN Attach ELSE 0)
  OBVIOUS
<1>2. /\ StarterOccurs(k) /\ ~MasterIsBusy(k) /\ ~SecondaryAttached(k)
      /\ nicMaster' = [nicMaster EXCEPT ![k] = c]
      /\ ueHold' = (ueHold \/ c # NoBs)
      /\ forwarding' = IF m # NoBs /\ c # NoBs
                       THEN [forwarding EXCEPT ![k][m] = c] ELSE forwarding
      /\ events' = Insert(Later, Trigger(k, latency))
      /\ UNCHANGED <<phyVars, triggered, airVars>>
  BY <1>1 DEF TriggerHandoverOf, NicMaster
<1>3. /\ UeTypeOK /\ Queue /\ Tidy(events) /\ Technologies /\ StartersMove /\ LteAnnounced
      /\ NrStartsLegally /\ NrMovesLegally /\ LteMovesLegally /\ Forced
      /\ SecondaryFollowsMaster /\ Nic /\ Hold /\ Forward /\ Running
  BY UeParts
<1>4. /\ failure' = "no" /\ toHear = {} /\ events # <<>> /\ Head(events) \in Starters(k)
      /\ Head(events).in \in Nat /\ Head(events) \in Scheduled(events)
      /\ Tidy(Later) /\ Scheduled(Later) \cap Starters(k) = {}
      /\ \A e \in Scheduled(events) : e \in Event /\ e.in \in Nat /\ Head(events).in <= e.in
      /\ \A e \in Scheduled(events) : e \in Starters(k) => e = Head(events)
      /\ \A j \in Stacks : j # k => (Scheduled(Later) \cap Starters(j) # {} <=> Starting(j))
      /\ \A j \in Stacks : Scheduled(Later) \cap Triggers(j) # {} <=> Moving(j)
      /\ Starting(k) /\ c # m
      /\ k = "lte" => ~Moving("lte") /\ Scheduled(Later) \cap EventsOf("lte") = {}
  BY <1>2, StarterFacts
<1>5. /\ "nr" \in Stacks /\ "lte" \in Stacks /\ Stacks = {"nr", "lte"} /\ NoBs \notin Bs
      /\ Other("nr") = "lte" /\ Other("lte") = "nr"
  BY TechFacts
<1>6. /\ latency \in Nat /\ latency >= Detach
      /\ c = NoBs => latency = Detach
  BY <1>1, <1>4, LatencyAssumption DEF Attach
<1>7. PICK t : t = Trigger(k, latency)
  OBVIOUS
<1>8. /\ t \in Event /\ t.in = latency /\ t.what = "trigger" /\ t.stack = k
      /\ Tidy(events') /\ Scheduled(events') = Scheduled(Later) \cup {t}
  <2>1. t \in Event /\ t.in = latency /\ t.what = "trigger" /\ t.stack = k
    BY <1>6, <1>7, NewEvents
  <2>2. Tidy(events') /\ Scheduled(events') = Scheduled(Later) \cup {t}
    BY <1>2, <1>4, <1>6, <1>7, TidyTrigger
  <2> QED
    BY <2>1, <2>2
<1>9. /\ \A j : t \notin Starters(j)
      /\ \A j : t \in Triggers(j) <=> j = k
  BY <1>8, Kinds
<1>10. /\ ~Starting(k)' /\ Moving(k)'
       /\ \A j \in Stacks : j # k =>
             (Starting(j)' <=> Starting(j)) /\ (Moving(j)' <=> Moving(j))
  BY <1>4, <1>8, <1>9 DEF Starting, Moving
<1>11. /\ UNCHANGED <<master, candidateMaster, candidateRssi, currentRssi, hysteresis, cellInfo>>
       /\ triggered' = triggered /\ toHear' = toHear
  BY <1>2 DEF phyVars, airVars
<1>12. c \in Node /\ m \in Node /\ Of("nr", candidateMaster["nr"]) /\ Of("lte", candidateMaster["lte"])
  BY <1>3, <1>5 DEF UeTypeOK, Technologies
<1>13. UeTypeOK'
  <2>1. events' \in Seq([in : Nat, what : {"starter", "trigger"}, stack : Stacks])
    BY <1>8 DEF Tidy, Event
  <2>2. nicMaster' \in [Stacks -> Node]
    BY <1>2, <1>3, <1>12 DEF UeTypeOK
  <2>3. forwarding' \in [Stacks -> [Bs -> Node]]
    <3>2. CASE m # NoBs /\ c # NoBs
      <4>1. forwarding[k] \in [Bs -> Node]
        BY <1>3 DEF UeTypeOK
      <4>2. [forwarding[k] EXCEPT ![m] = c] \in [Bs -> Node]
        BY <1>12, <4>1
      <4>3. forwarding' = [forwarding EXCEPT ![k] = [forwarding[k] EXCEPT ![m] = c]]
        BY <1>2, <3>2
      <4> QED
        BY <1>3, <4>2, <4>3 DEF UeTypeOK
    <3>3. CASE ~(m # NoBs /\ c # NoBs)
      BY <1>2, <1>3, <3>3 DEF UeTypeOK
    <3> QED
      BY <3>2, <3>3
  <2>4. ueHold' \in BOOLEAN
    BY <1>2, <1>3 DEF UeTypeOK
  <2> QED
    BY <1>3, <1>4, <1>11, <2>1, <2>2, <2>3, <2>4 DEF UeTypeOK
<1>14. Queue'
  <2>1. HearingOnly'
    BY <1>4, <1>11 DEF HearingOnly
  <2>2. LteWaits'
    <3> SUFFICES ASSUME NEW x \in Scheduled(events'), x \in Starters("lte")
                 PROVE  InTime(x)' \/ AfterDetachment(x)'
      BY DEF LteWaits
    <3>1. k = "nr" /\ x \in Scheduled(Later)
      <4>1. x \in Scheduled(Later)
        BY <1>8, <1>9
      <4> QED
        BY <1>4, <1>5, <4>1
    <3>2. PICK l \in Scheduled(events) :
              x.in = l.in - Head(events).in /\ x.what = l.what /\ x.stack = l.stack /\ x \in Event
      BY <1>3, <1>4, <3>1, LaterTidy
    <3>3. l \in Starters("lte") /\ l.in \in Nat /\ x.in \in Nat
      BY <1>4, <3>2, Kinds
    <3>4. CASE InTime(l)
      <4>1. \A y \in Scheduled(Later) :
                /\ y \in Starters("nr") => y.in = x.in
                /\ y.what = "trigger" => y.in >= x.in + Detach
        BY <1>3, <1>4, <3>2, <3>4, LaterInTime
      <4>2. l.in = Head(events).in
        BY <1>3, <1>4, <3>1, <3>4, LaterInTime
      <4>3. x.in = 0
        BY <1>4, <3>2, <4>2
      <4>4. \A y \in Scheduled(events') :
                /\ y \in Starters("nr") => y.in = x.in
                /\ y.what = "trigger" => y.in >= x.in + Detach
        <5>1. t.in >= x.in + Detach
          BY <1>6, <1>8, <4>3, LatencyAssumption
        <5> QED
          BY <1>8, <1>9, <4>1, <5>1
      <4> QED
        BY <4>4 DEF InTime
    <3>5. CASE AfterDetachment(l)
      <4>1. candidateMaster["nr"] = NoBs /\ master["nr"] # NoBs
        BY <1>4, <3>1, <3>5 DEF AfterDetachment
      <4>2. PICK e \in Scheduled(events) :
                /\ e.stack = "nr" /\ e.in < l.in
                /\ e.what = "starter" => l.in >= e.in + Detach + Delta
        BY <3>5, <4>1 DEF AfterDetachment
      <4>3. \E f \in Scheduled(events') : f.stack = "nr" /\ f.in < x.in /\ f.what = "trigger"
        <5>1. CASE e.what = "starter"
          <6>1. e = Head(events)
            BY <1>4, <3>1, <4>2, <5>1, Kinds
          <6>2. x.in >= Detach + Delta
            BY <1>4, <3>2, <3>3, <4>2, <5>1, <6>1, LatencyAssumption DEF Delta
          <6>3. t.in < x.in
            BY <1>6, <1>8, <3>1, <3>3, <4>1, <6>2, LatencyAssumption DEF Delta
          <6> QED
            BY <1>8, <3>1, <6>3
        <5>2. CASE e.what # "starter"
          <6>1. e.what = "trigger" /\ e # Head(events)
            BY <1>4, <5>2, Kinds
          <6>2. PICK f \in Scheduled(Later) :
                    f.in = e.in - Head(events).in /\ f.what = e.what /\ f.stack = e.stack
            BY <1>3, <1>4, <6>1, LaterTidy
          <6>3. f.in < x.in
            BY <1>4, <3>2, <3>3, <4>2, <6>2
          <6> QED
            BY <1>8, <4>2, <6>1, <6>2, <6>3
        <5> QED
          BY <5>1, <5>2
      <4> QED
        BY <1>11, <4>1, <4>3 DEF AfterDetachment
    <3> QED
      BY <1>3, <3>3, <3>4, <3>5 DEF Queue, LteWaits
  <2> QED
    BY <1>8, <2>1, <2>2 DEF Queue
<1>15. Technologies'
  BY <1>3, <1>11 DEF Technologies, Of
<1>16. StartersMove'
  BY <1>3, <1>10, <1>11 DEF StartersMove
<1>17. LteAnnounced'
  <2>1. Starting("lte")' \/ Moving("lte")' => Starting("lte") \/ Moving("lte")
    BY <1>4, <1>5, <1>10
  <2> QED
    BY <1>3, <1>11, <2>1 DEF LteAnnounced
<1>18. NrStartsLegally'
  <2>1. Starting("nr")' => Starting("nr")
    BY <1>5, <1>10
  <2> QED
    BY <1>3, <1>11, <2>1 DEF NrStartsLegally, OfMaster
<1>19. NrMovesLegally'
  <2> SUFFICES \/ OfMaster(candidateMaster["nr"]) = candidateMaster["nr"]
               \/ ~Moving("nr")'
               \/ /\ OfMaster(candidateMaster["nr"]) = master["lte"]
                  /\ ~Starting("lte")' /\ ~Moving("lte")'
    BY <1>11 DEF NrMovesLegally, OfMaster
  <2>1. CASE k = "nr"
    <3>1. OfMaster(candidateMaster["nr"]) \in {candidateMaster["nr"], master["lte"]}
      BY <1>3, <1>4, <2>1 DEF NrStartsLegally
    <3>2. ASSUME OfMaster(candidateMaster["nr"]) # candidateMaster["nr"]
          PROVE  ~Starting("lte") /\ ~Moving("lte")
      <4>1. triggered["lte"] = Free
        BY <1>2, <1>5, <2>1, <3>1, <3>2 DEF MasterIsBusy
      <4> QED
        BY <1>3, <4>1 DEF LteAnnounced
    <3> QED
      BY <1>5, <1>10, <2>1, <3>1, <3>2
  <2>2. CASE k = "lte"
    <3>1. Moving("nr")' <=> Moving("nr")
      BY <1>5, <1>10, <2>2
    <3> QED
      BY <1>3, <1>4, <2>2, <3>1 DEF NrMovesLegally
  <2> QED
    BY <1>5, <2>1, <2>2
<1>20. LteMovesLegally'
  <2> SUFFICES ASSUME Moving("lte")', master["nr"] # NoBs
               PROVE  OfMaster(master["nr"]) # master["lte"]
    BY <1>11 DEF LteMovesLegally, OfMaster
  <2>1. CASE k = "nr"
    BY <1>3, <1>5, <1>10, <2>1 DEF LteMovesLegally
  <2>2. CASE k = "lte"
    BY <1>2, <1>5, <2>2 DEF SecondaryAttached
  <2> QED
    BY <1>5, <2>1, <2>2
<1>21. Forced'
  <2> SUFFICES ASSUME Starting("nr")', Moving("nr")' PROVE FALSE
    BY DEF Forced
  <2>1. k = "lte" /\ Starting("nr") /\ Moving("nr")
    BY <1>5, <1>10
  <2>2. PICK e \in Scheduled(events), l \in Scheduled(events) :
            e \in Starters("nr") /\ l \in Starters("lte") /\ e.in < l.in
    BY <1>3, <2>1 DEF Forced
  <2>3. l = Head(events) /\ Head(events).in <= e.in /\ e.in \in Nat
    BY <1>4, <2>1, <2>2
  <2> QED
    BY <1>4, <2>2, <2>3
<1>22. SecondaryFollowsMaster' /\ Running'
  BY <1>3, <1>4, <1>11 DEF SecondaryFollowsMaster, Running, OfMaster
<1>23. nicMaster'[k] = c /\ \A j \in Stacks : j # k => nicMaster'[j] = nicMaster[j]
  BY <1>2, <1>3 DEF UeTypeOK
<1>24. Nic'
  <2> SUFFICES ASSUME NEW j \in Stacks
               PROVE  /\ ~Moving(j)' => nicMaster'[j] = master'[j]
                      /\ Moving(j)' /\ ~Starting(j)' => nicMaster'[j] = candidateMaster'[j]
    BY DEF Nic
  <2>1. CASE j = k
    BY <1>10, <1>11, <1>23, <2>1
  <2>2. CASE j # k
    BY <1>3, <1>10, <1>11, <1>23, <2>2 DEF Nic
  <2> QED
    BY <2>1, <2>2
<1>25. Hold'
  <2> SUFFICES ASSUME ueHold'
               PROVE  \/ \E j \in Stacks : Moving(j)' /\ nicMaster'[j] # NoBs
                      \/ \A j \in Stacks : Leaving(j)'
                      \/ Leaving("nr")' /\ Starting("lte")'
    BY <1>4, <1>11 DEF Hold
  <2>1. CASE c # NoBs
    BY <1>10, <1>23, <2>1
  <2>2. CASE c = NoBs
    <3>1. ueHold
      BY <1>2, <2>2
    <3>2. Leaving(k)'
      BY <1>10, <1>11, <2>2 DEF Leaving
    <3>3. \A j \in Stacks : Leaving(j) => Leaving(j)'
      BY <1>10, <1>11, <3>2 DEF Leaving
    <3>4. CASE \E j \in Stacks : Moving(j) /\ nicMaster[j] # NoBs
      <4>1. PICK j \in Stacks : Moving(j) /\ nicMaster[j] # NoBs
        BY <3>4
      <4>2. CASE j # k
        BY <1>10, <1>23, <4>1, <4>2
      <4>3. CASE j = k
        <5>1. k = "nr"
          BY <1>4, <1>5, <4>1, <4>3
        <5>2. Starting("lte")
          BY <1>3, <1>4, <4>1, <4>3, <5>1 DEF Forced, Starting
        <5> QED
          BY <1>5, <1>10, <3>2, <5>1, <5>2
      <4> QED
        BY <4>2, <4>3
    <3>5. CASE \A j \in Stacks : Leaving(j)
      BY <3>3, <3>5
    <3>6. CASE Leaving("nr") /\ Starting("lte")
      <4>1. CASE k = "nr"
        BY <1>5, <1>10, <3>2, <3>6, <4>1
      <4>2. CASE k = "lte"
        BY <1>5, <3>2, <3>3, <3>6, <4>2
      <4> QED
        BY <1>5, <4>1, <4>2
    <3> QED
      BY <1>3, <3>1, <3>4, <3>5, <3>6 DEF Hold
  <2> QED
    BY <2>1, <2>2
<1>26. Forward'
  <2> SUFFICES ASSUME NEW j \in Stacks, NEW b \in Bs, forwarding'[j][b] # NoBs,
                      ~(j = "nr" /\ OfMaster(forwarding'[j][b]) = forwarding'[j][b])
               PROVE  Moving(j)' /\ ~Starting(j)' /\ master[j] = b /\ candidateMaster[j] = forwarding'[j][b]
    BY <1>11 DEF Forward, OfMaster
  <2>1. \/ j = k /\ b = m /\ forwarding'[j][b] = c
        \/ forwarding'[j][b] = forwarding[j][b]
    <3>1. CASE m # NoBs /\ c # NoBs
      <4>1. forwarding' = [forwarding EXCEPT ![k][m] = c] /\ m \in Bs
        BY <1>2, <1>12, <3>1 DEF Node
      <4> HIDE DEF m, c
      <4>2. forwarding'[j][b] = IF j = k /\ b = m THEN c ELSE forwarding[j][b]
        BY <1>3, <4>1 DEF UeTypeOK
      <4> QED
        BY <4>2
    <3>2. CASE ~(m # NoBs /\ c # NoBs)
      <4>1. forwarding' = forwarding
        BY <1>2, <3>2
      <4> QED
        BY <4>1
    <3> QED
      BY <3>1, <3>2
  <2>2. CASE j = k /\ b = m /\ forwarding'[j][b] = c
    BY <1>10, <2>2
  <2>3. CASE forwarding'[j][b] = forwarding[j][b]
    <3>1. Moving(j) /\ ~Starting(j) /\ master[j] = b /\ candidateMaster[j] = forwarding[j][b]
      BY <1>3, <2>3 DEF Forward
    <3>2. j # k
      BY <1>4, <3>1
    <3> QED
      BY <1>10, <2>3, <3>1, <3>2
  <2> QED
    BY <2>1, <2>2, <2>3
<1> QED
  BY <1>13, <1>14, <1>15, <1>16, <1>17, <1>18, <1>19, <1>20, <1>21, <1>22, <1>24, <1>25, <1>26
     DEF UeInv, Places

\* The LTE stack forces the NR stack to detach before it leaves.
LEMMA ForcesUeInv ==
    ASSUME UeInv, NEW k \in Stacks, TriggerForcesOther(k)
    PROVE  UeInv'
<1>1. PICK s5 : s5 = Starter(k, Detach + Delta)
  OBVIOUS
<1>2. PICK waiting : waiting = Insert(Later, s5)
  OBVIOUS
<1>3. /\ StarterOccurs(k) /\ ~MasterIsBusy(k) /\ SecondaryAttached(k)
      /\ events' = Insert(CancelStarter(waiting, Other(k)), Starter(Other(k), 0))
      /\ candidateMaster' = [candidateMaster EXCEPT ![Other(k)] = NoBs]
      /\ candidateRssi' = [candidateRssi EXCEPT ![Other(k)] = 0]
      /\ hysteresis' = [hysteresis EXCEPT ![Other(k)] = currentRssi[Other(k)]]
      /\ UNCHANGED <<master, currentRssi, cellInfo, triggered, nicVars, airVars>>
  BY <1>1, <1>2 DEF TriggerForcesOther
<1>4. /\ UeTypeOK /\ Queue /\ Tidy(events) /\ Technologies /\ StartersMove /\ LteAnnounced
      /\ NrStartsLegally /\ NrMovesLegally /\ LteMovesLegally /\ Forced
      /\ SecondaryFollowsMaster /\ Nic /\ Hold /\ Forward /\ Running
  BY UeParts
<1>5. /\ failure' = "no" /\ toHear = {} /\ events # <<>> /\ Head(events) \in Starters(k)
      /\ Head(events).in \in Nat /\ Head(events) \in Scheduled(events)
      /\ Tidy(Later) /\ Scheduled(Later) \cap Starters(k) = {}
      /\ \A e \in Scheduled(events) : e \in Event /\ e.in \in Nat /\ Head(events).in <= e.in
      /\ \A j \in Stacks : Scheduled(Later) \cap Triggers(j) # {} <=> Moving(j)
      /\ Starting(k) /\ candidateMaster[k] # master[k]
      /\ k = "lte" => ~Moving("lte") /\ Scheduled(Later) \cap EventsOf("lte") = {}
  BY <1>3, StarterFacts
<1>6. /\ "nr" \in Stacks /\ "lte" \in Stacks /\ Stacks = {"nr", "lte"} /\ NoBs \notin Bs
      /\ Other("nr") = "lte" /\ Other("lte") = "nr" /\ OfMaster(NoBs) = NoBs
      /\ \A b \in Node :
         /\ Of("lte", b) => OfMaster(b) = b
         /\ Of("lte", b) /\ Of("nr", b) => b = NoBs
         /\ OfMaster(b) = NoBs <=> b = NoBs
      /\ \A j \in Stacks : Of(j, NoBs)
  BY TechFacts
\* An eNB is nobody's secondary node, so it is the LTE stack that leaves.
<1>7. k = "lte" /\ master["nr"] # NoBs /\ OfMaster(master["nr"]) = master["lte"]
  <2>1. master[Other(k)] # NoBs /\ OfMaster(master[Other(k)]) = master[k]
    BY <1>3 DEF SecondaryAttached
  <2>2. master["lte"] \in Node /\ Of("lte", master["lte"]) /\ Of("nr", master["nr"])
    BY <1>4, <1>6 DEF UeTypeOK, Technologies
  <2>3. k # "nr"
    BY <1>6, <2>1, <2>2
  <2> QED
    BY <1>6, <2>1, <2>3
<1>8. PICK s0 : s0 = Starter("nr", 0)
  OBVIOUS
<1>9. /\ s0 \in Event /\ s0.in = 0 /\ s0.what = "starter" /\ s0.stack = "nr"
      /\ s5 \in Event /\ s5.in = Detach + Delta /\ s5.what = "starter" /\ s5.stack = "lte"
  BY <1>1, <1>6, <1>7, <1>8, NewEvents, LatencyAssumption DEF Delta
<1>10. /\ \A j : s0 \in Starters(j) <=> j = "nr"
       /\ \A j : s5 \in Starters(j) <=> j = "lte"
       /\ \A j : s0 \notin Triggers(j) /\ s5 \notin Triggers(j)
       /\ \A j : s0 \in EventsOf(j) <=> j = "nr"
  BY <1>9, Kinds
\* The NR stack's events in the queue are in time for the start that occurs.
<1>11. InTime(Head(events))
  <2>1. ~AfterDetachment(Head(events))
    <3>1. \A e \in Scheduled(events) : ~(e.in < Head(events).in)
      BY <1>5
    <3> QED
      BY <1>7, <3>1 DEF AfterDetachment
  <2> QED
    BY <1>4, <1>5, <1>7, <2>1 DEF Queue, LteWaits
<1>12. /\ \A x \in Scheduled(Later) : x.what = "trigger" => x.in >= Detach
       /\ Scheduled(Later) \cap EventsOf("lte") = {}
       /\ Later \in Seq(Event) /\ Scheduled(Later) \subseteq Event
  <2>1. \A x \in Scheduled(Later) :
           x.what = "trigger" => x.in >= Head(events).in - Head(events).in + Detach
    BY <1>4, <1>5, <1>11, LaterInTime
  <2>2. Head(events).in - Head(events).in + Detach = Detach
    BY <1>5, LatencyAssumption
  <2> QED
    BY <1>5, <1>7, <2>1, <2>2, Elements DEF Tidy
<1>13. /\ Tidy(waiting) /\ Scheduled(waiting) = Scheduled(Later) \cup {s5}
  <2>1. /\ waiting \in Seq(Event) /\ QueueInOrder(waiting)
        /\ Scheduled(waiting) = Scheduled(Later) \cup {s5}
        /\ \A S : Once(Later, S) /\ (s5 \in S => Scheduled(Later) \cap S = {}) => Once(waiting, S)
    BY <1>2, <1>5, <1>9, InsertSound DEF Tidy
  <2>2. Once(waiting, Starters("nr")) /\ Once(waiting, Starters("lte")) /\ Once(waiting, EventsOf("lte"))
    BY <1>5, <1>7, <1>10, <1>12, <2>1 DEF Tidy
  <2>3. NrStartsFirst(waiting) /\ NrStartsSoon(waiting)
    BY <1>5, <1>9, <1>10, <2>1 DEF Tidy, NrStartsFirst, NrStartsSoon
  <2> QED
    BY <2>1, <2>2, <2>3 DEF Tidy
<1>14. PICK cancelled : cancelled = CancelStarter(waiting, "nr")
  OBVIOUS
<1>15. /\ Tidy(cancelled)
       /\ Scheduled(cancelled) = (Scheduled(Later) \cup {s5}) \ Starters("nr")
  BY <1>6, <1>13, <1>14, CancelTidy
<1>16. events' = Insert(cancelled, s0)
  BY <1>3, <1>6, <1>7, <1>8, <1>14
<1>17. /\ Tidy(events')
       /\ Scheduled(events') = ((Scheduled(Later) \cup {s5}) \ Starters("nr")) \cup {s0}
  <2>1. /\ events' \in Seq(Event) /\ QueueInOrder(events')
        /\ Scheduled(events') = Scheduled(cancelled) \cup {s0}
        /\ \A S : Once(cancelled, S) /\ (s0 \in S => Scheduled(cancelled) \cap S = {})
                     => Once(events', S)
    BY <1>9, <1>15, <1>16, InsertSound DEF Tidy
  <2>2. Once(events', Starters("nr")) /\ Once(events', Starters("lte")) /\ Once(events', EventsOf("lte"))
    BY <1>10, <1>15, <2>1 DEF Tidy
  <2>3. \A e \in Scheduled(events') : e \in Starters("nr") => e = s0
    BY <1>15, <2>1
  <2>4. \A e \in Scheduled(events') : e.what = "trigger" => e.in >= Detach
    BY <1>9, <1>12, <1>15, <2>1
  <2>5. \A e \in Scheduled(events') : e.what = "trigger" => e \in Event
    BY <1>9, <1>12, <1>15, <2>1
  <2>6. NrStartsFirst(events')
    <3> SUFFICES ASSUME NEW e \in Scheduled(events'), NEW f \in Scheduled(events'),
                        e \in Starters("nr"), f.what = "trigger"
                 PROVE  e.in < f.in
      BY DEF NrStartsFirst
    <3>1. e.in = 0 /\ f.in >= Detach /\ f.in \in Nat
      BY <1>9, <2>3, <2>4, <2>5, Kinds
    <3> QED
      BY <3>1, LatencyAssumption
  <2>7. NrStartsSoon(events')
    BY <1>9, <2>3 DEF NrStartsSoon, Delta
  <2> QED
    BY <1>15, <2>1, <2>2, <2>6, <2>7 DEF Tidy
<1>18. /\ s0 \in Scheduled(events') /\ s5 \in Scheduled(events')
       /\ \A e \in Scheduled(events') : e \in Starters("lte") => e = s5
  <2>1. Starters("lte") \subseteq EventsOf("lte")
    BY DEF Starters, EventsOf
  <2> QED
    BY <1>10, <1>12, <1>17, <2>1
<1>19. /\ Starting("nr")' /\ Starting("lte")' /\ ~Moving("lte") /\ ~Moving("lte")'
       /\ Moving("nr")' <=> Moving("nr")
  <2>1. Starting("nr")' /\ Starting("lte")'
    BY <1>10, <1>18 DEF Starting
  <2>2. \A j : Starters("nr") \cap Triggers(j) = {}
    BY DEF Starters, Triggers
  <2>3. \A j : Scheduled(events') \cap Triggers(j) = Scheduled(Later) \cap Triggers(j)
    BY <1>10, <1>17, <2>2
  <2>4. \A j \in Stacks : Moving(j)' <=> Moving(j)
    BY <1>5, <2>3 DEF Moving
  <2> QED
    BY <1>5, <1>6, <1>7, <2>1, <2>4
<1>20. /\ UNCHANGED <<master, currentRssi, cellInfo, triggered>>
       /\ UNCHANGED <<nicMaster, ueHold, forwarding>> /\ toHear' = toHear
       /\ candidateMaster' = [candidateMaster EXCEPT !["nr"] = NoBs]
       /\ candidateRssi' = [candidateRssi EXCEPT !["nr"] = 0]
       /\ hysteresis' = [hysteresis EXCEPT !["nr"] = currentRssi["nr"]]
  BY <1>3, <1>6, <1>7 DEF nicVars, airVars
<1>21. candidateMaster'["nr"] = NoBs /\ candidateMaster'["lte"] = candidateMaster["lte"]
  BY <1>4, <1>6, <1>20 DEF UeTypeOK
<1>22. UeTypeOK'
  <2>1. events' \in Seq([in : Nat, what : {"starter", "trigger"}, stack : Stacks])
    BY <1>17 DEF Tidy, Event
  <2>2. candidateRssi' \in [Stacks -> Int] /\ hysteresis' \in [Stacks -> Int]
    <3>1. /\ candidateRssi \in [Stacks -> Int] /\ hysteresis \in [Stacks -> Int]
      BY <1>4 DEF UeTypeOK
    <3>0. currentRssi \in [Stacks -> Int]
      BY <1>4 DEF UeTypeOK
    <3>4. currentRssi["nr"] \in Int
      BY <3>0 DEF Stacks
    <3>5. candidateRssi' = [candidateRssi EXCEPT !["nr"] = 0] /\ 0 \in Int
      BY <1>20
    <3>2. candidateRssi' \in [Stacks -> Int]
      BY <3>1, <3>5, LevelSet
    <3>3. hysteresis' \in [Stacks -> Int]
      BY <1>20, <3>1, <3>4, LevelSet
    <3> QED
      BY <3>2, <3>3
  <2>3. candidateMaster' \in [Stacks -> Node]
    BY <1>4, <1>20 DEF UeTypeOK, Node
  <2> QED
    BY <1>4, <1>5, <1>20, <2>1, <2>2, <2>3 DEF UeTypeOK
<1>23. Queue'
  <2>1. HearingOnly'
    BY <1>5, <1>20 DEF HearingOnly
  <2>2. LteWaits'
    <3> SUFFICES AfterDetachment(s5)'
      BY <1>18 DEF LteWaits
    <3>1. s0.in < s5.in /\ s5.in >= s0.in + Detach + Delta
      BY <1>9, LatencyAssumption DEF Delta
    <3> QED
      BY <1>9, <1>18, <1>21, <3>1 DEF AfterDetachment
  <2> QED
    BY <1>17, <2>1, <2>2 DEF Queue
<1>24. Technologies'
  BY <1>4, <1>6, <1>20, <1>21 DEF Technologies, Of
<1>25. StartersMove'
  <2>1. candidateMaster'["nr"] # master'["nr"] /\ candidateMaster'["lte"] # master'["lte"]
    BY <1>5, <1>7, <1>20, <1>21
  <2> QED
    BY <1>6, <2>1 DEF StartersMove
<1>26. LteAnnounced'
  BY <1>4, <1>5, <1>7, <1>20 DEF LteAnnounced
<1>27. NrStartsLegally' /\ NrMovesLegally'
  <2>1. OfMaster(candidateMaster["nr"])' = NoBs
    BY <1>21 DEF OfMaster
  <2> QED
    BY <1>21, <2>1 DEF NrStartsLegally, NrMovesLegally
<1>28. LteMovesLegally'
  BY <1>19 DEF LteMovesLegally
<1>29. Forced'
  <2>1. s0.in < s5.in /\ s0 \in Starters("nr") /\ s5 \in Starters("lte")
    BY <1>9, <1>10, LatencyAssumption DEF Delta
  <2> QED
    BY <1>18, <1>21, <2>1 DEF Forced
<1>30. SecondaryFollowsMaster' /\ Running'
  BY <1>4, <1>5, <1>20 DEF SecondaryFollowsMaster, Running, OfMaster
<1>31. Nic'
  <2> SUFFICES ASSUME NEW j \in Stacks
               PROVE  /\ ~Moving(j)' => nicMaster'[j] = master'[j]
                      /\ Moving(j)' /\ ~Starting(j)' => nicMaster'[j] = candidateMaster'[j]
    BY DEF Nic
  <2>1. ~Moving(j) => nicMaster[j] = master[j]
    BY <1>4 DEF Nic
  <2>2. Starting(j)' /\ (Moving(j)' <=> Moving(j))
    BY <1>6, <1>19
  <2> QED
    BY <1>20, <2>1, <2>2
<1>32. Hold'
  <2>1. Leaving("nr")' /\ Starting("lte")'
    BY <1>19, <1>21 DEF Leaving
  <2> QED
    BY <1>5, <1>20, <2>1 DEF Hold
<1>33. Forward'
  <2> SUFFICES ASSUME NEW j \in Stacks, NEW b \in Bs, forwarding[j][b] # NoBs
               PROVE  j = "nr" /\ OfMaster(forwarding[j][b]) = forwarding[j][b]
    BY <1>20 DEF Forward, OfMaster
  <2>1. CASE Moving(j) /\ ~Starting(j) /\ master[j] = b /\ candidateMaster[j] = forwarding[j][b]
    <3>1. j = "nr"
      BY <1>6, <1>19, <2>1
    <3>2. OfMaster(candidateMaster["nr"]) = candidateMaster["nr"]
      BY <1>4, <1>5, <1>7, <2>1, <3>1 DEF NrMovesLegally
    <3> QED
      BY <2>1, <3>1, <3>2
  <2> QED
    BY <1>4, <2>1 DEF Forward
<1> QED
  BY <1>22, <1>23, <1>24, <1>25, <1>26, <1>27, <1>28, <1>29, <1>30, <1>31, <1>32, <1>33
     DEF UeInv, Places

-----------------------------------------------------------------------------
LEMMA StutterUeInv ==
    ASSUME UeInv, UNCHANGED nrUeVars
    PROVE  UeInv'
<1>1. /\ UNCHANGED <<master, candidateMaster, candidateRssi, currentRssi, hysteresis, cellInfo>>
      /\ UNCHANGED <<events, triggered, nicMaster, ueHold, forwarding, toHear, failure>>
  BY DEF nrUeVars, phyVars, nicVars, airVars
<1>2. UeTypeOK' /\ Queue'
  BY <1>1 DEF UeInv, UeTypeOK, Queue, Tidy, HearingOnly, LteWaits, InTime, AfterDetachment
<1>3. \A j : (Starting(j)' <=> Starting(j)) /\ (Moving(j)' <=> Moving(j)) /\ (Leaving(j)' <=> Leaving(j))
  BY <1>1 DEF Starting, Moving, Leaving
<1>4. Technologies' /\ StartersMove' /\ LteAnnounced'
  BY <1>1, <1>3, UeParts DEF Technologies, StartersMove, LteAnnounced, Of
<1>5. NrStartsLegally' /\ NrMovesLegally' /\ LteMovesLegally'
  BY <1>1, <1>3, UeParts DEF NrStartsLegally, NrMovesLegally, LteMovesLegally, OfMaster
<1>6. Forced'
  BY <1>1, <1>3, UeParts DEF Forced
<1>7. SecondaryFollowsMaster' /\ Running'
  BY <1>1, UeParts DEF SecondaryFollowsMaster, Running, OfMaster
<1>8. Nic' /\ Hold' /\ Forward'
  BY <1>1, <1>3, UeParts DEF Nic, Hold, Forward, OfMaster
<1> QED
  BY <1>2, <1>4, <1>5, <1>6, <1>7, <1>8 DEF UeInv, Places

LEMMA UeInductive == UeSpec => []UeInv
<1>1. ASSUME UeInv, [UeNext]_nrUeVars PROVE UeInv'
  <2>1. CASE UNCHANGED nrUeVars
    BY <1>1, <2>1, StutterUeInv
  <2>2. CASE NewRound
    BY <1>1, <2>2, NewRoundUeInv
  <2>3. CASE \E b \in Bs, level \in Levels : Hear(b, level)
    BY <1>1, <2>3, HearUeInv
  <2>4. ASSUME NEW k \in Stacks, TriggerYields(k) PROVE UeInv'
    BY <1>1, <2>4, YieldsUeInv
  <2>5. ASSUME NEW k \in Stacks, TriggerForcesOther(k) PROVE UeInv'
    BY <1>1, <2>5, ForcesUeInv
  <2>6. ASSUME NEW k \in Stacks, TriggerHandoverOf(k) PROVE UeInv'
    BY <1>1, <2>6, HandoverStartsUeInv
  <2>7. ASSUME NEW k \in Stacks, DoHandoverOf(k) PROVE UeInv'
    BY <1>1, <2>7, DoHandoverUeInv
  <2> QED
    BY <1>1, <2>1, <2>2, <2>3, <2>4, <2>5, <2>6, <2>7 DEF UeNext
<1> QED
  BY <1>1, InitUeInv, PTL DEF UeSpec

\* What the invariant says between rounds.
LEMMA UeConsequences ==
    ASSUME UeInv
    PROVE  /\ NicAgrees /\ ForwardingOver
           /\ AttachedAtStart => NeverFails
<1>1. ASSUME Idle PROVE \A k : ~Moving(k) /\ ~Starting(k)
  <2>1. Scheduled(events) = {}
    BY <1>1 DEF Idle, Scheduled
  <2> QED
    BY <2>1 DEF Moving, Starting
<1>2. NicAgrees
  <2> SUFFICES ASSUME Idle
               PROVE  nicMaster = master /\ (ueHold => \A k \in Stacks : master[k] = NoBs)
    BY DEF NicAgrees
  <2>1. nicMaster = master
    <3>1. nicMaster \in [Stacks -> Node] /\ master \in [Stacks -> Node]
      BY UeParts DEF UeTypeOK
    <3>2. \A k \in Stacks : nicMaster[k] = master[k]
      BY <1>1, UeParts DEF Nic
    <3> QED
      BY <3>1, <3>2
  <2>2. ueHold => \A k \in Stacks : Leaving(k)
    BY <1>1, UeParts DEF Hold
  <2> QED
    BY <1>1, <2>1, <2>2 DEF Leaving
<1>3. ForwardingOver
  BY <1>1, UeParts DEF ForwardingOver, Forward
<1>4. AttachedAtStart => NeverFails
  <2>1. AttachedAtStart => failure = "no"
    BY UeParts DEF Running
  <2>2. ASSUME NEW i \in DOMAIN events, NEW j \in DOMAIN events, NEW k \in Stacks,
               IsStarterOf(events[i], k), IsStarterOf(events[j], k)
        PROVE  i = j
    <3>1. /\ events \in Seq(Event) /\ Once(events, Starters("nr"))
          /\ Once(events, Starters("lte"))
      BY UeParts DEF Tidy
    <3>2. events[i] \in Event /\ events[j] \in Event
      BY <3>1
    <3>3. events[i] \in Starters(k) /\ events[j] \in Starters(k)
      BY <2>2, <3>2 DEF IsStarterOf, Starters
    <3> QED
      BY <3>1, <3>3 DEF Once, Stacks
  <2> QED
    BY <2>1, <2>2 DEF NeverFails
<1> QED
  BY <1>2, <1>3, <1>4

\* Whatever is heard and however the handovers of the two stacks overlap, the
\* NR stack never uses a secondary node whose master the LTE stack has left.
THEOREM SecondaryStaysWithMaster == UeSpec => []SecondaryFollowsMaster
<1>1. UeInv => SecondaryFollowsMaster
  BY DEF UeInv
<1> QED
  BY <1>1, UeInductive, PTL

\* The assertion of triggerHandover never fails, no CellInfo is NULL, the kernel
\* never sees a starter scheduled twice, and between rounds the UE's IP2Nic and
\* the base stations agree with the UE, for any number of rounds.
THEOREM NetworkStaysInAgreement == AttachedAtStart => (UeSpec => []NetworkAgrees)
<1> SUFFICES ASSUME AttachedAtStart PROVE UeSpec => []NetworkAgrees
  OBVIOUS
<1>1. UeInv => NetworkAgrees
  BY UeConsequences DEF NetworkAgrees
<1> QED
  BY <1>1, UeInductive, PTL

\* triggerHandover never waits for a busy master (NRPhyUe.cc:268-281): the other
\* stack is then on its way to a base station of the other technology, so the branch
\* that schedules the start once more is never taken.
THEOREM BusyMasterIsElsewhere ==
    UeSpec => [](\A k \in Stacks : MasterIsBusy(k) => triggered[Other(k)][2] # candidateMaster[k])
<1> DEFINE Elsewhere ==
        \A k \in Stacks : MasterIsBusy(k) => triggered[Other(k)][2] # candidateMaster[k]
<1>1. UeInv => Elsewhere
  <2> SUFFICES ASSUME UeInv, NEW k \in Stacks, MasterIsBusy(k),
                      triggered[Other(k)][2] = candidateMaster[k]
               PROVE  FALSE
    OBVIOUS
  <2>1. OfMaster(candidateMaster[k]) # candidateMaster[k] /\ triggered[Other(k)] # Free
    BY DEF MasterIsBusy
  <2>2. candidateMaster[k] \in Node /\ Of(k, candidateMaster[k])
    BY UeParts DEF UeTypeOK, Technologies
  <2>3. Of("nr", candidateMaster[k]) /\ ~Of("lte", candidateMaster[k]) /\ candidateMaster[k] # NoBs
    BY <2>1, <2>2, TechFacts
  <2>4. k = "nr" /\ Other(k) = "lte"
    BY <2>2, <2>3, TechFacts
  <2>5. Of("lte", triggered["lte"][2])
    BY <2>1, <2>4, UeParts DEF Technologies
  <2> QED
    BY <2>3, <2>4, <2>5
<1> QED
  BY <1>1, UeInductive, PTL

\* A base station forwards to base stations of its own technology.
ForwardsAlike == \A k \in Stacks : \A b \in Bs : Of(k, forwarding[k][b])

LEMMA ForwardsAlikeStep ==
    ASSUME UeInv, ForwardsAlike, [UeNext]_nrUeVars
    PROVE  ForwardsAlike'
<1>1. UeTypeOK /\ Technologies
  BY UeParts
<1>2. CASE forwarding' = forwarding
  BY <1>2 DEF ForwardsAlike, Of
<1>3. ASSUME NEW k \in Stacks, NEW m \in Bs, NEW c, Of(k, c),
             forwarding' = [forwarding EXCEPT ![k][m] = c]
      PROVE  ForwardsAlike'
  <2> SUFFICES ASSUME NEW j \in Stacks, NEW b \in Bs PROVE Of(j, forwarding'[j][b])
    BY DEF ForwardsAlike, Of
  <2>1. forwarding'[j][b] = IF j = k /\ b = m THEN c ELSE forwarding[j][b]
    BY <1>1, <1>3 DEF UeTypeOK
  <2>2. CASE j = k /\ b = m
    BY <1>3, <2>1, <2>2
  <2>3. CASE ~(j = k /\ b = m)
    BY <2>1, <2>3 DEF ForwardsAlike
  <2> QED
    BY <2>2, <2>3
<1>4. ASSUME NEW k \in Stacks, TriggerHandoverOf(k) PROVE ForwardsAlike'
  <2>1. \/ forwarding' = [forwarding EXCEPT ![k][master[k]] = candidateMaster[k]] /\ master[k] # NoBs
        \/ forwarding' = forwarding
    BY <1>4 DEF TriggerHandoverOf
  <2>2. Of(k, candidateMaster[k]) /\ (master[k] # NoBs => master[k] \in Bs)
    BY <1>1 DEF UeTypeOK, Technologies, Node
  <2> QED
    BY <1>2, <1>3, <2>1, <2>2
<1>5. ASSUME NEW k \in Stacks, DoHandoverOf(k) PROVE ForwardsAlike'
  <2>1. \/ forwarding' = [forwarding EXCEPT ![k][master[k]] = NoBs] /\ master[k] # NoBs
        \/ forwarding' = forwarding
    BY <1>5 DEF DoHandoverOf
  <2>2. Of(k, NoBs) /\ (master[k] # NoBs => master[k] \in Bs)
    BY <1>1 DEF UeTypeOK, Of, Node
  <2> QED
    BY <1>2, <1>3, <2>1, <2>2
<1>6. \/ forwarding' = forwarding
      \/ \E k \in Stacks : TriggerHandoverOf(k) \/ DoHandoverOf(k)
  <2>1. CASE UNCHANGED nrUeVars
    BY <2>1 DEF nrUeVars, nicVars
  <2>2. CASE NewRound
    BY <2>2 DEF NewRound, nicVars
  <2>3. CASE \E b \in Bs, level \in Levels : Hear(b, level)
    BY <2>3 DEF Hear, nicVars
  <2>4. CASE \E k \in Stacks : TriggerYields(k) \/ TriggerForcesOther(k)
    BY <2>4 DEF TriggerYields, TriggerForcesOther, nicVars
  <2> QED
    BY <2>1, <2>2, <2>3, <2>4 DEF UeNext
<1> QED
  BY <1>2, <1>4, <1>5, <1>6

\* If every gNB is the secondary node of an eNB nothing is forwarded between
\* rounds, also for a UE that begins unattached.
THEOREM NothingForwardedForEver ==
    (\A b \in NrBs : MasterNode[b] # b) =>
        (UeSpec => [](Idle => \A k \in Stacks, b \in Bs : forwarding[k][b] = NoBs))
<1> SUFFICES ASSUME \A b \in NrBs : MasterNode[b] # b
             PROVE  UeSpec => [](Idle => \A k \in Stacks, b \in Bs : forwarding[k][b] = NoBs)
  OBVIOUS
<1>1. UeInit => ForwardsAlike
  BY DEF UeInit, ForwardsAlike, Of
<1>2. UeInv /\ ForwardsAlike /\ [UeNext]_nrUeVars => ForwardsAlike'
  BY ForwardsAlikeStep
<1>3. UeInv /\ ForwardsAlike => (Idle => \A k \in Stacks, b \in Bs : forwarding[k][b] = NoBs)
  <2> SUFFICES ASSUME UeInv, ForwardsAlike, Idle, NEW k \in Stacks, NEW b \in Bs,
                      forwarding[k][b] # NoBs
               PROVE  FALSE
    OBVIOUS
  <2>1. PICK f : f = forwarding[k][b]
    OBVIOUS
  <2>2. f # NoBs /\ k = "nr" /\ OfMaster(f) = f
    BY <2>1, UeConsequences DEF ForwardingOver
  <2>3. f \in Bs /\ Of("nr", f)
    <3>1. f \in Node
      BY <2>1, UeParts DEF UeTypeOK
    <3>2. Of(k, f)
      BY <2>1 DEF ForwardsAlike
    <3> QED
      BY <2>2, <3>1, <3>2 DEF Node
  <2>4. f \in NrBs /\ MasterNode[f] = f
    BY <2>2, <2>3 DEF Of, Tech, OfMaster
  <2> QED
    BY <2>4
<1> QED
  BY <1>1, <1>2, <1>3, UeInductive, PTL DEF UeSpec
=============================================================================
