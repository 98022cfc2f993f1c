-------------------------------- MODULE RlcUm --------------------------------
(***************************************************************************)
(* One direction of an RLC UM bearer: the UmTxEntity of one node and the   *)
(* UmRxEntity of its peer, joined by LteRlcUm (stack/rlc/um/LteRlcUm.cc)   *)
(* and by the HARQ processes of the MAC, which carry one PDU each, finish  *)
(* in any order and lose a PDU when its last transmission fails.           *)
(***************************************************************************)
EXTENDS UmRxEntity

CONSTANT
    Processes       \* the number of HARQ processes

ASSUME RlcUmAssumption == Processes \in Nat \ {0}

VARIABLE
    air             \* the PDUs the HARQ processes carry

vars == <<txVars, rxVars, air>>

Init == TxInit /\ RxInit /\ air = {}

\* An error ends the simulation.
Running == rxErr = "none"

\* handleUpperMessage: an SDU comes from PDCP.
FromPdcp(len) ==
    /\ Running
    /\ Enque(len)
    /\ UNCHANGED <<rxVars, air>>

\* handleLowerMessage at the transmitter: the MAC asks for a PDU for a free
\* process.
MacRequest(room) ==
    /\ Running
    /\ Cardinality(air) < Processes
    /\ RlcPduMake(room)
    /\ air' = air \cup {sno}
    /\ UNCHANGED rxVars

\* handleLowerMessage at the receiver.
Arrive(t) ==
    /\ Running
    /\ Discard(t) \/ Accept(t)
    /\ air' = air \ {t}
    /\ UNCHANGED txVars

Lose(t) ==
    /\ Running
    /\ air' = air \ {t}
    /\ UNCHANGED <<txVars, rxVars>>

Expire ==
    /\ Running
    /\ ReorderingExpires
    /\ UNCHANGED <<txVars, air>>

Next ==
    \/ \E len \in SduLengths : FromPdcp(len)
    \/ \E room \in Requests : MacRequest(room)
    \/ \E t \in air : Arrive(t) \/ Lose(t)
    \/ Expire

\* A timer that was started fires unless it is stopped.
Spec == Init /\ [][Next]_vars /\ WF_vars(Expire)

-----------------------------------------------------------------------------
(***************************************************************************)
(* Properties.                                                             *)
(***************************************************************************)

TypeOK == TxTypeOK /\ RxTypeOK /\ air \subseteq Nat

\* enque and the timer keep the window in order whatever was lost, overtaken or
\* jumped over: VR(UR) never leaves the window, and all that is buffered lies
\* above a missing PDU that VR(UR) points to (UmRxEntity.cc:117-147, 195-215).
WindowInOrder ==
    /\ window.first <= window.ur
    /\ window.ur <= window.uh
    /\ window.uh <= window.first + window.size
    /\ \A t \in buffer : window.ur < t /\ t < window.uh

\* t-Reordering runs exactly while PDUs wait behind a gap, and for a number
\* beyond the gap: otherwise they would wait for ever, or a later gap would be
\* given up at once (UmRxEntity.cc:220-236, 825-829).
GapIsTimed ==
    /\ reordering <=> buffer # {}
    /\ reordering <=> window.uh > window.ur
    /\ reordering => window.ux \in (window.ur + 1)..window.uh

\* What every index into pduBuffer_ and received_ relies on.
WindowSound == WindowInOrder /\ GapIsTimed

\* No place of pduBuffer_ is used twice, no index leaves received_, and the
\* lengths of an SDU always fit (the throws of UmRxEntity.cc:258, 422, 487, 549).
NeverThrows == rxErr = "none"

\* The PDUs that carry a part of SDU s.
Carriers(s) == {t \in PduNos : \E i \in DOMAIN pdus[t + 1].chunks :
                                  pdus[t + 1].chunks[i].sdu = s}

\* All of SDU s has been put into PDUs that reordering has passed.
Passed(s) ==
    /\ \E t \in Carriers(s) : TRUE
    /\ \A i \in 1..Len(sduQueue) : sduQueue[i] # s
    /\ \A t \in Carriers(s) : t < window.ur

\* reassemble passes up exactly the SDUs that came through whole: an SDU with a
\* PDU missing is never put together from the rest, and none whose PDUs were all
\* taken is forgotten, however its parts were cut (UmRxEntity.cc:403-671).
WholeSdusOnly ==
    \A s \in Sdus :
        LET up == \E i \in 1..Len(delivered) : delivered[i] = s
        IN  /\ up => Carriers(s) # {} /\ Carriers(s) \subseteq taken
            /\ Passed(s) /\ Carriers(s) \subseteq taken => up

\* rlcPduMake puts every byte of an SDU into PDUs once: what was sent of it and
\* what is left add up to its length (UmTxEntity.cc:113-192).
BytesKept ==
    \A s \in Sdus :
        LET InPdu(t) == LET c == pdus[t + 1].chunks
                        IN  IF t \in Carriers(s)
                            THEN c[CHOOSE i \in DOMAIN c : c[i].sdu = s].size ELSE 0
            Sent[t \in 0..sno] == IF t = 0 THEN 0 ELSE Sent[t - 1] + InPdu(t - 1)
            left == IF \E i \in 1..Len(sduQueue) : sduQueue[i] = s
                    THEN IF sduQueue[1] = s THEN Left(1) ELSE LengthOf(s)
                    ELSE 0
        IN  Carriers(s) # {} => Sent[sno] + left = LengthOf(s)

\* The packet loss counter agrees with what PDCP did not get, but for SDU 0: its
\* loss is not counted (UmRxEntity.cc:304-322, lastSnoDelivered_ starts at 0).
LossesCounted ==
    delivered # <<>> =>
        losses = Cardinality({s \in 1..lastSno :
                                \A i \in 1..Len(delivered) : delivered[i] # s})

\* From the SDU queue of one end to PDCP of the other no byte and no SDU goes
\* astray unnoticed.
SdusAccounted == NeverThrows /\ WholeSdusOnly /\ BytesKept /\ LossesCounted

\* PDUs do not wait behind a gap for ever, whether it is filled or the
\* transmitter falls silent (UmRxEntity.cc:799-834).
WaitsNotForEver == (buffer # {}) ~> (buffer = {})

\* RLC UM keeps its promise to PDCP.
Service == INSTANCE UmService WITH accepted <- Len(sduLength), delivered <- delivered
KeepsOrder == Service!Spec
=============================================================================
