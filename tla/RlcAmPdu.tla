------------------------------- MODULE RlcAmPdu -------------------------------
(***************************************************************************)
(* The PDUs that the two AM entities of a bearer exchange (LteRlcAmPdu,    *)
(* RlcAmType of LteRlcDefs.h) and the window sizes both sides are          *)
(* configured with.  The numeric fields keep the names of LteRlcAmPdu.msg  *)
(* in short form.  The code reuses snoMainPacket and snoFragment for       *)
(* several purposes; here every type of PDU has its own fields:            *)
(*   DATA     sno = snoFragment, sdu = snoMainPacket, first, last =        *)
(*            firstSn, lastSn, tx = txNumber                               *)
(*   MRW      serial = snoMainPacket, target = lastSn                      *)
(*   MRW_ACK  serial = snoMainPacket, first = snoFragment                  *)
(*   ACK      last = lastSn, acked = the sequence numbers whose bit is set *)
(*            in the bitmap that starts at firstSn                         *)
(***************************************************************************)
EXTENDS Integers, Sequences, FiniteSets

CONSTANTS
    TxW,        \* txWindowSize of AmTxQueue
    RxW,        \* rxWindowSize of AmRxQueue
    MaxRtx,     \* maxRtx of AmTxQueue: the last txNumber a DATA PDU may get
    SduFrags,   \* the numbers of fragments an SDU may be cut into
    NoPdu       \* an empty slot, the nullptr of a cArray

\* The receiver's window holds every PDU the transmitter may have outstanding
\* (strictly fewer than TxW).  The defaults are 200 and 200 (LteRlc.ned).
ASSUME WindowAssumption ==
    /\ TxW \in Nat \ {0}
    /\ RxW \in Nat \ {0}
    /\ TxW <= RxW + 1

ASSUME ParameterAssumption ==
    /\ MaxRtx \in Nat
    /\ SduFrags \subseteq Nat \ {0}

DataPdu == [type : {"DATA"}, sno : Nat, sdu : Nat, first : Nat, last : Nat,
            tx : 0..MaxRtx]
MrwPdu == [type : {"MRW"}, serial : Nat, target : Nat]
MrwAckPdu == [type : {"MRW_ACK"}, serial : Nat, first : Nat]
AckPdu == [type : {"ACK"}, last : Int, acked : SUBSET Nat]

ASSUME NoPduAssumption ==
    NoPdu \notin DataPdu \cup MrwPdu \cup MrwAckPdu \cup AckPdu

Data(sno, sdu, first, last) ==
    [type |-> "DATA", sno |-> sno, sdu |-> sdu, first |-> first,
     last |-> last, tx |-> 0]
Mrw(serial, target) == [type |-> "MRW", serial |-> serial, target |-> target]
MrwAck(serial, first) ==
    [type |-> "MRW_ACK", serial |-> serial, first |-> first]
Ack(last, acked) == [type |-> "ACK", last |-> last, acked |-> acked]

IsFirst(p) == p.first = p.sno
IsLast(p) == p.last = p.sno

\* What is handed down of a stored DATA PDU.  Nobody below or beyond reads
\* txNumber, so the copies on the way carry 0.
Copy(p) == [p EXCEPT !.tx = 0]
=============================================================================
