------------------------------ MODULE MediaSeq ------------------------------
(***************************************************************************)
(* The numbering of T.38 packets in T38ModemMediaStream                    *)
(* (opal/modemstrm.cxx): a source stream numbers what PreparePacket gives  *)
(* it, the network loses, repeats, damages and reorders, and the sink      *)
(* stream of the other side extends the 16-bit numbers to its              *)
(* currentSequenceNumber, ignores what is late or repeated, and tells its  *)
(* engine of gaps.                                                         *)
(*                                                                         *)
(* A packet is its number at the source, which is not cut to 16 bits, and  *)
(* its payload; the sink uses the number modulo SeqRange only.             *)
(***************************************************************************)
EXTENDS Integers, FiniteSets

CONSTANTS SeqRange,   \* 0x10000
          Window,     \* 10: how far behind a packet counts as repeated
          Reorder,    \* how far behind a newer packet the network delivers
          Burst,      \* the longest loss
          MaxPackets, \* bound: packets of a source
          MaxFlight   \* bound: packets in flight

(* The least the numbering needs from the network.  A packet Window - 1     *)
(* behind the newest would be taken for a jump back and be handled twice;   *)
(* after a loss of nearly SeqRange packets the next ones would be ignored.  *)
ASSUME SeqAssumption ==
  /\ SeqRange \in Nat /\ Window \in Nat /\ Reorder \in Nat /\ Burst \in Nat
  /\ SeqRange % 2 = 0 /\ Window + 1 < SeqRange \div 2
  /\ Reorder + 2 <= Window /\ Burst + Window <= SeqRange

None == -1

VARIABLES
  source,                 \* currentSequenceNumber of the source
  network,                \* the packets in flight
  newest,                 \* the newest number the network has delivered
  currentSequenceNumber,  \* of the sink
  handled, before,        \* the last number HandlePacket got since Open, the one before
  nLost                   \* what HandlePacketLost was told between them

sinkVars == <<currentSequenceNumber, handled, before, nLost>>
mediaVars == <<source, network, newest, sinkVars>>

MediaInit ==
  /\ source = 0 /\ network = {} /\ newest = None
  /\ currentSequenceNumber = 0 /\ handled = None /\ before = None /\ nLost = 0
-----------------------------------------------------------------------------
(* The network, external: a packet arrives as it was sent or is lost; what  *)
(* arrives may arrive again later, and is at most Reorder behind.           *)
Packet(n, payload) == [n |-> n, payload |-> payload]
Transmit(ps) ==
  /\ Cardinality(network) < MaxFlight
  /\ network' \in {network} \cup {network \cup {p} : p \in ps}
Arrives(p) ==
  /\ newest' = IF p.n > newest THEN p.n ELSE newest
  /\ \E again \in BOOLEAN :
       network' = {q \in network : newest' - q.n <= Reorder /\ (again \/ q # p)}
  /\ handled = None \/ p.n - handled <= Burst + 1

(* ReadPacket: data gets the next number (it may be damaged on the way so   *)
(* that it cannot be decoded).  When PreparePacket has nothing, a fake      *)
(* packet without payload repeats the last number, once there was one.      *)
ReadPacket ==
  /\ source < MaxPackets /\ source' = source + 1
  /\ Transmit({Packet(source, "ifp"), Packet(source, "bad")})
  /\ UNCHANGED <<newest, sinkVars>>
ReadFakePacket ==
  /\ source > 0
  /\ Transmit({Packet(source - 1, "empty")})
  /\ UNCHANGED <<source, newest, sinkVars>>
-----------------------------------------------------------------------------
(* packedSequenceNumber: the number near currentSequenceNumber with these   *)
(* low bits                                                                 *)
Half == SeqRange \div 2
PackedAhead(low, current) ==           \* mutant: no step back over a wrap
  LET packed == low + (current - (current % SeqRange))
  IN IF packed - current < -Half THEN packed + SeqRange ELSE packed
Packed(low, current) ==
  LET packed == low + (current - (current % SeqRange))
      lost == packed - current
  IN IF lost < -Half THEN packed + SeqRange
     ELSE IF lost > Half THEN packed - SeqRange ELSE packed

(* WritePacket: HandlePacketLost if lost # 0 (a jump back or a long gap     *)
(* counts for one), then HandlePacket                                       *)
LostUncapped(lost) == lost             \* mutant: no limit
Lost(lost) == IF lost < 0 \/ lost > Window THEN 1 ELSE lost
WritePacket(p) ==
  LET packed == Packed(p.n % SeqRange, currentSequenceNumber)
      lost == packed - currentSequenceNumber
  IN /\ Arrives(p)
     /\ IF \/ lost < 0 /\ lost > -Window       \* repeated
           \/ p.payload # "ifp"                \* fake, or not decoded
        THEN UNCHANGED sinkVars
        ELSE /\ nLost' = Lost(lost)
             /\ before' = handled /\ handled' = p.n
             /\ currentSequenceNumber' = packed + 1
     /\ UNCHANGED source

(* The sink is closed and a new one opened during the transmission.         *)
OpenSink ==
  /\ currentSequenceNumber' = 0 /\ handled' = None /\ before' = None /\ nLost' = 0
  /\ UNCHANGED <<source, network, newest>>

MediaNext ==
  \/ ReadPacket \/ ReadFakePacket \/ OpenSink
  \/ \E p \in network : WritePacket(p)
MediaSpec == MediaInit /\ [][MediaNext]_mediaVars
-----------------------------------------------------------------------------
MediaTypeOK ==
  /\ source \in Nat /\ newest \in Nat \cup {None}
  /\ network \subseteq [n : Nat, payload : {"ifp", "bad", "empty"}]
  /\ \A p \in network : newest - p.n <= Reorder
  /\ currentSequenceNumber \in Int /\ nLost \in Nat
  /\ handled \in Nat \cup {None} /\ before \in Nat \cup {None}

(* The engine gets the packets in the order of the source, none of them     *)
(* twice, over any number of wraps of the 16-bit number.                    *)
InOrder == handled # None => before < handled

(* It is told of every gap before the packet that follows it, of the number *)
(* of packets that are missing when they are few, and of nothing else.      *)
GapReported ==
  before # None =>
    LET missing == handled - before - 1
    IN nLost = IF missing > Window THEN 1 ELSE missing
=============================================================================
