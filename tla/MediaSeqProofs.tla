--------------------------- MODULE MediaSeqProofs ---------------------------
(***************************************************************************)
(* The numbering of packets is right for every range of numbers, window    *)
(* and network that satisfies SeqAssumption, the ones of the code (65536   *)
(* and 10) among them, and without a bound on the packets of a source.     *)
(***************************************************************************)
EXTENDS MediaSeq, TLAPS

(* While packets are handled, currentSequenceNumber is the number after the *)
(* last one, up to a multiple of SeqRange (the sink may have been opened    *)
(* after wraps), and the network is not behind it.                          *)
Aligned ==
  handled # None =>
    /\ handled <= newest
    /\ \E k \in Int : currentSequenceNumber = handled + 1 + SeqRange * k
(* The network delivers what was sent.                                      *)
Sent == newest < source /\ \A p \in network : p.n < source
MediaInv == MediaTypeOK /\ Sent /\ Aligned /\ InOrder /\ GapReported

(* A number is SeqRange times its high part and its low part.               *)
LEMMA LowPart ==
  ASSUME NEW a \in Int
  PROVE  /\ a % SeqRange \in 0..(SeqRange - 1) /\ a \div SeqRange \in Int
         /\ a = SeqRange * (a \div SeqRange) + (a % SeqRange)
<1>1. SeqRange \in Nat /\ SeqRange > 0
  BY SeqAssumption, SMT
<1> QED BY <1>1, SMT

(* The multiples of SeqRange are at least SeqRange apart.                   *)
LEMMA Multiple ==
  ASSUME NEW k \in Int
  PROVE  /\ SeqRange * k \in Int
         /\ k >= 1 => SeqRange * k >= SeqRange
         /\ k <= -1 => SeqRange * k <= -SeqRange
         /\ k = 0 => SeqRange * k = 0
  BY SeqAssumption, SMT

(* Half is half of SeqRange.                                                *)
LEMMA HalfRange == Half \in Nat /\ SeqRange = 2 * Half /\ Window + 1 < Half
  BY SeqAssumption, SMT DEF Half

(* What packedSequenceNumber is off the expected number equals, up to a     *)
(* multiple of SeqRange, what the packet is off the one expected.           *)
LEMMA PackedNear ==
  ASSUME NEW n \in Nat, NEW h \in Int, NEW c \in Int, NEW k \in Int, c = h + 1 + SeqRange * k
  PROVE  \E j \in Int : /\ Packed(n % SeqRange, c) - c = n - h - 1 + SeqRange * j
                        /\ -Half <= Packed(n % SeqRange, c) - c
                        /\ Packed(n % SeqRange, c) - c <= Half
                        /\ Packed(n % SeqRange, c) \in Int
<1> DEFINE low == n % SeqRange
           packed == low + (c - (c % SeqRange))
           lost == packed - c
           i == (c \div SeqRange) - (n \div SeqRange) - k
<1>1. /\ low \in 0..(SeqRange - 1) /\ n \div SeqRange \in Int
      /\ n = SeqRange * (n \div SeqRange) + low
  BY LowPart
<1>2. /\ c % SeqRange \in 0..(SeqRange - 1) /\ c \div SeqRange \in Int
      /\ c = SeqRange * (c \div SeqRange) + (c % SeqRange)
  BY LowPart
<1>3. i \in Int /\ lost = n - h - 1 + SeqRange * i /\ -SeqRange < lost /\ lost < SeqRange
  <2>1. SeqRange * i = SeqRange * (c \div SeqRange) - SeqRange * (n \div SeqRange) - SeqRange * k
    BY <1>1, <1>2, SeqAssumption, SMT
  <2>2. i \in Int
    BY <1>1, <1>2, SMT
  <2>3. /\ SeqRange * (c \div SeqRange) \in Int /\ SeqRange * (n \div SeqRange) \in Int
        /\ SeqRange * k \in Int
    BY <1>1, <1>2, Multiple
  <2> HIDE DEF i
  <2>4. lost = n - h - 1 + SeqRange * i
    BY <1>1, <1>2, <2>1, <2>3, SMT
  <2> QED BY <1>1, <1>2, <2>2, <2>4, SeqAssumption, SMT
<1>4. packed \in Int /\ lost \in Int
  BY <1>1, <1>2, SeqAssumption, SMT
<1>5. /\ SeqRange * (i + 1) = SeqRange * i + SeqRange /\ SeqRange * (i - 1) = SeqRange * i - SeqRange
      /\ SeqRange * i \in Int
  BY <1>3, SeqAssumption, SMT
<1> HIDE DEF i
<1>6. CASE lost < -Half
  <2>1. Packed(low, c) = packed + SeqRange
    BY <1>6 DEF Packed
  <2>2. /\ i + 1 \in Int /\ Packed(low, c) - c = n - h - 1 + SeqRange * (i + 1)
        /\ -Half <= Packed(low, c) - c /\ Packed(low, c) - c <= Half /\ Packed(low, c) \in Int
    BY <1>3, <1>4, <1>5, <1>6, <2>1, HalfRange, SeqAssumption, SMT
  <2> QED BY <2>2
<1>7. CASE lost > Half
  <2>1. Packed(low, c) = packed - SeqRange
    BY <1>4, <1>7, HalfRange, SMT DEF Packed
  <2>2. /\ i - 1 \in Int /\ Packed(low, c) - c = n - h - 1 + SeqRange * (i - 1)
        /\ -Half <= Packed(low, c) - c /\ Packed(low, c) - c <= Half /\ Packed(low, c) \in Int
    BY <1>3, <1>4, <1>5, <1>7, <2>1, HalfRange, SeqAssumption, SMT
  <2> QED BY <2>2
<1>8. CASE ~(lost < -Half) /\ ~(lost > Half)
  <2>1. Packed(low, c) = packed
    BY <1>8 DEF Packed
  <2>2. /\ i \in Int /\ Packed(low, c) - c = n - h - 1 + SeqRange * (i)
        /\ -Half <= Packed(low, c) - c /\ Packed(low, c) - c <= Half /\ Packed(low, c) \in Int
    BY <1>3, <1>4, <1>8, <2>1, HalfRange, SeqAssumption, SMT
  <2> QED BY <2>2
<1> QED BY <1>6, <1>7, <1>8

(* A packet that is not ignored is a later one than the last, and the count *)
(* of lost packets is that of the gap.                                      *)
LEMMA Accepted ==
  ASSUME NEW n \in Nat, NEW h \in Nat, NEW c \in Int, NEW k \in Int, c = h + 1 + SeqRange * k,
         h - n <= Reorder, n - h <= Burst + 1,
         ~(Packed(n % SeqRange, c) - c < 0 /\ Packed(n % SeqRange, c) - c > -Window)
  PROVE  /\ h < n
         /\ Lost(Packed(n % SeqRange, c) - c) = IF n - h - 1 > Window THEN 1 ELSE n - h - 1
<1> DEFINE d == n - h - 1
           lost == Packed(n % SeqRange, c) - c
<1>1. PICK j \in Int : lost = d + SeqRange * j /\ -Half <= lost /\ lost <= Half /\ lost \in Int
  BY PackedNear, SMT
<1>2. /\ SeqRange * j \in Int
      /\ j >= 1 => SeqRange * j >= SeqRange
      /\ j <= -1 => SeqRange * j <= -SeqRange
      /\ j = 0 => SeqRange * j = 0
  BY Multiple
<1>3. d \in Int /\ -Reorder - 1 <= d /\ d <= Burst /\ ~(lost < 0 /\ lost > -Window)
  BY SeqAssumption, SMT
<1> HIDE DEF lost, d
<1>4. d >= 0
  BY <1>1, <1>2, <1>3, HalfRange, SeqAssumption, SMT
<1>5. Lost(lost) = IF d > Window THEN 1 ELSE d
  <2>1. CASE lost >= 0
    <3>1. lost = d
      BY <1>1, <1>2, <1>3, <1>4, <2>1, HalfRange, SeqAssumption, SMT
    <3> QED BY <1>3, <1>4, <3>1, SeqAssumption, SMT DEF Lost
  <2>2. CASE lost < 0
    <3>1. d > Window
      BY <1>1, <1>2, <1>3, <1>4, <2>2, HalfRange, SeqAssumption, SMT
    <3> QED BY <2>2, <3>1 DEF Lost
  <2> QED BY <1>1, <2>1, <2>2, SMT
<1>6. h < n
  BY <1>4, SMT DEF d
<1> QED BY <1>5, <1>6 DEF lost, d

(* A packet written to the sink keeps the invariant.                        *)
LEMMA WritePacketInv ==
  ASSUME MediaInv, NEW p \in network, WritePacket(p)
  PROVE  MediaInv'
<1> DEFINE c == currentSequenceNumber
           packed == Packed(p.n % SeqRange, c)
           lost == packed - c
<1>1. /\ p.n \in Nat /\ newest - p.n <= Reorder /\ c \in Int /\ newest \in Nat \cup {None}
      /\ handled \in Nat \cup {None} /\ before \in Nat \cup {None}
  BY DEF MediaInv, MediaTypeOK
<1>2. /\ newest' \in Nat /\ newest <= newest' /\ p.n <= newest'
      /\ handled = None \/ p.n - handled <= Burst + 1
  BY <1>1, SMT DEF WritePacket, Arrives, None
<1>3. /\ source' \in Nat
      /\ network' \subseteq [n : Nat, payload : {"ifp", "bad", "empty"}]
      /\ \A q \in network' : newest' - q.n <= Reorder
  BY SMT DEF MediaInv, MediaTypeOK, WritePacket, Arrives
<1>0. Sent'
  BY <1>1, SMT DEF MediaInv, MediaTypeOK, Sent, WritePacket, Arrives, None
<1>4. CASE UNCHANGED sinkVars
  <2>1. MediaTypeOK'
    BY <1>1, <1>2, <1>3, <1>4 DEF MediaInv, MediaTypeOK, sinkVars
  <2>2. Aligned'
    BY <1>1, <1>2, <1>4, SMT DEF MediaInv, Aligned, sinkVars, None
  <2>3. InOrder' /\ GapReported'
    BY <1>4 DEF MediaInv, InOrder, GapReported, sinkVars
  <2> QED BY <1>0, <2>1, <2>2, <2>3 DEF MediaInv
<1>5. CASE ~UNCHANGED sinkVars
  <2>1. /\ ~(lost < 0 /\ lost > -Window)
        /\ nLost' = Lost(lost) /\ before' = handled /\ handled' = p.n
        /\ currentSequenceNumber' = packed + 1
    BY <1>5 DEF WritePacket
  <2>2. PICK j \in Int : packed = p.n + SeqRange * j /\ packed \in Int
    <3>1. c = (c - 1) + 1 + SeqRange * 0 /\ c - 1 \in Int /\ 0 \in Int
      BY <1>1, SeqAssumption, SMT
    <3>2. PICK i \in Int : /\ packed - c = p.n - (c - 1) - 1 + SeqRange * i
                           /\ packed \in Int
      BY <1>1, <3>1, PackedNear, ZenonT(40)
    <3>3. SeqRange * i \in Int
      BY Multiple
    <3> HIDE DEF packed
    <3> QED BY <1>1, <3>2, <3>3, SMT
  <2>3. Aligned'
    <3>1. SeqRange * j \in Int
      BY Multiple
    <3>2. packed + 1 = p.n + 1 + SeqRange * j
      BY <1>1, <2>2, <3>1, SMT
    <3> QED BY <1>2, <2>1, <3>2 DEF Aligned
  <2>4. CASE handled = None
    <3>1. InOrder' /\ GapReported'
      BY <1>1, <2>1, <2>4, SMT DEF InOrder, GapReported, None
    <3>2. nLost' \in Nat
      BY <1>1, <2>1, <2>2, SMT DEF Lost
    <3>3. MediaTypeOK'
      BY <1>1, <1>2, <1>3, <2>1, <2>2, <3>2, SMT DEF MediaTypeOK
    <3> QED BY <1>0, <2>3, <3>1, <3>3 DEF MediaInv
  <2>5. CASE handled # None
    <3>1. PICK k \in Int : c = handled + 1 + SeqRange * k
      BY <2>5 DEF MediaInv, Aligned
    <3>2. handled \in Nat /\ handled - p.n <= Reorder
      BY <1>1, <2>5, SeqAssumption, SMT DEF MediaInv, Aligned, None
    <3>3. handled < p.n /\ Lost(lost) = IF p.n - handled - 1 > Window THEN 1 ELSE p.n - handled - 1
      BY <1>1, <1>2, <2>1, <2>5, <3>1, <3>2, Accepted
    <3>4. InOrder' /\ GapReported'
      BY <2>1, <3>3 DEF InOrder, GapReported
    <3>5. nLost' \in Nat
      BY <1>1, <2>1, <3>2, <3>3, SMT
    <3>6. MediaTypeOK'
      BY <1>1, <1>2, <1>3, <2>1, <2>2, <3>5, SMT DEF MediaTypeOK
    <3> QED BY <1>0, <2>3, <3>4, <3>6 DEF MediaInv
  <2> QED BY <2>4, <2>5
<1> QED BY <1>4, <1>5

(* The other steps leave the sink alone or open it anew.                    *)
LEMMA MediaNextInv == MediaInv /\ [MediaNext]_mediaVars => MediaInv'
<1> SUFFICES ASSUME MediaInv, [MediaNext]_mediaVars PROVE MediaInv'
  OBVIOUS
<1>1. ASSUME NEW n \in Nat, NEW ps, \A p \in ps : p.n = n /\ p \in [n : Nat, payload : {"ifp", "bad", "empty"}],
             newest <= n, n < source', source' \in Nat, source <= source', Transmit(ps),
             UNCHANGED <<newest, sinkVars>>
      PROVE  MediaInv'
  <2>1. \A p \in network' : p \in network \/ p \in ps
    BY <1>1 DEF Transmit
  <2>2. Aligned' /\ InOrder' /\ GapReported'
    BY <1>1 DEF MediaInv, Aligned, InOrder, GapReported, sinkVars
  <2>3. \A p \in network' : newest' - p.n <= Reorder /\ p.n < source'
    BY <1>1, <2>1, SeqAssumption, SMT DEF MediaInv, MediaTypeOK, Sent, None
  <2>4. network' \subseteq [n : Nat, payload : {"ifp", "bad", "empty"}]
    BY <1>1, <2>1, ZenonT(40) DEF MediaInv, MediaTypeOK
  <2>5. MediaTypeOK'
    BY <1>1, <2>3, <2>4 DEF MediaInv, MediaTypeOK, sinkVars
  <2>6. Sent'
    BY <1>1, <2>3, SMT DEF MediaInv, MediaTypeOK, Sent, None
  <2> QED BY <2>2, <2>5, <2>6 DEF MediaInv
<1>2. CASE ReadPacket
  <2>1. source \in Nat /\ newest <= source
    BY SMT DEF MediaInv, MediaTypeOK, Sent, None
  <2>2. \A p \in {Packet(source, "ifp"), Packet(source, "bad")} :
          p.n = source /\ p \in [n : Nat, payload : {"ifp", "bad", "empty"}]
    BY <2>1, SMT DEF Packet
  <2>3. source < source' /\ source' \in Nat /\ source <= source'
    BY <1>2, <2>1, SMT DEF ReadPacket
  <2> QED BY <1>1, <1>2, <2>1, <2>2, <2>3 DEF ReadPacket
<1>3. CASE ReadFakePacket
  <2>1. source \in Nat /\ source - 1 \in Nat /\ newest <= source - 1
    BY <1>3, SMT DEF ReadFakePacket, MediaInv, MediaTypeOK, Sent, None
  <2>2. \A p \in {Packet(source - 1, "empty")} :
          p.n = source - 1 /\ p \in [n : Nat, payload : {"ifp", "bad", "empty"}]
    BY <2>1, SMT DEF Packet
  <2>3. source - 1 < source' /\ source' \in Nat /\ source <= source'
    BY <1>3, <2>1, SMT DEF ReadFakePacket
  <2> QED BY <1>1, <1>3, <2>1, <2>2, <2>3 DEF ReadFakePacket
<1>4. CASE OpenSink
  BY <1>4, SMT DEF OpenSink, MediaInv, MediaTypeOK, Sent, Aligned, InOrder, GapReported, None
<1>5. CASE \E p \in network : WritePacket(p)
  BY <1>5, WritePacketInv
<1>6. CASE UNCHANGED mediaVars
  BY <1>6 DEF mediaVars, sinkVars, MediaInv, MediaTypeOK, Sent, Aligned, InOrder, GapReported
<1> QED BY <1>2, <1>3, <1>4, <1>5, <1>6 DEF MediaNext

(* The invariant holds in every reachable state.                            *)
LEMMA MediaInvariant == MediaSpec => []MediaInv
<1>1. MediaInit => MediaInv
  BY SMT DEF MediaInit, MediaInv, MediaTypeOK, Sent, Aligned, InOrder, GapReported, None
<1> QED BY <1>1, MediaNextInv, PTL DEF MediaSpec

(* The engine gets the packets in order and none of them twice, whatever    *)
(* the network does within SeqAssumption and however often numbers wrap.    *)
THEOREM HandledInOrder == MediaSpec => []InOrder
<1>1. MediaInv => InOrder
  BY DEF MediaInv
<1> QED BY MediaInvariant, <1>1, PTL

(* HandlePacketLost tells the engine of each gap, and of nothing else.      *)
THEOREM GapsReported == MediaSpec => []GapReported
<1>1. MediaInv => GapReported
  BY DEF MediaInv
<1> QED BY MediaInvariant, <1>1, PTL
=============================================================================
