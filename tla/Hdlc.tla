-------------------------------- MODULE Hdlc --------------------------------
(***************************************************************************)
(* The bits of HDLC frames (hdlc.cxx, fcs.cxx): the HDLC object with which *)
(* ModStream (t38engine.cxx) packs the frames it gets from T.38 into the   *)
(* raw data its DTE reads, and the one with which PreparePacket unpacks    *)
(* the raw data of its DTE into frames.  Here the second reads what the    *)
(* first wrote.                                                            *)
(*                                                                         *)
(* The shift registers rawByte and hdlcChunk with their lengths are        *)
(* sequences of bits, first bit first.                                     *)
(***************************************************************************)
EXTENDS Naturals, Sequences

CONSTANTS FrameByte,   \* the bytes of frames, in 0..255
          StartFlags,  \* 10: flags before the first frame
          MaxFrame,    \* bound: bytes of a frame
          MaxFrames    \* bound: frames of a signal

ASSUME HdlcAssumption == FrameByte \subseteq 0..255 /\ StartFlags \in Nat \ {0}

VARIABLES
  packer,     \* rawByte (with rawByteLen) and rawOnes
  frame,      \* the frame being packed: its bytes; <<>> between frames
  line,       \* the raw bytes packed and not yet unpacked, as their bits
  unpacker,   \* rawByte, rawOnes, hdlcChunk, hdlcState, and the bytes got
  sentFrames, gotFrames   \* history: bytes, and whether the FCS is right

hdlcVars == <<packer, frame, line, unpacker, sentFrames, gotFrames>>

Bits(v) == <<(v \div 128) % 2, (v \div 64) % 2, (v \div 32) % 2, (v \div 16) % 2,
             (v \div 8) % 2, (v \div 4) % 2, (v \div 2) % 2, v % 2>>
Value(b) == 128 * b[1] + 64 * b[2] + 32 * b[3] + 16 * b[4] + 8 * b[5] + 4 * b[6]
              + 2 * b[7] + b[8]
BitsOf(bytes) ==
  [i \in 1..(8 * Len(bytes)) |-> Bits(bytes[((i - 1) \div 8) + 1])[((i - 1) % 8) + 1]]
Flag == Bits(126)
-----------------------------------------------------------------------------
(* FCS::build, one bit of the polynomial 0x11021; operator WORD inverts     *)
FcsBit(fcs, b) ==
  LET x == (fcs[1] + b) % 2
  IN [i \in 1..16 |-> CASE i = 16       -> x
                        [] i \in {4, 11} -> (fcs[i + 1] + x) % 2
                        [] OTHER        -> fcs[i + 1]]
FcsOf(bits) ==
  LET fcs[n \in 0..Len(bits)] ==
        IF n = 0 THEN [i \in 1..16 |-> 1] ELSE FcsBit(fcs[n - 1], bits[n])
  IN [i \in 1..16 |-> 1 - fcs[Len(bits)][i]]
Fcs(bytes) == FcsOf(BitsOf(bytes))

(* HDLC::pack: after five ones a zero is stuffed, but not in a flag.        *)
PackBit(p, b) ==
  LET ones == IF b = 1 THEN p.ones + 1 ELSE 0
  IN IF ones = 5 THEN [bits |-> p.bits \o <<b, 0>>, ones |-> 0]
     ELSE [bits |-> Append(p.bits, b), ones |-> ones]
Pack(p, bits) ==
  LET pack[n \in 0..Len(bits)] == IF n = 0 THEN p ELSE PackBit(pack[n - 1], bits[n])
  IN pack[Len(bits)]
PackFlagKeeps(p) == [p EXCEPT !.bits = @ \o Flag]   \* mutant: rawOnes not reset
PackFlag(p) == [bits |-> p.bits \o Flag, ones |-> 0]

(* The whole bytes go to outData, the rest stays in rawByte.                *)
PutRaw(p) ==
  LET n == 8 * (Len(p.bits) \div 8)
  IN /\ line' = line \o SubSeq(p.bits, 1, n)
     /\ packer' = [p EXCEPT !.bits = SubSeq(@, n + 1, Len(@))]
-----------------------------------------------------------------------------
(* HDLC::sync and unpack: rawByte and the new byte are looked at bit by bit *)
(* until a flag is found; seven bits are kept when there is none.           *)
FlagAt(w) == {o \in 0..(Len(w) - 8) : SubSeq(w, o + 1, o + 8) = Flag}
First(w) == IF FlagAt(w) = {} THEN Len(w) - 7
            ELSE CHOOSE o \in FlagAt(w) : \A p \in FlagAt(w) : o <= p
Rest(w) == SubSeq(w, First(w) + (IF FlagAt(w) = {} THEN 1 ELSE 9), Len(w))

UnpackBit(u, b) ==
  LET chunk == IF b = 0 /\ u.ones = 5 THEN u.chunk ELSE Append(u.chunk, b)
  IN [u EXCEPT !.ones  = IF b = 1 THEN @ + 1 ELSE 0,
               !.out   = IF Len(chunk) = 24 THEN Append(@, Value(SubSeq(chunk, 1, 8))) ELSE @,
               !.chunk = IF Len(chunk) = 24 THEN SubSeq(chunk, 9, 24) ELSE chunk]
UnpackFirst(u, w, count) ==
  LET unpack[n \in 0..count] == IF n = 0 THEN u ELSE UnpackBit(unpack[n - 1], w[n])
  IN unpack[count]
Unpack(u, w) == [UnpackFirst(u, w, First(w)) EXCEPT !.raw = Rest(w)]

(* GetHdlcStart                                                             *)
HdlcStart(state, raw) ==
  [raw |-> raw, ones |-> 0, chunk |-> <<>>, out |-> <<>>, state |-> state]

isFcsOK(u) == u.chunk = Fcs(u.out)
-----------------------------------------------------------------------------
HdlcInit ==
  /\ packer = [bits |-> <<>>, ones |-> 0] /\ frame = <<>> /\ line = <<>>
  /\ unpacker = HdlcStart("stSync", <<>>)
  /\ sentFrames = <<>> /\ gotFrames = <<>>

(* PopBuf starts with flags, the frames after the first follow without.     *)
PackFlags(p, count) ==
  LET pack[n \in 0..count] == IF n = 0 THEN p ELSE PackFlag(pack[n - 1])
  IN pack[count]
Flags(p) == IF sentFrames # <<>> THEN p ELSE PackFlags(p, StartFlags)

(* GetRawData: the bytes of a frame as they come, then the FCS (wrong for a *)
(* frame that was received with errors) and two flags                       *)
PackByte(v) ==
  /\ line = <<>> /\ Len(frame) < MaxFrame /\ Len(sentFrames) < MaxFrames
  /\ PutRaw(Pack(IF frame = <<>> THEN Flags(packer) ELSE packer, Bits(v)))
  /\ frame' = Append(frame, v)
  /\ UNCHANGED <<unpacker, sentFrames, gotFrames>>
FcsSent(bytes, diagError) ==
  LET fcs == Fcs(bytes)
      high == (Value(SubSeq(fcs, 1, 8)) + IF diagError THEN 1 ELSE 0) % 256
  IN Bits(high) \o SubSeq(fcs, 9, 16)
PackEnd(diagError) ==
  /\ line = <<>> /\ frame # <<>>
  /\ PutRaw(PackFlag(PackFlag(Pack(packer, FcsSent(frame, diagError)))))
  /\ frame' = <<>>
  /\ sentFrames' = Append(sentFrames, [bytes |-> frame, ok |-> ~diagError])
  /\ UNCHANGED <<unpacker, gotFrames>>

(* GetHdlcData takes a raw byte; at a flag the frame ends and PreparePacket *)
(* sends isFcsOK, if there was a frame, and starts the next one.            *)
GetHdlcData ==
  LET u == unpacker
      w == u.raw \o SubSeq(line, 1, 8)
      data == Unpack(u, w)
  IN /\ line # <<>> /\ line' = SubSeq(line, 9, Len(line))
     /\ \/ /\ u.state = "stSync"
           /\ unpacker' = [u EXCEPT !.raw = Rest(w),
                                    !.state = IF FlagAt(w) = {} THEN @ ELSE "stSkipFlags"]
           /\ UNCHANGED gotFrames
        \/ /\ u.state = "stSkipFlags" /\ 0 \in FlagAt(w)
           /\ unpacker' = [u EXCEPT !.raw = Rest(w)]
           /\ UNCHANGED gotFrames
        \/ /\ u.state = "stData" \/ (u.state = "stSkipFlags" /\ 0 \notin FlagAt(w))
           /\ IF FlagAt(w) = {}
              THEN unpacker' = [data EXCEPT !.state = "stData"] /\ UNCHANGED gotFrames
              ELSE /\ unpacker' = HdlcStart("stSkipFlags", data.raw)
                   /\ gotFrames' = IF data.out = <<>> THEN gotFrames
                                   ELSE Append(gotFrames, [bytes |-> data.out, ok |-> isFcsOK(data)])
     /\ UNCHANGED <<packer, frame, sentFrames>>

(* The next signal: both sides begin with a new HDLC.                       *)
NextSignal ==
  /\ line = <<>> /\ frame = <<>> /\ sentFrames # <<>>
  /\ packer' = [bits |-> <<>>, ones |-> 0] /\ unpacker' = HdlcStart("stSync", <<>>)
  /\ sentFrames' = <<>> /\ gotFrames' = <<>>
  /\ UNCHANGED <<frame, line>>

HdlcNext ==
  \/ \E v \in FrameByte : PackByte(v)
  \/ \E diagError \in BOOLEAN : PackEnd(diagError)
  \/ GetHdlcData \/ NextSignal
HdlcSpec == HdlcInit /\ [][HdlcNext]_hdlcVars
-----------------------------------------------------------------------------
(* The frames that are unpacked are the ones that were packed, with the     *)
(* same verdict on the FCS, whatever their bits and wherever in a byte they *)
(* begin; all of a frame has come out when its raw data is read.            *)
FramesKept ==
  LET n == Len(gotFrames)
      next == (Append(sentFrames, [bytes |-> frame, ok |-> TRUE]))[n + 1].bytes
      m == Len(unpacker.out)
  IN /\ n <= Len(sentFrames) /\ gotFrames = SubSeq(sentFrames, 1, n)
     /\ m <= Len(next) /\ unpacker.out = SubSeq(next, 1, m)
     /\ line = <<>> /\ frame = <<>> => gotFrames = sentFrames
=============================================================================
