---------------------------- MODULE DataStream ----------------------------
(***************************************************************************)
(* DataStream and ChunkStream (pmutils.cxx, pmutils.h), and DLEData        *)
(* (dle.cxx), the stream between the DTE and the engine: a chain of chunks *)
(* of ChunkSize bytes, in which the DLE bytes of the DTE are doubled and   *)
(* <DLE><ETX> is the end.                                                  *)
(*                                                                         *)
(* ds is the DataStream.  A chunk has an address; ds.heap holds the chunks *)
(* that are not deleted: the bytes written, and how many were read.        *)
(***************************************************************************)
EXTENDS Naturals, Sequences

CONSTANTS ChunkSize,  \* 256
          TmpSize,    \* 1024: most bytes GetDleData takes at once
          MaxInput,   \* bound: bytes put in a stream until it is cleaned
          MaxCount    \* bound: bytes in one call

ASSUME StreamAssumption ==
  ChunkSize \in Nat \ {0} /\ TmpSize \in Nat \ {0} /\ MaxCount \in Nat

(* DLE 0x10, ETX 0x03, and the bytes these are with their bits reversed     *)
Byte == {"DLE", "ETX", "x08", "xC0"}
BitRevTable == [DLE |-> "x08", x08 |-> "DLE", ETX |-> "xC0", xC0 |-> "ETX"]

NULL == 0
EndOfData == <<"-1">>

VARIABLES
  ds,               \* the DataStream
  dle, recvEtx,     \* of DLEData
  bitRev,
  way,              \* "send": from the DTE to the engine, "recv": the other way
  got,              \* what the last GetData or GetDleData read
  input, output     \* history: the bytes put and got on either side

dleVars == <<dle, recvEtx, bitRev>>
streamVars == <<ds, dleVars, way, got, input, output>>

EmptyStream ==
  [heap |-> <<>>, firstBuf |-> NULL, bufQ |-> <<>>, lastBuf |-> NULL,
   busy |-> 0, eof |-> FALSE]

StreamInit ==
  /\ ds = EmptyStream /\ dle = FALSE /\ recvEtx = FALSE /\ bitRev \in BOOLEAN
  /\ way \in {"send", "recv"} /\ got = <<>> /\ input = <<>> /\ output = <<>>
-----------------------------------------------------------------------------
(* ChunkStream::write and read, DataStream::PutData and GetData, a byte at  *)
(* a time                                                                   *)
NewChunk(d) ==
  LET a == CHOOSE a \in 1..(Len(d.bufQ) + 2) : a \notin DOMAIN d.heap
  IN [d EXCEPT !.heap = [x \in DOMAIN d.heap \cup {a} |->
                           IF x = a THEN [data |-> <<>>, first |-> 0] ELSE d.heap[x]],
               !.bufQ = Append(@, a), !.lastBuf = a]

PutByte(d, b) ==
  LET full == d.lastBuf = NULL \/ Len(d.heap[d.lastBuf].data) = ChunkSize
      e == IF full THEN NewChunk(d) ELSE d
  IN [e EXCEPT !.heap[e.lastBuf].data = Append(@, b), !.busy = @ + 1]

PutData(d, bytes) ==
  LET put[n \in 0..Len(bytes)] == IF n = 0 THEN d ELSE PutByte(put[n - 1], bytes[n])
  IN IF d.eof THEN d ELSE put[Len(bytes)]
PutEof(d) == [d EXCEPT !.eof = TRUE]

(* The loop of GetData: a chunk is deleted when all of it was written and   *)
(* read, the next one is taken from bufQ (none of it is read yet), and      *)
(* lastBuf is forgotten with the last one.                                  *)
Delete(d) ==
  [d EXCEPT !.heap = [a \in DOMAIN d.heap \ {d.firstBuf} |-> d.heap[a]], !.firstBuf = NULL]
Dequeue(d) == [d EXCEPT !.firstBuf = Head(d.bufQ), !.bufQ = Tail(d.bufQ)]
NoMoreKeeps(d) == d                    \* mutant: lastBuf not reset
NoMore(d) == [d EXCEPT !.lastBuf = NULL]

ToRead(d) ==
  LET done == d.firstBuf # NULL /\ d.heap[d.firstBuf].first = ChunkSize
      e == IF done THEN Delete(d) ELSE d
  IN IF e.firstBuf # NULL THEN e
     ELSE IF e.bufQ # <<>> THEN Dequeue(e) ELSE NoMore(e)
ReadByte(r) ==
  LET d == ToRead(r.d)
      chunk == d.heap[d.firstBuf]
  IN IF d.firstBuf = NULL \/ chunk.first = Len(chunk.data)
     THEN [d |-> d, bytes |-> r.bytes]
     ELSE [d |-> [d EXCEPT !.heap[d.firstBuf].first = @ + 1, !.busy = @ - 1],
           bytes |-> Append(r.bytes, chunk.data[chunk.first + 1])]
Read(d, count) ==
  LET read[n \in 0..count] ==
        IF n = 0 THEN [d |-> d, bytes |-> <<>>] ELSE ReadByte(read[n - 1])
  IN read[count]

GetDataEofFirst(d, count) ==           \* mutant: the end told before the rest is read
  IF d.eof THEN [d |-> d, bytes |-> EndOfData] ELSE Read(d, count)
GetData(d, count) ==
  IF d.busy = 0 THEN [d |-> d, bytes |-> IF d.eof THEN EndOfData ELSE <<>>]
  ELSE Read(d, count)
-----------------------------------------------------------------------------
(* PutDleData: a byte after DLE is data if it is DLE again, the end if it   *)
(* is ETX, and dropped otherwise.  The rest of the bytes is not looked at   *)
(* after the end.                                                           *)
Rev(rev, b) == IF rev THEN BitRevTable[b] ELSE b
PutDleByte(rev, p, b) ==
  IF p.d.eof THEN p
  ELSE [ n   |-> p.n + 1,
         dle |-> ~p.dle /\ b = "DLE",
         d   |-> CASE p.dle /\ b = "ETX"   -> PutEof(p.d)
                   [] p.dle <=> b = "DLE" -> PutByte(p.d, Rev(rev, b))
                   [] OTHER               -> p.d ]
PutDleFrom(rev, p, bytes) ==
  LET put[n \in 0..Len(bytes)] ==
        IF n = 0 THEN p ELSE PutDleByte(rev, put[n - 1], bytes[n])
  IN put[Len(bytes)]
PutDleLocal(bytes) ==                  \* mutant: dle forgotten between calls
  PutDleFrom(bitRev, [d |-> ds, dle |-> FALSE, n |-> 0], bytes)
PutDle(bytes) == PutDleFrom(bitRev, [d |-> ds, dle |-> dle, n |-> 0], bytes)
PutDleData(bytes) ==
  /\ way = "send" /\ ~ds.eof
  /\ LET p == PutDle(bytes)
     IN /\ ds' = p.d /\ dle' = p.dle
        /\ input' = input \o SubSeq(bytes, 1, p.n)
  /\ UNCHANGED <<recvEtx, bitRev, way, got, output>>

(* GetDleData: room for two bytes per byte and for the end is kept.         *)
Encode(rev, out, b) ==
  LET c == Rev(rev, b) IN out \o (IF c = "DLE" THEN <<c, c>> ELSE <<c>>)
Doubled(rev, bytes) ==
  LET out[n \in 0..Len(bytes)] ==
        IF n = 0 THEN <<>> ELSE Encode(rev, out[n - 1], bytes[n])
  IN out[Len(bytes)]
AtMost(n) == IF n > TmpSize THEN TmpSize ELSE n
GetRoomAll(room) == AtMost(room)        \* mutant: no room for a second DLE and the end
GetRoom(room) == AtMost((room - 2) \div 2)
GetDleSome(rev, g, count) ==
  LET room == count - Len(g.out)
      r == GetData(g.d, GetRoom(room))
  IN CASE g.etx \/ room < 4 -> g
       [] ~g.etx /\ room >= 4 /\ r.bytes = EndOfData ->
            [d |-> g.d, raw |-> g.raw, etx |-> TRUE, out |-> g.out \o <<"DLE", "ETX">>]
       [] OTHER -> [d |-> r.d, raw |-> g.raw \o r.bytes, etx |-> FALSE,
                    out |-> g.out \o Doubled(rev, r.bytes)]
GetDleFrom(rev, g, count) ==
  LET get[n \in 0..count] == IF n = 0 THEN g ELSE GetDleSome(rev, get[n - 1], count)
  IN get[count]
GetDle(count) ==
  GetDleFrom(bitRev, [d |-> ds, raw |-> <<>>, etx |-> FALSE, out |-> <<>>], count)
GetDleData(count) ==
  /\ way = "recv" /\ ~recvEtx
  /\ LET g == GetDle(count)
     IN /\ ds' = g.d /\ recvEtx' = g.etx
        /\ output' = output \o g.out
        /\ got' = IF g.etx /\ g.raw = <<>> THEN EndOfData ELSE g.raw
  /\ UNCHANGED <<dle, bitRev, way, input>>

(* The engine's side: HandleData takes what PutDleData left in the stream,  *)
(* CheckState puts what was received and its end.                           *)
EngineGet(count) ==
  /\ way = "send"
  /\ LET r == GetData(ds, count)
     IN /\ ds' = r.d /\ got' = r.bytes
        /\ output' = IF r.bytes = EndOfData THEN output ELSE output \o r.bytes
  /\ UNCHANGED <<dleVars, way, input>>
EnginePut(bytes) ==
  /\ way = "recv" /\ ~ds.eof
  /\ ds' = PutData(ds, bytes) /\ input' = input \o bytes
  /\ UNCHANGED <<dleVars, way, got, output>>
EnginePutEof ==
  /\ way = "recv" /\ ~ds.eof
  /\ ds' = PutEof(ds)
  /\ UNCHANGED <<dleVars, way, got, input, output>>

(* ResetDleData, SetBitRevDleData: a new transfer                           *)
Clean ==
  /\ ds' = EmptyStream /\ dle' = FALSE /\ recvEtx' = FALSE
  /\ bitRev' \in BOOLEAN /\ way' \in {"send", "recv"}
  /\ got' = <<>> /\ input' = <<>> /\ output' = <<>>

Calls == UNION {[1..n -> Byte] : n \in 1..MaxCount}
StreamNext ==
  \/ \E bytes \in Calls :
       /\ Len(input) + Len(bytes) <= MaxInput
       /\ PutDleData(bytes) \/ EnginePut(bytes)
  \/ \E count \in 1..MaxCount : EngineGet(count) \/ GetDleData(4 * count)
  \/ EnginePutEof \/ Clean
StreamSpec == StreamInit /\ [][StreamNext]_streamVars
-----------------------------------------------------------------------------
(* The pointers: lastBuf is firstBuf or in bufQ (the comment at its         *)
(* declaration), no chunk is lost, and none is reached after its deletion.  *)
Chain(d) == IF d.firstBuf = NULL THEN d.bufQ ELSE <<d.firstBuf>> \o d.bufQ
ChunksLive ==
  LET chain == Chain(ds)
      addresses == {chain[i] : i \in 1..Len(chain)}
  IN /\ ds.lastBuf # NULL => ds.lastBuf \in addresses
     /\ DOMAIN ds.heap = addresses

(* A DataStream is a queue of bytes, however they are divided into chunks   *)
(* and calls.  Only the last chunk of the chain may have room, only the     *)
(* first was read from: byte p of the chain is in chunk p \div ChunkSize.   *)
StartOf(d) == IF Chain(d) = <<>> THEN 0 ELSE d.heap[Chain(d)[1]].first
ByteAt(d, p) == d.heap[Chain(d)[(p \div ChunkSize) + 1]].data[(p % ChunkSize) + 1]
Content(d) == [i \in 1..d.busy |-> ByteAt(d, StartOf(d) + i - 1)]
Queue == INSTANCE ByteQueue
           WITH Bytes <- Byte, NoData <- EndOfData, content <- Content(ds), eof <- ds.eof
StreamIsQueue == Queue!QueueSpec

(* What DLE codes stand for: the bytes, reversed, whether the end came, and *)
(* whether the last code is a DLE that waits for its second one.            *)
Nothing == [bytes |-> <<>>, end |-> FALSE, dle |-> FALSE]
After(b, rest) == [rest EXCEPT !.bytes = <<b>> \o @]
MeaningOfLast(rev, codes, k, rest, rest2) ==    \* the last k codes: one or two, and the rest
  LET n == Len(codes)
      c == codes[n - k + 1]
      second == codes[n - k + 2]
  IN CASE k = 0 -> Nothing
       [] k > 0 /\ c # "DLE" -> After(Rev(rev, c), rest)
       [] k = 1 /\ c = "DLE" -> [Nothing EXCEPT !.dle = TRUE]
       [] k > 1 /\ c = "DLE" /\ second = "DLE" -> After(Rev(rev, "DLE"), rest2)
       [] k > 1 /\ c = "DLE" /\ second = "ETX" -> [Nothing EXCEPT !.end = TRUE]
       [] k > 1 /\ c = "DLE" /\ second \notin {"DLE", "ETX"} -> rest2
Meaning(rev, codes) ==
  LET last[k \in 0..Len(codes)] ==
        MeaningOfLast(rev, codes, k, last[k - 1], last[k - 2])
  IN last[Len(codes)]

(* The DTE and the engine have the same bytes, whatever is in them and      *)
(* wherever a call ends: what DLE codes stand for is what the engine got or *)
(* will get, and the other way about; the end is told after the last byte,  *)
(* once.                                                                    *)
SentAlike ==
  LET told == Meaning(bitRev, input)
  IN told.bytes = output \o Content(ds) /\ (told.end <=> ds.eof) /\ (told.dle <=> dle)
ReceivedAlike ==
  LET told == Meaning(bitRev, output)
  IN /\ told.bytes \o Content(ds) = input /\ (told.end <=> recvEtx) /\ ~told.dle
     /\ recvEtx => ds.eof /\ Content(ds) = <<>>
DleTransparent ==
  \/ way = "send" /\ SentAlike
  \/ way = "recv" /\ ReceivedAlike

(* GetDleData writes no more than the count bytes it was given room for,    *)
(* the second DLE of every DLE and the end included.                        *)
RoomKept ==
  [][\A count \in 1..MaxCount :
       Len(output') <= Len(output) + 4 * count \/ ~GetDleData(4 * count)]_streamVars
=============================================================================
