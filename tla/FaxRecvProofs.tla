--------------------------- MODULE FaxRecvProofs ---------------------------
(***************************************************************************)
(* Proofs about FaxRecv, for any streams, modulations, lengths of frames   *)
(* and queues: the buffers of a ModStream are written only as long as they *)
(* are there, body and engine agree on the receive they are in, and the    *)
(* engine thread never sleeps through data.  The second part follows the   *)
(* frames: what the DTE is told of them is true.                           *)
(***************************************************************************)
EXTENDS FaxRecv, SequenceTheorems, TLAPS

(* A buffer that ended a signal, and one that refuses it                   *)
Ends(b) == b.eof => {"NoCarrier", "DiffSig"} \cap b.diag # {}
Refuses(b) == "DiffSig" \in b.diag

(* lastBuf is in bufQ or is firstBuf, and takes data.                      *)
Owned(ms) ==
  /\ ms.lastBuf = "first" => ms.firstBuf # Null /\ ~ms.firstBuf.eof /\ ms.bufQ = <<>>
  /\ ms.lastBuf = "tail"  => ms.bufQ # <<>> /\ ~ms.bufQ[Len(ms.bufQ)].eof
(* The buffer after which none comes has the reason.                       *)
Closed(ms) ==
  /\ ms.bufQ # <<>> => Ends(ms.bufQ[Len(ms.bufQ)])
  /\ ms.bufQ = <<>> /\ ms.firstBuf # Null => Ends(ms.firstBuf)
(* The buffer that refuses a signal is the only one.                       *)
Alone(ms) ==
  /\ \A n \in 1..Len(ms.bufQ) : Refuses(ms.bufQ[n]) =>
       Len(ms.bufQ) = 1 /\ ms.firstBuf = Null /\ ms.lastBuf = "none"
  /\ ms.firstBuf # Null /\ Refuses(ms.firstBuf) => ms.bufQ = <<>> /\ ms.lastBuf = "none"
Sound(ms) ==
  /\ ms \in ModStreams /\ Len(ms.bufQ) <= MaxQ
  /\ Owned(ms) /\ Closed(ms) /\ Alone(ms)
InvStreams ==
  /\ modStreamIn # Null => Sound(modStreamIn)
  /\ modStreamInSaved # Null =>
       /\ Sound(modStreamInSaved)
       /\ modStreamInSaved.firstBuf = Null /\ modStreamInSaved.bufQ # <<>>

(* What modStreamIn holds in the states of the engine                      *)
InvModem ==
  /\ stateModem = "stmInWaitData" =>
       modStreamIn # Null /\ modStreamIn.bufQ = <<>> /\ modStreamIn.firstBuf = Null
         /\ modStreamIn.lastBuf = "none"
  /\ stateModem = "stmInReadyData" =>
       modStreamIn # Null /\ modStreamIn.bufQ # <<>> /\ modStreamIn.firstBuf = Null
  /\ stateModem = "stmInRecvData" =>
       /\ modStreamIn # Null /\ modStreamIn.firstBuf # Null
       /\ Refuses(modStreamIn.firstBuf) => pc \in {"begin", "refuse"}
  /\ stateModem = "stmInWaitSilence" => isCarrierIn

(* Where the body is in a receive, and the engine with it                  *)
Begun == pc \in {"begin", "refuse"}
InvBody ==
  /\ state \notin {"stCommand", "stSendAckWait"} => attached
  /\ state = "stReqModeAckHandle" =>
       pc = "check" /\ stateModem = "stmIdle" /\ \A s \in Stream : win[s].pc # "cb"
  /\ Begun => state = "stRecvBegHandle" /\ stateModem = "stmInRecvData"
  /\ pc \in {"diag", "stop"} => state = "stRecv"
  /\ pc \in {"recv", "nap"} => state = IF attached THEN "stRecv" ELSE "stCommand"
  /\ stateModem = "stmInRecvData" <=> state = "stRecv" \/ Begun

(* A body that waits has its answer in the engine, or on its way and true. *)
Answered == stateModem = IF dataType = "dtSilence" THEN "stmIdle" ELSE "stmInReadyData"
InvWait ==
  /\ state = "stRecvBegWait" =>
       \/ /\ callbackParamIn = seq /\ seq \notin InFlight
          /\ stateModem = IF dataType = "dtSilence" THEN "stmInWaitSilence"
                                                    ELSE "stmInWaitData"
       \/ seq \in InFlight /\ Answered
  /\ state = "stRecvBegHandle" /\ ~Begun => Answered
  /\ stateModem \in {"stmInWaitSilence", "stmInWaitData"} => state = "stRecvBegWait"
  /\ stateModem = "stmInReadyData" => state \in {"stRecvBegWait", "stRecvBegHandle"}

(* What the engine thread has seen of its buffer is still so, or it will   *)
(* be woken.                                                               *)
InvWakeup ==
  state = "stRecv" /\ pc \in {"data", "fakeOn", "fakeOff", "wait"} /\ ~ready =>
    \/ \E s \in Stream : win[s].pc = "cb"
    \/ ~modStreamIn.firstBuf.unread /\ ~modStreamIn.firstBuf.eof

(* The inductive invariant                                                 *)
RecvInv == InvStreams /\ InvModem /\ InvBody /\ InvWait /\ InvWakeup
IInv == TypeOK /\ RecvInv
-----------------------------------------------------------------------------
(* The operations on ModStream.  First what each does to the four fields.  *)

(* Buffers and streams are no null pointers, and have their fields.        *)
LEMMA RecordFacts ==
  /\ NewBuf \in Bufs /\ ~NewBuf.eof /\ ~Refuses(NewBuf)
  /\ \A b \in Bufs : b # Null /\ b.has \in -1..Parts /\ b.unread \in BOOLEAN
                       /\ b.eof \in BOOLEAN /\ b.diag \subseteq Errors \cup {"NoCarrier"}
  /\ \A ms \in ModStreams : ms # Null /\ ms.mod \in Mods \cup {"v21"}
       /\ ms.firstBuf \in Bufs \cup {Null} /\ ms.bufQ \in Seq(Bufs)
       /\ ms.lastBuf \in {"none", "first", "tail"}
<1>1. NewBuf \in Bufs /\ ~NewBuf.eof /\ ~Refuses(NewBuf)
  BY RecvAssumption DEF NewBuf, Bufs, Refuses
<1>2. \A b \in Bufs : b.has \in -1..Parts /\ b.unread \in BOOLEAN
        /\ b.eof \in BOOLEAN /\ b.diag \subseteq Errors \cup {"NoCarrier"}
  BY DEF Bufs
<1>3. \A ms \in ModStreams : ms.mod \in Mods \cup {"v21"}
       /\ ms.firstBuf \in Bufs \cup {Null} /\ ms.bufQ \in Seq(Bufs)
       /\ ms.lastBuf \in {"none", "first", "tail"}
  BY DEF ModStreams
<1> QED BY <1>1, <1>2, <1>3, NullAssumption

(* The constructor of ModStream makes a stream with no buffer.             *)
LEMMA FreshShape ==
  ASSUME NEW m \in Mods \cup {"v21"}
  PROVE  /\ ModStream(m) \in ModStreams
         /\ ModStream(m).mod = m /\ ModStream(m).firstBuf = Null
         /\ ModStream(m).bufQ = <<>> /\ ModStream(m).lastBuf = "none"
<1>1. <<>> \in Seq(Bufs)
  BY EmptySeq
<1> QED BY <1>1 DEF ModStream, ModStreams

(* PushBuf appends a new buffer to bufQ and makes it lastBuf.              *)
LEMMA PushShape ==
  ASSUME NEW ms \in ModStreams
  PROVE  /\ PushBuf(ms) \in ModStreams
         /\ PushBuf(ms).mod = ms.mod /\ PushBuf(ms).firstBuf = ms.firstBuf
         /\ PushBuf(ms).bufQ = Append(ms.bufQ, NewBuf) /\ PushBuf(ms).lastBuf = "tail"
<1>1. Append(ms.bufQ, NewBuf) \in Seq(Bufs)
  BY RecordFacts
<1> QED BY <1>1 DEF PushBuf, ModStreams

(* DeleteFirstBuf drops firstBuf, and lastBuf with it where it was the     *)
(* same.                                                                   *)
LEMMA DeleteShape ==
  ASSUME NEW ms \in ModStreams
  PROVE  LET d == DeleteFirstBuf(ms)
         IN /\ d \in ModStreams
            /\ d.mod = ms.mod /\ d.firstBuf = Null /\ d.bufQ = ms.bufQ
            /\ d.lastBuf = IF ms.lastBuf = "first" THEN "none" ELSE ms.lastBuf
  BY DEF DeleteFirstBuf, ModStreams

(* A change of the last buffer of an open stream changes firstBuf or the   *)
(* last of bufQ and nothing else.                                          *)
LEMMA SetLastShape ==
  ASSUME NEW ms \in ModStreams, Open(ms), Owned(ms), NEW b \in Bufs
  PROVE  LET n == SetLast(ms, b)
         IN /\ n \in ModStreams
            /\ n.mod = ms.mod /\ n.lastBuf = ms.lastBuf
            /\ n.firstBuf = IF ms.lastBuf = "first" THEN b ELSE ms.firstBuf
            /\ n.bufQ = IF ms.lastBuf = "first" THEN ms.bufQ
                        ELSE [ms.bufQ EXCEPT ![Len(ms.bufQ)] = b]
<1>1. CASE ms.lastBuf = "first"
  BY <1>1 DEF SetLast, ModStreams
<1>2. CASE ms.lastBuf = "tail"
  <2>1. ms.bufQ \in Seq(Bufs) /\ ms.bufQ # <<>>
    BY <1>2, RecordFacts DEF Owned
  <2>2. Len(ms.bufQ) \in 1..Len(ms.bufQ)
    BY <2>1, EmptySeq
  <2>3. [ms.bufQ EXCEPT ![Len(ms.bufQ)] = b] \in Seq(Bufs)
    BY <2>1, <2>2, ExceptSeq
  <2> QED BY <1>2, <2>3 DEF SetLast, ModStreams
<1> QED BY <1>1, <1>2, RecordFacts DEF Open

(* The last buffer of a sound, open stream takes data and refuses          *)
(* nothing.                                                                *)
LEMMA LastFacts ==
  ASSUME NEW ms, Sound(ms), Open(ms)
  PROVE  LastBuf(ms) \in Bufs /\ ~LastBuf(ms).eof /\ ~Refuses(LastBuf(ms))
<1>1. CASE ms.lastBuf = "first"
  BY <1>1, RecordFacts DEF Sound, LastBuf, Owned, Alone
<1>2. CASE ms.lastBuf = "tail"
  <2>1. ms.bufQ \in Seq(Bufs) /\ ms.bufQ # <<>>
    BY <1>2, RecordFacts DEF Sound, Owned
  <2>2. Len(ms.bufQ) \in 1..Len(ms.bufQ)
    BY <2>1, EmptySeq
  <2>3. ms.bufQ[Len(ms.bufQ)] \in Bufs
    BY <2>1, <2>2, ElementOfSeq
  <2> QED BY <1>2, <2>2, <2>3 DEF Sound, LastBuf, Owned, Alone
<1> QED BY <1>1, <1>2, RecordFacts DEF Open, Sound

(* A stream without buffers                                                *)
Empty(ms) == ms.bufQ = <<>> /\ ms.firstBuf = Null /\ ms.lastBuf = "none"
(* A stream from the constructor is sound, and empty.                      *)
LEMMA FreshSound ==
  ASSUME NEW m \in Mods \cup {"v21"}
  PROVE  Sound(ModStream(m)) /\ Empty(ModStream(m)) /\ ModStream(m) # Null
<1>1. Len(<<>>) = 0
  BY EmptySeq
<1> QED BY <1>1, FreshShape, RecordFacts, RecvAssumption
        DEF Sound, Owned, Closed, Alone, Empty

(* A pushed buffer is the one that takes data from now on.                 *)
LEMMA PushSound ==
  ASSUME NEW ms \in ModStreams, Len(ms.bufQ) < MaxQ,
         \A n \in 1..Len(ms.bufQ) : ~Refuses(ms.bufQ[n]),
         ms.firstBuf = Null \/ ~Refuses(ms.firstBuf)
  PROVE  Sound(PushBuf(ms)) /\ PushBuf(ms).bufQ # <<>>
<1> DEFINE q == ms.bufQ
           p == PushBuf(ms)
<1>1. q \in Seq(Bufs) /\ Len(q) \in Nat /\ MaxQ \in Nat
  BY RecordFacts, LenProperties, RecvAssumption
<1>2. /\ Len(p.bufQ) = Len(q) + 1 /\ p.bufQ # <<>>
      /\ \A n \in 1..Len(q) : p.bufQ[n] = q[n]
      /\ p.bufQ[Len(q) + 1] = NewBuf
  BY <1>1, PushShape, RecordFacts
<1>3. \A n \in 1..Len(p.bufQ) : ~Refuses(p.bufQ[n])
  BY <1>1, <1>2, RecordFacts
<1>4. ~p.bufQ[Len(p.bufQ)].eof
  BY <1>1, <1>2, RecordFacts
<1> QED BY <1>1, <1>2, <1>3, <1>4, PushShape DEF Sound, Owned, Closed, Ends, Alone

(* The buffer the DTE reads may be deleted at any time.                    *)
LEMMA DeleteSound ==
  ASSUME NEW ms, Sound(ms)
  PROVE  LET d == DeleteFirstBuf(ms)
         IN Sound(d) /\ d # Null /\ d.bufQ = ms.bufQ /\ d.firstBuf = Null /\ d.mod = ms.mod
  BY DeleteShape, RecordFacts DEF Sound, Owned, Closed, Alone

(* What grows keeps the buffers it has.                                    *)
Grown(ms, n) ==
  /\ Sound(n) /\ n # Null
  /\ n.firstBuf = Null <=> ms.firstBuf = Null
  /\ ms.bufQ # <<>> => n.bufQ # <<>>
  /\ n.firstBuf # Null => ~Refuses(n.firstBuf)

(* The facts about the queue after a change of its last buffer             *)
LEMMA SetLastQueue ==
  ASSUME NEW ms, Sound(ms), Open(ms), NEW b \in Bufs, ~Refuses(b)
  PROVE  LET n == SetLast(ms, b)
         IN /\ n \in ModStreams /\ Len(n.bufQ) = Len(ms.bufQ)
            /\ n.firstBuf = Null <=> ms.firstBuf = Null
            /\ n.firstBuf # Null => ~Refuses(n.firstBuf)
            /\ n.bufQ = <<>> <=> ms.bufQ = <<>>
            /\ \A i \in 1..Len(n.bufQ) : ~Refuses(n.bufQ[i])
            /\ IF ms.lastBuf = "first" THEN n.firstBuf = b /\ n.bufQ = <<>>
               ELSE n.bufQ # <<>> /\ n.bufQ[Len(n.bufQ)] = b
            /\ n.mod = ms.mod /\ n.lastBuf = ms.lastBuf
<1> DEFINE n == SetLast(ms, b)
<1>0. ms \in ModStreams /\ ms.bufQ \in Seq(Bufs) /\ Owned(ms) /\ Alone(ms)
  BY RecordFacts DEF Sound
<1>1. CASE ms.lastBuf = "first"
  <2>1. ms.bufQ = <<>> /\ ms.firstBuf # Null
    BY <1>0, <1>1 DEF Owned
  <2>2. n.bufQ = <<>> /\ n.firstBuf = b
    BY <1>0, <1>1, <2>1, SetLastShape
  <2> QED BY <1>0, <1>1, <2>1, <2>2, SetLastShape, EmptySeq, RecordFacts
<1>2. CASE ms.lastBuf = "tail"
  <2>1. ms.bufQ # <<>> /\ Len(ms.bufQ) \in 1..Len(ms.bufQ)
    BY <1>0, <1>2, EmptySeq DEF Owned
  <2>0. n.bufQ = [ms.bufQ EXCEPT ![Len(ms.bufQ)] = b]
    BY <1>0, <1>2, SetLastShape
  <2>2. /\ n.bufQ \in Seq(Bufs) /\ Len(n.bufQ) = Len(ms.bufQ)
        /\ \A i \in 1..Len(ms.bufQ) :
             n.bufQ[i] = IF i = Len(ms.bufQ) THEN b ELSE ms.bufQ[i]
    BY <1>0, <2>0, <2>1, ExceptSeq
  <2>3. n.bufQ # <<>>
    BY <2>1, <2>2, EmptySeq
  <2>4. \A i \in 1..Len(n.bufQ) : ~Refuses(n.bufQ[i])
    BY <1>0, <1>2, <2>2 DEF Alone
  <2>5. n.firstBuf = ms.firstBuf /\ n \in ModStreams /\ n.mod = ms.mod /\ n.lastBuf = "tail"
    BY <1>0, <1>2, SetLastShape
  <2>6. n.firstBuf # Null => ~Refuses(n.firstBuf)
    BY <1>0, <1>2, <2>5 DEF Alone
  <2> QED BY <1>2, <2>1, <2>2, <2>3, <2>4, <2>5, <2>6
<1> QED BY <1>0, <1>1, <1>2, RecordFacts DEF Open

(* Data and diagnostics go to a buffer that is there.                      *)
LEMMA SetLastSound ==
  ASSUME NEW ms, Sound(ms), Open(ms), NEW b \in Bufs, ~b.eof, ~Refuses(b)
  PROVE  LET n == SetLast(ms, b)
         IN Grown(ms, n) /\ n.mod = ms.mod /\ n.lastBuf = ms.lastBuf
              /\ Len(n.bufQ) = Len(ms.bufQ)
<1> DEFINE n == SetLast(ms, b)
<1>1. Owned(n) /\ Closed(n) /\ Alone(n)
  BY SetLastQueue, RecordFacts DEF Owned, Closed, Ends, Alone
<1> QED BY <1>1, SetLastQueue, RecordFacts DEF Grown, Sound

(* The end of a frame, and the end of the signal if d says so.             *)
LEMMA EofShape ==
  ASSUME NEW ms, Sound(ms), Open(ms), NEW d \in SUBSET (Errors \cup {"NoCarrier"}),
         "DiffSig" \notin d
  PROVE  LET n == PutEof(ms, d)
         IN /\ n \in ModStreams /\ n # Null /\ Len(n.bufQ) = Len(ms.bufQ)
            /\ n.firstBuf = Null <=> ms.firstBuf = Null
            /\ n.firstBuf # Null => ~Refuses(n.firstBuf)
            /\ ms.bufQ # <<>> => n.bufQ # <<>>
            /\ \A i \in 1..Len(n.bufQ) : ~Refuses(n.bufQ[i])
            /\ n.mod = ms.mod /\ n.lastBuf = "none"
            /\ "NoCarrier" \in d => Closed(n)
<1> DEFINE b == LastBuf(ms)
           e == [b EXCEPT !.eof = TRUE, !.diag = @ \cup d,
                          !.unread = @ \/ Repacked(ms.mod)]
           l == SetLast(ms, e)
           n == PutEof(ms, d)
<1>1. b \in Bufs /\ ~Refuses(b)
  BY LastFacts
<1>2. e \in Bufs
  BY <1>1 DEF Bufs
<1>3. e.diag = b.diag \cup d
  BY <1>1 DEF Bufs
<1>4. ~Refuses(e) /\ ("NoCarrier" \in d => Ends(e))
  BY <1>1, <1>3 DEF Refuses, Ends
<1>5. /\ l \in ModStreams /\ Len(l.bufQ) = Len(ms.bufQ)
      /\ l.firstBuf = Null <=> ms.firstBuf = Null
      /\ l.firstBuf # Null => ~Refuses(l.firstBuf)
      /\ l.bufQ = <<>> <=> ms.bufQ = <<>>
      /\ \A i \in 1..Len(l.bufQ) : ~Refuses(l.bufQ[i])
      /\ IF ms.lastBuf = "first" THEN l.firstBuf = e /\ l.bufQ = <<>>
         ELSE l.bufQ # <<>> /\ l.bufQ[Len(l.bufQ)] = e
      /\ l.mod = ms.mod
  BY <1>2, <1>4, SetLastQueue
<1>6. n = [l EXCEPT !.lastBuf = "none"]
  BY DEF PutEof
<1>7. /\ n \in ModStreams /\ n.bufQ = l.bufQ /\ n.firstBuf = l.firstBuf
      /\ n.mod = l.mod /\ n.lastBuf = "none"
  BY <1>5, <1>6 DEF ModStreams
<1>8. "NoCarrier" \in d => Closed(n)
  BY <1>4, <1>5, <1>7 DEF Closed
<1> QED BY <1>5, <1>7, <1>8, RecordFacts

(* A signal that ends keeps its buffers.                                   *)
LEMMA EofSound ==
  ASSUME NEW ms, Sound(ms), Open(ms), NEW d \in SUBSET (Errors \cup {"NoCarrier"}),
         "NoCarrier" \in d, "DiffSig" \notin d
  PROVE  Grown(ms, PutEof(ms, d)) /\ PutEof(ms, d).lastBuf = "none"
<1>1. Len(PutEof(ms, d).bufQ) <= MaxQ
  BY EofShape DEF Sound
<1> QED BY <1>1, EofShape DEF Grown, Sound, Owned, Alone

(* The end of a frame is followed by the buffer of the next.               *)
LEMMA FrameSound ==
  ASSUME NEW ms, Sound(ms), Open(ms), NEW d \in SUBSET (Errors \cup {"NoCarrier"}),
         "DiffSig" \notin d, Len(ms.bufQ) < MaxQ
  PROVE  LET n == PushBuf(PutEof(ms, d)) IN Grown(ms, n) /\ Open(n) /\ n.mod = ms.mod
<1> DEFINE e == PutEof(ms, d)
           n == PushBuf(e)
<1>1. /\ e \in ModStreams /\ Len(e.bufQ) < MaxQ
      /\ \A i \in 1..Len(e.bufQ) : ~Refuses(e.bufQ[i])
      /\ e.firstBuf = Null \/ ~Refuses(e.firstBuf)
      /\ e.firstBuf = Null <=> ms.firstBuf = Null
      /\ e.mod = ms.mod
  BY EofShape
<1>2. Sound(n) /\ n.bufQ # <<>>
  BY <1>1, PushSound
<1> QED BY <1>1, <1>2, PushShape, RecordFacts DEF Grown, Open

(* The answer of RecvWait to another modulation is a sound stream with     *)
(* one buffer, which carries the diagnostic and the end.                   *)
LEMMA DiffSigSound ==
  ASSUME NEW ms, Sound(ms), Empty(ms)
  PROVE  LET n == DiffSig(ms)
         IN Sound(n) /\ n # Null /\ n.bufQ # <<>> /\ n.firstBuf = Null
<1> DEFINE p == PushBuf(ms)
           n == DiffSig(ms)
           e == [NewBuf EXCEPT !.eof = TRUE, !.diag = @ \cup {"DiffSig"},
                               !.unread = @ \/ Repacked(p.mod)]
           l == SetLast(p, e)
<1>1. ms \in ModStreams /\ Len(ms.bufQ) = 0 /\ MaxQ \in Nat /\ MaxQ >= 1
  BY EmptySeq, RecvAssumption DEF Sound, Empty
<1>2. Sound(p) /\ Len(p.bufQ) = 1 /\ LastBuf(p) = NewBuf /\ p.lastBuf = "tail"
      /\ p.firstBuf = Null
  <2>1. Sound(p)
    BY <1>1, PushSound DEF Empty
  <2>2. p.bufQ = Append(<<>>, NewBuf) /\ p.lastBuf = "tail" /\ p.firstBuf = Null
    BY <1>1, PushShape DEF Empty
  <2>3. Len(p.bufQ) = 1 /\ p.bufQ[1] = NewBuf
    BY <2>2, EmptySeq
  <2> QED BY <2>1, <2>2, <2>3 DEF LastBuf
<1>3. e \in Bufs /\ Refuses(e) /\ Ends(e)
  BY RecordFacts DEF Bufs, Errors, Refuses, Ends
<1>4. p \in ModStreams /\ Owned(p) /\ Open(p)
  BY <1>2, RecordFacts DEF Sound, Open
<1>5. l \in ModStreams /\ l.firstBuf = Null /\ l.bufQ = [p.bufQ EXCEPT ![1] = e]
  <2>1. /\ l \in ModStreams
        /\ l.firstBuf = IF p.lastBuf = "first" THEN e ELSE p.firstBuf
        /\ l.bufQ = IF p.lastBuf = "first" THEN p.bufQ
                    ELSE [p.bufQ EXCEPT ![Len(p.bufQ)] = e]
    BY <1>3, <1>4, SetLastShape
  <2>2. l.bufQ = [p.bufQ EXCEPT ![Len(p.bufQ)] = e]
    BY <1>2, <2>1
  <2> HIDE DEF l, p, e
  <2>3. l.firstBuf = Null
    BY <1>2, <2>1
  <2>4. [p.bufQ EXCEPT ![Len(p.bufQ)] = e] = [p.bufQ EXCEPT ![1] = e]
    BY <1>2
  <2> QED BY <2>1, <2>2, <2>3, <2>4
<1>6. Len(l.bufQ) = 1 /\ l.bufQ[1] = e /\ l.bufQ # <<>>
  <2>1. p.bufQ \in Seq(Bufs) /\ 1 \in 1..Len(p.bufQ)
    BY <1>2, <1>4, RecordFacts
  <2> QED BY <1>2, <1>3, <1>5, <2>1, ExceptSeq, EmptySeq
<1>7. n = [l EXCEPT !.lastBuf = "none"]
  BY <1>2 DEF DiffSig, PutEof
<1>8. /\ n \in ModStreams /\ n.bufQ = l.bufQ /\ n.firstBuf = l.firstBuf
      /\ n.lastBuf = "none"
  BY <1>5, <1>7 DEF ModStreams
<1>9. Closed(n) /\ Alone(n) /\ Owned(n)
  <2>1. n.bufQ # <<>> /\ Len(n.bufQ) = 1 /\ n.bufQ[Len(n.bufQ)] = e
    BY <1>6, <1>8
  <2> HIDE DEF n, e
  <2> QED BY <1>3, <1>5, <1>8, <2>1 DEF Owned, Closed, Alone
<1>10. n # Null
  BY <1>8, RecordFacts
<1>11. Len(n.bufQ) <= MaxQ
  <2>1. Len(n.bufQ) = 1
    BY <1>6, <1>8
  <2> HIDE DEF n
  <2> QED BY <1>1, <2>1
<1>12. Sound(n)
  <2> HIDE DEF n
  <2> QED BY <1>8, <1>9, <1>11 DEF Sound
<1>13. n.bufQ # <<>> /\ n.firstBuf = Null
  BY <1>5, <1>6, <1>8
<1> QED BY <1>10, <1>12, <1>13

(* The buffers of modStreamInSaved move to an empty stream.                *)
LEMMA MoveSound ==
  ASSUME NEW ms, Sound(ms), Empty(ms),
         NEW from, Sound(from), from.firstBuf = Null, from.bufQ # <<>>
  PROVE  LET n == Move(ms, from)
         IN Sound(n) /\ n # Null /\ n.bufQ # <<>> /\ n.firstBuf = Null
<1> DEFINE n == Move(ms, from)
<1>1. ms \in ModStreams /\ from \in ModStreams /\ from.bufQ \in Seq(Bufs)
  BY RecordFacts DEF Sound
<1>2. ms.bufQ \o from.bufQ = from.bufQ
  BY <1>1, ConcatEmptySeq DEF Empty
<1>3. /\ n \in ModStreams /\ n.bufQ = from.bufQ /\ n.lastBuf = from.lastBuf
      /\ n.firstBuf = Null
  BY <1>1, <1>2, RecordFacts DEF Move, ModStreams, Empty
<1> QED BY <1>3, RecordFacts DEF Sound, Owned, Closed, Alone

(* The next buffer is taken out of the queue; it may be the open one.      *)
LEMMA PopSound ==
  ASSUME NEW ms, Sound(ms), ms.bufQ # <<>>, NEW b \in Bufs,
         b.eof = Head(ms.bufQ).eof, b.diag = Head(ms.bufQ).diag
  PROVE  LET n == [PopBuf(ms) EXCEPT !.firstBuf = b]
         IN Sound(n) /\ n # Null /\ n.firstBuf = b /\ n.mod = ms.mod
<1> DEFINE d == DeleteFirstBuf(ms)
           q == ms.bufQ
           n == [PopBuf(ms) EXCEPT !.firstBuf = b]
<1>1. ms \in ModStreams /\ q \in Seq(Bufs) /\ ms.lastBuf # "first" /\ Len(q) \in Nat \ {0}
  BY RecordFacts, EmptySeq DEF Sound, Owned
<1>2. d \in ModStreams /\ d.bufQ = q /\ d.mod = ms.mod /\ d.lastBuf = ms.lastBuf
  BY <1>1, DeleteShape
<1>3. /\ Tail(q) \in Seq(Bufs) /\ Head(q) \in Bufs /\ Head(q) = q[1]
      /\ Len(Tail(q)) = Len(q) - 1 /\ \A i \in 1..Len(Tail(q)) : Tail(q)[i] = q[i + 1]
  BY <1>1, HeadTailProperties
<1>4. /\ n \in ModStreams /\ n.firstBuf = b /\ n.bufQ = Tail(q) /\ n.mod = ms.mod
      /\ n.lastBuf = IF ms.lastBuf = "tail" /\ Len(q) = 1 THEN "first" ELSE ms.lastBuf
  BY <1>1, <1>2, <1>3 DEF PopBuf, ModStreams
<1>5. CASE Len(q) = 1
  <2>1. n.bufQ = <<>>
    <3>1. Len(Tail(q)) = 0
      BY <1>3, <1>5
    <3> QED BY <1>3, <1>4, <3>1, EmptySeq
  <2>2. b.eof = q[Len(q)].eof /\ b.diag = q[Len(q)].diag
    BY <1>3, <1>5
  <2>3. ms.lastBuf = "tail" => ~b.eof /\ ~Refuses(b)
    BY <1>1, <1>5, <2>2 DEF Sound, Owned, Alone, Refuses
  <2>4. Ends(b)
    BY <2>2 DEF Sound, Closed, Ends
  <2>5. Len(n.bufQ) = 0 /\ 0 <= MaxQ
    BY <2>1, EmptySeq, RecvAssumption
  <2>6. n.lastBuf \in {"none", "first"} /\ (n.lastBuf = "first" => ms.lastBuf = "tail")
    BY <1>1, <1>4, <1>5, RecordFacts
  <2>7. n \in ModStreams /\ n.firstBuf = b /\ b # Null /\ n # Null /\ n.mod = ms.mod
    BY <1>4, RecordFacts
  <2> HIDE DEF n, q
  <2>8. Owned(n)
    BY <2>1, <2>3, <2>6, <2>7 DEF Owned
  <2>9. Closed(n)
    BY <2>1, <2>4, <2>7 DEF Closed
  <2>10. Alone(n)
    BY <2>1, <2>3, <2>5, <2>6, <2>7 DEF Alone
  <2>11. Sound(n)
    BY <2>5, <2>7, <2>8, <2>9, <2>10 DEF Sound
  <2> QED BY <2>7, <2>11 DEF n
<1>6. CASE Len(q) # 1
  <2>1. n.bufQ # <<>> /\ n.bufQ[Len(n.bufQ)] = q[Len(q)] /\ Len(n.bufQ) <= MaxQ
    <3>1. Len(q) \in Nat /\ Len(q) > 1 /\ Len(q) <= MaxQ /\ MaxQ \in Nat
      <4>1. Len(q) <= MaxQ
        BY DEF Sound
      <4>2. MaxQ \in Nat
        BY RecvAssumption
      <4>3. Len(q) \in Nat /\ Len(q) > 1
        <5>1. Len(q) \in Nat \ {0}
          BY <1>1
        <5>2. \A k \in Nat \ {0} : k # 1 => k \in Nat /\ k > 1
          OBVIOUS
        <5> QED BY <1>6, <5>1, <5>2, Zenon
      <4> QED BY <4>1, <4>2, <4>3
    <3>2. Len(Tail(q)) \in 1..Len(Tail(q)) /\ Len(Tail(q)) + 1 = Len(q)
      BY <1>3, <3>1
    <3>3. Tail(q)[Len(Tail(q))] = q[Len(Tail(q)) + 1]
      BY <1>3, <3>2
    <3>4. Tail(q) # <<>>
      <4> SUFFICES ASSUME Tail(q) = <<>> PROVE FALSE
        OBVIOUS
      <4>1. Len(Tail(q)) = 0
        BY EmptySeq
      <4>2. 0 \in 1..0
        BY <3>2, <4>1
      <4> QED BY <4>2
    <3> HIDE DEF n, q
    <3> QED BY <1>4, <3>1, <3>2, <3>3, <3>4
  <2>2. \A i \in 1..Len(q) : ~Refuses(q[i])
    BY <1>6 DEF Sound, Alone
  <2>3. ~Refuses(b) /\ \A i \in 1..Len(n.bufQ) : ~Refuses(n.bufQ[i])
    <3>1. 1 \in 1..Len(q) /\ \A i \in 1..Len(Tail(q)) : i + 1 \in 1..Len(q)
      BY <1>1, <1>3
    <3>2. ~Refuses(b)
      BY <1>3, <2>2, <3>1 DEF Refuses
    <3>3. \A i \in 1..Len(Tail(q)) : ~Refuses(Tail(q)[i])
      BY <1>3, <2>2, <3>1
    <3> HIDE DEF n, q
    <3> QED BY <1>4, <3>2, <3>3
  <2>4. n \in ModStreams /\ n.firstBuf = b /\ b # Null /\ n # Null /\ n.mod = ms.mod
        /\ n.lastBuf = ms.lastBuf /\ ms.lastBuf # "first"
    BY <1>1, <1>4, <1>6, RecordFacts
  <2>5. (ms.lastBuf = "tail" => ~q[Len(q)].eof) /\ Ends(q[Len(q)])
    BY <1>1 DEF Sound, Owned, Closed
  <2> HIDE DEF n, q
  <2>6. Owned(n) /\ Closed(n) /\ Alone(n)
    BY <2>1, <2>3, <2>4, <2>5 DEF Owned, Closed, Alone
  <2>7. Sound(n)
    BY <2>1, <2>4, <2>6 DEF Sound
  <2> QED BY <2>4, <2>7 DEF n
<1> QED BY <1>5, <1>6

(* PopBuf of a stream with a queued buffer leaves a sound one, with        *)
(* firstBuf.                                                               *)
LEMMA PopBufSound ==
  ASSUME NEW ms, Sound(ms), ms.bufQ # <<>>
  PROVE  LET n == PopBuf(ms) IN Sound(n) /\ n # Null /\ n.firstBuf # Null
<1> DEFINE h == Head(ms.bufQ)
           b == [h EXCEPT !.unread = @ \/ Repacked(ms.mod)]
           n == PopBuf(ms)
<1>1. ms \in ModStreams /\ ms.bufQ \in Seq(Bufs) /\ h \in Bufs
  BY RecordFacts, HeadTailProperties DEF Sound
<1>2. b \in Bufs /\ b.eof = h.eof /\ b.diag = h.diag
  BY <1>1 DEF Bufs
<1>3. n = [n EXCEPT !.firstBuf = b]
  BY <1>1, <1>2, DeleteShape, HeadTailProperties DEF PopBuf, ModStreams
<1>4. Sound([n EXCEPT !.firstBuf = b]) /\ [n EXCEPT !.firstBuf = b].firstBuf = b
  BY <1>2, PopSound
<1> HIDE DEF b, n
<1>5. Sound(n) /\ n.firstBuf = b
  BY <1>3, <1>4, Zenon
<1>6. n \in ModStreams
  BY <1>5 DEF Sound
<1>7. n # Null /\ b # Null
  BY <1>2, <1>6, RecordFacts, Zenon
<1>8. Sound(n) /\ n # Null /\ n.firstBuf # Null
  BY <1>5, <1>7
<1> QED BY <1>8, Zenon DEF n

(* Growing is transitive.                                                  *)
LEMMA GrownTwice ==
  ASSUME NEW a, NEW b, NEW c, Grown(a, b), Grown(b, c)
  PROVE  Grown(a, c)
  BY DEF Grown

(* A data field goes to the open buffer.                                   *)
LEMMA DataSound ==
  ASSUME NEW ms, Sound(ms), Open(ms), NEW k \in 0..Parts
  PROVE  LET n == PutData(ms, k)
         IN Grown(ms, n) /\ Open(n) /\ n.mod = ms.mod /\ Len(n.bufQ) = Len(ms.bufQ)
<1> DEFINE b == LastBuf(ms)
           c == [b EXCEPT !.has = IF @ = k - 1 THEN k ELSE -1, !.unread = TRUE]
           n == PutData(ms, k)
<1>1. b \in Bufs /\ ~b.eof /\ ~Refuses(b)
  BY LastFacts
<1>2. (IF b.has = k - 1 THEN k ELSE -1) \in -1..Parts
  BY RecvAssumption
<1>3. c \in Bufs /\ c.eof = b.eof /\ c.diag = b.diag
  BY <1>1, <1>2 DEF Bufs
<1>4. ~c.eof /\ ~Refuses(c)
  BY <1>1, <1>3 DEF Refuses
<1>5. n = SetLast(ms, c)
  BY DEF PutData
<1>6. Grown(ms, SetLast(ms, c)) /\ SetLast(ms, c).mod = ms.mod
      /\ SetLast(ms, c).lastBuf = ms.lastBuf /\ Len(SetLast(ms, c).bufQ) = Len(ms.bufQ)
  BY <1>3, <1>4, SetLastSound
<1> QED BY <1>5, <1>6 DEF Open, Grown

(* A lost packet marks the open buffer, and leaves what the DTE reads.     *)
LEMMA MarkSound ==
  ASSUME NEW ms, Sound(ms), Open(ms)
  PROVE  LET n == SetDiag(ms, {"BadFcs"})
         IN /\ Grown(ms, n)
            /\ ms.firstBuf # Null => /\ n.firstBuf.unread = ms.firstBuf.unread
                                     /\ n.firstBuf.eof = ms.firstBuf.eof
<1> DEFINE b == LastBuf(ms)
           c == [b EXCEPT !.diag = @ \cup {"BadFcs"}]
           n == SetDiag(ms, {"BadFcs"})
<1>1. b \in Bufs /\ ~b.eof /\ ~Refuses(b)
  BY LastFacts
<1>2. c \in Bufs /\ c.eof = b.eof /\ c.unread = b.unread /\ c.diag = b.diag \cup {"BadFcs"}
  BY <1>1 DEF Bufs, Errors
<1>3. ~c.eof /\ ~Refuses(c)
  BY <1>1, <1>2 DEF Refuses
<1>4. n = SetLast(ms, c)
  BY DEF SetDiag
<1>5. Grown(ms, n)
  BY <1>2, <1>3, <1>4, SetLastSound
<1>6. n.firstBuf = IF ms.lastBuf = "first" THEN c ELSE ms.firstBuf
  <2>1. ms \in ModStreams /\ Owned(ms)
    BY DEF Sound
  <2>2. SetLast(ms, c).firstBuf = IF ms.lastBuf = "first" THEN c ELSE ms.firstBuf
    BY <1>2, <2>1, SetLastShape
  <2> QED BY <1>4, <2>2
<1>7. ms.lastBuf = "first" => b = ms.firstBuf
  BY DEF LastBuf
<1>8. n.firstBuf = c \/ n.firstBuf = ms.firstBuf
  BY <1>6
<1>9. CASE ms.lastBuf = "first"
  BY <1>2, <1>5, <1>6, <1>7, <1>9
<1>10. CASE ms.lastBuf # "first"
  BY <1>5, <1>6, <1>10
<1> QED BY <1>9, <1>10

(* A packet of data, whatever it holds, when there is room for it          *)
LEMMA PutSound ==
  ASSUME NEW ms, Sound(ms), Open(ms), NEW p, p.part \in 0..Parts,
         p.fcs # "none" => Len(ms.bufQ) < MaxQ
  PROVE  Grown(ms, Put(ms, p))
<1> DEFINE d == IF p.part = 0 THEN ms ELSE PutData(ms, p.part)
           f == IF p.fcs = "BAD" THEN {"BadFcs"} ELSE {}
           e == IF p.fcs = "none" THEN d ELSE PushBuf(PutEof(d, f))
           cut == PutEof(ms, {"OutOfOrder", "NoCarrier"})
           end == PutEof(e, {"NoCarrier"})
<1>1. Put(ms, p) = IF MsgType(ms.mod) # MsgType(p.mod) THEN cut
                   ELSE IF p.sigEnd THEN end ELSE e
  BY DEF Put
<1>2. Grown(ms, ms)
  BY LastFacts, RecordFacts DEF Grown, Sound, Alone, Open
<1>3. Grown(ms, d) /\ Open(d) /\ Len(d.bufQ) = Len(ms.bufQ)
  BY <1>2, DataSound
<1>4. f \in SUBSET (Errors \cup {"NoCarrier"}) /\ "DiffSig" \notin f
  BY DEF Errors
<1>5. Grown(ms, e) /\ Open(e)
  <2>1. CASE p.fcs = "none"
    BY <1>3, <2>1
  <2>2. CASE p.fcs # "none"
    <3>1. Sound(d) /\ Len(d.bufQ) < MaxQ
      BY <1>3, <2>2 DEF Grown
    <3> HIDE DEF d, f
    <3>2. Grown(d, PushBuf(PutEof(d, f))) /\ Open(PushBuf(PutEof(d, f)))
      BY <1>3, <1>4, <3>1, FrameSound
    <3>3. e = PushBuf(PutEof(d, f))
      BY <2>2
    <3> QED BY <1>3, <3>2, <3>3, GrownTwice
  <2> QED BY <2>1, <2>2
<1>6. Grown(ms, cut)
  BY EofSound DEF Errors
<1>7. Grown(ms, end)
  <2> HIDE DEF e
  <2>1. Sound(e)
    BY <1>5 DEF Grown
  <2>2. Grown(e, end)
    BY <1>5, <2>1, EofSound
  <2> QED BY <1>5, <2>2, GrownTwice
<1> HIDE DEF cut, end, e
<1> QED BY <1>1, <1>5, <1>6, <1>7
-----------------------------------------------------------------------------
(* The remote party: what its packets may hold                             *)
Remotes == {r \in [phase : {"start", "quiet", "on", "ended"}, mod : Mods \cup {"v21"},
                   part : 0..Parts] : r.phase = "on" => r.mod \in Mods}
Inds == {"noSig", "ced"} \cup Mods
Packet(p) ==
  /\ p.part \in 0..Parts /\ p.next \in Remotes /\ p.ind \in Inds \cup {"none"}

(* The states and packets of the remote party have their types.            *)
LEMMA RemoteShape ==
  /\ \A m \in Mods, n \in 0..Parts : On(m, n) \in Remotes
  /\ {Start, Quiet, Ended} \subseteq Remotes
  /\ \A i \in Inds, r \in Remotes : Packet(Sent(i, r))
  /\ \A m, f, e : \A n \in 0..Parts, r \in Remotes : Packet(Field(m, n, f, e, r))
<1>1. 0 \in 0..Parts
  BY RecvAssumption
<1>2. \A m \in Mods, n \in 0..Parts : On(m, n) \in Remotes
  BY DEF On, Remotes
<1>3. {Start, Quiet, Ended} \subseteq Remotes
  BY <1>1 DEF Start, Quiet, Ended, Remotes
<1>4. \A i \in Inds, r \in Remotes : Packet(Sent(i, r))
  BY <1>1 DEF Packet, Sent
<1>5. \A m, f, e : \A n \in 0..Parts, r \in Remotes : Packet(Field(m, n, f, e, r))
  BY <1>1 DEF Packet, Field
<1> QED BY <1>2, <1>3, <1>4, <1>5

(* So has every packet that a remote party can send next.                  *)
LEMMA PacketFacts ==
  ASSUME NEW r \in Remotes, NEW p \in RemotePackets(r)
  PROVE  Packet(p)
<1> DEFINE m == r.mod
           n == r.part
<1>1. (r.phase = "on" => m \in Mods) /\ n \in 0..Parts /\ Parts \in Nat \ {0}
  BY RecvAssumption DEF Remotes
<1>2. 0 \in 0..Parts /\ 1 \in 0..Parts /\ (n < Parts => n + 1 \in 0..Parts)
  BY <1>1
<1>3. r.phase = "on" =>
        /\ On(m, 0) \in Remotes /\ On(m, 1) \in Remotes
        /\ n < Parts => On(m, n + 1) \in Remotes
  BY <1>1, <1>2, RemoteShape
<1> HIDE DEF m, n
<1>4. ASSUME r.phase = "on", NEW k \in 0..Parts, NEW q \in FrameEnd(m, k) PROVE Packet(q)
  BY <1>3, <1>4, RemoteShape DEF FrameEnd
<1>5. ASSUME r.phase = "on", NEW q \in FramePackets(m, n) PROVE Packet(q)
  <2>1. CASE n < Parts
    <3>1. q \in {Field(m, n + 1, "none", FALSE, On(m, n + 1))} \cup FrameEnd(m, n + 1)
      BY <2>1, <1>5 DEF FramePackets
    <3>2. CASE q = Field(m, n + 1, "none", FALSE, On(m, n + 1))
      <4>1. n + 1 \in 0..Parts /\ On(m, n + 1) \in Remotes
        BY <1>2, <1>3, <1>5, <2>1
      <4> QED BY <3>2, <4>1, RemoteShape
    <3>3. CASE q \in FrameEnd(m, n + 1)
      BY <1>2, <1>4, <1>5, <2>1, <3>3
    <3> QED BY <3>1, <3>2, <3>3
  <2>2. CASE ~(n < Parts)
    <3>1. q \in FrameEnd(m, 0)
      BY <2>2, <1>5 DEF FramePackets
    <3> QED BY <1>2, <1>4, <1>5, <3>1
  <2> QED BY <2>1, <2>2
<1>6. CASE r.phase # "on"
  <2>1. \/ p = Sent("noSig", Quiet) \/ p = Sent("ced", Quiet)
        \/ \E i \in Mods : p = Sent(i, On(i, 0))
    BY <1>6 DEF RemotePackets, Remotes
  <2> QED BY <1>2, <2>1, RemoteShape DEF Inds
<1>7. CASE r.phase = "on"
  <2>1. \/ p = Sent("noSig", Quiet) \/ p = Sent(m, r)
        \/ p \in FramePackets(m, n)
        \/ p = Field(m, 0, "none", TRUE, Ended)
        \/ p = Field(m, 1, "none", FALSE, On(m, 1))
    BY <1>7 DEF RemotePackets, Remotes, m, n
  <2>2. CASE p \in FramePackets(m, n)
    BY <1>5, <1>7, <2>2
  <2>3. CASE p # Sent("noSig", Quiet) /\ p # Sent(m, r) /\ p \notin FramePackets(m, n)
    BY <1>2, <1>3, <1>7, <2>1, <2>3, RemoteShape
  <2> QED BY <1>1, <1>7, <2>1, <2>2, <2>3, RemoteShape DEF Inds
<1> QED BY <1>6, <1>7

(* Lost packets are packets.                                               *)
LEMMA AfterLossFacts ==
  ASSUME remote \in Remotes
  PROVE  AfterLoss \subseteq Remotes
  BY PacketFacts DEF AfterLoss, Packet
-----------------------------------------------------------------------------
(* TypeOK in three parts: the Boolean variables, the streams, which are    *)
(* part of InvStreams, and the others.                                     *)
Seqs == 0..(SeqMod - 1)
TypeFlags ==
  /\ dataCount \in BOOLEAN /\ enableFakeIn \in BOOLEAN /\ ready \in BOOLEAN
  /\ attached \in BOOLEAN /\ isCarrierIn \in BOOLEAN /\ countIn \in BOOLEAN
  /\ isEnableFakeIn \in BOOLEAN /\ gap \in BOOLEAN
TypeRest ==
  /\ state \in {"stReqModeAckHandle", "stCommand", "stRecvBegWait", "stRecvBegHandle",
                "stRecv", "stSendAckWait"}
  /\ dataType \in {"dtHdlc", "dtRaw", "dtSilence"}
  /\ seq \in Seqs /\ timeout \in 0..2
  /\ diag \subseteq Errors \cup {"NoCarrier"}
  /\ pc \in {"check", "data", "begin", "refuse", "recv", "nap", "diag", "stop", "fakeOn",
             "fakeOff", "fakeCb", "wait"}
  /\ stateModem \in {"stmIdle", "stmOut", "stmInWaitSilence", "stmInWaitData",
                     "stmInReadyData", "stmInRecvData"}
  /\ callbackParamIn \in Seqs \cup {cbpReset} /\ fakeCb \in Seqs \cup {cbpReset}
  /\ hOwnerIn \in Stream \cup {Null}
  /\ life \in [Stream -> {"new", "open", "closed", "dead"}]
  /\ win \in [Stream -> [pc : {"idle", "cb", "back"}, cb : Seqs \cup {cbpReset},
                         pend : {"done", "tail"} \cup Inds]]
  /\ remote \in Remotes

(* The numbers: two steps do not lead back to the same one.                *)
LEMMA SeqFacts ==
  /\ Seqs \cup {cbpReset} = -1..(SeqMod - 1) /\ cbpReset \notin Seqs /\ 0 \in Seqs
  /\ seq \in Seqs => NextSeq \in Seqs /\ (seq + 2) % SeqMod \in Seqs /\ NextSeq # seq
<1>1. SeqMod \in 3..256
  BY RecvAssumption
<1>2. ASSUME NEW n \in Seqs PROVE (n + 1) % SeqMod = IF n = SeqMod - 1 THEN 0 ELSE n + 1
  BY <1>1, SMT DEF Seqs
<1>3. ASSUME NEW n \in Seqs PROVE (n + 2) % SeqMod \in Seqs
  BY <1>1, SMT DEF Seqs
<1>4. Seqs \cup {cbpReset} = -1..(SeqMod - 1) /\ cbpReset \notin Seqs /\ 0 \in Seqs
  BY <1>1, SMT DEF Seqs, cbpReset
<1>5. ASSUME seq \in Seqs PROVE NextSeq \in Seqs /\ NextSeq # seq
  BY <1>1, <1>2, <1>5, SMT DEF Seqs, NextSeq
<1> QED BY <1>3, <1>4, <1>5

(* The parts make up TypeOK.                                               *)
LEMMA TypeSplit ==
  /\ TypeOK => TypeFlags /\ TypeRest
  /\ TypeFlags /\ TypeRest /\ InvStreams => TypeOK
  /\ TypeFlags' /\ TypeRest' /\ InvStreams' => TypeOK'
<1> USE SeqFacts DEF TypeFlags, TypeRest, Inds, Remotes
<1>1. TypeOK => TypeFlags /\ TypeRest
  BY DEF TypeOK, Seqs
<1>2. TypeFlags /\ TypeRest /\ InvStreams => TypeOK
  BY DEF TypeOK, Seqs, InvStreams, Sound, StreamOK
<1>3. TypeFlags' /\ TypeRest' /\ InvStreams' => TypeOK'
  BY DEF TypeOK, Seqs, InvStreams, Sound, StreamOK
<1> QED BY <1>1, <1>2, <1>3
(* RecvDiag gives diagnostics.                                             *)
LEMMA DiagFacts ==
  ASSUME InvStreams
  PROVE  RecvDiag \subseteq Errors \cup {"NoCarrier"}
<1>1. modStreamIn # Null => modStreamIn.firstBuf \in Bufs \cup {Null}
  BY RecordFacts DEF InvStreams, Sound
<1> QED BY <1>1, RecordFacts DEF RecvDiag, Errors

(* The engine thread keeps the types.                                      *)
LEMMA EngineType ==
  ASSUME TypeFlags, TypeRest, InvStreams, EngineLoop
  PROVE  TypeFlags' /\ TypeRest'
<1> USE DEF bodyVars, inVars, modemVars, ownVars, mediaVars, engineSide
<1>0. TypeFlags /\ TypeRest
  OBVIOUS
<1>1. CASE CheckReqMode
  <2>1. UNCHANGED <<dataCount, enableFakeIn, attached, isCarrierIn, countIn,
     isEnableFakeIn, gap>>
    BY <1>1 DEF CheckReqMode, RecvStart, RecvWait
  <2>2. ready' \in BOOLEAN
    BY <1>0, <1>1, Zenon DEF CheckReqMode, RecvStart, RecvWait, TypeFlags
  <2>3. TypeFlags'
    BY <1>0, <2>1, <2>2 DEF TypeFlags
  <2>4. TypeRest'
    BY <1>0, <1>1, SeqFacts DEF CheckReqMode, RecvStart, RecvWait, TypeRest
  <2> QED BY <2>3, <2>4
<1>2. CASE CheckTimeout
  <2>1. UNCHANGED <<dataCount, enableFakeIn, ready, attached, isCarrierIn, countIn,
     isEnableFakeIn, gap>>
    BY <1>2 DEF CheckTimeout, ResetModemState
  <2>2. TypeFlags'
    BY <1>0, <2>1 DEF TypeFlags
  <2>3. TypeRest'
    BY <1>0, <1>2, SeqFacts DEF CheckTimeout, ResetModemState, TypeRest
  <2> QED BY <2>2, <2>3
<1>3. CASE CheckBegSilence
  <2>1. UNCHANGED <<dataCount, enableFakeIn, ready, attached, isCarrierIn, countIn,
     isEnableFakeIn, gap>>
    BY <1>3 DEF CheckBegSilence, SendSilence
  <2>2. TypeFlags'
    BY <1>0, <2>1 DEF TypeFlags
  <2>3. TypeRest'
    BY <1>0, <1>3, SeqFacts DEF CheckBegSilence, SendSilence, TypeRest
  <2> QED BY <2>2, <2>3
<1>4. CASE CheckBeg
  <2>1. UNCHANGED <<enableFakeIn, ready, attached, isCarrierIn, countIn,
     isEnableFakeIn, gap>>
    BY <1>4 DEF CheckBeg
  <2>2. dataCount' \in BOOLEAN
    BY <1>0, <1>4, Zenon DEF CheckBeg, TypeFlags
  <2>3. TypeFlags'
    BY <1>0, <2>1, <2>2 DEF TypeFlags
  <2>4. TypeRest'
    BY <1>0, <1>4, SeqFacts DEF CheckBeg, TypeRest
  <2> QED BY <2>3, <2>4
<1>5. CASE CheckBegDiag
  <2>1. UNCHANGED <<dataCount, enableFakeIn, attached, isCarrierIn, countIn,
     isEnableFakeIn, gap>>
    BY <1>5 DEF CheckBegDiag
  <2>2. ready' \in BOOLEAN
    BY <1>0, <1>5, Zenon DEF CheckBegDiag, TypeFlags
  <2>3. TypeFlags'
    BY <1>0, <2>1, <2>2 DEF TypeFlags
  <2>4. TypeRest'
    BY <1>0, <1>5, SeqFacts DEF CheckBegDiag, TypeRest
  <2> QED BY <2>3, <2>4
<1>6. CASE CheckRefuse
  <2>1. UNCHANGED <<dataCount, enableFakeIn, ready, attached, isCarrierIn, countIn,
     isEnableFakeIn, gap>>
    BY <1>6 DEF CheckRefuse, RecvStop
  <2>2. TypeFlags'
    BY <1>0, <2>1 DEF TypeFlags
  <2>3. TypeRest'
    BY <1>0, <1>6, SeqFacts DEF CheckRefuse, RecvStop, TypeRest
  <2> QED BY <2>2, <2>3
<1>7. CASE RecvSome
  <2>1. UNCHANGED <<enableFakeIn, ready, attached, isCarrierIn, countIn,
     isEnableFakeIn, gap>>
    BY <1>7 DEF RecvSome, recvSide
  <2>2. dataCount' \in BOOLEAN
    BY <1>0, <1>7, Zenon DEF RecvSome, recvSide, TypeFlags
  <2>3. TypeFlags'
    BY <1>0, <2>1, <2>2 DEF TypeFlags
  <2>4. TypeRest'
    BY <1>0, <1>7, SeqFacts DEF RecvSome, recvSide, TypeRest
  <2> QED BY <2>3, <2>4
<1>8. CASE RecvNap
  <2>1. UNCHANGED <<dataCount, enableFakeIn, ready, attached, isCarrierIn, countIn,
     isEnableFakeIn, gap>>
    BY <1>8 DEF RecvNap, recvSide
  <2>2. TypeFlags'
    BY <1>0, <2>1 DEF TypeFlags
  <2>3. TypeRest'
    BY <1>0, <1>8, SeqFacts DEF RecvNap, recvSide, TypeRest
  <2> QED BY <2>2, <2>3
<1>9. CASE RecvNextFrame
  <2>1. UNCHANGED <<dataCount, enableFakeIn, ready, attached, isCarrierIn, countIn,
     isEnableFakeIn, gap>>
    BY <1>9 DEF RecvNextFrame, recvSide
  <2>2. TypeFlags'
    BY <1>0, <2>1 DEF TypeFlags
  <2>3. TypeRest'
    BY <1>0, <1>9, SeqFacts DEF RecvNextFrame, recvSide, TypeRest
  <2> QED BY <2>2, <2>3
<1>10. CASE RecvNone
  <2>1. UNCHANGED <<dataCount, enableFakeIn, ready, attached, isCarrierIn, countIn,
     isEnableFakeIn, gap>>
    BY <1>10 DEF RecvNone, recvSide
  <2>2. TypeFlags'
    BY <1>0, <2>1 DEF TypeFlags
  <2>3. TypeRest'
    BY <1>0, <1>10, SeqFacts DEF RecvNone, recvSide, TypeRest
  <2> QED BY <2>2, <2>3
<1>11. CASE RecvEnd
  <2>1. UNCHANGED <<dataCount, enableFakeIn, ready, attached, isCarrierIn, countIn,
     isEnableFakeIn, gap>>
    BY <1>11 DEF RecvEnd, recvSide
  <2>2. TypeFlags'
    BY <1>0, <2>1 DEF TypeFlags
  <2>3. TypeRest'
    BY <1>0, <1>11, SeqFacts DEF RecvEnd, recvSide, TypeRest
  <2> QED BY <2>2, <2>3
<1>12. CASE RecvGone
  <2>1. UNCHANGED <<dataCount, enableFakeIn, ready, attached, isCarrierIn, countIn,
     isEnableFakeIn, gap>>
    BY <1>12 DEF RecvGone, recvSide
  <2>2. TypeFlags'
    BY <1>0, <2>1 DEF TypeFlags
  <2>3. TypeRest'
    BY <1>0, <1>12, SeqFacts DEF RecvGone, recvSide, TypeRest
  <2> QED BY <2>2, <2>3
<1>13. CASE ReadDiag
  <2>1. UNCHANGED <<dataCount, enableFakeIn, ready, attached, isCarrierIn, countIn,
     isEnableFakeIn, gap>>
    BY <1>13 DEF ReadDiag, recvSide
  <2>2. TypeFlags'
    BY <1>0, <2>1 DEF TypeFlags
  <2>3. TypeRest'
    BY <1>0, <1>13, SeqFacts, DiagFacts DEF ReadDiag, recvSide, TypeRest
  <2> QED BY <2>2, <2>3
<1>14. CASE StopRecv
  <2>1. UNCHANGED <<enableFakeIn, ready, attached, isCarrierIn, countIn,
     isEnableFakeIn, gap>>
    BY <1>14 DEF StopRecv, RecvStop
  <2>2. dataCount' \in BOOLEAN
    BY <1>0, <1>14, Zenon DEF StopRecv, RecvStop, TypeFlags
  <2>3. TypeFlags'
    BY <1>0, <2>1, <2>2 DEF TypeFlags
  <2>4. TypeRest'
    BY <1>0, <1>14, SeqFacts DEF StopRecv, RecvStop, TypeRest
  <2> QED BY <2>3, <2>4
<1>15. CASE CheckOther
  <2>1. UNCHANGED <<dataCount, enableFakeIn, ready, attached, isCarrierIn, countIn,
     isEnableFakeIn, gap>>
    BY <1>15 DEF CheckOther
  <2>2. TypeFlags'
    BY <1>0, <2>1 DEF TypeFlags
  <2>3. TypeRest'
    BY <1>0, <1>15, SeqFacts DEF CheckOther, TypeRest
  <2> QED BY <2>2, <2>3
<1>16. CASE CheckStatePost
  <2>1. UNCHANGED <<dataCount, enableFakeIn, ready, attached, isCarrierIn, countIn,
     isEnableFakeIn, gap>>
    BY <1>16 DEF CheckStatePost
  <2>2. TypeFlags'
    BY <1>0, <2>1 DEF TypeFlags
  <2>3. TypeRest'
    BY <1>0, <1>16, SeqFacts DEF CheckStatePost, TypeRest
  <2> QED BY <2>2, <2>3
<1>17. CASE EnableFakeOff
  <2>1. UNCHANGED <<dataCount, enableFakeIn, ready, attached, isCarrierIn, countIn,
     gap>>
    BY <1>17 DEF EnableFakeOff
  <2>2. isEnableFakeIn' \in BOOLEAN
    BY <1>0, <1>17, Zenon DEF EnableFakeOff, TypeFlags
  <2>3. TypeFlags'
    BY <1>0, <2>1, <2>2 DEF TypeFlags
  <2>4. TypeRest'
    BY <1>0, <1>17, SeqFacts DEF EnableFakeOff, TypeRest
  <2> QED BY <2>3, <2>4
<1>18. CASE EnableFakeOn
  <2>1. UNCHANGED <<dataCount, enableFakeIn, ready, attached, countIn, gap>>
    BY <1>18 DEF EnableFakeOn
  <2>2. isEnableFakeIn' \in BOOLEAN
    BY <1>0, <1>18, Zenon DEF EnableFakeOn, TypeFlags
  <2>3. isCarrierIn' \in BOOLEAN
    BY <1>0, <1>18, Zenon DEF EnableFakeOn, TypeFlags
  <2>4. TypeFlags'
    BY <1>0, <2>1, <2>2, <2>3 DEF TypeFlags
  <2>5. TypeRest'
    BY <1>0, <1>18, SeqFacts DEF EnableFakeOn, TypeRest
  <2> QED BY <2>4, <2>5
<1>19. CASE FakeCallback
  <2>1. UNCHANGED <<dataCount, enableFakeIn, attached, isCarrierIn, countIn,
     isEnableFakeIn, gap>>
    BY <1>19 DEF FakeCallback, OnEngineCallback
  <2>2. ready' \in BOOLEAN
    BY <1>0, <1>19, Zenon DEF FakeCallback, OnEngineCallback, TypeFlags
  <2>3. TypeFlags'
    BY <1>0, <2>1, <2>2 DEF TypeFlags
  <2>4. TypeRest'
    BY <1>0, <1>19, SeqFacts DEF FakeCallback, OnEngineCallback, TypeRest
  <2> QED BY <2>3, <2>4
<1>20. CASE WaitDataReady
  <2>1. UNCHANGED <<dataCount, enableFakeIn, attached, isCarrierIn, countIn,
     isEnableFakeIn, gap>>
    BY <1>20 DEF WaitDataReady
  <2>2. ready' \in BOOLEAN
    BY <1>0, <1>20, Zenon DEF WaitDataReady, TypeFlags
  <2>3. TypeFlags'
    BY <1>0, <2>1, <2>2 DEF TypeFlags
  <2>4. TypeRest'
    BY <1>0, <1>20, SeqFacts DEF WaitDataReady, TypeRest
  <2> QED BY <2>3, <2>4
<1> QED BY <1>1, <1>2, <1>3, <1>4, <1>5, <1>6, <1>7, <1>8, <1>9, <1>10, <1>11,
       <1>12, <1>13, <1>14, <1>15, <1>16, <1>17, <1>18, <1>19, <1>20
       DEF EngineLoop, CheckState

(* So do the commands, the timers and the end of the call.                 *)
LEMMA OthersType ==
  ASSUME TypeFlags, TypeRest,
         \/ CmdRecv \/ CmdSilence \/ CmdSend \/ Abort \/ Detach
         \/ SendEnds \/ ClearCall \/ TimeoutFires \/ SignalDataReady
  PROVE  TypeFlags' /\ TypeRest'
<1> USE DEF bodyVars, inVars, modemVars, ownVars, mediaVars, engineSide
<1>0. TypeFlags /\ TypeRest
  OBVIOUS
<1>1. CASE CmdRecv
  <2>1. UNCHANGED <<dataCount, enableFakeIn, attached, isCarrierIn, countIn,
     isEnableFakeIn, gap>>
    BY <1>1 DEF CmdRecv, RecvStart, RecvWait
  <2>2. ready' \in BOOLEAN
    BY <1>0, <1>1, Zenon DEF CmdRecv, RecvStart, RecvWait, TypeFlags
  <2>3. TypeFlags'
    BY <1>0, <2>1, <2>2 DEF TypeFlags
  <2>4. TypeRest'
    BY <1>0, <1>1, SeqFacts DEF CmdRecv, RecvStart, RecvWait, TypeRest
  <2> QED BY <2>3, <2>4
<1>2. CASE CmdSilence
  <2>1. UNCHANGED <<dataCount, enableFakeIn, ready, attached, isCarrierIn, countIn,
     isEnableFakeIn, gap>>
    BY <1>2 DEF CmdSilence, SendSilence
  <2>2. TypeFlags'
    BY <1>0, <2>1 DEF TypeFlags
  <2>3. TypeRest'
    BY <1>0, <1>2, SeqFacts DEF CmdSilence, SendSilence, TypeRest
  <2> QED BY <2>2, <2>3
<1>3. CASE CmdSend
  <2>1. UNCHANGED <<dataCount, enableFakeIn, ready, attached, isCarrierIn, countIn,
     isEnableFakeIn, gap>>
    BY <1>3 DEF CmdSend
  <2>2. TypeFlags'
    BY <1>0, <2>1 DEF TypeFlags
  <2>3. TypeRest'
    BY <1>0, <1>3, SeqFacts DEF CmdSend, TypeRest
  <2> QED BY <2>2, <2>3
<1>4. CASE Abort
  <2>1. UNCHANGED <<enableFakeIn, ready, attached, isCarrierIn, countIn,
     isEnableFakeIn, gap>>
    BY <1>4 DEF Abort, ResetModemState
  <2>2. dataCount' \in BOOLEAN
    BY <1>0, <1>4, Zenon DEF Abort, ResetModemState, TypeFlags
  <2>3. TypeFlags'
    BY <1>0, <2>1, <2>2 DEF TypeFlags
  <2>4. TypeRest'
    BY <1>0, <1>4, SeqFacts DEF Abort, ResetModemState, TypeRest
  <2> QED BY <2>3, <2>4
<1>5. CASE Detach
  <2>1. UNCHANGED <<isCarrierIn, countIn, isEnableFakeIn, gap>>
    BY <1>5 DEF Detach, ResetModemState
  <2>2. attached' \in BOOLEAN
    BY <1>0, <1>5, Zenon DEF Detach, ResetModemState, TypeFlags
  <2>3. enableFakeIn' \in BOOLEAN
    BY <1>0, <1>5, Zenon DEF Detach, ResetModemState, TypeFlags
  <2>4. ready' \in BOOLEAN
    BY <1>0, <1>5, Zenon DEF Detach, ResetModemState, TypeFlags
  <2>5. dataCount' \in BOOLEAN
    BY <1>0, <1>5, Zenon DEF Detach, ResetModemState, TypeFlags
  <2>6. TypeFlags'
    BY <1>0, <2>1, <2>2, <2>3, <2>4, <2>5 DEF TypeFlags
  <2>7. TypeRest'
    BY <1>0, <1>5, SeqFacts DEF Detach, ResetModemState, TypeRest
  <2> QED BY <2>6, <2>7
<1>6. CASE SendEnds
  <2>1. UNCHANGED <<dataCount, enableFakeIn, ready, attached, countIn, isEnableFakeIn,
     gap>>
    BY <1>6 DEF SendEnds
  <2>2. isCarrierIn' \in BOOLEAN
    BY <1>0, <1>6, Zenon DEF SendEnds, TypeFlags
  <2>3. TypeFlags'
    BY <1>0, <2>1, <2>2 DEF TypeFlags
  <2>4. TypeRest'
    BY <1>0, <1>6, SeqFacts DEF SendEnds, TypeRest
  <2> QED BY <2>3, <2>4
<1>7. CASE ClearCall
  <2>1. UNCHANGED <<dataCount, attached, isCarrierIn, countIn, isEnableFakeIn, gap>>
    BY <1>7 DEF ClearCall
  <2>2. enableFakeIn' \in BOOLEAN
    BY <1>0, <1>7, Zenon DEF ClearCall, TypeFlags
  <2>3. ready' \in BOOLEAN
    BY <1>0, <1>7, Zenon DEF ClearCall, TypeFlags
  <2>4. TypeFlags'
    BY <1>0, <2>1, <2>2, <2>3 DEF TypeFlags
  <2>5. TypeRest'
    BY <1>0, <1>7, SeqFacts DEF ClearCall, TypeRest
  <2> QED BY <2>4, <2>5
<1>8. CASE TimeoutFires
  <2>1. UNCHANGED <<dataCount, enableFakeIn, attached, isCarrierIn, countIn,
     isEnableFakeIn, gap>>
    BY <1>8 DEF TimeoutFires
  <2>2. ready' \in BOOLEAN
    BY <1>0, <1>8, Zenon DEF TimeoutFires, TypeFlags
  <2>3. TypeFlags'
    BY <1>0, <2>1, <2>2 DEF TypeFlags
  <2>4. TypeRest'
    BY <1>0, <1>8, SeqFacts DEF TimeoutFires, TypeRest
  <2> QED BY <2>3, <2>4
<1>9. CASE SignalDataReady
  <2>1. UNCHANGED <<dataCount, enableFakeIn, attached, isCarrierIn, countIn,
     isEnableFakeIn, gap>>
    BY <1>9 DEF SignalDataReady
  <2>2. ready' \in BOOLEAN
    BY <1>0, <1>9, Zenon DEF SignalDataReady, TypeFlags
  <2>3. TypeFlags'
    BY <1>0, <2>1, <2>2 DEF TypeFlags
  <2>4. TypeRest'
    BY <1>0, <1>9, SeqFacts DEF SignalDataReady, TypeRest
  <2> QED BY <2>3, <2>4
<1> QED BY <1>1, <1>2, <1>3, <1>4, <1>5, <1>6, <1>7, <1>8, <1>9

(* So do the opening and closing of streams, a reported loss and the       *)
(* callbacks of the media threads.                                         *)
LEMMA MediaType ==
  ASSUME TypeFlags, TypeRest, NEW s \in Stream,
         StreamOpen(s) \/ StreamClose(s) \/ HandlePacketLost(s) \/ InCallback(s)
  PROVE  TypeFlags' /\ TypeRest'
<1> USE DEF bodyVars, inVars, modemVars, ownVars, mediaVars, engineSide
<1>0. TypeFlags /\ TypeRest
  OBVIOUS
<1>1. CASE StreamOpen(s)
  <2>1. UNCHANGED <<dataCount, enableFakeIn, attached, isCarrierIn, countIn,
     isEnableFakeIn>>
    BY <1>1 DEF StreamOpen, Woken, ownSide
  <2>2. ready' \in BOOLEAN
    BY <1>0, <1>1, Zenon DEF StreamOpen, Woken, ownSide, TypeFlags
  <2>3. gap' \in BOOLEAN
    BY <1>0, <1>1, Zenon DEF StreamOpen, Woken, ownSide, TypeFlags
  <2>4. TypeFlags'
    BY <1>0, <2>1, <2>2, <2>3 DEF TypeFlags
  <2>5. TypeRest'
    BY <1>0, <1>1, SeqFacts, RemoteShape DEF StreamOpen, Woken, ownSide, TypeRest
  <2> QED BY <2>4, <2>5
<1>2. CASE StreamClose(s)
  <2>1. UNCHANGED <<dataCount, enableFakeIn, attached, isCarrierIn, countIn>>
    BY <1>2 DEF StreamClose, Woken, ownSide
  <2>2. isEnableFakeIn' \in BOOLEAN
    BY <1>0, <1>2, Zenon DEF StreamClose, Woken, ownSide, TypeFlags
  <2>3. ready' \in BOOLEAN
    BY <1>0, <1>2, Zenon DEF StreamClose, Woken, ownSide, TypeFlags
  <2>4. gap' \in BOOLEAN
    BY <1>0, <1>2, Zenon DEF StreamClose, Woken, ownSide, TypeFlags
  <2>5. TypeFlags'
    BY <1>0, <2>1, <2>2, <2>3, <2>4 DEF TypeFlags
  <2>6. TypeRest'
    BY <1>0, <1>2, SeqFacts, RemoteShape DEF StreamClose, Woken, ownSide, TypeRest
  <2> QED BY <2>5, <2>6
<1>3. CASE HandlePacketLost(s)
  <2>1. UNCHANGED <<dataCount, enableFakeIn, ready, attached, isCarrierIn, countIn,
     isEnableFakeIn>>
    BY <1>3 DEF HandlePacketLost, inSide
  <2>2. gap' \in BOOLEAN
    BY <1>0, <1>3, Zenon DEF HandlePacketLost, inSide, TypeFlags
  <2>3. TypeFlags'
    BY <1>0, <2>1, <2>2 DEF TypeFlags
  <2>4. TypeRest'
    BY <1>0, <1>3, SeqFacts, AfterLossFacts DEF HandlePacketLost, inSide, TypeRest
  <2> QED BY <2>3, <2>4
<1>4. CASE InCallback(s)
  <2>1. UNCHANGED <<dataCount, enableFakeIn, attached, isCarrierIn, countIn,
     isEnableFakeIn, gap>>
    BY <1>4 DEF InCallback, OnEngineCallback
  <2>2. ready' \in BOOLEAN
    BY <1>0, <1>4, Zenon DEF InCallback, OnEngineCallback, TypeFlags
  <2>3. TypeFlags'
    BY <1>0, <2>1, <2>2 DEF TypeFlags
  <2>4. win' \in [Stream -> [pc : {"idle", "cb", "back"}, cb : Seqs \cup {cbpReset},
                             pend : {"done", "tail"} \cup Inds]]
    <3>1. win' = [win EXCEPT ![s] = [win[s] EXCEPT !.pc = "back", !.cb = cbpReset]]
      BY <1>4 DEF InCallback
    <3>2. [win[s] EXCEPT !.pc = "back", !.cb = cbpReset] \in
            [pc : {"idle", "cb", "back"}, cb : Seqs \cup {cbpReset},
             pend : {"done", "tail"} \cup Inds]
      BY <1>0 DEF TypeRest
    <3> QED BY <1>0, <3>1, <3>2 DEF TypeRest
  <2>5. TypeRest'
    BY <1>0, <1>4, <2>4, SeqFacts DEF InCallback, OnEngineCallback, TypeRest
  <2> QED BY <2>3, <2>5
<1> QED BY <1>1, <1>2, <1>3, <1>4
-----------------------------------------------------------------------------
(* The callbacks on their way, when a media thread moves ..                *)
LEMMA FlightMedia ==
  ASSUME TypeRest, NEW s \in Stream, NEW r, win' = [win EXCEPT ![s] = r],
         win[s].pc # "cb",
         UNCHANGED <<pc, fakeCb>>
  PROVE  /\ InFlight' = InFlight \cup (IF r.pc = "cb" THEN {r.cb} ELSE {})
         /\ (\E t \in Stream : win'[t].pc = "cb") <=>
              (r.pc = "cb" \/ \E t \in Stream : win[t].pc = "cb")
<1>1. win'[s] = r /\ \A t \in Stream \ {s} : win'[t] = win[t]
  BY DEF TypeRest
<1>2. {win'[t].cb : t \in {u \in Stream : win'[u].pc = "cb"}} =
        {win[t].cb : t \in {u \in Stream : win[u].pc = "cb"}}
          \cup (IF r.pc = "cb" THEN {r.cb} ELSE {})
  BY <1>1
<1> QED BY <1>1, <1>2 DEF InFlight

(* .. when its callback has been made ..                                   *)
LEMMA FlightDone ==
  ASSUME TypeRest, NEW s \in Stream, NEW r, win' = [win EXCEPT ![s] = r],
         win[s].pc = "cb",
         r.pc = "back", UNCHANGED <<pc, fakeCb>>
  PROVE  InFlight' \subseteq InFlight /\ InFlight \subseteq InFlight' \cup {win[s].cb}
<1>1. win'[s] = r /\ \A t \in Stream \ {s} : win'[t] = win[t]
  BY DEF TypeRest
<1> QED BY <1>1 DEF InFlight

(* .. and when the engine thread moves                                     *)
LEMMA FlightEngine ==
  ASSUME UNCHANGED win
  PROVE  /\ pc # "fakeCb" /\ pc' # "fakeCb" => InFlight' = InFlight
         /\ UNCHANGED <<pc, fakeCb>> => InFlight' = InFlight
         /\ pc # "fakeCb" /\ pc' = "fakeCb" => InFlight' = InFlight \cup {fakeCb'}
         /\ pc = "fakeCb" /\ pc' # "fakeCb" =>
              InFlight' \subseteq InFlight /\ InFlight \subseteq InFlight' \cup {fakeCb}
  BY DEF InFlight

(* What is left of the input when the buffer the DTE reads is deleted      *)
LEMMA UnreadFacts ==
  ASSUME InvStreams
  PROVE  /\ Unread = Null <=> modStreamIn = Null
         /\ Unread # Null => Sound(Unread) /\ Unread.firstBuf = Null
  BY DeleteSound DEF InvStreams, Unread

(* A stream with the buffer of a signal to come                            *)
Saved(ms) == ms # Null => Sound(ms) /\ ms.firstBuf = Null /\ ms.bufQ # <<>>
(* What HandlePacket saves for a signal nobody waits for is such a         *)
(* stream.                                                                 *)
LEMMA SavedFacts ==
  ASSUME NEW i \in Mods
  PROVE  LET ms == PushBuf(ModStream(i)) IN ms # Null /\ Saved(ms)
<1> DEFINE f == ModStream(i)
<1>1. f \in ModStreams /\ f.firstBuf = Null /\ f.bufQ = <<>>
  BY FreshShape
<1>2. Len(f.bufQ) = 0 /\ Len(f.bufQ) < MaxQ
  BY <1>1, EmptySeq, RecvAssumption
<1> HIDE DEF f
<1>3. Sound(PushBuf(f)) /\ PushBuf(f).bufQ # <<>>
  BY <1>1, <1>2, PushSound
<1>4. PushBuf(f).firstBuf = Null /\ PushBuf(f) # Null
  BY <1>1, PushShape, RecordFacts
<1> QED BY <1>3, <1>4 DEF Saved, f

(* RecvWait leaves an empty stream to wait for, or buffers to receive.     *)
LEMMA RecvWaitFacts ==
  ASSUME InvStreams, NEW m \in Mods \cup {"v21"}, NEW param, RecvWait(m, param)
  PROVE  /\ InvStreams' /\ modStreamIn' # Null /\ modStreamIn'.firstBuf = Null
         /\ callbackParamIn' = param
         /\ \/ stateModem' = "stmInReadyData" /\ modStreamIn'.bufQ # <<>>
            \/ stateModem' = "stmInWaitData" /\ Empty(modStreamIn')
<1>1. CASE /\ Kept(m) /\ modStreamIn' = DeleteFirstBuf(modStreamIn)
           /\ stateModem' = "stmInReadyData" /\ UNCHANGED modStreamInSaved
  <2>1. Sound(modStreamIn) /\ modStreamIn.bufQ # <<>>
    BY <1>1 DEF Kept, InvStreams
  <2>2. Sound(modStreamIn') /\ modStreamIn' # Null /\ modStreamIn'.firstBuf = Null
        /\ modStreamIn'.bufQ # <<>>
    BY <1>1, <2>1, DeleteSound
  <2> QED BY <1>1, <2>2 DEF InvStreams, RecvWait
<1>2. CASE /\ modStreamInSaved # Null /\ IsEqual(m, modStreamInSaved.mod)
           /\ modStreamIn' = Move(ModStream(m), modStreamInSaved)
           /\ modStreamInSaved' = Null /\ stateModem' = "stmInReadyData"
  <2>1. Sound(ModStream(m)) /\ Empty(ModStream(m))
    BY FreshSound
  <2>2. Sound(modStreamIn') /\ modStreamIn' # Null /\ modStreamIn'.firstBuf = Null
        /\ modStreamIn'.bufQ # <<>>
    BY <1>2, <2>1, MoveSound DEF InvStreams
  <2> QED BY <1>2, <2>2 DEF InvStreams, RecvWait
<1>3. CASE /\ modStreamIn' = DiffSig(ModStream(m)) /\ UNCHANGED modStreamInSaved
           /\ stateModem' = "stmInReadyData"
  <2>1. Sound(ModStream(m)) /\ Empty(ModStream(m))
    BY FreshSound
  <2>2. Sound(modStreamIn') /\ modStreamIn' # Null /\ modStreamIn'.firstBuf = Null
        /\ modStreamIn'.bufQ # <<>>
    BY <1>3, <2>1, DiffSigSound
  <2> QED BY <1>3, <2>2 DEF InvStreams, RecvWait
<1>4. CASE /\ modStreamIn' = ModStream(m) /\ UNCHANGED modStreamInSaved
           /\ stateModem' = "stmInWaitData"
  <2>1. Sound(modStreamIn') /\ modStreamIn' # Null /\ Empty(modStreamIn')
    BY <1>4, FreshSound
  <2> QED BY <1>4, <2>1 DEF InvStreams, RecvWait, Empty
<1> QED BY <1>1, <1>2, <1>3, <1>4 DEF RecvWait
-----------------------------------------------------------------------------
(* What a step of HandlePacket does to a receive: it makes a callback for  *)
(* whatever the body waits for or reads, and leaves the rest.              *)
Calls(s) == \E a \in {"done", "tail"} \cup Inds : Callback(s, a)
Leaves(s) == win' = [win EXCEPT ![s] = [pc |-> "idle", cb |-> cbpReset, pend |-> "done"]]
Outcome(s) ==
  \/ /\ Leaves(s) /\ stateModem' = stateModem
     /\ stateModem \in {"stmInWaitData", "stmInRecvData"} => modStreamIn' = modStreamIn
     /\ stateModem = "stmInReadyData" =>
          modStreamIn'.bufQ # <<>> /\ modStreamIn'.firstBuf = Null
     /\ stateModem = "stmInWaitSilence" => isCarrierIn'
  \/ /\ Calls(s) /\ stateModem = "stmInRecvData" /\ stateModem' = "stmInRecvData"
     /\ modStreamIn'.firstBuf # Null
     /\ Refuses(modStreamIn'.firstBuf) => Refuses(modStreamIn.firstBuf)
  \/ Calls(s) /\ stateModem = "stmInWaitSilence" /\ stateModem' = "stmIdle"
  \/ /\ Calls(s) /\ stateModem = "stmInWaitData" /\ stateModem' = "stmInReadyData"
     /\ modStreamIn'.bufQ # <<>> /\ modStreamIn'.firstBuf = Null
MediaStep(s) ==
  /\ win[s].pc # "cb"
  /\ InvStreams' /\ (modStreamIn' = Null <=> modStreamIn = Null)
  /\ Outcome(s)

(* A stream that takes data is in no state that waits for data.            *)
LEMMA OpenFacts ==
  ASSUME InvStreams, InvModem, Open(modStreamIn)
  PROVE  modStreamIn # Null /\ Sound(modStreamIn) /\ stateModem # "stmInWaitData"
  BY DEF Open, InvStreams, InvModem

(* An indicator: in is what the signal before it has left.                 *)
LEMMA NewSignalFacts ==
  ASSUME InvStreams, InvModem, NEW s \in Stream, NEW i \in Inds, NEW in,
         NewSignal(s, i, in),
         in = Null <=> modStreamIn = Null, in # Null => Sound(in),
         stateModem \in {"stmInWaitData", "stmInRecvData"} => in = modStreamIn,
         stateModem = "stmInReadyData" => in.bufQ # <<>> /\ in.firstBuf = Null
  PROVE  /\ InvStreams' /\ (modStreamIn' = Null <=> modStreamIn = Null)
         /\ Outcome(s)
<1> DEFINE saved == PushBuf(ModStream(i))
<1>1. ASSUME modStreamIn' = in, EndSilence(s) PROVE Outcome(s)
  BY <1>1 DEF EndSilence, Return, Idle, Leaves, Calls, Outcome
<1>2. CASE /\ i \notin Mods /\ modStreamInSaved' = Null /\ modStreamIn' = in
           /\ EndSilence(s)
  BY <1>1, <1>2 DEF InvStreams
<1>3. CASE /\ i \in Mods /\ modStreamInSaved' = saved /\ modStreamIn' = in
           /\ EndSilence(s)
  <2>1. Saved(saved)
    BY <1>3, SavedFacts
  <2> HIDE DEF saved
  <2> QED BY <1>1, <1>3, <2>1 DEF InvStreams, Saved
<1>4. CASE /\ i \in Mods /\ stateModem = "stmInWaitData"
           /\ IF in # Null /\ IsEqual(in.mod, i)
              THEN modStreamIn' = Move(in, saved) /\ modStreamInSaved' = Null
              ELSE /\ modStreamIn' = IF in = Null THEN Null ELSE DiffSig(in)
                   /\ modStreamInSaved' = saved
           /\ stateModem' = "stmInReadyData" /\ Callback(s, "done")
  <2>1. in # Null /\ Sound(in) /\ Empty(in) /\ modStreamIn # Null
    BY <1>4 DEF InvModem, Empty
  <2>2. Saved(saved) /\ saved # Null
    BY <1>4, SavedFacts
  <2>3. Calls(s)
    BY <1>4 DEF Calls
  <2> HIDE DEF saved
  <2>4. Sound(modStreamIn') /\ modStreamIn' # Null /\ modStreamIn'.bufQ # <<>>
        /\ modStreamIn'.firstBuf = Null
    <3>1. CASE modStreamIn' = Move(in, saved)
      BY <2>1, <2>2, <3>1, MoveSound DEF Saved
    <3>2. CASE modStreamIn' = DiffSig(in)
      BY <2>1, <3>2, DiffSigSound
    <3> QED BY <1>4, <2>1, <3>1, <3>2
  <2>5. Saved(modStreamInSaved')
    BY <1>4, <2>2 DEF Saved
  <2>6. InvStreams'
    BY <2>4, <2>5 DEF InvStreams, Saved
  <2> QED BY <1>4, <2>1, <2>3, <2>4, <2>6 DEF Outcome
<1> HIDE DEF saved
<1>5. \/ i \notin Mods /\ modStreamInSaved' = Null /\ modStreamIn' = in /\ EndSilence(s)
      \/ i \in Mods /\ modStreamInSaved' = saved /\ modStreamIn' = in /\ EndSilence(s)
      \/ /\ i \in Mods /\ stateModem = "stmInWaitData"
         /\ IF in # Null /\ IsEqual(in.mod, i)
            THEN modStreamIn' = Move(in, saved) /\ modStreamInSaved' = Null
            ELSE /\ modStreamIn' = IF in = Null THEN Null ELSE DiffSig(in)
                 /\ modStreamInSaved' = saved
         /\ stateModem' = "stmInReadyData" /\ Callback(s, "done")
  BY DEF NewSignal, saved
<1> QED BY <1>2, <1>3, <1>4, <1>5

(* An indicator that ends a signal, cuts it or is ignored                  *)
LEMMA IndicatorFacts ==
  ASSUME InvStreams, InvModem, NEW s \in Stream, win[s].pc = "idle",
         NEW i \in Inds, Indicator(s, i)
  PROVE  MediaStep(s)
<1> DEFINE cut == PutEof(modStreamIn, {"OutOfOrder", "NoCarrier"})
<1>0. {"OutOfOrder", "NoCarrier"} \in SUBSET (Errors \cup {"NoCarrier"})
  BY DEF Errors
<1>1. ASSUME Open(modStreamIn)
      PROVE  Grown(modStreamIn, cut) /\ cut # Null /\ Sound(cut) /\ modStreamIn # Null
  <2>1. Grown(modStreamIn, cut)
    BY <1>0, <1>1, OpenFacts, EofSound
  <2> HIDE DEF cut
  <2> QED BY <1>1, <2>1, OpenFacts DEF Grown
<1> HIDE DEF cut
<1>2. CASE Return(s) /\ UNCHANGED <<inVars, modStreamIn, stateModem>>
  BY <1>2 DEF Return, Idle, Leaves, Outcome, MediaStep, InvStreams, InvModem, inVars
<1>3. CASE /\ Open(modStreamIn) /\ stateModem = "stmInRecvData" /\ modStreamIn' = cut
           /\ Callback(s, i) /\ UNCHANGED <<inVars, stateModem>>
  <2>1. Calls(s)
    BY <1>3 DEF Calls
  <2>2. cut.firstBuf # Null /\ ~Refuses(cut.firstBuf)
    BY <1>1, <1>3 DEF Grown, InvModem
  <2>3. InvStreams'
    BY <1>1, <1>3 DEF InvStreams, inVars
  <2> QED BY <1>1, <1>3, <2>1, <2>2, <2>3 DEF Outcome, MediaStep
<1>4. CASE /\ Open(modStreamIn) /\ stateModem # "stmInRecvData" /\ NewSignal(s, i, cut)
  <2>1. stateModem = "stmInReadyData" => cut.bufQ # <<>> /\ cut.firstBuf = Null
    BY <1>1, <1>4 DEF Grown, InvModem
  <2> QED BY <1>1, <1>4, <2>1, OpenFacts, NewSignalFacts DEF MediaStep
<1>5. CASE NewSignal(s, i, modStreamIn)
  <2>1. stateModem = "stmInReadyData" => modStreamIn.bufQ # <<>> /\ modStreamIn.firstBuf = Null
    BY DEF InvModem
  <2>2. modStreamIn # Null => Sound(modStreamIn)
    BY DEF InvStreams
  <2> QED BY <1>5, <2>1, <2>2, NewSignalFacts DEF MediaStep
<1> QED BY <1>2, <1>3, <1>4, <1>5 DEF Indicator, cut

(* A packet of data                                                        *)
LEMMA DataFacts ==
  ASSUME InvStreams, InvModem, NEW s \in Stream, win[s].pc = "idle",
         NEW p, Packet(p), Room(p), Data(s, p)
  PROVE  MediaStep(s)
<1>1. ASSUME NEW ms \in {modStreamIn, modStreamInSaved}, Open(ms)
      PROVE  ms # Null /\ Grown(ms, Put(ms, p))
  <2>1. ms # Null /\ Sound(ms)
    BY <1>1 DEF Open, InvStreams
  <2>2. p.fcs # "none" => Len(ms.bufQ) < MaxQ
    BY <1>1 DEF Room
  <2> QED BY <1>1, <2>1, <2>2, PutSound DEF Packet
<1>2. /\ InvStreams' /\ (modStreamIn' = Null <=> modStreamIn = Null)
      /\ ~Open(modStreamIn) => modStreamIn' = modStreamIn
      /\ Open(modStreamIn) => Grown(modStreamIn, modStreamIn')
  <2>1. CASE Open(modStreamIn)
    <3>1. modStreamIn' = Put(modStreamIn, p) /\ UNCHANGED modStreamInSaved
      BY <2>1 DEF Data
    <3>2. Grown(modStreamIn, modStreamIn') /\ modStreamIn # Null
      BY <1>1, <2>1, <3>1
    <3> QED BY <2>1, <3>1, <3>2 DEF InvStreams, Grown
  <2>2. CASE ~Open(modStreamIn)
    <3>1. UNCHANGED modStreamIn
      BY <2>2 DEF Data
    <3>2. CASE Open(modStreamInSaved)
      <4>1. modStreamInSaved' = Put(modStreamInSaved, p)
        BY <2>2, <3>2 DEF Data
      <4>2. Grown(modStreamInSaved, modStreamInSaved') /\ modStreamInSaved # Null
        BY <1>1, <3>2, <4>1
      <4> QED BY <2>2, <3>1, <4>2 DEF InvStreams, Grown
    <3>3. CASE ~Open(modStreamInSaved)
      BY <2>2, <3>1, <3>3 DEF InvStreams, Data
    <3> QED BY <3>2, <3>3
  <2> QED BY <2>1, <2>2
<1>3. CASE DataEndSilence(p)
  <2>1. stateModem = "stmInWaitSilence" /\ stateModem' = "stmIdle" /\ Callback(s, "tail")
    BY <1>3 DEF Data, DataEndSilence
  <2>2. Calls(s)
    BY <2>1 DEF Calls
  <2> QED BY <1>2, <2>1, <2>2 DEF Outcome, MediaStep
<1>4. CASE ~DataEndSilence(p)
  <2>1. UNCHANGED stateModem /\ DataTail(s)
    BY <1>4 DEF Data
  <2>2. stateModem = "stmInWaitSilence" => isCarrierIn'
    <3>1. stateModem = "stmInWaitSilence" => isCarrierIn /\ ~p.sigEnd
      BY <1>4 DEF DataEndSilence, InvModem
    <3>2. isCarrierIn' <=> (isCarrierIn /\ ~p.sigEnd)
      BY Zenon DEF Data
    <3> QED BY <3>1, <3>2
  <2>3. CASE stateModem = "stmInRecvData"
    <3>1. Calls(s)
      BY <2>1, <2>3 DEF DataTail, Calls
    <3>2. /\ modStreamIn'.firstBuf # Null
          /\ Refuses(modStreamIn'.firstBuf) => Refuses(modStreamIn.firstBuf)
      BY <1>2, <2>3 DEF Grown, InvModem
    <3> QED BY <1>2, <2>1, <2>3, <3>1, <3>2 DEF Outcome, MediaStep
  <2>4. CASE stateModem # "stmInRecvData"
    <3>1. Leaves(s)
      BY <2>1, <2>4 DEF DataTail, Return, Idle, Leaves
    <3>2. stateModem = "stmInWaitData" => modStreamIn' = modStreamIn
      BY <1>2, OpenFacts
    <3>3. stateModem = "stmInReadyData" =>
            modStreamIn'.bufQ # <<>> /\ modStreamIn'.firstBuf = Null
      BY <1>2 DEF Grown, InvModem
    <3> QED BY <1>2, <2>1, <2>2, <2>4, <3>1, <3>2, <3>3 DEF Outcome, MediaStep
  <2> QED BY <2>3, <2>4
<1> QED BY <1>3, <1>4

(* HandlePacket and what it does after its callback                        *)
LEMMA MediaStepFacts ==
  ASSUME TypeRest, InvStreams, InvModem, NEW s \in Stream,
         HandlePacket(s) \/ CallbackBack(s)
  PROVE  MediaStep(s)
<1>1. ASSUME win[s].pc # "cb", Leaves(s), UNCHANGED <<inVars, modStreamIn, stateModem>>
      PROVE  MediaStep(s)
  BY <1>1 DEF Leaves, Outcome, MediaStep, InvStreams, InvModem, inVars
<1>2. CASE HandlePacket(s)
  <2>1. CASE ~Owns(s)
    <3>1. win[s].pc # "cb" /\ Leaves(s) /\ UNCHANGED <<inVars, modStreamIn, stateModem>>
      BY <1>2, <2>1 DEF HandlePacket, ReturnFalse, Idle, Leaves, inVars
    <3> QED BY <1>1, <3>1
  <2>2. CASE Owns(s)
    <3>1. PICK p \in RemotePackets(remote) :
            Room(p) /\ IF p.ind = "none" THEN Data(s, p) ELSE Indicator(s, p.ind)
      BY <1>2, <2>2 DEF HandlePacket
    <3>2. Packet(p)
      BY <3>1, PacketFacts DEF TypeRest
    <3>3. win[s].pc = "idle"
      BY <1>2 DEF HandlePacket
    <3>4. CASE p.ind = "none"
      BY <3>1, <3>2, <3>3, <3>4, DataFacts
    <3>5. CASE p.ind # "none"
      <4>1. p.ind \in Inds /\ Indicator(s, p.ind)
        BY <3>1, <3>2, <3>5 DEF Packet
      <4> QED BY <3>3, <4>1, IndicatorFacts
    <3> QED BY <3>4, <3>5
  <2> QED BY <2>1, <2>2
<1>3. CASE CallbackBack(s)
  <2>1. win[s].pc = "back" /\ win[s].pend \in {"done", "tail"} \cup Inds
    BY <1>3 DEF CallbackBack, TypeRest
  <2>2. CASE ~Owns(s) \/ win[s].pend = "done"
    <3>1. Leaves(s) /\ UNCHANGED <<inVars, modStreamIn, stateModem>>
      BY <1>3, <2>2 DEF CallbackBack, ReturnFalse, Return, Idle, Leaves
    <3> QED BY <1>1, <2>1, <3>1
  <2>3. CASE Owns(s) /\ win[s].pend = "tail"
    <3>1. DataTail(s) /\ UNCHANGED <<inVars, modStreamIn, stateModem>>
      BY <1>3, <2>3 DEF CallbackBack
    <3>2. CASE stateModem = "stmInRecvData"
      <4>1. Calls(s)
        BY <3>1, <3>2 DEF DataTail, Calls
      <4> QED BY <2>1, <3>1, <3>2, <4>1 DEF Outcome, MediaStep, InvStreams,
             InvModem, inVars
    <3>3. CASE stateModem # "stmInRecvData"
      <4>1. Leaves(s)
        BY <3>1, <3>3 DEF DataTail, Return, Idle, Leaves
      <4> QED BY <1>1, <2>1, <3>1, <4>1
    <3> QED BY <3>2, <3>3
  <2>4. CASE Owns(s) /\ win[s].pend \notin {"done", "tail"}
    <3>1. NewSignal(s, win[s].pend, modStreamIn)
      BY <1>3, <2>4 DEF CallbackBack
    <3>2. stateModem = "stmInReadyData" => modStreamIn.bufQ # <<>> /\ modStreamIn.firstBuf = Null
      BY DEF InvModem
    <3>3. modStreamIn # Null => Sound(modStreamIn)
      BY DEF InvStreams
    <3> QED BY <2>1, <2>4, <3>1, <3>2, <3>3, NewSignalFacts DEF MediaStep
  <2> QED BY <2>2, <2>3, <2>4
<1> QED BY <1>2, <1>3

(* HandlePacket keeps the types: first the Boolean variables ..            *)
LEMMA HandleFlags ==
  ASSUME TypeFlags, NEW s \in Stream, HandlePacket(s) \/ CallbackBack(s)
  PROVE  TypeFlags'
<1>1. ASSUME NEW i, NEW in, NewSignal(s, i, in)
      PROVE  isCarrierIn' \in BOOLEAN /\ countIn' \in BOOLEAN
  <2>1. isCarrierIn' \in BOOLEAN
    BY <1>1, Zenon DEF NewSignal
  <2>2. countIn' \in BOOLEAN
    BY <1>1, Zenon DEF NewSignal, TypeFlags
  <2> QED BY <2>1, <2>2
<1>2. ASSUME NEW i, Indicator(s, i)
      PROVE  isCarrierIn' \in BOOLEAN /\ countIn' \in BOOLEAN
  <2>1. (\E in : NewSignal(s, i, in)) \/ UNCHANGED <<isCarrierIn, countIn>>
    BY <1>2 DEF Indicator, inVars
  <2> QED BY <1>1, <2>1 DEF TypeFlags
<1>3. ASSUME NEW p, Data(s, p)
      PROVE  isCarrierIn' \in BOOLEAN /\ countIn' \in BOOLEAN
  <2>1. isCarrierIn' \in BOOLEAN
    BY <1>3, Zenon DEF Data
  <2>2. countIn' \in BOOLEAN
    BY <1>3, Zenon DEF Data
  <2> QED BY <2>1, <2>2
<1>4. CASE HandlePacket(s)
  <2>1. UNCHANGED <<dataCount, enableFakeIn, ready, attached, isEnableFakeIn>>
    BY <1>4 DEF HandlePacket, inSide, bodyVars, ownVars
  <2>2. gap' \in BOOLEAN
    BY <1>4, Zenon DEF HandlePacket, TypeFlags
  <2>3. \/ UNCHANGED <<isCarrierIn, countIn>>
        \/ \E p : Data(s, p) \/ Indicator(s, p.ind)
    BY <1>4 DEF HandlePacket, inVars
  <2>4. isCarrierIn' \in BOOLEAN /\ countIn' \in BOOLEAN
    BY <1>2, <1>3, <2>3 DEF TypeFlags
  <2> QED BY <2>1, <2>2, <2>4 DEF TypeFlags
<1>5. CASE CallbackBack(s)
  <2>1. UNCHANGED <<dataCount, enableFakeIn, ready, attached, isEnableFakeIn, gap>>
    BY <1>5 DEF CallbackBack, inSide, bodyVars, ownVars
  <2>2. \/ UNCHANGED <<isCarrierIn, countIn>>
        \/ NewSignal(s, win[s].pend, modStreamIn)
    BY <1>5 DEF CallbackBack, inVars
  <2>3. isCarrierIn' \in BOOLEAN /\ countIn' \in BOOLEAN
    BY <1>1, <2>2 DEF TypeFlags
  <2> QED BY <2>1, <2>3 DEF TypeFlags
<1> QED BY <1>4, <1>5

(* .. then the others                                                      *)
LEMMA HandleRest ==
  ASSUME TypeRest, NEW s \in Stream, MediaStep(s), HandlePacket(s) \/ CallbackBack(s)
  PROVE  TypeRest'
<1>1. UNCHANGED <<state, dataType, seq, timeout, diag, pc, callbackParamIn, fakeCb, hOwnerIn>>
  BY DEF HandlePacket, CallbackBack, inSide, bodyVars, ownVars
<1>2. stateModem' \in {"stmIdle", "stmOut", "stmInWaitSilence", "stmInWaitData",
                       "stmInReadyData", "stmInRecvData"}
  BY DEF MediaStep, Outcome, TypeRest
<1>3. win' \in [Stream -> [pc : {"idle", "cb", "back"}, cb : Seqs \cup {cbpReset},
                           pend : {"done", "tail"} \cup Inds]]
  <2>1. Leaves(s) \/ Calls(s)
    BY DEF MediaStep, Outcome
  <2> QED BY <2>1 DEF Leaves, Calls, Callback, TypeRest
<1>4. life' \in [Stream -> {"new", "open", "closed", "dead"}]
  <2>1. ReturnFalse(s) \/ UNCHANGED life
    BY DEF HandlePacket, CallbackBack, Data, Indicator, NewSignal, EndSilence, DataTail,
       Return, Callback
  <2> QED BY <2>1 DEF ReturnFalse, TypeRest
<1>5. remote' \in Remotes
  <2>1. UNCHANGED remote \/ \E p \in RemotePackets(remote) : remote' = p.next
    BY DEF HandlePacket, CallbackBack
  <2> QED BY <2>1, PacketFacts DEF Packet, TypeRest
<1> QED BY <1>1, <1>2, <1>3, <1>4, <1>5 DEF TypeRest
-----------------------------------------------------------------------------
(* What the steps of the engine thread that change a stream do to it.      *)
Waits == /\ CanWait /\ seq' = NextSeq /\ callbackParamIn' = NextSeq
         /\ dataType' # "dtSilence"
         /\ modStreamIn' # Null /\ modStreamIn'.firstBuf = Null
         /\ \/ /\ stateModem' = "stmInReadyData" /\ modStreamIn'.bufQ # <<>>
               /\ state' = "stRecvBegHandle"
            \/ stateModem' = "stmInWaitData" /\ Empty(modStreamIn') /\ state' = "stRecvBegWait"
(* RecvStart of the body does one of two things: it waits, or has          *)
(* something to receive; or the engine refuses and it is back in command   *)
(* state.                                                                  *)
LEMMA RecvStartFacts ==
  ASSUME InvStreams, NEW m \in Mods \cup {"v21"}, RecvStart(m)
  PROVE  /\ InvStreams'
         /\ \/ Waits
            \/ ~CanWait /\ state' = "stCommand" /\ UNCHANGED <<stateModem, modStreamIn>>
<1>1. dataType' # "dtSilence" /\ (attached => seq' = NextSeq)
  BY DEF RecvStart
<1>2. CASE CanWait /\ RecvWait(m, NextSeq)
  <2>1. /\ InvStreams' /\ modStreamIn' # Null /\ modStreamIn'.firstBuf = Null
        /\ callbackParamIn' = NextSeq
        /\ \/ stateModem' = "stmInReadyData" /\ modStreamIn'.bufQ # <<>>
           \/ stateModem' = "stmInWaitData" /\ Empty(modStreamIn')
    BY <1>2, RecvWaitFacts
  <2>2. state' = IF stateModem' = "stmInReadyData" THEN "stRecvBegHandle" ELSE "stRecvBegWait"
    BY <1>2 DEF RecvStart
  <2> QED BY <1>1, <1>2, <2>1, <2>2 DEF Waits, CanWait
<1>3. CASE /\ ~CanWait /\ state' = "stCommand"
           /\ UNCHANGED <<modemVars, modStreamInSaved>>
  BY <1>3 DEF InvStreams, modemVars
<1> QED BY <1>2, <1>3 DEF RecvStart

(* A reset, a stop: no buffer is read any more.                            *)
LEMMA ResetFacts ==
  ASSUME InvStreams, UNCHANGED modStreamInSaved,
         ResetModemState \/ UNCHANGED modStreamIn \/ RecvStop
  PROVE  InvStreams' /\ (modStreamIn' = Null <=> modStreamIn = Null)
<1>1. modStreamIn' = Unread \/ UNCHANGED modStreamIn
  BY DEF ResetModemState, RecvStop
<1> QED BY <1>1, UnreadFacts DEF InvStreams

(* The next buffer, and the data of it                                     *)
LEMMA ReadFacts ==
  ASSUME InvStreams, modStreamIn # Null, modStreamIn.firstBuf # Null,
         modStreamIn' = [modStreamIn EXCEPT !.firstBuf.unread = FALSE]
  PROVE  /\ modStreamIn' # Null /\ Sound(modStreamIn') /\ modStreamIn'.firstBuf # Null
         /\ Refuses(modStreamIn'.firstBuf) <=> Refuses(modStreamIn.firstBuf)
<1> DEFINE ms == modStreamIn
           b == [ms.firstBuf EXCEPT !.unread = FALSE]
           n == [ms EXCEPT !.firstBuf = b]
<1>1. Sound(ms) /\ ms \in ModStreams /\ ms.firstBuf \in Bufs
  BY RecordFacts DEF InvStreams, Sound
<1>2. modStreamIn' = n
  BY <1>1 DEF ModStreams
<1>3. b \in Bufs /\ b.eof = ms.firstBuf.eof /\ b.diag = ms.firstBuf.diag
  BY <1>1 DEF Bufs
<1>4. /\ n \in ModStreams /\ n.firstBuf = b /\ n.bufQ = ms.bufQ /\ n.lastBuf = ms.lastBuf
  BY <1>1, <1>3 DEF ModStreams
<1>5. Refuses(b) <=> Refuses(ms.firstBuf)
  BY <1>3 DEF Refuses
<1>6. Ends(ms.firstBuf) => Ends(b)
  BY <1>3 DEF Ends
<1>7. ~ms.firstBuf.eof => ~b.eof
  BY <1>3
<1> HIDE DEF b, n
<1>8. b # Null /\ n # Null
  BY <1>3, <1>4, RecordFacts
<1>9. Owned(n)
  BY <1>1, <1>4, <1>7, <1>8 DEF Sound, Owned
<1>10. Closed(n)
  BY <1>1, <1>4, <1>6, <1>8 DEF Sound, Closed
<1>11. Alone(n)
  <2>1. n.firstBuf = Null <=> ms.firstBuf = Null
    BY <1>4, <1>8
  <2> QED BY <1>1, <1>4, <1>5, <2>1 DEF Sound, Alone
<1>12. Sound(n)
  BY <1>1, <1>4, <1>9, <1>10, <1>11 DEF Sound
<1> QED BY <1>2, <1>4, <1>5, <1>8, <1>12

(* RecvNextFrame leaves a sound stream, and what it hands on refuses no    *)
(* signal.                                                                 *)
LEMMA NextFrameFacts ==
  ASSUME InvStreams, modStreamIn # Null, modStreamIn.firstBuf # Null,
         modStreamIn.bufQ # <<>>,
         modStreamIn' = [PopBuf(modStreamIn) EXCEPT !.firstBuf = Head(modStreamIn.bufQ)]
  PROVE  /\ modStreamIn' # Null /\ Sound(modStreamIn') /\ modStreamIn'.firstBuf # Null
         /\ ~Refuses(modStreamIn'.firstBuf)
<1> DEFINE q == modStreamIn.bufQ
<1>1. Sound(modStreamIn) /\ q \in Seq(Bufs) /\ q # <<>>
  BY RecordFacts DEF InvStreams, Sound
<1>2. Head(q) \in Bufs /\ Head(q) = q[1] /\ 1 \in 1..Len(q)
  <2>1. Head(q) \in Bufs /\ Head(q) = q[1]
    BY <1>1, HeadTailProperties
  <2>2. Len(q) \in Nat \ {0}
    BY <1>1, EmptySeq
  <2> HIDE DEF q
  <2> QED BY <2>1, <2>2
<1>3. /\ Sound(modStreamIn') /\ modStreamIn' # Null
      /\ modStreamIn'.firstBuf = Head(q)
  BY <1>1, <1>2, PopSound
<1>4. ~Refuses(q[1])
  BY <1>1, <1>2 DEF Sound, Alone
<1> QED BY <1>2, <1>3, <1>4, RecordFacts

(* A buffer that has ended, and whose queue is empty, says why.            *)
LEMMA DoneFacts ==
  ASSUME InvStreams, InvModem, stateModem = "stmInRecvData",
         pc \notin {"begin", "refuse"},
         modStreamIn.firstBuf.eof, modStreamIn.bufQ = <<>>
  PROVE  "NoCarrier" \in modStreamIn.firstBuf.diag
  BY DEF InvStreams, InvModem, Sound, Closed, Ends, Refuses

(* EnableFakeIn ends the signal.                                           *)
LEMMA FakeEofFacts ==
  ASSUME InvStreams, Open(modStreamIn)
  PROVE  modStreamIn # Null /\ Grown(modStreamIn, FakeEof)
<1> DEFINE d == {"NoCarrier"} \cup (IF countIn THEN {"OutOfOrder"} ELSE {})
<1>1. d \in SUBSET (Errors \cup {"NoCarrier"}) /\ "NoCarrier" \in d /\ "DiffSig" \notin d
  BY DEF Errors
<1>2. modStreamIn # Null /\ Sound(modStreamIn)
  BY DEF Open, InvStreams
<1>3. FakeEof = PutEof(modStreamIn, d)
  BY DEF FakeEof
<1> HIDE DEF d
<1> QED BY <1>1, <1>2, <1>3, EofSound

(* HandlePacketLost marks a stream that takes data.                        *)
LEMMA LostFacts ==
  ASSUME InvStreams, InvModem, NEW s \in Stream, HandlePacketLost(s)
  PROVE  /\ InvStreams' /\ (modStreamIn' = Null <=> modStreamIn = Null)
         /\ stateModem = "stmInWaitData" => modStreamIn' = modStreamIn
         /\ stateModem = "stmInReadyData" =>
              modStreamIn'.bufQ # <<>> /\ modStreamIn'.firstBuf = Null
         /\ stateModem = "stmInRecvData" =>
              /\ modStreamIn'.firstBuf # Null
              /\ Refuses(modStreamIn'.firstBuf) => Refuses(modStreamIn.firstBuf)
              /\ modStreamIn'.firstBuf.unread = modStreamIn.firstBuf.unread
              /\ modStreamIn'.firstBuf.eof = modStreamIn.firstBuf.eof
<1>1. CASE modStreamIn' = SetDiag(modStreamIn, {"BadFcs"}) /\ Open(modStreamIn)
           /\ UNCHANGED modStreamInSaved
  <2>1. modStreamIn # Null /\ Sound(modStreamIn) /\ stateModem # "stmInWaitData"
    BY <1>1, OpenFacts
  <2>2. /\ Grown(modStreamIn, modStreamIn')
        /\ modStreamIn.firstBuf # Null =>
             /\ modStreamIn'.firstBuf.unread = modStreamIn.firstBuf.unread
             /\ modStreamIn'.firstBuf.eof = modStreamIn.firstBuf.eof
    BY <1>1, <2>1, MarkSound
  <2> QED BY <1>1, <2>1, <2>2 DEF Grown, InvStreams, InvModem
<1>2. CASE modStreamInSaved' = SetDiag(modStreamInSaved, {"BadFcs"}) /\ Open(modStreamInSaved)
           /\ UNCHANGED modStreamIn
  <2>1. modStreamInSaved # Null /\ Sound(modStreamInSaved)
    BY <1>2 DEF Open, InvStreams
  <2>2. Grown(modStreamInSaved, modStreamInSaved')
    BY <1>2, <2>1, MarkSound
  <2> QED BY <1>2, <2>1, <2>2 DEF Grown, InvStreams, InvModem
<1>3. CASE UNCHANGED <<modStreamIn, modStreamInSaved>>
  BY <1>3 DEF InvStreams, InvModem
<1> QED BY <1>1, <1>2, <1>3 DEF HandlePacketLost
-----------------------------------------------------------------------------
(* The engine thread keeps the invariant.                                  *)
LEMMA EngineInv ==
  ASSUME TypeFlags, TypeRest, InvStreams, InvModem, InvBody, InvWait, InvWakeup,
         EngineLoop
  PROVE  RecvInv'
<1> USE DEF bodyVars, inVars, modemVars, ownVars, mediaVars, engineSide
<1>1. CASE CheckReqMode
  <2>1. InFlight' = InFlight
    BY <1>1, FlightEngine DEF CheckReqMode, RecvStart, Waits, Empty, CanWait
  <2>2. InvStreams' /\ Waits
    BY <1>1, RecvStartFacts DEF CheckReqMode, CanWait, InvBody
  <2>3. InFlight = {}
    BY <1>1 DEF CheckReqMode, InvBody, InFlight
  <2>4. InvModem'
    BY <1>1, <2>2 DEF Waits, Empty, InvModem
  <2>5. InvBody'
    BY <1>1, <2>2 DEF CheckReqMode, RecvStart, Waits, InvBody, Begun
  <2>6. InvWait'
    BY <1>1, <2>1, <2>2, <2>3 DEF Waits, InvWait, Answered
  <2>7. InvWakeup'
    BY <1>1, <2>1, <2>2, <2>3 DEF CheckReqMode, RecvStart, InvWakeup
  <2> QED BY <2>2, <2>4, <2>5, <2>6, <2>7 DEF RecvInv
<1>2. CASE CheckTimeout
  <2>1. InFlight' = InFlight
    BY <1>2, FlightEngine DEF CheckTimeout, ResetModemState
  <2>2. InvStreams'
    BY <1>2, ResetFacts DEF CheckTimeout
  <2>3. stateModem' \in {"stmIdle", "stmOut"} /\ state' = "stCommand"
    BY <1>2 DEF CheckTimeout, ResetModemState, InvBody, InvWait
  <2>4. InvModem'
    BY <1>2, <2>1, <2>2, <2>3 DEF InvModem
  <2>5. InvBody'
    BY <1>2, <2>1, <2>2, <2>3 DEF CheckTimeout, InvBody, Begun
  <2>6. InvWait'
    BY <1>2, <2>3 DEF InvWait
  <2>7. InvWakeup'
    BY <1>2, <2>1, <2>2, <2>3 DEF InvWakeup
  <2> QED BY <2>2, <2>4, <2>5, <2>6, <2>7 DEF RecvInv
<1>3. CASE CheckBegSilence
  <2>1. InvStreams'
    BY <1>3 DEF CheckBegSilence, SendSilence, InvStreams
  <2>2. InvModem'
    BY <1>3 DEF CheckBegSilence, SendSilence, InvModem
  <2>3. InvBody'
    BY <1>3 DEF CheckBegSilence, SendSilence, InvBody, Begun
  <2>4. InvWait'
    BY <1>3 DEF CheckBegSilence, SendSilence, InvWait, Begun, Answered
  <2>5. InvWakeup'
    BY <1>3 DEF CheckBegSilence, SendSilence, InvWakeup
  <2> QED BY <2>1, <2>2, <2>3, <2>4, <2>5 DEF RecvInv
<1>4. CASE CheckBeg
  <2>1. InFlight' = InFlight
    BY <1>4, FlightEngine DEF CheckBeg
  <2>2. attached /\ stateModem = "stmInReadyData" /\ modStreamIn # Null /\
     modStreamIn.bufQ # <<>>
    BY <1>4 DEF CheckBeg, InvModem, InvBody, InvWait, Begun, Answered
  <2>3. pc' = "begin" /\ state' = state /\ stateModem' = "stmInRecvData" /\
     modStreamIn' = PopBuf(modStreamIn)
    BY <1>4, <2>2 DEF CheckBeg
  <2>4. Sound(modStreamIn') /\ modStreamIn' # Null /\ modStreamIn'.firstBuf # Null
    BY <1>4, <2>2, <2>3, PopBufSound DEF InvStreams
  <2>5. InvStreams'
    BY <1>4, <2>4 DEF CheckBeg, InvStreams
  <2>6. InvModem'
    BY <1>4, <2>1, <2>2, <2>3, <2>4 DEF InvModem
  <2>7. InvBody'
    BY <1>4 DEF CheckBeg, InvBody, Begun
  <2>8. InvWait'
    BY <1>4, <2>1, <2>2, <2>3 DEF CheckBeg, InvWait, Begun
  <2>9. InvWakeup'
    BY <1>4, <2>1, <2>2, <2>3 DEF InvWakeup
  <2> QED BY <2>5, <2>6, <2>7, <2>8, <2>9 DEF RecvInv
<1>5. CASE CheckBegDiag
  <2>1. InvStreams'
    BY <1>5 DEF CheckBegDiag, Refuses, InvStreams
  <2>2. InvModem'
    BY <1>5 DEF CheckBegDiag, RecvDiag, Refuses, InvModem
  <2>3. InvBody'
    BY <1>5 DEF CheckBegDiag, Refuses, InvBody, Begun
  <2>4. InvWait'
    BY <1>5 DEF CheckBegDiag, Refuses, InvWait, Begun, InvBody
  <2>5. InvWakeup'
    BY <1>5 DEF CheckBegDiag, Refuses, InvWakeup
  <2> QED BY <2>1, <2>2, <2>3, <2>4, <2>5 DEF RecvInv
<1>6. CASE CheckRefuse
  <2>1. InFlight' = InFlight
    BY <1>6, FlightEngine DEF CheckRefuse, RecvStop
  <2>2. InvStreams'
    BY <1>6, ResetFacts DEF CheckRefuse
  <2>3. stateModem' = "stmIdle" /\ state' = "stCommand"
    BY <1>6 DEF CheckRefuse, RecvStop, isStateModemIn, InvBody, Begun
  <2>4. InvModem'
    BY <1>6, <2>3 DEF InvModem
  <2>5. InvBody'
    BY <1>6, <2>3 DEF CheckRefuse, InvBody, Begun
  <2>6. InvWait'
    BY <1>6, <2>3 DEF InvWait
  <2>7. InvWakeup'
    BY <1>6, <2>1, <2>2, <2>3 DEF InvWakeup
  <2> QED BY <2>2, <2>4, <2>5, <2>6, <2>7 DEF RecvInv
<1>7. CASE RecvSome
  <2>1. InFlight' = InFlight
    BY <1>7, FlightEngine DEF RecvSome, recvSide, atRecv, Receiving
  <2>2. modStreamIn' # Null /\ Sound(modStreamIn') /\ modStreamIn'.firstBuf # Null /\
     (Refuses(modStreamIn'.firstBuf) <=> Refuses(modStreamIn.firstBuf))
    BY <1>7, ReadFacts DEF RecvSome, Receiving
  <2>3. InvStreams'
    BY <1>7, <2>2 DEF RecvSome, recvSide, InvStreams
  <2>4. InvModem'
    BY <1>7, <2>1, <2>2 DEF RecvSome, recvSide, atRecv, InvModem
  <2>5. InvBody'
    BY <1>7 DEF RecvSome, recvSide, atRecv, InvBody, Begun
  <2>6. InvWait'
    BY <1>7, <2>1, <2>2 DEF RecvSome, recvSide, atRecv, InvWait, Begun, Answered
  <2>7. InvWakeup'
    BY <1>7 DEF RecvSome, InvWakeup
  <2> QED BY <2>3, <2>4, <2>5, <2>6, <2>7 DEF RecvInv
<1>8. CASE RecvNap
  <2>1. InFlight' = InFlight
    BY <1>8, FlightEngine DEF RecvNap, recvSide, atRecv
  <2>2. InvStreams'
    BY <1>8 DEF RecvNap, recvSide, atRecv, InvStreams
  <2>3. InvModem'
    BY <1>8 DEF RecvNap, recvSide, atRecv, InvModem
  <2>4. InvBody'
    BY <1>8 DEF RecvNap, recvSide, atRecv, InvBody, Begun
  <2>5. InvWait'
    BY <1>8, <2>1 DEF RecvNap, recvSide, atRecv, InvWait, Begun, Answered
  <2>6. InvWakeup'
    BY <1>8 DEF RecvNap, atRecv, InvWakeup
  <2> QED BY <2>2, <2>3, <2>4, <2>5, <2>6 DEF RecvInv
<1>9. CASE RecvNextFrame
  <2>1. InFlight' = InFlight
    BY <1>9, FlightEngine DEF RecvNextFrame, recvSide, atRecv, Receiving, BufDone
  <2>2. modStreamIn' # Null /\ Sound(modStreamIn') /\ modStreamIn'.firstBuf # Null /\
     ~Refuses(modStreamIn'.firstBuf)
    BY <1>9, NextFrameFacts DEF RecvNextFrame, Receiving, BufDone
  <2>3. InvStreams'
    BY <1>9, <2>2 DEF RecvNextFrame, recvSide, InvStreams
  <2>4. InvModem'
    BY <1>9, <2>1, <2>2 DEF RecvNextFrame, recvSide, atRecv, Receiving, InvModem
  <2>5. InvBody'
    BY <1>9 DEF RecvNextFrame, recvSide, atRecv, InvBody, Begun
  <2>6. InvWait'
    BY <1>9, <2>1, <2>2 DEF RecvNextFrame, recvSide, atRecv, InvWait, Begun, Answered
  <2>7. InvWakeup'
    BY <1>9 DEF RecvNextFrame, InvWakeup
  <2> QED BY <2>3, <2>4, <2>5, <2>6, <2>7 DEF RecvInv
<1>10. CASE RecvNone
  <2>1. InFlight' = InFlight
    BY <1>10, FlightEngine DEF RecvNone, recvSide, atRecv, Receiving
  <2>2. ~BufDone
    BY <1>10, DoneFacts DEF RecvNone, BufDone, Receiving, atRecv
  <2>3. UNCHANGED modStreamIn /\ ~modStreamIn.firstBuf.unread /\
     ~modStreamIn.firstBuf.eof
    BY <1>10, <2>2 DEF RecvNone, BufDone
  <2>4. InvStreams'
    BY <1>10, <2>1, <2>2, <2>3 DEF RecvNone, recvSide, InvStreams
  <2>5. InvModem'
    BY <1>10, <2>1, <2>2, <2>3 DEF RecvNone, recvSide, atRecv, InvModem
  <2>6. InvBody'
    BY <1>10 DEF RecvNone, recvSide, atRecv, InvBody, Begun
  <2>7. InvWait'
    BY <1>10, <2>1, <2>2, <2>3 DEF RecvNone, recvSide, atRecv, InvWait, Begun,
       Answered
  <2>8. InvWakeup'
    BY <1>10, <2>3 DEF InvWakeup
  <2> QED BY <2>4, <2>5, <2>6, <2>7, <2>8 DEF RecvInv
<1>11. CASE RecvEnd
  <2>1. InFlight' = InFlight
    BY <1>11, FlightEngine DEF RecvEnd, recvSide, atRecv, Receiving, BufDone
  <2>2. InvStreams'
    BY <1>11 DEF RecvEnd, recvSide, InvStreams
  <2>3. InvModem'
    BY <1>11 DEF RecvEnd, recvSide, atRecv, InvModem
  <2>4. InvBody'
    BY <1>11 DEF RecvEnd, recvSide, atRecv, InvBody, Begun
  <2>5. InvWait'
    BY <1>11, <2>1 DEF RecvEnd, recvSide, atRecv, InvWait, Begun, Answered
  <2>6. InvWakeup'
    BY <1>11 DEF RecvEnd, InvWakeup
  <2> QED BY <2>2, <2>3, <2>4, <2>5, <2>6 DEF RecvInv
<1>12. CASE RecvGone
  <2>1. InvStreams'
    BY <1>12 DEF RecvGone, recvSide, InvStreams
  <2>2. InvModem'
    BY <1>12 DEF RecvGone, recvSide, atRecv, InvModem
  <2>3. InvBody'
    BY <1>12 DEF RecvGone, InvBody, Begun
  <2>4. InvWait'
    BY <1>12 DEF RecvGone, InvWait, InvBody
  <2>5. InvWakeup'
    BY <1>12 DEF RecvGone, InvWakeup
  <2> QED BY <2>1, <2>2, <2>3, <2>4, <2>5 DEF RecvInv
<1>13. CASE ReadDiag
  <2>1. InFlight' = InFlight
    BY <1>13, FlightEngine DEF ReadDiag, recvSide
  <2>2. InvStreams'
    BY <1>13 DEF ReadDiag, recvSide, InvStreams
  <2>3. InvModem'
    BY <1>13 DEF ReadDiag, recvSide, InvModem
  <2>4. InvBody'
    BY <1>13 DEF ReadDiag, recvSide, InvBody, Begun
  <2>5. InvWait'
    BY <1>13, <2>1 DEF ReadDiag, recvSide, InvWait, Begun, Answered
  <2>6. InvWakeup'
    BY <1>13 DEF ReadDiag, InvWakeup
  <2> QED BY <2>2, <2>3, <2>4, <2>5, <2>6 DEF RecvInv
<1>14. CASE StopRecv
  <2>1. InFlight' = InFlight
    BY <1>14, FlightEngine DEF StopRecv, RecvStop
  <2>2. InvStreams'
    BY <1>14, ResetFacts DEF StopRecv
  <2>3. stateModem' = "stmIdle" /\ state' = "stCommand"
    BY <1>14 DEF StopRecv, RecvStop, isStateModemIn, InvBody
  <2>4. InvModem'
    BY <1>14, <2>1, <2>2, <2>3 DEF InvModem
  <2>5. InvBody'
    BY <1>14, <2>3 DEF StopRecv, InvBody, Begun
  <2>6. InvWait'
    BY <1>14, <2>3 DEF InvWait
  <2>7. InvWakeup'
    BY <1>14, <2>1, <2>2, <2>3 DEF InvWakeup
  <2> QED BY <2>2, <2>4, <2>5, <2>6, <2>7 DEF RecvInv
<1>15. CASE CheckOther
  <2>1. InFlight' = InFlight
    BY <1>15, FlightEngine DEF CheckOther
  <2>2. InvStreams'
    BY <1>15 DEF CheckOther, InvStreams
  <2>3. InvModem'
    BY <1>15 DEF CheckOther, InvModem
  <2>4. InvBody'
    BY <1>15 DEF CheckOther, InvBody, Begun
  <2>5. InvWait'
    BY <1>15, <2>1 DEF CheckOther, InvWait, Answered
  <2>6. InvWakeup'
    BY <1>15 DEF CheckOther, InvWakeup
  <2> QED BY <2>2, <2>3, <2>4, <2>5, <2>6 DEF RecvInv
<1>16. CASE CheckStatePost
  <2>1. InFlight' = InFlight
    BY <1>16, FlightEngine DEF CheckStatePost
  <2>2. InvStreams'
    BY <1>16 DEF CheckStatePost, InvStreams
  <2>3. InvModem'
    BY <1>16 DEF CheckStatePost, InvModem
  <2>4. InvBody'
    BY <1>16 DEF CheckStatePost, InvBody, Begun
  <2>5. InvWait'
    BY <1>16, <2>1 DEF CheckStatePost, InvWait, Begun, Answered
  <2>6. InvWakeup'
    BY <1>16 DEF CheckStatePost, InvWakeup
  <2> QED BY <2>2, <2>3, <2>4, <2>5, <2>6 DEF RecvInv
<1>17. CASE EnableFakeOff
  <2>1. InFlight' = InFlight
    BY <1>17, FlightEngine DEF EnableFakeOff
  <2>2. InvStreams'
    BY <1>17 DEF EnableFakeOff, InvStreams
  <2>3. InvModem'
    BY <1>17 DEF EnableFakeOff, InvModem
  <2>4. InvBody'
    BY <1>17 DEF EnableFakeOff, InvBody, Begun
  <2>5. InvWait'
    BY <1>17, <2>1 DEF EnableFakeOff, InvWait, Begun, Answered
  <2>6. InvWakeup'
    BY <1>17 DEF EnableFakeOff, InvWakeup
  <2> QED BY <2>2, <2>3, <2>4, <2>5, <2>6 DEF RecvInv
<1>18. CASE EnableFakeOn
  <2>1. InFlight' = IF pc' = "fakeCb" THEN InFlight \cup {callbackParamIn} ELSE
     InFlight
    BY <1>18, FlightEngine DEF EnableFakeOn, Grown, Open
  <2>2. InvStreams' /\ (modStreamIn' = Null <=> modStreamIn = Null) /\
     (~Open(modStreamIn) => modStreamIn' = modStreamIn) /\ (modStreamIn' # modStreamIn
     => Grown(modStreamIn, modStreamIn'))
    BY <1>18, FakeEofFacts DEF EnableFakeOn, InvStreams, Grown
  <2>3. InvModem'
    BY <1>18, <2>2 DEF EnableFakeOn, Grown, Open, InvModem
  <2>4. InvBody'
    BY <1>18 DEF EnableFakeOn, InvBody, Begun
  <2>5. InvWait'
    BY <1>18, <2>1 DEF EnableFakeOn, InvWait, Begun, Answered
  <2>6. InvWakeup'
    BY <1>18 DEF EnableFakeOn, InvWakeup, InvBody
  <2> QED BY <2>2, <2>3, <2>4, <2>5, <2>6 DEF RecvInv
<1>19. CASE FakeCallback
  <2>1. InFlight' \subseteq InFlight /\ InFlight \subseteq InFlight' \cup {fakeCb}
    BY <1>19, FlightEngine DEF FakeCallback, OnEngineCallback
  <2>2. IF attached THEN ready' /\ IF fakeCb = seq /\ state = "stRecvBegWait" THEN
     state' = "stRecvBegHandle" ELSE state' = state ELSE UNCHANGED <<ready, state>>
    BY <1>19 DEF FakeCallback, OnEngineCallback
  <2>3. UNCHANGED <<seq, dataType, stateModem, callbackParamIn, modStreamIn,
     attached>> /\ pc' = "wait"
    BY <1>19 DEF FakeCallback
  <2>4. state = "stRecvBegWait" => attached
    BY <1>19 DEF InvBody
  <2>5. fakeCb \in InFlight
    BY <1>19 DEF FakeCallback, InFlight
  <2>6. InvStreams'
    BY <1>19 DEF FakeCallback, InvStreams
  <2>7. InvModem'
    BY <1>19 DEF FakeCallback, InvModem
  <2>8. InvBody'
    BY <1>19, <2>1, <2>2 DEF FakeCallback, InvBody, Begun
  <2>9. InvWait'
    BY <1>19, <2>1, <2>2, <2>4, <2>5 DEF FakeCallback, InvWait, Begun, Answered
  <2>10. InvWakeup'
    BY <1>19, <2>1, <2>2, <2>3, <2>4 DEF InvWakeup, InvBody
  <2> QED BY <2>6, <2>7, <2>8, <2>9, <2>10 DEF RecvInv
<1>20. CASE WaitDataReady
  <2>1. InFlight' = InFlight
    BY <1>20, FlightEngine DEF WaitDataReady
  <2>2. InvStreams'
    BY <1>20 DEF WaitDataReady, InvStreams
  <2>3. InvModem'
    BY <1>20 DEF WaitDataReady, InvModem
  <2>4. InvBody'
    BY <1>20 DEF WaitDataReady, InvBody, Begun
  <2>5. InvWait'
    BY <1>20, <2>1 DEF WaitDataReady, InvWait, Begun, Answered
  <2>6. InvWakeup'
    BY <1>20 DEF WaitDataReady, InvWakeup
  <2> QED BY <2>2, <2>3, <2>4, <2>5, <2>6 DEF RecvInv
<1> QED BY <1>1, <1>2, <1>3, <1>4, <1>5, <1>6, <1>7, <1>8, <1>9, <1>10, <1>11, <1>12,
   <1>13, <1>14, <1>15, <1>16, <1>17, <1>18, <1>19, <1>20 DEF EngineLoop, CheckState

(* So do the commands, the timers and the end of the call,                 *)
LEMMA OthersInv ==
  ASSUME TypeFlags, TypeRest, InvStreams, InvModem, InvBody, InvWait, InvWakeup,
         CmdRecv \/ CmdSilence \/ CmdSend \/ Abort \/ Detach \/ SendEnds
           \/ ClearCall \/ TimeoutFires \/ SignalDataReady
  PROVE  RecvInv'
<1> USE DEF bodyVars, inVars, modemVars, ownVars, mediaVars, engineSide
<1>1. CASE CmdRecv
  <2>1. InFlight' = InFlight
    BY <1>1, FlightEngine DEF CmdRecv, RecvStart, Waits, Empty, CanWait
  <2>2. InvStreams' /\ (Waits \/ (~CanWait /\ state' = "stCommand" /\ UNCHANGED
     <<stateModem, modStreamIn>>))
    BY <1>1, RecvStartFacts DEF CmdRecv
  <2>3. NextSeq \notin InFlight
    BY <1>1 DEF CmdRecv, NotLapped, NextSeq
  <2>4. InvModem'
    BY <1>1, <2>2 DEF CmdRecv, RecvStart, Waits, Empty, InvModem
  <2>5. InvBody'
    BY <1>1, <2>1, <2>2, <2>3, SeqFacts DEF CmdRecv, RecvStart, Waits, Empty, CanWait,
       InvBody, Begun
  <2>6. InvWait'
    BY <1>1, <2>1, <2>2, <2>3 DEF CmdRecv, Waits, InvWait, Answered
  <2>7. InvWakeup'
    BY <1>1, <2>1, <2>2, <2>3 DEF CmdRecv, RecvStart, InvWakeup
  <2> QED BY <2>2, <2>4, <2>5, <2>6, <2>7 DEF RecvInv
<1>2. CASE CmdSilence
  <2>1. InFlight' = InFlight
    BY <1>2, FlightEngine DEF CmdSilence, SendSilence, CanWait
  <2>2. NextSeq \notin InFlight
    BY <1>2 DEF CmdSilence, NotLapped, NextSeq
  <2>3. InvStreams'
    BY <1>2, <2>2 DEF CmdSilence, SendSilence, InvStreams
  <2>4. InvModem'
    BY <1>2, <2>2 DEF CmdSilence, SendSilence, InvModem
  <2>5. InvBody'
    BY <1>2, <2>2 DEF CmdSilence, SendSilence, CanWait, InvBody, Begun
  <2>6. InvWait'
    BY <1>2, <2>1, <2>2 DEF CmdSilence, SendSilence, InvWait
  <2>7. InvWakeup'
    BY <1>2, <2>2 DEF CmdSilence, SendSilence, InvWakeup
  <2> QED BY <2>3, <2>4, <2>5, <2>6, <2>7 DEF RecvInv
<1>3. CASE CmdSend
  <2>1. InvStreams'
    BY <1>3 DEF CmdSend, InvStreams
  <2>2. InvModem'
    BY <1>3 DEF CmdSend, InvModem
  <2>3. InvBody'
    BY <1>3 DEF CmdSend, InvBody, Begun
  <2>4. InvWait'
    BY <1>3 DEF CmdSend, InvWait
  <2>5. InvWakeup'
    BY <1>3 DEF CmdSend, InvWakeup
  <2> QED BY <2>1, <2>2, <2>3, <2>4, <2>5 DEF RecvInv
<1>4. CASE Abort
  <2>1. InvStreams'
    BY <1>4, ResetFacts DEF Abort
  <2>2. InvModem'
    BY <1>4 DEF Abort, ResetModemState, InvModem
  <2>3. InvBody'
    BY <1>4 DEF Abort, ResetModemState, InvBody, Begun
  <2>4. InvWait'
    BY <1>4 DEF Abort, ResetModemState, InvWait, InvBody
  <2>5. InvWakeup'
    BY <1>4 DEF Abort, InvWakeup
  <2> QED BY <2>1, <2>2, <2>3, <2>4, <2>5 DEF RecvInv
<1>5. CASE Detach
  <2>1. InvStreams'
    BY <1>5, ResetFacts DEF Detach
  <2>2. InvModem'
    BY <1>5 DEF Detach, ResetModemState, InvModem
  <2>3. InvBody'
    BY <1>5 DEF Detach, ResetModemState, Locked, InvBody, Begun
  <2>4. InvWait'
    BY <1>5 DEF Detach, ResetModemState, InvWait
  <2>5. InvWakeup'
    BY <1>5 DEF Detach, InvWakeup
  <2> QED BY <2>1, <2>2, <2>3, <2>4, <2>5 DEF RecvInv
<1>6. CASE SendEnds
  <2>1. InvStreams'
    BY <1>6 DEF SendEnds, InvStreams
  <2>2. InvModem'
    BY <1>6 DEF SendEnds, InvModem
  <2>3. InvBody'
    BY <1>6 DEF SendEnds, InvBody, Begun
  <2>4. InvWait'
    BY <1>6 DEF SendEnds, InvWait, Begun, Answered
  <2>5. InvWakeup'
    BY <1>6 DEF SendEnds, InvWakeup
  <2> QED BY <2>1, <2>2, <2>3, <2>4, <2>5 DEF RecvInv
<1>7. CASE ClearCall
  <2>1. InFlight' = InFlight
    BY <1>7, FlightEngine DEF ClearCall, Locked
  <2>2. InvStreams'
    BY <1>7 DEF ClearCall, InvStreams
  <2>3. InvModem'
    BY <1>7 DEF ClearCall, InvModem
  <2>4. InvBody'
    BY <1>7 DEF ClearCall, InvBody, Begun
  <2>5. InvWait'
    BY <1>7, <2>1 DEF ClearCall, InvWait, Begun, Answered
  <2>6. InvWakeup'
    BY <1>7 DEF ClearCall, InvWakeup
  <2> QED BY <2>2, <2>3, <2>4, <2>5, <2>6 DEF RecvInv
<1>8. CASE TimeoutFires
  <2>1. InFlight' = InFlight
    BY <1>8, FlightEngine DEF TimeoutFires
  <2>2. InvStreams'
    BY <1>8 DEF TimeoutFires, InvStreams
  <2>3. InvModem'
    BY <1>8 DEF TimeoutFires, InvModem
  <2>4. InvBody'
    BY <1>8 DEF TimeoutFires, InvBody, Begun
  <2>5. InvWait'
    BY <1>8, <2>1 DEF TimeoutFires, InvWait, Begun, Answered
  <2>6. InvWakeup'
    BY <1>8 DEF TimeoutFires, InvWakeup
  <2> QED BY <2>2, <2>3, <2>4, <2>5, <2>6 DEF RecvInv
<1>9. CASE SignalDataReady
  <2>1. InFlight' = InFlight
    BY <1>9, FlightEngine DEF SignalDataReady
  <2>2. InvStreams'
    BY <1>9 DEF SignalDataReady, InvStreams
  <2>3. InvModem'
    BY <1>9 DEF SignalDataReady, InvModem
  <2>4. InvBody'
    BY <1>9 DEF SignalDataReady, InvBody, Begun
  <2>5. InvWait'
    BY <1>9, <2>1 DEF SignalDataReady, InvWait, Begun, Answered
  <2>6. InvWakeup'
    BY <1>9 DEF SignalDataReady, InvWakeup
  <2> QED BY <2>2, <2>3, <2>4, <2>5, <2>6 DEF RecvInv
<1> QED BY <1>1, <1>2, <1>3, <1>4, <1>5, <1>6, <1>7, <1>8, <1>9

(* the owners of the input,                                                *)
LEMMA OwnersInv ==
  ASSUME TypeFlags, TypeRest, InvStreams, InvModem, InvBody, InvWait, InvWakeup,
         NEW s \in Stream, StreamOpen(s) \/ StreamClose(s)
  PROVE  RecvInv'
<1> USE DEF bodyVars, inVars, modemVars, ownVars, mediaVars, engineSide
<1>1. CASE StreamOpen(s)
  <2>1. InFlight' = InFlight
    BY <1>1, FlightEngine DEF StreamOpen, Woken, ownSide
  <2>2. InvStreams'
    BY <1>1 DEF StreamOpen, ownSide, InvStreams
  <2>3. InvModem'
    BY <1>1 DEF StreamOpen, ownSide, InvModem
  <2>4. InvBody'
    BY <1>1 DEF StreamOpen, ownSide, InvBody, Begun
  <2>5. InvWait'
    BY <1>1, <2>1 DEF StreamOpen, ownSide, InvWait, Begun, Answered
  <2>6. InvWakeup'
    BY <1>1 DEF StreamOpen, Woken, ownSide, InvWakeup
  <2> QED BY <2>2, <2>3, <2>4, <2>5, <2>6 DEF RecvInv
<1>2. CASE StreamClose(s)
  <2>1. InFlight' = InFlight
    BY <1>2, FlightEngine DEF StreamClose, Woken, ownSide
  <2>2. InvStreams'
    BY <1>2 DEF StreamClose, ownSide, InvStreams
  <2>3. InvModem'
    BY <1>2 DEF StreamClose, ownSide, InvModem
  <2>4. InvBody'
    BY <1>2 DEF StreamClose, ownSide, InvBody, Begun
  <2>5. InvWait'
    BY <1>2, <2>1 DEF StreamClose, ownSide, InvWait, Begun, Answered
  <2>6. InvWakeup'
    BY <1>2 DEF StreamClose, Woken, ownSide, InvWakeup
  <2> QED BY <2>2, <2>3, <2>4, <2>5, <2>6 DEF RecvInv
<1> QED BY <1>1, <1>2
(* the packets that get lost,                                              *)
LEMMA LostInv ==
  ASSUME TypeFlags, TypeRest, RecvInv, NEW s \in Stream, HandlePacketLost(s)
  PROVE  RecvInv'
<1>0. InvStreams /\ InvModem /\ InvBody /\ InvWait /\ InvWakeup
  BY DEF RecvInv
<1>1. UNCHANGED <<state, dataType, seq, pc, ready, attached, stateModem, callbackParamIn,
                  isCarrierIn, fakeCb, win>>
  BY DEF HandlePacketLost, inSide, bodyVars
<1>2. InFlight' = InFlight
  BY <1>1, FlightEngine
<1>3. InvStreams'
  BY <1>0, LostFacts
<1>4. InvModem'
  BY <1>0, <1>1, LostFacts DEF InvModem
<1>5. InvBody'
  BY <1>0, <1>1 DEF InvBody, Begun
<1>6. InvWait'
  BY <1>0, <1>1, <1>2 DEF InvWait, Begun, Answered
<1>7. InvWakeup'
  <2>1. state = "stRecv" => /\ modStreamIn'.firstBuf.unread = modStreamIn.firstBuf.unread
                            /\ modStreamIn'.firstBuf.eof = modStreamIn.firstBuf.eof
    BY <1>0, LostFacts DEF InvBody
  <2> QED BY <1>0, <1>1, <2>1 DEF InvWakeup
<1> QED BY <1>3, <1>4, <1>5, <1>6, <1>7 DEF RecvInv

(* the callbacks,                                                          *)
LEMMA CallbackInv ==
  ASSUME TypeFlags, TypeRest, RecvInv, NEW s \in Stream, InCallback(s)
  PROVE  RecvInv'
<1>0. InvStreams /\ InvModem /\ InvBody /\ InvWait /\ InvWakeup
  BY DEF RecvInv
<1>1. UNCHANGED <<dataType, seq, pc, attached, stateModem, callbackParamIn, isCarrierIn,
                  modStreamIn, modStreamInSaved, fakeCb>>
  BY DEF InCallback, modemVars, inVars
<1>2. IF attached
      THEN ready' /\ state' = IF win[s].cb = seq /\ state = "stRecvBegWait"
                              THEN "stRecvBegHandle" ELSE state
      ELSE UNCHANGED <<ready, state>>
  BY DEF InCallback, OnEngineCallback
<1>3. win[s].pc = "cb" /\ win[s].cb \in InFlight
  BY DEF InCallback, InFlight
<1>4. InFlight' \subseteq InFlight /\ InFlight \subseteq InFlight' \cup {win[s].cb}
  <2> DEFINE r == [win[s] EXCEPT !.pc = "back", !.cb = cbpReset]
  <2>1. win' = [win EXCEPT ![s] = r]
    BY DEF InCallback
  <2>2. r.pc = "back"
    BY DEF TypeRest
  <2> HIDE DEF r
  <2> QED BY <1>1, <1>3, <2>1, <2>2, FlightDone
<1>5. InvStreams'
  BY <1>0, <1>1 DEF InvStreams
<1>6. InvModem'
  BY <1>0, <1>1 DEF InvModem
<1>7. InvBody'
  BY <1>0, <1>1, <1>2, <1>3 DEF InvBody, Begun
<1>8. InvWait'
  BY <1>0, <1>1, <1>2, <1>3, <1>4 DEF InvWait, InvBody, Begun, Answered
<1>9. InvWakeup'
  BY <1>0, <1>1, <1>2 DEF InvWakeup, InvBody
<1> QED BY <1>5, <1>6, <1>7, <1>8, <1>9 DEF RecvInv

(* and the packets.                                                        *)
LEMMA HandleInv ==
  ASSUME TypeFlags, TypeRest, RecvInv, NEW s \in Stream,
         HandlePacket(s) \/ CallbackBack(s)
  PROVE  RecvInv'
<1>0. InvStreams /\ InvModem /\ InvBody /\ InvWait /\ InvWakeup
  BY DEF RecvInv
<1>1. UNCHANGED <<state, dataType, seq, pc, ready, attached, callbackParamIn, fakeCb>>
  BY DEF HandlePacket, CallbackBack, inSide, bodyVars
<1>2. MediaStep(s)
  BY <1>0, MediaStepFacts
<1>3. InvStreams' /\ (modStreamIn' = Null <=> modStreamIn = Null) /\ Outcome(s)
      /\ win[s].pc # "cb"
  BY <1>2 DEF MediaStep
<1> DEFINE someone == \E t \in Stream : win[t].pc = "cb"
<1>4. Leaves(s) => InFlight' = InFlight /\ (someone' <=> someone)
  <2> SUFFICES ASSUME Leaves(s) PROVE InFlight' = InFlight /\ (someone' <=> someone)
    OBVIOUS
  <2> DEFINE r == [pc |-> "idle", cb |-> cbpReset, pend |-> "done"]
  <2>1. win' = [win EXCEPT ![s] = r] /\ r.pc # "cb"
    BY DEF Leaves
  <2> HIDE DEF r
  <2> QED BY <1>1, <1>3, <2>1, FlightMedia
<1>5. Calls(s) => InFlight' = InFlight \cup {callbackParamIn} /\ someone'
  <2> SUFFICES ASSUME NEW a, Callback(s, a)
               PROVE  InFlight' = InFlight \cup {callbackParamIn} /\ someone'
    BY DEF Calls
  <2> DEFINE r == [pc |-> "cb", cb |-> callbackParamIn, pend |-> a]
  <2>1. win' = [win EXCEPT ![s] = r] /\ r.pc = "cb" /\ r.cb = callbackParamIn
    BY DEF Callback
  <2> HIDE DEF r
  <2>2. /\ InFlight' = InFlight \cup (IF r.pc = "cb" THEN {r.cb} ELSE {})
        /\ someone' <=> (r.pc = "cb" \/ someone)
    BY <1>1, <1>3, <2>1, FlightMedia
  <2> HIDE DEF someone
  <2> QED BY <2>1, <2>2
<1>6. InvModem'
  BY <1>0, <1>1, <1>3 DEF InvModem, Outcome
<1>7. InvBody'
  BY <1>0, <1>1, <1>3, <1>4 DEF InvBody, Outcome, Begun
<1>8. InvWait'
  BY <1>0, <1>1, <1>3, <1>4, <1>5 DEF InvWait, Outcome, Begun, Answered
<1>9. InvWakeup'
  BY <1>0, <1>1, <1>3, <1>4, <1>5 DEF InvWakeup, InvBody, Outcome
<1> QED BY <1>3, <1>6, <1>7, <1>8, <1>9 DEF RecvInv

(* The initial states satisfy the invariant ..                             *)
LEMMA InitInv == Init => IInv
<1> SUFFICES ASSUME Init PROVE IInv
  OBVIOUS
<1>1. TypeFlags
  BY Zenon DEF Init, TypeFlags
<1>2. TypeRest
  <2>1. remote \in Remotes
    BY RemoteShape DEF Init, Start
  <2> QED BY <2>1, SeqFacts DEF Init, TypeRest
<1>3. InvStreams
  BY DEF Init, InvStreams
<1>4. InvModem /\ InvBody /\ InvWait /\ InvWakeup
  BY DEF Init, InvModem, InvBody, Begun, InvWait, InvWakeup
<1> QED BY <1>1, <1>2, <1>3, <1>4, TypeSplit DEF IInv, RecvInv

(* .. and every step keeps it.                                             *)
LEMMA NextInv == IInv /\ [Next]_vars => IInv'
<1> SUFFICES ASSUME IInv, [Next]_vars PROVE IInv'
  OBVIOUS
<1>0. /\ TypeOK /\ TypeFlags /\ TypeRest
      /\ RecvInv /\ InvStreams /\ InvModem /\ InvBody /\ InvWait /\ InvWakeup
  BY TypeSplit DEF IInv, RecvInv
<1>1. CASE EngineLoop
  BY <1>0, <1>1, EngineType, EngineInv, TypeSplit DEF IInv, RecvInv
<1>2. CASE CmdRecv \/ CmdSilence \/ CmdSend \/ Abort \/ Detach \/ SendEnds \/ ClearCall
             \/ TimeoutFires \/ SignalDataReady
  BY <1>0, <1>2, OthersType, OthersInv, TypeSplit DEF IInv, RecvInv
<1>3. ASSUME NEW s \in Stream, StreamOpen(s) \/ StreamClose(s) PROVE IInv'
  BY <1>0, <1>3, MediaType, OwnersInv, TypeSplit DEF IInv, RecvInv
<1>4. ASSUME NEW s \in Stream, HandlePacketLost(s) PROVE IInv'
  BY <1>0, <1>4, MediaType, LostInv, TypeSplit DEF IInv, RecvInv
<1>5. ASSUME NEW s \in Stream, InCallback(s) PROVE IInv'
  BY <1>0, <1>5, MediaType, CallbackInv, TypeSplit DEF IInv, RecvInv
<1>6. ASSUME NEW s \in Stream, HandlePacket(s) \/ CallbackBack(s) PROVE IInv'
  <2>1. MediaStep(s)
    BY <1>0, <1>6, MediaStepFacts
  <2>2. TypeFlags' /\ TypeRest'
    BY <1>0, <1>6, <2>1, HandleFlags, HandleRest
  <2> QED BY <1>0, <1>6, <2>2, HandleInv, TypeSplit DEF IInv, RecvInv
<1>7. CASE UNCHANGED vars
  <2> USE DEF vars, bodyVars, modemVars, inVars, ownVars, mediaVars
  <2>1. TypeFlags' /\ TypeRest'
    BY <1>0, <1>7 DEF TypeFlags, TypeRest
  <2>2. InFlight' = InFlight
    BY <1>7 DEF InFlight
  <2>3. RecvInv'
    BY <1>0, <1>7, <2>2 DEF RecvInv, InvStreams, InvModem, InvBody, Begun,
       InvWait, Answered, InvWakeup
  <2> QED BY <2>1, <2>3, TypeSplit DEF IInv, RecvInv
<1> QED BY <1>1, <1>2, <1>3, <1>4, <1>5, <1>6, <1>7 DEF Next, MediaThread
-----------------------------------------------------------------------------
(* The inductive invariant holds throughout.                               *)
THEOREM Invariance == Spec => []IInv
  BY InitInv, NextInv, PTL DEF Spec

(* The variables keep their types, for any number of streams.              *)
THEOREM TypeCorrect == Spec => []TypeOK
<1>1. IInv => TypeOK
  BY DEF IInv
<1> QED BY <1>1, Invariance, PTL

(* HandlePacket never writes into a deleted buffer of a ModStream, and     *)
(* never behind the end of one.                                            *)
THEOREM BuffersOwned == Spec => []BufferOwnership
<1>1. IInv => BufferOwnership
  BY DEF IInv, RecvInv, InvStreams, Sound, Owned, BufferOwnership
<1> QED BY <1>1, Invariance, PTL

(* The states of ModemEngineBody and T38Engine agree on the receive: what  *)
(* the body handles is there, what it waits for is told, and no receive is *)
(* left behind.                                                            *)
THEOREM BodyEngineAgree == Spec => []RecvAgreement
<1>1. IInv => RecvAgreement
  <2> SUFFICES ASSUME IInv PROVE RecvAgreement
    OBVIOUS
  <2>0. TypeRest /\ InvModem /\ InvBody /\ InvWait
    BY TypeSplit DEF IInv, RecvInv
  <2>1. RecvWaitPending
    BY <2>0 DEF InvWait, RecvWaitPending
  <2>2. NoReceiveLeft
    BY <2>0 DEF InvWait, InvBody, Begun, NoReceiveLeft, TypeRest
  <2>3. state = "stRecvBegHandle" /\ pc \notin {"begin", "refuse"} =>
          IF dataType = "dtSilence" THEN stateModem = "stmIdle"
          ELSE stateModem = "stmInReadyData" /\ modStreamIn # Null /\ modStreamIn.bufQ # <<>>
    BY <2>0 DEF InvWait, InvModem, Begun, Answered
  <2>4. state = "stRecv" =>
          stateModem = "stmInRecvData" /\ modStreamIn # Null /\ modStreamIn.firstBuf # Null
    BY <2>0 DEF InvModem, InvBody
  <2> QED BY <2>0, <2>1, <2>2, <2>3, <2>4 DEF RecvAgreement, InvModem
<1> QED BY <1>1, Invariance, PTL

(* The engine thread never sleeps in stRecv through data or the end of a   *)
(* frame: HandlePacket has a callback on its way for what came after Recv. *)
THEOREM InputAwake == Spec => []NoLostRecvWakeup
<1>1. IInv => NoLostRecvWakeup
  BY DEF IInv, RecvInv, InvWakeup, NoLostRecvWakeup
<1> QED BY <1>1, Invariance, PTL

-----------------------------------------------------------------------------
(***************************************************************************)
(* What the DTE is told of a received frame is true: a frame is followed   *)
(* from the remote party's first data field to the response to AT+FRH.     *)
(* Lost packets are seen in V.21 only; the HDLC frames of a fast           *)
(* modulation are followed where nothing is lost.                          *)
(***************************************************************************)
(* The signals whose frames are followed                                   *)
Counted(m) == dataTypeT38(m) = "dtHdlc" /\ (m = "v21" \/ ~Loses)

(* A buffer with a good end is whole, and the one that ends the signal is  *)
(* empty.                                                                  *)
Good(b) == b.eof /\ b.diag \cap Errors = {}
Honest(b) == Good(b) => b.has = IF "NoCarrier" \in b.diag THEN 0 ELSE Parts
AllHonest(ms) ==
  /\ ms.firstBuf # Null => Honest(ms.firstBuf)
  /\ \A n \in 1..Len(ms.bufQ) : Honest(ms.bufQ[n])

(* The buffer b that takes the data of a signal m has what the remote      *)
(* party r has sent of its frame, or is marked; c is countIn.              *)
Follows(b, m, c, r) ==
  \/ "BadFcs" \in b.diag
  \/ /\ b.diag = {}
     /\ ~c => b.has = 0
     /\ r.phase \in {"quiet", "ended"} => b.has = 0
     /\ r.phase = "on" => IsEqual(r.mod, m) /\ b.has = r.part
Followed(ms, c, r) ==
  ms # Null /\ Counted(ms.mod) =>
    AllHonest(ms) /\ (Open(ms) => Follows(LastBuf(ms), ms.mod, c, r))

(* The frames of both streams are followed, and only one takes data.       *)
InvFrames ==
  /\ Followed(modStreamIn, countIn, remote) /\ Followed(modStreamInSaved, countIn, remote)
  /\ ~(Open(modStreamIn) /\ Open(modStreamInSaved))

(* A signal that begins after the callback for the end of the last one:    *)
(* the remote party has sent its indicator and nothing more.               *)
InvPend ==
  \A s \in Stream : win[s].pc # "idle" =>
    /\ life[s] \in {"open", "closed"}
    /\ win[s].pend \notin {"done", "tail"} /\ hOwnerIn = s =>
         /\ ~Open(modStreamIn) /\ ~Open(modStreamInSaved)
         /\ win[s].pend \in Mods => remote = On(win[s].pend, 0)
(* The owner of the input is open.                                         *)
InvLife == hOwnerIn # Null => life[hOwnerIn] \in {"open", "dead"}

(* What is reported is what the buffer has, and AT+FRH reads V.21.         *)
InvReport ==
  /\ pc \in {"diag", "stop"} => modStreamIn.firstBuf.eof
  /\ pc = "stop" => diag = modStreamIn.firstBuf.diag
  /\ dataType = "dtHdlc" /\ isStateModemIn => modStreamIn.mod = "v21"

FrameInv == InvFrames /\ InvPend /\ InvLife /\ InvReport
-----------------------------------------------------------------------------
(* The operations on ModStream again: what they do to the frames.          *)

(* Two modulations of one message type are followed alike.                 *)
LEMMA CountedFacts ==
  ASSUME NEW m, NEW n, IsEqual(m, n)
  PROVE  /\ Counted(m) <=> Counted(n)
         /\ m = "v21" <=> n = "v21"
         /\ \A k : IsEqual(k, m) <=> IsEqual(k, n)
  BY DEF IsEqual, MsgType, Counted, dataTypeT38

(* A new buffer is honest and has nothing.                                 *)
LEMMA NewFacts ==
  NewBuf \in Bufs /\ Honest(NewBuf) /\ NewBuf.has = 0 /\ NewBuf.diag = {} /\ ~NewBuf.eof
<1>1. NewBuf.has = 0 /\ NewBuf.diag = {} /\ ~NewBuf.eof
  BY DEF NewBuf
<1> QED BY <1>1, RecordFacts DEF Honest, Good

(* A change of the last buffer keeps the others.                           *)
LEMMA SetLastHonest ==
  ASSUME NEW ms, Sound(ms), Open(ms), AllHonest(ms), NEW b \in Bufs, Honest(b)
  PROVE  LET n == SetLast(ms, b)
         IN AllHonest(n) /\ LastBuf(n) = b /\ n.mod = ms.mod /\ n.lastBuf = ms.lastBuf
              /\ n \in ModStreams
<1> DEFINE n == SetLast(ms, b)
<1>0. ms \in ModStreams /\ ms.bufQ \in Seq(Bufs) /\ Owned(ms)
  BY RecordFacts DEF Sound
<1>1. /\ n \in ModStreams /\ n.mod = ms.mod /\ n.lastBuf = ms.lastBuf
      /\ n.firstBuf = IF ms.lastBuf = "first" THEN b ELSE ms.firstBuf
      /\ n.bufQ = IF ms.lastBuf = "first" THEN ms.bufQ
                  ELSE [ms.bufQ EXCEPT ![Len(ms.bufQ)] = b]
  BY <1>0, SetLastShape
<1> HIDE DEF n
<1>2. ms.lastBuf = "first" => AllHonest(n) /\ LastBuf(n) = b
  BY <1>1 DEF AllHonest, LastBuf
<1>3. ASSUME ms.lastBuf # "first" PROVE AllHonest(n) /\ LastBuf(n) = b
  <2>1. ms.bufQ # <<>> /\ Len(ms.bufQ) \in 1..Len(ms.bufQ)
    BY <1>0, <1>3, EmptySeq, RecordFacts DEF Owned, Open
  <2>2. /\ Len(n.bufQ) = Len(ms.bufQ)
        /\ \A i \in 1..Len(ms.bufQ) :
             n.bufQ[i] = IF i = Len(ms.bufQ) THEN b ELSE ms.bufQ[i]
    <3>1. n.bufQ = [ms.bufQ EXCEPT ![Len(ms.bufQ)] = b]
      BY <1>1, <1>3
    <3> QED BY <1>0, <2>1, <3>1, ExceptSeq
  <2>3. n.bufQ[Len(n.bufQ)] = b
    BY <2>1, <2>2
  <2>4. \A i \in 1..Len(n.bufQ) : Honest(n.bufQ[i])
    BY <2>2 DEF AllHonest
  <2> QED BY <1>1, <1>3, <2>3, <2>4 DEF AllHonest, LastBuf
<1> QED BY <1>1, <1>2, <1>3 DEF n

(* The end of a buffer, when it is one to be honest about                  *)
LEMMA EofHonest ==
  ASSUME NEW ms, Sound(ms), Open(ms), AllHonest(ms),
         NEW d \in SUBSET (Errors \cup {"NoCarrier"}),
         LET b == LastBuf(ms)
         IN \/ (b.diag \cup d) \cap Errors # {}
            \/ b.has = IF "NoCarrier" \in b.diag \cup d THEN 0 ELSE Parts
  PROVE  LET n == PutEof(ms, d)
         IN AllHonest(n) /\ ~Open(n) /\ n.mod = ms.mod /\ n \in ModStreams
<1> DEFINE b == LastBuf(ms)
           e == [b EXCEPT !.eof = TRUE, !.diag = @ \cup d,
                          !.unread = @ \/ Repacked(ms.mod)]
           l == SetLast(ms, e)
           n == PutEof(ms, d)
<1>1. b \in Bufs
  BY LastFacts
<1>2. e \in Bufs /\ e.diag = b.diag \cup d /\ e.has = b.has
  BY <1>1 DEF Bufs
<1>3. Honest(e)
  BY <1>2 DEF Honest, Good
<1>4. AllHonest(l) /\ l.mod = ms.mod /\ l \in ModStreams
  BY <1>2, <1>3, SetLastHonest
<1>5. n = [l EXCEPT !.lastBuf = "none"]
  BY DEF PutEof
<1> HIDE DEF l, n
<1>6. /\ n \in ModStreams /\ n.bufQ = l.bufQ /\ n.firstBuf = l.firstBuf
      /\ n.mod = l.mod /\ n.lastBuf = "none"
  BY <1>4, <1>5 DEF ModStreams
<1> QED BY <1>4, <1>6 DEF AllHonest, Open, n

(* An error at the end makes any buffer honest.                            *)
LEMMA CutHonest ==
  ASSUME NEW ms, Sound(ms), Open(ms), AllHonest(ms)
  PROVE  LET n == PutEof(ms, {"OutOfOrder", "NoCarrier"})
         IN AllHonest(n) /\ ~Open(n) /\ n.mod = ms.mod
<1> DEFINE d == {"OutOfOrder", "NoCarrier"}
<1>1. d \in SUBSET (Errors \cup {"NoCarrier"}) /\ (LastBuf(ms).diag \cup d) \cap Errors # {}
  BY DEF Errors
<1> HIDE DEF d
<1>2. AllHonest(PutEof(ms, d)) /\ ~Open(PutEof(ms, d)) /\ PutEof(ms, d).mod = ms.mod
  BY <1>1, EofHonest
<1> QED BY <1>2 DEF d

(* A new buffer at the end of the queue                                    *)
LEMMA PushHonest ==
  ASSUME NEW ms \in ModStreams, AllHonest(ms)
  PROVE  LET n == PushBuf(ms)
         IN AllHonest(n) /\ LastBuf(n) = NewBuf /\ n.mod = ms.mod /\ Open(n)
<1> DEFINE n == PushBuf(ms)
           q == ms.bufQ
<1>1. q \in Seq(Bufs) /\ Len(q) \in Nat
  BY RecordFacts, LenProperties
<1>2. /\ n \in ModStreams /\ n.mod = ms.mod /\ n.firstBuf = ms.firstBuf
      /\ n.bufQ = Append(q, NewBuf) /\ n.lastBuf = "tail"
  BY PushShape
<1>3. /\ Len(n.bufQ) = Len(q) + 1 /\ n.bufQ[Len(q) + 1] = NewBuf
      /\ \A i \in 1..Len(q) : n.bufQ[i] = q[i]
  BY <1>1, <1>2, RecordFacts
<1> HIDE DEF n
<1>4. \A i \in 1..Len(n.bufQ) : Honest(n.bufQ[i])
  BY <1>1, <1>3, NewFacts DEF AllHonest
<1>5. LastBuf(n) = NewBuf
  BY <1>2, <1>3 DEF LastBuf
<1> QED BY <1>2, <1>4, <1>5, RecordFacts DEF AllHonest, Open, n

(* What the body does to a stream leaves its frames: n comes from ms.      *)
Alike(b, c) == b.has = c.has /\ b.eof = c.eof /\ b.diag = c.diag
From(ms, n) ==
  /\ ms # Null /\ n # Null /\ IsEqual(n.mod, ms.mod)
  /\ AllHonest(ms) => AllHonest(n)
  /\ Open(n) => Open(ms) /\ Alike(LastBuf(n), LastBuf(ms))
Settled(ms) == ms # Null /\ ~Open(ms) /\ (Counted(ms.mod) => AllHonest(ms))

(* Such a stream is followed as before, and a settled one in any case.     *)
LEMMA FromFollowed ==
  ASSUME NEW ms, NEW n, NEW c, NEW r, Followed(ms, c, r), From(ms, n)
  PROVE  Followed(n, c, r)
<1>1. CASE Counted(n.mod)
  <2>1. Counted(ms.mod) /\ ms # Null
    BY <1>1, CountedFacts DEF From
  <2>2. AllHonest(n)
    BY <2>1 DEF Followed, From
  <2>3. ASSUME Open(n) PROVE Follows(LastBuf(n), n.mod, c, r)
    <3>1. Follows(LastBuf(ms), ms.mod, c, r) /\ Alike(LastBuf(n), LastBuf(ms))
      BY <2>1, <2>3 DEF Followed, From
    <3>2. \A k : IsEqual(k, n.mod) <=> IsEqual(k, ms.mod)
      BY CountedFacts DEF From
    <3> QED BY <3>1, <3>2 DEF Follows, Alike
  <2> QED BY <2>2, <2>3 DEF Followed
<1> QED BY <1>1 DEF Followed

(* The buffer the DTE reads is deleted.                                    *)
LEMMA DeleteFrom ==
  ASSUME NEW ms, Sound(ms)
  PROVE  From(ms, DeleteFirstBuf(ms))
<1> DEFINE d == DeleteFirstBuf(ms)
<1>1. /\ d \in ModStreams /\ ms \in ModStreams
      /\ d.mod = ms.mod /\ d.firstBuf = Null /\ d.bufQ = ms.bufQ
      /\ d.lastBuf = IF ms.lastBuf = "first" THEN "none" ELSE ms.lastBuf
  BY DeleteShape DEF Sound
<1> HIDE DEF d
<1>2. Open(d) => Open(ms) /\ LastBuf(d) = LastBuf(ms)
  BY <1>1, RecordFacts DEF Open, LastBuf
<1> QED BY <1>1, <1>2, RecordFacts DEF From, AllHonest, Alike, IsEqual, d

(* The buffers of modStreamInSaved move to an empty stream.                *)
LEMMA MoveFrom ==
  ASSUME NEW ms, Sound(ms), Empty(ms), NEW from, Sound(from), from.firstBuf = Null,
         IsEqual(ms.mod, from.mod)
  PROVE  From(from, Move(ms, from)) /\ Move(ms, from).mod = ms.mod
<1> DEFINE n == Move(ms, from)
<1>1. ms \in ModStreams /\ from \in ModStreams /\ from.bufQ \in Seq(Bufs)
  BY RecordFacts DEF Sound
<1>2. ms.bufQ \o from.bufQ = from.bufQ
  BY <1>1, ConcatEmptySeq DEF Empty
<1>3. /\ n \in ModStreams /\ n.bufQ = from.bufQ /\ n.lastBuf = from.lastBuf
      /\ n.firstBuf = Null /\ n.mod = ms.mod
  BY <1>1, <1>2, RecordFacts DEF Move, ModStreams, Empty
<1> HIDE DEF n
<1>4. Open(n) => Open(from) /\ LastBuf(n) = LastBuf(from)
  BY <1>1, <1>3, RecordFacts DEF Open, LastBuf
<1> QED BY <1>1, <1>3, <1>4, RecordFacts DEF From, AllHonest, Alike, n

(* The next buffer is taken out of the queue.                              *)
LEMMA PopFrom ==
  ASSUME NEW ms, Sound(ms), ms.bufQ # <<>>, NEW b \in Bufs, Alike(b, Head(ms.bufQ))
  PROVE  LET n == [PopBuf(ms) EXCEPT !.firstBuf = b]
         IN From(ms, n) /\ n.mod = ms.mod
<1> DEFINE d == DeleteFirstBuf(ms)
           q == ms.bufQ
           n == [PopBuf(ms) EXCEPT !.firstBuf = b]
<1>1. ms \in ModStreams /\ q \in Seq(Bufs) /\ ms.lastBuf # "first" /\ Len(q) \in Nat \ {0}
  BY RecordFacts, EmptySeq DEF Sound, Owned
<1>2. d \in ModStreams /\ d.bufQ = q /\ d.mod = ms.mod /\ d.lastBuf = ms.lastBuf
  BY <1>1, DeleteShape
<1>3. /\ Tail(q) \in Seq(Bufs) /\ Head(q) = q[1]
      /\ Len(Tail(q)) = Len(q) - 1 /\ \A i \in 1..Len(Tail(q)) : Tail(q)[i] = q[i + 1]
  BY <1>1, HeadTailProperties
<1>4. /\ n \in ModStreams /\ n.firstBuf = b /\ n.bufQ = Tail(q) /\ n.mod = ms.mod
      /\ n.lastBuf = IF ms.lastBuf = "tail" /\ Len(q) = 1 THEN "first" ELSE ms.lastBuf
  BY <1>1, <1>2, <1>3, HeadTailProperties DEF PopBuf, ModStreams
<1> HIDE DEF n, q
<1>5. 1 \in 1..Len(q) /\ \A i \in 1..Len(Tail(q)) : i + 1 \in 1..Len(q)
  BY <1>1, <1>3
<1>6. Honest(q[1]) => Honest(b)
  BY <1>3 DEF Alike, Honest, Good, q
<1>7. AllHonest(ms) => AllHonest(n)
  BY <1>3, <1>4, <1>5, <1>6 DEF AllHonest, q
<1>8. ASSUME Open(n) PROVE Open(ms) /\ Alike(LastBuf(n), LastBuf(ms))
  <2>1. ms.lastBuf = "tail" /\ LastBuf(ms) = q[Len(q)] /\ Open(ms)
    BY <1>1, <1>4, <1>8, RecordFacts DEF Open, LastBuf, q
  <2>2. CASE Len(q) = 1
    BY <1>3, <1>4, <2>1, <2>2 DEF LastBuf, Alike, q
  <2>3. CASE Len(q) # 1
    <3>1. Len(Tail(q)) \in 1..Len(Tail(q)) /\ Len(Tail(q)) + 1 = Len(q)
      BY <1>1, <1>3, <2>3
    <3>2. Tail(q)[Len(Tail(q))] = q[Len(q)]
      BY <1>3, <3>1
    <3>3. LastBuf(n) = Tail(q)[Len(Tail(q))]
      BY <1>4, <2>1, <2>3 DEF LastBuf
    <3> QED BY <2>1, <3>2, <3>3 DEF Alike
  <2> QED BY <2>2, <2>3
<1> QED BY <1>1, <1>4, <1>7, <1>8, RecordFacts DEF From, IsEqual, n

(* PopBuf itself: repacked data begins with flags.                         *)
LEMMA PopBufFrom ==
  ASSUME NEW ms, Sound(ms), ms.bufQ # <<>>
  PROVE  From(ms, PopBuf(ms)) /\ PopBuf(ms).mod = ms.mod
<1> DEFINE h == Head(ms.bufQ)
           b == [h EXCEPT !.unread = @ \/ Repacked(ms.mod)]
           n == PopBuf(ms)
<1>1. ms \in ModStreams /\ ms.bufQ \in Seq(Bufs) /\ h \in Bufs
  BY RecordFacts, HeadTailProperties DEF Sound
<1>2. b \in Bufs /\ Alike(b, h)
  BY <1>1 DEF Bufs, Alike
<1>3. n = [n EXCEPT !.firstBuf = b]
  BY <1>1, <1>2, DeleteShape, HeadTailProperties DEF PopBuf, ModStreams
<1>4. From(ms, [n EXCEPT !.firstBuf = b]) /\ [n EXCEPT !.firstBuf = b].mod = ms.mod
  BY <1>2, PopFrom
<1> QED BY <1>3, <1>4

(* The DTE reads.                                                          *)
LEMMA ReadFrom ==
  ASSUME NEW ms, Sound(ms), ms.firstBuf # Null
  PROVE  LET n == [ms EXCEPT !.firstBuf.unread = FALSE]
         IN From(ms, n) /\ n.mod = ms.mod
<1> DEFINE b == [ms.firstBuf EXCEPT !.unread = FALSE]
           n == [ms EXCEPT !.firstBuf.unread = FALSE]
<1>1. ms \in ModStreams /\ ms.firstBuf \in Bufs
  BY RecordFacts DEF Sound
<1>2. b \in Bufs /\ Alike(b, ms.firstBuf)
  BY <1>1 DEF Bufs, Alike
<1>3. /\ n \in ModStreams /\ n.firstBuf = b /\ n.bufQ = ms.bufQ /\ n.lastBuf = ms.lastBuf
      /\ n.mod = ms.mod
  BY <1>1, <1>2 DEF ModStreams
<1> HIDE DEF n, b
<1>4. Honest(ms.firstBuf) => Honest(b)
  BY <1>2 DEF Alike, Honest, Good
<1>5. Open(n) => Open(ms) /\ Alike(LastBuf(n), LastBuf(ms))
  BY <1>1, <1>2, <1>3, RecordFacts DEF Open, LastBuf, Alike
<1>6. AllHonest(ms) => AllHonest(n)
  BY <1>3, <1>4 DEF AllHonest
<1> QED BY <1>1, <1>3, <1>5, <1>6, RecordFacts DEF From, IsEqual, n

(* A fresh stream has no frame to be honest about ..                       *)
LEMMA EmptySettled ==
  ASSUME NEW ms, Sound(ms), Empty(ms)
  PROVE  AllHonest(ms) /\ Settled(ms)
<1>1. ms # Null /\ Len(ms.bufQ) = 0
  BY RecordFacts, EmptySeq DEF Sound, Empty
<1>2. AllHonest(ms)
  BY <1>1 DEF Empty, AllHonest
<1> QED BY <1>1, <1>2 DEF Settled, Open, Empty

(* .. and the buffer that refuses a signal says so.                        *)
LEMMA DiffSigSettled ==
  ASSUME NEW ms, Sound(ms), Empty(ms)
  PROVE  Settled(DiffSig(ms)) /\ DiffSig(ms).mod = ms.mod
<1> DEFINE p == PushBuf(ms)
<1>1. ms \in ModStreams /\ Len(ms.bufQ) = 0 /\ MaxQ \in Nat /\ MaxQ >= 1
  BY EmptySeq, RecvAssumption DEF Sound, Empty
<1>2. Sound(p)
  BY <1>1, PushSound DEF Empty
<1>3. AllHonest(p) /\ Open(p) /\ p.mod = ms.mod
  BY <1>1, EmptySettled, PushHonest
<1>4. {"DiffSig"} \in SUBSET (Errors \cup {"NoCarrier"})
      /\ (LastBuf(p).diag \cup {"DiffSig"}) \cap Errors # {}
  BY DEF Errors
<1> HIDE DEF p
<1>5. LET n == PutEof(p, {"DiffSig"})
      IN AllHonest(n) /\ ~Open(n) /\ n.mod = p.mod /\ n \in ModStreams
  BY <1>2, <1>3, <1>4, EofHonest
<1> QED BY <1>3, <1>5, RecordFacts DEF Settled, DiffSig, p
-----------------------------------------------------------------------------
(* What the packets do.  A lost one marks the open buffer.                 *)
LEMMA MarkFollowed ==
  ASSUME NEW ms, Sound(ms), Open(ms), NEW c, NEW q, Followed(ms, c, q),
         NEW d, NEW r
  PROVE  LET n == SetDiag(ms, {"BadFcs"})
         IN Followed(n, d, r) /\ Open(n) /\ n.mod = ms.mod
<1> DEFINE b == LastBuf(ms)
           e == [b EXCEPT !.diag = @ \cup {"BadFcs"}]
           n == SetDiag(ms, {"BadFcs"})
<1>1. b \in Bufs /\ ~b.eof /\ ms \in ModStreams /\ Owned(ms)
  BY LastFacts DEF Sound
<1>2. e \in Bufs /\ ~e.eof /\ "BadFcs" \in e.diag
  BY <1>1 DEF Bufs, Errors
<1>3. Honest(e)
  BY <1>2 DEF Honest, Good
<1>4. n = SetLast(ms, e)
  BY DEF SetDiag
<1> HIDE DEF n, e
<1>5. n \in ModStreams /\ n.mod = ms.mod /\ n.lastBuf = ms.lastBuf
  BY <1>1, <1>2, <1>4, SetLastShape
<1>6. Open(n)
  BY <1>5, RecordFacts DEF Open
<1>7. ASSUME Counted(ms.mod) PROVE AllHonest(n) /\ LastBuf(n) = e
  <2>1. AllHonest(ms)
    BY <1>7 DEF Followed, Open
  <2> QED BY <1>2, <1>3, <1>4, <2>1, SetLastHonest
<1>8. Followed(n, d, r)
  BY <1>2, <1>5, <1>7 DEF Followed, Follows
<1> QED BY <1>5, <1>6, <1>8 DEF n

(* A data field is counted.                                                *)
LEMMA DataHonest ==
  ASSUME NEW ms, Sound(ms), Open(ms), AllHonest(ms), NEW k \in 0..Parts
  PROVE  LET n == PutData(ms, k)
             b == LastBuf(ms)
         IN /\ AllHonest(n) /\ n.mod = ms.mod
            /\ LastBuf(n).diag = b.diag
            /\ LastBuf(n).has = IF b.has = k - 1 THEN k ELSE -1
<1> DEFINE b == LastBuf(ms)
           e == [b EXCEPT !.has = IF @ = k - 1 THEN k ELSE -1, !.unread = TRUE]
           n == PutData(ms, k)
<1>1. b \in Bufs /\ ~b.eof
  BY LastFacts
<1>2. (IF b.has = k - 1 THEN k ELSE -1) \in -1..Parts
  BY RecvAssumption
<1>3. e \in Bufs /\ ~e.eof /\ e.diag = b.diag /\ e.has = IF b.has = k - 1 THEN k ELSE -1
  BY <1>1, <1>2 DEF Bufs
<1>4. Honest(e)
  BY <1>3 DEF Honest, Good
<1>5. n = SetLast(ms, e)
  BY DEF PutData
<1> HIDE DEF e
<1>6. AllHonest(SetLast(ms, e)) /\ LastBuf(SetLast(ms, e)) = e
      /\ SetLast(ms, e).mod = ms.mod
  BY <1>3, <1>4, SetLastHonest
<1> QED BY <1>3, <1>5, <1>6

(* The data a remote party can send in an HDLC signal: the next field of a *)
(* frame, with or without its end, the end alone, or the end of the signal *)
(* between two frames.                                                     *)
Ending(p, m) == /\ p.fcs \in {"OK", "BAD"}
                /\ IF p.sigEnd THEN p.next = Ended ELSE p.next = On(m, 0)
Field1(p, r) == p.part = r.part + 1 /\ p.part \in 1..Parts
FrameField(p, r) ==
  \/ /\ Field1(p, r) /\ p.fcs = "none" /\ ~p.sigEnd /\ p.next = On(r.mod, p.part)
  \/ /\ Field1(p, r) /\ p.part = Parts /\ Ending(p, r.mod)
  \/ /\ r.part = Parts /\ p.part = 0 /\ Ending(p, r.mod)
  \/ /\ r.part = 0 /\ p.part = 0 /\ p.fcs = "none" /\ p.sigEnd /\ p.next = Ended

(* The packets of data of a remote party are such fields.                  *)
LEMMA FrameFields ==
  ASSUME NEW r \in Remotes, NEW p \in RemotePackets(r), p.ind = "none"
  PROVE  /\ r.phase = "on" /\ p.mod = r.mod /\ p.part \in 0..Parts
         /\ dataTypeT38(r.mod) = "dtHdlc" => FrameField(p, r)
<1> DEFINE m == r.mod
           n == r.part
<1>0. (r.phase = "on" => m \in Mods) /\ n \in 0..Parts /\ Parts \in Nat \ {0}
  BY RecvAssumption DEF Remotes
<1>1. \A i, q : Sent(i, q).ind = i
  BY DEF Sent
<1>2. p.part \in 0..Parts
  BY PacketFacts DEF Packet
<1>3. r.phase = "on"
  <2> SUFFICES ASSUME r.phase # "on" PROVE FALSE
    OBVIOUS
  <2>1. \/ p = Sent("noSig", Quiet) \/ p = Sent("ced", Quiet)
        \/ \E i \in Mods : p = Sent(i, On(i, 0))
    BY DEF RemotePackets, Remotes
  <2>2. "none" \notin Mods
    BY RecvAssumption
  <2> QED BY <1>1, <2>1, <2>2
<1>4. p # Sent("noSig", Quiet) /\ p # Sent(m, r)
  BY <1>0, <1>1, <1>3, RecvAssumption
<1>5. \/ dataTypeT38(m) = "dtHdlc" /\ p \in FramePackets(m, n)
      \/ n = 0 /\ p = Field(m, 0, "none", TRUE, Ended)
      \/ dataTypeT38(m) # "dtHdlc" /\ p = Field(m, 0, "none", TRUE, Ended)
      \/ dataTypeT38(m) # "dtHdlc" /\ p = Field(m, 1, "none", FALSE, On(m, 1))
  BY <1>3, <1>4 DEF RemotePackets, m, n
<1> HIDE DEF m, n
<1>6. ASSUME NEW k, NEW q \in FrameEnd(m, k) PROVE q.mod = m /\ q.part = k /\ Ending(q, m)
  <2>1. PICK f \in FcsKinds : \/ q = Field(m, k, f, FALSE, On(m, 0))
                              \/ q = Field(m, k, f, TRUE, Ended)
    BY <1>6 DEF FrameEnd
  <2>2. f \in {"OK", "BAD"}
    BY RecvAssumption
  <2> QED BY <2>1, <2>2 DEF Field, Ending
<1>7. CASE dataTypeT38(m) = "dtHdlc" /\ p \in FramePackets(m, n)
  <2>1. CASE n < Parts
    <3>1. n + 1 \in 1..Parts
      BY <1>0, <2>1
    <3>2. \/ p = Field(m, n + 1, "none", FALSE, On(m, n + 1))
          \/ n + 1 = Parts /\ p \in FrameEnd(m, n + 1)
      BY <1>7, <2>1 DEF FramePackets
    <3>3. CASE p = Field(m, n + 1, "none", FALSE, On(m, n + 1))
      <4>1. p.mod = m /\ p.part = n + 1 /\ p.fcs = "none" /\ ~p.sigEnd
            /\ p.next = On(m, n + 1)
        BY <3>3 DEF Field
      <4> QED BY <1>2, <1>3, <3>1, <4>1 DEF FrameField, Field1, m, n
    <3>4. CASE n + 1 = Parts /\ p \in FrameEnd(m, n + 1)
      <4>1. p.mod = m /\ p.part = n + 1 /\ Ending(p, m)
        BY <1>6, <3>4
      <4> QED BY <1>2, <1>3, <3>1, <3>4, <4>1 DEF FrameField, Field1, m, n
    <3> QED BY <3>2, <3>3, <3>4
  <2>2. CASE ~(n < Parts)
    <3>1. n = Parts
      BY <1>0, <2>2
    <3>2. p \in FrameEnd(m, 0)
      BY <1>7, <2>2 DEF FramePackets
    <3>3. p.mod = m /\ p.part = 0 /\ Ending(p, m)
      BY <1>6, <3>2
    <3> QED BY <1>2, <1>3, <3>1, <3>3 DEF FrameField, m, n
  <2> QED BY <2>1, <2>2
<1>8. CASE n = 0 /\ p = Field(m, 0, "none", TRUE, Ended)
  BY <1>2, <1>3, <1>8 DEF FrameField, Field, m, n
<1>9. CASE dataTypeT38(m) # "dtHdlc" /\ p.mod = m
  BY <1>2, <1>3, <1>9 DEF m
<1> QED BY <1>5, <1>7, <1>8, <1>9 DEF Field

(* A packet of data leaves the open buffer with what the remote party has  *)
(* now sent, or honest and closed.                                         *)
LEMMA PutFollowed ==
  ASSUME NEW ms, Sound(ms), Open(ms), NEW c, NEW r \in Remotes, Followed(ms, c, r),
         NEW p \in RemotePackets(r), p.ind = "none",
         p.fcs # "none" => Len(ms.bufQ) < MaxQ,
         NEW k, k <=> (c \/ p.part > 0)
  PROVE  Followed(Put(ms, p), k, p.next)
<1> DEFINE b == LastBuf(ms)
           d == IF p.part = 0 THEN ms ELSE PutData(ms, p.part)
           f == IF p.fcs = "BAD" THEN {"BadFcs"} ELSE {}
           g == PutEof(d, f)
           e == IF p.fcs = "none" THEN d ELSE PushBuf(g)
           end == PutEof(e, {"NoCarrier"})
           marked == "BadFcs" \in b.diag
<1>0. /\ r.phase = "on" /\ p.mod = r.mod /\ p.part \in 0..Parts
      /\ dataTypeT38(r.mod) = "dtHdlc" => FrameField(p, r)
  BY FrameFields
<1>1. CASE MsgType(ms.mod) # MsgType(p.mod)
  <2>1. Put(ms, p) = PutEof(ms, {"OutOfOrder", "NoCarrier"})
    BY <1>1 DEF Put
  <2>2. Put(ms, p).mod = ms.mod /\ ~Open(Put(ms, p))
    <3>1. {"OutOfOrder", "NoCarrier"} \in SUBSET (Errors \cup {"NoCarrier"})
      BY DEF Errors
    <3>2. Put(ms, p).mod = ms.mod /\ Put(ms, p).lastBuf = "none"
      BY <2>1, <3>1, EofShape
    <3> QED BY <3>2 DEF Open
  <2>3. Counted(ms.mod) => AllHonest(Put(ms, p))
    BY <2>1, CutHonest DEF Followed, Open
  <2> QED BY <2>2, <2>3 DEF Followed
<1>2. CASE MsgType(ms.mod) = MsgType(p.mod)
  <2>1. IsEqual(r.mod, ms.mod)
    BY <1>0, <1>2 DEF IsEqual
  <2>2. Put(ms, p) = IF p.sigEnd THEN end ELSE e
    BY <1>2 DEF Put
  <2>3. /\ Sound(d) /\ Open(d) /\ Len(d.bufQ) = Len(ms.bufQ) /\ d.mod = ms.mod
    BY <1>0, DataSound DEF Grown
  <2>4. f \in SUBSET (Errors \cup {"NoCarrier"}) /\ "DiffSig" \notin f
        /\ "NoCarrier" \notin f /\ (p.fcs = "BAD" => f \cap Errors # {})
    BY DEF Errors
  <2>5. /\ g \in ModStreams /\ g.mod = ms.mod
    <3> HIDE DEF d, f
    <3> QED BY <2>3, <2>4, EofShape
  <2>6. Sound(e) /\ Open(e) /\ e.mod = ms.mod
    <3>1. ASSUME p.fcs # "none"
          PROVE  Sound(PushBuf(g)) /\ Open(PushBuf(g)) /\ PushBuf(g).mod = d.mod
      <4>1. Len(d.bufQ) < MaxQ
        BY <2>3, <3>1
      <4> HIDE DEF d, f
      <4> QED BY <2>3, <2>4, <4>1, FrameSound DEF Grown
    <3> HIDE DEF d, g
    <3> QED BY <2>3, <3>1
  <2>7. Put(ms, p).mod = ms.mod
    <3>1. /\ {"NoCarrier"} \in SUBSET (Errors \cup {"NoCarrier"})
          /\ "DiffSig" \notin {"NoCarrier"}
      OBVIOUS
    <3> HIDE DEF e
    <3>2. end.mod = e.mod
      BY <2>6, <3>1, EofShape
    <3> HIDE DEF end
    <3> QED BY <2>2, <2>6, <3>2
  <2>8. SUFFICES ASSUME Counted(ms.mod)
                 PROVE  AllHonest(Put(ms, p))
                        /\ (Open(Put(ms, p)) =>
                              Follows(LastBuf(Put(ms, p)), ms.mod, k, p.next))
    BY <2>7 DEF Followed
  <2>9. FrameField(p, r)
    BY <1>0, <2>1, <2>8, CountedFacts DEF Counted
  <2>10. AllHonest(ms) /\ Follows(b, ms.mod, c, r) /\ b \in Bufs
    BY <2>8, LastFacts DEF Followed, Open
  <2>11. marked \/ (b.diag = {} /\ b.has = r.part)
    BY <1>0, <2>10 DEF Follows
  <2>12. /\ AllHonest(d) /\ LastBuf(d).diag = b.diag
         /\ p.part = 0 => LastBuf(d) = b
         /\ p.part # 0 /\ ~marked => LastBuf(d).has = p.part
    <3>1. CASE p.part = 0
      BY <2>10, <3>1
    <3>2. CASE p.part # 0
      <4>1. /\ AllHonest(PutData(ms, p.part)) /\ LastBuf(PutData(ms, p.part)).diag = b.diag
            /\ LastBuf(PutData(ms, p.part)).has = IF b.has = p.part - 1 THEN p.part ELSE -1
        BY <1>0, <2>10, DataHonest
      <4>2. Field1(p, r)
        BY <2>9, <3>2 DEF FrameField
      <4>3. ~marked => b.has = p.part - 1
        <5>1. r.part \in Int /\ p.part = r.part + 1
          BY <4>2 DEF Field1, Remotes
        <5> QED BY <2>11, <5>1
      <4>4. d = PutData(ms, p.part)
        BY <3>2
      <4> HIDE DEF d, b, marked
      <4> QED BY <3>2, <4>1, <4>3, <4>4
    <3> QED BY <3>1, <3>2
  <2>13. CASE p.fcs = "none" /\ ~p.sigEnd
    <3>1. Put(ms, p) = d
      BY <2>2, <2>13
    <3>2. p.part \in 1..Parts /\ p.next = On(r.mod, p.part)
      BY <2>9, <2>13 DEF FrameField, Field1, Ending
    <3>3. p.part # 0 /\ k
      BY <3>2
    <3> HIDE DEF d, b, marked
    <3>4. Follows(LastBuf(d), ms.mod, k, p.next)
      <4>1. p.next.phase = "on" /\ p.next.mod = r.mod /\ p.next.part = p.part
        BY <3>2 DEF On
      <4>2. marked => "BadFcs" \in LastBuf(d).diag
        BY <2>12 DEF marked
      <4>3. ~marked => LastBuf(d).diag = {} /\ LastBuf(d).has = p.part
        BY <2>11, <2>12, <3>3
      <4> QED BY <2>1, <3>3, <4>1, <4>2, <4>3 DEF Follows
    <3> QED BY <2>12, <3>1, <3>4
  <2>14. CASE p.fcs = "none" /\ p.sigEnd
    <3>1. Put(ms, p) = PutEof(d, {"NoCarrier"})
      BY <2>2, <2>14
    <3>2. r.part = 0 /\ p.part = 0
      BY <2>9, <2>14 DEF FrameField, Ending
    <3> HIDE DEF d, b, marked
    <3>3. \/ (LastBuf(d).diag \cup {"NoCarrier"}) \cap Errors # {}
          \/ LastBuf(d).has = 0
      BY <2>11, <2>12, <3>2 DEF marked, Errors
    <3>4. AllHonest(PutEof(d, {"NoCarrier"})) /\ ~Open(PutEof(d, {"NoCarrier"}))
      BY <2>3, <2>12, <3>3, EofHonest
    <3> QED BY <3>1, <3>4
  <2>15. CASE p.fcs # "none"
    <3>1. e = PushBuf(g) /\ Ending(p, r.mod)
      BY <2>9, <2>15 DEF FrameField
    <3>2. ~marked => LastBuf(d).diag = {} /\ LastBuf(d).has = Parts
      <4>1. \/ p.part = Parts /\ p.part # 0
            \/ p.part = 0 /\ r.part = Parts
        BY <2>9, <2>15, RecvAssumption DEF FrameField, Field1
      <4> HIDE DEF d, b, marked
      <4> QED BY <2>11, <2>12, <4>1
    <3>3. AllHonest(g)
      <4> HIDE DEF d, b, marked, f
      <4>1. \/ (LastBuf(d).diag \cup f) \cap Errors # {}
            \/ LastBuf(d).has = IF "NoCarrier" \in LastBuf(d).diag \cup f THEN 0 ELSE Parts
        BY <2>4, <2>12, <3>2 DEF marked, Errors
      <4> QED BY <2>3, <2>4, <2>12, <4>1, EofHonest
    <3> HIDE DEF d, b, marked, f, g
    <3>4. AllHonest(e) /\ LastBuf(e) = NewBuf
      BY <2>5, <3>1, <3>3, PushHonest
    <3>5. CASE ~p.sigEnd
      <4>1. p.next.phase = "on" /\ p.next.mod = r.mod /\ p.next.part = 0
        BY <3>1, <3>5 DEF Ending, On
      <4>2. Follows(NewBuf, ms.mod, k, p.next)
        BY <2>1, <4>1, NewFacts DEF Follows
      <4>3. Put(ms, p) = e
        BY <2>2, <3>5
      <4> QED BY <3>4, <4>2, <4>3
    <3>6. CASE p.sigEnd
      <4>1. Put(ms, p) = PutEof(e, {"NoCarrier"})
        BY <2>2, <3>6
      <4> HIDE DEF e
      <4>2. LastBuf(e).has = 0
        BY <3>4, NewFacts
      <4>3. AllHonest(PutEof(e, {"NoCarrier"})) /\ ~Open(PutEof(e, {"NoCarrier"}))
        BY <2>6, <3>4, <4>2, EofHonest
      <4> QED BY <4>1, <4>3
    <3> QED BY <3>5, <3>6
  <2> QED BY <2>13, <2>14, <2>15
<1> QED BY <1>1, <1>2

(* What the DTE reads is left alone, unless it is the open buffer.         *)
Beside(ms, n) == n.mod = ms.mod /\ (ms.lastBuf # "first" => n.firstBuf = ms.firstBuf)

(* The end of a buffer                                                     *)
LEMMA EofBeside ==
  ASSUME NEW ms, Sound(ms), Open(ms), NEW d \in SUBSET (Errors \cup {"NoCarrier"})
  PROVE  Beside(ms, PutEof(ms, d)) /\ PutEof(ms, d).lastBuf = "none"
           /\ PutEof(ms, d) \in ModStreams
<1> DEFINE b == LastBuf(ms)
           e == [b EXCEPT !.eof = TRUE, !.diag = @ \cup d,
                          !.unread = @ \/ Repacked(ms.mod)]
           l == SetLast(ms, e)
           n == PutEof(ms, d)
<1>1. b \in Bufs /\ ms \in ModStreams /\ Owned(ms)
  BY LastFacts DEF Sound
<1>2. e \in Bufs
  BY <1>1 DEF Bufs
<1>3. /\ l \in ModStreams /\ l.mod = ms.mod
      /\ l.firstBuf = IF ms.lastBuf = "first" THEN e ELSE ms.firstBuf
  BY <1>1, <1>2, SetLastShape
<1>4. n = [l EXCEPT !.lastBuf = "none"]
  BY DEF PutEof
<1> HIDE DEF l, n
<1>5. n \in ModStreams /\ n.firstBuf = l.firstBuf /\ n.mod = l.mod /\ n.lastBuf = "none"
  BY <1>3, <1>4 DEF ModStreams
<1> QED BY <1>3, <1>5 DEF Beside, n

(* So is it by data fields ..                                              *)
LEMMA PutBeside ==
  ASSUME NEW ms, Sound(ms), Open(ms), NEW p, p.part \in 0..Parts,
         p.fcs # "none" => Len(ms.bufQ) < MaxQ
  PROVE  Beside(ms, Put(ms, p))
<1> DEFINE d == IF p.part = 0 THEN ms ELSE PutData(ms, p.part)
           f == IF p.fcs = "BAD" THEN {"BadFcs"} ELSE {}
           g == PutEof(d, f)
           e == IF p.fcs = "none" THEN d ELSE PushBuf(g)
           cut == PutEof(ms, {"OutOfOrder", "NoCarrier"})
           end == PutEof(e, {"NoCarrier"})
<1>1. Put(ms, p) = IF MsgType(ms.mod) # MsgType(p.mod) THEN cut
                   ELSE IF p.sigEnd THEN end ELSE e
  BY DEF Put
<1>2. Sound(d) /\ Open(d) /\ Len(d.bufQ) = Len(ms.bufQ)
  BY DataSound DEF Grown
<1>3. Beside(ms, d) /\ d.lastBuf = ms.lastBuf
  <2>1. CASE p.part = 0
    BY <2>1 DEF Beside
  <2>2. CASE p.part # 0
    <3> DEFINE b == LastBuf(ms)
               a == [b EXCEPT !.has = IF @ = p.part - 1 THEN p.part ELSE -1,
                              !.unread = TRUE]
    <3>1. b \in Bufs /\ ms \in ModStreams /\ Owned(ms)
      BY LastFacts DEF Sound
    <3>2. (IF b.has = p.part - 1 THEN p.part ELSE -1) \in -1..Parts
      BY RecvAssumption
    <3>3. a \in Bufs
      BY <3>1, <3>2 DEF Bufs
    <3>4. d = SetLast(ms, a)
      BY <2>2 DEF PutData
    <3> HIDE DEF a, d
    <3> QED BY <3>1, <3>3, <3>4, SetLastShape DEF Beside
  <2> QED BY <2>1, <2>2
<1>4. f \in SUBSET (Errors \cup {"NoCarrier"}) /\ "DiffSig" \notin f
  BY DEF Errors
<1>5. Beside(d, g) /\ g \in ModStreams
  <2> HIDE DEF d, f
  <2> QED BY <1>2, <1>4, EofBeside
<1>6. Sound(e) /\ Open(e)
  <2>1. ASSUME p.fcs # "none" PROVE Sound(PushBuf(g)) /\ Open(PushBuf(g))
    <3>1. Len(d.bufQ) < MaxQ
      BY <1>2, <2>1
    <3> HIDE DEF d, f
    <3> QED BY <1>2, <1>4, <3>1, FrameSound DEF Grown
  <2> HIDE DEF d, g
  <2> QED BY <1>2, <2>1
<1>7. Beside(ms, e) /\ (p.fcs = "none" => e.lastBuf = ms.lastBuf)
        /\ (p.fcs # "none" => e.lastBuf = "tail")
  <2>1. Beside(g, PushBuf(g)) /\ PushBuf(g).firstBuf = g.firstBuf
          /\ PushBuf(g).lastBuf = "tail"
    <3> HIDE DEF g
    <3> QED BY <1>5, PushShape DEF Beside
  <2> HIDE DEF d, g
  <2> QED BY <1>3, <1>5, <2>1 DEF Beside
<1>8. Beside(ms, cut)
  <2>1. {"OutOfOrder", "NoCarrier"} \in SUBSET (Errors \cup {"NoCarrier"})
    BY DEF Errors
  <2> QED BY <2>1, EofBeside
<1>9. Beside(ms, end)
  <2>1. {"NoCarrier"} \in SUBSET (Errors \cup {"NoCarrier"})
    OBVIOUS
  <2> HIDE DEF e
  <2>2. Beside(e, end)
    BY <1>6, <2>1, EofBeside
  <2> HIDE DEF end
  <2> QED BY <1>7, <2>2 DEF Beside
<1> HIDE DEF cut, end, e
<1> QED BY <1>1, <1>7, <1>8, <1>9

(* .. and by the mark of a lost packet.                                    *)
LEMMA MarkBeside ==
  ASSUME NEW ms, Sound(ms), Open(ms)
  PROVE  Beside(ms, SetDiag(ms, {"BadFcs"}))
<1> DEFINE b == LastBuf(ms)
           e == [b EXCEPT !.diag = @ \cup {"BadFcs"}]
<1>1. b \in Bufs /\ ms \in ModStreams /\ Owned(ms)
  BY LastFacts DEF Sound
<1>2. e \in Bufs
  BY <1>1 DEF Bufs, Errors
<1>3. SetDiag(ms, {"BadFcs"}) = SetLast(ms, e)
  BY DEF SetDiag
<1> HIDE DEF e
<1> QED BY <1>1, <1>2, <1>3, SetLastShape DEF Beside
-----------------------------------------------------------------------------
(* The indicators: after one, the remote party is where the signal begins. *)
LEMMA IndicatorNext ==
  ASSUME NEW r \in Remotes, NEW p \in RemotePackets(r), p.ind # "none"
  PROVE  /\ p.ind \in Mods => p.next = On(p.ind, 0)
         /\ p.ind = "noSig" => p.next = Quiet
         /\ r.phase = "on" /\ p.ind \in Mods => p.next = r
         /\ r.phase = "start" => p.ind = "noSig"
<1> DEFINE m == r.mod
           n == r.part
<1>1. \A i, q : Sent(i, q).ind = i /\ Sent(i, q).next = q
  BY DEF Sent
<1>2. {"noSig", "ced"} \cap Mods = {}
  BY RecvAssumption
<1>3. CASE r.phase # "on"
  <2>1. \/ p = Sent("noSig", Quiet)
        \/ r.phase # "start" /\ p = Sent("ced", Quiet)
        \/ r.phase # "start" /\ \E i \in Mods : p = Sent(i, On(i, 0))
    BY <1>3 DEF RemotePackets, Remotes
  <2> QED BY <1>1, <1>2, <1>3, <2>1
<1>4. CASE r.phase = "on"
  <2>1. \/ p = Sent("noSig", Quiet)
        \/ p = Sent(m, r)
        \/ p \in FramePackets(m, n)
        \/ p = Field(m, 0, "none", TRUE, Ended)
        \/ p = Field(m, 1, "none", FALSE, On(m, 1))
    BY <1>4 DEF RemotePackets, Remotes, m, n
  <2>2. n # 0 => \/ p = Sent("noSig", Quiet)
                 \/ p \in FramePackets(m, n)
                 \/ p = Field(m, 0, "none", TRUE, Ended)
                 \/ p = Field(m, 1, "none", FALSE, On(m, 1))
    BY <1>4 DEF RemotePackets, Remotes, m, n
  <2>3. m \in Mods /\ (n = 0 => r = On(m, 0))
    BY <1>4 DEF Remotes, On
  <2> HIDE DEF m, n
  <2>4. p \notin FramePackets(m, n)
    <3>1. ASSUME NEW k, NEW q \in FrameEnd(m, k) PROVE q.ind = "none"
      BY <3>1 DEF FrameEnd, Field
    <3>2. \A q \in FramePackets(m, n) :
            \/ q = Field(m, n + 1, "none", FALSE, On(m, n + 1))
            \/ q \in FrameEnd(m, n + 1) \/ q \in FrameEnd(m, 0)
      BY DEF FramePackets
    <3> QED BY <3>1, <3>2 DEF Field
  <2>5. \/ p = Sent("noSig", Quiet)
        \/ n = 0 /\ p = Sent(m, r)
    BY <2>1, <2>2, <2>4 DEF Field
  <2> QED BY <1>1, <1>2, <1>4, <2>3, <2>5
<1> QED BY <1>3, <1>4
-----------------------------------------------------------------------------
(* The steps of HandlePacket.  A signal that begins has nothing in its     *)
(* buffer, as the remote party has sent nothing of its first frame.        *)
LEMMA BegunFollowed ==
  ASSUME NEW i \in Mods, NEW c, ~c
  PROVE  LET ms == PushBuf(ModStream(i))
         IN Followed(ms, c, On(i, 0)) /\ Open(ms) /\ ms.mod = i
<1> DEFINE f == ModStream(i)
           ms == PushBuf(f)
<1>1. f \in ModStreams /\ f.mod = i /\ Sound(f) /\ Empty(f)
  BY FreshShape, FreshSound
<1>2. AllHonest(f)
  BY <1>1, EmptySettled
<1> HIDE DEF f
<1>3. AllHonest(ms) /\ LastBuf(ms) = NewBuf /\ ms.mod = i /\ Open(ms)
  BY <1>1, <1>2, PushHonest
<1>4. On(i, 0).phase = "on" /\ On(i, 0).mod = i /\ On(i, 0).part = 0
  BY DEF On
<1>5. Follows(NewBuf, i, c, On(i, 0))
  BY <1>4, NewFacts DEF Follows, IsEqual
<1> HIDE DEF ms
<1> QED BY <1>3, <1>5 DEF Followed, ms, f

(* An indicator, with nothing open                                         *)
LEMMA NewSignalFrames ==
  ASSUME InvStreams, InvModem, NEW s \in Stream, NEW i \in Inds, NEW in,
         NewSignal(s, i, in), ~Open(in), in # Null => Sound(in),
         in # Null /\ Counted(in.mod) => AllHonest(in),
         stateModem = "stmInWaitData" => in = modStreamIn,
         i \in Mods => remote' = On(i, 0)
  PROVE  /\ InvFrames'
         /\ Return(s) \/ Callback(s, "done")
         /\ in # Null => modStreamIn'.mod = in.mod
         /\ stateModem # "stmInWaitData" => modStreamIn' = in
<1> DEFINE saved == PushBuf(ModStream(i))
<1>0. \A c, r : Followed(in, c, r)
  BY DEF Followed
<1>1. CASE /\ i \notin Mods /\ modStreamInSaved' = Null /\ modStreamIn' = in
           /\ EndSilence(s)
  <2>1. InvFrames'
    BY <1>0, <1>1 DEF InvFrames, Followed, Open
  <2>2. Return(s) \/ Callback(s, "done")
    BY <1>1 DEF EndSilence
  <2> QED BY <1>1, <2>1, <2>2
<1>2. ASSUME i \in Mods, ~countIn'
      PROVE  Followed(saved, countIn', remote') /\ Open(saved) /\ saved.mod = i
               /\ Saved(saved) /\ saved # Null
  <2>1. remote' = On(i, 0)
    BY <1>2
  <2>2. Followed(saved, countIn', On(i, 0)) /\ Open(saved) /\ saved.mod = i
    BY <1>2, BegunFollowed
  <2>3. Saved(saved) /\ saved # Null
    BY <1>2, SavedFacts
  <2> QED BY <2>1, <2>2, <2>3
<1>3. CASE /\ i \in Mods /\ modStreamInSaved' = saved /\ modStreamIn' = in
           /\ ~countIn' /\ EndSilence(s)
  <2>1. Followed(saved, countIn', remote')
    BY <1>2, <1>3
  <2> HIDE DEF saved
  <2>2. InvFrames'
    BY <1>0, <1>3, <2>1 DEF InvFrames
  <2>3. Return(s) \/ Callback(s, "done")
    BY <1>3 DEF EndSilence
  <2> QED BY <1>3, <2>2, <2>3
<1>4. CASE /\ i \in Mods /\ stateModem = "stmInWaitData" /\ ~countIn'
           /\ IF in # Null /\ IsEqual(in.mod, i)
              THEN modStreamIn' = Move(in, saved) /\ modStreamInSaved' = Null
              ELSE /\ modStreamIn' = IF in = Null THEN Null ELSE DiffSig(in)
                   /\ modStreamInSaved' = saved
           /\ Callback(s, "done")
  <2>1. in # Null /\ Sound(in) /\ Empty(in)
    BY <1>4 DEF InvModem, Empty
  <2>2. Followed(saved, countIn', remote') /\ Open(saved) /\ saved.mod = i
               /\ Saved(saved) /\ saved # Null
    BY <1>2, <1>4
  <2> HIDE DEF saved
  <2>3. CASE IsEqual(in.mod, i)
    <3>1. modStreamIn' = Move(in, saved) /\ modStreamInSaved' = Null
      BY <1>4, <2>1, <2>3
    <3>2. From(saved, Move(in, saved)) /\ Move(in, saved).mod = in.mod
      BY <2>1, <2>2, <2>3, MoveFrom DEF Saved
    <3>3. Followed(modStreamIn', countIn', remote')
      BY <2>2, <3>1, <3>2, FromFollowed
    <3>4. InvFrames'
      BY <3>1, <3>3 DEF InvFrames, Followed, Open
    <3> QED BY <1>4, <3>1, <3>2, <3>4
  <2>4. CASE ~IsEqual(in.mod, i)
    <3>1. modStreamIn' = DiffSig(in) /\ modStreamInSaved' = saved
      BY <1>4, <2>1, <2>4
    <3>2. Settled(DiffSig(in)) /\ DiffSig(in).mod = in.mod
      BY <2>1, DiffSigSettled
    <3>3. InvFrames'
      BY <2>2, <3>1, <3>2 DEF InvFrames, Followed, Settled
    <3> QED BY <1>4, <3>1, <3>2, <3>3
  <2> QED BY <2>3, <2>4
<1> HIDE DEF saved
<1>5. \/ i \notin Mods /\ modStreamInSaved' = Null /\ modStreamIn' = in /\ EndSilence(s)
      \/ /\ i \in Mods /\ modStreamInSaved' = saved /\ modStreamIn' = in
         /\ ~countIn' /\ EndSilence(s)
      \/ /\ i \in Mods /\ stateModem = "stmInWaitData" /\ ~countIn'
         /\ IF in # Null /\ IsEqual(in.mod, i)
            THEN modStreamIn' = Move(in, saved) /\ modStreamInSaved' = Null
            ELSE /\ modStreamIn' = IF in = Null THEN Null ELSE DiffSig(in)
                 /\ modStreamInSaved' = saved
         /\ Callback(s, "done")
  BY DEF NewSignal, saved
<1> QED BY <1>1, <1>3, <1>4, <1>5

(* What a step of HandlePacket leaves: the frames followed, nothing open   *)
(* before a callback after which a signal begins, and in the stream what   *)
(* the DTE reads.                                                          *)
Ahead(s) ==
  \/ Return(s) \/ ReturnFalse(s) \/ Callback(s, "done") \/ Callback(s, "tail")
  \/ \E i \in Inds : /\ Callback(s, i) /\ ~Open(modStreamIn') /\ ~Open(modStreamInSaved')
                     /\ i \in Mods => remote' = On(i, 0)
Stays ==
  modStreamIn # Null =>
    /\ modStreamIn'.mod = modStreamIn.mod
    /\ stateModem = "stmInRecvData" => Beside(modStreamIn, modStreamIn')
FrameStep(s) == InvFrames' /\ Ahead(s) /\ Stays

(* An indicator                                                            *)
LEMMA IndicatorFrames ==
  ASSUME remote \in Remotes, InvStreams, InvModem, InvFrames, NEW s \in Stream,
         NEW p \in RemotePackets(remote), p.ind # "none", remote' = p.next,
         Indicator(s, p.ind)
  PROVE  FrameStep(s)
<1> DEFINE i == p.ind
           cut == PutEof(modStreamIn, {"OutOfOrder", "NoCarrier"})
<1>0. /\ i \in Inds
      /\ i \in Mods => p.next = On(i, 0)
      /\ i = "noSig" => p.next = Quiet
      /\ remote.phase = "on" /\ i \in Mods => p.next = remote
      /\ remote.phase = "start" => i = "noSig"
  BY IndicatorNext, PacketFacts DEF Packet
<1>1. {"OutOfOrder", "NoCarrier"} \in SUBSET (Errors \cup {"NoCarrier"})
  BY DEF Errors
<1>2. ASSUME Open(modStreamIn)
      PROVE  /\ modStreamIn # Null /\ cut # Null /\ Sound(cut) /\ cut.mod = modStreamIn.mod
             /\ ~Open(cut) /\ ~Open(modStreamInSaved) /\ Beside(modStreamIn, cut)
             /\ Counted(cut.mod) => AllHonest(cut)
             /\ stateModem # "stmInWaitData"
  <2>1. modStreamIn # Null /\ Sound(modStreamIn) /\ stateModem # "stmInWaitData"
    BY <1>2, OpenFacts
  <2>2. Grown(modStreamIn, cut)
    BY <1>1, <1>2, <2>1, EofSound
  <2>3. Beside(modStreamIn, cut) /\ cut.lastBuf = "none"
    BY <1>1, <1>2, <2>1, EofBeside
  <2>4. Counted(modStreamIn.mod) => AllHonest(cut)
    BY <1>2, <2>1, CutHonest DEF InvFrames, Followed
  <2> HIDE DEF cut
  <2> QED BY <1>2, <2>1, <2>2, <2>3, <2>4 DEF Grown, Beside, Open, InvFrames
<1> HIDE DEF cut
<1>3. ASSUME ~Open(modStreamIn), modStreamIn # Null, Counted(modStreamIn.mod)
      PROVE  AllHonest(modStreamIn)
  BY <1>3 DEF InvFrames, Followed
<1>4. CASE /\ Repeats(i) \/ Premature(i)
           /\ Return(s) /\ UNCHANGED <<inVars, modStreamIn, stateModem>>
  <2>1. UNCHANGED <<modStreamIn, modStreamInSaved, countIn>>
    BY <1>4 DEF inVars
  <2>2. ASSUME NEW ms \in {modStreamIn, modStreamInSaved}, ms # Null, Counted(ms.mod), Open(ms)
        PROVE  Follows(LastBuf(ms), ms.mod, countIn, p.next)
    <3>1. Follows(LastBuf(ms), ms.mod, countIn, remote)
      BY <2>2 DEF InvFrames, Followed
    <3>2. CASE Repeats(i)
      <4>1. ms.mod = i
        BY <2>2, <3>2 DEF Repeats, InvFrames
      <4>2. i \in Mods
        <5>1. ms.mod \in Mods \cup {"v21"}
          BY <2>2, RecordFacts DEF InvStreams, Sound
        <5> QED BY <1>0, <4>1, <5>1 DEF Inds
      <4>3. CASE remote.phase = "on"
        BY <1>0, <3>1, <4>2, <4>3
      <4>4. CASE remote.phase # "on"
        <5>1. remote.phase \in {"quiet", "ended"}
          <6>1. i # "noSig"
            BY <4>2, RecvAssumption
          <6> QED BY <1>0, <4>4, <6>1 DEF Remotes
        <5>2. p.next.phase = "on" /\ p.next.mod = i /\ p.next.part = 0
          BY <1>0, <4>2 DEF On
        <5> HIDE DEF i
        <5> QED BY <3>1, <4>1, <5>1, <5>2 DEF Follows, IsEqual
      <4> QED BY <4>3, <4>4
    <3>3. CASE Premature(i)
      <4>1. ~countIn /\ p.next.phase = "quiet"
        BY <1>0, <3>3 DEF Premature, Quiet
      <4> QED BY <3>1, <4>1 DEF Follows
    <3> QED BY <1>4, <3>2, <3>3
  <2>3. \A ms \in {modStreamIn, modStreamInSaved} : Followed(ms, countIn, p.next)
    BY <2>2 DEF InvFrames, Followed
  <2>4. InvFrames'
    BY <2>1, <2>3 DEF InvFrames
  <2> QED BY <1>4, <2>1, <2>4 DEF FrameStep, Ahead, Stays, Beside
<1>5. CASE /\ Open(modStreamIn) /\ modStreamIn' = cut
           /\ Callback(s, i) /\ UNCHANGED <<inVars, stateModem>>
  <2>1. UNCHANGED modStreamInSaved
    BY <1>5 DEF inVars
  <2>2. InvFrames'
    BY <1>2, <1>5, <2>1 DEF InvFrames, Followed
  <2>3. Ahead(s)
    BY <1>0, <1>2, <1>5, <2>1 DEF Ahead
  <2> QED BY <1>2, <1>5, <2>2, <2>3 DEF FrameStep, Stays
<1>6. CASE /\ Open(modStreamIn) /\ stateModem # "stmInRecvData" /\ NewSignal(s, i, cut)
  <2>1. /\ InvFrames' /\ (Return(s) \/ Callback(s, "done"))
        /\ modStreamIn'.mod = cut.mod
    BY <1>0, <1>2, <1>6, NewSignalFrames
  <2> QED BY <1>2, <1>6, <2>1 DEF FrameStep, Ahead, Stays
<1>7. CASE ~Open(modStreamIn) /\ NewSignal(s, i, modStreamIn)
  <2>1. modStreamIn # Null => Sound(modStreamIn)
    BY DEF InvStreams
  <2>2. /\ InvFrames' /\ (Return(s) \/ Callback(s, "done"))
        /\ modStreamIn # Null => modStreamIn'.mod = modStreamIn.mod
        /\ stateModem # "stmInWaitData" => modStreamIn' = modStreamIn
    BY <1>0, <1>3, <1>7, <2>1, NewSignalFrames
  <2> QED BY <2>2 DEF FrameStep, Ahead, Stays, Beside
<1> QED BY <1>4, <1>5, <1>6, <1>7 DEF Indicator, cut

(* A packet of data                                                        *)
LEMMA DataFrames ==
  ASSUME remote \in Remotes, InvStreams, InvFrames, NEW s \in Stream,
         NEW p \in RemotePackets(remote), p.ind = "none", Room(p), remote' = p.next,
         Data(s, p)
  PROVE  FrameStep(s)
<1>0. p.part \in 0..Parts
  BY FrameFields
<1>1. countIn' <=> (countIn \/ p.part > 0)
  BY Zenon DEF Data
<1>2. ASSUME NEW ms \in {modStreamIn, modStreamInSaved}, Open(ms)
      PROVE  Followed(Put(ms, p), countIn', remote') /\ Beside(ms, Put(ms, p))
  <2>1. ms # Null /\ Sound(ms) /\ Followed(ms, countIn, remote)
    BY <1>2 DEF Open, InvStreams, InvFrames
  <2>2. p.fcs # "none" => Len(ms.bufQ) < MaxQ
    BY <1>2 DEF Room
  <2>3. Followed(Put(ms, p), countIn', p.next)
    BY <1>1, <1>2, <2>1, <2>2, PutFollowed
  <2>4. Beside(ms, Put(ms, p))
    BY <1>0, <1>2, <2>1, <2>2, PutBeside
  <2> QED BY <2>3, <2>4
<1>3. ASSUME NEW ms \in {modStreamIn, modStreamInSaved}, ~Open(ms)
      PROVE  Followed(ms, countIn', remote')
  BY <1>3 DEF InvFrames, Followed
<1>4. Ahead(s)
  BY DEF Data, DataTail, Ahead
<1>5. CASE Open(modStreamIn)
  <2>1. modStreamIn' = Put(modStreamIn, p) /\ UNCHANGED modStreamInSaved
          /\ ~Open(modStreamInSaved)
    BY <1>5 DEF Data, InvFrames
  <2>2. InvFrames'
    BY <1>2, <1>3, <1>5, <2>1 DEF InvFrames
  <2>3. Stays
    BY <1>2, <1>5, <2>1 DEF Stays, Beside
  <2> QED BY <1>4, <2>2, <2>3 DEF FrameStep
<1>6. CASE ~Open(modStreamIn)
  <2>1. UNCHANGED modStreamIn
    BY <1>6 DEF Data
  <2>2. Followed(modStreamInSaved', countIn', remote')
    BY <1>2, <1>3, <1>6 DEF Data
  <2>3. InvFrames'
    BY <1>3, <1>6, <2>1, <2>2 DEF InvFrames
  <2> QED BY <1>4, <2>1, <2>3 DEF FrameStep, Stays, Beside
<1> QED BY <1>5, <1>6

(* Lost packets                                                            *)
LEMMA LostFrames ==
  ASSUME InvStreams, InvFrames, NEW s \in Stream, HandlePacketLost(s)
  PROVE  /\ InvFrames' /\ Stays /\ UNCHANGED <<life, win>>
<1> DEFINE mark(ms) == IF ms.mod = "v21" THEN SetDiag(ms, {"BadFcs"}) ELSE ms
<1>1. ASSUME NEW ms \in {modStreamIn, modStreamInSaved}, Open(ms)
      PROVE  Followed(mark(ms), countIn', remote') /\ Beside(ms, mark(ms))
  <2>1. ms # Null /\ Sound(ms) /\ Followed(ms, countIn, remote)
    BY <1>1 DEF Open, InvStreams, InvFrames
  <2>2. CASE ms.mod = "v21"
    BY <1>1, <2>1, <2>2, MarkFollowed, MarkBeside
  <2>3. CASE ms.mod # "v21"
    <3>1. ~Counted(ms.mod)
      BY <2>3 DEF Counted, HandlePacketLost
    <3> QED BY <2>3, <3>1 DEF Followed, Beside
  <2> QED BY <2>2, <2>3
<1>2. ASSUME NEW ms \in {modStreamIn, modStreamInSaved}, ~Open(ms)
      PROVE  Followed(ms, countIn', remote')
  BY <1>2 DEF InvFrames, Followed
<1>3. /\ UNCHANGED <<life, win>>
      /\ IF Open(modStreamIn)
         THEN modStreamIn' = mark(modStreamIn) /\ UNCHANGED modStreamInSaved
         ELSE /\ modStreamInSaved' = IF Open(modStreamInSaved)
                   THEN mark(modStreamInSaved) ELSE modStreamInSaved
              /\ UNCHANGED modStreamIn
  BY DEF HandlePacketLost
<1> HIDE DEF mark
<1>4. CASE Open(modStreamIn)
  <2>1. ~Open(modStreamInSaved)
    BY <1>4 DEF InvFrames
  <2>2. InvFrames'
    BY <1>1, <1>2, <1>3, <1>4, <2>1 DEF InvFrames
  <2> QED BY <1>1, <1>3, <1>4, <2>2 DEF Stays, Beside
<1>5. CASE ~Open(modStreamIn)
  <2>1. Followed(modStreamInSaved', countIn', remote')
    BY <1>1, <1>2, <1>3, <1>5
  <2>2. InvFrames'
    BY <1>2, <1>3, <1>5, <2>1 DEF InvFrames
  <2> QED BY <1>3, <1>5, <2>2 DEF Stays, Beside
<1> QED BY <1>4, <1>5

(* HandlePacket and what it does after its callback                        *)
LEMMA HandleFrames ==
  ASSUME TypeRest, InvStreams, InvModem, InvFrames, InvPend, NEW s \in Stream,
         HandlePacket(s) \/ CallbackBack(s)
  PROVE  FrameStep(s)
<1>0. remote \in Remotes
  BY DEF TypeRest
<1>1. ASSUME UNCHANGED <<inVars, modStreamIn, remote>>, Ahead(s)
      PROVE  FrameStep(s)
  BY <1>1 DEF FrameStep, InvFrames, Stays, Beside, inVars
<1>2. CASE HandlePacket(s)
  <2>1. CASE ~Owns(s)
    BY <1>1, <1>2, <2>1 DEF HandlePacket, Ahead
  <2>2. CASE Owns(s)
    <3>1. PICK p \in RemotePackets(remote) :
            /\ Room(p) /\ remote' = p.next
            /\ IF p.ind = "none" THEN Data(s, p) ELSE Indicator(s, p.ind)
      BY <1>2, <2>2 DEF HandlePacket
    <3>2. CASE p.ind = "none"
      BY <1>0, <3>1, <3>2, DataFrames
    <3>3. CASE p.ind # "none"
      BY <1>0, <3>1, <3>3, IndicatorFrames
    <3> QED BY <3>2, <3>3
  <2> QED BY <2>1, <2>2
<1>3. CASE CallbackBack(s)
  <2>1. win[s].pc = "back" /\ win[s].pend \in {"done", "tail"} \cup Inds /\ UNCHANGED remote
    BY <1>3 DEF CallbackBack, TypeRest
  <2>2. CASE ~Owns(s) \/ win[s].pend \in {"done", "tail"}
    <3>1. Ahead(s) /\ UNCHANGED <<inVars, modStreamIn>>
      BY <1>3, <2>2 DEF CallbackBack, DataTail, Ahead
    <3> QED BY <1>1, <2>1, <3>1
  <2>3. CASE Owns(s) /\ win[s].pend \notin {"done", "tail"}
    <3> DEFINE i == win[s].pend
    <3>1. NewSignal(s, i, modStreamIn) /\ i \in Inds
      BY <1>3, <2>1, <2>3 DEF CallbackBack
    <3>2. /\ ~Open(modStreamIn)
          /\ i \in Mods => remote' = On(i, 0)
      BY <2>1, <2>3 DEF InvPend, Owns
    <3>3. modStreamIn # Null => Sound(modStreamIn)
      BY DEF InvStreams
    <3>4. modStreamIn # Null /\ Counted(modStreamIn.mod) => AllHonest(modStreamIn)
      BY DEF InvFrames, Followed
    <3> HIDE DEF i
    <3>5. /\ InvFrames' /\ (Return(s) \/ Callback(s, "done"))
          /\ modStreamIn # Null => modStreamIn'.mod = modStreamIn.mod
          /\ stateModem # "stmInWaitData" => modStreamIn' = modStreamIn
      BY <3>1, <3>2, <3>3, <3>4, NewSignalFrames
    <3> QED BY <3>5 DEF FrameStep, Ahead, Stays, Beside
  <2> QED BY <2>2, <2>3
<1> QED BY <1>2, <1>3

(* Who is in a callback, and what it will find                             *)
LEMMA HandlePend ==
  ASSUME TypeRest, InvPend, InvLife, NEW s \in Stream,
         HandlePacket(s) \/ CallbackBack(s), FrameStep(s)
  PROVE  InvPend' /\ InvLife'
<1>1. /\ hOwnerIn' = hOwnerIn /\ hOwnerIn \in Stream \cup {Null} /\ Null \notin Stream
      /\ DOMAIN win = Stream /\ DOMAIN life = Stream
      /\ \A t \in Stream : life[t] \in {"new", "open", "closed", "dead"}
  BY RecvAssumption DEF HandlePacket, CallbackBack, inSide, ownVars, TypeRest
<1>2. Ahead(s)
  BY DEF FrameStep
<1>3. win[s].pc # "idle" \/ life[s] = "open"
  BY DEF HandlePacket, CallbackBack
<1>4. life[s] \in {"open", "closed"}
  BY <1>3 DEF InvPend
<1>5. ~Owns(s) => UNCHANGED <<modStreamIn, modStreamInSaved, remote>>
  BY DEF HandlePacket, CallbackBack, inVars
<1>6. \A t \in Stream : t # s => win'[t] = win[t] /\ life'[t] = life[t]
  BY <1>1, <1>2 DEF Ahead, Return, ReturnFalse, Idle, Callback
<1>7. ASSUME NEW t \in Stream, t # s, win'[t].pc # "idle"
      PROVE  /\ life'[t] \in {"open", "closed"}
             /\ win'[t].pend \notin {"done", "tail"} /\ hOwnerIn' = t =>
                  /\ ~Open(modStreamIn') /\ ~Open(modStreamInSaved')
                  /\ win'[t].pend \in Mods => remote' = On(win'[t].pend, 0)
  <2>1. win'[t] = win[t] /\ life'[t] = life[t]
    BY <1>6, <1>7
  <2>2. hOwnerIn' = t => UNCHANGED <<modStreamIn, modStreamInSaved, remote>>
    BY <1>1, <1>5, <1>7 DEF Owns
  <2> QED BY <1>1, <1>7, <2>1, <2>2 DEF InvPend
<1>8. ASSUME win'[s].pc # "idle"
      PROVE  /\ life'[s] \in {"open", "closed"}
             /\ win'[s].pend \notin {"done", "tail"} =>
                  /\ ~Open(modStreamIn') /\ ~Open(modStreamInSaved')
                  /\ win'[s].pend \in Mods => remote' = On(win'[s].pend, 0)
  <2>1. ASSUME Idle(s) PROVE FALSE
    BY <1>1, <1>8, <2>1 DEF Idle
  <2>2. ASSUME NEW a, Callback(s, a) PROVE win'[s].pend = a /\ life' = life
    BY <1>1, <2>2 DEF Callback
  <2>3. life' = life
    BY <1>2, <2>1, <2>2 DEF Ahead, Return, ReturnFalse
  <2>4. \/ win'[s].pend \in {"done", "tail"}
        \/ /\ ~Open(modStreamIn') /\ ~Open(modStreamInSaved')
           /\ win'[s].pend \in Mods => remote' = On(win'[s].pend, 0)
    BY <1>2, <2>1, <2>2 DEF Ahead, Return, ReturnFalse
  <2> QED BY <1>4, <2>3, <2>4
<1>9. InvPend'
  BY <1>7, <1>8 DEF InvPend
<1>10. life'[s] \in {life[s], "dead"} \/ life[s] = "closed"
  BY <1>1, <1>2 DEF Ahead, Return, ReturnFalse, Callback
<1>11. InvLife'
  BY <1>1, <1>6, <1>10 DEF InvLife
<1> QED BY <1>9, <1>11

(* The owners of the input, and OnEngineCallback                           *)
LEMMA OwnerFrames ==
  ASSUME TypeRest, InvFrames, InvPend, InvLife, NEW s \in Stream,
         StreamOpen(s) \/ StreamClose(s) \/ InCallback(s)
  PROVE  InvFrames' /\ InvPend' /\ InvLife'
<1>1. /\ hOwnerIn \in Stream \cup {Null} /\ Null \notin Stream
      /\ DOMAIN win = Stream /\ DOMAIN life = Stream
      /\ UNCHANGED <<modStreamIn, modStreamInSaved, countIn>>
  BY RecvAssumption DEF TypeRest, StreamOpen, StreamClose, InCallback, ownSide,
     modemVars, inVars
<1>2. ASSUME NEW ms, Followed(ms, countIn, remote) PROVE Followed(ms, countIn, Start)
  BY <1>2 DEF Followed, Follows, Start
<1>3. remote' = remote \/ remote' = Start
  BY DEF StreamOpen, StreamClose, InCallback
<1>4. InvFrames'
  BY <1>1, <1>2, <1>3 DEF InvFrames
<1>5. CASE StreamOpen(s)
  <2>1. /\ win' = win /\ life' = [life EXCEPT ![s] = "open"] /\ hOwnerIn' = s
        /\ win[s].pc = "idle"
    BY <1>5 DEF StreamOpen, ownSide, InvPend
  <2>2. InvPend'
    BY <1>1, <2>1 DEF InvPend
  <2>3. InvLife'
    BY <1>1, <2>1 DEF InvLife
  <2> QED BY <1>4, <2>2, <2>3
<1>6. CASE StreamClose(s)
  <2>1. /\ win' = win
        /\ life' = [life EXCEPT ![s] = IF win[s].pc = "idle" THEN "new" ELSE "closed"]
    BY <1>6 DEF StreamClose, ownSide
  <2>2. \/ hOwnerIn' = Null
        \/ hOwnerIn' = hOwnerIn /\ hOwnerIn # s /\ UNCHANGED remote
    BY <1>6 DEF StreamClose
  <2>3. InvPend'
    BY <1>1, <2>1, <2>2 DEF InvPend
  <2>4. InvLife'
    BY <1>1, <2>1, <2>2 DEF InvLife
  <2> QED BY <1>4, <2>3, <2>4
<1>7. CASE InCallback(s)
  <2>1. /\ win' = [win EXCEPT ![s] = [@ EXCEPT !.pc = "back", !.cb = cbpReset]]
        /\ win[s].pc = "cb" /\ UNCHANGED <<hOwnerIn, life, remote>>
    BY <1>7 DEF InCallback, ownVars
  <2>2. \A t \in Stream : win'[t].pend = win[t].pend
                            /\ (win'[t].pc # "idle" => win[t].pc # "idle")
    BY <1>1, <2>1 DEF TypeRest
  <2>3. InvPend'
    BY <1>1, <2>1, <2>2 DEF InvPend
  <2>4. InvLife'
    BY <2>1 DEF InvLife
  <2> QED BY <1>4, <2>3, <2>4
<1> QED BY <1>5, <1>6, <1>7
-----------------------------------------------------------------------------
(* The steps of the body: buffers are handed on or dropped, a signal is    *)
(* refused or ended, and a stream that was saved becomes modStreamIn.      *)
Drops(ms, n) == n = Null \/ n = ms \/ From(ms, n) \/ Settled(n)
BodyStreams ==
  \/ /\ Drops(modStreamIn, modStreamIn')
     /\ modStreamInSaved' = modStreamInSaved \/ modStreamInSaved' = Null
  \/ From(modStreamInSaved, modStreamIn') /\ modStreamInSaved' = Null
mediaSide == <<countIn, remote, win, life, hOwnerIn>>
Asked == dataType' = "dtHdlc" /\ isStateModemIn' => modStreamIn'.mod = "v21"
BodyStep == BodyStreams /\ Asked /\ UNCHANGED mediaSide

(* Such a step opens no stream and follows what is open.                   *)
LEMMA BodyFrames ==
  ASSUME InvFrames, InvPend, InvLife, BodyStreams, UNCHANGED mediaSide
  PROVE  InvFrames' /\ InvPend' /\ InvLife'
<1>0. UNCHANGED <<countIn, remote, win, life, hOwnerIn>>
  BY DEF mediaSide
<1>1. \A c, r : Followed(Null, c, r) /\ ~Open(Null)
  BY DEF Followed, Open
<1>2. ASSUME NEW ms, NEW n, Followed(ms, countIn, remote), Drops(ms, n)
      PROVE  Followed(n, countIn, remote) /\ (Open(n) => Open(ms))
  <2>1. CASE From(ms, n)
    BY <1>2, <2>1, FromFollowed DEF From
  <2>2. CASE Settled(n)
    BY <2>2 DEF Settled, Followed
  <2> QED BY <1>1, <1>2, <2>1, <2>2 DEF Drops
<1>3. /\ Followed(modStreamIn', countIn, remote)
      /\ Followed(modStreamInSaved', countIn, remote)
      /\ ~(Open(modStreamIn') /\ Open(modStreamInSaved'))
      /\ Open(modStreamIn') \/ Open(modStreamInSaved') =>
           Open(modStreamIn) \/ Open(modStreamInSaved)
  <2>1. CASE /\ Drops(modStreamIn, modStreamIn')
             /\ modStreamInSaved' = modStreamInSaved \/ modStreamInSaved' = Null
    BY <1>1, <1>2, <2>1 DEF InvFrames
  <2>2. CASE From(modStreamInSaved, modStreamIn') /\ modStreamInSaved' = Null
    BY <1>1, <1>2, <2>2 DEF InvFrames, Drops
  <2> QED BY <2>1, <2>2 DEF BodyStreams
<1>4. InvFrames'
  BY <1>0, <1>3 DEF InvFrames
<1>5. InvPend'
  BY <1>0, <1>3 DEF InvPend
<1> QED BY <1>0, <1>4, <1>5 DEF InvLife

(* A step that asks for no signal leaves the one that is received.         *)
LEMMA SameSignal ==
  ASSUME InvReport, UNCHANGED <<dataType, modStreamInSaved, mediaSide>>,
         \/ modStreamIn' = modStreamIn
         \/ From(modStreamIn, modStreamIn')
         \/ Drops(modStreamIn, modStreamIn') /\ ~isStateModemIn',
         isStateModemIn' => isStateModemIn
  PROVE  BodyStep
<1>1. Asked
  BY CountedFacts DEF Asked, InvReport, From
<1> QED BY <1>1 DEF BodyStep, BodyStreams, Drops

(* RecvStart                                                               *)
LEMMA RecvStartFrames ==
  ASSUME InvStreams, InvFrames, NEW m \in Mods \cup {"v21"}, RecvStart(m), ~isStateModemIn
  PROVE  BodyStep
<1>0. UNCHANGED mediaSide /\ (dataType' = "dtHdlc" => m = "v21")
  BY DEF RecvStart, mediaSide, mediaVars, ownVars
<1>1. Sound(ModStream(m)) /\ Empty(ModStream(m)) /\ ModStream(m).mod = m
  BY FreshSound, FreshShape
<1>2. CASE ~CanWait
  BY <1>0, <1>2 DEF RecvStart, modemVars, isStateModemIn, BodyStep, BodyStreams, Drops, Asked
<1>3. CASE Kept(m) /\ modStreamIn' = DeleteFirstBuf(modStreamIn) /\ UNCHANGED modStreamInSaved
  <2>1. Sound(modStreamIn) /\ IsEqual(m, modStreamIn.mod)
    BY <1>3 DEF Kept, InvStreams
  <2>2. From(modStreamIn, modStreamIn')
    BY <1>3, <2>1, DeleteFrom
  <2>3. m = "v21" => modStreamIn'.mod = "v21"
    BY <2>1, <2>2, CountedFacts DEF From
  <2> QED BY <1>0, <1>3, <2>2, <2>3 DEF BodyStep, BodyStreams, Drops, Asked
<1>4. CASE /\ modStreamInSaved # Null /\ IsEqual(m, modStreamInSaved.mod)
           /\ modStreamIn' = Move(ModStream(m), modStreamInSaved) /\ modStreamInSaved' = Null
  <2>1. Sound(modStreamInSaved) /\ modStreamInSaved.firstBuf = Null
    BY <1>4 DEF InvStreams
  <2>2. From(modStreamInSaved, modStreamIn') /\ modStreamIn'.mod = m
    BY <1>1, <1>4, <2>1, MoveFrom
  <2> QED BY <1>0, <1>4, <2>2 DEF BodyStep, BodyStreams, Asked
<1>5. CASE modStreamIn' = DiffSig(ModStream(m)) /\ UNCHANGED modStreamInSaved
  <2>1. Settled(modStreamIn') /\ modStreamIn'.mod = m
    BY <1>1, <1>5, DiffSigSettled
  <2> QED BY <1>0, <1>5, <2>1 DEF BodyStep, BodyStreams, Drops, Asked
<1>6. CASE modStreamIn' = ModStream(m) /\ UNCHANGED modStreamInSaved
  <2>1. Settled(modStreamIn') /\ modStreamIn'.mod = m
    BY <1>1, <1>6, EmptySettled
  <2> QED BY <1>0, <1>6, <2>1 DEF BodyStep, BodyStreams, Drops, Asked
<1>7. CanWait => RecvWait(m, NextSeq)
  BY DEF RecvStart
<1> QED BY <1>2, <1>3, <1>4, <1>5, <1>6, <1>7 DEF RecvWait

(* RecvStop and ResetModemState                                            *)
LEMMA UnreadFrames ==
  ASSUME InvStreams
  PROVE  Drops(modStreamIn, Unread)
  BY DeleteFrom DEF InvStreams, Unread, Drops

(* EnableFakeIn ends the signal: in the middle of a frame it is an error.  *)
LEMMA FakeEofFrames ==
  ASSUME InvStreams, InvFrames, Open(modStreamIn)
  PROVE  Settled(FakeEof) /\ FakeEof.mod = modStreamIn.mod
<1> DEFINE d == {"NoCarrier"} \cup (IF countIn THEN {"OutOfOrder"} ELSE {})
           b == LastBuf(modStreamIn)
<1>1. d \in SUBSET (Errors \cup {"NoCarrier"}) /\ "NoCarrier" \in d
      /\ (countIn => d \cap Errors # {})
  BY DEF Errors
<1>2. modStreamIn # Null /\ Sound(modStreamIn)
  BY DEF Open, InvStreams
<1>3. FakeEof = PutEof(modStreamIn, d)
  BY DEF FakeEof
<1> HIDE DEF d
<1>4. FakeEof.mod = modStreamIn.mod /\ FakeEof.lastBuf = "none" /\ FakeEof \in ModStreams
  BY <1>1, <1>2, <1>3, EofBeside DEF Beside
<1>5. ASSUME Counted(modStreamIn.mod) PROVE AllHonest(FakeEof)
  <2>1. AllHonest(modStreamIn) /\ Follows(b, modStreamIn.mod, countIn, remote)
    BY <1>2, <1>5 DEF InvFrames, Followed
  <2>2. \/ (b.diag \cup d) \cap Errors # {}
        \/ b.has = IF "NoCarrier" \in b.diag \cup d THEN 0 ELSE Parts
    <3>1. "BadFcs" \in Errors
      BY DEF Errors
    <3> HIDE DEF b
    <3> QED BY <1>1, <2>1, <3>1 DEF Follows
  <2> QED BY <1>1, <1>2, <1>3, <2>1, <2>2, EofHonest
<1> QED BY <1>4, <1>5, RecordFacts DEF Settled, Open

(* The engine thread                                                       *)
LEMMA EngineFrames ==
  ASSUME TypeRest, InvStreams, InvModem, InvBody, InvWait, InvFrames, InvReport, EngineLoop
  PROVE  BodyStep
<1> USE DEF engineSide, recvSide, mediaVars, inVars, ownVars, bodyVars, modemVars
<1>0. ASSUME UNCHANGED <<dataType, modStreamIn, modStreamInSaved, mediaSide>>,
             isStateModemIn' => isStateModemIn
      PROVE  BodyStep
  BY <1>0, SameSignal
<1>1. UNCHANGED mediaSide
  BY DEF EngineLoop, CheckState, CheckReqMode, RecvStart, CheckTimeout, CheckBegSilence,
     CheckBeg, CheckBegDiag, CheckRefuse, RecvSome, RecvNap, RecvNextFrame, RecvNone, RecvEnd,
     RecvGone, ReadDiag, StopRecv, CheckOther, CheckStatePost, EnableFakeOff, EnableFakeOn,
     FakeCallback, WaitDataReady, mediaSide
<1>2. CASE CheckReqMode
  <2>1. RecvStart("v21") /\ ~isStateModemIn
    BY <1>2 DEF CheckReqMode, InvBody, isStateModemIn
  <2> QED BY <2>1, RecvStartFrames
<1>3. CASE CheckTimeout
  <2>1. UNCHANGED <<dataType, modStreamInSaved>>
    BY <1>3 DEF CheckTimeout
  <2>2. \/ UNCHANGED <<modStreamIn, stateModem>>
        \/ modStreamIn' = Unread /\ stateModem' \in {"stmIdle", "stmOut"}
    BY <1>3 DEF CheckTimeout, ResetModemState
  <2> QED BY <1>1, <2>1, <2>2, UnreadFrames, SameSignal DEF isStateModemIn
<1>4. CASE CheckBegSilence
  <2>1. /\ dataType' = "dtSilence" /\ UNCHANGED modStreamInSaved
        /\ modStreamIn' = Null \/ modStreamIn' = modStreamIn
    BY <1>4 DEF CheckBegSilence, SendSilence
  <2> QED BY <1>1, <2>1 DEF BodyStep, BodyStreams, Drops, Asked
<1>5. CASE CheckBeg
  <2>1. UNCHANGED <<dataType, modStreamInSaved>>
    BY <1>5 DEF CheckBeg
  <2>2. \/ UNCHANGED <<modStreamIn, stateModem>>
        \/ /\ modStreamIn # Null /\ modStreamIn.bufQ # <<>>
           /\ stateModem = "stmInReadyData" /\ modStreamIn' = PopBuf(modStreamIn)
        \/ modStreamIn' = Null /\ stateModem' = "stmIdle"
    BY <1>5 DEF CheckBeg
  <2>3. modStreamIn # Null /\ modStreamIn.bufQ # <<>> => From(modStreamIn, PopBuf(modStreamIn))
    BY PopBufFrom DEF InvStreams
  <2> QED BY <1>1, <2>1, <2>2, <2>3, SameSignal DEF isStateModemIn, Drops
<1>6. CASE CheckRefuse \/ StopRecv
  <2>1. UNCHANGED <<dataType, modStreamInSaved>> /\ RecvStop
    BY <1>6 DEF CheckRefuse, StopRecv
  <2>2. \/ UNCHANGED <<modStreamIn, stateModem>>
        \/ modStreamIn' = Unread /\ stateModem' = "stmIdle"
    BY <2>1 DEF RecvStop
  <2> QED BY <1>1, <2>1, <2>2, UnreadFrames, SameSignal DEF isStateModemIn
<1>7. CASE RecvSome
  <2>1. /\ UNCHANGED <<dataType, modStreamInSaved, stateModem>>
        /\ modStreamIn # Null /\ modStreamIn.firstBuf # Null
        /\ modStreamIn' = [modStreamIn EXCEPT !.firstBuf.unread = FALSE]
    BY <1>7 DEF RecvSome, Receiving
  <2>2. From(modStreamIn, modStreamIn')
    BY <2>1, ReadFrom DEF InvStreams
  <2> QED BY <1>1, <2>1, <2>2, SameSignal DEF isStateModemIn
<1>8. CASE RecvNextFrame
  <2>1. /\ UNCHANGED <<dataType, modStreamInSaved, stateModem>>
        /\ modStreamIn # Null /\ modStreamIn.bufQ # <<>>
        /\ modStreamIn' = [PopBuf(modStreamIn) EXCEPT !.firstBuf = Head(modStreamIn.bufQ)]
    BY <1>8 DEF RecvNextFrame, Receiving
  <2>2. Sound(modStreamIn) /\ Head(modStreamIn.bufQ) \in Bufs
    BY <2>1, RecordFacts, HeadTailProperties DEF InvStreams, Sound
  <2>3. From(modStreamIn, modStreamIn')
    BY <2>1, <2>2, PopFrom DEF Alike
  <2> QED BY <1>1, <2>1, <2>3, SameSignal DEF isStateModemIn
<1>9. CASE RecvNone
  <2>1. /\ UNCHANGED <<dataType, modStreamInSaved, stateModem>> /\ modStreamIn # Null
        /\ modStreamIn' = modStreamIn \/ modStreamIn' = DeleteFirstBuf(modStreamIn)
    BY <1>9 DEF RecvNone, Receiving
  <2>2. From(modStreamIn, DeleteFirstBuf(modStreamIn))
    BY <2>1, DeleteFrom DEF InvStreams
  <2> QED BY <1>1, <2>1, <2>2, SameSignal DEF isStateModemIn
<1>10. CASE EnableFakeOn
  <2>1. UNCHANGED dataType
    BY <1>10 DEF EnableFakeOn
  <2>2. CASE isEnableFakeIn \/ hOwnerIn # Null
    BY <1>0, <1>1, <1>10, <2>1, <2>2 DEF EnableFakeOn, isStateModemIn
  <2>3. CASE ~(isEnableFakeIn \/ hOwnerIn # Null)
    <3>1. /\ modStreamInSaved' = Null /\ (isStateModemIn' => isStateModemIn)
          /\ modStreamIn' = IF Open(modStreamIn) THEN FakeEof ELSE modStreamIn
      BY <1>10, <2>3 DEF EnableFakeOn, isStateModemIn
    <3>2. \/ modStreamIn' = modStreamIn
          \/ Settled(modStreamIn') /\ modStreamIn'.mod = modStreamIn.mod
      BY <3>1, FakeEofFrames
    <3>3. Asked
      BY <2>1, <3>1, <3>2 DEF Asked, InvReport
    <3> QED BY <1>1, <3>1, <3>2, <3>3 DEF BodyStep, BodyStreams, Drops
  <2> QED BY <2>2, <2>3
<1>11. CASE \/ CheckBegDiag \/ RecvNap \/ RecvEnd \/ RecvGone \/ ReadDiag \/ CheckOther
            \/ CheckStatePost \/ EnableFakeOff \/ FakeCallback \/ WaitDataReady
  BY <1>0, <1>1, <1>11 DEF CheckBegDiag, RecvNap, RecvEnd, RecvGone, ReadDiag, CheckOther,
     CheckStatePost, EnableFakeOff, FakeCallback, WaitDataReady, isStateModemIn
<1> QED BY <1>2, <1>3, <1>4, <1>5, <1>6, <1>7, <1>8, <1>9, <1>10, <1>11
        DEF EngineLoop, CheckState

(* The commands, and what else the body and the engine do                  *)
LEMMA OthersFrames ==
  ASSUME TypeRest, InvStreams, InvModem, InvBody, InvWait, InvFrames, InvReport,
         \/ CmdRecv \/ CmdSilence \/ CmdSend \/ Abort \/ Detach
         \/ SendEnds \/ ClearCall \/ TimeoutFires \/ SignalDataReady
  PROVE  BodyStep
<1> USE DEF engineSide, mediaVars, inVars, ownVars, bodyVars, modemVars
<1>1. UNCHANGED mediaSide
  BY DEF CmdRecv, RecvStart, CmdSilence, CmdSend, Abort, Detach, SendEnds, ClearCall,
     TimeoutFires, SignalDataReady, mediaSide
<1>2. CASE CmdRecv
  <2>1. PICK m \in Mods : RecvStart(m)
    BY <1>2 DEF CmdRecv
  <2>2. ~isStateModemIn
    BY <1>2 DEF CmdRecv, InvBody, InvWait, isStateModemIn, Begun
  <2> QED BY <2>1, <2>2, RecvStartFrames
<1>3. CASE CmdSilence
  <2>1. /\ dataType' = "dtSilence" /\ UNCHANGED modStreamInSaved
        /\ modStreamIn' = Null \/ modStreamIn' = modStreamIn
    BY <1>3 DEF CmdSilence, SendSilence
  <2> QED BY <1>1, <2>1 DEF BodyStep, BodyStreams, Drops, Asked
<1>4. CASE Abort \/ Detach
  <2>1. UNCHANGED <<dataType, modStreamInSaved>>
    BY <1>4 DEF Abort, Detach
  <2>2. \/ UNCHANGED <<modStreamIn, stateModem>>
        \/ modStreamIn' = Unread /\ stateModem' \in {"stmIdle", "stmOut"}
    BY <1>4 DEF Abort, Detach, ResetModemState
  <2> QED BY <1>1, <2>1, <2>2, UnreadFrames, SameSignal DEF isStateModemIn
<1>5. CASE CmdSend
  <2>1. /\ modStreamIn' = Null /\ stateModem' = "stmOut"
        /\ modStreamInSaved' = modStreamInSaved \/ modStreamInSaved' = Null
    BY <1>5 DEF CmdSend
  <2> QED BY <1>1, <2>1 DEF BodyStep, BodyStreams, Drops, Asked, isStateModemIn
<1>6. CASE SendEnds \/ ClearCall \/ TimeoutFires \/ SignalDataReady
  <2>1. UNCHANGED <<dataType, modStreamIn, modStreamInSaved>>
        /\ (isStateModemIn' => isStateModemIn)
    BY <1>6 DEF SendEnds, ClearCall, TimeoutFires, SignalDataReady, isStateModemIn
  <2> QED BY <1>1, <2>1, SameSignal
<1> QED BY <1>2, <1>3, <1>4, <1>5, <1>6

(* What is reported: Recv has returned -1 at the end of the buffer, and    *)
(* RecvDiag reads that buffer.                                             *)
LEMMA BodyReport ==
  ASSUME TypeRest, InvModem, InvBody, InvReport, BodyStep,
         \/ EngineLoop \/ CmdRecv \/ CmdSilence \/ CmdSend \/ Abort \/ Detach
         \/ SendEnds \/ ClearCall \/ TimeoutFires \/ SignalDataReady
  PROVE  InvReport'
<1> USE DEF engineSide, recvSide, mediaVars, inVars, ownVars, bodyVars, modemVars
<1>0. dataType' = "dtHdlc" /\ isStateModemIn' => modStreamIn'.mod = "v21"
  BY DEF BodyStep, Asked
<1>1. CASE RecvEnd
  <2>1. /\ atRecv /\ attached /\ pc' = "diag" /\ UNCHANGED modStreamIn
        /\ Receiving /\ modStreamIn.firstBuf # Null => BufDone
    BY <1>1 DEF RecvEnd
  <2>2. stateModem = "stmInRecvData"
    BY <2>1 DEF atRecv, InvBody
  <2>3. BufDone
    BY <2>1, <2>2 DEF Receiving, InvModem
  <2> QED BY <1>0, <2>1, <2>3 DEF BufDone, InvReport
<1>2. CASE ReadDiag
  <2>1. /\ pc = "diag" /\ pc' = "stop" /\ diag' = RecvDiag /\ UNCHANGED modStreamIn
    BY <1>2 DEF ReadDiag
  <2>2. modStreamIn # Null /\ modStreamIn.firstBuf # Null
    BY <2>1 DEF InvBody, InvModem
  <2> QED BY <1>0, <2>1, <2>2 DEF RecvDiag, InvReport
<1>3. CASE TimeoutFires
  BY <1>0, <1>3 DEF TimeoutFires, InvReport
<1>4. CASE ~RecvEnd /\ ~ReadDiag /\ EngineLoop
  <2>1. pc' \notin {"diag", "stop"}
    BY <1>4 DEF EngineLoop, CheckState, CheckReqMode, CheckTimeout, CheckBegSilence,
       CheckBeg, CheckBegDiag, CheckRefuse, RecvSome, RecvNap, RecvNextFrame, RecvNone,
       RecvGone, StopRecv, CheckOther, CheckStatePost, EnableFakeOff, EnableFakeOn,
       FakeCallback, WaitDataReady
  <2> QED BY <1>0, <2>1 DEF InvReport
<1>5. CASE CmdRecv \/ CmdSilence \/ CmdSend \/ Abort \/ Detach \/ SendEnds \/ ClearCall
             \/ SignalDataReady
  <2>1. pc' \notin {"diag", "stop"}
    BY <1>5 DEF CmdRecv, CmdSilence, CmdSend, Abort, Detach, SendEnds, ClearCall,
       SignalDataReady, Locked
  <2> QED BY <1>0, <2>1 DEF InvReport
<1> QED BY <1>1, <1>2, <1>3, <1>4, <1>5

(* No packet changes it meanwhile.                                         *)
LEMMA MediaReport ==
  ASSUME InvStreams, InvModem, InvBody, InvReport, Stays,
         UNCHANGED <<pc, diag, dataType>>, isStateModemIn' => isStateModemIn
  PROVE  InvReport'
<1>1. isStateModemIn => modStreamIn # Null
  BY DEF isStateModemIn, InvModem
<1>2. dataType' = "dtHdlc" /\ isStateModemIn' => modStreamIn'.mod = "v21"
  BY <1>1 DEF Stays, InvReport
<1>3. ASSUME pc \in {"diag", "stop"} PROVE modStreamIn'.firstBuf = modStreamIn.firstBuf
  <2>1. stateModem = "stmInRecvData" /\ modStreamIn # Null /\ modStreamIn.firstBuf.eof
    BY <1>3 DEF InvBody, InvModem, InvReport
  <2>2. modStreamIn.lastBuf # "first"
    BY <2>1 DEF InvStreams, Sound, Owned
  <2> QED BY <2>1, <2>2 DEF Stays, Beside
<1> QED BY <1>2, <1>3 DEF InvReport

(* The initial states satisfy the invariant ..                             *)
LEMMA InitFrames == Init => FrameInv
<1> SUFFICES ASSUME Init PROVE FrameInv
  OBVIOUS
<1>1. InvFrames
  BY DEF Init, InvFrames, Followed, Open
<1>2. InvPend /\ InvLife /\ InvReport
  BY DEF Init, InvPend, InvLife, InvReport, isStateModemIn
<1> QED BY <1>1, <1>2 DEF FrameInv

(* .. and every step keeps it.                                             *)
LEMMA NextFrames == IInv /\ FrameInv /\ [Next]_vars => FrameInv'
<1> SUFFICES ASSUME IInv, FrameInv, [Next]_vars PROVE FrameInv'
  OBVIOUS
<1>0. /\ TypeRest /\ InvStreams /\ InvModem /\ InvBody /\ InvWait
      /\ InvFrames /\ InvPend /\ InvLife /\ InvReport
  BY TypeSplit DEF IInv, RecvInv, FrameInv
<1>1. ASSUME BodyStep,
             \/ EngineLoop \/ CmdRecv \/ CmdSilence \/ CmdSend \/ Abort \/ Detach
             \/ SendEnds \/ ClearCall \/ TimeoutFires \/ SignalDataReady
      PROVE  FrameInv'
  <2>1. InvFrames' /\ InvPend' /\ InvLife'
    BY <1>0, <1>1, BodyFrames DEF BodyStep
  <2>2. InvReport'
    BY <1>0, <1>1, BodyReport
  <2> QED BY <2>1, <2>2 DEF FrameInv
<1>2. CASE EngineLoop
  BY <1>0, <1>1, <1>2, EngineFrames
<1>3. CASE CmdRecv \/ CmdSilence \/ CmdSend \/ Abort \/ Detach \/ SendEnds \/ ClearCall
             \/ TimeoutFires \/ SignalDataReady
  <2>1. BodyStep
    BY <1>0, <1>3, OthersFrames
  <2> QED BY <1>1, <1>3, <2>1
<1>4. ASSUME NEW s \in Stream, StreamOpen(s) \/ StreamClose(s) \/ InCallback(s)
      PROVE  FrameInv'
  <2>1. InvFrames' /\ InvPend' /\ InvLife'
    BY <1>0, <1>4, OwnerFrames
  <2>2. UNCHANGED <<pc, diag, dataType, modStreamIn, stateModem>>
    BY <1>4 DEF StreamOpen, StreamClose, InCallback, ownSide, bodyVars, modemVars
  <2>3. InvReport'
    BY <1>0, <2>2 DEF InvReport, isStateModemIn
  <2> QED BY <2>1, <2>3 DEF FrameInv
<1>5. ASSUME NEW s \in Stream, HandlePacketLost(s) PROVE FrameInv'
  <2>1. InvFrames' /\ Stays /\ UNCHANGED <<life, win>>
    BY <1>0, <1>5, LostFrames
  <2>2. /\ hOwnerIn = s /\ win[s].pc = "idle"
        /\ UNCHANGED <<pc, diag, dataType, stateModem, hOwnerIn>>
    BY <1>5 DEF HandlePacketLost, Owns, inSide, bodyVars, ownVars
  <2>3. InvPend' /\ InvLife'
    BY <1>0, <2>1, <2>2 DEF InvPend, InvLife
  <2>4. InvReport'
    BY <1>0, <2>1, <2>2, MediaReport DEF isStateModemIn
  <2> QED BY <2>1, <2>3, <2>4 DEF FrameInv
<1>6. ASSUME NEW s \in Stream, HandlePacket(s) \/ CallbackBack(s) PROVE FrameInv'
  <2>1. FrameStep(s)
    BY <1>0, <1>6, HandleFrames
  <2>2. InvPend' /\ InvLife'
    BY <1>0, <1>6, <2>1, HandlePend
  <2>3. isStateModemIn' => isStateModemIn
    BY <1>0, <1>6, MediaStepFacts DEF MediaStep, Outcome, isStateModemIn
  <2>4. UNCHANGED <<pc, diag, dataType>>
    BY <1>6 DEF HandlePacket, CallbackBack, inSide, bodyVars
  <2>5. InvReport'
    BY <1>0, <2>1, <2>3, <2>4, MediaReport DEF FrameStep
  <2> QED BY <2>1, <2>2, <2>5 DEF FrameInv, FrameStep
<1>7. CASE UNCHANGED vars
  <2> USE DEF vars, bodyVars, modemVars, inVars, ownVars, mediaVars
  <2> QED BY <1>0, <1>7 DEF FrameInv, InvFrames, InvPend, InvLife, InvReport, isStateModemIn
<1> QED BY <1>2, <1>3, <1>4, <1>5, <1>6, <1>7 DEF Next, MediaThread
-----------------------------------------------------------------------------
(* Every frame of a counted signal is followed, throughout.                *)
THEOREM FramesFollowed == Spec => []FrameInv
<1>1. IInv /\ IInv' /\ FrameInv /\ [Next]_vars => FrameInv'
  BY NextFrames
<1> QED BY <1>1, InitFrames, Invariance, PTL DEF Spec

(* AT+FRH says OK only for a whole frame and NO CARRIER only when nothing  *)
(* of one came, whatever is lost and whatever fast signals carry: packets  *)
(* lost in V.21 are seen by HandlePacketLost.                              *)
THEOREM ResponsesTrue == Spec => []ResponseTruthful
<1>1. IInv /\ FrameInv => ResponseTruthful
  <2> SUFFICES ASSUME IInv, FrameInv, pc = "stop", dataType = "dtHdlc"
               PROVE  /\ Resp = "OK" => modStreamIn.firstBuf.has = Parts
                      /\ Resp = "NO CARRIER" => modStreamIn.firstBuf.has = 0
    BY DEF ResponseTruthful
  <2> DEFINE b == modStreamIn.firstBuf
  <2>0. TypeRest /\ InvModem /\ InvBody /\ InvFrames /\ InvReport
    BY TypeSplit DEF IInv, RecvInv, FrameInv
  <2>1. stateModem = "stmInRecvData" /\ modStreamIn # Null /\ b # Null
    BY <2>0 DEF InvBody, InvModem
  <2>2. modStreamIn.mod = "v21" /\ b.eof /\ diag = b.diag
    BY <2>0, <2>1 DEF InvReport, isStateModemIn
  <2>3. Honest(b)
    BY <2>0, <2>1, <2>2 DEF InvFrames, Followed, AllHonest, Counted, dataTypeT38
  <2>4. Good(b) => b.has = IF "NoCarrier" \in diag THEN 0 ELSE Parts
    BY <2>2, <2>3 DEF Honest
  <2>5. diag \cap Errors = {} => Good(b)
    BY <2>2 DEF Good
  <2>6. diag \subseteq Errors \cup {"NoCarrier"}
    BY <2>0 DEF TypeRest
  <2> HIDE DEF b
  <2>7. ASSUME Resp = "OK" PROVE b.has = Parts
    <3>1. diag = {}
      BY <2>7 DEF Resp
    <3> QED BY <2>4, <2>5, <3>1
  <2>8. ASSUME Resp = "NO CARRIER" PROVE b.has = 0
    <3>1. diag # {} /\ diag \cap Errors = {}
      BY <2>8 DEF Resp
    <3>2. "NoCarrier" \in diag
      BY <2>6, <3>1
    <3> QED BY <2>4, <2>5, <3>1, <3>2
  <2> QED BY <2>7, <2>8 DEF b
<1> QED BY <1>1, Invariance, FramesFollowed, PTL

(* The same of every frame that HandlePacket has queued.  HandlePacketLost *)
(* marks V.21 only, so that where packets get lost the frames of a fast    *)
(* modulation are no part of it.                                           *)
THEOREM ReportsTrue ==
  ASSUME ~(Ecm /\ Loses)
  PROVE  Spec => []ReportTruthful
<1>1. FrameInv => GoodFrameWhole
  <2> SUFFICES ASSUME FrameInv PROVE GoodFrameWhole
    OBVIOUS
  <2>1. ASSUME NEW ms \in {modStreamIn, modStreamInSaved}, ms # Null,
               dataTypeT38(ms.mod) = "dtHdlc"
        PROVE  AllHonest(ms)
    <3>1. Counted(ms.mod)
      BY <2>1 DEF Counted, dataTypeT38
    <3> QED BY <2>1, <3>1 DEF FrameInv, InvFrames, Followed
  <2> QED BY <2>1 DEF GoodFrameWhole, AllHonest, Honest, Good
<1>2. GoodFrameWhole /\ ResponseTruthful => ReportTruthful
  BY DEF ReportTruthful
<1> QED BY <1>1, <1>2, FramesFollowed, ResponsesTrue, PTL
====
