--------------------------- MODULE FaxSendProofs ---------------------------
(***************************************************************************)
(* Proofs about FaxSend, for any streams, fake threads, buffer size and    *)
(* range of sequence numbers: body and engine agree on the send they are   *)
(* in, an acknowledgement means that everything was sent or abandoned, no  *)
(* thread sleeps through work, and the packets of an owner form T.38       *)
(* signals.                                                                *)
(***************************************************************************)
EXTENDS FaxSend, TLAPS

Seqs == 0..(SeqMod - 1)
Succ(n) == (n + 1) % SeqMod

Tones == {"ced", "silence"}
DataTypes == {"dtHdlc", "dtRaw"}
Sending == state \in {"stSend", "stSendBufEmptyHandle"}
(* The callback n is on its way to the body.                               *)
Flies(n) == outPc = "cb" /\ cb = n

(* A send belongs to the attached engine.  At pc = "stop" the body is in   *)
(* the middle of SendCed or SendSilence.                                   *)
InvBody ==
  /\ Sending \/ state \in {"stSendAckWait", "stSendAckHandle"} => attached
  /\ pc = "stop" => state = "stSendAckWait" /\ stateModem # "stmOutNoMoreData"
                      /\ ModParsOut \in Tones /\ dataType \notin DataTypes
  /\ ModParsOut \in Tones /\ stateModem = "stmOutMoreData" => pc = "stop"
  /\ ModParsOut \in Tones => queued = 0
  /\ held => attached /\ pc \in {"fakeOn", "fakeOff", "wait"}
  /\ pc = "more" => Sending

(* What the body thinks it sends is what the engine was told to send, and  *)
(* the engine takes more of it exactly as long as the body has more, unless *)
(* it dropped the frames after the first one of HDLC on a raw carrier.  No *)
(* old callback is on its way then, for the body ends each of these frames *)
(* by itself.                                                              *)
Accepts == stateModem = "stmOutMoreData" /\ ~eof
Takes == Accepts \/ Dropped
NoneFlies == ~(outPc = "cb" /\ cb \in Seqs)
InvSend ==
  /\ Sending => Takes /\ dataType \in DataTypes
  /\ /\ Sending \/ (state = "stSendAckHandle" /\ moreFrames)
     /\ Dropped /\ dataType \in DataTypes
     => NoneFlies
  /\ /\ Sending \/ state \in {"stSendAckWait", "stSendAckHandle"}
     /\ dataType \in DataTypes
     => /\ ModParsOut \notin Tones
        /\ dataType = "dtRaw" <=> ModParsOut \in {"raw", "rawHdlc"}
        /\ dataType = "dtRaw" => ~moreFrames
  /\ state = "stSendAckHandle" /\ dataType \in DataTypes /\ moreFrames => Takes
  /\ state = "stSendAckWait" /\ dataType \in DataTypes =>
       /\ stateModem = "stmOutNoMoreData" => moreFramesOut = moreFrames
       /\ Flies(seq) /\ moreFrames => Takes

(* The sequence number the engine holds is the one of the last SendStop,   *)
(* and a callback on its way is at most two behind, so that it is taken    *)
(* for no other one.                                                       *)
InvSeq ==
  /\ stateModem = "stmOutNoMoreData" => callbackParamOut \in {seq, cbpReset}
  /\ state = "stSendAckWait" /\ pc # "stop" /\ Flies(seq) =>
       queued = 0 \/ Abandoned
  /\ outPc = "cb" /\ cb \in Seqs =>
       \/ cb = seq /\ stateModem # "stmOutNoMoreData"
       \/ Succ(cb) = seq /\ (pc = "stop" => stateModem = "stmOutMoreData")
       \/ Succ(Succ(cb)) = seq /\ stateModem = "stmOutNoMoreData"

(* A signal on the line is one the engine was told to send.                *)
InvOut ==
  /\ stateOut \notin {"stOutIdle", "stOutNoSig"} => isStateModemOut
  /\ stateOut = "stOutCedWait" => ModParsOut = "ced"
  /\ stateOut = "stOutSilenceWait" => ModParsOut = "silence"
  /\ stateOut \in {"stOutIndWait", "stOutData", "stOutHdlcFcs", "stOutDataNoSig"} =>
       ModParsOut \notin Tones
  /\ stateModem = "stmOutNoMoreData" /\ stateOut # "stOutDataNoSig" => eof

(* The data of the signal: where HDLC::GetData has found its end, bufOut   *)
(* is empty and takes no more, if it is not abandoned.                     *)
InvData ==
  /\ stateOut \in {"stOutData", "stOutHdlcFcs"} /\ ModParsOut # "rawHdlc" => ~outEof
  /\ stateOut = "stOutData" /\ ModParsOut # "rawHdlc" => inData
  /\ stateOut \in {"stOutData", "stOutHdlcFcs"} /\ ~inData => queued = 0 /\ eof
  /\ stateOut = "stOutHdlcFcs" /\ ModParsOut # "rawHdlc" => queued = 0 /\ eof
  /\ stateOut = "stOutHdlcFcs" => ~RawCarrier
  /\ stateOut = "stOutDataNoSig" =>
       /\ Abandoned \/ (queued = 0 /\ (stateModem = "stmOutNoMoreData" \/ eof))
       /\ stateModem = "stmOutNoMoreData" /\ ModParsOut \notin {"raw", "rawHdlc", "hdlcRaw"} =>
            ~moreFramesOut

(* What a thread that waits, or is about to, has seen is still so, or it   *)
(* has been signalled.                                                     *)
NothingLeft == stateOut = "stOutData" /\ queued = 0 /\ (inData /\ eof => Aborted)
InvWait ==
  /\ NoLostOutWakeup
  /\ outPc \notin {"cb", "back"} => pend = "redo"
  /\ outPc = "none" => stateOut = "stOutData" /\ (outReady \/ NothingLeft)
  /\ outPc \in {"cb", "back"} /\ pend \in {"wait", "none"} =>
       stateOut = "stOutData" /\ (outReady \/ NothingLeft)

(* Held input has room only with a wakeup on its way.                      *)
InvHeld == held => Full \/ ready \/ Flies(cbpOutBufNoFull)

(* The last packet, as the state of the signal remembers it.  A packet     *)
(* that waits for the end of a callback is still to come.                  *)
Coming == outPc \in {"cb", "back"} /\ pend \in Packets
InvWire ==
  /\ outPc # "idle" /\ hOwnerOut # outW => last = "any"
  /\ last # "any" /\ attached /\ hOwnerOut # NoOwner =>
       /\ stateOut \in {"stOutIdle", "stOutSilenceWait"} => last = "noSig"
       /\ stateOut = "stOutCedWait" => last = "ced"
       /\ stateOut = "stOutIndWait" => last = "ind"
       /\ ~Coming /\ stateOut \in {"stOutData", "stOutHdlcFcs"} =>
            /\ countOut => last = "data"
            /\ ~countOut => last \in {"ind", "fcs"}
            /\ RawCarrier => last # "fcs"
       /\ ~Coming /\ stateOut = "stOutDataNoSig" =>
            last \in IF RawCarrier THEN {"ind", "data"} ELSE {"ind", "fcs"}
       /\ ~Coming /\ stateOut = "stOutNoSig" =>
            last \in {"hdlcSigEnd", "rawSigEnd", "ced"}
       /\ Coming => last \in Follows(pend)
       /\ Coming /\ pend = "data" /\ RawCarrier => last # "fcs"
  /\ Coming =>
       /\ stateOut \in CASE pend = "data" -> {"stOutData"}
                         [] pend = "fcs" -> {"stOutData", "stOutDataNoSig"}
                         [] OTHER -> {"stOutNoSig"}
       /\ pend = "data" => countOut
       /\ pend = "fcs" => ~countOut /\ ~RawCarrier

(* The inductive invariant                                                 *)
SendInv ==
  /\ InvBody /\ InvSend /\ AckPending /\ InvSeq /\ InvOut /\ InvData
  /\ InvWait /\ InvHeld /\ InvWire
IInv == TypeOK /\ SendInv
-----------------------------------------------------------------------------
(* The sequence numbers: two steps do not lead back to the same one.       *)
LEMMA SuccFacts ==
  \A n \in Seqs : Succ(n) \in Seqs /\ Succ(n) # n /\ Succ(Succ(n)) # n
<1>1. SeqMod \in 3..256
  BY BoundAssumption
<1>2. \A n \in Seqs : Succ(n) = IF n = SeqMod - 1 THEN 0 ELSE n + 1
  BY <1>1, SMT DEF Seqs, Succ
<1>3. \A n \in Seqs : Succ(n) \in Seqs /\ Succ(n) # n
  BY <1>1, <1>2, SMT DEF Seqs
<1>4. \A n \in Seqs : Succ(Succ(n)) # n
  BY <1>1, <1>2, <1>3, SMT DEF Seqs
<1> QED BY <1>3, <1>4
(* NextSeq, as Succ of the number in use                                   *)
LEMMA NextSeqIs == NextSeq = Succ(seq)
  BY DEF NextSeq, Succ

(* What the proofs need to know of the constants                           *)
LEMMA ConstantFacts ==
  /\ NoOwner \notin Writer /\ Stream \subseteq Writer /\ Fake \subseteq Writer
  /\ Stream \cap Fake = {}
  /\ Sends \subseteq Signals /\ MaxBuf \in Nat /\ MaxBuf > 0
  /\ \A n \in Seqs : Succ(n) \in Seqs /\ Succ(n) # n /\ Succ(Succ(n)) # n
  /\ {cbpReset, cbpOutBufEmpty, cbpOutBufNoFull, cbpUpdateState} \cap Seqs = {}
  /\ cbpReset # cbpOutBufEmpty /\ cbpOutBufNoFull \notin {cbpReset, cbpOutBufEmpty}
  /\ cbpUpdateState \notin {cbpReset, cbpOutBufEmpty, cbpOutBufNoFull}
  /\ 0 \in Seqs
<1>1. /\ {cbpReset, cbpOutBufEmpty, cbpOutBufNoFull, cbpUpdateState} \cap Seqs = {}
      /\ cbpReset # cbpOutBufEmpty /\ cbpOutBufNoFull \notin {cbpReset, cbpOutBufEmpty}
      /\ cbpUpdateState \notin {cbpReset, cbpOutBufEmpty, cbpOutBufNoFull}
      /\ 0 \in Seqs
  BY BoundAssumption, SMT DEF Seqs, cbpReset, cbpOutBufEmpty, cbpOutBufNoFull,
     cbpUpdateState
<1> QED BY <1>1, SuccFacts, WriterAssumption, BoundAssumption DEF Writer

(* TypeOK in two parts: the Boolean variables and the others.              *)
TypeFlags ==
  /\ moreFrames \in BOOLEAN /\ ready \in BOOLEAN /\ enableFakeOut \in BOOLEAN
  /\ held \in BOOLEAN /\ attached \in BOOLEAN /\ moreFramesOut \in BOOLEAN
  /\ eof \in BOOLEAN /\ countOut \in BOOLEAN /\ inData \in BOOLEAN
  /\ outEof \in BOOLEAN /\ lastChar \in BOOLEAN
  /\ startedTimeOutBufEmpty \in BOOLEAN /\ outReady \in BOOLEAN
  /\ firstOut \in BOOLEAN /\ isEnableFakeOut \in BOOLEAN
TypeRest ==
  /\ state \in {"stCommand", "stReqModeAckHandle", "stSend", "stSendBufEmptyHandle",
                "stSendAckWait", "stSendAckHandle"}
  /\ dataType \in {"dtCed", "dtSilence", "dtHdlc", "dtRaw"}
  /\ seq \in Seqs
  /\ pc \in {"check", "stop", "data", "more", "fakeOn", "fakeOff", "wait"}
  /\ stateModem \in {"stmIdle", "stmOutMoreData", "stmOutNoMoreData"}
  /\ callbackParamOut \in Seqs \cup {cbpReset}
  /\ ModParsOut \in Signals /\ queued \in 0..MaxBuf
  /\ stateOut \in {"stOutIdle", "stOutCedWait", "stOutSilenceWait", "stOutIndWait",
                   "stOutData", "stOutHdlcFcs", "stOutDataNoSig", "stOutNoSig"}
  /\ hOwnerOut \in Writer \cup {NoOwner}
  /\ outPc \in {"idle", "loop", "cb", "back", "none", "wait"}
  /\ outW \in Writer \cup {NoOwner} /\ (outPc = "idle" <=> outW = NoOwner)
  /\ cb \in Seqs \cup {cbpReset, cbpOutBufEmpty, cbpOutBufNoFull, cbpUpdateState}
  /\ pend \in {"redo", "wait", "none", "data", "fcs", "hdlcSigEnd", "rawSigEnd"}
  /\ life \in [Writer -> {"new", "created", "open", "closed", "dead", "closing"}]
  /\ last \in Packets \cup {"any"}
(* The two parts make up TypeOK.                                           *)
LEMMA TypeSplit == /\ TypeOK <=> TypeFlags /\ TypeRest
                   /\ TypeOK' <=> TypeFlags' /\ TypeRest'
  BY DEF TypeOK, TypeFlags, TypeRest, Seqs

(* What the three results of HDLC::GetData leave: nothing is taken that was *)
(* not there, bufOut takes no more after its end, and an end of data that  *)
(* is not HDLC unpacking's own leaves an empty buffer.                     *)
LEMMA TakenFacts ==
  ASSUME queued \in Nat, NEW k \in 0..queued, Taken(k)
  PROVE  queued' = queued - k /\ queued' \in 0..queued /\ (eof' <=> eof)
  BY DEF Taken

(* .. count > 0                                                            *)
LEMMA SomeFacts ==
  ASSUME TypeOK, InvData, GetSome, stateOut = "stOutData"
  PROVE  /\ queued' \in 0..queued /\ (eof' <=> eof)
         /\ ~inData' => queued' = 0 /\ eof
         /\ ModParsOut # "rawHdlc" => ~outEof' /\ inData'
<1>0. queued \in Nat
  BY BoundAssumption DEF TypeOK
<1>1. inData /\ ~outEof
  BY DEF GetSome
<1>2. PICK k \in 1..queued :
        /\ Taken(k)
        /\ \/ UNCHANGED <<inData, outEof>>
           \/ ModParsOut = "rawHdlc" /\ outEof' = TRUE /\ UNCHANGED inData
           \/ /\ ModParsOut = "rawHdlc" /\ k = queued /\ eof
              /\ outEof' = TRUE /\ inData' = FALSE
  BY DEF GetSome
<1>3. inData' \/ (k = queued /\ eof)
  BY <1>1, <1>2
<1>4. ModParsOut # "rawHdlc" => ~outEof' /\ inData'
  BY <1>1, <1>2
<1>5. queued' = queued - k /\ queued' \in 0..queued /\ (eof' <=> eof)
  BY <1>0, <1>2, TakenFacts
<1> QED BY <1>0, <1>3, <1>4, <1>5

(* .. count = 0                                                            *)
LEMMA NoneFacts ==
  ASSUME TypeOK, InvData, GetNone, stateOut = "stOutData"
  PROVE  /\ queued' = 0 /\ (eof' <=> eof) /\ (inData' <=> inData)
         /\ outEof' <=> outEof
         /\ inData => ~eof
<1>0. queued \in Nat
  BY BoundAssumption DEF TypeOK
<1>1. PICK k \in {0, queued} : Taken(k) /\ (k = queued \/ ~inData)
  BY <1>0 DEF GetNone
<1>2. queued' = queued - k /\ (eof' <=> eof)
  BY <1>0, <1>1, TakenFacts
<1>3. ~inData => queued = 0
  BY DEF InvData
<1>4. queued' = 0
  BY <1>0, <1>1, <1>2, <1>3
<1> QED BY <1>2, <1>4 DEF GetNone

(* .. count = -1                                                           *)
LEMMA EndFacts ==
  ASSUME TypeOK, InvData, GetEnd, stateOut = "stOutData"
  PROVE  /\ queued' \in 0..queued /\ (eof' <=> eof)
         /\ ~inData' => queued' = 0 /\ eof
         /\ ModParsOut \notin {"rawHdlc", "hdlcRaw"} =>
              ~outEof' /\ ~inData' /\ queued = 0 /\ eof
<1>0. queued \in Nat
  BY BoundAssumption DEF TypeOK
<1>1. ModParsOut # "rawHdlc" => ~outEof /\ inData
  BY DEF InvData
<1>2. ~inData => queued = 0 /\ eof
  BY DEF InvData
<1>3. Taken(0) => queued' = queued /\ (eof' <=> eof)
  BY <1>0, TakenFacts
<1>4. CASE /\ Taken(0) /\ UNCHANGED <<inData, outEof>>
           /\ ModParsOut \in {"rawHdlc", "hdlcRaw"}
  BY <1>0, <1>2, <1>3, <1>4
<1>5. CASE /\ Taken(0) /\ queued = 0 /\ eof /\ ~inData'
           /\ ModParsOut # "rawHdlc" => ~outEof'
  BY <1>0, <1>3, <1>5
<1>6. CASE /\ ModParsOut = "rawHdlc"
           /\ \E k \in 1..queued : Taken(k) /\ (inData' \/ (k = queued /\ eof))
  <2>1. PICK k \in 1..queued : Taken(k) /\ (inData' \/ (k = queued /\ eof))
    BY <1>6
  <2>2. queued' = queued - k /\ queued' \in 0..queued /\ (eof' <=> eof)
    BY <1>0, <2>1, TakenFacts
  <2> QED BY <1>0, <1>6, <2>1, <2>2
<1> QED BY <1>1, <1>4, <1>5, <1>6 DEF GetEnd, Started

(* How a pass that found data, or its end, ends                            *)
LEMMA AfterGetIs ==
  /\ AfterGet("data") <=> IF Full /\ queued' < MaxBuf
                          THEN Callback(cbpOutBufNoFull, "data") ELSE Emit("data")
  /\ AfterGet("redo") <=> IF Full /\ queued' < MaxBuf
                          THEN Callback(cbpOutBufNoFull, "redo") ELSE Redo
  BY DEF AfterGet

(* How a pass that found no data ends                                      *)
LEMMA OutDataNoneIs ==
  ASSUME OutDataNone
  PROVE  /\ Pass /\ GetNone /\ stateOut = "stOutData"
         /\ UNCHANGED <<passSide, stateModem, stateOut, countOut>>
         /\ \/ Full /\ queued' < MaxBuf /\ Callback(cbpOutBufNoFull, "none")
            \/ ~(Full /\ queued' < MaxBuf) /\ Callback(cbpOutBufEmpty, "wait")
            \/ ~(Full /\ queued' < MaxBuf) /\ WaitData /\ startedTimeOutBufEmpty'
  BY DEF OutDataNone, BufEmpty

(* TypeOK is preserved by the engine thread.                               *)
LEMMA EngineType ==
  ASSUME TypeOK, EngineThread
  PROVE  TypeOK'
<1> USE DEF bodyVars, hdlcVars, sendVars, bufVars,
            ownVars, outVars, outSide, passSide, bodySide, ownSide, Input, InLoop
<1>0. TypeFlags /\ TypeRest
  BY TypeSplit
<1>1. CASE SendCed
    <2>3. UNCHANGED <<moreFrames, ready, enableFakeOut, held, attached, moreFramesOut,
     countOut, inData, outEof, lastChar, startedTimeOutBufEmpty, firstOut,
     isEnableFakeOut>>
    BY <1>0, <1>1 DEF SendCed, CanSend, SendStart, engineIdle
  <2>4. eof' \in BOOLEAN
    BY <1>0, <1>1, Zenon DEF SendCed, CanSend, SendStart, engineIdle, TypeFlags
  <2>5. outReady' \in BOOLEAN
    BY <1>0, <1>1, Zenon DEF SendCed, CanSend, SendStart, engineIdle, TypeFlags
  <2>1. TypeFlags'
    BY <1>0, <2>3, <2>4, <2>5 DEF TypeFlags
  <2>2. TypeRest'
    BY <1>0, <1>1, ConstantFacts, NextSeqIs DEF SendCed, CanSend, SendStart,
       engineIdle, TypeRest, Packets, Signals
  <2> QED BY <2>1, <2>2, TypeSplit
<1>2. CASE SendSilence
    <2>3. UNCHANGED <<moreFrames, ready, enableFakeOut, held, attached, moreFramesOut,
     countOut, inData, outEof, lastChar, startedTimeOutBufEmpty, firstOut,
     isEnableFakeOut>>
    BY <1>0, <1>2 DEF SendSilence, CanSend, SendStart, engineIdle
  <2>4. eof' \in BOOLEAN
    BY <1>0, <1>2, Zenon DEF SendSilence, CanSend, SendStart, engineIdle, TypeFlags
  <2>5. outReady' \in BOOLEAN
    BY <1>0, <1>2, Zenon DEF SendSilence, CanSend, SendStart, engineIdle, TypeFlags
  <2>1. TypeFlags'
    BY <1>0, <2>3, <2>4, <2>5 DEF TypeFlags
  <2>2. TypeRest'
    BY <1>0, <1>2, ConstantFacts, NextSeqIs DEF SendSilence, CanSend, SendStart,
       engineIdle, TypeRest, Packets, Signals
  <2> QED BY <2>1, <2>2, TypeSplit
<1>3. CASE StopSignal
    <2>3. UNCHANGED <<moreFrames, ready, enableFakeOut, held, attached, countOut,
     inData, outEof, lastChar, startedTimeOutBufEmpty, firstOut, isEnableFakeOut>>
    BY <1>0, <1>3 DEF StopSignal, CanStop, SendStop, engineIdle
  <2>4. eof' \in BOOLEAN
    BY <1>0, <1>3, Zenon DEF StopSignal, CanStop, SendStop, engineIdle, TypeFlags
  <2>5. moreFramesOut' \in BOOLEAN
    BY <1>0, <1>3, Zenon DEF StopSignal, CanStop, SendStop, engineIdle, TypeFlags
  <2>6. outReady' \in BOOLEAN
    BY <1>0, <1>3, Zenon DEF StopSignal, CanStop, SendStop, engineIdle, TypeFlags
  <2>1. TypeFlags'
    BY <1>0, <2>3, <2>4, <2>5, <2>6 DEF TypeFlags
  <2>2. TypeRest'
    BY <1>0, <1>3, ConstantFacts, NextSeqIs DEF StopSignal, CanStop, SendStop,
       engineIdle, TypeRest, Packets, Signals
  <2> QED BY <2>1, <2>2, TypeSplit
<1>4. CASE CheckBufEmpty
    <2>3. UNCHANGED <<moreFrames, enableFakeOut, held, attached, countOut, inData,
     outEof, lastChar, startedTimeOutBufEmpty, firstOut, isEnableFakeOut>>
    BY <1>0, <1>4 DEF CheckBufEmpty, StopFrame, CanStop, SendStop, engineIdle
  <2>4. eof' \in BOOLEAN
    BY <1>0, <1>4, Zenon DEF CheckBufEmpty, StopFrame, CanStop, SendStop, engineIdle,
       TypeFlags
  <2>5. moreFramesOut' \in BOOLEAN
    BY <1>0, <1>4, Zenon DEF CheckBufEmpty, StopFrame, CanStop, SendStop, engineIdle,
       TypeFlags
  <2>6. outReady' \in BOOLEAN
    BY <1>0, <1>4, Zenon DEF CheckBufEmpty, StopFrame, CanStop, SendStop, engineIdle,
       TypeFlags
  <2>7. ready' \in BOOLEAN
    BY <1>0, <1>4, Zenon DEF CheckBufEmpty, StopFrame, CanStop, SendStop, engineIdle,
       TypeFlags
  <2>1. TypeFlags'
    BY <1>0, <2>3, <2>4, <2>5, <2>6, <2>7 DEF TypeFlags
  <2>2. TypeRest'
    BY <1>0, <1>4, ConstantFacts, NextSeqIs DEF CheckBufEmpty, StopFrame, CanStop,
       SendStop, engineIdle, TypeRest, Packets, Signals
  <2> QED BY <2>1, <2>2, TypeSplit
<1>5. CASE CheckAck
    <2>3. UNCHANGED <<ready, enableFakeOut, held, attached, moreFramesOut, countOut,
     inData, outEof, lastChar, startedTimeOutBufEmpty, firstOut, isEnableFakeOut>>
    BY <1>0, <1>5 DEF CheckAck, CanSend, SendStart, engineIdle
  <2>4. moreFrames' \in BOOLEAN
    BY <1>0, <1>5, Zenon DEF CheckAck, CanSend, SendStart, engineIdle, TypeFlags
  <2>5. eof' \in BOOLEAN
    BY <1>0, <1>5, Zenon DEF CheckAck, CanSend, SendStart, engineIdle, TypeFlags
  <2>6. outReady' \in BOOLEAN
    BY <1>0, <1>5, Zenon DEF CheckAck, CanSend, SendStart, engineIdle, TypeFlags
  <2>1. TypeFlags'
    BY <1>0, <2>3, <2>4, <2>5, <2>6 DEF TypeFlags
  <2>2. TypeRest'
    BY <1>0, <1>5, ConstantFacts, NextSeqIs DEF CheckAck, CanSend, SendStart,
       engineIdle, TypeRest, Packets, Signals
  <2> QED BY <2>1, <2>2, TypeSplit
<1>6. CASE CheckOther
    <2>3. UNCHANGED <<moreFrames, ready, enableFakeOut, held, attached, moreFramesOut,
     eof, countOut, inData, outEof, lastChar, startedTimeOutBufEmpty, outReady,
     firstOut, isEnableFakeOut>>
    BY <1>0, <1>6 DEF CheckOther, engineIdle
  <2>1. TypeFlags'
    BY <1>0, <2>3 DEF TypeFlags
  <2>2. TypeRest'
    BY <1>0, <1>6, ConstantFacts, NextSeqIs DEF CheckOther, engineIdle, TypeRest,
       Packets, Signals
  <2> QED BY <2>1, <2>2, TypeSplit
<1>7. CASE CmdSend
    <2>3. UNCHANGED <<ready, enableFakeOut, held, attached, moreFramesOut, countOut,
     inData, outEof, lastChar, startedTimeOutBufEmpty, firstOut, isEnableFakeOut>>
    BY <1>0, <1>7 DEF CmdSend, CanSend, SendStart, engineIdle, Full
  <2>4. moreFrames' \in BOOLEAN
    BY <1>0, <1>7, Zenon DEF CmdSend, CanSend, SendStart, engineIdle, Full, TypeFlags
  <2>5. eof' \in BOOLEAN
    BY <1>0, <1>7, Zenon DEF CmdSend, CanSend, SendStart, engineIdle, Full, TypeFlags
  <2>6. outReady' \in BOOLEAN
    BY <1>0, <1>7, Zenon DEF CmdSend, CanSend, SendStart, engineIdle, Full, TypeFlags
  <2>1. TypeFlags'
    BY <1>0, <2>3, <2>4, <2>5, <2>6 DEF TypeFlags
  <2>2. TypeRest'
    BY <1>0, <1>7, ConstantFacts, NextSeqIs DEF CmdSend, CanSend, SendStart,
       engineIdle, Full, TypeRest, Packets, Signals
  <2> QED BY <2>1, <2>2, TypeSplit
<1>8. CASE SendData
    <2>3. UNCHANGED <<ready, enableFakeOut, held, attached, moreFramesOut, eof,
     countOut, inData, outEof, lastChar, startedTimeOutBufEmpty, firstOut,
     isEnableFakeOut>>
    BY <1>0, <1>8 DEF SendData, CanStop, engineIdle, Full
  <2>4. moreFrames' \in BOOLEAN
    BY <1>0, <1>8, Zenon DEF SendData, CanStop, engineIdle, Full, TypeFlags
  <2>5. outReady' \in BOOLEAN
    BY <1>0, <1>8, Zenon DEF SendData, CanStop, engineIdle, Full, TypeFlags
  <2>1. TypeFlags'
    BY <1>0, <2>3, <2>4, <2>5 DEF TypeFlags
  <2>2. TypeRest'
    BY <1>0, <1>8, ConstantFacts, NextSeqIs DEF SendData, CanStop, engineIdle, Full,
       TypeRest, Packets, Signals
  <2> QED BY <2>1, <2>2, TypeSplit
<1>9. CASE SendEtx
    <2>3. UNCHANGED <<moreFrames, enableFakeOut, held, attached, countOut, inData,
     outEof, lastChar, startedTimeOutBufEmpty, firstOut, isEnableFakeOut>>
    BY <1>0, <1>9 DEF SendEtx, StopFrame, CanStop, SendStop, engineIdle, Full
  <2>4. eof' \in BOOLEAN
    BY <1>0, <1>9, Zenon DEF SendEtx, StopFrame, CanStop, SendStop, engineIdle, Full,
       TypeFlags
  <2>5. moreFramesOut' \in BOOLEAN
    BY <1>0, <1>9, Zenon DEF SendEtx, StopFrame, CanStop, SendStop, engineIdle, Full,
       TypeFlags
  <2>6. outReady' \in BOOLEAN
    BY <1>0, <1>9, Zenon DEF SendEtx, StopFrame, CanStop, SendStop, engineIdle, Full,
       TypeFlags
  <2>7. ready' \in BOOLEAN
    BY <1>0, <1>9, Zenon DEF SendEtx, StopFrame, CanStop, SendStop, engineIdle, Full,
       TypeFlags
  <2>1. TypeFlags'
    BY <1>0, <2>3, <2>4, <2>5, <2>6, <2>7 DEF TypeFlags
  <2>2. TypeRest'
    BY <1>0, <1>9, ConstantFacts, NextSeqIs DEF SendEtx, StopFrame, CanStop, SendStop,
       engineIdle, Full, TypeRest, Packets, Signals
  <2> QED BY <2>1, <2>2, TypeSplit
<1>10. CASE Abort
    <2>3. UNCHANGED <<moreFrames, ready, enableFakeOut, held, attached, moreFramesOut,
     countOut, inData, outEof, lastChar, startedTimeOutBufEmpty, outReady, firstOut,
     isEnableFakeOut>>
    BY <1>0, <1>10 DEF Abort, ResetModemState, Full
  <2>4. eof' \in BOOLEAN
    BY <1>0, <1>10, Zenon DEF Abort, ResetModemState, Full, TypeFlags
  <2>1. TypeFlags'
    BY <1>0, <2>3, <2>4 DEF TypeFlags
  <2>2. TypeRest'
    BY <1>0, <1>10, ConstantFacts, NextSeqIs DEF Abort, ResetModemState, Full,
       TypeRest, Packets, Signals
  <2> QED BY <2>1, <2>2, TypeSplit
<1>11. CASE Detach
    <2>3. UNCHANGED <<moreFrames, ready, held, moreFramesOut, countOut, inData,
     outEof, lastChar, startedTimeOutBufEmpty, firstOut, isEnableFakeOut>>
    BY <1>0, <1>11 DEF Detach, ResetModemState
  <2>4. attached' \in BOOLEAN
    BY <1>0, <1>11, Zenon DEF Detach, ResetModemState, TypeFlags
  <2>5. enableFakeOut' \in BOOLEAN
    BY <1>0, <1>11, Zenon DEF Detach, ResetModemState, TypeFlags
  <2>6. eof' \in BOOLEAN
    BY <1>0, <1>11, Zenon DEF Detach, ResetModemState, TypeFlags
  <2>7. outReady' \in BOOLEAN
    BY <1>0, <1>11, Zenon DEF Detach, ResetModemState, TypeFlags
  <2>1. TypeFlags'
    BY <1>0, <2>3, <2>4, <2>5, <2>6, <2>7 DEF TypeFlags
  <2>2. TypeRest'
    BY <1>0, <1>11, ConstantFacts, NextSeqIs DEF Detach, ResetModemState, TypeRest,
       Packets, Signals
  <2> QED BY <2>1, <2>2, TypeSplit
<1>12. CASE CheckStatePost
    <2>3. UNCHANGED <<moreFrames, ready, enableFakeOut, attached, moreFramesOut, eof,
     countOut, inData, outEof, lastChar, startedTimeOutBufEmpty, outReady, firstOut,
     isEnableFakeOut>>
    BY <1>0, <1>12 DEF CheckStatePost, Full
  <2>4. held' \in BOOLEAN
    BY <1>0, <1>12, Zenon DEF CheckStatePost, Full, TypeFlags
  <2>1. TypeFlags'
    BY <1>0, <2>3, <2>4 DEF TypeFlags
  <2>2. TypeRest'
    BY <1>0, <1>12, ConstantFacts, NextSeqIs DEF CheckStatePost, Full, TypeRest,
       Packets, Signals
  <2> QED BY <2>1, <2>2, TypeSplit
<1>13. CASE EnableFakeOn
    <2>3. UNCHANGED <<moreFrames, ready, enableFakeOut, held, attached, moreFramesOut,
     eof, countOut, inData, outEof, lastChar, startedTimeOutBufEmpty, firstOut>>
    BY <1>0, <1>13 DEF EnableFakeOn, isStateModemOut
  <2>4. isEnableFakeOut' \in BOOLEAN
    BY <1>0, <1>13, Zenon DEF EnableFakeOn, isStateModemOut, TypeFlags
  <2>5. outReady' \in BOOLEAN
    BY <1>0, <1>13, Zenon DEF EnableFakeOn, isStateModemOut, TypeFlags
  <2>1. TypeFlags'
    BY <1>0, <2>3, <2>4, <2>5 DEF TypeFlags
  <2>2. TypeRest'
    BY <1>0, <1>13, ConstantFacts, NextSeqIs DEF EnableFakeOn, isStateModemOut,
       TypeRest, Packets, Signals
  <2> QED BY <2>1, <2>2, TypeSplit
<1>14. CASE EnableFakeOff
    <2>3. UNCHANGED <<moreFrames, enableFakeOut, held, attached, moreFramesOut, eof,
     countOut, inData, outEof, lastChar, startedTimeOutBufEmpty, firstOut>>
    BY <1>0, <1>14 DEF EnableFakeOff
  <2>4. isEnableFakeOut' \in BOOLEAN
    BY <1>0, <1>14, Zenon DEF EnableFakeOff, TypeFlags
  <2>5. outReady' \in BOOLEAN
    BY <1>0, <1>14, Zenon DEF EnableFakeOff, TypeFlags
  <2>6. ready' \in BOOLEAN
    BY <1>0, <1>14, Zenon DEF EnableFakeOff, TypeFlags
  <2>1. TypeFlags'
    BY <1>0, <2>3, <2>4, <2>5, <2>6 DEF TypeFlags
  <2>2. TypeRest'
    BY <1>0, <1>14, ConstantFacts, NextSeqIs DEF EnableFakeOff, TypeRest, Packets,
       Signals
  <2> QED BY <2>1, <2>2, TypeSplit
<1>15. CASE WaitDataReady
    <2>3. UNCHANGED <<moreFrames, enableFakeOut, attached, moreFramesOut, eof,
     countOut, inData, outEof, lastChar, startedTimeOutBufEmpty, outReady, firstOut,
     isEnableFakeOut>>
    BY <1>0, <1>15 DEF WaitDataReady
  <2>4. ready' \in BOOLEAN
    BY <1>0, <1>15, Zenon DEF WaitDataReady, TypeFlags
  <2>5. held' \in BOOLEAN
    BY <1>0, <1>15, Zenon DEF WaitDataReady, TypeFlags
  <2>1. TypeFlags'
    BY <1>0, <2>3, <2>4, <2>5 DEF TypeFlags
  <2>2. TypeRest'
    BY <1>0, <1>15, ConstantFacts, NextSeqIs DEF WaitDataReady, TypeRest, Packets,
       Signals
  <2> QED BY <2>1, <2>2, TypeSplit
<1>16. CASE ReadDone
  <2>3. UNCHANGED <<moreFrames, ready, enableFakeOut, held, attached, moreFramesOut, eof,
     countOut, inData, outEof, lastChar, startedTimeOutBufEmpty, outReady, firstOut,
     isEnableFakeOut>>
    BY <1>0, <1>16 DEF ReadDone
  <2>1. TypeFlags'
    BY <1>0, <2>3 DEF TypeFlags
  <2>2. TypeRest'
    BY <1>0, <1>16, ConstantFacts DEF ReadDone, TypeRest, Packets, Signals
  <2> QED BY <2>1, <2>2, TypeSplit
<1> QED BY <1>1, <1>2, <1>3, <1>4, <1>5, <1>6, <1>7, <1>8, <1>9, <1>10, <1>11, <1>12,
   <1>13, <1>14, <1>15, <1>16 DEF EngineThread

(* .. by the thread in PreparePacket                                       *)
LEMMA PrepareType ==
  ASSUME TypeOK, SendInv, PreparePacket
  PROVE  TypeOK'
<1> USE DEF bodyVars, hdlcVars, sendVars, bufVars,
            ownVars, outVars, outSide, passSide, bodySide, ownSide
<1>0. TypeFlags /\ TypeRest
  BY TypeSplit
<1>1. CASE OwnerLost
    <2>3. UNCHANGED <<moreFrames, ready, enableFakeOut, held, attached, moreFramesOut,
     eof, countOut, inData, outEof, lastChar, startedTimeOutBufEmpty, outReady,
     firstOut, isEnableFakeOut>>
    BY <1>0, <1>1 DEF OwnerLost, Returned0, Owns
  <2>1. TypeFlags'
    BY <1>0, <2>3 DEF TypeFlags
  <2>2. TypeRest'
    BY <1>0, <1>1, ConstantFacts, NextSeqIs DEF OwnerLost, Returned0, Owns, TypeRest,
       Packets, Signals
  <2> QED BY <2>1, <2>2, TypeSplit
<1>2. CASE OutNothing
    <2>3. UNCHANGED <<moreFrames, ready, enableFakeOut, held, attached, moreFramesOut,
     eof, countOut, inData, outEof, lastChar, startedTimeOutBufEmpty, outReady,
     firstOut, isEnableFakeOut>>
    BY <1>0, <1>2 DEF OutNothing, Pass, Owns, WaitData, isStateModemOut
  <2>1. TypeFlags'
    BY <1>0, <2>3 DEF TypeFlags
  <2>2. TypeRest'
    BY <1>0, <1>2, ConstantFacts, NextSeqIs DEF OutNothing, Pass, Owns, WaitData,
       isStateModemOut, TypeRest, Packets, Signals
  <2> QED BY <2>1, <2>2, TypeSplit
<1>3. CASE OutIdle
    <2>3. UNCHANGED <<moreFrames, ready, enableFakeOut, held, attached, moreFramesOut,
     eof, countOut, inData, outEof, lastChar, startedTimeOutBufEmpty, outReady,
     firstOut, isEnableFakeOut>>
    BY <1>0, <1>3 DEF OutIdle, Pass, Owns, Emit, Redo, isStateModemOut
  <2>1. TypeFlags'
    BY <1>0, <2>3 DEF TypeFlags
  <2>2. TypeRest'
    BY <1>0, <1>3, ConstantFacts, NextSeqIs DEF OutIdle, Pass, Owns, Emit, Redo,
       isStateModemOut, TypeRest, Packets, Signals
  <2> QED BY <2>1, <2>2, TypeSplit
<1>4. CASE OutSignalWait
    <2>3. UNCHANGED <<moreFrames, ready, enableFakeOut, held, attached, moreFramesOut,
     eof, countOut, inData, outEof, lastChar, startedTimeOutBufEmpty, outReady,
     firstOut, isEnableFakeOut>>
    BY <1>0, <1>4 DEF OutSignalWait, Pass, Owns, Callback
  <2>1. TypeFlags'
    BY <1>0, <2>3 DEF TypeFlags
  <2>2. TypeRest'
    BY <1>0, <1>4, ConstantFacts, NextSeqIs DEF OutSignalWait, Pass, Owns, Callback,
       TypeRest, Packets, Signals
  <2> QED BY <2>1, <2>2, TypeSplit
<1>5. CASE OutIndWait
    <2>3. UNCHANGED <<moreFrames, ready, enableFakeOut, held, attached, moreFramesOut,
     eof, outReady, firstOut, isEnableFakeOut>>
    BY <1>0, <1>5 DEF OutIndWait, Pass, Owns, Returned0, Redo
  <2>4. startedTimeOutBufEmpty' \in BOOLEAN
    BY <1>0, <1>5, Zenon DEF OutIndWait, Pass, Owns, Returned0, Redo, TypeFlags
  <2>5. countOut' \in BOOLEAN
    BY <1>0, <1>5, Zenon DEF OutIndWait, Pass, Owns, Returned0, Redo, TypeFlags
  <2>6. inData' \in BOOLEAN
    BY <1>0, <1>5, Zenon DEF OutIndWait, Pass, Owns, Returned0, Redo, TypeFlags
  <2>7. outEof' \in BOOLEAN
    BY <1>0, <1>5, Zenon DEF OutIndWait, Pass, Owns, Returned0, Redo, TypeFlags
  <2>8. lastChar' \in BOOLEAN
    BY <1>0, <1>5, Zenon DEF OutIndWait, Pass, Owns, Returned0, Redo, TypeFlags
  <2>1. TypeFlags'
    BY <1>0, <2>3, <2>4, <2>5, <2>6, <2>7, <2>8 DEF TypeFlags
  <2>2. TypeRest'
    BY <1>0, <1>5, ConstantFacts, NextSeqIs DEF OutIndWait, Pass, Owns, Returned0,
       Redo, TypeRest, Packets, Signals
  <2> QED BY <2>1, <2>2, TypeSplit
<1>6. CASE OutData
    <2>3. UNCHANGED <<moreFrames, ready, enableFakeOut, held, attached, moreFramesOut,
     eof, outReady, firstOut, isEnableFakeOut>>
    BY <1>0, <1>6 DEF OutData, Pass, Owns, GetSome, GetEnd, Taken, AfterGet, Callback,
       Emit, Redo, Full
  <2>4. startedTimeOutBufEmpty' \in BOOLEAN
    BY <1>0, <1>6, Zenon DEF OutData, Pass, Owns, GetSome, GetEnd, Taken, AfterGet,
       Callback, Emit, Redo, Full, TypeFlags
  <2>5. countOut' \in BOOLEAN
    BY <1>0, <1>6, Zenon DEF OutData, Pass, Owns, GetSome, GetEnd, Taken, AfterGet,
       Callback, Emit, Redo, Full, TypeFlags
  <2>6. inData' \in BOOLEAN
    BY <1>0, <1>6, Zenon DEF OutData, Pass, Owns, GetSome, GetEnd, Taken, AfterGet,
       Callback, Emit, Redo, Full, TypeFlags
  <2>7. outEof' \in BOOLEAN
    BY <1>0, <1>6, Zenon DEF OutData, Pass, Owns, GetSome, GetEnd, Taken, AfterGet,
       Callback, Emit, Redo, Full, TypeFlags
  <2>8. lastChar' \in BOOLEAN
    BY <1>0, <1>6, Zenon DEF OutData, Pass, Owns, GetSome, GetEnd, Taken, AfterGet,
       Callback, Emit, Redo, Full, TypeFlags
  <2>1. TypeFlags'
    BY <1>0, <2>3, <2>4, <2>5, <2>6, <2>7, <2>8 DEF TypeFlags
  <2>2. TypeRest'
    <3>1. queued' \in 0..queued
      BY <1>6, SomeFacts, EndFacts DEF OutData, SendInv
    <3> QED BY <1>0, <1>6, <3>1, ConstantFacts, AfterGetIs DEF OutData, Pass, Owns,
            Callback, Emit, Redo, Full, TypeRest, Packets
  <2> QED BY <2>1, <2>2, TypeSplit
<1>7. CASE OutDataNone
    <2>3. UNCHANGED <<moreFrames, ready, enableFakeOut, held, attached, moreFramesOut,
     eof, countOut, outReady, firstOut, isEnableFakeOut>>
    BY <1>0, <1>7 DEF OutDataNone, Pass, Owns, GetNone, Taken, BufEmpty, Callback,
       WaitData, Full
  <2>4. startedTimeOutBufEmpty' \in BOOLEAN
    BY <1>0, <1>7, Zenon DEF OutDataNone, Pass, Owns, GetNone, Taken, BufEmpty,
       Callback, WaitData, Full, TypeFlags
  <2>5. inData' \in BOOLEAN
    BY <1>0, <1>7, Zenon DEF OutDataNone, Pass, Owns, GetNone, Taken, BufEmpty,
       Callback, WaitData, Full, TypeFlags
  <2>6. outEof' \in BOOLEAN
    BY <1>0, <1>7, Zenon DEF OutDataNone, Pass, Owns, GetNone, Taken, BufEmpty,
       Callback, WaitData, Full, TypeFlags
  <2>7. lastChar' \in BOOLEAN
    BY <1>0, <1>7, Zenon DEF OutDataNone, Pass, Owns, GetNone, Taken, BufEmpty,
       Callback, WaitData, Full, TypeFlags
  <2>1. TypeFlags'
    BY <1>0, <2>3, <2>4, <2>5, <2>6, <2>7 DEF TypeFlags
  <2>2. TypeRest'
    <3>1. queued' = 0
      BY <1>7, OutDataNoneIs, NoneFacts DEF SendInv
    <3> QED BY <1>0, <1>7, <3>1, OutDataNoneIs, ConstantFacts DEF Pass, Owns, Callback,
            WaitData, TypeRest, Packets
  <2> QED BY <2>1, <2>2, TypeSplit
<1>8. CASE OutNone
    <2>3. UNCHANGED <<moreFrames, ready, enableFakeOut, held, attached, moreFramesOut,
     eof, countOut, inData, outEof, lastChar, outReady, firstOut, isEnableFakeOut>>
    BY <1>0, <1>8 DEF OutNone, BufEmpty, Callback, WaitData
  <2>4. startedTimeOutBufEmpty' \in BOOLEAN
    BY <1>0, <1>8, Zenon DEF OutNone, BufEmpty, Callback, WaitData, TypeFlags
  <2>1. TypeFlags'
    BY <1>0, <2>3, <2>4 DEF TypeFlags
  <2>2. TypeRest'
    BY <1>0, <1>8, ConstantFacts, NextSeqIs DEF OutNone, BufEmpty, Callback, WaitData,
       TypeRest, Packets, Signals
  <2> QED BY <2>1, <2>2, TypeSplit
<1>9. CASE OutRawFcs
    <2>3. UNCHANGED <<moreFrames, ready, enableFakeOut, held, attached, moreFramesOut,
     eof, startedTimeOutBufEmpty, outReady, firstOut, isEnableFakeOut>>
    BY <1>0, <1>9 DEF OutRawFcs, Pass, Owns, Taken, Callback, Emit, Redo, Full
  <2>4. countOut' \in BOOLEAN
    BY <1>0, <1>9, Zenon DEF OutRawFcs, Pass, Owns, Taken, Callback, Emit, Redo, Full,
       TypeFlags
  <2>5. inData' \in BOOLEAN
    BY <1>0, <1>9, Zenon DEF OutRawFcs, Pass, Owns, Taken, Callback, Emit, Redo, Full,
       TypeFlags
  <2>6. outEof' \in BOOLEAN
    BY <1>0, <1>9, Zenon DEF OutRawFcs, Pass, Owns, Taken, Callback, Emit, Redo, Full,
       TypeFlags
  <2>7. lastChar' \in BOOLEAN
    BY <1>0, <1>9, Zenon DEF OutRawFcs, Pass, Owns, Taken, Callback, Emit, Redo, Full,
       TypeFlags
  <2>1. TypeFlags'
    BY <1>0, <2>3, <2>4, <2>5, <2>6, <2>7 DEF TypeFlags
  <2>2. TypeRest'
    BY <1>0, <1>9, ConstantFacts, NextSeqIs DEF OutRawFcs, Pass, Owns, Taken,
       Callback, Emit, Redo, Full, TypeRest, Packets, Signals
  <2> QED BY <2>1, <2>2, TypeSplit
<1>10. CASE OutHdlcFcs
    <2>3. UNCHANGED <<moreFrames, ready, enableFakeOut, held, attached, moreFramesOut,
     outEof, startedTimeOutBufEmpty, outReady, firstOut, isEnableFakeOut>>
    BY <1>0, <1>10 DEF OutHdlcFcs, Pass, Owns, Returned0, Callback, Emit, Redo
  <2>4. eof' \in BOOLEAN
    BY <1>0, <1>10, Zenon DEF OutHdlcFcs, Pass, Owns, Returned0, Callback, Emit, Redo,
       TypeFlags
  <2>5. countOut' \in BOOLEAN
    BY <1>0, <1>10, Zenon DEF OutHdlcFcs, Pass, Owns, Returned0, Callback, Emit, Redo,
       TypeFlags
  <2>6. inData' \in BOOLEAN
    BY <1>0, <1>10, Zenon DEF OutHdlcFcs, Pass, Owns, Returned0, Callback, Emit, Redo,
       TypeFlags
  <2>7. lastChar' \in BOOLEAN
    BY <1>0, <1>10, Zenon DEF OutHdlcFcs, Pass, Owns, Returned0, Callback, Emit, Redo,
       TypeFlags
  <2>1. TypeFlags'
    BY <1>0, <2>3, <2>4, <2>5, <2>6, <2>7 DEF TypeFlags
  <2>2. TypeRest'
    BY <1>0, <1>10, ConstantFacts, NextSeqIs DEF OutHdlcFcs, Pass, Owns, Returned0,
       Callback, Emit, Redo, TypeRest, Packets, Signals
  <2> QED BY <2>1, <2>2, TypeSplit
<1>11. CASE OutDataNoSig
    <2>3. UNCHANGED <<moreFrames, ready, enableFakeOut, held, attached, moreFramesOut,
     eof, countOut, inData, outEof, lastChar, startedTimeOutBufEmpty, outReady,
     firstOut, isEnableFakeOut>>
    BY <1>0, <1>11 DEF OutDataNoSig, Pass, Owns, Returned0, Callback
  <2>1. TypeFlags'
    BY <1>0, <2>3 DEF TypeFlags
  <2>2. TypeRest'
    BY <1>0, <1>11, ConstantFacts, NextSeqIs DEF OutDataNoSig, Pass, Owns, Returned0,
       Callback, TypeRest, Packets, Signals
  <2> QED BY <2>1, <2>2, TypeSplit
<1>12. CASE OutNoSig
    <2>3. UNCHANGED <<moreFrames, ready, enableFakeOut, held, attached, moreFramesOut,
     eof, countOut, inData, outEof, lastChar, startedTimeOutBufEmpty, outReady,
     firstOut, isEnableFakeOut>>
    BY <1>0, <1>12 DEF OutNoSig, Pass, Owns, Emit
  <2>1. TypeFlags'
    BY <1>0, <2>3 DEF TypeFlags
  <2>2. TypeRest'
    BY <1>0, <1>12, ConstantFacts, NextSeqIs DEF OutNoSig, Pass, Owns, Emit, TypeRest,
       Packets, Signals
  <2> QED BY <2>1, <2>2, TypeSplit
<1>13. CASE CallbackBack
    <2>3. UNCHANGED <<moreFrames, ready, enableFakeOut, held, attached, moreFramesOut,
     eof, countOut, inData, outEof, lastChar, startedTimeOutBufEmpty, outReady,
     firstOut, isEnableFakeOut>>
    BY <1>0, <1>13 DEF CallbackBack, Owns, Returned0, Redo, WaitData, Emit
  <2>1. TypeFlags'
    BY <1>0, <2>3 DEF TypeFlags
  <2>2. TypeRest'
    BY <1>0, <1>13, ConstantFacts, NextSeqIs DEF CallbackBack, Owns, Returned0, Redo,
       WaitData, Emit, TypeRest, Packets, Signals
  <2> QED BY <2>1, <2>2, TypeSplit
<1>14. CASE WaitOutDataReady
    <2>3. UNCHANGED <<moreFrames, ready, enableFakeOut, held, attached, moreFramesOut,
     eof, countOut, inData, outEof, lastChar, startedTimeOutBufEmpty, firstOut,
     isEnableFakeOut>>
    BY <1>0, <1>14 DEF WaitOutDataReady, Redo
  <2>4. outReady' \in BOOLEAN
    BY <1>0, <1>14, Zenon DEF WaitOutDataReady, Redo, TypeFlags
  <2>1. TypeFlags'
    BY <1>0, <2>3, <2>4 DEF TypeFlags
  <2>2. TypeRest'
    BY <1>0, <1>14, ConstantFacts, NextSeqIs DEF WaitOutDataReady, Redo, TypeRest,
       Packets, Signals
  <2> QED BY <2>1, <2>2, TypeSplit
<1>15. ASSUME NEW w \in Writer, PrepareEnter(w) PROVE TypeOK'
    <2>3. UNCHANGED <<moreFrames, ready, enableFakeOut, held, attached, moreFramesOut,
     eof, countOut, inData, outEof, lastChar, startedTimeOutBufEmpty, outReady,
     isEnableFakeOut>>
    BY <1>0, <1>15 DEF PrepareEnter, Returned0
  <2>4. firstOut' \in BOOLEAN
    BY <1>0, <1>15, Zenon DEF PrepareEnter, Returned0, TypeFlags
  <2>1. TypeFlags'
    BY <1>0, <2>3, <2>4 DEF TypeFlags
  <2>2. TypeRest'
    BY <1>0, <1>15, ConstantFacts, NextSeqIs DEF PrepareEnter, Returned0, TypeRest,
       Packets, Signals
  <2> QED BY <2>1, <2>2, TypeSplit
<1> QED BY <1>1, <1>2, <1>3, <1>4, <1>5, <1>6, <1>7, <1>8, <1>9, <1>10, <1>11, <1>12,
   <1>13, <1>14, <1>15 DEF PreparePacket

(* The steps that are neither of the two threads                           *)
Others ==
  \/ OnEngineCallback \/ ClearCall \/ SignalDataReady
  \/ \E s \in Stream : StreamOpen(s) \/ StreamClose(s)
  \/ \E f \in Fake : FakeOpen(f) \/ FakeClose(f)
(* .. and by callbacks and owners                                          *)
LEMMA OthersType ==
  ASSUME TypeOK, Others
  PROVE  TypeOK'
<1> USE DEF bodyVars, hdlcVars, sendVars, bufVars,
            ownVars, outVars, outSide, passSide, bodySide, ownSide
<1>0. TypeFlags /\ TypeRest
  BY TypeSplit
<1>1. CASE OnEngineCallback
    <2>3. UNCHANGED <<moreFrames, enableFakeOut, held, attached, moreFramesOut, eof,
     countOut, inData, outEof, lastChar, startedTimeOutBufEmpty, outReady, firstOut,
     isEnableFakeOut>>
    BY <1>0, <1>1 DEF OnEngineCallback
  <2>4. ready' \in BOOLEAN
    BY <1>0, <1>1, Zenon DEF OnEngineCallback, TypeFlags
  <2>1. TypeFlags'
    BY <1>0, <2>3, <2>4 DEF TypeFlags
  <2>2. TypeRest'
    BY <1>0, <1>1, ConstantFacts, NextSeqIs DEF OnEngineCallback, TypeRest, Packets,
       Signals
  <2> QED BY <2>1, <2>2, TypeSplit
<1>2. CASE ClearCall
    <2>3. UNCHANGED <<moreFrames, held, attached, moreFramesOut, eof, countOut,
     inData, outEof, lastChar, startedTimeOutBufEmpty, outReady, firstOut,
     isEnableFakeOut>>
    BY <1>0, <1>2 DEF ClearCall
  <2>4. enableFakeOut' \in BOOLEAN
    BY <1>0, <1>2, Zenon DEF ClearCall, TypeFlags
  <2>5. ready' \in BOOLEAN
    BY <1>0, <1>2, Zenon DEF ClearCall, TypeFlags
  <2>1. TypeFlags'
    BY <1>0, <2>3, <2>4, <2>5 DEF TypeFlags
  <2>2. TypeRest'
    BY <1>0, <1>2, ConstantFacts, NextSeqIs DEF ClearCall, TypeRest, Packets, Signals
  <2> QED BY <2>1, <2>2, TypeSplit
<1>3. CASE SignalDataReady
    <2>3. UNCHANGED <<moreFrames, enableFakeOut, held, attached, moreFramesOut, eof,
     countOut, inData, outEof, lastChar, startedTimeOutBufEmpty, outReady, firstOut,
     isEnableFakeOut>>
    BY <1>0, <1>3 DEF SignalDataReady
  <2>4. ready' \in BOOLEAN
    BY <1>0, <1>3, Zenon DEF SignalDataReady, TypeFlags
  <2>1. TypeFlags'
    BY <1>0, <2>3, <2>4 DEF TypeFlags
  <2>2. TypeRest'
    BY <1>0, <1>3, ConstantFacts, NextSeqIs DEF SignalDataReady, TypeRest, Packets,
       Signals
  <2> QED BY <2>1, <2>2, TypeSplit
<1>4. ASSUME NEW s \in Stream, StreamOpen(s) PROVE TypeOK'
    <2>3. UNCHANGED <<moreFrames, enableFakeOut, held, attached, moreFramesOut, eof,
     countOut, inData, outEof, lastChar, startedTimeOutBufEmpty, isEnableFakeOut>>
    BY <1>0, <1>4 DEF StreamOpen, Woken
  <2>4. firstOut' \in BOOLEAN
    BY <1>0, <1>4, Zenon DEF StreamOpen, Woken, TypeFlags
  <2>5. ready' \in BOOLEAN
    BY <1>0, <1>4, Zenon DEF StreamOpen, Woken, TypeFlags
  <2>6. outReady' \in BOOLEAN
    BY <1>0, <1>4, Zenon DEF StreamOpen, Woken, TypeFlags
  <2>1. TypeFlags'
    BY <1>0, <2>3, <2>4, <2>5, <2>6 DEF TypeFlags
  <2>2. TypeRest'
    BY <1>0, <1>4, ConstantFacts, NextSeqIs DEF StreamOpen, Woken, TypeRest, Packets,
       Signals
  <2> QED BY <2>1, <2>2, TypeSplit
<1>5. ASSUME NEW s \in Stream, StreamClose(s) PROVE TypeOK'
    <2>3. UNCHANGED <<moreFrames, enableFakeOut, held, attached, moreFramesOut, eof,
     countOut, inData, outEof, lastChar, startedTimeOutBufEmpty, firstOut>>
    BY <1>0, <1>5 DEF StreamClose, Woken
  <2>4. isEnableFakeOut' \in BOOLEAN
    BY <1>0, <1>5, Zenon DEF StreamClose, Woken, TypeFlags
  <2>5. ready' \in BOOLEAN
    BY <1>0, <1>5, Zenon DEF StreamClose, Woken, TypeFlags
  <2>6. outReady' \in BOOLEAN
    BY <1>0, <1>5, Zenon DEF StreamClose, Woken, TypeFlags
  <2>1. TypeFlags'
    BY <1>0, <2>3, <2>4, <2>5, <2>6 DEF TypeFlags
  <2>2. TypeRest'
    BY <1>0, <1>5, ConstantFacts, NextSeqIs DEF StreamClose, Woken, TypeRest, Packets,
       Signals
  <2> QED BY <2>1, <2>2, TypeSplit
<1>6. ASSUME NEW f \in Fake, FakeOpen(f) PROVE TypeOK'
    <2>3. UNCHANGED <<moreFrames, enableFakeOut, held, attached, moreFramesOut, eof,
     countOut, inData, outEof, lastChar, startedTimeOutBufEmpty, outReady,
     isEnableFakeOut>>
    BY <1>0, <1>6 DEF FakeOpen, Woken
  <2>4. firstOut' \in BOOLEAN
    BY <1>0, <1>6, Zenon DEF FakeOpen, Woken, TypeFlags
  <2>5. ready' \in BOOLEAN
    BY <1>0, <1>6, Zenon DEF FakeOpen, Woken, TypeFlags
  <2>1. TypeFlags'
    BY <1>0, <2>3, <2>4, <2>5 DEF TypeFlags
  <2>2. TypeRest'
    BY <1>0, <1>6, ConstantFacts, NextSeqIs DEF FakeOpen, Woken, TypeRest, Packets,
       Signals
  <2> QED BY <2>1, <2>2, TypeSplit
<1>7. ASSUME NEW f \in Fake, FakeClose(f) PROVE TypeOK'
    <2>3. UNCHANGED <<moreFrames, enableFakeOut, held, attached, moreFramesOut, eof,
     countOut, inData, outEof, lastChar, startedTimeOutBufEmpty, firstOut,
     isEnableFakeOut>>
    BY <1>0, <1>7 DEF FakeClose, Woken
  <2>4. ready' \in BOOLEAN
    BY <1>0, <1>7, Zenon DEF FakeClose, Woken, TypeFlags
  <2>5. outReady' \in BOOLEAN
    BY <1>0, <1>7, Zenon DEF FakeClose, Woken, TypeFlags
  <2>1. TypeFlags'
    BY <1>0, <2>3, <2>4, <2>5 DEF TypeFlags
  <2>2. TypeRest'
    BY <1>0, <1>7, ConstantFacts, NextSeqIs DEF FakeClose, Woken, TypeRest, Packets,
       Signals
  <2> QED BY <2>1, <2>2, TypeSplit
<1> QED BY <1>1, <1>2, <1>3, <1>4, <1>5, <1>6, <1>7 DEF Others

(* The engine thread preserves the invariant.                              *)
LEMMA EngineInv ==
  ASSUME TypeOK, SendInv, EngineThread
  PROVE  SendInv'
<1> USE DEF bodyVars, hdlcVars, sendVars, bufVars,
            ownVars, outVars, outSide, passSide, bodySide, ownSide,
            Sending, Flies, Tones, DataTypes, Accepts, isStateModemOut, Owns, Full,
            NoLostOutWakeup, NothingLeft, Aborted, Coming, Packets, Follows, SendInv,
            Takes, Dropped, NoneFlies, Abandoned, RawCarrier, Input, InLoop
<1>0. TypeFlags /\ TypeRest
  BY TypeSplit
<1>1. CASE SendCed
  <2>1. (InvBody /\ InvSend /\ AckPending /\ InvSeq /\ InvOut /\ InvWait)'
    BY <1>1 DEF SendCed, CanSend, SendStart, engineIdle, InvBody, InvSend, AckPending,
       InvSeq, InvOut, InvWait
  <2>2. InvData'
    BY <1>0, <1>1, ConstantFacts DEF SendCed, CanSend, SendStart, engineIdle, InvData,
       InvOut, TypeRest
  <2>3. InvHeld'
    BY <1>0, <1>1, ConstantFacts DEF SendCed, CanSend, SendStart, engineIdle, InvHeld,
       InvBody, TypeRest
  <2>4. InvWire'
    BY <1>0, <1>1, ConstantFacts DEF SendCed, CanSend, SendStart, engineIdle, InvWire,
       InvOut, TypeRest
  <2> QED BY <2>1, <2>2, <2>3, <2>4 DEF SendInv
<1>2. CASE SendSilence
  <2>1. (InvBody /\ InvSend /\ AckPending /\ InvSeq /\ InvOut /\ InvWait)'
    BY <1>2 DEF SendSilence, CanSend, SendStart, engineIdle, InvBody, InvSend,
       AckPending, InvSeq, InvOut, InvWait
  <2>2. InvData'
    BY <1>0, <1>2, ConstantFacts DEF SendSilence, CanSend, SendStart, engineIdle,
       InvData, InvOut, TypeRest
  <2>3. InvHeld'
    BY <1>0, <1>2, ConstantFacts DEF SendSilence, CanSend, SendStart, engineIdle,
       InvHeld, InvBody, TypeRest
  <2>4. InvWire'
    BY <1>0, <1>2, ConstantFacts DEF SendSilence, CanSend, SendStart, engineIdle,
       InvWire, InvOut, TypeRest
  <2> QED BY <2>1, <2>2, <2>3, <2>4 DEF SendInv
<1>3. CASE StopSignal
  <2>1. (InvBody /\ AckPending /\ InvOut /\ InvData /\ InvWait /\ InvHeld /\ InvWire)'
    BY <1>3 DEF StopSignal, CanStop, SendStop, engineIdle, InvBody, AckPending,
       InvOut, InvData, InvWait, InvHeld, InvWire
  <2>2. InvSend'
    BY <1>0, <1>3, ConstantFacts, NextSeqIs DEF StopSignal, CanStop, SendStop,
       engineIdle, InvSend, InvBody, TypeRest
  <2>3. InvSeq'
    BY <1>0, <1>3, ConstantFacts, NextSeqIs DEF StopSignal, CanStop, SendStop,
       engineIdle, InvSeq, InvBody, TypeRest
  <2> QED BY <2>1, <2>2, <2>3 DEF SendInv
<1>4. CASE CheckBufEmpty
  <2>1. (InvBody /\ AckPending /\ InvOut /\ InvWait /\ InvHeld /\ InvWire)'
    BY <1>4 DEF CheckBufEmpty, StopFrame, CanStop, SendStop, engineIdle, InvBody,
       AckPending, InvOut, InvWait, InvHeld, InvWire
  <2>2. InvSend'
    BY <1>0, <1>4, ConstantFacts, NextSeqIs DEF CheckBufEmpty, StopFrame, CanStop,
       SendStop, engineIdle, InvSend, InvSeq, TypeRest
  <2>3. InvSeq'
    BY <1>0, <1>4, ConstantFacts, NextSeqIs DEF CheckBufEmpty, StopFrame, CanStop,
       SendStop, engineIdle, InvSeq, InvBody, InvSend, TypeRest
  <2>4. InvData'
    BY <1>0, <1>4, ConstantFacts DEF CheckBufEmpty, StopFrame, CanStop, SendStop,
       engineIdle, InvData, InvSend, TypeRest
  <2> QED BY <2>1, <2>2, <2>3, <2>4 DEF SendInv
<1>5. CASE CheckAck
  <2>1. (InvBody /\ AckPending /\ InvSeq /\ InvOut /\ InvWait)'
    BY <1>5 DEF CheckAck, CanSend, SendStart, engineIdle, InvBody, AckPending, InvSeq,
       InvOut, InvWait
  <2>2. InvSend'
    <3>1. CASE dataType = "dtCed"
      BY <1>0, <1>5, <3>1 DEF CheckAck, CanSend, SendStart, engineIdle, InvSend,
         TypeFlags, TypeRest
    <3>2. CASE dataType # "dtCed"
      <4>1. dataType # "dtSilence" => ~moreFrames'
        BY <1>5 DEF CheckAck
      <4>2. /\ state = "stSendAckHandle" /\ dataType' = dataType
            /\ state' \in {"stSend", "stCommand"}
            /\ state' = "stSend" => dataType # "dtSilence" /\ moreFrames
            /\ UNCHANGED <<sendVars, bufVars, outPc, cb, seq>>
        BY <1>5, <3>2 DEF CheckAck, engineIdle
      <4> QED BY <1>0, <3>2, <4>1, <4>2 DEF InvSend, TypeFlags, TypeRest
    <3> QED BY <3>1, <3>2
  <2>3. InvData'
    BY <1>0, <1>5, ConstantFacts DEF CheckAck, CanSend, SendStart, engineIdle,
       InvData, InvOut, TypeRest
  <2>4. InvHeld'
    BY <1>0, <1>5, ConstantFacts DEF CheckAck, CanSend, SendStart, engineIdle,
       InvHeld, InvBody, TypeRest
  <2>5. InvWire'
    BY <1>0, <1>5, ConstantFacts DEF CheckAck, CanSend, SendStart, engineIdle,
       InvWire, InvOut, TypeRest
  <2> QED BY <2>1, <2>2, <2>3, <2>4, <2>5 DEF SendInv
<1>6. CASE CheckOther
  <2>1. (InvBody /\ InvSend /\ AckPending /\ InvSeq /\ InvOut /\ InvData /\ InvWait /\
       InvHeld /\ InvWire)'
    BY <1>6 DEF CheckOther, engineIdle, InvBody, InvSend, AckPending, InvSeq, InvOut,
       InvData, InvWait, InvHeld, InvWire
  <2> QED BY <2>1 DEF SendInv
<1>7. CASE CmdSend
  <2>1. (InvBody /\ InvSend /\ AckPending /\ InvSeq /\ InvOut /\ InvWait /\ InvHeld)'
    BY <1>7 DEF CmdSend, CanSend, SendStart, engineIdle, InvBody, InvSend, AckPending,
       InvSeq, InvOut, InvWait, InvHeld
  <2>2. InvData'
    BY <1>0, <1>7, ConstantFacts DEF CmdSend, CanSend, SendStart, engineIdle, InvData,
       InvOut, TypeRest
  <2>3. InvWire'
    BY <1>0, <1>7, ConstantFacts DEF CmdSend, CanSend, SendStart, engineIdle, InvWire,
       InvOut, TypeRest
  <2> QED BY <2>1, <2>2, <2>3 DEF SendInv
<1>8. CASE SendData
  <2>1. (InvBody /\ InvSend /\ AckPending /\ InvSeq /\ InvOut /\ InvData /\ InvWait /\
       InvHeld /\ InvWire)'
    BY <1>8 DEF SendData, CanStop, engineIdle, InvBody, InvSend, AckPending, InvSeq,
       InvOut, InvData, InvWait, InvHeld, InvWire
  <2> QED BY <2>1 DEF SendInv
<1>9. CASE SendEtx
  <2>1. (InvBody /\ AckPending /\ InvOut /\ InvWait /\ InvHeld /\ InvWire)'
    BY <1>9 DEF SendEtx, StopFrame, CanStop, SendStop, engineIdle, InvBody,
       AckPending, InvOut, InvWait, InvHeld, InvWire
  <2>2. InvSend'
    BY <1>0, <1>9, ConstantFacts, NextSeqIs DEF SendEtx, StopFrame, CanStop, SendStop,
       engineIdle, InvBody, InvSend, InvSeq, TypeRest
  <2>3. InvSeq'
    BY <1>0, <1>9, ConstantFacts, NextSeqIs DEF SendEtx, StopFrame, CanStop, SendStop,
       engineIdle, InvSeq, InvBody, InvSend, TypeRest
  <2>4. InvData'
    BY <1>0, <1>9, ConstantFacts DEF SendEtx, StopFrame, CanStop, SendStop,
       engineIdle, InvBody, InvData, InvSend, TypeRest
  <2> QED BY <2>1, <2>2, <2>3, <2>4 DEF SendInv
<1>10. CASE Abort
  <2>1. (InvBody /\ InvSend /\ AckPending /\ InvSeq /\ InvOut /\ InvData /\ InvHeld /\
       InvWire)'
    BY <1>10 DEF Abort, ResetModemState, InvBody, InvSend, AckPending, InvSeq, InvOut,
       InvData, InvHeld, InvWire
  <2>2. InvWait'
    BY <1>0, <1>10, ConstantFacts DEF Abort, ResetModemState, InvWait, InvOut,
       TypeRest
  <2> QED BY <2>1, <2>2 DEF SendInv
<1>11. CASE Detach
  <2>1. (InvBody /\ InvSend /\ AckPending /\ InvSeq /\ InvOut /\ InvData /\ InvWait /\
       InvHeld /\ InvWire)'
    BY <1>11 DEF Detach, ResetModemState, InvBody, InvSend, AckPending, InvSeq,
       InvOut, InvData, InvWait, InvHeld, InvWire
  <2> QED BY <2>1 DEF SendInv
<1>12. CASE CheckStatePost
  <2>1. InvBody'
    BY <1>12 DEF CheckStatePost, InvBody
  <2>2. (InvSend /\ AckPending /\ InvSeq /\ InvOut /\ InvData)'
    BY <1>12 DEF CheckStatePost, InvSend, AckPending, InvSeq, InvOut, InvData
  <2>3. InvWait'
    BY <1>12 DEF CheckStatePost, InvWait
  <2>4. InvHeld'
    BY <1>12 DEF CheckStatePost, InvHeld
  <2>5. InvWire'
    BY <1>12 DEF CheckStatePost, InvWire
  <2> QED BY <2>1, <2>2, <2>3, <2>4, <2>5 DEF SendInv
<1>13. CASE EnableFakeOn
  <2>1. (InvBody /\ InvSend /\ AckPending /\ InvSeq /\ InvOut /\ InvData)'
    BY <1>13 DEF EnableFakeOn, InvBody, InvSend, AckPending, InvSeq, InvOut, InvData
  <2>2. InvWait'
    BY <1>13 DEF EnableFakeOn, InvWait
  <2>3. InvHeld'
    BY <1>13 DEF EnableFakeOn, InvHeld
  <2>4. InvWire'
    BY <1>13 DEF EnableFakeOn, InvWire
  <2> QED BY <2>1, <2>2, <2>3, <2>4 DEF SendInv
<1>14. CASE EnableFakeOff
  <2>1. (InvBody /\ InvSend /\ AckPending /\ InvSeq /\ InvOut /\ InvData)'
    BY <1>14 DEF EnableFakeOff, InvBody, InvSend, AckPending, InvSeq, InvOut, InvData
  <2>2. InvWait'
    BY <1>14 DEF EnableFakeOff, InvWait
  <2>3. InvHeld'
    BY <1>14 DEF EnableFakeOff, InvHeld
  <2>4. InvWire'
    BY <1>14 DEF EnableFakeOff, InvWire
  <2> QED BY <2>1, <2>2, <2>3, <2>4 DEF SendInv
<1>15. CASE WaitDataReady
  <2>1. (InvBody /\ InvSend /\ AckPending /\ InvSeq /\ InvOut /\ InvData /\ InvWait /\
       InvHeld /\ InvWire)'
    BY <1>15 DEF WaitDataReady, InvBody, InvSend, AckPending, InvSeq, InvOut, InvData,
       InvWait, InvHeld, InvWire
  <2> QED BY <2>1 DEF SendInv
<1>16. CASE ReadDone
  <2>1. (InvBody /\ InvSend /\ AckPending /\ InvSeq /\ InvOut /\ InvData /\ InvWait /\
       InvHeld /\ InvWire)'
    BY <1>16 DEF ReadDone, InvBody, InvSend, AckPending, InvSeq, InvOut, InvData,
       InvWait, InvHeld, InvWire
  <2> QED BY <2>1 DEF SendInv
<1> QED BY <1>1, <1>2, <1>3, <1>4, <1>5, <1>6, <1>7, <1>8, <1>9, <1>10, <1>11, <1>12,
   <1>13, <1>14, <1>15, <1>16 DEF EngineThread

(* A pass over the data of the signal: something was read, or its end.     *)
LEMMA OutDataInv ==
  ASSUME TypeOK, SendInv, OutData
  PROVE  SendInv'
<1> USE DEF bodyVars, hdlcVars, sendVars, bufVars,
            ownVars, outVars, outSide, passSide, bodySide, ownSide,
            Sending, Flies, Tones, DataTypes, Accepts, isStateModemOut, Owns, Full,
            NoLostOutWakeup, NothingLeft, Aborted, Coming, Packets, Follows, SendInv,
            Takes, Dropped, NoneFlies, Abandoned, RawCarrier
<1>0. TypeFlags /\ TypeRest
  BY TypeSplit
<1>1. CASE GetSome /\ AfterGet("data") /\ stateOut' = stateOut /\ countOut'
  <2>0. /\ queued' \in 0..queued /\ (eof' <=> eof)
        /\ ~inData' => queued' = 0 /\ eof
        /\ ModParsOut # "rawHdlc" => ~outEof' /\ inData'
    BY <1>1, SomeFacts DEF OutData
  <2>1. InvBody'
    BY <1>0, <1>1, <2>0, AfterGetIs, ConstantFacts DEF OutData, Pass, Callback, Emit,
       Redo, TypeFlags, TypeRest, InvBody, InvOut
  <2>2. InvSend'
    BY <1>0, <1>1, <2>0, AfterGetIs, ConstantFacts DEF OutData, Pass, Callback, Emit,
       Redo, TypeFlags, TypeRest, InvSend, InvOut
  <2>3. AckPending'
    BY <1>0, <1>1, <2>0, AfterGetIs, ConstantFacts DEF OutData, Pass, Callback, Emit,
       Redo, TypeFlags, TypeRest, AckPending
  <2>4. InvSeq'
    BY <1>0, <1>1, <2>0, AfterGetIs, ConstantFacts DEF OutData, Pass, Callback, Emit,
       Redo, TypeFlags, TypeRest, InvSeq, InvOut
  <2>5. InvOut'
    BY <1>0, <1>1, <2>0, AfterGetIs, ConstantFacts DEF OutData, Pass, Callback, Emit,
       Redo, TypeFlags, TypeRest, InvOut, InvData
  <2>6. InvData'
    BY <1>0, <1>1, <2>0, AfterGetIs, ConstantFacts DEF OutData, Pass, Callback, Emit,
       Redo, TypeFlags, TypeRest, InvData, InvOut
  <2>7. InvWait'
    BY <1>0, <1>1, <2>0, AfterGetIs, ConstantFacts DEF OutData, Pass, Callback, Emit,
       Redo, TypeFlags, TypeRest, InvWait, InvData
  <2>8. InvHeld'
    BY <1>0, <1>1, <2>0, AfterGetIs, ConstantFacts DEF OutData, Pass, Callback, Emit,
       Redo, TypeFlags, TypeRest, InvHeld, InvWait
  <2>9. InvWire'
    BY <1>0, <1>1, <2>0, AfterGetIs, ConstantFacts DEF OutData, Pass, Callback, Emit,
       Redo, TypeFlags, TypeRest, InvWire, InvData, InvOut, InvWait
  <2> QED BY <2>1, <2>2, <2>3, <2>4, <2>5, <2>6, <2>7, <2>8, <2>9
<1>2. CASE /\ GetEnd /\ AfterGet("redo") /\ (countOut' <=> countOut)
           /\ stateOut' = IF RawCarrier THEN "stOutDataNoSig" ELSE "stOutHdlcFcs"
  <2>0. /\ queued' \in 0..queued /\ (eof' <=> eof)
        /\ ~inData' => queued' = 0 /\ eof
        /\ ModParsOut \notin {"rawHdlc", "hdlcRaw"} =>
             ~outEof' /\ ~inData' /\ queued = 0 /\ eof
    BY <1>2, EndFacts DEF OutData
  <2>1. InvBody'
    BY <1>0, <1>2, <2>0, AfterGetIs, ConstantFacts DEF OutData, Pass, Callback, Emit,
       Redo, TypeFlags, TypeRest, InvBody, InvOut
  <2>2. InvSend'
    BY <1>0, <1>2, <2>0, AfterGetIs, ConstantFacts DEF OutData, Pass, Callback, Emit,
       Redo, TypeFlags, TypeRest, InvSend, InvOut
  <2>3. AckPending'
    BY <1>0, <1>2, <2>0, AfterGetIs, ConstantFacts DEF OutData, Pass, Callback, Emit,
       Redo, TypeFlags, TypeRest, AckPending
  <2>4. InvSeq'
    BY <1>0, <1>2, <2>0, AfterGetIs, ConstantFacts DEF OutData, Pass, Callback, Emit,
       Redo, TypeFlags, TypeRest, InvSeq, InvOut
  <2>5. InvOut'
    BY <1>0, <1>2, <2>0, AfterGetIs, ConstantFacts DEF OutData, Pass, Callback, Emit,
       Redo, TypeFlags, TypeRest, InvOut, InvData
  <2>6. InvData'
    BY <1>0, <1>2, <2>0, AfterGetIs, ConstantFacts DEF OutData, Pass, Callback, Emit,
       Redo, TypeFlags, TypeRest, InvData, InvOut
  <2>7. InvWait'
    BY <1>0, <1>2, <2>0, AfterGetIs, ConstantFacts DEF OutData, Pass, Callback, Emit,
       Redo, TypeFlags, TypeRest, InvWait, InvData
  <2>8. InvHeld'
    BY <1>0, <1>2, <2>0, AfterGetIs, ConstantFacts DEF OutData, Pass, Callback, Emit,
       Redo, TypeFlags, TypeRest, InvHeld, InvWait
  <2>9. InvWire'
    BY <1>0, <1>2, <2>0, AfterGetIs, ConstantFacts DEF OutData, Pass, Callback, Emit,
       Redo, TypeFlags, TypeRest, InvWire, InvData, InvOut, InvWait
  <2> QED BY <2>1, <2>2, <2>3, <2>4, <2>5, <2>6, <2>7, <2>8, <2>9
<1> QED BY <1>1, <1>2 DEF OutData

(* .. or nothing was there                                                 *)
LEMMA OutDataNoneInv ==
  ASSUME TypeOK, SendInv, OutDataNone
  PROVE  SendInv'
<1> USE DEF bodyVars, hdlcVars, sendVars, bufVars,
            ownVars, outVars, outSide, passSide, bodySide, ownSide,
            Sending, Flies, Tones, DataTypes, Accepts, isStateModemOut, Owns, Full,
            NoLostOutWakeup, NothingLeft, Aborted, Coming, Packets, Follows, SendInv,
            Takes, Dropped, NoneFlies, Abandoned, RawCarrier
<1>0. TypeFlags /\ TypeRest
  BY TypeSplit
<1>10. /\ queued' = 0 /\ (eof' <=> eof) /\ (inData' <=> inData)
       /\ outEof' <=> outEof
       /\ inData => ~eof
  BY OutDataNoneIs, NoneFacts
<1>1. InvBody'
  BY <1>0, <1>10, OutDataNoneIs, ConstantFacts DEF Pass, Callback, WaitData,
     TypeFlags, TypeRest, InvBody, InvOut
<1>2. InvSend'
  BY <1>0, <1>10, OutDataNoneIs, ConstantFacts DEF Pass, Callback, WaitData,
     TypeFlags, TypeRest, InvSend, InvOut
<1>3. AckPending'
  BY <1>0, <1>10, OutDataNoneIs, ConstantFacts DEF Pass, Callback, WaitData,
     TypeFlags, TypeRest, AckPending
<1>4. InvSeq'
  BY <1>0, <1>10, OutDataNoneIs, ConstantFacts DEF Pass, Callback, WaitData,
     TypeFlags, TypeRest, InvSeq, InvOut
<1>5. InvOut'
  BY <1>0, <1>10, OutDataNoneIs, ConstantFacts DEF Pass, Callback, WaitData,
     TypeFlags, TypeRest, InvOut, InvData
<1>6. InvData'
  BY <1>0, <1>10, OutDataNoneIs, ConstantFacts DEF Pass, Callback, WaitData,
     TypeFlags, TypeRest, InvData, InvOut
<1>7. InvWait'
  BY <1>0, <1>10, OutDataNoneIs, ConstantFacts DEF Pass, Callback, WaitData,
     TypeFlags, TypeRest, InvWait, InvData
<1>8. InvHeld'
  BY <1>0, <1>10, OutDataNoneIs, ConstantFacts DEF Pass, Callback, WaitData,
     TypeFlags, TypeRest, InvHeld, InvWait
<1>9. InvWire'
  BY <1>0, <1>10, OutDataNoneIs, ConstantFacts DEF Pass, Callback, WaitData,
     TypeFlags, TypeRest, InvWire, InvData, InvOut, InvWait
<1> QED BY <1>1, <1>2, <1>3, <1>4, <1>5, <1>6, <1>7, <1>8, <1>9

(* The thread in PreparePacket preserves it.                               *)
LEMMA PrepareInv ==
  ASSUME TypeOK, SendInv, PreparePacket
  PROVE  SendInv'
<1> USE DEF bodyVars, hdlcVars, sendVars, bufVars,
            ownVars, outVars, outSide, passSide, bodySide, ownSide,
            Sending, Flies, Tones, DataTypes, Accepts, isStateModemOut, Owns, Full,
            NoLostOutWakeup, NothingLeft, Aborted, Coming, Packets, Follows, SendInv,
            Takes, Dropped, NoneFlies, Abandoned, RawCarrier
<1>0. TypeFlags /\ TypeRest
  BY TypeSplit
<1>1. CASE OwnerLost
  <2>1. (InvBody /\ InvSend /\ AckPending /\ InvSeq /\ InvOut /\ InvData /\ InvWait /\
       InvHeld /\ InvWire)'
    BY <1>1 DEF OwnerLost, Returned0, InvBody, InvSend, AckPending, InvSeq, InvOut,
       InvData, InvWait, InvHeld, InvWire
  <2> QED BY <2>1 DEF SendInv
<1>2. CASE OutNothing
  <2>1. (InvBody /\ InvSend /\ AckPending /\ InvSeq /\ InvOut /\ InvData /\ InvWait /\
       InvHeld /\ InvWire)'
    BY <1>2 DEF OutNothing, Pass, WaitData, InvBody, InvSend, AckPending, InvSeq,
       InvOut, InvData, InvWait, InvHeld, InvWire
  <2> QED BY <2>1 DEF SendInv
<1>3. CASE OutIdle
  <2>1. (InvBody /\ InvSend /\ AckPending /\ InvSeq /\ InvOut /\ InvData /\ InvWait /\
       InvHeld /\ InvWire)'
    BY <1>3 DEF OutIdle, Pass, Emit, Redo, InvBody, InvSend, AckPending, InvSeq,
       InvOut, InvData, InvWait, InvHeld, InvWire
  <2> QED BY <2>1 DEF SendInv
<1>4. CASE OutSignalWait
  <2>1. (InvBody /\ AckPending /\ InvOut /\ InvData /\ InvWait /\ InvHeld /\ InvWire)'
    BY <1>4 DEF OutSignalWait, Pass, Callback, InvBody, AckPending, InvOut, InvData,
       InvWait, InvHeld, InvWire
  <2>2. InvSend'
    BY <1>0, <1>4, ConstantFacts DEF OutSignalWait, Pass, Callback, InvSend, InvOut,
       TypeRest
  <2>3. InvSeq'
    BY <1>0, <1>4, ConstantFacts DEF OutSignalWait, Pass, Callback, InvSeq, InvBody,
       InvOut, TypeRest
  <2> QED BY <2>1, <2>2, <2>3 DEF SendInv
<1>5. CASE OutIndWait
  <2>1. (InvBody /\ InvSend /\ AckPending /\ InvSeq /\ InvOut /\ InvData /\ InvWait /\
       InvHeld /\ InvWire)'
    BY <1>5 DEF OutIndWait, Pass, Returned0, Redo, InvBody, InvSend, AckPending,
       InvSeq, InvOut, InvData, InvWait, InvHeld, InvWire
  <2> QED BY <2>1 DEF SendInv
<1>6. CASE OutData
  BY <1>6, OutDataInv
<1>7. CASE OutDataNone
  BY <1>7, OutDataNoneInv
<1>8. CASE OutNone
  <2>1. (InvBody /\ AckPending /\ InvOut /\ InvData /\ InvWait /\ InvHeld /\ InvWire)'
    BY <1>8 DEF OutNone, BufEmpty, Callback, WaitData, InvBody, AckPending, InvOut,
       InvData, InvWait, InvHeld, InvWire
  <2>2. InvSend'
    BY <1>0, <1>8, ConstantFacts DEF OutNone, BufEmpty, Callback, WaitData, InvSend,
       TypeRest
  <2>3. InvSeq'
    BY <1>0, <1>8, ConstantFacts DEF OutNone, BufEmpty, Callback, WaitData, InvSeq,
       TypeRest
  <2> QED BY <2>1, <2>2, <2>3 DEF SendInv
<1>9. CASE OutRawFcs
  <2>1. (InvBody /\ InvSend /\ AckPending /\ InvOut /\ InvWait /\ InvWire)'
    BY <1>9 DEF OutRawFcs, Pass, Taken, Callback, Emit, Redo, InvBody, InvSend,
       AckPending, InvOut, InvWait, InvWire
  <2>2. InvSeq'
    BY <1>0, <1>9, ConstantFacts DEF OutRawFcs, Pass, Taken, Callback, Emit, Redo,
       InvSeq, TypeRest
  <2>3. InvData'
    BY <1>0, <1>9 DEF OutRawFcs, Pass, Taken, Callback, Emit, Redo, InvData, TypeRest
  <2>4. InvHeld'
    BY <1>0, <1>9 DEF OutRawFcs, Pass, Taken, Callback, Emit, Redo, InvHeld, TypeRest
  <2> QED BY <2>1, <2>2, <2>3, <2>4 DEF SendInv
<1>10. CASE OutHdlcFcs
  <2>1. (InvSend /\ AckPending /\ InvOut /\ InvData /\ InvWait)'
    BY <1>10 DEF OutHdlcFcs, Pass, Returned0, Callback, Emit, Redo, InvSend,
       AckPending, InvOut, InvData, InvWait
  <2>2. InvBody'
    BY <1>0, <1>10, ConstantFacts DEF OutHdlcFcs, Pass, Returned0, Callback, Emit,
       Redo, InvBody, InvOut, TypeRest
  <2>3. InvSeq'
    BY <1>0, <1>10, ConstantFacts DEF OutHdlcFcs, Pass, Returned0, Callback, Emit,
       Redo, InvSeq, TypeRest
  <2>4. InvHeld'
    BY <1>0, <1>10, ConstantFacts DEF OutHdlcFcs, Pass, Returned0, Callback, Emit,
       Redo, InvHeld, InvData, TypeRest
  <2>5. InvWire'
    BY <1>0, <1>10, ConstantFacts DEF OutHdlcFcs, Pass, Returned0, Callback, Emit,
       Redo, InvWire, InvData, TypeRest
  <2> QED BY <2>1, <2>2, <2>3, <2>4, <2>5 DEF SendInv
<1>11. CASE OutDataNoSig
  <2>1. (InvBody /\ AckPending /\ InvOut /\ InvData /\ InvWait /\ InvHeld /\ InvWire)'
    BY <1>11 DEF OutDataNoSig, Pass, Returned0, Callback, InvBody, AckPending, InvOut,
       InvData, InvWait, InvHeld, InvWire
  <2>2. InvSend'
    BY <1>0, <1>11, ConstantFacts DEF OutDataNoSig, Pass, Returned0, Callback,
       InvSend, InvData, TypeRest
  <2>3. InvSeq'
    BY <1>0, <1>11, ConstantFacts DEF OutDataNoSig, Pass, Returned0, Callback, InvSeq,
       InvData, TypeRest
  <2> QED BY <2>1, <2>2, <2>3 DEF SendInv
<1>12. CASE OutNoSig
  <2>1. (InvBody /\ InvSend /\ AckPending /\ InvSeq /\ InvOut /\ InvData /\ InvWait /\
       InvHeld /\ InvWire)'
    BY <1>12 DEF OutNoSig, Pass, Emit, InvBody, InvSend, AckPending, InvSeq, InvOut,
       InvData, InvWait, InvHeld, InvWire
  <2> QED BY <2>1 DEF SendInv
<1>13. CASE CallbackBack
  <2>1. (InvBody /\ InvSend /\ AckPending /\ InvSeq /\ InvOut /\ InvData /\ InvWait /\
       InvHeld)'
    BY <1>13 DEF CallbackBack, Returned0, Redo, WaitData, Emit, InvBody, InvSend,
       AckPending, InvSeq, InvOut, InvData, InvWait, InvHeld
  <2>2. InvWire'
    BY <1>0, <1>13 DEF CallbackBack, Returned0, Redo, WaitData, Emit, InvWire,
       TypeRest
  <2> QED BY <2>1, <2>2 DEF SendInv
<1>14. CASE WaitOutDataReady
  <2>1. (InvBody /\ InvSend /\ AckPending /\ InvSeq /\ InvOut /\ InvData /\ InvWait /\
       InvHeld /\ InvWire)'
    BY <1>14 DEF WaitOutDataReady, Redo, InvBody, InvSend, AckPending, InvSeq, InvOut,
       InvData, InvWait, InvHeld, InvWire
  <2> QED BY <2>1 DEF SendInv
<1>15. ASSUME NEW w \in Writer, PrepareEnter(w) PROVE SendInv'
  <2>1. (InvBody /\ AckPending /\ InvOut /\ InvData /\ InvWait /\ InvHeld)'
    BY <1>15 DEF PrepareEnter, Returned0, InvBody, AckPending, InvOut, InvData,
       InvWait, InvHeld
  <2>2. InvSend'
    BY <1>0, <1>15, ConstantFacts DEF PrepareEnter, Returned0, InvSend, TypeRest
  <2>3. InvSeq'
    BY <1>0, <1>15, ConstantFacts DEF PrepareEnter, Returned0, InvSeq, TypeRest
  <2>4. InvWire'
    BY <1>0, <1>15, ConstantFacts DEF PrepareEnter, Returned0, InvWire, InvWait,
       TypeRest
  <2> QED BY <2>1, <2>2, <2>3, <2>4 DEF SendInv
<1> QED BY <1>1, <1>2, <1>3, <1>4, <1>5, <1>6, <1>7, <1>8, <1>9, <1>10, <1>11, <1>12,
   <1>13, <1>14, <1>15 DEF PreparePacket

(* .. and callbacks and owners do                                          *)
LEMMA OthersInv ==
  ASSUME TypeOK, SendInv, Others
  PROVE  SendInv'
<1> USE DEF bodyVars, hdlcVars, sendVars, bufVars,
            ownVars, outVars, outSide, passSide, bodySide, ownSide,
            Sending, Flies, Tones, DataTypes, Accepts, isStateModemOut, Owns, Full,
            NoLostOutWakeup, NothingLeft, Aborted, Coming, Packets, Follows, SendInv,
            Takes, Dropped, NoneFlies, Abandoned, RawCarrier
<1>0. TypeFlags /\ TypeRest
  BY TypeSplit
<1>1. CASE OnEngineCallback
  <2>1. (InvSend /\ InvSeq /\ InvOut /\ InvData /\ InvWait /\ InvWire)'
    BY <1>1 DEF OnEngineCallback, InvSend, InvSeq, InvOut, InvData, InvWait, InvWire
  <2>2. InvBody'
    <3>1. cb = seq => pc # "stop"
      BY <1>0, <1>1 DEF OnEngineCallback, TypeRest, Seqs
    <3> QED BY <1>0, <1>1, <3>1 DEF OnEngineCallback, InvBody, TypeFlags,
            TypeRest
  <2>3. AckPending'
    BY <1>0, <1>1, ConstantFacts DEF OnEngineCallback, AckPending, InvBody, TypeRest
  <2>4. InvHeld'
    BY <1>0, <1>1, ConstantFacts DEF OnEngineCallback, InvHeld, InvBody, TypeRest
  <2> QED BY <2>1, <2>2, <2>3, <2>4 DEF SendInv
<1>2. CASE ClearCall
  <2>1. (InvBody /\ InvSend /\ AckPending /\ InvSeq /\ InvOut /\ InvData /\ InvWait /\
       InvHeld /\ InvWire)'
    BY <1>2 DEF ClearCall, InvBody, InvSend, AckPending, InvSeq, InvOut, InvData,
       InvWait, InvHeld, InvWire
  <2> QED BY <2>1 DEF SendInv
<1>3. CASE SignalDataReady
  <2>1. (InvBody /\ InvSend /\ AckPending /\ InvSeq /\ InvOut /\ InvData /\ InvWait /\
       InvHeld /\ InvWire)'
    BY <1>3 DEF SignalDataReady, InvBody, InvSend, AckPending, InvSeq, InvOut,
       InvData, InvWait, InvHeld, InvWire
  <2> QED BY <2>1 DEF SendInv
<1>4. ASSUME NEW s \in Stream, StreamOpen(s) PROVE SendInv'
  <2>1. (InvBody /\ InvSend /\ AckPending /\ InvSeq /\ InvOut /\ InvData)'
    BY <1>4 DEF StreamOpen, Woken, InvBody, InvSend, AckPending, InvSeq, InvOut,
       InvData
  <2>2. InvHeld'
    BY <1>4 DEF StreamOpen, Woken, InvHeld
  <2>3. InvWire'
    BY <1>4 DEF StreamOpen, Woken, InvWire
  <2>4. InvWait'
    BY <1>0, <1>4 DEF StreamOpen, Woken, InvWait, TypeRest
  <2> QED BY <2>1, <2>2, <2>3, <2>4 DEF SendInv
<1>5. ASSUME NEW s \in Stream, StreamClose(s) PROVE SendInv'
  <2>1. (InvBody /\ InvSend /\ AckPending /\ InvSeq /\ InvOut /\ InvData)'
    BY <1>5 DEF StreamClose, Woken, InvBody, InvSend, AckPending, InvSeq, InvOut,
       InvData
  <2>2. InvWait'
    BY <1>5 DEF StreamClose, Woken, InvWait
  <2>3. InvHeld'
    BY <1>5 DEF StreamClose, Woken, InvHeld
  <2>4. InvWire'
    BY <1>5 DEF StreamClose, Woken, InvWire
  <2> QED BY <2>1, <2>2, <2>3, <2>4 DEF SendInv
<1>6. ASSUME NEW f \in Fake, FakeOpen(f) PROVE SendInv'
  <2>1. (InvBody /\ InvSend /\ AckPending /\ InvSeq /\ InvOut /\ InvData)'
    BY <1>6 DEF FakeOpen, Woken, InvBody, InvSend, AckPending, InvSeq, InvOut, InvData
  <2>2. InvHeld'
    BY <1>6 DEF FakeOpen, Woken, InvHeld
  <2>3. InvWire'
    BY <1>6 DEF FakeOpen, Woken, InvWire
  <2>4. InvWait'
    BY <1>0, <1>6 DEF FakeOpen, Woken, InvWait, TypeRest
  <2> QED BY <2>1, <2>2, <2>3, <2>4 DEF SendInv
<1>7. ASSUME NEW f \in Fake, FakeClose(f) PROVE SendInv'
  <2>1. (InvBody /\ InvSend /\ AckPending /\ InvSeq /\ InvOut /\ InvData)'
    BY <1>7 DEF FakeClose, Woken, InvBody, InvSend, AckPending, InvSeq, InvOut,
       InvData
  <2>2. InvWait'
    BY <1>7 DEF FakeClose, Woken, InvWait
  <2>3. InvHeld'
    BY <1>7 DEF FakeClose, Woken, InvHeld
  <2>4. InvWire'
    BY <1>7 DEF FakeClose, Woken, InvWire
  <2> QED BY <2>1, <2>2, <2>3, <2>4 DEF SendInv
<1> QED BY <1>1, <1>2, <1>3, <1>4, <1>5, <1>6, <1>7 DEF Others

-----------------------------------------------------------------------------
(* The program starts in the invariant, and no step of it leaves it.       *)
LEMMA InitInv ==
  ASSUME Init PROVE IInv
<1>1. TypeFlags
  BY Zenon DEF Init, TypeFlags
<1>2. TypeRest
  BY ConstantFacts DEF Init, TypeRest, Signals
<1>3. SendInv
  BY DEF Init, SendInv, InvBody, InvSend, AckPending, InvSeq, InvOut, InvData, InvWait,
     InvHeld, InvWire, Sending, isStateModemOut, NoLostOutWakeup, Coming, Dropped,
     NoneFlies, Takes, Abandoned, RawCarrier
<1> QED BY <1>1, <1>2, <1>3, TypeSplit DEF IInv

(* A step of any of the actors preserves the invariant.                    *)
LEMMA NextInv ==
  ASSUME IInv, [Next]_vars PROVE IInv'
<1>1. CASE UNCHANGED vars
  <2>1. TypeFlags' /\ TypeRest'
    BY <1>1, TypeSplit DEF IInv, TypeFlags, TypeRest, vars, bodyVars, hdlcVars,
       sendVars,
       bufVars, ownVars, outVars
  <2>2. SendInv'
    BY <1>1 DEF IInv, SendInv, InvBody, InvSend, AckPending, InvSeq, InvOut, InvData,
       InvWait, InvHeld, InvWire, Sending, Flies, Accepts, isStateModemOut, Owns, Full,
       NoLostOutWakeup, NothingLeft, Aborted, Coming, Takes, Dropped, NoneFlies,
       Abandoned, RawCarrier, vars, bodyVars, hdlcVars,
          sendVars,
       bufVars, ownVars, outVars
  <2> QED BY <2>1, <2>2, TypeSplit DEF IInv
<1>2. CASE EngineThread
  BY <1>2, EngineType, EngineInv DEF IInv
<1>3. CASE PreparePacket
  BY <1>3, PrepareType, PrepareInv DEF IInv
<1>4. CASE Others
  BY <1>4, OthersType, OthersInv DEF IInv
<1> QED BY <1>1, <1>2, <1>3, <1>4 DEF Next, Others

(* The inductive invariant holds throughout: what body, engine and the     *)
(* thread in PreparePacket know of the send under way is consistent.       *)
THEOREM Invariance == Spec => []IInv
  BY InitInv, NextInv, PTL DEF Spec

(* The variables of FaxSend keep their types, and bufOut its bound.        *)
THEOREM TypeCorrect == Spec => []TypeOK
<1>1. IInv => TypeOK
  BY DEF IInv
<1> QED BY <1>1, Invariance, PTL

(* ModemEngineBody and T38Engine agree on the send they are in, whatever   *)
(* the order of the DTE's data, the callbacks, aborts and changes of owner;*)
(* only frames that follow on a raw carrier are dropped.                   *)
THEOREM BodyEngineAgree == Spec => []SendAgreement
<1>1. IInv => SendAgreement
  BY DEF IInv, SendInv, InvSend, Sending, Takes, Accepts, SendAgreement
<1> QED BY <1>1, Invariance, PTL

(* WaitOutDataReady never sleeps through a SignalOutDataReady it needed.   *)
THEOREM OutputAwake == Spec => []NoLostOutWakeup
<1>1. IInv => NoLostOutWakeup
  BY DEF IInv, SendInv, InvWait
<1> QED BY <1>1, Invariance, PTL

(* DTE input that isOutBufFull held back is looked at again.               *)
THEOREM InputAwake == Spec => []HeldInputSeen
<1>1. IInv => HeldInputSeen
  BY DEF IInv, SendInv, InvHeld, Flies, HeldInputSeen
<1> QED BY <1>1, Invariance, PTL

(* Only OnEngineCallback acknowledges a send.                              *)
LEMMA AckByCallback ==
  ASSUME IInv, [Next]_vars, state = "stSendAckWait", state' = "stSendAckHandle"
  PROVE  OnEngineCallback /\ cb = seq
<1> USE DEF bodyVars, sendVars, bufVars, ownVars, outVars, passSide, bodySide, ownSide
<1>1. ~EngineThread
  BY DEF EngineThread, SendCed, SendSilence, StopSignal, CheckBufEmpty, CheckAck,
     CheckOther, CmdSend, SendData, SendEtx, Abort, ReadDone, Detach, CheckStatePost,
     EnableFakeOn, EnableFakeOff, WaitDataReady, StopFrame, InLoop, Input, IInv,
     SendInv, InvBody, Sending
<1>2. ~PreparePacket
  BY DEF PreparePacket, OwnerLost, OutNothing, OutIdle, OutSignalWait, OutIndWait,
     OutData, OutDataNone, OutNone, OutRawFcs, OutHdlcFcs, OutDataNoSig, OutNoSig,
     CallbackBack, WaitOutDataReady, PrepareEnter
<1>3. state' # state /\ ~UNCHANGED vars
  BY DEF vars
<1>4. Others
  BY <1>1, <1>2, <1>3 DEF Next, Others
<1> QED BY <1>3, <1>4 DEF Others, OnEngineCallback, ClearCall, SignalDataReady,
   StreamOpen,
        StreamClose, FakeOpen, FakeClose

(* An acknowledgement answers the last SendStop, never an earlier one: the *)
(* callback that may still be under way from an aborted send is one or two *)
(* sequence numbers behind, and two steps never lead back to the same one. *)
(* What the engine has not sent by then it abandoned: HDLC on a raw        *)
(* carrier, or raw data given up at an unaligned flag, and nothing else.   *)
THEOREM AckIsTrue == Spec => AckMeansSent
<1>1. ASSUME IInv, [Next]_vars
      PROVE  [state = "stSendAckWait" /\ state' = "stSendAckHandle"
                => /\ stateModem # "stmOutNoMoreData"
                   /\ queued = 0 \/ Abandoned]_vars
  <2> SUFFICES ASSUME state = "stSendAckWait", state' = "stSendAckHandle"
               PROVE  /\ stateModem # "stmOutNoMoreData"
                      /\ queued = 0 \/ Abandoned
    OBVIOUS
  <2>1. outPc = "cb" /\ cb = seq
    BY <1>1, AckByCallback DEF OnEngineCallback
  <2>2. seq \in Seqs
    BY <1>1, TypeSplit DEF IInv, TypeRest
  <2>3. pc # "stop"
    BY <1>1, <2>1, <2>2, AckByCallback DEF OnEngineCallback, Seqs
  <2> QED BY <1>1, <2>1, <2>2, <2>3, ConstantFacts DEF IInv, SendInv, InvSeq, Flies
<1> QED BY <1>1, Invariance, PTL DEF Spec, AckMeansSent

(* The packets of one owner form T.38 signals, across the callbacks in the *)
(* middle of PreparePacket and the loss of the output to another owner.    *)
THEOREM WireOrdered == Spec => WireOrder
<1>1. ASSUME IInv, [Next]_vars, last' # last, "any" \notin {last, last'}
      PROVE  last \in Follows(last')
  <2> USE DEF bodyVars, hdlcVars, sendVars, bufVars, ownVars, outVars, outSide,
              passSide, bodySide, ownSide
  <2>1. ~EngineThread
    BY <1>1 DEF EngineThread, SendCed, SendSilence, StopSignal, CheckBufEmpty,
       CheckAck, CheckOther, CmdSend, SendData, SendEtx, Abort, ReadDone, Detach,
       CheckStatePost, EnableFakeOn, EnableFakeOff, WaitDataReady, StopFrame
  <2>2. ~Others
    BY <1>1 DEF Others, OnEngineCallback, ClearCall, SignalDataReady, StreamOpen,
       StreamClose, FakeOpen, FakeClose
  <2>3. \/ OutIdle \/ OutData \/ OutRawFcs \/ OutHdlcFcs \/ OutNoSig \/ CallbackBack
    <3>1. PreparePacket
      BY <1>1, <2>1, <2>2 DEF Next, Others, vars
    <3> QED BY <1>1, <3>1 DEF PreparePacket, OwnerLost, OutNothing, OutSignalWait,
       OutIndWait, OutDataNone, OutNone, OutDataNoSig, WaitOutDataReady, PrepareEnter,
       Returned0, Redo, WaitData, Callback, BufEmpty
  <2>4. TypeRest /\ InvOut /\ InvData /\ InvWait /\ InvWire
    BY <1>1, TypeSplit DEF IInv, SendInv
  <2> USE DEF Owns, Coming, Packets, Follows, isStateModemOut, InvWire, RawCarrier
  <2>5. CASE OutIdle
    BY <1>1, <2>4, <2>5, ConstantFacts DEF OutIdle, Pass, Emit, Redo, TypeRest,
       InvOut, InvData, InvWait
  <2>6. CASE OutData
    BY <1>1, <2>4, <2>6, ConstantFacts, AfterGetIs DEF OutData, Pass, Emit, Redo,
       Callback, TypeRest, InvOut, InvData, InvWait
  <2>7. CASE OutRawFcs
    BY <1>1, <2>4, <2>7, ConstantFacts DEF OutRawFcs, Pass, Taken, Callback, Emit,
       Redo, Full, TypeRest, InvOut, InvData, InvWait
  <2>8. CASE OutHdlcFcs
    BY <1>1, <2>4, <2>8, ConstantFacts DEF OutHdlcFcs, Pass, Returned0, Callback,
       Emit, Redo, TypeRest, InvOut, InvData, InvWait
  <2>9. CASE OutNoSig
    BY <1>1, <2>4, <2>9, ConstantFacts DEF OutNoSig, Pass, Emit, TypeRest, InvOut,
       InvData, InvWait
  <2>10. CASE CallbackBack
    BY <1>1, <2>4, <2>10, ConstantFacts DEF CallbackBack, Returned0, Redo, WaitData,
       Emit, TypeRest, InvOut, InvData, InvWait
  <2> QED BY <2>3, <2>5, <2>6, <2>7, <2>8, <2>9, <2>10
<1> QED BY <1>1, Invariance, PTL DEF Spec, WireOrder
=============================================================================
