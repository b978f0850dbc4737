------------------------------ MODULE FaxSend ------------------------------
(***************************************************************************)
(* Sending fax data: the states stSend .. stSendAckHandle of               *)
(* ModemEngineBody (pmodeme.cxx), the sending half of T38Engine            *)
(* (t38engine.cxx) with the stream ownership of EngineBase, and the        *)
(* threads that call PreparePacket: OPAL's media threads and the           *)
(* FakePreparePacketThread that takes over after the call was released.    *)
(*                                                                         *)
(* A step of the engine thread holds ModemEngineBody::Mutex except at      *)
(* pc \in {"fakeOn", "fakeOff", "wait"}; at pc = "stop" it keeps it from   *)
(* one call of the engine to the next.  At pc = "more" HandleData is in    *)
(* the middle of the send data of one read.  outPc is the position of the  *)
(* thread outW inside PreparePacket (MutexOut admits one); outPc = "cb"    *)
(* is ModemCallbackWithUnlock, with the engine's Mutex released.           *)
(* Bytes are counted, not told apart; delays are not modelled.             *)
(***************************************************************************)
EXTENDS Integers

CONSTANTS Stream,   \* T38ModemMediaStreams that may own the output
          Polling,  \* those with preparePacketTimeout = 0
          Fake,     \* FakePreparePacketThreads
          NoOwner,  \* hOwnerOut = NULL
          Sends,    \* bound: the signals that are sent
          MaxBuf,   \* bound: bytes in bufOut, at which it counts as full
          SeqMod    \* cbpUserDataMask + 1

ASSUME WriterAssumption ==
  /\ Polling \subseteq Stream /\ Stream \cap Fake = {}
  /\ NoOwner \notin Stream \cup Fake
Signals == {"ced", "silence", "hdlc", "raw", "rawHdlc", "hdlcRaw"}
ASSUME BoundAssumption ==
  Sends \subseteq Signals /\ MaxBuf \in Nat \ {0} /\ SeqMod \in 3..256

Writer == Stream \cup Fake

VARIABLES
  state, dataType, moreFrames, seq, pc, ready, enableFakeOut,   \* ModemEngineBody
  held,                              \* DTE input left unread: isOutBufFull
  attached, stateModem, callbackParamOut, moreFramesOut,        \* T38Engine
  stateOut, ModParsOut, queued, eof,                            \* .. and bufOut
  countOut, inData, outEof, lastChar,                           \* .. and hdlcOut
  startedTimeOutBufEmpty,
  outReady,                          \* outDataReadySyncPoint
  hOwnerOut, firstOut, isEnableFakeOut,
  outW, outPc, cb, pend,             \* PreparePacket: who, where, callback, ifp
  life,                              \* of the writers' threads
  last                               \* the last packet of hOwnerOut

bodyVars == <<state, dataType, moreFrames, seq, enableFakeOut>>
hdlcVars == <<countOut, inData, outEof, lastChar>>
sendVars == <<stateModem, callbackParamOut, moreFramesOut, ModParsOut>>
bufVars  == <<queued, eof>>
ownVars  == <<hOwnerOut, firstOut, isEnableFakeOut>>
outVars  == <<outW, outPc, cb, pend>>
vars     == <<bodyVars, pc, ready, held, attached, sendVars, stateOut, bufVars,
              hdlcVars, startedTimeOutBufEmpty, outReady, ownVars, outVars,
              life, last>>

cbpReset == -1
cbpOutBufEmpty == -2
cbpOutBufNoFull == 256
cbpUpdateState == 257

Packets == {"ced", "ind", "data", "fcs", "hdlcSigEnd", "rawSigEnd", "noSig"}

Init ==
  /\ state = (IF "ced" \in Sends THEN "stReqModeAckHandle" ELSE "stCommand") /\ dataType = "dtRaw"
  /\ moreFrames = FALSE /\ seq = 0 /\ pc = "check" /\ ready = FALSE
  /\ enableFakeOut = FALSE /\ held = FALSE /\ attached = TRUE
  /\ stateModem = "stmIdle" /\ callbackParamOut = cbpReset
  /\ moreFramesOut = FALSE /\ ModParsOut = "silence"
  /\ stateOut = "stOutNoSig" /\ queued = 0 /\ eof = TRUE
  /\ countOut = FALSE /\ inData = FALSE /\ outEof = FALSE /\ lastChar = FALSE
  /\ startedTimeOutBufEmpty = FALSE /\ outReady = FALSE
  /\ hOwnerOut = NoOwner /\ firstOut = TRUE /\ isEnableFakeOut = FALSE
  /\ outW = NoOwner /\ outPc = "idle" /\ cb = cbpReset /\ pend = "redo"
  /\ life = [w \in Writer |-> "new"] /\ last = "any"
-----------------------------------------------------------------------------
(* The modem API of T38Engine, called under ModemEngineBody::Mutex.        *)

isStateModemOut == stateModem \in {"stmOutMoreData", "stmOutNoMoreData"}
Full == queued = MaxBuf
RawCarrier == ModParsOut \in {"raw", "hdlcRaw"}     \* dataTypeT38 = dtRaw

CanSend == attached /\ stateModem = "stmIdle"
SendStart(sig) ==
  /\ ModParsOut' = sig
  /\ queued' = 0 /\ eof' = FALSE
  /\ stateModem' = "stmOutMoreData"
  /\ outReady' = TRUE
  /\ UNCHANGED <<callbackParamOut, moreFramesOut>>

CanStop == attached /\ stateModem = "stmOutMoreData"
SendStopStale(more, param) ==               \* mutant: keeps the old callback
  /\ eof' = TRUE
  /\ stateModem' = "stmOutNoMoreData"
  /\ moreFramesOut' = more
  /\ outReady' = TRUE
  /\ UNCHANGED <<callbackParamOut, ModParsOut, queued>>
SendStopSilent(more, param) ==              \* mutant: no SignalOutDataReady
  /\ eof' = TRUE
  /\ stateModem' = "stmOutNoMoreData"
  /\ moreFramesOut' = more
  /\ callbackParamOut' = param
  /\ UNCHANGED <<outReady, ModParsOut, queued>>
SendStop(more, param) ==
  /\ eof' = TRUE
  /\ stateModem' = "stmOutNoMoreData"
  /\ moreFramesOut' = more
  /\ callbackParamOut' = param
  /\ outReady' = TRUE
  /\ UNCHANGED <<ModParsOut, queued>>

(* OnResetModemState; a sending engine is left to finish                   *)
ResetModemState ==
  /\ eof' = TRUE /\ callbackParamOut' = cbpReset
  /\ UNCHANGED <<stateModem, moreFramesOut, ModParsOut, queued>>

NextSeqStuck == seq                         \* mutant: no increment
NextSeq == (seq + 1) % SeqMod

engineIdle == UNCHANGED <<sendVars, bufVars, outReady>>
outSide    == <<attached, stateOut, hdlcVars, startedTimeOutBufEmpty, ownVars,
                outVars, life, last>>
-----------------------------------------------------------------------------
(* Engine thread                                                           *)

(* CheckState, stReqModeAckHandle of an incoming call: CED                 *)
SendCed ==
  /\ pc = "check" /\ state = "stReqModeAckHandle"
  /\ dataType' = "dtCed"
  /\ \/ CanSend /\ SendStart("ced") /\ state' = "stSendAckWait" /\ pc' = "stop"
     \/ ~CanSend /\ state' = "stCommand" /\ pc' = "data" /\ engineIdle
  /\ UNCHANGED <<moreFrames, seq, enableFakeOut, ready, held, outSide>>

(* isOutBufFull is asked before each read of what the DTE sends.  The bound: *)
(* nothing follows a <DLE><ETX> in its read.                                *)
Input == pc = "data" /\ ~(attached /\ Full)

(* SendSilence (AT+FTS)                                                    *)
SendSilence ==
  /\ Input /\ state = "stCommand" /\ "silence" \in Sends
  /\ dataType' = "dtSilence"
  /\ \/ CanSend /\ SendStart("silence") /\ state' = "stSendAckWait" /\ pc' = "stop"
     \/ ~CanSend /\ engineIdle /\ UNCHANGED <<state, pc>>
  /\ UNCHANGED <<moreFrames, seq, enableFakeOut, ready, held, outSide>>

(* The SendStop that follows in SendCed and SendSilence                    *)
StopSignal ==
  /\ pc = "stop" /\ pc' = "data"
  /\ seq' = NextSeq
  /\ \/ CanStop /\ SendStop(FALSE, NextSeq) /\ UNCHANGED state
     \/ ~CanStop /\ state' = "stCommand" /\ engineIdle
  /\ UNCHANGED <<dataType, moreFrames, enableFakeOut, ready, held, outSide>>

(* Ends the frame; a refused SendStop is acknowledged at once.             *)
StopFrame ==
  /\ seq' = NextSeq
  /\ \/ CanStop /\ SendStop(moreFrames, NextSeq) /\ state' = "stSendAckWait"
        /\ UNCHANGED ready
     \/ ~CanStop /\ state' = "stSendAckHandle" /\ ready' = TRUE /\ engineIdle
  /\ UNCHANGED <<dataType, moreFrames, enableFakeOut, held, outSide>>

CheckBufEmpty ==
  /\ pc = "check" /\ state = "stSendBufEmptyHandle" /\ pc' = "data"
  /\ StopFrame

CheckAck ==
  /\ pc = "check" /\ state = "stSendAckHandle" /\ pc' = "data"
  /\ moreFrames' = IF dataType = "dtSilence" THEN moreFrames ELSE FALSE
  /\ \/ /\ dataType = "dtCed" /\ dataType' = "dtHdlc"
        /\ \/ CanSend /\ SendStart("hdlc") /\ state' = "stSend"
           \/ ~CanSend /\ state' = "stCommand" /\ engineIdle
     \/ /\ dataType # "dtCed"
        /\ state' = IF dataType # "dtSilence" /\ moreFrames THEN "stSend"
                                                           ELSE "stCommand"
        /\ engineIdle /\ UNCHANGED dataType
  /\ UNCHANGED <<seq, enableFakeOut, ready, held, outSide>>

(* Nothing to do for sending; on an outgoing call the modem receives first. *)
CheckOther ==
  /\ pc = "check" /\ pc' = "data"
  /\ state \notin {"stSendBufEmptyHandle", "stSendAckHandle"}
  /\ state' = IF state = "stReqModeAckHandle" THEN "stCommand" ELSE state
  /\ engineIdle
  /\ UNCHANGED <<dataType, moreFrames, seq, enableFakeOut, ready, held, outSide>>

(* HandleData                                                              *)
CmdSend ==
  /\ Input /\ state = "stCommand"
  /\ moreFrames' = FALSE
  /\ \E sig \in Sends \ {"ced", "silence"} :
       /\ dataType' = IF sig \in {"raw", "rawHdlc"} THEN "dtRaw" ELSE "dtHdlc"
       /\ \/ CanSend /\ SendStart(sig) /\ state' = "stSend"
          \/ ~CanSend /\ engineIdle /\ UNCHANGED state
  /\ UNCHANGED <<seq, enableFakeOut, pc, ready, held, outSide>>

(* The loop over the send data of one read looks at neither the state nor   *)
(* the buffer again, while the engine may call back in between.             *)
InLoop == pc = "more" \/ (Input /\ state = "stSend")
SendDataUngated ==                          \* mutant: no isOutBufFull
  /\ pc \in {"data", "more"} /\ pc' = "more" /\ state = "stSend"
  /\ \/ UNCHANGED moreFrames
     \/ dataType = "dtHdlc" /\ moreFrames' = TRUE   \* not a final frame
  /\ \/ /\ CanStop /\ outReady' = TRUE              \* Send
        /\ queued' = IF eof THEN queued ELSE queued + 1
        /\ UNCHANGED <<sendVars, eof>>
     \/ ~CanStop /\ engineIdle
  /\ UNCHANGED <<state, dataType, seq, enableFakeOut, ready, held, outSide>>
SendData ==
  /\ InLoop /\ pc' = "more" /\ ~Full              \* the bound: it fits
  /\ \/ UNCHANGED moreFrames
     \/ dataType = "dtHdlc" /\ moreFrames' = TRUE   \* not a final frame
  /\ \/ /\ CanStop /\ outReady' = TRUE              \* Send
        /\ queued' = IF eof THEN queued ELSE queued + 1
        /\ UNCHANGED <<sendVars, eof>>
     \/ ~CanStop /\ engineIdle
  /\ UNCHANGED <<state, dataType, seq, enableFakeOut, ready, held, outSide>>

SendEtx ==                                          \* <DLE><ETX>
  /\ InLoop /\ pc' = "data"
  /\ StopFrame

ReadDone ==                                         \* nothing left
  /\ pc = "more" /\ pc' = "data"
  /\ UNCHANGED <<bodyVars, ready, held, sendVars, bufVars, outReady, outSide>>

Abort ==
  /\ Input
  /\ state \in {"stSendBufEmptyHandle", "stSendAckWait", "stSendAckHandle"}
  /\ state' = "stCommand"
  /\ IF attached THEN ResetModemState ELSE UNCHANGED <<sendVars, bufVars>>
  /\ UNCHANGED <<dataType, moreFrames, seq, enableFakeOut, pc, ready, held, outReady,
                 outSide>>

(* OnHook and _DetachEngine: the engine is never attached again.           *)
Detach ==
  /\ pc = "data" /\ attached
  /\ attached' = FALSE
  /\ state' = "stCommand" /\ enableFakeOut' = FALSE
  /\ ResetModemState
  /\ outReady' = TRUE
  /\ UNCHANGED <<dataType, moreFrames, seq, pc, ready, held, stateOut, hdlcVars,
                 startedTimeOutBufEmpty, ownVars, outVars, life, last>>

(* CheckStatePost decides with the Mutex, and tells the engine without it. *)
CheckStatePost ==
  /\ pc = "data"
  /\ pc' = IF ~attached THEN "wait"
           ELSE IF /\ enableFakeOut
                   /\ state \in {"stSend", "stSendBufEmptyHandle", "stSendAckWait"}
                THEN "fakeOn" ELSE "fakeOff"
  /\ held' \in {FALSE, attached /\ Full}
  /\ UNCHANGED <<bodyVars, ready, sendVars, bufVars, outReady, outSide>>

EnableFakeOn ==
  /\ pc = "fakeOn" /\ pc' = "wait"
  /\ isEnableFakeOut' = TRUE
  /\ outReady' = (outReady \/ ~isEnableFakeOut)
  /\ IF isEnableFakeOut \/ hOwnerOut # NoOwner \/ ~isStateModemOut
     THEN UNCHANGED life
     ELSE \E f \in Fake : life[f] = "new" /\ life' = [life EXCEPT ![f] = "created"]
  /\ UNCHANGED <<bodyVars, ready, held, attached, sendVars, bufVars, stateOut, hdlcVars,
                 startedTimeOutBufEmpty, hOwnerOut, firstOut, outVars, last>>

EnableFakeOffSticky ==                      \* mutant: isEnableFakeOut stays
  /\ pc = "fakeOff" /\ pc' = "wait"
  /\ UNCHANGED isEnableFakeOut
  /\ outReady' = (outReady \/ isEnableFakeOut)
  /\ IF isEnableFakeOut /\ hOwnerOut \in Fake
     THEN hOwnerOut' = NoOwner /\ ready' = TRUE /\ last' = "any"
     ELSE UNCHANGED <<hOwnerOut, ready, last>>
  /\ UNCHANGED <<bodyVars, held, attached, sendVars, bufVars, stateOut, hdlcVars,
                 startedTimeOutBufEmpty, firstOut, outVars, life>>
EnableFakeOff ==
  /\ pc = "fakeOff" /\ pc' = "wait"
  /\ isEnableFakeOut' = FALSE
  /\ outReady' = (outReady \/ isEnableFakeOut)
  /\ IF isEnableFakeOut /\ hOwnerOut \in Fake
     THEN hOwnerOut' = NoOwner /\ ready' = TRUE /\ last' = "any"
     ELSE UNCHANGED <<hOwnerOut, ready, last>>
  /\ UNCHANGED <<bodyVars, held, attached, sendVars, bufVars, stateOut, hdlcVars,
                 startedTimeOutBufEmpty, firstOut, outVars, life>>

WaitDataReady ==
  /\ pc = "wait" /\ ready
  /\ ready' = FALSE /\ pc' = "check" /\ held' = FALSE
  /\ UNCHANGED <<bodyVars, sendVars, bufVars, outReady, outSide>>

-----------------------------------------------------------------------------
(* PreparePacket.  A pass under the engine's Mutex is one step; it ends in  *)
(* a packet, in another pass (redo), in a callback or in waitData.          *)

bodySide == <<bodyVars, pc, held>>

Owns == attached /\ hOwnerOut = outW

(* return 0: OPAL's media thread ends and leaves its stream open, so still  *)
(* the owner; the FakePreparePacketThread goes on to CloseOut.              *)
Returned0(w) ==
  /\ life' = [life EXCEPT ![w] = CASE @ = "closed" -> "new"
                                   [] w \in Fake   -> "closing"
                                   [] OTHER        -> "dead"]
  /\ outPc' = "idle" /\ outW' = NoOwner /\ cb' = cbpReset /\ pend' = "redo"
  /\ UNCHANGED last

Emit(p) ==
  /\ last' = p
  /\ outPc' = "idle" /\ outW' = NoOwner /\ cb' = cbpReset /\ pend' = "redo"
  /\ UNCHANGED life
Redo == outPc' = "loop" /\ UNCHANGED <<outW, cb, pend, life, last>>
(* waitData; a polling stream returns -1 and calls again                    *)
WaitData ==
  /\ IF outW \in Polling THEN outPc' = "idle" /\ outW' = NoOwner
                         ELSE outPc' = "wait" /\ UNCHANGED outW
  /\ cb' = cbpReset /\ pend' = "redo" /\ UNCHANGED <<life, last>>
Callback(param, after) ==
  outPc' = "cb" /\ cb' = param /\ pend' = after /\ UNCHANGED <<outW, life, last>>

PrepareEnter(w) ==
  /\ outPc = "idle" /\ life[w] \in {"open", "closed"}
  /\ \/ ~(attached /\ hOwnerOut = w) /\ Returned0(w) /\ UNCHANGED firstOut
     \/ /\ attached /\ hOwnerOut = w
        /\ outW' = w /\ firstOut' = FALSE
        /\ IF firstOut THEN outPc' = "cb" /\ cb' = cbpUpdateState
                       ELSE outPc' = "loop" /\ UNCHANGED cb
        /\ UNCHANGED <<pend, life, last>>
  /\ UNCHANGED <<bodySide, ready, attached, sendVars, bufVars, stateOut, hdlcVars,
                 startedTimeOutBufEmpty, outReady, hOwnerOut, isEnableFakeOut>>

(* What a pass never touches                                                *)
passSide == <<bodySide, ready, attached, callbackParamOut, moreFramesOut,
              ModParsOut, outReady, ownVars>>
Pass == outPc = "loop" /\ Owns

OwnerLost ==
  /\ outPc = "loop" /\ ~Owns /\ Returned0(outW)
  /\ UNCHANGED <<passSide, stateModem, bufVars, stateOut, hdlcVars,
                 startedTimeOutBufEmpty>>

OutNothing ==
  /\ Pass /\ stateOut = "stOutIdle" /\ ~isStateModemOut /\ WaitData
  /\ UNCHANGED <<passSide, stateModem, bufVars, stateOut, hdlcVars,
                 startedTimeOutBufEmpty>>

OutIdle ==
  /\ Pass /\ stateOut = "stOutIdle" /\ isStateModemOut
  /\ CASE ModParsOut = "ced"     -> stateOut' = "stOutCedWait" /\ Emit("ced")
       [] ModParsOut = "silence" -> stateOut' = "stOutSilenceWait" /\ Redo
       [] OTHER                  -> stateOut' = "stOutIndWait" /\ Emit("ind")
  /\ UNCHANGED <<passSide, stateModem, bufVars, hdlcVars, startedTimeOutBufEmpty>>

(* The bound: of the signals too short to last until their SendStop, which  *)
(* is refused, one between two SendStops that are not.                      *)
OutSignalWait ==
  /\ Pass /\ stateOut \in {"stOutCedWait", "stOutSilenceWait"}
  /\ pc = "stop" => callbackParamOut \in {seq, cbpReset}
  /\ stateOut' = IF stateOut = "stOutCedWait" THEN "stOutNoSig" ELSE "stOutIdle"
  /\ stateModem' = "stmIdle"
  /\ Callback(callbackParamOut, "redo")
  /\ UNCHANGED <<passSide, bufVars, hdlcVars, startedTimeOutBufEmpty>>

(* HDLC on a raw carrier is "not implemented": hdlcOut is reset and gets    *)
(* the data, but no Get..Start.                                             *)
OutIndWait ==
  /\ Pass /\ stateOut = "stOutIndWait"
  /\ stateOut' = "stOutData" /\ startedTimeOutBufEmpty' = FALSE
  /\ countOut' = FALSE /\ inData' = TRUE /\ outEof' = FALSE /\ lastChar' = FALSE
  /\ IF ModParsOut = "hdlcRaw" THEN Returned0(outW) ELSE Redo
  /\ UNCHANGED <<passSide, stateModem, bufVars>>
-----------------------------------------------------------------------------
(* stOutData.  The three results of HDLC::GetData; k bytes are taken.       *)
(* Without a Get..Start outDataType is dtNone, and the result always -1.    *)
Started == ModParsOut # "hdlcRaw"

(* the last byte taken makes an empty buffer the end of the frame           *)
Taken(k) ==
  /\ queued' = queued - k /\ UNCHANGED eof
  /\ IF k = 0 THEN UNCHANGED lastChar
     ELSE lastChar' \in IF ModParsOut = "hdlc" THEN {TRUE} ELSE BOOLEAN

(* count > 0.  Raw data sent as HDLC is unpacked: a packet may hold the end *)
(* of a frame, at a flag or at the end of the data.                         *)
GetSome ==
  /\ Started /\ inData /\ ~outEof /\ queued > 0
  /\ \E k \in 1..queued :
       /\ Taken(k)
       /\ \/ UNCHANGED <<inData, outEof>>
          \/ ModParsOut = "rawHdlc" /\ outEof' = TRUE /\ UNCHANGED inData
          \/ /\ ModParsOut = "rawHdlc" /\ k = queued /\ eof
             /\ outEof' = TRUE /\ inData' = FALSE

(* count = 0                                                                *)
GetNone ==
  /\ Started /\ ~outEof
  /\ \/ inData /\ queued = 0 /\ ~eof /\ Taken(0) /\ UNCHANGED <<inData, outEof>>
     \/ /\ inData /\ ModParsOut = "rawHdlc" /\ queued > 0 /\ ~eof
        /\ Taken(queued) /\ UNCHANGED <<inData, outEof>>
     \/ ~inData /\ ModParsOut = "rawHdlc" /\ Taken(0) /\ UNCHANGED <<inData, outEof>>

(* count = -1                                                               *)
GetEnd ==
  \/ ~Started /\ Taken(0) /\ UNCHANGED <<inData, outEof>>
  \/ outEof /\ Taken(0) /\ UNCHANGED <<inData, outEof>>
  \/ ~outEof /\ ~inData /\ ModParsOut # "rawHdlc" /\ Taken(0)
       /\ UNCHANGED <<inData, outEof>>
  \/ /\ Started /\ ~outEof /\ inData /\ queued = 0 /\ eof /\ Taken(0)
     /\ inData' = FALSE /\ outEof' = (ModParsOut = "rawHdlc")
  \/ /\ ~outEof /\ inData /\ ModParsOut = "rawHdlc"
     /\ \E k \in 1..queued :
          /\ Taken(k) /\ outEof' = TRUE
          /\ inData' \in {TRUE, ~(k = queued /\ eof)}

(* wasFull && !isFull reports the room before the result is looked at.      *)
AfterGetSilent(after) ==                    \* mutant: no cbpOutBufNoFull
  CASE after = "data" -> Emit("data")
    [] after = "redo" -> Redo
AfterGet(after) ==
  IF Full /\ queued' < MaxBuf THEN Callback(cbpOutBufNoFull, after)
  ELSE CASE after = "data" -> Emit("data")
         [] after = "redo" -> Redo

OutDataNoFcs ==                             \* mutant: HDLC ends like raw data
  /\ Pass /\ stateOut = "stOutData" /\ startedTimeOutBufEmpty' = FALSE
  /\ \/ /\ GetSome /\ AfterGet("data")
        /\ countOut' = TRUE /\ UNCHANGED stateOut
     \/ /\ GetEnd /\ AfterGet("redo")
        /\ stateOut' = "stOutDataNoSig"
        /\ UNCHANGED countOut
  /\ UNCHANGED <<passSide, stateModem>>
OutData ==
  /\ Pass /\ stateOut = "stOutData" /\ startedTimeOutBufEmpty' = FALSE
  /\ \/ /\ GetSome /\ AfterGet("data")
        /\ countOut' = TRUE /\ UNCHANGED stateOut
     \/ /\ GetEnd /\ AfterGet("redo")
        /\ stateOut' = IF RawCarrier THEN "stOutDataNoSig" ELSE "stOutHdlcFcs"
        /\ UNCHANGED countOut
  /\ UNCHANGED <<passSide, stateModem>>

(* An empty buffer ends the frame at once or after a while.                 *)
BufEmpty ==
  \/ /\ lastChar' \/ startedTimeOutBufEmpty
     /\ Callback(cbpOutBufEmpty, "wait") /\ UNCHANGED startedTimeOutBufEmpty
  \/ /\ ~lastChar' /\ startedTimeOutBufEmpty' = TRUE /\ WaitData

OutDataNone ==
  /\ Pass /\ stateOut = "stOutData" /\ GetNone
  /\ IF Full /\ queued' < MaxBuf
     THEN Callback(cbpOutBufNoFull, "none") /\ UNCHANGED startedTimeOutBufEmpty
     ELSE BufEmpty
  /\ UNCHANGED <<passSide, stateModem, stateOut, countOut>>

OutNone ==                       \* .. after the callback
  /\ outPc = "none"
  /\ UNCHANGED <<bufVars, hdlcVars>> /\ BufEmpty
  /\ UNCHANGED <<passSide, stateModem, stateOut>>
-----------------------------------------------------------------------------
(* stOutHdlcFcs of raw data: the next frame is looked for at once, and the  *)
(* signal ends when only flags were left before the end of the data, or     *)
(* when the first byte after them holds a flag that is not aligned, however *)
(* much is left.  With inData already given up the look finds an empty      *)
(* outData, not its end.                                                    *)
OutRawFcs ==
  /\ Pass /\ stateOut = "stOutHdlcFcs" /\ ModParsOut = "rawHdlc"
  /\ countOut' = FALSE
  /\ \/ /\ ~inData /\ outEof' = FALSE /\ Taken(0)
        /\ stateOut' = "stOutData" /\ UNCHANGED inData
     \/ /\ inData /\ eof /\ Taken(queued)
        /\ inData' = FALSE /\ outEof' = TRUE /\ stateOut' = "stOutDataNoSig"
     \/ /\ inData /\ outEof' = TRUE /\ UNCHANGED inData
        /\ stateOut' = "stOutDataNoSig"
        /\ \E k \in 1..queued : Taken(k)
     \/ /\ inData /\ outEof' = FALSE /\ UNCHANGED inData
        /\ stateOut' = "stOutData"
        /\ \E k \in 0..queued :
             /\ (k = 0) <=> (queued = 0)
             /\ (queued = 0) => ~eof
             /\ Taken(k)
  /\ LET p == IF countOut THEN "fcs" ELSE "redo"
     IN IF Full /\ queued' < MaxBuf THEN Callback(cbpOutBufNoFull, p)
        ELSE IF countOut THEN Emit("fcs") ELSE Redo
  /\ UNCHANGED <<passSide, stateModem, startedTimeOutBufEmpty>>

(* stOutHdlcFcs of HDLC data: the frame is acknowledged here when more      *)
(* frames of the same signal follow.                                        *)
OutHdlcFcs ==
  /\ Pass /\ stateOut = "stOutHdlcFcs" /\ ModParsOut # "rawHdlc"
  /\ IF stateModem # "stmOutNoMoreData"
     THEN Returned0(outW) /\ UNCHANGED <<stateModem, stateOut, bufVars, hdlcVars>>
     ELSE /\ queued' = 0 /\ eof' = FALSE                       \* bufOut.Clean
          /\ countOut' = FALSE /\ inData' = TRUE /\ lastChar' = FALSE
          /\ UNCHANGED outEof
          /\ IF moreFramesOut
             THEN /\ stateOut' = "stOutData" /\ stateModem' = "stmOutMoreData"
                  /\ Callback(callbackParamOut, IF countOut THEN "fcs" ELSE "redo")
             ELSE /\ stateOut' = "stOutDataNoSig" /\ UNCHANGED stateModem
                  /\ IF countOut THEN Emit("fcs") ELSE Redo
  /\ UNCHANGED <<passSide, startedTimeOutBufEmpty>>

OutDataNoSig ==
  /\ Pass /\ stateOut = "stOutDataNoSig"
  /\ IF stateModem # "stmOutNoMoreData"
     THEN Returned0(outW) /\ UNCHANGED <<stateModem, stateOut>>
     ELSE /\ stateOut' = "stOutNoSig" /\ stateModem' = "stmIdle"
          /\ Callback(callbackParamOut,
                      IF RawCarrier THEN "rawSigEnd" ELSE "hdlcSigEnd")
  /\ UNCHANGED <<passSide, bufVars, hdlcVars, startedTimeOutBufEmpty>>

OutNoSig ==
  /\ Pass /\ stateOut = "stOutNoSig"
  /\ stateOut' = "stOutIdle" /\ Emit("noSig")
  /\ UNCHANGED <<passSide, stateModem, bufVars, hdlcVars, startedTimeOutBufEmpty>>
-----------------------------------------------------------------------------
(* ModemEngineBody::OnEngineCallback; the ones that may change the state    *)
(* wait for ModemEngineBody::Mutex.                                         *)
OnEngineCallback ==
  /\ outPc = "cb" /\ outPc' = "back"
  /\ cb \in 0..(SeqMod - 1) \cup {cbpOutBufEmpty} => pc # "stop"
  /\ IF attached
     THEN /\ ready' = TRUE
          /\ state' = IF cb = cbpOutBufEmpty /\ state = "stSend"
                      THEN "stSendBufEmptyHandle"
                      ELSE IF cb = seq /\ state = "stSendAckWait"
                      THEN "stSendAckHandle" ELSE state
     ELSE UNCHANGED <<ready, state>>
  /\ cb' = cbpReset
  /\ UNCHANGED <<dataType, moreFrames, seq, enableFakeOut, pc, held, attached,
                 sendVars, stateOut, bufVars, hdlcVars, startedTimeOutBufEmpty,
                 outReady, ownVars, outW, pend, life, last>>

CallbackBack ==
  /\ outPc = "back"
  /\ IF ~Owns THEN Returned0(outW)
     ELSE CASE pend = "redo" -> Redo
            [] pend = "wait" -> WaitData
            [] pend = "none" -> /\ outPc' = "none" /\ pend' = "redo"
                                /\ UNCHANGED <<outW, cb, life, last>>
            [] OTHER         -> Emit(pend)
  /\ UNCHANGED <<passSide, stateModem, bufVars, stateOut, hdlcVars,
                 startedTimeOutBufEmpty>>

(* WaitOutDataReady, and the check of the owner after it                    *)
WaitOutDataReady ==
  /\ outPc = "wait" /\ (outReady \/ startedTimeOutBufEmpty)
  /\ outReady' = FALSE
  /\ Redo
  /\ UNCHANGED <<bodySide, ready, attached, sendVars, bufVars, stateOut, hdlcVars,
                 startedTimeOutBufEmpty, ownVars>>

PreparePacket ==
  \/ OwnerLost \/ OutNothing \/ OutIdle \/ OutSignalWait \/ OutIndWait
  \/ OutData \/ OutDataNone \/ OutNone \/ OutRawFcs \/ OutHdlcFcs
  \/ OutDataNoSig \/ OutNoSig \/ CallbackBack \/ WaitOutDataReady
  \/ \E w \in Writer : PrepareEnter(w)
-----------------------------------------------------------------------------
(* Owners.  The callbacks of OpenOut and CloseOut only wake the body.       *)

ownSide == <<bodySide, attached, sendVars, bufVars, stateOut, hdlcVars,
             startedTimeOutBufEmpty, outVars>>
Woken == ready' = (ready \/ attached)

(* T38ModemMediaStream::Open: takes the output from any owner               *)
StreamOpen(s) ==
  /\ life[s] = "new" /\ ~enableFakeOut /\ life' = [life EXCEPT ![s] = "open"]
  /\ hOwnerOut' = s /\ firstOut' = TRUE /\ last' = "any" /\ Woken
  /\ outReady' = (outReady \/ hOwnerOut # NoOwner)
  /\ UNCHANGED <<ownSide, isEnableFakeOut>>

(* T38ModemMediaStream::Close, by another thread than the media thread      *)
StreamClose(s) ==
  /\ life[s] \in {"open", "dead"}
  /\ life' = [life EXCEPT ![s] = IF @ = "open" THEN "closed" ELSE "new"]
  /\ IF hOwnerOut = s
     THEN /\ hOwnerOut' = NoOwner /\ isEnableFakeOut' = FALSE /\ last' = "any"
          /\ Woken /\ outReady' = TRUE
     ELSE UNCHANGED <<hOwnerOut, isEnableFakeOut, last, ready, outReady>>
  /\ UNCHANGED <<ownSide, firstOut>>

(* FakePreparePacketThread::Main, before and after its loop                 *)
FakeOpen(f) ==
  /\ life[f] = "created" /\ life' = [life EXCEPT ![f] = "open"]
  /\ IF hOwnerOut = NoOwner
     THEN hOwnerOut' = f /\ firstOut' = TRUE /\ last' = "any" /\ Woken
     ELSE UNCHANGED <<hOwnerOut, firstOut, last, ready>>
  /\ UNCHANGED <<ownSide, isEnableFakeOut, outReady>>

FakeClose(f) ==
  /\ life[f] = "closing" /\ life' = [life EXCEPT ![f] = "new"]
  /\ IF hOwnerOut = f
     THEN hOwnerOut' = NoOwner /\ last' = "any" /\ Woken /\ outReady' = TRUE
     ELSE UNCHANGED <<hOwnerOut, last, ready, outReady>>
  /\ UNCHANGED <<ownSide, isEnableFakeOut, firstOut>>

(* _ClearCall while off-hook, asked for by ~ModemConnection: OPAL has       *)
(* closed the streams of the call and joined their threads.  The engine     *)
(* may serve itself from now on.                                            *)
ClearCall ==
  /\ attached /\ ~enableFakeOut /\ pc # "stop"
  /\ \A s \in Stream : life[s] = "new"
  /\ enableFakeOut' = TRUE /\ ready' = TRUE
  /\ UNCHANGED <<state, dataType, moreFrames, seq, pc, held, attached, sendVars,
                 stateOut, bufVars, hdlcVars, startedTimeOutBufEmpty, outReady,
                 ownVars, outVars, life, last>>

(* Any other wake-up of the engine thread                                   *)
SignalDataReady ==
  /\ pc = "wait" /\ ~ready /\ ready' = TRUE
  /\ UNCHANGED <<bodySide, sendVars, bufVars, outReady, outSide>>

EngineThread ==
  \/ SendCed \/ SendSilence \/ StopSignal \/ CheckBufEmpty \/ CheckAck \/ CheckOther
  \/ CmdSend \/ SendData \/ SendEtx \/ Abort \/ ReadDone \/ Detach
  \/ CheckStatePost \/ EnableFakeOn \/ EnableFakeOff \/ WaitDataReady

Next ==
  \/ EngineThread \/ PreparePacket \/ OnEngineCallback
  \/ ClearCall \/ SignalDataReady
  \/ \E s \in Stream : StreamOpen(s) \/ StreamClose(s)
  \/ \E f \in Fake : FakeOpen(f) \/ FakeClose(f)

Spec == Init /\ [][Next]_vars

(* Fairness.  The engine thread runs its loop, what the DTE sends excepted; *)
(* a thread in PreparePacket goes on and calls again, callbacks return,     *)
(* fake threads run.                                                        *)
EngineLoop ==
  \/ SendCed \/ StopSignal \/ CheckBufEmpty \/ CheckAck \/ CheckOther \/ ReadDone
  \/ CheckStatePost \/ EnableFakeOn \/ EnableFakeOff \/ WaitDataReady
FairSpec ==
  /\ Spec
  /\ WF_vars(EngineLoop) /\ WF_vars(PreparePacket) /\ WF_vars(OnEngineCallback)
  /\ \A f \in Fake : WF_vars(FakeOpen(f)) /\ WF_vars(FakeClose(f))

-----------------------------------------------------------------------------
(* The variables keep their types; at most one thread is in PreparePacket.  *)
TypeOK ==
  /\ state \in {"stCommand", "stReqModeAckHandle", "stSend", "stSendBufEmptyHandle",
                "stSendAckWait", "stSendAckHandle"}
  /\ dataType \in {"dtCed", "dtSilence", "dtHdlc", "dtRaw"}
  /\ seq \in 0..(SeqMod - 1)
  /\ pc \in {"check", "stop", "data", "more", "fakeOn", "fakeOff", "wait"}
  /\ {moreFrames, ready, enableFakeOut, held, attached, moreFramesOut, eof, countOut,
      inData, outEof, lastChar, startedTimeOutBufEmpty, outReady, firstOut,
      isEnableFakeOut} \subseteq BOOLEAN
  /\ stateModem \in {"stmIdle", "stmOutMoreData", "stmOutNoMoreData"}
  /\ callbackParamOut \in 0..(SeqMod - 1) \cup {cbpReset}
  /\ ModParsOut \in Signals /\ queued \in 0..MaxBuf
  /\ stateOut \in {"stOutIdle", "stOutCedWait", "stOutSilenceWait", "stOutIndWait",
                   "stOutData", "stOutHdlcFcs", "stOutDataNoSig", "stOutNoSig"}
  /\ hOwnerOut \in Writer \cup {NoOwner}
  /\ outPc \in {"idle", "loop", "cb", "back", "none", "wait"}
  /\ outW \in Writer \cup {NoOwner} /\ (outPc = "idle" <=> outW = NoOwner)
  /\ cb \in 0..(SeqMod - 1) \cup {cbpReset, cbpOutBufEmpty, cbpOutBufNoFull,
                                 cbpUpdateState}
  /\ pend \in {"redo", "wait", "none", "data", "fcs", "hdlcSigEnd",
                "rawSigEnd"}
  /\ life \in [Writer -> {"new", "created", "open", "closed", "dead", "closing"}]
  /\ last \in Packets \cup {"any"}

(* The acknowledgement of a send answers that send: OnEngineCallback moves  *)
(* the body out of stSendAckWait only when the engine waits for no end of   *)
(* data, and has sent everything the DTE gave it.  Two kinds of data are    *)
(* acknowledged although the engine abandoned them in bufOut: HDLC frames   *)
(* on a raw carrier (t38engine.cxx:1316), and raw data in which the look    *)
(* for the next frame met an unaligned flag (t38engine.cxx:1425), whose end *)
(* was then never read.                                                     *)
Abandoned == ModParsOut = "hdlcRaw" \/ (ModParsOut = "rawHdlc" /\ inData)
AckMeansSent ==
  [][ state = "stSendAckWait" /\ state' = "stSendAckHandle" =>
        /\ stateModem # "stmOutNoMoreData"
        /\ queued = 0 \/ Abandoned ]_vars

(* A body that waits for an acknowledgement has one coming: the engine      *)
(* still holds its sequence number or is delivering it.                     *)
AckPending ==
  state = "stSendAckWait" /\ pc # "stop" =>
    \/ stateModem = "stmOutNoMoreData" /\ callbackParamOut = seq
    \/ outPc = "cb" /\ cb = seq

(* Body and engine agree on the send they are in: while the body takes      *)
(* frame data from the DTE the engine accepts it, and a body that waits for *)
(* the acknowledgement gets one.  HDLC on a raw carrier is the exception:   *)
(* the engine ends the signal with its first frame, though more follow.     *)
Dropped == ModParsOut = "hdlcRaw" /\ stateModem = "stmIdle"
SendAgreement ==
  /\ state \in {"stSend", "stSendBufEmptyHandle"} =>
       stateModem = "stmOutMoreData" \/ Dropped
  /\ AckPending

(* WaitOutDataReady never sleeps through work: an unsignalled wait without  *)
(* a time limit is one of the owner, with nothing to send and no end of     *)
(* data to report, the one of an aborted frame excepted: OnResetModemState  *)
(* puts it without a signal, and leaves stmOutMoreData.                     *)
Aborted == eof /\ stateModem = "stmOutMoreData"
NoLostOutWakeup ==
  outPc = "wait" /\ ~outReady /\ ~startedTimeOutBufEmpty =>
    /\ Owns
    /\ stateOut = "stOutIdle" => ~isStateModemOut
    /\ stateOut = "stOutData" => queued = 0 /\ (inData /\ eof => Aborted)

(* Input held back because bufOut was full is looked at again: once there   *)
(* is room the engine thread is awake, or cbpOutBufNoFull is on its way.    *)
HeldInputSeen ==
  held /\ pc = "wait" /\ ~ready => Full \/ (outPc = "cb" /\ cb = cbpOutBufNoFull)

(* The packets of one owner form T.38 signals: data after its indicator,    *)
(* an FCS only after frame data, no HDLC signal that ends inside a frame,   *)
(* no-signal between two signals.                                           *)
Follows(p) ==
  CASE p = "noSig"          -> {"hdlcSigEnd", "rawSigEnd", "ced"}
    [] p \in {"ced", "ind"} -> {"noSig"}
    [] p = "data"           -> {"ind", "data", "fcs"}
    [] p = "fcs"            -> {"data"}
    [] p = "hdlcSigEnd"     -> {"ind", "fcs"}
    [] p = "rawSigEnd"      -> {"ind", "data"}
WireOrder ==
  [][ last' # last /\ "any" \notin {last, last'} => last \in Follows(last') ]_vars

(* An ended frame is sent: as long as the owner's thread runs, stmOutNo-    *)
(* MoreData ends.  Raw data whose HDLC unpacking gave up inData inside a    *)
(* frame is the exception: stOutData then waits for data that cannot come.  *)
Served == attached /\ hOwnerOut # NoOwner /\ life[hOwnerOut] = "open"
GivenUp == stateOut = "stOutData" /\ ModParsOut = "rawHdlc" /\ ~inData /\ ~outEof
FrameCompletes ==
  stateModem = "stmOutNoMoreData" ~>
    stateModem # "stmOutNoMoreData" \/ ~Served \/ GivenUp

(* A send in progress when the call is released is acknowledged as if it    *)
(* had been sent: CheckStatePost has a FakePreparePacketThread take it on.  *)
ReleasedSendAcked ==
  enableFakeOut /\ state = "stSendAckWait" ~>
    state # "stSendAckWait" \/ GivenUp

(* PreparePacket's own check: the FCS of an HDLC frame is due only after    *)
(* SendStop.  An abort that leaves stmOutMoreData breaks it.                *)
FcsAfterStop ==
  stateOut = "stOutHdlcFcs" /\ ModParsOut = "hdlc" /\ attached
    => stateModem = "stmOutNoMoreData"
=============================================================================
