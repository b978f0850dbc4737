------------------------------ MODULE FaxRecv ------------------------------
(***************************************************************************)
(* Receiving fax data: the states stRecvBegWait .. stRecv of               *)
(* ModemEngineBody (pmodeme.cxx), the receiving half of T38Engine          *)
(* (t38engine.cxx) with its ModStreams and the ownership of the input      *)
(* (EngineBase), and the media threads that call HandlePacketLost and      *)
(* HandlePacket.                                                           *)
(*                                                                         *)
(* The engine thread holds ModemEngineBody::Mutex at the positions of      *)
(* Locked, from one call of the engine to the next; every other step of it *)
(* takes and releases it, the ones at "fakeOn", "fakeOff", "fakeCb" and    *)
(* "nap" excepted, which run without it.  win[s].pc = "cb" is              *)
(* ModemCallbackWithUnlock in HandlePacket.                                *)
(*                                                                         *)
(* The remote party sends T.38 signals; a frame is Parts data fields and   *)
(* an FCS.  A packet reaches HandlePacket in order or not at all.          *)
(* Sending is one state, stmOut; FaxSend models it.                        *)
(***************************************************************************)
EXTENDS Integers, Sequences

CONSTANTS Stream,   \* T38ModemMediaStreams that may own the input
          Null,     \* the null pointer
          Mods,     \* modulations of the remote party and the commands
          Ecm,      \* T30::hdlcOnly: fast modulations carry HDLC frames
          Loses,    \* packets may get lost
          Parts,    \* data fields of a frame
          FcsKinds, \* the FCS fields the remote party sends
          MaxQ,     \* bound: buffers queued in a ModStream
          SeqMod    \* cbpUserDataMask + 1

ASSUME RecvAssumption ==
  /\ Null \notin Stream
  /\ Mods \subseteq {"v21", "long", "short"}
  /\ {Ecm, Loses} \subseteq BOOLEAN /\ FcsKinds \subseteq {"OK", "BAD"}
  /\ {Parts, MaxQ} \subseteq Nat \ {0} /\ SeqMod \in 3..256

VARIABLES
  state, dataType, seq, timeout, dataCount, diag, enableFakeIn,  \* ModemEngineBody
  pc, ready,                                   \* the engine thread
  attached, stateModem, callbackParamIn,       \* T38Engine
  isCarrierIn, countIn, modStreamIn, modStreamInSaved,
  hOwnerIn, isEnableFakeIn, fakeCb,            \* EngineBase
  life, win,                                   \* the media threads
  remote, gap                                  \* the remote party, losses

bodyVars   == <<state, dataType, seq, timeout, dataCount, diag>>
inVars     == <<isCarrierIn, countIn, modStreamInSaved>>
modemVars  == <<stateModem, callbackParamIn, modStreamIn>>
ownVars    == <<hOwnerIn, isEnableFakeIn>>
mediaVars  == <<life, win, remote, gap>>
vars == <<bodyVars, enableFakeIn, pc, ready, attached, modemVars, inVars, ownVars,
          fakeCb, mediaVars>>

cbpReset == -1
Errors == {"OutOfOrder", "DiffSig", "BadFcs", "Error"}         \* diagErrorMask

MsgType(m) == IF m = "v21" THEN "v21" ELSE "v17"               \* MODPARS
IsEqual(m, n) == MsgType(m) = MsgType(n)
(* What the signal carries; its DTE reads raw data in any case but V.21.    *)
dataTypeT38(m) == IF m = "v21" \/ Ecm THEN "dtHdlc" ELSE "dtRaw"
Repacked(m) == m # "v21" /\ Ecm
-----------------------------------------------------------------------------
(* ModStream.  A DataStream keeps how many parts of one frame it holds (-1  *)
(* for anything else), and whether something is left to read.  lastBuf      *)
(* points at firstBuf, at the tail of bufQ, or is NULL.                     *)

Bufs == [has : -1..Parts, unread : BOOLEAN, eof : BOOLEAN,
         diag : SUBSET (Errors \cup {"NoCarrier"})]
ModStreams == [mod : Mods \cup {"v21"}, firstBuf : Bufs \cup {Null}, bufQ : Seq(Bufs),
               lastBuf : {"none", "first", "tail"}]
ASSUME NullAssumption == Null \notin Bufs \cup ModStreams    \* points to none

NewBuf == [has |-> 0, unread |-> FALSE, eof |-> FALSE, diag |-> {}]
ModStream(m) == [mod |-> m, firstBuf |-> Null, bufQ |-> <<>>, lastBuf |-> "none"]

Open(ms) == ms # Null /\ ms.lastBuf # "none"
LastBuf(ms) == IF ms.lastBuf = "first" THEN ms.firstBuf ELSE ms.bufQ[Len(ms.bufQ)]
SetLast(ms, b) ==
  IF ms.lastBuf = "first" THEN [ms EXCEPT !.firstBuf = b]
                          ELSE [ms EXCEPT !.bufQ[Len(ms.bufQ)] = b]

PushBuf(ms) == [ms EXCEPT !.bufQ = Append(@, NewBuf), !.lastBuf = "tail"]

DeleteFirstBufDangling(ms) ==               \* mutant: lastBuf not reset
  [ms EXCEPT !.firstBuf = Null]
DeleteFirstBuf(ms) ==
  [ms EXCEPT !.firstBuf = Null, !.lastBuf = IF @ = "first" THEN "none" ELSE @]

(* Repacked data begins with flags.                                         *)
PopBuf(ms) ==
  LET d == DeleteFirstBuf(ms)
      b == [Head(d.bufQ) EXCEPT !.unread = @ \/ Repacked(d.mod)]
  IN [d EXCEPT !.firstBuf = b, !.bufQ = Tail(@),
               !.lastBuf = IF @ = "tail" /\ Len(d.bufQ) = 1 THEN "first" ELSE @]

PutData(ms, p) ==
  LET b == LastBuf(ms)
  IN SetLast(ms, [b EXCEPT !.has = IF @ = p - 1 THEN p ELSE -1, !.unread = TRUE])

SetDiag(ms, d) == SetLast(ms, [LastBuf(ms) EXCEPT !.diag = @ \cup d])

(* The end of a repacked frame puts out its FCS.                            *)
PutEofClean(ms, d) ==                       \* mutant: the reason is not kept
  LET b == LastBuf(ms)
      e == [b EXCEPT !.eof = TRUE, !.unread = @ \/ Repacked(ms.mod)]
  IN [SetLast(ms, e) EXCEPT !.lastBuf = "none"]
PutEof(ms, d) ==
  LET b == LastBuf(ms)
      e == [b EXCEPT !.eof = TRUE, !.diag = @ \cup d,
                     !.unread = @ \/ Repacked(ms.mod)]
  IN [SetLast(ms, e) EXCEPT !.lastBuf = "none"]

(* modStreamInSaved has no firstBuf.                                        *)
Move(ms, from) == [ms EXCEPT !.bufQ = @ \o from.bufQ, !.lastBuf = from.lastBuf]
-----------------------------------------------------------------------------
Init ==
  /\ state = "stReqModeAckHandle" /\ dataType = "dtRaw" /\ seq = 0 /\ timeout = 0
  /\ dataCount = FALSE /\ diag = {} /\ enableFakeIn = FALSE
  /\ pc = "check" /\ ready = FALSE
  /\ attached = TRUE /\ stateModem = "stmIdle" /\ callbackParamIn = cbpReset
  /\ isCarrierIn = FALSE /\ countIn = FALSE
  /\ modStreamIn = Null /\ modStreamInSaved = Null
  /\ hOwnerIn = Null /\ isEnableFakeIn = FALSE /\ fakeCb = cbpReset
  /\ life = [s \in Stream |-> "new"]
  /\ win = [s \in Stream |-> [pc |-> "idle", cb |-> cbpReset, pend |-> "done"]]
  /\ remote = [phase |-> "start", mod |-> "v21", part |-> 0]
  /\ gap = FALSE
-----------------------------------------------------------------------------
(* The modem API of T38Engine, called under ModemEngineBody::Mutex.         *)

NextSeq == (seq + 1) % SeqMod

(* Callbacks on their way into OnEngineCallback                             *)
InFlight == {win[s].cb : s \in {t \in Stream : win[t].pc = "cb"}}
              \cup (IF pc = "fakeCb" THEN {fakeCb} ELSE {})
(* Bound: no callback is on its way while the DTE gives as many commands as *)
(* there are sequence numbers.                                              *)
NotLapped == {(seq + 1) % SeqMod, (seq + 2) % SeqMod} \cap InFlight = {}

(* RecvWait(dtHdlc or dtRaw): what has come already is ready at once.       *)
CanWait == attached /\ stateModem = "stmIdle"
Kept(m) ==       \* buffers of the last signal that the DTE has not asked for
  modStreamIn # Null /\ modStreamIn.bufQ # <<>> /\ IsEqual(m, modStreamIn.mod)
DiffSig(ms) == PutEof(PushBuf(ms), {"DiffSig"})
RecvWaitStale(m, param) ==                  \* mutant: keeps the old callback
  \/ /\ Kept(m) /\ modStreamIn' = DeleteFirstBuf(modStreamIn)
     /\ stateModem' = "stmInReadyData" /\ UNCHANGED <<callbackParamIn, modStreamInSaved>>
  \/ /\ ~Kept(m) /\ modStreamInSaved # Null
     /\ IF IsEqual(m, modStreamInSaved.mod)
        THEN /\ modStreamIn' = Move(ModStream(m), modStreamInSaved)
             /\ modStreamInSaved' = Null
        ELSE modStreamIn' = DiffSig(ModStream(m)) /\ UNCHANGED modStreamInSaved
     /\ stateModem' = "stmInReadyData" /\ UNCHANGED callbackParamIn
  \/ /\ ~Kept(m) /\ modStreamInSaved = Null
     /\ modStreamIn' = ModStream(m) /\ stateModem' = "stmInWaitData"
     /\ UNCHANGED <<callbackParamIn, modStreamInSaved>>
RecvWait(m, param) ==
  /\ callbackParamIn' = param
  /\ \/ /\ Kept(m) /\ modStreamIn' = DeleteFirstBuf(modStreamIn)
        /\ stateModem' = "stmInReadyData" /\ UNCHANGED modStreamInSaved
     \/ /\ ~Kept(m) /\ modStreamInSaved # Null
        /\ IF IsEqual(m, modStreamInSaved.mod)
           THEN /\ modStreamIn' = Move(ModStream(m), modStreamInSaved)
                /\ modStreamInSaved' = Null
           ELSE modStreamIn' = DiffSig(ModStream(m)) /\ UNCHANGED modStreamInSaved
        /\ stateModem' = "stmInReadyData"
     \/ /\ ~Kept(m) /\ modStreamInSaved = Null
        /\ modStreamIn' = ModStream(m) /\ stateModem' = "stmInWaitData"
        /\ UNCHANGED modStreamInSaved

isStateModemIn == stateModem \in {"stmInWaitData", "stmInReadyData", "stmInRecvData"}
Unread == IF modStreamIn = Null THEN Null ELSE DeleteFirstBuf(modStreamIn)
RecvStop ==
  /\ IF attached /\ isStateModemIn
     THEN modStreamIn' = Unread /\ stateModem' = "stmIdle"
     ELSE UNCHANGED <<modStreamIn, stateModem>>
  /\ UNCHANGED callbackParamIn

RecvDiag ==
  IF modStreamIn = Null THEN {"Error"}
  ELSE IF modStreamIn.firstBuf = Null THEN {"Error"} ELSE modStreamIn.firstBuf.diag

(* OnResetModemState; a sending engine is left to finish                    *)
ResetModemState ==
  /\ modStreamIn' = Unread
  /\ stateModem' = IF stateModem = "stmOut" THEN "stmOut" ELSE "stmIdle"
  /\ callbackParamIn' = cbpReset

engineSide == <<attached, inVars, ownVars, fakeCb, mediaVars>>
-----------------------------------------------------------------------------
(* Engine thread: CheckState                                                *)

Locked == pc \in {"begin", "refuse", "recv", "diag", "stop"}

(* ModemEngineBody::RecvStart                                               *)
RecvStart(m) ==
  /\ dataType' = IF m = "v21" THEN "dtHdlc" ELSE "dtRaw"
  /\ seq' = IF attached THEN NextSeq ELSE seq
  /\ \/ /\ CanWait /\ RecvWait(m, NextSeq)
        /\ IF stateModem' = "stmInReadyData"
           THEN state' = "stRecvBegHandle" /\ timeout' = 0 /\ ready' = TRUE
           ELSE state' = "stRecvBegWait" /\ timeout' = 1 /\ UNCHANGED ready
     \/ /\ ~CanWait /\ state' = "stCommand" /\ timeout' = 0
        /\ UNCHANGED <<modemVars, modStreamInSaved, ready>>
  /\ UNCHANGED <<dataCount, diag, enableFakeIn, attached, isCarrierIn, countIn,
                 ownVars, fakeCb, mediaVars>>

(* stReqModeAckHandle of an outgoing call                                   *)
CheckReqMode ==
  /\ pc = "check" /\ state = "stReqModeAckHandle" /\ pc' = "data"
  /\ RecvStart("v21")

(* SendSilence, the SendStart and SendStop it makes taken together.         *)
(* T38Engine::SendStart deletes modStreamIn.                                *)
SendSilence(n) ==
  /\ dataType' = "dtSilence"
  /\ IF CanWait
     THEN /\ state' = "stSendAckWait" /\ stateModem' = "stmOut" /\ seq' = n
          /\ modStreamIn' = Null
     ELSE state' = "stCommand" /\ UNCHANGED <<stateModem, seq, modStreamIn>>

CheckTimeout ==
  /\ pc = "check" /\ state = "stRecvBegWait" /\ timeout = 2
  /\ timeout' = 0 /\ pc' = "data" /\ state' = "stCommand"
  /\ IF attached THEN ResetModemState ELSE UNCHANGED modemVars
  /\ UNCHANGED <<dataType, seq, dataCount, diag, enableFakeIn, ready, engineSide>>

CheckBegSilence ==
  /\ pc = "check" /\ state = "stRecvBegHandle" /\ dataType = "dtSilence"
  /\ pc' = "data" /\ SendSilence(NextSeq)
  /\ UNCHANGED <<timeout, dataCount, diag, enableFakeIn, ready, callbackParamIn,
                 engineSide>>

(* T38Engine::RecvStart                                                     *)
CheckBeg ==
  /\ pc = "check" /\ state = "stRecvBegHandle" /\ dataType # "dtSilence"
  /\ seq' = IF attached THEN NextSeq ELSE seq
  /\ dataCount' = FALSE                                    \* ResetDleData
  /\ IF attached /\ stateModem = "stmInReadyData"
     THEN /\ callbackParamIn' = NextSeq
          /\ IF modStreamIn # Null /\ modStreamIn.bufQ # <<>>
             THEN /\ modStreamIn' = PopBuf(modStreamIn) /\ stateModem' = "stmInRecvData"
                  /\ pc' = "begin" /\ UNCHANGED state
             ELSE /\ modStreamIn' = Null /\ stateModem' = "stmIdle"
                  /\ pc' = "data" /\ state' = "stCommand"
     ELSE pc' = "data" /\ state' = "stCommand" /\ UNCHANGED modemVars
  /\ UNCHANGED <<dataType, timeout, diag, enableFakeIn, ready, engineSide>>

CheckBegDiag ==
  /\ pc = "begin"
  /\ IF "DiffSig" \in RecvDiag
     THEN pc' = "refuse" /\ UNCHANGED <<state, ready>>
     ELSE pc' = "data" /\ state' = "stRecv" /\ ready' = TRUE
  /\ UNCHANGED <<dataType, seq, timeout, dataCount, diag, enableFakeIn, modemVars,
                 engineSide>>

CheckRefuse ==                                              \* +FCERROR
  /\ pc = "refuse" /\ pc' = "data" /\ state' = "stCommand"
  /\ RecvStop
  /\ UNCHANGED <<dataType, seq, timeout, dataCount, diag, enableFakeIn, ready, engineSide>>
-----------------------------------------------------------------------------
(* stRecv: Recv until it has no more, then RecvDiag and RecvStop.  A frame  *)
(* of repacked data is followed by the next one, the last one ends the data.*)

atRecv == pc = "recv" \/ (pc = "check" /\ state = "stRecv")
recvSide == <<dataType, seq, timeout, enableFakeIn, callbackParamIn, engineSide>>
Receiving == attached /\ stateModem = "stmInRecvData" /\ modStreamIn # Null

RecvSome ==
  /\ atRecv /\ Receiving /\ modStreamIn.firstBuf # Null /\ modStreamIn.firstBuf.unread
  /\ modStreamIn' = [modStreamIn EXCEPT !.firstBuf.unread = FALSE]
  /\ dataCount' = TRUE
  /\ pc' \in {"recv"} \cup (IF dataType = "dtRaw" /\ ~dataCount THEN {"nap"} ELSE {})
  /\ UNCHANGED <<recvSide, state, diag, ready, stateModem>>

RecvNap ==                                                  \* DelayFrmConnect
  /\ pc = "nap" /\ pc' = "recv"
  /\ UNCHANGED <<recvSide, state, diag, ready, stateModem, modStreamIn, dataCount>>

BufDone == modStreamIn.firstBuf # Null /\ modStreamIn.firstBuf.eof
             /\ ~modStreamIn.firstBuf.unread
RecvNextFrame ==
  /\ atRecv /\ Receiving /\ Repacked(modStreamIn.mod) /\ BufDone
  /\ modStreamIn.bufQ # <<>>
  /\ LET ms == PopBuf(modStreamIn)
     IN modStreamIn' = [ms EXCEPT !.firstBuf = Head(modStreamIn.bufQ)]
  /\ pc' = "recv"
  /\ UNCHANGED <<recvSide, state, diag, ready, stateModem, dataCount>>

RecvNone ==
  /\ atRecv /\ Receiving /\ modStreamIn.firstBuf # Null /\ ~modStreamIn.firstBuf.unread
  /\ BufDone => /\ Repacked(modStreamIn.mod) /\ modStreamIn.bufQ = <<>>
                /\ "NoCarrier" \notin modStreamIn.firstBuf.diag
  /\ modStreamIn' = IF BufDone THEN DeleteFirstBuf(modStreamIn) ELSE modStreamIn
  /\ pc' = "data"
  /\ UNCHANGED <<recvSide, state, diag, ready, stateModem, dataCount>>

RecvEnd ==                                                  \* Recv returns -1
  /\ atRecv /\ attached
  /\ Receiving /\ modStreamIn.firstBuf # Null =>
       /\ BufDone
       /\ Repacked(modStreamIn.mod) => /\ modStreamIn.bufQ = <<>>
                                       /\ "NoCarrier" \in modStreamIn.firstBuf.diag
  /\ pc' = "diag"
  /\ UNCHANGED <<recvSide, state, diag, ready, stateModem, modStreamIn, dataCount>>

RecvGone ==                                                 \* no currentClassEngine
  /\ atRecv /\ ~attached /\ pc' = "data" /\ state' = "stCommand"
  /\ UNCHANGED <<recvSide, diag, ready, stateModem, modStreamIn, dataCount>>

ReadDiag ==
  /\ pc = "diag" /\ pc' = "stop" /\ diag' = RecvDiag
  /\ UNCHANGED <<recvSide, state, ready, stateModem, modStreamIn, dataCount>>

StopRecv ==
  /\ pc = "stop" /\ pc' = "data" /\ state' = "stCommand"
  /\ diag' = {} /\ dataCount' = FALSE      \* of no use until the next ResetDleData
  /\ RecvStop
  /\ UNCHANGED <<dataType, seq, timeout, enableFakeIn, ready, engineSide>>

(* The response to AT+FRH                                                   *)
Resp == IF diag = {} THEN "OK"
        ELSE IF ~dataCount /\ diag \cap Errors = {} THEN "NO CARRIER" ELSE "ERROR"

CheckOther ==
  /\ pc = "check" /\ pc' = "data"
  /\ \/ state \in {"stCommand", "stSendAckWait"}
     \/ state = "stRecvBegWait" /\ timeout # 2
  /\ UNCHANGED <<bodyVars, enableFakeIn, ready, modemVars, engineSide>>
-----------------------------------------------------------------------------
(* HandleData: commands of the DTE, and any byte while receiving            *)

CmdRecv ==                                                  \* AT+FRH, AT+FRM
  /\ pc = "data" /\ state = "stCommand" /\ NotLapped /\ UNCHANGED pc
  /\ \E m \in Mods : RecvStart(m)

(* AT+FRS: RecvWait(dtSilence) waits only for the end of a signal that the  *)
(* engine has been receiving.                                               *)
CmdSilence ==
  /\ pc = "data" /\ state = "stCommand" /\ NotLapped
  /\ \/ /\ CanWait /\ modStreamIn # Null /\ isCarrierIn /\ modStreamInSaved = Null
        /\ modStreamIn' = Null
        /\ callbackParamIn' = NextSeq /\ stateModem' = "stmInWaitSilence"
        /\ seq' = NextSeq /\ timeout' = 1 /\ state' = "stRecvBegWait"
        /\ dataType' = "dtSilence"
     \/ /\ CanWait /\ (modStreamIn = Null \/ ~isCarrierIn \/ modStreamInSaved # Null)
        /\ SendSilence((seq + 2) % SeqMod)
        /\ timeout' = 0 /\ UNCHANGED callbackParamIn
     \/ /\ ~CanWait /\ dataType' = "dtSilence" /\ timeout' = 0
        /\ seq' = IF attached THEN NextSeq ELSE seq
        /\ UNCHANGED <<state, modemVars>>
  /\ UNCHANGED <<dataCount, diag, enableFakeIn, pc, ready, engineSide>>

(* AT+FTS, AT+FTH, AT+FTM: SendStart deletes what has come and was not asked *)
(* for, but for a silence keeps the signal that waits for its command.      *)
(* What is sent then is in FaxSend.                                         *)
CmdSend ==
  /\ pc = "data" /\ state = "stCommand" /\ NotLapped /\ CanWait
  /\ state' = "stSendAckWait" /\ stateModem' = "stmOut" /\ seq' = NextSeq
  /\ modStreamIn' = Null
  /\ \E dt \in {"dtSilence", "dtHdlc", "dtRaw"} :
       /\ dataType' = dt
       /\ modStreamInSaved' = IF dt = "dtSilence" THEN modStreamInSaved ELSE Null
  /\ UNCHANGED <<timeout, dataCount, diag, enableFakeIn, pc, ready, callbackParamIn,
                 attached, isCarrierIn, countIn, ownVars, fakeCb, mediaVars>>

(* The engine has sent, or the carrier it waited for has expired.           *)
SendEnds ==
  /\ stateModem = "stmOut" /\ ~Locked
  /\ \/ isCarrierIn /\ isCarrierIn' = FALSE /\ UNCHANGED <<stateModem, state>>
     \/ /\ stateModem' = "stmIdle" /\ UNCHANGED isCarrierIn
        /\ state' = IF state = "stSendAckWait" THEN "stCommand" ELSE state
  /\ UNCHANGED <<dataType, seq, timeout, dataCount, diag, enableFakeIn, pc, ready,
                 attached, callbackParamIn, modStreamIn, countIn, modStreamInSaved,
                 ownVars, fakeCb, mediaVars>>

Abort ==
  /\ pc = "data"
  /\ state \in {"stRecvBegWait", "stRecvBegHandle", "stRecv", "stSendAckWait"}
  /\ state' = "stCommand" /\ timeout' = 0 /\ dataCount' = FALSE
  /\ IF attached THEN ResetModemState ELSE UNCHANGED modemVars
  /\ UNCHANGED <<dataType, seq, diag, enableFakeIn, pc, ready, engineSide>>

(* OnHook and _DetachEngine, by this thread or one that stops the modem:    *)
(* the engine is never attached again.                                      *)
Detach ==
  /\ ~Locked /\ attached /\ attached' = FALSE
  /\ state' = "stCommand" /\ timeout' = 0 /\ enableFakeIn' = FALSE /\ ready' = TRUE
  /\ ResetModemState /\ dataCount' = FALSE
  /\ UNCHANGED <<dataType, seq, diag, pc, inVars, ownVars, fakeCb, mediaVars>>

(* CheckStatePost decides with the Mutex, and tells the engine without it.  *)
CheckStatePost ==
  /\ pc = "data"
  /\ pc' = IF ~attached THEN "wait"
           ELSE IF enableFakeIn /\ state \in {"stRecvBegWait", "stRecvBegHandle", "stRecv"}
                THEN "fakeOn" ELSE "fakeOff"
  /\ UNCHANGED <<bodyVars, enableFakeIn, ready, modemVars, engineSide>>

EnableFakeOff ==
  /\ pc = "fakeOff" /\ pc' = "wait" /\ isEnableFakeIn' = FALSE
  /\ UNCHANGED <<bodyVars, enableFakeIn, ready, attached, modemVars, inVars, hOwnerIn,
                 fakeCb, mediaVars>>

(* OnChangeEnableFakeIn: without an owner nothing more is received, so the  *)
(* engine ends the signal itself.  The engine thread makes the callback.    *)
FakeEof == PutEof(modStreamIn, {"NoCarrier"} \cup (IF countIn THEN {"OutOfOrder"} ELSE {}))
EnableFakeOnOpen ==                         \* mutant: the signal is not ended
  /\ pc = "fakeOn" /\ isEnableFakeIn' = TRUE
  /\ IF isEnableFakeIn \/ hOwnerIn # Null
     THEN pc' = "wait" /\ UNCHANGED <<fakeCb, modemVars, inVars>>
     ELSE /\ isCarrierIn' = FALSE /\ modStreamInSaved' = Null
          /\ UNCHANGED modStreamIn
          /\ pc' = "wait" /\ UNCHANGED <<fakeCb, stateModem>>
          /\ UNCHANGED <<callbackParamIn, countIn>>
  /\ UNCHANGED <<bodyVars, enableFakeIn, ready, attached, hOwnerIn, mediaVars>>
EnableFakeOn ==
  /\ pc = "fakeOn" /\ isEnableFakeIn' = TRUE
  /\ IF isEnableFakeIn \/ hOwnerIn # Null
     THEN pc' = "wait" /\ UNCHANGED <<fakeCb, modemVars, inVars>>
     ELSE /\ isCarrierIn' = FALSE /\ modStreamInSaved' = Null
          /\ modStreamIn' = IF Open(modStreamIn) THEN FakeEof ELSE modStreamIn
          /\ IF \/ Open(modStreamIn) /\ stateModem = "stmInRecvData"
                \/ stateModem = "stmInWaitSilence"
             THEN pc' = "fakeCb" /\ fakeCb' = callbackParamIn
             ELSE pc' = "wait" /\ UNCHANGED fakeCb
          /\ stateModem' = IF stateModem = "stmInWaitSilence" THEN "stmIdle" ELSE stateModem
          /\ UNCHANGED <<callbackParamIn, countIn>>
  /\ UNCHANGED <<bodyVars, enableFakeIn, ready, attached, hOwnerIn, mediaVars>>

(* ModemEngineBody::OnEngineCallback                                        *)
OnEngineCallback(cb) ==
  IF attached
  THEN /\ ready' = TRUE
       /\ IF cb = seq /\ state = "stRecvBegWait"
          THEN state' = "stRecvBegHandle" /\ timeout' = 0
          ELSE UNCHANGED <<state, timeout>>
  ELSE UNCHANGED <<ready, state, timeout>>

FakeCallback ==
  /\ pc = "fakeCb" /\ pc' = "wait" /\ fakeCb' = cbpReset
  /\ OnEngineCallback(fakeCb)
  /\ UNCHANGED <<dataType, seq, dataCount, diag, enableFakeIn, attached, modemVars,
                 inVars, ownVars, mediaVars>>

WaitDataReady ==
  /\ pc = "wait" /\ ready /\ ready' = FALSE /\ pc' = "check"
  /\ UNCHANGED <<bodyVars, enableFakeIn, modemVars, engineSide>>
-----------------------------------------------------------------------------
(* The remote party.  A session begins with no-signal.  A signal is an      *)
(* indicator, which may be repeated, frames or raw data, and an end;        *)
(* no-signal follows it or cuts it short.                                   *)
(* A packet of data holds a data field, an FCS and the end of the signal,   *)
(* or some of them.                                                         *)

Start == [phase |-> "start", mod |-> "v21", part |-> 0]
Quiet == [phase |-> "quiet", mod |-> "v21", part |-> 0]
On(m, n) == [phase |-> "on", mod |-> m, part |-> n]
Ended == [phase |-> "ended", mod |-> "v21", part |-> 0]
Sent(ind, next) == [ind |-> ind, mod |-> "v21", part |-> 0, fcs |-> "none",
                    sigEnd |-> FALSE, next |-> next]
Field(m, n, fcs, end, next) == [ind |-> "none", mod |-> m, part |-> n, fcs |-> fcs,
                                sigEnd |-> end, next |-> next]

FrameEnd(m, n) ==           \* n = 0: the FCS comes alone
  {Field(m, n, f, FALSE, On(m, 0)) : f \in FcsKinds}
    \cup {Field(m, n, f, TRUE, Ended) : f \in FcsKinds}
FramePackets(m, part) ==
  CASE part < Parts -> {Field(m, part + 1, "none", FALSE, On(m, part + 1))}
                         \cup (IF part + 1 = Parts THEN FrameEnd(m, part + 1) ELSE {})
    [] OTHER        -> FrameEnd(m, 0)
RemotePackets(r) ==
  LET m == r.mod
      Inds == {Sent(i, On(i, 0)) : i \in Mods}
  IN CASE r.phase = "start" -> {Sent("noSig", Quiet)}
       [] r.phase = "quiet" -> Inds \cup {Sent("noSig", Quiet), Sent("ced", Quiet)}
       [] r.phase = "ended" -> Inds \cup {Sent("noSig", Quiet)}
       [] OTHER -> {Sent("noSig", Quiet)}
            \cup (IF r.part = 0 THEN {Sent(m, r)} ELSE {})
            \cup (IF dataTypeT38(m) = "dtHdlc"
                  THEN FramePackets(m, r.part)
                         \cup (IF r.part = 0
                               THEN {Field(m, 0, "none", TRUE, Ended)} ELSE {})
                  ELSE {Field(m, 1, "none", FALSE, On(m, 1)),
                        Field(m, 0, "none", TRUE, Ended)})
(* Bound: the packets lost in a row are one or two.                         *)
AfterLoss ==
  LET after(R) == UNION {{p.next : p \in RemotePackets(r)} : r \in R}
      one == after({remote})
  IN one \cup after(one)
-----------------------------------------------------------------------------
(* HandlePacketLost and HandlePacket, called by WritePacket.                *)

inSide == <<bodyVars, enableFakeIn, pc, ready, attached, ownVars, fakeCb>>
Owns(s) == attached /\ hOwnerIn = s

Idle(s) == win' = [win EXCEPT ![s] = [pc |-> "idle", cb |-> cbpReset, pend |-> "done"]]
Return(s) == Idle(s) /\ UNCHANGED life
ReturnFalse(s) ==            \* the reading loop is terminated
  /\ Idle(s)
  /\ life' = [life EXCEPT ![s] = IF @ = "closed" THEN "new" ELSE "dead"]
Callback(s, after) ==
  /\ win' = [win EXCEPT ![s] = [pc |-> "cb", cb |-> callbackParamIn, pend |-> after]]
  /\ UNCHANGED life

(* WritePacket reports the gap before it hands over the packet after it; a  *)
(* thread that does not own the input fails here as it does in HandlePacket.*)
HandlePacketLostDeaf(s) ==                  \* mutant: the frame is not marked
  /\ Loses /\ life[s] = "open" /\ win[s].pc = "idle" /\ ~gap
  /\ Owns(s) /\ gap' = TRUE /\ remote' \in AfterLoss
  /\ UNCHANGED <<inSide, modemVars, inVars, life, win>>
HandlePacketLost(s) ==
  /\ Loses /\ life[s] = "open" /\ win[s].pc = "idle" /\ ~gap
  /\ Owns(s) /\ gap' = TRUE /\ remote' \in AfterLoss
  /\ LET mark(ms) == IF ms.mod = "v21" THEN SetDiag(ms, {"BadFcs"}) ELSE ms
     IN IF Open(modStreamIn)
        THEN modStreamIn' = mark(modStreamIn) /\ UNCHANGED modStreamInSaved
        ELSE /\ modStreamInSaved' = IF Open(modStreamInSaved)
                  THEN mark(modStreamInSaved) ELSE modStreamInSaved
             /\ UNCHANGED modStreamIn
  /\ UNCHANGED <<inSide, stateModem, callbackParamIn, isCarrierIn, countIn, life, win>>

(* An indicator i, once the signal before it has ended in modStreamIn = in  *)
EndSilence(s) ==
  IF stateModem = "stmInWaitSilence" THEN stateModem' = "stmIdle" /\ Callback(s, "done")
                                     ELSE UNCHANGED stateModem /\ Return(s)
NewSignal(s, i, in) ==
  LET saved == PushBuf(ModStream(i))
  IN \/ /\ i \notin Mods
        /\ modStreamInSaved' = Null /\ modStreamIn' = in
        /\ isCarrierIn' = FALSE /\ EndSilence(s)
        /\ UNCHANGED countIn
     \/ /\ i \in Mods /\ stateModem # "stmInWaitData"
        /\ modStreamInSaved' = saved /\ modStreamIn' = in
        /\ isCarrierIn' = TRUE /\ countIn' = FALSE /\ EndSilence(s)
     \/ /\ i \in Mods /\ stateModem = "stmInWaitData"
        /\ isCarrierIn' = TRUE /\ countIn' = FALSE
        /\ IF in # Null /\ IsEqual(in.mod, i)
           THEN modStreamIn' = Move(in, saved) /\ modStreamInSaved' = Null
           ELSE /\ modStreamIn' = IF in = Null THEN Null ELSE DiffSig(in)
                /\ modStreamInSaved' = saved
        /\ stateModem' = "stmInReadyData" /\ Callback(s, "done")

(* A repeated indicator is ignored, and no-signal before any data: firstIn  *)
(* is set by OpenIn and never cleared.                                      *)
Repeats(i) == \E ms \in {modStreamIn, modStreamInSaved} : Open(ms) /\ ms.mod = i
Premature(i) == Open(modStreamIn) /\ ~countIn /\ i = "noSig"
Indicator(s, i) ==
  \/ /\ Repeats(i) \/ Premature(i)
     /\ Return(s) /\ UNCHANGED <<inVars, modStreamIn, stateModem>>
  \/ /\ ~Repeats(i) /\ ~Premature(i) /\ Open(modStreamIn) /\ stateModem = "stmInRecvData"
     /\ modStreamIn' = PutEof(modStreamIn, {"OutOfOrder", "NoCarrier"})
     /\ Callback(s, i) /\ UNCHANGED <<inVars, stateModem>>
  \/ /\ ~Repeats(i) /\ ~Premature(i) /\ Open(modStreamIn) /\ stateModem # "stmInRecvData"
     /\ NewSignal(s, i, PutEof(modStreamIn, {"OutOfOrder", "NoCarrier"}))
  \/ /\ ~Repeats(i) /\ ~Open(modStreamIn)
     /\ NewSignal(s, i, modStreamIn)

(* Data goes to the open stream, unless it is of another signal.            *)
Put(ms, p) ==
  LET d == IF p.part = 0 THEN ms ELSE PutData(ms, p.part)
      e == IF p.fcs = "none" THEN d
           ELSE PushBuf(PutEof(d, IF p.fcs = "BAD" THEN {"BadFcs"} ELSE {}))
  IN IF MsgType(ms.mod) # MsgType(p.mod) THEN PutEof(ms, {"OutOfOrder", "NoCarrier"})
     ELSE IF p.sigEnd THEN PutEof(e, {"NoCarrier"}) ELSE e

DataTailSilent(s) ==                        \* mutant: no callback
  Return(s)
DataTail(s) ==
  IF stateModem = "stmInRecvData" THEN Callback(s, "done") ELSE Return(s)

DataEndSilence(p) == p.sigEnd /\ stateModem = "stmInWaitSilence"
Data(s, p) ==
  /\ IF Open(modStreamIn)
     THEN modStreamIn' = Put(modStreamIn, p) /\ UNCHANGED modStreamInSaved
     ELSE /\ modStreamInSaved' = IF Open(modStreamInSaved) THEN Put(modStreamInSaved, p)
                                                           ELSE modStreamInSaved
          /\ UNCHANGED modStreamIn
  /\ countIn' = (countIn \/ p.part > 0)
  /\ isCarrierIn' = (isCarrierIn /\ ~p.sigEnd)
  /\ IF DataEndSilence(p) THEN stateModem' = "stmIdle" /\ Callback(s, "tail")
                          ELSE UNCHANGED stateModem /\ DataTail(s)

(* Bound: the remote party ends a frame while there is room for the next.   *)
Room(p) ==
  p.fcs # "none" =>
    \A ms \in {modStreamIn, modStreamInSaved} : Open(ms) => Len(ms.bufQ) < MaxQ

HandlePacket(s) ==
  /\ life[s] = "open" /\ win[s].pc = "idle"
  /\ \/ /\ ~Owns(s) /\ ReturnFalse(s)
        /\ UNCHANGED <<remote, gap, stateModem, modStreamIn, inVars>>
     \/ /\ Owns(s) /\ gap' = FALSE
        /\ \E p \in RemotePackets(remote) :
             /\ Room(p) /\ remote' = p.next
             /\ IF p.ind = "none" THEN Data(s, p) ELSE Indicator(s, p.ind)
  /\ UNCHANGED <<inSide, callbackParamIn>>

(* The callback of HandlePacket waits for ModemEngineBody::Mutex.           *)
InCallback(s) ==
  /\ win[s].pc = "cb" /\ (win[s].cb = cbpReset \/ ~Locked)
  /\ OnEngineCallback(win[s].cb)
  /\ win' = [win EXCEPT ![s] = [@ EXCEPT !.pc = "back", !.cb = cbpReset]]
  /\ UNCHANGED <<dataType, seq, dataCount, diag, enableFakeIn, pc, attached, modemVars,
                 inVars, ownVars, fakeCb, life, remote, gap>>

CallbackBack(s) ==
  /\ win[s].pc = "back"
  /\ \/ ~Owns(s) /\ ReturnFalse(s) /\ UNCHANGED <<inVars, modStreamIn, stateModem>>
     \/ /\ Owns(s) /\ win[s].pend = "done"
        /\ Return(s) /\ UNCHANGED <<inVars, modStreamIn, stateModem>>
     \/ /\ Owns(s) /\ win[s].pend = "tail"
        /\ DataTail(s) /\ UNCHANGED <<inVars, modStreamIn, stateModem>>
     \/ /\ Owns(s) /\ win[s].pend \notin {"done", "tail"}
        /\ NewSignal(s, win[s].pend, modStreamIn)
  /\ UNCHANGED <<inSide, callbackParamIn, remote, gap>>
-----------------------------------------------------------------------------
(* Owners of the input.  The callbacks of OpenIn and CloseIn only wake the  *)
(* body.                                                                    *)

ownSide == <<bodyVars, enableFakeIn, pc, attached, modemVars, inVars, fakeCb, win>>
Woken == ready' = (ready \/ attached)

StreamOpen(s) ==             \* OpenIn; a new session of the remote party
  /\ life[s] = "new" /\ ~enableFakeIn /\ life' = [life EXCEPT ![s] = "open"]
  /\ hOwnerIn' = s /\ Woken
  /\ remote' = Start /\ gap' = FALSE
  /\ UNCHANGED <<ownSide, isEnableFakeIn>>

StreamClose(s) ==            \* CloseIn
  /\ life[s] \in {"open", "dead"}
  /\ life' = [life EXCEPT ![s] = IF win[s].pc = "idle" THEN "new" ELSE "closed"]
  /\ IF hOwnerIn = s
     THEN /\ hOwnerIn' = Null /\ isEnableFakeIn' = FALSE /\ Woken
          /\ remote' = Start /\ gap' = FALSE
     ELSE UNCHANGED <<hOwnerIn, isEnableFakeIn, ready, remote, gap>>
  /\ UNCHANGED ownSide

(* _ClearCall while off-hook, asked for by ~ModemConnection: OPAL has       *)
(* closed the streams of the call and joined their threads.                 *)
ClearCall ==
  /\ attached /\ ~enableFakeIn /\ ~Locked
  /\ \A s \in Stream : life[s] = "new"
  /\ enableFakeIn' = TRUE /\ ready' = TRUE
  /\ UNCHANGED <<bodyVars, pc, attached, modemVars, inVars, ownVars, fakeCb, mediaVars>>

TimeoutFires ==              \* 60 seconds in stRecvBegWait
  /\ timeout = 1 /\ timeout' = 2 /\ ready' = TRUE
  /\ UNCHANGED <<state, dataType, seq, dataCount, diag, enableFakeIn, pc, modemVars,
                 engineSide>>

SignalDataReady ==           \* any other wake-up: input of the DTE
  /\ pc = "wait" /\ ~ready /\ ready' = TRUE
  /\ UNCHANGED <<bodyVars, enableFakeIn, pc, modemVars, engineSide>>

CheckState ==
  \/ CheckReqMode \/ CheckTimeout \/ CheckBegSilence \/ CheckBeg \/ CheckBegDiag
  \/ CheckRefuse \/ RecvSome \/ RecvNap \/ RecvNextFrame \/ RecvNone \/ RecvEnd
  \/ RecvGone \/ ReadDiag \/ StopRecv \/ CheckOther
EngineLoop ==
  \/ CheckState \/ CheckStatePost \/ EnableFakeOff \/ EnableFakeOn \/ FakeCallback
  \/ WaitDataReady
MediaThread(s) == HandlePacketLost(s) \/ HandlePacket(s) \/ InCallback(s) \/ CallbackBack(s)

Next ==
  \/ EngineLoop \/ CmdRecv \/ CmdSilence \/ CmdSend \/ Abort \/ Detach
  \/ SendEnds \/ ClearCall \/ TimeoutFires \/ SignalDataReady
  \/ \E s \in Stream : MediaThread(s) \/ StreamOpen(s) \/ StreamClose(s)

Spec == Init /\ [][Next]_vars

(* Fairness: the engine thread runs its loop, what the DTE sends excepted,  *)
(* and a callback goes through once the Mutex is free.  Nothing is asked of *)
(* the remote party.                                                        *)
FairSpec ==
  /\ Spec /\ WF_vars(EngineLoop)
  /\ \A s \in Stream : WF_vars(InCallback(s)) /\ WF_vars(CallbackBack(s))
-----------------------------------------------------------------------------
(* The variables keep their types.                                          *)
StreamOK(ms) == ms # Null => ms \in ModStreams /\ Len(ms.bufQ) <= MaxQ
TypeOK ==
  /\ state \in {"stReqModeAckHandle", "stCommand", "stRecvBegWait", "stRecvBegHandle",
                "stRecv", "stSendAckWait"}
  /\ dataType \in {"dtHdlc", "dtRaw", "dtSilence"}
  /\ seq \in 0..(SeqMod - 1) /\ timeout \in 0..2
  /\ diag \subseteq Errors \cup {"NoCarrier"}
  /\ {dataCount, enableFakeIn, ready, attached, isCarrierIn, countIn, isEnableFakeIn}
       \subseteq BOOLEAN
  /\ pc \in {"check", "data", "begin", "refuse", "recv", "nap", "diag", "stop", "fakeOn",
             "fakeOff", "fakeCb", "wait"}
  /\ stateModem \in {"stmIdle", "stmOut", "stmInWaitSilence", "stmInWaitData",
                     "stmInReadyData", "stmInRecvData"}
  /\ {callbackParamIn, fakeCb} \subseteq -1..(SeqMod - 1)
  /\ StreamOK(modStreamIn) /\ StreamOK(modStreamInSaved)
  /\ hOwnerIn \in Stream \cup {Null}
  /\ life \in [Stream -> {"new", "open", "closed", "dead"}]
  /\ win \in [Stream -> [pc : {"idle", "cb", "back"}, cb : -1..(SeqMod - 1),
                         pend : {"done", "tail", "noSig", "ced"} \cup Mods]]
  /\ remote \in [phase : {"start", "quiet", "on", "ended"}, mod : Mods \cup {"v21"},
                 part : 0..Parts]
  /\ remote.phase = "on" => remote.mod \in Mods
  /\ gap \in BOOLEAN

(* lastBuf, as the comment of ModStream has it, is in bufQ or is firstBuf:  *)
(* HandlePacket never writes into a buffer that RecvStop, ResetModemState   *)
(* or the next RecvWait has deleted.                                        *)
BufferOwnership ==
  \A ms \in {modStreamIn, modStreamInSaved} :
    ms # Null =>
      /\ ms.lastBuf = "first" => ms.firstBuf # Null /\ ~ms.firstBuf.eof /\ ms.bufQ = <<>>
      /\ ms.lastBuf = "tail"  => ms.bufQ # <<>> /\ ~ms.bufQ[Len(ms.bufQ)].eof

(* A body that waits for a signal or for silence is told: the engine holds  *)
(* its sequence number, or is delivering it.                                *)
RecvWaitPending ==
  state = "stRecvBegWait" =>
    \/ stateModem \in {"stmInWaitSilence", "stmInWaitData"} /\ callbackParamIn = seq
    \/ seq \in InFlight

(* No receive is left behind: back in command state the engine is idle or   *)
(* finishes sending, so that the next AT+FRx or AT+FTx is not refused for   *)
(* the rest of the call.                                                    *)
NoReceiveLeft == state = "stCommand" => stateModem \in {"stmIdle", "stmOut"}

(* Body and engine agree on the receive they are in: stRecvBegHandle finds  *)
(* a buffer to receive, or the silence, stRecv its buffer, as the callback  *)
(* said; a wait for silence does not outlive the carrier, every wait is     *)
(* answered, and no receive is left behind.                                 *)
RecvAgreement ==
  /\ state = "stRecvBegHandle" /\ pc \notin {"begin", "refuse"} =>
       IF dataType = "dtSilence" THEN stateModem = "stmIdle"
       ELSE stateModem = "stmInReadyData" /\ modStreamIn # Null /\ modStreamIn.bufQ # <<>>
  /\ state = "stRecv" =>
       stateModem = "stmInRecvData" /\ modStreamIn # Null /\ modStreamIn.firstBuf # Null
  /\ stateModem = "stmInWaitSilence" => isCarrierIn
  /\ RecvWaitPending /\ NoReceiveLeft

(* The engine thread never sleeps in stRecv while there is data or the end  *)
(* of a frame to read and no callback is on its way: stRecv has no timeout. *)
NoLostRecvWakeup ==
  state = "stRecv" /\ pc = "wait" /\ ~ready =>
    \/ \E s \in Stream : win[s].pc = "cb"
    \/ ~modStreamIn.firstBuf.unread /\ ~modStreamIn.firstBuf.eof

(* A good FCS is only made for a whole frame, the empty one that ends the   *)
(* signal excepted.                                                         *)
GoodFrameWhole ==
  \A ms \in {modStreamIn, modStreamInSaved} :
    ms # Null /\ dataTypeT38(ms.mod) = "dtHdlc" =>
      LET good(b) == b.eof /\ b.diag \cap Errors = {}
          whole(b) == b.has = IF "NoCarrier" \in b.diag THEN 0 ELSE Parts
      IN /\ ms.firstBuf # Null => (good(ms.firstBuf) => whole(ms.firstBuf))
         /\ \A n \in 1..Len(ms.bufQ) : good(ms.bufQ[n]) => whole(ms.bufQ[n])

(* AT+FRH answers OK only for a frame that is whole, and NO CARRIER only    *)
(* when none of the frame came.                                             *)
ResponseTruthful ==
  pc = "stop" /\ dataType = "dtHdlc" =>
    /\ Resp = "OK" => modStreamIn.firstBuf.has = Parts
    /\ Resp = "NO CARRIER" => modStreamIn.firstBuf.has = 0

(* What is queued and what is answered is true of the frame: lost packets,  *)
(* cut signals and signals that follow each other show as ERROR.            *)
ReportTruthful == GoodFrameWhole /\ ResponseTruthful

(* A receive ends after the call was released: CheckStatePost has the       *)
(* engine end the signal that no packet will end.                           *)
ReleasedRecvEnds == enableFakeIn /\ state = "stRecv" ~> state # "stRecv"

(* The end of a signal reaches the DTE, though its packet may come at any   *)
(* point of the engine thread's loop.                                       *)
EndedSignalReported == state = "stRecv" /\ ~Open(modStreamIn) ~> state # "stRecv"

(* HandlePacket's trace says "ignored first indicator": the no-signal that  *)
(* ends a signal of this session, whose indicator came before it, is not    *)
(* the first, and closes the stream.                                        *)
OnlyFirstIgnored ==
  [][ (/\ remote.phase \in {"on", "ended"} /\ remote'.phase = "quiet" /\ gap' = FALSE
       /\ Open(modStreamIn)) => ~Open(modStreamIn') ]_vars
=============================================================================
