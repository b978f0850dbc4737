---------------------------- MODULE CallControl ----------------------------
(***************************************************************************)
(* Call control of one pseudo modem: ModemEngineBody (pmodeme.cxx) driven  *)
(* by its engine thread (ModemEngine::Main), together with the connections *)
(* of the modem endpoint (opal/modemep.cxx) that send it requests from     *)
(* OPAL's threads, and the pool the modem is allocated from (pmodem.cxx).  *)
(*                                                                         *)
(* ModemEngineBody::Mutex is held by the engine thread exactly when        *)
(* pc \notin Unlocked; a request is one atomic step taken while it is      *)
(* free.  Every place where the engine thread releases the Mutex (the      *)
(* calls of callbackEndPoint, the sleeps of _DetachEngine) is a pc value.  *)
(* The states stSend .. stRecv, in which call control only waits, are      *)
(* folded into stData; stRecvBegWait stays apart because it has a timeout. *)
(***************************************************************************)
EXTENDS Naturals, FiniteSets

CONSTANTS Conn,    \* the connections (call tokens) that may ever exist
          NoConn   \* the empty call token

ASSUME NoConnAssumption == NoConn \notin Conn

CallStates == {"cstCleared", "cstDialing", "cstAlerted", "cstCalled",
               "cstAnswering", "cstEstablished", "cstReleasing"}
States     == {"stCommand", "stDial", "stConnectWait", "stConnectHandle",
               "stReqModeAckWait", "stReqModeAckHandle", "stRecvBegWait",
               "stData"}
SubStates  == {"chConnected", "chWaitAudioEngine", "chAudioEngineAttached",
               "chWaitPlayTone", "chTonePlayed", "chConnectionEstablishDelay",
               "chConnectionEstablished"}
Mce        == {"mceT38", "mceAudio"}

VARIABLES
  off_hook, callState, callSubState, callToken, lockReleasingState,
  connectionEstablished,
  state, subState, callDirection, pPlayTone,
  modemClass, activeEngines, currentClassEngine,
  timerRing, timerBusy, timeout,   \* Timeout::state: 0 stopped, 1 runs, 2 fired
  pc, ret, arg,                    \* engine thread: where, return point, token
  ready,                           \* ModemThread::dataReadySyncPoint
  quiet,                           \* lastOnHookActivity is over 5 s old
  conn,                            \* life of each ModemConnection
  partyA,                          \* the connections the modem dialled
  pool                             \* how often the modem is in the pool

callVars == <<off_hook, callState, callSubState, callToken,
              lockReleasingState, connectionEstablished>>
cmdVars  == <<state, subState, callDirection, pPlayTone>>
engVars  == <<modemClass, activeEngines, currentClassEngine>>
timVars  == <<timerRing, timerBusy, timeout>>
envVars  == <<conn, partyA, pool>>
vars     == <<callVars, cmdVars, engVars, timVars, pc, ret, arg, ready, quiet,
              envVars>>

(* CheckState runs "ring", "tmo", "rel", "sw" without releasing the Mutex.  *)
Locked   == {"ring", "tmo", "rel", "sw", "onHook", "detT38", "tryT38",
             "detAudio", "tryAudio", "clear", "clearEnd"}
Unlocked == {"wait", "data", "napT38", "napAudio", "dialCb", "dialSetUp",
             "dialMade", "dialOk", "dialFail", "answerCb", "answerOk",
             "answerFail", "reqModeCb", "clearCb", "clearRet"}
Returns  == {"tmo", "rel", "sw", "data"}
Phases   == {"none", "alloc", "in", "conn", "out", "alert", "estab", "rel",
             "freed", "gone"}
Live     == {"in", "conn", "out", "alert", "estab"}
-----------------------------------------------------------------------------
Init ==
  /\ off_hook = FALSE /\ callState = "cstCleared" /\ callSubState = 0
  /\ callToken = NoConn /\ lockReleasingState = 0
  /\ connectionEstablished = FALSE
  /\ state = "stCommand" /\ subState = "chConnected"
  /\ callDirection = "cdUndefined" /\ pPlayTone = FALSE
  /\ modemClass = "mcFax" /\ activeEngines = {} /\ currentClassEngine = "none"
  /\ timerRing = 0 /\ timerBusy = FALSE /\ timeout = 0
  /\ pc = "ring" /\ ret = "data" /\ arg = NoConn
  /\ ready = FALSE /\ quiet = FALSE
  /\ conn = [c \in Conn |-> "none"] /\ partyA = {} /\ pool = 1
-----------------------------------------------------------------------------
(* Building blocks: what a source function called under the Mutex does.    *)

EngineOf(cls) == CASE cls = "mcFax" -> "mceT38" [] cls = "mcAudio" -> "mceAudio"
                   [] OTHER -> "none"

(* OnChangeModemClass after P.ModemClass(cls) *)
ChangeModemClass(cls) ==
  /\ modemClass' = cls
  /\ currentClassEngine' =
       IF EngineOf(cls) \in activeEngines THEN EngineOf(cls) ELSE "none"
  /\ UNCHANGED activeEngines

(* _AttachEngine: the engine is created and attached, and a state waiting  *)
(* for it moves on.                                                        *)
AttachedPtrAny(m) == m                                  \* mutant: no class test
AttachedPtr(m) == IF EngineOf(modemClass) = m THEN m ELSE currentClassEngine
Awaits(m) ==
  \/ m = "mceT38" /\ state = "stReqModeAckWait"
  \/ m = "mceAudio" /\ state = "stConnectHandle" /\ subState = "chWaitAudioEngine"

_AttachEngine(m) ==
  /\ activeEngines' = activeEngines \cup {m}
  /\ currentClassEngine' = AttachedPtr(m)
  /\ UNCHANGED modemClass
  /\ IF Awaits(m)
     THEN /\ state' = IF m = "mceT38" THEN "stReqModeAckHandle" ELSE state
          /\ subState' = IF m = "mceAudio" THEN "chAudioEngineAttached"
                                           ELSE "chConnected"
          /\ timeout' = 0
     ELSE UNCHANGED <<state, subState, timeout>>

SetState(st) == state' = st /\ subState' = "chConnected"

(* What _ClearCall resets when it leaves an active call state.             *)
ForgetCallKeepsFlag ==                          \* mutant: flag not reset
  timerRing' = 0 /\ pPlayTone' = FALSE /\ UNCHANGED connectionEstablished
ForgetCall ==
  timerRing' = 0 /\ connectionEstablished' = FALSE /\ pPlayTone' = FALSE

(* _ClearCall's last test, on the decremented lockReleasingState           *)
LastReleasePost(n) == n + 1 = 0 /\ ~off_hook    \* mutant: post-decrement
LastRelease(n) == n = 0 /\ ~off_hook

(* The part of _ClearCall before the Mutex may be released.                *)
StartRelease ==
  /\ callState' = "cstReleasing"
  /\ callSubState' = IF callState = "cstReleasing" THEN callSubState ELSE 0
  /\ IF callState = "cstReleasing"
     THEN UNCHANGED <<timerRing, timerBusy, timeout, connectionEstablished,
                      pPlayTone, engVars, state, subState>>
     ELSE /\ ForgetCall
          /\ timerBusy' = (timerBusy \/ off_hook)
          /\ IF off_hook /\ "mceAudio" \notin activeEngines
             THEN _AttachEngine("mceAudio")
             ELSE UNCHANGED <<engVars, state, subState, timeout>>

CallOnHook(k) == pc' = "onHook" /\ ret' = k

(* Answer(), called at a point whose continuation is k                     *)
Answer(k) ==
  /\ off_hook' = TRUE
  /\ timerRing' = 0
  /\ \/ /\ ~connectionEstablished /\ callState = "cstCalled"
        /\ callState' = "cstAnswering" /\ callSubState' = 0
        /\ SetState("stConnectWait")
        /\ timeout' = 1
        /\ pc' = "answerCb" /\ ret' = k /\ arg' = callToken
        /\ UNCHANGED ready
     \/ /\ ~connectionEstablished /\ callState # "cstCalled"
        /\ CallOnHook(k)
        /\ UNCHANGED <<callState, callSubState, state, subState, timeout, arg,
                       ready>>
     \/ /\ connectionEstablished
        /\ timeout' = 0
        /\ state' = "stConnectHandle" /\ subState' = "chConnectionEstablished"
        /\ ready' = TRUE
        /\ pc' = k
        /\ UNCHANGED <<callState, callSubState, ret, arg>>
  /\ UNCHANGED <<callToken, lockReleasingState, connectionEstablished,
                 pPlayTone, engVars, timerBusy, envVars>>
-----------------------------------------------------------------------------
(* Engine thread: CheckState *)

WaitDataReady ==
  /\ pc = "wait" /\ ready
  /\ ready' = FALSE
  /\ pc' = "ring"
  /\ UNCHANGED <<callVars, cmdVars, engVars, timVars, ret, arg, quiet, envVars>>

(* RING and auto answer.  It is put off while a command line is being      *)
(* typed (cmd is not empty), which may be the case at any time.            *)
CheckRing ==
  /\ pc = "ring"
  /\ UNCHANGED quiet
  /\ \/ /\ timerRing' = IF timerRing = 2 THEN 1 ELSE timerRing
        /\ pc' = "tmo"
        /\ UNCHANGED <<callVars, cmdVars, engVars, timerBusy, timeout, ret, arg,
                       ready, envVars>>
     \/ /\ timerRing = 2 /\ ~off_hook /\ callState = "cstCalled"
        /\ callDirection' = "cdIncoming"
        /\ Answer("tmo")
     \/ /\ timerRing = 2 /\ pc' = "tmo"
        /\ UNCHANGED <<callVars, cmdVars, engVars, timVars, ret, arg, ready,
                       envVars>>

CheckTimeout ==
  /\ pc = "tmo"
  /\ timeout' = IF timeout = 2 THEN 0 ELSE timeout
  /\ \/ /\ timeout = 2 /\ state \in {"stReqModeAckWait", "stRecvBegWait"}
        /\ SetState("stCommand")
        /\ \/ currentClassEngine # "none" /\ pc' = "rel" /\ UNCHANGED ret
           \/ currentClassEngine = "none" /\ CallOnHook("rel")
     \/ /\ timeout = 2 /\ state = "stConnectHandle"
        /\ subState = "chConnectionEstablishDelay"
        /\ subState' = "chConnectionEstablished" /\ pc' = "rel"
        /\ UNCHANGED <<state, ret>>
     \/ /\ timeout = 2
        /\ \/ state = "stConnectWait"
           \/ state = "stConnectHandle" /\ subState # "chConnectionEstablishDelay"
        /\ CallOnHook("rel")
        /\ UNCHANGED <<state, subState>>
     \/ /\ timeout # 2 \/ state \in {"stCommand", "stDial", "stReqModeAckHandle",
                                     "stData"}
        /\ pc' = "rel"
        /\ UNCHANGED <<state, subState, ret>>
  /\ UNCHANGED <<callVars, callDirection, pPlayTone, engVars, timerRing,
                 timerBusy, arg, ready, quiet, envVars>>

(* The off-hook modem notices that its call is being released.             *)
CheckReleasing ==
  /\ pc = "rel"
  /\ LET seen == off_hook /\ callState = "cstReleasing" /\ callSubState = 0
         giveUp == state \in {"stDial", "stConnectWait", "stConnectHandle",
                              "stReqModeAckWait", "stReqModeAckHandle"}
     IN /\ callSubState' = IF seen THEN 1 ELSE callSubState
        /\ timeout' = IF seen /\ giveUp THEN 0 ELSE timeout
        /\ IF seen /\ giveUp THEN CallOnHook("sw")
                             ELSE pc' = "sw" /\ UNCHANGED ret
  /\ UNCHANGED <<off_hook, callState, callToken, lockReleasingState,
                 connectionEstablished, cmdVars, engVars, timerRing, timerBusy,
                 arg, ready, quiet, envVars>>

StartDialUntimed ==                             \* mutant: no timeout.Start
  /\ pc = "sw" /\ state = "stDial"
  /\ callState = "cstCleared"
  /\ callState' = "cstDialing" /\ callSubState' = 0
  /\ SetState("stConnectWait")
  /\ pc' = "dialCb"
  /\ UNCHANGED <<off_hook, callToken, lockReleasingState, connectionEstablished,
                 callDirection, pPlayTone, engVars, timVars, ret, arg, ready,
                 quiet, envVars>>

(* case stDial: "we can't dial after releasing w/o on-hook"                *)
StartDial ==
  /\ pc = "sw" /\ state = "stDial"
  /\ \/ /\ callState = "cstCleared"
        /\ callState' = "cstDialing" /\ callSubState' = 0
        /\ SetState("stConnectWait")
        /\ timeout' = 1
        /\ pc' = "dialCb"
        /\ UNCHANGED ret
     \/ /\ callState # "cstCleared"
        /\ CallOnHook("data")
        /\ UNCHANGED <<callState, callSubState, state, subState, timeout>>
  /\ UNCHANGED <<off_hook, callToken, lockReleasingState, connectionEstablished,
                 callDirection, pPlayTone, engVars, timerRing, timerBusy, arg,
                 ready, quiet, envVars>>

(* case stConnectHandle: a fall through of the switch is a step that keeps *)
(* pc = "sw".                                                              *)
Fallthrough(ss) == subState' = ss /\ UNCHANGED <<state, timeout, pPlayTone, pc,
                                                 ret, ready, connectionEstablished>>
Park(ss)        == subState' = ss /\ pc' = "data" /\ UNCHANGED <<state, ret, ready,
                                                   pPlayTone, connectionEstablished>>

ConnectHandle ==
  /\ pc = "sw" /\ state = "stConnectHandle"
  /\ \/ /\ subState = "chConnected"
        /\ IF "mceAudio" \in activeEngines
           THEN Fallthrough("chAudioEngineAttached")
           ELSE Park("chWaitAudioEngine") /\ timeout' = 1
     \/ /\ subState = "chAudioEngineAttached" /\ ~pPlayTone
        /\ Fallthrough("chTonePlayed")
     \/ /\ subState = "chAudioEngineAttached" /\ pPlayTone
        /\ \/ /\ "mceAudio" \notin activeEngines
              /\ Park("chWaitAudioEngine") /\ UNCHANGED timeout
           \/ /\ "mceAudio" \in activeEngines       \* its output is not open yet
              /\ Park("chAudioEngineAttached") /\ UNCHANGED timeout
           \/ /\ "mceAudio" \in activeEngines       \* the tone is queued
              /\ subState' = "chWaitPlayTone" /\ timeout' = 1
              /\ pPlayTone' = FALSE /\ pc' = "data"
              /\ UNCHANGED <<state, ret, ready, connectionEstablished>>
           \/ /\ "mceAudio" \in activeEngines       \* SendStart or SendStop failed
              /\ SetState("stCommand")
              /\ pPlayTone' = FALSE
              /\ CallOnHook("data")
              /\ UNCHANGED <<timeout, ready, connectionEstablished>>
     \/ /\ subState = "chTonePlayed"
        /\ IF ~connectionEstablished /\ modemClass = "mcFax"
           THEN Park("chConnectionEstablishDelay") /\ timeout' = 1
           ELSE Fallthrough("chConnectionEstablished")
     \/ /\ subState = "chConnectionEstablished"
        /\ connectionEstablished' = TRUE
        /\ subState' = "chConnected"
        /\ UNCHANGED <<pPlayTone, ret>>
        /\ \/ /\ modemClass = "mcAudio" \/ callDirection = "cdUndefined"
              /\ state' = "stCommand" /\ timeout' = 0 /\ pc' = "data"
              /\ UNCHANGED ready
           \/ /\ modemClass # "mcAudio" /\ callDirection # "cdUndefined"
              /\ "mceT38" \in activeEngines
              /\ state' = "stReqModeAckHandle" /\ timeout' = 0 /\ ready' = TRUE
              /\ pc' = "data"
           \/ /\ modemClass # "mcAudio" /\ callDirection # "cdUndefined"
              /\ "mceT38" \notin activeEngines
              /\ state' = "stReqModeAckWait" /\ timeout' = 1 /\ pc' = "reqModeCb"
              /\ UNCHANGED ready
     \/ /\ subState \in {"chWaitAudioEngine", "chWaitPlayTone",
                         "chConnectionEstablishDelay"}
        /\ Park(subState) /\ UNCHANGED timeout
  /\ UNCHANGED <<off_hook, callState, callSubState, callToken,
                 lockReleasingState, callDirection, engVars, timerRing,
                 timerBusy, arg, quiet, envVars>>

(* case stReqModeAckHandle: CED for an incoming call, listen for V.21 on   *)
(* an outgoing one.  The engine may refuse.                                *)
ReqModeAckHandle ==
  /\ pc = "sw" /\ state = "stReqModeAckHandle"
  /\ pc' = "data"
  /\ \/ SetState("stCommand") /\ timeout' \in {0, timeout} /\ UNCHANGED ready
     \/ /\ callDirection = "cdIncoming" /\ "mceT38" \in activeEngines
        /\ SetState("stData") /\ UNCHANGED <<timeout, ready>>
     \/ /\ callDirection = "cdOutgoing" /\ currentClassEngine # "none"
        /\ \/ SetState("stRecvBegWait") /\ timeout' = 1 /\ UNCHANGED ready
           \/ SetState("stData") /\ timeout' = 0 /\ ready' = TRUE
  /\ UNCHANGED <<callVars, callDirection, pPlayTone, engVars, timerRing,
                 timerBusy, ret, arg, quiet, envVars>>

(* The other states: nothing to do for call control, or one step of the    *)
(* data phase (stSendAckHandle, stRecvBegHandle, stRecv), which may end it. *)
CheckOther ==
  /\ pc = "sw"
  /\ \/ state \in {"stCommand", "stConnectWait", "stReqModeAckWait",
                   "stRecvBegWait"} /\ UNCHANGED <<state, subState>>
     \/ state = "stData" /\ \E st \in {"stData", "stCommand"} : SetState(st)
  /\ pc' = "data"
  /\ UNCHANGED <<callVars, callDirection, pPlayTone, engVars, timVars, ret, arg,
                 ready, quiet, envVars>>
-----------------------------------------------------------------------------
(* callbackEndPoint with the Mutex released: ModemEndPoint::OnMyCallback   *)

DialDequeueUnchecked ==                         \* mutant: no test for NULL
  /\ pc = "dialCb"
  /\ pool' = pool - 1 /\ pc' = "dialSetUp"
  /\ UNCHANGED <<callVars, cmdVars, engVars, timVars, ret, arg, ready, quiet,
                 conn, partyA>>

(* "dial" takes the modem out of the pool ...                              *)
DialDequeue ==
  /\ pc = "dialCb"
  /\ IF pool > 0 THEN pool' = pool - 1 /\ pc' = "dialSetUp"
                 ELSE pc' = "dialFail" /\ UNCHANGED pool
  /\ UNCHANGED <<callVars, cmdVars, engVars, timVars, ret, arg, ready, quiet,
                 conn, partyA>>

GiveBackForgotten == UNCHANGED pool             \* mutant: no Enqueue
GiveBack == pool' = pool + 1

(* ... SetUpCall makes a connection that owns the modem; when its          *)
(* SetUpConnection fails the call is cleared, NULL is returned and the     *)
(* modem is put back although the connection still owns it ...             *)
DialSetUp ==
  /\ pc = "dialSetUp"
  /\ \/ \E c \in Conn :
          /\ conn[c] = "none"
          /\ partyA' = partyA \cup {c}
          /\ \/ conn' = [conn EXCEPT ![c] = "out"] /\ arg' = c
                /\ pc' = "dialMade" /\ UNCHANGED pool
             \/ conn' = [conn EXCEPT ![c] = "rel"] /\ GiveBack
                /\ pc' = "dialFail" /\ UNCHANGED arg
     \/ GiveBack /\ pc' = "dialFail" /\ UNCHANGED <<conn, partyA, arg>>
  /\ UNCHANGED <<callVars, cmdVars, engVars, timVars, ret, ready, quiet>>

(* ... and the connection may already be released when it is looked up.    *)
DialLookup ==
  /\ pc = "dialMade"
  /\ \/ pc' = "dialOk" /\ conn[arg] \notin {"freed", "gone"} /\ UNCHANGED pool
     \/ pc' = "dialFail" /\ conn[arg] \notin Live /\ GiveBack
  /\ UNCHANGED <<callVars, cmdVars, engVars, timVars, ret, arg, ready, quiet,
                 conn, partyA>>

DialConfirmedForgets ==                         \* mutant: token not stored
  /\ pc = "dialOk"
  /\ arg' = NoConn
  /\ pc' = "data"
  /\ UNCHANGED <<callVars, cmdVars, engVars, timVars, ret, ready, quiet, envVars>>

(* Back in CheckState with the Mutex: "confirm" stores the token.          *)
DialConfirmed ==
  /\ pc = "dialOk"
  /\ callToken' = arg
  /\ arg' = NoConn
  /\ pc' = "data"
  /\ UNCHANGED <<off_hook, callState, callSubState, lockReleasingState,
                 connectionEstablished, cmdVars, engVars, timVars, ret, ready,
                 quiet, envVars>>

DialRejected ==
  /\ pc = "dialFail"
  /\ timeout' = 0
  /\ arg' = NoConn
  /\ CallOnHook("data")
  /\ UNCHANGED <<callVars, cmdVars, engVars, timerRing, timerBusy, ready, quiet,
                 envVars>>

(* "answer": AcceptIncoming if the connection is still known.              *)
AnswerCallback ==
  /\ pc = "answerCb"
  /\ \/ /\ conn[arg] \notin {"freed", "gone"}
        /\ conn' = [conn EXCEPT ![arg] = IF @ = "in" THEN "conn" ELSE @]
        /\ pc' = "answerOk"
     \/ /\ conn[arg] \notin Live
        /\ pc' = "answerFail"
        /\ UNCHANGED conn
  /\ UNCHANGED <<callVars, cmdVars, engVars, timVars, ret, arg, ready, quiet,
                 partyA, pool>>

AnswerReturn ==
  /\ \/ pc = "answerOk" /\ pc' = ret
     \/ pc = "answerFail" /\ pc' = "onHook"
  /\ arg' = NoConn
  /\ UNCHANGED <<callVars, cmdVars, engVars, timVars, ret, ready, quiet, envVars>>

(* "requestmode"; only a refused forced fax mode ends the attempt.         *)
ReqModeReturn ==
  /\ pc = "reqModeCb"
  /\ \/ UNCHANGED <<state, subState, timeout>>
     \/ SetState("stCommand") /\ timeout' = 0
  /\ pc' = "data"
  /\ UNCHANGED <<callVars, callDirection, pPlayTone, engVars, timerRing,
                 timerBusy, ret, arg, ready, quiet, envVars>>
-----------------------------------------------------------------------------
(* OnHook(), _DetachEngine() and _ClearCall() on the engine thread *)

OnHook ==
  /\ pc = "onHook"
  /\ quiet' = FALSE
  /\ IF off_hook
     THEN /\ off_hook' = FALSE
          /\ timerBusy' = FALSE /\ timeout' = 0
          /\ callDirection' = "cdUndefined"
          /\ SetState("stCommand")
          /\ pc' = "detT38"
     ELSE /\ pc' = "clear"
          /\ UNCHANGED <<off_hook, timerBusy, timeout, callDirection, state,
                         subState>>
  /\ UNCHANGED <<callState, callSubState, callToken, lockReleasingState,
                 connectionEstablished, pPlayTone, engVars, timerRing, ret, arg,
                 ready, envVars>>

(* _DetachEngine(m): "det" the entry, "nap" a sleep without the Mutex (the *)
(* sending is not completed, or the callback lock is taken), "try" the     *)
(* attempt to lock the engine's callback.                                  *)
Det(m)  == IF m = "mceT38" THEN "detT38" ELSE "detAudio"
Nap(m)  == IF m = "mceT38" THEN "napT38" ELSE "napAudio"
Try(m)  == IF m = "mceT38" THEN "tryT38" ELSE "tryAudio"
Done(m) == IF m = "mceT38" THEN "detAudio" ELSE "clear"

DetachEnter(m) ==
  /\ pc = Det(m)
  /\ IF m \notin activeEngines
     THEN pc' = Done(m)
     ELSE pc' \in {Try(m)} \cup (IF callToken = NoConn THEN {} ELSE {Nap(m)})
  /\ UNCHANGED <<callVars, cmdVars, engVars, timVars, ret, arg, ready, quiet,
                 envVars>>

DetachTry(m) ==
  /\ pc = Try(m)
  /\ \/ /\ m \notin activeEngines
        /\ pc' = Done(m)
        /\ UNCHANGED <<engVars, ready>>
     \/ /\ m \in activeEngines
        /\ activeEngines' = activeEngines \ {m}
        /\ currentClassEngine' =
             IF EngineOf(modemClass) = m THEN "none" ELSE currentClassEngine
        /\ ready' = (ready \/ EngineOf(modemClass) = m)
        /\ pc' = Done(m)
        /\ UNCHANGED modemClass
     \/ /\ m \in activeEngines
        /\ pc' = Nap(m)
        /\ UNCHANGED <<engVars, ready>>
  /\ UNCHANGED <<callVars, cmdVars, timVars, ret, arg, quiet, envVars>>

DetachWake(m) ==
  /\ pc = Nap(m)
  /\ pc' = Try(m)
  /\ UNCHANGED <<callVars, cmdVars, engVars, timVars, ret, arg, ready, quiet,
                 envVars>>

ClearCall ==
  /\ pc = "clear"
  /\ \/ /\ callState = "cstCleared"
        /\ pc' = ret
        /\ UNCHANGED <<callVars, cmdVars, engVars, timVars, arg>>
     \/ /\ callState # "cstCleared"
        /\ lockReleasingState' = lockReleasingState + 1
        /\ StartRelease
        /\ callToken' = NoConn
        /\ arg' = callToken
        /\ pc' = IF callToken = NoConn THEN "clearEnd" ELSE "clearCb"
        /\ UNCHANGED <<off_hook, callDirection>>
  /\ UNCHANGED <<ret, ready, quiet, envVars>>

(* "clearcall": ModemConnection::ClearCall if the connection is known.     *)
ClearCallback ==
  /\ pc = "clearCb"
  /\ conn' = [conn EXCEPT ![arg] = IF @ \in Live THEN "rel" ELSE @]
  /\ pc' = "clearRet"
  /\ UNCHANGED <<callVars, cmdVars, engVars, timVars, ret, arg, ready, quiet,
                 partyA, pool>>

ClearFinish ==
  /\ pc \in {"clearEnd", "clearRet"}
  /\ lockReleasingState' = lockReleasingState - 1
  /\ IF LastRelease(lockReleasingState - 1)
     THEN callState' = "cstCleared" /\ callSubState' = 0
     ELSE UNCHANGED <<callState, callSubState>>
  /\ ready' = TRUE
  /\ arg' = NoConn
  /\ pc' = ret
  /\ UNCHANGED <<off_hook, callToken, connectionEstablished, cmdVars, engVars,
                 timVars, ret, quiet, envVars>>
-----------------------------------------------------------------------------
(* Engine thread: HandleData, one AT command or one chunk of data a step.  *)

AtCommand == pc = "data" /\ state = "stCommand"

(* ATA, and AT+VLS=1 with callDirection undefined                          *)
CmdAnswer ==
  /\ AtCommand
  /\ quiet' = (quiet /\ off_hook)
  /\ callDirection' \in {"cdIncoming", "cdUndefined"}
  /\ Answer("data")

(* ATD                                                                     *)
CmdDial ==
  /\ AtCommand
  /\ quiet' = (quiet /\ off_hook)
  /\ off_hook' = TRUE
  /\ \/ /\ pc' = IF off_hook THEN "data" ELSE "onHook"     \* syntax error
        /\ ret' = "data"
        /\ pPlayTone' = (pPlayTone /\ callToken # NoConn)
        /\ UNCHANGED <<state, subState, callDirection, timerRing, timeout, ready>>
     \/ /\ callToken # NoConn /\ connectionEstablished     \* DTMF in the call
        /\ callDirection' \in {"cdOutgoing", "cdUndefined"}
        /\ state' = "stConnectHandle" /\ subState' = "chConnected"
        /\ pPlayTone' = TRUE \/ UNCHANGED pPlayTone
        /\ ready' = TRUE
        /\ UNCHANGED <<timerRing, timeout, pc, ret>>
     \/ /\ callToken # NoConn /\ ~connectionEstablished
        /\ CallOnHook("data")
        /\ UNCHANGED <<state, subState, callDirection, pPlayTone, timerRing,
                       timeout, ready>>
     \/ /\ callToken = NoConn
        /\ callDirection' \in {"cdOutgoing", "cdUndefined"}
        /\ timerRing' = 0
        /\ SetState("stDial")
        /\ pPlayTone' \in BOOLEAN
        /\ timeout' = 1
        /\ ready' = TRUE
        /\ UNCHANGED <<pc, ret>>
  /\ UNCHANGED <<callState, callSubState, callToken, lockReleasingState,
                 connectionEstablished, engVars, timerBusy, arg, envVars>>

(* ATH, ATZ, AT&F, AT+VLS=0 and AT+FCLASS=n.  ATH and AT+VLS=0 may also    *)
(* hang up an on-hook modem (ClearMode), AT+VLS=0 keeps the class.         *)
CmdHangup ==
  /\ AtCommand
  /\ quiet' = (quiet /\ off_hook)
  /\ \/ ChangeModemClass("mcFax")
     \/ UNCHANGED engVars
  /\ \/ CallOnHook("data")
     \/ ~off_hook /\ UNCHANGED <<pc, ret>>
  /\ UNCHANGED <<callVars, cmdVars, timVars, arg, ready, envVars>>

CmdClass ==
  /\ AtCommand
  /\ quiet' = (quiet /\ off_hook)
  /\ \E cls \in {"mcFax", "mcAudio", "mcUndefined"} : ChangeModemClass(cls)
  /\ UNCHANGED <<callVars, cmdVars, timVars, pc, ret, arg, ready, envVars>>

(* AT+FTS/FRS/FTM/FRM/FTH/FRH and AT+VTX/VRX/VTS: SendStart or RecvStart.  *)
CmdData ==
  /\ AtCommand
  /\ quiet' = (quiet /\ off_hook)
  /\ currentClassEngine # "none"
  /\ \/ /\ SetState("stData") /\ timeout' \in {0, timeout}
        /\ ready' = TRUE \/ UNCHANGED ready
     \/ SetState("stRecvBegWait") /\ timeout' = 1 /\ UNCHANGED ready
  /\ UNCHANGED <<callVars, callDirection, pPlayTone, engVars, timerRing,
                 timerBusy, pc, ret, arg, envVars>>

(* Data for the data phase, which it may abort (stSendAckWait, stRecv).    *)
HandleDataPhase ==
  /\ pc = "data" /\ state = "stData"
  /\ SetState("stCommand")
  /\ timeout' = 0
  /\ UNCHANGED <<callVars, callDirection, pPlayTone, engVars, timerRing,
                 timerBusy, pc, ret, arg, ready, quiet, envVars>>

(* A character while the modem waits for the call or for a carrier aborts  *)
(* the command.                                                            *)
HandleAbort ==
  /\ pc = "data" /\ state \notin {"stCommand", "stData"}
  /\ timeout' = 0
  /\ SetState("stCommand")
  /\ IF currentClassEngine # "none" \/ modemClass = "mcAudio"
     THEN UNCHANGED <<pc, ret>>
     ELSE CallOnHook("data")
  /\ UNCHANGED <<callVars, callDirection, pPlayTone, engVars, timerRing,
                 timerBusy, arg, ready, quiet, envVars>>

(* No more input: CheckStatePost and back to WaitDataReady.                *)
CheckStatePost ==
  /\ pc = "data"
  /\ pc' = "wait"
  /\ UNCHANGED <<callVars, cmdVars, engVars, timVars, ret, arg, ready, quiet,
                 envVars>>
-----------------------------------------------------------------------------
(* Other threads.  ModemEngineBody::Request and NewPtrEngine take the      *)
(* Mutex; OnMine is their test of the call token.                          *)

MutexFree == pc \in Unlocked
OnMine(c) == callToken \in {NoConn, c}
engineThread == <<pc, ret, arg>>

(* An incoming connection allocates the modem: PMAlloc asks IsReady ...    *)
PMAlloc(c) ==
  /\ MutexFree /\ conn[c] = "none" /\ pool > 0
  /\ state = "stCommand" /\ ~off_hook /\ callState = "cstCleared" /\ quiet
  /\ pool' = pool - 1
  /\ conn' = [conn EXCEPT ![c] = "alloc"]
  /\ UNCHANGED <<callVars, cmdVars, engVars, timVars, engineThread, ready, quiet,
                 partyA>>

CanRingOffHook == callState = "cstCleared"      \* mutant: off_hook not tested
CanRing == callState = "cstCleared" /\ ~off_hook

(* ... and offers it the call.                                             *)
RequestCall(c) ==
  /\ MutexFree /\ conn[c] = "alloc"
  /\ IF CanRing
     THEN /\ callState' = "cstCalled" /\ callSubState' = 0
          /\ callToken' = c
          /\ timerRing' = 2 /\ ready' = TRUE
          /\ conn' = [conn EXCEPT ![c] = "in"]
     ELSE /\ conn' = [conn EXCEPT ![c] = "rel"]
          /\ UNCHANGED <<callState, callSubState, callToken, timerRing, ready>>
  /\ UNCHANGED <<off_hook, lockReleasingState, connectionEstablished, cmdVars,
                 engVars, timerBusy, timeout, engineThread, quiet, partyA, pool>>

RequestAlerting(c) ==
  /\ MutexFree /\ conn[c] = "out"
  /\ conn' = [conn EXCEPT ![c] = "alert"]
  /\ IF callState = "cstDialing" /\ off_hook /\ OnMine(c)
     THEN /\ callState' = "cstAlerted" /\ callSubState' = 0
          /\ IF state = "stConnectWait" /\ ~pPlayTone /\ modemClass = "mcAudio"
             THEN /\ state' = "stConnectHandle" /\ subState' = "chConnected"
                  /\ timerRing' = 2 /\ ready' = TRUE
                  /\ activeEngines' = activeEngines \cup {"mceAudio"}
                  /\ currentClassEngine' = AttachedPtr("mceAudio")
             ELSE UNCHANGED <<state, subState, timerRing, ready, activeEngines,
                              currentClassEngine>>
     ELSE UNCHANGED <<callState, callSubState, state, subState, timerRing, ready,
                      activeEngines, currentClassEngine>>
  /\ UNCHANGED <<off_hook, callToken, lockReleasingState, connectionEstablished,
                 callDirection, pPlayTone, modemClass, timerBusy, timeout,
                 engineThread, quiet, partyA, pool>>

RequestEstablished(c) ==
  /\ MutexFree /\ conn[c] \in {"conn", "out", "alert"}
  /\ conn' = [conn EXCEPT ![c] = "estab"]
  /\ IF /\ callState \in {"cstDialing", "cstAlerted", "cstAnswering"}
        /\ off_hook /\ OnMine(c)
     THEN /\ timerRing' = 0
          /\ callState' = "cstEstablished" /\ callSubState' = 0
          /\ IF state = "stConnectWait"
             THEN /\ state' = "stConnectHandle" /\ subState' = "chConnected"
                  /\ ready' = TRUE
             ELSE UNCHANGED <<state, subState, ready>>
     ELSE UNCHANGED <<timerRing, callState, callSubState, state, subState, ready>>
  /\ UNCHANGED <<off_hook, callToken, lockReleasingState, connectionEstablished,
                 callDirection, pPlayTone, engVars, timerBusy, timeout,
                 engineThread, quiet, partyA, pool>>

(* ~ModemConnection: first the modem goes back to the pool ...             *)
PMFree(c) ==
  /\ conn[c] = "rel"
  /\ conn' = [conn EXCEPT ![c] = "freed"]
  /\ pool' = pool + 1
  /\ UNCHANGED <<callVars, cmdVars, engVars, timVars, engineThread, ready, quiet,
                 partyA>>

(* ... then it is told, with the next route to try if there is one.        *)
RequestClearcall(c) ==
  /\ MutexFree /\ conn[c] = "freed"
  /\ conn' = [conn EXCEPT ![c] = "gone"]
  /\ \/ /\ callState \in {"cstCleared", "cstReleasing"} \/ ~OnMine(c)
        /\ UNCHANGED <<callVars, cmdVars, engVars, timVars, ready>>
     \/ /\ callState \notin {"cstCleared", "cstReleasing"} /\ OnMine(c)
        /\ callState = "cstDialing" /\ state = "stConnectWait" /\ c \in partyA
        /\ callToken' = NoConn
        /\ callState' = "cstCleared" /\ callSubState' = 0
        /\ SetState("stDial")
        /\ ready' = TRUE
        /\ UNCHANGED <<off_hook, lockReleasingState, connectionEstablished,
                       callDirection, pPlayTone, engVars, timVars>>
     \/ /\ callState \notin {"cstCleared", "cstReleasing"} /\ OnMine(c)
        /\ callToken' = NoConn
        /\ LastRelease(lockReleasingState)
        /\ callState' = "cstCleared" /\ callSubState' = 0
        /\ ForgetCall
        /\ ready' = TRUE
        /\ UNCHANGED <<off_hook, lockReleasingState, state, subState,
                       callDirection, engVars, timerBusy, timeout>>
     \/ /\ callState \notin {"cstCleared", "cstReleasing"} /\ OnMine(c)
        /\ callToken' = NoConn
        /\ ~LastRelease(lockReleasingState)
        /\ StartRelease
        /\ ready' = TRUE
        /\ UNCHANGED <<off_hook, lockReleasingState, callDirection>>
  /\ UNCHANGED <<engineThread, quiet, partyA, pool>>

(* The remote party, a phase timeout or OPAL itself ends the connection.   *)
Release(c) ==
  /\ conn[c] \in Live
  /\ conn' = [conn EXCEPT ![c] = "rel"]
  /\ UNCHANGED <<callVars, cmdVars, engVars, timVars, engineThread, ready, quiet,
                 partyA, pool>>

NewPtrEngineSilent(c, m) ==                     \* mutant: no SignalDataReady
  /\ MutexFree /\ conn[c] \in Live \ {"in"}
  /\ _AttachEngine(m)
  /\ UNCHANGED <<callVars, callDirection, pPlayTone, timerRing, timerBusy, ready,
                 engineThread, quiet, envVars>>

(* CreateMediaStream of a connection asks for an engine.                   *)
NewPtrEngine(c, m) ==
  /\ MutexFree /\ conn[c] \in Live \ {"in"}
  /\ _AttachEngine(m)
  /\ ready' = (ready \/ Awaits(m))
  /\ UNCHANGED <<callVars, callDirection, pPlayTone, timerRing, timerBusy,
                 engineThread, quiet, envVars>>

(* OnEngineCallback from an attached engine: the awaited carrier or end of *)
(* the tone, or a callback that only wakes the engine thread.              *)
OnEngineCallback ==
  /\ activeEngines # {} /\ MutexFree
  /\ \/ /\ state = "stRecvBegWait"
        /\ SetState("stData") /\ timeout' = 0
     \/ /\ state = "stConnectHandle" /\ subState = "chWaitPlayTone"
        /\ subState' = "chTonePlayed" /\ timeout' = 0
        /\ UNCHANGED state
     \/ UNCHANGED <<state, subState, timeout>>
  /\ ready' = TRUE
  /\ UNCHANGED <<callVars, callDirection, pPlayTone, engVars, timerRing,
                 timerBusy, engineThread, quiet, envVars>>

(* Timeout::OnTimeout, with the timer's own mutex, then OnTimerCallback.   *)
RingTick ==
  /\ timerRing = 1
  /\ timerRing' = 2 /\ ready' = TRUE
  /\ UNCHANGED <<callVars, cmdVars, engVars, timerBusy, timeout, engineThread,
                 quiet, envVars>>

TimeoutFires ==
  /\ timeout = 1
  /\ timeout' = 2 /\ ready' = TRUE
  /\ UNCHANGED <<callVars, cmdVars, engVars, timerRing, timerBusy, engineThread,
                 quiet, envVars>>

(* Input on the pty wakes the engine thread.                               *)
PtyInput ==
  /\ ready' = TRUE
  /\ UNCHANGED <<callVars, cmdVars, engVars, timVars, engineThread, quiet,
                 envVars>>

(* Five seconds without on-hook activity; the sleeps of OnHook are shorter. *)
BecomeQuiet ==
  /\ pc = "wait" /\ ~off_hook
  /\ quiet' = TRUE
  /\ UNCHANGED <<callVars, cmdVars, engVars, timVars, engineThread, ready,
                 envVars>>
-----------------------------------------------------------------------------
CheckState == WaitDataReady \/ CheckRing \/ CheckTimeout \/ CheckReleasing
                \/ StartDial \/ ConnectHandle \/ ReqModeAckHandle \/ CheckOther
Callback   == DialDequeue \/ DialSetUp \/ DialLookup \/ DialConfirmed
                \/ DialRejected \/ AnswerCallback \/ AnswerReturn \/ ReqModeReturn
Hangup     == OnHook \/ ClearCall \/ ClearCallback \/ ClearFinish
                \/ \E m \in Mce : DetachEnter(m) \/ DetachTry(m) \/ DetachWake(m)
HandleData == CmdAnswer \/ CmdDial \/ CmdHangup \/ CmdClass \/ CmdData
                \/ HandleDataPhase \/ HandleAbort
Requests   == \E c \in Conn :
                \/ PMAlloc(c) \/ RequestCall(c) \/ RequestAlerting(c)
                \/ RequestEstablished(c) \/ PMFree(c) \/ RequestClearcall(c)
                \/ Release(c) \/ \E m \in Mce : NewPtrEngine(c, m)
Events     == OnEngineCallback \/ RingTick \/ TimeoutFires \/ PtyInput
                \/ BecomeQuiet

Next == CheckState \/ Callback \/ Hangup \/ HandleData \/ CheckStatePost
          \/ Requests \/ Events

Spec == Init /\ [][Next]_vars

(* The engine thread runs (its callbacks return), a running timeout fires,  *)
(* an engine's callback lock is not taken for ever, and a released          *)
(* connection is destroyed.  Users, remote parties and media are not fair.  *)
EngineThread == CheckState \/ Callback \/ Hangup \/ CheckStatePost
FairSpec ==
  /\ Spec
  /\ WF_vars(EngineThread)
  /\ WF_vars(TimeoutFires)
  /\ \A m \in Mce : SF_vars(DetachTry(m) /\ pc' = Done(m))
  /\ \A c \in Conn : WF_vars(PMFree(c)) /\ WF_vars(RequestClearcall(c))
-----------------------------------------------------------------------------
(***************************************************************************)
(* Properties                                                              *)
(***************************************************************************)

(* Every variable of ModemEngineBody and of the pool keeps its type; in    *)
(* particular the modem is never taken from an empty pool.                 *)
TypeOK ==
  /\ off_hook \in BOOLEAN /\ callState \in CallStates /\ callSubState \in {0, 1}
  /\ callToken \in Conn \cup {NoConn} /\ lockReleasingState \in Nat
  /\ connectionEstablished \in BOOLEAN
  /\ state \in States /\ subState \in SubStates
  /\ callDirection \in {"cdUndefined", "cdIncoming", "cdOutgoing"}
  /\ pPlayTone \in BOOLEAN
  /\ modemClass \in {"mcFax", "mcAudio", "mcUndefined"}
  /\ activeEngines \in SUBSET Mce /\ currentClassEngine \in Mce \cup {"none"}
  /\ timerRing \in 0..2 /\ timerBusy \in BOOLEAN /\ timeout \in 0..2
  /\ pc \in Locked \cup Unlocked /\ ret \in Returns
  /\ arg \in Conn \cup {NoConn}
  /\ ready \in BOOLEAN /\ quiet \in BOOLEAN
  /\ conn \in [Conn -> Phases] /\ partyA \in SUBSET Conn /\ pool \in Nat

(* The transition table in the comment of enum CallState: whatever the     *)
(* requests, commands and timeouts interleave to, the call state only      *)
(* moves along the table, with the hook in the position the table names.   *)
CallTransition ==
  \/ callState = "cstCleared" /\ callState' = "cstDialing" /\ off_hook'
  \/ callState = "cstCleared" /\ callState' = "cstCalled" /\ ~off_hook'
  \/ callState = "cstCalled" /\ callState' = "cstAnswering" /\ off_hook'
  \/ callState = "cstDialing" /\ callState' = "cstAlerted" /\ off_hook'
  \/ /\ callState \in {"cstDialing", "cstAlerted", "cstAnswering"}
     /\ callState' = "cstEstablished" /\ off_hook'
  \/ callState # "cstCleared" /\ callState' = "cstReleasing"
  \/ callState = "cstDialing" /\ callState' = "cstCleared" /\ off_hook'
  \/ callState' = "cstCleared" /\ ~off_hook'
CallTable == [][CallTransition]_callState

(* A connection that is alive is never forgotten by its modem: its token   *)
(* is the call token, or the engine thread holds it in a callback (so that *)
(* hanging up always reaches it).  This rests on the pool: a failed dial   *)
(* may leave the modem in it twice (see DialSetUp), and then a second dial *)
(* can overwrite the token of a call.                                      *)
Owners == {c \in Conn : conn[c] \notin {"none", "freed", "gone"}}
OwnedOnce == pool + Cardinality(Owners) + (IF pc = "dialSetUp" THEN 1 ELSE 0) = 1
NoOrphanCall ==
  OwnedOnce =>
    \A c \in Conn : conn[c] \in Live =>
      \/ callToken = c
      \/ arg = c /\ pc \in {"dialMade", "dialOk", "clearCb"}

(* When the engine thread sleeps in WaitDataReady while CheckState would   *)
(* have something to do, a SignalDataReady is pending: no wakeup is lost   *)
(* between a request, a callback or a timer and the thread.                *)
Actionable ==
  \/ state \in {"stDial", "stReqModeAckHandle"}
  \/ state = "stConnectHandle" /\
       \/ subState \in {"chConnected", "chTonePlayed", "chConnectionEstablished"}
       \/ subState = "chAudioEngineAttached" /\ ~pPlayTone
  \/ /\ off_hook /\ callState = "cstReleasing" /\ callSubState = 0
     /\ state \notin {"stCommand", "stRecvBegWait", "stData"}
  \/ timeout = 2
NoLostWakeup == pc = "wait" /\ Actionable => ready

(* A modem that waits for a connection, for the fax mode or for a carrier  *)
(* always has its timeout armed, also after requests, re-dialling and      *)
(* aborts have moved the state around; and no wait begins with the timeout *)
(* of an earlier one that fired just before an answer, a request or a      *)
(* callback ended that.                                                    *)
WaitTimed ==
  pc = "wait" /\ state \in {"stConnectWait", "stReqModeAckWait", "stRecvBegWait"}
    => timeout # 0
TimedWait ==
  \/ state \in {"stConnectWait", "stReqModeAckWait", "stRecvBegWait"}
  \/ /\ state = "stConnectHandle"
     /\ subState \in {"chWaitAudioEngine", "chWaitPlayTone",
                      "chConnectionEstablishDelay"}
WaitBegins == TimedWait' /\ <<state', subState'>> # <<state, subState>>
TimedWaits == []WaitTimed /\ [][WaitBegins => timeout' # 2]_vars

(* The command state waits for a connection only while there is a call     *)
(* attempt: neither an established nor a cleared call leaves stConnectWait *)
(* behind (requests change callState and state under the engine thread).   *)
ConnectWaitInCall ==
  state = "stConnectWait" =>
    callState \in {"cstDialing", "cstAlerted", "cstAnswering", "cstReleasing"}

(* connectionEstablished never survives its call: a later ATA would skip   *)
(* answering the next one.                                                 *)
EstablishedFlagInCall ==
  connectionEstablished => callState \in {"cstAlerted", "cstEstablished"}

(* The ring timer runs only while a call rings here or there, the busy     *)
(* timer only off-hook after the call was released.                        *)
TimersFollowCall ==
  /\ timerRing # 0 => callState \in {"cstCalled", "cstAlerted"}
  /\ timerBusy => off_hook /\ callState = "cstReleasing"

(* While "clearcall" is being sent without the Mutex, the call stays in    *)
(* cstReleasing (lockReleasingState), so no new call can take its place.   *)
CallHeldWhileClearing ==
  pc \in {"clearCb", "clearRet"} =>
    callState = "cstReleasing" /\ callToken = NoConn /\ ~off_hook

(* What belongs to a call stays with it, and the call stays for it: the    *)
(* wait for a connection, the established flag, the timers and the         *)
(* callback that clears the call, although requests, commands and timeouts *)
(* change callState in three threads.                                      *)
CallScoped ==
  /\ ConnectWaitInCall /\ EstablishedFlagInCall /\ TimersFollowCall
  /\ CallHeldWhileClearing

(* currentClassEngine is the attached engine of the current class or NULL, *)
(* never a detached (deleted) engine, although attaching, detaching and    *)
(* changing the class happen in different threads.                         *)
CurrentEngineValid ==
  currentClassEngine = IF EngineOf(modemClass) \in activeEngines
                       THEN EngineOf(modemClass) ELSE "none"

(* When no connection owns the modem and no dial callback holds it, it is  *)
(* in the pool: no failed call makes it unreachable.                       *)
ModemNotLost ==
  Owners = {} /\ pc # "dialSetUp" => pool > 0

(* A call attempt ends: it is connected, aborted or timed out.             *)
AttemptEnds == state = "stConnectWait" ~> state # "stConnectWait"

(* Once OnHook has been called the call is eventually cleared, however     *)
(* requests interleave with the sleeps and callbacks of the hang-up.       *)
HangupCompletes == pc = "onHook" ~> callState = "cstCleared"

(* "line already in use by <token>" (Request) refuses a live connection    *)
(* only if the call that owns the token still exists.                      *)
InUseByLiveCall ==
  \A c \in Conn : (conn[c] \in Live /\ ~OnMine(c)) => conn[callToken] # "gone"
=============================================================================
