------------------------- MODULE CallControlProofs -------------------------
(***************************************************************************)
(* Proofs about CallControl, for any set Conn of connections: its safety   *)
(* invariants follow from the inductive invariant IInv, and the call state *)
(* moves along its transition table.  The last part is about who owns the  *)
(* modem.                                                                  *)
(***************************************************************************)
EXTENDS CallControl, FiniteSetTheorems, TLAPS

(* TypeOK in two parts: the Boolean variables and the others.              *)
TypeFlags ==
  /\ off_hook \in BOOLEAN /\ connectionEstablished \in BOOLEAN
  /\ pPlayTone \in BOOLEAN /\ timerBusy \in BOOLEAN
  /\ ready \in BOOLEAN /\ quiet \in BOOLEAN
TypeRest ==
  /\ callState \in CallStates /\ callSubState \in {0, 1}
  /\ callToken \in Conn \cup {NoConn} /\ lockReleasingState \in Nat
  /\ state \in States /\ subState \in SubStates
  /\ callDirection \in {"cdUndefined", "cdIncoming", "cdOutgoing"}
  /\ modemClass \in {"mcFax", "mcAudio", "mcUndefined"}
  /\ activeEngines \in SUBSET Mce /\ currentClassEngine \in Mce \cup {"none"}
  /\ timerRing \in 0..2 /\ timeout \in 0..2
  /\ pc \in Locked \cup Unlocked /\ ret \in Returns
  /\ arg \in Conn \cup {NoConn}
  /\ conn \in [Conn -> Phases] /\ partyA \in SUBSET Conn /\ pool \in Nat

(* The engine thread is inside OnHook, after it has put the hook down.     *)
HangingUp == {"detT38", "napT38", "tryT38", "detAudio", "napAudio", "tryAudio",
              "clear", "clearCb", "clearRet", "clearEnd"}

(* The hook position: a ringing call is off-hook only while a failed answer *)
(* hangs up, a hang-up is on-hook, a call attempt is off-hook.             *)
InvHook ==
  /\ callState = "cstCalled" => callToken # NoConn
  /\ callState = "cstCalled" /\ off_hook => pc = "onHook"
  /\ pc \in HangingUp => ~off_hook
  /\ state \in {"stDial", "stConnectWait", "stConnectHandle",
                "stReqModeAckWait", "stReqModeAckHandle"} => off_hook

(* lockReleasingState counts the one _ClearCall that is under way.         *)
InvRelease ==
  IF pc \in {"clearCb", "clearRet", "clearEnd"}
  THEN lockReleasingState = 1 /\ callState = "cstReleasing"
  ELSE lockReleasingState = 0

(* A connection is handled only in a call, or in one whose release the     *)
(* thread has not noticed yet; CheckReleasing comes before the switch.     *)
InvConnect ==
  /\ state = "stConnectHandle" =>
       \/ callState \in {"cstAlerted", "cstEstablished"}
       \/ /\ callState = "cstReleasing"
          /\ pc # "sw"
          /\ callSubState = 0 \/ pc = "onHook"
  /\ pc \in {"answerCb", "answerOk"} => ret \in {"tmo", "data"}

(* While "dial" is being called the attempt is still off-hook.             *)
InvDial ==
  pc \in {"dialCb", "dialSetUp", "dialMade", "dialOk", "dialFail"} =>
    off_hook /\ state \in {"stDial", "stConnectWait", "stConnectHandle"}

(* A wait whose timeout was stopped is about to be ended by OnHook.        *)
InvTimed ==
  /\ state \in {"stConnectWait", "stReqModeAckWait", "stRecvBegWait"}
  /\ timeout = 0
  => pc = "onHook" /\ off_hook

(* The two parts of Actionable besides the timeout.                        *)
ReleasingSeen ==
  /\ off_hook /\ callState = "cstReleasing" /\ callSubState = 0
  /\ state \notin {"stCommand", "stRecvBegWait", "stData"}
StateSeen ==
  \/ state \in {"stDial", "stReqModeAckHandle"}
  \/ state = "stConnectHandle" /\
       \/ subState \in {"chConnected", "chTonePlayed", "chConnectionEstablished"}
       \/ subState = "chAudioEngineAttached" /\ ~pPlayTone

(* Something to do that nobody has signalled lies ahead of the thread in   *)
(* this pass through CheckState, or behind the OnHook that will undo it.   *)
InvWake ==
  /\ callState = "cstReleasing" /\ ~off_hook => pc \in HangingUp
  /\ timeout = 2 /\ ~ready =>
       \/ pc \in {"ring", "tmo"}
       \/ /\ ret = "tmo"
          /\ pc \in HangingUp \cup {"onHook", "answerCb", "answerOk", "answerFail"}
  /\ ReleasingSeen /\ ~ready => pc \in {"ring", "tmo", "rel", "onHook"}
  /\ StateSeen /\ ~ready => pc \in {"ring", "tmo", "rel", "sw", "onHook"}

Safe ==
  /\ CurrentEngineValid /\ EstablishedFlagInCall /\ TimersFollowCall
  /\ ConnectWaitInCall /\ CallHeldWhileClearing
  /\ InvHook /\ InvRelease /\ InvConnect /\ InvDial /\ InvTimed /\ InvWake

(* The inductive invariant of CallControl.                                 *)
IInv == TypeOK /\ Safe
-----------------------------------------------------------------------------
(* TypeOK is preserved.  Only ClearFinish needs more than TypeOK itself: the  *)
(* decrement of lockReleasingState stays a natural number by InvRelease.     *)

(* TypeOK is preserved by the engine thread's passes through CheckState. *)
LEMMA CheckStateType ==
  ASSUME TypeOK, InvRelease, CheckState
  PROVE  TypeOK'
<1> USE DEF TypeOK, TypeFlags, TypeRest, InvRelease, callVars, cmdVars,
        engVars, timVars, envVars, engineThread
<1>1. CASE WaitDataReady
  <2>1. TypeFlags'
    BY <1>1 DEF WaitDataReady
  <2>2. TypeRest'
    BY <1>1 DEF WaitDataReady, CallStates, States, SubStates, Mce, Locked,
        Unlocked, Returns, Phases, Live
  <2> QED BY <2>1, <2>2
<1>2. CASE CheckRing
  <2>1. TypeFlags'
    BY <1>2 DEF CheckRing, Answer, SetState, CallOnHook
  <2>2. (state \in States /\ subState \in SubStates)'
    BY <1>2 DEF CheckRing, Answer, SetState, States, SubStates
  <2>3. (callState \in CallStates /\ callSubState \in {0, 1})'
    BY <1>2 DEF CheckRing, Answer, CallStates
  <2>4. (timerRing \in 0..2 /\ timeout \in 0..2)'
    BY <1>2 DEF CheckRing, Answer
  <2>5. (pc \in Locked \cup Unlocked /\ ret \in Returns)'
    BY <1>2 DEF CheckRing, Answer, CallOnHook, Locked, Unlocked, Returns
  <2>6. TypeRest'
    BY <1>2, <2>2, <2>3, <2>4, <2>5 DEF CheckRing, Answer
  <2> QED BY <2>1, <2>6
<1>3. CASE CheckTimeout
  <2>1. TypeFlags'
    BY <1>3 DEF CheckTimeout, SetState, CallOnHook
  <2>2. TypeRest'
    BY <1>3 DEF CheckTimeout, SetState, CallOnHook, CallStates, States,
        SubStates, Mce, Locked, Unlocked, Returns, Phases, Live
  <2> QED BY <2>1, <2>2
<1>4. CASE CheckReleasing
  <2>1. TypeFlags'
    BY <1>4 DEF CheckReleasing, CallOnHook
  <2>2. TypeRest'
    BY <1>4 DEF CheckReleasing, CallOnHook, CallStates, States, SubStates, Mce,
        Locked, Unlocked, Returns, Phases, Live
  <2> QED BY <2>1, <2>2
<1>5. CASE StartDial
  <2>1. TypeFlags'
    BY <1>5 DEF StartDial, SetState, CallOnHook
  <2>2. TypeRest'
    BY <1>5 DEF StartDial, SetState, CallOnHook, CallStates, States, SubStates,
        Mce, Locked, Unlocked, Returns, Phases, Live
  <2> QED BY <2>1, <2>2
<1>6. CASE ConnectHandle
  <2>1. TypeFlags'
    BY <1>6 DEF ConnectHandle, Fallthrough, Park, SetState, CallOnHook
  <2>2. TypeRest'
    BY <1>6 DEF ConnectHandle, Fallthrough, Park, SetState, CallOnHook,
        CallStates, States, SubStates, Mce, Locked, Unlocked, Returns, Phases,
        Live
  <2> QED BY <2>1, <2>2
<1>7. CASE ReqModeAckHandle
  <2>1. TypeFlags'
    BY <1>7 DEF ReqModeAckHandle, SetState
  <2>2. TypeRest'
    BY <1>7 DEF ReqModeAckHandle, SetState, CallStates, States, SubStates, Mce,
        Locked, Unlocked, Returns, Phases, Live
  <2> QED BY <2>1, <2>2
<1>8. CASE CheckOther
  <2>1. TypeFlags'
    BY <1>8 DEF CheckOther, SetState
  <2>2. TypeRest'
    BY <1>8 DEF CheckOther, SetState, CallStates, States, SubStates, Mce,
        Locked, Unlocked, Returns, Phases, Live
  <2> QED BY <2>1, <2>2
<1> QED BY <1>1, <1>2, <1>3, <1>4, <1>5, <1>6, <1>7, <1>8 DEF CheckState

(* TypeOK is preserved by the callbacks "dial", "answer" and "requestmode". *)
LEMMA CallbackType ==
  ASSUME TypeOK, InvRelease, Callback
  PROVE  TypeOK'
<1> USE DEF TypeOK, TypeFlags, TypeRest, InvRelease, callVars, cmdVars,
        engVars, timVars, envVars, engineThread
<1>1. CASE DialDequeue
  <2>1. TypeFlags'
    BY <1>1 DEF DialDequeue
  <2>2. TypeRest'
    BY <1>1 DEF DialDequeue, CallStates, States, SubStates, Mce, Locked,
        Unlocked, Returns, Phases, Live
  <2> QED BY <2>1, <2>2
<1>2. CASE DialSetUp
  <2>1. TypeFlags'
    BY <1>2 DEF DialSetUp, GiveBack
  <2>2. TypeRest'
    BY <1>2 DEF DialSetUp, GiveBack, CallStates, States, SubStates, Mce,
        Locked, Unlocked, Returns, Phases, Live
  <2> QED BY <2>1, <2>2
<1>3. CASE DialLookup
  <2>1. TypeFlags'
    BY <1>3 DEF DialLookup, GiveBack
  <2>2. TypeRest'
    BY <1>3 DEF DialLookup, GiveBack, CallStates, States, SubStates, Mce,
        Locked, Unlocked, Returns, Phases, Live
  <2> QED BY <2>1, <2>2
<1>4. CASE DialConfirmed
  <2>1. TypeFlags'
    BY <1>4 DEF DialConfirmed
  <2>2. TypeRest'
    BY <1>4 DEF DialConfirmed, CallStates, States, SubStates, Mce, Locked,
        Unlocked, Returns, Phases, Live
  <2> QED BY <2>1, <2>2
<1>5. CASE DialRejected
  <2>1. TypeFlags'
    BY <1>5 DEF DialRejected, CallOnHook
  <2>2. TypeRest'
    BY <1>5 DEF DialRejected, CallOnHook, CallStates, States, SubStates, Mce,
        Locked, Unlocked, Returns, Phases, Live
  <2> QED BY <2>1, <2>2
<1>6. CASE AnswerCallback
  <2>1. TypeFlags'
    BY <1>6 DEF AnswerCallback
  <2>2. TypeRest'
    BY <1>6 DEF AnswerCallback, CallStates, States, SubStates, Mce, Locked,
        Unlocked, Returns, Phases, Live
  <2> QED BY <2>1, <2>2
<1>7. CASE AnswerReturn
  <2>1. TypeFlags'
    BY <1>7 DEF AnswerReturn
  <2>2. TypeRest'
    BY <1>7 DEF AnswerReturn, CallStates, States, SubStates, Mce, Locked,
        Unlocked, Returns, Phases, Live
  <2> QED BY <2>1, <2>2
<1>8. CASE ReqModeReturn
  <2>1. TypeFlags'
    BY <1>8 DEF ReqModeReturn, SetState
  <2>2. TypeRest'
    BY <1>8 DEF ReqModeReturn, SetState, CallStates, States, SubStates, Mce,
        Locked, Unlocked, Returns, Phases, Live
  <2> QED BY <2>1, <2>2
<1> QED BY <1>1, <1>2, <1>3, <1>4, <1>5, <1>6, <1>7, <1>8 DEF Callback

(* TypeOK is preserved by OnHook, _DetachEngine and _ClearCall. *)
LEMMA HangupType ==
  ASSUME TypeOK, InvRelease, Hangup
  PROVE  TypeOK'
<1> USE DEF TypeOK, TypeFlags, TypeRest, InvRelease, callVars, cmdVars,
        engVars, timVars, envVars, engineThread
<1>1. CASE OnHook
  <2>1. TypeFlags'
    BY <1>1 DEF OnHook, SetState
  <2>2. TypeRest'
    BY <1>1 DEF OnHook, SetState, CallStates, States, SubStates, Mce, Locked,
        Unlocked, Returns, Phases, Live
  <2> QED BY <2>1, <2>2
<1>2. CASE ClearCall
  <2>1. TypeFlags'
    BY <1>2 DEF ClearCall, StartRelease, ForgetCall, _AttachEngine,
        AttachedPtr, Awaits, EngineOf
  <2>2. TypeRest'
    BY <1>2 DEF ClearCall, StartRelease, ForgetCall, _AttachEngine,
        AttachedPtr, Awaits, EngineOf, CallStates, States, SubStates, Mce,
        Locked, Unlocked, Returns, Phases, Live
  <2> QED BY <2>1, <2>2
<1>3. CASE ClearCallback
  <2>1. TypeFlags'
    BY <1>3 DEF ClearCallback
  <2>2. conn' \in [Conn -> Phases]
    BY <1>3 DEF ClearCallback, Phases
  <2>3. TypeRest'
    BY <1>3, <2>2 DEF ClearCallback, Locked, Unlocked
  <2> QED BY <2>1, <2>3
<1>4. CASE ClearFinish
  <2>1. TypeFlags'
    BY <1>4 DEF ClearFinish, LastRelease
  <2>2. TypeRest'
    BY <1>4 DEF ClearFinish, LastRelease, CallStates, States, SubStates, Mce,
        Locked, Unlocked, Returns, Phases, Live
  <2> QED BY <2>1, <2>2
<1>5. ASSUME NEW m \in Mce, DetachEnter(m) PROVE TypeOK'
  <2>1. TypeFlags'
    BY <1>5 DEF DetachEnter, Det, Done, Nap, Try
  <2>2. TypeRest'
    BY <1>5 DEF DetachEnter, Det, Done, Nap, Try, CallStates, States,
        SubStates, Mce, Locked, Unlocked, Returns, Phases, Live
  <2> QED BY <2>1, <2>2
<1>6. ASSUME NEW m \in Mce, DetachTry(m) PROVE TypeOK'
  <2>1. TypeFlags'
    BY <1>6 DEF DetachTry, Nap, Done, Try, EngineOf
  <2>2. TypeRest'
    BY <1>6 DEF DetachTry, Nap, Done, Try, EngineOf, CallStates, States,
        SubStates, Mce, Locked, Unlocked, Returns, Phases, Live
  <2> QED BY <2>1, <2>2
<1>7. ASSUME NEW m \in Mce, DetachWake(m) PROVE TypeOK'
  <2>1. TypeFlags'
    BY <1>7 DEF DetachWake, Nap, Try
  <2>2. TypeRest'
    BY <1>7 DEF DetachWake, Nap, Try, CallStates, States, SubStates, Mce,
        Locked, Unlocked, Returns, Phases, Live
  <2> QED BY <2>1, <2>2
<1> QED BY <1>1, <1>2, <1>3, <1>4, <1>5, <1>6, <1>7 DEF Hangup

(* TypeOK is preserved by the AT commands and the data of HandleData. *)
LEMMA HandleDataType ==
  ASSUME TypeOK, InvRelease, HandleData
  PROVE  TypeOK'
<1> USE DEF TypeOK, TypeFlags, TypeRest, InvRelease, callVars, cmdVars,
        engVars, timVars, envVars, engineThread
<1>1. CASE CmdAnswer
  <2>1. TypeFlags'
    BY <1>1 DEF CmdAnswer, AtCommand, Answer, SetState, CallOnHook
  <2>2. TypeRest'
    BY <1>1 DEF CmdAnswer, AtCommand, Answer, SetState, CallOnHook, CallStates,
        States, SubStates, Mce, Locked, Unlocked, Returns, Phases, Live
  <2> QED BY <2>1, <2>2
<1>2. CASE CmdDial
  <2>1. TypeFlags'
    BY <1>2 DEF CmdDial, AtCommand, SetState, CallOnHook
  <2>2. TypeRest'
    BY <1>2 DEF CmdDial, AtCommand, SetState, CallOnHook, CallStates, States,
        SubStates, Mce, Locked, Unlocked, Returns, Phases, Live
  <2> QED BY <2>1, <2>2
<1>3. CASE CmdHangup
  <2>1. TypeFlags'
    BY <1>3 DEF CmdHangup, AtCommand, ChangeModemClass, CallOnHook, EngineOf
  <2>2. TypeRest'
    BY <1>3 DEF CmdHangup, AtCommand, ChangeModemClass, CallOnHook, EngineOf,
        CallStates, States, SubStates, Mce, Locked, Unlocked, Returns, Phases,
        Live
  <2> QED BY <2>1, <2>2
<1>4. CASE CmdClass
  <2>1. TypeFlags'
    BY <1>4 DEF CmdClass, AtCommand, ChangeModemClass, EngineOf
  <2>2. TypeRest'
    BY <1>4 DEF CmdClass, AtCommand, ChangeModemClass, EngineOf, CallStates,
        States, SubStates, Mce, Locked, Unlocked, Returns, Phases, Live
  <2> QED BY <2>1, <2>2
<1>5. CASE CmdData
  <2>1. TypeFlags'
    BY <1>5 DEF CmdData, AtCommand, SetState
  <2>2. TypeRest'
    BY <1>5 DEF CmdData, AtCommand, SetState, CallStates, States, SubStates,
        Mce, Locked, Unlocked, Returns, Phases, Live
  <2> QED BY <2>1, <2>2
<1>6. CASE HandleDataPhase
  <2>1. TypeFlags'
    BY <1>6 DEF HandleDataPhase, SetState
  <2>2. TypeRest'
    BY <1>6 DEF HandleDataPhase, SetState, CallStates, States, SubStates, Mce,
        Locked, Unlocked, Returns, Phases, Live
  <2> QED BY <2>1, <2>2
<1>7. CASE HandleAbort
  <2>1. TypeFlags'
    BY <1>7 DEF HandleAbort, SetState, CallOnHook
  <2>2. TypeRest'
    BY <1>7 DEF HandleAbort, SetState, CallOnHook, CallStates, States,
        SubStates, Mce, Locked, Unlocked, Returns, Phases, Live
  <2> QED BY <2>1, <2>2
<1> QED BY <1>1, <1>2, <1>3, <1>4, <1>5, <1>6, <1>7 DEF HandleData

(* TypeOK is preserved by the requests of the connections and NewPtrEngine. *)
LEMMA RequestsType ==
  ASSUME TypeOK, InvRelease, Requests
  PROVE  TypeOK'
<1> USE DEF TypeOK, TypeFlags, TypeRest, InvRelease, callVars, cmdVars,
        engVars, timVars, envVars, engineThread
<1>1. ASSUME NEW c \in Conn, PMAlloc(c) PROVE TypeOK'
  <2>1. TypeFlags'
    BY <1>1 DEF PMAlloc, MutexFree
  <2>2. TypeRest'
    BY <1>1 DEF PMAlloc, MutexFree, CallStates, States, SubStates, Mce, Locked,
        Unlocked, Returns, Phases, Live
  <2> QED BY <2>1, <2>2
<1>2. ASSUME NEW c \in Conn, RequestCall(c) PROVE TypeOK'
  <2>1. TypeFlags'
    BY <1>2 DEF RequestCall, MutexFree, CanRing
  <2>2. TypeRest'
    BY <1>2 DEF RequestCall, MutexFree, CanRing, CallStates, States, SubStates,
        Mce, Locked, Unlocked, Returns, Phases, Live
  <2> QED BY <2>1, <2>2
<1>3. ASSUME NEW c \in Conn, RequestAlerting(c) PROVE TypeOK'
  <2>1. TypeFlags'
    BY <1>3 DEF RequestAlerting, MutexFree, OnMine, AttachedPtr, EngineOf
  <2>2. TypeRest'
    BY <1>3 DEF RequestAlerting, MutexFree, OnMine, AttachedPtr, EngineOf,
        CallStates, States, SubStates, Mce, Locked, Unlocked, Returns, Phases,
        Live
  <2> QED BY <2>1, <2>2
<1>4. ASSUME NEW c \in Conn, RequestEstablished(c) PROVE TypeOK'
  <2>1. TypeFlags'
    BY <1>4 DEF RequestEstablished, MutexFree, OnMine
  <2>2. TypeRest'
    BY <1>4 DEF RequestEstablished, MutexFree, OnMine, CallStates, States,
        SubStates, Mce, Locked, Unlocked, Returns, Phases, Live
  <2> QED BY <2>1, <2>2
<1>5. ASSUME NEW c \in Conn, PMFree(c) PROVE TypeOK'
  <2>1. TypeFlags'
    BY <1>5 DEF PMFree
  <2>2. TypeRest'
    BY <1>5 DEF PMFree, CallStates, States, SubStates, Mce, Locked, Unlocked,
        Returns, Phases, Live
  <2> QED BY <2>1, <2>2
<1>6. ASSUME NEW c \in Conn, RequestClearcall(c) PROVE TypeOK'
  <2>1. TypeFlags'
    BY <1>6 DEF RequestClearcall, MutexFree, OnMine, SetState, StartRelease,
        ForgetCall, LastRelease, _AttachEngine, AttachedPtr, Awaits, EngineOf
  <2>2. TypeRest'
    BY <1>6 DEF RequestClearcall, MutexFree, OnMine, SetState, StartRelease,
        ForgetCall, LastRelease, _AttachEngine, AttachedPtr, Awaits, EngineOf,
        CallStates, States, SubStates, Mce, Locked, Unlocked, Returns, Phases,
        Live
  <2> QED BY <2>1, <2>2
<1>7. ASSUME NEW c \in Conn, Release(c) PROVE TypeOK'
  <2>1. TypeFlags'
    BY <1>7 DEF Release
  <2>2. TypeRest'
    BY <1>7 DEF Release, CallStates, States, SubStates, Mce, Locked, Unlocked,
        Returns, Phases, Live
  <2> QED BY <2>1, <2>2
<1>8. ASSUME NEW c \in Conn, NEW m \in Mce, NewPtrEngine(c, m) PROVE TypeOK'
  <2>1. TypeFlags'
    BY <1>8 DEF NewPtrEngine, MutexFree, _AttachEngine, AttachedPtr, Awaits,
        EngineOf
  <2>2. TypeRest'
    BY <1>8 DEF NewPtrEngine, MutexFree, _AttachEngine, AttachedPtr, Awaits,
        EngineOf, CallStates, States, SubStates, Mce, Locked, Unlocked,
        Returns, Phases, Live
  <2> QED BY <2>1, <2>2
<1> QED BY <1>1, <1>2, <1>3, <1>4, <1>5, <1>6, <1>7, <1>8 DEF Requests

(* TypeOK is preserved by engine callbacks, timers and pty input. *)
LEMMA EventsType ==
  ASSUME TypeOK, InvRelease, Events
  PROVE  TypeOK'
<1> USE DEF TypeOK, TypeFlags, TypeRest, InvRelease, callVars, cmdVars,
        engVars, timVars, envVars, engineThread
<1>1. CASE OnEngineCallback
  <2>1. TypeFlags'
    BY <1>1 DEF OnEngineCallback, MutexFree, SetState
  <2>2. TypeRest'
    BY <1>1 DEF OnEngineCallback, MutexFree, SetState, CallStates, States,
        SubStates, Mce, Locked, Unlocked, Returns, Phases, Live
  <2> QED BY <2>1, <2>2
<1>2. CASE RingTick
  <2>1. TypeFlags'
    BY <1>2 DEF RingTick
  <2>2. TypeRest'
    BY <1>2 DEF RingTick, CallStates, States, SubStates, Mce, Locked, Unlocked,
        Returns, Phases, Live
  <2> QED BY <2>1, <2>2
<1>3. CASE TimeoutFires
  <2>1. TypeFlags'
    BY <1>3 DEF TimeoutFires
  <2>2. TypeRest'
    BY <1>3 DEF TimeoutFires, CallStates, States, SubStates, Mce, Locked,
        Unlocked, Returns, Phases, Live
  <2> QED BY <2>1, <2>2
<1>4. CASE PtyInput
  <2>1. TypeFlags'
    BY <1>4 DEF PtyInput
  <2>2. TypeRest'
    BY <1>4 DEF PtyInput, CallStates, States, SubStates, Mce, Locked, Unlocked,
        Returns, Phases, Live
  <2> QED BY <2>1, <2>2
<1>5. CASE BecomeQuiet
  <2>1. TypeFlags'
    BY <1>5 DEF BecomeQuiet
  <2>2. TypeRest'
    BY <1>5 DEF BecomeQuiet, CallStates, States, SubStates, Mce, Locked,
        Unlocked, Returns, Phases, Live
  <2> QED BY <2>1, <2>2
<1> QED BY <1>1, <1>2, <1>3, <1>4, <1>5 DEF Events

-----------------------------------------------------------------------------
(* The safety conjuncts of IInv are preserved, given the types after the step. *)

(* Safe is preserved by the engine thread's passes through CheckState. *)
LEMMA CheckStateSafe ==
  ASSUME IInv, TypeOK', CheckState
  PROVE  Safe'
<1> USE NoConnAssumption
        DEF IInv, Safe, TypeOK, InvWake, ReleasingSeen, StateSeen, InvDial,
            InvTimed, InvHook, InvRelease, InvConnect, CurrentEngineValid,
            EstablishedFlagInCall, TimersFollowCall, ConnectWaitInCall,
            CallHeldWhileClearing, HangingUp, callVars, cmdVars, engVars, timVars,
            envVars, engineThread, CallStates, States, SubStates, Mce, Returns,
            Unlocked
<1>1. CASE WaitDataReady
  BY <1>1 DEF WaitDataReady
<1>2. CASE CheckRing
  BY <1>2 DEF CheckRing, Answer, SetState, CallOnHook
<1>3. CASE CheckTimeout
  BY <1>3 DEF CheckTimeout, SetState, CallOnHook
<1>4. CASE CheckReleasing
  BY <1>4 DEF CheckReleasing, CallOnHook
<1>5. CASE StartDial
  BY <1>5 DEF StartDial, SetState, CallOnHook
<1>6. CASE ConnectHandle
  BY <1>6 DEF ConnectHandle, Fallthrough, Park, SetState, CallOnHook
<1>7. CASE ReqModeAckHandle
  BY <1>7 DEF ReqModeAckHandle, SetState
<1>8. CASE CheckOther
  BY <1>8 DEF CheckOther, SetState
<1> QED BY <1>1, <1>2, <1>3, <1>4, <1>5, <1>6, <1>7, <1>8 DEF CheckState

(* Safe is preserved by the callbacks "dial", "answer" and "requestmode". *)
LEMMA CallbackSafe ==
  ASSUME IInv, TypeOK', Callback
  PROVE  Safe'
<1> USE NoConnAssumption
        DEF IInv, Safe, TypeOK, InvWake, ReleasingSeen, StateSeen, InvDial,
            InvTimed, InvHook, InvRelease, InvConnect, CurrentEngineValid,
            EstablishedFlagInCall, TimersFollowCall, ConnectWaitInCall,
            CallHeldWhileClearing, HangingUp, callVars, cmdVars, engVars, timVars,
            envVars, engineThread, CallStates, States, SubStates, Mce, Returns,
            Unlocked
<1>1. CASE DialDequeue
  BY <1>1 DEF DialDequeue
<1>2. CASE DialSetUp
  BY <1>2 DEF DialSetUp, GiveBack
<1>3. CASE DialLookup
  BY <1>3 DEF DialLookup, GiveBack
<1>4. CASE DialConfirmed
  BY <1>4 DEF DialConfirmed
<1>5. CASE DialRejected
  BY <1>5 DEF DialRejected, CallOnHook
<1>6. CASE AnswerCallback
  BY <1>6 DEF AnswerCallback
<1>7. CASE AnswerReturn
  BY <1>7 DEF AnswerReturn
<1>8. CASE ReqModeReturn
  BY <1>8 DEF ReqModeReturn, SetState
<1> QED BY <1>1, <1>2, <1>3, <1>4, <1>5, <1>6, <1>7, <1>8 DEF Callback

(* Safe is preserved by OnHook, _DetachEngine and _ClearCall. *)
LEMMA HangupSafe ==
  ASSUME IInv, TypeOK', Hangup
  PROVE  Safe'
<1> USE NoConnAssumption
        DEF IInv, Safe, TypeOK, InvWake, ReleasingSeen, StateSeen, InvDial,
            InvTimed, InvHook, InvRelease, InvConnect, CurrentEngineValid,
            EstablishedFlagInCall, TimersFollowCall, ConnectWaitInCall,
            CallHeldWhileClearing, HangingUp, callVars, cmdVars, engVars, timVars,
            envVars, engineThread, CallStates, States, SubStates, Mce, Returns,
            Unlocked
<1>1. CASE OnHook
  BY <1>1 DEF OnHook, SetState
<1>2. CASE ClearCall
  BY <1>2 DEF ClearCall, StartRelease, ForgetCall, _AttachEngine, AttachedPtr,
      Awaits, EngineOf
<1>3. CASE ClearCallback
  BY <1>3 DEF ClearCallback
<1>4. CASE ClearFinish
  BY <1>4 DEF ClearFinish, LastRelease
<1>5. ASSUME NEW m \in Mce, DetachEnter(m) PROVE Safe'
  BY <1>5 DEF DetachEnter, Det, Done, Nap, Try
<1>6. ASSUME NEW m \in Mce, DetachTry(m) PROVE Safe'
  BY <1>6 DEF DetachTry, Nap, Done, Try, EngineOf
<1>7. ASSUME NEW m \in Mce, DetachWake(m) PROVE Safe'
  BY <1>7 DEF DetachWake, Nap, Try
<1> QED BY <1>1, <1>2, <1>3, <1>4, <1>5, <1>6, <1>7 DEF Hangup

(* Safe is preserved by the AT commands and the data of HandleData. *)
LEMMA HandleDataSafe ==
  ASSUME IInv, TypeOK', HandleData
  PROVE  Safe'
<1> USE NoConnAssumption
        DEF IInv, Safe, TypeOK, InvWake, ReleasingSeen, StateSeen, InvDial,
            InvTimed, InvHook, InvRelease, InvConnect, CurrentEngineValid,
            EstablishedFlagInCall, TimersFollowCall, ConnectWaitInCall,
            CallHeldWhileClearing, HangingUp, callVars, cmdVars, engVars, timVars,
            envVars, engineThread, CallStates, States, SubStates, Mce, Returns,
            Unlocked
<1>1. CASE CmdAnswer
  BY <1>1 DEF CmdAnswer, AtCommand, Answer, SetState, CallOnHook
<1>2. CASE CmdDial
  BY <1>2 DEF CmdDial, AtCommand, SetState, CallOnHook
<1>3. CASE CmdHangup
  BY <1>3 DEF CmdHangup, AtCommand, ChangeModemClass, CallOnHook, EngineOf
<1>4. CASE CmdClass
  BY <1>4 DEF CmdClass, AtCommand, ChangeModemClass, EngineOf
<1>5. CASE CmdData
  BY <1>5 DEF CmdData, AtCommand, SetState
<1>6. CASE HandleDataPhase
  BY <1>6 DEF HandleDataPhase, SetState
<1>7. CASE HandleAbort
  BY <1>7 DEF HandleAbort, SetState, CallOnHook
<1> QED BY <1>1, <1>2, <1>3, <1>4, <1>5, <1>6, <1>7 DEF HandleData

(* Safe is preserved by the requests of the connections and NewPtrEngine. *)
LEMMA RequestsSafe ==
  ASSUME IInv, TypeOK', Requests
  PROVE  Safe'
<1> USE NoConnAssumption
        DEF IInv, Safe, TypeOK, InvWake, ReleasingSeen, StateSeen, InvDial,
            InvTimed, InvHook, InvRelease, InvConnect, CurrentEngineValid,
            EstablishedFlagInCall, TimersFollowCall, ConnectWaitInCall,
            CallHeldWhileClearing, HangingUp, callVars, cmdVars, engVars, timVars,
            envVars, engineThread, CallStates, States, SubStates, Mce, Returns,
            Unlocked
<1>1. ASSUME NEW c \in Conn, PMAlloc(c) PROVE Safe'
  BY <1>1 DEF PMAlloc, MutexFree
<1>2. ASSUME NEW c \in Conn, RequestCall(c) PROVE Safe'
  BY <1>2 DEF RequestCall, MutexFree, CanRing
<1>3. ASSUME NEW c \in Conn, RequestAlerting(c) PROVE Safe'
  BY <1>3 DEF RequestAlerting, MutexFree, OnMine, AttachedPtr, EngineOf
<1>4. ASSUME NEW c \in Conn, RequestEstablished(c) PROVE Safe'
  BY <1>4 DEF RequestEstablished, MutexFree, OnMine
<1>5. ASSUME NEW c \in Conn, PMFree(c) PROVE Safe'
  BY <1>5 DEF PMFree
<1>6. ASSUME NEW c \in Conn, RequestClearcall(c) PROVE Safe'
  BY <1>6 DEF RequestClearcall, MutexFree, OnMine, SetState, StartRelease,
      ForgetCall, LastRelease, _AttachEngine, AttachedPtr, Awaits, EngineOf
<1>7. ASSUME NEW c \in Conn, Release(c) PROVE Safe'
  BY <1>7 DEF Release
<1>8. ASSUME NEW c \in Conn, NEW m \in Mce, NewPtrEngine(c, m) PROVE Safe'
  BY <1>8 DEF NewPtrEngine, MutexFree, _AttachEngine, AttachedPtr, Awaits,
      EngineOf
<1> QED BY <1>1, <1>2, <1>3, <1>4, <1>5, <1>6, <1>7, <1>8 DEF Requests

(* Safe is preserved by engine callbacks, timers and pty input. *)
LEMMA EventsSafe ==
  ASSUME IInv, TypeOK', Events
  PROVE  Safe'
<1> USE NoConnAssumption
        DEF IInv, Safe, TypeOK, InvWake, ReleasingSeen, StateSeen, InvDial,
            InvTimed, InvHook, InvRelease, InvConnect, CurrentEngineValid,
            EstablishedFlagInCall, TimersFollowCall, ConnectWaitInCall,
            CallHeldWhileClearing, HangingUp, callVars, cmdVars, engVars, timVars,
            envVars, engineThread, CallStates, States, SubStates, Mce, Returns,
            Unlocked
<1>1. CASE OnEngineCallback
  BY <1>1 DEF OnEngineCallback, MutexFree, SetState
<1>2. CASE RingTick
  BY <1>2 DEF RingTick
<1>3. CASE TimeoutFires
  BY <1>3 DEF TimeoutFires
<1>4. CASE PtyInput
  BY <1>4 DEF PtyInput
<1>5. CASE BecomeQuiet
  BY <1>5 DEF BecomeQuiet
<1> QED BY <1>1, <1>2, <1>3, <1>4, <1>5 DEF Events

-----------------------------------------------------------------------------
(* The initial state of ModemEngineBody satisfies the inductive invariant. *)
LEMMA InitIInv == Init => IInv
<1> SUFFICES ASSUME Init PROVE IInv
  OBVIOUS
<1> USE NoConnAssumption DEF Init
<1>1. TypeOK
  <2>1. TypeFlags
    BY DEF TypeFlags
  <2>2. conn \in [Conn -> Phases]
    BY DEF Phases
  <2>3. TypeRest
    BY <2>2 DEF TypeRest, CallStates, States, SubStates, Mce, Locked, Returns
  <2> QED BY <2>1, <2>3 DEF TypeOK, TypeFlags, TypeRest
<1>2. Safe
  BY DEF Safe, CurrentEngineValid, EngineOf, EstablishedFlagInCall,
         TimersFollowCall, ConnectWaitInCall, CallHeldWhileClearing, InvHook,
         InvRelease, InvConnect, InvDial, InvTimed, InvWake, ReleasingSeen,
         StateSeen, HangingUp
<1> QED BY <1>1, <1>2 DEF IInv

(* Every step of the engine thread, of a connection or of a timer keeps it. *)
LEMMA NextIInv == IInv /\ [Next]_vars => IInv'
<1> SUFFICES ASSUME IInv, [Next]_vars PROVE IInv'
  OBVIOUS
<1>1. TypeOK /\ InvRelease
  BY DEF IInv, Safe
<1>2. CASE CheckState
  BY <1>1, <1>2, CheckStateType, CheckStateSafe DEF IInv
<1>3. CASE Callback
  BY <1>1, <1>3, CallbackType, CallbackSafe DEF IInv
<1>4. CASE Hangup
  BY <1>1, <1>4, HangupType, HangupSafe DEF IInv
<1>5. CASE HandleData
  BY <1>1, <1>5, HandleDataType, HandleDataSafe DEF IInv
<1>6. CASE Requests
  BY <1>1, <1>6, RequestsType, RequestsSafe DEF IInv
<1>7. CASE Events
  BY <1>1, <1>7, EventsType, EventsSafe DEF IInv
<1>8. CASE CheckStatePost
  <2> USE <1>8 DEF CheckStatePost, callVars, cmdVars, engVars, timVars, envVars
  <2>1. TypeOK'
    BY <1>1 DEF TypeOK, Locked, Unlocked
  <2>2. Safe'
    BY DEF IInv, Safe, CurrentEngineValid, EstablishedFlagInCall,
           TimersFollowCall, ConnectWaitInCall, CallHeldWhileClearing, InvHook,
           InvRelease, InvConnect, InvDial, InvTimed, InvWake, ReleasingSeen,
           StateSeen, HangingUp
  <2> QED BY <2>1, <2>2 DEF IInv
<1>9. CASE UNCHANGED vars
  BY <1>9 DEF IInv, Safe, TypeOK, CurrentEngineValid, EstablishedFlagInCall,
              TimersFollowCall, ConnectWaitInCall, CallHeldWhileClearing,
              InvHook, InvRelease, InvConnect, InvDial, InvTimed, InvWake,
              ReleasingSeen, StateSeen, vars, callVars, cmdVars, engVars,
              timVars, envVars
<1> QED BY <1>2, <1>3, <1>4, <1>5, <1>6, <1>7, <1>8, <1>9 DEF Next

(* IInv holds in every reachable state.                                    *)
THEOREM Invariance == Spec => []IInv
<1>1. Init => IInv
  BY InitIInv
<1>2. IInv /\ [Next]_vars => IInv'
  BY NextIInv
<1> QED BY <1>1, <1>2, PTL DEF Spec

(* The variables keep their types and the pool is never under-drawn,       *)
(* whatever the number of connections.                                     *)
THEOREM TypeCorrect == Spec => []TypeOK
<1>1. IInv => TypeOK
  BY DEF IInv
<1> QED BY <1>1, Invariance, PTL

(* SignalDataReady is never missed: a sleeping engine thread that has      *)
(* something to do has been signalled.                                     *)
THEOREM WakeupsKept == Spec => []NoLostWakeup
<1>1. IInv => NoLostWakeup
  BY DEF IInv, Safe, NoLostWakeup, Actionable, InvWake, ReleasingSeen,
         StateSeen, HangingUp
<1> QED BY <1>1, Invariance, PTL

(* State that belongs to a call never outlives it: the wait for the        *)
(* connection, connectionEstablished, the ring and busy timers; and no new *)
(* call takes the place of the one whose "clearcall" is being sent.        *)
THEOREM CallStateScoped == Spec => []CallScoped
<1>1. IInv => CallScoped
  BY DEF IInv, Safe, CallScoped
<1> QED BY <1>1, Invariance, PTL

(* currentClassEngine never points to a detached engine.                   *)
THEOREM EngineValid == Spec => []CurrentEngineValid
<1>1. IInv => CurrentEngineValid
  BY DEF IInv, Safe
<1> QED BY <1>1, Invariance, PTL

(* One step moves callState along the table of enum CallState.             *)
LEMMA StepCallTable == IInv /\ [Next]_vars => [CallTransition]_callState
<1> SUFFICES ASSUME IInv, Next, callState' # callState PROVE CallTransition
  BY DEF vars, callVars
<1> USE DEF IInv, Safe, TypeOK, CallTransition, InvHook, InvRelease, HangingUp,
            callVars, CallStates
<1>1. CASE CheckState
  <2>1. CASE CheckRing
    BY <2>1 DEF CheckRing, Answer
  <2>2. CASE StartDial
    BY <2>2 DEF StartDial
  <2> QED BY <1>1, <2>1, <2>2 DEF CheckState, WaitDataReady, CheckTimeout,
        CheckReleasing, ConnectHandle, ReqModeAckHandle, CheckOther
<1>2. CASE Callback
  BY <1>2 DEF Callback, DialDequeue, DialSetUp, DialLookup, DialConfirmed,
        DialRejected, AnswerCallback, AnswerReturn, ReqModeReturn
<1>3. CASE Hangup
  <2>1. CASE ClearCall
    BY <2>1 DEF ClearCall, StartRelease
  <2>2. CASE ClearFinish
    BY <2>2 DEF ClearFinish, LastRelease
  <2> QED BY <1>3, <2>1, <2>2 DEF Hangup, OnHook, ClearCallback, DetachEnter,
        DetachTry, DetachWake
<1>4. CASE HandleData
  <2>1. CASE CmdAnswer
    BY <2>1 DEF CmdAnswer, Answer
  <2> QED BY <1>4, <2>1 DEF HandleData, CmdDial, CmdHangup, CmdClass, CmdData,
        HandleDataPhase, HandleAbort
<1>5. CASE Requests
  <2>1. ASSUME NEW c \in Conn, RequestCall(c) PROVE CallTransition
    BY <2>1 DEF RequestCall, CanRing
  <2>2. ASSUME NEW c \in Conn, RequestAlerting(c) PROVE CallTransition
    BY <2>2 DEF RequestAlerting
  <2>3. ASSUME NEW c \in Conn, RequestEstablished(c) PROVE CallTransition
    BY <2>3 DEF RequestEstablished
  <2>4. ASSUME NEW c \in Conn, RequestClearcall(c) PROVE CallTransition
    BY <2>4 DEF RequestClearcall, StartRelease, LastRelease
  <2> QED BY <1>5, <2>1, <2>2, <2>3, <2>4 DEF Requests, PMAlloc, PMFree, Release,
        NewPtrEngine
<1>6. CASE Events
  BY <1>6 DEF Events, OnEngineCallback, RingTick, TimeoutFires, PtyInput,
        BecomeQuiet
<1>7. CASE CheckStatePost
  BY <1>7 DEF CheckStatePost
<1> QED BY <1>1, <1>2, <1>3, <1>4, <1>5, <1>6, <1>7 DEF Next

(* The call state machine of every execution is the documented table.      *)
THEOREM CallTableKept == Spec => CallTable
<1>1. IInv /\ [Next]_vars => [CallTransition]_callState
  BY StepCallTable
<1> QED BY <1>1, Invariance, PTL DEF Spec, CallTable

-----------------------------------------------------------------------------
(* No fired timeout is carried into the next wait.  Every wait but one has *)
(* its timeout started.  The wait for the audio engine that is begun when  *)
(* there is a tone to play has not, but then the engine is there: engines  *)
(* are detached on-hook only, and a connection is handled off-hook.        *)
InvAudio ==
  state = "stConnectHandle" /\ subState = "chAudioEngineAttached" =>
    "mceAudio" \in activeEngines

(* Engines come, and go in OnHook only.                                    *)
LEMMA NextInvAudio == IInv /\ InvAudio /\ [Next]_vars => InvAudio'
<1> SUFFICES ASSUME IInv, InvAudio, [Next]_vars PROVE InvAudio'
  OBVIOUS
<1> USE DEF IInv, Safe, InvAudio, SetState, callVars, cmdVars, engVars, timVars,
            envVars, engineThread
<1>1. CASE CheckState
  BY <1>1 DEF CheckState, WaitDataReady, CheckRing, Answer, CheckTimeout, CheckReleasing,
        StartDial, ConnectHandle, Fallthrough, Park, ReqModeAckHandle, CheckOther,
        CallOnHook
<1>2. CASE Callback
  BY <1>2 DEF Callback, DialDequeue, DialSetUp, DialLookup, DialConfirmed,
        DialRejected, AnswerCallback, AnswerReturn, ReqModeReturn
<1>3. CASE Hangup
  <2>1. state # "stConnectHandle" \/ pc \notin HangingUp
    BY DEF InvHook
  <2>2. ASSUME NEW m \in Mce, DetachTry(m) PROVE InvAudio'
    BY <2>1, <2>2 DEF DetachTry, Try, HangingUp
  <2> QED BY <1>3, <2>2 DEF Hangup, OnHook, DetachEnter, DetachWake, ClearCall,
        StartRelease, _AttachEngine, Awaits, ClearCallback, ClearFinish
<1>4. CASE HandleData
  BY <1>4 DEF HandleData, CmdAnswer, Answer, CmdDial, CmdHangup, CmdClass, CmdData,
        HandleDataPhase, HandleAbort, ChangeModemClass, CallOnHook
<1>5. CASE Requests
  BY <1>5 DEF Requests, PMAlloc, RequestCall, RequestAlerting, RequestEstablished,
        PMFree, RequestClearcall, StartRelease, Release, NewPtrEngine, _AttachEngine,
        Awaits
<1>6. CASE Events
  BY <1>6 DEF Events, OnEngineCallback, RingTick, TimeoutFires, PtyInput, BecomeQuiet
<1>7. CASE CheckStatePost
  BY <1>7 DEF CheckStatePost
<1>8. CASE UNCHANGED vars
  BY <1>8 DEF vars
<1> QED BY <1>1, <1>2, <1>3, <1>4, <1>5, <1>6, <1>7, <1>8 DEF Next

(* A step that begins a wait leaves no fired timeout.                      *)
LEMMA StepFresh == IInv /\ InvAudio /\ [Next]_vars => [WaitBegins => timeout' # 2]_vars
<1> SUFFICES ASSUME IInv, InvAudio, Next, WaitBegins PROVE timeout' # 2
  BY DEF vars
<1> USE DEF WaitBegins, TimedWait, SetState, callVars, cmdVars, engVars, timVars,
            envVars, engineThread
<1>1. CASE CheckState
  <2>1. CASE ConnectHandle
    BY <2>1 DEF ConnectHandle, Fallthrough, Park, InvAudio
  <2> QED BY <1>1, <2>1 DEF CheckState, WaitDataReady, CheckRing, Answer, CheckTimeout,
        CheckReleasing, StartDial, ReqModeAckHandle, CheckOther, CallOnHook
<1>2. CASE Callback
  BY <1>2 DEF Callback, DialDequeue, DialSetUp, DialLookup, DialConfirmed,
        DialRejected, AnswerCallback, AnswerReturn, ReqModeReturn
<1>3. CASE Hangup
  BY <1>3 DEF Hangup, OnHook, DetachEnter, DetachTry, DetachWake, ClearCall,
        StartRelease, _AttachEngine, Awaits, ClearCallback, ClearFinish
<1>4. CASE HandleData
  BY <1>4 DEF HandleData, CmdAnswer, Answer, CmdDial, CmdHangup, CmdClass, CmdData,
        HandleDataPhase, HandleAbort, ChangeModemClass, CallOnHook
<1>5. CASE Requests
  BY <1>5 DEF Requests, PMAlloc, RequestCall, RequestAlerting, RequestEstablished,
        PMFree, RequestClearcall, StartRelease, Release, NewPtrEngine, _AttachEngine,
        Awaits
<1>6. CASE Events
  BY <1>6 DEF Events, OnEngineCallback, RingTick, TimeoutFires, PtyInput, BecomeQuiet
<1>7. CASE CheckStatePost
  BY <1>7 DEF CheckStatePost
<1> QED BY <1>1, <1>2, <1>3, <1>4, <1>5, <1>6, <1>7 DEF Next

(* A wait has a timeout, and one of its own: a timeout that fired ends the *)
(* wait that it was started for, or none.                                  *)
THEOREM WaitsTimed == Spec => TimedWaits
<1>1. IInv => WaitTimed
  BY DEF IInv, Safe, InvTimed, WaitTimed
<1>2. Init => InvAudio
  BY DEF Init, InvAudio
<1>3. IInv /\ InvAudio /\ [Next]_vars => InvAudio'
  BY NextInvAudio
<1>4. IInv /\ InvAudio /\ [Next]_vars => [WaitBegins => timeout' # 2]_vars
  BY StepFresh
<1> QED BY <1>1, <1>2, <1>3, <1>4, Invariance, PTL DEF Spec, TimedWaits

-----------------------------------------------------------------------------
(* Who owns the modem: it is never lost, and while only one party owns it   *)
(* no live connection is forgotten.  The argument counts claims: the places *)
(* in the pool, the connections that own the modem, and the dial callback   *)
(* that has taken it out of the pool.  No step lowers their number.         *)

(* The modem, or the engine thread in a callback, knows the connection.    *)
Remembered(c) ==
  \/ callToken = c
  \/ arg = c /\ pc \in {"dialMade", "dialOk", "clearCb"}

(* While the only owner is being dialled, it is the one dialled: nothing   *)
(* is allocated to an off-hook modem.                                      *)
InvOwners ==
  /\ IsFiniteSet(Owners) /\ ModemNotLost
  /\ OwnedOnce =>
       /\ \A c \in Conn : conn[c] \in Live => Remembered(c)
       /\ pc \in {"dialMade", "dialOk"} => Owners \subseteq {arg}

(* A modem that is owned once is owned by one connection, or by none and   *)
(* then in the pool or in the hands of the dial callback.                  *)
LEMMA SoleOwner ==
  ASSUME TypeOK, IsFiniteSet(Owners), OwnedOnce
  PROVE  /\ \A c, d \in Owners : c = d
         /\ Owners # {} => pool = 0 /\ pc # "dialSetUp"
<1>1. Cardinality(Owners) \in Nat /\ pool \in Nat
  BY FS_CardinalityType DEF TypeOK
<1>2. Cardinality(Owners) = 0 <=> Owners = {}
  BY FS_EmptySet
<1>3. Cardinality(Owners) = 1 => \E x : Owners = {x}
  BY FS_Singleton
<1>4. Cardinality(Owners) \in {0, 1}
  BY <1>1 DEF OwnedOnce
<1>5. \A c, d \in Owners : c = d
  BY <1>2, <1>3, <1>4
<1>6. Owners # {} => pool = 0 /\ pc # "dialSetUp"
  BY <1>1, <1>2 DEF OwnedOnce
<1> QED BY <1>5, <1>6

(* A step that leaves the claims as they are                               *)
SameClaims ==
  /\ Owners' = Owners /\ pool' = pool
  /\ pc' = "dialSetUp" <=> pc = "dialSetUp"

(* The claims do not get fewer: no step of anybody loses the modem, and a  *)
(* modem owned once now was owned once before.                             *)
Kept ==
  IsFiniteSet(Owners)' /\ ModemNotLost' /\ (OwnedOnce' => OwnedOnce)
LEMMA SameKept ==
  ASSUME InvOwners, SameClaims PROVE Kept
  BY DEF InvOwners, SameClaims, Kept, ModemNotLost, OwnedOnce

(* The claims when SetUpCall or PMAlloc gives the modem to a connection    *)
LEMMA AddKept ==
  ASSUME TypeOK, TypeOK', InvOwners, NEW c, c \notin Owners, Owners' = Owners \cup {c},
         \/ pc = "dialSetUp" /\ pc' # "dialSetUp" /\ pool' \in {pool, pool + 1}
         \/ pool' = pool - 1 /\ (pc' = "dialSetUp" <=> pc = "dialSetUp")
  PROVE  Kept
<1>1. IsFiniteSet(Owners)
  BY DEF InvOwners
<1>2. IsFiniteSet(Owners)' /\ Cardinality(Owners)' = Cardinality(Owners) + 1
  BY <1>1, FS_AddElement
<1>3. Cardinality(Owners) \in Nat
  BY <1>1, FS_CardinalityType
<1>4. Cardinality(Owners) = 0 => pool > 0 \/ pc = "dialSetUp"
  BY <1>1, FS_EmptySet DEF InvOwners, ModemNotLost
<1>5. OwnedOnce' => OwnedOnce
  BY <1>2, <1>3, <1>4, SMT DEF OwnedOnce, TypeOK
<1> QED BY <1>2, <1>5 DEF Kept, ModemNotLost

(* .. and when ~ModemConnection puts it back                               *)
LEMMA RemoveKept ==
  ASSUME TypeOK, InvOwners, NEW c \in Owners, Owners' = Owners \ {c},
         pool' = pool + 1, pc' = pc
  PROVE  Kept
<1>1. IsFiniteSet(Owners)
  BY DEF InvOwners
<1>2. IsFiniteSet(Owners)' /\ Cardinality(Owners)' = Cardinality(Owners) - 1
  BY <1>1, FS_RemoveElement
<1>3. Cardinality(Owners) \in Nat
  BY <1>1, FS_CardinalityType
<1>5. OwnedOnce' => OwnedOnce
  BY <1>2, <1>3, SMT DEF OwnedOnce, TypeOK
<1> QED BY <1>2, <1>5, SMT DEF Kept, ModemNotLost, TypeOK

(* .. and when the dial callback moves it or puts it back                  *)
LEMMA MoveKept ==
  ASSUME TypeOK, InvOwners, Owners' = Owners,
         \/ pc = "dialCb" /\ pc' = "dialSetUp" /\ pool > 0 /\ pool' = pool - 1
         \/ pc = "dialSetUp" /\ pc' = "dialFail" /\ pool' = pool + 1
         \/ pc = "dialMade" /\ pc' = "dialFail" /\ pool' = pool + 1
  PROVE  Kept
<1>1. IsFiniteSet(Owners) /\ pool \in Nat
  BY DEF InvOwners, TypeOK
<1>2. Cardinality(Owners) \in Nat
  BY <1>1, FS_CardinalityType
<1>3. Cardinality(Owners) = 0 => pool > 0 \/ pc = "dialSetUp"
  BY <1>1, FS_EmptySet DEF InvOwners, ModemNotLost
<1>4. OwnedOnce' => OwnedOnce
  BY <1>1, <1>2, <1>3, SMT DEF OwnedOnce
<1>5. ModemNotLost'
  BY <1>1, SMT DEF ModemNotLost
<1> QED BY <1>1, <1>4, <1>5 DEF Kept

-----------------------------------------------------------------------------
(* What the steps that move a claim do to it; all others leave it alone.   *)
LEMMA NextKept ==
  ASSUME TypeOK, TypeOK', InvOwners, [Next]_vars
  PROVE  Kept
<1> USE DEF callVars, cmdVars, engVars, timVars, envVars, engineThread
<1>0. conn \in [Conn -> Phases]
  BY DEF TypeOK
<1>1. CASE UNCHANGED <<conn, pool>> /\ "dialSetUp" \notin {pc, pc'}
  BY <1>1, SameKept DEF SameClaims, Owners
<1>2. CASE DialDequeue
  <2>1. Owners' = Owners
    BY <1>2 DEF DialDequeue, Owners
  <2>2. CASE pool > 0
    BY <1>2, <2>1, <2>2, MoveKept DEF DialDequeue
  <2>3. CASE ~(pool > 0)
    BY <1>2, <2>1, <2>3, SameKept DEF DialDequeue, SameClaims
  <2> QED BY <2>2, <2>3
<1>3. CASE DialSetUp
  <2>1. CASE UNCHANGED conn /\ GiveBack
    BY <1>3, <2>1, MoveKept DEF DialSetUp, GiveBack, Owners
  <2>2. ASSUME NEW c \in Conn, conn[c] = "none", NEW p \in {"out", "rel"},
               conn' = [conn EXCEPT ![c] = p], pool' \in {pool, pool + 1}
        PROVE  Kept
    <3>1. c \notin Owners /\ Owners' = Owners \cup {c}
      BY <1>0, <2>2 DEF Owners
    <3>2. pc = "dialSetUp" /\ pc' # "dialSetUp"
      BY <1>3 DEF DialSetUp
    <3> QED BY <2>2, <3>1, <3>2, AddKept
  <2> QED BY <1>3, <2>1, <2>2 DEF DialSetUp, GiveBack
<1>4. CASE DialLookup
  <2>1. Owners' = Owners
    BY <1>4 DEF DialLookup, Owners
  <2>2. CASE pool' = pool
    BY <1>4, <2>1, <2>2, SameKept DEF DialLookup, SameClaims
  <2>3. CASE pool' # pool
    BY <1>4, <2>1, <2>3, MoveKept DEF DialLookup, GiveBack
  <2> QED BY <2>2, <2>3
<1>5. CASE AnswerCallback \/ ClearCallback
  <2>1. Owners' = Owners
    BY <1>0, <1>5 DEF AnswerCallback, ClearCallback, Owners, Live, Phases
  <2> QED BY <1>5, <2>1, SameKept DEF AnswerCallback, ClearCallback, SameClaims
<1>6. ASSUME NEW c \in Conn, PMAlloc(c) PROVE Kept
  <2>1. c \notin Owners /\ Owners' = Owners \cup {c}
    BY <1>0, <1>6 DEF PMAlloc, Owners
  <2> QED BY <1>6, <2>1, AddKept DEF PMAlloc
<1>7. ASSUME NEW c \in Conn, PMFree(c) PROVE Kept
  <2>1. c \in Owners /\ Owners' = Owners \ {c}
    BY <1>0, <1>7 DEF PMFree, Owners
  <2> QED BY <1>7, <2>1, RemoveKept DEF PMFree
<1>8. ASSUME NEW c \in Conn,
             \/ RequestCall(c) \/ RequestAlerting(c) \/ RequestEstablished(c)
             \/ RequestClearcall(c) \/ Release(c)
      PROVE  Kept
  <2>1. Owners' = Owners
    BY <1>0, <1>8 DEF RequestCall, RequestAlerting, RequestEstablished,
       RequestClearcall, Release, Owners, Live
  <2>2. UNCHANGED <<pool, pc>>
    BY <1>8 DEF RequestCall, RequestAlerting, RequestEstablished,
       RequestClearcall, Release
  <2> QED BY <2>1, <2>2, SameKept DEF SameClaims
<1>9. CASE UNCHANGED <<conn, pool, pc>>
  BY <1>9, SameKept DEF SameClaims, Owners
<1>10. CASE CheckState
  BY <1>1, <1>10 DEF CheckState, WaitDataReady, CheckRing, CheckTimeout,
     CheckReleasing, StartDial, ConnectHandle, ReqModeAckHandle, CheckOther, Answer,
     CallOnHook, Fallthrough, Park
<1>11. CASE Hangup
  BY <1>1, <1>5, <1>11, SMTT(30) DEF TypeOK, Returns, Hangup, OnHook, ClearCall, ClearFinish, DetachEnter, DetachTry,
     DetachWake, Det, Nap, Try, Done, Mce
<1>12. CASE HandleData
  BY <1>1, <1>12 DEF HandleData, CmdAnswer, CmdDial, CmdHangup, CmdClass, CmdData,
     HandleDataPhase, HandleAbort, AtCommand, Answer, CallOnHook
<1>13. CASE DialConfirmed \/ DialRejected \/ AnswerReturn \/ ReqModeReturn
  BY <1>1, <1>13 DEF DialConfirmed, DialRejected, AnswerReturn, ReqModeReturn,
     CallOnHook, TypeOK, Returns
<1>14. CASE Events
  BY <1>9, <1>14 DEF Events, OnEngineCallback, RingTick, TimeoutFires, PtyInput,
     BecomeQuiet
<1>15. ASSUME NEW c \in Conn, NEW m \in Mce, NewPtrEngine(c, m) PROVE Kept
  BY <1>9, <1>15 DEF NewPtrEngine
<1>16. CASE CheckStatePost
  BY <1>1, <1>16 DEF CheckStatePost
<1>17. CASE UNCHANGED vars
  BY <1>9, <1>17 DEF vars
<1> QED BY <1>2, <1>3, <1>4, <1>5, <1>6, <1>7, <1>8, <1>10, <1>11, <1>12, <1>13,
     <1>14, <1>15, <1>16, <1>17 DEF Next, Callback, Requests

(* A step that forgets nobody                                              *)
LEMMA SameRemembered ==
  ASSUME InvOwners, OwnedOnce, Kept,
         \A c \in Conn : conn'[c] \in Live => conn[c] \in Live,
         Owners' \subseteq Owners, UNCHANGED <<callToken, arg>>,
         pc' \in {"dialMade", "dialOk"} => pc \in {"dialMade", "dialOk"},
         pc \in {"dialMade", "dialOk", "clearCb"} =>
           pc' \in {"dialMade", "dialOk", "clearCb"}
  PROVE  InvOwners'
  BY DEF InvOwners, Kept, Remembered

(* InvOwners is inductive relative to IInv.                                *)
LEMMA NextInvOwners == IInv /\ IInv' /\ InvOwners /\ [Next]_vars => InvOwners'
<1> SUFFICES ASSUME IInv, IInv', InvOwners, [Next]_vars PROVE InvOwners'
  OBVIOUS
<1> USE DEF callVars, cmdVars, engVars, timVars, envVars, engineThread
<1>1. TypeOK /\ TypeOK'
  BY DEF IInv
<1>2. Kept
  BY <1>1, NextKept
<1>3. CASE ~OwnedOnce
  BY <1>2, <1>3 DEF Kept, InvOwners
<1> SUFFICES ASSUME OwnedOnce PROVE InvOwners'
  BY <1>3
<1>4. /\ \A c, d \in Owners : c = d
      /\ Owners # {} => pool = 0 /\ pc # "dialSetUp"
  BY <1>1, SoleOwner DEF InvOwners
<1>5. conn \in [Conn -> Phases]
  BY <1>1 DEF TypeOK
<1>6. \A c \in Conn : conn[c] \in Live => c \in Owners
  BY DEF Live, Owners
<1>7. CASE UNCHANGED <<conn, callToken, arg>> /\ pc' \notin {"dialMade", "dialOk"}
            /\ pc \notin {"dialMade", "dialOk", "clearCb"}
  BY <1>7, <1>2, SameRemembered DEF Owners
<1>8. CASE UNCHANGED <<conn, callToken, arg, pc>>
  BY <1>8, <1>2, SameRemembered DEF Owners
<1>9. CASE UNCHANGED <<conn, callToken>>
           /\ {pc, pc'} \cap {"dialMade", "dialOk", "clearCb"} = {}
  BY <1>9, <1>2 DEF InvOwners, Kept, Remembered
<1>10. CASE CheckState
  BY <1>9, <1>10 DEF CheckState, WaitDataReady, CheckRing, CheckTimeout,
     CheckReleasing, StartDial, ConnectHandle, ReqModeAckHandle, CheckOther, Answer,
     CallOnHook, Fallthrough, Park
<1>11. CASE HandleData
  BY <1>9, <1>11 DEF HandleData, CmdAnswer, CmdDial, CmdHangup, CmdClass, CmdData,
     HandleDataPhase, HandleAbort, AtCommand, Answer, CallOnHook
<1>12. CASE Events
  BY <1>8, <1>12 DEF Events, OnEngineCallback, RingTick, TimeoutFires, PtyInput,
     BecomeQuiet
<1>13. CASE CheckStatePost
  BY <1>9, <1>13 DEF CheckStatePost
<1>14. CASE Callback
  <2>1. CASE DialDequeue \/ DialRejected \/ AnswerReturn \/ ReqModeReturn
    BY <1>1, <1>9, <1>14, <2>1 DEF DialDequeue, DialRejected, AnswerReturn,
       ReqModeReturn, CallOnHook, TypeOK, Returns
  <2>2. CASE DialSetUp                    \* nobody else owns the modem
    <3>1. Owners = {}
      BY <1>4, <2>2 DEF DialSetUp
    <3>2. CASE pc' = "dialFail"
      <4>1. \A c \in Conn : conn'[c] \notin Live
        BY <1>5, <1>6, <2>2, <3>1, <3>2 DEF DialSetUp, Live
      <4> QED BY <1>2, <3>2, <4>1 DEF InvOwners, Kept
    <3>3. CASE pc' # "dialFail"
      <4>1. arg' \in Conn /\ conn' = [conn EXCEPT ![arg'] = "out"] /\ pc' = "dialMade"
        BY <2>2, <3>3 DEF DialSetUp
      <4>2. Owners' \subseteq {arg'}
        BY <1>5, <3>1, <4>1 DEF Owners
      <4>3. \A c \in Conn : conn'[c] \in Live => c = arg'
        BY <4>2 DEF Owners, Live
      <4> QED BY <1>2, <4>1, <4>2, <4>3 DEF InvOwners, Kept, Remembered
    <3> QED BY <3>2, <3>3
  <2>3. CASE DialLookup
    <3>1. conn' = conn /\ callToken' = callToken /\ arg' = arg /\ Owners' = Owners
      BY <2>3 DEF DialLookup, Owners
    <3>2. CASE pc' = "dialOk"
      BY <1>2, <2>3, <3>1, <3>2, SameRemembered DEF DialLookup
    <3>3. CASE pc' = "dialFail"           \* the connection has ended
      BY <1>2, <2>3, <3>1, <3>3 DEF DialLookup, InvOwners, Kept, Remembered
    <3> QED BY <2>3, <3>2, <3>3 DEF DialLookup
  <2>4. CASE DialConfirmed                \* only the dialled one owns the modem
    <3>1. Owners \subseteq {arg}
      BY <2>4 DEF DialConfirmed, InvOwners
    <3>2. \A c \in Conn : conn[c] \in Live => c = arg
      BY <1>6, <3>1
    <3> QED BY <1>2, <2>4, <3>2 DEF DialConfirmed, InvOwners, Kept, Remembered
  <2>5. CASE AnswerCallback
    <3>1. \A c \in Conn : conn'[c] \in Live => conn[c] \in Live
      BY <1>5, <2>5 DEF AnswerCallback, Live
    <3> QED BY <1>2, <2>5, <3>1 DEF AnswerCallback, InvOwners, Kept, Remembered
  <2> QED BY <1>14, <2>1, <2>2, <2>3, <2>4, <2>5 DEF Callback
<1>15. CASE Hangup
  <2>1. CASE OnHook \/ \E m \in Mce : DetachEnter(m) \/ DetachTry(m) \/ DetachWake(m)
    BY <1>9, <2>1, SMTT(30) DEF OnHook, DetachEnter, DetachTry, DetachWake, Det, Nap,
       Try, Done, Mce
  <2>2. CASE ClearCall                    \* the token is handed to the callback
    BY <1>1, <1>2, <2>2, NoConnAssumption DEF ClearCall, InvOwners, Kept, Remembered,
       TypeOK, Returns
  <2>3. CASE ClearCallback
    <3>1. arg \in Conn \cup {NoConn} /\ callToken \in Conn \cup {NoConn}
      BY <1>1 DEF TypeOK
    <3>2. \A c \in Conn : conn'[c] \in Live => conn[c] \in Live /\ c # arg
      BY <1>5, <2>3 DEF ClearCallback, Live
    <3> QED BY <1>2, <2>3, <3>2 DEF ClearCallback, InvOwners, Kept, Remembered
  <2>4. CASE ClearFinish
    BY <1>1, <1>9, <2>4 DEF ClearFinish, TypeOK, Returns
  <2> QED BY <1>15, <2>1, <2>2, <2>3, <2>4 DEF Hangup
<1>16. CASE Requests
  <2>1. ASSUME NEW c \in Conn, PMAlloc(c) PROVE InvOwners'
    <3>1. pc \notin {"dialMade", "dialOk"}
      BY <2>1 DEF PMAlloc, IInv, Safe, InvDial
    <3>2. \A d \in Conn : conn'[d] \in Live => conn[d] \in Live
      BY <1>5, <2>1 DEF PMAlloc, Live
    <3> QED BY <1>2, <2>1, <3>1, <3>2 DEF PMAlloc, InvOwners, Kept, Remembered
  <2>2. ASSUME NEW c \in Conn, RequestCall(c) PROVE InvOwners'
    <3>1. c \in Owners /\ Owners' = Owners
      BY <1>5, <2>2 DEF RequestCall, Owners
    <3>2. \A d \in Conn : conn'[d] \in Live => d = c /\ callToken' = c
      BY <1>4, <1>5, <1>6, <2>2, <3>1 DEF RequestCall, Live
    <3>3. pc' = pc /\ arg' = arg
      BY <2>2 DEF RequestCall
    <3> QED BY <1>2, <3>1, <3>2, <3>3 DEF InvOwners, Kept, Remembered
  <2>3. ASSUME NEW c \in Conn,
               RequestAlerting(c) \/ RequestEstablished(c) \/ Release(c) \/ PMFree(c)
        PROVE  InvOwners'
    <3>1. \A d \in Conn : conn'[d] \in Live => conn[d] \in Live
      BY <1>5, <2>3 DEF RequestAlerting, RequestEstablished, Release, PMFree, Live
    <3>2. Owners' \subseteq Owners
      BY <1>5, <2>3 DEF RequestAlerting, RequestEstablished, Release, PMFree, Owners, Live
    <3>3. UNCHANGED <<callToken, arg, pc>>
      BY <2>3 DEF RequestAlerting, RequestEstablished, Release, PMFree
    <3> QED BY <1>2, <3>1, <3>2, <3>3, SameRemembered
  <2>4. ASSUME NEW c \in Conn, RequestClearcall(c) PROVE InvOwners'
    <3>1. \A d \in Conn : conn'[d] \in Live => conn[d] \in Live /\ d # c
      BY <1>5, <2>4 DEF RequestClearcall, Live
    <3>2. Owners' = Owners
      BY <1>5, <2>4 DEF RequestClearcall, Owners
    <3>3. callToken' = callToken \/ callToken \in {NoConn, c}
      BY <2>4 DEF RequestClearcall, OnMine
    <3>4. UNCHANGED <<pc, arg>>
      BY <2>4 DEF RequestClearcall
    <3> QED BY <1>2, <3>1, <3>2, <3>3, <3>4, NoConnAssumption
        DEF InvOwners, Kept, Remembered
  <2>5. ASSUME NEW c \in Conn, NEW m \in Mce, NewPtrEngine(c, m) PROVE InvOwners'
    BY <1>8, <2>5 DEF NewPtrEngine
  <2> QED BY <1>16, <2>1, <2>2, <2>3, <2>4, <2>5 DEF Requests
<1>17. CASE UNCHANGED vars
  BY <1>8, <1>17 DEF vars
<1> QED BY <1>10, <1>11, <1>12, <1>13, <1>14, <1>15, <1>16, <1>17 DEF Next

(* InvOwners holds in every reachable state.                               *)
THEOREM OwnersInvariance == Spec => []InvOwners
<1>1. Init => InvOwners
  <2> SUFFICES ASSUME Init PROVE InvOwners
    OBVIOUS
  <2>1. Owners = {} /\ \A c \in Conn : conn[c] = "none"
    BY DEF Init, Owners
  <2> QED BY <2>1, FS_EmptySet DEF Init, InvOwners, ModemNotLost, Live
<1>2. IInv /\ IInv' /\ InvOwners /\ [Next]_vars => InvOwners'
  BY NextInvOwners
<1> QED BY <1>1, <1>2, Invariance, PTL DEF Spec

(* No failed or refused call, and no order of a dial and the end of its    *)
(* connection, makes the modem unreachable: OnMyCallback and               *)
(* ~ModemConnection always give it back to the pool.                       *)
THEOREM ModemKept == Spec => []ModemNotLost
<1>1. InvOwners => ModemNotLost
  BY DEF InvOwners
<1> QED BY <1>1, OwnersInvariance, PTL

(* As long as the modem is owned once, hanging up reaches every live       *)
(* connection: callToken, or the callback of the engine thread, names it.  *)
THEOREM NoCallOrphaned == Spec => []NoOrphanCall
<1>1. InvOwners => NoOrphanCall
  BY DEF InvOwners, NoOrphanCall, Remembered
<1> QED BY <1>1, OwnersInvariance, PTL
=============================================================================
