---------------------------- MODULE EngineLocks ----------------------------
(***************************************************************************)
(* The mutexes of ModemEngineBody (pmodeme.cxx) and of its engines         *)
(* (enginebase.cxx, t38engine.cxx, audio.cxx), and the paths on which the  *)
(* threads take them.  The body calls its engines under its own Mutex, the *)
(* engines call back into the body, and _DetachEngine waits for callbacks  *)
(* to end.                                                                 *)
(*                                                                         *)
(* pc[t] is where thread t is, at[t] the engine it is in.  The engine      *)
(* thread Main and the OPAL threads Req enter the body; the threads Media  *)
(* (media threads, fake threads, whoever opens or closes a stream) enter   *)
(* an engine.  What is computed between two mutex operations is left out.  *)
(***************************************************************************)
EXTENDS Naturals

CONSTANTS Main,    \* ModemEngine::Main, the engine thread
          Req,     \* threads in Request and NewPtrEngine
          Media,   \* threads in an engine, not through the body
          Engine,  \* names of engines, such as mceT38 and mceAudio
          Free     \* nobody

ASSUME LockAssumption ==
  /\ Main \notin Req \cup Media /\ Req \cap Media = {}
  /\ Free \notin {Main} \cup Req \cup Media
  /\ Engine # {}

BodyThread == {Main} \cup Req
Thread == BodyThread \cup Media

(* ModemEngineBody::Mutex is Body.  MutexIn, which AudioEngine::Write takes *)
(* as Read takes MutexOut, is not told apart from it.                       *)
Body == <<"body">>
Kind == {"MutexOut", "MutexModemCallback", "MutexModem", "Mutex"}
Lock == {Body} \cup (Kind \X Engine)

VARIABLES
  pc, at,          \* position and engine of each thread
  viaOut,          \* it holds MutexOut: PreparePacket, Read
  nested,          \* Main holds Body twice
  own,             \* the owner of each mutex
  modemCallback,   \* is not NULL
  activeEngines    \* "none", "active", "old": detached, but still referred to

engineVars == <<modemCallback, activeEngines>>
vars == <<pc, at, viaOut, nested, own, engineVars>>

Init ==
  /\ pc = [t \in Thread |-> "idle"] /\ at = [t \in Thread |-> CHOOSE e \in Engine : TRUE]
  /\ viaOut = [t \in Thread |-> FALSE] /\ nested = FALSE
  /\ own = [l \in Lock |-> Free]
  /\ modemCallback = [e \in Engine |-> FALSE]
  /\ activeEngines = [e \in Engine |-> "none"]
-----------------------------------------------------------------------------
(* PMutex is recursive; the one mutex taken twice is Body, see nested.      *)

Mine(t, k) == <<k, at[t]>>

Go(t, p) == pc' = [pc EXCEPT ![t] = p]
Wait(t, l, p) ==
  own[l] = Free /\ own' = [own EXCEPT ![l] = t] /\ Go(t, p)
Signal(t, ls, p) ==
  own' = [l \in Lock |-> IF l \in ls THEN Free ELSE own[l]] /\ Go(t, p)

(* The waits of a thread for a mutex, and the position after it             *)
Waits ==
  [ enter |-> "body", api |-> "apiMutex", apiMutex |-> "apiIn", get |-> "getIn",
    busy |-> "busyIn", try |-> "tryCb", detach |-> "detachIn",
    out |-> "lock", lock |-> "engine", cb |-> "call" ]
Wanted(t) ==
  CASE pc[t] \in {"enter", "nap", "callback"} -> Body
    [] pc[t] \in {"api", "try"} -> Mine(t, "MutexModem")
    [] pc[t] = "out"            -> Mine(t, "MutexOut")
    [] pc[t] = "cb"             -> Mine(t, "MutexModemCallback")
    [] OTHER                    -> Mine(t, "Mutex")

Acquire(t) ==
  /\ pc[t] \in DOMAIN Waits
  /\ Wait(t, Wanted(t), Waits[pc[t]])
  /\ UNCHANGED <<at, viaOut, nested, engineVars>>

atSide == <<at, viaOut, nested, engineVars>>
-----------------------------------------------------------------------------
(* In the body: CheckState, HandleData, Request, NewPtrEngine              *)

Enter(t) == pc[t] = "idle" /\ Go(t, "enter") /\ UNCHANGED <<own, atSide>>
Leave(t) ==
  /\ pc[t] = "body" /\ Signal(t, {Body}, "idle")
  /\ nested' = (nested /\ t # Main)
  /\ UNCHANGED <<at, viaOut, engineVars>>

(* CheckState runs the rest of a dial command with HandleCmdRest, whose     *)
(* commands take Body once more.                                            *)
HandleCmdRest ==
  /\ pc[Main] = "body" /\ ~nested /\ nested' = TRUE
  /\ UNCHANGED <<pc, at, viaOut, own, engineVars>>

(* A call of the modem API of an engine: under MutexModem and Mutex, or     *)
(* (isOutBufFull, ChangeModemClass) under Mutex only                        *)
CallEngine(t, e) ==
  /\ pc[t] = "body" /\ activeEngines[e] = "active"
  /\ at' = [at EXCEPT ![t] = e]
  /\ Go(t, "api") \/ Go(t, "get")
  /\ UNCHANGED <<viaOut, nested, own, engineVars>>

ReturnApi(t) ==
  /\ pc[t] = "apiIn" /\ Signal(t, {Mine(t, "MutexModem"), Mine(t, "Mutex")}, "body")
  /\ UNCHANGED atSide

(* _AttachEngine goes on from ChangeModemClass to SendOnIdle.               *)
ReturnGet(t) ==
  /\ pc[t] = "getIn" /\ \E p \in {"body", "api"} : Signal(t, {Mine(t, "Mutex")}, p)
  /\ UNCHANGED atSide

(* _AttachEngine: nobody else knows the new engine, so its locks are free.  *)
AttachEngine(t, e) ==
  /\ pc[t] = "body" /\ activeEngines[e] # "active"
  /\ \A u \in Thread : pc[u] \notin {"idle", "enter", "body"} => at[u] # e
  /\ at' = [at EXCEPT ![t] = e]
  /\ modemCallback' = [modemCallback EXCEPT ![e] = TRUE]
  /\ activeEngines' = [activeEngines EXCEPT ![e] = "active"]
  /\ Go(t, "get")
  /\ UNCHANGED <<viaOut, nested, own>>

(* CheckStatePost: EnableFakeIn and EnableFakeOut without Body              *)
CheckStatePost(e) ==
  /\ pc[Main] = "body" /\ ~nested /\ activeEngines[e] = "active"
  /\ at' = [at EXCEPT ![Main] = e]
  /\ Signal(Main, {Body}, "lock")
  /\ UNCHANGED <<viaOut, nested, engineVars>>
-----------------------------------------------------------------------------
(* _DetachEngine.  While a call is up it asks SendingNotCompleted first.    *)

DetachEngine(e) ==
  /\ pc[Main] = "body" /\ activeEngines[e] = "active"
  /\ at' = [at EXCEPT ![Main] = e]
  /\ Go(Main, "busy") \/ Go(Main, "try")
  /\ UNCHANGED <<viaOut, nested, own, engineVars>>

(* Mutex.Signal, Sleep: Body stays locked when it was locked twice.         *)
NapKeepsBody == {}                          \* mutant: sleeps without Mutex.Signal
NapLocks == IF nested THEN {} ELSE {Body}

SendingNotCompleted ==
  /\ pc[Main] = "busyIn"
  /\ \/ Signal(Main, {Mine(Main, "Mutex")}, "try")
     \/ Signal(Main, {Mine(Main, "Mutex")} \cup NapLocks, "nap")
  /\ UNCHANGED atSide

(* TryLockModemCallback has MutexModem and tries MutexModemCallback.        *)
TryLockModemCallbackIgnored ==              \* mutant: the result of the try not looked at
  /\ pc[Main] = "tryCb" /\ Go(Main, "detach") /\ UNCHANGED <<own, atSide>>
TryLockModemCallback ==
  /\ pc[Main] = "tryCb"
  /\ Wait(Main, Mine(Main, "MutexModemCallback"), "detach")
  /\ UNCHANGED atSide

TryLockFailedKeepsModem ==                  \* mutant: MutexModem kept over the sleep
  /\ pc[Main] = "tryCb" /\ own[Mine(Main, "MutexModemCallback")] # Free
  /\ Signal(Main, NapLocks, "nap") /\ UNCHANGED atSide
TryLockFailed ==
  /\ pc[Main] = "tryCb" /\ own[Mine(Main, "MutexModemCallback")] # Free
  /\ Signal(Main, {Mine(Main, "MutexModem")} \cup NapLocks, "nap")
  /\ UNCHANGED atSide

Wake ==
  /\ pc[Main] = "nap" /\ own[Body] \in {Free, Main}
  /\ own' = [own EXCEPT ![Body] = Main]
  /\ Go(Main, IF activeEngines[at[Main]] = "active" THEN "try" ELSE "body")
  /\ UNCHANGED atSide

Detach ==
  /\ pc[Main] = "detachIn"
  /\ modemCallback' = [modemCallback EXCEPT ![at[Main]] = FALSE]
  /\ activeEngines' = [activeEngines EXCEPT ![at[Main]] = "old"]
  /\ Signal(Main, {Mine(Main, k) : k \in {"MutexModem", "MutexModemCallback", "Mutex"}},
            "body")
  /\ UNCHANGED <<at, viaOut, nested>>
-----------------------------------------------------------------------------
(* In an engine: PreparePacket, HandlePacket, Read, Write, and the opening  *)
(* and closing of streams                                                   *)

EnterEngine(m, e) ==
  /\ pc[m] = "idle" /\ activeEngines[e] # "none"
  /\ at' = [at EXCEPT ![m] = e]
  /\ \E o \in BOOLEAN : viaOut' = [viaOut EXCEPT ![m] = o] /\ Go(m, IF o THEN "out" ELSE "lock")
  /\ UNCHANGED <<nested, own, engineVars>>

LeaveEngine(t) ==
  /\ pc[t] = "engine"
  /\ Signal(t, {Mine(t, "Mutex")} \cup IF viaOut[t] THEN {Mine(t, "MutexOut")} ELSE {},
            IF t = Main THEN "enter" ELSE "idle")
  /\ viaOut' = [viaOut EXCEPT ![t] = FALSE]
  /\ UNCHANGED <<at, nested, engineVars>>

(* WaitOutDataReady, readDelay: with MutexOut, without Mutex                *)
Sleep(t) ==
  /\ pc[t] = "engine" /\ viaOut[t] /\ Signal(t, {Mine(t, "Mutex")}, "sleep")
  /\ UNCHANGED atSide
AwakeInEngine(t) ==
  pc[t] = "sleep" /\ Go(t, "lock") /\ UNCHANGED <<own, atSide>>

(* ModemCallbackWithUnlock: Mutex is given up for MutexModemCallback.       *)
CallbackKeeps(t) ==                         \* mutant: Mutex not given up
  /\ pc[t] = "engine" /\ Go(t, "cb") /\ UNCHANGED <<own, atSide>>
ModemCallbackWithUnlock(t) ==
  /\ pc[t] = "engine" /\ Signal(t, {Mine(t, "Mutex")}, "cb")
  /\ UNCHANGED atSide

(* OnEngineCallback takes Body for a buffer-empty or a sequence number.     *)
OnEngineCallback(t) ==
  /\ pc[t] = "call" /\ modemCallback[at[t]] /\ Go(t, "callback")
  /\ UNCHANGED <<own, atSide>>
CallbackReturnsKeeps(t) ==                  \* mutant: MutexModemCallback not given back
  /\ pc[t] = "call" \/ (pc[t] = "callback" /\ own[Body] = Free)
  /\ Go(t, "lock") /\ UNCHANGED <<own, atSide>>
CallbackReturns(t) ==
  /\ \/ pc[t] = "call"                      \* no callback, or one without Body
     \/ pc[t] = "callback" /\ own[Body] = Free
  /\ Signal(t, {Mine(t, "MutexModemCallback")}, "lock")
  /\ UNCHANGED atSide
-----------------------------------------------------------------------------
InEngine(t) ==
  \/ LeaveEngine(t) \/ Sleep(t) \/ AwakeInEngine(t)
  \/ ModemCallbackWithUnlock(t) \/ OnEngineCallback(t) \/ CallbackReturns(t)
InBody(t) ==
  \/ Leave(t) \/ ReturnApi(t) \/ ReturnGet(t)
  \/ \E e \in Engine : CallEngine(t, e) \/ AttachEngine(t, e)
Detaching ==
  \/ SendingNotCompleted \/ TryLockModemCallback \/ TryLockFailed \/ Wake \/ Detach

Next ==
  \/ \E t \in Thread : Acquire(t) \/ InEngine(t)
  \/ \E t \in BodyThread : Enter(t) \/ InBody(t)
  \/ HandleCmdRest \/ Detaching
  \/ \E e \in Engine : CheckStatePost(e) \/ DetachEngine(e)
  \/ \E m \in Media, e \in Engine : EnterEngine(m, e)

Spec == Init /\ [][Next]_vars

(* The steps for which fairness is assumed, weak for BodyWork and LeaveAny, *)
(* strong for the others: the holder of a mutex goes on, and a mutex that   *)
(* becomes free again and again is not withheld for ever from a thread      *)
(* which holds another (HeldAcquire, ReturnAny, Wake); a thread in the body *)
(* leaves it after a number of calls.  Nobody has to enter, and a thread in *)
(* an engine need not call back.                                            *)
BodyWork ==
  \/ \E t \in BodyThread : ReturnApi(t) \/ ReturnGet(t)
  \/ SendingNotCompleted \/ TryLockModemCallback \/ TryLockFailed \/ Detach
HeldAcquire == \E t \in BodyThread : own[Body] = t /\ Acquire(t)
LeaveBody == \E t \in BodyThread : Leave(t)
LeaveAny(e) == \E t \in Thread : at[t] = e /\ LeaveEngine(t)
ReturnAny(e) == \E t \in Thread : at[t] = e /\ CallbackReturns(t)
-----------------------------------------------------------------------------
(* Where a thread holds what                                                *)
Position ==
  {"idle", "enter", "body", "api", "apiMutex", "apiIn", "get", "getIn", "busy", "busyIn",
   "try", "tryCb", "detach", "detachIn", "nap", "out", "lock", "engine", "sleep", "cb",
   "call", "callback"}
WithBody == {"body", "api", "apiMutex", "apiIn", "get", "getIn", "busy", "busyIn",
             "try", "tryCb", "detach", "detachIn"}
WithModem == {"apiMutex", "apiIn", "tryCb", "detach", "detachIn"}
WithCallback == {"detach", "detachIn", "call", "callback"}
WithMutex == {"apiIn", "getIn", "busyIn", "detachIn", "engine"}
WithOut == {"lock", "engine", "sleep", "cb", "call", "callback"}

HoldsBody(t) == pc[t] \in WithBody \/ (t = Main /\ nested /\ pc[t] = "nap")
Holds(t, k) ==
  \/ k = "MutexModem" /\ pc[t] \in WithModem
  \/ k = "MutexModemCallback" /\ pc[t] \in WithCallback
  \/ k = "Mutex" /\ pc[t] \in WithMutex
  \/ k = "MutexOut" /\ viaOut[t] /\ pc[t] \in WithOut

(* Every mutex is owned by the thread whose position says so.               *)
Ownership ==
  \A t \in Thread :
    /\ (own[Body] = t) <=> HoldsBody(t)
    /\ \A k \in Kind, e \in Engine : (own[<<k, e>>] = t) <=> (at[t] = e /\ Holds(t, k))

(* The variables keep their types, and every Wait has its Signal on every   *)
(* path through the engine and the body, sleeps and failed tries included.  *)
TypeOK ==
  /\ pc \in [Thread -> Position] /\ at \in [Thread -> Engine]
  /\ viaOut \in [Thread -> BOOLEAN] /\ nested \in BOOLEAN
  /\ own \in [Lock -> Thread \cup {Free}]
  /\ modemCallback \in [Engine -> BOOLEAN]
  /\ activeEngines \in [Engine -> {"none", "active", "old"}]
  /\ Ownership

(* No deadlock: no set of threads in which each waits for a mutex that      *)
(* another one of them holds.  The callbacks take Body, and the body calls  *)
(* the engines with it, so this rests on ModemCallbackWithUnlock and on the *)
(* Wait(0) of TryLockModemCallback.                                         *)
Blocked(t) ==
  /\ pc[t] \in DOMAIN Waits \cup {"nap", "callback"}
  /\ own[Wanted(t)] \notin {Free, t}
NoDeadlock ==
  \A S \in (SUBSET Thread) \ {{}} :
    ~ \A t \in S : Blocked(t) /\ own[Wanted(t)] \in S

(* No callback of a detached engine: a thread in OnEngineCallback is one of *)
(* an engine that is attached, whatever Detach did since it began.          *)
CallbackAttached == \A t \in Thread : pc[t] = "callback" => modemCallback[at[t]]

(* A callback ends: nobody who keeps Body from it waits for it.  The        *)
(* exception is a hang-up in the rest of a dial command, where _DetachEngine *)
(* sleeps with Body and finds the callback in progress for ever.            *)
CallbackEnds ==
  \A t \in Thread :
    pc[t] = "callback" ~> pc[t] # "callback" \/ (nested /\ pc[Main] = "nap")

(* _DetachEngine ends once no callbacks come any more.                      *)
DetachEnds ==
  <>[](\A t \in Thread : pc[t] \notin {"cb", "call", "callback"}) =>
    (pc[Main] \in {"busy", "busyIn", "try", "tryCb", "detach", "detachIn", "nap"}
       ~> pc[Main] = "body")
=============================================================================
