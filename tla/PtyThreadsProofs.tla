-------------------------- MODULE PtyThreadsProofs --------------------------
(***************************************************************************)
(* Proofs about PtyThreads, for queues and buffers of every size.          *)
(***************************************************************************)
EXTENDS PtyThreads, TLAPS

(* Where the threads can be, and which flags there are                     *)
Places ==
  /\ main \in {"add", "open", "start", "run", "wait", "end", "stopIn", "joinIn",
               "stopOut", "joinOut", "stopEngine", "joinEngine"}
  /\ where \in [Child -> {"none", "poll", "put", "notify", "take", "write", "check",
                          "data", "post", "wait", "ended"}]
  /\ where["inPty"] \in {"none", "poll", "put", "notify", "ended"}
  /\ where["outPty"] \in {"none", "take", "wait", "write", "ended"}
  /\ where["engine"] \in {"none", "check", "data", "put", "notify", "post", "wait", "ended"}
  /\ stop \in [Child -> BOOLEAN] /\ signalled \in [Child \cup {"body"} -> BOOLEAN]
  /\ childstop \in BOOLEAN

(* MainLoop knows which of its children there are                          *)
Children ==
  /\ where["inPty"] # "none" <=> main \in {"run", "wait", "stopIn", "joinIn"}
  /\ where["outPty"] # "none" <=>
       main \in {"run", "wait", "stopIn", "joinIn", "stopOut", "joinOut"}
  /\ where["engine"] # "none" <=> main \notin {"add", "open", "start", "end"}

(* A child that is elsewhere has nothing in its hands                      *)
Hands ==
  /\ where["inPty"] \notin {"put", "notify"} => cbuf = 0
  /\ where["outPty"] # "write" => buf = 0

(* Outside of a session nothing is left of the last one                    *)
Clean ==
  /\ main \in {"add", "open", "start"} => ~childstop /\ outPtyQ = <<>> /\ bresp = 0
  /\ main \in {"add", "open"} => inPtyQ = <<>>

(* The engine does not sleep on input that came after it looked: the       *)
(* promise has to hold all the way from the empty queue to the sleep       *)
SeesInput ==
  where["engine"] \in {"put", "notify", "post", "wait"} /\ ~signalled["engine"]
    => (inPtyQ # <<>> => full \/ where["inPty"] = "notify")

PtyInv == Places /\ Children /\ Hands /\ Clean /\ SeesInput /\ NoSleepOnWork

(* The places a thread of the pty can be at                                *)
Spot == {"none", "poll", "put", "notify", "take", "write", "check", "data", "post", "wait",
         "ended"}

(* SignalDataReady leaves one flag for each thread.                        *)
LEMMA SignalTyped ==
  ASSUME signalled \in [Child \cup {"body"} -> BOOLEAN], NEW T, SignalDataReady(T)
  PROVE  signalled' \in [Child \cup {"body"} -> BOOLEAN]
  BY DEF SignalDataReady

(* SignalStop leaves the flags and the stop requests typed.                *)
LEMMA StopTyped ==
  ASSUME signalled \in [Child \cup {"body"} -> BOOLEAN], stop \in [Child -> BOOLEAN],
         NEW t \in Child, SignalStop(t)
  PROVE  /\ signalled' \in [Child \cup {"body"} -> BOOLEAN]
         /\ stop' \in [Child -> BOOLEAN] /\ childstop' \in BOOLEAN
  BY SignalTyped DEF SignalStop

(* A thread that moves is where it moved to, and no other thread moves.    *)
LEMMA MoveTyped ==
  ASSUME where \in [Child -> Spot], NEW t \in Child, NEW p \in Spot, At(t, p)
  PROVE  /\ where' \in [Child -> Spot] /\ where'[t] = p
         /\ \A u \in Child \ {t} : where'[u] = where[u]
  BY DEF At

(* The invariant holds when a modem begins.                                *)
LEMMA PtyInvInit == PtyInit => PtyInv
  BY DEF PtyInit, PtyInv, Places, Children, Hands, Clean, SeesInput, NoSleepOnWork, Child

(* No step of a thread of the pty breaks the invariant.                    *)
LEMMA PtyInvNext == PtyInv /\ [PtyNext]_ptyVars => PtyInv'
<1>. SUFFICES ASSUME PtyInv, [PtyNext]_ptyVars PROVE PtyInv'
  OBVIOUS
<1>. USE DEF PtyInv, Places, Children, Hands, Clean, SeesInput, NoSleepOnWork, Child,
             childVars, queueVars, At
<1>1. CASE AddModem
  BY <1>1 DEF AddModem
<1>2. CASE OpenPty
  BY <1>2 DEF OpenPty
<1>3. CASE StartAll
  BY <1>3 DEF StartAll
<1>4. CASE WaitChildStop
  <2>. USE <1>4 DEF WaitChildStop, Woken
  <2>1. Places'
    OBVIOUS
  <2>2. Children'
    OBVIOUS
  <2>3. Hands'
    OBVIOUS
  <2>4. Clean'
    OBVIOUS
  <2>5. SeesInput'
    OBVIOUS
  <2>6. NoSleepOnWork'
    OBVIOUS
  <2>. QED
    BY <2>1, <2>2, <2>3, <2>4, <2>5, <2>6
<1>5. CASE StopAll
  BY <1>5 DEF StopAll
<1>6. CASE StopChild
  <2>. USE <1>6 DEF StopChild, SignalStop, SignalDataReady, Stopping, Then
  <2>1. Places'
    OBVIOUS
  <2>2. Children'
    OBVIOUS
  <2>3. Hands'
    OBVIOUS
  <2>4. Clean'
    OBVIOUS
  <2>5. SeesInput'
    OBVIOUS
  <2>6. NoSleepOnWork'
    OBVIOUS
  <2>. QED
    BY <2>1, <2>2, <2>3, <2>4, <2>5, <2>6
<1>7. CASE JoinChild
  BY <1>7 DEF JoinChild, Joining, Then
<1>8. CASE JoinEngine
  BY <1>8 DEF JoinEngine
<1>9. CASE InPtyStop
  BY <1>9 DEF InPtyStop
<1>10. CASE InPtyRead
  <2>1. Places'
    <3>1. CASE SignalStop("inPty") /\ At("inPty", "ended")
      BY <1>10, <3>1, StopTyped, MoveTyped DEF InPtyRead, Spot
    <3>2. CASE At("inPty", "put") /\ UNCHANGED <<childstop, stop, signalled>>
      BY <1>10, <3>2, MoveTyped DEF InPtyRead, Spot
    <3>. QED
      BY <1>10, <3>1, <3>2 DEF InPtyRead
  <2>. USE <1>10 DEF InPtyRead, SignalStop, SignalDataReady
  <2>2. Children'
    OBVIOUS
  <2>3. Hands'
    OBVIOUS
  <2>4. Clean'
    OBVIOUS
  <2>5. SeesInput'
    OBVIOUS
  <2>6. NoSleepOnWork'
    <3>1. CASE SignalStop("inPty") /\ where' = [where EXCEPT !["inPty"] = "ended"]
      BY <3>1
    <3>2. CASE UNCHANGED <<childstop, stop, signalled>>
      BY <3>2
    <3>. QED
      BY <3>1, <3>2
  <2>. QED
    BY <2>1, <2>2, <2>3, <2>4, <2>5, <2>6
<1>11. CASE InPtyPut
  BY <1>11 DEF InPtyPut
<1>12. CASE InPtyNotify
  <2>1. signalled' \in [Child \cup {"body"} -> BOOLEAN]
    BY <1>12, SignalTyped DEF InPtyNotify
  <2>2. At("inPty", "poll") \/ At("inPty", "put")
    BY <1>12 DEF InPtyNotify
  <2>3. Places'
    BY <1>12, <2>1, <2>2, MoveTyped DEF InPtyNotify, Spot
  <2>4. Children' /\ Hands' /\ Clean'
    BY <1>12 DEF InPtyNotify
  <2>5. SeesInput' /\ NoSleepOnWork'
    BY <1>12, <2>2 DEF InPtyNotify, SignalDataReady
  <2>. QED
    BY <2>3, <2>4, <2>5
<1>13. CASE OutPtyTake
  BY <1>13 DEF OutPtyTake
<1>14. CASE OutPtyWake
  BY <1>14 DEF OutPtyWake, Woken
<1>15. CASE OutPtyStop
  BY <1>15 DEF OutPtyStop
<1>16. CASE OutPtyWrite
  <2>1. Places'
    <3>1. CASE SignalStop("outPty") /\ At("outPty", "ended")
      BY <1>16, <3>1, StopTyped, MoveTyped DEF OutPtyWrite, Spot
    <3>2. CASE UNCHANGED <<childstop, stop, signalled>>
      <4>1. At("outPty", "take") \/ At("outPty", "write") \/ At("outPty", "ended")
        BY <1>16 DEF OutPtyWrite
      <4>. QED
        BY <1>16, <3>2, <4>1, MoveTyped DEF OutPtyWrite, Spot
    <3>. QED
      BY <1>16, <3>1, <3>2 DEF OutPtyWrite
  <2>. USE <1>16 DEF OutPtyWrite, SignalStop, SignalDataReady
  <2>2. Children'
    OBVIOUS
  <2>3. Hands'
    OBVIOUS
  <2>4. Clean'
    OBVIOUS
  <2>5. SeesInput'
    OBVIOUS
  <2>6. NoSleepOnWork'
    <3>1. CASE SignalStop("outPty") /\ where' = [where EXCEPT !["outPty"] = "ended"]
      BY <3>1
    <3>2. CASE UNCHANGED <<childstop, stop, signalled>>
      BY <3>2
    <3>. QED
      BY <3>1, <3>2
  <2>. QED
    BY <2>1, <2>2, <2>3, <2>4, <2>5, <2>6
<1>17. CASE EngineStop
  BY <1>17 DEF EngineStop
<1>18. CASE EngineCheckState
  BY <1>18 DEF EngineCheckState
<1>19. CASE EngineHandleData
  BY <1>19 DEF EngineHandleData
<1>20. CASE EngineRespond
  BY <1>20 DEF EngineRespond
<1>21. CASE EnginePtyPut
  BY <1>21 DEF EnginePtyPut
<1>22. CASE EnginePtyNotify
  <2>1. Places'
    <3>1. signalled' \in [Child \cup {"body"} -> BOOLEAN]
      BY <1>22, SignalTyped DEF EnginePtyNotify
    <3>2. At("engine", "post") \/ At("engine", "put")
      BY <1>22 DEF EnginePtyNotify
    <3>. QED
      BY <1>22, <3>1, <3>2, MoveTyped DEF EnginePtyNotify, Spot
  <2>. USE <1>22 DEF EnginePtyNotify, SignalDataReady
  <2>2. Children'
    OBVIOUS
  <2>3. Hands'
    OBVIOUS
  <2>4. Clean'
    OBVIOUS
  <2>5. SeesInput'
    OBVIOUS
  <2>6. NoSleepOnWork'
    OBVIOUS
  <2>. QED
    BY <2>1, <2>2, <2>3, <2>4, <2>5, <2>6
<1>23. CASE EngineWait
  <2>. USE <1>23 DEF EngineWait, Woken
  <2>1. Places'
    <3>1. signalled' \in [Child \cup {"body"} -> BOOLEAN]
      OBVIOUS
    <3>2. where' \in [Child -> {"none", "poll", "put", "notify", "take", "write", "check",
                               "data", "post", "wait", "ended"}]
      OBVIOUS
    <3>. QED
      BY <3>1, <3>2
  <2>2. Children'
    OBVIOUS
  <2>3. Hands'
    OBVIOUS
  <2>4. Clean'
    OBVIOUS
  <2>5. SeesInput'
    OBVIOUS
  <2>6. NoSleepOnWork'
    OBVIOUS
  <2>. QED
    BY <2>1, <2>2, <2>3, <2>4, <2>5, <2>6
<1>24. CASE BufOutNoFull
  <2>. USE <1>24 DEF BufOutNoFull, SignalDataReady
  <2>1. Places'
    OBVIOUS
  <2>2. Children'
    OBVIOUS
  <2>3. Hands'
    OBVIOUS
  <2>4. Clean'
    OBVIOUS
  <2>5. SeesInput'
    OBVIOUS
  <2>6. NoSleepOnWork'
    OBVIOUS
  <2>. QED
    BY <2>1, <2>2, <2>3, <2>4, <2>5, <2>6
<1>25. CASE EngineSignalled
  BY <1>25 DEF EngineSignalled, SignalDataReady
<1>26. CASE UNCHANGED ptyVars
  BY <1>26 DEF ptyVars
<1>. QED
  BY <1>1, <1>2, <1>3, <1>4, <1>5, <1>6, <1>7, <1>8, <1>9, <1>10, <1>11, <1>12, <1>13, <1>14, <1>15, <1>16, <1>17, <1>18, <1>19, <1>20, <1>21, <1>22, <1>23, <1>24, <1>25, <1>26
     DEF PtyNext, MainLoop, InPtyMain, OutPtyMain, EngineMain, Ended

(* A restarted modem owes nothing to the session before: StopAll leaves no *)
(* thread, byte or stop signal behind for the threads of the next StartAll *)
THEOREM SessionsFresh == PtySpec => []FreshSession
<1>1. PtyInv => FreshSession
  BY DEF PtyInv, Places, Children, Hands, Clean, FreshSession, Child
<1>. QED
  BY <1>1, PtyInvInit, PtyInvNext, PTL DEF PtySpec

(* WaitDataReady never sleeps through bytes queued by ToPtyQ, a stop or    *)
(* the end of a child                                                      *)
THEOREM NoWakeupLost == PtySpec => []NoSleepOnWork
<1>1. PtyInv => NoSleepOnWork
  BY DEF PtyInv
<1>. QED
  BY <1>1, PtyInvInit, PtyInvNext, PTL DEF PtySpec
=============================================================================
