---------------------------- MODULE PtyThreads -----------------------------
(***************************************************************************)
(* The threads of one modem on a pty: the body's MainLoop, which opens the *)
(* pty and starts, stops and replaces its children, and the children InPty *)
(* (drv_pty.cxx), ModemEngine and OutPty.  Two queues of bounded size lie  *)
(* between them, filled by ToPtyQ (pmodemi.cxx).                           *)
(*                                                                         *)
(* Bytes are counted, not told apart; the DTE and the kernel's side of the *)
(* pty decide what poll, read and write return.  Nothing in the program    *)
(* calls SignalStop of the body, so its own stop is never set.             *)
(***************************************************************************)
EXTENDS Naturals, SequencesExt

CONSTANTS MAX_qBUF,    \* size of a queue
          MaxRead,     \* size of InPty's cbuf
          MaxResp      \* bound of what bresp collects in one round

ASSUME PtyAssumption ==
  MAX_qBUF \in Nat \ {0} /\ MaxRead \in Nat \ {0} /\ MaxResp \in Nat

Child == {"inPty", "outPty", "engine"}

VARIABLES
  main,            \* where MainLoop is
  hPty,            \* the pty is open
  childstop,       \* of the body
  stop,            \* of each child
  where,           \* where each child is: "none" without one, "ended" before delete
  signalled,       \* dataReadySyncPoint of each thread
  inPtyQ, outPtyQ, \* the sizes of the buffers queued
  cbuf, bresp,     \* what InPty and ModemEngine have still to put in their queue
  buf,             \* what OutPty has still to write, 0 without a buffer
  full             \* isOutBufFull

childVars == <<childstop, stop, where, signalled>>
queueVars == <<inPtyQ, outPtyQ, cbuf, bresp, buf>>
ptyVars == <<main, hPty, childVars, queueVars, full>>

PtyInit ==
  /\ main = "add" /\ hPty = FALSE /\ childstop = FALSE
  /\ stop = [t \in Child |-> FALSE] /\ where = [t \in Child |-> "none"]
  /\ signalled = [t \in Child \cup {"body"} |-> FALSE]
  /\ inPtyQ = <<>> /\ outPtyQ = <<>> /\ cbuf = 0 /\ bresp = 0 /\ buf = 0
  /\ full = FALSE

Count(q) == FoldSeq(+, 0, q)
At(t, p) == where' = [where EXCEPT ![t] = p]

SignalDataReady(T) ==
  signalled' = [t \in Child \cup {"body"} |-> t \in T \/ signalled[t]]
SignalStopAlone(t) ==                       \* mutant: the parent is not told
  /\ stop' = [stop EXCEPT ![t] = TRUE] /\ SignalDataReady({t}) /\ UNCHANGED childstop
SignalStop(t) ==
  /\ stop' = [stop EXCEPT ![t] = TRUE] /\ childstop' = TRUE
  /\ SignalDataReady({t, "body"})

(* WaitDataReady, woken                                                    *)
Woken(t) == signalled[t] /\ signalled' = [signalled EXCEPT ![t] = FALSE]
-----------------------------------------------------------------------------
(* MainLoop                                                                *)

AddModem ==
  /\ main = "add" /\ main' \in {"open", "end"}
  /\ UNCHANGED <<hPty, childVars, queueVars, full>>

(* OpenPty looks at the health of a pty that is open: a byte read for that *)
(* is queued, an error closes the pty, to open it again.  What fails for   *)
(* good is given up, ClosePty.                                             *)
OpenPty ==
  /\ main = "open"
  /\ \/ hPty /\ main' = "start" /\ inPtyQ' \in {inPtyQ, Append(inPtyQ, 1)} /\ UNCHANGED hPty
     \/ main' = "start" /\ hPty' = TRUE /\ UNCHANGED inPtyQ
     \/ main' = "end" /\ hPty' = FALSE /\ UNCHANGED inPtyQ
  /\ UNCHANGED <<childVars, outPtyQ, cbuf, bresp, buf, full>>

StartAll ==
  /\ main = "start" /\ main' = "run"
  /\ where' = [inPty |-> "poll", outPty |-> "take", engine |-> "check"]
  /\ stop' = [t \in Child |-> FALSE]
  /\ signalled' = [t \in Child \cup {"body"} |-> t = "body" /\ signalled[t]]
  /\ UNCHANGED <<hPty, childstop, queueVars, full>>

WaitChildStop ==
  /\ \/ main = "run" /\ ~childstop /\ main' = "wait" /\ UNCHANGED signalled
     \/ main = "wait" /\ Woken("body") /\ main' = "run"
  /\ UNCHANGED <<hPty, childstop, stop, where, queueVars, full>>

(* StopAll: every child in turn is told to stop, waited for and deleted    *)
Stopping == [stopIn |-> "inPty", stopOut |-> "outPty", stopEngine |-> "engine"]
Joining == [joinIn |-> "inPty", joinOut |-> "outPty"]
Then == [stopIn |-> "joinIn", joinIn |-> "stopOut", stopOut |-> "joinOut",
         joinOut |-> "stopEngine", stopEngine |-> "joinEngine"]

StopAll ==
  /\ main = "run" /\ childstop /\ main' = "stopIn"
  /\ UNCHANGED <<hPty, childVars, queueVars, full>>
StopChild ==
  /\ main \in DOMAIN Stopping /\ SignalStop(Stopping[main])
  /\ main' = Then[main]
  /\ UNCHANGED <<hPty, where, queueVars, full>>
JoinChild ==
  /\ main \in DOMAIN Joining /\ where[Joining[main]] = "ended"
  /\ At(Joining[main], "none") /\ main' = Then[main]
  /\ UNCHANGED <<hPty, childstop, stop, signalled, queueVars, full>>

JoinEngineKeepsFlag ==                      \* mutant: childstop not reset
  /\ main = "joinEngine" /\ where["engine"] = "ended" /\ At("engine", "none")
  /\ main' = "open" /\ inPtyQ' = <<>> /\ outPtyQ' = <<>> /\ bresp' = 0 /\ full' = FALSE
  /\ UNCHANGED <<hPty, childstop, stop, signalled, cbuf, buf>>
JoinEngine ==
  /\ main = "joinEngine" /\ where["engine"] = "ended" /\ At("engine", "none")
  /\ main' = "open" /\ childstop' = FALSE
  /\ inPtyQ' = <<>> /\ outPtyQ' = <<>> /\ bresp' = 0 /\ full' = FALSE
  /\ UNCHANGED <<hPty, stop, signalled, cbuf, buf>>

MainLoop ==
  \/ AddModem \/ OpenPty \/ StartAll \/ WaitChildStop \/ StopAll
  \/ StopChild \/ JoinChild \/ JoinEngine
-----------------------------------------------------------------------------
(* ToPtyQ puts as much as there is room for, tells the thread at the other *)
(* end, sleeps and goes on with the rest; without that thread all is       *)
(* dropped.  It heeds the stop of the body, not the one of its caller.     *)

Taken(q, count) ==
  LET free == MAX_qBUF - Count(q)
  IN IF Count(q) >= MAX_qBUF THEN 0 ELSE IF count < free THEN count ELSE free
Enqueued(q, len) == IF len = 0 THEN q ELSE Append(q, len)

InPtyPut ==
  /\ where["inPty"] = "put" /\ At("inPty", "notify")
  /\ inPtyQ' = Enqueued(inPtyQ, Taken(inPtyQ, cbuf))
  /\ cbuf' = cbuf - Taken(inPtyQ, cbuf)
  /\ UNCHANGED <<main, hPty, childstop, stop, signalled, outPtyQ, bresp, buf, full>>
InPtyNotifyLate ==                          \* mutant: tells the engine once, at the end
  /\ where["inPty"] = "notify"
  /\ At("inPty", IF cbuf = 0 THEN "poll" ELSE "put")
  /\ IF cbuf = 0 THEN SignalDataReady({"engine"}) ELSE UNCHANGED signalled
  /\ UNCHANGED <<main, hPty, childstop, stop, queueVars, full>>
InPtyNotify ==
  /\ where["inPty"] = "notify"
  /\ At("inPty", IF cbuf = 0 THEN "poll" ELSE "put") /\ SignalDataReady({"engine"})
  /\ UNCHANGED <<main, hPty, childstop, stop, queueVars, full>>

EnginePtyPut ==
  /\ where["engine"] = "put" /\ At("engine", "notify")
  /\ outPtyQ' = Enqueued(outPtyQ, Taken(outPtyQ, bresp))
  /\ bresp' = bresp - Taken(outPtyQ, bresp)
  /\ UNCHANGED <<main, hPty, childstop, stop, signalled, inPtyQ, cbuf, buf, full>>
EnginePtyNotify ==
  /\ where["engine"] = "notify"
  /\ IF where["outPty"] = "none"
       THEN At("engine", "post") /\ outPtyQ' = <<>> /\ bresp' = 0 /\ UNCHANGED signalled
       ELSE /\ At("engine", IF bresp = 0 THEN "post" ELSE "put")
            /\ SignalDataReady({"outPty"}) /\ UNCHANGED <<outPtyQ, bresp>>
  /\ UNCHANGED <<main, hPty, childstop, stop, inPtyQ, cbuf, buf, full>>
-----------------------------------------------------------------------------
(* InPty::Main, which looks at stop whenever poll returns                  *)

InPtyStop ==
  /\ where["inPty"] = "poll" /\ stop["inPty"] /\ At("inPty", "ended")
  /\ UNCHANGED <<main, hPty, childstop, stop, signalled, queueVars, full>>
InPtyRead ==
  /\ where["inPty"] = "poll" /\ ~stop["inPty"]
  /\ \/ \* an error, or the end of the file
        /\ SignalStop("inPty") /\ At("inPty", "ended") /\ UNCHANGED cbuf
     \/ \E len \in 1..MaxRead :
          /\ cbuf' = len /\ At("inPty", "put") /\ UNCHANGED <<childstop, stop, signalled>>
  /\ UNCHANGED <<main, hPty, inPtyQ, outPtyQ, bresp, buf, full>>

(* OutPty::Main; what it has not written when it stops is dropped          *)
OutPtyTake ==
  /\ where["outPty"] = "take" /\ ~stop["outPty"]
  /\ IF outPtyQ = <<>>
       THEN At("outPty", "wait") /\ UNCHANGED <<outPtyQ, buf>>
       ELSE At("outPty", "write") /\ buf' = Head(outPtyQ) /\ outPtyQ' = Tail(outPtyQ)
  /\ UNCHANGED <<main, hPty, childstop, stop, signalled, inPtyQ, cbuf, bresp, full>>
OutPtyWake ==
  /\ where["outPty"] = "wait" /\ Woken("outPty") /\ At("outPty", "take")
  /\ UNCHANGED <<main, hPty, childstop, stop, queueVars, full>>
OutPtyStop ==
  /\ where["outPty"] \in {"take", "write"} /\ stop["outPty"]
  /\ At("outPty", "ended") /\ buf' = 0
  /\ UNCHANGED <<main, hPty, childstop, stop, signalled, inPtyQ, outPtyQ, cbuf, bresp, full>>
OutPtyWrite ==
  /\ where["outPty"] = "write" /\ ~stop["outPty"]
  /\ \/ \* an error
        SignalStop("outPty") /\ At("outPty", "ended") /\ buf' = 0
     \/ \E len \in 1..buf :
          /\ buf' = buf - len /\ At("outPty", IF buf' = 0 THEN "take" ELSE "write")
          /\ UNCHANGED <<childstop, stop, signalled>>
  /\ UNCHANGED <<main, hPty, inPtyQ, outPtyQ, cbuf, bresp, full>>

(* ModemEngine::Main.  CheckState and HandleData add to bresp, HandleData  *)
(* also to bufOut.                                                         *)
EngineStop ==
  /\ where["engine"] \in {"check", "data", "post"} /\ stop["engine"]
  /\ At("engine", "ended")
  /\ UNCHANGED <<main, hPty, childstop, stop, signalled, queueVars, full>>
EngineCheckState ==
  /\ where["engine"] = "check" /\ ~stop["engine"]
  /\ bresp' \in 0..MaxResp /\ At("engine", "data")
  /\ UNCHANGED <<main, hPty, childstop, stop, signalled, inPtyQ, outPtyQ, cbuf, buf, full>>
EngineHandleData ==
  /\ where["engine"] = "data" /\ ~stop["engine"] /\ ~full /\ inPtyQ # <<>>
  /\ inPtyQ' = Tail(inPtyQ) /\ bresp' \in bresp..MaxResp /\ full' \in BOOLEAN
  /\ UNCHANGED <<main, hPty, childVars, outPtyQ, cbuf, buf>>
EngineRespond ==
  /\ where["engine"] = "data" /\ ~stop["engine"] /\ (full \/ inPtyQ = <<>>)
  /\ At("engine", IF bresp # 0 THEN "put" ELSE "post")
  /\ UNCHANGED <<main, hPty, childstop, stop, signalled, queueVars, full>>
EngineWait ==
  /\ \/ where["engine"] = "post" /\ ~stop["engine"] /\ At("engine", "wait")
        /\ UNCHANGED signalled
     \/ where["engine"] = "wait" /\ Woken("engine") /\ At("engine", "check")
  /\ UNCHANGED <<main, hPty, childstop, stop, queueVars, full>>

(* What the rest of the modem does to this: the T.38 engine empties bufOut *)
(* and tells of it with cbpOutBufNoFull; requests, timers and callbacks    *)
(* wake the engine thread.                                                 *)
BufOutNoFull ==
  /\ full /\ full' = FALSE /\ SignalDataReady({"engine"})
  /\ UNCHANGED <<main, hPty, childstop, stop, where, queueVars>>
EngineSignalled ==
  /\ where["engine"] # "none" /\ SignalDataReady({"engine"})
  /\ UNCHANGED <<main, hPty, childstop, stop, where, queueVars, full>>

InPtyMain == InPtyStop \/ InPtyRead \/ InPtyPut \/ InPtyNotify
OutPtyMain == OutPtyTake \/ OutPtyWake \/ OutPtyStop \/ OutPtyWrite
EngineMain ==
  \/ EngineStop \/ EngineCheckState \/ EngineHandleData \/ EngineRespond
  \/ EnginePtyPut \/ EnginePtyNotify \/ EngineWait

(* The modem that gave up its pty stays as it is                           *)
Ended == main = "end" /\ UNCHANGED ptyVars

PtyNext ==
  \/ MainLoop \/ InPtyMain \/ OutPtyMain \/ EngineMain
  \/ BufOutNoFull \/ EngineSignalled \/ Ended

PtySpec == PtyInit /\ [][PtyNext]_ptyVars

(* The steps for which weak fairness is assumed, with MainLoop, EngineMain *)
(* and BufOutNoFull: the threads run, and what is in bufOut is taken.  The *)
(* DTE need neither write nor read: InPty and OutPty may stay in poll, but *)
(* heed stop every 5 seconds.                                              *)
InPtyRuns == InPtyStop \/ InPtyPut \/ InPtyNotify
OutPtyRuns == OutPtyTake \/ OutPtyWake \/ OutPtyStop
-----------------------------------------------------------------------------
PtyTypeOK ==
  /\ main \in {"add", "open", "start", "run", "wait", "end"}
                \cup DOMAIN Then \cup {"joinEngine"}
  /\ hPty \in BOOLEAN /\ childstop \in BOOLEAN /\ full \in BOOLEAN
  /\ stop \in [Child -> BOOLEAN] /\ signalled \in [Child \cup {"body"} -> BOOLEAN]
  /\ where \in [Child -> {"none", "poll", "put", "notify", "take", "write", "check",
                          "data", "post", "wait", "ended"}]
  /\ {Count(inPtyQ), Count(outPtyQ)} \subseteq 0..MAX_qBUF
  /\ cbuf \in 0..MaxRead /\ bresp \in 0..MaxResp /\ buf \in 0..MAX_qBUF

(* A session begins fresh: when MainLoop opens the pty again, no thread of *)
(* the last session is left, and nothing that one of them queued, or       *)
(* signalled to stop it, can reach the threads that StartAll makes.        *)
FreshSession ==
  main \in {"open", "start"} =>
    /\ \A t \in Child : where[t] = "none"
    /\ ~childstop /\ outPtyQ = <<>> /\ (main = "open" => inPtyQ = <<>>)
    /\ cbuf = 0 /\ bresp = 0 /\ buf = 0

(* No thread sleeps through its work: a queue that was filled, a stop, or  *)
(* the end of a child is signalled to the thread it is for, or about to be. *)
NoSleepOnWork ==
  /\ main = "wait" /\ ~signalled["body"] => ~childstop
  /\ where["outPty"] = "wait" /\ ~signalled["outPty"] =>
       ~stop["outPty"] /\ (outPtyQ # <<>> => where["engine"] = "notify")
  /\ where["engine"] = "wait" /\ ~signalled["engine"] =>
       ~stop["engine"] /\ (inPtyQ # <<>> => full \/ where["inPty"] = "notify")

(* When InPty or OutPty has ended, the session does: StopAll waits for     *)
(* each child in turn, which may still be in ToPtyQ.  The exception is     *)
(* OutPty ended by an error while both queues are full: InPty then waits   *)
(* for the engine, the engine for OutPty, and StopAll for InPty.           *)
InToPtyQ(t, q, count) == where[t] \in {"put", "notify"} /\ count # 0 /\ Count(q) = MAX_qBUF
Jammed ==
  /\ InToPtyQ("inPty", inPtyQ, cbuf) /\ InToPtyQ("engine", outPtyQ, bresp)
  /\ where["outPty"] = "ended"
SessionEnds ==
  where["inPty"] = "ended" \/ where["outPty"] = "ended" ~> main \in {"open", "end"} \/ Jammed
=============================================================================
