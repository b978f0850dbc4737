----------------------------- MODULE MCFaxSend -----------------------------
EXTENDS FaxSend, TLC

(* Sequence numbers are only compared with seq and counted on from it, so   *)
(* states that differ by a shift of all of them behave alike.  So do states *)
(* that differ in a variable which is set again before it is read: what the *)
(* body last sent while it waits for a command, the moreFrames of a SendStop *)
(* that was answered, and lastChar before the first byte of a signal.       *)
Shifted(n) == IF n \in 0..(SeqMod - 1) THEN (n - seq) % SeqMod ELSE n
LastSent == IF state = "stCommand" THEN <<>> ELSE <<dataType, moreFrames>>
MoreOut  == stateModem = "stmOutNoMoreData" /\ moreFramesOut
LastByte == stateOut \in {"stOutData", "stOutHdlcFcs"} /\ lastChar
SeqView ==
  <<state, LastSent, enableFakeOut, pc, ready, held, attached, stateModem,
    Shifted(callbackParamOut), MoreOut, ModParsOut, stateOut, bufVars, countOut, inData,
    outEof, LastByte, startedTimeOutBufEmpty, outReady, ownVars, outW, outPc, Shifted(cb),
    pend, life, last>>
=============================================================================
