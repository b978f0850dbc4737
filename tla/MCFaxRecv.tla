----------------------------- MODULE MCFaxRecv -----------------------------
EXTENDS FaxRecv, TLC

Symm == Permutations(Stream)

(* Sequence numbers are only compared with seq and counted on from it, so   *)
(* states that differ by a shift of all of them behave alike.               *)
Shifted(n) == IF n = cbpReset THEN n ELSE (n - seq) % SeqMod
SeqView ==
  <<state, dataType, timeout, dataCount, diag, enableFakeIn, pc, ready, attached,
    stateModem, Shifted(callbackParamIn), modStreamIn, inVars, ownVars,
    Shifted(fakeCb), life, remote, gap,
    [s \in Stream |-> [win[s] EXCEPT !.cb = Shifted(@)]]>>
=============================================================================
