------------------------------- MODULE MCData -------------------------------
(***************************************************************************)
(* The three layers of the data path share no state: packet numbers, the   *)
(* bytes between the DTE and the engine, the bits of HDLC frames.  A       *)
(* behaviour of one of them at a time, part, shows all there is to see.    *)
(***************************************************************************)
EXTENDS MediaSeq, DataStream, Hdlc

VARIABLE part

Init ==
  /\ part \in {"media", "stream", "hdlc"}
  /\ MediaInit /\ StreamInit /\ HdlcInit
  /\ part # "stream" => ~bitRev /\ way = "send"   \* one of its initial states will do
Next ==
  \/ part = "media" /\ MediaNext /\ UNCHANGED <<part, streamVars, hdlcVars>>
  \/ part = "stream" /\ StreamNext /\ UNCHANGED <<part, mediaVars, hdlcVars>>
  \/ part = "hdlc" /\ HdlcNext /\ UNCHANGED <<part, mediaVars, streamVars>>
Spec == Init /\ [][Next]_<<part, mediaVars, streamVars, hdlcVars>>
=============================================================================
