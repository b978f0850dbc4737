SPECIFICATION Spec
VIEW SeqView
CONSTANTS
  Stream = {s1, s2}
  Polling = {s2}
  Fake = {f1}
  NoOwner = NoOwner
  Sends = {"ced", "hdlc", "raw", "rawHdlc", "hdlcRaw"}
  MaxBuf = 1
  SeqMod = 3
  s1 = s1
  s2 = s2
  f1 = f1
INVARIANTS TypeOK SendAgreement NoLostOutWakeup HeldInputSeen
PROPERTIES AckMeansSent WireOrder
