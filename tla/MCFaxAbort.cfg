SPECIFICATION Spec
CONSTANTS
  Stream = {s1}
  Polling = {}
  Fake = {f1}
  NoOwner = NoOwner
  Sends = {"ced", "hdlc"}
  MaxBuf = 1
  SeqMod = 3
  s1 = s1
  f1 = f1
INVARIANT FcsAfterStop
