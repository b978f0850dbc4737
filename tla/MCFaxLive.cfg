SPECIFICATION FairSpec
CONSTANTS
  Stream = {s1}
  Polling = {}
  Fake = {f1}
  NoOwner = NoOwner
  Sends = {"ced", "silence", "hdlc"}
  MaxBuf = 2
  SeqMod = 3
  s1 = s1
  f1 = f1
PROPERTIES FrameCompletes ReleasedSendAcked
