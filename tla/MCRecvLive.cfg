SPECIFICATION FairSpec
CONSTANTS
  Stream = {s1}
  Null = Null
  Mods = {"short", "v21"}
  Ecm = TRUE
  Loses = FALSE
  Parts = 2
  FcsKinds = {"OK"}
  MaxQ = 1
  SeqMod = 3
  s1 = s1
PROPERTIES ReleasedRecvEnds EndedSignalReported
