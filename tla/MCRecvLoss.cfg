SPECIFICATION Spec
CONSTANTS
  Stream = {s1}
  Null = Null
  Mods = {"v21"}
  Ecm = FALSE
  Loses = TRUE
  Parts = 1
  FcsKinds = {"OK"}
  MaxQ = 1
  SeqMod = 3
  s1 = s1
INVARIANTS RecvAgreement NoLostRecvWakeup ReportTruthful
