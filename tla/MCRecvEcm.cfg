VIEW SeqView
SPECIFICATION Spec
CONSTANTS
  Stream = {s1, s2}
  Null = Null
  Mods = {"v21", "long"}
  Ecm = TRUE
  Loses = FALSE
  Parts = 1
  FcsKinds = {"OK", "BAD"}
  MaxQ = 1
  SeqMod = 3
  s1 = s1
  s2 = s2
INVARIANTS BufferOwnership ReportTruthful
SYMMETRY Symm
