SPECIFICATION Spec
CONSTANTS
  Conn = {c1, c2}
  NoConn = NoConn
SYMMETRY ConnSymmetry
INVARIANTS TypeOK NoOrphanCall NoLostWakeup CallScoped CurrentEngineValid ModemNotLost
PROPERTIES TimedWaits CallTable
