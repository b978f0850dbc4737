SPECIFICATION ThreadsSpec
CONSTANTS
  Main = Main
  Req = {r1, r2}
  Media = {m1, m2}
  Engine = {e1}
  Free = Free
  r1 = r1
  r2 = r2
  m1 = m1
  m2 = m2
  e1 = e1
  MAX_qBUF = 1
  MaxRead = 2
  MaxResp = 2
INVARIANTS TypeOK NoDeadlock CallbackAttached FreshSession NoSleepOnWork
PROPERTIES CallbackEnds DetachEnds SessionEnds
