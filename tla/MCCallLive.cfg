SPECIFICATION FairSpec
CONSTANTS
  Conn = {c1}
  NoConn = NoConn
PROPERTIES AttemptEnds HangupCompletes
