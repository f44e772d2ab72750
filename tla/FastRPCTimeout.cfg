CONSTANTS
  Conns = {c1}
  Callers = {k1}
  Queries = {x1}
  MaxTries = 1
  NoConn = NoConn
  NoCaller = NoCaller
SPECIFICATION Spec
PROPERTY TimeoutMeansNoAnswer
CHECK_DEADLOCK FALSE
