CONSTANTS
  Conns = {c1, c2}
  Callers = {k1, k2}
  Queries = {x1}
  MaxTries = 1
  NoConn = NoConn
  NoCaller = NoCaller
SPECIFICATION FairSpec
INVARIANTS AnswersAreOwn NothingUsedIsGone
PROPERTY AllReturn
CHECK_DEADLOCK FALSE
