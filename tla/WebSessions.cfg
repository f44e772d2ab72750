CONSTANTS
  Users = {u1}
  Ids = {s1, s2}
  Requests = {r1, r2}
  MaxSessions = 1
  UsingCSRF = TRUE
  Modes = {"LOGIN", "POSTLOGIN", "EXEC", "TESTPASSWD", "AUTHCSRF", "LOGOUT"}
  MaxReaders = 2
  NoId = NoId
  NoUser = NoUser
SPECIFICATION FairSpec
INVARIANTS SessionOutlivesRequest CountCoversSessions
PROPERTY AllEnd
