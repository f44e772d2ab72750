CONSTANTS
  Users = {u1}
  Ids = {s1}
  Requests = {r1}
  MaxSessions = 1
  UsingCSRF = TRUE
  Modes = {"LOGIN", "POSTLOGIN", "EXEC", "TESTPASSWD", "AUTHCSRF", "AUTHINFO", "LOGOUT"}
  MaxReaders = 3
  NoId = NoId
  NoUser = NoUser
SPECIFICATION Spec
INVARIANT LimitCountsSessions

