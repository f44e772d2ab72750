SPECIFICATION Spec
SYMMETRY Symmetry
CHECK_DEADLOCK FALSE
CONSTANTS
    ForeignKeys = TRUE
    StatementsFail = TRUE
    Clients = {c1, c2}
    Users = {"admin", "bob"}
    Admin = "admin"
    Staff = {"bob"}
    Apps = {"dir", "app"}
    DirApp = "dir"
    Rights = {"W"}
    Write = "W"
    Groups = {"g"}
    Indexes = {0, 1}
    FirstTries = 3
    TriesSettings = {2, 3}
    MaxLogins = 2
    MaxCalls = 2
INVARIANTS SuperUserRemains AttemptsBounded RightsAreOfTheLiving PagesAgree
