SPECIFICATION NetSpec
CHECK_DEADLOCK FALSE
CONSTANTS
    Parts = {"sockets", "tls", "transfers", "chain", "database"}
    Kinds = {"tcp", "tls", "unix", "udp"}
    MaxFds = 2
    Resolved <- MCResolved
    Timeouts = {0, 1}
    DefaultTimeout = 5
    MaxOps = 3
    CallsFail = {"socket", "fcntl", "options", "bind", "listen", "select"}
    CloserRuns = TRUE
    Sessions = {s1, s2}
    Handles = {h1, h2}
    NoHandle = NoHandle
    MaxTries = 1
    Settings <- MCSettings
    Base = 3
    Width = 2
    Chunk = 2
    Block = 2
    Jobs <- MCJobs
    Layers = 3
    Capacity = 1
    ToSend <- MCToSend
    ToGet <- MCToGet
    RemoteWaits = FALSE
    SecureLayers = {{}, {2}}
    Drivers = {"mariadb", "pgsql", "sqlite3"}
    Names <- MCNames
    Blank = " "
    Mark = "?"
    MaxTokens = 1
    MaxRows = 1
    DbThreads = {t1, t2}
    NoDbThread = NoDbThread
    LockTimed = TRUE
    MaxReconnectionAttempts = 2
    MaxLosses = 2
INVARIANTS ConnectedAsTold NoKeysOfTheDead ReadAsWritten EverythingArrives ConnectorOutlivesQueries ReportedIsDone
PROPERTIES  ChainEnds ConnectorDestroyed
