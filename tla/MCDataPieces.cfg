SPECIFICATION Spec
CHECK_DEADLOCK FALSE
CONSTANTS
    Fold <- MCFold
    Nul = "nul"
    MaxChunkSize = 100
    MaxChunks = 100
    Bytes = {"a", "A"}
    MaxText = 5
    MaxSteps = 3
    MaxSizes = {3, 100}
    FileLimits = {0, 2}
    SetChunkSize = 2
    SetMaxChunks = 3
    MaxTTL = 100
    MaxFieldSize = 5
    LineFeed = "LF"
    CarriageReturn = "CR"
    Equal = "="
    Ampersand = "&"
    Percent = "%"
    Plus = "+"
    Space = " "
    Plain <- MCPlain
    Hex <- MCHex
    Digits <- MCDigits
    Refuse <- MCRefuse
    Boundary <- MCBoundary
    Dash = "-"
    Colon = ":"
    Semicolon = ";"
    Quote = "quote"
    Blanks = {" ", "CR", "LF"}
    SevenBit = {"a", "A", "b", "f", "n", "x", ";"}
    HeaderTerms <- MCTerms
    MaxTrash = 4
    MaxOptionSize = 20
    MaxOptions = 2
    MaxSubOptions = 2
    MaxSubOptionSize = 6
    MaxContentSize = 4
    MaxParts = 2
    HexDigits <- MCHexDigits
    MaxChunkLine = 4
    MaxLaterChunkLine = 6
    Unlimited = 1000
    SecurityMaxPostDataSize = 6
    SecurityMaxHttpChunkSize = 5
    Jobs <- MCJobs
    MaxFragments = 4
    Never = 1000000
    ZoneOffset = 2
    Escapes <- MCEscapes
    Number <- MCNumber
    MimeTypes <- MCMimeTypes
    MaxPostData = 7
    JsonObjects = {"good", "wrong", "other", "{}"}
    MaxIncludes = 5
    Now = 100
    Asked <- MCAsked
    Sites <- MCSites
    Drivers = {"mariadb", "pgsql", "sqlite3"}
    Names <- MCNames
    Blank = " "
    Mark = "?"
    MaxTokens = 3
    MaxRows = 2
    Handlers = {h1}
    Indexes = {0, 1}
    Attribs = {"a"}
    Table <- MCTable
    AttribIndexes <- MCAttribIndexes
    RequireAll = TRUE
    Required = {0, 1}
    ValidTime <- MCValidTime
    Expiring = {0}
    MaxTime = 2
    Configs = {a, b, s}
    Short = {s}
    NoConfig = NoConfig
    OneLine = {a, s}
    Calls = {m1}
    MaxBoots = 2
    MaxChanges = 1
    ApiKeys = {k1, k2, empty}
    EmptyKey = empty
    MaxConnections = 3
    Parts = {"parsers"}
INVARIANT BoundariesComeInPieces
