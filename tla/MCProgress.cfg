\* Three connections of a server; two of a tunnel, closed twice; three rows read in pages of one
\* or two; one account, two of its requests at a time.
CONSTANTS
    Conns = {c1, c2, c3}
    Clients = {d1, d2}
    Closers = {k1, k2}
    MaxID = 3
    RawLimits = {0, 1, 3}
    DefaultLimit = 2
    PublicDefault = 1
    MaxLimit = 2
    PublicIDs = {p1}
    Emails = {e1, e2}
    Profiles = {f1}
    Sessions = {s1}
    Nil = Nil
    PublicIDAttempts = 2
    MaxHashes = 2
SPECIFICATION PartsSpec
INVARIANTS
    GracefulLosesNothing
    NothingLeaks
    ScanIsComplete
PROPERTIES
    SignalEnds
    CloseHalts
    HangUpEnds
    InOrder
    RequestsFinish
CHECK_DEADLOCK FALSE
