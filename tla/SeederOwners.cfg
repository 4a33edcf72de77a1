\* The transactions run, for the claim that users with an enterprise are skipped.
CONSTANTS
    Handlers = {t1, t2}
    NoHandler = NoHandler
    Inputs <- MCInputs
    MaxInt4 = 1
    Members = {m1, m2}
    Admins = {a1}
    text = text
    Conns = {t1, t2}
    PublicIDs = {p1}
    Nil = Nil
    PublicIDAttempts = 2
    MaxEvents = 4
    Emails = {e1, e2}
    Profiles = {c1}
    Sessions = {s1, s2}
    MaxHashes = 3
    Procs = {t1, t2}
    SeedEmails = {a, b}
    AdminEmail = b
    MaxRuns = 2
    MaxOwned = 2
SPECIFICATION PartsSpec
PROPERTY OwnersAreSkipped
CHECK_DEADLOCK FALSE
