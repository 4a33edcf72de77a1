\* An administrator and a member with two requests at once; two addresses, an interval of a
\* second and a half, seconds of two ticks; uploads of up to five blocks, of which three are kept.
CONSTANTS
    Users = {u1, u2}
    Admins = {u1}
    Requests = {r1, r2}
    Calls <- MCCalls
    Keys = {k1, k2}
    Routes = {"login", "other"}
    Limits <- MCLimits
    Interval = 3
    TicksPerSecond = 2
    MaxTracked = 1
    MaxNow = 5
    Names = {k1, k2}
    Lengths = {0, 1, 3, 5}
    MaxSize = 3
    Nil = Nil
SPECIFICATION PartsSpec
SYMMETRY MCSymmetry
INVARIANTS
    AdmittedForCause
    RefusedForCause
    AtMostTwice
    AnsweredIsWhole
    FailureLeavesNothing
PROPERTY RefusedAtLimit
CHECK_DEADLOCK FALSE
