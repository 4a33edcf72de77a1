\* One client submits a rotated token again.
CONSTANTS
    Users = {u1}
    Tokens = {k1, k2, k3}
    Conns = {t1}
    Nil = Nil
    GraceWindow = 1
    RefreshTTL = 2
    MaxTime = 2
SPECIFICATION Spec
INVARIANT GraceAnswerExpiry
CHECK_DEADLOCK FALSE
