\* An account operation and a rotation in flight.
CONSTANTS
    Users = {u1}
    Tokens = {k1, k2, k3}
    Conns = {t1, t2}
    Nil = Nil
    GraceWindow = 1
    RefreshTTL = 2
    MaxTime = 2
SPECIFICATION Spec
PROPERTY AccountChangeRevokes
CHECK_DEADLOCK FALSE
