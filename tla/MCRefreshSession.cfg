\* Two connections, one user, three tokens: a login and two rotations, or two logins.
CONSTANTS
    Users = {u1}
    Tokens = {k1, k2, k3}
    Conns = {t1, t2}
    Nil = Nil
    GraceWindow = 1
    RefreshTTL = 2
    MaxTime = 2
SYMMETRY Symmetry
SPECIFICATION Spec
INVARIANTS
    TypeOK
    OneLivePerFamily
    GraceLeadsOn
    IInv
PROPERTIES
    RevocationIsFinal
    ImplementsFamily
CHECK_DEADLOCK FALSE
