\* Two connections, two members, three public ids, one catalog of one or two seats.
CONSTANTS
    Users = {u1, u2}
    Catalogs = {c1}
    EnrollmentIDs = {e1, e2, e3}
    Txns = {t1, t2}
    Nil = Nil
    NewSlots = {1}
    EditSlots = {1, 2}
    TrainingStatuses = {"ongoing", "completed"}
    RequestedStatuses = {"pending", "accepted", "rejected", "cancelled"}
    PublicIDAttempts = 2
SYMMETRY Symmetry
SPECIFICATION Spec
INVARIANTS
    TypeOK
    RegisteredCountExact
    IndexIsBackstop
    OneLivePerMember
    IInv
PROPERTIES
    EnrollNeverOversells
    AcceptNeverOversells
    CancelledIsFinal
    ImplementsLedger
CHECK_DEADLOCK FALSE
