\* Capacity is never edited; administrators ask for any status.
CONSTANTS
    Users = {u1, u2}
    Catalogs = {c1}
    EnrollmentIDs = {e1, e2}
    Txns = {t1, t2}
    Nil = Nil
    NewSlots = {1}
    EditSlots = {}
    TrainingStatuses = {"ongoing"}
    RequestedStatuses = {"pending", "accepted", "rejected", "cancelled"}
    PublicIDAttempts = 2
SPECIFICATION Spec
INVARIANT ActiveWithinSlots
CHECK_DEADLOCK FALSE
