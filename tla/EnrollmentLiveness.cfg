\* Fair connections; one member, two public ids, so that a draw may collide.
CONSTANTS
    Users = {u1}
    Catalogs = {c1}
    EnrollmentIDs = {e1, e2}
    Txns = {t1, t2}
    Nil = Nil
    NewSlots = {1}
    EditSlots = {}
    TrainingStatuses = {"ongoing"}
    RequestedStatuses = {"accepted", "rejected"}
    PublicIDAttempts = 2
SPECIFICATION FairSpec
PROPERTY RequestsFinish
CHECK_DEADLOCK FALSE
