\* One accepted enrollment, cancelled and updated at the same time.
CONSTANTS
    Users = {u1}
    Catalogs = {c1}
    EnrollmentIDs = {e1}
    Txns = {t1, t2}
    Nil = Nil
    NewSlots = {1}
    EditSlots = {}
    TrainingStatuses = {"ongoing"}
    RequestedStatuses = {"accepted", "rejected"}
    PublicIDAttempts = 2
SPECIFICATION Spec
INVARIANT NoDeadlock
CHECK_DEADLOCK FALSE
