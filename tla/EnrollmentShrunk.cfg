\* The catalog is created without a limit or with two slots, and may then be edited to one.
CONSTANTS
    Users = {u1, u2}
    Catalogs = {c1}
    EnrollmentIDs = {e1, e2}
    Txns = {t1, t2}
    Nil = Nil
    NewSlots = {2}
    EditSlots = {1}
    TrainingStatuses = {"ongoing"}
    RequestedStatuses = {"accepted"}
    PublicIDAttempts = 2
SPECIFICATION Spec
INVARIANT AcceptedWithinSlots
CHECK_DEADLOCK FALSE
