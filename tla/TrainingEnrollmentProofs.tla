----------------------- MODULE TrainingEnrollmentProofs -----------------------
(***************************************************************************)
(* Proofs that TrainingEnrollment keeps its invariants for every number of *)
(* connections, members, catalogs and enrollments.                         *)
(***************************************************************************)
EXTENDS TrainingEnrollmentInvariant, FiniteSetTheorems, TLAPS

(***************************************************************************)
(* The row updates keep the type of a row; no row is Nil.                  *)
(***************************************************************************)
LEMMA CatalogRowUpdates ==
    ASSUME NEW row \in CatalogRow, NEW r \in Request
    PROVE  /\ Incremented(row) \in CatalogRow
           /\ Decremented(row) \in CatalogRow
           /\ Merged(row, r) \in CatalogRow
           /\ row # Nil
<1>1. Incremented(row) \in CatalogRow /\ Decremented(row) \in CatalogRow
  BY DEF Incremented, Decremented, CatalogRow
<1>2. Merged(row, r) \in CatalogRow
  <2> DEFINE slots == IF r.max_slots = Nil THEN row.max_slots ELSE r.max_slots
             status == IF r.training_status = Nil
                       THEN row.training_status ELSE r.training_status
  <2>1. slots \in Slots \cup {Nil} /\ status \in TrainingStatuses
    BY DEF CatalogRow, Request, Slots
  <2>2. Merged(row, r) = [row EXCEPT !.max_slots = slots, !.training_status = status]
    BY DEF Merged
  <2> HIDE DEF slots, status
  <2>3. QED
    BY <2>1, <2>2 DEF CatalogRow
<1>3. QED
  BY <1>1, <1>2, NilIsNoRow

LEMMA EnrollmentRowUpdates ==
    ASSUME NEW row \in EnrollmentRow, NEW s \in EnrollmentStatuses
    PROVE  /\ WithStatus(row, s) \in EnrollmentRow
           /\ Cancelled(row) \in EnrollmentRow
           /\ row # Nil
BY NilIsNoRow DEF WithStatus, Cancelled, EnrollmentRow, EnrollmentStatuses

LEMMA NewEnrollmentRow ==
    ASSUME NEW u \in Users, NEW c \in Catalogs
    PROVE  [user |-> u, catalog |-> c, status |-> "pending", deleted |-> FALSE]
               \in EnrollmentRow
BY DEF EnrollmentRow, EnrollmentStatuses

(***************************************************************************)
(* A transaction's claims survive every step that changes no committed     *)
(* row, nothing of the transaction's own, and takes no lock from it.       *)
(***************************************************************************)
LEMMA StatementFrame ==
    ASSUME NEW t \in Txns, StatementInv(t), UNCHANGED rows,
           pc'[t] = pc[t], req'[t] = req[t], write'[t] = write[t],
           \A c \in Catalogs : catalogLock[c] = t => catalogLock'[c] = t,
           \A e \in EnrollmentIDs : enrollmentLock[e] = t => enrollmentLock'[e] = t
    PROVE  StatementInv(t)'
<1>1. /\ KnownCatalog(t) <=> KnownCatalog(t)'
      /\ KnownEnrollment(t) <=> KnownEnrollment(t)'
      /\ HoldsCatalog(t) => HoldsCatalog(t)'
      /\ HoldsEnrollment(t) => HoldsEnrollment(t)'
  BY DEF KnownCatalog, KnownEnrollment, HoldsCatalog, HoldsEnrollment, rows
<1>2. \A u, c : LiveEnrollments(u, c)' = LiveEnrollments(u, c)
  BY DEF LiveEnrollments, IsLive, rows
<1>3. \A c : ActiveEnrollments(c)' = ActiveEnrollments(c)
  BY DEF ActiveEnrollments, IsLive, rows
<1>4. NoDuplicate(t)' <=> NoDuplicate(t)
  BY <1>2 DEF NoDuplicate
<1>5. SeatFree(t)' <=> SeatFree(t)
  BY <1>3 DEF SeatFree, rows
<1>6. Enrolling(t) => Enrolling(t)'
  BY <1>1 DEF Enrolling, VisibleCatalog, IsOpenForEnrollment, rows
<1>7. LockingCatalog(t) => LockingCatalog(t)'
  BY <1>1 DEF LockingCatalog
<1>8. LockingEnrollment(t) => LockingEnrollment(t)'
  BY <1>1 DEF LockingEnrollment
<1>9. Cancelling(t) => Cancelling(t)'
  BY <1>1 DEF Cancelling, Cancelled, IsLive, rows
<1>10. CommitsEnroll(t) => CommitsEnroll(t)'
  BY <1>4, <1>5, <1>6 DEF CommitsEnroll, Enrolling, rows
<1>11. CommitsStatus(t) => CommitsStatus(t)'
  BY <1>1 DEF CommitsStatus, IsLive, rows, Accepting, HasFreeSeat, CatalogForStatus,
              WithStatus, Releasing, Incremented, Decremented
<1>12. CommitsCancel(t) => CommitsCancel(t)'
  BY <1>1, <1>9 DEF CommitsCancel, Decremented, rows
<1>13. CommitsEdit(t) => CommitsEdit(t)'
  BY <1>1 DEF CommitsEdit, VisibleCatalog, Merged, rows
<1>14. QED
  BY <1>4, <1>5, <1>6, <1>7, <1>8, <1>9, <1>10, <1>11, <1>12, <1>13 DEF StatementInv, rows

(***************************************************************************)
(* They survive as well a step on the catalogs that leaves the row of a    *)
(* catalog the transaction holds, and drops no catalog it knows.           *)
(***************************************************************************)
LEMMA CatalogFrame ==
    ASSUME NEW t \in Txns, StatementInv(t), UNCHANGED <<enrollment, locks, pc, req, write>>,
           KnownCatalog(t) => KnownCatalog(t)',
           HoldsCatalog(t) => catalog'[req[t].catalog] = catalog[req[t].catalog]
    PROVE  StatementInv(t)'
<1>1. /\ KnownEnrollment(t) <=> KnownEnrollment(t)'
      /\ HoldsCatalog(t) => HoldsCatalog(t)'
      /\ HoldsEnrollment(t) => HoldsEnrollment(t)'
  BY DEF KnownEnrollment, HoldsCatalog, HoldsEnrollment, locks
<1>2. \A u, c : LiveEnrollments(u, c)' = LiveEnrollments(u, c)
  BY DEF LiveEnrollments, IsLive
<1>3. \A c : ActiveEnrollments(c)' = ActiveEnrollments(c)
  BY DEF ActiveEnrollments, IsLive
<1>4. NoDuplicate(t)' <=> NoDuplicate(t)
  BY <1>2 DEF NoDuplicate
<1>5. HoldsCatalog(t) => (SeatFree(t)' <=> SeatFree(t))
  BY <1>3 DEF SeatFree
<1>6. Enrolling(t) => Enrolling(t)' /\ HoldsCatalog(t)
  BY <1>1 DEF Enrolling, VisibleCatalog, IsOpenForEnrollment
<1>7. LockingCatalog(t) => LockingCatalog(t)'
  BY <1>1 DEF LockingCatalog
<1>8. LockingEnrollment(t) => LockingEnrollment(t)'
  BY <1>1 DEF LockingEnrollment
<1>9. Cancelling(t) => Cancelling(t)'
  BY <1>1 DEF Cancelling, Cancelled, IsLive
<1>10. CommitsEnroll(t) => CommitsEnroll(t)'
  BY <1>4, <1>5, <1>6 DEF CommitsEnroll, locks
<1>11. CommitsStatus(t) => CommitsStatus(t)'
  BY <1>1 DEF CommitsStatus, IsLive, Accepting, HasFreeSeat, CatalogForStatus,
              WithStatus, Releasing, Incremented, Decremented
<1>12. CommitsCancel(t) => CommitsCancel(t)'
  BY <1>1, <1>9 DEF CommitsCancel, Decremented
<1>13. CommitsEdit(t) => CommitsEdit(t)'
  BY <1>1 DEF CommitsEdit, VisibleCatalog, Merged
<1>14. /\ pc[t] = "countActive" => catalog'[req[t].catalog].max_slots # Nil
       /\ pc[t] = "insert" => SeatFree(t)'
  BY <1>5, <1>6 DEF StatementInv
<1>15. QED
  BY <1>4, <1>6, <1>7, <1>8, <1>9, <1>10, <1>11, <1>12, <1>13, <1>14 DEF StatementInv

(***************************************************************************)
(* Steps inside a transaction: committed rows stay, and the other          *)
(* transactions keep their statement, their writes and their locks.        *)
(***************************************************************************)
Quiet(t) ==
    /\ UNCHANGED rows
    /\ \A other \in Txns \ {t} :
          /\ pc'[other] = pc[other]
          /\ req'[other] = req[other]
          /\ write'[other] = write[other]
          /\ \A c \in Catalogs : catalogLock[c] = other => catalogLock'[c] = other
          /\ \A e \in EnrollmentIDs :
                enrollmentLock[e] = other => enrollmentLock'[e] = other

LEMMA QuietStep ==
    ASSUME IInv, NEW t \in Txns, Quiet(t), TypeOK', StatementInv(t)'
    PROVE  IInv'
<1>1. ASSUME NEW other \in Txns
      PROVE  StatementInv(other)'
  <2>1. CASE other = t
    BY <2>1
  <2>2. CASE other # t
    BY <2>2, StatementFrame DEF IInv, Quiet
  <2>3. QED
    BY <2>1, <2>2
<1>2. RowsKnown' /\ OneLivePerMember'
  BY DEF IInv, Quiet, rows, RowsKnown, OneLivePerMember, IsLive
<1>3. RegisteredCountExact'
  <2>1. \A c : AcceptedEnrollments(c)' = AcceptedEnrollments(c)
    BY DEF AcceptedEnrollments, IsLive, Quiet, rows
  <2>2. QED
    BY <2>1 DEF IInv, RegisteredCountExact, Quiet, rows
<1>4. QED
  BY <1>1, <1>2, <1>3 DEF IInv

LEMMA NothingPending ==
    /\ NoRequest \in Request
    /\ NoWrite \in Write
BY ConstantsAssumption DEF NoRequest, NoWrite, Request, Write

LEMMA ReleaseLocksFrame ==
    ASSUME TypeOK, NEW t \in Txns, ReleaseLocks(t)
    PROVE  /\ catalogLock' \in [Catalogs -> Txns \cup {Nil}]
           /\ enrollmentLock' \in [EnrollmentIDs -> Txns \cup {Nil}]
           /\ \A other \in Txns \ {t} :
                 /\ \A c \in Catalogs :
                       catalogLock[c] = other => catalogLock'[c] = other
                 /\ \A e \in EnrollmentIDs :
                       enrollmentLock[e] = other => enrollmentLock'[e] = other
BY DEF TypeOK, ReleaseLocks

LEMMA RollbackStep ==
    ASSUME IInv, NEW t \in Txns, Rollback(t)
    PROVE  IInv'
<1>1. Quiet(t)
  BY ReleaseLocksFrame DEF IInv, TypeOK, Rollback, Quiet
<1>2. TypeOK'
  BY ReleaseLocksFrame, NothingPending DEF IInv, TypeOK, Rollback, rows, Statements
<1>3. pc'[t] = "idle" /\ req'[t] = NoRequest /\ write'[t] = NoWrite
  BY DEF IInv, TypeOK, Rollback
<1>4. StatementInv(t)'
  BY <1>3 DEF StatementInv
<1>5. QED
  BY <1>1, <1>2, <1>4, QuietStep

(***************************************************************************)
(* Requests: each begins in a state its first statement has observed.      *)
(***************************************************************************)
LEMMA BeginStep ==
    ASSUME IInv, NEW t \in Txns, NEW r \in Request, NEW s \in Statements, Begin(t, r, s),
           StatementInv(t)'
    PROVE  IInv'
<1>1. Quiet(t)
  BY DEF IInv, TypeOK, Begin, Quiet, locks
<1>2. TypeOK'
  BY DEF IInv, TypeOK, Begin, locks, rows
<1>3. QED
  BY <1>1, <1>2, QuietStep

LEMMA EnrollStep ==
    ASSUME IInv, NEW t \in Txns, NEW u \in Users, NEW c \in Catalogs, NEW e \in EnrollmentIDs,
           Enroll(t, u, c, e)
    PROVE  IInv'
<1> DEFINE r == [NoRequest EXCEPT !.op = "enroll", !.user = u, !.catalog = c,
                                  !.enrollment = e, !.attempt = 1]
<1>1. /\ r \in Request
      /\ r.op = "enroll" /\ r.user = u /\ r.catalog = c /\ r.enrollment = e
  <2>1. 1 \in 0..PublicIDAttempts
    BY ConstantsAssumption
  <2>2. QED
    BY <2>1, NothingPending DEF Request
<1>2. /\ pc[t] = "idle" /\ pc'[t] = "lockCatalog" /\ req'[t] = r
      /\ UNCHANGED <<rows, locks, write>>
      /\ catalog[c] # Nil
  BY DEF Enroll, Begin, IInv, TypeOK, VisibleCatalog
<1> HIDE DEF r
<1>3. StatementInv(t)'
  <2>1. LockingCatalog(t)'
    BY <1>1, <1>2 DEF LockingCatalog, KnownCatalog, rows
  <2>2. write'[t] = NoWrite
    BY <1>2 DEF IInv, StatementInv
  <2>3. QED
    BY <1>2, <2>1, <2>2 DEF StatementInv
<1>4. Begin(t, r, "lockCatalog")
  BY DEF Enroll, r
<1>5. QED
  BY <1>1, <1>3, <1>4, BeginStep DEF Statements

LEMMA SetStatusStep ==
    ASSUME IInv, NEW t \in Txns, NEW e \in EnrollmentIDs, NEW s \in RequestedStatuses,
           SetStatus(t, e, s)
    PROVE  IInv'
<1> DEFINE r == [NoRequest EXCEPT !.op = "setStatus", !.enrollment = e, !.status = s,
                                  !.catalog = enrollment[e].catalog]
<1>1. enrollment[e] # Nil /\ enrollment[e] \in EnrollmentRow
  BY DEF SetStatus, IsLive, IInv, TypeOK
<1>2. enrollment[e].catalog \in Catalogs /\ catalog[enrollment[e].catalog] # Nil
  BY <1>1 DEF IInv, RowsKnown, EnrollmentRow
<1>3. /\ r \in Request
      /\ r.op = "setStatus" /\ r.status = s /\ r.catalog = enrollment[e].catalog
      /\ r.enrollment = e
  <2>1. s \in EnrollmentStatuses
    BY ConstantsAssumption
  <2>2. QED
    BY <1>2, <2>1, NothingPending DEF Request
<1>4. /\ pc[t] = "idle" /\ pc'[t] = "lockCatalog" /\ req'[t] = r
      /\ UNCHANGED <<rows, locks, write>>
  BY DEF SetStatus, Begin, IInv, TypeOK
<1>5. Begin(t, r, "lockCatalog")
  BY DEF SetStatus
<1> HIDE DEF r
<1>6. StatementInv(t)'
  <2>1. LockingCatalog(t)'
    BY <1>1, <1>2, <1>3, <1>4 DEF LockingCatalog, KnownCatalog, KnownEnrollment, rows
  <2>2. write'[t] = NoWrite
    BY <1>4 DEF IInv, StatementInv
  <2>3. QED
    BY <1>4, <2>1, <2>2 DEF StatementInv
<1>7. QED
  BY <1>3, <1>5, <1>6, BeginStep DEF Statements

LEMMA CancelBeginStep ==
    ASSUME IInv, NEW t \in Txns, NEW e \in EnrollmentIDs, NEW scope \in Users \cup {Nil},
           Cancel(t, e, scope)
    PROVE  IInv'
<1> DEFINE r == [NoRequest EXCEPT !.op = "cancel", !.enrollment = e, !.user = scope,
                                  !.catalog = enrollment[e].catalog]
<1>1. enrollment[e] # Nil /\ enrollment[e] \in EnrollmentRow
  BY DEF Cancel, IsLive, IInv, TypeOK
<1>2. enrollment[e].catalog \in Catalogs /\ catalog[enrollment[e].catalog] # Nil
  BY <1>1 DEF IInv, RowsKnown, EnrollmentRow
<1>3. /\ r \in Request
      /\ r.op = "cancel" /\ r.catalog = enrollment[e].catalog /\ r.enrollment = e
  BY <1>2, NothingPending DEF Request
<1>4. /\ pc[t] = "idle" /\ pc'[t] = "lockEnrollment" /\ req'[t] = r
      /\ UNCHANGED <<rows, locks, write>>
  BY DEF Cancel, Begin, IInv, TypeOK
<1>5. Begin(t, r, "lockEnrollment")
  BY DEF Cancel
<1> HIDE DEF r
<1>6. StatementInv(t)'
  <2>1. LockingEnrollment(t)'
    BY <1>1, <1>2, <1>3, <1>4 DEF LockingEnrollment, KnownCatalog, KnownEnrollment, rows
  <2>2. write'[t] = NoWrite
    BY <1>4 DEF IInv, StatementInv
  <2>3. QED
    BY <1>4, <2>1, <2>2 DEF StatementInv
<1>7. QED
  BY <1>3, <1>5, <1>6, BeginStep DEF Statements

LEMMA EditBeginStep ==
    ASSUME IInv, NEW t \in Txns, NEW c \in Catalogs, NEW slots \in EditSlots \cup {Nil},
           NEW status \in TrainingStatuses \cup {Nil}, EditCatalog(t, c, slots, status)
    PROVE  IInv'
<1> DEFINE r == [NoRequest EXCEPT !.op = "edit", !.catalog = c, !.max_slots = slots,
                                  !.training_status = status]
<1>1. r \in Request /\ r.op = "edit" /\ r.catalog = c
  BY NothingPending DEF Request, Slots
<1>2. /\ pc[t] = "idle" /\ pc'[t] = "lockCatalog" /\ req'[t] = r
      /\ UNCHANGED <<rows, locks, write>>
      /\ catalog[c] # Nil
  BY DEF EditCatalog, Begin, IInv, TypeOK, VisibleCatalog
<1>3. Begin(t, r, "lockCatalog")
  BY DEF EditCatalog
<1> HIDE DEF r
<1>4. StatementInv(t)'
  <2>1. LockingCatalog(t)'
    BY <1>1, <1>2 DEF LockingCatalog, KnownCatalog, rows
  <2>2. write'[t] = NoWrite
    BY <1>2 DEF IInv, StatementInv
  <2>3. QED
    BY <1>2, <2>1, <2>2 DEF StatementInv
<1>5. QED
  BY <1>1, <1>3, <1>4, BeginStep DEF Statements

(***************************************************************************)
(* The statements of an enrollment.                                        *)
(***************************************************************************)
LEMMA LockCatalogForEnrollStep ==
    ASSUME IInv, NEW t \in Txns, LockCatalogForEnroll(t)
    PROVE  IInv'
<1> DEFINE c == req[t].catalog
<1>1. LockingCatalog(t) /\ req[t].op = "enroll" /\ catalogLock[c] = Nil
  BY DEF LockCatalogForEnroll, IInv, StatementInv
<1>2. CASE Rollback(t)
  BY <1>2, RollbackStep
<1>3. CASE /\ VisibleCatalog(c) /\ IsOpenForEnrollment(catalog[c])
           /\ TakeCatalogLock(t)
           /\ Goto(t, "checkDuplicate")
           /\ UNCHANGED <<rows, enrollmentLock, req, write>>
  <2>1. c \in Catalogs
    BY <1>1 DEF LockingCatalog, KnownCatalog
  <2>2. TypeOK'
    BY <1>3, <2>1 DEF IInv, TypeOK, TakeCatalogLock, Goto, Statements, rows
  <2>3. Quiet(t)
    BY <1>1, <1>3, <2>1, ConstantsAssumption DEF IInv, TypeOK, TakeCatalogLock, Goto, Quiet
  <2>4. pc'[t] = "checkDuplicate" /\ catalogLock'[c] = t
    BY <1>3, <2>1 DEF IInv, TypeOK, TakeCatalogLock, Goto
  <2>5. Enrolling(t)'
    BY <1>1, <1>3, <2>1, <2>4
    DEF Enrolling, LockingCatalog, HoldsCatalog, KnownCatalog, VisibleCatalog,
        IsOpenForEnrollment, rows
  <2>6. write'[t] = NoWrite
    BY <1>3 DEF IInv, StatementInv, LockCatalogForEnroll
  <2>7. StatementInv(t)'
    BY <2>4, <2>5, <2>6 DEF StatementInv
  <2>8. QED
    BY <2>2, <2>3, <2>7, QuietStep
<1>4. QED
  BY <1>2, <1>3 DEF LockCatalogForEnroll

(* A statement that only moves the transaction on.                         *)
LEMMA GotoStep ==
    ASSUME IInv, NEW t \in Txns, NEW s \in Statements, Goto(t, s),
           UNCHANGED <<rows, locks, req, write>>, StatementInv(t)'
    PROVE  IInv'
<1>1. TypeOK'
  BY DEF IInv, TypeOK, Goto, rows, locks
<1>2. Quiet(t)
  BY DEF IInv, TypeOK, Goto, Quiet, locks
<1>3. QED
  BY <1>1, <1>2, QuietStep

LEMMA CheckDuplicateStep ==
    ASSUME IInv, NEW t \in Txns, CheckDuplicate(t)
    PROVE  IInv'
<1> DEFINE c == req[t].catalog
           s == IF catalog[c].max_slots = Nil THEN "insert" ELSE "countActive"
<1>1. CASE Rollback(t)
  BY <1>1, RollbackStep
<1>2. CASE /\ NoDuplicate(t)
           /\ Goto(t, s)
           /\ UNCHANGED <<rows, locks, req, write>>
  <2>1. pc'[t] = s /\ s \in {"insert", "countActive"}
    BY <1>2 DEF IInv, TypeOK, Goto
  <2>2. Enrolling(t) /\ write'[t] = NoWrite
    BY <1>2 DEF CheckDuplicate, IInv, StatementInv
  <2>3. Enrolling(t)'
    BY <1>2, <2>2 DEF Enrolling, HoldsCatalog, KnownCatalog, VisibleCatalog,
                      IsOpenForEnrollment, rows, locks
  <2>4. NoDuplicate(t)'
    BY <1>2 DEF NoDuplicate, LiveEnrollments, IsLive, rows
  <2>5. /\ s = "insert" => SeatFree(t)'
        /\ s = "countActive" => catalog'[req'[t].catalog].max_slots # Nil
    BY <1>2 DEF SeatFree, rows
  <2>6. StatementInv(t)'
    BY <2>1, <2>2, <2>3, <2>4, <2>5 DEF StatementInv
  <2>7. s \in Statements
    BY DEF Statements
  <2>8. QED
    BY <1>2, <2>6, <2>7, GotoStep
<1>3. QED
  BY <1>1, <1>2 DEF CheckDuplicate, NoDuplicate

LEMMA CountActiveStep ==
    ASSUME IInv, NEW t \in Txns, CountActive(t)
    PROVE  IInv'
<1> DEFINE c == req[t].catalog
<1>1. CASE Rollback(t)
  BY <1>1, RollbackStep
<1>2. CASE /\ HasUntakenSlot(c)
           /\ Goto(t, "insert")
           /\ UNCHANGED <<rows, locks, req, write>>
  <2>1. pc'[t] = "insert"
    BY <1>2 DEF IInv, TypeOK, Goto
  <2>2. /\ Enrolling(t) /\ NoDuplicate(t) /\ write'[t] = NoWrite
        /\ catalog[c].max_slots # Nil
    BY <1>2 DEF CountActive, IInv, StatementInv
  <2>3. Enrolling(t)'
    BY <1>2, <2>2 DEF Enrolling, HoldsCatalog, KnownCatalog, VisibleCatalog,
                      IsOpenForEnrollment, rows, locks
  <2>4. NoDuplicate(t)'
    BY <1>2, <2>2 DEF NoDuplicate, LiveEnrollments, IsLive, rows
  <2>5. SeatFree(t)'
    <3>1. catalog[c].max_slots \in Nat
      BY <2>2, ConstantsAssumption
      DEF Enrolling, HoldsCatalog, KnownCatalog, IInv, TypeOK, CatalogRow, Slots
    <3>2. Cardinality(ActiveEnrollments(c)) \in Nat
      BY ConstantsAssumption, FS_Subset, FS_CardinalityType DEF ActiveEnrollments
    <3>3. ActiveEnrollments(c)' = ActiveEnrollments(c)
      BY <1>2 DEF ActiveEnrollments, IsLive, rows
    <3>4. QED
      BY <1>2, <3>1, <3>2, <3>3 DEF SeatFree, HasUntakenSlot, rows
  <2>6. StatementInv(t)'
    BY <2>1, <2>2, <2>3, <2>4, <2>5 DEF StatementInv
  <2>7. QED
    BY <1>2, <2>6, GotoStep DEF Statements
<1>3. QED
  BY <1>1, <1>2 DEF CountActive

LEMMA InsertStep ==
    ASSUME IInv, NEW t \in Txns, Insert(t)
    PROVE  IInv'
<1> DEFINE e == req[t].enrollment
           row == [user |-> req[t].user, catalog |-> req[t].catalog,
                   status |-> "pending", deleted |-> FALSE]
<1>1. CASE Rollback(t)
  BY <1>1, RollbackStep
<1>2. CASE /\ TakeEnrollmentLock(t)
           /\ write' = [write EXCEPT ![t].enrollment = row]
           /\ Goto(t, "commit")
           /\ UNCHANGED <<rows, catalogLock, req>>
  <2>1. /\ Enrolling(t) /\ NoDuplicate(t) /\ SeatFree(t) /\ write[t] = NoWrite
        /\ enrollmentLock[e] = Nil /\ enrollment[e] = Nil
    BY DEF Insert, IInv, StatementInv
  <2>2. e \in EnrollmentIDs /\ req[t].user \in Users /\ req[t].catalog \in Catalogs
    BY <2>1 DEF Enrolling, HoldsCatalog, KnownCatalog
  <2>3. row \in EnrollmentRow
    BY <2>2, NewEnrollmentRow
  <2>4. /\ pc'[t] = "commit" /\ write'[t] = [write[t] EXCEPT !.enrollment = row]
        /\ enrollmentLock'[e] = t
    BY <1>2, <2>2 DEF IInv, TypeOK, Goto, TakeEnrollmentLock
  <2>5. TypeOK'
    <3>1. [write[t] EXCEPT !.enrollment = row] \in Write
      BY <2>3 DEF IInv, TypeOK, Write
    <3>2. QED
      BY <1>2, <2>2, <3>1 DEF IInv, TypeOK, TakeEnrollmentLock, Goto, Statements, rows
  <2>6. Quiet(t)
    BY <1>2, <2>1, <2>2, ConstantsAssumption DEF IInv, TypeOK, TakeEnrollmentLock, Goto, Quiet
  <2>7. write'[t].catalog = Nil /\ write'[t].enrollment = row
    BY <2>1, <2>4 DEF NoWrite
  <2>8. Enrolling(t)'
    BY <1>2, <2>1 DEF Enrolling, HoldsCatalog, KnownCatalog, VisibleCatalog,
                      IsOpenForEnrollment, rows
  <2>9. NoDuplicate(t)'
    BY <1>2, <2>1 DEF NoDuplicate, LiveEnrollments, IsLive, rows
  <2>10. SeatFree(t)'
    <3>1. ActiveEnrollments(req[t].catalog)' = ActiveEnrollments(req[t].catalog)
      BY <1>2 DEF ActiveEnrollments, IsLive, rows
    <3>2. QED
      BY <1>2, <2>1, <3>1 DEF SeatFree, rows
  <2>11. CommitsEnroll(t)'
    BY <1>2, <2>1, <2>4, <2>7, <2>8, <2>9, <2>10 DEF CommitsEnroll, rows
  <2>12. StatementInv(t)'
    BY <2>4, <2>11 DEF StatementInv
  <2>13. QED
    BY <2>5, <2>6, <2>12, QuietStep
<1>3. QED
  BY <1>1, <1>2 DEF Insert

LEMMA InsertCollidesStep ==
    ASSUME IInv, NEW t \in Txns, InsertCollides(t)
    PROVE  IInv'
<1>1. CASE Rollback(t)
  BY <1>1, RollbackStep
<1>2. CASE /\ req[t].attempt < PublicIDAttempts
           /\ ReleaseLocks(t)
           /\ \E drawn \in EnrollmentIDs :
                 req' = [req EXCEPT ![t].enrollment = drawn, ![t].attempt = @ + 1]
           /\ Goto(t, "lockCatalog")
           /\ UNCHANGED <<rows, write>>
  <2>1. PICK drawn \in EnrollmentIDs :
          req' = [req EXCEPT ![t].enrollment = drawn, ![t].attempt = @ + 1]
    BY <1>2
  <2>2. Enrolling(t) /\ write[t] = NoWrite
    BY DEF InsertCollides, IInv, StatementInv
  <2>3. req[t] \in Request /\ req[t].attempt + 1 \in 0..PublicIDAttempts
    BY <1>2, ConstantsAssumption DEF IInv, TypeOK, Request
  <2>4. req'[t] = [req[t] EXCEPT !.enrollment = drawn, !.attempt = req[t].attempt + 1]
    BY <2>1 DEF IInv, TypeOK
  <2>5. /\ req'[t] \in Request
        /\ req'[t].op = req[t].op /\ req'[t].user = req[t].user
        /\ req'[t].catalog = req[t].catalog /\ req'[t].enrollment = drawn
    BY <2>3, <2>4 DEF Request
  <2>6. \A other \in Txns \ {t} : req'[other] = req[other]
    BY <2>1 DEF IInv, TypeOK
  <2>7. req' \in [Txns -> Request]
    BY <2>1, <2>5, <2>6 DEF IInv, TypeOK
  <2>8. TypeOK'
    BY <1>2, <2>7, ReleaseLocksFrame DEF IInv, TypeOK, Goto, Statements, rows
  <2>9. Quiet(t)
    BY <1>2, <2>6, ReleaseLocksFrame DEF IInv, TypeOK, Goto, Quiet
  <2>10. pc'[t] = "lockCatalog" /\ write'[t] = NoWrite
    BY <1>2, <2>2 DEF IInv, TypeOK, Goto
  <2>11. LockingCatalog(t)'
    BY <1>2, <2>2, <2>5 DEF LockingCatalog, Enrolling, HoldsCatalog, KnownCatalog, rows
  <2>12. StatementInv(t)'
    BY <2>10, <2>11 DEF StatementInv
  <2>13. QED
    BY <2>8, <2>9, <2>12, QuietStep
<1>3. QED
  BY <1>1, <1>2 DEF InsertCollides

(***************************************************************************)
(* The statements of a status update.                                      *)
(***************************************************************************)
LEMMA LockCatalogForStatusStep ==
    ASSUME IInv, NEW t \in Txns, LockCatalogForStatus(t)
    PROVE  IInv'
<1> DEFINE c == req[t].catalog
<1>1. /\ LockingCatalog(t) /\ req[t].op = "setStatus" /\ catalogLock[c] = Nil
      /\ write[t] = NoWrite
  BY DEF LockCatalogForStatus, IInv, StatementInv
<1>2. c \in Catalogs
  BY <1>1 DEF LockingCatalog, KnownCatalog
<1>3. TypeOK'
  BY <1>2 DEF LockCatalogForStatus, IInv, TypeOK, TakeCatalogLock, Goto, Statements, rows
<1>4. Quiet(t)
  BY <1>1, <1>2, ConstantsAssumption
  DEF LockCatalogForStatus, IInv, TypeOK, TakeCatalogLock, Goto, Quiet
<1>5. pc'[t] = "lockEnrollment" /\ catalogLock'[c] = t /\ UNCHANGED <<rows, req, write>>
  BY <1>2 DEF LockCatalogForStatus, IInv, TypeOK, TakeCatalogLock, Goto
<1>6. LockingEnrollment(t)'
  BY <1>1, <1>5 DEF LockingEnrollment, LockingCatalog, HoldsCatalog, KnownCatalog,
                    KnownEnrollment, rows
<1>7. StatementInv(t)'
  BY <1>1, <1>5, <1>6 DEF StatementInv
<1>8. QED
  BY <1>3, <1>4, <1>7, QuietStep

LEMMA CatalogForStatusType ==
    ASSUME NEW cat \in CatalogRow, NEW row, NEW s
    PROVE  CatalogForStatus(cat, row, s) \in CatalogRow \cup {Nil}
<1>1. Incremented(cat) \in CatalogRow /\ Decremented(cat) \in CatalogRow
  BY DEF Incremented, Decremented, CatalogRow
<1>2. QED
  BY <1>1 DEF CatalogForStatus

LEMMA LockEnrollmentForStatusStep ==
    ASSUME IInv, NEW t \in Txns, LockEnrollmentForStatus(t)
    PROVE  IInv'
<1> DEFINE c == req[t].catalog
           e == req[t].enrollment
           s == req[t].status
           w == [catalog |-> CatalogForStatus(catalog[c], enrollment[e], s),
                 enrollment |-> WithStatus(enrollment[e], s)]
<1>1. CASE Rollback(t)
  BY <1>1, RollbackStep
<1>2. CASE /\ IsLive(e) /\ (Accepting(enrollment[e], s) => HasFreeSeat(catalog[c]))
           /\ TakeEnrollmentLock(t)
           /\ write' = [write EXCEPT ![t] = w]
           /\ Goto(t, "commit")
           /\ UNCHANGED <<rows, catalogLock, req>>
  <2>1. LockingEnrollment(t) /\ req[t].op = "setStatus" /\ enrollmentLock[e] = Nil
    BY DEF LockEnrollmentForStatus, IInv, StatementInv
  <2>2. /\ c \in Catalogs /\ catalog[c] \in CatalogRow
        /\ e \in EnrollmentIDs /\ enrollment[e] \in EnrollmentRow
        /\ s \in EnrollmentStatuses
    BY <2>1, ConstantsAssumption
    DEF LockingEnrollment, KnownCatalog, KnownEnrollment, IInv, TypeOK
  <2>3. w \in Write
    BY <2>2, CatalogForStatusType, EnrollmentRowUpdates DEF Write
  <2>4. TypeOK'
    BY <1>2, <2>2, <2>3 DEF IInv, TypeOK, TakeEnrollmentLock, Goto, Statements, rows
  <2>5. Quiet(t)
    BY <1>2, <2>1, <2>2, ConstantsAssumption DEF IInv, TypeOK, TakeEnrollmentLock, Goto, Quiet
  <2>6. pc'[t] = "commit" /\ write'[t] = w /\ enrollmentLock'[e] = t
    BY <1>2, <2>2 DEF IInv, TypeOK, TakeEnrollmentLock, Goto
  <2>7. HoldsCatalog(t)' /\ HoldsEnrollment(t)' /\ IsLive(e)'
    BY <1>2, <2>1, <2>6 DEF LockingEnrollment, HoldsCatalog, HoldsEnrollment, KnownCatalog,
                            KnownEnrollment, IsLive, rows
  <2>8. req'[t] = req[t] /\ catalog' = catalog /\ enrollment' = enrollment
    BY <1>2 DEF rows
  <2>9. s \in RequestedStatuses
    BY <2>1 DEF LockingEnrollment
  <2>10. CommitsStatus(t)'
    BY <1>2, <2>1, <2>6, <2>7, <2>8, <2>9
    DEF CommitsStatus, Accepting, HasFreeSeat, CatalogForStatus, WithStatus, Releasing,
        Incremented, Decremented, IsLive
  <2>11. StatementInv(t)'
    BY <2>6, <2>10 DEF StatementInv
  <2>12. QED
    BY <2>4, <2>5, <2>11, QuietStep
<1>3. QED
  BY <1>1, <1>2 DEF LockEnrollmentForStatus

(***************************************************************************)
(* The statements of a cancellation and of a catalog update.               *)
(***************************************************************************)
LEMMA LockEnrollmentForCancelStep ==
    ASSUME IInv, NEW t \in Txns, LockEnrollmentForCancel(t)
    PROVE  IInv'
<1> DEFINE e == req[t].enrollment
           row == Cancelled(enrollment[e])
           s == IF enrollment[e].status = "accepted" THEN "decrement" ELSE "commit"
<1>1. CASE Rollback(t)
  BY <1>1, RollbackStep
<1>2. CASE /\ IsLive(e)
           /\ TakeEnrollmentLock(t)
           /\ write' = [write EXCEPT ![t].enrollment = row]
           /\ Goto(t, s)
           /\ UNCHANGED <<rows, catalogLock, req>>
  <2>1. /\ LockingEnrollment(t) /\ req[t].op = "cancel" /\ enrollmentLock[e] = Nil
        /\ write[t] = NoWrite
    BY DEF LockEnrollmentForCancel, IInv, StatementInv
  <2>2. /\ e \in EnrollmentIDs /\ enrollment[e] \in EnrollmentRow
        /\ enrollment[e].status \in EnrollmentStatuses
    BY <2>1 DEF LockingEnrollment, KnownEnrollment, IInv, TypeOK, EnrollmentRow
  <2>3. row \in EnrollmentRow
    BY <2>2, EnrollmentRowUpdates
  <2>4. /\ pc'[t] = s /\ s \in {"decrement", "commit"}
        /\ write'[t] = [write[t] EXCEPT !.enrollment = row]
        /\ enrollmentLock'[e] = t
    BY <1>2, <2>2 DEF IInv, TypeOK, Goto, TakeEnrollmentLock
  <2>5. TypeOK'
    <3>1. [write[t] EXCEPT !.enrollment = row] \in Write
      BY <2>3 DEF IInv, TypeOK, Write
    <3>2. QED
      BY <1>2, <2>2, <2>4, <3>1 DEF IInv, TypeOK, TakeEnrollmentLock, Goto, Statements, rows
  <2>6. Quiet(t)
    BY <1>2, <2>1, <2>2, ConstantsAssumption DEF IInv, TypeOK, TakeEnrollmentLock, Goto, Quiet
  <2>7. write'[t].catalog = Nil /\ write'[t].enrollment = row
    BY <2>1, <2>4 DEF NoWrite
  <2>8. req'[t] = req[t] /\ catalog' = catalog /\ enrollment' = enrollment
    BY <1>2 DEF rows
  <2>9. Cancelling(t)'
    BY <1>2, <2>1, <2>4, <2>7, <2>8
    DEF Cancelling, LockingEnrollment, KnownCatalog, KnownEnrollment, HoldsEnrollment,
        IsLive, Cancelled
  <2>10. s = "commit" => CommitsCancel(t)'
    BY <2>7, <2>8, <2>9 DEF CommitsCancel
  <2>11. StatementInv(t)'
    BY <2>4, <2>7, <2>8, <2>9, <2>10 DEF StatementInv
  <2>12. QED
    BY <2>5, <2>6, <2>11, QuietStep
<1>3. QED
  BY <1>1, <1>2 DEF LockEnrollmentForCancel

LEMMA DecrementOnCancelStep ==
    ASSUME IInv, NEW t \in Txns, DecrementOnCancel(t)
    PROVE  IInv'
<1> DEFINE c == req[t].catalog
           e == req[t].enrollment
<1>1. /\ Cancelling(t) /\ enrollment[e].status = "accepted" /\ catalogLock[c] = Nil
  BY DEF DecrementOnCancel, IInv, StatementInv
<1>2. c \in Catalogs /\ catalog[c] \in CatalogRow
  BY <1>1 DEF Cancelling, KnownCatalog, IInv, TypeOK
<1>3. Decremented(catalog[c]) \in CatalogRow
  BY <1>2, CatalogRowUpdates, NothingPending
<1>4. /\ pc'[t] = "commit" /\ write'[t] = [write[t] EXCEPT !.catalog = Decremented(catalog[c])]
      /\ catalogLock'[c] = t
      /\ UNCHANGED <<rows, enrollmentLock, req>>
  BY <1>2 DEF DecrementOnCancel, IInv, TypeOK, Goto, TakeCatalogLock
<1>5. write[t] \in Write
  BY DEF IInv, TypeOK
<1>6. write'[t] \in Write
  BY <1>3, <1>4, <1>5 DEF Write
<1>7. TypeOK'
  BY <1>2, <1>4, <1>6 DEF DecrementOnCancel, IInv, TypeOK, TakeCatalogLock, Goto, Statements, rows
<1>8. Quiet(t)
  BY <1>1, <1>2, ConstantsAssumption
  DEF DecrementOnCancel, IInv, TypeOK, TakeCatalogLock, Goto, Quiet
<1>9. /\ write'[t].enrollment = write[t].enrollment
      /\ write'[t].catalog = Decremented(catalog[c])
  BY <1>4, <1>5 DEF Write
<1>10. req'[t] = req[t] /\ catalog' = catalog /\ enrollment' = enrollment
  BY <1>4 DEF rows
<1>11. Cancelling(t)'
  BY <1>1, <1>4, <1>9, <1>10
  DEF Cancelling, KnownCatalog, KnownEnrollment, HoldsEnrollment, IsLive, Cancelled
<1>12. HoldsCatalog(t)'
  BY <1>1, <1>4, <1>10 DEF Cancelling, KnownCatalog, HoldsCatalog
<1>13. CommitsCancel(t)'
  BY <1>1, <1>9, <1>10, <1>11, <1>12 DEF CommitsCancel, Decremented
<1>14. StatementInv(t)'
  BY <1>4, <1>13 DEF StatementInv
<1>15. QED
  BY <1>7, <1>8, <1>14, QuietStep

LEMMA LockCatalogForEditStep ==
    ASSUME IInv, NEW t \in Txns, LockCatalogForEdit(t)
    PROVE  IInv'
<1> DEFINE c == req[t].catalog
           row == Merged(catalog[c], req[t])
<1>1. CASE Rollback(t)
  BY <1>1, RollbackStep
<1>2. CASE /\ VisibleCatalog(c)
           /\ TakeCatalogLock(t)
           /\ write' = [write EXCEPT ![t].catalog = row]
           /\ Goto(t, "commit")
           /\ UNCHANGED <<rows, enrollmentLock, req>>
  <2>1. /\ LockingCatalog(t) /\ req[t].op = "edit" /\ catalogLock[c] = Nil
        /\ write[t] = NoWrite
    BY DEF LockCatalogForEdit, IInv, StatementInv
  <2>2. c \in Catalogs /\ catalog[c] \in CatalogRow /\ req[t] \in Request
    BY <2>1 DEF LockingCatalog, KnownCatalog, IInv, TypeOK
  <2>3. row \in CatalogRow
    BY <2>2, CatalogRowUpdates
  <2>4. /\ pc'[t] = "commit" /\ write'[t] = [write[t] EXCEPT !.catalog = row]
        /\ catalogLock'[c] = t
    BY <1>2, <2>2 DEF IInv, TypeOK, Goto, TakeCatalogLock
  <2>5. write'[t] \in Write
    BY <2>3, <2>4 DEF IInv, TypeOK, Write
  <2>6. TypeOK'
    BY <1>2, <2>2, <2>5 DEF IInv, TypeOK, TakeCatalogLock, Goto, Statements, rows
  <2>7. Quiet(t)
    BY <1>2, <2>1, <2>2, ConstantsAssumption DEF IInv, TypeOK, TakeCatalogLock, Goto, Quiet
  <2>8. write'[t].catalog = row /\ write'[t].enrollment = Nil
    BY <2>1, <2>4 DEF NoWrite
  <2>9. req'[t] = req[t] /\ catalog' = catalog
    BY <1>2 DEF rows
  <2>10. CommitsEdit(t)'
    BY <1>2, <2>1, <2>4, <2>8, <2>9
    DEF CommitsEdit, LockingCatalog, KnownCatalog, HoldsCatalog, VisibleCatalog, Merged
  <2>11. StatementInv(t)'
    BY <2>4, <2>10 DEF StatementInv
  <2>12. QED
    BY <2>6, <2>7, <2>11, QuietStep
<1>3. QED
  BY <1>1, <1>2 DEF LockCatalogForEdit

(***************************************************************************)
(* COMMIT. A transaction changes only rows it holds the lock of: rows keep *)
(* existing and keep their member and catalog, a live enrollment appears   *)
(* or becomes active only in a catalog the transaction has locked.         *)
(***************************************************************************)
LEMMA CommitRows ==
    ASSUME IInv, NEW t \in Txns, Commit(t)
    PROVE  /\ \A c \in Catalogs :
                catalog'[c] = IF c = req[t].catalog /\ write[t].catalog # Nil
                              THEN write[t].catalog ELSE catalog[c]
           /\ \A e \in EnrollmentIDs :
                enrollment'[e] = IF e = req[t].enrollment /\ write[t].enrollment # Nil
                                 THEN write[t].enrollment ELSE enrollment[e]
BY DEF Commit, IInv, TypeOK

LEMMA CommitForms ==
    ASSUME IInv, NEW t \in Txns, Commit(t)
    PROVE  CommitsEnroll(t) \/ CommitsStatus(t) \/ CommitsCancel(t) \/ CommitsEdit(t)
BY DEF Commit, IInv, StatementInv

LEMMA CommitTypes ==
    ASSUME IInv, NEW t \in Txns, Commit(t)
    PROVE  /\ TypeOK'
           /\ req[t] \in Request /\ write[t] \in Write
<1>1. req[t] \in Request /\ write[t] \in Write
  BY DEF IInv, TypeOK
<1>2. catalog' \in [Catalogs -> CatalogRow \cup {Nil}]
  BY <1>1 DEF Commit, IInv, TypeOK, Write
<1>3. enrollment' \in [EnrollmentIDs -> EnrollmentRow \cup {Nil}]
  BY <1>1 DEF Commit, IInv, TypeOK, Write
<1>4. QED
  BY <1>1, <1>2, <1>3, ReleaseLocksFrame, NothingPending
  DEF IInv, TypeOK, Commit, Statements

LEMMA CommitLocality ==
    ASSUME IInv, NEW t \in Txns, Commit(t)
    PROVE  /\ \A c \in Catalogs : catalog'[c] # catalog[c] => catalogLock[c] = t
           /\ \A e \in EnrollmentIDs : enrollment'[e] # enrollment[e] => enrollmentLock[e] = t
<1>1. CASE CommitsEnroll(t)
  BY <1>1, CommitRows DEF CommitsEnroll, Enrolling
<1>2. CASE CommitsStatus(t)
  BY <1>2, CommitRows DEF CommitsStatus, HoldsCatalog, HoldsEnrollment
<1>3. CASE CommitsCancel(t)
  BY <1>3, CommitRows DEF CommitsCancel, Cancelling, HoldsCatalog, HoldsEnrollment
<1>4. CASE CommitsEdit(t)
  BY <1>4, CommitRows DEF CommitsEdit, HoldsCatalog
<1>5. QED
  BY <1>1, <1>2, <1>3, <1>4, CommitForms

LEMMA CommitKeepsCatalogs ==
    ASSUME IInv, NEW t \in Txns, Commit(t), NEW c \in Catalogs, catalog[c] # Nil
    PROVE  catalog'[c] # Nil
BY CommitRows

\* What a COMMIT does to an enrollment that exists: its member and catalog stay,
\* it does not come back to life, and it becomes active only under the lock of
\* its catalog.
LEMMA CommitKeepsEnrollments ==
    ASSUME IInv, NEW t \in Txns, Commit(t), NEW e \in EnrollmentIDs, enrollment[e] # Nil
    PROVE  /\ enrollment'[e] # Nil
           /\ enrollment'[e].user = enrollment[e].user
           /\ enrollment'[e].catalog = enrollment[e].catalog
           /\ ~enrollment'[e].deleted => ~enrollment[e].deleted
           /\ \/ enrollment'[e] = enrollment[e]
              \/ enrollment'[e] = Cancelled(enrollment[e])
              \/ catalogLock[enrollment[e].catalog] = t
<1>1. enrollment[e] \in EnrollmentRow
  BY DEF IInv, TypeOK
<1>2. CASE enrollment'[e] = enrollment[e]
  BY <1>2
<1>3. CASE enrollment'[e] # enrollment[e]
  <2>1. /\ e = req[t].enrollment /\ write[t].enrollment # Nil
        /\ enrollment'[e] = write[t].enrollment
    BY <1>3, CommitRows
  <2>2. CASE CommitsEnroll(t)
    BY <2>1, <2>2 DEF CommitsEnroll
  <2>3. CASE CommitsStatus(t)
    <3>1. /\ write[t].enrollment = WithStatus(enrollment[e], req[t].status)
          /\ enrollment[e].catalog = req[t].catalog /\ ~enrollment[e].deleted
          /\ catalogLock[req[t].catalog] = t
      BY <2>1, <2>3 DEF CommitsStatus, HoldsEnrollment, KnownEnrollment, HoldsCatalog, IsLive
    <3>2. /\ WithStatus(enrollment[e], req[t].status).user = enrollment[e].user
          /\ WithStatus(enrollment[e], req[t].status).catalog = enrollment[e].catalog
      BY <1>1 DEF WithStatus, EnrollmentRow
    <3>3. QED
      BY <1>1, <2>1, <3>1, <3>2
  <2>4. CASE CommitsCancel(t)
    BY <1>1, <2>1, <2>4
    DEF CommitsCancel, Cancelling, Cancelled, HoldsEnrollment, KnownEnrollment, EnrollmentRow
  <2>5. CASE CommitsEdit(t)
    BY <2>1, <2>5 DEF CommitsEdit
  <2>6. QED
    BY <2>2, <2>3, <2>4, <2>5, CommitForms
<1>4. QED
  BY <1>2, <1>3

LEMMA CommitNewEnrollment ==
    ASSUME IInv, NEW t \in Txns, Commit(t), NEW e \in EnrollmentIDs,
           enrollment[e] = Nil, enrollment'[e] # Nil
    PROVE  /\ CommitsEnroll(t) /\ e = req[t].enrollment
           /\ enrollment'[e] = [user |-> req[t].user, catalog |-> req[t].catalog,
                                status |-> "pending", deleted |-> FALSE]
           /\ enrollment'[e].user = req[t].user
           /\ enrollment'[e].catalog = req[t].catalog
<1>1. /\ e = req[t].enrollment /\ write[t].enrollment # Nil
      /\ enrollment'[e] = write[t].enrollment
  BY CommitRows
<1>2. ~CommitsStatus(t) /\ ~CommitsCancel(t) /\ ~CommitsEdit(t)
  BY <1>1 DEF CommitsStatus, CommitsCancel, Cancelling, CommitsEdit, HoldsEnrollment,
              KnownEnrollment
<1>3. CommitsEnroll(t)
  BY <1>2, CommitForms
<1>4. enrollment'[e] = [user |-> req[t].user, catalog |-> req[t].catalog,
                        status |-> "pending", deleted |-> FALSE]
  BY <1>1, <1>3 DEF CommitsEnroll
<1>5. /\ enrollment'[e].user = req[t].user
      /\ enrollment'[e].catalog = req[t].catalog
  BY <1>4
<1>6. QED
  BY <1>1, <1>3, <1>4, <1>5

\* The claims of the other transactions survive a COMMIT: whatever a claim reads
\* is locked by its transaction, or can only change in a harmless direction.
LEMMA CommitOthers ==
    ASSUME IInv, NEW t \in Txns, Commit(t), NEW other \in Txns \ {t}
    PROVE  StatementInv(other)'
<1> DEFINE c == req[other].catalog
           e == req[other].enrollment
<1>1. /\ pc'[other] = pc[other] /\ req'[other] = req[other] /\ write'[other] = write[other]
      /\ StatementInv(other)
  BY DEF Commit, IInv, TypeOK
<1>2. /\ \A d \in Catalogs : catalogLock[d] = other => catalogLock'[d] = other
      /\ \A d \in EnrollmentIDs : enrollmentLock[d] = other => enrollmentLock'[d] = other
  BY ReleaseLocksFrame DEF IInv, Commit
<1>3. KnownCatalog(other) => KnownCatalog(other)'
  BY <1>1, CommitKeepsCatalogs DEF KnownCatalog
<1>4. KnownEnrollment(other) => KnownEnrollment(other)'
  BY <1>1, CommitKeepsEnrollments DEF KnownEnrollment
<1>5. HoldsCatalog(other) => HoldsCatalog(other)' /\ catalog'[c] = catalog[c]
  BY <1>1, <1>2, <1>3, CommitLocality DEF HoldsCatalog, KnownCatalog
<1>6. HoldsEnrollment(other) => HoldsEnrollment(other)' /\ enrollment'[e] = enrollment[e]
  BY <1>1, <1>2, <1>4, CommitLocality DEF HoldsEnrollment, KnownEnrollment
<1>7. ASSUME HoldsCatalog(other), NEW d \in EnrollmentIDs,
             enrollment'[d] # Nil, enrollment'[d].catalog = c
      PROVE  enrollment[d] # Nil
  <2>1. SUFFICES ASSUME enrollment[d] = Nil PROVE FALSE
    OBVIOUS
  <2>2. CommitsEnroll(t) /\ req[t].catalog = c
    <3>1. CommitsEnroll(t) /\ enrollment'[d].catalog = req[t].catalog
      BY <1>7, <2>1, CommitNewEnrollment
    <3>2. QED
      BY <1>7, <3>1
  <2>3. catalogLock[c] = t
    BY <2>2 DEF CommitsEnroll, Enrolling, HoldsCatalog
  <2>4. QED
    BY <1>7, <2>3 DEF HoldsCatalog
<1>8. HoldsCatalog(other) /\ NoDuplicate(other) => NoDuplicate(other)'
  <2> SUFFICES ASSUME HoldsCatalog(other), NoDuplicate(other) PROVE NoDuplicate(other)'
    OBVIOUS
  <2>1. ASSUME NEW d \in EnrollmentIDs, d \in LiveEnrollments(req[other].user, c)'
        PROVE  FALSE
    <3>1. /\ enrollment'[d] # Nil /\ ~enrollment'[d].deleted
          /\ enrollment'[d].user = req[other].user /\ enrollment'[d].catalog = c
      BY <1>1, <2>1 DEF LiveEnrollments, IsLive
    <3>2. enrollment[d] # Nil
      BY <3>1, <1>7
    <3>3. d \in LiveEnrollments(req[other].user, c)
      BY <3>1, <3>2, CommitKeepsEnrollments DEF LiveEnrollments, IsLive
    <3>4. QED
      BY <3>3 DEF NoDuplicate
  <2>2. QED
    BY <1>1, <2>1 DEF NoDuplicate, LiveEnrollments
<1>9. HoldsCatalog(other) /\ SeatFree(other) => SeatFree(other)'
  <2> SUFFICES ASSUME HoldsCatalog(other), SeatFree(other), catalog[c].max_slots # Nil
               PROVE  Cardinality(ActiveEnrollments(c)') < catalog[c].max_slots
    BY <1>1, <1>5 DEF SeatFree
  <2>1. ActiveEnrollments(c)' \subseteq ActiveEnrollments(c)
    <3> SUFFICES ASSUME NEW d \in EnrollmentIDs, d \in ActiveEnrollments(c)'
                 PROVE  d \in ActiveEnrollments(c)
      BY DEF ActiveEnrollments
    <3>1. /\ enrollment'[d] # Nil /\ ~enrollment'[d].deleted /\ enrollment'[d].catalog = c
          /\ enrollment'[d].status \notin {"rejected", "cancelled"}
      BY <1>1 DEF ActiveEnrollments, IsLive
    <3>2. enrollment[d] # Nil /\ enrollment[d] \in EnrollmentRow
      BY <3>1, <1>7 DEF IInv, TypeOK
    <3>3. enrollment[d].catalog = c
      BY <3>1, <3>2, CommitKeepsEnrollments
    <3>4. enrollment'[d] # Cancelled(enrollment[d])
      BY <3>1, <3>2 DEF Cancelled, EnrollmentRow
    <3>5. enrollment'[d] = enrollment[d]
      BY <3>2, <3>3, <3>4, CommitKeepsEnrollments DEF HoldsCatalog
    <3>6. QED
      BY <3>1, <3>5 DEF ActiveEnrollments, IsLive
  <2>2. IsFiniteSet(ActiveEnrollments(c)) /\ ActiveEnrollments(c) \subseteq EnrollmentIDs
    BY ConstantsAssumption, FS_Subset DEF ActiveEnrollments
  <2>3. /\ Cardinality(ActiveEnrollments(c)') <= Cardinality(ActiveEnrollments(c))
        /\ IsFiniteSet(ActiveEnrollments(c)')
    BY <2>1, <2>2, FS_Subset
  <2>4. /\ Cardinality(ActiveEnrollments(c)') \in Nat
        /\ Cardinality(ActiveEnrollments(c)) \in Nat
    BY <2>2, <2>3, FS_CardinalityType
  <2>5. catalog[c].max_slots \in Nat
    BY ConstantsAssumption DEF HoldsCatalog, KnownCatalog, IInv, TypeOK, CatalogRow, Slots
  <2>6. Cardinality(ActiveEnrollments(c)) < catalog[c].max_slots
    BY DEF SeatFree
  <2>7. QED
    BY <2>3, <2>4, <2>5, <2>6
<1>10. Enrolling(other) => Enrolling(other)'
  BY <1>1, <1>5 DEF Enrolling, VisibleCatalog, IsOpenForEnrollment
<1>11. LockingCatalog(other) => LockingCatalog(other)'
  BY <1>1, <1>3, <1>4 DEF LockingCatalog
<1>12. LockingEnrollment(other) => LockingEnrollment(other)'
  BY <1>1, <1>3, <1>4, <1>5 DEF LockingEnrollment
<1>13. Cancelling(other) => Cancelling(other)'
  BY <1>1, <1>3, <1>6 DEF Cancelling, IsLive, Cancelled
<1>14. CommitsEnroll(other) => CommitsEnroll(other)'
  <2> SUFFICES ASSUME CommitsEnroll(other) PROVE CommitsEnroll(other)'
    OBVIOUS
  <2>1. HoldsCatalog(other) /\ e \in EnrollmentIDs /\ enrollmentLock[e] = other
    BY DEF CommitsEnroll, Enrolling
  <2>2. enrollment'[e] = enrollment[e] /\ enrollmentLock'[e] = other
    BY <1>2, <2>1, CommitLocality
  <2>3. QED
    BY <1>1, <1>8, <1>9, <1>10, <2>1, <2>2 DEF CommitsEnroll
<1>15. CommitsStatus(other) => CommitsStatus(other)'
  <2> SUFFICES ASSUME CommitsStatus(other) PROVE CommitsStatus(other)'
    OBVIOUS
  <2>1. HoldsCatalog(other) /\ HoldsEnrollment(other)
    BY DEF CommitsStatus
  <2>2. /\ req'[other] = req[other] /\ write'[other] = write[other]
        /\ catalog'[c] = catalog[c] /\ enrollment'[e] = enrollment[e]
        /\ HoldsCatalog(other)' /\ HoldsEnrollment(other)'
    BY <1>1, <1>5, <1>6, <2>1
  <2>3. QED
    BY <2>2 DEF CommitsStatus, IsLive
<1>16. CommitsCancel(other) => CommitsCancel(other)'
  BY <1>1, <1>5, <1>6, <1>13 DEF CommitsCancel, Cancelling, Decremented
<1>17. CommitsEdit(other) => CommitsEdit(other)'
  BY <1>1, <1>5 DEF CommitsEdit, VisibleCatalog, Merged
<1>18. pc[other] = "countActive" /\ Enrolling(other) =>
          catalog'[c].max_slots = catalog[c].max_slots
  BY <1>5 DEF Enrolling
<1>19. pc[other] = "decrement" /\ Cancelling(other) =>
          enrollment'[e].status = enrollment[e].status
  BY <1>6 DEF Cancelling
<1>20. Enrolling(other) => HoldsCatalog(other)
  BY DEF Enrolling
<1>21. QED
  BY <1>1, <1>8, <1>9, <1>10, <1>11, <1>12, <1>13, <1>14, <1>15, <1>16, <1>17, <1>18, <1>19,
     <1>20
  DEF StatementInv

LEMMA CommitAddsNoCatalog ==
    ASSUME IInv, NEW t \in Txns, Commit(t), NEW c \in Catalogs, catalog'[c] # Nil
    PROVE  catalog[c] # Nil
<1> SUFFICES ASSUME catalog[c] = Nil PROVE FALSE
  OBVIOUS
<1>1. c = req[t].catalog /\ write[t].catalog # Nil
  BY CommitRows
<1>2. KnownCatalog(t)
  BY CommitForms DEF CommitsEnroll, Enrolling, CommitsStatus, CommitsCancel, Cancelling,
                     CommitsEdit, HoldsCatalog
<1>3. QED
  BY <1>1, <1>2 DEF KnownCatalog

\* The accepted enrollments and the stored count move together, by one at most.
AcceptedKept(c) ==
    /\ AcceptedEnrollments(c)' = AcceptedEnrollments(c)
    /\ catalog'[c].registered_count = catalog[c].registered_count

AcceptedGains(c, e) ==
    /\ e \notin AcceptedEnrollments(c)
    /\ AcceptedEnrollments(c)' = AcceptedEnrollments(c) \cup {e}
    /\ catalog'[c].registered_count = catalog[c].registered_count + 1

AcceptedLoses(c, e) ==
    /\ e \in AcceptedEnrollments(c)
    /\ AcceptedEnrollments(c)' = AcceptedEnrollments(c) \ {e}
    /\ catalog'[c].registered_count = IF catalog[c].registered_count > 0
                                      THEN catalog[c].registered_count - 1 ELSE 0

LEMMA CountFollows ==
    ASSUME NEW c \in Catalogs, catalog[c].registered_count = Cardinality(AcceptedEnrollments(c)),
           NEW e, AcceptedKept(c) \/ AcceptedGains(c, e) \/ AcceptedLoses(c, e)
    PROVE  catalog'[c].registered_count = Cardinality(AcceptedEnrollments(c)')
<1>1. IsFiniteSet(AcceptedEnrollments(c))
  BY ConstantsAssumption, FS_Subset DEF AcceptedEnrollments
<1>2. Cardinality(AcceptedEnrollments(c)) \in Nat
  BY <1>1, FS_CardinalityType
<1>3. CASE AcceptedKept(c)
  BY <1>3 DEF AcceptedKept
<1>4. CASE AcceptedGains(c, e)
  <2>1. Cardinality(AcceptedEnrollments(c) \cup {e}) = Cardinality(AcceptedEnrollments(c)) + 1
    BY <1>1, <1>4, FS_AddElement DEF AcceptedGains
  <2>2. QED
    BY <1>4, <2>1 DEF AcceptedGains
<1>5. CASE AcceptedLoses(c, e)
  <2>1. Cardinality(AcceptedEnrollments(c) \ {e}) = Cardinality(AcceptedEnrollments(c)) - 1
    BY <1>1, <1>5, FS_RemoveElement DEF AcceptedLoses
  <2>2. AcceptedEnrollments(c) # {}
    BY <1>5 DEF AcceptedLoses
  <2>3. Cardinality(AcceptedEnrollments(c)) > 0
    BY <1>1, <1>2, <2>2, FS_EmptySet
  <2>4. QED
    BY <1>2, <1>5, <2>1, <2>3 DEF AcceptedLoses
<1>6. QED
  BY <1>3, <1>4, <1>5

LEMMA CommitCounts ==
    ASSUME IInv, NEW t \in Txns, Commit(t), NEW c \in Catalogs, catalog[c] # Nil
    PROVE  \/ AcceptedKept(c)
           \/ AcceptedGains(c, req[t].enrollment)
           \/ AcceptedLoses(c, req[t].enrollment)
<1> DEFINE e == req[t].enrollment
<1>1. /\ catalog[c] \in CatalogRow
      /\ \A d \in EnrollmentIDs : enrollment[d] # Nil => enrollment[d] \in EnrollmentRow
  BY DEF IInv, TypeOK
<1>2. \A d \in EnrollmentIDs \ {e} : enrollment'[d] = enrollment[d]
  BY CommitRows
<1>3. CASE CommitsEnroll(t)
  <2>1. /\ write[t].catalog = Nil /\ enrollment[e] = Nil /\ e \in EnrollmentIDs
        /\ write[t].enrollment = [user |-> req[t].user, catalog |-> req[t].catalog,
                                  status |-> "pending", deleted |-> FALSE]
    BY <1>3 DEF CommitsEnroll, Enrolling
  <2>2. catalog'[c] = catalog[c] /\ enrollment'[e] \in {Nil, write[t].enrollment}
    BY <2>1, CommitRows
  <2>3. AcceptedEnrollments(c)' = AcceptedEnrollments(c)
    <3>1. enrollment'[e] # Nil => enrollment'[e].status = "pending"
      BY <2>1, <2>2
    <3>2. e \notin AcceptedEnrollments(c) /\ e \notin AcceptedEnrollments(c)'
      BY <2>1, <3>1 DEF AcceptedEnrollments, IsLive
    <3>3. QED
      BY <1>2, <3>2 DEF AcceptedEnrollments, IsLive
  <2>4. QED
    BY <2>2, <2>3 DEF AcceptedKept
<1>4. CASE CommitsEdit(t)
  <2>1. enrollment' = enrollment
    BY <1>4 DEF CommitsEdit, Commit
  <2>2. catalog'[c].registered_count = catalog[c].registered_count
    <3>1. write[t].catalog = Merged(catalog[req[t].catalog], req[t])
      BY <1>4 DEF CommitsEdit
    <3>2. Merged(catalog[c], req[t]).registered_count = catalog[c].registered_count
      BY <1>1 DEF Merged, CatalogRow
    <3>3. QED
      BY <3>1, <3>2, CommitRows
  <2>3. AcceptedEnrollments(c)' = AcceptedEnrollments(c)
    BY <2>1 DEF AcceptedEnrollments, IsLive
  <2>4. QED
    BY <2>2, <2>3 DEF AcceptedKept
<1>5. CASE CommitsStatus(t)
  <2> DEFINE row == enrollment[e]
             s == req[t].status
             new == WithStatus(row, s)
  <2>1. /\ e \in EnrollmentIDs /\ row # Nil /\ ~row.deleted /\ row.catalog = req[t].catalog
        /\ write[t].catalog = CatalogForStatus(catalog[req[t].catalog], row, s)
        /\ write[t].enrollment = new
    BY <1>5 DEF CommitsStatus, HoldsEnrollment, KnownEnrollment, IsLive
  <2>2. row \in EnrollmentRow
    BY <1>1, <2>1
  <2>3. /\ new.status = s /\ new.catalog = row.catalog /\ new.deleted = (s = "cancelled")
    BY <2>1, <2>2 DEF WithStatus, EnrollmentRow
  <2>4. enrollment'[e] # Nil /\ enrollment'[e] = new
    <3>1. new \in EnrollmentRow
      BY <1>5, <2>2, EnrollmentRowUpdates, ConstantsAssumption DEF CommitsStatus, new
    <3>2. new # Nil
      BY <3>1, NilIsNoRow
    <3>3. QED
      BY <2>1, <3>2, CommitRows
  <2> HIDE DEF new
  <2>5. CASE c # req[t].catalog
    <3>1. catalog'[c] = catalog[c]
      BY <2>5, CommitRows
    <3>2. AcceptedEnrollments(c)' = AcceptedEnrollments(c)
      BY <1>2, <2>1, <2>3, <2>4, <2>5 DEF AcceptedEnrollments, IsLive
    <3>3. QED
      BY <3>1, <3>2 DEF AcceptedKept
  <2>6. CASE c = req[t].catalog /\ Accepting(row, s)
    <3>1. write[t].catalog = Incremented(catalog[c])
      BY <2>1, <2>6 DEF CatalogForStatus
    <3>2. /\ Incremented(catalog[c]).registered_count = catalog[c].registered_count + 1
          /\ Incremented(catalog[c]) # Nil
      BY <1>1, CatalogRowUpdates, NilIsNoRow DEF Incremented, CatalogRow
    <3>3. catalog'[c].registered_count = catalog[c].registered_count + 1
      BY <2>6, <3>1, <3>2, CommitRows
    <3>4. e \notin AcceptedEnrollments(c)
      BY <2>6 DEF AcceptedEnrollments, Accepting
    <3>5. AcceptedEnrollments(c)' = AcceptedEnrollments(c) \cup {e}
      BY <1>2, <2>1, <2>3, <2>4, <2>6 DEF AcceptedEnrollments, IsLive, Accepting
    <3>6. QED
      BY <3>3, <3>4, <3>5 DEF AcceptedGains
  <2>7. CASE c = req[t].catalog /\ Releasing(row, s)
    <3>1. write[t].catalog = Decremented(catalog[c])
      BY <2>1, <2>7 DEF CatalogForStatus, Accepting, Releasing
    <3>2. catalog'[c] = Decremented(catalog[c])
      <4>1. Decremented(catalog[c]) # Nil
        BY <1>1, CatalogRowUpdates, NilIsNoRow, NothingPending
      <4>2. QED
        BY <2>7, <3>1, <4>1, CommitRows
    <3>3. e \in AcceptedEnrollments(c)
      BY <2>1, <2>7 DEF AcceptedEnrollments, Releasing, IsLive
    <3>4. AcceptedEnrollments(c)' = AcceptedEnrollments(c) \ {e}
      BY <1>2, <2>1, <2>3, <2>4, <2>7 DEF AcceptedEnrollments, IsLive, Releasing
    <3>5. QED
      BY <1>1, <3>2, <3>3, <3>4 DEF AcceptedLoses, Decremented, CatalogRow
  <2>8. CASE ~Accepting(row, s) /\ ~Releasing(row, s)
    <3>1. write[t].catalog = Nil
      BY <2>1, <2>8 DEF CatalogForStatus
    <3>2. catalog'[c] = catalog[c]
      BY <3>1, CommitRows
    <3>3. row.status = "accepted" <=> s = "accepted"
      BY <2>8 DEF Accepting, Releasing
    <3>4. AcceptedEnrollments(c)' = AcceptedEnrollments(c)
      <4>1. e \in AcceptedEnrollments(c)' <=> e \in AcceptedEnrollments(c)
        BY <2>1, <2>3, <2>4, <3>3 DEF AcceptedEnrollments, IsLive
      <4>2. \A d \in EnrollmentIDs \ {e} :
               d \in AcceptedEnrollments(c)' <=> d \in AcceptedEnrollments(c)
        BY <1>2 DEF AcceptedEnrollments, IsLive
      <4>3. QED
        BY <4>1, <4>2 DEF AcceptedEnrollments
    <3>5. QED
      BY <3>2, <3>4 DEF AcceptedKept
  <2>9. QED
    BY <2>5, <2>6, <2>7, <2>8
<1>6. CASE CommitsCancel(t)
  <2>1. /\ e \in EnrollmentIDs /\ enrollment[e] # Nil /\ ~enrollment[e].deleted
        /\ enrollment[e].catalog = req[t].catalog
        /\ write[t].enrollment = Cancelled(enrollment[e])
    BY <1>6 DEF CommitsCancel, Cancelling, HoldsEnrollment, KnownEnrollment, IsLive
  <2>2. Cancelled(enrollment[e]).deleted
    BY <1>1, <2>1 DEF Cancelled, EnrollmentRow
  <2>3. enrollment'[e] # Nil /\ enrollment'[e].deleted
    <3>1. Cancelled(enrollment[e]) # Nil
      BY <1>1, <2>1, EnrollmentRowUpdates, NilIsNoRow DEF EnrollmentStatuses
    <3>2. QED
      BY <2>1, <2>2, <3>1, CommitRows
  <2>4. AcceptedEnrollments(c)' = AcceptedEnrollments(c) \ {e}
    BY <1>2, <2>1, <2>3 DEF AcceptedEnrollments, IsLive
  <2>5. CASE c = req[t].catalog /\ enrollment[e].status = "accepted"
    <3>1. write[t].catalog = Decremented(catalog[c])
      BY <1>6, <2>5 DEF CommitsCancel
    <3>2. catalog'[c] = Decremented(catalog[c])
      <4>1. Decremented(catalog[c]) # Nil
        BY <1>1, CatalogRowUpdates, NilIsNoRow, NothingPending
      <4>2. QED
        BY <2>5, <3>1, <4>1, CommitRows
    <3>3. e \in AcceptedEnrollments(c)
      BY <2>1, <2>5 DEF AcceptedEnrollments, IsLive
    <3>4. QED
      BY <1>1, <2>4, <3>2, <3>3 DEF AcceptedLoses, Decremented, CatalogRow
  <2>6. CASE c # req[t].catalog \/ enrollment[e].status # "accepted"
    <3>1. catalog'[c] = catalog[c]
      BY <1>6, <2>6, CommitRows DEF CommitsCancel
    <3>2. e \notin AcceptedEnrollments(c)
      BY <2>1, <2>6 DEF AcceptedEnrollments
    <3>3. QED
      BY <2>4, <3>1, <3>2 DEF AcceptedKept
  <2>7. QED
    BY <2>5, <2>6
<1>7. QED
  BY <1>3, <1>4, <1>5, <1>6, CommitForms

LEMMA CommitStep ==
    ASSUME IInv, NEW t \in Txns, Commit(t)
    PROVE  IInv'
<1>1. TypeOK'
  BY CommitTypes
<1>2. ASSUME NEW other \in Txns PROVE StatementInv(other)'
  <2>1. CASE other = t
    BY <2>1 DEF Commit, StatementInv, IInv, TypeOK
  <2>2. CASE other # t
    BY <2>2, CommitOthers
  <2>3. QED
    BY <2>1, <2>2
<1>3. RowsKnown'
  <2> SUFFICES ASSUME NEW e \in EnrollmentIDs, enrollment'[e] # Nil
               PROVE  catalog'[enrollment'[e].catalog] # Nil
    BY DEF RowsKnown
  <2>1. CASE enrollment[e] # Nil
    <3>1. enrollment[e].catalog \in Catalogs /\ catalog[enrollment[e].catalog] # Nil
      BY <2>1 DEF IInv, RowsKnown, TypeOK, EnrollmentRow
    <3>2. QED
      BY <2>1, <3>1, CommitKeepsEnrollments, CommitKeepsCatalogs
  <2>2. CASE enrollment[e] = Nil
    <3>1. CommitsEnroll(t) /\ enrollment'[e].catalog = req[t].catalog
      BY <2>2, CommitNewEnrollment
    <3>2. req[t].catalog \in Catalogs /\ catalog[req[t].catalog] # Nil
      BY <3>1 DEF CommitsEnroll, Enrolling, HoldsCatalog, KnownCatalog
    <3>3. QED
      BY <3>1, <3>2, CommitKeepsCatalogs
  <2>3. QED
    BY <2>1, <2>2
<1>4. OneLivePerMember'
  <2>1. ASSUME NEW d \in EnrollmentIDs, NEW e \in EnrollmentIDs,
               IsLive(d)', enrollment[d] = Nil, IsLive(e)',
               enrollment'[d].user = enrollment'[e].user,
               enrollment'[d].catalog = enrollment'[e].catalog
        PROVE  d = e
    <3>1. /\ CommitsEnroll(t) /\ d = req[t].enrollment
          /\ enrollment'[d].user = req[t].user /\ enrollment'[d].catalog = req[t].catalog
      BY <2>1, CommitNewEnrollment DEF IsLive
    <3>2. CASE enrollment[e] = Nil
      BY <2>1, <3>1, <3>2, CommitNewEnrollment DEF IsLive
    <3>3. CASE enrollment[e] # Nil
      <4>1. e \in LiveEnrollments(req[t].user, req[t].catalog)
        BY <2>1, <3>1, <3>3, CommitKeepsEnrollments DEF LiveEnrollments, IsLive
      <4>2. QED
        BY <3>1, <4>1 DEF CommitsEnroll, NoDuplicate
    <3>4. QED
      BY <3>2, <3>3
  <2>2. ASSUME NEW d \in EnrollmentIDs, NEW e \in EnrollmentIDs,
               IsLive(d)', enrollment[d] # Nil, IsLive(e)', enrollment[e] # Nil,
               enrollment'[d].user = enrollment'[e].user,
               enrollment'[d].catalog = enrollment'[e].catalog
        PROVE  d = e
    <3>1. IsLive(d) /\ IsLive(e)
      BY <2>2, CommitKeepsEnrollments DEF IsLive
    <3>2. /\ enrollment[d].user = enrollment[e].user
          /\ enrollment[d].catalog = enrollment[e].catalog
      BY <2>2, CommitKeepsEnrollments
    <3>3. QED
      BY <3>1, <3>2 DEF IInv, OneLivePerMember
  <2>3. QED
    BY <2>1, <2>2 DEF OneLivePerMember
<1>5. RegisteredCountExact'
  <2> SUFFICES ASSUME NEW c \in Catalogs, catalog'[c] # Nil
               PROVE  catalog'[c].registered_count = Cardinality(AcceptedEnrollments(c)')
    BY DEF RegisteredCountExact
  <2>1. catalog[c] # Nil
    BY CommitAddsNoCatalog
  <2>2. QED
    BY <2>1, CommitCounts, CountFollows DEF IInv, RegisteredCountExact
<1>6. QED
  BY <1>1, <1>2, <1>3, <1>4, <1>5 DEF IInv

(***************************************************************************)
(* The catalog administration statements that are transactions themselves. *)
(***************************************************************************)
LEMMA CreateCatalogStep ==
    ASSUME IInv, NEW c \in Catalogs, NEW slots \in NewSlots \cup {Nil},
           NEW status \in TrainingStatuses, CreateCatalog(c, slots, status)
    PROVE  IInv'
<1> DEFINE row == [max_slots |-> slots, training_status |-> status,
                   registered_count |-> 0, deleted |-> FALSE]
<1>1. /\ catalog[c] = Nil /\ catalog' = [catalog EXCEPT ![c] = row]
      /\ UNCHANGED <<enrollment, locks, pc, req, write>>
  BY DEF CreateCatalog
<1>2. row \in CatalogRow /\ row # Nil /\ row.registered_count = 0
  <2>1. row \in CatalogRow
    BY DEF CatalogRow, Slots
  <2>2. QED
    BY <2>1, NilIsNoRow
<1> HIDE DEF row
<1>3. TypeOK'
  BY <1>1, <1>2 DEF IInv, TypeOK, locks
<1>4. catalog'[c] = row /\ \A d \in Catalogs \ {c} : catalog'[d] = catalog[d]
  BY <1>1 DEF IInv, TypeOK
<1>5. ASSUME NEW t \in Txns PROVE StatementInv(t)'
  <2>1. StatementInv(t) /\ (KnownCatalog(t) => catalog'[req[t].catalog] = catalog[req[t].catalog])
    BY <1>1, <1>4 DEF IInv, KnownCatalog
  <2>2. QED
    BY <1>1, <2>1, CatalogFrame DEF KnownCatalog, HoldsCatalog
<1>6. RowsKnown'
  BY <1>1, <1>2, <1>4 DEF IInv, TypeOK, RowsKnown, EnrollmentRow
<1>7. OneLivePerMember'
  BY <1>1 DEF IInv, OneLivePerMember, IsLive
<1>8. RegisteredCountExact'
  <2>1. \A d \in Catalogs : AcceptedEnrollments(d)' = AcceptedEnrollments(d)
    BY <1>1 DEF AcceptedEnrollments, IsLive
  <2>2. AcceptedEnrollments(c) = {}
    BY <1>1 DEF AcceptedEnrollments, IsLive, IInv, RowsKnown
  <2>3. Cardinality(AcceptedEnrollments(c)) = 0
    BY <2>2, FS_EmptySet
  <2>4. QED
    BY <1>2, <1>4, <2>1, <2>3 DEF IInv, RegisteredCountExact
<1>9. QED
  BY <1>3, <1>5, <1>6, <1>7, <1>8 DEF IInv

LEMMA SoftDeleteCatalogStep ==
    ASSUME IInv, NEW c \in Catalogs, SoftDeleteCatalog(c)
    PROVE  IInv'
<1> DEFINE row == [catalog[c] EXCEPT !.deleted = TRUE]
<1>1. /\ catalog[c] # Nil /\ catalogLock[c] = Nil
      /\ catalog' = [catalog EXCEPT ![c] = row]
      /\ UNCHANGED <<enrollment, locks, pc, req, write>>
  BY DEF SoftDeleteCatalog, VisibleCatalog
<1>2. /\ row \in CatalogRow /\ row # Nil
      /\ row.registered_count = catalog[c].registered_count
  <2>1. catalog[c] \in CatalogRow
    BY <1>1 DEF IInv, TypeOK
  <2>2. row \in CatalogRow /\ row.registered_count = catalog[c].registered_count
    BY <2>1 DEF CatalogRow
  <2>3. QED
    BY <2>2, NilIsNoRow
<1> HIDE DEF row
<1>3. TypeOK'
  BY <1>1, <1>2 DEF IInv, TypeOK, locks
<1>4. catalog'[c] = row /\ \A d \in Catalogs \ {c} : catalog'[d] = catalog[d]
  BY <1>1 DEF IInv, TypeOK
<1>5. ASSUME NEW t \in Txns PROVE StatementInv(t)'
  <2>1. /\ StatementInv(t)
        /\ KnownCatalog(t) => KnownCatalog(t)'
        /\ HoldsCatalog(t) => catalog'[req[t].catalog] = catalog[req[t].catalog]
    BY <1>1, <1>2, <1>4, ConstantsAssumption DEF IInv, KnownCatalog, HoldsCatalog
  <2>2. QED
    BY <1>1, <2>1, CatalogFrame
<1>6. RowsKnown'
  BY <1>1, <1>2, <1>4 DEF IInv, TypeOK, RowsKnown, EnrollmentRow
<1>7. OneLivePerMember'
  BY <1>1 DEF IInv, OneLivePerMember, IsLive
<1>8. RegisteredCountExact'
  <2>1. \A d \in Catalogs : AcceptedEnrollments(d)' = AcceptedEnrollments(d)
    BY <1>1 DEF AcceptedEnrollments, IsLive
  <2>2. QED
    BY <1>1, <1>2, <1>4, <2>1 DEF IInv, RegisteredCountExact
<1>9. QED
  BY <1>3, <1>5, <1>6, <1>7, <1>8 DEF IInv

(***************************************************************************)
(* The invariant, and what follows from it.                                *)
(***************************************************************************)
LEMMA InitIInv == Init => IInv
<1> SUFFICES ASSUME Init PROVE IInv
  OBVIOUS
<1>1. TypeOK
  BY NothingPending DEF Init, TypeOK, Statements
<1>2. \A t \in Txns : StatementInv(t)
  BY DEF Init, StatementInv
<1>3. RowsKnown /\ OneLivePerMember /\ RegisteredCountExact
  BY DEF Init, RowsKnown, OneLivePerMember, RegisteredCountExact, IsLive
<1>4. QED
  BY <1>1, <1>2, <1>3 DEF IInv

LEMMA UnchangedIInv ==
    ASSUME IInv, UNCHANGED vars
    PROVE  IInv'
<1>1. TypeOK'
  BY DEF vars, IInv, TypeOK
<1>2. ASSUME NEW t \in Txns PROVE StatementInv(t)'
  BY StatementFrame DEF vars, rows, IInv
<1>3. RowsKnown' /\ OneLivePerMember' /\ RegisteredCountExact'
  BY DEF vars, IInv, RowsKnown, OneLivePerMember, RegisteredCountExact, IsLive,
         AcceptedEnrollments
<1>4. QED
  BY <1>1, <1>2, <1>3 DEF IInv

LEMMA NextIInv ==
    ASSUME IInv, [Next]_vars
    PROVE  IInv'
<1>1. CASE CatalogAdmin
  BY <1>1, CreateCatalogStep, SoftDeleteCatalogStep DEF CatalogAdmin
<1>2. ASSUME NEW t \in Txns, Requests(t) PROVE IInv'
  BY <1>2, EnrollStep, SetStatusStep, CancelBeginStep, EditBeginStep DEF Requests
<1>3. ASSUME NEW t \in Txns, Proceed(t) PROVE IInv'
  BY <1>3, CheckDuplicateStep, CountActiveStep, CommitStep DEF Proceed
<1>4. ASSUME NEW t \in Txns, WaitForCatalog(t) PROVE IInv'
  BY <1>4, LockCatalogForEnrollStep, LockCatalogForStatusStep, LockCatalogForEditStep,
     DecrementOnCancelStep DEF WaitForCatalog
<1>5. ASSUME NEW t \in Txns, WaitForEnrollment(t) PROVE IInv'
  BY <1>5, LockEnrollmentForStatusStep, LockEnrollmentForCancelStep, InsertStep,
     InsertCollidesStep DEF WaitForEnrollment
<1>6. ASSUME NEW t \in Txns, DeadlockVictim(t) \/ Abandon(t) PROVE IInv'
  BY <1>6, RollbackStep DEF DeadlockVictim, Abandon
<1>7. CASE UNCHANGED vars
  BY <1>7, UnchangedIInv
<1>8. QED
  BY <1>1, <1>2, <1>3, <1>4, <1>5, <1>6, <1>7 DEF Next

\* Every transaction keeps, in every reachable state, what it has established at
\* its earlier statements, and the committed rows are consistent.
THEOREM Invariance == Spec => []IInv
BY InitIInv, NextIInv, PTL DEF Spec

\* Rows, locks, requests and uncommitted row versions always have their types.
THEOREM TypeCorrect == Spec => []TypeOK
<1>1. IInv => TypeOK
  BY DEF IInv
<1>2. QED
  BY <1>1, Invariance, PTL

\* registered_count is the number of live accepted enrollments in every committed
\* state, for any number of members, catalogs, enrollments and connections.
THEOREM CountExact == Spec => []RegisteredCountExact
<1>1. IInv => RegisteredCountExact
  BY DEF IInv
<1>2. QED
  BY <1>1, Invariance, PTL

\* No member ever has two live enrollments in one catalog.
THEOREM OneLive == Spec => []OneLivePerMember
<1>1. IInv => OneLivePerMember
  BY DEF IInv
<1>2. QED
  BY <1>1, Invariance, PTL

LEMMA InsertIsBackstopped ==
    ASSUME IInv
    PROVE  IndexIsBackstop
<1> SUFFICES ASSUME NEW t \in Txns, pc[t] = "insert"
             PROVE  /\ LiveEnrollments(req[t].user, req[t].catalog) = {}
                    /\ \A other \in Txns :
                          write[other].enrollment # Nil /\ req[other].op = "enroll" =>
                             \/ req[other].user # req[t].user
                             \/ req[other].catalog # req[t].catalog
  BY DEF IndexIsBackstop
<1>1. Enrolling(t) /\ NoDuplicate(t) /\ write[t] = NoWrite
  BY DEF IInv, StatementInv
<1>2. ASSUME NEW other \in Txns, write[other].enrollment # Nil, req[other].op = "enroll"
      PROVE  req[other].catalog # req[t].catalog
  <2>1. pc[other] \in {"decrement", "commit"} /\ other # t
    BY <1>1, <1>2 DEF IInv, StatementInv, NoWrite
  <2>2. CommitsEnroll(other)
    BY <1>2, <2>1 DEF IInv, StatementInv, Cancelling, CommitsStatus, CommitsCancel, CommitsEdit
  <2>3. QED
    BY <1>1, <2>1, <2>2 DEF CommitsEnroll, Enrolling, HoldsCatalog
<1>3. QED
  BY <1>1, <1>2 DEF NoDuplicate

\* The INSERT of an enrollment never meets the partial unique index, for any
\* number of concurrent requests of the same member.
THEOREM IndexNeverFires == Spec => []IndexIsBackstop
<1>1. IInv => IndexIsBackstop
  BY InsertIsBackstopped
<1>2. QED
  BY <1>1, Invariance, PTL

(***************************************************************************)
(* Deadlocks: which waits can close a circle. A transaction that waits for *)
(* its first lock holds none, and all but the cancellation of an accepted  *)
(* enrollment lock the catalog before the enrollment.                      *)
(***************************************************************************)

\* Where a transaction may be that has locked a catalog.
AfterCatalogLock(t) ==
    /\ pc[t] \in {"checkDuplicate", "countActive", "insert", "lockEnrollment", "commit"}
    /\ pc[t] = "lockEnrollment" => req[t].op = "setStatus"

\* Where a transaction may be that has locked an enrollment.
AfterEnrollmentLock(t) == pc[t] \in {"decrement", "commit"}

LocksInOrder ==
    /\ \A c \in Catalogs : catalogLock[c] # Nil => AfterCatalogLock(catalogLock[c])
    /\ \A e \in EnrollmentIDs : enrollmentLock[e] # Nil =>
          AfterEnrollmentLock(enrollmentLock[e])

\* Every transaction of the set waits for another of it.
WaitInCircle(S) == S # {} /\ \A t \in S : \E holder \in S : WaitsFor(t, holder)

\* A circle of waits, of two transactions or of any number, always has a cancellation in it
\* (CancelTrainingEnrollment) that has locked an accepted enrollment and waits for its catalog,
\* held by a status update or an enrollment that waits in turn: only this order of locks makes
\* a request a victim.
DeadlockNeedsCancel ==
    \A S \in SUBSET Txns : WaitInCircle(S) =>
        \E t, holder \in S :
            /\ pc[t] = "decrement" /\ req[t].op = "cancel"
            /\ enrollment[req[t].enrollment].status = "accepted"
            /\ catalogLock[req[t].catalog] = holder
            /\ pc[holder] \in {"lockEnrollment", "insert"}

\* The transaction t moves; what it holds afterwards it may hold there.
LEMMA LocksFrame ==
    ASSUME TypeOK, TypeOK', LocksInOrder, NEW t \in Txns,
           \A other \in Txns \ {t} : pc'[other] = pc[other] /\ req'[other] = req[other],
           \A c \in Catalogs : \/ catalogLock'[c] \in {catalogLock[c], Nil} /\ catalogLock'[c] # t
                               \/ catalogLock'[c] = t /\ AfterCatalogLock(t)',
           \A e \in EnrollmentIDs :
               \/ enrollmentLock'[e] \in {enrollmentLock[e], Nil} /\ enrollmentLock'[e] # t
               \/ enrollmentLock'[e] = t /\ AfterEnrollmentLock(t)'
    PROVE  LocksInOrder'
<1>1. \A other \in Txns \ {t} :
          /\ AfterCatalogLock(other)' <=> AfterCatalogLock(other)
          /\ AfterEnrollmentLock(other)' <=> AfterEnrollmentLock(other)
  BY DEF AfterCatalogLock, AfterEnrollmentLock
<1>2. ASSUME NEW c \in Catalogs, NEW u \in Txns, u = catalogLock'[c]
      PROVE  AfterCatalogLock(u)'
  <2>1. CASE u = t
    BY <1>2, <2>1
  <2>2. CASE u # t
    <3>1. u = catalogLock[c]
      BY <1>2, <2>2, ConstantsAssumption
    <3>2. AfterCatalogLock(u)
      BY <3>1, ConstantsAssumption DEF LocksInOrder
    <3>3. QED
      BY <1>1, <2>2, <3>2
  <2>3. QED
    BY <2>1, <2>2
<1>3. ASSUME NEW e \in EnrollmentIDs, NEW u \in Txns, u = enrollmentLock'[e]
      PROVE  AfterEnrollmentLock(u)'
  <2>1. CASE u = t
    BY <1>3, <2>1
  <2>2. CASE u # t
    <3>1. u = enrollmentLock[e]
      BY <1>3, <2>2, ConstantsAssumption
    <3>2. AfterEnrollmentLock(u)
      BY <3>1, ConstantsAssumption DEF LocksInOrder
    <3>3. QED
      BY <1>1, <2>2, <3>2
  <2>3. QED
    BY <2>1, <2>2
<1>4. ASSUME NEW c \in Catalogs, catalogLock'[c] # Nil PROVE AfterCatalogLock(catalogLock[c])'
  <2>1. PICK u \in Txns : u = catalogLock'[c]
    BY <1>4 DEF TypeOK
  <2>2. AfterCatalogLock(u)'
    BY <1>2, <2>1
  <2>3. QED
    BY <2>1, <2>2 DEF AfterCatalogLock
<1>5. ASSUME NEW e \in EnrollmentIDs, enrollmentLock'[e] # Nil
      PROVE  AfterEnrollmentLock(enrollmentLock[e])'
  <2>1. PICK u \in Txns : u = enrollmentLock'[e]
    BY <1>5 DEF TypeOK
  <2>2. AfterEnrollmentLock(u)'
    BY <1>3, <2>1
  <2>3. QED
    BY <2>1, <2>2 DEF AfterEnrollmentLock
<1>6. QED
  BY <1>4, <1>5 DEF LocksInOrder

\* What a transaction holds now it may hold where it is.
LEMMA HeldLocks ==
    ASSUME TypeOK, LocksInOrder, NEW t \in Txns
    PROVE  /\ \A c \in Catalogs : catalogLock[c] = t => AfterCatalogLock(t)
           /\ \A e \in EnrollmentIDs : enrollmentLock[e] = t => AfterEnrollmentLock(t)
BY ConstantsAssumption DEF LocksInOrder

\* A transaction that ends, by COMMIT or ROLLBACK, or begins anew holds nothing.
LEMMA ReleaseInOrder ==
    ASSUME TypeOK, TypeOK', LocksInOrder, NEW t \in Txns, ReleaseLocks(t),
           \A other \in Txns \ {t} : pc'[other] = pc[other] /\ req'[other] = req[other]
    PROVE  LocksInOrder'
<1>1. \A c \in Catalogs : catalogLock'[c] \in {catalogLock[c], Nil} /\ catalogLock'[c] # t
  BY ConstantsAssumption DEF ReleaseLocks
<1>2. \A e \in EnrollmentIDs :
          enrollmentLock'[e] \in {enrollmentLock[e], Nil} /\ enrollmentLock'[e] # t
  BY ConstantsAssumption DEF ReleaseLocks
<1>3. QED
  BY <1>1, <1>2, LocksFrame

LEMMA RollbackInOrder ==
    ASSUME TypeOK, TypeOK', LocksInOrder, NEW t \in Txns, Rollback(t)
    PROVE  LocksInOrder'
<1>1. ReleaseLocks(t)
  BY DEF Rollback
<1>2. \A other \in Txns \ {t} : pc'[other] = pc[other] /\ req'[other] = req[other]
  BY DEF Rollback, TypeOK
<1>3. QED
  BY <1>1, <1>2, ReleaseInOrder

\* The locks stay, and t goes where it may hold what it has.
LEMMA KeepInOrder ==
    ASSUME TypeOK, TypeOK', LocksInOrder, NEW t \in Txns, UNCHANGED locks,
           \A other \in Txns \ {t} : pc'[other] = pc[other] /\ req'[other] = req[other],
           AfterCatalogLock(t) => AfterCatalogLock(t)',
           AfterEnrollmentLock(t) => AfterEnrollmentLock(t)'
    PROVE  LocksInOrder'
<1>1. catalogLock' = catalogLock /\ enrollmentLock' = enrollmentLock
  BY DEF locks
<1>2. QED
  BY <1>1, HeldLocks, LocksFrame

LEMMA TakeCatalogInOrder ==
    ASSUME TypeOK, TypeOK', LocksInOrder, NEW t \in Txns, TakeCatalogLock(t),
           UNCHANGED enrollmentLock,
           \A other \in Txns \ {t} : pc'[other] = pc[other] /\ req'[other] = req[other],
           AfterCatalogLock(t)', AfterEnrollmentLock(t) => AfterEnrollmentLock(t)'
    PROVE  LocksInOrder'
<1>1. \A c \in Catalogs : catalogLock'[c] = catalogLock[c] \/ catalogLock'[c] = t
  BY DEF TakeCatalogLock, TypeOK
<1>2. QED
  BY <1>1, HeldLocks, LocksFrame

LEMMA TakeEnrollmentInOrder ==
    ASSUME TypeOK, TypeOK', LocksInOrder, NEW t \in Txns, TakeEnrollmentLock(t),
           UNCHANGED catalogLock,
           \A other \in Txns \ {t} : pc'[other] = pc[other] /\ req'[other] = req[other],
           AfterEnrollmentLock(t)', AfterCatalogLock(t) => AfterCatalogLock(t)'
    PROVE  LocksInOrder'
<1>1. \A e \in EnrollmentIDs : enrollmentLock'[e] = enrollmentLock[e] \/ enrollmentLock'[e] = t
  BY DEF TakeEnrollmentLock, TypeOK
<1>2. QED
  BY <1>1, HeldLocks, LocksFrame

LEMMA GotoOthers ==
    ASSUME TypeOK, NEW t \in Txns, NEW statement, Goto(t, statement)
    PROVE  pc'[t] = statement /\ \A other \in Txns \ {t} : pc'[other] = pc[other]
BY DEF Goto, TypeOK

\* Statements that never wait.
LEMMA ProceedInOrder ==
    ASSUME TypeOK, TypeOK', LocksInOrder, NEW t \in Txns, Proceed(t)
    PROVE  LocksInOrder'
<1>1. ASSUME NEW statement \in {"insert", "countActive"}, Goto(t, statement),
             pc[t] \in {"checkDuplicate", "countActive"}, UNCHANGED <<locks, req>>
      PROVE  LocksInOrder'
  <2>1. AfterCatalogLock(t)' /\ ~AfterEnrollmentLock(t)
    BY <1>1, GotoOthers DEF AfterCatalogLock, AfterEnrollmentLock
  <2>2. QED
    BY <1>1, <2>1, GotoOthers, KeepInOrder
<1>2. CASE CheckDuplicate(t)
  BY <1>1, <1>2, RollbackInOrder DEF CheckDuplicate
<1>3. CASE CountActive(t)
  BY <1>1, <1>3, RollbackInOrder DEF CountActive
<1>4. CASE Commit(t)
  <2>1. ReleaseLocks(t)
    BY <1>4 DEF Commit
  <2>2. \A other \in Txns \ {t} : pc'[other] = pc[other] /\ req'[other] = req[other]
    BY <1>4 DEF Commit, TypeOK
  <2>3. QED
    BY <2>1, <2>2, ReleaseInOrder
<1>5. QED
  BY <1>2, <1>3, <1>4 DEF Proceed

\* Statements that take the lock of a catalog: nothing else is held, except by a cancellation.
LEMMA CatalogInOrder ==
    ASSUME TypeOK, TypeOK', LocksInOrder, NEW t \in Txns, WaitForCatalog(t)
    PROVE  LocksInOrder'
<1>1. ASSUME NEW statement \in {"checkDuplicate", "lockEnrollment", "commit"},
             Goto(t, statement), pc[t] \in {"lockCatalog", "decrement"},
             statement = "lockEnrollment" => req[t].op = "setStatus",
             pc[t] = "decrement" => statement = "commit",
             TakeCatalogLock(t), UNCHANGED <<enrollmentLock, req>>
      PROVE  LocksInOrder'
  <2>1. AfterCatalogLock(t)'
    BY <1>1, GotoOthers DEF AfterCatalogLock
  <2>2. AfterEnrollmentLock(t) => AfterEnrollmentLock(t)'
    BY <1>1, GotoOthers DEF AfterEnrollmentLock
  <2>3. QED
    BY <1>1, <2>1, <2>2, GotoOthers, TakeCatalogInOrder
<1>2. CASE LockCatalogForEnroll(t)
  BY <1>1, <1>2, RollbackInOrder DEF LockCatalogForEnroll
<1>3. CASE LockCatalogForStatus(t)
  BY <1>1, <1>3 DEF LockCatalogForStatus
<1>4. CASE LockCatalogForEdit(t)
  BY <1>1, <1>4, RollbackInOrder DEF LockCatalogForEdit
<1>5. CASE DecrementOnCancel(t)
  BY <1>1, <1>5 DEF DecrementOnCancel
<1>6. QED
  BY <1>2, <1>3, <1>4, <1>5 DEF WaitForCatalog

\* Statements that take the lock of an enrollment: a cancellation holds no catalog then.
LEMMA EnrollmentInOrder ==
    ASSUME TypeOK, TypeOK', LocksInOrder, NEW t \in Txns, WaitForEnrollment(t)
    PROVE  LocksInOrder'
<1>1. ASSUME NEW statement \in {"decrement", "commit"}, Goto(t, statement),
             pc[t] \in {"lockEnrollment", "insert"},
             statement = "decrement" => pc[t] = "lockEnrollment" /\ req[t].op = "cancel",
             TakeEnrollmentLock(t), UNCHANGED <<catalogLock, req>>
      PROVE  LocksInOrder'
  <2>1. AfterEnrollmentLock(t)'
    BY <1>1, GotoOthers DEF AfterEnrollmentLock
  <2>2. AfterCatalogLock(t) => AfterCatalogLock(t)'
    BY <1>1, GotoOthers DEF AfterCatalogLock
  <2>3. QED
    BY <1>1, <2>1, <2>2, GotoOthers, TakeEnrollmentInOrder
<1>2. CASE LockEnrollmentForStatus(t)
  BY <1>1, <1>2, RollbackInOrder DEF LockEnrollmentForStatus
<1>3. CASE LockEnrollmentForCancel(t)
  BY <1>1, <1>3, RollbackInOrder DEF LockEnrollmentForCancel
<1>4. CASE Insert(t)
  BY <1>1, <1>4, RollbackInOrder DEF Insert
<1>5. CASE InsertCollides(t)
  <2>1. CASE Rollback(t)
    BY <2>1, RollbackInOrder
  <2>2. CASE ReleaseLocks(t) /\ Goto(t, "lockCatalog")
             /\ \E drawn \in EnrollmentIDs :
                   req' = [req EXCEPT ![t].enrollment = drawn, ![t].attempt = @ + 1]
    BY <2>2, GotoOthers, ReleaseInOrder DEF TypeOK
  <2>3. QED
    BY <1>5, <2>1, <2>2 DEF InsertCollides
<1>6. QED
  BY <1>2, <1>3, <1>4, <1>5 DEF WaitForEnrollment

LEMMA InOrderStep ==
    ASSUME TypeOK, TypeOK', LocksInOrder, [Next]_vars
    PROVE  LocksInOrder'
<1>1. ASSUME NEW t \in Txns, NEW r, NEW statement, Begin(t, r, statement) PROVE LocksInOrder'
  <2>1. UNCHANGED locks /\ ~AfterCatalogLock(t) /\ ~AfterEnrollmentLock(t)
    BY <1>1 DEF Begin, AfterCatalogLock, AfterEnrollmentLock
  <2>2. \A other \in Txns \ {t} : pc'[other] = pc[other] /\ req'[other] = req[other]
    BY <1>1 DEF Begin, TypeOK
  <2>3. QED
    BY <2>1, <2>2, KeepInOrder
<1>2. ASSUME NEW t \in Txns, Requests(t) PROVE LocksInOrder'
  BY <1>1, <1>2 DEF Requests, Enroll, SetStatus, Cancel, EditCatalog
<1>3. ASSUME UNCHANGED <<locks, pc, req>> PROVE LocksInOrder'
  BY <1>3 DEF locks, LocksInOrder, AfterCatalogLock, AfterEnrollmentLock
<1>4. CASE CatalogAdmin \/ UNCHANGED vars
  <2>1. UNCHANGED <<locks, pc, req>>
    BY <1>4 DEF CatalogAdmin, CreateCatalog, SoftDeleteCatalog, vars, locks
  <2>2. QED
    BY <1>3, <2>1
<1>5. ASSUME NEW t \in Txns, DeadlockVictim(t) \/ Abandon(t) PROVE LocksInOrder'
  BY <1>5, RollbackInOrder DEF DeadlockVictim, Abandon
<1>6. QED
  BY <1>2, <1>4, <1>5, ProceedInOrder, CatalogInOrder, EnrollmentInOrder DEF Next

LEMMA CircleHasCancel ==
    ASSUME IInv, LocksInOrder
    PROVE  DeadlockNeedsCancel
<1> SUFFICES ASSUME NEW S \in SUBSET Txns, WaitInCircle(S)
             PROVE  \E t, holder \in S :
                        /\ pc[t] = "decrement" /\ req[t].op = "cancel"
                        /\ enrollment[req[t].enrollment].status = "accepted"
                        /\ catalogLock[req[t].catalog] = holder
                        /\ pc[holder] \in {"lockEnrollment", "insert"}
  BY DEF DeadlockNeedsCancel
<1>1. \A t \in S :
          /\ pc[t] \in {"lockCatalog", "decrement", "lockEnrollment", "insert"}
          /\ \E holder \in S : WaitsFor(t, holder)
  BY DEF WaitInCircle, WaitsFor, WaitsForCatalog, WaitsForEnrollment
<1>2. ASSUME NEW t \in S, NEW holder \in S, WaitsForCatalog(t),
             catalogLock[req[t].catalog] = holder
      PROVE  pc[holder] \in {"lockEnrollment", "insert"}
  <2>1. req[t].catalog \in Catalogs
    BY <1>2 DEF WaitsForCatalog, IInv, StatementInv, LockingCatalog, Cancelling, KnownCatalog
  <2>2. AfterCatalogLock(holder)
    BY <1>2, <2>1, HeldLocks DEF IInv
  <2>3. QED
    BY <1>1, <2>2 DEF AfterCatalogLock
<1>3. ASSUME NEW t \in S, NEW holder \in S, WaitsForEnrollment(t),
             enrollmentLock[req[t].enrollment] = holder
      PROVE  pc[holder] = "decrement"
  <2>1. req[t].enrollment \in EnrollmentIDs
    BY <1>3 DEF WaitsForEnrollment, IInv, StatementInv, LockingEnrollment, KnownEnrollment,
                Enrolling
  <2>2. AfterEnrollmentLock(holder)
    BY <1>3, <2>1, HeldLocks DEF IInv
  <2>3. QED
    BY <1>1, <2>2 DEF AfterEnrollmentLock
<1>4. PICK t \in S : TRUE
  BY DEF WaitInCircle
<1>5. \E d \in S : pc[d] = "decrement"
  <2>1. PICK holder \in S : WaitsFor(t, holder)
    BY <1>1
  <2>2. CASE pc[holder] = "decrement"
    BY <2>2
  <2>3. CASE pc[holder] \in {"lockEnrollment", "insert"}
    <3>1. PICK other \in S : WaitsFor(holder, other)
      BY <1>1
    <3>2. QED
      BY <1>3, <2>3, <3>1 DEF WaitsFor, WaitsForCatalog, WaitsForEnrollment
  <2>4. QED
    BY <1>2, <1>3, <2>1, <2>2, <2>3 DEF WaitsFor
<1>6. PICK d \in S : pc[d] = "decrement"
  BY <1>5
<1>7. PICK holder \in S : WaitsFor(d, holder)
  BY <1>1
<1>8. catalogLock[req[d].catalog] = holder /\ WaitsForCatalog(d)
  BY <1>6, <1>7 DEF WaitsFor, WaitsForCatalog, WaitsForEnrollment
<1>9. req[d].op = "cancel" /\ enrollment[req[d].enrollment].status = "accepted"
  BY <1>6 DEF IInv, StatementInv, Cancelling
<1>10. QED
  BY <1>2, <1>6, <1>8, <1>9

\* Whatever number of transactions wait for one another, one of them is the cancellation of
\* an accepted enrollment, for any number of requests, catalogs and enrollments.
THEOREM DeadlocksCancel == Spec => []DeadlockNeedsCancel
<1>1. Init => LocksInOrder
  BY DEF Init, LocksInOrder
<1>2. TypeOK /\ TypeOK' /\ LocksInOrder /\ [Next]_vars => LocksInOrder'
  BY InOrderStep
<1>3. IInv => TypeOK
  BY DEF IInv
<1>4. IInv /\ LocksInOrder => DeadlockNeedsCancel
  BY CircleHasCancel
<1>5. QED
  BY <1>1, <1>2, <1>3, <1>4, Invariance, PTL DEF Spec
=============================================================================
