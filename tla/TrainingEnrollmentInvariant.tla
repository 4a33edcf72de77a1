-------------------- MODULE TrainingEnrollmentInvariant --------------------
(***************************************************************************)
(* The inductive invariant behind the safety of TrainingEnrollment: what a *)
(* transaction has established at each of its statements, and keeps true   *)
(* until its COMMIT because of the locks it holds.                         *)
(***************************************************************************)
EXTENDS TrainingEnrollment

KnownCatalog(t) == req[t].catalog \in Catalogs /\ catalog[req[t].catalog] # Nil

KnownEnrollment(t) ==
    /\ req[t].enrollment \in EnrollmentIDs
    /\ enrollment[req[t].enrollment] # Nil
    /\ enrollment[req[t].enrollment].catalog = req[t].catalog

HoldsCatalog(t) == KnownCatalog(t) /\ catalogLock[req[t].catalog] = t

HoldsEnrollment(t) == KnownEnrollment(t) /\ enrollmentLock[req[t].enrollment] = t

\* An enrolling transaction once it holds its catalog.
Enrolling(t) ==
    /\ req[t].op = "enroll"
    /\ req[t].user \in Users
    /\ req[t].enrollment \in EnrollmentIDs
    /\ HoldsCatalog(t)
    /\ VisibleCatalog(req[t].catalog)
    /\ IsOpenForEnrollment(catalog[req[t].catalog])

NoDuplicate(t) == LiveEnrollments(req[t].user, req[t].catalog) = {}

SeatFree(t) ==
    catalog[req[t].catalog].max_slots # Nil =>
        Cardinality(ActiveEnrollments(req[t].catalog)) < catalog[req[t].catalog].max_slots

LockingCatalog(t) ==
    /\ req[t].op \in {"enroll", "setStatus", "edit"}
    /\ KnownCatalog(t)
    /\ req[t].op = "enroll" => req[t].user \in Users /\ req[t].enrollment \in EnrollmentIDs
    /\ req[t].op = "setStatus" => KnownEnrollment(t) /\ req[t].status \in RequestedStatuses

LockingEnrollment(t) ==
    /\ req[t].op \in {"setStatus", "cancel"}
    /\ KnownCatalog(t)
    /\ KnownEnrollment(t)
    /\ req[t].op = "setStatus" => HoldsCatalog(t) /\ req[t].status \in RequestedStatuses

Cancelling(t) ==
    /\ req[t].op = "cancel"
    /\ KnownCatalog(t)
    /\ HoldsEnrollment(t)
    /\ IsLive(req[t].enrollment)
    /\ write[t].enrollment = Cancelled(enrollment[req[t].enrollment])

CommitsEnroll(t) ==
    /\ Enrolling(t) /\ NoDuplicate(t) /\ SeatFree(t)
    /\ enrollmentLock[req[t].enrollment] = t
    /\ enrollment[req[t].enrollment] = Nil
    /\ write[t].catalog = Nil
    /\ write[t].enrollment = [user |-> req[t].user, catalog |-> req[t].catalog,
                              status |-> "pending", deleted |-> FALSE]

CommitsStatus(t) ==
    LET cat == catalog[req[t].catalog]
        row == enrollment[req[t].enrollment]
        s == req[t].status
    IN
    /\ req[t].op = "setStatus" /\ s \in RequestedStatuses
    /\ HoldsCatalog(t) /\ HoldsEnrollment(t)
    /\ IsLive(req[t].enrollment)
    /\ Accepting(row, s) => HasFreeSeat(cat)
    /\ write[t] = [catalog |-> CatalogForStatus(cat, row, s),
                   enrollment |-> WithStatus(row, s)]

CommitsCancel(t) ==
    /\ Cancelling(t)
    /\ IF enrollment[req[t].enrollment].status = "accepted"
       THEN HoldsCatalog(t) /\ write[t].catalog = Decremented(catalog[req[t].catalog])
       ELSE write[t].catalog = Nil

CommitsEdit(t) ==
    /\ req[t].op = "edit"
    /\ HoldsCatalog(t)
    /\ VisibleCatalog(req[t].catalog)
    /\ write[t].catalog = Merged(catalog[req[t].catalog], req[t])
    /\ write[t].enrollment = Nil

StatementInv(t) ==
    /\ pc[t] = "idle" => req[t] = NoRequest
    /\ pc[t] \notin {"decrement", "commit"} => write[t] = NoWrite
    /\ pc[t] = "lockCatalog" => LockingCatalog(t)
    /\ pc[t] \in {"checkDuplicate", "countActive", "insert"} => Enrolling(t)
    /\ pc[t] \in {"countActive", "insert"} => NoDuplicate(t)
    /\ pc[t] = "countActive" => catalog[req[t].catalog].max_slots # Nil
    /\ pc[t] = "insert" => SeatFree(t)
    /\ pc[t] = "lockEnrollment" => LockingEnrollment(t)
    /\ pc[t] = "decrement" => /\ Cancelling(t)
                              /\ enrollment[req[t].enrollment].status = "accepted"
                              /\ write[t].catalog = Nil
    /\ pc[t] = "commit" => \/ CommitsEnroll(t) \/ CommitsStatus(t)
                           \/ CommitsCancel(t) \/ CommitsEdit(t)

\* An enrollment belongs to a catalog that exists.
RowsKnown ==
    \A e \in EnrollmentIDs : enrollment[e] # Nil => catalog[enrollment[e].catalog] # Nil

\* A member never has two live enrollments in one catalog, whatever requests of
\* theirs run at once and however an enrollment was decided since.
OneLivePerMember ==
    \A d, e \in EnrollmentIDs :
        IsLive(d) /\ IsLive(e) /\ enrollment[d].user = enrollment[e].user
                  /\ enrollment[d].catalog = enrollment[e].catalog => d = e

IInv ==
    /\ TypeOK
    /\ \A t \in Txns : StatementInv(t)
    /\ RowsKnown
    /\ OneLivePerMember
    /\ RegisteredCountExact
=============================================================================
