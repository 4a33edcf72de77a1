------------------------- MODULE TrainingEnrollment -------------------------
(***************************************************************************)
(* The training catalog and its enrollments, as the repository code runs   *)
(* them against PostgreSQL: every request is a READ COMMITTED transaction  *)
(* made of statements, requests of different connections interleave        *)
(* between statements, rows are locked by SELECT ... FOR UPDATE and by     *)
(* UPDATE, and what a transaction has written is seen by the others only   *)
(* after its COMMIT.                                                       *)
(*                                                                         *)
(* One action is one statement that can wait for a lock or that reads what *)
(* other transactions committed; statements that follow it without waiting *)
(* (an UPDATE of a row already locked, the final SELECT that builds the    *)
(* response) belong to the same action.                                    *)
(*                                                                         *)
(* The definitions marked "Mutation" are mistakes the code could have made *)
(* in the definition that follows. Nothing uses them: they only show that  *)
(* a property would notice.                                                *)
(***************************************************************************)
EXTENDS Integers, FiniteSets

CONSTANTS
    Users,              \* members who may enroll
    Catalogs,           \* training catalog entries, by public id (TCY-...)
    EnrollmentIDs,      \* enrollment public ids (ENR-...) that may be drawn
    Txns,               \* database connections, one request at a time each
    Nil,                \* SQL NULL, Go nil, no row, no lock holder
    NewSlots,           \* max_slots values given when a catalog is created
    EditSlots,          \* max_slots values given when a catalog is updated
    TrainingStatuses,   \* training_status values admins use
    RequestedStatuses,  \* enrollment statuses admins ask for
    PublicIDAttempts    \* draws of a public id before giving up

EnrollmentStatuses == {"pending", "accepted", "rejected", "cancelled"}

Slots == NewSlots \cup EditSlots

ASSUME ConstantsAssumption ==
    /\ IsFiniteSet(EnrollmentIDs)
    /\ NewSlots \subseteq Nat \ {0}
    /\ EditSlots \subseteq Nat \ {0}
    /\ RequestedStatuses \subseteq EnrollmentStatuses
    /\ PublicIDAttempts \in Nat \ {0}
    /\ Nil \notin Users \cup Catalogs \cup EnrollmentIDs \cup Txns
    /\ Nil \notin Int
    /\ Nil \notin TrainingStatuses \cup EnrollmentStatuses

VARIABLES
    catalog,         \* committed rows of training_catalog
    enrollment,      \* committed rows of training_enrollments
    catalogLock,     \* the transaction holding the row lock of a catalog
    enrollmentLock,  \* the transaction holding the row lock of an enrollment
    pc,              \* the statement a connection is about to execute
    req,             \* what the request of a connection asks for
    write            \* the row versions a transaction wrote, not yet committed

rows  == <<catalog, enrollment>>
locks == <<catalogLock, enrollmentLock>>
vars  == <<catalog, enrollment, catalogLock, enrollmentLock, pc, req, write>>

-----------------------------------------------------------------------------
(* Rows and requests.                                                      *)

CatalogRow == [max_slots: Slots \cup {Nil}, training_status: TrainingStatuses,
               registered_count: Int, deleted: BOOLEAN]

\* What a member sees of a catalog: its row without the stored count.
Offer == [max_slots: Slots \cup {Nil}, training_status: TrainingStatuses,
          deleted: BOOLEAN]

EnrollmentRow == [user: Users, catalog: Catalogs,
                  status: EnrollmentStatuses, deleted: BOOLEAN]

Request == [op: {"none", "enroll", "setStatus", "cancel", "edit"},
            catalog: Catalogs \cup {Nil}, enrollment: EnrollmentIDs \cup {Nil},
            user: Users \cup {Nil}, status: EnrollmentStatuses \cup {Nil},
            max_slots: EditSlots \cup {Nil},
            training_status: TrainingStatuses \cup {Nil},
            attempt: 0..PublicIDAttempts]

Write == [catalog: CatalogRow \cup {Nil}, enrollment: EnrollmentRow \cup {Nil}]

Statements == {"idle", "lockCatalog", "checkDuplicate", "countActive", "insert",
               "lockEnrollment", "decrement", "commit"}

NoRequest == [op |-> "none", catalog |-> Nil, enrollment |-> Nil, user |-> Nil,
              status |-> Nil, max_slots |-> Nil, training_status |-> Nil,
              attempt |-> 0]

NoWrite == [catalog |-> Nil, enrollment |-> Nil]

ASSUME NilIsNoRow ==
    Nil \notin CatalogRow /\ Nil \notin Offer /\ Nil \notin EnrollmentRow

VisibleCatalog(c) == catalog[c] # Nil /\ ~catalog[c].deleted

IsOpenForEnrollment(row) == row.training_status \in {"planned", "ongoing"}

\* Mutation: the query forgets deleted_at IS NULL.
IsLiveWithoutDeletedAt(e) == enrollment[e] # Nil

IsLive(e) == enrollment[e] # Nil /\ ~enrollment[e].deleted

\* Mutation: a rejected enrollment does not count as a duplicate.
LiveEnrollmentsUndecided(u, c) ==
    {e \in EnrollmentIDs : /\ IsLive(e)
                           /\ enrollment[e].user = u
                           /\ enrollment[e].catalog = c
                           /\ enrollment[e].status \in {"pending", "accepted"}}

LiveEnrollments(u, c) ==
    {e \in EnrollmentIDs : /\ IsLive(e)
                           /\ enrollment[e].user = u
                           /\ enrollment[e].catalog = c}

\* The rows the capacity check of an enrollment counts.
ActiveEnrollments(c) ==
    {e \in EnrollmentIDs : /\ IsLive(e)
                           /\ enrollment[e].catalog = c
                           /\ enrollment[e].status \notin {"rejected", "cancelled"}}

AcceptedEnrollments(c) ==
    {e \in EnrollmentIDs : /\ IsLive(e)
                           /\ enrollment[e].catalog = c
                           /\ enrollment[e].status = "accepted"}

\* registered_count = registered_count + 1
Incremented(row) == [row EXCEPT !.registered_count = @ + 1]

\* registered_count = GREATEST(0, registered_count - 1)
Decremented(row) ==
    [row EXCEPT !.registered_count = IF @ > 0 THEN @ - 1 ELSE 0]

\* Mutation: a status update to 'cancelled' does not soft-delete.
WithStatusOnly(row, s) == [row EXCEPT !.status = s]

\* The UPDATE of an enrollment's status: 'cancelled' also soft-deletes the row.
WithStatus(row, s) ==
    [row EXCEPT !.status = s, !.deleted = @ \/ s = "cancelled"]

\* The UPDATE of a cancellation.
Cancelled(row) == [row EXCEPT !.status = "cancelled", !.deleted = TRUE]

\* Mutation: fields the request does not give overwrite the row.
MergedAll(row, r) ==
    [row EXCEPT !.max_slots = r.max_slots, !.training_status = r.training_status]

\* The merge of a partial catalog update: a field not given keeps its value.
Merged(row, r) ==
    [row EXCEPT !.max_slots = IF r.max_slots = Nil THEN @ ELSE r.max_slots,
                !.training_status = IF r.training_status = Nil
                                    THEN @ ELSE r.training_status]

-----------------------------------------------------------------------------
(* Transactions.                                                           *)

Init ==
    /\ catalog = [c \in Catalogs |-> Nil]
    /\ enrollment = [e \in EnrollmentIDs |-> Nil]
    /\ catalogLock = [c \in Catalogs |-> Nil]
    /\ enrollmentLock = [e \in EnrollmentIDs |-> Nil]
    /\ pc = [t \in Txns |-> "idle"]
    /\ req = [t \in Txns |-> NoRequest]
    /\ write = [t \in Txns |-> NoWrite]

\* Mutation: a rollback leaves the enrollment locked.
ReleaseCatalogLocks(t) ==
    /\ catalogLock' = [c \in Catalogs |->
                          IF catalogLock[c] = t THEN Nil ELSE catalogLock[c]]
    /\ UNCHANGED enrollmentLock

ReleaseLocks(t) ==
    /\ catalogLock' = [c \in Catalogs |->
                          IF catalogLock[c] = t THEN Nil ELSE catalogLock[c]]
    /\ enrollmentLock' = [e \in EnrollmentIDs |->
                             IF enrollmentLock[e] = t THEN Nil ELSE enrollmentLock[e]]

\* The deferred tx.Rollback(), reached by every return but the last one.
Rollback(t) ==
    /\ ReleaseLocks(t)
    /\ pc' = [pc EXCEPT ![t] = "idle"]
    /\ req' = [req EXCEPT ![t] = NoRequest]
    /\ write' = [write EXCEPT ![t] = NoWrite]
    /\ UNCHANGED rows

Commit(t) ==
    /\ pc[t] = "commit"
    /\ catalog' = IF write[t].catalog = Nil THEN catalog
                  ELSE [catalog EXCEPT ![req[t].catalog] = write[t].catalog]
    /\ enrollment' = IF write[t].enrollment = Nil THEN enrollment
                     ELSE [enrollment EXCEPT ![req[t].enrollment] = write[t].enrollment]
    /\ ReleaseLocks(t)
    /\ pc' = [pc EXCEPT ![t] = "idle"]
    /\ req' = [req EXCEPT ![t] = NoRequest]
    /\ write' = [write EXCEPT ![t] = NoWrite]

\* The request's context is cancelled or its connection is lost.
Abandon(t) == pc[t] # "idle" /\ Rollback(t)

Begin(t, r, statement) ==
    /\ pc[t] = "idle"
    /\ req' = [req EXCEPT ![t] = r]
    /\ pc' = [pc EXCEPT ![t] = statement]
    /\ UNCHANGED <<rows, locks, write>>

Goto(t, statement) == pc' = [pc EXCEPT ![t] = statement]

\* Mutation: the SELECT of the catalog is not FOR UPDATE.
ReadCatalogOnly(t) == UNCHANGED catalogLock

TakeCatalogLock(t) == catalogLock' = [catalogLock EXCEPT ![req[t].catalog] = t]

\* Mutation: the SELECT of the enrollment is not FOR UPDATE.
ReadEnrollmentOnly(t) == UNCHANGED enrollmentLock

TakeEnrollmentLock(t) ==
    enrollmentLock' = [enrollmentLock EXCEPT ![req[t].enrollment] = t]

-----------------------------------------------------------------------------
(* Enroll: CreateTrainingEnrollment, retried on a public id collision.     *)
(* A request whose first statement finds no row ends in "not found" and    *)
(* changes nothing, so each request begins only on a row its snapshot has. *)

Enroll(t, u, c, e) ==
    /\ VisibleCatalog(c)
    /\ Begin(t, [NoRequest EXCEPT !.op = "enroll", !.user = u, !.catalog = c,
                                  !.enrollment = e, !.attempt = 1],
             "lockCatalog")

\* SELECT ... FOR UPDATE waits, then re-evaluates its WHERE on the latest row.
LockCatalogForEnroll(t) ==
    LET c == req[t].catalog IN
    /\ pc[t] = "lockCatalog" /\ req[t].op = "enroll"
    /\ catalogLock[c] = Nil
    /\ IF VisibleCatalog(c) /\ IsOpenForEnrollment(catalog[c])
       THEN /\ TakeCatalogLock(t)
            /\ Goto(t, "checkDuplicate")
            /\ UNCHANGED <<rows, enrollmentLock, req, write>>
       ELSE Rollback(t)

CheckDuplicate(t) ==
    LET c == req[t].catalog IN
    /\ pc[t] = "checkDuplicate"
    /\ IF LiveEnrollments(req[t].user, c) = {}
       THEN /\ Goto(t, IF catalog[c].max_slots = Nil THEN "insert" ELSE "countActive")
            /\ UNCHANGED <<rows, locks, req, write>>
       ELSE Rollback(t)

\* Mutation: the capacity check is off by one.
HasUntakenSlotInclusive(c) == Cardinality(ActiveEnrollments(c)) <= catalog[c].max_slots

HasUntakenSlot(c) == Cardinality(ActiveEnrollments(c)) < catalog[c].max_slots

CountActive(t) ==
    LET c == req[t].catalog IN
    /\ pc[t] = "countActive"
    /\ IF HasUntakenSlot(c)
       THEN /\ Goto(t, "insert")
            /\ UNCHANGED <<rows, locks, req, write>>
       ELSE Rollback(t)

\* The INSERT checks both unique indexes: it waits for a transaction that has
\* written the same public id, and fails on a committed row with it.
Insert(t) ==
    LET e == req[t].enrollment IN
    /\ pc[t] = "insert"
    /\ enrollmentLock[e] = Nil
    /\ enrollment[e] = Nil
    /\ IF LiveEnrollments(req[t].user, req[t].catalog) = {}
       THEN /\ TakeEnrollmentLock(t)
            /\ write' = [write EXCEPT ![t].enrollment =
                            [user |-> req[t].user, catalog |-> req[t].catalog,
                             status |-> "pending", deleted |-> FALSE]]
            /\ Goto(t, "commit")
            /\ UNCHANGED <<rows, catalogLock, req>>
       ELSE Rollback(t)

\* A public id collision: the transaction rolls back and, while attempts are
\* left, the use case draws another id and calls the repository again.
InsertCollides(t) ==
    LET e == req[t].enrollment IN
    /\ pc[t] = "insert"
    /\ enrollmentLock[e] = Nil
    /\ enrollment[e] # Nil
    /\ IF req[t].attempt < PublicIDAttempts
       THEN /\ ReleaseLocks(t)
            /\ \E drawn \in EnrollmentIDs :
                  req' = [req EXCEPT ![t].enrollment = drawn, ![t].attempt = @ + 1]
            /\ Goto(t, "lockCatalog")
            /\ UNCHANGED <<rows, write>>
       ELSE Rollback(t)

-----------------------------------------------------------------------------
(* UpdateStatus: the joined SELECT locks the catalog, then the enrollment. *)

SetStatus(t, e, s) ==
    /\ IsLive(e)
    /\ Begin(t, [NoRequest EXCEPT !.op = "setStatus", !.enrollment = e, !.status = s,
                                  !.catalog = enrollment[e].catalog],
             "lockCatalog")

LockCatalogForStatus(t) ==
    /\ pc[t] = "lockCatalog" /\ req[t].op = "setStatus"
    /\ catalogLock[req[t].catalog] = Nil
    /\ TakeCatalogLock(t)
    /\ Goto(t, "lockEnrollment")
    /\ UNCHANGED <<rows, enrollmentLock, req, write>>

Accepting(row, s) == s = "accepted" /\ row.status # "accepted"
Releasing(row, s) == s # "accepted" /\ row.status = "accepted"

\* Mutation: the check of an acceptance is off by one.
HasFreeSeatInclusive(row) ==
    row.max_slots = Nil \/ row.registered_count <= row.max_slots

HasFreeSeat(row) == row.max_slots = Nil \/ row.registered_count < row.max_slots

\* Mutation: leaving "accepted" does not decrement.
CatalogForStatusAccepting(cat, row, s) ==
    IF Accepting(row, s) THEN Incremented(cat) ELSE Nil

\* The catalog row the status update writes; Nil when it writes none.
CatalogForStatus(cat, row, s) ==
    IF Accepting(row, s) THEN Incremented(cat)
    ELSE IF Releasing(row, s) THEN Decremented(cat)
    ELSE Nil

LockEnrollmentForStatus(t) ==
    LET e == req[t].enrollment
        s == req[t].status
        cat == catalog[req[t].catalog]
    IN
    /\ pc[t] = "lockEnrollment" /\ req[t].op = "setStatus"
    /\ enrollmentLock[e] = Nil
    /\ IF IsLive(e) /\ (Accepting(enrollment[e], s) => HasFreeSeat(cat))
       THEN /\ TakeEnrollmentLock(t)
            /\ write' = [write EXCEPT ![t] =
                            [catalog |-> CatalogForStatus(cat, enrollment[e], s),
                             enrollment |-> WithStatus(enrollment[e], s)]]
            /\ Goto(t, "commit")
            /\ UNCHANGED <<rows, catalogLock, req>>
       ELSE Rollback(t)

-----------------------------------------------------------------------------
(* CancelEnrollment: locks the enrollment, and the catalog only to         *)
(* decrement its count. A member cancels only their own (scope Nil: admin).*)

Cancel(t, e, scope) ==
    /\ IsLive(e)
    /\ scope \in {Nil, enrollment[e].user}
    /\ Begin(t, [NoRequest EXCEPT !.op = "cancel", !.enrollment = e, !.user = scope,
                                  !.catalog = enrollment[e].catalog],
             "lockEnrollment")

LockEnrollmentForCancel(t) ==
    LET e == req[t].enrollment IN
    /\ pc[t] = "lockEnrollment" /\ req[t].op = "cancel"
    /\ enrollmentLock[e] = Nil
    /\ IF IsLive(e)
       THEN /\ TakeEnrollmentLock(t)
            /\ write' = [write EXCEPT ![t].enrollment = Cancelled(enrollment[e])]
            /\ Goto(t, IF enrollment[e].status = "accepted" THEN "decrement" ELSE "commit")
            /\ UNCHANGED <<rows, catalogLock, req>>
       ELSE Rollback(t)

DecrementOnCancel(t) ==
    LET c == req[t].catalog IN
    /\ pc[t] = "decrement"
    /\ catalogLock[c] = Nil
    /\ TakeCatalogLock(t)
    /\ write' = [write EXCEPT ![t].catalog = Decremented(catalog[c])]
    /\ Goto(t, "commit")
    /\ UNCHANGED <<rows, enrollmentLock, req>>

-----------------------------------------------------------------------------
(* The catalog itself.                                                     *)

CreateCatalog(c, slots, status) ==
    /\ catalog[c] = Nil
    /\ catalog' = [catalog EXCEPT ![c] =
                      [max_slots |-> slots, training_status |-> status,
                       registered_count |-> 0, deleted |-> FALSE]]
    /\ UNCHANGED <<enrollment, locks, pc, req, write>>

\* Nil stands for a field the request does not give; one must be given.
EditCatalog(t, c, slots, status) ==
    /\ VisibleCatalog(c)
    /\ slots # Nil \/ status # Nil
    /\ Begin(t, [NoRequest EXCEPT !.op = "edit", !.catalog = c, !.max_slots = slots,
                                  !.training_status = status],
             "lockCatalog")

LockCatalogForEdit(t) ==
    LET c == req[t].catalog IN
    /\ pc[t] = "lockCatalog" /\ req[t].op = "edit"
    /\ catalogLock[c] = Nil
    /\ IF VisibleCatalog(c)
       THEN /\ TakeCatalogLock(t)
            /\ write' = [write EXCEPT ![t].catalog = Merged(catalog[c], req[t])]
            /\ Goto(t, "commit")
            /\ UNCHANGED <<rows, enrollmentLock, req>>
       ELSE Rollback(t)

\* One UPDATE statement, committed by itself: it waits for the row lock.
SoftDeleteCatalog(c) ==
    /\ VisibleCatalog(c)
    /\ catalogLock[c] = Nil
    /\ catalog' = [catalog EXCEPT ![c].deleted = TRUE]
    /\ UNCHANGED <<enrollment, locks, pc, req, write>>

-----------------------------------------------------------------------------
(* Waiting. PostgreSQL finds a cycle of waits and aborts one transaction   *)
(* of it; the code returns that error to the client without a retry.       *)

WaitsForCatalog(t) == pc[t] \in {"lockCatalog", "decrement"}
WaitsForEnrollment(t) == pc[t] \in {"lockEnrollment", "insert"}

WaitsFor(t, holder) ==
    \/ WaitsForCatalog(t) /\ catalogLock[req[t].catalog] = holder
    \/ WaitsForEnrollment(t) /\ enrollmentLock[req[t].enrollment] = holder

Deadlocked(t) == \E other \in Txns : WaitsFor(t, other) /\ WaitsFor(other, t)

DeadlockVictim(t) == Deadlocked(t) /\ Rollback(t)

-----------------------------------------------------------------------------
(* The specification.                                                      *)

Requests(t) ==
    \/ \E u \in Users, c \in Catalogs, e \in EnrollmentIDs : Enroll(t, u, c, e)
    \/ \E e \in EnrollmentIDs, s \in RequestedStatuses : SetStatus(t, e, s)
    \/ \E e \in EnrollmentIDs, scope \in Users \cup {Nil} : Cancel(t, e, scope)
    \/ \E c \in Catalogs, slots \in EditSlots \cup {Nil},
          status \in TrainingStatuses \cup {Nil} : EditCatalog(t, c, slots, status)

\* Statements that never wait.
Proceed(t) == CheckDuplicate(t) \/ CountActive(t) \/ Commit(t)

\* Statements that wait for a row lock.
WaitForCatalog(t) ==
    \/ LockCatalogForEnroll(t)
    \/ LockCatalogForStatus(t)
    \/ LockCatalogForEdit(t)
    \/ DecrementOnCancel(t)

WaitForEnrollment(t) ==
    \/ LockEnrollmentForStatus(t)
    \/ LockEnrollmentForCancel(t)
    \/ Insert(t)
    \/ InsertCollides(t)

CatalogAdmin ==
    \/ \E c \in Catalogs, slots \in NewSlots \cup {Nil}, status \in TrainingStatuses :
          CreateCatalog(c, slots, status)
    \/ \E c \in Catalogs : SoftDeleteCatalog(c)

Next ==
    \/ CatalogAdmin
    \/ \E t \in Txns : \/ Requests(t)
                       \/ Proceed(t)
                       \/ WaitForCatalog(t)
                       \/ WaitForEnrollment(t)
                       \/ DeadlockVictim(t)
                       \/ Abandon(t)

Spec == Init /\ [][Next]_vars

\* A connection keeps executing its request; PostgreSQL queues the waiters of a
\* row in arrival order, so one that finds the row free again and again gets it;
\* its deadlock detector breaks every cycle.
Fairness ==
    /\ \A t \in Txns : /\ WF_vars(Proceed(t))
                       /\ SF_vars(WaitForCatalog(t))
                       /\ SF_vars(WaitForEnrollment(t))
    /\ WF_vars(\E t \in Txns : DeadlockVictim(t))

FairSpec == Spec /\ Fairness

-----------------------------------------------------------------------------
(* Properties.                                                             *)

\* Every row, lock, request and uncommitted version has its type: a merge of a
\* partial update, a status change or a decrement never stores a NULL where the
\* column forbids one.
TypeOK ==
    /\ catalog \in [Catalogs -> CatalogRow \cup {Nil}]
    /\ enrollment \in [EnrollmentIDs -> EnrollmentRow \cup {Nil}]
    /\ catalogLock \in [Catalogs -> Txns \cup {Nil}]
    /\ enrollmentLock \in [EnrollmentIDs -> Txns \cup {Nil}]
    /\ pc \in [Txns -> Statements]
    /\ req \in [Txns -> Request]
    /\ write \in [Txns -> Write]

\* The stored registered_count of a catalog is exactly the number of its live
\* accepted enrollments in every committed state, whatever statements of
\* accepting, rejecting and cancelling requests interleave or roll back.
RegisteredCountExact ==
    \A c \in Catalogs : catalog[c] # Nil =>
        catalog[c].registered_count = Cardinality(AcceptedEnrollments(c))

\* The catalog lock and the duplicate SELECT already keep a second enrollment
\* of the same member out: no INSERT of CreateTrainingEnrollment ever meets a
\* live row, or another uncommitted one, for its member and catalog, so the
\* partial unique index never has to fire.
IndexIsBackstop ==
    \A t \in Txns : pc[t] = "insert" =>
        /\ LiveEnrollments(req[t].user, req[t].catalog) = {}
        /\ \A other \in Txns :
              write[other].enrollment # Nil /\ req[other].op = "enroll" =>
                  \/ req[other].user # req[t].user
                  \/ req[other].catalog # req[t].catalog

\* An enrollment is committed only into a catalog that at that moment is open
\* and not deleted, and only while the active enrollments, the new one
\* included, fit max_slots: the openness, duplicate and capacity checks made
\* several statements earlier are still true at COMMIT.
EnrollNeverOversells ==
    [][\A e \in EnrollmentIDs, c \in Catalogs :
          enrollment[e] = Nil /\ enrollment'[e] # Nil /\ enrollment'[e].catalog = c =>
              /\ VisibleCatalog(c)
              /\ IsOpenForEnrollment(catalog[c])
              /\ catalog[c].max_slots # Nil =>
                    Cardinality(ActiveEnrollments(c)') <= catalog[c].max_slots]_vars

\* A step that turns a live enrollment accepted leaves the catalog's accepted
\* enrollments within its max_slots: two concurrent acceptances never share the
\* last seat and an edit of max_slots is not missed.
AcceptNeverOversells ==
    [][\A e \in EnrollmentIDs, c \in Catalogs :
          /\ enrollment[e] # Nil /\ enrollment[e].catalog = c
          /\ enrollment[e].status # "accepted" /\ enrollment'[e].status = "accepted"
          /\ catalog[c].max_slots # Nil
          => Cardinality(AcceptedEnrollments(c)') <= catalog[c].max_slots]_vars

\* A cancelled enrollment is history: no later statement, of an administrator
\* who read it before the cancellation or of a second cancellation, changes it.
CancelledIsFinal ==
    [][\A e \in EnrollmentIDs :
          enrollment[e] # Nil /\ enrollment[e].deleted =>
              enrollment'[e] = enrollment[e]]_vars

\* What the service promises, without locks or a stored count.
LedgerOffer ==
    [c \in Catalogs |->
        IF catalog[c] = Nil THEN Nil
        ELSE [max_slots |-> catalog[c].max_slots,
              training_status |-> catalog[c].training_status,
              deleted |-> catalog[c].deleted]]

Ledger == INSTANCE SeatLedger WITH offer <- LedgerOffer

\* The committed rows change as if each request were one atomic step that finds
\* its seat free by looking at the rows.
ImplementsLedger == Ledger!Spec

\* Every request a connection takes up ends, by COMMIT or ROLLBACK, although
\* cancelling and updating a status take their locks in opposite orders.
RequestsFinish == \A t \in Txns : pc[t] # "idle" ~> pc[t] = "idle"

\* The claims of the documentation that the code does not keep.

\* "training_slots is never exceeded": the enrollments that reserve a seat,
\* pending or accepted, fit max_slots.
ActiveWithinSlots ==
    \A c \in Catalogs : catalog[c] # Nil /\ catalog[c].max_slots # Nil =>
        Cardinality(ActiveEnrollments(c)) <= catalog[c].max_slots

\* The same claim read of the accepted enrollments only.
AcceptedWithinSlots ==
    \A c \in Catalogs : catalog[c] # Nil /\ catalog[c].max_slots # Nil =>
        catalog[c].registered_count <= catalog[c].max_slots

\* "Free of race conditions": no two requests wait for each other, so that none
\* is aborted for a reason of its own timing.
NoDeadlock == \A t \in Txns : ~Deadlocked(t)
=============================================================================
