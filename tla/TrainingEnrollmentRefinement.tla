-------------------- MODULE TrainingEnrollmentRefinement --------------------
(***************************************************************************)
(* What single steps may do to the committed rows: the action properties   *)
(* of TrainingEnrollment, and that every step is a step of SeatLedger or   *)
(* changes nothing it sees.                                                *)
(***************************************************************************)
EXTENDS TrainingEnrollmentProofs

\* Only a COMMIT and the single-statement transactions touch committed rows.
LEMMA RowsChange ==
    ASSUME IInv, [Next]_vars
    PROVE  UNCHANGED rows \/ CatalogAdmin \/ \E t \in Txns : Commit(t)
<1>1. ASSUME NEW t \in Txns, Requests(t) PROVE UNCHANGED rows
  BY <1>1 DEF Requests, Enroll, SetStatus, Cancel, EditCatalog, Begin
<1>2. ASSUME NEW t \in Txns, CheckDuplicate(t) \/ CountActive(t) PROVE UNCHANGED rows
  BY <1>2 DEF CheckDuplicate, CountActive, Rollback
<1>3. ASSUME NEW t \in Txns, WaitForCatalog(t) PROVE UNCHANGED rows
  BY <1>3 DEF WaitForCatalog, LockCatalogForEnroll, LockCatalogForStatus, LockCatalogForEdit,
              DecrementOnCancel, Rollback
<1>4. ASSUME NEW t \in Txns, WaitForEnrollment(t) PROVE UNCHANGED rows
  BY <1>4 DEF WaitForEnrollment, LockEnrollmentForStatus, LockEnrollmentForCancel, Insert,
              InsertCollides, Rollback
<1>5. ASSUME NEW t \in Txns, DeadlockVictim(t) \/ Abandon(t) PROVE UNCHANGED rows
  BY <1>5 DEF DeadlockVictim, Abandon, Rollback
<1>6. QED
  BY <1>1, <1>2, <1>3, <1>4, <1>5 DEF Next, Proceed, vars, rows

LEMMA AdminKeepsEnrollments ==
    ASSUME CatalogAdmin
    PROVE  enrollment' = enrollment
BY DEF CatalogAdmin, CreateCatalog, SoftDeleteCatalog

LEMMA ActiveFinite ==
    ASSUME NEW c
    PROVE  /\ IsFiniteSet(ActiveEnrollments(c)) /\ IsFiniteSet(AcceptedEnrollments(c))
           /\ Cardinality(ActiveEnrollments(c)) \in Nat
           /\ Cardinality(AcceptedEnrollments(c)) \in Nat
<1>1. IsFiniteSet(ActiveEnrollments(c)) /\ IsFiniteSet(AcceptedEnrollments(c))
  BY ConstantsAssumption, FS_Subset DEF ActiveEnrollments, AcceptedEnrollments
<1>2. QED
  BY <1>1, FS_CardinalityType

LEMMA SlotsAreNumbers ==
    ASSUME IInv, NEW c \in Catalogs, catalog[c] # Nil
    PROVE  /\ catalog[c].max_slots # Nil => catalog[c].max_slots \in Nat
           /\ catalog[c].registered_count \in Int
BY ConstantsAssumption DEF IInv, TypeOK, CatalogRow, Slots

(***************************************************************************)
(* A cancelled enrollment never changes again.                             *)
(***************************************************************************)
LEMMA CommitKeepsDeleted ==
    ASSUME IInv, NEW t \in Txns, Commit(t), NEW e \in EnrollmentIDs,
           enrollment[e] # Nil, enrollment[e].deleted
    PROVE  enrollment'[e] = enrollment[e]
<1> SUFFICES ASSUME enrollment'[e] # enrollment[e] PROVE FALSE
  OBVIOUS
<1>1. e = req[t].enrollment /\ write[t].enrollment # Nil
  BY CommitRows
<1>2. enrollment[e] = Nil \/ IsLive(e)
  BY <1>1, CommitForms DEF CommitsEnroll, CommitsStatus, CommitsCancel, Cancelling, CommitsEdit
<1>3. QED
  BY <1>2 DEF IsLive

\* No step changes an enrollment that was cancelled, whichever requests were in
\* flight when it was.
THEOREM CancellationFinal == Spec => CancelledIsFinal
<1> DEFINE Final == \A e \in EnrollmentIDs :
               enrollment[e] # Nil /\ enrollment[e].deleted => enrollment'[e] = enrollment[e]
<1>1. ASSUME IInv, [Next]_vars PROVE [Final]_vars
  BY <1>1, RowsChange, AdminKeepsEnrollments, CommitKeepsDeleted DEF rows
<1>2. QED
  BY <1>1, Invariance, PTL DEF Spec, CancelledIsFinal

(***************************************************************************)
(* A new enrollment fits.                                                  *)
(***************************************************************************)
LEMMA CommitFits ==
    ASSUME IInv, NEW t \in Txns, Commit(t), NEW e \in EnrollmentIDs, NEW c \in Catalogs,
           enrollment[e] = Nil, enrollment'[e] # Nil, enrollment'[e].catalog = c
    PROVE  /\ VisibleCatalog(c)
           /\ IsOpenForEnrollment(catalog[c])
           /\ catalog[c].max_slots # Nil =>
                 Cardinality(ActiveEnrollments(c)') <= catalog[c].max_slots
<1>1. CommitsEnroll(t) /\ e = req[t].enrollment /\ c = req[t].catalog
  BY CommitNewEnrollment
<1>2. VisibleCatalog(c) /\ IsOpenForEnrollment(catalog[c]) /\ SeatFree(t)
  BY <1>1 DEF CommitsEnroll, Enrolling
<1>3. SUFFICES ASSUME catalog[c].max_slots # Nil
               PROVE  Cardinality(ActiveEnrollments(c)') <= catalog[c].max_slots
  BY <1>2
<1>4. Cardinality(ActiveEnrollments(c)) < catalog[c].max_slots
  BY <1>1, <1>2, <1>3 DEF SeatFree
<1>5. \A d \in EnrollmentIDs \ {e} : enrollment'[d] = enrollment[d]
  BY <1>1, CommitRows
<1>6. ActiveEnrollments(c)' \subseteq ActiveEnrollments(c) \cup {e}
  BY <1>5 DEF ActiveEnrollments, IsLive
<1>7. e \notin ActiveEnrollments(c)
  BY DEF ActiveEnrollments, IsLive
<1>8. /\ IsFiniteSet(ActiveEnrollments(c) \cup {e})
      /\ Cardinality(ActiveEnrollments(c) \cup {e}) = Cardinality(ActiveEnrollments(c)) + 1
  BY <1>7, ActiveFinite, FS_AddElement
<1>9. /\ IsFiniteSet(ActiveEnrollments(c)')
      /\ Cardinality(ActiveEnrollments(c)') <= Cardinality(ActiveEnrollments(c)) + 1
  BY <1>6, <1>8, FS_Subset
<1>10. Cardinality(ActiveEnrollments(c)') \in Nat /\ Cardinality(ActiveEnrollments(c)) \in Nat
  BY <1>9, ActiveFinite, FS_CardinalityType
<1>11. catalog[c].max_slots \in Nat
  BY <1>2, <1>3, SlotsAreNumbers DEF VisibleCatalog
<1>12. QED
  BY <1>4, <1>9, <1>10, <1>11

\* An enrollment is only ever committed into an open catalog that has room for
\* it, for any number of competing requests, cancellations and edits.
THEOREM EnrollmentFits == Spec => EnrollNeverOversells
<1> DEFINE Fit == \A e \in EnrollmentIDs, c \in Catalogs :
               enrollment[e] = Nil /\ enrollment'[e] # Nil /\ enrollment'[e].catalog = c =>
                   /\ VisibleCatalog(c)
                   /\ IsOpenForEnrollment(catalog[c])
                   /\ catalog[c].max_slots # Nil =>
                         Cardinality(ActiveEnrollments(c)') <= catalog[c].max_slots
<1>1. ASSUME IInv, [Next]_vars PROVE Fit
  <2>1. CASE enrollment' = enrollment
    BY <2>1
  <2>2. CASE \E t \in Txns : Commit(t)
    BY <1>1, <2>2, CommitFits
  <2>3. QED
    BY <1>1, <2>1, <2>2, RowsChange, AdminKeepsEnrollments DEF rows
<1> HIDE DEF Fit
<1>2. ASSUME IInv, [Next]_vars PROVE [Fit]_vars
  BY <1>1, <1>2
<1>3. QED
  BY <1>2, Invariance, PTL DEF Spec, EnrollNeverOversells, Fit

(***************************************************************************)
(* An acceptance fits.                                                     *)
(***************************************************************************)
LEMMA CommitAcceptFits ==
    ASSUME IInv, NEW t \in Txns, Commit(t), NEW e \in EnrollmentIDs, NEW c \in Catalogs,
           enrollment[e] # Nil, enrollment[e].catalog = c,
           enrollment[e].status # "accepted", enrollment'[e].status = "accepted",
           catalog[c].max_slots # Nil
    PROVE  Cardinality(AcceptedEnrollments(c)') <= catalog[c].max_slots
<1>1. /\ e = req[t].enrollment /\ write[t].enrollment # Nil
      /\ enrollment'[e] = write[t].enrollment /\ enrollment[e] \in EnrollmentRow
  BY CommitRows DEF IInv, TypeOK
<1>2. ~CommitsEnroll(t) /\ ~CommitsEdit(t)
  BY <1>1 DEF CommitsEnroll, CommitsEdit
<1>3. ~CommitsCancel(t)
  BY <1>1 DEF CommitsCancel, Cancelling, Cancelled, EnrollmentRow
<1>4. CommitsStatus(t)
  BY <1>2, <1>3, CommitForms
<1>5. /\ c = req[t].catalog /\ enrollment'[e] = WithStatus(enrollment[e], req[t].status)
      /\ Accepting(enrollment[e], req[t].status) => HasFreeSeat(catalog[c])
      /\ catalog[c] # Nil
  BY <1>1, <1>4 DEF CommitsStatus, HoldsEnrollment, HoldsCatalog, KnownEnrollment, KnownCatalog
<1>6. req[t].status = "accepted"
  BY <1>1, <1>5 DEF WithStatus, EnrollmentRow
<1>7. catalog[c].registered_count < catalog[c].max_slots
  BY <1>5, <1>6 DEF Accepting, HasFreeSeat
<1>8. catalog[c].registered_count = Cardinality(AcceptedEnrollments(c))
  BY <1>5 DEF IInv, RegisteredCountExact
<1>9. /\ catalog'[c].registered_count = Cardinality(AcceptedEnrollments(c)')
      /\ \/ catalog'[c].registered_count = catalog[c].registered_count
         \/ catalog'[c].registered_count = catalog[c].registered_count + 1
         \/ catalog'[c].registered_count = catalog[c].registered_count - 1
         \/ catalog[c].registered_count <= 0 /\ catalog'[c].registered_count = 0
  <2>1. \/ AcceptedKept(c)
        \/ AcceptedGains(c, req[t].enrollment)
        \/ AcceptedLoses(c, req[t].enrollment)
    BY <1>5, CommitCounts
  <2>2. catalog[c].registered_count \in Int
    BY <1>5, SlotsAreNumbers
  <2>3. QED
    BY <1>8, <2>1, <2>2, CountFollows DEF AcceptedKept, AcceptedGains, AcceptedLoses
<1>10. Cardinality(AcceptedEnrollments(c)) \in Nat /\ catalog[c].max_slots \in Nat
  BY <1>5, ActiveFinite, SlotsAreNumbers
<1>11. QED
  BY <1>7, <1>8, <1>9, <1>10

\* No acceptance takes a seat beyond max_slots, although the code compares the
\* stored count and not the rows.
THEOREM AcceptanceFits == Spec => AcceptNeverOversells
<1> DEFINE Fit == \A e \in EnrollmentIDs, c \in Catalogs :
               /\ enrollment[e] # Nil /\ enrollment[e].catalog = c
               /\ enrollment[e].status # "accepted" /\ enrollment'[e].status = "accepted"
               /\ catalog[c].max_slots # Nil
               => Cardinality(AcceptedEnrollments(c)') <= catalog[c].max_slots
<1>1. ASSUME IInv, [Next]_vars PROVE Fit
  <2>1. CASE enrollment' = enrollment
    BY <2>1
  <2>2. CASE \E t \in Txns : Commit(t)
    BY <1>1, <2>2, CommitAcceptFits
  <2>3. QED
    BY <1>1, <2>1, <2>2, RowsChange, AdminKeepsEnrollments DEF rows
<1> HIDE DEF Fit
<1>2. ASSUME IInv, [Next]_vars PROVE [Fit]_vars
  BY <1>1, <1>2
<1>3. QED
  BY <1>2, Invariance, PTL DEF Spec, AcceptNeverOversells, Fit

(***************************************************************************)
(* What does hold of the seats: the only ways past max_slots.              *)
(***************************************************************************)

\* The enrollments that reserve a seat, pending or accepted, are more than the seats.
Overbooked(c) ==
    /\ catalog[c] # Nil /\ catalog[c].max_slots # Nil
    /\ Cardinality(ActiveEnrollments(c)) > catalog[c].max_slots

\* The stored count of accepted enrollments is more than the seats.
Overfilled(c) ==
    /\ catalog[c] # Nil /\ catalog[c].max_slots # Nil
    /\ catalog[c].registered_count > catalog[c].max_slots

SlotsEdited(c) == catalog[c] # Nil /\ catalog'[c].max_slots # catalog[c].max_slots

\* The step gives a rejected enrollment its seat back.
Readmits(c) ==
    \E e \in EnrollmentIDs :
        /\ IsLive(e) /\ enrollment[e].catalog = c /\ enrollment[e].status = "rejected"
        /\ IsLive(e)' /\ enrollment'[e].status \in {"pending", "accepted"}

\* A catalog becomes overbooked only by an edit of its max_slots or by a decision that takes
\* back a rejection (UpdateStatus compares the accepted ones only, and those only when it
\* accepts): never by enrolling, however many members compete, nor by accepting a pending one.
OverbookedForCause ==
    [][\A c \in Catalogs : ~Overbooked(c) /\ Overbooked(c)' => SlotsEdited(c) \/ Readmits(c)]_vars

\* The accepted enrollments outgrow the seats only when an edit lowers max_slots: no
\* acceptance, retry or race of acceptances does it.
OverfilledForCause ==
    [][\A c \in Catalogs : ~Overfilled(c) /\ Overfilled(c)' => SlotsEdited(c)]_vars

\* A live enrollment is not cancelled: cancelling soft-deletes it in the same UPDATE.
LiveIsNotCancelled ==
    \A e \in EnrollmentIDs : IsLive(e) => enrollment[e].status # "cancelled"

LEMMA NotCancelledStep ==
    ASSUME IInv, LiveIsNotCancelled, [Next]_vars
    PROVE  LiveIsNotCancelled'
<1>1. CASE enrollment' = enrollment
  BY <1>1 DEF LiveIsNotCancelled, IsLive
<1>2. ASSUME NEW t \in Txns, Commit(t), NEW e \in EnrollmentIDs, IsLive(e)',
             enrollment'[e].status = "cancelled"
      PROVE  FALSE
  <2>1. enrollment'[e] # enrollment[e]
    BY <1>2 DEF LiveIsNotCancelled, IsLive
  <2>2. /\ e = req[t].enrollment /\ write[t].enrollment # Nil
        /\ enrollment'[e] = write[t].enrollment /\ enrollment[e] \in EnrollmentRow \cup {Nil}
    BY <1>2, <2>1, CommitRows DEF IInv, TypeOK
  <2>3. ~CommitsEnroll(t) /\ ~CommitsEdit(t)
    BY <1>2, <2>2 DEF CommitsEnroll, CommitsEdit
  <2>4. CASE CommitsStatus(t)
    <3>1. enrollment'[e] = WithStatus(enrollment[e], req[t].status) /\ enrollment[e] # Nil
      BY <2>2, <2>4 DEF CommitsStatus, IsLive
    <3>2. enrollment[e] \in EnrollmentRow
      BY <2>2, <3>1
    <3>3. WithStatus(enrollment[e], req[t].status).status = "cancelled" =>
              WithStatus(enrollment[e], req[t].status).deleted
      BY <3>2 DEF WithStatus, EnrollmentRow
    <3>4. QED
      BY <1>2, <3>1, <3>3 DEF IsLive
  <2>5. CASE CommitsCancel(t)
    <3>1. enrollment'[e] = Cancelled(enrollment[e]) /\ enrollment[e] # Nil
      BY <2>2, <2>5 DEF CommitsCancel, Cancelling, IsLive
    <3>2. enrollment[e] \in EnrollmentRow
      BY <2>2, <3>1
    <3>3. Cancelled(enrollment[e]).deleted
      BY <3>2 DEF Cancelled, EnrollmentRow
    <3>4. QED
      BY <1>2, <3>1, <3>3 DEF IsLive
  <2>6. QED
    BY <1>2, <2>3, <2>4, <2>5, CommitForms
<1>3. QED
  BY <1>1, <1>2, RowsChange, AdminKeepsEnrollments DEF rows, LiveIsNotCancelled

\* The rows that reserve a seat after a step: those that did, but for one that is new or is
\* taken back from a rejection.
LEMMA ActiveGrowsForCause ==
    ASSUME IInv, LiveIsNotCancelled, NEW t \in Txns, Commit(t), NEW c \in Catalogs, ~Readmits(c)
    PROVE  \A e \in ActiveEnrollments(c)' : e \in ActiveEnrollments(c) \/ enrollment[e] = Nil
<1> SUFFICES ASSUME NEW e \in EnrollmentIDs, e \in ActiveEnrollments(c)', enrollment[e] # Nil
             PROVE  e \in ActiveEnrollments(c)
  BY DEF ActiveEnrollments
<1>1. /\ IsLive(e)' /\ enrollment'[e].catalog = c
      /\ enrollment'[e].status \notin {"rejected", "cancelled"}
  BY DEF ActiveEnrollments
<1>2. IsLive(e) /\ enrollment[e].catalog = c
  BY <1>1, CommitKeepsEnrollments DEF IsLive
<1>3. enrollment'[e].status \in EnrollmentStatuses
  <2>1. enrollment'[e] \in EnrollmentRow
    BY <1>1, CommitTypes DEF TypeOK, IsLive
  <2>2. QED
    BY <2>1 DEF EnrollmentRow
<1>4. enrollment[e].status # "rejected"
  BY <1>1, <1>2, <1>3 DEF Readmits, EnrollmentStatuses
<1>5. QED
  BY <1>2, <1>4 DEF LiveIsNotCancelled, ActiveEnrollments

LEMMA CommitOverbooks ==
    ASSUME IInv, LiveIsNotCancelled, NEW t \in Txns, Commit(t), NEW c \in Catalogs,
           ~Overbooked(c), Overbooked(c)'
    PROVE  SlotsEdited(c) \/ Readmits(c)
<1> SUFFICES ASSUME ~SlotsEdited(c), ~Readmits(c) PROVE FALSE
  OBVIOUS
<1>1. catalog[c] # Nil
  BY CommitAddsNoCatalog DEF Overbooked
<1>2. catalog[c].max_slots # Nil /\ catalog'[c].max_slots = catalog[c].max_slots
  BY <1>1 DEF SlotsEdited, Overbooked
<1>3. PICK m \in Nat : m = catalog[c].max_slots
  BY <1>1, <1>2, SlotsAreNumbers
<1>4. Cardinality(ActiveEnrollments(c)') > m /\ ~(Cardinality(ActiveEnrollments(c)) > m)
  BY <1>1, <1>2, <1>3 DEF Overbooked
<1>5. CASE \E e \in ActiveEnrollments(c)' : enrollment[e] = Nil
  <2>1. PICK e \in EnrollmentIDs :
            enrollment[e] = Nil /\ enrollment'[e] # Nil /\ enrollment'[e].catalog = c
    BY <1>5 DEF ActiveEnrollments, IsLive
  <2>2. Cardinality(ActiveEnrollments(c)') <= m
    BY <1>2, <1>3, <2>1, CommitFits
  <2>3. Cardinality(ActiveEnrollments(c)') \in Nat
    BY ConstantsAssumption, FS_Subset, FS_CardinalityType DEF ActiveEnrollments
  <2>4. QED
    BY <1>4, <2>2, <2>3
<1>6. CASE \A e \in ActiveEnrollments(c)' : enrollment[e] # Nil
  <2>1. ActiveEnrollments(c)' \subseteq ActiveEnrollments(c)
    BY <1>6, ActiveGrowsForCause
  <2>2. PICK a \in Nat, b \in Nat :
            /\ a = Cardinality(ActiveEnrollments(c)') /\ b = Cardinality(ActiveEnrollments(c))
            /\ a <= b
    BY <2>1, ActiveFinite, FS_Subset, FS_CardinalityType
  <2>3. QED
    BY <1>4, <2>2
<1>7. QED
  BY <1>5, <1>6

LEMMA CommitOverfills ==
    ASSUME IInv, NEW t \in Txns, Commit(t), NEW c \in Catalogs, ~Overfilled(c), Overfilled(c)'
    PROVE  SlotsEdited(c)
<1> SUFFICES ASSUME ~SlotsEdited(c) PROVE FALSE
  OBVIOUS
<1>1. catalog[c] # Nil
  BY CommitAddsNoCatalog DEF Overfilled
<1>2. catalog[c].max_slots # Nil /\ catalog'[c].max_slots = catalog[c].max_slots
  BY <1>1 DEF SlotsEdited, Overfilled
<1>3. PICK m \in Nat, n \in Int : m = catalog[c].max_slots /\ n = catalog[c].registered_count
  BY <1>1, <1>2, SlotsAreNumbers
<1>4. catalog'[c].registered_count > m /\ ~(n > m)
  BY <1>1, <1>2, <1>3 DEF Overfilled
<1>5. CASE AcceptedKept(c)
  BY <1>3, <1>4, <1>5 DEF AcceptedKept
<1>6. CASE AcceptedLoses(c, req[t].enrollment)
  <2>1. catalog'[c].registered_count = IF n > 0 THEN n - 1 ELSE 0
    BY <1>3, <1>6 DEF AcceptedLoses
  <2>2. QED
    BY <1>3, <1>4, <2>1
<1>7. CASE AcceptedGains(c, req[t].enrollment)
  <2>1. PICK e : e = req[t].enrollment
    OBVIOUS
  <2>2. e \in EnrollmentIDs /\ e \in AcceptedEnrollments(c)' /\ e \notin AcceptedEnrollments(c)
    BY <1>7, <2>1 DEF AcceptedGains, AcceptedEnrollments
  <2>3. /\ IsLive(e)' /\ enrollment'[e].catalog = c /\ enrollment'[e].status = "accepted"
    BY <2>2 DEF AcceptedEnrollments
  <2>4. enrollment[e] # Nil
    <3>1. SUFFICES ASSUME enrollment[e] = Nil PROVE FALSE
      OBVIOUS
    <3>2. enrollment'[e] # Nil
      BY <2>3 DEF IsLive
    <3>3. enrollment'[e] = [user |-> req[t].user, catalog |-> req[t].catalog,
                            status |-> "pending", deleted |-> FALSE]
      BY <2>2, <3>1, <3>2, CommitNewEnrollment
    <3>4. enrollment'[e].status = "pending"
      BY <3>3
    <3>5. QED
      BY <2>3, <3>4
  <2>5. enrollment[e].catalog = c /\ enrollment[e].status # "accepted"
    BY <2>2, <2>3, <2>4, CommitKeepsEnrollments DEF AcceptedEnrollments, IsLive
  <2>6. Cardinality(AcceptedEnrollments(c)') <= m
    BY <1>2, <1>3, <2>2, <2>3, <2>4, <2>5, CommitAcceptFits
  <2>7. /\ catalog'[c].registered_count = Cardinality(AcceptedEnrollments(c)')
        /\ catalog'[c].registered_count = n + 1
    <3>1. catalog'[c] # Nil /\ RegisteredCountExact'
      BY <1>1, CommitKeepsCatalogs, CommitStep DEF IInv
    <3>2. QED
      BY <1>3, <1>7, <3>1 DEF RegisteredCountExact, AcceptedGains
  <2>8. QED
    BY <1>3, <1>4, <2>6, <2>7
<1>8. QED
  BY <1>1, <1>5, <1>6, <1>7, CommitCounts

\* A new catalog has no enrollments, and deleting one leaves its seats.
LEMMA AdminBooksNothing ==
    ASSUME IInv, CatalogAdmin, NEW c \in Catalogs
    PROVE  /\ ~Overbooked(c) => ~Overbooked(c)'
           /\ ~Overfilled(c) => ~Overfilled(c)'
<1>1. ActiveEnrollments(c)' = ActiveEnrollments(c)
  BY AdminKeepsEnrollments DEF ActiveEnrollments, IsLive
<1>2. CASE catalog'[c] = catalog[c]
  BY <1>1, <1>2 DEF Overbooked, Overfilled
<1>3. ASSUME NEW slots \in NewSlots \cup {Nil}, NEW status \in TrainingStatuses,
             CreateCatalog(c, slots, status), catalog'[c].max_slots # Nil
      PROVE  ~Overbooked(c)' /\ ~Overfilled(c)'
  <2>1. catalog[c] = Nil /\ catalog'[c] = [max_slots |-> slots, training_status |-> status,
                                           registered_count |-> 0, deleted |-> FALSE]
    BY <1>3 DEF CreateCatalog, IInv, TypeOK
  <2>2. catalog'[c].max_slots = slots /\ catalog'[c].registered_count = 0
    BY <2>1
  <2>3. slots \in Nat
    BY <1>3, <2>2, ConstantsAssumption
  <2>4. ActiveEnrollments(c) = {}
    BY <2>1 DEF ActiveEnrollments, IsLive, IInv, RowsKnown
  <2>5. Cardinality(ActiveEnrollments(c)') = 0
    BY <1>1, <2>4, FS_EmptySet
  <2>6. QED
    BY <2>2, <2>3, <2>5 DEF Overbooked, Overfilled
<1>4. CASE SoftDeleteCatalog(c)
  <2>1. catalog[c] # Nil /\ catalog[c] \in CatalogRow
    BY <1>4 DEF SoftDeleteCatalog, VisibleCatalog, IInv, TypeOK
  <2>2. /\ catalog'[c].max_slots = catalog[c].max_slots
        /\ catalog'[c].registered_count = catalog[c].registered_count
    BY <1>4, <2>1 DEF SoftDeleteCatalog, IInv, TypeOK, CatalogRow
  <2>3. QED
    BY <1>1, <2>1, <2>2 DEF Overbooked, Overfilled
<1>5. \/ catalog'[c] = catalog[c] \/ SoftDeleteCatalog(c)
      \/ \E slots \in NewSlots \cup {Nil}, status \in TrainingStatuses :
             CreateCatalog(c, slots, status)
  BY DEF CatalogAdmin, CreateCatalog, SoftDeleteCatalog, IInv, TypeOK
<1>6. QED
  BY <1>2, <1>3, <1>4, <1>5 DEF Overbooked, Overfilled

\* No competition of enrollments, decisions and edits overbooks a catalog but by an edit of
\* its seats or by taking back a rejection.
THEOREM OverbookingExplained == Spec => OverbookedForCause
<1> DEFINE Explained == \A c \in Catalogs :
               ~Overbooked(c) /\ Overbooked(c)' => SlotsEdited(c) \/ Readmits(c)
<1>1. ASSUME IInv, LiveIsNotCancelled, [Next]_vars PROVE Explained
  <2>1. CASE UNCHANGED rows
    BY <2>1 DEF rows, Overbooked, ActiveEnrollments, IsLive
  <2>2. CASE CatalogAdmin
    BY <1>1, <2>2, AdminBooksNothing
  <2>3. CASE \E t \in Txns : Commit(t)
    BY <1>1, <2>3, CommitOverbooks
  <2>4. QED
    BY <1>1, <2>1, <2>2, <2>3, RowsChange
<1> HIDE DEF Explained
<1>2. Init => LiveIsNotCancelled
  BY DEF Init, LiveIsNotCancelled, IsLive
<1>3. IInv /\ LiveIsNotCancelled /\ [Next]_vars => LiveIsNotCancelled'
  BY NotCancelledStep
<1>4. ASSUME IInv, LiveIsNotCancelled, [Next]_vars PROVE [Explained]_vars
  BY <1>1, <1>4
<1>5. QED
  BY <1>2, <1>3, <1>4, Invariance, PTL DEF Spec, OverbookedForCause, Explained

\* No acceptance, and nothing else but an edit of max_slots, makes the accepted more than
\* the seats.
THEOREM OverfillingExplained == Spec => OverfilledForCause
<1> DEFINE Explained == \A c \in Catalogs : ~Overfilled(c) /\ Overfilled(c)' => SlotsEdited(c)
<1>1. ASSUME IInv, [Next]_vars PROVE Explained
  <2>1. CASE UNCHANGED rows
    BY <2>1 DEF rows, Overfilled
  <2>2. CASE CatalogAdmin
    BY <1>1, <2>2, AdminBooksNothing
  <2>3. CASE \E t \in Txns : Commit(t)
    BY <1>1, <2>3, CommitOverfills
  <2>4. QED
    BY <1>1, <2>1, <2>2, <2>3, RowsChange
<1> HIDE DEF Explained
<1>2. ASSUME IInv, [Next]_vars PROVE [Explained]_vars
  BY <1>1, <1>2
<1>3. QED
  BY <1>2, Invariance, PTL DEF Spec, OverfilledForCause, Explained

(***************************************************************************)
(* Every step is a step of SeatLedger, or leaves what it sees unchanged.   *)
(***************************************************************************)
LEMMA LedgerCardinality ==
    ASSUME NEW S
    PROVE  Ledger!Cardinality(S) = Cardinality(S)
BY Zenon DEF Ledger!Cardinality, Cardinality

LEMMA LedgerSets ==
    ASSUME NEW c
    PROVE  Ledger!Enrolled(c, {"accepted"}) = AcceptedEnrollments(c)
BY DEF Ledger!Enrolled, Ledger!Live, AcceptedEnrollments, IsLive

LEMMA LedgerActive ==
    ASSUME IInv, NEW c
    PROVE  Ledger!Enrolled(c, {"pending", "accepted"}) = ActiveEnrollments(c)
BY DEF Ledger!Enrolled, Ledger!Live, ActiveEnrollments, IsLive, IInv, TypeOK, EnrollmentRow,
       EnrollmentStatuses

LEMMA OfferOf ==
    ASSUME NEW c \in Catalogs
    PROVE  LedgerOffer[c] = IF catalog[c] = Nil THEN Nil
                            ELSE [max_slots |-> catalog[c].max_slots,
                                  training_status |-> catalog[c].training_status,
                                  deleted |-> catalog[c].deleted]
BY DEF LedgerOffer

LEMMA OfferFields ==
    ASSUME IInv, NEW c \in Catalogs, catalog[c] # Nil
    PROVE  /\ LedgerOffer[c] # Nil
           /\ LedgerOffer[c].max_slots = catalog[c].max_slots
           /\ LedgerOffer[c].training_status = catalog[c].training_status
           /\ LedgerOffer[c].deleted = catalog[c].deleted
           /\ LedgerOffer[c] \in Offer
<1> DEFINE seen == [max_slots |-> catalog[c].max_slots,
                    training_status |-> catalog[c].training_status,
                    deleted |-> catalog[c].deleted]
<1>1. LedgerOffer[c] = seen
  BY OfferOf
<1>2. catalog[c] \in CatalogRow
  BY DEF IInv, TypeOK
<1>3. seen \in Offer
  BY <1>2 DEF CatalogRow, Offer
<1>4. QED
  BY <1>1, <1>3, NilIsNoRow

LEMMA SameOffer ==
    ASSUME NEW a \in Offer, NEW b \in Offer, a.max_slots = b.max_slots,
           a.training_status = b.training_status, a.deleted = b.deleted
    PROVE  a = b
BY DEF Offer

\* A member sees no difference when only the stored count of a catalog changes.
LEMMA OfferKept ==
    ASSUME \A c \in Catalogs :
              \/ catalog'[c] = catalog[c]
              \/ /\ catalog[c] # Nil /\ catalog'[c] # Nil
                 /\ catalog'[c].max_slots = catalog[c].max_slots
                 /\ catalog'[c].training_status = catalog[c].training_status
                 /\ catalog'[c].deleted = catalog[c].deleted
    PROVE  LedgerOffer' = LedgerOffer
BY DEF LedgerOffer

LEMMA PublishStep ==
    ASSUME IInv, NEW c \in Catalogs, NEW slots \in NewSlots \cup {Nil},
           NEW status \in TrainingStatuses, CreateCatalog(c, slots, status)
    PROVE  Ledger!Publish(c, slots, status)
<1> DEFINE row == [max_slots |-> slots, training_status |-> status,
                   registered_count |-> 0, deleted |-> FALSE]
           new == [max_slots |-> slots, training_status |-> status, deleted |-> FALSE]
<1>1. catalog[c] = Nil /\ catalog' = [catalog EXCEPT ![c] = row] /\ enrollment' = enrollment
  BY DEF CreateCatalog
<1>2. row \in CatalogRow
  BY DEF CatalogRow, Slots
<1>3. row # Nil
  BY <1>2, NilIsNoRow
<1>4. row.max_slots = slots /\ row.training_status = status /\ row.deleted = FALSE
  OBVIOUS
<1> HIDE DEF row
<1>5. catalog'[c] = row /\ \A d \in Catalogs \ {c} : catalog'[d] = catalog[d]
  BY <1>1 DEF IInv, TypeOK
<1>6. LedgerOffer[c] = Nil
  BY <1>1, OfferOf
<1>7. LedgerOffer' = [LedgerOffer EXCEPT ![c] = new]
  BY <1>3, <1>4, <1>5 DEF LedgerOffer
<1>8. QED
  BY <1>1, <1>6, <1>7 DEF Ledger!Publish

LEMMA WithdrawStep ==
    ASSUME IInv, NEW c \in Catalogs, SoftDeleteCatalog(c)
    PROVE  Ledger!Withdraw(c)
<1> DEFINE row == [catalog[c] EXCEPT !.deleted = TRUE]
<1>1. /\ catalog[c] # Nil /\ ~catalog[c].deleted /\ catalog[c] \in CatalogRow
      /\ catalog' = [catalog EXCEPT ![c] = row] /\ enrollment' = enrollment
  BY DEF SoftDeleteCatalog, VisibleCatalog, IInv, TypeOK
<1>2. /\ row \in CatalogRow /\ row.max_slots = catalog[c].max_slots
      /\ row.training_status = catalog[c].training_status /\ row.deleted
  BY <1>1 DEF CatalogRow
<1>3. row # Nil
  BY <1>2, NilIsNoRow
<1> HIDE DEF row
<1>4. catalog'[c] = row /\ \A d \in Catalogs \ {c} : catalog'[d] = catalog[d]
  BY <1>1 DEF IInv, TypeOK
<1>5. LedgerOffer[c] # Nil /\ ~LedgerOffer[c].deleted
  BY <1>1, OfferFields
<1>6. LedgerOffer' = [LedgerOffer EXCEPT ![c].deleted = TRUE]
  <2>1. LedgerOffer'[c] = [LedgerOffer[c] EXCEPT !.deleted = TRUE]
    <3>1. LedgerOffer'[c] = [max_slots |-> catalog[c].max_slots,
                             training_status |-> catalog[c].training_status,
                             deleted |-> TRUE]
      BY <1>2, <1>3, <1>4 DEF LedgerOffer, CatalogRow
    <3>2. LedgerOffer'[c] \in Offer
      BY <1>1, <3>1 DEF Offer, CatalogRow
    <3>3. /\ LedgerOffer[c] \in Offer /\ LedgerOffer[c].max_slots = catalog[c].max_slots
          /\ LedgerOffer[c].training_status = catalog[c].training_status
      BY <1>1, OfferFields
    <3>4. PICK new : new = [LedgerOffer[c] EXCEPT !.deleted = TRUE]
      OBVIOUS
    <3>5. /\ new \in Offer /\ new.deleted = TRUE
          /\ new.max_slots = LedgerOffer[c].max_slots
          /\ new.training_status = LedgerOffer[c].training_status
      BY <3>3, <3>4 DEF Offer
    <3>6. PICK o : o = LedgerOffer'[c]
      OBVIOUS
    <3>7. /\ o \in Offer /\ o.deleted = TRUE /\ o.max_slots = new.max_slots
          /\ o.training_status = new.training_status
      BY <3>1, <3>2, <3>3, <3>5, <3>6
    <3>8. o = new
      BY <3>5, <3>7, SameOffer
    <3>9. QED
      BY <3>4, <3>6, <3>8
  <2>2. \A d \in Catalogs \ {c} : LedgerOffer'[d] = LedgerOffer[d]
    BY <1>4 DEF LedgerOffer
  <2>3. QED
    BY <2>1, <2>2 DEF LedgerOffer
<1>7. QED
  BY <1>1, <1>5, <1>6 DEF Ledger!Withdraw

LEMMA ReserveStep ==
    ASSUME IInv, NEW t \in Txns, Commit(t), CommitsEnroll(t)
    PROVE  Ledger!Reserve(req[t].user, req[t].catalog, req[t].enrollment)
<1> DEFINE c == req[t].catalog
           e == req[t].enrollment
           row == [user |-> req[t].user, catalog |-> c, status |-> "pending", deleted |-> FALSE]
<1>1. /\ req[t].user \in Users /\ c \in Catalogs /\ e \in EnrollmentIDs
      /\ catalog[c] # Nil /\ ~catalog[c].deleted
      /\ catalog[c].training_status \in {"planned", "ongoing"}
      /\ enrollment[e] = Nil /\ NoDuplicate(t) /\ SeatFree(t)
      /\ write[t].catalog = Nil /\ write[t].enrollment = row
  BY DEF CommitsEnroll, Enrolling, HoldsCatalog, KnownCatalog, VisibleCatalog,
         IsOpenForEnrollment
<1>2. row # Nil
  BY <1>1, NewEnrollmentRow, NilIsNoRow
<1> HIDE DEF row
<1>3. catalog' = catalog /\ enrollment' = [enrollment EXCEPT ![e] = row]
  BY <1>1, <1>2 DEF Commit
<1>4. Ledger!Open(c)
  BY <1>1, OfferFields DEF Ledger!Open
<1>5. \A d \in EnrollmentIDs : Ledger!Live(d) =>
           enrollment[d].user # req[t].user \/ enrollment[d].catalog # c
  BY <1>1 DEF NoDuplicate, LiveEnrollments, IsLive, Ledger!Live
<1>6. Ledger!Fits(c, {"pending", "accepted"})
  <2>1. Ledger!Enrolled(c, {"pending", "accepted"}) = ActiveEnrollments(c)
    BY LedgerActive
  <2>2. LedgerOffer[c].max_slots = catalog[c].max_slots
    BY <1>1, OfferFields
  <2> HIDE DEF c
  <2>3. QED
    BY <1>1, <2>1, <2>2, LedgerCardinality DEF Ledger!Fits, SeatFree, c
<1>7. LedgerOffer' = LedgerOffer
  BY <1>3 DEF LedgerOffer
<1>8. QED
  BY <1>1, <1>3, <1>4, <1>5, <1>6, <1>7 DEF Ledger!Reserve, row

LEMMA ReviseStep ==
    ASSUME IInv, NEW t \in Txns, Commit(t), CommitsEdit(t)
    PROVE  Ledger!Next
<1> DEFINE c == req[t].catalog
           row == Merged(catalog[c], req[t])
<1>1. /\ c \in Catalogs /\ catalog[c] # Nil /\ ~catalog[c].deleted
      /\ catalog[c] \in CatalogRow /\ req[t] \in Request
      /\ write[t].catalog = row /\ write[t].enrollment = Nil
  BY DEF CommitsEdit, HoldsCatalog, KnownCatalog, VisibleCatalog, IInv, TypeOK
<1>2. row \in CatalogRow
  BY <1>1, CatalogRowUpdates
<1>3. row.deleted = catalog[c].deleted
  BY <1>1 DEF Merged, CatalogRow
<1> HIDE DEF row
<1>4. row # Nil
  BY <1>2, NilIsNoRow
<1>5. catalog'[c] = row /\ \A d \in Catalogs \ {c} : catalog'[d] = catalog[d]
  BY <1>1, <1>4, CommitRows
<1>6. enrollment' = enrollment
  BY <1>1 DEF Commit
<1>7. LedgerOffer[c] # Nil /\ ~LedgerOffer[c].deleted
  BY <1>1, OfferFields
<1>8. LedgerOffer' = [LedgerOffer EXCEPT ![c].max_slots = row.max_slots,
                                         ![c].training_status = row.training_status]
  <2>1. LedgerOffer'[c] = [max_slots |-> row.max_slots,
                           training_status |-> row.training_status,
                           deleted |-> catalog[c].deleted]
    BY <1>1, <1>3, <1>4, <1>5 DEF LedgerOffer
  <2>2. /\ LedgerOffer'[c] \in Offer /\ LedgerOffer[c] \in Offer
        /\ LedgerOffer[c].deleted = catalog[c].deleted
    BY <1>1, <1>2, <2>1, OfferFields DEF Offer, CatalogRow
  <2>3. \A d \in Catalogs \ {c} : LedgerOffer'[d] = LedgerOffer[d]
    BY <1>5 DEF LedgerOffer
  <2> DEFINE new == [LedgerOffer[c] EXCEPT !.max_slots = row.max_slots,
                                           !.training_status = row.training_status]
  <2>4. /\ new \in Offer /\ new.max_slots = row.max_slots
        /\ new.training_status = row.training_status /\ new.deleted = LedgerOffer[c].deleted
    <3>1. PICK a, b : a = row.max_slots /\ b = row.training_status
      OBVIOUS
    <3>2. a \in Slots \cup {Nil} /\ b \in TrainingStatuses
      BY <1>2, <3>1 DEF CatalogRow
    <3>3. PICK o \in Offer : o = LedgerOffer[c]
      BY <2>2
    <3>4. /\ [o EXCEPT !.max_slots = a, !.training_status = b] \in Offer
          /\ [o EXCEPT !.max_slots = a, !.training_status = b].max_slots = a
          /\ [o EXCEPT !.max_slots = a, !.training_status = b].training_status = b
          /\ [o EXCEPT !.max_slots = a, !.training_status = b].deleted = o.deleted
      BY <3>2 DEF Offer
    <3>5. QED
      BY <3>1, <3>3, <3>4
  <2>5. LedgerOffer'[c] = new
    <3>1. PICK o, n : o = LedgerOffer'[c] /\ n = new
      OBVIOUS
    <3>2. /\ o \in Offer /\ o.max_slots = row.max_slots
          /\ o.training_status = row.training_status /\ o.deleted = catalog[c].deleted
      BY <2>1, <2>2, <3>1
    <3>3. /\ n \in Offer /\ n.max_slots = row.max_slots
          /\ n.training_status = row.training_status /\ n.deleted = catalog[c].deleted
      BY <2>2, <2>4, <3>1
    <3>4. o = n
      BY <3>2, <3>3, SameOffer
    <3>5. QED
      BY <3>1, <3>4
  <2> HIDE DEF new
  <2>6. LedgerOffer' = [LedgerOffer EXCEPT ![c] = new]
    <3>1. /\ LedgerOffer = [d \in Catalogs |-> LedgerOffer[d]]
          /\ LedgerOffer' = [d \in Catalogs |-> LedgerOffer'[d]]
      BY DEF LedgerOffer
    <3>2. QED
      BY <1>1, <2>3, <2>5, <3>1
  <2>7. QED
    BY <1>1, <2>6 DEF new, LedgerOffer
<1>9. row.max_slots \in EditSlots \cup {LedgerOffer[c].max_slots}
  <2>1. row.max_slots \in EditSlots \cup {catalog[c].max_slots}
    <3>1. row.max_slots = IF req[t].max_slots = Nil THEN catalog[c].max_slots
                          ELSE req[t].max_slots
      BY <1>1 DEF row, Merged, CatalogRow
    <3>2. QED
      BY <1>1, <3>1 DEF Request
  <2>2. QED
    BY <1>1, <2>1, OfferFields
<1>10. Ledger!Revise(c, row.max_slots, row.training_status)
  BY <1>6, <1>7, <1>8, <1>9 DEF Ledger!Revise
<1>11. QED
  BY <1>1, <1>2, <1>10 DEF Ledger!Next, CatalogRow, Slots

LEMMA DecideStep ==
    ASSUME IInv, NEW t \in Txns, Commit(t), CommitsStatus(t) \/ CommitsCancel(t)
    PROVE  Ledger!Next
<1> DEFINE c == req[t].catalog
           e == req[t].enrollment
<1>1. /\ e \in EnrollmentIDs /\ enrollment[e] # Nil /\ ~enrollment[e].deleted
      /\ enrollment[e].catalog = c /\ c \in Catalogs /\ catalog[c] # Nil
      /\ enrollment[e] \in EnrollmentRow /\ catalog[c] \in CatalogRow
  BY DEF CommitsStatus, CommitsCancel, Cancelling, HoldsEnrollment, HoldsCatalog, KnownCatalog,
         KnownEnrollment, IsLive, IInv, TypeOK
<1>2. write[t].catalog \in {Nil, Incremented(catalog[c]), Decremented(catalog[c])}
  BY DEF CommitsStatus, CommitsCancel, CatalogForStatus
<1>3. LedgerOffer' = LedgerOffer
  <2>1. \A row \in {Incremented(catalog[c]), Decremented(catalog[c])} :
           /\ row.max_slots = catalog[c].max_slots
           /\ row.training_status = catalog[c].training_status
           /\ row.deleted = catalog[c].deleted
    BY <1>1 DEF Incremented, Decremented, CatalogRow
  <2>2. ASSUME NEW d \in Catalogs, catalog'[d] # catalog[d]
        PROVE  /\ catalog[d] # Nil /\ catalog'[d] # Nil
               /\ catalog'[d].max_slots = catalog[d].max_slots
               /\ catalog'[d].training_status = catalog[d].training_status
               /\ catalog'[d].deleted = catalog[d].deleted
    <3>1. d = c /\ catalog'[c] = write[t].catalog /\ write[t].catalog # Nil
      BY <2>2, CommitRows
    <3>2. QED
      BY <1>1, <1>2, <2>1, <3>1
  <2>3. QED
    BY <2>2, OfferKept
<1>4. ASSUME NEW s \in EnrollmentStatuses, NEW new,
             new.status = s, write[t].enrollment = new,
             new = [enrollment[e] EXCEPT !.status = s, !.deleted = (s = "cancelled")]
      PROVE  enrollment' = [enrollment EXCEPT ![e].status = s, ![e].deleted = (s = "cancelled")]
  <2>1. new \in EnrollmentRow
    BY <1>1, <1>4 DEF EnrollmentRow
  <2>2. new # Nil
    BY <2>1, NilIsNoRow
  <2>3. enrollment' = [enrollment EXCEPT ![e] = new]
    BY <1>4, <2>2 DEF Commit
  <2>4. QED
    BY <1>4, <2>3 DEF IInv, TypeOK
<1>5. Ledger!Live(e)
  BY <1>1 DEF Ledger!Live
<1>6. CASE CommitsCancel(t)
  <2>1. write[t].enrollment = Cancelled(enrollment[e])
    BY <1>6 DEF CommitsCancel, Cancelling
  <2>2. /\ Cancelled(enrollment[e]).status = "cancelled"
        /\ Cancelled(enrollment[e])
              = [enrollment[e] EXCEPT !.status = "cancelled",
                                      !.deleted = ("cancelled" = "cancelled")]
    BY <1>1 DEF Cancelled, EnrollmentRow
  <2>3. Ledger!Decide(e, "cancelled")
    BY <1>3, <1>4, <1>5, <2>1, <2>2 DEF Ledger!Decide, EnrollmentStatuses
  <2>4. QED
    BY <1>1, <2>3 DEF Ledger!Next
<1>7. CASE CommitsStatus(t)
  <2> DEFINE s == req[t].status
  <2>1. /\ write[t].enrollment = WithStatus(enrollment[e], s)
        /\ s \in RequestedStatuses /\ s \in EnrollmentStatuses
        /\ Accepting(enrollment[e], s) => HasFreeSeat(catalog[c])
    BY <1>7, ConstantsAssumption DEF CommitsStatus
  <2>2. /\ WithStatus(enrollment[e], s).status = s
        /\ WithStatus(enrollment[e], s)
              = [enrollment[e] EXCEPT !.status = s, !.deleted = (s = "cancelled")]
    BY <1>1 DEF WithStatus, EnrollmentRow
  <2>3. s = "accepted" /\ enrollment[e].status # "accepted" => Ledger!Fits(c, {"accepted"})
    <3>1. catalog[c].registered_count = Cardinality(Ledger!Enrolled(c, {"accepted"}))
      BY <1>1, LedgerSets DEF IInv, RegisteredCountExact
    <3>2. QED
      <4>1. LedgerOffer[c].max_slots = catalog[c].max_slots
        BY <1>1, OfferFields
      <4>2. QED
        BY <2>1, <3>1, <4>1, LedgerCardinality DEF Accepting, HasFreeSeat, Ledger!Fits
  <2>4. Ledger!Decide(e, s)
    BY <1>1, <1>3, <1>4, <1>5, <2>1, <2>2, <2>3 DEF Ledger!Decide
  <2>5. QED
    BY <1>1, <2>1, <2>4 DEF Ledger!Next
<1>8. QED
  BY <1>6, <1>7

LEMMA LedgerStep ==
    ASSUME IInv, [Next]_vars
    PROVE  [Ledger!Next]_(Ledger!vars)
<1>1. CASE UNCHANGED rows
  BY <1>1 DEF rows, Ledger!vars, LedgerOffer
<1>2. CASE CatalogAdmin
  BY <1>2, PublishStep, WithdrawStep DEF CatalogAdmin, Ledger!Next
<1>3. ASSUME NEW t \in Txns, Commit(t) PROVE Ledger!Next
  <2>1. CASE CommitsEnroll(t)
    BY <1>3, <2>1, ReserveStep DEF Ledger!Next, CommitsEnroll, Enrolling, HoldsCatalog,
                                   KnownCatalog
  <2>2. CASE CommitsEdit(t)
    BY <1>3, <2>2, ReviseStep
  <2>3. CASE CommitsStatus(t) \/ CommitsCancel(t)
    BY <1>3, <2>3, DecideStep
  <2>4. QED
    BY <1>3, <2>1, <2>2, <2>3, CommitForms
<1>4. QED
  BY <1>1, <1>2, <1>3, RowsChange

\* The interleaved, locking transactions implement the ledger in which every
\* request takes effect at once and seats are counted from the rows.
THEOREM Refinement == Spec => ImplementsLedger
<1>1. Init => Ledger!Init
  BY DEF Init, Ledger!Init, LedgerOffer
<1>2. IInv /\ [Next]_vars => [Ledger!Next]_(Ledger!vars)
  BY LedgerStep
<1>3. QED
  BY <1>1, <1>2, Invariance, PTL DEF Spec, ImplementsLedger, Ledger!Spec
=============================================================================
