----------------------------- MODULE CatalogEditing -----------------------------
(***************************************************************************)
(* Creating, editing and deleting one training catalog. An edit supplies   *)
(* some of the fields: the use case validates and normalises them, and one *)
(* transaction locks the row, merges the change into it, checks the range  *)
(* of the dates and writes the whole row. Several requests do so at once.  *)
(* A transaction may lose its connection before it commits.                *)
(*                                                                         *)
(* Four fields stand for the twelve: the status for those that an empty    *)
(* string clears, the two dates, and the slots. Zero stands for NULL in a  *)
(* row, and for an empty string, or the number, in a request. The statuses *)
(* of enrollments and the count of them are in TrainingEnrollment.         *)
(*                                                                         *)
(* The definitions marked "Mutation" are mistakes the code could have made *)
(* in the definition that follows. Nothing uses them.                      *)
(***************************************************************************)
EXTENDS Naturals

CONSTANTS
    Handlers,   \* handlers that run at once
    NoHandler,  \* nobody
    Inputs,     \* what a request supplies: functions of some of the fields
    MaxInt4     \* the largest value of an INTEGER column

ASSUME NoHandlerAssumption == NoHandler \notin Handlers
ASSUME MaxInt4Assumption == MaxInt4 \in Nat

Fields == {"status", "start", "end", "slots"}
DateFields == {"start", "end"}

ASSUME InputsAssumption ==
    \A input \in Inputs : DOMAIN input \subseteq Fields /\ \A f \in DOMAIN input : input[f] \in Nat

VARIABLES
    state,    \* the catalog is absent, live or deleted
    row,      \* its fields
    lock,     \* the request whose transaction has locked the row
    step,     \* what each request is about to do
    change,   \* the normalised change it carries
    copy,     \* the row its transaction has read, then the row it has written
    answer,   \* what it answered last
    supplied  \* what the last committed request that supplied a field gave it

vars == <<state, row, lock, step, change, copy, answer, supplied>>

-----------------------------------------------------------------------------
(* Validation and merging.                                                 *)

\* normalizeMaxSlots; texts, categories and links are taken as valid.
Valid(input) == "slots" \in DOMAIN input => input["slots"] > 0

\* buildTrainingCatalogUpdate: an empty date is a field that is not supplied.
Normalised(input) ==
    [f \in {g \in DOMAIN input : g \in DateFields => input[g] > 0} |-> input[f]]

\* The end is not before the start, when both are there.
InOrder(fields) ==
    DateFields \subseteq DOMAIN fields /\ fields["start"] > 0 /\ fields["end"] > 0 =>
        fields["start"] <= fields["end"]

\* applyTrainingCatalogUpdate
Merged(old, new) == [f \in Fields |-> IF f \in DOMAIN new THEN new[f] ELSE old[f]]

Empty == [f \in Fields |-> 0]

\* Mutation: the column was declared BIGINT.
FitsInt8(fields) == TRUE

\* The columns and the CHECK constraints of the table.
FitsInt4(fields) == fields["slots"] <= MaxInt4
Checked(fields, new) == InOrder(fields) /\ ("slots" \in DOMAIN new => new["slots"] > 0)

-----------------------------------------------------------------------------
Init ==
    /\ state = "absent"
    /\ row = Empty
    /\ lock = NoHandler
    /\ step = [r \in Handlers |-> "idle"]
    /\ change = [r \in Handlers |-> <<>>]
    /\ copy = [r \in Handlers |-> Empty]
    /\ answer = [r \in Handlers |-> "none"]
    /\ supplied = Empty

Idle(r) == step[r] = "idle"

\* The request is answered, and the handler is free for the next one.
Finish(r, a) ==
    /\ step' = [step EXCEPT ![r] = "idle"]
    /\ change' = [change EXCEPT ![r] = <<>>]
    /\ copy' = [copy EXCEPT ![r] = Empty]
    /\ answer' = [answer EXCEPT ![r] = a]

Refuse(r, a) == Finish(r, a) /\ UNCHANGED <<state, row, lock, supplied>>

\* The transaction is rolled back.
Release(r, a) ==
    /\ Finish(r, a)
    /\ lock' = IF lock = r THEN NoHandler ELSE lock
    /\ UNCHANGED <<state, row, supplied>>

\* What the database says of a row it is to store.
Stored(fields, new) ==
    CASE ~FitsInt4(fields) -> "outOfRange"
      [] ~Checked(fields, new) -> "check"
      [] OTHER -> "ok"

-----------------------------------------------------------------------------
(* POST /training-catalog, one INSERT.                                     *)

Create(r, input) ==
    /\ Idle(r) /\ state = "absent"
    /\ LET new == Normalised(input)
           fields == Merged(Empty, new)
       IN IF ~Valid(input) \/ ~InOrder(new) THEN Refuse(r, "badRequest")
          ELSE IF Stored(fields, new) # "ok" THEN Refuse(r, Stored(fields, new))
          ELSE /\ Finish(r, "ok")
               /\ state' = "live"
               /\ row' = fields
               /\ supplied' = fields
               /\ UNCHANGED lock

-----------------------------------------------------------------------------
(* PATCH /training-catalog/{publicID}.                                     *)

Update(r, input) ==
    /\ Idle(r) /\ state # "absent"
    /\ LET new == Normalised(input)
       IN IF ~Valid(input) \/ ~InOrder(new) \/ DOMAIN new = {} THEN Refuse(r, "badRequest")
          ELSE /\ step' = [step EXCEPT ![r] = "lock"]
               /\ change' = [change EXCEPT ![r] = new]
               /\ answer' = [answer EXCEPT ![r] = "none"]
               /\ UNCHANGED <<state, row, lock, copy, supplied>>

\* PATCH .../status, where an empty status is refused.
UpdateStatus(r, status) ==
    /\ Idle(r) /\ state # "absent"
    /\ IF status = 0 THEN Refuse(r, "badRequest")
       ELSE /\ step' = [step EXCEPT ![r] = "lock"]
            /\ change' = [change EXCEPT ![r] = [f \in {"status"} |-> status]]
            /\ answer' = [answer EXCEPT ![r] = "none"]
            /\ UNCHANGED <<state, row, lock, copy, supplied>>

\* Mutation: the row is read without FOR UPDATE.
LockedNot(r) == lock

\* FOR UPDATE
Locked(r) == r

\* Mutation: the queries do not look at deleted_at.
VisibleDeleted == state # "absent"

\* deleted_at IS NULL
Visible == state = "live"

LockRow(r) ==
    /\ step[r] = "lock" /\ lock = NoHandler
    /\ IF ~Visible THEN Refuse(r, "notFound")
       ELSE /\ lock' = Locked(r)
            /\ step' = [step EXCEPT ![r] = "write"]
            /\ copy' = [copy EXCEPT ![r] = row]
            /\ UNCHANGED <<state, row, change, answer, supplied>>

\* Mutation: the use case has checked the dates that were supplied.
RangeOfChange(fields, new) == InOrder(new)

\* The range is checked on the merged row.
Range(fields, new) == InOrder(fields)

\* The UPDATE takes the lock if its transaction has not got it.
WriteRow(r) ==
    /\ step[r] = "write" /\ lock \in {r, NoHandler}
    /\ LET fields == Merged(copy[r], change[r])
       IN IF ~Range(fields, change[r]) THEN Release(r, "badRequest")
          ELSE IF ~Visible THEN Release(r, "notFound")
          ELSE IF Stored(fields, change[r]) # "ok" THEN Release(r, Stored(fields, change[r]))
          ELSE /\ lock' = r
               /\ step' = [step EXCEPT ![r] = "commit"]
               /\ copy' = [copy EXCEPT ![r] = fields]
               /\ UNCHANGED <<state, row, change, answer, supplied>>

Commit(r) ==
    /\ step[r] = "commit"
    /\ row' = copy[r]
    /\ supplied' = Merged(supplied, change[r])
    /\ lock' = NoHandler
    /\ Finish(r, "ok")
    /\ UNCHANGED state

\* The connection is lost, or the client goes away and cancels the context.
Abandon(r) == step[r] \in {"lock", "write", "commit"} /\ Release(r, "lost")

-----------------------------------------------------------------------------
(* DELETE /training-catalog/{publicID}, one UPDATE that waits for the lock. *)

Delete(r) ==
    /\ Idle(r) /\ state # "absent" /\ lock = NoHandler
    /\ IF ~Visible THEN Refuse(r, "notFound")
       ELSE /\ state' = "deleted"
            /\ Finish(r, "ok")
            /\ UNCHANGED <<row, lock, supplied>>

-----------------------------------------------------------------------------
Next ==
    \E r \in Handlers :
        \/ \E input \in Inputs : Create(r, input) \/ Update(r, input)
        \/ \E status \in {0, 1} : UpdateStatus(r, status)
        \/ LockRow(r) \/ WriteRow(r) \/ Commit(r) \/ Abandon(r)
        \/ Delete(r)

Spec == Init /\ [][Next]_vars

-----------------------------------------------------------------------------
(* Properties.                                                             *)

\* Every variable has its type, and no column holds more than it can.
TypeOK ==
    /\ state \in {"absent", "live", "deleted"}
    /\ row \in [Fields -> Nat] /\ row["slots"] <= MaxInt4
    /\ lock \in Handlers \cup {NoHandler}
    /\ step \in [Handlers -> {"idle", "lock", "write", "commit"}]
    /\ DOMAIN change = Handlers /\ \A r \in Handlers : DOMAIN change[r] \subseteq Fields
    /\ copy \in [Handlers -> [Fields -> Nat]]
    /\ answer \in [Handlers -> {"none", "ok", "badRequest", "notFound", "outOfRange", "check", "lost"}]

\* What an administrator has set stays set until another edit that names the field: no
\* edit that was under way at the same time writes back a value it had read before.
NoEditIsLost == row = supplied

\* The CHECK constraints of the table never speak: a pair of dates out of order, however
\* the two came into the row, is answered as a bad request and not as an error.
ChecksNeverFire ==
    /\ InOrder(row)
    /\ \A r \in Handlers : answer[r] # "check"

\* A deleted catalog changes no more and does not come back, whichever edit had begun.
DeletedIsFrozen == [][state = "deleted" => state' = "deleted" /\ row' = row]_<<state, row>>

=============================================================================
