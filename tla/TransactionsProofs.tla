-------------------------- MODULE TransactionsProofs --------------------------
(***************************************************************************)
(* Proofs about what runs transactions: that the editing of catalogs loses *)
(* no edit, that the seeders bring about what their file says, and that    *)
(* the accounts and the registry keep, in the composition, what is proved  *)
(* of them by themselves; for every number of requests, commands, rows and *)
(* users, whatever they supply.                                            *)
(***************************************************************************)
EXTENDS MCTransactions, Integers, TLAPS

(***************************************************************************)
(* The inductive invariant.                                                *)
(***************************************************************************)

\* A change names fields, and a number of slots in it is positive.
Change == {c \in UNION {[S -> Nat] : S \in SUBSET Fields} : "slots" \in DOMAIN c => c["slots"] > 0}

Rows == [Fields -> Nat]

\* What a request carries fits the statement it is about to execute: from its read to
\* its commit the transaction has the lock, and its copy is the row, then the row merged.
TransactionOK(r) ==
    /\ step[r] # "idle" => change[r] \in Change
    /\ lock = r <=> step[r] \in {"write", "commit"}
    /\ lock = r => state = "live"
    /\ step[r] = "write" => copy[r] = row
    /\ step[r] = "commit" =>
          /\ copy[r] = Merged(row, change[r])
          /\ FitsInt4(copy[r])
          /\ InOrder(copy[r])

\* The conjunction is preserved by every statement of every request.
IInv ==
    /\ TypeOK
    /\ \A r \in Handlers : TransactionOK(r)
    /\ supplied = row
    /\ ChecksNeverFire

(***************************************************************************)
(* What requests supply.                                                   *)
(***************************************************************************)
LEMMA InputIsChange ==
    ASSUME NEW input \in Inputs, Valid(input)
    PROVE  Normalised(input) \in Change
<1> DEFINE S == {g \in DOMAIN input : g \in DateFields => input[g] > 0}
<1>1. DOMAIN input \subseteq Fields /\ \A f \in DOMAIN input : input[f] \in Nat
  BY InputsAssumption
<1>2. S \in SUBSET Fields
  BY <1>1
<1>3. Normalised(input) \in [S -> Nat]
  BY <1>1 DEF Normalised
<1>4. "slots" \in S => Normalised(input)["slots"] > 0
  BY DEF Valid, Normalised
<1>5. DOMAIN Normalised(input) = S
  BY <1>3
<1>6. Normalised(input) \in UNION {[T -> Nat] : T \in SUBSET Fields}
  BY <1>2, <1>3
<1>7. QED
  BY <1>4, <1>5, <1>6 DEF Change

LEMMA StatusIsChange ==
    ASSUME NEW status \in {0, 1}
    PROVE  [f \in {"status"} |-> status] \in Change
<1>1. {"status"} \in SUBSET Fields
  BY DEF Fields
<1>2. [f \in {"status"} |-> status] \in [{"status"} -> Nat]
  OBVIOUS
<1>3. [f \in {"status"} |-> status] \in UNION {[S -> Nat] : S \in SUBSET Fields}
  BY <1>1, <1>2
<1>4. QED
  BY <1>3 DEF Change

LEMMA ChangeFacts ==
    ASSUME NEW new \in Change
    PROVE  /\ DOMAIN new \subseteq Fields
           /\ \A f \in DOMAIN new : new[f] \in Nat
           /\ "slots" \in DOMAIN new => new["slots"] > 0
BY DEF Change

LEMMA MergedIsRow ==
    ASSUME NEW old \in Rows, NEW new \in Change
    PROVE  /\ Merged(old, new) \in Rows
           /\ DOMAIN Merged(old, new) = Fields
BY ChangeFacts DEF Merged, Rows

\* A new row is in order when what it was given is.
LEMMA CreatedInOrder ==
    ASSUME NEW input \in Inputs, Valid(input), InOrder(Normalised(input))
    PROVE  InOrder(Merged(Empty, Normalised(input)))
<1> DEFINE new == Normalised(input)
           fields == Merged(Empty, new)
<1>1. \A f \in Fields : fields[f] = IF f \in DOMAIN new THEN new[f] ELSE 0
  BY DEF Merged, Empty
<1>2. \A f \in DOMAIN new : f \in DateFields => new[f] > 0
  BY DEF Normalised
<1>3. DateFields = {"start", "end"} /\ DateFields \subseteq Fields
  BY DEF DateFields, Fields
<1> HIDE DEF new, fields
<1>4. SUFFICES ASSUME fields["start"] > 0, fields["end"] > 0
               PROVE  fields["start"] <= fields["end"]
  BY DEF InOrder, fields, new
<1>5. "start" \in DOMAIN new /\ "end" \in DOMAIN new
  BY <1>1, <1>3, <1>4
<1>6. fields["start"] = new["start"] /\ fields["end"] = new["end"]
  BY <1>1, <1>3, <1>5
<1>7. InOrder(new)
  BY DEF new
<1>8. QED
  BY <1>2, <1>3, <1>5, <1>6, <1>7 DEF InOrder

LEMMA EmptyRow == Empty \in Rows /\ InOrder(Empty) /\ Empty["slots"] = 0
BY DEF Empty, Rows, InOrder, Fields

\* A row that is in order breaks no CHECK constraint.
LEMMA NeverCheck ==
    ASSUME NEW fields, NEW new \in Change, InOrder(fields)
    PROVE  /\ Stored(fields, new) \in {"ok", "outOfRange"}
           /\ Stored(fields, new) = "ok" => FitsInt4(fields)
BY ChangeFacts DEF Stored, Checked

(***************************************************************************)
(* The statements.                                                         *)
(***************************************************************************)
Answers == {"none", "ok", "badRequest", "notFound", "outOfRange", "lost"}

LEMMA Start == Init => IInv
<1> SUFFICES ASSUME Init PROVE IInv
  OBVIOUS
<1>1. TypeOK
  BY EmptyRow, MaxInt4Assumption DEF Init, TypeOK, Rows
<1>2. \A r \in Handlers : TransactionOK(r)
  BY NoHandlerAssumption DEF Init, TransactionOK
<1>3. ChecksNeverFire
  BY EmptyRow DEF Init, ChecksNeverFire
<1>4. QED
  BY <1>1, <1>2, <1>3 DEF IInv, Init

\* A request is answered, and the row and the lock of the others stay.
LEMMA FinishKeeps ==
    ASSUME IInv, NEW r \in Handlers, NEW a \in Answers, Finish(r, a),
           state' \in {"absent", "live", "deleted"},
           lock' = IF lock = r THEN NoHandler ELSE lock,
           lock' # NoHandler => state' = state /\ row' = row,
           row' \in Rows, FitsInt4(row'), InOrder(row'), supplied' = row'
    PROVE  IInv'
<1>1. TypeOK'
  <2>1. /\ DOMAIN change' = Handlers /\ \A q \in Handlers : DOMAIN change'[q] \subseteq Fields
        /\ copy' \in [Handlers -> Rows]
    BY EmptyRow DEF IInv, TypeOK, Finish, Rows
  <2>2. step' \in [Handlers -> {"idle", "lock", "write", "commit"}]
    BY DEF IInv, TypeOK, Finish
  <2>3. answer' \in [Handlers -> {"none", "ok", "badRequest", "notFound", "outOfRange", "check",
                                  "lost"}]
    BY DEF IInv, TypeOK, Finish, Answers
  <2>4. lock' \in Handlers \cup {NoHandler}
    BY DEF IInv, TypeOK
  <2>5. QED
    BY <2>1, <2>2, <2>3, <2>4 DEF TypeOK, Rows, FitsInt4
<1>2. ASSUME NEW q \in Handlers PROVE TransactionOK(q)'
  <2>1. CASE q = r
    BY <2>1, NoHandlerAssumption DEF IInv, TypeOK, Finish, TransactionOK
  <2>2. CASE q # r
    <3>1. /\ step'[q] = step[q] /\ change'[q] = change[q] /\ copy'[q] = copy[q]
          /\ lock' = q <=> lock = q
      BY <2>2, NoHandlerAssumption DEF IInv, TypeOK, Finish
    <3>2. lock' = q => state' = state /\ row' = row
      BY NoHandlerAssumption
    <3>3. TransactionOK(q)
      BY DEF IInv
    <3>4. QED
      BY <3>1, <3>2, <3>3 DEF TransactionOK
  <2>3. QED
    BY <2>1, <2>2
<1>3. ChecksNeverFire'
  BY DEF IInv, TypeOK, Finish, Answers, ChecksNeverFire
<1>4. QED
  BY <1>1, <1>2, <1>3 DEF IInv

\* What FinishKeeps needs of the row when it stays as it is.
LEMMA RowStays ==
    ASSUME IInv, row' = row, state' = state, supplied' = supplied
    PROVE  /\ row' \in Rows /\ FitsInt4(row') /\ InOrder(row') /\ supplied' = row'
           /\ state' \in {"absent", "live", "deleted"}
BY DEF IInv, TypeOK, ChecksNeverFire, Rows, FitsInt4

LEMMA RefuseKeeps ==
    ASSUME IInv, NEW r \in Handlers, NEW a \in Answers, lock # r, Refuse(r, a)
    PROVE  IInv'
BY FinishKeeps, RowStays DEF Refuse

LEMMA ReleaseKeeps ==
    ASSUME IInv, NEW r \in Handlers, NEW a \in Answers, Release(r, a)
    PROVE  IInv'
BY FinishKeeps, RowStays DEF Release

\* A request that is idle or waits for the lock has not got it.
LEMMA NotLocked ==
    ASSUME IInv, NEW r \in Handlers, step[r] \in {"idle", "lock"}
    PROVE  lock # r
BY DEF IInv, TransactionOK

LEMMA CreateKeeps ==
    ASSUME IInv, NEW r \in Handlers, NEW input \in Inputs, Create(r, input)
    PROVE  IInv'
<1> DEFINE new == Normalised(input)
           fields == Merged(Empty, new)
<1>1. lock # r
  BY NotLocked DEF Create, Idle
<1>2. CASE ~Valid(input) \/ ~InOrder(new)
  BY <1>1, <1>2, RefuseKeeps DEF Create, Answers
<1>3. CASE Valid(input) /\ InOrder(new)
  <2>1. InOrder(fields) /\ fields \in Rows /\ new \in Change
    BY <1>3, CreatedInOrder, InputIsChange, EmptyRow, MergedIsRow
  <2>2. /\ Stored(fields, new) \in {"ok", "outOfRange"}
        /\ Stored(fields, new) = "ok" => FitsInt4(fields)
    BY <2>1, NeverCheck
  <2>3. CASE Stored(fields, new) # "ok"
    <3>1. Refuse(r, Stored(fields, new))
      BY <1>3, <2>3 DEF Create
    <3>2. QED
      BY <1>1, <2>2, <2>3, <3>1, RefuseKeeps DEF Answers
  <2>4. CASE Stored(fields, new) = "ok"
    <3>1. /\ Finish(r, "ok") /\ state' = "live" /\ lock' = lock
          /\ row' = fields /\ supplied' = fields
      BY <1>3, <2>4 DEF Create
    <3>2. lock' = NoHandler
      BY <3>1 DEF Create, IInv, TypeOK, TransactionOK
    <3>3. QED
      BY <1>1, <2>1, <2>2, <2>4, <3>1, <3>2, FinishKeeps DEF Answers
  <2>5. QED
    BY <2>3, <2>4
<1>4. QED
  BY <1>2, <1>3

\* A request goes on to its transaction with a change.
LEMMA BeginKeeps ==
    ASSUME IInv, NEW r \in Handlers, NEW new \in Change, step[r] = "idle",
           step' = [step EXCEPT ![r] = "lock"],
           change' = [change EXCEPT ![r] = new],
           answer' = [answer EXCEPT ![r] = "none"],
           UNCHANGED <<state, row, lock, copy, supplied>>
    PROVE  IInv'
<1>1. TypeOK'
  <2>1. \A q \in Handlers : DOMAIN change'[q] \subseteq Fields
    BY ChangeFacts DEF IInv, TypeOK
  <2>2. QED
    BY <2>1 DEF IInv, TypeOK
<1>2. ASSUME NEW q \in Handlers PROVE TransactionOK(q)'
  <2>1. CASE q = r
    BY <2>1 DEF IInv, TypeOK, TransactionOK
  <2>2. CASE q # r
    <3>1. step'[q] = step[q] /\ change'[q] = change[q] /\ copy'[q] = copy[q]
      BY <2>2 DEF IInv, TypeOK
    <3>2. QED
      BY <3>1 DEF IInv, TransactionOK
  <2>3. QED
    BY <2>1, <2>2
<1>3. ChecksNeverFire'
  BY DEF IInv, TypeOK, ChecksNeverFire
<1>4. QED
  BY <1>1, <1>2, <1>3 DEF IInv

LEMMA UpdateKeeps ==
    ASSUME IInv, NEW r \in Handlers, NEW input \in Inputs, Update(r, input)
    PROVE  IInv'
<1> DEFINE new == Normalised(input)
<1>1. CASE ~Valid(input) \/ ~InOrder(new) \/ DOMAIN new = {}
  BY <1>1, NotLocked, RefuseKeeps DEF Update, Idle, Answers
<1>2. CASE Valid(input) /\ InOrder(new) /\ DOMAIN new # {}
  <2>1. new \in Change
    BY <1>2, InputIsChange
  <2>2. QED
    BY <1>2, <2>1, BeginKeeps DEF Update, Idle
<1>3. QED
  BY <1>1, <1>2

LEMMA UpdateStatusKeeps ==
    ASSUME IInv, NEW r \in Handlers, NEW status \in {0, 1}, UpdateStatus(r, status)
    PROVE  IInv'
<1>1. CASE status = 0
  BY <1>1, NotLocked, RefuseKeeps DEF UpdateStatus, Idle, Answers
<1>2. CASE status # 0
  BY <1>2, StatusIsChange, BeginKeeps DEF UpdateStatus, Idle
<1>3. QED
  BY <1>1, <1>2

LEMMA LockRowKeeps ==
    ASSUME IInv, NEW r \in Handlers, LockRow(r)
    PROVE  IInv'
<1>1. CASE ~Visible
  BY <1>1, NotLocked, RefuseKeeps DEF LockRow, Answers
<1>2. CASE Visible
  <2>1. /\ step[r] = "lock" /\ lock = NoHandler /\ state = "live"
        /\ lock' = r
        /\ step' = [step EXCEPT ![r] = "write"]
        /\ copy' = [copy EXCEPT ![r] = row]
        /\ UNCHANGED <<state, row, change, answer, supplied>>
    BY <1>2 DEF LockRow, Locked, Visible
  <2>2. TypeOK'
    BY <2>1 DEF IInv, TypeOK
  <2>3. ASSUME NEW q \in Handlers PROVE TransactionOK(q)'
    <3>1. CASE q = r
      BY <2>1, <3>1 DEF IInv, TypeOK, TransactionOK
    <3>2. CASE q # r
      <4>1. step'[q] = step[q] /\ change'[q] = change[q] /\ copy'[q] = copy[q]
        BY <2>1, <3>2 DEF IInv, TypeOK
      <4>2. lock # q
        BY <2>1, NoHandlerAssumption
      <4>3. QED
        BY <2>1, <3>2, <4>1, <4>2 DEF IInv, TransactionOK
    <3>3. QED
      BY <3>1, <3>2
  <2>4. QED
    BY <2>1, <2>2, <2>3 DEF IInv, ChecksNeverFire
<1>3. QED
  BY <1>1, <1>2

LEMMA WriteRowKeeps ==
    ASSUME IInv, NEW r \in Handlers, WriteRow(r)
    PROVE  IInv'
<1> DEFINE fields == Merged(copy[r], change[r])
<1>1. /\ step[r] = "write" /\ lock = r /\ state = "live" /\ copy[r] = row
      /\ change[r] \in Change
  BY DEF WriteRow, IInv, TransactionOK
<1>2. fields \in Rows
  BY <1>1, MergedIsRow DEF IInv, TypeOK, Rows
<1>3. CASE ~Range(fields, change[r])
  BY <1>3, ReleaseKeeps DEF WriteRow, Answers
<1>4. CASE Range(fields, change[r]) /\ ~Visible
  BY <1>4, ReleaseKeeps DEF WriteRow, Answers
<1>5. CASE Range(fields, change[r]) /\ Visible
  <2>1. InOrder(fields)
    BY <1>5 DEF Range
  <2>2. /\ Stored(fields, change[r]) \in {"ok", "outOfRange"}
        /\ Stored(fields, change[r]) = "ok" => FitsInt4(fields)
    BY <1>1, <2>1, NeverCheck
  <2>3. CASE Stored(fields, change[r]) # "ok"
    <3>1. Release(r, Stored(fields, change[r]))
      BY <1>5, <2>3 DEF WriteRow
    <3>2. QED
      BY <2>2, <2>3, <3>1, ReleaseKeeps DEF Answers
  <2>4. CASE Stored(fields, change[r]) = "ok"
    <3>1. /\ lock' = r
          /\ step' = [step EXCEPT ![r] = "commit"]
          /\ copy' = [copy EXCEPT ![r] = fields]
          /\ UNCHANGED <<state, row, change, answer, supplied>>
      BY <1>5, <2>4 DEF WriteRow
    <3>2. TypeOK'
      BY <1>2, <3>1 DEF IInv, TypeOK, Rows
    <3>3. ASSUME NEW q \in Handlers PROVE TransactionOK(q)'
      <4>1. CASE q = r
        <5>1. step'[r] = "commit" /\ copy'[r] = fields /\ change'[r] = change[r]
          BY <3>1 DEF IInv, TypeOK
        <5>2. FitsInt4(fields) /\ fields = Merged(row, change[r])
          BY <1>1, <2>2, <2>4
        <5>3. QED
          BY <1>1, <2>1, <3>1, <4>1, <5>1, <5>2 DEF TransactionOK
      <4>2. CASE q # r
        <5>1. step'[q] = step[q] /\ change'[q] = change[q] /\ copy'[q] = copy[q]
          BY <3>1, <4>2 DEF IInv, TypeOK
        <5>2. QED
          BY <1>1, <3>1, <5>1 DEF IInv, TransactionOK
      <4>3. QED
        BY <4>1, <4>2
    <3>4. QED
      BY <3>1, <3>2, <3>3 DEF IInv, ChecksNeverFire
  <2>5. QED
    BY <2>3, <2>4
<1>6. QED
  BY <1>3, <1>4, <1>5

LEMMA CommitKeeps ==
    ASSUME IInv, NEW r \in Handlers, Commit(r)
    PROVE  IInv'
<1>1. /\ lock = r /\ state = "live"
      /\ copy[r] = Merged(row, change[r]) /\ FitsInt4(copy[r]) /\ InOrder(copy[r])
      /\ copy[r] \in Rows /\ supplied = row
  BY DEF Commit, IInv, TransactionOK, TypeOK, Rows
<1>2. /\ Finish(r, "ok") /\ row' = copy[r] /\ supplied' = copy[r] /\ lock' = NoHandler
      /\ state' = state
  BY <1>1 DEF Commit
<1>3. QED
  BY <1>1, <1>2, FinishKeeps DEF Answers

LEMMA DeleteKeeps ==
    ASSUME IInv, NEW r \in Handlers, Delete(r)
    PROVE  IInv'
<1>1. lock # r /\ lock = NoHandler
  BY NotLocked DEF Delete, Idle
<1>2. CASE ~Visible
  BY <1>1, <1>2, RefuseKeeps DEF Delete, Answers
<1>3. CASE Visible
  <2>1. Finish(r, "ok") /\ state' = "deleted" /\ UNCHANGED <<row, lock, supplied>>
    BY <1>3 DEF Delete
  <2>2. row' \in Rows /\ FitsInt4(row') /\ InOrder(row') /\ supplied' = row'
    BY <2>1 DEF IInv, TypeOK, ChecksNeverFire, Rows, FitsInt4
  <2>3. QED
    BY <1>1, <2>1, <2>2, FinishKeeps DEF Answers
<1>4. QED
  BY <1>2, <1>3

LEMMA StepKeeps == IInv /\ [Next]_vars => IInv'
<1> SUFFICES ASSUME IInv, [Next]_vars PROVE IInv'
  OBVIOUS
<1>1. CASE Next
  <2>1. ASSUME NEW r \in Handlers, NEW input \in Inputs, Create(r, input) PROVE IInv'
    BY <2>1, CreateKeeps
  <2>2. ASSUME NEW r \in Handlers, NEW input \in Inputs, Update(r, input) PROVE IInv'
    BY <2>2, UpdateKeeps
  <2>3. ASSUME NEW r \in Handlers, NEW status \in {0, 1}, UpdateStatus(r, status) PROVE IInv'
    BY <2>3, UpdateStatusKeeps
  <2>4. ASSUME NEW r \in Handlers, LockRow(r) PROVE IInv'
    BY <2>4, LockRowKeeps
  <2>5. ASSUME NEW r \in Handlers, WriteRow(r) PROVE IInv'
    BY <2>5, WriteRowKeeps
  <2>6. ASSUME NEW r \in Handlers, Commit(r) PROVE IInv'
    BY <2>6, CommitKeeps
  <2>7. ASSUME NEW r \in Handlers, Abandon(r) PROVE IInv'
    BY <2>7, ReleaseKeeps DEF Abandon, Answers
  <2>8. ASSUME NEW r \in Handlers, Delete(r) PROVE IInv'
    BY <2>8, DeleteKeeps
  <2>9. QED
    BY <1>1, <2>1, <2>2, <2>3, <2>4, <2>5, <2>6, <2>7, <2>8 DEF Next
<1>2. CASE UNCHANGED vars
  BY <1>2 DEF vars, IInv, TypeOK, TransactionOK, ChecksNeverFire
<1>3. QED
  BY <1>1, <1>2

(***************************************************************************)
(* The theorems.                                                           *)
(***************************************************************************)

\* The lock of a row protects what its transaction has read: IInv holds between the
\* statements of all requests.
THEOREM Invariance == Spec => []IInv
BY Start, StepKeeps, PTL DEF Spec

\* UpdateTrainingCatalog writes the whole row back without undoing what another request
\* has set meanwhile.
THEOREM EditsKept == Spec => []NoEditIsLost
<1>1. IInv => NoEditIsLost
  BY DEF IInv, NoEditIsLost
<1>2. QED
  BY <1>1, Invariance, PTL

\* The validation of the use case and the check of the merged dates leave nothing for the
\* CHECK constraints of the table.
THEOREM ChecksSilent == Spec => []ChecksNeverFire
<1>1. IInv => ChecksNeverFire
  BY DEF IInv
<1>2. QED
  BY <1>1, Invariance, PTL

\* No transaction writes to a row that was deleted before it locked it, and a deletion
\* waits for the transaction that has locked the row.
THEOREM DeletionFinal == Spec => DeletedIsFrozen
<1>1. IInv /\ [Next]_vars => [state = "deleted" => state' = "deleted" /\ row' = row]_<<state, row>>
  <2> SUFFICES ASSUME IInv, [Next]_vars, state = "deleted"
               PROVE  state' = "deleted" /\ row' = row
    BY DEF vars
  <2>1. ASSUME NEW r \in Handlers PROVE lock # r /\ step[r] \notin {"write", "commit"}
    BY DEF IInv, TransactionOK
  <2>2. CASE UNCHANGED vars
    BY <2>2 DEF vars
  <2>3. CASE Next
    <3>1. ASSUME NEW r \in Handlers, NEW input \in Inputs, Create(r, input) \/ Update(r, input)
          PROVE  state' = "deleted" /\ row' = row
      BY <3>1 DEF Create, Update, Refuse
    <3>2. ASSUME NEW r \in Handlers, NEW status \in {0, 1}, UpdateStatus(r, status)
          PROVE  state' = "deleted" /\ row' = row
      BY <3>2 DEF UpdateStatus, Refuse
    <3>3. ASSUME NEW r \in Handlers,
                 LockRow(r) \/ WriteRow(r) \/ Commit(r) \/ Abandon(r) \/ Delete(r)
          PROVE  state' = "deleted" /\ row' = row
      BY <2>1, <3>3 DEF LockRow, WriteRow, Commit, Abandon, Delete, Refuse, Release, Visible
    <3>4. QED
      BY <2>3, <3>1, <3>2, <3>3 DEF Next
  <2>4. QED
    BY <2>2, <2>3
<1>2. QED
  BY <1>1, Invariance, PTL DEF Spec, DeletedIsFrozen

-----------------------------------------------------------------------------
(* The seeders.                                                            *)

\* What a run of the users has brought about for the row i of its file.
RowSeeded(p, i) ==
    /\ seeded[file[i].email] # "none"
    /\ file[i].enterprise /\ file[i].email \notin run[p].duplicates \cup deleted =>
          owned[file[i].email] > 0

\* A command is at one of its own statements.
StatementsOf(task) ==
    CASE task = "users" -> {"find", "check", "create user", "create enterprise"}
      [] task = "catalogs" -> {"create catalog"}
      [] task = "admin" -> {"create admin"}

\* The rows a run of the users has left behind are seeded, and once it comes to the enterprise
\* of a row the user of that row is there.
SeedsInTurn(p) ==
    /\ Seeder!Running(p) => seederPC[p] \in StatementsOf(run[p].task)
    /\ run[p].task = "users" =>
          /\ Seeder!Running(p) => \A i \in DOMAIN file : i < run[p].row => RowSeeded(p, i)
          /\ seederPC[p] \in {"check", "create enterprise"} => seeded[Seeder!Email(p)] # "none"
          /\ seederPC[p] = "done" => \A i \in DOMAIN file : RowSeeded(p, i)

SeederInv ==
    /\ file \in MCFiles
    /\ Seeder!TypeOK
    /\ \A p \in Procs : SeedsInTurn(p)

LEMMA FileTypes ==
    ASSUME file \in MCFiles
    PROVE  /\ \A i \in DOMAIN file : file[i].email \in SeedEmails /\ file[i].enterprise \in BOOLEAN
           /\ PublicIDAttempts \in Nat /\ PublicIDAttempts > 0 /\ 0 \in 0 .. PublicIDAttempts
           /\ MaxOwned \in Nat /\ AdminEmail \in SeedEmails
<1>1. file \in [DOMAIN file -> Seeder!Row]
  BY SeederAssumption DEF Seeder!ConstantsAssumption
<1>2. \A i \in DOMAIN file : file[i].email \in SeedEmails /\ file[i].enterprise \in BOOLEAN
  BY <1>1 DEF Seeder!Row
<1>3. /\ PublicIDAttempts \in Nat /\ PublicIDAttempts > 0
      /\ MaxOwned \in Nat /\ AdminEmail \in SeedEmails
  BY SeederAssumption DEF Seeder!ConstantsAssumption
<1>4. 0 \in 0 .. PublicIDAttempts
  BY <1>3
<1>5. QED
  BY <1>2, <1>3, <1>4

\* A row that is not the last has all before it, and the last all there are.
LEMMA RowOrder ==
    ASSUME file \in MCFiles
    PROVE  /\ \A i \in DOMAIN file : i \in Nat /\ ~(i < 1)
           /\ DOMAIN file # {} => 1 \in DOMAIN file
           /\ \A m \in DOMAIN file, i \in DOMAIN file :
                 /\ i < m + 1 => i < m \/ i = m
                 /\ m + 1 \notin DOMAIN file => i < m \/ i = m
<1>1. /\ \A i \in DOMAIN file : i \in Nat /\ i # 0
      /\ \A i \in DOMAIN file : \A m \in 1 .. i : m \in DOMAIN file
  BY SeederAssumption DEF Seeder!ConstantsAssumption, Seeder!Numbered
<1>2. ASSUME NEW m \in DOMAIN file, NEW i \in DOMAIN file, m + 1 \notin DOMAIN file
      PROVE  i < m \/ i = m
  <2>1. m + 1 \notin 1 .. i
    BY <1>1, <1>2
  <2>2. QED
    BY <1>1, <2>1
<1>3. QED
  BY <1>1, <1>2

LEMMA SeederStarts == Seeder!Init => SeederInv
<1> SUFFICES ASSUME Seeder!Init PROVE SeederInv
  OBVIOUS
<1>1. Seeder!NoRun \in Seeder!Run
  BY SeederAssumption DEF Seeder!NoRun, Seeder!Run, Seeder!Tasks, Seeder!ConstantsAssumption
<1>2. Seeder!TypeOK
  BY <1>1, SeederAssumption
     DEF Seeder!Init, Seeder!TypeOK, Seeder!Running, Seeder!Statements, Seeder!ConstantsAssumption
<1>3. QED
  BY <1>2 DEF Seeder!Init, SeederInv, SeedsInTurn, Seeder!Running

\* No statement takes a user, or an enterprise without noting it.
Grows ==
    /\ \A e \in SeedEmails : seeded[e] # "none" => seeded'[e] # "none"
    /\ \A e \in SeedEmails : owned[e] > 0 => owned'[e] > 0 \/ e \in deleted'
    /\ deleted \subseteq deleted'
    /\ UNCHANGED file

LEMMA RowKeeps ==
    ASSUME file \in MCFiles, Grows, NEW p \in Procs, NEW i \in DOMAIN file, RowSeeded(p, i),
           run[p].duplicates \subseteq run'[p].duplicates
    PROVE  RowSeeded(p, i)'
BY FileTypes DEF Grows, RowSeeded

\* A process that takes no step is not disturbed.
LEMMA BystanderKeeps ==
    ASSUME SeederInv, Grows, NEW p \in Procs, seederPC'[p] = seederPC[p], run'[p] = run[p]
    PROVE  SeedsInTurn(p)'
<1>1. /\ \A i \in DOMAIN file : file[i].email \in SeedEmails
      /\ file' = file
  BY FileTypes DEF SeederInv, Grows
<1>2. ASSUME NEW i \in DOMAIN file, RowSeeded(p, i) PROVE RowSeeded(p, i)'
  BY <1>2, RowKeeps DEF SeederInv
<1>3. Seeder!Running(p) /\ run[p].task # "admin" => run[p].row \in DOMAIN file
  BY DEF SeederInv, Seeder!TypeOK
<1>4. SeedsInTurn(p) /\ (Seeder!Running(p)' <=> Seeder!Running(p))
  BY DEF Seeder!Running, SeederInv
<1>5. ASSUME run[p].task = "users", Seeder!Running(p), NEW i \in DOMAIN file, i < run[p].row
      PROVE  RowSeeded(p, i)'
  BY <1>2, <1>4, <1>5 DEF SeedsInTurn
<1>6. ASSUME run[p].task = "users", seederPC[p] \in {"check", "create enterprise"}
      PROVE (seeded[Seeder!Email(p)] # "none")'
  <2>1. /\ seeded[Seeder!Email(p)] # "none" /\ Seeder!Email(p) \in SeedEmails
        /\ Seeder!Email(p)' = Seeder!Email(p)
    BY <1>1, <1>3, <1>4, <1>6 DEF SeedsInTurn, Seeder!Email, Seeder!Running
  <2>2. QED
    BY <2>1 DEF Grows
<1>7. ASSUME run[p].task = "users", seederPC[p] = "done"
      PROVE \A i \in DOMAIN file : RowSeeded(p, i)'
  BY <1>2, <1>4, <1>7 DEF SeedsInTurn
<1>8. QED
  BY <1>1, <1>4, <1>5, <1>6, <1>7 DEF SeedsInTurn

\* One process takes a step, and the others none.
LEMMA ProcessKeeps ==
    ASSUME SeederInv, Grows, NEW p \in Procs, NEW s, NEW r,
           seederPC' = [seederPC EXCEPT ![p] = s], run' = [run EXCEPT ![p] = r],
           Seeder!TypeOK', SeedsInTurn(p)'
    PROVE  SeederInv'
<1>1. ASSUME NEW q \in Procs, q # p PROVE SeedsInTurn(q)'
  <2>1. seederPC'[q] = seederPC[q] /\ run'[q] = run[q]
    BY <1>1 DEF SeederInv, Seeder!TypeOK
  <2>2. QED
    BY <2>1, BystanderKeeps
<1>2. file' \in MCFiles
  BY DEF SeederInv, Grows
<1>3. QED
  BY <1>1, <1>2 DEF SeederInv

\* The types after a step of one process.
LEMMA ProcessTypes ==
    ASSUME SeederInv, NEW p \in Procs, NEW s \in Seeder!Statements, NEW r \in Seeder!Run,
           seederPC' = [seederPC EXCEPT ![p] = s], run' = [run EXCEPT ![p] = r], UNCHANGED file,
           s \notin {"idle", "done", "failed"} =>
               /\ r.attempts < PublicIDAttempts
               /\ r.task # "admin" => r.row \in DOMAIN file,
           seeded' \in [SeedEmails -> {"none", "member", "admin", "deleted"}],
           owned' \in [SeedEmails -> 0 .. MaxOwned],
           catalogs' \in [DOMAIN file -> Nat],
           made' \in [Procs -> [DOMAIN file -> Nat]]
    PROVE  /\ Seeder!TypeOK' /\ seederPC'[p] = s /\ run'[p] = r
<1>1. seederPC'[p] = s /\ run'[p] = r
  BY DEF SeederInv, Seeder!TypeOK
<1>2. ASSUME NEW q \in Procs, Seeder!Running(q)'
      PROVE  /\ run'[q].attempts < PublicIDAttempts
             /\ (run'[q].task # "admin" => run'[q].row \in DOMAIN file)
  <2>1. CASE q = p
    BY <1>1, <1>2, <2>1 DEF Seeder!Running
  <2>2. CASE q # p
    BY <1>2, <2>2 DEF Seeder!Running, SeederInv, Seeder!TypeOK
  <2>3. QED
    BY <2>1, <2>2
<1>3. seederPC' \in [Procs -> Seeder!Statements] /\ run' \in [Procs -> Seeder!Run]
  BY DEF SeederInv, Seeder!TypeOK
<1>4. QED
  BY <1>1, <1>2, <1>3 DEF Seeder!TypeOK

TablesTyped ==
    /\ seeded' \in [SeedEmails -> {"none", "member", "admin", "deleted"}]
    /\ owned' \in [SeedEmails -> 0 .. MaxOwned]
    /\ catalogs' \in [DOMAIN file -> Nat]
    /\ made' \in [Procs -> [DOMAIN file -> Nat]]

\* What is known of a running process.
LEMMA RunTypes ==
    ASSUME SeederInv, NEW p \in Procs, Seeder!Running(p)
    PROVE  /\ run[p].task \in Seeder!Tasks /\ run[p].row \in Nat
           /\ run[p].duplicates \subseteq SeedEmails
           /\ run[p].attempts \in Nat /\ run[p].attempts < PublicIDAttempts
           /\ seederPC[p] \in StatementsOf(run[p].task)
           /\ run[p].task # "admin" =>
                 /\ run[p].row \in DOMAIN file /\ Seeder!Email(p) \in SeedEmails
                 /\ Seeder!Email(p) = file[run[p].row].email
                 /\ Seeder!HasEnterprise(p) = file[run[p].row].enterprise
           /\ run[p] = [task |-> run[p].task, row |-> run[p].row, attempts |-> run[p].attempts,
                        duplicates |-> run[p].duplicates]
<1>1. run[p] \in Seeder!Run /\ run[p].attempts < PublicIDAttempts
      /\ (run[p].task # "admin" => run[p].row \in DOMAIN file) /\ SeedsInTurn(p)
  BY DEF SeederInv, Seeder!TypeOK
<1>2. /\ run[p].task \in Seeder!Tasks /\ run[p].row \in Nat
      /\ run[p].duplicates \subseteq SeedEmails
      /\ run[p].attempts \in 0 .. PublicIDAttempts
      /\ run[p] = [task |-> run[p].task, row |-> run[p].row, attempts |-> run[p].attempts,
                   duplicates |-> run[p].duplicates]
  BY <1>1 DEF Seeder!Run
<1>3. seederPC[p] \in StatementsOf(run[p].task)
  BY <1>1 DEF SeedsInTurn
<1>4. run[p].task # "admin" => Seeder!Email(p) \in SeedEmails
  BY <1>1, FileTypes DEF SeederInv, Seeder!Email
<1>5. run[p].attempts \in Nat
  BY <1>2, FileTypes DEF SeederInv
<1>6. QED
  BY <1>1, <1>2, <1>3, <1>4, <1>5 DEF Seeder!Email, Seeder!HasEnterprise

LEMMA StatementsOK ==
    \A task \in Seeder!Tasks :
        StatementsOf(task) \subseteq Seeder!Statements \ {"idle", "done", "failed"}
BY DEF Seeder!Tasks, StatementsOf, Seeder!Statements

\* The parts of SeedsInTurn after a step of the process.
LEMMA InTurnNext ==
    ASSUME UNCHANGED file, NEW p \in Procs, NEW s, NEW r, seederPC'[p] = s, run'[p] = r,
           Seeder!Running(p)' => s \in StatementsOf(r.task),
           r.task = "users" =>
               /\ Seeder!Running(p)' => \A i \in DOMAIN file : i < r.row => RowSeeded(p, i)'
               /\ s \in {"check", "create enterprise"} => seeded'[Seeder!Email(p)'] # "none"
               /\ s = "done" => \A i \in DOMAIN file : RowSeeded(p, i)'
    PROVE  SeedsInTurn(p)'
BY Zenon DEF SeedsInTurn

\* On to another statement for the same row.
LEMMA GotoKeeps ==
    ASSUME SeederInv, Grows, TablesTyped, NEW p \in Procs, Seeder!Running(p), NEW s,
           Seeder!Goto(p, s),
           s \in StatementsOf(run[p].task) \cup {"failed", "done"},
           s = "done" => run[p].task # "users",
           s \in {"check", "create enterprise"} => seeded'[Seeder!Email(p)] # "none"
    PROVE  SeederInv'
<1> DEFINE r == [run[p] EXCEPT !.attempts = 0]
<1>1. /\ r \in Seeder!Run /\ r.task = run[p].task /\ r.row = run[p].row /\ r.attempts = 0
      /\ r.duplicates = run[p].duplicates
  <2>1. run[p] \in Seeder!Run
    BY DEF SeederInv, Seeder!TypeOK
  <2>2. 0 \in 0 .. PublicIDAttempts
    BY FileTypes DEF SeederInv
  <2>3. QED
    BY <2>1, <2>2 DEF Seeder!Run
<1>2. /\ s \in Seeder!Statements /\ run' = [run EXCEPT ![p] = r]
      /\ seederPC' = [seederPC EXCEPT ![p] = s] /\ UNCHANGED file
  BY RunTypes, StatementsOK DEF Seeder!Goto, Seeder!Statements, Grows
<1>3. Seeder!TypeOK' /\ seederPC'[p] = s /\ run'[p] = r
  <2>1. r.attempts < PublicIDAttempts /\ (r.task # "admin" => r.row \in DOMAIN file)
    BY <1>1, RunTypes, FileTypes DEF SeederInv
  <2> HIDE DEF r
  <2>2. QED
    BY <1>1, <1>2, <2>1, ProcessTypes DEF TablesTyped
<1>4. ASSUME run[p].task = "users", NEW i \in DOMAIN file, i < run[p].row PROVE RowSeeded(p, i)'
  <2>1. i \in DOMAIN file /\ RowSeeded(p, i)
    BY <1>4 DEF SeederInv, SeedsInTurn
  <2>2. run[p].duplicates \subseteq run'[p].duplicates
    BY <1>1, <1>3
  <2>3. QED
    BY <2>1, <2>2, RowKeeps DEF SeederInv
<1>5. SeedsInTurn(p)'
  <2>1. Seeder!Email(p)' = Seeder!Email(p)
    BY <1>1, <1>2, <1>3 DEF Seeder!Email
  <2>2. s \notin {"idle", "done", "failed"} => s \in StatementsOf(run[p].task)
    OBVIOUS
  <2>3. Seeder!Running(p)' => s \notin {"idle", "done", "failed"}
    BY <1>3 DEF Seeder!Running
  <2>4. StatementsOf(run'[p].task) = StatementsOf(run[p].task) /\ run'[p].task = run[p].task
    BY <1>1, <1>3
  <2>5. run'[p].row = run[p].row
    BY <1>1, <1>3
  <2>6. ASSUME run[p].task = "users" PROVE s # "done"
    BY <2>6
  <2> HIDE DEF r
  <2>7. QED
    BY <1>1, <1>2, <1>3, <1>4, <2>1, <2>2, <2>3, <2>6, InTurnNext
<1>6. QED
  <2> HIDE DEF r
  <2>1. QED
    BY <1>2, <1>3, <1>5, ProcessKeeps

\* On to the next row, or to the end: the row that is left is seeded.
LEMMA RecordKeeps ==
    ASSUME SeederInv, Grows, TablesTyped, NEW p \in Procs, Seeder!Running(p),
           NEW first, NEW D, D \subseteq SeedEmails, Seeder!NextRecord(p, first, D),
           first \in StatementsOf(run[p].task), first \notin {"check", "create enterprise"},
           run[p].task # "admin",
           run[p].task = "users" =>
               /\ seeded'[Seeder!Email(p)] # "none"
               /\ /\ Seeder!HasEnterprise(p)
                  /\ Seeder!Email(p) \notin run[p].duplicates \cup D \cup deleted'
                  => owned'[Seeder!Email(p)] > 0
    PROVE  SeederInv'
<1>1. PICK s : s = IF run[p].row + 1 \in DOMAIN file THEN first ELSE "done"
  OBVIOUS
<1>2. PICK n : n = IF run[p].row + 1 \in DOMAIN file THEN run[p].row + 1 ELSE run[p].row
  OBVIOUS
<1> DEFINE r == [run[p] EXCEPT !.attempts = 0, !.duplicates = run[p].duplicates \cup D, !.row = n]
<1>3. run' = [run EXCEPT ![p] = r] /\ seederPC' = [seederPC EXCEPT ![p] = s] /\ UNCHANGED file
  BY <1>1, <1>2 DEF Seeder!NextRecord, Grows
<1>4. /\ r \in Seeder!Run /\ r.task = run[p].task /\ r.attempts = 0 /\ r.row = n
      /\ n \in DOMAIN file
      /\ r.duplicates = run[p].duplicates \cup D
  <2>1. run[p] \in Seeder!Run
    BY DEF SeederInv, Seeder!TypeOK
  <2>2. 0 \in 0 .. PublicIDAttempts
    BY FileTypes DEF SeederInv
  <2>3. n \in DOMAIN file /\ n \in Nat
    BY <1>2, RunTypes, RowOrder DEF SeederInv
  <2>4. QED
    BY <2>1, <2>2, <2>3 DEF Seeder!Run
<1> HIDE DEF r
<1>5. s \in Seeder!Statements
  BY <1>1, RunTypes, StatementsOK DEF Seeder!Statements
<1>6. Seeder!TypeOK' /\ seederPC'[p] = s /\ run'[p] = r
  <2>1. r.attempts < PublicIDAttempts
    BY <1>4, FileTypes DEF SeederInv
  <2>2. QED
    BY <1>3, <1>4, <1>5, <2>1, ProcessTypes DEF TablesTyped
<1>7. ASSUME run[p].task = "users", NEW i \in DOMAIN file, i < run[p].row \/ i = run[p].row
      PROVE  RowSeeded(p, i)'
  <2>1. CASE i = run[p].row
    <3>1. file'[i].email = Seeder!Email(p) /\ file'[i].enterprise = Seeder!HasEnterprise(p)
      BY <2>1, RunTypes DEF Seeder!Email, Seeder!HasEnterprise, Grows
    <3>2. QED
      BY <1>4, <1>6, <1>7, <3>1 DEF RowSeeded
  <2>2. CASE i # run[p].row
    <3>1. i \in DOMAIN file /\ RowSeeded(p, i)
      BY <1>7, <2>2 DEF SeederInv, SeedsInTurn
    <3>2. run[p].duplicates \subseteq run'[p].duplicates
      BY <1>4, <1>6
    <3>3. QED
      BY <3>1, <3>2, RowKeeps DEF SeederInv
  <2>3. QED
    BY <2>1, <2>2
<1>8. SeedsInTurn(p)'
  <2>1. ASSUME Seeder!Running(p)', NEW i \in DOMAIN file, i < run'[p].row
        PROVE  s = first /\ (i < run[p].row \/ i = run[p].row)
    <3>1. s # "done"
      BY <1>6, <2>1 DEF Seeder!Running
    <3>2. s = first /\ run'[p].row = run[p].row + 1
      BY <1>1, <1>2, <1>4, <1>6, <3>1
    <3>3. i < run[p].row + 1
      BY <2>1, <3>2
    <3>4. QED
      BY <3>2, <3>3, RunTypes, RowOrder DEF SeederInv
  <2>2. ASSUME s = "done", NEW i \in DOMAIN file PROVE i < run[p].row \/ i = run[p].row
    <3>1. first # "done"
      BY RunTypes, StatementsOK
    <3>2. QED
      BY <1>1, <2>2, <3>1, RunTypes, RowOrder DEF SeederInv
  <2>3. s \notin {"check", "create enterprise"} /\ run'[p].task = run[p].task
    BY <1>1, <1>4, <1>6
  <2>4. Seeder!Running(p)' => s \in StatementsOf(r.task)
    BY <1>1, <1>4, <1>6 DEF Seeder!Running
  <2>5. QED
    BY <1>3, <1>4, <1>6, <1>7, <2>1, <2>2, <2>3, <2>4, InTurnNext
<1>9. QED
  BY <1>3, <1>6, <1>8, ProcessKeeps

\* A run that stops where it is.
LEMMA StopKeeps ==
    ASSUME SeederInv, NEW p \in Procs, NEW s, s \in {seederPC[p], "failed"}, NEW r \in Seeder!Run,
           seederPC' = [seederPC EXCEPT ![p] = s], run' = [run EXCEPT ![p] = r], Seeder!Running(p),
           r.task = run[p].task, r.row = run[p].row, r.duplicates = run[p].duplicates,
           s = "failed" \/ r.attempts < PublicIDAttempts,
           UNCHANGED <<file, Seeder!tables, made, deleted>>
    PROVE  SeederInv'
<1>1. Grows /\ TablesTyped /\ UNCHANGED file
  BY DEF Grows, TablesTyped, Seeder!tables, SeederInv, Seeder!TypeOK
<1>2. s \in Seeder!Statements /\ (s \notin {"idle", "done", "failed"} => s = seederPC[p])
  BY DEF Seeder!Statements, SeederInv, Seeder!TypeOK
<1>3. s # "failed" /\ r.task # "admin" => r.row \in DOMAIN file
  BY RunTypes
<1>4. Seeder!TypeOK' /\ seederPC'[p] = s /\ run'[p] = r
  BY <1>1, <1>2, <1>3, ProcessTypes DEF TablesTyped
<1>5. SeedsInTurn(p)'
  <2>1. CASE s = "failed"
    BY <1>4, <2>1 DEF SeedsInTurn, Seeder!Running
  <2>2. CASE s = seederPC[p]
    <3>1. SeedsInTurn(p) /\ s # "done"
      BY <2>2 DEF SeederInv, Seeder!Running
    <3>2. Seeder!Running(p)' /\ Seeder!Email(p)' = Seeder!Email(p)
      BY <1>1, <1>4, <2>2 DEF Seeder!Running, Seeder!Email
    <3>3. ASSUME run[p].task = "users", NEW i \in DOMAIN file, i < run[p].row PROVE RowSeeded(p, i)'
      <4>1. i \in DOMAIN file /\ RowSeeded(p, i)
        BY <3>1, <3>3 DEF SeedsInTurn
      <4>2. run[p].duplicates \subseteq run'[p].duplicates
        BY <1>4
      <4>3. QED
        BY <1>1, <4>1, <4>2, RowKeeps DEF SeederInv
    <3>4. seeded' = seeded
      BY DEF Seeder!tables
    <3>5. QED
      BY <1>4, <2>2, <3>1, <3>2, <3>3, <3>4 DEF SeedsInTurn
  <2>3. QED
    BY <2>1, <2>2
<1>6. QED
  BY <1>1, <1>4, <1>5, ProcessKeeps

LEMMA CollidesKeeps ==
    ASSUME SeederInv, NEW p \in Procs, Seeder!Running(p), Seeder!Collides(p)
    PROVE  SeederInv'
<1> DEFINE r == [run[p] EXCEPT !.attempts = run[p].attempts + 1]
<1>1. run[p].attempts + 1 \in 0 .. PublicIDAttempts
  /\ (run[p].attempts + 1 # PublicIDAttempts => run[p].attempts + 1 < PublicIDAttempts)
  <2>1. run[p].attempts \in Nat /\ run[p].attempts < PublicIDAttempts /\ PublicIDAttempts \in Nat
    BY RunTypes, FileTypes DEF SeederInv
  <2>2. QED
    BY <2>1
<1>2. /\ r \in Seeder!Run /\ r.task = run[p].task /\ r.row = run[p].row
      /\ r.duplicates = run[p].duplicates /\ r.attempts = run[p].attempts + 1
  <2>1. run[p] \in Seeder!Run
    BY DEF SeederInv, Seeder!TypeOK
  <2>2. QED
    BY <1>1, <2>1 DEF Seeder!Run
<1>3. run' = [run EXCEPT ![p] = r] /\ UNCHANGED <<file, Seeder!tables, made, deleted>>
  BY DEF Seeder!Collides, Seeder!history
<1>4. PICK s : /\ s = IF run[p].attempts + 1 = PublicIDAttempts THEN "failed" ELSE seederPC[p]
               /\ seederPC' = [seederPC EXCEPT ![p] = s]
  BY DEF Seeder!Collides
<1> HIDE DEF r
<1>5. QED
  BY <1>1, <1>2, <1>3, <1>4, StopKeeps

LEMMA SeederCrashKeeps ==
    ASSUME SeederInv, NEW p \in Procs, Seeder!Crash(p)
    PROVE  SeederInv'
<1>1. run' = [run EXCEPT ![p] = run[p]] /\ run[p] \in Seeder!Run
  BY DEF Seeder!Crash, SeederInv, Seeder!TypeOK
<1>2. QED
  BY <1>1, StopKeeps DEF Seeder!Crash, Seeder!history

LEMMA StartKeeps ==
    ASSUME SeederInv, NEW p \in Procs, NEW task \in Seeder!Tasks, NEW parses \in BOOLEAN,
           NEW s \in StatementsOf(task), Seeder!Start(p, task, parses, s),
           parses /\ task # "admin" => DOMAIN file # {}, s \notin {"check", "create enterprise"}
    PROVE  SeederInv'
<1>1. Grows /\ TablesTyped /\ UNCHANGED file /\ file \in MCFiles
  <2>1. made' \in [Procs -> [DOMAIN file -> Nat]]
    BY DEF Seeder!Start, SeederInv, Seeder!TypeOK
  <2>2. QED
    BY <2>1 DEF Seeder!Start, Grows, TablesTyped, Seeder!tables, SeederInv, Seeder!TypeOK
<1>2. PICK r : r = [Seeder!NoRun EXCEPT !.task = task]
  OBVIOUS
<1>3. r \in Seeder!Run /\ r.task = task /\ r.row = 1 /\ r.attempts = 0
  <2>1. 0 \in 0 .. PublicIDAttempts
    BY FileTypes DEF SeederInv
  <2>2. 1 \in Nat /\ {} \in SUBSET SeedEmails
    OBVIOUS
  <2>3. r = [task |-> task, row |-> 1, attempts |-> 0, duplicates |-> {}]
    BY <1>2 DEF Seeder!NoRun
  <2>4. QED
    BY <2>1, <2>2, <2>3 DEF Seeder!Run
<1>4. PICK t : t = IF parses THEN s ELSE "failed"
  OBVIOUS
<1>5. t \in Seeder!Statements /\ (t # "failed" => t = s /\ parses)
  BY <1>4, StatementsOK DEF Seeder!Statements
<1>6. seederPC' = [seederPC EXCEPT ![p] = t] /\ run' = [run EXCEPT ![p] = r]
  BY <1>2, <1>4 DEF Seeder!Start
<1>7. r.attempts < PublicIDAttempts /\ (t # "failed" /\ task # "admin" => 1 \in DOMAIN file)
  BY <1>1, <1>3, <1>5, FileTypes, RowOrder
<1>8. Seeder!TypeOK' /\ seederPC'[p] = t /\ run'[p] = r
  BY <1>1, <1>3, <1>5, <1>6, <1>7, ProcessTypes DEF TablesTyped
<1>9. SeedsInTurn(p)'
  <2>1. t # "done" /\ t \notin {"check", "create enterprise"}
    BY <1>5, StatementsOK
  <2>2. \A i \in DOMAIN file : ~(i < r.row)
    BY <1>1, <1>3, RowOrder
  <2>3. Seeder!Running(p)' => t \in StatementsOf(r.task)
    BY <1>3, <1>5, <1>8 DEF Seeder!Running
  <2>4. QED
    BY <1>1, <1>3, <1>8, <2>1, <2>2, <2>3, InTurnNext
<1>10. QED
  BY <1>1, <1>6, <1>8, <1>9, ProcessKeeps

\* The tables stay as they are while a process runs.
LEMMA QuietStep ==
    ASSUME SeederInv, UNCHANGED <<file, Seeder!tables, made, deleted>>
    PROVE  Grows /\ TablesTyped /\ seeded' = seeded /\ owned' = owned /\ deleted' = deleted
BY DEF Grows, TablesTyped, Seeder!tables, SeederInv, Seeder!TypeOK

\* A statement of the users belongs to a run of the users.
LEMMA StatementTells ==
    ASSUME SeederInv, NEW p \in Procs
    PROVE  /\ seederPC[p] \in {"find", "check", "create user", "create enterprise"} =>
                  Seeder!Running(p) /\ run[p].task = "users"
           /\ seederPC[p] = "create catalog" => Seeder!Running(p) /\ run[p].task = "catalogs"
           /\ seederPC[p] = "create admin" => Seeder!Running(p) /\ run[p].task = "admin"
<1>1. Seeder!Running(p) => seederPC[p] \in StatementsOf(run[p].task) /\ run[p].task \in Seeder!Tasks
  BY RunTypes
<1>2. QED
  BY <1>1 DEF Seeder!Running, StatementsOf, Seeder!Tasks

LEMMA MakesTyped ==
    ASSUME SeederInv, NEW p \in Procs, Seeder!Running(p), run[p].task # "admin", Seeder!Makes(p)
    PROVE  /\ made' \in [Procs -> [DOMAIN file -> Nat]]
           /\ \A q \in Procs \ {p} : made'[q] = made[q]
           /\ made'[p][run[p].row] = made[p][run[p].row] + 1
           /\ \A i \in DOMAIN file : i # run[p].row => made'[p][i] = made[p][i]
<1>1. PICK m : m = run[p].row
  OBVIOUS
<1>2. m \in DOMAIN file /\ made \in [Procs -> [DOMAIN file -> Nat]]
  BY <1>1, RunTypes DEF SeederInv, Seeder!TypeOK
<1>3. made' = [made EXCEPT ![p] = [made[p] EXCEPT ![m] = made[p][m] + 1]]
  BY <1>1 DEF Seeder!Makes
<1>4. made[p][m] + 1 \in Nat
  BY <1>2
<1>5. [made[p] EXCEPT ![m] = made[p][m] + 1] \in [DOMAIN file -> Nat]
  BY <1>2, <1>4
<1>6. /\ made' \in [Procs -> [DOMAIN file -> Nat]]
      /\ \A q \in Procs \ {p} : made'[q] = made[q]
      /\ made'[p] = [made[p] EXCEPT ![m] = made[p][m] + 1]
  BY <1>2, <1>3, <1>5
<1>7. made'[p][m] = made[p][m] + 1 /\ \A i \in DOMAIN file : i # m => made'[p][i] = made[p][i]
  BY <1>2, <1>6
<1>8. QED
  BY <1>1, <1>6, <1>7

LEMMA UserRecordKeeps ==
    ASSUME SeederInv, Grows, TablesTyped, NEW p \in Procs, Seeder!Running(p), run[p].task = "users",
           NEW D, D \subseteq SeedEmails, Seeder!NextRecord(p, "find", D),
           seeded'[Seeder!Email(p)] # "none",
           Seeder!HasEnterprise(p) => owned'[Seeder!Email(p)] > 0 \/ Seeder!Email(p) \in D
    PROVE  SeederInv'
<1>1. "find" \in StatementsOf(run[p].task) /\ "find" \notin {"check", "create enterprise"}
  BY DEF StatementsOf
<1>2. /\ seeded'[Seeder!Email(p)] # "none"
      /\ Seeder!HasEnterprise(p) /\ Seeder!Email(p) \notin run[p].duplicates \cup D \cup deleted' =>
            owned'[Seeder!Email(p)] > 0
  OBVIOUS
<1>3. run[p].task # "admin"
  OBVIOUS
<1>4. QED
  BY <1>1, <1>2, <1>3, RecordKeeps, Zenon

LEMMA CatalogRecordKeeps ==
    ASSUME SeederInv, Grows, TablesTyped, NEW p \in Procs, Seeder!Running(p),
           run[p].task = "catalogs",
           NEW D, D \subseteq SeedEmails, Seeder!NextRecord(p, "create catalog", D)
    PROVE  SeederInv'
<1>1. /\ "create catalog" \in StatementsOf(run[p].task)
      /\ "create catalog" \notin {"check", "create enterprise"}
  BY DEF StatementsOf
<1>2. run[p].task # "admin" /\ run[p].task # "users"
  OBVIOUS
<1>3. QED
  BY <1>1, <1>2, RecordKeeps, Zenon

LEMMA FindUserKeeps == ASSUME SeederInv, NEW p \in Procs, Seeder!FindUser(p) PROVE SeederInv'
<1>1. /\ Seeder!Running(p) /\ run[p].task = "users"
      /\ StatementsOf("users") = StatementsOf(run[p].task)
  BY StatementTells DEF Seeder!FindUser
<1>2. Grows /\ TablesTyped /\ seeded' = seeded /\ owned' = owned /\ deleted' = deleted
  BY QuietStep DEF Seeder!FindUser, Seeder!history
<1>3. CASE ~Seeder!Registered(Seeder!Email(p))
  BY <1>1, <1>2, <1>3, GotoKeeps DEF Seeder!FindUser, StatementsOf
<1>4. CASE Seeder!Registered(Seeder!Email(p)) /\ Seeder!HasEnterprise(p)
  BY <1>1, <1>2, <1>4, GotoKeeps
     DEF Seeder!FindUser, Seeder!MissesEnterprise, Seeder!Registered, StatementsOf
<1>5. CASE Seeder!Registered(Seeder!Email(p)) /\ ~Seeder!HasEnterprise(p)
  BY <1>1, <1>2, <1>5, UserRecordKeeps
     DEF Seeder!FindUser, Seeder!MissesEnterprise, Seeder!Registered
<1>6. QED
  BY <1>3, <1>4, <1>5

LEMMA CheckEnterprisesKeeps ==
    ASSUME SeederInv, NEW p \in Procs, Seeder!CheckEnterprises(p) PROVE SeederInv'
<1>1. /\ Seeder!Running(p) /\ run[p].task = "users" /\ seeded[Seeder!Email(p)] # "none"
      /\ Seeder!Email(p) \in SeedEmails
  BY StatementTells, RunTypes DEF Seeder!CheckEnterprises, SeederInv, SeedsInTurn
<1>2. Grows /\ TablesTyped /\ seeded' = seeded /\ owned' = owned /\ deleted' = deleted
  BY QuietStep DEF Seeder!CheckEnterprises, Seeder!history
<1>3. CASE Seeder!Found(owned[Seeder!Email(p)]) > 0
  <2>1. owned[Seeder!Email(p)] > 0
    BY <1>1, <1>3, FileTypes DEF Seeder!Found, Seeder!FilterLimit, SeederInv, Seeder!TypeOK
  <2>2. QED
    BY <1>1, <1>2, <1>3, <2>1, UserRecordKeeps DEF Seeder!CheckEnterprises
<1>4. CASE ~(Seeder!Found(owned[Seeder!Email(p)]) > 0)
  BY <1>1, <1>2, <1>4, GotoKeeps DEF Seeder!CheckEnterprises, StatementsOf
<1>5. QED
  BY <1>3, <1>4

LEMMA CreateUserKeeps == ASSUME SeederInv, NEW p \in Procs, Seeder!CreateUser(p) PROVE SeederInv'
<1>1. Seeder!Running(p) /\ run[p].task = "users" /\ Seeder!Email(p) \in SeedEmails
  BY StatementTells, RunTypes DEF Seeder!CreateUser
<1>2. CASE Seeder!Collides(p)
  BY <1>1, <1>2, CollidesKeeps
<1>3. CASE /\ seeded[Seeder!Email(p)] # "none" /\ Seeder!NextRecord(p, "find", {Seeder!Email(p)})
           /\ UNCHANGED <<file, Seeder!tables, Seeder!history>>
  <2>1. Grows /\ TablesTyped /\ seeded' = seeded /\ owned' = owned /\ deleted' = deleted
    BY <1>3, QuietStep DEF Seeder!history
  <2>2. QED
    BY <1>1, <1>3, <2>1, UserRecordKeeps
<1>4. CASE /\ seeded[Seeder!Email(p)] = "none"
           /\ seeded' = [seeded EXCEPT ![Seeder!Email(p)] = "member"]
           /\ IF Seeder!HasEnterprise(p) THEN Seeder!Goto(p, "create enterprise")
              ELSE Seeder!NextRecord(p, "find", {})
           /\ UNCHANGED <<file, owned, catalogs, Seeder!history>>
  <2>1. Grows /\ TablesTyped /\ seeded'[Seeder!Email(p)] = "member"
    BY <1>1, <1>4 DEF Grows, TablesTyped, Seeder!history, SeederInv, Seeder!TypeOK
  <2>2. CASE Seeder!HasEnterprise(p)
    BY <1>1, <1>4, <2>1, <2>2, GotoKeeps DEF StatementsOf
  <2>3. CASE ~Seeder!HasEnterprise(p)
    BY <1>1, <1>4, <2>1, <2>3, UserRecordKeeps
  <2>4. QED
    BY <2>2, <2>3
<1>5. QED
  BY <1>2, <1>3, <1>4 DEF Seeder!CreateUser

LEMMA CreateEnterpriseKeeps ==
    ASSUME SeederInv, NEW p \in Procs, Seeder!CreateEnterprise(p) PROVE SeederInv'
<1>1. /\ Seeder!Running(p) /\ run[p].task = "users" /\ Seeder!Email(p) \in SeedEmails
      /\ seeded[Seeder!Email(p)] # "none"
  BY StatementTells, RunTypes DEF Seeder!CreateEnterprise, SeederInv, SeedsInTurn
<1>2. CASE Seeder!Collides(p)
  BY <1>1, <1>2, CollidesKeeps
<1>3. CASE /\ owned[Seeder!Email(p)] < MaxOwned
           /\ owned' = [owned EXCEPT ![Seeder!Email(p)] = @ + 1]
           /\ Seeder!Makes(p)
           /\ Seeder!NextRecord(p, "find", {})
           /\ UNCHANGED <<file, seeded, catalogs, started, deleted>>
  <2>1. owned[Seeder!Email(p)] \in 0 .. MaxOwned /\ MaxOwned \in Nat
    BY <1>1, FileTypes DEF SeederInv, Seeder!TypeOK
  <2>2. PICK n : n = owned[Seeder!Email(p)]
    OBVIOUS
  <2>3. n + 1 \in 0 .. MaxOwned /\ n + 1 > 0
    BY <1>3, <2>1, <2>2
  <2>4. owned' = [owned EXCEPT ![Seeder!Email(p)] = n + 1]
    BY <1>3, <2>2
  <2>5. owned' \in [SeedEmails -> 0 .. MaxOwned] /\ owned'[Seeder!Email(p)] > 0
    BY <1>1, <2>3, <2>4 DEF SeederInv, Seeder!TypeOK
  <2>6. \A e \in SeedEmails : owned[e] > 0 => owned'[e] > 0
    BY <1>1, <2>3, <2>4 DEF SeederInv, Seeder!TypeOK
  <2>7. Grows /\ TablesTyped
    BY <1>1, <1>3, <2>5, <2>6, MakesTyped DEF Grows, TablesTyped, SeederInv, Seeder!TypeOK
  <2>8. QED
    BY <1>1, <1>3, <2>5, <2>7, UserRecordKeeps
<1>4. QED
  BY <1>2, <1>3 DEF Seeder!CreateEnterprise

LEMMA CreateCatalogKeeps ==
    ASSUME SeederInv, NEW p \in Procs, Seeder!CreateCatalog(p) PROVE SeederInv'
<1>1. Seeder!Running(p) /\ run[p].task = "catalogs"
  BY StatementTells DEF Seeder!CreateCatalog
<1>2. CASE Seeder!Collides(p)
  BY <1>1, <1>2, CollidesKeeps
<1>3. CASE /\ catalogs' = [catalogs EXCEPT ![run[p].row] = @ + 1]
           /\ Seeder!Makes(p)
           /\ Seeder!NextRecord(p, "create catalog", {})
           /\ UNCHANGED <<file, seeded, owned, started, deleted>>
  <2>1. run[p].row \in DOMAIN file
    BY <1>1, RunTypes, FileTypes DEF SeederInv
  <2>2. catalogs' \in [DOMAIN file -> Nat]
    <3>1. catalogs \in [DOMAIN file -> Nat] /\ catalogs[run[p].row] + 1 \in Nat
      BY <2>1 DEF SeederInv, Seeder!TypeOK
    <3>2. QED
      BY <1>3, <2>1, <3>1
  <2>3. Grows /\ TablesTyped
    BY <1>1, <1>3, <2>2, MakesTyped DEF Grows, TablesTyped, SeederInv, Seeder!TypeOK
  <2>4. PICK none : none = {}
    OBVIOUS
  <2>5. Seeder!NextRecord(p, "create catalog", none) /\ none \subseteq SeedEmails
    BY <1>3, <2>4
  <2>6. QED
    BY <1>1, <2>3, <2>5, CatalogRecordKeeps
<1>4. QED
  BY <1>2, <1>3 DEF Seeder!CreateCatalog

LEMMA CreateAdminKeeps ==
    ASSUME SeederInv, NEW p \in Procs, Seeder!CreateAdmin(p) PROVE SeederInv'
<1>1. Seeder!Running(p) /\ run[p].task = "admin"
  BY StatementTells DEF Seeder!CreateAdmin
<1>2. CASE Seeder!Collides(p)
  BY <1>1, <1>2, CollidesKeeps
<1>3. CASE Seeder!Goto(p, "failed") /\ UNCHANGED <<file, Seeder!tables, Seeder!history>>
  <2>1. Grows /\ TablesTyped
    BY <1>3, QuietStep DEF Seeder!history
  <2>2. QED
    BY <1>1, <1>3, <2>1, GotoKeeps
<1>4. CASE /\ seeded' = [seeded EXCEPT ![AdminEmail] = "admin"]
           /\ Seeder!Goto(p, "done")
           /\ UNCHANGED <<file, owned, catalogs, Seeder!history>>
  <2>1. Grows /\ TablesTyped
    BY <1>4 DEF Grows, TablesTyped, Seeder!history, SeederInv, Seeder!TypeOK
  <2>2. QED
    BY <1>1, <1>4, <2>1, GotoKeeps
<1>5. QED
  BY <1>2, <1>3, <1>4 DEF Seeder!CreateAdmin

LEMMA ServeKeeps == ASSUME SeederInv, NEW e \in SeedEmails, Seeder!Serve(e) PROVE SeederInv'
<1>1. seeded' \in [SeedEmails -> {"none", "member", "admin", "deleted"}]
  BY DEF Seeder!Serve, Seeder!Registered, SeederInv, Seeder!TypeOK
<1>2. /\ owned' \in [SeedEmails -> 0 .. MaxOwned]
      /\ \A o \in SeedEmails : owned[o] > 0 => owned'[o] > 0 \/ o \in deleted'
  <2>1. owned[e] \in 0 .. MaxOwned /\ MaxOwned \in Nat
    BY FileTypes DEF SeederInv, Seeder!TypeOK
  <2>2. CASE UNCHANGED owned
    BY <2>2 DEF SeederInv, Seeder!TypeOK
  <2>3. CASE owned[e] < MaxOwned /\ owned' = [owned EXCEPT ![e] = @ + 1]
    BY <2>1, <2>3 DEF SeederInv, Seeder!TypeOK
  <2>4. CASE owned[e] > 0 /\ owned' = [owned EXCEPT ![e] = @ - 1] /\ deleted' = deleted \cup {e}
    BY <2>1, <2>4 DEF SeederInv, Seeder!TypeOK
  <2>5. QED
    BY <2>2, <2>3, <2>4 DEF Seeder!Serve
<1>3. Grows
  <2>1. \A o \in SeedEmails : seeded[o] # "none" => seeded'[o] # "none"
    BY DEF Seeder!Serve, SeederInv, Seeder!TypeOK
  <2>2. deleted \subseteq deleted' /\ UNCHANGED file
    BY DEF Seeder!Serve
  <2>3. QED
    BY <1>2, <2>1, <2>2 DEF Grows
<1>4. UNCHANGED <<file, catalogs, seederPC, run, made>>
  BY DEF Seeder!Serve
<1>5. Seeder!TypeOK'
  BY <1>1, <1>2, <1>4 DEF SeederInv, Seeder!TypeOK, Seeder!Running
<1>6. \A p \in Procs : SeedsInTurn(p)'
  BY <1>3, <1>4, BystanderKeeps
<1>7. QED
  BY <1>4, <1>5, <1>6 DEF SeederInv

LEMMA SeederStepKeeps == SeederInv /\ [Seeder!Next]_(Seeder!vars) => SeederInv'
<1> SUFFICES ASSUME SeederInv, [Seeder!Next]_(Seeder!vars) PROVE SeederInv'
  OBVIOUS
<1>1. ASSUME NEW p \in Procs, Seeder!SeedUsers(p) PROVE SeederInv'
  BY <1>1, StartKeeps
     DEF Seeder!SeedUsers, Seeder!UsersParse, Seeder!CatalogsParse, Seeder!Tasks, StatementsOf
<1>2. ASSUME NEW p \in Procs, Seeder!SeedCatalogs(p) PROVE SeederInv'
  BY <1>2, StartKeeps DEF Seeder!SeedCatalogs, Seeder!CatalogsParse, Seeder!Tasks, StatementsOf
<1>3. ASSUME NEW p \in Procs, Seeder!SeedAdmin(p) PROVE SeederInv'
  BY <1>3, StartKeeps DEF Seeder!SeedAdmin, Seeder!Tasks, StatementsOf
<1>4. ASSUME NEW p \in Procs, Seeder!Step(p) PROVE SeederInv'
  BY <1>4, FindUserKeeps, CheckEnterprisesKeeps, CreateUserKeeps, CreateEnterpriseKeeps,
     CreateCatalogKeeps, CreateAdminKeeps DEF Seeder!Step
<1>5. CASE UNCHANGED Seeder!vars
  <2>1. UNCHANGED <<file, seeded, owned, catalogs, seederPC, run, made, deleted>>
    BY <1>5 DEF Seeder!vars
  <2>2. Seeder!TypeOK'
    BY <2>1 DEF SeederInv, Seeder!TypeOK, Seeder!Running
  <2>3. Grows
    BY <2>1 DEF Grows
  <2>4. QED
    BY <2>1, <2>2, <2>3, BystanderKeeps DEF SeederInv
<1>6. QED
  BY <1>1, <1>2, <1>3, <1>4, <1>5, SeederCrashKeeps, ServeKeeps DEF Seeder!Next

\* The catalog of the row i is there, and the run has made it, once.
CatalogSeeded(p, i) == made[p][i] = 1 /\ catalogs[i] >= 1

\* An administrator's account, or what is left of it.
Administers(account) == account \in {"admin", "deleted"}

\* A run makes nothing of the rows it has not left behind, and one thing at most of the others.
MakesOnce(p) ==
    /\ \A i \in DOMAIN file : made[p][i] = 0 \/ made[p][i] = 1
    /\ Seeder!Running(p) /\ run[p].task # "admin" =>
          \A i \in DOMAIN file : ~(i < run[p].row) => made[p][i] = 0
    /\ run[p].task = "catalogs" =>
          /\ Seeder!Running(p) => \A i \in DOMAIN file : i < run[p].row => CatalogSeeded(p, i)
          /\ seederPC[p] = "done" => \A i \in DOMAIN file : CatalogSeeded(p, i)
    /\ run[p].task = "admin" /\ seederPC[p] = "done" => Administers(seeded[AdminEmail])

MadeInv == \A p \in Procs : MakesOnce(p)

\* No statement takes a catalog, or an administrator's account.
Builds ==
    /\ \A i \in DOMAIN file : catalogs[i] >= 1 => catalogs'[i] >= 1
    /\ Administers(seeded[AdminEmail]) => Administers(seeded'[AdminEmail])
    /\ UNCHANGED file

LEMMA BystanderMakes ==
    ASSUME Builds, NEW p \in Procs, MakesOnce(p),
           seederPC'[p] = seederPC[p], run'[p] = run[p], made'[p] = made[p]
    PROVE  MakesOnce(p)'
<1>1. Seeder!Running(p)' <=> Seeder!Running(p)
  BY DEF Seeder!Running
<1>2. \A i \in DOMAIN file : CatalogSeeded(p, i) => CatalogSeeded(p, i)'
  BY DEF Builds, CatalogSeeded
<1>3. Administers(seeded[AdminEmail]) => Administers(seeded[AdminEmail])'
  BY DEF Builds, Administers
<1>4. DOMAIN file' = DOMAIN file
  BY DEF Builds
<1>5. QED
  BY <1>1, <1>2, <1>3, <1>4 DEF MakesOnce

\* The row stays, or the run ends, but not well.
LEMMA StayMakes ==
    ASSUME Builds, NEW p \in Procs, MakesOnce(p), Seeder!Running(p), seederPC'[p] # "done",
           run'[p].task = run[p].task, run'[p].row = run[p].row, made'[p] = made[p]
    PROVE  MakesOnce(p)'
<1>1. \A i \in DOMAIN file : CatalogSeeded(p, i) => CatalogSeeded(p, i)'
  BY DEF Builds, CatalogSeeded
<1>2. DOMAIN file' = DOMAIN file
  BY DEF Builds
<1>3. QED
  BY <1>1, <1>2 DEF MakesOnce

\* The row is left behind. A run of the catalogs has made one of it.
LEMMA LeaveMakes ==
    ASSUME SeederInv, Builds, NEW p \in Procs, MakesOnce(p), Seeder!Running(p),
           NEW first, NEW D, Seeder!NextRecord(p, first, D), run[p].task # "admin",
           \A i \in DOMAIN file : i # run[p].row => made'[p][i] = made[p][i],
           made'[p][run[p].row] = made[p][run[p].row] \/
              made'[p][run[p].row] = made[p][run[p].row] + 1,
           run[p].task = "catalogs" =>
              made'[p][run[p].row] = made[p][run[p].row] + 1 /\ catalogs'[run[p].row] >= 1,
           first # "done"
    PROVE  MakesOnce(p)'
<1>1. PICK n : n = IF run[p].row + 1 \in DOMAIN file THEN run[p].row + 1 ELSE run[p].row
  OBVIOUS
<1>2. PICK m : m = run[p].row
  OBVIOUS
<1>3. /\ run'[p].task = run[p].task /\ run'[p].row = n
      /\ seederPC'[p] = IF m + 1 \in DOMAIN file THEN first ELSE "done"
  BY <1>1, <1>2 DEF Seeder!NextRecord, SeederInv, Seeder!TypeOK, Seeder!Run
<1>4. m \in DOMAIN file /\ m \in Nat /\ file \in MCFiles /\ DOMAIN file' = DOMAIN file
  BY <1>2, RunTypes DEF SeederInv, Builds
<1>5. made[p][m] = 0
  <2>1. ~(m < m)
    BY <1>4
  <2>2. QED
    BY <1>2, <1>4, <2>1 DEF MakesOnce
<1>6. made'[p][m] \in {0, 1} /\ (run[p].task = "catalogs" => made'[p][m] = 1)
  BY <1>2, <1>5
<1>7. \A i \in DOMAIN file : made'[p][i] = 0 \/ made'[p][i] = 1
  BY <1>2, <1>6 DEF MakesOnce
<1>8. ASSUME Seeder!Running(p)', NEW i \in DOMAIN file, ~(i < run'[p].row) PROVE made'[p][i] = 0
  <2>1. m + 1 \in DOMAIN file /\ n = m + 1
    BY <1>1, <1>2, <1>3, <1>8 DEF Seeder!Running
  <2>2. i \in Nat
    BY <1>4, RowOrder
  <2>3. i # m /\ ~(i < m)
    BY <1>3, <1>4, <1>8, <2>1, <2>2
  <2>4. QED
    BY <1>2, <2>3 DEF MakesOnce
<1>9. ASSUME run[p].task = "catalogs", NEW i \in DOMAIN file, i < m \/ i = m
      PROVE  CatalogSeeded(p, i)'
  <2>1. CASE i = m
    BY <1>2, <1>6, <1>9, <2>1 DEF CatalogSeeded
  <2>2. CASE i # m
    BY <1>2, <1>9, <2>2 DEF CatalogSeeded, MakesOnce, Builds
  <2>3. QED
    BY <2>1, <2>2
<1>10. ASSUME Seeder!Running(p)', NEW i \in DOMAIN file, i < run'[p].row PROVE i < m \/ i = m
  <2>1. m + 1 \in DOMAIN file /\ n = m + 1
    BY <1>1, <1>2, <1>3, <1>10 DEF Seeder!Running
  <2>2. QED
    BY <1>3, <1>4, <1>10, <2>1, RowOrder
<1>11. ASSUME seederPC'[p] = "done", NEW i \in DOMAIN file PROVE i < m \/ i = m
  <2>1. m + 1 \notin DOMAIN file
    BY <1>3, <1>11
  <2>2. QED
    BY <1>4, <2>1, RowOrder
<1>12. QED
  BY <1>3, <1>4, <1>7, <1>8, <1>9, <1>10, <1>11 DEF MakesOnce

LEMMA MadeStarts == Seeder!Init => MadeInv
BY DEF Seeder!Init, Seeder!Running, MadeInv, MakesOnce, Seeder!NoRun

LEMMA StartMakes ==
    ASSUME SeederInv, NEW p \in Procs, MakesOnce(p), NEW task, NEW parses, NEW s,
           Seeder!Start(p, task, parses, s), s # "done"
    PROVE  MakesOnce(p)'
<1>1. /\ seederPC'[p] # "done" /\ run'[p].row = 1 /\ UNCHANGED file
      /\ \A i \in DOMAIN file : made'[p][i] = 0
  BY DEF Seeder!Start, Seeder!NoRun, SeederInv, Seeder!TypeOK
<1>2. \A i \in DOMAIN file : ~(i < 1)
  BY RowOrder DEF SeederInv
<1>3. QED
  BY <1>1, <1>2 DEF MakesOnce

LEMMA StepBuilds == SeederInv /\ [Seeder!Next]_(Seeder!vars) => Builds
<1> SUFFICES ASSUME SeederInv, [Seeder!Next]_(Seeder!vars) PROVE Builds
  OBVIOUS
<1>1. CASE UNCHANGED <<file, seeded, catalogs>>
  BY <1>1 DEF Builds
<1>2. ASSUME NEW p \in Procs, Seeder!CreateCatalog(p), ~Seeder!Collides(p) PROVE Builds
  <2>1. PICK m : m = run[p].row
    OBVIOUS
  <2>2. UNCHANGED <<file, seeded>> /\ catalogs' = [catalogs EXCEPT ![m] = catalogs[m] + 1]
    BY <1>2, <2>1 DEF Seeder!CreateCatalog
  <2>3. catalogs \in [DOMAIN file -> Nat]
    BY DEF SeederInv, Seeder!TypeOK
  <2>4. \A i \in DOMAIN file : catalogs[i] >= 1 => catalogs'[i] >= 1
    BY <2>2, <2>3
  <2>5. QED
    BY <2>2, <2>4 DEF Builds
<1>3. ASSUME NEW e \in SeedEmails, NEW now, seeded' = [seeded EXCEPT ![e] = now],
             ~Administers(seeded[e]) \/ now = "deleted", UNCHANGED <<file, catalogs>>
      PROVE  Builds
  BY <1>3, FileTypes DEF SeederInv, Seeder!TypeOK, Builds, Administers
<1>4. ASSUME NEW p \in Procs, Seeder!Step(p) PROVE Builds
  <2>1. ASSUME seeded[Seeder!Email(p)] = "none", Seeder!CreateUser(p), ~Seeder!Collides(p)
        PROVE  Builds
    <3>1. Seeder!Email(p) \in SeedEmails
      BY <2>1, StatementTells, RunTypes DEF Seeder!CreateUser
    <3>2. /\ seeded' = [seeded EXCEPT ![Seeder!Email(p)] = "member"]
          /\ UNCHANGED <<file, catalogs>>
      BY <2>1 DEF Seeder!CreateUser
    <3>3. QED
      BY <1>3, <2>1, <3>1, <3>2 DEF Administers
  <2>2. ASSUME seeded[AdminEmail] = "none", Seeder!CreateAdmin(p), ~Seeder!Collides(p)
        PROVE  Builds
    <3>1. seeded' = [seeded EXCEPT ![AdminEmail] = "admin"] /\ UNCHANGED <<file, catalogs>>
      BY <2>2 DEF Seeder!CreateAdmin
    <3>2. QED
      BY <1>3, <2>2, <3>1, FileTypes DEF Administers, SeederInv
  <2>3. CASE Seeder!Collides(p)
    BY <1>1, <2>3 DEF Seeder!Collides, Seeder!tables
  <2>4. CASE Seeder!CreateEnterprise(p)
    BY <1>1, <2>3, <2>4 DEF Seeder!CreateEnterprise
  <2>5. CASE Seeder!FindUser(p) \/ Seeder!CheckEnterprises(p)
    BY <1>1, <2>5 DEF Seeder!FindUser, Seeder!CheckEnterprises, Seeder!tables
  <2>6. CASE Seeder!CreateUser(p)
    BY <1>1, <2>1, <2>3, <2>6 DEF Seeder!CreateUser, Seeder!tables
  <2>7. CASE Seeder!CreateAdmin(p)
    BY <1>1, <2>2, <2>3, <2>7 DEF Seeder!CreateAdmin, Seeder!tables
  <2>8. QED
    BY <1>2, <1>4, <2>3, <2>4, <2>5, <2>6, <2>7 DEF Seeder!Step
<1>5. ASSUME NEW e \in SeedEmails, Seeder!Serve(e) PROVE Builds
  <2>1. UNCHANGED <<file, catalogs>>
    BY <1>5 DEF Seeder!Serve
  <2>2. \/ UNCHANGED seeded
        \/ seeded[e] = "none" /\ seeded' = [seeded EXCEPT ![e] = "member"]
        \/ seeded' = [seeded EXCEPT ![e] = "deleted"]
    BY <1>5 DEF Seeder!Serve
  <2>3. QED
    BY <1>1, <1>3, <2>1, <2>2 DEF Administers
<1>6. ASSUME NEW p \in Procs,
             Seeder!SeedUsers(p) \/ Seeder!SeedCatalogs(p) \/ Seeder!SeedAdmin(p) \/ Seeder!Crash(p)
      PROVE  Builds
  BY <1>1, <1>6 DEF Seeder!SeedUsers, Seeder!SeedCatalogs, Seeder!SeedAdmin, Seeder!Start,
     Seeder!Crash, Seeder!tables
<1>7. QED
  BY <1>1, <1>4, <1>5, <1>6 DEF Seeder!Next, Seeder!vars

\* The row is left behind, and nothing made of it.
LEMMA SkipMakes ==
    ASSUME SeederInv, Builds, NEW p \in Procs, MakesOnce(p), Seeder!Running(p),
           run[p].task = "users", NEW D, Seeder!NextRecord(p, "find", D), made' = made
    PROVE  MakesOnce(p)'
BY LeaveMakes

LEMMA GotoMakes ==
    ASSUME SeederInv, Builds, NEW p \in Procs, MakesOnce(p), Seeder!Running(p),
           NEW s, s # "done", Seeder!Goto(p, s), made' = made
    PROVE  MakesOnce(p)'
<1>1. seederPC'[p] = s /\ run'[p].task = run[p].task /\ run'[p].row = run[p].row
  BY DEF Seeder!Goto, SeederInv, Seeder!TypeOK, Seeder!Run
<1>2. QED
  BY <1>1, StayMakes

LEMMA CollidesMakes ==
    ASSUME SeederInv, Builds, NEW p \in Procs, MakesOnce(p), Seeder!Running(p), Seeder!Collides(p)
    PROVE  MakesOnce(p)'
<1>1. /\ run'[p].task = run[p].task /\ run'[p].row = run[p].row /\ made' = made
      /\ seederPC'[p] \in {seederPC[p], "failed"}
  BY DEF Seeder!Collides, Seeder!history, SeederInv, Seeder!TypeOK, Seeder!Run
<1>2. QED
  BY <1>1, StayMakes DEF Seeder!Running

\* The statements of a process, and what the run has made.
LEMMA StepMakes ==
    ASSUME SeederInv, Builds, NEW p \in Procs, MakesOnce(p), Seeder!Step(p)
    PROVE  MakesOnce(p)'
<1>1. CASE Seeder!FindUser(p) \/ Seeder!CheckEnterprises(p)
  <2>1. Seeder!Running(p) /\ run[p].task = "users" /\ made' = made
    BY <1>1, StatementTells DEF Seeder!FindUser, Seeder!CheckEnterprises, Seeder!history
  <2>2. \/ Seeder!NextRecord(p, "find", {}) \/ Seeder!Goto(p, "check")
        \/ Seeder!Goto(p, "create user") \/ Seeder!Goto(p, "create enterprise")
    BY <1>1 DEF Seeder!FindUser, Seeder!CheckEnterprises
  <2>3. QED
    BY <2>1, <2>2, SkipMakes, GotoMakes
<1>2. CASE Seeder!CreateUser(p)
  <2>1. Seeder!Running(p) /\ run[p].task = "users"
    BY <1>2, StatementTells DEF Seeder!CreateUser
  <2>2. \/ Seeder!Collides(p)
        \/ /\ made' = made
           /\ \/ Seeder!NextRecord(p, "find", {Seeder!Email(p)})
              \/ Seeder!NextRecord(p, "find", {}) \/ Seeder!Goto(p, "create enterprise")
    BY <1>2 DEF Seeder!CreateUser, Seeder!history
  <2>3. QED
    BY <2>1, <2>2, SkipMakes, GotoMakes, CollidesMakes
<1>3. CASE Seeder!CreateEnterprise(p)
  <2>1. Seeder!Running(p) /\ run[p].task = "users"
    BY <1>3, StatementTells DEF Seeder!CreateEnterprise
  <2>2. Seeder!Collides(p) \/ (Seeder!Makes(p) /\ Seeder!NextRecord(p, "find", {}))
    BY <1>3 DEF Seeder!CreateEnterprise
  <2>3. CASE Seeder!Makes(p) /\ Seeder!NextRecord(p, "find", {})
    BY <2>1, <2>3, MakesTyped, LeaveMakes
  <2>4. QED
    BY <2>1, <2>2, <2>3, CollidesMakes
<1>4. CASE Seeder!CreateCatalog(p)
  <2>1. Seeder!Running(p) /\ run[p].task = "catalogs"
    BY <1>4, StatementTells DEF Seeder!CreateCatalog
  <2>2. CASE Seeder!Collides(p)
    BY <2>1, <2>2, CollidesMakes
  <2>3. CASE ~Seeder!Collides(p)
    <3>1. /\ catalogs' = [catalogs EXCEPT ![run[p].row] = @ + 1]
          /\ Seeder!Makes(p) /\ Seeder!NextRecord(p, "create catalog", {})
      BY <1>4, <2>3 DEF Seeder!CreateCatalog
    <3>2. catalogs'[run[p].row] >= 1
      <4>1. PICK m : m = run[p].row
        OBVIOUS
      <4>2. m \in DOMAIN file /\ catalogs \in [DOMAIN file -> Nat]
        BY <2>1, <4>1, RunTypes DEF SeederInv, Seeder!TypeOK
      <4>3. catalogs' = [catalogs EXCEPT ![m] = catalogs[m] + 1]
        BY <3>1, <4>1
      <4>4. QED
        BY <4>1, <4>2, <4>3
    <3>3. QED
      BY <2>1, <3>1, <3>2, MakesTyped, LeaveMakes
  <2>4. QED
    BY <2>2, <2>3
<1>5. CASE Seeder!CreateAdmin(p)
  <2>1. Seeder!Running(p) /\ run[p].task = "admin"
    BY <1>5, StatementTells DEF Seeder!CreateAdmin
  <2>2. CASE Seeder!Collides(p)
    BY <2>1, <2>2, CollidesMakes
  <2>3. CASE Seeder!Goto(p, "failed") /\ UNCHANGED Seeder!history
    BY <2>1, <2>3, GotoMakes DEF Seeder!history
  <2>4. CASE /\ seeded' = [seeded EXCEPT ![AdminEmail] = "admin"]
             /\ Seeder!Goto(p, "done")
             /\ UNCHANGED <<file, Seeder!history>>
    <3>1. seeded'[AdminEmail] = "admin" /\ made' = made /\ file' = file
      BY <2>4, FileTypes DEF SeederInv, Seeder!TypeOK, Seeder!history
    <3>2. run'[p].task = run[p].task /\ ~Seeder!Running(p)'
      BY <2>4 DEF Seeder!Goto, Seeder!Running, SeederInv, Seeder!TypeOK, Seeder!Run
    <3>3. Administers(seeded'[AdminEmail])
      BY <3>1 DEF Administers
    <3>4. QED
      BY <2>1, <3>1, <3>2, <3>3 DEF MakesOnce
  <2>5. QED
    BY <1>5, <2>2, <2>3, <2>4 DEF Seeder!CreateAdmin
<1>6. QED
  BY <1>1, <1>2, <1>3, <1>4, <1>5 DEF Seeder!Step

\* What a process leaves to the others.
LEMMA OthersMake ==
    ASSUME SeederInv, NEW p \in Procs, NEW q \in Procs, q # p,
           \/ Seeder!SeedUsers(p) \/ Seeder!SeedCatalogs(p) \/ Seeder!SeedAdmin(p)
           \/ Seeder!Step(p) \/ Seeder!Crash(p)
    PROVE  seederPC'[q] = seederPC[q] /\ run'[q] = run[q] /\ made'[q] = made[q]
<1>1. /\ seederPC \in [Procs -> Seeder!Statements] /\ run \in [Procs -> Seeder!Run]
      /\ made \in [Procs -> [DOMAIN file -> Nat]]
  BY DEF SeederInv, Seeder!TypeOK
<1>2. ASSUME NEW task, NEW parses, NEW s, Seeder!Start(p, task, parses, s)
      PROVE  seederPC'[q] = seederPC[q] /\ run'[q] = run[q] /\ made'[q] = made[q]
  BY <1>1, <1>2 DEF Seeder!Start
<1>3. CASE Seeder!Crash(p)
  BY <1>1, <1>3 DEF Seeder!Crash, Seeder!history
<1>4. CASE Seeder!Step(p)
  <2>1. Seeder!Collides(p) => seederPC'[q] = seederPC[q] /\ run'[q] = run[q]
    BY <1>1 DEF Seeder!Collides
  <2>2. \A s : Seeder!Goto(p, s) => seederPC'[q] = seederPC[q] /\ run'[q] = run[q]
    BY <1>1 DEF Seeder!Goto
  <2>3. \A s, D : Seeder!NextRecord(p, s, D) => seederPC'[q] = seederPC[q] /\ run'[q] = run[q]
    BY <1>1 DEF Seeder!NextRecord
  <2>4. seederPC'[q] = seederPC[q] /\ run'[q] = run[q]
    BY <1>4, <2>1, <2>2, <2>3 DEF Seeder!Step, Seeder!FindUser, Seeder!CheckEnterprises,
       Seeder!CreateUser, Seeder!CreateEnterprise, Seeder!CreateCatalog, Seeder!CreateAdmin
  <2>5. Seeder!Makes(p) => made'[q] = made[q]
    BY <1>1 DEF Seeder!Makes
  <2>6. Seeder!Makes(p) \/ made' = made
    BY <1>4 DEF Seeder!Step, Seeder!FindUser, Seeder!CheckEnterprises, Seeder!CreateUser,
       Seeder!CreateEnterprise, Seeder!CreateCatalog, Seeder!CreateAdmin, Seeder!Collides,
       Seeder!history
  <2>7. QED
    BY <2>4, <2>5, <2>6
<1>5. QED
  BY <1>2, <1>3, <1>4 DEF Seeder!SeedUsers, Seeder!SeedCatalogs, Seeder!SeedAdmin

LEMMA MadeStepKeeps == SeederInv /\ MadeInv /\ [Seeder!Next]_(Seeder!vars) => MadeInv'
<1> SUFFICES ASSUME SeederInv, MadeInv, [Seeder!Next]_(Seeder!vars), NEW q \in Procs
             PROVE  MakesOnce(q)'
  BY DEF MadeInv
<1>1. Builds /\ MakesOnce(q)
  BY StepBuilds DEF MadeInv
<1>2. CASE UNCHANGED Seeder!vars \/ \E e \in SeedEmails : Seeder!Serve(e)
  BY <1>1, <1>2, BystanderMakes DEF Seeder!vars, Seeder!Serve
<1>3. ASSUME NEW p \in Procs,
             \/ Seeder!SeedUsers(p) \/ Seeder!SeedCatalogs(p) \/ Seeder!SeedAdmin(p)
             \/ Seeder!Step(p) \/ Seeder!Crash(p)
      PROVE  MakesOnce(q)'
  <2>1. CASE q # p
    BY <1>1, <1>3, <2>1, OthersMake, BystanderMakes
  <2>2. CASE q = p /\ Seeder!Step(p)
    BY <1>1, <2>2, StepMakes
  <2>3. CASE q = p /\ Seeder!Crash(p)
    <3>1. /\ Seeder!Running(q) /\ seederPC'[q] = "failed" /\ run' = run /\ made' = made
      BY <2>3 DEF Seeder!Crash, Seeder!history, SeederInv, Seeder!TypeOK
    <3>2. QED
      BY <1>1, <3>1, StayMakes
  <2>4. CASE q = p /\ (Seeder!SeedUsers(p) \/ Seeder!SeedCatalogs(p) \/ Seeder!SeedAdmin(p))
    BY <1>1, <2>4, StartMakes DEF Seeder!SeedUsers, Seeder!SeedCatalogs, Seeder!SeedAdmin
  <2>5. QED
    BY <1>3, <2>1, <2>2, <2>3, <2>4
<1>4. QED
  BY <1>2, <1>3 DEF Seeder!Next

\* Wherever a run of seed-users stands, and whatever earlier runs left when they were cut
\* off, the rows behind it are seeded; and no run, cut off or not, has made anything of a row
\* that it has not left behind. The theorem that follows rests on both.
THEOREM SeederInvariance == Seeder!Spec => [](SeederInv /\ MadeInv)
BY SeederStarts, SeederStepKeeps, MadeStarts, MadeStepKeeps, PTL DEF Seeder!Spec

\* A run that ends without an error leaves every address of its file with a user and, where
\* the file asks for it, an enterprise, has itself created one catalog of every row, or the
\* administrator; and none makes two of one row. Other runs and the server work on the same
\* tables, and earlier runs may have been cut off anywhere.
THEOREM Seeded == Seeder!Spec => []DoneMeansSeeded
<1>1. ASSUME SeederInv, MadeInv PROVE DoneMeansSeeded
  <2>1. ASSUME NEW p \in Procs, NEW i \in DOMAIN file PROVE made[p][i] <= 1
    <3>1. made[p][i] = 0 \/ made[p][i] = 1
      BY <1>1, <2>1 DEF MadeInv, MakesOnce
    <3>2. QED
      BY <3>1
  <2>2. ASSUME NEW p \in Procs, seederPC[p] = "done"
        PROVE  \/ run[p].task = "users" /\ \A i \in DOMAIN file : RowSeeded(p, i)
               \/ run[p].task = "catalogs" /\ \A i \in DOMAIN file : CatalogSeeded(p, i)
               \/ run[p].task = "admin" /\ Administers(seeded[AdminEmail])
    <3>1. run[p].task \in Seeder!Tasks
      BY <1>1 DEF SeederInv, Seeder!TypeOK, Seeder!Run
    <3>2. QED
      BY <1>1, <2>2, <3>1 DEF Seeder!Tasks, SeederInv, SeedsInTurn, MadeInv, MakesOnce
  <2>3. QED
    BY <2>1, <2>2
       DEF RowSeeded, CatalogSeeded, Administers, DoneMeansSeeded, Seeder!DoneMeansSeeded
<1>2. QED
  BY <1>1, SeederInvariance, PTL

-----------------------------------------------------------------------------
(* The accounts and the registry. Their theorems are proved in the modules *)
(* that Account and Registry are instances of; here they are cited under   *)
(* the names that the properties have in the composition.                  *)

\* A user and its profile are deleted together, whatever statements of other requests come
\* between the two that DeleteUserByPublicID executes.
THEOREM Together == Account!Spec => []DeletedTogether
BY Account!Together, AccountAssumption DEF DeletedTogether

\* Every live session was opened by a login that verified a newer password than the last one
\* whose revocation has ended, or was inserted too late for the revocation to find it.
THEOREM Ends == Account!Spec => []PasswordEndsSessions
BY Account!Ends, AccountAssumption DEF PasswordEndsSessions

\* ChangePassword only ever replaces the hash that it has compared the old password with.
THEOREM Compared == Account!Spec => ChangeReplacesCompared
BY Account!Compared, AccountAssumption DEF ChangeReplacesCompared

\* The newest entry of the audit log that names a field of an enterprise gives its value.
THEOREM Explained == Registry!Spec => []AuditExplainsRow
BY Registry!Explained, RegistryAssumption DEF AuditExplainsRow

\* The transactions of the registry, interleaved, implement AuditTrail, in which a change and
\* its entry are one step.
THEOREM Refinement == Registry!Spec => ImplementsTrail
BY Registry!Refinement, RegistryAssumption DEF ImplementsTrail

-----------------------------------------------------------------------------
(* The composition.                                                        *)

\* Whatever part a behaviour follows, it is a behaviour of each: the others stutter.
LEMMA PartsFollow == PartsSpec => Spec /\ Registry!Spec /\ Account!Spec /\ Seeder!Spec
<1>1. PartsInit => Init /\ Registry!Init /\ Account!Init /\ Seeder!Init
  BY DEF PartsInit
<1>2. [PartsNext]_<<part, vars, ofRegistry, ofAccounts, ofSeeders>> =>
          /\ [Next]_vars
          /\ [Registry!Next]_(Registry!vars)
          /\ [Account!Next]_(Account!vars)
          /\ [Seeder!Next]_(Seeder!vars)
  BY DEF PartsNext, ofRegistry, ofAccounts, ofSeeders, Registry!vars, Account!vars, Seeder!vars
<1>3. QED
  BY <1>1, <1>2, PTL DEF PartsSpec, Spec, Registry!Spec, Account!Spec, Seeder!Spec

\* Every variable has its type in every part.
THEOREM TypesCorrect == PartsSpec => []TypesOK
<1>1. Spec => []TypeOK
  <2>1. IInv => TypeOK
    BY DEF IInv
  <2>2. QED
    BY <2>1, Invariance, PTL
<1>2. Registry!Spec => []Registry!TypeOK
  <2>1. Registry!IInv => Registry!TypeOK
    BY DEF Registry!IInv
  <2>2. QED
    BY <2>1, Registry!Invariance, RegistryAssumption, PTL
<1>3. Account!Spec => []Account!TypeOK
  <2>1. Account!IInv => Account!TypeOK
    BY DEF Account!IInv
  <2>2. QED
    BY <2>1, Account!Invariance, AccountAssumption, PTL
<1>4. Seeder!Spec => []Seeder!TypeOK
  <2>1. SeederInv => Seeder!TypeOK
    BY DEF SeederInv
  <2>2. QED
    BY <2>1, SeederInvariance, PTL
<1>5. QED
  BY <1>1, <1>2, <1>3, <1>4, PartsFollow, PTL DEF TypesOK

\* So what the parts promise holds of the whole that TLC runs.
THEOREM PartsHold ==
    PartsSpec =>
        /\ [](NoEditIsLost /\ ChecksNeverFire /\ DeletedTogether /\ PasswordEndsSessions)
        /\ [](AuditExplainsRow /\ DoneMeansSeeded)
        /\ DeletedIsFrozen /\ ChangeReplacesCompared /\ ImplementsTrail
BY PartsFollow, EditsKept, ChecksSilent, DeletionFinal, Together, Ends, Compared, Explained,
   Refinement, Seeded, PTL


=============================================================================
