----------------------- MODULE EnterpriseRegistryProofs -----------------------
(***************************************************************************)
(* Proofs that the audit log explains the row of every enterprise and that *)
(* the directory implements AuditTrail, for every number of users,         *)
(* enterprises and connections, whatever the clients send.                 *)
(***************************************************************************)
EXTENDS EnterpriseRegistry, TLAPS

(***************************************************************************)
(* The inductive invariant.                                                *)
(***************************************************************************)

\* A creation names its fields: the description and the status.
Initial(c) ==
    /\ c \in Change
    /\ c["support"] = Nil /\ c["status"] = "active" /\ c["description"] # Nil

\* What a request carries fits the statement it is about to execute.
Carries(statement, r) ==
    /\ statement # "idle" => r.actor \in Users
    /\ statement \in {"lock", "write", "find", "mark", "commit"} => r.id \in PublicIDs
    /\ statement = "insert" => r.op = "create" /\ Initial(r.change)
    /\ statement = "lock" => r.op = "update"
    /\ statement \in {"find", "mark"} => r.op = "delete" /\ r.change = KeepAll

\* The row that a transaction is about to commit, in each of the operations: it is made of
\* the committed row, which the transaction has locked.
Creates(r) ==
    /\ r.op = "create" /\ ~Exists(r.id)
    /\ Initial(r.change)
    /\ r.row = [owner |-> r.actor, deleted |-> FALSE,
                value |-> Merged([f \in Fields |-> Empty], r.change)]

Merges(r) ==
    /\ r.op = "update" /\ Exists(r.id) /\ ~enterprise[r.id].deleted
    /\ r.change # KeepAll
    /\ \A f \in Fields : r.change[f] # enterprise[r.id].value[f]
    /\ r.row = [enterprise[r.id] EXCEPT !.value = Merged(enterprise[r.id].value, r.change)]

Deletes(r) ==
    /\ r.op = "delete" /\ Exists(r.id) /\ ~enterprise[r.id].deleted
    /\ r.change = KeepAll
    /\ r.row = [enterprise[r.id] EXCEPT !.deleted = TRUE]

\* The event of a transaction comes after all committed ones of its enterprise.
Drawn(r) ==
    /\ r.event \in EventIDs /\ r.event < nextEvent
    /\ event[r.event] = Nil
    /\ \A i \in EventsOf(r.id) : i < r.event

Prepared(statement, r) ==
    /\ statement = "write" => Merges(r)
    /\ statement = "commit" =>
          /\ Creates(r) \/ Merges(r) \/ Deletes(r)
          /\ r.row \in EnterpriseRow /\ r.row.value["status"] \in Statuses
          /\ Drawn(r)

Holding == {"write", "commit"}

\* Two transactions hold different rows and have drawn different events.
Exclusive ==
    \A t, o \in Conns :
        /\ t # o /\ pc[t] \in Holding /\ pc[o] \in Holding => req[t].id # req[o].id
        /\ t # o /\ pc[t] = "commit" /\ pc[o] = "commit" => req[t].event # req[o].event

\* The sequence is ahead of the log, and there is no event without its enterprise.
LogOK ==
    /\ \A i \in EventIDs : event[i] # Nil => i < nextEvent
    /\ \A p \in PublicIDs : ~Exists(p) => EventsOf(p) = {}

\* The conjunction is preserved by every statement of every request.
IInv ==
    /\ TypeOK
    /\ \A t \in Conns : Carries(pc[t], req[t]) /\ Prepared(pc[t], req[t])
    /\ Exclusive
    /\ LogOK
    /\ AuditExplainsRow

(***************************************************************************)
(* Fields and rows.                                                        *)
(***************************************************************************)
LEMMA ValueIsNotNil ==
    ASSUME ConstantsAssumption
    PROVE  /\ Nil \notin Values /\ Empty \in Values /\ Statuses \subseteq Values
           /\ KeepAll \in Change
BY DEF ConstantsAssumption, Values, KeepAll, Change

LEMMA MergedIsValue ==
    ASSUME NEW value \in [Fields -> Values], NEW c \in Change
    PROVE  /\ Merged(value, c) \in [Fields -> Values]
           /\ \A f \in Fields : Merged(value, c)[f] = IF c[f] = Nil THEN value[f] ELSE c[f]
           /\ Changed(value, c) \in Change
           /\ \A f \in Fields : Changed(value, c)[f] = IF c[f] = value[f] THEN Nil ELSE c[f]
BY DEF Merged, Changed, Change

\* Merging what differs is merging everything.
LEMMA MergedChanged ==
    ASSUME NEW value \in [Fields -> Values], NEW c \in Change
    PROVE  Merged(value, c) = Merged(value, Changed(value, c))
<1>1. ASSUME NEW f \in Fields
      PROVE  (IF c[f] = Nil THEN value[f] ELSE c[f])
             = IF Changed(value, c)[f] = Nil THEN value[f] ELSE Changed(value, c)[f]
  BY MergedIsValue
<1>2. QED
  BY <1>1 DEF Merged

LEMMA NoRequestIsRequest ==
    ASSUME ConstantsAssumption
    PROVE  /\ NoRequest \in Request
           /\ Carries("idle", NoRequest) /\ Prepared("idle", NoRequest)
BY ValueIsNotNil DEF ConstantsAssumption, NoRequest, Request, Carries, Prepared

LEMMA Start ==
    ASSUME ConstantsAssumption, Init
    PROVE  IInv
<1>1. TypeOK
  BY NoRequestIsRequest DEF Init, TypeOK, Statements, ConstantsAssumption, Exists
<1>2. \A t \in Conns : Carries(pc[t], req[t]) /\ Prepared(pc[t], req[t])
  BY NoRequestIsRequest DEF Init
<1>3. Exclusive /\ LogOK /\ AuditExplainsRow
  BY DEF Init, Exclusive, Holding, LogOK, AuditExplainsRow, Exists, EventsOf
<1>4. QED
  BY <1>1, <1>2, <1>3 DEF IInv

(***************************************************************************)
(* Steps that commit nothing.                                              *)
(***************************************************************************)

\* One request moves on to a statement that fits what it carries.
Moves(t, statement, r) ==
    /\ pc' = [pc EXCEPT ![t] = statement]
    /\ req' = [req EXCEPT ![t] = r]
    /\ statement \in Statements
    /\ r \in Request
    /\ Carries(statement, r)

LEMMA MovesTyped ==
    ASSUME IInv, NEW t \in Conns, NEW statement, NEW r, Moves(t, statement, r)
    PROVE  /\ pc' \in [Conns -> Statements] /\ req' \in [Conns -> Request]
           /\ pc'[t] = statement /\ req'[t] = r
           /\ \A o \in Conns : o # t => pc'[o] = pc[o] /\ req'[o] = req[o]
           /\ \A o \in Conns : Carries(pc'[o], req'[o])
BY DEF IInv, TypeOK, Moves

LEMMA FinishMoves ==
    ASSUME ConstantsAssumption, NEW t \in Conns, Finish(t)
    PROVE  Moves(t, "idle", NoRequest)
BY NoRequestIsRequest DEF Finish, Moves, Statements

\* The rows and the log stay, the sequence may advance. What the request has prepared
\* holds, and the row and the event it takes are not those of another transaction.
LEMMA QuietStep ==
    ASSUME IInv, NEW t \in Conns, NEW statement, NEW r, Moves(t, statement, r),
           UNCHANGED <<enterprise, event>>,
           nextEvent' \in 1 .. (MaxEvents + 1), nextEvent <= nextEvent',
           Prepared(statement, r)',
           statement \in Holding =>
              \A o \in Conns : o # t /\ pc[o] \in Holding => req[o].id # r.id,
           statement = "commit" =>
              \A o \in Conns : o # t /\ pc[o] = "commit" => req[o].event # r.event
    PROVE  IInv'
<1>1. TypeOK'
  BY MovesTyped DEF IInv, TypeOK, Exists
<1>2. ASSUME NEW o \in Conns PROVE Carries(pc[o], req[o])' /\ Prepared(pc[o], req[o])'
  <2>1. Carries(pc[o], req[o])'
    BY MovesTyped DEF Carries
  <2>2. CASE o = t
    BY <2>1, <2>2, MovesTyped DEF Prepared
  <2>3. CASE o # t
    <3>1. pc'[o] = pc[o] /\ req'[o] = req[o] /\ Prepared(pc[o], req[o])
      BY <2>3, MovesTyped DEF IInv
    <3>2. pc[o] = "commit" => Drawn(req[o])'
      BY <3>1 DEF Prepared, Drawn, EventsOf, IInv, TypeOK, EventIDs
    <3>3. QED
      BY <2>1, <3>1, <3>2 DEF Prepared, Creates, Merges, Deletes, Exists
  <2>4. QED
    BY <2>2, <2>3
<1>3. Exclusive'
  BY MovesTyped DEF IInv, Exclusive, Holding
<1>4. LogOK' /\ AuditExplainsRow'
  BY DEF IInv, TypeOK, LogOK, AuditExplainsRow, Exists, EventsOf, Naming, EventIDs
<1>5. QED
  BY <1>1, <1>2, <1>3, <1>4 DEF IInv

LEMMA SequenceStays ==
    ASSUME IInv, nextEvent' = nextEvent
    PROVE  nextEvent' \in 1 .. (MaxEvents + 1) /\ nextEvent <= nextEvent'
BY DEF IInv, TypeOK

\* A statement at which no row is held needs nothing prepared.
LEMMA FreeStep ==
    ASSUME IInv, NEW t \in Conns, NEW statement, NEW r, Moves(t, statement, r),
           statement \notin Holding,
           UNCHANGED <<enterprise, event, nextEvent>>
    PROVE  IInv'
<1>1. Prepared(statement, r)'
  BY DEF Prepared, Holding
<1>2. statement # "commit"
  BY DEF Holding
<1>3. QED
  BY <1>1, <1>2, QuietStep, SequenceStays

LEMMA FinishStep ==
    ASSUME ConstantsAssumption, IInv, NEW t \in Conns, FinishWithout(t)
    PROVE  IInv'
<1>1. Moves(t, "idle", NoRequest) /\ UNCHANGED <<enterprise, event, nextEvent>>
  BY FinishMoves DEF FinishWithout
<1>2. "idle" \notin Holding
  BY DEF Holding
<1>3. QED
  BY <1>1, <1>2, FreeStep

LEMMA BeginStep ==
    ASSUME IInv, NEW t \in Conns, NEW r \in Request, NEW statement \in Statements,
           Begin(t, r, statement), Carries(statement, r), statement \notin Holding
    PROVE  IInv'
<1>1. Moves(t, statement, r) /\ UNCHANGED <<enterprise, event, nextEvent>>
  BY DEF Begin, Moves
<1>2. QED
  BY <1>1, FreeStep

\* The three kinds of request.
LEMMA RequestsStep ==
    ASSUME ConstantsAssumption, IInv, NEW t \in Conns, NEW u \in Users, Requests(t, u)
    PROVE  IInv'
<1> USE DEF Statements, Holding, Carries
<1>1. NoRequest \in Request /\ NoRequest.change = KeepAll
  BY NoRequestIsRequest DEF NoRequest
<1>2. ASSUME NEW text \in Texts \cup {Empty}, Create(t, u, text) PROVE IInv'
  <2> DEFINE c == [description |-> text, support |-> Nil, status |-> "active"]
             r == [NoRequest EXCEPT !.op = "create", !.actor = u, !.change = c]
  <2>1. Initial(c)
    <3>1. text \in Values /\ "active" \in Values
      BY DEF Values, Statuses
    <3>2. c \in Change
      BY <3>1 DEF Change, Fields
    <3>3. QED
      BY <3>1, <3>2, ValueIsNotNil DEF Initial
  <2>2. r \in Request /\ r.op = "create" /\ r.actor = u /\ r.change = c
    BY <1>1, <2>1 DEF Request, Initial
  <2>3. Begin(t, r, "insert")
    BY <1>2 DEF Create
  <2> HIDE DEF r, c
  <2>4. QED
    BY <2>1, <2>2, <2>3, BeginStep
<1>3. ASSUME NEW p \in PublicIDs, Delete(t, u, p) PROVE IInv'
  <2> DEFINE r == [NoRequest EXCEPT !.op = "delete", !.actor = u, !.id = p]
  <2>1. r \in Request /\ r.op = "delete" /\ r.actor = u /\ r.id = p /\ r.change = KeepAll
    BY <1>1 DEF Request
  <2>2. Begin(t, r, "find")
    BY <1>3 DEF Delete
  <2> HIDE DEF r
  <2>3. QED
    BY <2>1, <2>2, BeginStep
<1>4. ASSUME NEW p \in PublicIDs, NEW c \in Changes, Update(t, u, p, c) PROVE IInv'
  <2> DEFINE r == [NoRequest EXCEPT !.op = "update", !.actor = u, !.id = p, !.change = c]
  <2>1. c \in Change
    BY DEF ConstantsAssumption
  <2>2. r \in Request /\ r.op = "update" /\ r.actor = u /\ r.id = p
    BY <1>1, <2>1 DEF Request
  <2>3. Begin(t, r, "lock")
    BY <1>4 DEF Update
  <2> HIDE DEF r
  <2>4. QED
    BY <2>2, <2>3, BeginStep
<1>5. QED
  BY <1>2, <1>3, <1>4 DEF Requests

(***************************************************************************)
(* The row is held and the event is drawn.                                 *)
(***************************************************************************)

\* The event that is drawn is newer than every committed one, and than every one that
\* another transaction has drawn.
LEMMA LogStep ==
    ASSUME ConstantsAssumption, IInv, NEW t \in Conns, NEW r \in Request,
           LogThenCommit(t, r),
           r.actor \in Users, r.id \in PublicIDs,
           Creates(r) \/ Merges(r) \/ Deletes(r),
           r.row \in EnterpriseRow, r.row.value["status"] \in Statuses,
           \A o \in Conns : o # t /\ pc[o] \in Holding => req[o].id # r.id
    PROVE  IInv'
<1>0. PICK q : q = [r EXCEPT !.event = nextEvent]
  OBVIOUS
<1>1. /\ nextEvent \in EventIDs /\ nextEvent' = nextEvent + 1
      /\ req' = [req EXCEPT ![t] = q] /\ pc' = [pc EXCEPT ![t] = "commit"]
      /\ UNCHANGED <<enterprise, event>>
  BY <1>0 DEF LogThenCommit
<1>2. /\ q \in Request /\ q.event = nextEvent
      /\ q.id = r.id /\ q.op = r.op /\ q.row = r.row /\ q.change = r.change /\ q.actor = r.actor
  BY <1>0, <1>1 DEF Request
<1>3. Moves(t, "commit", q)
  BY <1>1, <1>2 DEF Moves, Statements, Carries
<1>4. nextEvent' \in 1 .. (MaxEvents + 1) /\ nextEvent <= nextEvent' /\ nextEvent < nextEvent'
  BY <1>1 DEF EventIDs, ConstantsAssumption
<1>5. event[nextEvent] = Nil /\ \A i \in EventIDs : event[i] # Nil => i < nextEvent
  BY <1>1 DEF IInv, LogOK, EventIDs
<1>6. Drawn(q)'
  BY <1>1, <1>2, <1>4, <1>5 DEF Drawn, EventsOf
<1>7. (Creates(q) \/ Merges(q) \/ Deletes(q))'
  BY <1>1, <1>2 DEF Creates, Merges, Deletes, Exists
<1>8. Prepared("commit", q)'
  BY <1>2, <1>6, <1>7 DEF Prepared
<1>9. \A o \in Conns : o # t /\ pc[o] = "commit" => req[o].event # q.event
  BY <1>1, <1>2 DEF IInv, Prepared, Drawn, EventIDs
<1>10. QED
  BY <1>1, <1>2, <1>3, <1>4, <1>8, <1>9, QuietStep

\* Nobody holds a row that is not locked.
LEMMA NotLocked ==
    ASSUME NEW p, ~Locked(p)
    PROVE  \A o \in Conns : pc[o] \in Holding => req[o].id # p
BY DEF Locked, Holding

LEMMA InsertRowStep ==
    ASSUME ConstantsAssumption, IInv, NEW t \in Conns, NEW p \in PublicIDs, InsertRow(t, p)
    PROVE  IInv'
<1> DEFINE value == Merged([f \in Fields |-> Empty], req[t].change)
           row == [owner |-> req[t].actor, deleted |-> FALSE, value |-> value]
           r == [req[t] EXCEPT !.id = p, !.row = row]
<1>1. pc[t] = "insert" /\ ~Exists(p) /\ ~Locked(p) /\ LogThenCommit(t, r)
  BY DEF InsertRow
<1>2. /\ req[t] \in Request /\ req[t].actor \in Users
      /\ req[t].op = "create" /\ Initial(req[t].change)
  BY <1>1 DEF IInv, TypeOK, Carries
<1>3. [f \in Fields |-> Empty] \in [Fields -> Values]
  BY ValueIsNotNil
<1>4. value \in [Fields -> Values] /\ value["status"] = "active"
  BY <1>2, <1>3, MergedIsValue, ValueIsNotNil DEF Initial, Fields, Statuses
<1>5. row \in EnterpriseRow /\ row.value["status"] \in Statuses
  BY <1>2, <1>4 DEF EnterpriseRow, Statuses
<1>6. /\ r \in Request /\ r.id = p /\ r.row = row
      /\ r.op = "create" /\ r.change = req[t].change /\ r.actor = req[t].actor
  BY <1>2, <1>5 DEF Request
<1>7. Creates(r)
  BY <1>1, <1>2, <1>6 DEF Creates
<1>8. \A o \in Conns : pc[o] \in Holding => req[o].id # p
  BY <1>1, NotLocked
<1> HIDE DEF r, row, value
<1>9. QED
  BY <1>1, <1>2, <1>5, <1>6, <1>7, <1>8, LogStep

LEMMA InsertCollidesStep ==
    ASSUME ConstantsAssumption, IInv, NEW t \in Conns, NEW p \in PublicIDs, InsertCollides(t, p)
    PROVE  IInv'
<1>1. CASE req[t].attempts + 1 < PublicIDAttempts
  <2> DEFINE r == [req[t] EXCEPT !.attempts = @ + 1]
  <2>1. /\ pc[t] = "insert" /\ req' = [req EXCEPT ![t] = r]
        /\ UNCHANGED <<enterprise, event, nextEvent, pc>>
    BY <1>1 DEF InsertCollides
  <2>2. req[t] \in Request /\ Carries("insert", req[t])
    BY <2>1 DEF IInv, TypeOK
  <2>3. /\ r \in Request /\ r.op = req[t].op /\ r.change = req[t].change
        /\ r.actor = req[t].actor
    BY <1>1, <2>2 DEF Request, ConstantsAssumption
  <2>4. Moves(t, "insert", r)
    BY <2>1, <2>2, <2>3 DEF Moves, Statements, Carries, IInv, TypeOK
  <2>5. "insert" \notin Holding
    BY DEF Holding
  <2> HIDE DEF r
  <2>6. QED
    BY <2>1, <2>4, <2>5, FreeStep
<1>2. CASE ~(req[t].attempts + 1 < PublicIDAttempts)
  BY <1>2, FinishStep DEF InsertCollides
<1>3. QED
  BY <1>1, <1>2

\* A row in scope exists and is not deleted.
LEMMA ScopedRow ==
    ASSUME NilIsNoRow, IInv, NEW p \in PublicIDs, NEW u, InScope(p, u)
    PROVE  /\ Exists(p) /\ ~enterprise[p].deleted /\ enterprise[p] \in EnterpriseRow
           /\ enterprise[p].value \in [Fields -> Values]
           /\ enterprise[p].value["status"] \in Statuses
BY DEF InScope, IInv, TypeOK, Exists, EnterpriseRow

LEMMA LockRowStep ==
    ASSUME ConstantsAssumption, NilIsNoRow, IInv, NEW t \in Conns, LockRow(t)
    PROVE  IInv'
<1> DEFINE p == req[t].id
           old == enterprise[p]
           c == Changed(old.value, req[t].change)
           row == [old EXCEPT !.value = Merged(old.value, req[t].change)]
<1>1. pc[t] = "lock" /\ ~Locked(p)
  BY DEF LockRow
<1>2. /\ req[t] \in Request /\ req[t].change \in Change
      /\ p \in PublicIDs /\ req[t].actor \in Users /\ req[t].op = "update"
  BY <1>1 DEF IInv, TypeOK, Carries, Request
<1>3. CASE InScope(p, req[t].actor) /\ c # KeepAll
  <2>0. PICK r : r = [req[t] EXCEPT !.row = row, !.change = c]
    OBVIOUS
  <2>1. /\ pc' = [pc EXCEPT ![t] = "write"] /\ req' = [req EXCEPT ![t] = r]
        /\ UNCHANGED <<enterprise, event, nextEvent>>
    <3>1. /\ pc' = [pc EXCEPT ![t] = "write"]
          /\ req' = [req EXCEPT ![t].row = row, ![t].change = c]
          /\ UNCHANGED <<enterprise, event, nextEvent>>
      BY <1>3 DEF LockRow
    <3>2. QED
      BY <2>0, <3>1 DEF IInv, TypeOK
  <2>2. /\ Exists(p) /\ ~old.deleted /\ old \in EnterpriseRow
        /\ old.value \in [Fields -> Values]
    BY <1>2, <1>3, ScopedRow
  <2>3. /\ c \in Change /\ row \in EnterpriseRow
        /\ Merged(old.value, req[t].change) = Merged(old.value, c)
        /\ \A f \in Fields : c[f] # old.value[f]
    <3>1. /\ Merged(old.value, req[t].change) \in [Fields -> Values]
          /\ c \in Change
          /\ \A f \in Fields : c[f] = IF req[t].change[f] = old.value[f] THEN Nil ELSE req[t].change[f]
      BY <1>2, <2>2, MergedIsValue
    <3>2. \A f \in Fields : old.value[f] # Nil
      BY <2>2, ValueIsNotNil
    <3>3. QED
      BY <1>2, <2>2, <3>1, <3>2, MergedChanged DEF EnterpriseRow
  <2>4. /\ r \in Request /\ r.id = p /\ r.row = row /\ r.change = c
        /\ r.op = "update" /\ r.actor = req[t].actor
    BY <1>2, <2>0, <2>3 DEF Request
  <2>5. Merges(r)
    BY <1>3, <2>2, <2>3, <2>4 DEF Merges
  <2>6. Prepared("write", r)'
    BY <2>1, <2>5 DEF Prepared, Merges, Exists
  <2>7. Moves(t, "write", r)
    BY <1>2, <2>1, <2>4 DEF Moves, Statements, Carries
  <2>8. \A o \in Conns : pc[o] \in Holding => req[o].id # p
    BY <1>1, NotLocked
  <2> HIDE DEF p, old, c, row
  <2>9. QED
    BY <2>1, <2>4, <2>6, <2>7, <2>8, QuietStep, SequenceStays
<1>4. CASE ~(InScope(p, req[t].actor) /\ c # KeepAll)
  BY <1>4, FinishStep DEF LockRow
<1>5. QED
  BY <1>3, <1>4

LEMMA WriteRowStep ==
    ASSUME ConstantsAssumption, NilIsNoRow, IInv, NEW t \in Conns, WriteRow(t)
    PROVE  IInv'
<1>1. pc[t] = "write"
  BY DEF WriteRow
<1>2. /\ req[t] \in Request /\ req[t].id \in PublicIDs /\ req[t].actor \in Users
      /\ Merges(req[t])
  BY <1>1 DEF IInv, TypeOK, Carries, Prepared
<1>3. CASE req[t].row.value.status \in Statuses
  <2>1. LogThenCommit(t, req[t]) /\ req[t].row.value["status"] \in Statuses
    BY <1>3 DEF WriteRow
  <2>2. req[t].row \in EnterpriseRow
    <3>1. enterprise[req[t].id] \in EnterpriseRow /\ req[t].change \in Change
      BY <1>2 DEF Merges, Exists, IInv, TypeOK, Request
    <3>2. Merged(enterprise[req[t].id].value, req[t].change) \in [Fields -> Values]
      BY <3>1, MergedIsValue DEF EnterpriseRow
    <3>3. QED
      BY <1>2, <3>1, <3>2 DEF Merges, EnterpriseRow
  <2>3. \A o \in Conns : o # t /\ pc[o] \in Holding => req[o].id # req[t].id
    BY <1>1 DEF IInv, Exclusive, Holding
  <2>4. QED
    BY <1>2, <2>1, <2>2, <2>3, LogStep
<1>4. CASE ~(req[t].row.value.status \in Statuses)
  BY <1>4, FinishStep DEF WriteRow
<1>5. QED
  BY <1>3, <1>4

LEMMA FindForDeleteStep ==
    ASSUME ConstantsAssumption, IInv, NEW t \in Conns, FindForDelete(t)
    PROVE  IInv'
<1>1. pc[t] = "find" /\ req[t] \in Request /\ Carries("find", req[t])
  BY DEF FindForDelete, IInv, TypeOK
<1>2. CASE InScope(req[t].id, req[t].actor)
  <2>1. /\ pc' = [pc EXCEPT ![t] = "mark"] /\ req' = [req EXCEPT ![t] = req[t]]
        /\ UNCHANGED <<enterprise, event, nextEvent>>
    BY <1>2 DEF FindForDelete, IInv, TypeOK
  <2>2. Moves(t, "mark", req[t])
    BY <1>1, <2>1 DEF Moves, Statements, Carries
  <2>3. "mark" \notin Holding
    BY DEF Holding
  <2>4. QED
    BY <2>1, <2>2, <2>3, FreeStep
<1>3. CASE ~InScope(req[t].id, req[t].actor)
  BY <1>3, FinishStep DEF FindForDelete
<1>4. QED
  BY <1>2, <1>3

LEMMA MarkDeletedStep ==
    ASSUME ConstantsAssumption, NilIsNoRow, IInv, NEW t \in Conns, MarkDeleted(t)
    PROVE  IInv'
<1> DEFINE p == req[t].id
           row == [enterprise[p] EXCEPT !.deleted = TRUE]
           r == [req[t] EXCEPT !.row = row]
<1>1. pc[t] = "mark" /\ ~Locked(p)
  BY DEF MarkDeleted
<1>2. /\ req[t] \in Request /\ p \in PublicIDs /\ req[t].actor \in Users
      /\ req[t].op = "delete" /\ req[t].change = KeepAll
  BY <1>1 DEF IInv, TypeOK, Carries
<1>3. CASE InScope(p, req[t].actor)
  <2>1. LogThenCommit(t, r)
    BY <1>3 DEF MarkDeleted
  <2>2. /\ Exists(p) /\ ~enterprise[p].deleted /\ enterprise[p] \in EnterpriseRow
        /\ enterprise[p].value["status"] \in Statuses
    BY <1>2, <1>3, ScopedRow
  <2>3. row \in EnterpriseRow /\ row.value["status"] \in Statuses
    BY <2>2 DEF EnterpriseRow
  <2>4. /\ r \in Request /\ r.id = p /\ r.row = row /\ r.change = KeepAll
        /\ r.op = "delete" /\ r.actor = req[t].actor
    BY <1>2, <2>3 DEF Request
  <2>5. Deletes(r)
    BY <2>2, <2>4 DEF Deletes
  <2>6. \A o \in Conns : pc[o] \in Holding => req[o].id # p
    BY <1>1, NotLocked
  <2> HIDE DEF p, row, r
  <2>7. QED
    BY <1>2, <2>1, <2>3, <2>4, <2>5, <2>6, LogStep
<1>4. CASE ~InScope(p, req[t].actor)
  BY <1>4, FinishStep DEF MarkDeleted
<1>5. QED
  BY <1>3, <1>4

(***************************************************************************)
(* The commit.                                                             *)
(***************************************************************************)

\* What every commit does to its row and to the log, whatever the operation.
\* What a commit does: it puts the prepared row and its event in the place of the request,
\* and leaves every other row and event alone.
Rewrites(t, r) ==
    /\ r \in Request /\ Carries("commit", r) /\ Prepared("commit", r)
    /\ pc[t] = "commit" /\ Moves(t, "idle", NoRequest)
    /\ r.id \in PublicIDs /\ r.event \in EventIDs
    /\ enterprise' \in [PublicIDs -> EnterpriseRow \cup {Nil}]
    /\ enterprise'[r.id] = r.row /\ r.row \in EnterpriseRow /\ r.row # Nil
    /\ \A q \in PublicIDs : q # r.id => enterprise'[q] = enterprise[q]
    /\ event' \in [EventIDs -> AuditEvent \cup {Nil}]
    /\ event' = [event EXCEPT ![r.event] =
          [record |-> r.id, actor |-> r.actor, action |-> r.op, named |-> r.change]]
    /\ event'[r.event].record = r.id /\ event'[r.event].named = r.change
    /\ event'[r.event] # Nil
    /\ \A i \in EventIDs : i # r.event => event'[i] = event[i]
    /\ nextEvent' = nextEvent

LEMMA Committed ==
    ASSUME ConstantsAssumption, NilIsNoRow, IInv, NEW t \in Conns, Commit(t),
           NEW r, r = req[t]
    PROVE  Rewrites(t, r)
<1>1. /\ pc[t] = "commit" /\ Moves(t, "idle", NoRequest) /\ nextEvent' = nextEvent
      /\ enterprise' = [enterprise EXCEPT ![r.id] = r.row]
      /\ event' = [event EXCEPT ![r.event] =
            [record |-> r.id, actor |-> r.actor, action |-> r.op, named |-> r.change]]
  BY FinishMoves DEF Commit
<1>2. r \in Request /\ Carries("commit", r) /\ Prepared("commit", r)
  BY <1>1 DEF IInv, TypeOK
<1>3. r.id \in PublicIDs /\ r.event \in EventIDs /\ r.row \in EnterpriseRow /\ r.row # Nil
  BY <1>2 DEF Carries, Prepared, Drawn, NilIsNoRow
<1>4. [record |-> r.id, actor |-> r.actor, action |-> r.op, named |-> r.change] \in AuditEvent
  BY <1>2, <1>3 DEF AuditEvent, Carries, Prepared, Creates, Merges, Deletes, Request
<1>5. /\ enterprise \in [PublicIDs -> EnterpriseRow \cup {Nil}]
      /\ event \in [EventIDs -> AuditEvent \cup {Nil}]
  BY DEF IInv, TypeOK
<1>6. QED
  BY <1>1, <1>2, <1>3, <1>4, <1>5 DEF NilIsNoRow, Rewrites

\* The fields the event names have the values it gives; the others keep theirs, which are
\* empty in a row that is new.
LEMMA RowFollowsEvent ==
    ASSUME ConstantsAssumption, NilIsNoRow, IInv, NEW r \in Request, Prepared("commit", r),
           r.id \in PublicIDs, NEW f \in Fields
    PROVE  /\ r.change[f] # Nil => r.row.value[f] = r.change[f]
           /\ r.change[f] = Nil /\ Exists(r.id) =>
                 r.row.value[f] = enterprise[r.id].value[f]
           /\ r.change[f] = Nil /\ ~Exists(r.id) => r.row.value[f] = Empty
<1>1. r.change \in Change
  BY DEF Request
<1>2. Exists(r.id) => /\ enterprise[r.id] \in EnterpriseRow
                      /\ enterprise[r.id].value \in [Fields -> Values]
  BY DEF IInv, TypeOK, Exists, EnterpriseRow
<1>3. CASE Creates(r)
  <2>1. [g \in Fields |-> Empty] \in [Fields -> Values]
    BY ValueIsNotNil
  <2>2. r.row.value = Merged([g \in Fields |-> Empty], r.change) /\ ~Exists(r.id)
    BY <1>3 DEF Creates
  <2>3. QED
    BY <1>1, <2>1, <2>2, MergedIsValue
<1>4. CASE Merges(r)
  <2>1. /\ r.row.value = Merged(enterprise[r.id].value, r.change) /\ Exists(r.id)
    BY <1>2, <1>4 DEF Merges, EnterpriseRow
  <2>2. QED
    BY <1>1, <1>2, <2>1, MergedIsValue
<1>5. CASE Deletes(r)
  <2>1. r.row.value = enterprise[r.id].value /\ Exists(r.id) /\ r.change[f] = Nil
    BY <1>2, <1>5 DEF Deletes, EnterpriseRow, KeepAll
  <2>2. QED
    BY <2>1
<1>6. QED
  BY <1>3, <1>4, <1>5 DEF Prepared

LEMMA CommitExplains ==
    ASSUME ConstantsAssumption, NilIsNoRow, IInv, NEW t \in Conns, Commit(t)
    PROVE  AuditExplainsRow'
<1>1. PICK r : r = req[t]
  OBVIOUS
<1>2. /\ r \in Request /\ Prepared("commit", r)
      /\ r.id \in PublicIDs /\ r.event \in EventIDs
      /\ enterprise'[r.id] = r.row
      /\ \A q \in PublicIDs : q # r.id => enterprise'[q] = enterprise[q]
      /\ event'[r.event].record = r.id /\ event'[r.event].named = r.change
      /\ event'[r.event] # Nil
      /\ \A i \in EventIDs : i # r.event => event'[i] = event[i]
  <2>1. Rewrites(t, r)
    BY <1>1, Committed
  <2>2. QED
    BY <2>1 DEF Rewrites
<1>3. event[r.event] = Nil /\ \A i \in EventsOf(r.id) : i < r.event
  BY <1>2 DEF Prepared, Drawn
<1>4. SUFFICES ASSUME NEW p \in PublicIDs, NEW f \in Fields, Exists(p)'
               PROVE  /\ Naming(p, f)' = {} => enterprise'[p].value[f] = Empty
                      /\ \A i \in Naming(p, f)' :
                            (\A j \in Naming(p, f)' : j <= i) =>
                                enterprise'[p].value[f] = event'[i].named[f]
  BY DEF AuditExplainsRow
<1>5. CASE p # r.id
  <2>1. Naming(p, f)' = Naming(p, f)
    BY <1>2, <1>3, <1>5 DEF Naming, EventsOf
  <2>2. enterprise'[p] = enterprise[p] /\ Exists(p)
    BY <1>2, <1>4, <1>5 DEF Exists
  <2>3. \A i \in Naming(p, f) : event'[i] = event[i]
    BY <1>2, <1>3 DEF Naming, EventsOf
  <2>4. QED
    BY <2>1, <2>2, <2>3 DEF IInv, AuditExplainsRow
<1>6. CASE p = r.id
  <2>1. Naming(p, f)' = IF r.change[f] = Nil THEN Naming(p, f)
                        ELSE Naming(p, f) \cup {r.event}
    BY <1>2, <1>3, <1>6 DEF Naming, EventsOf
  <2>2. \A i \in Naming(p, f) : i < r.event /\ event'[i] = event[i]
    BY <1>2, <1>3, <1>6 DEF Naming, EventsOf
  <2>3. /\ r.change[f] # Nil => r.row.value[f] = r.change[f]
        /\ r.change[f] = Nil /\ Exists(p) => r.row.value[f] = enterprise[p].value[f]
        /\ r.change[f] = Nil /\ ~Exists(p) => r.row.value[f] = Empty
    BY <1>2, <1>6, RowFollowsEvent
  <2>4. CASE r.change[f] = Nil
    <3>1. CASE Exists(p)
      BY <1>2, <1>6, <2>1, <2>2, <2>3, <2>4, <3>1 DEF IInv, AuditExplainsRow
    <3>2. CASE ~Exists(p)
      <4>1. Naming(p, f) = {}
        BY <3>2 DEF IInv, LogOK, Naming
      <4>2. QED
        BY <1>2, <1>6, <2>1, <2>3, <2>4, <3>2, <4>1
    <3>3. QED
      BY <3>1, <3>2
  <2>5. CASE r.change[f] # Nil
    <3>1. \A i \in Naming(p, f)' : (\A j \in Naming(p, f)' : j <= i) => i = r.event
      <4>1. Naming(p, f) \subseteq Int /\ r.event \in Int
        BY <1>2 DEF Naming, EventsOf, EventIDs
      <4>2. QED
        BY <2>1, <2>2, <2>5, <4>1
    <3>2. QED
      BY <1>2, <1>6, <2>1, <2>3, <2>5, <3>1
  <2>6. QED
    BY <2>4, <2>5
<1>7. QED
  BY <1>5, <1>6

LEMMA CommitStep ==
    ASSUME ConstantsAssumption, NilIsNoRow, IInv, NEW t \in Conns, Commit(t)
    PROVE  IInv'
<1>1. PICK r : r = req[t]
  OBVIOUS
<1>2. /\ pc[t] = "commit" /\ Moves(t, "idle", NoRequest) /\ Prepared("commit", r)
      /\ r.id \in PublicIDs /\ r.event \in EventIDs
      /\ enterprise' \in [PublicIDs -> EnterpriseRow \cup {Nil}]
      /\ enterprise'[r.id] = r.row /\ r.row # Nil
      /\ \A q \in PublicIDs : q # r.id => enterprise'[q] = enterprise[q]
      /\ event' \in [EventIDs -> AuditEvent \cup {Nil}]
      /\ event'[r.event].record = r.id /\ event'[r.event] # Nil
      /\ \A i \in EventIDs : i # r.event => event'[i] = event[i]
      /\ nextEvent' = nextEvent
  <2>1. Rewrites(t, r)
    BY <1>1, Committed
  <2>2. QED
    BY <2>1 DEF Rewrites
<1>3. /\ r.row.value["status"] \in Statuses
      /\ event[r.event] = Nil /\ r.event < nextEvent
  BY <1>2 DEF Prepared, Drawn
<1>4. TypeOK'
  BY <1>2, <1>3, MovesTyped DEF IInv, TypeOK, Exists
<1>5. ASSUME NEW o \in Conns PROVE Carries(pc[o], req[o])' /\ Prepared(pc[o], req[o])'
  <2>1. Carries(pc[o], req[o])'
    BY <1>2, MovesTyped DEF Carries
  <2>2. CASE o = t
    BY <1>2, <2>1, <2>2, MovesTyped DEF Prepared
  <2>3. CASE o # t
    <3>1. pc'[o] = pc[o] /\ req'[o] = req[o] /\ Carries(pc[o], req[o]) /\ Prepared(pc[o], req[o])
      BY <1>2, <2>3, MovesTyped DEF IInv
    <3>2. pc[o] \in Holding =>
             req[o].id # r.id /\ req[o].id \in PublicIDs /\ enterprise'[req[o].id] = enterprise[req[o].id]
      BY <1>1, <1>2, <2>3, <3>1 DEF IInv, Exclusive, Holding, Carries
    <3>3. pc[o] = "commit" => req[o].event # r.event
      BY <1>1, <1>2, <2>3 DEF IInv, Exclusive
    <3>4. pc[o] = "commit" => Drawn(req[o])'
      BY <1>2, <1>3, <3>1, <3>2, <3>3 DEF Prepared, Drawn, EventsOf, Holding
    <3>5. pc[o] \in Holding =>
             /\ Creates(req[o]) => Creates(req[o])'
             /\ Merges(req[o]) => Merges(req[o])'
             /\ Deletes(req[o]) => Deletes(req[o])'
      BY <3>1, <3>2 DEF Creates, Merges, Deletes, Exists
    <3>6. QED
      BY <2>1, <3>1, <3>4, <3>5 DEF Prepared, Holding
  <2>4. QED
    BY <2>2, <2>3
<1>6. Exclusive'
  BY <1>2, MovesTyped DEF IInv, Exclusive, Holding
<1>7. LogOK'
  <2>1. \A i \in EventIDs : event'[i] # Nil => i < nextEvent'
    BY <1>2, <1>3 DEF IInv, LogOK
  <2>2. ASSUME NEW p \in PublicIDs, ~Exists(p)' PROVE EventsOf(p)' = {}
    <3>1. p # r.id /\ ~Exists(p)
      BY <1>2, <2>2 DEF Exists
    <3>2. QED
      BY <1>2, <1>3, <3>1 DEF IInv, LogOK, EventsOf
  <2>3. QED
    BY <2>1, <2>2 DEF LogOK
<1>8. QED
  BY <1>4, <1>5, <1>6, <1>7, CommitExplains DEF IInv

LEMMA Step ==
    ASSUME ConstantsAssumption, NilIsNoRow, IInv, [Next]_vars
    PROVE  IInv'
<1>1. CASE UNCHANGED vars
  <2>1. UNCHANGED <<enterprise, event, nextEvent, pc, req>>
    BY <1>1 DEF vars
  <2>2. TypeOK' /\ \A t \in Conns : Carries(pc[t], req[t])'
    BY <2>1 DEF IInv, TypeOK, Exists, Carries
  <2>3. ASSUME NEW t \in Conns PROVE Prepared(pc[t], req[t])'
    <3>1. Prepared(pc[t], req[t]) /\ pc'[t] = pc[t] /\ req'[t] = req[t]
      BY <2>1 DEF IInv
    <3>2. /\ Creates(req[t])' <=> Creates(req[t])
          /\ Merges(req[t])' <=> Merges(req[t])
          /\ Deletes(req[t])' <=> Deletes(req[t])
      BY <2>1 DEF Creates, Merges, Deletes, Exists
    <3>3. Drawn(req[t])' <=> Drawn(req[t])
      BY <2>1 DEF Drawn, EventsOf
    <3>4. QED
      BY <3>1, <3>2, <3>3 DEF Prepared
  <2>4. Exclusive' /\ LogOK' /\ AuditExplainsRow'
    <3>1. Exclusive'
      BY <2>1 DEF IInv, Exclusive
    <3>2. LogOK'
      BY <2>1 DEF IInv, LogOK, EventsOf, Exists
    <3>3. AuditExplainsRow'
      BY <2>1 DEF IInv, AuditExplainsRow, Naming, EventsOf, Exists
    <3>4. QED
      BY <3>1, <3>2, <3>3
  <2>5. QED
    BY <2>2, <2>3, <2>4 DEF IInv
<1>2. ASSUME NEW t \in Conns, Proceed(t) PROVE IInv'
  BY <1>2, InsertRowStep, InsertCollidesStep, LockRowStep, WriteRowStep, FindForDeleteStep,
     MarkDeletedStep, CommitStep
  DEF Proceed
<1>3. ASSUME NEW t \in Conns, Abandon(t) PROVE IInv'
  BY <1>3, FinishStep DEF Abandon
<1>4. QED
  BY <1>1, <1>2, <1>3, RequestsStep DEF Next

(***************************************************************************)
(* The theorems.                                                           *)
(***************************************************************************)

\* Rows, events and requests have their types, and a transaction that is about to commit
\* has a row made of the committed one.
THEOREM Invariance ==
    ASSUME ConstantsAssumption, NilIsNoRow
    PROVE  Spec => []IInv
<1>1. Init => IInv
  BY Start
<1>2. IInv /\ [Next]_vars => IInv'
  BY Step
<1>3. QED
  BY <1>1, <1>2, PTL DEF Spec

\* The newest audit event that names a field gives its value: no update is merged into a
\* row that is not the current one, and no event is logged out of order.
THEOREM Explained ==
    ASSUME ConstantsAssumption, NilIsNoRow
    PROVE  Spec => []AuditExplainsRow
<1>1. IInv => AuditExplainsRow
  BY DEF IInv
<1>2. QED
  BY <1>1, Invariance, PTL

(***************************************************************************)
(* The refinement.                                                         *)
(***************************************************************************)

\* What a commit does to the trail: one record, and one entry after its earlier ones.
LEMMA CommitEntry ==
    ASSUME ConstantsAssumption, NilIsNoRow, IInv, NEW t \in Conns, Commit(t),
           NEW r, r = req[t]
    PROVE  /\ Trail!AddEntry(r.id, r.actor, r.op, r.change)
           /\ TrailContent' = [TrailContent EXCEPT ![r.id] = r.row.value]
           /\ TrailContent'[r.id] = r.row.value
           /\ TrailDeleted' = IF r.row.deleted THEN TrailDeleted \cup {r.id}
                              ELSE TrailDeleted \ {r.id}
<1>1. /\ r \in Request /\ Prepared("commit", r)
      /\ r.id \in PublicIDs /\ r.event \in EventIDs
      /\ enterprise'[r.id] = r.row /\ r.row # Nil
      /\ \A q \in PublicIDs : q # r.id => enterprise'[q] = enterprise[q]
  BY Committed DEF Rewrites
<1>2. event' = [event EXCEPT ![r.event] =
         [record |-> r.id, actor |-> r.actor, action |-> r.op, named |-> r.change]]
  BY Committed DEF Rewrites
<1>3. event[r.event] = Nil /\ \A i \in EventsOf(r.id) : i < r.event
  BY <1>1 DEF Prepared, Drawn
<1>4. Trail!AddEntry(r.id, r.actor, r.op, r.change)
  <2>1. Trail!EntriesOf(r.id) = EventsOf(r.id)
    BY DEF Trail!EntriesOf, EventsOf
  <2>2. QED
    BY <1>1, <1>2, <1>3, <2>1 DEF Trail!AddEntry
<1>5. TrailContent' = [TrailContent EXCEPT ![r.id] = r.row.value]
  <2>1. \A p \in PublicIDs :
           (IF Exists(p)' THEN enterprise'[p].value ELSE Nil)
           = IF p = r.id THEN r.row.value ELSE IF Exists(p) THEN enterprise[p].value ELSE Nil
    BY <1>1 DEF Exists
  <2>2. TrailContent' = [p \in PublicIDs |-> IF Exists(p)' THEN enterprise'[p].value ELSE Nil]
    BY DEF TrailContent, Exists
  <2>3. QED
    BY <1>1, <2>1, <2>2 DEF TrailContent, Exists
<1>6. TrailContent'[r.id] = r.row.value
  BY <1>1, <1>5 DEF TrailContent, Exists
<1>7. TrailDeleted' = IF r.row.deleted THEN TrailDeleted \cup {r.id}
                      ELSE TrailDeleted \ {r.id}
  BY <1>1 DEF TrailDeleted, Exists
<1>8. QED
  BY <1>4, <1>5, <1>6, <1>7

LEMMA CommitRefines ==
    ASSUME ConstantsAssumption, NilIsNoRow, IInv, NEW t \in Conns, Commit(t)
    PROVE  Trail!Next
<1>1. PICK r : r = req[t]
  OBVIOUS
<1>2. /\ r \in Request /\ Carries("commit", r) /\ Prepared("commit", r)
      /\ r.id \in PublicIDs /\ r.row \in EnterpriseRow
  BY <1>1, Committed DEF Rewrites
<1>3. /\ Trail!AddEntry(r.id, r.actor, r.op, r.change)
      /\ TrailContent' = [TrailContent EXCEPT ![r.id] = r.row.value]
      /\ TrailContent'[r.id] = r.row.value
      /\ TrailDeleted' = IF r.row.deleted THEN TrailDeleted \cup {r.id}
                         ELSE TrailDeleted \ {r.id}
  BY <1>1, CommitEntry
<1>4. /\ r.actor \in Users /\ r.change \in Change
      /\ r.row.value \in [Fields -> Values]
  BY <1>2 DEF Carries, Request, EnterpriseRow
<1>5. \A f \in Fields :
         /\ r.change[f] # Nil => r.row.value[f] = r.change[f]
         /\ r.change[f] = Nil /\ Exists(r.id) => r.row.value[f] = enterprise[r.id].value[f]
         /\ r.change[f] = Nil /\ ~Exists(r.id) => r.row.value[f] = Empty
  BY <1>2, RowFollowsEvent
<1>6. TrailContent[r.id] = IF Exists(r.id) THEN enterprise[r.id].value ELSE Nil
  BY <1>2 DEF TrailContent, Exists
<1>7. Exists(r.id) => /\ enterprise[r.id] \in EnterpriseRow
                      /\ enterprise[r.id].value \in [Fields -> Values]
                      /\ enterprise[r.id].value # Nil
  <2>1. Exists(r.id) => /\ enterprise[r.id] \in EnterpriseRow
                        /\ enterprise[r.id].value \in [Fields -> Values]
    BY <1>2 DEF IInv, TypeOK, Exists, EnterpriseRow
  <2>2. QED
    BY <2>1 DEF NilIsNoRow
<1>8. CASE Creates(r)
  <2> DEFINE given == {f \in Fields : r.change[f] # Nil}
  <2>1. ~Exists(r.id) /\ r.op = "create" /\ ~r.row.deleted
    BY <1>8 DEF Creates
  <2>2. r.change = [f \in Fields |-> IF f \in given THEN TrailContent'[r.id][f] ELSE Nil]
    BY <1>3, <1>4, <1>5 DEF Change
  <2>3. \A f \in Fields \ given : TrailContent'[r.id][f] = Empty
    BY <1>3, <1>5, <2>1
  <2>4. r.id \notin TrailDeleted
    BY <2>1 DEF TrailDeleted, Exists
  <2>5. TrailDeleted' = TrailDeleted
    BY <1>3, <2>1, <2>4
  <2>6. Trail!AddEntry(r.id, r.actor, "create",
              [f \in Fields |-> IF f \in given THEN TrailContent'[r.id][f] ELSE Nil])
    BY <1>3, <2>1, <2>2
  <2>7. given \in SUBSET Fields
    OBVIOUS
  <2> HIDE DEF given
  <2>8. Trail!CreateRecord(r.id, r.actor)
    BY <1>3, <1>4, <1>6, <2>1, <2>3, <2>5, <2>6, <2>7 DEF Trail!CreateRecord, Trail!Becomes
  <2>9. QED
    BY <1>2, <1>4, <2>8 DEF Trail!Next
<1>9. CASE Merges(r)
  <2>1. Exists(r.id) /\ ~enterprise[r.id].deleted /\ r.op = "update" /\ ~r.row.deleted
    BY <1>7, <1>9 DEF Merges, EnterpriseRow
  <2>2. \A f \in Fields : r.change[f] # enterprise[r.id].value[f]
    BY <1>9 DEF Merges
  <2>3. \A f \in Fields : enterprise[r.id].value[f] # Nil
    BY <1>7, <2>1, ValueIsNotNil
  <2>4. PICK f \in Fields : r.change[f] # Nil
    BY <1>4, <1>9 DEF Merges, KeepAll, Change
  <2>5. r.row.value # enterprise[r.id].value
    BY <1>5, <2>2, <2>4
  <2>6. r.change = [g \in Fields |-> IF TrailContent'[r.id][g] = TrailContent[r.id][g] THEN Nil
                                     ELSE TrailContent'[r.id][g]]
    BY <1>3, <1>4, <1>5, <1>6, <2>1, <2>2 DEF Change
  <2>7. r.id \notin TrailDeleted
    BY <2>1 DEF TrailDeleted, Exists
  <2>8. TrailDeleted' = TrailDeleted
    BY <1>3, <2>1, <2>7
  <2>9. Trail!AddEntry(r.id, r.actor, "update",
           [g \in Fields |-> IF TrailContent'[r.id][g] = TrailContent[r.id][g] THEN Nil
                             ELSE TrailContent'[r.id][g]])
    BY <1>3, <2>1, <2>6
  <2>10. TrailContent'[r.id] \in [Fields -> Values] \ {TrailContent[r.id]}
    BY <1>3, <1>4, <1>6, <2>1, <2>5
  <2>11. Trail!ChangeRecord(r.id, r.actor)
    BY <1>3, <1>6, <1>7, <2>1, <2>7, <2>8, <2>9, <2>10 DEF Trail!ChangeRecord, Trail!Becomes
  <2>12. QED
    BY <1>2, <1>4, <2>11 DEF Trail!Next
<1>10. CASE Deletes(r)
  <2>1. /\ Exists(r.id) /\ ~enterprise[r.id].deleted /\ r.op = "delete" /\ r.row.deleted
        /\ r.row.value = enterprise[r.id].value
        /\ r.change = [f \in Fields |-> Nil]
    BY <1>7, <1>10 DEF Deletes, EnterpriseRow, KeepAll
  <2>2. r.id \notin TrailDeleted
    BY <2>1 DEF TrailDeleted, Exists
  <2>3. TrailContent' = TrailContent
    <3>1. TrailContent = [TrailContent EXCEPT ![r.id] = TrailContent[r.id]]
      BY DEF TrailContent, Exists
    <3>2. QED
      BY <1>3, <1>6, <2>1, <3>1
  <2>4. TrailContent[r.id] # Nil
    BY <1>6, <1>7, <2>1
  <2>5. Trail!DeleteRecord(r.id, r.actor)
    BY <1>3, <2>1, <2>2, <2>3, <2>4 DEF Trail!DeleteRecord
  <2>6. QED
    BY <1>2, <1>4, <2>5 DEF Trail!Next
<1>11. QED
  BY <1>2, <1>8, <1>9, <1>10 DEF Prepared

LEMMA StepRefines ==
    ASSUME ConstantsAssumption, NilIsNoRow, IInv, [Next]_vars
    PROVE  [Trail!Next]_<<TrailContent, TrailDeleted, event>>
<1>1. CASE UNCHANGED <<enterprise, event>>
  BY <1>1 DEF TrailContent, TrailDeleted, Exists
<1>2. CASE UNCHANGED vars
  BY <1>1, <1>2 DEF vars
<1>3. ASSUME NEW t \in Conns, Abandon(t) PROVE UNCHANGED <<enterprise, event>>
  BY <1>3 DEF Abandon, FinishWithout
<1>4. ASSUME NEW t \in Conns, NEW u \in Users, Requests(t, u)
      PROVE  UNCHANGED <<enterprise, event>>
  BY <1>4 DEF Requests, Create, Delete, Update, Begin
<1>5. ASSUME NEW t \in Conns, Proceed(t), ~Commit(t)
      PROVE  UNCHANGED <<enterprise, event>>
  BY <1>5 DEF Proceed, InsertRow, InsertCollides, LockRow, WriteRow, FindForDelete, MarkDeleted,
              LogThenCommit, FinishWithout
<1>6. CASE \E t \in Conns : Commit(t)
  BY <1>6, CommitRefines
<1>7. QED
  BY <1>1, <1>2, <1>3, <1>4, <1>5, <1>6 DEF Next

\* The transactions of the directory, interleaved, implement the trail in which a change
\* and its entry are one step.
THEOREM Refinement ==
    ASSUME ConstantsAssumption, NilIsNoRow
    PROVE  Spec => ImplementsTrail
<1>1. Init => Trail!Init
  BY DEF Init, Trail!Init, TrailContent, TrailDeleted, Exists
<1>2. IInv /\ [Next]_vars => [Trail!Next]_<<TrailContent, TrailDeleted, event>>
  BY StepRefines
<1>3. QED
  BY <1>1, <1>2, Invariance, PTL DEF Spec, ImplementsTrail, Trail!Spec

=============================================================================
