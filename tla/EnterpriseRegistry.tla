-------------------------- MODULE EnterpriseRegistry --------------------------
(***************************************************************************)
(* The enterprise directory and its audit log. Every operation that        *)
(* changes an enterprise runs one transaction that also inserts the audit  *)
(* event. An update locks the row, merges the fields of the request into   *)
(* it, writes the whole row back and logs the fields that differ; a        *)
(* deletion reads the row first and deletes it in a transaction of its     *)
(* own. Requests interleave between these statements.                      *)
(*                                                                         *)
(* Of the seventeen fields there is one of each kind: "description" stands *)
(* for what an owner may change, "support" for what only an administrator  *)
(* may change and a creation cannot set, "status" for a field that is not  *)
(* nullable. The values are the canonical ones the normalizers return.     *)
(* Rows are named by their public id, unique over deleted rows too. Times  *)
(* are left out: events are ordered by their id.                           *)
(*                                                                         *)
(* The definitions marked "Mutation" are mistakes the code could have made *)
(* in the definition that follows. Nothing uses them.                      *)
(***************************************************************************)
EXTENDS Integers

CONSTANTS
    Members,           \* users with the role "user"
    Admins,            \* users with the role "admin"
    PublicIDs,         \* public ids the generator may draw
    Texts,             \* values of the nullable fields, besides the empty one
    Changes,           \* the updates that clients send
    Conns,             \* connections, one request at a time each
    Nil,               \* no row, no event, a field left out
    PublicIDAttempts,  \* publicIDAttempts
    MaxEvents          \* bound of the audit log

Fields == {"description", "support", "status"}
Statuses == {"active", "inactive"}
Empty == ""
Values == Texts \cup Statuses \cup {Empty}
Users == Members \cup Admins

\* A nil pointer keeps the field.
Change == [Fields -> Values \cup {Nil}]

\* normalizeEnterpriseStatus lets an empty status pass, so a request may carry one.
ConstantsAssumption ==
    /\ Members \cap Admins = {}
    /\ PublicIDAttempts \in Nat \ {0} /\ MaxEvents \in Nat
    /\ Nil \notin Values /\ Nil \notin PublicIDs /\ Nil \notin Int /\ Nil \notin Users
    /\ Changes \subseteq Change
    /\ \A c \in Changes : c.status \in Statuses \cup {Empty, Nil}

VARIABLES
    enterprise,   \* committed rows of enterprises, by public id
    event,        \* committed rows of enterprise_audit_events, by id
    nextEvent,    \* the sequence of their ids, which no rollback takes back
    pc,           \* the statement a connection is about to execute
    req           \* the local variables of its request

vars == <<enterprise, event, nextEvent, pc, req>>

-----------------------------------------------------------------------------
(* Rows and requests.                                                      *)

EventIDs == 1..MaxEvents

EnterpriseRow == [owner: Users, deleted: BOOLEAN, value: [Fields -> Values]]

AuditEvent == [record: PublicIDs, actor: Users, action: {"create", "update", "delete"},
               named: Change]

Request == [op: {"none", "create", "update", "delete"}, actor: Users \cup {Nil},
            id: PublicIDs \cup {Nil}, change: Change, row: EnterpriseRow \cup {Nil},
            event: EventIDs \cup {Nil}, attempts: 0..PublicIDAttempts]

Statements == {"idle", "insert", "lock", "write", "find", "mark", "commit"}

KeepAll == [f \in Fields |-> Nil]

NoRequest == [op |-> "none", actor |-> Nil, id |-> Nil, change |-> KeepAll, row |-> Nil,
              event |-> Nil, attempts |-> 0]

NilIsNoRow ==
    Nil \notin EnterpriseRow /\ Nil \notin AuditEvent /\ Nil \notin [Fields -> Values]

Exists(p) == enterprise[p] # Nil

\* WHERE deleted_at IS NULL AND ($2 = 0 OR user_id = $2), scoped by scopeOwnerID.
InScope(p, u) ==
    /\ Exists(p) /\ ~enterprise[p].deleted
    /\ u \in Admins \/ enterprise[p].owner = u

\* Mutation: the row an update merges into is read without FOR UPDATE.
LockedFromWrite(p) == \E t \in Conns : req[t].id = p /\ pc[t] = "commit"

\* The row lock of an open transaction, or the key of a row it has inserted.
Locked(p) == \E t \in Conns : req[t].id = p /\ pc[t] \in {"write", "commit"}

\* ownerRestrictedChange
Restricted(c) == c.support # Nil \/ c.status # Nil

\* Mutation: a field that is left out is overwritten as well.
MergedAll(value, c) == c

\* A nil field keeps its value.
Merged(value, c) == [f \in Fields |-> IF c[f] = Nil THEN value[f] ELSE c[f]]

\* Mutation: the event names every field of the request.
ChangedAll(value, c) == c

\* The fields of the request whose value differs from the locked row's.
Changed(value, c) == [f \in Fields |-> IF c[f] = value[f] THEN Nil ELSE c[f]]

-----------------------------------------------------------------------------
(* Requests and transactions.                                              *)

Init ==
    /\ enterprise = [p \in PublicIDs |-> Nil]
    /\ event = [i \in EventIDs |-> Nil]
    /\ nextEvent = 1
    /\ pc = [t \in Conns |-> "idle"]
    /\ req = [t \in Conns |-> NoRequest]

Begin(t, r, statement) ==
    /\ pc[t] = "idle"
    /\ pc' = [pc EXCEPT ![t] = statement]
    /\ req' = [req EXCEPT ![t] = r]
    /\ UNCHANGED <<enterprise, event, nextEvent>>

Finish(t) ==
    /\ pc' = [pc EXCEPT ![t] = "idle"]
    /\ req' = [req EXCEPT ![t] = NoRequest]

\* A transaction that ends here has written nothing, or rolls back.
FinishWithout(t) == Finish(t) /\ UNCHANGED <<enterprise, event, nextEvent>>

\* The request is cancelled, or its connection is lost: the transaction rolls back.
Abandon(t) == pc[t] # "idle" /\ FinishWithout(t)

\* insertEnterpriseAuditEvent as the last statement before the commit: it draws the
\* id of the event while the row is locked.
LogThenCommit(t, r) ==
    /\ nextEvent \in EventIDs
    /\ nextEvent' = nextEvent + 1
    /\ req' = [req EXCEPT ![t] = [r EXCEPT !.event = nextEvent]]
    /\ pc' = [pc EXCEPT ![t] = "commit"]
    /\ UNCHANGED <<enterprise, event>>

\* The row and its event become visible together.
Commit(t) ==
    LET r == req[t] IN
    /\ pc[t] = "commit"
    /\ enterprise' = [enterprise EXCEPT ![r.id] = r.row]
    /\ event' = [event EXCEPT ![r.event] =
          [record |-> r.id, actor |-> r.actor, action |-> r.op, named |-> r.change]]
    /\ Finish(t)
    /\ UNCHANGED nextEvent

-----------------------------------------------------------------------------
(* Creation. The actor owns the enterprise, whatever its role.             *)

Create(t, u, description) ==
    Begin(t, [NoRequest EXCEPT !.op = "create", !.actor = u,
                  !.change = [description |-> description, support |-> Nil, status |-> "active"]],
          "insert")

\* The insert of a public id that nobody else is inserting.
InsertRow(t, p) ==
    LET r == req[t] IN
    /\ pc[t] = "insert"
    /\ ~Exists(p) /\ ~Locked(p)
    /\ LogThenCommit(t, [r EXCEPT !.id = p,
          !.row = [owner |-> r.actor, deleted |-> FALSE,
                   value |-> Merged([f \in Fields |-> Empty], r.change)]])

\* The public id is taken: another one is drawn, a bounded number of times.
InsertCollides(t, p) ==
    /\ pc[t] = "insert"
    /\ Exists(p)
    /\ IF req[t].attempts + 1 < PublicIDAttempts
       THEN /\ req' = [req EXCEPT ![t].attempts = @ + 1]
            /\ UNCHANGED <<enterprise, event, nextEvent, pc>>
       ELSE FinishWithout(t)

-----------------------------------------------------------------------------
(* Update.                                                                 *)

\* A request that a member may not make is refused before any statement.
Update(t, u, p, c) ==
    /\ u \in Admins \/ ~Restricted(c)
    /\ Begin(t, [NoRequest EXCEPT !.op = "update", !.actor = u, !.id = p, !.change = c], "lock")

\* SELECT ... FOR UPDATE OF e. An update that changes nothing ends here.
LockRow(t) ==
    LET r == req[t]
        row == enterprise[r.id]
    IN
    /\ pc[t] = "lock"
    /\ ~Locked(r.id)
    /\ IF InScope(r.id, r.actor) /\ Changed(row.value, r.change) # KeepAll
       THEN /\ pc' = [pc EXCEPT ![t] = "write"]
            /\ req' = [req EXCEPT
                  ![t].row = [row EXCEPT !.value = Merged(row.value, r.change)],
                  ![t].change = Changed(row.value, r.change)]
            /\ UNCHANGED <<enterprise, event, nextEvent>>
       ELSE FinishWithout(t)

\* UPDATE of every column. enterprise_status_enum has no empty value.
WriteRow(t) ==
    /\ pc[t] = "write"
    /\ IF req[t].row.value.status \in Statuses
       THEN LogThenCommit(t, req[t])
       ELSE FinishWithout(t)

-----------------------------------------------------------------------------
(* Deletion.                                                               *)

Delete(t, u, p) ==
    Begin(t, [NoRequest EXCEPT !.op = "delete", !.actor = u, !.id = p], "find")

FindForDelete(t) ==
    /\ pc[t] = "find"
    /\ IF InScope(req[t].id, req[t].actor)
       THEN /\ pc' = [pc EXCEPT ![t] = "mark"]
            /\ UNCHANGED <<enterprise, event, nextEvent, req>>
       ELSE FinishWithout(t)

\* UPDATE ... SET deleted_at, of the row as it is when its lock is granted.
MarkDeleted(t) ==
    LET p == req[t].id IN
    /\ pc[t] = "mark"
    /\ ~Locked(p)
    /\ IF InScope(p, req[t].actor)
       THEN LogThenCommit(t, [req[t] EXCEPT !.row = [enterprise[p] EXCEPT !.deleted = TRUE]])
       ELSE FinishWithout(t)

-----------------------------------------------------------------------------
(* The specification.                                                      *)

Requests(t, u) ==
    \/ \E text \in Texts \cup {Empty} : Create(t, u, text)
    \/ \E p \in PublicIDs : Delete(t, u, p) \/ \E c \in Changes : Update(t, u, p, c)

Proceed(t) ==
    \/ \E p \in PublicIDs : InsertRow(t, p) \/ InsertCollides(t, p)
    \/ LockRow(t)
    \/ WriteRow(t)
    \/ FindForDelete(t)
    \/ MarkDeleted(t)
    \/ Commit(t)

Next == \E t \in Conns : Abandon(t) \/ Proceed(t) \/ \E u \in Users : Requests(t, u)

Spec == Init /\ [][Next]_vars

-----------------------------------------------------------------------------
(* Properties.                                                             *)

\* Rows, events and local variables have their types: whatever is merged into a row
\* leaves no field without a value, and a status is never empty in a committed row.
TypeOK ==
    /\ enterprise \in [PublicIDs -> EnterpriseRow \cup {Nil}]
    /\ \A p \in PublicIDs : Exists(p) => enterprise[p].value.status \in Statuses
    /\ event \in [EventIDs -> AuditEvent \cup {Nil}]
    /\ nextEvent \in 1..(MaxEvents + 1)
    /\ pc \in [Conns -> Statements]
    /\ req \in [Conns -> Request]

EventsOf(p) == {i \in EventIDs : event[i] # Nil /\ event[i].record = p}
Naming(p, f) == {i \in EventsOf(p) : event[i].named[f] # Nil}

\* The audit log explains the row: a field has the value that the newest event naming
\* it gives, or is empty if no event names it. An edit that is lost, overwritten by a
\* stale merge or logged in the wrong order would break it.
AuditExplainsRow ==
    \A p \in PublicIDs, f \in Fields :
        Exists(p) =>
            /\ Naming(p, f) = {} => enterprise[p].value[f] = Empty
            /\ \A i \in Naming(p, f) :
                  (\A j \in Naming(p, f) : j <= i) => enterprise[p].value[f] = event[i].named[f]

TrailContent == [p \in PublicIDs |-> IF Exists(p) THEN enterprise[p].value ELSE Nil]
TrailDeleted == {p \in PublicIDs : Exists(p) /\ enterprise[p].deleted}

\* Committed rows and events change as in the audit trail, which has no transactions.
Trail == INSTANCE AuditTrail WITH
    Records <- PublicIDs,
    Actors <- Users,
    Positions <- EventIDs,
    Unset <- Empty,
    content <- TrailContent,
    deleted <- TrailDeleted,
    log <- event

\* The directory implements the audit trail: one event for each change, naming exactly
\* what changed, after all earlier events of the enterprise.
ImplementsTrail == Trail!Spec

=============================================================================
