----------------------------- MODULE CursorPaging -----------------------------
(***************************************************************************)
(* The listings. A client reads a listing page by page: each request holds *)
(* the cursor of the page before, the statement returns the rows beyond it *)
(* in the order of their ids, and one row more than the page holds tells   *)
(* whether there is a next page. Two listings look up their parent, an     *)
(* enterprise or a catalog, in a statement of its own first. Between any   *)
(* two statements other requests insert rows, commit them in any order,    *)
(* edit them and delete them.                                              *)
(*                                                                         *)
(* A row is its id and whether the listing's WHERE finds it: owner scope,  *)
(* search and filters are that one bit. The cursor 0 of a first request is *)
(* the code's own.                                                         *)
(*                                                                         *)
(* The definitions marked "Mutation" are mistakes the code could have made *)
(* in the definition that follows. Nothing uses them.                      *)
(***************************************************************************)
EXTENDS Integers, FiniteSets

CONSTANTS
    MaxID,          \* bound of the ids a table's sequence draws
    RawLimits,      \* the limits clients send; 0 when there is none
    DefaultLimit,   \* defaultListLimit
    PublicDefault,  \* defaultPublicEnterpriseLimit
    MaxLimit,       \* maxListLimit
    Opened          \* the listings under study

Ids == 1..MaxID

Ascending == {"users", "catalogs", "enrollments", "catalog enrollments"}
Descending == {"newest catalogs", "enterprises", "public enterprises", "audit logs"}
Listings == Ascending \cup Descending

\* The listings that look up what they belong to before they query.
OfParent == {"audit logs", "catalog enrollments"}

ConstantsAssumption ==
    /\ MaxID \in Nat
    /\ RawLimits \subseteq Nat
    /\ DefaultLimit \in 1..MaxLimit /\ PublicDefault \in 1..MaxLimit /\ MaxLimit \in Nat
    /\ Opened \subseteq Listings

VARIABLES
    listing,   \* what the client reads
    table,     \* what each id stands for
    nextID,    \* the sequence of the ids, which no rollback takes back
    parent,    \* the parent has deleted_at IS NULL
    phase,     \* where the client's scan stands
    limit,     \* the page size of the request, clamped
    cursor,    \* the cursor of the request
    times,     \* how often the scan has returned each row, 2 for more than once (history)
    steady     \* the rows the listing has shown ever since the scan began (history)

vars == <<listing, table, nextID, parent, phase, limit, cursor, times, steady>>
rows == <<table, nextID, parent>>
scan == <<phase, limit, cursor, times>>

-----------------------------------------------------------------------------
(* Rows come, change and go.                                               *)

Shown == {i \in Ids : table[i] = "shown"}

Init ==
    /\ listing \in Opened
    /\ table = [i \in Ids |-> "none"]
    /\ nextID = 1
    /\ parent = TRUE
    /\ phase = "idle" /\ limit = 1 /\ cursor = 0
    /\ times = [i \in Ids |-> 0]
    /\ steady = {}

\* The audit events of one enterprise are inserted under its row lock.
Serialised == listing = "audit logs" => parent /\ \A i \in Ids : table[i] # "open"

\* INSERT draws the id; the transaction is still open.
Insert ==
    /\ nextID \in Ids /\ Serialised
    /\ table' = [table EXCEPT ![nextID] = "open"]
    /\ nextID' = nextID + 1
    /\ UNCHANGED <<listing, parent, scan, steady>>

Becomes(i, from, to) ==
    /\ table[i] = from
    /\ table' = [table EXCEPT ![i] = to]
    /\ steady' = IF to = "shown" THEN steady ELSE steady \ {i}
    /\ UNCHANGED <<listing, nextID, scan>>

\* An audit log has no filter.
Commit(i) ==
    /\ \/ Becomes(i, "open", "shown")
       \/ listing # "audit logs" /\ Becomes(i, "open", "hidden")
    /\ UNCHANGED parent

Rollback(i) == Becomes(i, "open", "gone") /\ UNCHANGED parent

\* An edit moves a row into the filter or out of it. Audit events are never written again.
Edit(i) ==
    /\ listing # "audit logs"
    /\ Becomes(i, "shown", "hidden") \/ Becomes(i, "hidden", "shown")
    /\ UNCHANGED parent

\* Enrollments stay listed: nothing sets their deleted_at.
Delete(i) ==
    /\ listing \notin {"audit logs", "enrollments", "catalog enrollments"}
    /\ Becomes(i, "shown", "gone")
    /\ UNCHANGED parent

\* The deletion of an enterprise commits together with its audit event.
DeleteEnterprise(i) ==
    /\ listing = "audit logs"
    /\ Becomes(i, "open", "shown")
    /\ parent' = FALSE

DeleteCatalog ==
    /\ listing = "catalog enrollments" /\ parent
    /\ parent' = FALSE
    /\ UNCHANGED <<listing, table, nextID, scan, steady>>

-----------------------------------------------------------------------------
(* Requests.                                                               *)

\* clampLimit, clampPublicEnterpriseLimit
Clamp(n, default) == IF n <= 0 THEN default ELSE IF n > MaxLimit THEN MaxLimit ELSE n

\* A request with a limit of the client's: the first of a scan, or the one that hands
\* the cursor back. parseCursor and parseLimit refuse what is neither.
Ask(name, n, default, next) ==
    /\ listing = name
    /\ phase \in {"idle", "page"}
    /\ phase' = next
    /\ limit' = Clamp(n, default)
    /\ steady' = IF phase = "idle" THEN Shown ELSE steady
    /\ UNCHANGED <<listing, rows, cursor, times>>

ListUsers(n) == Ask("users", n, DefaultLimit, "query")
ListCatalogs(n) ==
    \/ Ask("catalogs", n, DefaultLimit, "query")
    \/ Ask("newest catalogs", n, DefaultLimit, "query")
ListEnterprises(n) == Ask("enterprises", n, DefaultLimit, "query")
ListPublic(n) == Ask("public enterprises", n, PublicDefault, "query")
ListAuditLogs(n) == Ask("audit logs", n, DefaultLimit, "parent")
ListEnrollments(n) == Ask("enrollments", n, DefaultLimit, "query")
ListByCatalog(n) == Ask("catalog enrollments", n, DefaultLimit, "parent")

\* A lookup of the parent: not found ends the scan.
LookUp ==
    /\ phase = "parent"
    /\ phase' = IF parent THEN "query" ELSE "not found"
    /\ UNCHANGED <<listing, rows, limit, cursor, times, steady>>

FindEnterprise == listing = "audit logs" /\ LookUp
FindCatalog == listing = "catalog enrollments" /\ LookUp

\* The client gives up or starts over.
Restart ==
    /\ phase \notin {"idle", "query", "parent"}
    /\ phase' = "idle" /\ limit' = 1 /\ cursor' = 0
    /\ times' = [i \in Ids |-> 0]
    /\ steady' = {}
    /\ UNCHANGED <<listing, rows>>

-----------------------------------------------------------------------------
(* Pages.                                                                  *)

\* i comes before j in the order of the listing.
Before(i, j) == IF listing \in Descending THEN i > j ELSE i < j

\* Mutation: the row the cursor names is listed again.
BeyondInclusive(i) == cursor = 0 \/ Before(cursor, i) \/ i = cursor

\* $cursor = 0 OR id > $cursor, or < in the listings that show the newest first.
Beyond(i) == cursor = 0 \/ Before(cursor, i)

\* LIMIT n, or slice [:n], of the rows S in order.
IsFirst(page, n, S) ==
    /\ page \subseteq S
    /\ \A i \in page, j \in S \ page : Before(i, j)
    /\ Cardinality(page) <= n
    /\ page = S \/ Cardinality(page) = n

IsLast(i, page) == i \in page /\ \A j \in page \ {i} : Before(j, i)

\* Mutation: the next cursor is the row that did not fit.
NextCursorOfExtra(next, page, fetched) == IsLast(next, fetched)

\* The id of the last row on the page.
IsNextCursor(next, page, fetched) == IsLast(next, page)

\* One extra row tells whether a further page exists.
Fetched == limit + 1

Return(page) ==
    times' = [i \in Ids |-> IF i \notin page THEN times[i] ELSE IF times[i] = 0 THEN 1 ELSE 2]

\* What every listing does with the rows S of its query.
Answer(S) ==
    /\ phase = "query"
    /\ \E fetched \in SUBSET S :
          /\ IsFirst(fetched, Fetched, S)
          /\ \/ /\ Cardinality(fetched) > limit
                /\ \E page \in SUBSET fetched, next \in Ids :
                      /\ IsFirst(page, limit, fetched)
                      /\ IsNextCursor(next, page, fetched)
                      /\ Return(page)
                      /\ cursor' = next
                /\ phase' = "page"
             \/ /\ Cardinality(fetched) <= limit
                /\ Return(fetched)
                /\ phase' = "done"
                /\ UNCHANGED cursor
    /\ UNCHANGED <<listing, rows, limit, steady>>

Matching == {i \in Shown : Beyond(i)}

FindUsers == listing = "users" /\ Answer(Matching)
FindTrainingCatalogs == listing \in {"catalogs", "newest catalogs"} /\ Answer(Matching)
FindEnterprises == listing = "enterprises" /\ Answer(Matching)
FindPublicEnterprises == listing = "public enterprises" /\ Answer(Matching)
FindEnterpriseAuditEvents == listing = "audit logs" /\ Answer(Matching)
FindTrainingEnrollments ==
    listing \in {"enrollments", "catalog enrollments"} /\ Answer(Matching)

-----------------------------------------------------------------------------
Others ==
    \/ Insert
    \/ \E i \in Ids : Commit(i) \/ Rollback(i) \/ Edit(i) \/ Delete(i) \/ DeleteEnterprise(i)
    \/ DeleteCatalog

Requests(n) ==
    \/ ListUsers(n) \/ ListCatalogs(n) \/ ListEnterprises(n) \/ ListPublic(n)
    \/ ListAuditLogs(n) \/ ListEnrollments(n) \/ ListByCatalog(n)

Queries ==
    \/ FindEnterprise \/ FindCatalog
    \/ FindUsers \/ FindTrainingCatalogs \/ FindEnterprises \/ FindPublicEnterprises
    \/ FindEnterpriseAuditEvents \/ FindTrainingEnrollments

Continue == (phase = "page" /\ \E n \in RawLimits : Requests(n)) \/ Queries

Next == Others \/ (\E n \in RawLimits : Requests(n)) \/ Queries \/ Restart

Spec == Init /\ [][Next]_vars

-----------------------------------------------------------------------------
(* Properties.                                                             *)

\* Every variable has its type; a request for one page never asks for none.
TypeOK ==
    /\ listing \in Opened
    /\ table \in [Ids -> {"none", "open", "shown", "hidden", "gone"}]
    /\ nextID \in 1..(MaxID + 1)
    /\ parent \in BOOLEAN
    /\ phase \in {"idle", "parent", "query", "page", "done", "not found"}
    /\ limit \in 1..MaxLimit
    /\ cursor \in 0..MaxID
    /\ times \in [Ids -> 0..2]
    /\ steady \subseteq Ids

\* A scan goes strictly one way: no page holds a row that was returned before, or one
\* that comes before such a row, whatever is inserted and deleted between the pages.
InOrder ==
    [][\A i, j \in Ids : times'[i] > times[i] /\ times[j] > 0 => Before(j, i)]_vars

\* A scan that has ended has returned every row that was listed all along.
\* Rows that came, went, or moved in and out of the filter meanwhile may be missing.
ScanIsComplete == phase = "done" => \A i \in steady : times[i] > 0

=============================================================================
