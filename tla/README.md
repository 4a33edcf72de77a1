# Verification of youthpreneur-be

TLA+ models of the youthpreneur backend, a Go HTTP service over PostgreSQL. TLC
checks them on small instances; TLAPS proves every safety property that the passing runs
check, three refinements, and what does hold where a run shows a claim of the
documentation violated, for every number of connections, users and rows.

## The system

A request goes route -> middleware (CORS, rate limit, authentication) -> handler
-> use case -> repository -> PostgreSQL. The server keeps almost no state in
memory: components share state through tables, requests run concurrently on
their own connections at READ COMMITTED, and no serialization failure or
deadlock is retried. The difficulty is in what other requests commit between two
statements of one request.

| Component | State | Operations | Hard part | Correct when |
| --- | --- | --- | --- | --- |
| Training enrollment | `training_enrollments`, `training_catalog.registered_count` | enroll, cancel, decide (admin) | capacity check before insert, count kept in another row, two lock orders, public id retries | no overselling, one live enrollment per member, count exact, cancelled stays cancelled |
| Training catalog | `training_catalog` | create, partial update, status update, soft delete | edits of some fields write the whole row; concurrent with enrollment | an edit loses no other edit and no concurrent count, the CHECK constraints never speak, deleted is final |
| Refresh sessions | `refresh_sessions` | login, refresh, logout, cleanup, three revocations | double submission, grace window, rotation against revocation | one live token per family, a revoked session stays revoked, the grace window leads to the current token |
| User accounts | `users`, `user_profiles` | create, delete, profile, status, change and reset password, login, refresh | two lock orders; an UPDATE that joins; password write and revocation are two statements | user and profile are deleted together, a change replaces what it compared, a revocation ends the sessions of older passwords but those born too late for it |
| Enterprises and audit | `enterprises`, `enterprise_audit_events` | create, update, delete, list | partial update under a lock, audit in the same transaction | the log explains the row, one event per change naming what changed |
| Listings | none (cursor in the request) | all `Find...` of pages | inserts, edits and deletes between pages | no row twice, no row missed that stays |
| Rate limiter | map of windows in memory, under a mutex | allow, sweep | window boundary, table at its limit | at most twice `limit` in any interval, nobody refused below it |
| Authentication middleware | user in the request's context | authenticate, require admin, require self | the token claims what the user was | admitted and refused for a reason of the present |
| Uploads | files | save thumbnail | failures and crashes halfway, name collisions | an answered URL is a whole file, a failure leaves none |
| SSH tunnel | listener, connections | open, forward, close | two copy loops, hang-ups and Close | nothing is left open, Close ends every goroutine |
| Server | listener, database, handlers | start, shutdown | order of shutdown, timeout | a graceful stop cut nobody off, a signal ends the process |
| Seeders | rows | seed users, catalogs, admin | killed halfway, run again, two at once | a run that succeeds has seeded its file, and no run seeds a record twice |
| Token service | keys | sign, hash, seal | none with state | taken as correct |
| Other middleware, migrations, health | none | CORS, request log, schema, `healthz` | none with state | not modelled |

Interactions: users own sessions, enrollments and enterprises; account
operations revoke sessions; authentication reads the user again on each request;
enrollments lock catalog rows and keep their count; a training catalog update
locks the same rows; the seeders write the same tables while the server serves.

## Modules

| Module | What it is |
| --- | --- |
| `SeatLedger` | what the training service promises: atomic requests, seats counted from the rows |
| `TrainingEnrollment` | catalogs and enrollments, statement by statement, with row locks |
| `TrainingEnrollmentInvariant` | its inductive invariant |
| `TrainingEnrollmentProofs` | invariance, the state invariants and what deadlocks need, proved |
| `TrainingEnrollmentRefinement` | action properties, what overbooks a catalog, and the refinement of `SeatLedger`, proved |
| `MCTrainingEnrollment` | instances for TLC |
| `TokenFamily` | what refresh sessions promise: one current token per login, handed over by rotation |
| `RefreshSession` | login, refresh, logout, cleanup and revocations, statement by statement |
| `RefreshSessionInvariant` | its inductive invariant |
| `RefreshSessionProofs` | invariants, finality of revocation, what a revocation misses, and the refinement of `TokenFamily`, proved |
| `MCRefreshSession` | instances for TLC |
| `CatalogEditing` | create, edit, status, delete of a catalog: validation, merge, date range |
| `AuditTrail` | what the directory promises of its audit log, without transactions |
| `EnterpriseRegistry` | enterprises and audit events, statement by statement |
| `EnterpriseRegistryProofs` | the log explains the row, and the refinement of `AuditTrail`, proved |
| `UserAccount` | accounts, passwords and the sessions that a password ends, statement by statement |
| `UserAccountProofs` | its three safety properties and what is final in a deletion, proved |
| `Seeders` | the seeding commands, killed and run again |
| `AccessControl` | the chains of middleware while users change |
| `RateLimiter` | the limiters, in ticks of a clock |
| `ThumbnailUpload` | uploads piece by piece |
| `Tunnel` | the SSH tunnel with its goroutines |
| `ServerLifecycle` | `run`, its goroutine, the handlers and the signal |
| `CursorPaging` | a scan of a listing under concurrent writes |
| `MCTransactions` | instances: `CatalogEditing`, `EnterpriseRegistry`, `UserAccount`, `Seeders` |
| `TransactionsProofs` | proofs about `CatalogEditing` and `Seeders`, and that all four keep their properties in the composition |
| `MCHandlers` | instances: `AccessControl`, `RateLimiter`, `ThumbnailUpload` |
| `HandlersProofs` | proofs about the three, and about their composition |
| `MCProgress` | instances: `ServerLifecycle`, `Tunnel`, `CursorPaging`, `UserAccount` with fairness |
| `ProgressProofs` | the safety of the first three, proved, and of the composition |

The modules `MCTransactions`, `MCHandlers` and `MCProgress` put several parts into one run. The parts share no row or
memory that one of them guards for another, so a behaviour follows one of them,
chosen at first (`part`), and leaves the others as they began: interleaving two of
them would only multiply states. Where components do interact the interaction is
inside one module: enrollment with catalog edits, sessions with account changes,
login with passwords, the limiters in the order of a route, seeders with the
server's requests.

Definitions marked "Mutation" are wrong variants of the definition that follows;
they serve to confirm that a property fails when the code is wrong in that way.

### TrainingEnrollment

`catalog` and `enrollment` are the committed tables (only the columns that guards
read). `catalogLock` and `enrollmentLock` are the row locks, `pc[t]` the statement
connection `t` executes next, `req[t]` the arguments of its request and
`write[t]` the row versions it has written and not committed.

- Enroll (`CreateTrainingEnrollment`): `Enroll`, `LockCatalogForEnroll`,
  `CheckDuplicate`, `CountActive`, `Insert`, `Commit`; `InsertCollides` is the
  retry of `Enroll` in the use case after a public id collision.
- Decide (`UpdateTrainingEnrollmentStatus`): `SetStatus`, `LockCatalogForStatus`,
  `LockEnrollmentForStatus`, `Commit`. `FOR UPDATE OF c, e` locks the rows in
  that order, so it is two actions.
- Cancel (`CancelTrainingEnrollment`): `Cancel`, `LockEnrollmentForCancel`,
  `DecrementOnCancel` when the enrollment was accepted, `Commit`.
- Catalog: `CreateCatalog`, `EditCatalog` and `LockCatalogForEdit` (both updates),
  `SoftDeleteCatalog`, a single statement that waits for the row.
- Every early return is a `Rollback`. `Abandon` is a cancelled context or a lost
  connection, at any statement. `DeadlockVictim` is PostgreSQL aborting one
  transaction of a cycle of waits.

A request that finds no row at its first statement ends there without effect, so
requests begin only on rows that exist. A public id is drawn from
`EnrollmentIDs` and may be one that is taken. Validation of the other columns, the
join with users in the responses and timestamps are left out.

### RefreshSession

`session` is the table, by token; a token, its hash and its sealed copy are one
value. A family is named by the token of its login. `now` is the clock, in
seconds. Each use case samples it once, as the code does: refresh at its start,
login after comparing the password.

- Login: `Login` (password and account checked), `Cleanup`, `CreateSession`.
- Refresh: `Refresh`, `Cleanup`, `FindSession`, then `CheckUser`, `Rotate`,
  `CommitRotate`; or `ServeGrace`; or, for a replay, `SnapshotRevoke` and
  `ApplyRevoke`.
- Account operations: `StorePassword` (a change or a reset has stored the new
  password), `Deactivate` and `ReloadUser`, each followed by `SnapshotRevoke` and
  `ApplyRevoke`; `Activate`; `DeleteUser`, which revokes nothing.
- `Logout` is one statement on one row.

The rotation is the only transaction of several statements: its UPDATE takes the
row lock (`Rotate`), its INSERT and COMMIT follow (`CommitRotate`). An UPDATE of
many rows is two actions because READ COMMITTED gives it the rows of its
snapshot: rows that changed meanwhile are looked at again, rows inserted
meanwhile are not seen. Random tokens are never drawn twice. Clients may present
any token they were ever given. Access tokens, cookies other than the expiry of
the grace answer, and passwords are left out. That two multi-row updates might
take their row locks in different orders and be aborted is covered by `Abandon`.

### CatalogEditing

One row: `state`, `row` (status, two dates, slots; zero is NULL), `lock`; per
request `step`, the `change` it supplies, the `copy` it read and its `answer`.
`supplied` is history: each field as the last committed edit that named it left it.
`Create`, `Update` (validation and normalisation of the use case, then the
transaction), `UpdateStatus`, `LockRow` (SELECT ... FOR UPDATE and the merge's
reading), `WriteRow` (merge, date range, UPDATE of all columns, with the outcomes
of its INTEGER and CHECK columns), `Commit`, `Abandon`, `Delete`.

### EnterpriseRegistry and AuditTrail

`enterprise` and `event` are the tables, `nextEvent` the sequence of event ids,
which no rollback takes back. Creation is `InsertRow` or `InsertCollides`; an
update `LockRow`, `WriteRow`; a deletion `FindForDelete`, `MarkDeleted`; each ends
in `Commit`. The event's id is drawn with the last statement before it. A description, a
support status only administrators set and the status stand for the seventeen
fields. `AuditTrail` is the promise: content changes only with one new entry that
names exactly what changed and follows all earlier ones.

### UserAccount

`user`, `profile`, `session` and the last bcrypt hash; `ended` is history, the newest
password of each user under which a request has revoked. Registration is `InsertUser`
with bounded retries and `CommitInsert`. A profile edit locks the profile
(`EditProfile` with its snapshot, `LockProfile`) and then the user (`TouchUser`); a
deletion the user and then the profile (`DeleteUser`, `DeleteProfile`), so the two can
deadlock (`AbortDeadlocked`). A password is `ComparePassword`, `StorePassword` (the
UPDATE repeats the comparison), and then the revocation, another statement: like
everywhere at READ COMMITTED it ends the rows that its snapshot found
(`SnapshotRevoke`) as they are later (`ApplyRevoke`). `Abandon` may come between any two.

Login is `Login`, which looks at the row once and remembers the hash it verified
(`Verified`), and `CreateSession`, which does not look again. A refresh is `Refresh`,
`CheckUser` and `Rotate`; `Logout` ends one session. `since` in a session's row is history:
the hash its login has verified or, if newer, that of a revocation which could not find
it: the session's login had not inserted it yet (`MissedBy`), or a rotation inserted it
while the revocation held the row it replaces among its `targets` (`Since`). Expiry, grace
windows and replay are in RefreshSession, where the rotation is two statements; here
it commits in one, since its row lock lets no other statement on the old session in between.

### Seeders

`file` is a CSV file, rows numbered from one; `user` (with its role), `owned`, `catalogs`
are the tables. A run commits row after row (`FindUser`, `CheckEnterprises`, `CreateUser`,
`CreateEnterprise`; `CreateCatalog`; `CreateAdmin`). `Crash` ends it anywhere,
and it is started again; `Serve` is what requests of the server do meanwhile. `made` is
history: what the last run of a process has inserted for each row. Only one run is held to
one enterprise, or one catalog, for each row: `CheckEnterprises` asks with a limit of zero
and finds nothing, so a second run adds a second enterprise, against the comment at
`seed-users/main.go:120` and `TestSeedUserEnterprises_SkipExistingUser`
(`main_test.go:127`), whose repository ignores the limit; the run `seeder_owners` shows it.

### AccessControl

`user` with role, status and deletion; `claim`, the role in the last token
issued; per request its `step`, `request` and `answer`. `Parse`, `Lookup` (with
`LookupFails`) and the checks of `RequireAdmin` and `RequireSelf` run along the
`Chain` of the route; `Handle` runs the handlers of administrators that change
users. `caller` is history: what the caller has been entitled to since the
request arrived, judged by `MayCall`, which is written from the route table and not
from the middleware.

### RateLimiter

`windows` per limiter and address, `now` in ticks with several to the second
because Retry-After is given in seconds. `AdmitFirst`, `AdmitNext` and `Refuse`
are `allow` of the general limiter and of the one of the route, each with its
sweep. `admitted` is history: of every limiter, address and tick how many requests have
been let through up to then, so that the difference of two ticks is what a stretch of time
saw (`AdmittedOfLate` for the interval that ends now).

### ThumbnailUpload

`disk` by file name, with whose upload a file is and how long; stages of `Save`:
`Receive` (declared size), `Sniff`, `Open` (O_EXCL), `WriteHead`, `Copy` (limited
reader), `Finish`, and `CleanUp` after every failure. `Crash` stops all writers.

### Tunnel

`open` is how far `Open` has come, `loop` the accepting goroutine, `once` the
`sync.Once` of `Close`, `closer[k]` its callers. A connection goes
`Connect`/`Accept`/`DialTarget`, two copies that end (`ReadEnds`, `CopyEnds`)
and `PipeReturns`. `HangUp`, `Reset`, `SessionLost` and `AcceptFails` are the
environment.

### ServerLifecycle

`main` is where `run` is, `server` its goroutine, `serveErr` the channel of one,
`db` the pool, `conn` and `work` the connections and their handlers. `ShutDown`,
`DrainedInTime` or `TimedOut`, `CloseDatabase` and `Exit` are the way down. When a
signal and a failure are both ready either is taken, as `select` does. A second
signal is swallowed. That net/http may close a connection as idle whose first bytes
are arriving is the library's race and not modelled.

### CursorPaging

`table` says of each id whether the listing's WHERE finds its row; rows are
inserted with rising ids and committed in any order, except audit events, whose
enterprise row is locked. `phase`, `limit` and `cursor` are the client's scan.
One action per listing of a repository (`FindUsers`, `FindEnterprises`, ...) with its
own order and limits; two look up a parent first.

## What is checked

| Run | Instance | Shows |
| --- | --- | --- |
| `enrollment` | 2 connections, 2 members, 3 public ids, 1 catalog with 1, 2 or unlimited seats, all statuses | the safety properties and the refinement of `SeatLedger` |
| `enrollment_liveness` | 2 connections, 1 member, 2 public ids | every request ends |
| `enrollment_oversold` | capacity not edited | violated: reject, refill, accept oversells |
| `enrollment_shrunk` | capacity unlimited or 2, edited to 1 | violated: accepted enrollments above capacity |
| `enrollment_deadlock` | 1 enrollment | violated: cancel and decide wait for each other |
| `refresh` | 2 connections, 1 user, 3 tokens, window 1 s, lifetime 2 s, clock to 2 s | the safety properties and the refinement of `TokenFamily` |
| `session_account_change` | the same | violated: a rotation in flight outlives a password change |
| `session_grace_expiry` | 1 connection | violated: the grace answer's cookie expires with the old session |
| `transactions` | 2 connections or processes; one catalog, enterprise (4 events, 2 members, 1 administrator), account (2 addresses, 3 hashes, 2 sessions), files of two rows run twice | no lost edit, silent constraints, frozen deletions, the audit log, accounts and passwords, seeding |
| `seeder_owners` | the same | violated: the seeder gives a user that owns an enterprise another |
| `handlers` | 2 requests; 2 users, 2 addresses, 2 file names | admission, rate limits, uploads |
| `progress` | 3 connections of the server; 2 of the tunnel and 2 closers; 3 rows in pages of 1 or 2; 2 requests of an account | what must end does, scans are complete, nothing leaks |

Bounds. Two connections show every conflict between two requests; a third would
only add waiters for the same lock. Two members contend for one seat, and three
public ids let one of them re-enroll after cancelling or let a collision be
drawn. Catalogs do not interact except through connections, so one is enough, and
the proofs cover any number. `PublicIDAttempts` is 2 in the runs (the code draws
a fixed number of times): one retry and the refusal of another. Three tokens are
a login with two rotations, or two logins and one rotation; with lifetime 2,
window 1 and the clock at most 2, rotations happen before, at and after the
deadline and sessions expire. `MaxTime` bounds the clock. The sets of users,
public ids, tokens and connections are symmetric in the runs of safety. Deadlock
is not reported: with the only catalog deleted, all public ids used or the clock
at its bound the model may stop, as the service may be idle.

In `transactions` one row per table is enough because every lock and every guard is
of one row; two e-mail addresses and one public id make both unique keys collide.
`MaxEvents` 4 is a creation, two updates that can conflict and a deletion, or three
updates. Changes name one field, all three, or the empty status; three hashes are
the first password and two that replace it, or the passwords of a registration that failed;
two sessions are two logins, or a login and its rotation. The files are a good one, one with a
duplicate and one with a malformed row; `MaxRuns` 2 is a run that is cut off and the
next, or two at once; an owner may already have `MaxOwned` enterprises. `MaxInt4`
is 1, so that 2 slots are more than the column holds. In `handlers` the interval is
a second and a half, the table of windows is swept above one, limits are 2 and 1, and
five ticks see three windows; uploads declare and send 0, 1 (just the sniffed part),
3 (the maximum) or 5 blocks. In `progress` a signal can find server connections
idle, active and not yet accepted; a page of 1 or 2 of three rows has a cursor at every
row, and listing limits of 0 and above the maximum are clamped. Types (`TypesOK`) are
checked in `transactions`, for its four modules; elsewhere they are left to the
properties, which fail where a type would.

Fairness (`FairSpec` of `TrainingEnrollment`, liveness run only). A connection
keeps executing: weak fairness of statements that do not wait. PostgreSQL queues
the waiters of a row, so one that finds the row free again and again gets it:
strong fairness of lock statements. The deadlock detector always runs: weak
fairness of `DeadlockVictim`. No request is assumed to arrive and no connection
to be lost.

### Where documentation and code disagree

Each of these has a run that fails with a trace, listed under "findings" in
`PROJECT.json`: overselling by a decision after a rejection, setting `max_slots`
below what is accepted, the deadlock of cancel and status update, a rotation in
flight surviving a password change, the expiry in the grace answer, and the second
enterprise that the seeder creates. What does hold in their place is proved, see "Where a claim
fails" below.

These were met while modelling; the models do what the code does, and no run is
spent on them:

- An update with an empty enterprise status passes the validation
  (`enterprise_usecase.go:802`) and fails in the UPDATE with status 500, against
  `api-contract.md:938`.
- A login that has verified the old password creates its session after a change has
  revoked the user's sessions (`auth_usecase.go:156`), against `api-contract.md:591`.
  `PasswordEndsSessions` excepts such a login, and a rotation that is in flight, for that
  one revocation; a login that compares after the password is stored, or whose row is there
  when the UPDATE looks, escapes none.
- When the revocation fails or its request is cut off after the password is stored, the
  sessions live on, and a retry is refused because the current password has changed
  (`user_usecase.go:305-313`), against the same line.
- A profile edit that waits for a deletion is then applied to the deleted profile
  (`user_postgres.go:225`), against the comment at `user_usecase.go:117`. The user's row
  and that the profile is deleted stay as they are (`DeletionFinal`).
- The audit log of a deleted enterprise is not found (`enterprise_postgres.go:290`),
  against `api-contract.md:974`.
- The table of rate limit windows outgrows its bound when no window has expired
  (`ratelimit.go:67`, comment at line 13).
- A replayed token revokes the sessions of its family only (`auth_usecase.go:201`,
  `api-contract.md:35`), where `README.md:61` says every session of the user.
- More slots than an INTEGER holds are answered with 500
  (`training_catalog_usecase.go:493`), against `api-contract.md:1145`.
- A database failure during authentication is answered with 401
  (`middleware/auth.go:94`), against `api-contract.md:89`.

## What is proved

All theorems rest on the named assumptions of the modules only: sets of slots are
positive numbers, public ids are finitely many, `Nil` is none of the values it
stands beside.

`TrainingEnrollment`. The state properties are not inductive: that a COMMIT keeps
`registered_count` exact depends on what the transaction read earlier still being
true. `IInv` states, for each statement, which locks a transaction holds, what it
has established (the catalog is open, no duplicate, a seat is free) and what
exactly it has written. The proof has one lemma per statement. Steps inside a
transaction are "quiet": the claims of the others survive (`StatementFrame`,
`QuietStep`). A COMMIT changes rows only under their locks, so the claims of
others, who hold other locks, survive too. From it follow `TypeCorrect`,
`CountExact`, `OneLive` and `IndexNeverFires`; `CancellationFinal`,
`EnrollmentFits` and `AcceptanceFits` are read off the COMMIT step; `Refinement`
maps COMMIT to one atomic step of `SeatLedger` and everything else to a stutter.

`RefreshSession`. `OneLivePerFamily` is not inductive because a rotation in
flight is going to insert a live row. `IInv` adds that the row it locked is still
live, that its new token is unknown to anyone, that two such rotations share
neither, and that sessions and families are named by tokens already issued. The
statements that only end sessions are treated together (`SessionsEnd`);
`CreateSession`, `Rotate` and `CommitRotate` have lemmas of their own.
`RevocationFinal` needs that every sampled time is in the past. `Refinement` maps
`CreateSession` to `Open`, `CommitRotate` to `Rotate`, and cleanup, logout and
revocation to `End`.

`GraceLeads` adds `GraceInv`: the replacement is born when the old session is rotated
and a token is presented after its session's birth, so a replacement expires no
earlier than what it replaces (a cleanup never takes it alone) and its own window
closes no earlier.

`CatalogEditing`. The lock is what makes the copy the row: `IInv` says of a
transaction between its read and its commit that it holds the lock, that its copy is
the committed row and then the row merged with its change, and that the merged row is
in order and fits its columns. `EditsKept`, `ChecksSilent` and `DeletionFinal` follow.

`EnterpriseRegistry`. `IInv` says how the row about to be committed is made of the
committed one (`Creates`, `Merges`, `Deletes`), that two transactions hold different
rows and have drawn different events, and that an event drawn under the lock is newer
than every committed one of its row (`Drawn`). The commit is the only step that
changes rows and log; `RowFollowsEvent` relates the two, `Explained` and `Refinement`
follow.

`UserAccount`. `IInv` adds that requests past their lookup have a user that exists, that
two inserts are of different rows and that every session has a user. Rows are changed one
at a time (`RowStep`), so `Together` and `Ends` are matters of one user; `Compared` needs
that only `StorePassword` leads to the revocation. For `Ends` the hashes are ordered
(`HashesInOrder`: nobody holds a hash newer than the one stored for its user, and none that
has revoked is newer), a login on its way is no older than the last revocation
(`LoginsKeepUp`), and a revocation that has taken its snapshot has found every live session
older than its own hash (`RevocationsFind`). The last is what a rotation in between could
break, and why its session takes the hash of the revocations that pursue the old one.

`Seeders`. `DoneMeansSeeded` speaks of the end of a run; `SeederInv` says in addition that
while it runs the rows behind it are seeded (`RowSeeded`), that between the lookup of a user
and the insertion of its enterprise the user is there, and that a command executes its own
statements only. Nothing takes a user's row, and nothing takes an enterprise without `deleted`
noting it (`Grows`), so what other commands and the server do leaves seeded rows seeded
(`RowKeeps`, `BystanderKeeps`); a run that comes to its next row has just seeded the last one
(`RecordKeeps`). `MadeInv` says that a run has made nothing yet of the rows it has not left
behind, one thing at most of the others, and one catalog of each if it seeds catalogs; no
statement takes a catalog or an administrator's account (`Builds`). The proof showed that "a running command is at a row of the file" is wrong
for the administrator's, which reads no file: with an empty one it is at no row. No file of
the run was empty, so TLC had not seen it; `TypeOK` now excepts it.

`AccessControl`. What a caller is now is always in the history (`CallerNoted`), so what
the middleware sees at its lookup is a reason, for `Admission` and `Refusal`.

`RateLimiter`. A fixed window lets `Allowed` requests through, and twice that may come within
an interval that overlaps two windows. `LimiterInv` relates the window of an address to the
history: what was let through since it opened is its count (`Counted`), nothing was let
through after its end, and the interval that ended when it opened saw no more than `Allowed`.
An address without a window satisfies the same with nothing let through in this tick
(`NoWindow`), which is what sweeping and opening a window need. `Burst` adds the two
halves; `RefusalEarned` reads from the count of the refusing window that the address has used
up the limit within the interval that ends now (`RefusalIsLate`).

`ThumbnailUpload`. `UploadInv` says of an upload that writes, or was answered, that the file of
its name is its own and how long it is; O_EXCL makes two writers have different files
(`OwnsFile`), and `FailureLeavesNothing` is part of the induction. `WholeAnswer` and
`NothingLeft` follow.

`ServerLifecycle`. The invariant follows the result of `run`: a success is only decided
when all connections are quiet, and no connection becomes active after.

`Tunnel`. `TunnelInv` says what `Open` holds at each of its stages (`OpenHolds`), in which
order `Close` releases it, and that nobody returns from `Close` before the first caller is
through (`ClosesInOrder`), and what a connection that is not forwarding yet, or has ended,
holds (`ConnHolds`). `NoLeak` follows.

`CursorPaging`. `PagingInv` says that a scan has returned the steady rows up to its cursor and
nothing beyond it (`ReadUpToCursor`), and that ids not yet drawn have no row (`Undrawn`), so
that none becomes steady. What a query fetches is the first of the rows that match, and
the page the first of those (`IsFirst`), so that no matching row that is left out comes
before one that is returned: a page lies beyond the cursor, for `OneWay`, and when nothing
is fetched beyond a page nothing is left behind, for `Complete`.

Where a claim fails. These theorems are about no run; each bounds the damage of a finding
or of a divergence listed above, and says which behaviour of the code it takes.

- `DeadlocksCancel` (`TrainingEnrollmentProofs`): a circle of waits of any number of
  transactions has a cancellation in it that has locked an accepted enrollment and waits for
  its catalog. `LocksInOrder` says where a transaction may be that has locked a catalog
  or an enrollment; everything else locks the catalog first, and waiting for a first lock
  holds none.
- `OverbookingExplained` and `OverfillingExplained` (`TrainingEnrollmentRefinement`): a
  catalog becomes overbooked only by an edit of its `max_slots` or by a decision that takes
  back a rejection, and the accepted outgrow `max_slots` only by such an edit. A live
  enrollment is never cancelled (`LiveIsNotCancelled`), so the rows that reserve a
  seat grow by an insertion, which counted them under the lock, or from a rejection.
- `SurvivorsSucceed` (`RefreshSessionProofs`): after a revocation a family it found is open
  only with a session that a rotation created after the snapshot. `RevocationInv` says that
  a family belongs to one user (`Origin`: a session is of a new family or of that of a
  session that existed) and that the snapshot holds the first session of each family if
  it is live.
- `GraceAnswersInTime` (`RefreshSessionProofs`): the expiry of a grace answer's cookie is too
  early if it is wrong, never too late. It follows from `GraceInv` and from the token being
  known (`AnswersKnown`), so that no other session takes its name.
- `DeletionFinal` (`UserAccountProofs`): no statement under way writes the row of a deleted
  user, and its profile stays deleted whatever edit was waiting.

Compositions. `MCTransactions`, `MCHandlers` and `MCProgress` run several parts; each
proof module shows that a behaviour of the composition is one of every part (`PartsFollow`),
hence that the promises of the parts hold of what TLC runs (`PartsHold`, and `TypesCorrect`
for `TypesOK`). `MCTransactions` takes `Account` and `Registry` as instances of their proof
modules, so their theorems can be cited of the instance (`Together`, `Ends`, `Compared`,
`Explained`, `Refinement` in `TransactionsProofs`).

The assumptions of these are on constants: administrators are users, inputs are
records of fields, the rows of a file are numbered without gaps, the bounds are numbers,
`Nil` is no row. TLC evaluates them in the runs, also those of modules that a run
instantiates (`LimiterAssumption`, `AccountAssumption` and so on in the MC modules).

Model-checked only: the liveness properties `RequestsFinish` (of enrollments and of
accounts), `SignalEnds`, `CloseHalts` and `HangUpEnds` (liveness under fairness is out of
the prover's reach, as is `ENABLED`), and the properties that the runs show violated.

## Not modelled

- Migrations (a wrapper of golang-migrate; the constraints of the schema are in the
  modules whose tables they guard), CORS and the request log, the health check, which
  answers ok whatever happens: no state.
- Signing, hashing and sealing of tokens, bcrypt: taken to be what they promise.
- Decoding, rendering and messages in handlers and models; columns that no guard reads;
  reading the configuration, which is one step that may fail.
- The thumbnail of a catalog is not followed to its file: nothing in the code does.

## Plan

Done: enrollment, sessions, catalogs, enterprises, accounts, listings, limiters,
middleware, uploads, tunnel, server, seeders; the proofs listed above.

Left, in order:

1. The session of `UserAccount` refined to that of `RefreshSession`, whose
   `StorePassword` is the abstraction of the password statements here.
2. A run of `EnterpriseRegistry` with two public ids and three connections.
