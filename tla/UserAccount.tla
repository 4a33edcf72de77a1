----------------------------- MODULE UserAccount ------------------------------
(***************************************************************************)
(* Accounts: registration, profile, status, deletion, the two ways to set  *)
(* a password, and the sessions that a new password must end: login opens  *)
(* them, refresh replaces them. A user is a row of users and a row of      *)
(* user_profiles. Deletion locks the first row and then the second, an     *)
(* edit of the profile the second and then the first; setting a password   *)
(* and revoking the sessions are separate statements, and so are checking  *)
(* a password and creating a session, finding a session and rotating it.   *)
(*                                                                         *)
(* The UPDATE of a profile joins users. When it has to wait for the        *)
(* profile, PostgreSQL looks at the new version of the profile again but   *)
(* keeps the version of the users row that its snapshot showed.            *)
(*                                                                         *)
(* A stored hash is a number: bcrypt salts it, so no hash is stored twice. *)
(* Two stored hashes are taken to be of different passwords. Rows are      *)
(* named by their public id. Of a session there is whether it is open;     *)
(* deadlines, the grace window and replays are in RefreshSession.          *)
(*                                                                         *)
(* The definitions marked "Mutation" are mistakes the code could have made *)
(* in the definition that follows. Nothing uses them.                      *)
(***************************************************************************)
EXTENDS Integers

CONSTANTS
    PublicIDs,         \* public ids the generator may draw
    Emails,            \* normalized addresses
    Profiles,          \* contents of a profile
    Sessions,          \* refresh sessions
    Conns,             \* connections, one request at a time each
    Nil,               \* no row, no value
    PublicIDAttempts,  \* publicIDAttempts
    MaxHashes          \* bound of the passwords stored

ConstantsAssumption ==
    /\ PublicIDAttempts \in Nat \ {0} /\ MaxHashes \in Nat
    /\ Nil \notin PublicIDs \cup Emails \cup Profiles
    /\ Nil \notin Int

VARIABLES
    user,        \* committed rows of users, by public id
    profile,     \* committed rows of user_profiles, by public id of their user
    session,     \* rows of refresh_sessions; Nil if not created
    lastHash,    \* the last hash that bcrypt returned
    ended,       \* the newest hash under which a request has revoked, by user (history)
    pc,          \* the statement a connection is about to execute
    req          \* the local variables of its request

vars == <<user, profile, session, lastHash, ended, pc, req>>
tables == <<user, profile, session, lastHash, ended>>

-----------------------------------------------------------------------------
(* Rows and requests.                                                      *)

Hashes == 1..MaxHashes

UserRow == [email: Emails, hash: Hashes, active: BOOLEAN, deleted: BOOLEAN]
ProfileRow == [content: Profiles, deleted: BOOLEAN]

\* since (history): the hash that the login of the session has verified or, if it is newer,
\* that of a revocation the session was born too late for, see Since. It is forgotten when the
\* session ends.
SessionRow == [user: PublicIDs, live: BOOLEAN, since: 0..MaxHashes]

Closed(row) == [row EXCEPT !.live = FALSE, !.since = 0]

\* hash: of the password presented, then of the one stored; once a login has verified its
\* password, see SessionRow. session: the one to be rotated. targets: the sessions that a
\* revocation has found.
Request == [op: {"none", "create", "profile", "delete", "status", "change", "reset", "login",
                 "refresh"},
            id: PublicIDs \cup {Nil}, email: Emails \cup {Nil}, content: Profiles \cup {Nil},
            active: BOOLEAN, hash: Hashes \cup {Nil}, attempts: 0..(PublicIDAttempts - 1),
            session: Sessions \cup {Nil}, targets: SUBSET Sessions]

Statements == {"idle", "insert", "commitInsert", "authenticate", "editProfile", "lockProfile",
               "touchUser", "commitProfile", "deleteUser", "deleteProfile", "commitDelete",
               "setStatus", "reload", "compare", "store", "revoke", "applyRevoke",
               "createSession", "checkUser", "rotate"}

NoRequest == [op |-> "none", id |-> Nil, email |-> Nil, content |-> Nil, active |-> TRUE,
              hash |-> Nil, attempts |-> 0, session |-> Nil, targets |-> {}]

NilIsNoRow == Nil \notin UserRow /\ Nil \notin ProfileRow /\ Nil \notin SessionRow

\* WHERE u.deleted_at IS NULL; the code calls such a user active.
Found(p) == user[p] # Nil /\ ~user[p].deleted

\* revoked_at IS NULL
Live(s) == session[s] # Nil /\ session[s].live

UserLocked(p) ==
    \E t \in Conns : req[t].id = p /\ pc[t] \in {"deleteProfile", "commitDelete", "commitProfile"}

ProfileLocked(p) ==
    \E t \in Conns : req[t].id = p /\ pc[t] \in {"touchUser", "commitProfile", "commitDelete"}

-----------------------------------------------------------------------------
(* Requests.                                                               *)

Init ==
    /\ user = [p \in PublicIDs |-> Nil]
    /\ profile = [p \in PublicIDs |-> Nil]
    /\ session = [s \in Sessions |-> Nil]
    /\ lastHash = 0
    /\ ended = [p \in PublicIDs |-> 0]
    /\ pc = [t \in Conns |-> "idle"]
    /\ req = [t \in Conns |-> NoRequest]

Begin(t, r, statement) ==
    /\ pc[t] = "idle"
    /\ pc' = [pc EXCEPT ![t] = statement]
    /\ req' = [req EXCEPT ![t] = r]
    /\ UNCHANGED tables

Goto(t, statement) == pc' = [pc EXCEPT ![t] = statement] /\ UNCHANGED req

Finish(t) ==
    /\ pc' = [pc EXCEPT ![t] = "idle"]
    /\ req' = [req EXCEPT ![t] = NoRequest]

\* A statement that ends the request when its condition fails, and writes nothing.
ContinueIf(t, condition, statement) ==
    /\ IF condition THEN Goto(t, statement) ELSE Finish(t)
    /\ UNCHANGED tables

\* The request is cancelled or a statement fails: an open transaction rolls back, what
\* was committed before stays.
Abandon(t) ==
    /\ pc[t] # "idle"
    /\ Finish(t)
    /\ UNCHANGED tables

-----------------------------------------------------------------------------
(* Registration.                                                           *)

Register(t, e, c) ==
    /\ lastHash < MaxHashes
    /\ pc[t] = "idle"
    /\ pc' = [pc EXCEPT ![t] = "insert"]
    /\ lastHash' = lastHash + 1
    /\ req' = [req EXCEPT ![t] =
          [NoRequest EXCEPT !.op = "create", !.email = e, !.content = c, !.hash = lastHash']]
    /\ UNCHANGED <<user, profile, session, ended>>

\* Mutation: the collisions are not counted.
RetryForever(t) == UNCHANGED <<pc, req>>

\* Mutation: one attempt too many.
RetryInsertOnceMore(t) ==
    IF req[t].attempts < PublicIDAttempts
    THEN req' = [req EXCEPT ![t].attempts = @ + 1] /\ UNCHANGED pc
    ELSE Finish(t)

\* Another public id is drawn, a bounded number of times.
RetryInsert(t) ==
    IF req[t].attempts + 1 < PublicIDAttempts
    THEN req' = [req EXCEPT ![t].attempts = @ + 1] /\ UNCHANGED pc
    ELSE Finish(t)

EmailTaken(e) == \E p \in PublicIDs : user[p] # Nil /\ user[p].email = e

\* Both keys are unique over deleted rows too; an insert waits for one of the same key.
InsertUser(t, p) ==
    LET rivals == {o \in Conns : pc[o] = "commitInsert"} IN
    /\ pc[t] = "insert"
    /\ \A o \in rivals : req[o].id # p /\ req[o].email # req[t].email
    /\ \/ /\ EmailTaken(req[t].email)
          /\ Finish(t)
       \/ /\ user[p] # Nil
          /\ RetryInsert(t)
       \/ /\ ~EmailTaken(req[t].email) /\ user[p] = Nil
          /\ req' = [req EXCEPT ![t].id = p]
          /\ pc' = [pc EXCEPT ![t] = "commitInsert"]
    /\ UNCHANGED tables

\* The profile is inserted in the same transaction. The row is read back to answer.
CommitInsert(t) ==
    LET r == req[t] IN
    /\ pc[t] = "commitInsert"
    /\ user' = [user EXCEPT ![r.id] =
          [email |-> r.email, hash |-> r.hash, active |-> TRUE, deleted |-> FALSE]]
    /\ profile' = [profile EXCEPT ![r.id] = [content |-> r.content, deleted |-> FALSE]]
    /\ Finish(t)
    /\ UNCHANGED <<session, lastHash, ended>>

-----------------------------------------------------------------------------
(* Profile.                                                                *)

\* Users may edit themselves, administrators anyone: the first go through Authenticate,
\* the administrator's own account is not this one.
UpdateProfile(t, p, c) ==
    \E first \in {"authenticate", "editProfile"} :
        Begin(t, [NoRequest EXCEPT !.op = "profile", !.id = p, !.content = c], first)

\* A request of the user itself needs an account that exists and is activated.
Authenticate(t) ==
    LET p == req[t].id IN
    /\ pc[t] = "authenticate"
    /\ ContinueIf(t, Found(p) /\ user[p].active,
                  IF req[t].op = "profile" THEN "editProfile" ELSE "compare")

\* UPDATE user_profiles ... FROM users: the join on the statement's snapshot.
EditProfile(t) ==
    /\ pc[t] = "editProfile"
    /\ ContinueIf(t, Found(req[t].id), "lockProfile")

\* The row is locked and matched again, by its profile half only.
LockProfile(t) ==
    /\ pc[t] = "lockProfile"
    /\ ~ProfileLocked(req[t].id)
    /\ Goto(t, "touchUser")
    /\ UNCHANGED tables

\* UPDATE users SET updated_at; whether it found the user is not looked at.
TouchUser(t) ==
    /\ pc[t] = "touchUser"
    /\ ~UserLocked(req[t].id)
    /\ Goto(t, "commitProfile")
    /\ UNCHANGED tables

\* Mutation: the edit writes back every column of the row it had read.
EditedWhole(row, c) == [content |-> c, deleted |-> FALSE]

Edited(row, c) == [row EXCEPT !.content = c]

CommitProfile(t) ==
    LET p == req[t].id IN
    /\ pc[t] = "commitProfile"
    /\ profile' = [profile EXCEPT ![p] = Edited(@, req[t].content)]
    /\ Finish(t)
    /\ UNCHANGED <<user, session, lastHash, ended>>

-----------------------------------------------------------------------------
(* Deletion and status, by administrators.                                 *)

Delete(t, p) == Begin(t, [NoRequest EXCEPT !.op = "delete", !.id = p], "deleteUser")

\* UPDATE users ... AND deleted_at IS NULL
DeleteUser(t) ==
    /\ pc[t] = "deleteUser"
    /\ ~UserLocked(req[t].id)
    /\ ContinueIf(t, Found(req[t].id), "deleteProfile")

DeleteProfile(t) ==
    /\ pc[t] = "deleteProfile"
    /\ ~ProfileLocked(req[t].id)
    /\ Goto(t, "commitDelete")
    /\ UNCHANGED tables

CommitDelete(t) ==
    LET p == req[t].id IN
    /\ pc[t] = "commitDelete"
    /\ user' = [user EXCEPT ![p].deleted = TRUE]
    /\ profile' = [profile EXCEPT ![p].deleted = TRUE]
    /\ Finish(t)
    /\ UNCHANGED <<session, lastHash, ended>>

UpdateStatus(t, p, active) ==
    Begin(t, [NoRequest EXCEPT !.op = "status", !.id = p, !.active = active], "setStatus")

SetStatus(t) ==
    LET p == req[t].id IN
    /\ pc[t] = "setStatus"
    /\ ~UserLocked(p)
    /\ IF Found(p)
       THEN user' = [user EXCEPT ![p].active = req[t].active] /\ Goto(t, "reload")
       ELSE UNCHANGED user /\ Finish(t)
    /\ UNCHANGED <<profile, session, lastHash, ended>>

\* A user deleted in between is not found, and its sessions are not revoked.
Reload(t) ==
    LET p == req[t].id IN
    /\ pc[t] = "reload"
    /\ \/ /\ Found(p) /\ ~req[t].active
          /\ pc' = [pc EXCEPT ![t] = "revoke"]
          /\ req' = [req EXCEPT ![t].hash = user[p].hash]
       \/ /\ ~Found(p) \/ req[t].active
          /\ Finish(t)
    /\ UNCHANGED tables

-----------------------------------------------------------------------------
(* Passwords.                                                              *)

\* Own password: whoever knows the password of the stored hash h asks to replace it.
ChangePassword(t, p, h) ==
    \E first \in {"authenticate", "compare"} :
        Begin(t, [NoRequest EXCEPT !.op = "change", !.id = p, !.hash = h], first)

ResetPassword(t, p) == Begin(t, [NoRequest EXCEPT !.op = "reset", !.id = p], "compare")

\* FindUserByPublicID, and for a change the comparison with the presented password.
ComparePassword(t) ==
    LET p == req[t].id IN
    /\ pc[t] = "compare"
    /\ ContinueIf(t, Found(p) /\ (req[t].op = "change" => user[p].hash = req[t].hash), "store")

\* Mutation: the new password is written over whatever hash is stored.
MayStoreAnyway(t) == Found(req[t].id)

\* WHERE public_id = $1 AND deleted_at IS NULL, for a change AND password = $2
MayStore(t) ==
    LET p == req[t].id IN
    Found(p) /\ (req[t].op = "change" => user[p].hash = req[t].hash)

StorePassword(t) ==
    LET p == req[t].id IN
    /\ pc[t] = "store"
    /\ ~UserLocked(p)
    /\ lastHash < MaxHashes
    /\ lastHash' = lastHash + 1
    /\ IF MayStore(t)
       THEN /\ user' = [user EXCEPT ![p].hash = lastHash']
            /\ pc' = [pc EXCEPT ![t] = "revoke"]
            /\ req' = [req EXCEPT ![t].hash = lastHash']
       ELSE UNCHANGED user /\ Finish(t)
    /\ UNCHANGED <<profile, session, ended>>

\* Mutation: of a replaced password only the newest session is revoked.
FoundOne(p) ==
    LET open == {s \in Sessions : Live(s) /\ session[s].user = p} IN
    IF open = {} THEN {} ELSE {CHOOSE s \in open : TRUE}

\* WHERE user_id = $1 AND revoked_at IS NULL
FoundSessions(p) == {s \in Sessions : Live(s) /\ session[s].user = p}

Newest(a, b) == IF a > b THEN a ELSE b

\* The login of o has verified its password and not yet inserted the session, which the
\* UPDATE for the user p therefore does not find.
MissedBy(p, o) == pc[o] = "createSession" /\ req[o].id = p

\* RevokeUserRefreshSessions, after a password or a deactivation, finds the rows of its
\* snapshot.
SnapshotRevoke(t) ==
    LET p == req[t].id IN
    /\ pc[t] = "revoke"
    /\ pc' = [pc EXCEPT ![t] = "applyRevoke"]
    /\ req' = [o \in Conns |->
          IF o = t THEN [req[t] EXCEPT !.targets = FoundSessions(p)]
          ELSE IF MissedBy(p, o) THEN [req[o] EXCEPT !.hash = Newest(@, req[t].hash)]
          ELSE req[o]]
    /\ UNCHANGED tables

\* It ends those of them that are still live. The rows inserted meanwhile it does not see.
ApplyRevoke(t) ==
    LET p == req[t].id IN
    /\ pc[t] = "applyRevoke"
    /\ session' = [s \in Sessions |->
          IF s \in req[t].targets THEN Closed(session[s]) ELSE session[s]]
    /\ ended' = [ended EXCEPT ![p] = Newest(@, req[t].hash)]
    /\ Finish(t)
    /\ UNCHANGED <<user, profile, lastHash>>

-----------------------------------------------------------------------------
(* Login, refresh and logout.                                              *)

\* Mutation: the password is not compared.
NotCompared(p, e, h) == Found(p) /\ user[p].active /\ user[p].email = e

\* FindUserByEmail, the comparison with the password presented (of the hash h) and the check
\* of is_active are one look at the row.
Verified(p, e, h) ==
    Found(p) /\ user[p].active /\ user[p].email = e /\ user[p].hash = h

\* A login that fails changes nothing.
Login(t, e, h) ==
    \E p \in PublicIDs :
        /\ Verified(p, e, h)
        /\ Begin(t, [NoRequest EXCEPT !.op = "login", !.id = p, !.hash = h], "createSession")

\* The row is not read again: the session is opened with the password that was verified.
CreateSession(t, s) ==
    LET r == req[t] IN
    /\ pc[t] = "createSession"
    /\ session[s] = Nil
    /\ session' = [session EXCEPT ![s] =
          [user |-> r.id, live |-> TRUE, since |-> r.hash]]
    /\ Finish(t)
    /\ UNCHANGED <<user, profile, lastHash, ended>>

\* A refresh finds its session live.
Refresh(t, s) ==
    /\ Live(s)
    /\ Begin(t, [NoRequest EXCEPT !.op = "refresh", !.id = session[s].user, !.session = s],
             "checkUser")

\* FindUserByID and the check of is_active.
CheckUser(t) ==
    LET p == req[t].id IN
    /\ pc[t] = "checkUser"
    /\ ContinueIf(t, Found(p) /\ user[p].active, "rotate")

\* Mutation: the UPDATE of the rotation does not ask whether the session is still live.
MayRotateRevoked(t) == TRUE

\* WHERE token_hash = $1 AND revoked_at IS NULL
MayRotate(t) == Live(req[t].session)

\* The revocations that have found the session and not yet ended it.
Pursuers(s) == {o \in Conns : pc[o] = "applyRevoke" /\ s \in req[o].targets}

\* The next of a session is as old as the session, but for these revocations.
Since(s) ==
    LET old == session[s].since IN
    CHOOSE h \in {old} \cup {req[o].hash : o \in Pursuers(s)} :
        h >= old /\ \A o \in Pursuers(s) : h >= req[o].hash

\* One transaction ends the session and inserts the next of its family; it commits here.
Rotate(t, s) ==
    LET old == req[t].session IN
    /\ pc[t] = "rotate"
    /\ \/ /\ MayRotate(t) /\ session[s] = Nil
          /\ session' = [session EXCEPT
                ![old] = Closed(@),
                ![s] = [user |-> session[old].user, live |-> TRUE, since |-> Since(old)]]
       \/ ~MayRotate(t) /\ UNCHANGED session
    /\ Finish(t)
    /\ UNCHANGED <<user, profile, lastHash, ended>>

\* A logout, or the end of its lifetime, ends one session.
Logout(s) ==
    /\ Live(s)
    /\ session' = [session EXCEPT ![s] = Closed(@)]
    /\ UNCHANGED <<user, profile, lastHash, ended, pc, req>>

-----------------------------------------------------------------------------
(* The specification.                                                      *)

\* PostgreSQL aborts one of two transactions that wait for each other.
Deadlocked(t) ==
    \E o \in Conns :
        /\ req[o].id = req[t].id
        /\ <<pc[t], pc[o]>> \in {<<"touchUser", "deleteProfile">>, <<"deleteProfile", "touchUser">>}

AbortDeadlocked(t) ==
    /\ Deadlocked(t)
    /\ Finish(t)
    /\ UNCHANGED tables

Requests(t) ==
    \/ \E e \in Emails, c \in Profiles : Register(t, e, c)
    \/ \E e \in Emails, h \in 1..lastHash : Login(t, e, h)
    \/ \E s \in Sessions : Refresh(t, s)
    \/ \E p \in PublicIDs :
          \/ \E c \in Profiles : UpdateProfile(t, p, c)
          \/ \E active \in BOOLEAN : UpdateStatus(t, p, active)
          \/ \E h \in 1..lastHash : ChangePassword(t, p, h)
          \/ ResetPassword(t, p)
          \/ Delete(t, p)

Proceed(t) ==
    \/ \E p \in PublicIDs : InsertUser(t, p)
    \/ CommitInsert(t)
    \/ Authenticate(t) \/ EditProfile(t) \/ LockProfile(t) \/ TouchUser(t) \/ CommitProfile(t)
    \/ DeleteUser(t) \/ DeleteProfile(t) \/ CommitDelete(t)
    \/ SetStatus(t) \/ Reload(t)
    \/ ComparePassword(t) \/ StorePassword(t) \/ SnapshotRevoke(t) \/ ApplyRevoke(t)
    \/ CheckUser(t)
    \/ \E s \in Sessions : CreateSession(t, s) \/ Rotate(t, s)
    \/ AbortDeadlocked(t)

Next ==
    \/ \E t \in Conns : Requests(t) \/ Proceed(t) \/ Abandon(t)
    \/ \E s \in Sessions : Logout(s)

Spec == Init /\ [][Next]_vars

\* A request that can go on does: handlers run until they have answered, and the
\* detector aborts a transaction within deadlock_timeout. Waiters for a row are served
\* in order, so nobody waits for ever while others come and go.
Fairness == \A t \in Conns : SF_vars(Proceed(t))

FairSpec == Spec /\ Fairness

-----------------------------------------------------------------------------
(* Properties.                                                             *)

\* Every row and local variable has its type, and a user has a profile.
TypeOK ==
    /\ user \in [PublicIDs -> UserRow \cup {Nil}]
    /\ profile \in [PublicIDs -> ProfileRow \cup {Nil}]
    /\ \A p \in PublicIDs : user[p] = Nil <=> profile[p] = Nil
    /\ session \in [Sessions -> SessionRow \cup {Nil}]
    /\ lastHash \in 0..MaxHashes
    /\ ended \in [PublicIDs -> 0..MaxHashes]
    /\ pc \in [Conns -> Statements]
    /\ req \in [Conns -> Request]

\* A user and its profile are deleted together, whatever edit of the profile overlaps
\* the deletion.
DeletedTogether ==
    \A p \in PublicIDs : user[p] # Nil => user[p].deleted = profile[p].deleted

\* A change of the password replaces the hash its request has compared and no other: a
\* change or a reset stored in between is not overwritten.
ChangeReplacesCompared ==
    [][\A t \in Conns :
          pc[t] = "store" /\ pc'[t] = "revoke" /\ req[t].op = "change" =>
              user[req[t].id].hash = req[t].hash]_vars

\* Once a request that stored a password has revoked, no session of an older password is
\* live, but for those that were born too late for its UPDATE: of a login that had verified
\* its password and not yet inserted its row when the UPDATE looked for sessions, or of a
\* rotation between that look and the end of what it found, or a rotation of these. A later
\* revocation ends these too. (A request that is cut off before has revoked nothing.)
PasswordEndsSessions ==
    \A s \in Sessions :
        Live(s) => session[s].since >= ended[session[s].user]

\* A request that has begun ends, those of a deadlock by being aborted.
RequestsFinish ==
    \A t \in Conns :
        pc[t] # "idle" ~>
            \/ pc[t] = "idle"
            \/ pc[t] = "store" /\ lastHash = MaxHashes                     \* the bounds
            \/ pc[t] \in {"createSession", "rotate"} /\ \A s \in Sessions : session[s] # Nil

=============================================================================
