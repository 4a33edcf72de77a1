--------------------------- MODULE RefreshSession ---------------------------
(***************************************************************************)
(* Login, refresh rotation with its grace window, logout, and the account  *)
(* operations that revoke refresh sessions. A use case runs its statements *)
(* one after the other, each one a transaction of its own except rotation; *)
(* requests of different connections interleave between the statements.    *)
(*                                                                         *)
(* A statement that updates several rows works on the rows its snapshot    *)
(* shows: it waits for those that another transaction has written and      *)
(* looks at them again, but a row committed meanwhile is not among them.   *)
(* Such a statement is two actions, its snapshot and its effect. One that  *)
(* addresses a single row is one action, taken when the row is free.       *)
(*                                                                         *)
(* Token values, their hashes and their sealed copies are one thing here;  *)
(* passwords are left out. revoked_at is set exactly when                  *)
(* revocation_reason is, so a session is revoked when it has a reason, and *)
(* the reasons other than "rotated" are treated alike: "hard".             *)
(*                                                                         *)
(* The definitions marked "Mutation" are mistakes the code could have made *)
(* in the definition that follows. Nothing uses them: they only show that  *)
(* a property would notice.                                                *)
(***************************************************************************)
EXTENDS Integers

CONSTANTS
    Users,
    Tokens,        \* refresh token values
    Conns,         \* connections, one request at a time each
    Nil,           \* SQL NULL, Go nil, no row
    GraceWindow,   \* refreshGraceWindow, in seconds
    RefreshTTL,    \* lifetime of a refresh session, in seconds
    MaxTime        \* bound of the clock

ASSUME ConstantsAssumption ==
    /\ GraceWindow \in Nat /\ RefreshTTL \in Nat /\ MaxTime \in Nat
    /\ Nil \notin Users \cup Tokens
    /\ Nil \notin Int
    /\ Nil \notin {"rotated", "hard"}

VARIABLES
    now,       \* the clock of the server, in Unix seconds
    account,   \* committed rows of users
    session,   \* committed rows of refresh_sessions, by token
    issued,    \* the tokens committed so far; a random value is never drawn twice
    pc,        \* the statement a connection is about to execute
    req        \* the local variables of its request

vars == <<now, account, session, issued, pc, req>>

-----------------------------------------------------------------------------
(* Rows and requests.                                                      *)

Times == 0..MaxTime
Expiries == 0..(MaxTime + RefreshTTL)
Deadlines == 0..(MaxTime + GraceWindow)

Accounts == {"active", "inactive", "deleted"}

\* A family is named after the token of the login that started it. Only a rotated
\* session has a grace deadline, and it has one together with its sealed replacement.
SessionRow ==
    {row \in [user: Users, family: Tokens, expires: Expiries, reason: {"rotated", "hard", Nil},
              grace: Deadlines \cup {Nil}, replacement: Tokens \cup {Nil}] :
        /\ row.grace = Nil <=> row.replacement = Nil
        /\ row.grace # Nil => row.reason = "rotated"}

Answer == [token: Tokens, expires: Expiries]

\* "replay" is a refresh that has found its token revoked; "account" is a change or
\* reset of a password, or a deactivation.
Request == [op: {"none", "login", "refresh", "replay", "account"}, user: Users \cup {Nil},
            token: Tokens \cup {Nil}, at: Times, family: Tokens \cup {Nil},
            answer: Answer \cup {Nil}, next: Tokens \cup {Nil}, targets: SUBSET Tokens]

Statements == {"idle", "cleanup", "create", "find", "checkUser", "serveGrace", "rotate",
               "commitRotate", "reload", "revoke", "applyRevoke"}

NoRequest == [op |-> "none", user |-> Nil, token |-> Nil, at |-> 0, family |-> Nil,
              answer |-> Nil, next |-> Nil, targets |-> {}]

ASSUME NilIsNoRow == Nil \notin SessionRow /\ Nil \notin Answer

NewSession(u, family, at) ==
    [user |-> u, family |-> family, expires |-> at + RefreshTTL, reason |-> Nil,
     grace |-> Nil, replacement |-> Nil]

Exists(s) == session[s] # Nil
IsLive(s) == Exists(s) /\ session[s].reason = Nil

\* The row written by a rotation that has not committed yet is locked.
Locked(s) == \E t \in Conns : pc[t] = "commitRotate" /\ req[t].token = s

Drawn == issued \cup {req[t].next : t \in Conns}

\* WHERE revoked_at IS NULL OR grace_until IS NOT NULL
Revocable(s) == Exists(s) /\ (session[s].reason = Nil \/ session[s].grace # Nil)

\* Mutation: revoking forgets to close the grace window of a rotated session.
RevokedKeepingGrace(row) ==
    [row EXCEPT !.reason = IF @ = Nil THEN "hard" ELSE @, !.replacement = Nil]

\* SET revoked_at = COALESCE(revoked_at, ...), the reason only if it had none,
\* and no grace window.
Revoked(row) ==
    [row EXCEPT !.reason = IF @ = Nil THEN "hard" ELSE @, !.grace = Nil, !.replacement = Nil]

-----------------------------------------------------------------------------
(* Requests.                                                               *)

Init ==
    /\ now = 0
    /\ account = [u \in Users |-> "active"]
    /\ session = [s \in Tokens |-> Nil]
    /\ issued = {}
    /\ pc = [t \in Conns |-> "idle"]
    /\ req = [t \in Conns |-> NoRequest]

Begin(t, r, statement) ==
    /\ pc[t] = "idle"
    /\ pc' = [pc EXCEPT ![t] = statement]
    /\ req' = [req EXCEPT ![t] = r]

Goto(t, statement) == pc' = [pc EXCEPT ![t] = statement]

Finish(t) ==
    /\ pc' = [pc EXCEPT ![t] = "idle"]
    /\ req' = [req EXCEPT ![t] = NoRequest]

\* The request's context is cancelled or its connection is lost: what its earlier
\* statements committed stays, an open transaction rolls back.
Abandon(t) ==
    /\ pc[t] # "idle"
    /\ Finish(t)
    /\ UNCHANGED <<now, account, session, issued>>

-----------------------------------------------------------------------------
(* Login, once the password and the account have been checked.             *)

Login(t, u) ==
    /\ account[u] = "active"
    /\ Begin(t, [NoRequest EXCEPT !.op = "login", !.user = u], "cleanup")
    /\ UNCHANGED <<now, account, session, issued>>

\* Mutation: the cleanup deletes sessions that have been rotated, expired or not.
ExpiredOrRotated(s, at) ==
    Exists(s) /\ (session[s].expires <= at \/ session[s].reason = "rotated")

\* WHERE expires_at <= $1
Expired(s, at) == Exists(s) /\ session[s].expires <= at

\* Login and refresh delete the expired sessions first; a failure is ignored. A
\* login takes the time only here, after comparing the password.
Cleanup(t) ==
    LET at == IF req[t].op = "login" THEN now ELSE req[t].at IN
    /\ pc[t] = "cleanup"
    /\ \/ /\ \A s \in Tokens : Expired(s, at) => ~Locked(s)
          /\ session' = [s \in Tokens |-> IF Expired(s, at) THEN Nil ELSE session[s]]
       \/ UNCHANGED session
    /\ req' = [req EXCEPT ![t].at = at]
    /\ Goto(t, IF req[t].op = "login" THEN "create" ELSE "find")
    /\ UNCHANGED <<now, account, issued>>

\* Mutation: all logins of a user share one family.
OneFamilyPerUser(u, s) ==
    LET known == {session[r].family : r \in {x \in Tokens : Exists(x) /\ session[x].user = u}}
    IN IF known = {} THEN s ELSE CHOOSE f \in known : TRUE

\* Every login starts a family of its own.
NewFamily(u, s) == s

CreateSession(t, s) ==
    LET u == req[t].user IN
    /\ pc[t] = "create"
    /\ s \notin Drawn
    /\ session' = [session EXCEPT ![s] = NewSession(u, NewFamily(u, s), req[t].at)]
    /\ issued' = issued \cup {s}
    /\ Finish(t)
    /\ UNCHANGED <<now, account>>

-----------------------------------------------------------------------------
(* Refresh.                                                                *)

\* A client presents any token it has ever been given.
Refresh(t, s) ==
    /\ s \in issued
    /\ Begin(t, [NoRequest EXCEPT !.op = "refresh", !.token = s, !.at = now], "cleanup")
    /\ UNCHANGED <<now, account, session, issued>>

\* A rotated session answers duplicates until its deadline, that second included.
InGrace(row, at) == row.reason = "rotated" /\ row.grace # Nil /\ row.grace >= at

\* A grace window answers with the stored replacement; the expiry its cookie gets is
\* the presented session's.
GraceRequest(row) ==
    [NoRequest EXCEPT !.op = "refresh", !.user = row.user,
                      !.answer = [token |-> row.replacement, expires |-> row.expires]]

ReplayRequest(row) ==
    [NoRequest EXCEPT !.op = "replay", !.user = row.user, !.family = row.family]

\* What becomes of a presented token, by the row read for it.
FindSession(t) ==
    LET row == session[req[t].token]
        at == req[t].at
        Continue(r, statement) == req' = [req EXCEPT ![t] = r] /\ Goto(t, statement)
    IN
    /\ pc[t] = "find"
    /\ \/ row = Nil /\ Finish(t)
       \/ /\ row # Nil /\ row.reason = Nil
          /\ IF row.expires <= at
             THEN Finish(t)
             ELSE Continue([req[t] EXCEPT !.user = row.user], "checkUser")
       \/ /\ row # Nil /\ row.reason # Nil
          /\ IF InGrace(row, at)
             THEN Continue(GraceRequest(row), "serveGrace")
             ELSE Continue(ReplayRequest(row), "revoke")
    /\ UNCHANGED <<now, account, session, issued>>

CheckUser(t) ==
    /\ pc[t] = "checkUser"
    /\ IF account[req[t].user] = "active"
       THEN Goto(t, "rotate") /\ UNCHANGED req
       ELSE Finish(t)
    /\ UNCHANGED <<now, account, session, issued>>

\* Checks the account again, answers and writes nothing.
ServeGrace(t) ==
    /\ pc[t] = "serveGrace"
    /\ Finish(t)
    /\ UNCHANGED <<now, account, session, issued>>

\* Mutation: the rotation trusts the row read before it.
MayRotateUnchecked(s, at) == Exists(s)

\* WHERE token_hash = $1 AND revoked_at IS NULL AND expires_at > $2
MayRotate(s, at) == IsLive(s) /\ session[s].expires > at

\* The UPDATE of a rotation waits for the row and looks at it again.
Rotate(t, next) ==
    /\ pc[t] = "rotate"
    /\ ~Locked(req[t].token)
    /\ IF MayRotate(req[t].token, req[t].at)
       THEN /\ next \notin Drawn
            /\ Goto(t, "commitRotate")
            /\ req' = [req EXCEPT ![t].next = next]
       ELSE Finish(t)
    /\ UNCHANGED <<now, account, session, issued>>

\* Mutation: a rotation starts a family of its own.
SuccessorOfNobody(row, next, at) == NewSession(row.user, next, at)

\* The INSERT takes user and family from the row the UPDATE returned.
Successor(row, next, at) == NewSession(row.user, row.family, at)

\* The deadline counts from the time the request sampled.
RotatedTo(row, next, at) ==
    [row EXCEPT !.reason = "rotated", !.grace = at + GraceWindow, !.replacement = next]

CommitRotate(t) ==
    LET s == req[t].token
        next == req[t].next
        at == req[t].at
    IN
    /\ pc[t] = "commitRotate"
    /\ session' = [session EXCEPT ![s] = RotatedTo(@, next, at),
                                  ![next] = Successor(session[s], next, at)]
    /\ issued' = issued \cup {next}
    /\ Finish(t)
    /\ UNCHANGED <<now, account>>

-----------------------------------------------------------------------------
(* Revocation: by logout, of one session; by replay, of a family; by the   *)
(* account operations, of all sessions of a user.                          *)

Logout(s) ==
    /\ s \in issued
    /\ Revocable(s) /\ ~Locked(s)
    /\ session' = [session EXCEPT ![s] = Revoked(@)]
    /\ UNCHANGED <<now, account, issued, pc, req>>

InScope(t, s) ==
    IF req[t].op = "replay" THEN session[s].family = req[t].family
    ELSE session[s].user = req[t].user

\* The snapshot of the UPDATE.
SnapshotRevoke(t) ==
    /\ pc[t] = "revoke"
    /\ req' = [req EXCEPT ![t].targets = {s \in Tokens : Revocable(s) /\ InScope(t, s)}]
    /\ Goto(t, "applyRevoke")
    /\ UNCHANGED <<now, account, session, issued>>

\* The commit of the UPDATE, and the answer of an account operation.
ApplyRevoke(t) ==
    LET targets == {s \in req[t].targets : Revocable(s)} IN
    /\ pc[t] = "applyRevoke"
    /\ \A s \in targets : ~Locked(s)
    /\ session' = [s \in Tokens |-> IF s \in targets THEN Revoked(session[s]) ELSE session[s]]
    /\ Finish(t)
    /\ UNCHANGED <<now, account, issued>>

-----------------------------------------------------------------------------
(* Account operations.                                                     *)

RevokeSessionsOf(u) == [NoRequest EXCEPT !.op = "account", !.user = u]

\* The new password of a change or reset is stored; the sessions are revoked next.
StorePassword(t, u) ==
    /\ account[u] # "deleted"
    /\ Begin(t, RevokeSessionsOf(u), "revoke")
    /\ UNCHANGED <<now, account, session, issued>>

Activate(u) ==
    /\ account[u] # "deleted"
    /\ account' = [account EXCEPT ![u] = "active"]
    /\ UNCHANGED <<now, session, issued, pc, req>>

Deactivate(t, u) ==
    /\ account[u] # "deleted"
    /\ account' = [account EXCEPT ![u] = "inactive"]
    /\ Begin(t, RevokeSessionsOf(u), "reload")
    /\ UNCHANGED <<now, session, issued>>

\* The status update reads the row back before it revokes; a user deleted meanwhile
\* is not found and keeps its sessions.
ReloadUser(t) ==
    /\ pc[t] = "reload"
    /\ IF account[req[t].user] # "deleted"
       THEN Goto(t, "revoke") /\ UNCHANGED req
       ELSE Finish(t)
    /\ UNCHANGED <<now, account, session, issued>>

\* Revokes nothing: no later query finds a deleted user.
DeleteUser(u) ==
    /\ account[u] # "deleted"
    /\ account' = [account EXCEPT ![u] = "deleted"]
    /\ UNCHANGED <<now, session, issued, pc, req>>

Tick ==
    /\ now < MaxTime
    /\ now' = now + 1
    /\ UNCHANGED <<account, session, issued, pc, req>>

-----------------------------------------------------------------------------
(* The specification.                                                      *)

Requests(t) ==
    \/ \E u \in Users : Login(t, u) \/ StorePassword(t, u) \/ Deactivate(t, u)
    \/ \E s \in Tokens : Refresh(t, s)

Proceed(t) ==
    \/ Cleanup(t)
    \/ FindSession(t)
    \/ CheckUser(t)
    \/ ServeGrace(t)
    \/ \E s \in Tokens : CreateSession(t, s) \/ Rotate(t, s)
    \/ CommitRotate(t)
    \/ ReloadUser(t)
    \/ SnapshotRevoke(t)
    \/ ApplyRevoke(t)

Next ==
    \/ \E t \in Conns : Requests(t) \/ Proceed(t) \/ Abandon(t)
    \/ \E s \in Tokens : Logout(s)
    \/ \E u \in Users : Activate(u) \/ DeleteUser(u)
    \/ Tick

Spec == Init /\ [][Next]_vars

-----------------------------------------------------------------------------
(* Properties.                                                             *)

\* Every row and every local variable has its type; in the rows of refresh_sessions
\* reason, deadline and replacement agree, whichever statements have written them.
TypeOK ==
    /\ now \in Times
    /\ account \in [Users -> Accounts]
    /\ session \in [Tokens -> SessionRow \cup {Nil}]
    /\ issued \subseteq Tokens
    /\ pc \in [Conns -> Statements]
    /\ req \in [Conns -> Request]

\* A family never has two sessions that are not revoked: however often a token is
\* submitted at the same time, it is rotated once.
OneLivePerFamily ==
    \A r, s \in Tokens :
        IsLive(r) /\ IsLive(s) /\ session[r].family = session[s].family => r = s

\* While a session's grace window is recorded, the replacement it serves is a
\* session of the same user and family that still exists, and if that one has been
\* rotated in turn, its own window closes no earlier: a client that retries with
\* the old token in time reaches the family's current token by steps that all
\* answer, unless something revoked it.
GraceLeadsOn ==
    \A s \in Tokens : Exists(s) /\ session[s].grace # Nil =>
        LET next == session[s].replacement IN
        /\ next # s /\ Exists(next)
        /\ session[next].user = session[s].user
        /\ session[next].family = session[s].family
        /\ session[next].grace # Nil => session[next].grace >= session[s].grace

\* A revoked session is never revived, keeps the reason it was revoked for, and
\* its grace deadline is never moved: only closed. Sessions are deleted only once
\* they have expired, so a replay is recognised until then.
RevocationIsFinal ==
    [][\A s \in Tokens : Exists(s) =>
          \/ session'[s] = Nil /\ session[s].expires <= now
          \/ /\ session'[s] # Nil
             /\ session[s].reason # Nil =>
                   /\ session'[s].reason = session[s].reason
                   /\ session'[s].grace \in {session[s].grace, Nil}]_vars

\* The current token of each family; sessions implement TokenFamily.
CurrentTokens == [f \in Tokens |-> {s \in Tokens : IsLive(s) /\ session[s].family = f}]

Family == INSTANCE TokenFamily WITH current <- CurrentTokens

\* A family is opened once, by a login; it has one current token, handed over by
\* rotation; once it has none, because of a logout, a replay, an account operation
\* or its expiry, it never has one again.
ImplementsFamily == Family!Spec

\* The claims of the documentation that the code does not keep.

\* "A successful change revokes every refresh session for the user" (and so do a
\* reset and a deactivation): once it is answered, no family it found is still open.
AccountChangeRevokes ==
    [][\A t \in Conns : req[t].op = "account" /\ ApplyRevoke(t) =>
          \A s \in req[t].targets : Exists(s) =>
              CurrentTokens'[session[s].family] = {}]_vars

\* A grace answer's cookie expires "at the original replacement's expiry".
GraceAnswerExpiry ==
    \A t \in Conns : pc[t] = "serveGrace" /\ account[req[t].user] = "active" =>
        LET answer == req[t].answer IN
        IsLive(answer.token) => answer.expires = session[answer.token].expires
=============================================================================
