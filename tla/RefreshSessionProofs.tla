------------------------ MODULE RefreshSessionProofs ------------------------
(***************************************************************************)
(* Proofs that RefreshSession keeps its invariants and implements          *)
(* TokenFamily, for every number of connections, users and tokens.         *)
(***************************************************************************)
EXTENDS RefreshSessionInvariant, TLAPS

(***************************************************************************)
(* The rows that the statements write.                                     *)
(***************************************************************************)
LEMMA NewRow ==
    ASSUME NEW u \in Users, NEW f \in Tokens, NEW at \in Times
    PROVE  /\ NewSession(u, f, at) \in SessionRow
           /\ NewSession(u, f, at) # Nil
           /\ NewSession(u, f, at).reason = Nil
           /\ NewSession(u, f, at).family = f
<1>1. at + RefreshTTL \in Expiries
  BY ConstantsAssumption DEF Times, Expiries
<1>2. NewSession(u, f, at) \in SessionRow
  BY <1>1, ConstantsAssumption DEF NewSession, SessionRow
<1>3. QED
  BY <1>2, NilIsNoRow DEF NewSession

LEMMA RevokedRow ==
    ASSUME NEW row \in SessionRow
    PROVE  /\ Revoked(row) \in SessionRow
           /\ Revoked(row) # Nil
           /\ Revoked(row).reason # Nil
           /\ Revoked(row).family = row.family
           /\ row.reason # Nil => Revoked(row).reason = row.reason
           /\ Revoked(row).grace = Nil
<1> DEFINE reason == IF row.reason = Nil THEN "hard" ELSE row.reason
<1>1. reason \in {"rotated", "hard"} /\ reason # Nil
  <2>1. row.reason \in {"rotated", "hard", Nil}
    BY DEF SessionRow
  <2>2. "hard" # Nil /\ "rotated" # Nil
    BY ConstantsAssumption
  <2>3. QED
    BY <2>1, <2>2
<1>2. Revoked(row) = [row EXCEPT !.reason = reason, !.grace = Nil, !.replacement = Nil]
  BY DEF Revoked
<1>3. row.reason # Nil => reason = row.reason
  OBVIOUS
<1> HIDE DEF reason
<1>4. Revoked(row) \in SessionRow
  BY <1>1, <1>2 DEF SessionRow
<1>5. QED
  BY <1>1, <1>2, <1>3, <1>4, NilIsNoRow DEF SessionRow

LEMMA RotatedRow ==
    ASSUME NEW row \in SessionRow, NEW next \in Tokens, NEW at \in Times
    PROVE  /\ RotatedTo(row, next, at) \in SessionRow
           /\ RotatedTo(row, next, at) # Nil
           /\ RotatedTo(row, next, at).reason = "rotated"
           /\ RotatedTo(row, next, at).family = row.family
<1>1. at + GraceWindow \in Deadlines /\ at + GraceWindow # Nil /\ next # Nil
  BY ConstantsAssumption DEF Times, Deadlines
<1>2. RotatedTo(row, next, at) \in SessionRow
  BY <1>1 DEF RotatedTo, SessionRow
<1>3. QED
  BY <1>2, NilIsNoRow DEF RotatedTo, SessionRow

LEMMA NothingPending ==
    NoRequest \in Request /\ NoRequest.at = 0 /\ NoRequest.next = Nil
BY ConstantsAssumption DEF NoRequest, Request, Times

(***************************************************************************)
(* Steps of one connection.                                                *)
(***************************************************************************)

\* The connection t goes on to statement with the local variables r; the others wait.
Moves(t, r, statement) ==
    /\ pc' = [pc EXCEPT ![t] = statement]
    /\ req' = [req EXCEPT ![t] = r]
    /\ UNCHANGED <<now, account>>

\* What the local variables r must be for t to be ready for statement.
Ready(r, statement) ==
    /\ r \in Request /\ statement \in Statements
    /\ r.at <= now
    /\ statement = "cleanup" => \/ r.op = "login" /\ r.user \in Users
                                \/ r.op = "refresh" /\ r.token \in Tokens
    /\ statement = "create" => r.user \in Users
    /\ statement \in {"find", "checkUser", "rotate", "commitRotate"} => r.token \in Tokens

LEMMA MovesLocals ==
    ASSUME IInv, NEW t \in Conns, NEW r, NEW statement, Moves(t, r, statement),
           Ready(r, statement)
    PROVE  /\ pc' \in [Conns -> Statements] /\ req' \in [Conns -> Request]
           /\ now' \in Times /\ account' \in [Users -> Accounts]
           /\ \A c \in Conns : LocalsReady(c)'
           /\ pc'[t] = statement /\ req'[t] = r
           /\ \A c \in Conns \ {t} : pc'[c] = pc[c] /\ req'[c] = req[c]
<1>1. /\ pc'[t] = statement /\ req'[t] = r
      /\ \A c \in Conns \ {t} : pc'[c] = pc[c] /\ req'[c] = req[c]
  BY DEF IInv, TypeOK, Moves
<1>2. \A c \in Conns : LocalsReady(c)'
  BY <1>1 DEF IInv, LocalsReady, Ready, Moves
<1>3. QED
  BY <1>1, <1>2 DEF IInv, TypeOK, Moves, Ready

LEMMA FinishMoves ==
    ASSUME IInv, NEW t \in Conns, Finish(t), UNCHANGED <<now, account>>
    PROVE  Moves(t, NoRequest, "idle") /\ Ready(NoRequest, "idle")
BY NothingPending DEF Finish, Moves, Ready, Statements, IInv, TypeOK, Times

(***************************************************************************)
(* Steps that open nothing: rows stay, are deleted or are revoked.         *)
(***************************************************************************)
SessionsEnd ==
    /\ UNCHANGED issued
    /\ session' \in [Tokens -> SessionRow \cup {Nil}]
    /\ \A s \in Tokens :
          \/ session'[s] = session[s]
          \/ session'[s] = Nil /\ ~Locked(s)
          \/ /\ Exists(s) /\ ~Locked(s)
             /\ session'[s] # Nil
             /\ session'[s].reason # Nil
             /\ session'[s].family = session[s].family

LEMMA SessionsEndLive ==
    ASSUME IInv, SessionsEnd, NEW s \in Tokens
    PROVE  /\ IsLive(s)' => IsLive(s) /\ session'[s] = session[s]
           /\ Exists(s)' => Exists(s) /\ session'[s].family = session[s].family
           /\ Locked(s) => session'[s] = session[s]
BY DEF SessionsEnd, IsLive, Exists

\* No rotation is opened.
RotationsKept ==
    \A t \in Conns : pc'[t] = "commitRotate" => pc[t] = "commitRotate" /\ req'[t] = req[t]

LEMMA SessionsEndStep ==
    ASSUME IInv, SessionsEnd, RotationsKept, TypeOK', \A t \in Conns : LocalsReady(t)'
    PROVE  IInv'
<1>1. SessionsIssued'
  BY SessionsEndLive DEF IInv, SessionsIssued, SessionsEnd
<1>2. OneLivePerFamily'
  BY SessionsEndLive DEF IInv, OneLivePerFamily
<1>3. RotationsExclusive'
  <2> SUFFICES ASSUME NEW t \in Conns, pc'[t] = "commitRotate"
               PROVE  /\ IsLive(req[t].token)'
                      /\ req'[t].next \in Tokens \ issued'
                      /\ \A r \in Conns \ {t} : pc'[r] = "commitRotate" =>
                             req'[r].token # req'[t].token /\ req'[r].next # req'[t].next
    BY DEF RotationsExclusive
  <2>1. pc[t] = "commitRotate" /\ req'[t] = req[t]
    BY DEF RotationsKept
  <2>2. req[t].token \in Tokens /\ Locked(req[t].token)
    BY <2>1 DEF IInv, LocalsReady, Locked
  <2>3. session'[req[t].token] = session[req[t].token]
    BY <2>2, SessionsEndLive
  <2>4. IsLive(req[t].token)'
    BY <2>1, <2>3 DEF IInv, RotationsExclusive, IsLive, Exists
  <2>5. QED
    BY <2>1, <2>4 DEF IInv, RotationsExclusive, RotationsKept, SessionsEnd
<1>4. QED
  BY <1>1, <1>2, <1>3 DEF IInv

\* A connection that opens no rotation moves on while no session is opened.
LEMMA MovesStep ==
    ASSUME IInv, NEW t \in Conns, NEW r, NEW statement, Moves(t, r, statement),
           Ready(r, statement), statement # "commitRotate", SessionsEnd
    PROVE  IInv'
<1>1. TypeOK'
  BY MovesLocals DEF IInv, TypeOK, SessionsEnd
<1>2. RotationsKept
  BY MovesLocals DEF RotationsKept
<1>3. QED
  BY <1>1, <1>2, MovesLocals, SessionsEndStep

LEMMA NothingEnds ==
    ASSUME IInv, UNCHANGED <<session, issued>>
    PROVE  SessionsEnd
BY DEF IInv, TypeOK, SessionsEnd

(***************************************************************************)
(* Steps that leave the sessions alone.                                    *)
(***************************************************************************)
LEMMA BeginStep ==
    ASSUME IInv, NEW t \in Conns, NEW r, NEW statement, Begin(t, r, statement),
           now' = now, account' \in [Users -> Accounts], UNCHANGED <<session, issued>>,
           Ready(r, statement), statement # "commitRotate"
    PROVE  IInv'
<1>1. TypeOK'
  BY DEF IInv, TypeOK, Begin, Ready
<1>2. \A c \in Conns : LocalsReady(c)'
  BY DEF IInv, TypeOK, Begin, LocalsReady, Ready
<1>3. RotationsKept
  BY DEF IInv, TypeOK, Begin, RotationsKept
<1>4. QED
  BY <1>1, <1>2, <1>3, NothingEnds, SessionsEndStep

LEMMA LoginStep ==
    ASSUME IInv, NEW t \in Conns, NEW u \in Users, Login(t, u)
    PROVE  IInv'
<1> DEFINE r == [NoRequest EXCEPT !.op = "login", !.user = u]
<1>1. r \in Request /\ r.at = 0 /\ r.op = "login" /\ r.user = u
  BY NothingPending DEF Request
<1> HIDE DEF r
<1>2. Ready(r, "cleanup")
  BY <1>1 DEF Ready, Statements, IInv, TypeOK, Times
<1>3. Begin(t, r, "cleanup")
  BY DEF Login, r
<1>4. QED
  BY <1>2, <1>3, BeginStep DEF Login, IInv, TypeOK

LEMMA RefreshStep ==
    ASSUME IInv, NEW t \in Conns, NEW s \in Tokens, Refresh(t, s)
    PROVE  IInv'
<1> DEFINE r == [NoRequest EXCEPT !.op = "refresh", !.token = s, !.at = now]
<1>1. now \in Times
  BY DEF IInv, TypeOK
<1>2. r \in Request /\ r.at = now /\ r.op = "refresh" /\ r.token = s
  BY <1>1 DEF NoRequest, Request
<1> HIDE DEF r
<1>3. Ready(r, "cleanup")
  BY <1>1, <1>2 DEF Ready, Statements, Times
<1>4. Begin(t, r, "cleanup")
  BY DEF Refresh, r
<1>5. QED
  BY <1>3, <1>4, BeginStep DEF Refresh, IInv, TypeOK

LEMMA AccountRequest ==
    ASSUME NEW u \in Users
    PROVE  RevokeSessionsOf(u) \in Request /\ RevokeSessionsOf(u).at = 0
BY NothingPending DEF RevokeSessionsOf, Request

LEMMA StorePasswordStep ==
    ASSUME IInv, NEW t \in Conns, NEW u \in Users, StorePassword(t, u)
    PROVE  IInv'
<1>1. Ready(RevokeSessionsOf(u), "revoke")
  BY AccountRequest DEF Ready, Statements, IInv, TypeOK, Times
<1>2. QED
  BY <1>1, BeginStep DEF StorePassword, IInv, TypeOK

LEMMA DeactivateStep ==
    ASSUME IInv, NEW t \in Conns, NEW u \in Users, Deactivate(t, u)
    PROVE  IInv'
<1>1. Ready(RevokeSessionsOf(u), "reload")
  BY AccountRequest DEF Ready, Statements, IInv, TypeOK, Times
<1>2. account' \in [Users -> Accounts]
  BY DEF Deactivate, IInv, TypeOK, Accounts
<1>3. QED
  BY <1>1, <1>2, BeginStep DEF Deactivate

LEMMA FinishStep ==
    ASSUME IInv, NEW t \in Conns, Finish(t), UNCHANGED <<now, account>>, SessionsEnd
    PROVE  IInv'
BY FinishMoves, MovesStep

\* The local variables stay as they are.
LEMMA GotoStep ==
    ASSUME IInv, NEW t \in Conns, NEW statement, Goto(t, statement),
           UNCHANGED <<now, account, session, issued, req>>,
           Ready(req[t], statement), statement # "commitRotate"
    PROVE  IInv'
<1>1. Moves(t, req[t], statement)
  BY DEF Goto, Moves, IInv, TypeOK
<1>2. QED
  BY <1>1, NothingEnds, MovesStep

LEMMA CheckUserStep ==
    ASSUME IInv, NEW t \in Conns, CheckUser(t)
    PROVE  IInv'
<1>1. Ready(req[t], "rotate")
  BY DEF CheckUser, Ready, Statements, IInv, TypeOK, LocalsReady
<1>2. QED
  BY <1>1, GotoStep, FinishStep, NothingEnds DEF CheckUser

LEMMA ReloadUserStep ==
    ASSUME IInv, NEW t \in Conns, ReloadUser(t)
    PROVE  IInv'
<1>1. Ready(req[t], "revoke")
  BY DEF ReloadUser, Ready, Statements, IInv, TypeOK, LocalsReady
<1>2. QED
  BY <1>1, GotoStep, FinishStep, NothingEnds DEF ReloadUser

LEMMA SnapshotRevokeStep ==
    ASSUME IInv, NEW t \in Conns, SnapshotRevoke(t)
    PROVE  IInv'
<1> DEFINE r == [req[t] EXCEPT !.targets = {s \in Tokens : Revocable(s) /\ InScope(t, s)}]
<1>1. r \in Request /\ r.at = req[t].at
  BY DEF IInv, TypeOK, Request
<1> HIDE DEF r
<1>2. Moves(t, r, "applyRevoke")
  BY DEF SnapshotRevoke, Goto, Moves, r, IInv, TypeOK
<1>3. Ready(r, "applyRevoke")
  BY <1>1 DEF Ready, Statements, IInv, LocalsReady
<1>4. QED
  BY <1>2, <1>3, NothingEnds, MovesStep DEF SnapshotRevoke

LEMMA GraceLocals ==
    ASSUME NEW row \in SessionRow, row.grace # Nil
    PROVE  GraceRequest(row) \in Request /\ GraceRequest(row).at = 0
<1>1. row.replacement \in Tokens /\ row.expires \in Expiries /\ row.user \in Users
  BY DEF SessionRow
<1>2. [token |-> row.replacement, expires |-> row.expires] \in Answer
  BY <1>1 DEF Answer
<1>3. QED
  BY <1>1, <1>2, NothingPending DEF GraceRequest, Request

LEMMA ReplayLocals ==
    ASSUME NEW row \in SessionRow
    PROVE  ReplayRequest(row) \in Request /\ ReplayRequest(row).at = 0
BY NothingPending DEF SessionRow, ReplayRequest, Request

LEMMA FindSessionStep ==
    ASSUME IInv, NEW t \in Conns, FindSession(t)
    PROVE  IInv'
<1> DEFINE row == session[req[t].token]
           checked == [req[t] EXCEPT !.user = row.user]
<1>1. req[t].token \in Tokens /\ req[t] \in Request /\ row \in SessionRow \cup {Nil}
  BY DEF FindSession, IInv, TypeOK, LocalsReady
<1>2. 0 <= now
  BY DEF IInv, TypeOK, Times
<1>3. CASE Finish(t)
  BY <1>3, FinishStep, NothingEnds DEF FindSession
<1>4. CASE /\ row # Nil
           /\ req' = [req EXCEPT ![t] = checked] /\ Goto(t, "checkUser")
  <2>1. checked \in Request /\ checked.at = req[t].at /\ checked.token = req[t].token
    BY <1>1, <1>4 DEF Request, SessionRow
  <2> HIDE DEF checked
  <2>2. Ready(checked, "checkUser")
    BY <1>1, <2>1 DEF Ready, Statements, IInv, LocalsReady
  <2>3. Moves(t, checked, "checkUser")
    BY <1>4 DEF FindSession, Goto, Moves
  <2>4. QED
    BY <2>2, <2>3, NothingEnds, MovesStep DEF FindSession
<1>5. CASE /\ row # Nil /\ InGrace(row, req[t].at)
           /\ req' = [req EXCEPT ![t] = GraceRequest(row)] /\ Goto(t, "serveGrace")
  <2>1. Ready(GraceRequest(row), "serveGrace")
    BY <1>1, <1>2, <1>5, GraceLocals DEF Ready, Statements, InGrace
  <2>2. Moves(t, GraceRequest(row), "serveGrace")
    BY <1>5 DEF FindSession, Goto, Moves
  <2>3. QED
    BY <2>1, <2>2, NothingEnds, MovesStep DEF FindSession
<1>6. CASE /\ row # Nil
           /\ req' = [req EXCEPT ![t] = ReplayRequest(row)] /\ Goto(t, "revoke")
  <2>1. Ready(ReplayRequest(row), "revoke")
    BY <1>1, <1>2, <1>6, ReplayLocals DEF Ready, Statements
  <2>2. Moves(t, ReplayRequest(row), "revoke")
    BY <1>6 DEF FindSession, Goto, Moves
  <2>3. QED
    BY <2>1, <2>2, NothingEnds, MovesStep DEF FindSession
<1>7. QED
  BY <1>3, <1>4, <1>5, <1>6 DEF FindSession

LEMMA ClockStep ==
    ASSUME IInv, Tick
    PROVE  IInv'
<1>1. TypeOK'
  BY ConstantsAssumption DEF IInv, TypeOK, Tick, Times
<1>2. \A c \in Conns : LocalsReady(c)'
  BY DEF IInv, TypeOK, Tick, LocalsReady, Request, Times
<1>3. QED
  BY <1>1, <1>2, NothingEnds, SessionsEndStep DEF Tick, RotationsKept

LEMMA AccountStep ==
    ASSUME IInv, NEW u \in Users, Activate(u) \/ DeleteUser(u)
    PROVE  IInv'
<1>1. TypeOK'
  BY DEF IInv, TypeOK, Activate, DeleteUser, Accounts
<1>2. \A c \in Conns : LocalsReady(c)'
  BY DEF IInv, Activate, DeleteUser, LocalsReady
<1>3. QED
  BY <1>1, <1>2, NothingEnds, SessionsEndStep DEF Activate, DeleteUser, RotationsKept

(***************************************************************************)
(* Steps that delete or revoke sessions.                                   *)
(***************************************************************************)
LEMMA CleanupEnds ==
    ASSUME IInv, NEW t \in Conns, Cleanup(t)
    PROVE  SessionsEnd
<1>1. CASE UNCHANGED session
  BY <1>1, NothingEnds DEF Cleanup
<1>2. ASSUME NEW at, \A s \in Tokens : Expired(s, at) => ~Locked(s),
             session' = [s \in Tokens |-> IF Expired(s, at) THEN Nil ELSE session[s]]
      PROVE  SessionsEnd
  BY <1>2 DEF Cleanup, SessionsEnd, IInv, TypeOK
<1>3. QED
  BY <1>1, <1>2 DEF Cleanup

LEMMA LogoutEnds ==
    ASSUME IInv, NEW s \in Tokens, Logout(s)
    PROVE  SessionsEnd
<1>1. session[s] \in SessionRow
  BY DEF IInv, TypeOK, Logout, Revocable, Exists
<1>2. session' = [session EXCEPT ![s] = Revoked(session[s])]
  BY DEF Logout
<1>3. QED
  BY <1>1, <1>2, RevokedRow DEF Logout, Revocable, SessionsEnd, IInv, TypeOK

LEMMA ApplyRevokeEnds ==
    ASSUME IInv, NEW t \in Conns, ApplyRevoke(t)
    PROVE  SessionsEnd
<1> DEFINE targets == {s \in req[t].targets : Revocable(s)}
<1>1. \A s \in targets : Exists(s) /\ ~Locked(s)
  BY DEF ApplyRevoke, Revocable
<1>2. \A s \in Tokens : session'[s] = IF s \in targets THEN Revoked(session[s]) ELSE session[s]
  BY DEF ApplyRevoke
<1>3. DOMAIN session' = Tokens /\ session' = [s \in Tokens |-> session'[s]]
  BY DEF ApplyRevoke
<1> HIDE DEF targets
<1>4. \A s \in Tokens : Exists(s) => session[s] \in SessionRow
  BY DEF IInv, TypeOK, Exists
<1>5. QED
  BY <1>1, <1>2, <1>3, <1>4, RevokedRow DEF SessionsEnd, IInv, TypeOK, ApplyRevoke

LEMMA CleanupStep ==
    ASSUME IInv, NEW t \in Conns, Cleanup(t)
    PROVE  IInv'
<1> DEFINE at == IF req[t].op = "login" THEN now ELSE req[t].at
           r == [req[t] EXCEPT !.at = at]
           statement == IF req[t].op = "login" THEN "create" ELSE "find"
<1>1. at \in Times /\ at <= now
  BY DEF IInv, TypeOK, LocalsReady, Request, Times
<1>2. Moves(t, r, statement)
  BY DEF Cleanup, Goto, Moves, IInv, TypeOK
<1> HIDE DEF at
<1>3. /\ r \in Request /\ r.at = at
      /\ r.op = req[t].op /\ r.user = req[t].user /\ r.token = req[t].token
  BY <1>1 DEF IInv, TypeOK, Request
<1> HIDE DEF r
<1>4. Ready(r, statement)
  BY <1>1, <1>3 DEF Cleanup, Ready, Statements, IInv, LocalsReady
<1>5. statement # "commitRotate"
  OBVIOUS
<1>6. QED
  BY <1>2, <1>4, <1>5, CleanupEnds, MovesStep

LEMMA LogoutStep ==
    ASSUME IInv, NEW s \in Tokens, Logout(s)
    PROVE  IInv'
<1>1. TypeOK'
  BY LogoutEnds DEF SessionsEnd, IInv, TypeOK, Logout
<1>2. \A c \in Conns : LocalsReady(c)'
  BY DEF IInv, Logout, LocalsReady
<1>3. QED
  BY <1>1, <1>2, LogoutEnds, SessionsEndStep DEF Logout, RotationsKept

LEMMA ApplyRevokeStep ==
    ASSUME IInv, NEW t \in Conns, ApplyRevoke(t)
    PROVE  IInv'
BY ApplyRevokeEnds, FinishStep DEF ApplyRevoke

(***************************************************************************)
(* Steps that open sessions.                                               *)
(***************************************************************************)
LEMMA CreateSessionRow ==
    ASSUME IInv, NEW t \in Conns, NEW s \in Tokens, CreateSession(t, s)
    PROVE  /\ s \notin issued /\ ~Exists(s)
           /\ session'[s] \in SessionRow /\ session'[s] # Nil
           /\ session'[s].reason = Nil /\ session'[s].family = s
           /\ \A other \in Tokens \ {s} : session'[other] = session[other]
           /\ \A other \in Tokens : Exists(other) =>
                 other # s /\ session[other].family # s
<1>1. s \notin issued
  BY DEF CreateSession, Drawn
<1>2. session' = [session EXCEPT ![s] = NewSession(req[t].user, s, req[t].at)]
  BY DEF CreateSession, NewFamily
<1>3. req[t].user \in Users /\ req[t].at \in Times
  BY DEF CreateSession, IInv, LocalsReady, TypeOK, Request
<1>4. \A other \in Tokens : Exists(other) => other # s /\ session[other].family # s
  BY <1>1 DEF IInv, SessionsIssued
<1>5. QED
  BY <1>1, <1>2, <1>3, <1>4, NewRow DEF IInv, TypeOK

LEMMA CreateSessionStep ==
    ASSUME IInv, NEW t \in Conns, NEW s \in Tokens, CreateSession(t, s)
    PROVE  IInv'
<1>1. issued' = issued \cup {s} /\ Finish(t) /\ UNCHANGED <<now, account>>
  BY DEF CreateSession
<1>2. Moves(t, NoRequest, "idle") /\ Ready(NoRequest, "idle")
  BY <1>1, FinishMoves
<1>3. session' \in [Tokens -> SessionRow \cup {Nil}]
  BY CreateSessionRow DEF CreateSession, IInv, TypeOK
<1>4. TypeOK'
  BY <1>1, <1>2, <1>3, MovesLocals DEF TypeOK, IInv
<1>5. SessionsIssued'
  BY <1>1, CreateSessionRow DEF IInv, SessionsIssued, Exists
<1>6. OneLivePerFamily'
  BY CreateSessionRow DEF IInv, OneLivePerFamily, IsLive, Exists
<1>7. RotationsExclusive'
  <2> SUFFICES ASSUME NEW c \in Conns, pc'[c] = "commitRotate"
               PROVE  /\ IsLive(req[c].token)'
                      /\ req'[c].next \in Tokens \ issued'
                      /\ \A r \in Conns \ {c} : pc'[r] = "commitRotate" =>
                             req'[r].token # req'[c].token /\ req'[r].next # req'[c].next
    BY DEF RotationsExclusive
  <2>1. c # t /\ pc'[t] = "idle"
    BY <1>2, MovesLocals
  <2>2. pc[c] = "commitRotate" /\ req'[c] = req[c]
    BY <1>2, <2>1, MovesLocals
  <2>3. IsLive(req[c].token) /\ req[c].token \in Tokens /\ req[c].next \in Tokens \ issued
    BY <2>2 DEF IInv, RotationsExclusive, LocalsReady
  <2>4. IsLive(req[c].token)'
    BY <2>2, <2>3, CreateSessionRow DEF IsLive, Exists
  <2>5. req[c].next # s
    BY DEF CreateSession, Drawn
  <2>6. \A r \in Conns \ {c} : pc'[r] = "commitRotate" =>
            pc[r] = "commitRotate" /\ req'[r] = req[r]
    BY <1>2, <2>1, MovesLocals
  <2>7. QED
    BY <1>1, <2>2, <2>3, <2>4, <2>5, <2>6 DEF IInv, RotationsExclusive
<1>8. QED
  BY <1>2, <1>4, <1>5, <1>6, <1>7, MovesLocals DEF IInv

LEMMA RotateStep ==
    ASSUME IInv, NEW t \in Conns, NEW next \in Tokens, Rotate(t, next)
    PROVE  IInv'
<1>1. CASE Finish(t)
  BY <1>1, FinishStep, NothingEnds DEF Rotate
<1>2. CASE ~Finish(t)
  <2> DEFINE r == [req[t] EXCEPT !.next = next]
             s == req[t].token
  <2>1. /\ IsLive(s) /\ ~Locked(s) /\ next \notin Drawn
        /\ Goto(t, "commitRotate") /\ req' = [req EXCEPT ![t] = r]
    BY <1>2 DEF Rotate, MayRotate
  <2>2. s \in Tokens
    BY DEF Rotate, IInv, LocalsReady
  <2>3. r \in Request /\ r.at = req[t].at /\ r.token = s /\ r.next = next
    BY DEF IInv, TypeOK, Request
  <2> HIDE DEF r
  <2>4. Moves(t, r, "commitRotate")
    BY <2>1 DEF Rotate, Goto, Moves
  <2>5. Ready(r, "commitRotate")
    BY <2>2, <2>3 DEF Ready, Statements, IInv, LocalsReady
  <2>6. TypeOK' /\ \A c \in Conns : LocalsReady(c)'
    BY <2>4, <2>5, MovesLocals DEF IInv, TypeOK, Rotate
  <2>7. UNCHANGED <<session, issued>>
    BY DEF Rotate
  <2>8. SessionsIssued' /\ OneLivePerFamily'
    BY <2>7 DEF IInv, SessionsIssued, OneLivePerFamily, IsLive, Exists
  <2>9. \A c \in Conns \ {t} : /\ pc'[c] = pc[c] /\ req'[c] = req[c]
                               /\ pc[c] = "commitRotate" => req[c].token # s /\ req[c].next # next
    BY <2>1, <2>4, <2>5, MovesLocals DEF Locked, Drawn
  <2>10. req'[t] = r /\ next \notin issued
    BY <2>1, <2>4, <2>5, MovesLocals DEF Drawn
  <2>11. RotationsExclusive'
    BY <2>1, <2>3, <2>7, <2>9, <2>10 DEF IInv, RotationsExclusive, IsLive, Exists
  <2>12. QED
    BY <2>6, <2>8, <2>11 DEF IInv
<1>3. QED
  BY <1>1, <1>2

LEMMA CommitRotateRows ==
    ASSUME IInv, NEW t \in Conns, CommitRotate(t)
    PROVE  LET s == req[t].token
               next == req[t].next
           IN  /\ s \in Tokens /\ next \in Tokens \ issued /\ s # next
               /\ IsLive(s) /\ s \in issued /\ session[s].family \in issued
               /\ session'[s] \in SessionRow /\ session'[s] # Nil
               /\ session'[s].reason = "rotated" /\ session'[s].family = session[s].family
               /\ session'[next] \in SessionRow /\ session'[next] # Nil
               /\ session'[next].reason = Nil
               /\ session'[next].family = session[s].family
               /\ \A other \in Tokens \ {s, next} : session'[other] = session[other]
               /\ issued' = issued \cup {next}
<1> DEFINE s == req[t].token
           next == req[t].next
           at == req[t].at
<1>1. s \in Tokens /\ next \in Tokens \ issued /\ IsLive(s) /\ at \in Times
  BY DEF CommitRotate, IInv, RotationsExclusive, LocalsReady, TypeOK, Request
<1>2. s \in issued /\ session[s].family \in issued /\ s # next
  BY <1>1 DEF IInv, SessionsIssued, IsLive
<1>3. session[s] \in SessionRow /\ session[s].user \in Users /\ session[s].family \in Tokens
  BY <1>1 DEF IInv, TypeOK, IsLive, Exists, SessionRow
<1>4. session' = [session EXCEPT ![s] = RotatedTo(session[s], next, at),
                                 ![next] = NewSession(session[s].user, session[s].family, at)]
  BY DEF CommitRotate, Successor
<1>5. issued' = issued \cup {next}
  BY DEF CommitRotate
<1> HIDE DEF s, next, at
<1>6. /\ session'[s] = RotatedTo(session[s], next, at)
      /\ session'[next] = NewSession(session[s].user, session[s].family, at)
      /\ \A other \in Tokens \ {s, next} : session'[other] = session[other]
  BY <1>1, <1>2, <1>4 DEF IInv, TypeOK
<1>7. /\ session'[s] \in SessionRow /\ session'[s] # Nil
      /\ session'[s].reason = "rotated" /\ session'[s].family = session[s].family
  BY <1>1, <1>3, <1>6, RotatedRow
<1>8. /\ session'[next] \in SessionRow /\ session'[next] # Nil
      /\ session'[next].reason = Nil /\ session'[next].family = session[s].family
  BY <1>1, <1>3, <1>6, NewRow
<1>9. QED
  BY <1>1, <1>2, <1>5, <1>6, <1>7, <1>8 DEF s, next

LEMMA CommitRotateStep ==
    ASSUME IInv, NEW t \in Conns, CommitRotate(t)
    PROVE  IInv'
<1> DEFINE s == req[t].token
           next == req[t].next
<1>1. /\ s \in Tokens /\ next \in Tokens \ issued /\ s # next
      /\ IsLive(s) /\ s \in issued /\ session[s].family \in issued
      /\ session'[s] \in SessionRow /\ session'[s] # Nil
      /\ session'[s].reason = "rotated" /\ session'[s].family = session[s].family
      /\ session'[next] \in SessionRow /\ session'[next] # Nil
      /\ session'[next].reason = Nil /\ session'[next].family = session[s].family
      /\ \A other \in Tokens \ {s, next} : session'[other] = session[other]
      /\ issued' = issued \cup {next}
  BY CommitRotateRows
<1>2. Moves(t, NoRequest, "idle") /\ Ready(NoRequest, "idle")
  BY FinishMoves DEF CommitRotate
<1>3. session' \in [Tokens -> SessionRow \cup {Nil}]
  <2>1. DOMAIN session' = Tokens /\ session' = [x \in Tokens |-> session'[x]]
    BY DEF CommitRotate, IInv, TypeOK
  <2>2. \A x \in Tokens : session'[x] \in SessionRow \cup {Nil}
    BY <1>1 DEF IInv, TypeOK
  <2>3. QED
    BY <2>1, <2>2
<1>4. TypeOK' /\ \A c \in Conns : LocalsReady(c)'
  BY <1>1, <1>2, <1>3, MovesLocals DEF TypeOK, IInv
<1>5. "rotated" # Nil
  BY ConstantsAssumption
<1>6. \A c \in Conns : pc'[c] = "commitRotate" =>
          /\ c # t /\ pc[c] = "commitRotate" /\ req'[c] = req[c]
          /\ req[c].token \in Tokens \ {s, next} /\ req[c].next # next
          /\ IsLive(req[c].token) /\ req[c].next \in Tokens \ issued
  <2> SUFFICES ASSUME NEW c \in Conns, pc'[c] = "commitRotate"
               PROVE  /\ c # t /\ pc[c] = "commitRotate" /\ req'[c] = req[c]
                      /\ req[c].token \in Tokens \ {s, next} /\ req[c].next # next
                      /\ IsLive(req[c].token) /\ req[c].next \in Tokens \ issued
    OBVIOUS
  <2>1. c # t /\ pc[c] = "commitRotate" /\ req'[c] = req[c]
    BY <1>2, MovesLocals
  <2>2. /\ IsLive(req[c].token) /\ req[c].token \in Tokens
        /\ req[c].next \in Tokens \ issued
        /\ req[c].token # s /\ req[c].next # next
    BY <2>1 DEF IInv, RotationsExclusive, LocalsReady, CommitRotate
  <2>3. req[c].token # next
    BY <1>1, <2>2 DEF IInv, SessionsIssued, IsLive
  <2>4. QED
    BY <2>1, <2>2, <2>3
<1> HIDE DEF s, next
<1>7. SessionsIssued'
  BY <1>1 DEF IInv, SessionsIssued, Exists
<1>8. OneLivePerFamily'
  <2>1. \A x \in Tokens : IsLive(x)' <=> (x = next \/ (IsLive(x) /\ x # s))
    <3>1. ~Exists(next)
      BY <1>1 DEF IInv, SessionsIssued
    <3>2. QED
      BY <1>1, <1>5, <3>1 DEF IsLive, Exists
  <2>2. \A x \in Tokens : IsLive(x) /\ session[x].family = session[s].family => x = s
    BY <1>1 DEF IInv, OneLivePerFamily
  <2>3. \A x \in Tokens \ {s, next} : session'[x].family = session[x].family
    BY <1>1
  <2>4. QED
    BY <1>1, <2>1, <2>2, <2>3 DEF IInv, OneLivePerFamily
<1>9. RotationsExclusive'
  <2>1. \A c \in Conns : pc'[c] = "commitRotate" => IsLive(req[c].token)'
    BY <1>1, <1>6 DEF IsLive, Exists
  <2>2. QED
    BY <1>1, <1>6, <2>1 DEF IInv, RotationsExclusive
<1>10. QED
  BY <1>4, <1>7, <1>8, <1>9 DEF IInv

(***************************************************************************)
(* The invariant, and the theorems that follow from it.                    *)
(***************************************************************************)
LEMMA InitInvariant ==
    ASSUME Init
    PROVE  IInv
<1>1. TypeOK
  BY NothingPending, ConstantsAssumption DEF Init, TypeOK, Times, Accounts, Statements
<1>2. \A t \in Conns : LocalsReady(t)
  BY NothingPending DEF Init, LocalsReady
<1>3. SessionsIssued /\ RotationsExclusive /\ OneLivePerFamily
  BY DEF Init, SessionsIssued, RotationsExclusive, OneLivePerFamily, Exists, IsLive
<1>4. QED
  BY <1>1, <1>2, <1>3 DEF IInv

LEMMA ProceedStep ==
    ASSUME IInv, NEW t \in Conns, Proceed(t)
    PROVE  IInv'
BY CleanupStep, FindSessionStep, CheckUserStep, FinishStep, NothingEnds, CreateSessionStep,
   RotateStep, CommitRotateStep, ReloadUserStep, SnapshotRevokeStep, ApplyRevokeStep
   DEF Proceed, ServeGrace

LEMMA NextInvariant ==
    ASSUME IInv, [Next]_vars
    PROVE  IInv'
<1>1. ASSUME NEW t \in Conns, Requests(t) PROVE IInv'
  BY <1>1, LoginStep, StorePasswordStep, DeactivateStep, RefreshStep DEF Requests
<1>2. ASSUME NEW t \in Conns, Proceed(t) PROVE IInv'
  BY <1>2, ProceedStep
<1>3. ASSUME NEW t \in Conns, Abandon(t) PROVE IInv'
  BY <1>3, FinishStep, NothingEnds DEF Abandon
<1>4. ASSUME NEW s \in Tokens, Logout(s) PROVE IInv'
  BY <1>4, LogoutStep
<1>5. ASSUME NEW u \in Users, Activate(u) \/ DeleteUser(u) PROVE IInv'
  BY <1>5, AccountStep
<1>6. CASE Tick
  BY <1>6, ClockStep
<1>7. CASE UNCHANGED vars
  BY <1>7 DEF vars, IInv, TypeOK, LocalsReady, SessionsIssued, RotationsExclusive,
              OneLivePerFamily, Exists, IsLive
<1>8. QED
  BY <1>1, <1>2, <1>3, <1>4, <1>5, <1>6, <1>7 DEF Next

\* The inductive invariant holds in every state of every run.
THEOREM Invariance == Spec => []IInv
<1>1. Init => IInv
  BY InitInvariant
<1>2. IInv /\ [Next]_vars => IInv'
  BY NextInvariant
<1>3. QED
  BY <1>1, <1>2, PTL DEF Spec

\* Rows and local variables keep their types; reason, deadline and replacement of a
\* session agree.
THEOREM TypeCorrect == Spec => []TypeOK
<1>1. IInv => TypeOK
  BY DEF IInv
<1>2. QED
  BY <1>1, Invariance, PTL

\* However many requests submit the tokens of a family at once, at most one of its
\* sessions is live.
THEOREM OneLive == Spec => []OneLivePerFamily
<1>1. IInv => OneLivePerFamily
  BY DEF IInv
<1>2. QED
  BY <1>1, Invariance, PTL

(***************************************************************************)
(* What a step does to the sessions.                                       *)
(***************************************************************************)
LEMMA SessionsChange ==
    ASSUME IInv, [Next]_vars
    PROVE  \/ UNCHANGED <<session, issued>>
           \/ \E t \in Conns : Cleanup(t)
           \/ \E s \in Tokens : Logout(s)
           \/ \E t \in Conns : ApplyRevoke(t)
           \/ \E t \in Conns, s \in Tokens : CreateSession(t, s)
           \/ \E t \in Conns : CommitRotate(t)
<1>1. ASSUME NEW t \in Conns, Requests(t) PROVE UNCHANGED <<session, issued>>
  BY <1>1 DEF Requests, Login, StorePassword, Deactivate, Refresh
<1>2. ASSUME NEW t \in Conns, FindSession(t) \/ CheckUser(t) \/ ServeGrace(t)
                              \/ ReloadUser(t) \/ SnapshotRevoke(t) \/ Abandon(t)
      PROVE  UNCHANGED <<session, issued>>
  BY <1>2 DEF FindSession, CheckUser, ServeGrace, ReloadUser, SnapshotRevoke, Abandon
<1>3. ASSUME NEW t \in Conns, NEW s \in Tokens, Rotate(t, s)
      PROVE  UNCHANGED <<session, issued>>
  BY <1>3 DEF Rotate
<1>4. ASSUME NEW u \in Users, Activate(u) \/ DeleteUser(u)
      PROVE  UNCHANGED <<session, issued>>
  BY <1>4 DEF Activate, DeleteUser
<1>5. CASE Tick \/ UNCHANGED vars
  BY <1>5 DEF Tick, vars
<1>6. QED
  BY <1>1, <1>2, <1>3, <1>4, <1>5 DEF Next, Proceed

\* A session that exists goes only when it has expired; revoked, it stays revoked for
\* the same reason with the same deadline or none.
KeepsRevocation(s) ==
    Exists(s) =>
        \/ session'[s] = Nil /\ session[s].expires <= now
        \/ /\ session'[s] # Nil
           /\ session[s].reason # Nil =>
                 /\ session'[s].reason = session[s].reason
                 /\ session'[s].grace \in {session[s].grace, Nil}

LEMMA RevocationStep ==
    ASSUME IInv, [Next]_vars, NEW s \in Tokens
    PROVE  KeepsRevocation(s)
<1> SUFFICES ASSUME Exists(s)
             PROVE  \/ session'[s] = Nil /\ session[s].expires <= now
                    \/ /\ session'[s] # Nil
                       /\ session[s].reason # Nil =>
                             /\ session'[s].reason = session[s].reason
                             /\ session'[s].grace \in {session[s].grace, Nil}
  BY DEF KeepsRevocation
<1>1. session[s] \in SessionRow
  BY DEF IInv, TypeOK, Exists
<1>2. CASE session'[s] = session[s]
  BY <1>2 DEF Exists
<1>3. CASE session'[s] = Revoked(session[s])
  BY <1>1, <1>3, RevokedRow
<1>4. ASSUME NEW t \in Conns, Cleanup(t), session'[s] # session[s]
      PROVE  session'[s] = Nil /\ session[s].expires <= now
  <2> DEFINE at == IF req[t].op = "login" THEN now ELSE req[t].at
  <2>1. at \in Times /\ at <= now /\ now \in Times
    BY DEF IInv, TypeOK, LocalsReady, Request, Times
  <2>2. session'[s] = Nil /\ session[s].expires <= at
    BY <1>4 DEF Cleanup, Expired
  <2> HIDE DEF at
  <2>3. QED
    BY <1>1, <2>1, <2>2 DEF SessionRow, Times, Expiries
<1>5. ASSUME NEW other \in Tokens, Logout(other)
      PROVE  session'[s] \in {session[s], Revoked(session[s])}
  BY <1>5 DEF Logout, IInv, TypeOK
<1>6. ASSUME NEW t \in Conns, ApplyRevoke(t)
      PROVE  session'[s] \in {session[s], Revoked(session[s])}
  BY <1>6 DEF ApplyRevoke
<1>7. ASSUME NEW t \in Conns, NEW other \in Tokens, CreateSession(t, other)
      PROVE  session'[s] = session[s]
  BY <1>7, CreateSessionRow
<1>8. ASSUME NEW t \in Conns, CommitRotate(t), session'[s] # session[s]
      PROVE  session'[s] # Nil /\ session[s].reason = Nil
  BY <1>8, CommitRotateRows DEF IInv, SessionsIssued, IsLive
<1>9. QED
  BY <1>2, <1>3, <1>4, <1>5, <1>6, <1>7, <1>8, SessionsChange DEF Exists

\* No statement revives a revoked session, rewrites its reason or moves its grace
\* deadline, and none deletes a session before it has expired.
THEOREM RevocationFinal == Spec => RevocationIsFinal
<1>1. IInv /\ [Next]_vars =>
          [\A s \in Tokens : Exists(s) =>
              \/ session'[s] = Nil /\ session[s].expires <= now
              \/ /\ session'[s] # Nil
                 /\ session[s].reason # Nil =>
                       /\ session'[s].reason = session[s].reason
                       /\ session'[s].grace \in {session[s].grace, Nil}]_vars
  BY RevocationStep DEF KeepsRevocation
<1>2. QED
  BY <1>1, Invariance, PTL DEF Spec, RevocationIsFinal

(***************************************************************************)
(* Sessions implement token families.                                      *)
(***************************************************************************)
LEMMA CurrentAtMostOne ==
    ASSUME IInv, NEW s \in Tokens, IsLive(s)
    PROVE  /\ session[s].family \in Tokens
           /\ CurrentTokens[session[s].family] = {s}
<1>1. session[s].family \in Tokens
  BY DEF IInv, TypeOK, IsLive, Exists, SessionRow
<1>2. QED
  BY <1>1 DEF IInv, OneLivePerFamily, CurrentTokens

LEMMA EndStep ==
    ASSUME IInv, SessionsEnd
    PROVE  [Family!Next]_(Family!vars)
<1> DEFINE ended == {f \in Tokens : CurrentTokens'[f] # CurrentTokens[f]}
<1>1. ASSUME NEW f \in Tokens, f \in ended
      PROVE  CurrentTokens'[f] = {}
  <2>1. CurrentTokens'[f] \subseteq CurrentTokens[f]
    BY SessionsEndLive DEF CurrentTokens
  <2>2. PICK s \in CurrentTokens[f] : s \notin CurrentTokens'[f]
    BY <1>1, <2>1
  <2>3. s \in Tokens /\ IsLive(s) /\ session[s].family = f
    BY <2>2 DEF CurrentTokens
  <2>4. CurrentTokens[f] = {s}
    BY <2>3, CurrentAtMostOne
  <2>5. QED
    BY <2>1, <2>2, <2>4
<1>2. CurrentTokens' = [f \in Tokens |-> IF f \in ended THEN {} ELSE CurrentTokens[f]]
  <2>1. CurrentTokens' = [f \in Tokens |-> CurrentTokens'[f]]
    BY DEF CurrentTokens
  <2>2. \A f \in Tokens : CurrentTokens'[f] = IF f \in ended THEN {} ELSE CurrentTokens[f]
    BY <1>1
  <2>3. QED
    BY <2>1, <2>2
<1>3. ended \in SUBSET Tokens
  OBVIOUS
<1> HIDE DEF ended
<1>4. Family!End(ended)
  BY <1>2 DEF Family!End, Family!Families, SessionsEnd
<1>5. QED
  BY <1>3, <1>4 DEF Family!Next, Family!Families

LEMMA OpenStep ==
    ASSUME IInv, NEW t \in Conns, NEW s \in Tokens, CreateSession(t, s)
    PROVE  Family!Next
<1>1. \A f \in Tokens : CurrentTokens'[f] = IF f = s THEN {s} ELSE CurrentTokens[f]
  BY CreateSessionRow DEF CurrentTokens, IsLive, Exists
<1>2. CurrentTokens' = [CurrentTokens EXCEPT ![s] = {s}]
  <2>1. /\ CurrentTokens' = [f \in Tokens |-> CurrentTokens'[f]]
        /\ CurrentTokens = [f \in Tokens |-> CurrentTokens[f]]
    BY DEF CurrentTokens
  <2>2. QED
    BY <1>1, <2>1
<1>3. Family!Open(s)
  BY <1>2, CreateSessionRow DEF Family!Open, CreateSession
<1>4. QED
  BY <1>3 DEF Family!Next, Family!Families

LEMMA HandOverStep ==
    ASSUME IInv, NEW t \in Conns, CommitRotate(t)
    PROVE  Family!Next
<1> DEFINE s == req[t].token
           next == req[t].next
           family == session[s].family
<1>1. /\ s \in Tokens /\ next \in Tokens \ issued /\ s # next
      /\ IsLive(s) /\ s \in issued
      /\ session'[s] # Nil /\ session'[s].reason = "rotated"
      /\ session'[next] # Nil /\ session'[next].reason = Nil
      /\ session'[next].family = family
      /\ \A other \in Tokens \ {s, next} : session'[other] = session[other]
      /\ issued' = issued \cup {next}
  BY CommitRotateRows
<1>2. family \in Tokens /\ CurrentTokens[family] = {s}
  BY <1>1, CurrentAtMostOne
<1>3. \A x \in Tokens : IsLive(x)' <=> (x = next \/ (IsLive(x) /\ x # s))
  <2>1. ~Exists(next) /\ "rotated" # Nil
    BY <1>1, ConstantsAssumption DEF IInv, SessionsIssued
  <2>2. QED
    BY <1>1, <2>1 DEF IsLive, Exists
<1>4. \A x \in Tokens \ {s, next} : session'[x].family = session[x].family
  BY <1>1
<1>5. ~IsLive(next) /\ session[s].family = family
  BY <1>1 DEF IInv, SessionsIssued, IsLive
<1> HIDE DEF s, next, family
<1>6. \A f \in Tokens : CurrentTokens'[f] = IF f = family THEN {next} ELSE CurrentTokens[f]
  <2> TAKE f \in Tokens
  <2>1. /\ CurrentTokens'[f] = {x \in Tokens : IsLive(x)' /\ session'[x].family = f}
        /\ CurrentTokens[f] = {x \in Tokens : IsLive(x) /\ session[x].family = f}
    BY DEF CurrentTokens
  <2>2. CASE f = family
    BY <1>1, <1>2, <1>3, <1>4, <2>1, <2>2
  <2>3. CASE f # family
    BY <1>1, <1>3, <1>4, <1>5, <2>1, <2>3
  <2>4. QED
    BY <2>2, <2>3
<1>7. CurrentTokens' = [CurrentTokens EXCEPT ![family] = {next}]
  <2>1. /\ CurrentTokens' = [f \in Tokens |-> CurrentTokens'[f]]
        /\ CurrentTokens = [f \in Tokens |-> CurrentTokens[f]]
    BY DEF CurrentTokens
  <2>2. QED
    BY <1>6, <2>1
<1>8. Family!Rotate(family, s, next)
  BY <1>1, <1>2, <1>7 DEF Family!Rotate
<1>9. QED
  BY <1>1, <1>2, <1>8 DEF Family!Next, Family!Families

\* The interleaved statements implement token families: each is opened once, has one
\* current token, and stays ended once it has ended.
THEOREM Refinement == Spec => ImplementsFamily
<1>1. Init => Family!Init
  BY DEF Init, Family!Init, Family!Families, CurrentTokens, IsLive, Exists
<1>2. IInv /\ [Next]_vars => [Family!Next]_(Family!vars)
  BY SessionsChange, NothingEnds, CleanupEnds, LogoutEnds, ApplyRevokeEnds, EndStep,
     OpenStep, HandOverStep
<1>3. QED
  BY <1>1, <1>2, Invariance, PTL DEF Spec, ImplementsFamily, Family!Spec

(***************************************************************************)
(* Grace windows lead on.                                                  *)
(***************************************************************************)

\* When the request that created the session sampled the time.
Born(s) == session[s].expires - RefreshTTL

\* Sessions were created in the past, and a token is presented after its creation.
PresentedLater ==
    /\ \A s \in Tokens : Exists(s) => Born(s) <= now
    /\ \A t \in Conns : req[t].token \in Tokens =>
          /\ req[t].token \in issued
          /\ Exists(req[t].token) => Born(req[t].token) <= req[t].at

\* A session is rotated after its creation, and at that time its replacement is created:
\* the replacement expires no earlier, so that a cleanup never takes it alone.
RotatedLater(s) ==
    LET next == session[s].replacement IN
    /\ next # s /\ Exists(next)
    /\ session[next].user = session[s].user
    /\ session[next].family = session[s].family
    /\ session[s].grace = Born(next) + GraceWindow
    /\ Born(s) <= Born(next)

\* Preserved by every step that preserves IInv.
GraceInv ==
    /\ PresentedLater
    /\ \A s \in Tokens : Exists(s) /\ session[s].grace # Nil => RotatedLater(s)

LEMMA RowTypes ==
    ASSUME IInv, NEW s \in Tokens, Exists(s)
    PROVE  /\ session[s] \in SessionRow
           /\ session[s].expires \in Int
           /\ session[s].grace # Nil =>
                 session[s].grace \in Int /\ session[s].replacement \in Tokens
<1>1. session[s] \in SessionRow
  BY DEF IInv, TypeOK, Exists
<1>2. QED
  BY <1>1, ConstantsAssumption DEF SessionRow, Expiries, Deadlines

LEMMA GraceSuffices ==
    ASSUME IInv, GraceInv
    PROVE  GraceLeadsOn
<1> SUFFICES ASSUME NEW s \in Tokens, Exists(s), session[s].grace # Nil
             PROVE  LET next == session[s].replacement IN
                    /\ next # s /\ Exists(next)
                    /\ session[next].user = session[s].user
                    /\ session[next].family = session[s].family
                    /\ session[next].grace # Nil => session[next].grace >= session[s].grace
  BY DEF GraceLeadsOn
<1> DEFINE next == session[s].replacement
<1>1. RotatedLater(s) /\ next \in Tokens
  BY RowTypes DEF GraceInv
<1>2. next # s /\ Exists(next) /\ session[next].user = session[s].user
      /\ session[next].family = session[s].family
      /\ session[s].grace = Born(next) + GraceWindow
  BY <1>1 DEF RotatedLater
<1>3. ASSUME session[next].grace # Nil PROVE session[next].grace >= session[s].grace
  <2> DEFINE last == session[next].replacement
  <2>1. RotatedLater(next) /\ last \in Tokens
    BY <1>1, <1>2, <1>3, RowTypes DEF GraceInv
  <2>2. Exists(last) /\ session[next].grace = Born(last) + GraceWindow /\ Born(next) <= Born(last)
    BY <2>1 DEF RotatedLater
  <2>3. Born(next) \in Int /\ Born(last) \in Int /\ GraceWindow \in Int
    <3>1. session[next].expires \in Int
      BY <1>1, <1>2, RowTypes
    <3>2. session[last].expires \in Int
      BY <2>1, <2>2, RowTypes
    <3>3. QED
      BY <3>1, <3>2, ConstantsAssumption DEF Born
  <2>4. QED
    BY <1>2, <2>2, <2>3
<1>4. QED
  BY <1>2, <1>3

\* A request presents the token it presented before, at the same time or later, or it
\* begins to present one and changes no session.
LEMMA PresentedStep ==
    ASSUME IInv, [Next]_vars, NEW t \in Conns, req'[t].token \in Tokens
    PROVE  \/ req'[t].token = req[t].token /\ req'[t].at \in {req[t].at, now}
           \/ /\ req'[t].token \in issued /\ req'[t].at = now
              /\ UNCHANGED <<session, issued>>
<1>1. NoRequest.token = Nil /\ Nil \notin Tokens
  BY ConstantsAssumption DEF NoRequest
<1>2. req[t] \in Request /\ DOMAIN req = Conns
  BY DEF IInv, TypeOK
<1>3. CASE req'[t] = req[t]
  BY <1>3
<1>4. CASE req'[t] = NoRequest
  BY <1>1, <1>4
<1>5. ASSUME NEW c \in Conns, Finish(c)
      PROVE  req'[t] \in {req[t], NoRequest}
  BY <1>2, <1>5 DEF Finish
<1>6. ASSUME NEW c \in Conns, NEW u \in Users,
             Login(c, u) \/ StorePassword(c, u) \/ Deactivate(c, u)
      PROVE  req'[t] = req[t]
  <2>1. [NoRequest EXCEPT !.op = "login", !.user = u].token = Nil /\ RevokeSessionsOf(u).token = Nil
    BY DEF NoRequest, RevokeSessionsOf
  <2>2. QED
    BY <1>1, <1>2, <1>6, <2>1 DEF Login, StorePassword, Deactivate, Begin
<1>7. ASSUME NEW c \in Conns, NEW s \in Tokens, Refresh(c, s)
      PROVE  \/ req'[t] = req[t]
             \/ /\ req'[t].token \in issued /\ req'[t].at = now
                /\ UNCHANGED <<session, issued>>
  <2> DEFINE r == [NoRequest EXCEPT !.op = "refresh", !.token = s, !.at = now]
  <2>1. r.token = s /\ r.at = now
    BY DEF NoRequest
  <2>2. req' = [req EXCEPT ![c] = r] /\ s \in issued /\ UNCHANGED <<session, issued>>
    BY <1>7 DEF Refresh, Begin
  <2> HIDE DEF r
  <2>3. QED
    BY <1>2, <2>1, <2>2
<1>8. ASSUME NEW c \in Conns, Cleanup(c)
      PROVE  req'[t].token = req[t].token /\ req'[t].at \in {req[t].at, now}
  <2>1. req' = [req EXCEPT ![c].at = IF req[c].op = "login" THEN now ELSE req[c].at]
    BY <1>8 DEF Cleanup
  <2>2. QED
    BY <1>2, <2>1 DEF Request
<1>9. ASSUME NEW c \in Conns, FindSession(c)
      PROVE  \/ req'[t] \in {req[t], NoRequest}
             \/ req'[t].token = req[t].token /\ req'[t].at = req[t].at
  <2> DEFINE row == session[req[c].token]
  <2>1. GraceRequest(row).token = Nil /\ ReplayRequest(row).token = Nil
    BY DEF GraceRequest, ReplayRequest, NoRequest
  <2>2. \/ Finish(c)
        \/ req' = [req EXCEPT ![c] = [req[c] EXCEPT !.user = row.user]]
        \/ req' = [req EXCEPT ![c] = GraceRequest(row)]
        \/ req' = [req EXCEPT ![c] = ReplayRequest(row)]
    BY <1>9 DEF FindSession
  <2>3. CASE req' = [req EXCEPT ![c] = [req[c] EXCEPT !.user = row.user]]
    <3>1. req[c] \in Request
      BY DEF IInv, TypeOK
    <3>2. [req[c] EXCEPT !.user = row.user].token = req[c].token
          /\ [req[c] EXCEPT !.user = row.user].at = req[c].at
      BY <3>1 DEF Request
    <3>3. QED
      BY <1>2, <2>3, <3>2
  <2>4. CASE \/ req' = [req EXCEPT ![c] = GraceRequest(row)]
             \/ req' = [req EXCEPT ![c] = ReplayRequest(row)]
    BY <1>1, <1>2, <2>1, <2>4
  <2>5. QED
    BY <1>5, <2>2, <2>3, <2>4
<1>10. ASSUME NEW c \in Conns, NEW s \in Tokens, Rotate(c, s)
       PROVE  \/ req'[t] \in {req[t], NoRequest}
              \/ req'[t].token = req[t].token /\ req'[t].at = req[t].at
  <2>1. Finish(c) \/ req' = [req EXCEPT ![c].next = s]
    BY <1>10 DEF Rotate
  <2>2. QED
    BY <1>2, <1>5, <2>1 DEF Request
<1>11. ASSUME NEW c \in Conns, SnapshotRevoke(c)
       PROVE  req'[t].token = req[t].token /\ req'[t].at = req[t].at
  <2>1. req' = [req EXCEPT ![c].targets = {s \in Tokens : Revocable(s) /\ InScope(c, s)}]
    BY <1>11 DEF SnapshotRevoke
  <2>2. QED
    BY <1>2, <2>1 DEF Request
<1>12. ASSUME NEW c \in Conns, CheckUser(c) \/ ServeGrace(c) \/ ReloadUser(c) \/ Abandon(c)
              \/ CommitRotate(c) \/ ApplyRevoke(c) \/ \E s \in Tokens : CreateSession(c, s)
       PROVE  req'[t] \in {req[t], NoRequest}
  BY <1>5, <1>12 DEF CheckUser, ServeGrace, ReloadUser, Abandon, CommitRotate, ApplyRevoke,
                     CreateSession
<1>13. ASSUME \/ \E s \in Tokens : Logout(s)
              \/ \E u \in Users : Activate(u) \/ DeleteUser(u)
              \/ Tick \/ UNCHANGED vars
       PROVE  req'[t] = req[t]
  BY <1>13 DEF Logout, Activate, DeleteUser, Tick, vars
<1>14. QED
  BY <1>3, <1>4, <1>6, <1>7, <1>8, <1>9, <1>10, <1>11, <1>12, <1>13 DEF Next, Requests, Proceed

\* A session that exists keeps its user, its family and its time; one that is new has a
\* token nobody has been given.
RowsKept ==
    /\ \A s \in Tokens : Exists(s)' =>
          \/ /\ Exists(s)
             /\ session'[s].user = session[s].user
             /\ session'[s].family = session[s].family
             /\ session'[s].expires = session[s].expires
          \/ /\ s \notin issued
             /\ session'[s].expires - RefreshTTL <= now
             /\ session'[s].grace = Nil
    /\ issued \subseteq issued'

LEMMA PresentedKept ==
    ASSUME IInv, GraceInv, [Next]_vars, RowsKept
    PROVE  PresentedLater'
<1>1. now \in Int /\ now' \in Int /\ now <= now'
  <2>1. now \in Int /\ now <= now + 1 /\ now + 1 \in Int
    BY DEF IInv, TypeOK, Times
  <2>2. now' \in {now, now + 1}
    BY DEF Next, Requests, Proceed, Login, StorePassword, Deactivate, Refresh, Cleanup, FindSession,
           CheckUser, ServeGrace, CreateSession, Rotate, CommitRotate, ReloadUser, SnapshotRevoke,
           ApplyRevoke, Abandon, Logout, Activate, DeleteUser, Tick, vars
  <2>3. QED
    BY <2>1, <2>2
<1>2. \A s \in Tokens : Exists(s) => session[s].expires \in Int /\ Born(s) \in Int /\ Born(s) <= now
  BY RowTypes, ConstantsAssumption DEF GraceInv, PresentedLater, Born
<1>3. IInv'
  BY NextInvariant
<1>4. \A s \in Tokens : Exists(s)' => session'[s].expires \in Int
  BY <1>3, ConstantsAssumption DEF IInv, TypeOK, Exists, SessionRow, Expiries
<1>5. ASSUME NEW s \in Tokens, Exists(s)' PROVE Born(s)' <= now'
  BY <1>1, <1>2, <1>4, <1>5, ConstantsAssumption DEF RowsKept, Born
<1>6. ASSUME NEW t \in Conns, NEW s \in Tokens, s = req'[t].token
      PROVE  s \in issued' /\ (Exists(s)' => Born(s)' <= req'[t].at)
  <2>1. CASE s = req[t].token /\ req'[t].at \in {req[t].at, now}
    <3>1. s \in issued
      BY <1>6, <2>1 DEF GraceInv, PresentedLater
    <3>2. ASSUME Exists(s)' PROVE Born(s)' <= req'[t].at
      <4>1. Exists(s) /\ session'[s].expires = session[s].expires
        BY <1>6, <3>1, <3>2 DEF RowsKept
      <4>2. Born(s) <= req[t].at
        BY <1>6, <2>1, <4>1 DEF GraceInv, PresentedLater
      <4>3. Born(s)' = Born(s)
        BY <4>1 DEF Born
      <4>4. Born(s) <= now
        BY <1>2, <1>6, <4>1
      <4>5. QED
        BY <2>1, <4>2, <4>3, <4>4
    <3>3. QED
      BY <3>1, <3>2 DEF RowsKept
  <2>2. CASE s \in issued /\ req'[t].at = now /\ UNCHANGED <<session, issued>>
    BY <1>2, <1>6, <2>2 DEF Exists, Born
  <2>3. QED
    BY <1>6, <2>1, <2>2, PresentedStep
<1>7. QED
  BY <1>5, <1>6 DEF PresentedLater, Exists, Born

\* What the sessions become keeps grace windows leading on.
GraceKept ==
    \A s \in Tokens : Exists(s)' /\ session'[s].grace # Nil => RotatedLater(s)'

LEMMA RevokeKeepsGrace ==
    ASSUME IInv, GraceInv, UNCHANGED issued,
           \A s \in Tokens : \/ session'[s] = session[s]
                             \/ Exists(s) /\ session'[s] = Revoked(session[s])
    PROVE  RowsKept /\ GraceKept
<1>1. ASSUME NEW s \in Tokens
      PROVE  /\ Exists(s)' <=> Exists(s)
             /\ Exists(s) =>
                   /\ session'[s].user = session[s].user
                   /\ session'[s].family = session[s].family
                   /\ session'[s].expires = session[s].expires
                   /\ session'[s].grace # Nil => session'[s] = session[s]
  <2>1. CASE session'[s] = session[s]
    BY <2>1 DEF Exists
  <2>2. CASE Exists(s) /\ session'[s] = Revoked(session[s])
    <3>1. session[s] \in SessionRow
      BY <2>2, RowTypes
    <3>2. Revoked(session[s]).user = session[s].user
          /\ Revoked(session[s]).expires = session[s].expires
      BY <3>1 DEF Revoked, SessionRow
    <3>3. QED
      BY <2>2, <3>1, <3>2, RevokedRow DEF Exists
  <2>3. QED
    BY <2>1, <2>2
<1>2. RowsKept
  BY <1>1 DEF RowsKept
<1>3. ASSUME NEW s \in Tokens, Exists(s)', session'[s].grace # Nil PROVE RotatedLater(s)'
  <2> DEFINE next == session[s].replacement
  <2>1. session'[s] = session[s] /\ Exists(s)
    BY <1>1, <1>3
  <2>2. RotatedLater(s) /\ next \in Tokens
    BY <1>3, <2>1, RowTypes DEF GraceInv
  <2>3. QED
    BY <1>1, <2>1, <2>2 DEF RotatedLater, Born
<1>4. QED
  BY <1>2, <1>3 DEF GraceKept

LEMMA CleanupKeepsGrace ==
    ASSUME IInv, GraceInv, NEW t \in Conns, Cleanup(t)
    PROVE  RowsKept /\ GraceKept
<1> DEFINE at == IF req[t].op = "login" THEN now ELSE req[t].at
<1>1. at \in Int
  BY DEF IInv, TypeOK, Request, Times
<1>2. \/ session' = [s \in Tokens |-> IF Expired(s, at) THEN Nil ELSE session[s]]
      \/ UNCHANGED session
  BY DEF Cleanup
<1>3. UNCHANGED issued
  BY DEF Cleanup
<1> HIDE DEF at
<1>4. CASE UNCHANGED session
  BY <1>3, <1>4, RevokeKeepsGrace
<1>5. CASE session' = [s \in Tokens |-> IF Expired(s, at) THEN Nil ELSE session[s]]
  <2>1. ASSUME NEW s \in Tokens
        PROVE  Exists(s)' => Exists(s) /\ session'[s] = session[s] /\ ~Expired(s, at)
    BY <1>5 DEF Exists
  <2>2. RowsKept
    BY <1>3, <2>1 DEF RowsKept
  <2>3. ASSUME NEW s \in Tokens, Exists(s)', session'[s].grace # Nil PROVE RotatedLater(s)'
    <3> DEFINE next == session[s].replacement
    <3>1. session'[s] = session[s] /\ Exists(s) /\ ~Expired(s, at)
      BY <2>1, <2>3
    <3>2. RotatedLater(s) /\ next \in Tokens
      BY <2>3, <3>1, RowTypes DEF GraceInv
    <3>3. Exists(next) /\ Born(s) <= Born(next)
      BY <3>2 DEF RotatedLater
    <3>4. session[s].expires \in Int /\ session[next].expires \in Int
      BY <3>1, <3>2, <3>3, RowTypes
    <3>5. session[s].expires <= session[next].expires
      BY <3>3, <3>4, ConstantsAssumption DEF Born
    <3>6. ~Expired(next, at)
      BY <1>1, <3>1, <3>4, <3>5 DEF Expired
    <3>7. session'[next] = session[next]
      BY <1>5, <3>2, <3>6
    <3>8. QED
      BY <3>1, <3>2, <3>7 DEF RotatedLater, Born, Exists
  <2>4. QED
    BY <2>2, <2>3 DEF GraceKept
<1>6. QED
  BY <1>2, <1>4, <1>5

LEMMA CreateKeepsGrace ==
    ASSUME IInv, GraceInv, NEW t \in Conns, NEW s \in Tokens, CreateSession(t, s)
    PROVE  RowsKept /\ GraceKept
<1>1. /\ s \notin issued /\ issued' = issued \cup {s}
      /\ \A other \in Tokens \ {s} : session'[other] = session[other]
  BY CreateSessionRow DEF CreateSession
<1>2. session' = [session EXCEPT ![s] = NewSession(req[t].user, s, req[t].at)]
  BY DEF CreateSession, NewFamily
<1>3. req[t].at \in Int /\ req[t].at <= now /\ now \in Int
  BY DEF IInv, TypeOK, LocalsReady, Request, Times
<1>4. session'[s].expires = req[t].at + RefreshTTL /\ session'[s].grace = Nil
  BY <1>2 DEF IInv, TypeOK, NewSession
<1>5. RowsKept
  <2>1. session'[s].expires - RefreshTTL <= now
    BY <1>3, <1>4, ConstantsAssumption
  <2>2. QED
    BY <1>1, <1>4, <2>1 DEF RowsKept, Exists
<1>6. ~Exists(s)
  BY <1>1 DEF IInv, SessionsIssued
<1>7. ASSUME NEW r \in Tokens, Exists(r)', session'[r].grace # Nil PROVE RotatedLater(r)'
  <2> DEFINE next == session[r].replacement
  <2>1. r # s /\ session'[r] = session[r] /\ Exists(r)
    BY <1>1, <1>4, <1>7 DEF Exists
  <2>2. RotatedLater(r) /\ next \in Tokens
    BY <1>7, <2>1, RowTypes DEF GraceInv
  <2>3. next # s /\ session'[next] = session[next]
    BY <1>1, <1>6, <2>2 DEF RotatedLater
  <2>4. QED
    BY <2>1, <2>2, <2>3 DEF RotatedLater, Born, Exists
<1>8. QED
  BY <1>5, <1>7 DEF GraceKept

LEMMA RotateKeepsGrace ==
    ASSUME IInv, GraceInv, NEW t \in Conns, CommitRotate(t)
    PROVE  RowsKept /\ GraceKept
<1> SUFFICES ASSUME NEW s, NEW next, NEW at,
                    s = req[t].token, next = req[t].next, at = req[t].at
             PROVE  RowsKept /\ GraceKept
  OBVIOUS
<1>1. /\ s \in Tokens /\ next \in Tokens \ issued /\ s # next /\ IsLive(s)
      /\ \A other \in Tokens \ {s, next} : session'[other] = session[other]
      /\ issued' = issued \cup {next}
  BY CommitRotateRows
<1>2. session' = [session EXCEPT ![s] = RotatedTo(@, next, at),
                                 ![next] = NewSession(session[s].user, session[s].family, at)]
  BY DEF CommitRotate, Successor
<1>3. at \in Int /\ at <= now /\ now \in Int
  BY DEF IInv, TypeOK, LocalsReady, Request, Times
<1>4. session[s] \in SessionRow /\ Exists(s) /\ session[s].expires \in Int
  BY <1>1, RowTypes DEF IsLive
<1>5. Born(s) <= at
  BY <1>1, <1>4 DEF GraceInv, PresentedLater
<1>6. ~Exists(next)
  BY <1>1 DEF IInv, SessionsIssued
<1>7. session'[s] = RotatedTo(session[s], next, at)
  BY <1>1, <1>2 DEF IInv, TypeOK
<1>8. session'[next] = NewSession(session[s].user, session[s].family, at)
  BY <1>1, <1>2 DEF IInv, TypeOK
<1>9. /\ session'[s].user = session[s].user /\ session'[s].family = session[s].family
      /\ session'[s].expires = session[s].expires
      /\ session'[s].grace = at + GraceWindow /\ session'[s].replacement = next
  BY <1>4, <1>7 DEF RotatedTo, SessionRow
<1>10. /\ session'[next].user = session[s].user /\ session'[next].family = session[s].family
       /\ session'[next].expires = at + RefreshTTL /\ session'[next].grace = Nil
  BY <1>8 DEF NewSession
<1>11. RowsKept
  <2>1. session'[next].expires - RefreshTTL <= now
    BY <1>3, <1>10, ConstantsAssumption
  <2>2. QED
    BY <1>1, <1>4, <1>9, <1>10, <2>1 DEF RowsKept, Exists
<1>12. Exists(next)'
  <2>1. at \in Times /\ session[s].user \in Users /\ session[s].family \in Tokens
    BY <1>4 DEF IInv, TypeOK, Request, SessionRow
  <2>2. QED
    BY <1>8, <2>1, NewRow DEF Exists
<1>13. RotatedLater(s)'
  <2>1. Born(next)' = at
    BY <1>3, <1>10, ConstantsAssumption DEF Born
  <2>2. Born(s)' <= at
    BY <1>5, <1>9 DEF Born
  <2>3. QED
    BY <1>1, <1>9, <1>10, <1>12, <2>1, <2>2 DEF RotatedLater
<1>14. ASSUME NEW r \in Tokens, Exists(r)', session'[r].grace # Nil, r # s PROVE RotatedLater(r)'
  <2> SUFFICES ASSUME NEW succ, succ = session[r].replacement PROVE RotatedLater(r)'
    OBVIOUS
  <2>1. r # next /\ session'[r] = session[r] /\ Exists(r)
    BY <1>1, <1>10, <1>14 DEF Exists
  <2>2. RotatedLater(r) /\ succ \in Tokens
    BY <1>14, <2>1, RowTypes DEF GraceInv
  <2>3. succ # next /\ Exists(succ)
    BY <1>6, <2>2 DEF RotatedLater
  <2>4. /\ session'[succ].user = session[succ].user
        /\ session'[succ].family = session[succ].family
        /\ session'[succ].expires = session[succ].expires
        /\ Exists(succ)'
    <3>1. CASE succ = s
      <4>1. s \in Tokens /\ RotatedTo(session[s], next, at) # Nil
        <5>1. at \in Times
          BY DEF IInv, TypeOK, Request
        <5>2. QED
          BY <1>1, <1>4, <5>1, RotatedRow
      <4>2. QED
        BY <1>7, <1>9, <3>1, <4>1 DEF Exists
    <3>2. CASE succ # s
      BY <1>1, <2>2, <2>3, <3>2 DEF Exists
    <3>3. QED
      BY <3>1, <3>2
  <2>5. QED
    BY <2>1, <2>2, <2>4 DEF RotatedLater, Born
<1>15. QED
  BY <1>11, <1>13, <1>14 DEF GraceKept

LEMMA StepKeepsGrace ==
    ASSUME IInv, GraceInv, [Next]_vars
    PROVE  RowsKept /\ GraceKept
<1>1. ASSUME UNCHANGED <<session, issued>> PROVE RowsKept /\ GraceKept
  BY <1>1, RevokeKeepsGrace
<1>2. ASSUME NEW s \in Tokens, Logout(s) PROVE RowsKept /\ GraceKept
  <2>1. \A r \in Tokens : session'[r] = IF r = s THEN Revoked(session[s]) ELSE session[r]
    BY <1>2 DEF Logout, IInv, TypeOK
  <2>2. Exists(s) /\ UNCHANGED issued
    BY <1>2 DEF Logout, Revocable
  <2>3. QED
    BY <2>1, <2>2, RevokeKeepsGrace
<1>3. ASSUME NEW t \in Conns, ApplyRevoke(t) PROVE RowsKept /\ GraceKept
  <2>1. ASSUME NEW r \in Tokens
        PROVE  session'[r] = session[r] \/ (Exists(r) /\ session'[r] = Revoked(session[r]))
    BY <1>3 DEF ApplyRevoke, Revocable
  <2>2. UNCHANGED issued
    BY <1>3 DEF ApplyRevoke
  <2>3. QED
    BY <2>1, <2>2, RevokeKeepsGrace
<1>4. QED
  BY <1>1, <1>2, <1>3, SessionsChange, CleanupKeepsGrace, CreateKeepsGrace, RotateKeepsGrace

LEMMA GraceStep ==
    ASSUME IInv, GraceInv, [Next]_vars
    PROVE  GraceInv'
BY StepKeepsGrace, PresentedKept DEF GraceInv, GraceKept

LEMMA GraceInvariance == Spec => []GraceInv
<1>1. Init => GraceInv
  <2> SUFFICES ASSUME Init PROVE GraceInv
    OBVIOUS
  <2>1. \A s \in Tokens : ~Exists(s)
    BY DEF Init, Exists
  <2>2. \A t \in Conns : req[t].token \notin Tokens
    BY ConstantsAssumption DEF Init, NoRequest
  <2>3. QED
    BY <2>1, <2>2 DEF GraceInv, PresentedLater
<1>2. IInv /\ GraceInv /\ [Next]_vars => GraceInv'
  BY GraceStep
<1>3. QED
  BY <1>1, <1>2, Invariance, PTL DEF Spec

\* A client that retries with an old token in time is led to the current token of its
\* family: the replacement is there as long as the window that serves it, and its own
\* window does not close earlier.
THEOREM GraceLeads == Spec => []GraceLeadsOn
<1>1. IInv /\ GraceInv => GraceLeadsOn
  BY GraceSuffices
<1>2. QED
  BY <1>1, Invariance, GraceInvariance, PTL

(***************************************************************************)
(* What holds of grace answers, whose cookie does not get the expiry of    *)
(* the replacement.                                                        *)
(***************************************************************************)

\* The cookie that a grace answer sets expires no later than the session whose token it
\* holds, if that is still there: the code gives it the expiry of the presented session, which
\* is older than its replacement.
GraceAnswerInTime ==
    \A t \in Conns : pc[t] = "serveGrace" =>
        LET answer == req[t].answer IN
        Exists(answer.token) => answer.expires <= session[answer.token].expires

\* Preserved by every step that preserves IInv and GraceInv: the token is known, so that no
\* other session takes its name after its own has been deleted.
AnswersKnown ==
    \A t \in Conns : pc[t] = "serveGrace" =>
        LET answer == req[t].answer IN
        /\ answer.token \in issued
        /\ Exists(answer.token) => answer.expires <= session[answer.token].expires

LEMMA ServesGrace ==
    ASSUME IInv, [Next]_vars, NEW t \in Conns, pc'[t] = "serveGrace"
    PROVE  \/ pc[t] = "serveGrace" /\ req'[t] = req[t]
           \/ \E s \in Tokens :
                 /\ Exists(s) /\ session[s].grace # Nil
                 /\ req'[t] = GraceRequest(session[s])
                 /\ UNCHANGED <<session, issued>>
<1>1. DOMAIN pc = Conns /\ DOMAIN req = Conns
  BY DEF IInv, TypeOK
<1>2. ASSUME NEW c \in Conns, Finish(c)
      PROVE  pc[t] = "serveGrace" /\ req'[t] = req[t]
  BY <1>1, <1>2 DEF Finish
<1>3. ASSUME NEW c \in Conns, NEW statement, Goto(c, statement), statement # "serveGrace"
      PROVE  pc[t] = "serveGrace" /\ t # c
  BY <1>1, <1>3 DEF Goto
<1>4. ASSUME NEW c \in Conns, Requests(c)
      PROVE  pc[t] = "serveGrace" /\ req'[t] = req[t]
  BY <1>1, <1>4 DEF Requests, Login, StorePassword, Deactivate, Refresh, Begin
<1>5. ASSUME NEW c \in Conns, Cleanup(c)
      PROVE  pc[t] = "serveGrace" /\ req'[t] = req[t]
  <2>1. pc[t] = "serveGrace" /\ t # c
    BY <1>3, <1>5 DEF Cleanup
  <2>2. QED
    BY <1>1, <1>5, <2>1 DEF Cleanup
<1>6. ASSUME NEW c \in Conns, NEW s \in Tokens, Rotate(c, s)
      PROVE  pc[t] = "serveGrace" /\ req'[t] = req[t]
  <2>1. Finish(c) \/ (Goto(c, "commitRotate") /\ req' = [req EXCEPT ![c].next = s])
    BY <1>6 DEF Rotate
  <2>2. QED
    BY <1>1, <1>2, <1>3, <2>1
<1>7. ASSUME NEW c \in Conns, SnapshotRevoke(c)
      PROVE  pc[t] = "serveGrace" /\ req'[t] = req[t]
  <2>1. pc[t] = "serveGrace" /\ t # c
    BY <1>3, <1>7 DEF SnapshotRevoke
  <2>2. QED
    BY <1>1, <1>7, <2>1 DEF SnapshotRevoke
<1>8. ASSUME NEW c \in Conns, CheckUser(c) \/ ReloadUser(c)
      PROVE  pc[t] = "serveGrace" /\ req'[t] = req[t]
  BY <1>2, <1>3, <1>8 DEF CheckUser, ReloadUser
<1>9. ASSUME NEW c \in Conns, FindSession(c), ~(pc[t] = "serveGrace" /\ req'[t] = req[t])
      PROVE  \E s \in Tokens :
                 /\ Exists(s) /\ session[s].grace # Nil
                 /\ req'[t] = GraceRequest(session[s])
                 /\ UNCHANGED <<session, issued>>
  <2> SUFFICES ASSUME NEW s, s = req[c].token, NEW row, row = session[s]
               PROVE  /\ s \in Tokens /\ Exists(s) /\ session[s].grace # Nil
                      /\ req'[t] = GraceRequest(session[s])
                      /\ UNCHANGED <<session, issued>>
    OBVIOUS
  <2>1. s \in Tokens /\ UNCHANGED <<session, issued>>
    BY <1>9 DEF FindSession, IInv, LocalsReady
  <2>2. \/ Finish(c)
        \/ Goto(c, "checkUser") /\ req' = [req EXCEPT ![c] = [req[c] EXCEPT !.user = row.user]]
        \/ Goto(c, "revoke") /\ req' = [req EXCEPT ![c] = ReplayRequest(row)]
        \/ /\ Goto(c, "serveGrace") /\ req' = [req EXCEPT ![c] = GraceRequest(row)]
           /\ row # Nil /\ InGrace(row, req[c].at)
    BY <1>9 DEF FindSession
  <2>3. CASE \/ Goto(c, "checkUser")
                /\ req' = [req EXCEPT ![c] = [req[c] EXCEPT !.user = row.user]]
             \/ Goto(c, "revoke") /\ req' = [req EXCEPT ![c] = ReplayRequest(row)]
    BY <1>1, <1>3, <1>9, <2>3
  <2>4. CASE /\ Goto(c, "serveGrace") /\ req' = [req EXCEPT ![c] = GraceRequest(row)]
             /\ row # Nil /\ InGrace(row, req[c].at)
    <3>1. t = c
      BY <1>1, <1>9, <2>4 DEF Goto
    <3>2. QED
      BY <1>1, <2>1, <2>4, <3>1 DEF InGrace, Exists
  <2>5. QED
    BY <1>2, <1>9, <2>2, <2>3, <2>4
<1>10. ASSUME NEW c \in Conns, Proceed(c)
       PROVE  \/ pc[t] = "serveGrace" /\ req'[t] = req[t]
              \/ FindSession(c)
  BY <1>2, <1>5, <1>6, <1>7, <1>8, <1>10
     DEF Proceed, ServeGrace, CreateSession, CommitRotate, ApplyRevoke
<1>11. ASSUME \/ \E c \in Conns : Abandon(c)
              \/ \E s \in Tokens : Logout(s)
              \/ \E u \in Users : Activate(u) \/ DeleteUser(u)
              \/ Tick \/ UNCHANGED vars
       PROVE  pc[t] = "serveGrace" /\ req'[t] = req[t]
  BY <1>2, <1>11 DEF Abandon, Logout, Activate, DeleteUser, Tick, vars
<1>12. QED
  BY <1>4, <1>9, <1>10, <1>11 DEF Next

LEMMA AnswersStep ==
    ASSUME IInv, GraceInv, AnswersKnown, [Next]_vars
    PROVE  AnswersKnown'
<1> SUFFICES ASSUME NEW t \in Conns, pc'[t] = "serveGrace",
                    NEW answer, answer = req'[t].answer, NEW token, token = answer.token
             PROVE  /\ token \in issued'
                    /\ Exists(token)' => answer.expires <= session'[token].expires
  BY DEF AnswersKnown, Exists
<1>1. CASE pc[t] = "serveGrace" /\ req'[t] = req[t]
  <2>1. /\ token \in issued
        /\ Exists(token) => answer.expires <= session[token].expires
    BY <1>1 DEF AnswersKnown
  <2>2. token \in Tokens /\ RowsKept
    BY <2>1, StepKeepsGrace DEF IInv, TypeOK
  <2>3. QED
    BY <2>1, <2>2 DEF RowsKept
<1>2. ASSUME NEW s \in Tokens, Exists(s), session[s].grace # Nil,
             req'[t] = GraceRequest(session[s]), UNCHANGED <<session, issued>>
      PROVE  /\ token \in issued'
             /\ Exists(token)' => answer.expires <= session'[token].expires
  <2>1. answer = [token |-> session[s].replacement, expires |-> session[s].expires]
    BY <1>2 DEF GraceRequest, NoRequest
  <2>2. token = session[s].replacement /\ answer.expires = session[s].expires
    BY <2>1
  <2>3. RotatedLater(s) /\ token \in Tokens
    BY <1>2, <2>2, RowTypes DEF GraceInv
  <2>4. Exists(token) /\ Born(s) <= Born(token)
    BY <2>2, <2>3 DEF RotatedLater
  <2>5. session[s].expires \in Int /\ session[token].expires \in Int
    BY <1>2, <2>3, <2>4, RowTypes
  <2>6. session[s].expires <= session[token].expires
    BY <2>4, <2>5, ConstantsAssumption DEF Born
  <2>7. token \in issued
    BY <2>3, <2>4 DEF IInv, SessionsIssued
  <2>8. QED
    BY <1>2, <2>2, <2>6, <2>7
<1>3. QED
  BY <1>1, <1>2, ServesGrace

\* A client that is answered in a grace window never keeps a refresh cookie for longer than
\* the session it belongs to lasts.
THEOREM GraceAnswersInTime == Spec => []GraceAnswerInTime
<1>1. Init => AnswersKnown
  BY DEF Init, AnswersKnown
<1>2. IInv /\ GraceInv /\ AnswersKnown /\ [Next]_vars => AnswersKnown'
  BY AnswersStep
<1>3. AnswersKnown => GraceAnswerInTime
  BY DEF AnswersKnown, GraceAnswerInTime
<1>4. QED
  BY <1>1, <1>2, <1>3, Invariance, GraceInvariance, PTL DEF Spec

(***************************************************************************)
(* What holds of revocations, which miss a session that is created between *)
(* the snapshot of their UPDATE and its effect.                            *)
(***************************************************************************)

\* When a revocation has taken effect, a family it found is open only where a refresh rotated
\* it in between: none of the sessions that the snapshot found is still live, and the survivor
\* is none that a login created.
SurvivorsAreSuccessors ==
    [][\A t \in Conns : ApplyRevoke(t) =>
          \A s \in req[t].targets : Exists(s) =>
              \A r \in CurrentTokens'[session[s].family] :
                  /\ r \notin req[t].targets /\ r # session[s].family
                  /\ \A q \in req[t].targets :
                        ~(IsLive(q) /\ session[q].family = session[s].family)]_vars

\* The sessions of one family belong to one user.
FamilyOfOneUser ==
    \A r, s \in Tokens :
        Exists(r) /\ Exists(s) /\ session[r].family = session[s].family =>
            session[r].user = session[s].user

\* The snapshot of a revocation holds the first session of every family it found, if that is
\* live.
FamilyFound(t) ==
    /\ req[t].targets \subseteq issued
    /\ \A s \in req[t].targets, r \in Tokens :
          Exists(s) /\ IsLive(r) /\ session[s].family = r /\ session[r].family = r =>
              r \in req[t].targets

\* Preserved by every step that preserves IInv and GraceInv.
RevocationInv ==
    /\ FamilyOfOneUser
    /\ \A t \in Conns : pc[t] = "applyRevoke" => FamilyFound(t)

\* Where a session comes from: a login that founds its family, or the family of a session that
\* existed.
LEMMA Origin ==
    ASSUME IInv, GraceInv, [Next]_vars, NEW s \in Tokens, Exists(s)'
    PROVE  \/ s \notin issued /\ session'[s].family = s
           \/ \E o \in Tokens : /\ Exists(o) /\ session'[s].family = session[o].family
                                /\ session'[s].user = session[o].user
<1>1. CASE Exists(s)
  <2>1. session'[s].family = session[s].family /\ session'[s].user = session[s].user
    BY <1>1, StepKeepsGrace DEF RowsKept, IInv, SessionsIssued
  <2>2. QED
    BY <1>1, <2>1
<1>2. ASSUME NEW t \in Conns, NEW r \in Tokens, CreateSession(t, r), ~Exists(s)
      PROVE  s \notin issued /\ session'[s].family = s
  BY <1>2, CreateSessionRow DEF Exists
<1>3. ASSUME NEW t \in Conns, CommitRotate(t), ~Exists(s)
      PROVE  \E o \in Tokens : /\ Exists(o) /\ session'[s].family = session[o].family
                               /\ session'[s].user = session[o].user
  <2> SUFFICES ASSUME NEW o, o = req[t].token, NEW next, next = req[t].next
               PROVE  /\ o \in Tokens /\ Exists(o)
                      /\ session'[s].family = session[o].family
                      /\ session'[s].user = session[o].user
    OBVIOUS
  <2>1. /\ o \in Tokens /\ next \in Tokens /\ IsLive(o)
        /\ \A other \in Tokens \ {o, next} : session'[other] = session[other]
    BY <1>3, CommitRotateRows
  <2>2. s = next /\ s # o
    BY <1>3, <2>1 DEF Exists, IsLive
  <2>3. session' = [session EXCEPT ![o] = RotatedTo(@, next, req[t].at),
                                   ![next] = NewSession(session[o].user, session[o].family,
                                                        req[t].at)]
    BY <1>3 DEF CommitRotate, Successor
  <2>4. session'[s] = NewSession(session[o].user, session[o].family, req[t].at)
    BY <2>1, <2>2, <2>3 DEF IInv, TypeOK
  <2>5. QED
    BY <2>1, <2>4 DEF NewSession, IsLive
<1>4. ASSUME SessionsEnd PROVE Exists(s)
  BY <1>4, SessionsEndLive
<1>5. QED
  BY <1>1, <1>2, <1>3, <1>4, SessionsChange, NothingEnds, CleanupEnds, LogoutEnds, ApplyRevokeEnds

LEMMA FamilyStep ==
    ASSUME IInv, GraceInv, FamilyOfOneUser, [Next]_vars
    PROVE  FamilyOfOneUser'
<1> SUFFICES ASSUME NEW r \in Tokens, NEW s \in Tokens, Exists(r)', Exists(s)',
                    session'[r].family = session'[s].family
             PROVE  session'[r].user = session'[s].user
  BY DEF FamilyOfOneUser
<1>1. \A o \in Tokens : Exists(o) => session[o].family \in issued
  BY DEF IInv, SessionsIssued
<1>2. CASE r \notin issued /\ session'[r].family = r
  BY <1>1, <1>2, Origin
<1>3. CASE s \notin issued /\ session'[s].family = s
  BY <1>1, <1>3, Origin
<1>4. CASE /\ \E o \in Tokens : /\ Exists(o) /\ session'[r].family = session[o].family
                                /\ session'[r].user = session[o].user
           /\ \E o \in Tokens : /\ Exists(o) /\ session'[s].family = session[o].family
                                /\ session'[s].user = session[o].user
  BY <1>4 DEF FamilyOfOneUser
<1>5. QED
  BY <1>2, <1>3, <1>4, Origin

LEMMA AboutToRevoke ==
    ASSUME IInv, [Next]_vars, NEW t \in Conns, pc'[t] = "applyRevoke"
    PROVE  (pc[t] = "applyRevoke" /\ req'[t] = req[t]) \/ SnapshotRevoke(t)
<1>1. DOMAIN pc = Conns /\ DOMAIN req = Conns
  BY DEF IInv, TypeOK
<1>2. ASSUME NEW c \in Conns, Finish(c)
      PROVE  pc[t] = "applyRevoke" /\ req'[t] = req[t]
  BY <1>1, <1>2 DEF Finish
<1>3. ASSUME NEW c \in Conns, NEW r, NEW statement, Goto(c, statement),
             req' = [req EXCEPT ![c] = r], statement # "applyRevoke"
      PROVE  pc[t] = "applyRevoke" /\ req'[t] = req[t]
  BY <1>1, <1>3 DEF Goto
<1>4. ASSUME NEW c \in Conns, Requests(c)
      PROVE  pc[t] = "applyRevoke" /\ req'[t] = req[t]
  BY <1>1, <1>4 DEF Requests, Login, StorePassword, Deactivate, Refresh, Begin
<1>5. ASSUME NEW c \in Conns, Cleanup(c)
      PROVE  pc[t] = "applyRevoke" /\ req'[t] = req[t]
  <2> DEFINE r == [req[c] EXCEPT !.at = IF req[c].op = "login" THEN now ELSE req[c].at]
  <2>1. req' = [req EXCEPT ![c] = r]
    BY <1>5 DEF Cleanup
  <2>2. Goto(c, "create") \/ Goto(c, "find")
    BY <1>5 DEF Cleanup
  <2> HIDE DEF r
  <2>3. QED
    BY <1>3, <2>1, <2>2
<1>6. ASSUME NEW c \in Conns, NEW s \in Tokens, Rotate(c, s)
      PROVE  pc[t] = "applyRevoke" /\ req'[t] = req[t]
  <2> DEFINE r == [req[c] EXCEPT !.next = s]
  <2>1. Finish(c) \/ (Goto(c, "commitRotate") /\ req' = [req EXCEPT ![c] = r])
    BY <1>6 DEF Rotate
  <2> HIDE DEF r
  <2>2. QED
    BY <1>2, <1>3, <2>1
<1>7. ASSUME NEW c \in Conns, SnapshotRevoke(c)
      PROVE  (pc[t] = "applyRevoke" /\ req'[t] = req[t]) \/ SnapshotRevoke(t)
  BY <1>1, <1>7 DEF SnapshotRevoke, Goto
<1>8. ASSUME NEW c \in Conns, CheckUser(c) \/ ReloadUser(c)
      PROVE  pc[t] = "applyRevoke" /\ req'[t] = req[t]
  BY <1>1, <1>2, <1>8 DEF CheckUser, ReloadUser, Goto
<1>9. ASSUME NEW c \in Conns, FindSession(c)
      PROVE  pc[t] = "applyRevoke" /\ req'[t] = req[t]
  <2>1. \/ Finish(c)
        \/ \E r, statement : /\ Goto(c, statement) /\ req' = [req EXCEPT ![c] = r]
                             /\ statement # "applyRevoke"
    BY <1>9 DEF FindSession
  <2>2. QED
    BY <1>2, <1>3, <2>1
<1>10. ASSUME NEW c \in Conns, Proceed(c)
       PROVE  (pc[t] = "applyRevoke" /\ req'[t] = req[t]) \/ SnapshotRevoke(t)
  BY <1>2, <1>5, <1>6, <1>7, <1>8, <1>9, <1>10
     DEF Proceed, ServeGrace, CreateSession, CommitRotate, ApplyRevoke
<1>11. ASSUME \/ \E c \in Conns : Abandon(c)
              \/ \E s \in Tokens : Logout(s)
              \/ \E u \in Users : Activate(u) \/ DeleteUser(u)
              \/ Tick \/ UNCHANGED vars
       PROVE  pc[t] = "applyRevoke" /\ req'[t] = req[t]
  BY <1>2, <1>11 DEF Abandon, Logout, Activate, DeleteUser, Tick, vars
<1>12. QED
  BY <1>4, <1>10, <1>11 DEF Next

LEMMA RevocationInvStep ==
    ASSUME IInv, GraceInv, RevocationInv, [Next]_vars
    PROVE  RevocationInv'
<1>1. FamilyOfOneUser'
  BY FamilyStep DEF RevocationInv
<1>2. ASSUME NEW t \in Conns, SnapshotRevoke(t) PROVE FamilyFound(t)'
  <2>1. req'[t].targets = {s \in Tokens : Revocable(s) /\ InScope(t, s)}
    BY <1>2 DEF SnapshotRevoke, IInv, TypeOK, Request
  <2>2. UNCHANGED <<session, issued>>
    BY <1>2 DEF SnapshotRevoke
  <2>3. req'[t].targets \subseteq issued'
    BY <2>1, <2>2 DEF Revocable, IInv, SessionsIssued
  <2>4. ASSUME NEW s \in req'[t].targets, NEW r \in Tokens, Exists(s), IsLive(r),
               session[s].family = r, session[r].family = r
        PROVE  r \in req'[t].targets
    <3>1. session[r].user = session[s].user /\ session[r].family = session[s].family
      BY <2>1, <2>4 DEF RevocationInv, FamilyOfOneUser, IsLive
    <3>2. InScope(t, r) /\ Revocable(r)
      BY <2>1, <2>4, <3>1 DEF InScope, Revocable, IsLive
    <3>3. QED
      BY <2>1, <3>2
  <2>5. QED
    BY <2>2, <2>3, <2>4 DEF FamilyFound, Exists, IsLive
<1>3. ASSUME NEW t \in Conns, FamilyFound(t), req'[t] = req[t] PROVE FamilyFound(t)'
  <2>1. RowsKept
    BY StepKeepsGrace
  <2>2. req[t].targets \subseteq Tokens
    BY DEF IInv, TypeOK, Request
  <2>3. ASSUME NEW s \in req[t].targets, NEW r \in Tokens, Exists(s)', IsLive(r)',
               session'[s].family = r, session'[r].family = r
        PROVE  r \in req[t].targets
    <3>1. s \in issued /\ Exists(s) /\ session[s].family = r
      BY <1>3, <2>1, <2>2, <2>3 DEF FamilyFound, RowsKept
    <3>2. r \in issued
      BY <2>2, <3>1 DEF IInv, SessionsIssued
    <3>3. Exists(r) /\ session[r].family = r
      BY <2>1, <2>3, <3>2 DEF RowsKept, IsLive
    <3>4. session[r].reason = Nil
      BY <2>3, <3>3, RevocationStep DEF KeepsRevocation, IsLive, Exists
    <3>5. QED
      BY <1>3, <3>1, <3>3, <3>4 DEF FamilyFound, IsLive
  <2>4. QED
    BY <1>3, <2>1, <2>3 DEF FamilyFound, RowsKept
<1>4. QED
  BY <1>1, <1>2, <1>3, AboutToRevoke DEF RevocationInv

\* A revocation leaves a family open only where a refresh rotated it in the meantime.
THEOREM SurvivorsSucceed == Spec => SurvivorsAreSuccessors
<1> DEFINE Succeed ==
               \A t \in Conns : ApplyRevoke(t) =>
                   \A s \in req[t].targets : Exists(s) =>
                       \A r \in CurrentTokens'[session[s].family] :
                           /\ r \notin req[t].targets /\ r # session[s].family
                           /\ \A q \in req[t].targets :
                                 ~(IsLive(q) /\ session[q].family = session[s].family)
<1>1. ASSUME IInv, RevocationInv PROVE Succeed
  <2> SUFFICES ASSUME NEW t \in Conns, ApplyRevoke(t), NEW s \in req[t].targets, Exists(s),
                      NEW r \in CurrentTokens'[session[s].family]
               PROVE  /\ r \notin req[t].targets /\ r # session[s].family
                      /\ \A q \in req[t].targets :
                            ~(IsLive(q) /\ session[q].family = session[s].family)
    OBVIOUS
  <2>1. FamilyFound(t) /\ req[t].targets \subseteq Tokens /\ s \in Tokens
    BY <1>1 DEF RevocationInv, ApplyRevoke, IInv, TypeOK, Request
  <2>2. session[s].family \in Tokens
    BY <1>1, <2>1 DEF IInv, TypeOK, Exists, SessionRow
  <2>3. r \in Tokens /\ IsLive(r)' /\ session'[r].family = session[s].family
    BY <2>2 DEF CurrentTokens
  <2>4. IsLive(r) /\ session'[r] = session[r] /\ session[r].family = session[s].family
    BY <1>1, <2>3, ApplyRevokeEnds, SessionsEndLive
  <2>5. r \notin req[t].targets
    <3>1. SUFFICES ASSUME r \in req[t].targets PROVE FALSE
      OBVIOUS
    <3>2. session'[r] = Revoked(session[r]) /\ session[r] \in SessionRow
      BY <1>1, <2>3, <2>4, <3>1 DEF ApplyRevoke, Revocable, IsLive, Exists, IInv, TypeOK
    <3>3. QED
      BY <2>3, <3>2, RevokedRow DEF IsLive
  <2>6. r # session[s].family
    BY <2>1, <2>3, <2>4, <2>5 DEF FamilyFound
  <2>7. ASSUME NEW q \in req[t].targets, IsLive(q), session[q].family = session[s].family
        PROVE  FALSE
    BY <1>1, <2>1, <2>3, <2>4, <2>5, <2>7 DEF IInv, OneLivePerFamily
  <2>8. QED
    BY <2>5, <2>6, <2>7
<1> HIDE DEF Succeed
<1>2. Init => RevocationInv
  BY DEF Init, RevocationInv, FamilyOfOneUser, Exists
<1>3. IInv /\ GraceInv /\ RevocationInv /\ [Next]_vars => RevocationInv'
  BY RevocationInvStep
<1>4. ASSUME IInv, RevocationInv PROVE [Succeed]_vars
  BY <1>1, <1>4
<1>5. QED
  BY <1>2, <1>3, <1>4, Invariance, GraceInvariance, PTL
     DEF Spec, SurvivorsAreSuccessors, Succeed
=============================================================================
