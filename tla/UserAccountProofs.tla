-------------------------- MODULE UserAccountProofs --------------------------
(***************************************************************************)
(* Proofs that a user and its profile are deleted together and the user    *)
(* stays as it was deleted, that a change of a password overwrites no      *)
(* other, and that a new password ends the sessions of the old one, for    *)
(* every number of connections, users and sessions.                        *)
(***************************************************************************)
EXTENDS UserAccount, WellFoundedInduction, TLAPS

(***************************************************************************)
(* The inductive invariant.                                                *)
(***************************************************************************)

\* The statements of a request that has found its user.
FoundUser == {"lockProfile", "touchUser", "commitProfile", "deleteProfile", "commitDelete",
           "reload", "revoke", "applyRevoke", "createSession", "store"}

\* The statements of a request for a user, found or not.
ForUser == FoundUser \cup {"authenticate", "editProfile", "deleteUser", "setStatus", "compare"}

\* What a request carries fits the statement it is about to execute.
Carries(statement, r) ==
    /\ statement \in ForUser => r.id \in PublicIDs
    /\ statement \in {"insert", "commitInsert"} =>
          r.email \in Emails /\ r.content \in Profiles /\ r.hash \in Hashes
    /\ statement \in {"editProfile", "lockProfile", "touchUser", "commitProfile"} =>
          r.content \in Profiles
    /\ statement = "authenticate" /\ r.op = "profile" => r.content \in Profiles
    /\ statement = "commitInsert" => r.id \in PublicIDs
    /\ statement \in {"revoke", "applyRevoke", "createSession"} => r.hash \in Hashes
    /\ statement \in {"checkUser", "rotate"} => r.session \in Sessions

\* A user that was found exists from then on, and the row that is about to be committed
\* does not exist yet.
Stands(t) ==
    /\ pc[t] \in FoundUser => user[req[t].id] # Nil
    /\ pc[t] = "commitInsert" => user[req[t].id] = Nil

\* The unique index on public_id: two open transactions insert different rows.
InsertsDiffer ==
    \A t, o \in Conns :
        t # o /\ pc[t] = "commitInsert" /\ pc[o] = "commitInsert" => req[t].id # req[o].id

SessionsHaveUsers == \A s \in Sessions : session[s] # Nil => user[session[s].user] # Nil

\* Hashes are handed out in order: no user has a newer one than the last, and no request
\* revokes, or has revoked, under a newer one than the user has.
HashesInOrder ==
    /\ \A p \in PublicIDs : user[p] = Nil => ended[p] = 0
    /\ \A p \in PublicIDs :
          user[p] # Nil => ended[p] <= user[p].hash /\ user[p].hash <= lastHash
    /\ \A t \in Conns : pc[t] \in {"insert", "commitInsert"} => req[t].hash <= lastHash
    /\ \A t \in Conns :
          pc[t] \in {"revoke", "applyRevoke"} => req[t].hash <= user[req[t].id].hash

\* The revocations of the user p that have looked for its sessions.
Revoking(t, p) == pc[t] = "applyRevoke" /\ req[t].id = p

\* A session that a login is about to insert survives every revocation that has not found it.
LoginsKeepUp ==
    \A o \in Conns : pc[o] = "createSession" =>
        /\ req[o].hash >= ended[req[o].id]
        /\ \A t \in Conns : Revoking(t, req[o].id) => req[o].hash >= req[t].hash

\* A revocation has found every live session but for those that survive it.
RevocationsFind ==
    \A t \in Conns : pc[t] = "applyRevoke" =>
        /\ \A s \in req[t].targets : session[s] # Nil
        /\ \A s \in Sessions :
              Live(s) /\ session[s].user = req[t].id =>
                  s \in req[t].targets \/ session[s].since >= req[t].hash

\* The conjunction is preserved by every statement of every request.
IInv ==
    /\ TypeOK
    /\ \A t \in Conns : Carries(pc[t], req[t]) /\ Stands(t)
    /\ InsertsDiffer
    /\ SessionsHaveUsers
    /\ DeletedTogether
    /\ HashesInOrder
    /\ LoginsKeepUp
    /\ RevocationsFind
    /\ PasswordEndsSessions

(***************************************************************************)
(* Rows and requests.                                                      *)
(***************************************************************************)
LEMMA RowsAreNotNil ==
    ASSUME NilIsNoRow
    PROVE  /\ \A row \in UserRow : row # Nil
           /\ \A row \in ProfileRow : row # Nil
           /\ \A row \in SessionRow : row # Nil
BY DEF NilIsNoRow

LEMMA NoRequestIsRequest ==
    ASSUME ConstantsAssumption
    PROVE  NoRequest \in Request
BY DEF ConstantsAssumption, NoRequest, Request

LEMMA Start ==
    ASSUME ConstantsAssumption, Init
    PROVE  IInv
<1>1. TypeOK
  BY NoRequestIsRequest DEF Init, TypeOK, Statements, ConstantsAssumption
<1>2. \A t \in Conns : Carries(pc[t], req[t]) /\ Stands(t)
  BY DEF Init, Carries, Stands, ForUser, FoundUser, NoRequest
<1>3. InsertsDiffer /\ SessionsHaveUsers /\ DeletedTogether /\ PasswordEndsSessions
  BY DEF Init, InsertsDiffer, SessionsHaveUsers, DeletedTogether, PasswordEndsSessions, Live
<1>4. HashesInOrder /\ LoginsKeepUp /\ RevocationsFind
  BY DEF Init, HashesInOrder, LoginsKeepUp, RevocationsFind
<1>5. QED
  BY <1>1, <1>2, <1>3, <1>4 DEF IInv

\* One request moves on to a statement that fits what it carries.
Moves(t, statement, r) ==
    /\ pc' = [pc EXCEPT ![t] = statement]
    /\ req' = [req EXCEPT ![t] = r]
    /\ statement \in Statements
    /\ r \in Request
    /\ Carries(statement, r)

LEMMA MovesTyped ==
    ASSUME IInv, NEW t \in Conns, NEW statement, NEW r, Moves(t, statement, r)
    PROVE  /\ pc' \in [Conns -> Statements] /\ req' \in [Conns -> Request]
           /\ pc'[t] = statement /\ req'[t] = r
           /\ \A o \in Conns : o # t => pc'[o] = pc[o] /\ req'[o] = req[o]
           /\ \A o \in Conns : Carries(pc'[o], req'[o])
BY DEF IInv, TypeOK, Moves

\* A request that ends is idle.
LEMMA FinishMoves ==
    ASSUME ConstantsAssumption, NEW t \in Conns, Finish(t)
    PROVE  Moves(t, "idle", NoRequest)
BY NoRequestIsRequest
DEF Finish, Moves, Statements, Carries, ForUser, FoundUser, NoRequest, ConstantsAssumption

LEMMA GotoMoves ==
    ASSUME IInv, NEW t \in Conns, NEW statement \in Statements, Goto(t, statement),
           Carries(statement, req[t])
    PROVE  Moves(t, statement, req[t])
BY DEF Goto, Moves, IInv, TypeOK

\* A step that writes no row keeps the invariant if it has found what it claims.
LEMMA QuietStep ==
    ASSUME IInv, NEW t \in Conns, NEW statement, NEW r, Moves(t, statement, r),
           UNCHANGED <<user, profile, session, ended>>,
           lastHash' \in 0 .. MaxHashes, lastHash' >= lastHash,
           statement # "applyRevoke",
           statement \in FoundUser => user[r.id] # Nil,
           statement \in {"insert", "commitInsert"} => r.hash <= lastHash',
           statement = "revoke" => r.hash <= user[r.id].hash,
           statement = "createSession" => r.hash = user[r.id].hash,
           statement = "commitInsert" =>
              /\ user[r.id] = Nil
              /\ \A o \in Conns : pc[o] = "commitInsert" => req[o].id # r.id
    PROVE  IInv'
<1>1. TypeOK'
  BY MovesTyped DEF IInv, TypeOK
<1>2. \A o \in Conns : Carries(pc[o], req[o])' /\ Stands(o)'
  BY MovesTyped DEF IInv, Stands
<1>3. InsertsDiffer'
  BY MovesTyped DEF IInv, InsertsDiffer
<1>4. SessionsHaveUsers' /\ DeletedTogether' /\ PasswordEndsSessions'
  BY DEF IInv, SessionsHaveUsers, DeletedTogether, PasswordEndsSessions, Live
<1>5. HashesInOrder'
  <2>1. ASSUME NEW p \in PublicIDs
        PROVE  /\ user'[p] = Nil => ended'[p] = 0
               /\ user'[p] # Nil => ended'[p] <= user'[p].hash /\ user'[p].hash <= lastHash'
    <3>1. user[p] # Nil => user[p].hash \in Int
      BY DEF IInv, TypeOK, UserRow, Hashes
    <3>2. QED
      BY <3>1 DEF IInv, TypeOK, HashesInOrder
  <2>2. ASSUME NEW o \in Conns
        PROVE  pc'[o] \in {"insert", "commitInsert"} => req'[o].hash <= lastHash'
    <3>1. CASE o = t
      BY <3>1, MovesTyped
    <3>2. CASE o # t
      <4>1. pc[o] \in {"insert", "commitInsert"} => req[o].hash \in Int /\ req[o].hash <= lastHash
        BY DEF IInv, Carries, Hashes, HashesInOrder
      <4>2. QED
        BY <3>2, <4>1, MovesTyped DEF IInv, TypeOK
    <3>3. QED
      BY <3>1, <3>2
  <2>3. \A o \in Conns :
           pc'[o] \in {"revoke", "applyRevoke"} => req'[o].hash <= user'[req'[o].id].hash
    BY MovesTyped DEF IInv, HashesInOrder
  <2>4. QED
    BY <2>1, <2>2, <2>3 DEF HashesInOrder
<1>6. LoginsKeepUp'
  <2>1. SUFFICES ASSUME NEW o \in Conns, pc'[o] = "createSession"
                 PROVE  /\ req'[o].hash >= ended[req'[o].id]
                        /\ \A c \in Conns : Revoking(c, req[o].id)' => req'[o].hash >= req'[c].hash
    BY DEF LoginsKeepUp, Revoking
  <2>2. \A c \in Conns : pc'[c] = "applyRevoke" => pc[c] = "applyRevoke" /\ req'[c] = req[c]
    BY MovesTyped
  <2>3. CASE o = t
    <3>1. /\ statement = "createSession" /\ req'[o] = r /\ user[r.id] # Nil
          /\ r.hash = user[r.id].hash /\ r.id \in PublicIDs
      BY <2>1, <2>3, MovesTyped DEF Carries, ForUser, FoundUser, Moves
    <3>2. ended[r.id] <= r.hash
      BY <3>1 DEF IInv, HashesInOrder
    <3>3. \A c \in Conns : pc[c] = "applyRevoke" /\ req[c].id = r.id => req[c].hash <= r.hash
      BY <3>1 DEF IInv, HashesInOrder
    <3>4. QED
      BY <2>2, <3>1, <3>2, <3>3 DEF Revoking
  <2>4. CASE o # t
    BY <2>1, <2>2, <2>4, MovesTyped DEF Revoking, IInv, LoginsKeepUp
  <2>5. QED
    BY <2>3, <2>4
<1>7. RevocationsFind'
  <2>1. \A o \in Conns : pc'[o] = "applyRevoke" => pc[o] = "applyRevoke" /\ req'[o] = req[o]
    BY MovesTyped
  <2>2. QED
    BY <2>1 DEF IInv, RevocationsFind, Live
<1>8. QED
  BY <1>1, <1>2, <1>3, <1>4, <1>5, <1>6, <1>7 DEF IInv

\* One row of users, and the profile that belongs to it, is written.
Writes(p, row, content) ==
    /\ p \in PublicIDs /\ row \in UserRow /\ content \in ProfileRow
    /\ row.deleted = content.deleted
    /\ user' = [user EXCEPT ![p] = row]
    /\ profile' = [profile EXCEPT ![p] = content]
    /\ UNCHANGED <<session, ended>>
    /\ lastHash' \in 0 .. MaxHashes /\ lastHash' >= lastHash /\ row.hash <= lastHash'

\* The row is not the one that another request inserts, and keeps its hash or has a newer one.
LEMMA RowStep ==
    ASSUME ConstantsAssumption, NilIsNoRow, IInv,
           NEW t \in Conns, NEW statement, NEW r, Moves(t, statement, r),
           NEW p, NEW row, NEW content, Writes(p, row, content),
           statement \in {"idle", "reload", "revoke"},
           statement \in FoundUser => r.id = p,
           statement = "revoke" => r.hash <= row.hash,
           \A o \in Conns : o # t /\ pc[o] = "commitInsert" => req[o].id # p,
           user[p] = Nil \/ row.hash >= user[p].hash
    PROVE  IInv'
<1> USE DEF Writes
<1>1. /\ user'[p] = row /\ row # Nil
      /\ profile'[p] = content /\ content # Nil
      /\ \A q \in PublicIDs : q # p => user'[q] = user[q] /\ profile'[q] = profile[q]
  BY RowsAreNotNil DEF IInv, TypeOK
<1>2. TypeOK'
  <2>1. user' \in [PublicIDs -> UserRow \cup {Nil}]
    BY DEF IInv, TypeOK
  <2>2. profile' \in [PublicIDs -> ProfileRow \cup {Nil}]
    BY DEF IInv, TypeOK
  <2>3. \A q \in PublicIDs : user'[q] = Nil <=> profile'[q] = Nil
    BY <1>1 DEF IInv, TypeOK
  <2>4. session' \in [Sessions -> SessionRow \cup {Nil}] /\ ended' \in [PublicIDs -> 0..MaxHashes]
    BY DEF IInv, TypeOK
  <2>5. QED
    BY <2>1, <2>2, <2>3, <2>4, MovesTyped DEF TypeOK
<1>3. ASSUME NEW o \in Conns PROVE Carries(pc[o], req[o])' /\ Stands(o)'
  <2>1. Carries(pc[o], req[o])'
    BY MovesTyped
  <2>2. CASE o = t
    <3>1. pc'[o] = statement /\ req'[o] = r
      BY <2>2, MovesTyped
    <3>2. QED
      BY <1>1, <2>1, <3>1 DEF Stands
  <2>3. CASE o # t
    <3>1. pc'[o] = pc[o] /\ req'[o] = req[o]
      BY <2>3, MovesTyped
    <3>2. Stands(o) /\ Carries(pc[o], req[o])
      BY DEF IInv
    <3>3. pc[o] \in FoundUser => req[o].id \in PublicIDs
      BY <3>2 DEF Carries, ForUser
    <3>4. pc[o] = "commitInsert" => req[o].id \in PublicIDs /\ req[o].id # p
      BY <2>3, <3>2 DEF Carries
    <3>5. QED
      BY <1>1, <2>1, <3>1, <3>2, <3>3, <3>4 DEF Stands
  <2>4. QED
    BY <2>2, <2>3
<1>4. InsertsDiffer'
  BY MovesTyped DEF IInv, InsertsDiffer
<1>5. \A s \in Sessions : session[s] # Nil => session[s].user \in PublicIDs
  BY DEF IInv, TypeOK, SessionRow
<1>6. SessionsHaveUsers'
  BY <1>1, <1>5 DEF IInv, SessionsHaveUsers
<1>7. DeletedTogether'
  BY <1>1 DEF IInv, DeletedTogether
<1>8. HashesInOrder'
  <2>1. row.hash \in Int /\ ended[p] \in 0..MaxHashes
    BY DEF UserRow, Hashes, IInv, TypeOK
  <2>2. user[p] # Nil => /\ user[p].hash \in Int /\ ended[p] <= user[p].hash
                         /\ user[p].hash <= row.hash
    BY DEF UserRow, Hashes, IInv, TypeOK, HashesInOrder
  <2>3. ASSUME NEW q \in PublicIDs
        PROVE  /\ user'[q] = Nil => ended'[q] = 0
               /\ user'[q] # Nil => ended'[q] <= user'[q].hash /\ user'[q].hash <= lastHash'
    <3>1. CASE q = p
      <4>1. ended[p] <= row.hash
        <5>1. CASE user[p] = Nil
          BY <2>1, <5>1 DEF IInv, HashesInOrder, UserRow, Hashes
        <5>2. CASE user[p] # Nil
          BY <2>1, <2>2, <5>2
        <5>3. QED
          BY <5>1, <5>2
      <4>2. QED
        BY <1>1, <3>1, <4>1
    <3>2. CASE q # p
      <4>1. user[q] # Nil => user[q].hash \in Int
        BY DEF IInv, TypeOK, UserRow, Hashes
      <4>2. QED
        BY <1>1, <3>2, <4>1 DEF IInv, TypeOK, HashesInOrder
    <3>3. QED
      BY <3>1, <3>2
  <2>4. ASSUME NEW o \in Conns, pc'[o] \in {"insert", "commitInsert"}
        PROVE  req'[o].hash <= lastHash'
    <3>1. pc'[o] = pc[o] /\ req'[o] = req[o]
      BY <2>4, MovesTyped
    <3>2. req[o].hash \in Int /\ req[o].hash <= lastHash
      BY <2>4, <3>1 DEF IInv, Carries, Hashes, HashesInOrder
    <3>3. QED
      BY <3>1, <3>2 DEF IInv, TypeOK
  <2>5. ASSUME NEW o \in Conns, pc'[o] \in {"revoke", "applyRevoke"}
        PROVE  req'[o].hash <= user'[req'[o].id].hash
    <3>1. CASE o = t
      <4>1. statement = "revoke" /\ req'[o] = r /\ r.id = p
        BY <2>5, <3>1, MovesTyped DEF FoundUser
      <4>2. QED
        BY <1>1, <4>1
    <3>2. CASE o # t
      <4>1. pc[o] \in {"revoke", "applyRevoke"} /\ req'[o] = req[o]
        BY <2>5, <3>2, MovesTyped
      <4>2. /\ req[o].id \in PublicIDs /\ req[o].hash \in Int
            /\ user[req[o].id] # Nil /\ req[o].hash <= user[req[o].id].hash
        BY <4>1 DEF IInv, Carries, Stands, ForUser, FoundUser, Hashes, HashesInOrder
      <4>3. CASE req[o].id = p
        <5>1. req[o].hash <= row.hash
          BY <2>1, <2>2, <4>2, <4>3
        <5>2. QED
          BY <1>1, <4>1, <4>3, <5>1
      <4>4. CASE req[o].id # p
        BY <1>1, <4>1, <4>2, <4>4
      <4>5. QED
        BY <4>3, <4>4
    <3>3. QED
      BY <3>1, <3>2
  <2>6. QED
    BY <2>3, <2>4, <2>5 DEF HashesInOrder
<1>9. \A o \in Conns :
         pc'[o] \in {"createSession", "applyRevoke"} => pc'[o] = pc[o] /\ req'[o] = req[o]
  BY MovesTyped
<1>10. LoginsKeepUp' /\ RevocationsFind'
  BY <1>9 DEF IInv, LoginsKeepUp, RevocationsFind, Revoking, Live
<1>11. PasswordEndsSessions'
  BY DEF IInv, PasswordEndsSessions, Live
<1>12. QED
  BY <1>2, <1>3, <1>4, <1>6, <1>7, <1>8, <1>10, <1>11 DEF IInv

(***************************************************************************)
(* The statements.                                                         *)
(***************************************************************************)

LEMMA Unhashed ==
    ASSUME IInv, UNCHANGED lastHash
    PROVE  lastHash' \in 0 .. MaxHashes /\ lastHash' >= lastHash
BY DEF IInv, TypeOK

\* A request begins with a statement that has found nothing yet.
LEMMA BeginStep ==
    ASSUME IInv, NEW t \in Conns, NEW r \in Request, NEW statement \in Statements,
           Begin(t, r, statement), Carries(statement, r),
           statement \notin FoundUser, statement \notin {"insert", "commitInsert"}
    PROVE  IInv'
<1>1. Moves(t, statement, r)
  BY DEF Begin, Moves
<1>2. UNCHANGED <<user, profile, session, lastHash, ended>>
  BY DEF Begin, tables
<1>3. QED
  BY <1>1, <1>2, Unhashed, QuietStep DEF FoundUser

\* A request that ends without a write leaves the invariant alone.
LEMMA EndStep ==
    ASSUME ConstantsAssumption, IInv, NEW t \in Conns, Finish(t), UNCHANGED tables
    PROVE  IInv'
<1>1. Moves(t, "idle", NoRequest)
  BY FinishMoves
<1>2. UNCHANGED <<user, profile, session, lastHash, ended>>
  BY DEF tables
<1>3. "idle" \notin FoundUser
  BY DEF FoundUser
<1>4. QED
  BY <1>1, <1>2, <1>3, Unhashed, QuietStep

\* So does one that goes on, short of a statement that needs more than a user.
LEMMA GotoStep ==
    ASSUME IInv, NEW t \in Conns, NEW statement \in Statements, Goto(t, statement),
           UNCHANGED tables, Carries(statement, req[t]),
           statement \notin {"insert", "commitInsert", "revoke", "applyRevoke", "createSession"},
           statement \in FoundUser => user[req[t].id] # Nil
    PROVE  IInv'
<1>1. Moves(t, statement, req[t])
  BY GotoMoves
<1>2. UNCHANGED <<user, profile, session, lastHash, ended>>
  BY DEF tables
<1>3. QED
  BY <1>1, <1>2, Unhashed, QuietStep

LEMMA ContinueStep ==
    ASSUME ConstantsAssumption, IInv, NEW t \in Conns, NEW condition, NEW statement \in Statements,
           ContinueIf(t, condition, statement), Carries(statement, req[t]),
           statement \notin {"insert", "commitInsert", "revoke", "applyRevoke", "createSession"},
           condition /\ statement \in FoundUser => user[req[t].id] # Nil
    PROVE  IInv'
<1>1. UNCHANGED tables
  BY DEF ContinueIf
<1>2. CASE condition
  <2>1. Goto(t, statement)
    BY <1>2 DEF ContinueIf
  <2>2. QED
    BY <1>1, <1>2, <2>1, GotoStep
<1>3. CASE ~condition
  <2>1. Finish(t)
    BY <1>3 DEF ContinueIf
  <2>2. QED
    BY <1>1, <2>1, EndStep
<1>4. QED
  BY <1>2, <1>3

LEMMA IssuedHashes ==
    ASSUME ConstantsAssumption, IInv
    PROVE  1..lastHash \subseteq Hashes
BY DEF ConstantsAssumption, IInv, TypeOK, Hashes

\* Every request but a registration begins with a Begin.
LEMMA RequestsStep ==
    ASSUME ConstantsAssumption, IInv, NEW t \in Conns, Requests(t)
    PROVE  IInv'
<1> USE DEF Carries, ForUser, FoundUser, Statements, NoRequest
<1>1. NoRequest \in Request
  BY NoRequestIsRequest
<1>2. CASE \E e \in Emails, c \in Profiles : Register(t, e, c)
  <2>1. PICK e \in Emails, c \in Profiles : Register(t, e, c)
    BY <1>2
  <2> DEFINE r == [NoRequest EXCEPT !.op = "create", !.email = e, !.content = c,
                                    !.hash = lastHash + 1]
  <2>2. lastHash + 1 \in Hashes
    BY <2>1 DEF Register, Hashes, IInv, TypeOK, ConstantsAssumption
  <2>3. r \in Request
    BY <1>1, <2>2 DEF Request
  <2>4. Moves(t, "insert", r)
    BY <2>1, <2>2, <2>3 DEF Register, Moves
  <2>5. UNCHANGED <<user, profile, session, ended>>
    BY <2>1 DEF Register
  <2>6. lastHash' \in 0 .. MaxHashes /\ lastHash' >= lastHash /\ r.hash <= lastHash'
    BY <2>1, <2>2 DEF Register, Hashes, IInv, TypeOK
  <2> HIDE DEF r
  <2>7. QED
    BY <2>4, <2>5, <2>6, QuietStep
<1>3. CASE \E e \in Emails, h \in 1..lastHash : Login(t, e, h)
  <2>1. PICK e \in Emails, h \in 1..lastHash : Login(t, e, h)
    BY <1>3
  <2>2. PICK p \in PublicIDs :
           /\ Verified(p, e, h)
           /\ Begin(t, [NoRequest EXCEPT !.op = "login", !.id = p, !.hash = h], "createSession")
    BY <2>1 DEF Login
  <2> DEFINE r == [NoRequest EXCEPT !.op = "login", !.id = p, !.hash = h]
  <2>3. h \in Hashes
    BY IssuedHashes
  <2>4. r \in Request /\ r.id = p /\ r.hash = h
    BY <1>1, <2>3 DEF Request
  <2>5. Moves(t, "createSession", r) /\ UNCHANGED <<user, profile, session, lastHash, ended>>
    BY <2>2, <2>3, <2>4 DEF Begin, Moves, tables
  <2>6. user[r.id] # Nil /\ r.hash = user[r.id].hash
    BY <2>2, <2>4 DEF Verified, Found
  <2> HIDE DEF r
  <2>7. QED
    BY <2>5, <2>6, Unhashed, QuietStep
<1>4. ASSUME NEW p \in PublicIDs, NEW c \in Profiles, UpdateProfile(t, p, c)
      PROVE  IInv'
  <2> DEFINE r == [NoRequest EXCEPT !.op = "profile", !.id = p, !.content = c]
  <2>1. r \in Request /\ r.id \in PublicIDs /\ r.content \in Profiles
    BY <1>1 DEF Request
  <2>2. PICK first \in {"authenticate", "editProfile"} : Begin(t, r, first)
    BY <1>4 DEF UpdateProfile
  <2> HIDE DEF r
  <2>3. QED
    BY <2>1, <2>2, BeginStep
<1>5. ASSUME NEW p \in PublicIDs, NEW active \in BOOLEAN, UpdateStatus(t, p, active)
      PROVE  IInv'
  <2> DEFINE r == [NoRequest EXCEPT !.op = "status", !.id = p, !.active = active]
  <2>1. r \in Request /\ r.id \in PublicIDs
    BY <1>1 DEF Request
  <2>2. Begin(t, r, "setStatus")
    BY <1>5 DEF UpdateStatus
  <2> HIDE DEF r
  <2>3. QED
    BY <2>1, <2>2, BeginStep
<1>6. ASSUME NEW p \in PublicIDs, NEW h \in 1..lastHash, ChangePassword(t, p, h)
      PROVE  IInv'
  <2> DEFINE r == [NoRequest EXCEPT !.op = "change", !.id = p, !.hash = h]
  <2>1. r \in Request /\ r.id \in PublicIDs /\ r.op = "change"
    BY <1>1, IssuedHashes DEF Request
  <2>2. PICK first \in {"authenticate", "compare"} : Begin(t, r, first)
    BY <1>6 DEF ChangePassword
  <2> HIDE DEF r
  <2>3. QED
    BY <2>1, <2>2, BeginStep
<1>7. ASSUME NEW p \in PublicIDs, ResetPassword(t, p)
      PROVE  IInv'
  <2> DEFINE r == [NoRequest EXCEPT !.op = "reset", !.id = p]
  <2>1. r \in Request /\ r.id \in PublicIDs
    BY <1>1 DEF Request
  <2>2. Begin(t, r, "compare")
    BY <1>7 DEF ResetPassword
  <2> HIDE DEF r
  <2>3. QED
    BY <2>1, <2>2, BeginStep
<1>8. ASSUME NEW p \in PublicIDs, Delete(t, p)
      PROVE  IInv'
  <2> DEFINE r == [NoRequest EXCEPT !.op = "delete", !.id = p]
  <2>1. r \in Request /\ r.id \in PublicIDs
    BY <1>1 DEF Request
  <2>2. Begin(t, r, "deleteUser")
    BY <1>8 DEF Delete
  <2> HIDE DEF r
  <2>3. QED
    BY <2>1, <2>2, BeginStep
<1>9. ASSUME NEW s \in Sessions, Refresh(t, s)
      PROVE  IInv'
  <2> DEFINE r == [NoRequest EXCEPT !.op = "refresh", !.id = session[s].user, !.session = s]
  <2>1. session[s].user \in PublicIDs
    BY <1>9 DEF Refresh, Live, IInv, TypeOK, SessionRow
  <2>2. r \in Request /\ r.session \in Sessions
    BY <1>1, <2>1 DEF Request
  <2>3. Begin(t, r, "checkUser")
    BY <1>9 DEF Refresh
  <2> HIDE DEF r
  <2>4. QED
    BY <2>2, <2>3, BeginStep
<1>10. QED
  BY <1>2, <1>3, <1>4, <1>5, <1>6, <1>7, <1>8, <1>9 DEF Requests

\* An insert waits for another of the same key.
LEMMA InsertUserStep ==
    ASSUME ConstantsAssumption, IInv, NEW t \in Conns, NEW p \in PublicIDs, InsertUser(t, p)
    PROVE  IInv'
<1>1. pc[t] = "insert" /\ UNCHANGED tables
  BY DEF InsertUser
<1>2. req[t] \in Request /\ Carries("insert", req[t])
  BY <1>1 DEF IInv, TypeOK
<1>3. CASE Finish(t)
  BY <1>1, <1>3, EndStep
<1>4. CASE RetryInsert(t)
  <2>1. CASE req[t].attempts + 1 < PublicIDAttempts
    <3> DEFINE r == [req[t] EXCEPT !.attempts = @ + 1]
    <3>1. req' = [req EXCEPT ![t] = r] /\ pc' = [pc EXCEPT ![t] = "insert"]
      BY <1>1, <1>4, <2>1 DEF RetryInsert, IInv, TypeOK
    <3>2. r \in Request
      BY <1>2, <2>1 DEF Request, ConstantsAssumption
    <3>3. Carries("insert", r)
      BY <1>2 DEF Carries, ForUser, FoundUser, Request
    <3>4. Moves(t, "insert", r)
      BY <3>1, <3>2, <3>3 DEF Moves, Statements
    <3>5. UNCHANGED <<user, profile, session, lastHash, ended>>
      BY <1>1 DEF tables
    <3>6. r.hash <= lastHash
      BY <1>1, <1>2 DEF IInv, HashesInOrder, Request
    <3>7. "insert" \notin FoundUser
      BY DEF FoundUser
    <3> HIDE DEF r
    <3>8. QED
      BY <3>4, <3>5, <3>6, <3>7, Unhashed, QuietStep
  <2>2. CASE ~(req[t].attempts + 1 < PublicIDAttempts)
    BY <1>1, <1>4, <2>2, EndStep DEF RetryInsert
  <2>3. QED
    BY <2>1, <2>2
<1>5. CASE /\ ~EmailTaken(req[t].email) /\ user[p] = Nil
           /\ req' = [req EXCEPT ![t].id = p]
           /\ pc' = [pc EXCEPT ![t] = "commitInsert"]
  <2> DEFINE r == [req[t] EXCEPT !.id = p]
  <2>1. req' = [req EXCEPT ![t] = r]
    BY <1>5
  <2>2. r \in Request /\ r.id = p
    BY <1>2 DEF Request
  <2>3. Carries("commitInsert", r)
    BY <1>2, <2>2 DEF Carries, ForUser, FoundUser, Request
  <2>4. Moves(t, "commitInsert", r)
    BY <1>5, <2>1, <2>2, <2>3 DEF Moves, Statements
  <2>5. UNCHANGED <<user, profile, session, lastHash, ended>>
    BY <1>1 DEF tables
  <2>6. r.hash <= lastHash
    BY <1>1, <1>2 DEF IInv, HashesInOrder, Request
  <2>7. \A o \in Conns : pc[o] = "commitInsert" => req[o].id # p
    BY DEF InsertUser
  <2>8. "commitInsert" \notin FoundUser
    BY DEF FoundUser
  <2> HIDE DEF r
  <2>9. QED
    BY <1>5, <2>2, <2>4, <2>5, <2>6, <2>7, <2>8, Unhashed, QuietStep
<1>6. QED
  BY <1>3, <1>4, <1>5 DEF InsertUser

\* The row and its profile appear together.
LEMMA CommitInsertStep ==
    ASSUME ConstantsAssumption, NilIsNoRow, IInv, NEW t \in Conns, CommitInsert(t)
    PROVE  IInv'
<1> DEFINE p == req[t].id
           row == [email |-> req[t].email, hash |-> req[t].hash, active |-> TRUE, deleted |-> FALSE]
           content == [content |-> req[t].content, deleted |-> FALSE]
<1>1. pc[t] = "commitInsert" /\ Finish(t)
  BY DEF CommitInsert
<1>2. /\ p \in PublicIDs /\ row \in UserRow /\ content \in ProfileRow /\ user[p] = Nil
      /\ row.hash <= lastHash
  BY <1>1 DEF IInv, Carries, Stands, UserRow, ProfileRow, HashesInOrder
<1>3. /\ user' = [user EXCEPT ![p] = row] /\ profile' = [profile EXCEPT ![p] = content]
      /\ row.deleted = content.deleted
      /\ UNCHANGED <<session, lastHash, ended>>
  BY DEF CommitInsert
<1>4. lastHash' \in 0 .. MaxHashes /\ lastHash' >= lastHash
  BY <1>3, Unhashed
<1>5. Moves(t, "idle", NoRequest)
  BY <1>1, FinishMoves
<1>6. \A o \in Conns : o # t /\ pc[o] = "commitInsert" => req[o].id # p
  BY <1>1 DEF IInv, InsertsDiffer
<1>7. "idle" \notin FoundUser
  BY DEF FoundUser
<1>8. Writes(p, row, content)
  BY <1>2, <1>3, <1>4 DEF Writes
<1> HIDE DEF p, row, content
<1>9. QED
  BY <1>2, <1>5, <1>6, <1>7, <1>8, RowStep

\* A user that is found is a row, and nobody is about to insert it.
LEMMA FoundIsRow ==
    ASSUME NilIsNoRow, IInv, NEW p \in PublicIDs, user[p] # Nil
    PROVE  /\ user[p] \in UserRow /\ profile[p] \in ProfileRow
           /\ user[p].deleted = profile[p].deleted
           /\ user[p].hash \in Hashes /\ user[p].hash <= lastHash
           /\ \A o \in Conns : pc[o] = "commitInsert" => req[o].id # p
<1>1. user[p] \in UserRow /\ profile[p] \in ProfileRow
  BY DEF IInv, TypeOK
<1>2. user[p].deleted = profile[p].deleted
  BY DEF IInv, DeletedTogether
<1>3. \A o \in Conns : pc[o] = "commitInsert" => req[o].id # p
  BY DEF IInv, Stands
<1>4. user[p].hash \in Hashes /\ user[p].hash <= lastHash
  BY <1>1 DEF UserRow, IInv, HashesInOrder
<1>5. QED
  BY <1>1, <1>2, <1>3, <1>4

\* The edit keeps the column that says whether the profile is deleted.
LEMMA CommitProfileStep ==
    ASSUME ConstantsAssumption, NilIsNoRow, IInv, NEW t \in Conns, CommitProfile(t)
    PROVE  IInv'
<1> DEFINE p == req[t].id
           content == Edited(profile[p], req[t].content)
<1>1. pc[t] = "commitProfile" /\ Finish(t)
  BY DEF CommitProfile
<1>2. p \in PublicIDs /\ user[p] # Nil /\ req[t].content \in Profiles
  BY <1>1 DEF IInv, Carries, Stands, ForUser, FoundUser
<1>3. /\ user[p] \in UserRow /\ profile[p] \in ProfileRow
      /\ user[p].deleted = profile[p].deleted
      /\ user[p].hash >= user[p].hash /\ user[p].hash <= lastHash
      /\ \A o \in Conns : pc[o] = "commitInsert" => req[o].id # p
  BY <1>2, FoundIsRow DEF Hashes
<1>4. content \in ProfileRow /\ content.deleted = profile[p].deleted
  BY <1>2, <1>3 DEF Edited, ProfileRow
<1>5. /\ user' = [user EXCEPT ![p] = user[p]] /\ profile' = [profile EXCEPT ![p] = content]
      /\ UNCHANGED <<session, lastHash, ended>>
  BY DEF CommitProfile, IInv, TypeOK
<1>6. lastHash' \in 0 .. MaxHashes /\ lastHash' >= lastHash
  BY <1>5, Unhashed
<1>7. Moves(t, "idle", NoRequest)
  BY <1>1, FinishMoves
<1>8. "idle" \notin FoundUser
  BY DEF FoundUser
<1>9. Writes(p, user[p], content)
  BY <1>2, <1>3, <1>4, <1>5, <1>6 DEF Writes
<1> HIDE DEF p, content
<1>10. QED
  BY <1>3, <1>7, <1>8, <1>9, RowStep

\* Both rows are marked in one transaction.
LEMMA CommitDeleteStep ==
    ASSUME ConstantsAssumption, NilIsNoRow, IInv, NEW t \in Conns, CommitDelete(t)
    PROVE  IInv'
<1> DEFINE p == req[t].id
           row == [user[p] EXCEPT !.deleted = TRUE]
           content == [profile[p] EXCEPT !.deleted = TRUE]
<1>1. pc[t] = "commitDelete" /\ Finish(t)
  BY DEF CommitDelete
<1>2. p \in PublicIDs /\ user[p] # Nil
  BY <1>1 DEF IInv, Carries, Stands, ForUser, FoundUser
<1>3. /\ user[p] \in UserRow /\ profile[p] \in ProfileRow
      /\ user[p].hash \in Hashes /\ user[p].hash <= lastHash
      /\ \A o \in Conns : pc[o] = "commitInsert" => req[o].id # p
  BY <1>2, FoundIsRow
<1>4. /\ row \in UserRow /\ content \in ProfileRow /\ row.deleted = content.deleted
      /\ row.hash >= user[p].hash /\ row.hash <= lastHash
  <2>1. /\ row \in UserRow /\ content \in ProfileRow /\ row.deleted = content.deleted
        /\ row.hash = user[p].hash
    BY <1>3 DEF UserRow, ProfileRow
  <2>2. user[p].hash >= user[p].hash
    BY <1>3 DEF Hashes
  <2>3. QED
    BY <1>3, <2>1, <2>2
<1>5. /\ user' = [user EXCEPT ![p] = row] /\ profile' = [profile EXCEPT ![p] = content]
      /\ UNCHANGED <<session, lastHash, ended>>
  BY DEF CommitDelete
<1>6. lastHash' \in 0 .. MaxHashes /\ lastHash' >= lastHash
  BY <1>5, Unhashed
<1>7. Moves(t, "idle", NoRequest)
  BY <1>1, FinishMoves
<1>8. "idle" \notin FoundUser
  BY DEF FoundUser
<1>9. Writes(p, row, content)
  BY <1>2, <1>4, <1>5, <1>6 DEF Writes
<1> HIDE DEF p, row, content
<1>10. QED
  BY <1>3, <1>4, <1>7, <1>8, <1>9, RowStep

\* The status leaves the password alone.
LEMMA SetStatusStep ==
    ASSUME ConstantsAssumption, NilIsNoRow, IInv, NEW t \in Conns, SetStatus(t)
    PROVE  IInv'
<1> DEFINE p == req[t].id
           row == [user[p] EXCEPT !.active = req[t].active]
<1>1. pc[t] = "setStatus" /\ UNCHANGED <<profile, session, lastHash, ended>>
  BY DEF SetStatus
<1>2. p \in PublicIDs /\ req[t] \in Request
  BY <1>1 DEF IInv, TypeOK, Carries, ForUser
<1>3. CASE Found(p)
  <2>1. user' = [user EXCEPT ![p] = row] /\ Goto(t, "reload")
    BY <1>3 DEF SetStatus
  <2>2. /\ user[p] \in UserRow /\ profile[p] \in ProfileRow
        /\ user[p].deleted = profile[p].deleted
        /\ user[p].hash \in Hashes /\ user[p].hash <= lastHash
        /\ \A o \in Conns : pc[o] = "commitInsert" => req[o].id # p
    BY <1>2, <1>3, FoundIsRow DEF Found
  <2>3. /\ row \in UserRow /\ row.deleted = user[p].deleted
        /\ row.hash >= user[p].hash /\ row.hash <= lastHash
    BY <1>2, <2>2 DEF UserRow, Request, Hashes
  <2>4. profile' = [profile EXCEPT ![p] = profile[p]]
    BY <1>1 DEF IInv, TypeOK
  <2>5. lastHash' \in 0 .. MaxHashes /\ lastHash' >= lastHash
    BY <1>1, Unhashed
  <2>6. Carries("reload", req[t])
    BY <1>2 DEF Carries
  <2>7. Moves(t, "reload", req[t])
    BY <2>1, <2>6, GotoMoves DEF Statements
  <2>8. Writes(p, row, profile[p])
    BY <1>1, <1>2, <2>1, <2>2, <2>3, <2>4, <2>5 DEF Writes
  <2> HIDE DEF row
  <2>9. QED
    BY <2>2, <2>3, <2>7, <2>8, RowStep
<1>4. CASE ~Found(p)
  BY <1>1, <1>4, EndStep DEF SetStatus, tables
<1>5. QED
  BY <1>3, <1>4

\* Whoever stores a password is about to revoke.
LEMMA StorePasswordStep ==
    ASSUME ConstantsAssumption, NilIsNoRow, IInv, NEW t \in Conns, StorePassword(t)
    PROVE  IInv'
<1> DEFINE p == req[t].id
           row == [user[p] EXCEPT !.hash = lastHash']
<1>1. pc[t] = "store" /\ UNCHANGED <<profile, session, ended>>
  BY DEF StorePassword
<1>2. p \in PublicIDs /\ req[t] \in Request
  BY <1>1 DEF IInv, TypeOK, Carries, ForUser, FoundUser
<1>3. /\ lastHash' \in Hashes /\ lastHash' \in 0 .. MaxHashes
      /\ lastHash' = lastHash + 1 /\ lastHash' >= lastHash
  BY DEF StorePassword, Hashes, IInv, TypeOK, ConstantsAssumption
<1>4. CASE MayStore(t)
  <2> DEFINE r == [req[t] EXCEPT !.hash = lastHash']
  <2>1. /\ user' = [user EXCEPT ![p] = row]
        /\ pc' = [pc EXCEPT ![t] = "revoke"] /\ req' = [req EXCEPT ![t] = r]
    BY <1>4 DEF StorePassword, IInv, TypeOK
  <2>2. /\ user[p] \in UserRow /\ profile[p] \in ProfileRow
        /\ user[p].deleted = profile[p].deleted
        /\ user[p].hash \in Hashes /\ user[p].hash <= lastHash
        /\ \A o \in Conns : pc[o] = "commitInsert" => req[o].id # p
    BY <1>2, <1>4, FoundIsRow DEF MayStore, Found
  <2>3. /\ row \in UserRow /\ row.deleted = user[p].deleted
        /\ row.hash = lastHash' /\ row.hash >= user[p].hash /\ row.hash <= lastHash'
    BY <1>3, <2>2 DEF UserRow, Hashes, IInv, TypeOK
  <2>4. profile' = [profile EXCEPT ![p] = profile[p]]
    BY <1>1 DEF IInv, TypeOK
  <2>5. r \in Request /\ r.id = p /\ r.hash = lastHash'
    BY <1>2, <1>3 DEF Request
  <2>6. Moves(t, "revoke", r)
    BY <1>2, <1>3, <2>1, <2>5 DEF Moves, Carries, Statements
  <2>7. r.hash <= row.hash
    BY <1>3, <2>3, <2>5 DEF Hashes
  <2>8. Writes(p, row, profile[p])
    BY <1>1, <1>2, <1>3, <2>1, <2>2, <2>3, <2>4 DEF Writes
  <2> HIDE DEF row, r
  <2>9. QED
    BY <2>2, <2>3, <2>5, <2>6, <2>7, <2>8, RowStep
<1>5. CASE ~MayStore(t)
  <2>1. UNCHANGED <<user, profile, session, ended>> /\ Finish(t)
    BY <1>1, <1>5 DEF StorePassword
  <2>2. Moves(t, "idle", NoRequest)
    BY <2>1, FinishMoves
  <2>3. "idle" \notin FoundUser
    BY DEF FoundUser
  <2>4. QED
    BY <1>3, <2>1, <2>2, <2>3, QuietStep
<1>6. QED
  BY <1>4, <1>5

\* Whoever deactivates a user revokes under the hash it has read.
LEMMA ReloadStep ==
    ASSUME ConstantsAssumption, NilIsNoRow, IInv, NEW t \in Conns, Reload(t)
    PROVE  IInv'
<1> DEFINE p == req[t].id
           r == [req[t] EXCEPT !.hash = user[p].hash]
<1>1. pc[t] = "reload" /\ UNCHANGED tables
  BY DEF Reload
<1>2. CASE Finish(t)
  BY <1>1, <1>2, EndStep
<1>3. CASE /\ Found(p) /\ pc' = [pc EXCEPT ![t] = "revoke"]
           /\ req' = [req EXCEPT ![t].hash = user[p].hash]
  <2>1. p \in PublicIDs /\ user[p] # Nil /\ req[t] \in Request
    BY <1>1, <1>3 DEF IInv, TypeOK, Carries, ForUser, FoundUser, Found
  <2>2. user[p].hash \in Hashes
    BY <2>1, FoundIsRow
  <2>3. r \in Request /\ r.id = p /\ r.hash = user[p].hash /\ r.hash <= user[p].hash
    BY <2>1, <2>2 DEF Request, Hashes
  <2>4. Moves(t, "revoke", r)
    BY <1>3, <2>1, <2>2, <2>3 DEF Moves, Carries, Statements
  <2>5. UNCHANGED <<user, profile, session, lastHash, ended>>
    BY <1>1 DEF tables
  <2>6. user[r.id] # Nil /\ r.hash <= user[r.id].hash
    BY <2>1, <2>3
  <2> HIDE DEF r
  <2>7. QED
    BY <2>4, <2>5, <2>6, Unhashed, QuietStep
<1>4. QED
  BY <1>2, <1>3 DEF Reload

(***************************************************************************)
(* The revocation and the sessions.                                        *)
(***************************************************************************)
LEMMA NewestOf ==
    ASSUME NEW a \in Int, NEW b \in Int
    PROVE  Newest(a, b) \in {a, b} /\ Newest(a, b) >= a /\ Newest(a, b) >= b
BY DEF Newest

\* What the look for the sessions changes of the requests.
LEMMA SnapshotReq ==
    ASSUME ConstantsAssumption, IInv, NEW t \in Conns, SnapshotRevoke(t), NEW o \in Conns
    PROVE  /\ pc'[o] = IF o = t THEN "applyRevoke" ELSE pc[o]
           /\ req'[o] \in Request
           /\ req'[o].id = req[o].id /\ req'[o].op = req[o].op
           /\ req'[o].email = req[o].email /\ req'[o].content = req[o].content
           /\ req'[o].session = req[o].session
           /\ o = t => req'[o].hash = req[o].hash /\ req'[o].targets = FoundSessions(req[t].id)
           /\ o # t => req'[o].targets = req[o].targets
           /\ ~MissedBy(req[t].id, o) => req'[o].hash = req[o].hash
           /\ MissedBy(req[t].id, o) =>
                 /\ req[o].hash \in Hashes /\ req[t].hash \in Hashes /\ req'[o].hash \in Hashes
                 /\ req'[o].hash >= req[o].hash /\ req'[o].hash >= req[t].hash
<1> DEFINE p == req[t].id
<1>1. pc[t] = "revoke" /\ req[o] \in Request /\ req[t] \in Request
  BY DEF SnapshotRevoke, IInv, TypeOK
<1>2. pc'[o] = IF o = t THEN "applyRevoke" ELSE pc[o]
  BY DEF SnapshotRevoke, IInv, TypeOK
<1>3. req'[o] = IF o = t THEN [req[t] EXCEPT !.targets = FoundSessions(p)]
                ELSE IF MissedBy(p, o) THEN [req[o] EXCEPT !.hash = Newest(@, req[t].hash)]
                ELSE req[o]
  BY DEF SnapshotRevoke
<1>4. CASE o = t
  <2>1. ~MissedBy(p, o)
    BY <1>1, <1>4 DEF MissedBy
  <2>2. FoundSessions(p) \subseteq Sessions
    BY DEF FoundSessions
  <2>3. req'[o] = [req[t] EXCEPT !.targets = FoundSessions(p)]
    BY <1>3, <1>4
  <2>4. QED
    BY <1>1, <1>2, <1>4, <2>1, <2>2, <2>3 DEF Request
<1>5. CASE o # t /\ MissedBy(p, o)
  <2>1. req[o].hash \in Hashes /\ req[t].hash \in Hashes
    BY <1>1, <1>5 DEF IInv, Carries, MissedBy
  <2> DEFINE h == Newest(req[o].hash, req[t].hash)
  <2>2. h \in Hashes /\ h >= req[o].hash /\ h >= req[t].hash
    BY <2>1, NewestOf DEF Hashes
  <2>3. req'[o] = [req[o] EXCEPT !.hash = h]
    BY <1>3, <1>5
  <2> HIDE DEF h
  <2>4. QED
    BY <1>1, <1>2, <1>5, <2>1, <2>2, <2>3 DEF Request
<1>6. CASE o # t /\ ~MissedBy(p, o)
  BY <1>1, <1>2, <1>3, <1>6
<1>7. QED
  BY <1>4, <1>5, <1>6

\* The revocation looks for the sessions of its user.
LEMMA SnapshotRevokeStep ==
    ASSUME ConstantsAssumption, NilIsNoRow, IInv, NEW t \in Conns, SnapshotRevoke(t)
    PROVE  IInv'
<1> DEFINE p == req[t].id
           h == req[t].hash
<1>1. pc[t] = "revoke" /\ UNCHANGED <<user, profile, session, lastHash, ended>>
  BY DEF SnapshotRevoke, tables
<1>2. p \in PublicIDs /\ h \in Hashes /\ user[p] # Nil
  BY <1>1 DEF IInv, Carries, Stands, ForUser, FoundUser
<1>3. TypeOK'
  <2>1. pc' \in [Conns -> Statements]
    BY DEF SnapshotRevoke, IInv, TypeOK, Statements
  <2>2. req' \in [Conns -> Request]
    <3>1. req' = [o \in Conns |-> req'[o]]
      BY DEF SnapshotRevoke
    <3>2. QED
      BY <3>1, SnapshotReq
  <2>3. QED
    BY <1>1, <2>1, <2>2 DEF IInv, TypeOK
<1>4. ASSUME NEW o \in Conns PROVE Carries(pc[o], req[o])' /\ Stands(o)'
  <2>1. Carries(pc[o], req[o]) /\ Stands(o)
    BY DEF IInv
  <2>2. CASE o = t
    <3>1. /\ pc'[o] = "applyRevoke" /\ req'[o].id = p /\ req'[o].hash = h
      BY <2>2, SnapshotReq
    <3>2. QED
      BY <1>1, <1>2, <3>1 DEF Carries, Stands
  <2>3. CASE o # t
    <3>1. /\ pc'[o] = pc[o]
          /\ req'[o].id = req[o].id /\ req'[o].op = req[o].op
          /\ req'[o].email = req[o].email /\ req'[o].content = req[o].content
          /\ req'[o].session = req[o].session
          /\ pc[o] # "createSession" => req'[o].hash = req[o].hash
          /\ req'[o].hash = req[o].hash \/ req'[o].hash \in Hashes
      BY <2>3, SnapshotReq DEF MissedBy
    <3>2. Carries(pc[o], req[o])'
      BY <2>1, <3>1 DEF Carries
    <3>3. Stands(o)'
      BY <1>1, <2>1, <3>1 DEF Stands
    <3>4. QED
      BY <3>2, <3>3
  <2>4. QED
    BY <2>2, <2>3
<1>5. InsertsDiffer'
  <2>1. \A o \in Conns : pc'[o] = "commitInsert" => pc[o] = "commitInsert" /\ req'[o].id = req[o].id
    BY SnapshotReq
  <2>2. QED
    BY <2>1 DEF IInv, InsertsDiffer
<1>6. SessionsHaveUsers' /\ DeletedTogether' /\ PasswordEndsSessions'
  BY <1>1 DEF IInv, SessionsHaveUsers, DeletedTogether, PasswordEndsSessions, Live
<1>7. HashesInOrder'
  <2>1. ASSUME NEW o \in Conns
        PROVE  /\ pc'[o] \in {"insert", "commitInsert"} =>
                     pc[o] \in {"insert", "commitInsert"} /\ req'[o].hash = req[o].hash
               /\ pc'[o] \in {"revoke", "applyRevoke"} =>
                     /\ pc[o] \in {"revoke", "applyRevoke"}
                     /\ req'[o].hash = req[o].hash /\ req'[o].id = req[o].id
    BY <1>1, SnapshotReq DEF MissedBy
  <2>2. QED
    BY <1>1, <2>1 DEF IInv, HashesInOrder
<1>8. LoginsKeepUp'
  <2>1. SUFFICES ASSUME NEW o \in Conns, pc'[o] = "createSession"
                 PROVE  /\ req'[o].hash >= ended[req'[o].id]
                        /\ \A c \in Conns : Revoking(c, req[o].id)' => req'[o].hash >= req'[c].hash
    BY <1>1 DEF LoginsKeepUp, Revoking
  <2>2. /\ o # t /\ pc[o] = "createSession" /\ req'[o].id = req[o].id
        /\ req[o].id \in PublicIDs /\ req[o].hash \in Hashes /\ req'[o].hash \in Hashes
        /\ req'[o].hash >= req[o].hash
        /\ req[o].id = p => req'[o].hash >= h
    <3>1. o # t /\ pc[o] = "createSession" /\ req'[o].id = req[o].id
      BY <2>1, SnapshotReq
    <3>2. req[o].id \in PublicIDs /\ req[o].hash \in Hashes
      BY <3>1 DEF IInv, Carries, ForUser, FoundUser
    <3>3. CASE req[o].id = p
      BY <3>1, <3>2, <3>3, SnapshotReq DEF MissedBy
    <3>4. CASE req[o].id # p
      <4>1. req'[o].hash = req[o].hash
        BY <3>4, SnapshotReq DEF MissedBy
      <4>2. QED
        BY <3>1, <3>2, <3>4, <4>1 DEF Hashes
    <3>5. QED
      BY <3>3, <3>4
  <2>3. req'[o].hash >= ended[req'[o].id]
    <3>1. ended[req[o].id] \in Int /\ req[o].hash >= ended[req[o].id]
      BY <2>2 DEF IInv, TypeOK, LoginsKeepUp
    <3>2. QED
      BY <2>2, <3>1 DEF Hashes
  <2>4. ASSUME NEW c \in Conns, pc'[c] = "applyRevoke", req'[c].id = req'[o].id
        PROVE  req'[o].hash >= req'[c].hash
    <3>1. CASE c = t
      BY <2>2, <2>4, <3>1, SnapshotReq
    <3>2. CASE c # t
      <4>1. pc[c] = "applyRevoke" /\ req'[c].hash = req[c].hash /\ req[c].id = req[o].id
        BY <2>2, <2>4, <3>2, SnapshotReq DEF MissedBy
      <4>2. req[c].hash \in Hashes /\ req[o].hash >= req[c].hash
        BY <2>2, <4>1 DEF IInv, Carries, LoginsKeepUp, Revoking
      <4>3. QED
        BY <2>2, <4>1, <4>2 DEF Hashes
    <3>3. QED
      BY <3>1, <3>2
  <2>5. QED
    BY <2>2, <2>3, <2>4 DEF Revoking
<1>9. RevocationsFind'
  <2>1. SUFFICES ASSUME NEW c \in Conns, pc'[c] = "applyRevoke"
                 PROVE  /\ \A s \in req'[c].targets : session[s] # Nil
                        /\ \A s \in Sessions :
                              Live(s) /\ session[s].user = req'[c].id =>
                                  s \in req'[c].targets \/ session[s].since >= req'[c].hash
    BY <1>1 DEF RevocationsFind, Live
  <2>2. CASE c = t
    <3>1. req'[c].targets = FoundSessions(p) /\ req'[c].id = p
      BY <2>2, SnapshotReq
    <3>2. QED
      BY <3>1 DEF FoundSessions, Live
  <2>3. CASE c # t
    <3>1. /\ pc[c] = "applyRevoke" /\ req'[c].id = req[c].id /\ req'[c].hash = req[c].hash
          /\ req'[c].targets = req[c].targets
      BY <2>1, <2>3, SnapshotReq DEF MissedBy
    <3>2. QED
      BY <3>1 DEF IInv, RevocationsFind
  <2>4. QED
    BY <2>2, <2>3
<1>10. QED
  BY <1>3, <1>4, <1>5, <1>6, <1>7, <1>8, <1>9 DEF IInv

\* A request may end, the others stay where they are.
OneMayEnd ==
    /\ pc' \in [Conns -> Statements] /\ req' \in [Conns -> Request]
    /\ \A o \in Conns : pc'[o] = "idle" \/ (pc'[o] = pc[o] /\ req'[o] = req[o])
    /\ \A o \in Conns : Carries(pc'[o], req'[o])

LEMMA FinishEnds ==
    ASSUME ConstantsAssumption, IInv, NEW t \in Conns, Finish(t)
    PROVE  OneMayEnd /\ pc'[t] = "idle"
BY FinishMoves, MovesTyped DEF OneMayEnd

\* The parts of the invariant that are not about which sessions are live.
LEMMA SessionStep ==
    ASSUME IInv, OneMayEnd, UNCHANGED <<user, profile, lastHash>>,
           session' \in [Sessions -> SessionRow \cup {Nil}],
           \A s \in Sessions : session'[s] # Nil => user[session'[s].user] # Nil,
           ended' \in [PublicIDs -> 0..MaxHashes],
           \A p \in PublicIDs : ended'[p] # ended[p] => user[p] # Nil /\ ended'[p] <= user[p].hash
    PROVE  /\ TypeOK' /\ InsertsDiffer' /\ SessionsHaveUsers' /\ DeletedTogether'
           /\ HashesInOrder' /\ \A o \in Conns : Carries(pc[o], req[o])' /\ Stands(o)'
<1>1. TypeOK'
  BY DEF IInv, TypeOK, OneMayEnd
<1>2. \A o \in Conns : Carries(pc[o], req[o])' /\ Stands(o)'
  BY DEF IInv, OneMayEnd, Stands, FoundUser
<1>3. InsertsDiffer' /\ SessionsHaveUsers' /\ DeletedTogether'
  BY DEF IInv, OneMayEnd, InsertsDiffer, SessionsHaveUsers, DeletedTogether
<1>4. HashesInOrder'
  <2>1. \A p \in PublicIDs : user'[p] = Nil => ended'[p] = 0
    BY DEF IInv, HashesInOrder
  <2>2. \A p \in PublicIDs :
           user'[p] # Nil => ended'[p] <= user'[p].hash /\ user'[p].hash <= lastHash'
    BY DEF IInv, HashesInOrder
  <2>3. \A o \in Conns : pc'[o] \in {"insert", "commitInsert"} => req'[o].hash <= lastHash'
    BY DEF IInv, HashesInOrder, OneMayEnd
  <2>4. \A o \in Conns :
           pc'[o] \in {"revoke", "applyRevoke"} => req'[o].hash <= user'[req'[o].id].hash
    BY DEF IInv, HashesInOrder, OneMayEnd
  <2>5. QED
    BY <2>1, <2>2, <2>3, <2>4 DEF HashesInOrder
<1>5. QED
  BY <1>1, <1>2, <1>3, <1>4

LEMMA ClosedRow ==
    ASSUME ConstantsAssumption, NilIsNoRow, IInv, NEW s \in Sessions, session[s] # Nil
    PROVE  /\ Closed(session[s]) \in SessionRow /\ Closed(session[s]) # Nil
           /\ Closed(session[s]).user = session[s].user /\ ~Closed(session[s]).live
<1>1. session[s] \in SessionRow /\ 0 \in 0..MaxHashes
  BY DEF IInv, TypeOK, ConstantsAssumption
<1>2. /\ Closed(session[s]) \in SessionRow
      /\ Closed(session[s]).user = session[s].user /\ ~Closed(session[s]).live
  BY <1>1 DEF Closed, SessionRow
<1>3. QED
  BY <1>2, RowsAreNotNil

\* What the revocation has found ends. What it has not survives it.
LEMMA ApplyRevokeStep ==
    ASSUME ConstantsAssumption, NilIsNoRow, IInv, NEW t \in Conns, ApplyRevoke(t)
    PROVE  IInv'
<1> DEFINE p == req[t].id
           h == req[t].hash
           targets == req[t].targets
<1>1. /\ pc[t] = "applyRevoke" /\ Finish(t) /\ UNCHANGED <<user, profile, lastHash>>
      /\ session' = [s \in Sessions |-> IF s \in targets THEN Closed(session[s]) ELSE session[s]]
      /\ ended' = [ended EXCEPT ![p] = Newest(@, h)]
  BY DEF ApplyRevoke
<1>2. p \in PublicIDs /\ h \in Hashes /\ user[p] # Nil /\ h <= user[p].hash
  BY <1>1 DEF IInv, Carries, Stands, ForUser, FoundUser, HashesInOrder
<1>3. \A s \in targets : session[s] # Nil
  BY <1>1 DEF IInv, RevocationsFind
<1>4. OneMayEnd /\ pc'[t] = "idle"
  BY <1>1, FinishEnds
<1>5. ended[p] \in 0..MaxHashes /\ ended[p] <= user[p].hash
  BY <1>2 DEF IInv, TypeOK, HashesInOrder
<1>6. ended'[p] \in {ended[p], h} /\ \A q \in PublicIDs : q # p => ended'[q] = ended[q]
  BY <1>1, <1>2, <1>5, NewestOf DEF Hashes, IInv, TypeOK
<1>7. ended' \in [PublicIDs -> 0..MaxHashes]
  <2>1. Newest(ended[p], h) \in 0..MaxHashes
    BY <1>2, <1>5, NewestOf DEF Hashes
  <2>2. QED
    BY <1>1, <2>1 DEF IInv, TypeOK
<1>8. ASSUME NEW s \in Sessions
      PROVE  /\ s \in targets => session'[s] = Closed(session[s])
             /\ s \notin targets => session'[s] = session[s]
             /\ session'[s] \in SessionRow \cup {Nil}
             /\ session'[s] # Nil <=> session[s] # Nil
             /\ session'[s] # Nil => session'[s].user = session[s].user
             /\ Live(s)' => s \notin targets /\ Live(s)
  <2>1. session[s] \in SessionRow \cup {Nil}
    BY DEF IInv, TypeOK
  <2>2. CASE s \in targets
    BY <1>1, <1>3, <2>2, ClosedRow DEF Live
  <2>3. CASE s \notin targets
    BY <1>1, <2>1, <2>3 DEF Live
  <2>4. QED
    BY <2>2, <2>3
<1>9. session' \in [Sessions -> SessionRow \cup {Nil}]
  BY <1>1, <1>8
<1>10. \A s \in Sessions : session'[s] # Nil => user[session'[s].user] # Nil
  BY <1>8 DEF IInv, SessionsHaveUsers
<1>11. \A q \in PublicIDs : ended'[q] # ended[q] => user[q] # Nil /\ ended'[q] <= user[q].hash
  BY <1>2, <1>5, <1>6
<1>12. LoginsKeepUp'
  <2>1. SUFFICES ASSUME NEW o \in Conns, pc'[o] = "createSession"
                 PROVE  /\ req'[o].hash >= ended'[req'[o].id]
                        /\ \A c \in Conns : Revoking(c, req[o].id)' => req'[o].hash >= req'[c].hash
    BY DEF LoginsKeepUp, Revoking
  <2>2. pc[o] = "createSession" /\ req'[o] = req[o] /\ req[o].id \in PublicIDs
    BY <1>4, <2>1 DEF OneMayEnd, IInv, Carries, ForUser, FoundUser
  <2>3. req[o].hash >= ended[req[o].id] /\ (req[o].id = p => req[o].hash >= h)
    BY <1>1, <2>2 DEF IInv, LoginsKeepUp, Revoking
  <2>4. req'[o].hash >= ended'[req'[o].id]
    BY <1>6, <2>2, <2>3
  <2>5. \A c \in Conns : Revoking(c, req[o].id)' => Revoking(c, req[o].id) /\ req'[c] = req[c]
    BY <1>4, <2>2 DEF OneMayEnd, Revoking
  <2>6. QED
    BY <2>2, <2>4, <2>5 DEF IInv, LoginsKeepUp
<1>13. RevocationsFind'
  <2>1. \A c \in Conns : pc'[c] = "applyRevoke" => pc[c] = "applyRevoke" /\ req'[c] = req[c]
    BY <1>4 DEF OneMayEnd
  <2>2. \A c \in Conns : pc[c] = "applyRevoke" => req[c].targets \subseteq Sessions
    BY DEF IInv, TypeOK, Request
  <2>3. QED
    BY <1>8, <2>1, <2>2 DEF IInv, RevocationsFind, Live
<1>14. PasswordEndsSessions'
  <2>1. SUFFICES ASSUME NEW s \in Sessions, Live(s)'
                 PROVE  session'[s].since >= ended'[session'[s].user]
    BY DEF PasswordEndsSessions
  <2>2. s \notin targets /\ Live(s) /\ session'[s] = session[s]
    BY <1>8, <2>1
  <2>3. session[s].user \in PublicIDs
    BY <2>2 DEF Live, IInv, TypeOK, SessionRow
  <2>4. /\ session[s].since >= ended[session[s].user]
        /\ session[s].user = p => session[s].since >= h
    BY <1>1, <2>2 DEF IInv, PasswordEndsSessions, RevocationsFind
  <2>5. QED
    BY <1>6, <2>2, <2>3, <2>4
<1>15. QED
  BY <1>1, <1>4, <1>7, <1>9, <1>10, <1>11, <1>12, <1>13, <1>14, SessionStep DEF IInv

\* The rows of sessions change, and nothing is revoked.
LEMMA RowsStep ==
    ASSUME IInv, OneMayEnd, UNCHANGED <<user, profile, lastHash, ended>>,
           session' \in [Sessions -> SessionRow \cup {Nil}],
           \A s \in Sessions : session[s] # Nil => session'[s] # Nil,
           \A s \in Sessions : session'[s] # Nil => user[session'[s].user] # Nil,
           \A s \in Sessions : Live(s)' =>
              \/ Live(s) /\ session'[s] = session[s]
              \/ /\ session'[s].since >= ended[session'[s].user]
                 /\ \A c \in Conns :
                       pc'[c] = "applyRevoke" /\ req'[c].id = session'[s].user =>
                           session'[s].since >= req'[c].hash
    PROVE  IInv'
<1>1. \A p \in PublicIDs : ended'[p] = ended[p]
  OBVIOUS
<1>2. ended' \in [PublicIDs -> 0..MaxHashes]
  BY DEF IInv, TypeOK
<1>3. /\ TypeOK' /\ InsertsDiffer' /\ SessionsHaveUsers' /\ DeletedTogether'
      /\ HashesInOrder' /\ \A o \in Conns : Carries(pc[o], req[o])' /\ Stands(o)'
  BY <1>1, <1>2, SessionStep
<1>4. \A o \in Conns :
         pc'[o] \in {"createSession", "applyRevoke"} => pc'[o] = pc[o] /\ req'[o] = req[o]
  BY DEF OneMayEnd
<1>5. LoginsKeepUp'
  BY <1>4 DEF IInv, LoginsKeepUp, Revoking
<1>6. RevocationsFind'
  <2>1. SUFFICES ASSUME NEW c \in Conns, pc'[c] = "applyRevoke"
                 PROVE  /\ \A s \in req'[c].targets : session'[s] # Nil
                        /\ \A s \in Sessions :
                              Live(s)' /\ session'[s].user = req'[c].id =>
                                  s \in req'[c].targets \/ session'[s].since >= req'[c].hash
    BY DEF RevocationsFind
  <2>2. pc[c] = "applyRevoke" /\ req'[c] = req[c] /\ req[c].targets \subseteq Sessions
    BY <1>4, <2>1 DEF IInv, TypeOK, Request
  <2>3. \A s \in req'[c].targets : session'[s] # Nil
    BY <2>2 DEF IInv, RevocationsFind
  <2>4. ASSUME NEW s \in Sessions, Live(s)', session'[s].user = req'[c].id
        PROVE  s \in req'[c].targets \/ session'[s].since >= req'[c].hash
    <3>1. CASE Live(s) /\ session'[s] = session[s]
      BY <2>2, <2>4, <3>1 DEF IInv, RevocationsFind
    <3>2. CASE ~(Live(s) /\ session'[s] = session[s])
      BY <2>1, <2>4, <3>2
    <3>3. QED
      BY <3>1, <3>2
  <2>5. QED
    BY <2>3, <2>4
<1>7. PasswordEndsSessions'
  BY DEF IInv, PasswordEndsSessions
<1>8. QED
  BY <1>3, <1>5, <1>6, <1>7 DEF IInv

\* A login has kept up with every revocation that will not find its session.
LEMMA CreateSessionStep ==
    ASSUME ConstantsAssumption, NilIsNoRow, IInv, NEW t \in Conns, NEW s \in Sessions,
           CreateSession(t, s)
    PROVE  IInv'
<1> DEFINE p == req[t].id
           row == [user |-> p, live |-> TRUE, since |-> req[t].hash]
<1>1. /\ pc[t] = "createSession" /\ session[s] = Nil /\ session' = [session EXCEPT ![s] = row]
      /\ Finish(t) /\ UNCHANGED <<user, profile, lastHash, ended>>
  BY DEF CreateSession
<1>2. p \in PublicIDs /\ user[p] # Nil /\ req[t].hash \in Hashes
  BY <1>1 DEF IInv, Carries, Stands, ForUser, FoundUser
<1>3. row \in SessionRow /\ row # Nil /\ row.user = p /\ row.since = req[t].hash
  <2>1. req[t].hash \in 0..MaxHashes
    BY <1>2 DEF Hashes, ConstantsAssumption
  <2>2. row \in SessionRow /\ row.user = p /\ row.since = req[t].hash
    BY <1>2, <2>1 DEF SessionRow
  <2>3. QED
    BY <2>2, RowsAreNotNil
<1>4. /\ req[t].hash >= ended[p]
      /\ \A c \in Conns : pc[c] = "applyRevoke" /\ req[c].id = p => req[t].hash >= req[c].hash
  BY <1>1 DEF IInv, LoginsKeepUp, Revoking
<1> HIDE DEF row
<1>5. \A o \in Sessions : session'[o] = IF o = s THEN row ELSE session[o]
  BY <1>1 DEF IInv, TypeOK
<1>6. session' \in [Sessions -> SessionRow \cup {Nil}]
  BY <1>1, <1>3 DEF IInv, TypeOK
<1>7. OneMayEnd
  BY <1>1, FinishEnds
<1>8. \A o \in Sessions : session[o] # Nil => session'[o] # Nil
  BY <1>3, <1>5
<1>9. \A o \in Sessions : session'[o] # Nil => user[session'[o].user] # Nil
  BY <1>2, <1>3, <1>5 DEF IInv, SessionsHaveUsers
<1>10. \A c \in Conns : pc'[c] = "applyRevoke" => pc[c] = "applyRevoke" /\ req'[c] = req[c]
  BY <1>7 DEF OneMayEnd
<1>11. ASSUME NEW o \in Sessions, Live(o)'
       PROVE  \/ Live(o) /\ session'[o] = session[o]
              \/ /\ session'[o].since >= ended[session'[o].user]
                 /\ \A c \in Conns :
                       pc'[c] = "applyRevoke" /\ req'[c].id = session'[o].user =>
                           session'[o].since >= req'[c].hash
  <2>1. CASE o = s
    BY <1>3, <1>4, <1>5, <1>10, <2>1
  <2>2. CASE o # s
    BY <1>5, <1>11, <2>2 DEF Live
  <2>3. QED
    BY <2>1, <2>2
<1>12. QED
  BY <1>1, <1>6, <1>7, <1>8, <1>9, <1>11, RowsStep

\* A set of numbers up to a bound has a greatest one.
LEMMA Greatest ==
    ASSUME NEW n \in Nat, NEW S \in SUBSET (0..n), S # {}
    PROVE  \E h \in S : \A g \in S : h >= g
<1> DEFINE T == {n - h : h \in S}
<1>1. T \subseteq Nat /\ T # {}
  OBVIOUS
<1>2. IsWellFoundedOn(OpToRel(<, Nat), Nat)
  BY NatLessThanWellFounded
<1>3. PICK x \in T : \A y \in T : ~(<<y, x>> \in OpToRel(<, Nat))
  BY <1>1, <1>2, WFMin
<1>4. \A y \in T : ~(y < x)
  BY <1>1, <1>3 DEF OpToRel
<1>5. PICK h \in S : x = n - h
  BY <1>3
<1>6. \A g \in S : n - g \in T
  OBVIOUS
<1>7. ASSUME NEW g \in S PROVE h >= g
  <2>1. ~(n - g < n - h)
    BY <1>4, <1>5, <1>6
  <2>2. h \in 0..n /\ g \in 0..n
    OBVIOUS
  <2> HIDE DEF T
  <2>3. QED
    BY <2>1, <2>2
<1>8. QED
  BY <1>7

\* The next of a session is as new as the session and as what has found it.
LEMMA SinceIs ==
    ASSUME ConstantsAssumption, IInv, NEW s \in Sessions, Live(s)
    PROVE  /\ Since(s) \in 0..MaxHashes /\ Since(s) >= session[s].since
           /\ \A o \in Pursuers(s) : Since(s) >= req[o].hash
<1> DEFINE S == {session[s].since} \cup {req[o].hash : o \in Pursuers(s)}
<1>1. session[s].since \in 0..MaxHashes
  BY DEF Live, IInv, TypeOK, SessionRow
<1>2. \A o \in Pursuers(s) : req[o].hash \in Hashes
  BY DEF Pursuers, IInv, Carries
<1>3. S \in SUBSET (0..MaxHashes) /\ S # {}
  BY <1>1, <1>2 DEF Hashes, ConstantsAssumption
<1>4. MaxHashes \in Nat
  BY DEF ConstantsAssumption
<1>5. PICK h \in S : \A g \in S : h >= g
  BY <1>3, <1>4, Greatest
<1>6. \A o \in Pursuers(s) : req[o].hash \in S
  OBVIOUS
<1>7. \E g \in S : g >= session[s].since /\ \A o \in Pursuers(s) : g >= req[o].hash
  BY <1>5, <1>6
<1>8. Since(s) = CHOOSE g \in S : g >= session[s].since /\ \A o \in Pursuers(s) : g >= req[o].hash
  BY DEF Since
<1>9. /\ Since(s) \in S /\ Since(s) >= session[s].since
      /\ \A o \in Pursuers(s) : Since(s) >= req[o].hash
  BY <1>7, <1>8
<1>10. QED
  BY <1>3, <1>9

\* A rotation replaces one live session by another.
LEMMA RotateStep ==
    ASSUME ConstantsAssumption, NilIsNoRow, IInv, NEW t \in Conns, NEW s \in Sessions,
           Rotate(t, s)
    PROVE  IInv'
<1> DEFINE old == req[t].session
           row == [user |-> session[old].user, live |-> TRUE, since |-> Since(old)]
<1>1. pc[t] = "rotate" /\ Finish(t) /\ UNCHANGED <<user, profile, lastHash, ended>>
  BY DEF Rotate
<1>2. CASE UNCHANGED session
  BY <1>1, <1>2, EndStep DEF tables
<1>3. CASE /\ MayRotate(t) /\ session[s] = Nil
           /\ session' = [session EXCEPT ![old] = Closed(@), ![s] = row]
  <2>1. old \in Sessions /\ Live(old)
    BY <1>1, <1>3 DEF MayRotate, IInv, Carries
  <2>2. session[old] \in SessionRow /\ session[old] # Nil /\ session[old].user \in PublicIDs
    BY <2>1 DEF Live, IInv, TypeOK, SessionRow
  <2>3. old # s
    BY <1>3, <2>2
  <2>4. /\ Since(old) \in 0..MaxHashes /\ Since(old) >= session[old].since
        /\ \A c \in Pursuers(old) : Since(old) >= req[c].hash
    BY <2>1, SinceIs
  <2>5. /\ row \in SessionRow /\ row # Nil
        /\ row.user = session[old].user /\ row.since = Since(old)
    BY <2>2, <2>4, RowsAreNotNil DEF SessionRow
  <2>6. /\ Closed(session[old]) \in SessionRow /\ Closed(session[old]) # Nil
        /\ Closed(session[old]).user = session[old].user /\ ~Closed(session[old]).live
    BY <2>1, <2>2, ClosedRow
  <2> HIDE DEF row
  <2>7. \A o \in Sessions :
           session'[o] = IF o = s THEN row
                         ELSE IF o = old THEN Closed(session[old]) ELSE session[o]
    BY <1>3, <2>3 DEF IInv, TypeOK
  <2>8. session' \in [Sessions -> SessionRow \cup {Nil}]
    <3>1. session' = [o \in Sessions |-> session'[o]]
      BY <1>3 DEF IInv, TypeOK
    <3>2. \A o \in Sessions : session'[o] \in SessionRow \cup {Nil}
      BY <2>5, <2>6, <2>7 DEF IInv, TypeOK
    <3>3. QED
      BY <3>1, <3>2
  <2>9. OneMayEnd
    BY <1>1, FinishEnds
  <2>10. \A o \in Sessions : session[o] # Nil => session'[o] # Nil
    BY <2>5, <2>6, <2>7
  <2>11. \A o \in Sessions : session'[o] # Nil => user[session'[o].user] # Nil
    BY <2>1, <2>2, <2>5, <2>6, <2>7 DEF IInv, SessionsHaveUsers
  <2>12. /\ Since(old) >= ended[session[old].user]
         /\ \A c \in Conns : pc[c] = "applyRevoke" /\ req[c].id = session[old].user =>
                                 Since(old) >= req[c].hash
    <3>1. session[old].since \in Int /\ Since(old) \in Int
      BY <2>2, <2>4 DEF SessionRow
    <3>2. Since(old) >= ended[session[old].user]
      <4>1. session[old].since >= ended[session[old].user] /\ ended[session[old].user] \in Int
        BY <2>1, <2>2 DEF IInv, TypeOK, PasswordEndsSessions
      <4>2. QED
        BY <2>4, <3>1, <4>1
    <3>3. ASSUME NEW c \in Conns, pc[c] = "applyRevoke", req[c].id = session[old].user
          PROVE  Since(old) >= req[c].hash
      <4>1. req[c].hash \in Int
        BY <3>3 DEF IInv, Carries, Hashes
      <4>2. CASE old \in req[c].targets
        BY <2>4, <3>3, <4>2 DEF Pursuers
      <4>3. CASE old \notin req[c].targets
        <5>1. session[old].since >= req[c].hash
          BY <2>1, <3>3, <4>3 DEF IInv, RevocationsFind
        <5>2. QED
          BY <2>4, <3>1, <4>1, <5>1
      <4>4. QED
        BY <4>2, <4>3
    <3>4. QED
      BY <3>2, <3>3
  <2>13. \A c \in Conns : pc'[c] = "applyRevoke" => pc[c] = "applyRevoke" /\ req'[c] = req[c]
    BY <2>9 DEF OneMayEnd
  <2>14. ASSUME NEW o \in Sessions, Live(o)'
         PROVE  \/ Live(o) /\ session'[o] = session[o]
                \/ /\ session'[o].since >= ended[session'[o].user]
                   /\ \A c \in Conns :
                         pc'[c] = "applyRevoke" /\ req'[c].id = session'[o].user =>
                             session'[o].since >= req'[c].hash
    <3>1. CASE o = s
      BY <2>5, <2>7, <2>12, <2>13, <3>1
    <3>2. CASE o # s
      BY <2>6, <2>7, <2>14, <3>2 DEF Live
    <3>3. QED
      BY <3>1, <3>2
  <2>15. QED
    BY <1>1, <2>8, <2>9, <2>10, <2>11, <2>14, RowsStep
<1>4. QED
  BY <1>2, <1>3 DEF Rotate

\* A logout ends a session and touches no request.
LEMMA LogoutStep ==
    ASSUME ConstantsAssumption, NilIsNoRow, IInv, NEW s \in Sessions, Logout(s)
    PROVE  IInv'
<1>1. /\ Live(s) /\ session' = [session EXCEPT ![s] = Closed(session[s])]
      /\ UNCHANGED <<user, profile, lastHash, ended, pc, req>>
  BY DEF Logout, IInv, TypeOK
<1>2. /\ Closed(session[s]) \in SessionRow /\ Closed(session[s]) # Nil
      /\ Closed(session[s]).user = session[s].user /\ ~Closed(session[s]).live
      /\ session[s] # Nil
  BY <1>1, ClosedRow DEF Live
<1>3. \A o \in Sessions : session'[o] = IF o = s THEN Closed(session[s]) ELSE session[o]
  BY <1>1 DEF IInv, TypeOK
<1>4. session' \in [Sessions -> SessionRow \cup {Nil}]
  BY <1>1, <1>2 DEF IInv, TypeOK
<1>5. OneMayEnd
  BY <1>1 DEF OneMayEnd, IInv, TypeOK
<1>6. \A o \in Sessions : session[o] # Nil => session'[o] # Nil
  BY <1>2, <1>3
<1>7. \A o \in Sessions : session'[o] # Nil => user[session'[o].user] # Nil
  BY <1>2, <1>3 DEF IInv, SessionsHaveUsers
<1>8. \A o \in Sessions : Live(o)' => Live(o) /\ session'[o] = session[o]
  BY <1>2, <1>3 DEF Live
<1>9. QED
  BY <1>1, <1>4, <1>5, <1>6, <1>7, <1>8, RowsStep

LEMMA AbandonStep ==
    ASSUME ConstantsAssumption, IInv, NEW t \in Conns, Abandon(t)
    PROVE  IInv'
BY EndStep DEF Abandon

\* The statements of a transaction, one after the other.
LEMMA ProceedStep ==
    ASSUME ConstantsAssumption, NilIsNoRow, IInv, NEW t \in Conns, Proceed(t)
    PROVE  IInv'
<1> USE DEF ForUser, FoundUser, Statements
<1>1. Carries(pc[t], req[t]) /\ Stands(t) /\ req[t] \in Request
  BY DEF IInv, TypeOK
<1>2. CASE Authenticate(t)
  <2>1. /\ pc[t] = "authenticate"
        /\ \/ ContinueIf(t, Found(req[t].id) /\ user[req[t].id].active, "editProfile")
              /\ req[t].op = "profile"
           \/ ContinueIf(t, Found(req[t].id) /\ user[req[t].id].active, "compare")
    BY <1>2 DEF Authenticate
  <2>2. /\ req[t].op = "profile" => Carries("editProfile", req[t])
        /\ Carries("compare", req[t])
    BY <1>1, <2>1 DEF Carries
  <2>3. QED
    BY <2>1, <2>2, ContinueStep
<1>3. CASE EditProfile(t)
  <2>1. pc[t] = "editProfile" /\ ContinueIf(t, Found(req[t].id), "lockProfile")
    BY <1>3 DEF EditProfile
  <2>2. Carries("lockProfile", req[t])
    BY <1>1, <2>1 DEF Carries
  <2>3. QED
    BY <2>1, <2>2, ContinueStep DEF Found
<1>4. CASE LockProfile(t)
  <2>1. pc[t] = "lockProfile" /\ Goto(t, "touchUser") /\ UNCHANGED tables
    BY <1>4 DEF LockProfile
  <2>2. Carries("touchUser", req[t]) /\ user[req[t].id] # Nil
    BY <1>1, <2>1 DEF Carries, Stands
  <2>3. QED
    BY <2>1, <2>2, GotoStep
<1>5. CASE TouchUser(t)
  <2>1. pc[t] = "touchUser" /\ Goto(t, "commitProfile") /\ UNCHANGED tables
    BY <1>5 DEF TouchUser
  <2>2. Carries("commitProfile", req[t]) /\ user[req[t].id] # Nil
    BY <1>1, <2>1 DEF Carries, Stands
  <2>3. QED
    BY <2>1, <2>2, GotoStep
<1>6. CASE DeleteUser(t)
  <2>1. pc[t] = "deleteUser" /\ ContinueIf(t, Found(req[t].id), "deleteProfile")
    BY <1>6 DEF DeleteUser
  <2>2. Carries("deleteProfile", req[t])
    BY <1>1, <2>1 DEF Carries
  <2>3. QED
    BY <2>1, <2>2, ContinueStep DEF Found
<1>7. CASE DeleteProfile(t)
  <2>1. pc[t] = "deleteProfile" /\ Goto(t, "commitDelete") /\ UNCHANGED tables
    BY <1>7 DEF DeleteProfile
  <2>2. Carries("commitDelete", req[t]) /\ user[req[t].id] # Nil
    BY <1>1, <2>1 DEF Carries, Stands
  <2>3. QED
    BY <2>1, <2>2, GotoStep
<1>8. CASE CheckUser(t)
  <2>1. /\ pc[t] = "checkUser"
        /\ ContinueIf(t, Found(req[t].id) /\ user[req[t].id].active, "rotate")
    BY <1>8 DEF CheckUser
  <2>2. Carries("rotate", req[t])
    BY <1>1, <2>1 DEF Carries
  <2>3. QED
    BY <2>1, <2>2, ContinueStep
<1>9. CASE ComparePassword(t)
  <2>1. /\ pc[t] = "compare"
        /\ ContinueIf(t, /\ Found(req[t].id)
                         /\ req[t].op = "change" => user[req[t].id].hash = req[t].hash,
                      "store")
    BY <1>9 DEF ComparePassword
  <2>2. Carries("store", req[t])
    BY <1>1, <2>1 DEF Carries
  <2>3. QED
    BY <2>1, <2>2, ContinueStep DEF Found
<1>10. CASE AbortDeadlocked(t)
  BY <1>10, EndStep DEF AbortDeadlocked, Deadlocked
<1>11. QED
  BY <1>2, <1>3, <1>4, <1>5, <1>6, <1>7, <1>8, <1>9, <1>10, InsertUserStep, CommitInsertStep,
     CommitProfileStep, CommitDeleteStep, SetStatusStep, ReloadStep, StorePasswordStep,
     SnapshotRevokeStep, ApplyRevokeStep, CreateSessionStep, RotateStep
  DEF Proceed

(***************************************************************************)
(* The theorems.                                                           *)
(***************************************************************************)
LEMMA Step ==
    ASSUME ConstantsAssumption, NilIsNoRow, IInv, [Next]_vars
    PROVE  IInv'
<1>1. CASE UNCHANGED vars
  <2>1. UNCHANGED <<user, profile, session, lastHash, ended, pc, req>>
    BY <1>1 DEF vars
  <2>2. TypeOK' /\ \A t \in Conns : Carries(pc[t], req[t])' /\ Stands(t)'
    BY <2>1 DEF IInv, TypeOK, Stands
  <2>3. InsertsDiffer' /\ SessionsHaveUsers' /\ DeletedTogether' /\ PasswordEndsSessions'
    BY <2>1 DEF IInv, InsertsDiffer, SessionsHaveUsers, DeletedTogether, PasswordEndsSessions, Live
  <2>4. HashesInOrder' /\ LoginsKeepUp' /\ RevocationsFind'
    BY <2>1 DEF IInv, HashesInOrder, LoginsKeepUp, RevocationsFind, Revoking, Live
  <2>5. QED
    BY <2>2, <2>3, <2>4 DEF IInv
<1>2. CASE Next
  BY <1>2, RequestsStep, ProceedStep, AbandonStep, LogoutStep DEF Next
<1>3. QED
  BY <1>1, <1>2

\* Every account, session and request is of its type, and what a request carries fits its
\* next statement.
THEOREM Invariance ==
    ASSUME ConstantsAssumption, NilIsNoRow
    PROVE  Spec => []IInv
<1>1. Init => IInv
  BY Start
<1>2. IInv /\ [Next]_vars => IInv'
  BY Step
<1>3. QED
  BY <1>1, <1>2, PTL DEF Spec

\* A user and its profile are deleted together: no order of an edit of the profile, whose
\* UPDATE joins users, and a deletion separates the two rows.
THEOREM Together ==
    ASSUME ConstantsAssumption, NilIsNoRow
    PROVE  Spec => []DeletedTogether
<1>1. IInv => DeletedTogether
  BY DEF IInv
<1>2. QED
  BY <1>1, Invariance, PTL

\* A revocation leaves no session of an older password live but those that were born too late
\* for it: of a login that was verified before and inserted after it looked, or of a rotation
\* that outran it.
THEOREM Ends ==
    ASSUME ConstantsAssumption, NilIsNoRow
    PROVE  Spec => []PasswordEndsSessions
<1>1. IInv => PasswordEndsSessions
  BY DEF IInv
<1>2. QED
  BY <1>1, Invariance, PTL

\* Only a statement that stores a password leads from storing to revoking.
LEMMA OnlyStores ==
    ASSUME IInv, NEW o \in Conns, Requests(o) \/ Proceed(o) \/ Abandon(o),
           NEW t \in Conns, pc[t] = "store", pc'[t] = "revoke"
    PROVE  StorePassword(t) /\ MayStore(t)
<1> USE DEF Finish, Goto, ContinueIf
<1>1. pc \in [Conns -> Statements]
  BY DEF IInv, TypeOK
<1>2. ASSUME NEW statement, pc' = [pc EXCEPT ![o] = statement]
      PROVE  o = t /\ statement = "revoke"
  BY <1>1, <1>2
<1>3. ~Requests(o) /\ ~Abandon(o)
  BY <1>2 DEF Requests, Begin, Register, Login, UpdateProfile, UpdateStatus, ChangePassword,
              ResetPassword, Delete, Refresh, Abandon
<1>4. /\ ~Authenticate(o) /\ ~EditProfile(o) /\ ~LockProfile(o) /\ ~TouchUser(o)
      /\ ~CommitProfile(o) /\ ~CommitInsert(o)
  BY <1>2 DEF Authenticate, EditProfile, LockProfile, TouchUser, CommitProfile, CommitInsert
<1>5. /\ ~DeleteUser(o) /\ ~DeleteProfile(o) /\ ~CommitDelete(o) /\ ~SetStatus(o)
      /\ ~ComparePassword(o) /\ ~SnapshotRevoke(o) /\ ~ApplyRevoke(o) /\ ~CheckUser(o)
      /\ ~AbortDeadlocked(o)
  BY <1>2 DEF DeleteUser, DeleteProfile, CommitDelete, SetStatus, ComparePassword, SnapshotRevoke,
              ApplyRevoke, CheckUser, AbortDeadlocked
<1>6. /\ ~Reload(o)
      /\ \A p \in PublicIDs : ~InsertUser(o, p)
      /\ \A s \in Sessions : ~CreateSession(o, s) /\ ~Rotate(o, s)
  BY <1>2 DEF Reload, InsertUser, RetryInsert, CreateSession, Rotate
<1>7. StorePassword(o)
  BY <1>3, <1>4, <1>5, <1>6 DEF Proceed
<1>8. MayStore(o) /\ o = t
  BY <1>2, <1>7 DEF StorePassword
<1>9. QED
  BY <1>7, <1>8

\* A change of the password replaces the hash that its request compared.
THEOREM Compared ==
    ASSUME ConstantsAssumption, NilIsNoRow
    PROVE  Spec => ChangeReplacesCompared
<1> DEFINE Replaces ==
        \A t \in Conns :
           pc[t] = "store" /\ pc'[t] = "revoke" /\ req[t].op = "change" =>
               user[req[t].id].hash = req[t].hash
<1>1. IInv /\ [Next]_vars => [Replaces]_vars
  <2> SUFFICES ASSUME IInv, Next,
                      NEW t \in Conns, pc[t] = "store", pc'[t] = "revoke", req[t].op = "change"
               PROVE  user[req[t].id].hash = req[t].hash
    OBVIOUS
  <2>1. PICK o \in Conns : Requests(o) \/ Proceed(o) \/ Abandon(o)
    BY DEF Next, Logout
  <2>2. StorePassword(t) /\ MayStore(t)
    BY <2>1, OnlyStores
  <2>3. QED
    BY <2>2 DEF MayStore
<1>2. QED
  BY <1>1, Invariance, PTL DEF Spec, ChangeReplacesCompared

(***************************************************************************)
(* What holds of a deleted account, whose profile an edit that waited for  *)
(* the deletion still changes.                                             *)
(***************************************************************************)

\* The row of a deleted user is never written again: no status, password or second deletion
\* that was already on its way reaches it. Its profile stays deleted, whatever edit of the
\* contents was waiting for the deletion.
DeletedStays ==
    [][\A p \in PublicIDs : user[p] # Nil /\ user[p].deleted =>
          user'[p] = user[p] /\ profile'[p].deleted]_vars

LEMMA DeletedRowKept ==
    ASSUME NilIsNoRow, IInv, NEW t \in Conns, Requests(t) \/ Proceed(t) \/ Abandon(t),
           NEW p \in PublicIDs, user[p] # Nil, user[p].deleted
    PROVE  user'[p] = user[p]
<1>1. user[p] \in UserRow /\ DOMAIN user = PublicIDs
  BY FoundIsRow DEF IInv, TypeOK
<1>2. CASE UNCHANGED user
  BY <1>2
<1>3. CASE CommitInsert(t)
  <2>1. req[t].id # p
    BY <1>3, FoundIsRow DEF CommitInsert
  <2>2. QED
    BY <1>3, <2>1 DEF CommitInsert
<1>4. CASE CommitDelete(t)
  <2>1. [user[p] EXCEPT !.deleted = TRUE] = user[p]
    BY <1>1 DEF UserRow
  <2>2. user' = [user EXCEPT ![req[t].id] = [user[req[t].id] EXCEPT !.deleted = TRUE]]
    BY <1>4 DEF CommitDelete
  <2>3. QED
    BY <1>1, <2>1, <2>2
<1>5. CASE SetStatus(t)
  <2>1. CASE Found(req[t].id)
    <3>1. req[t].id # p
      BY <2>1 DEF Found
    <3>2. \E row : user' = [user EXCEPT ![req[t].id] = row]
      BY <1>5, <2>1 DEF SetStatus
    <3>3. QED
      BY <1>1, <3>1, <3>2
  <2>2. CASE ~Found(req[t].id)
    BY <1>2, <1>5, <2>2 DEF SetStatus
  <2>3. QED
    BY <2>1, <2>2
<1>6. CASE StorePassword(t)
  <2>1. CASE MayStore(t)
    <3>1. req[t].id # p
      BY <2>1 DEF MayStore, Found
    <3>2. \E row : user' = [user EXCEPT ![req[t].id] = row]
      BY <1>6, <2>1 DEF StorePassword
    <3>3. QED
      BY <1>1, <3>1, <3>2
  <2>2. CASE ~MayStore(t)
    BY <1>2, <1>6, <2>2 DEF StorePassword
  <2>3. QED
    BY <2>1, <2>2
<1>7. ASSUME Requests(t) \/ Abandon(t) PROVE UNCHANGED user
  BY <1>7 DEF Requests, Register, Login, UpdateProfile, UpdateStatus, ChangePassword,
              ResetPassword, Delete, Refresh, Begin, tables, Abandon
<1>8. ASSUME \/ \E q \in PublicIDs : InsertUser(t, q)
             \/ Authenticate(t) \/ EditProfile(t) \/ LockProfile(t) \/ TouchUser(t)
             \/ CommitProfile(t) \/ DeleteUser(t) \/ DeleteProfile(t) \/ Reload(t)
             \/ ComparePassword(t) \/ SnapshotRevoke(t) \/ ApplyRevoke(t) \/ CheckUser(t)
             \/ \E s \in Sessions : CreateSession(t, s) \/ Rotate(t, s)
             \/ AbortDeadlocked(t)
      PROVE  UNCHANGED user
  BY <1>8 DEF InsertUser, Authenticate, EditProfile, LockProfile, TouchUser, CommitProfile,
              DeleteUser, DeleteProfile, Reload, ComparePassword, SnapshotRevoke, ApplyRevoke,
              CheckUser, CreateSession, Rotate, AbortDeadlocked, ContinueIf, tables
<1>9. QED
  BY <1>2, <1>3, <1>4, <1>5, <1>6, <1>7, <1>8 DEF Proceed

\* A deleted account stays as it was deleted but for the contents of its profile.
THEOREM DeletionFinal ==
    ASSUME ConstantsAssumption, NilIsNoRow
    PROVE  Spec => DeletedStays
<1> DEFINE Stays == \A p \in PublicIDs : user[p] # Nil /\ user[p].deleted =>
                        user'[p] = user[p] /\ profile'[p].deleted
<1>1. IInv /\ [Next]_vars => [Stays]_vars
  <2> SUFFICES ASSUME IInv, Next, NEW p \in PublicIDs, user[p] # Nil, user[p].deleted
               PROVE  user'[p] = user[p] /\ profile'[p].deleted
    OBVIOUS
  <2>1. user'[p] = user[p]
    BY DeletedRowKept DEF Next, Logout
  <2>2. DeletedTogether'
    BY Step DEF IInv
  <2>3. QED
    BY <2>1, <2>2 DEF DeletedTogether
<1>2. QED
  BY <1>1, Invariance, PTL DEF Spec, DeletedStays

=============================================================================
