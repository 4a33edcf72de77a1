----------------------------- MODULE AccessControl -----------------------------
(***************************************************************************)
(* Who gets to a handler. A route has a chain of middleware: Authenticate  *)
(* parses the access token of the cookie and loads its user, RequireAdmin  *)
(* and RequireSelf look at the user so loaded. Then the handler runs, and  *)
(* those of the administrators change users. Requests run at once, tokens  *)
(* live on for their time whatever becomes of the user, and the lookup may *)
(* fail with the database.                                                 *)
(*                                                                         *)
(* A token is the role it claims; signing and the clock are left out, and  *)
(* a request may carry a token that has expired. No code changes a role:   *)
(* that is done in the database, as the comments of the middleware expect. *)
(*                                                                         *)
(* The definitions marked "Mutation" are mistakes the code could have made *)
(* in the definition that follows. Nothing uses them.                      *)
(***************************************************************************)
EXTENDS Naturals, Sequences

CONSTANTS
    Users,
    Admins,     \* the users that are administrators at first
    Requests,   \* handlers that run at once
    Calls       \* the requests that clients send

ASSUME AdminsAssumption == Admins \subseteq Users

VARIABLES
    user,     \* the rows of the users
    claim,    \* the role in the last access token of each user, or "none"
    step,     \* where each request stands
    request,  \* its route, caller and target, and the token it carries
    answer,   \* what it was answered
    caller,   \* what its caller was at some moment since it arrived
    broken    \* the requests whose lookup has failed with the database

vars == <<user, claim, step, request, answer, caller, broken>>
history == <<caller, broken>>

-----------------------------------------------------------------------------
Roles == {"admin", "member"}
UserRow == [role : Roles, active : BOOLEAN, deleted : BOOLEAN]

\* The chain of each kind of route, in the order it is written.
Chain ==
    [public |-> <<>>,
     authenticated |-> <<"Authenticate">>,
     self |-> <<"Authenticate", "RequireSelf">>,
     admin |-> <<"Authenticate", "RequireAdmin">>]

Tokens == {"none", "expired"} \cup Roles
Request == [route : DOMAIN Chain, owner : Users, target : Users, token : Tokens]

ASSUME CallsAssumption == Calls \subseteq Request /\ Calls # {}

\* What the contract asks of the caller of a route.
Live(row) == row.active /\ ~row.deleted

MayCall(q, row) ==
    /\ Live(row)
    /\ q.route = "admin" => row.role = "admin"
    /\ q.route = "self" => row.role = "admin" \/ q.target = q.owner

\* What the history notes of the caller of a request when his row is this one.
Noted(q, row) == {IF MayCall(q, row) THEN "entitled" ELSE "unentitled"}

Init ==
    /\ user = [u \in Users |->
                 [role |-> IF u \in Admins THEN "admin" ELSE "member",
                  active |-> TRUE, deleted |-> FALSE]]
    /\ claim = [u \in Users |-> "none"]
    /\ step = [r \in Requests |-> "idle"]
    /\ request = [r \in Requests |-> CHOOSE q \in Calls : TRUE]
    /\ answer = [r \in Requests |-> "none"]
    /\ caller = [r \in Requests |-> {}]
    /\ broken = {}

\* Mutation: the role is left out of the claims.
ClaimOfNobody(u) == ""

ClaimOf(u) == user[u].role

\* IssueAccess, at the end of a login or a refresh that has found the user active.
IssueAccess(u) ==
    /\ Live(user[u])
    /\ claim' = [claim EXCEPT ![u] = ClaimOf(u)]
    /\ UNCHANGED <<user, step, request, answer, history>>

\* A row changes, under the requests of the user as well.
SetUser(u, row) ==
    /\ user' = [user EXCEPT ![u] = row]
    /\ caller' = [r \in Requests |->
                    IF request[r].owner = u /\ step[r] # "idle"
                    THEN caller[r] \cup Noted(request[r], row) ELSE caller[r]]

\* Somebody changes the role in the database.
SetRole(u, role) ==
    /\ role # user[u].role
    /\ SetUser(u, [user[u] EXCEPT !.role = role])
    /\ UNCHANGED <<claim, step, request, answer, broken>>

-----------------------------------------------------------------------------
(* The middleware.                                                         *)

Arrive(r, q) ==
    /\ step[r] = "idle"
    /\ q.token \in {"none", "expired", claim[q.owner]}
    /\ step' = [step EXCEPT ![r] = "parse"]
    /\ request' = [request EXCEPT ![r] = q]
    /\ answer' = [answer EXCEPT ![r] = "none"]
    /\ caller' = [caller EXCEPT ![r] = Noted(q, user[q.owner])]
    /\ broken' = broken \ {r}
    /\ UNCHANGED <<user, claim>>

Goto(r, s) ==
    /\ step' = [step EXCEPT ![r] = s]
    /\ UNCHANGED answer

Finish(r, status) ==
    /\ step' = [step EXCEPT ![r] = "idle"]
    /\ answer' = [answer EXCEPT ![r] = status]

\* Mutation: the middleware is wrapped in the order it is written.
FirstOfReversed(chain) == chain[Len(chain)]

\* register wraps from the last to the first, so that the first of the chain runs first.
First(chain) == chain[1]

\* The cookie is there, and ParseAccess returns no error.
Parses(token) == token \in Roles

\* Without an identity in the context, RequireAdmin and RequireSelf answer 401 as well.
Parse(r) ==
    /\ step[r] = "parse"
    /\ LET chain == Chain[request[r].route]
       IN IF chain = <<>> THEN Goto(r, "handle")
          ELSE IF First(chain) = "Authenticate" /\ Parses(request[r].token) THEN Goto(r, "lookup")
          ELSE Finish(r, "unauthorized")
    /\ UNCHANGED <<user, claim, request, history>>

\* Mutation: the middleware believes the role that the token claims.
RoleOfClaims(q) == q.token

\* RequireAdmin and RequireSelf use the identity.
RoleOf(q) == user[q.owner].role

\* FindUserByPublicID does not find a deleted user.
Known(q) == ~user[q.owner].deleted /\ user[q.owner].active

Allowed(q) ==
    CASE q.route = "admin" -> RoleOf(q) = "admin"
      [] q.route = "self" -> RoleOf(q) = "admin" \/ q.target = q.owner
      [] OTHER -> TRUE

Lookup(r) ==
    /\ step[r] = "lookup"
    /\ IF ~Known(request[r]) THEN Finish(r, "unauthorized")
       ELSE IF Allowed(request[r]) THEN Goto(r, "handle")
       ELSE Finish(r, "forbidden")
    /\ UNCHANGED <<user, claim, request, history>>

\* An error of the lookup is answered like an unknown user.
LookupFails(r) ==
    /\ step[r] = "lookup"
    /\ Finish(r, "unauthorized")
    /\ broken' = broken \cup {r}
    /\ UNCHANGED <<user, claim, request, caller>>

-----------------------------------------------------------------------------
(* The handlers. Only those that change users change anything here.        *)

Changes(row) ==
    IF row.deleted THEN {row}
    ELSE {[row EXCEPT !.active = active] : active \in BOOLEAN}
             \cup {[row EXCEPT !.deleted = TRUE]}

Handle(r) ==
    /\ step[r] = "handle"
    /\ Finish(r, "ok")
    /\ IF request[r].route = "admin"
       THEN \E row \in Changes(user[request[r].target]) : SetUser(request[r].target, row)
       ELSE UNCHANGED <<user, caller>>
    /\ UNCHANGED <<claim, request, broken>>

-----------------------------------------------------------------------------
Next ==
    \/ \E u \in Users : IssueAccess(u) \/ \E role \in Roles : SetRole(u, role)
    \/ \E r \in Requests :
          \/ \E q \in Calls : Arrive(r, q)
          \/ Parse(r) \/ Lookup(r) \/ LookupFails(r) \/ Handle(r)

Spec == Init /\ [][Next]_vars

-----------------------------------------------------------------------------
(* Properties.                                                             *)

\* Every variable has its type.
TypeOK ==
    /\ user \in [Users -> UserRow]
    /\ claim \in [Users -> Roles \cup {"none"}]
    /\ step \in [Requests -> {"idle", "parse", "lookup", "handle"}]
    /\ request \in [Requests -> Request]
    /\ answer \in [Requests -> {"none", "ok", "unauthorized", "forbidden"}]
    /\ caller \in [Requests -> SUBSET {"entitled", "unentitled"}]
    /\ broken \subseteq Requests

\* A handler runs for a caller who has a good token and who, at some moment since the request
\* arrived, was entitled to it. Nobody gets in on what he was when his token was issued: the
\* comment on IdentityFromContext.
AdmittedForCause ==
    \A r \in Requests :
        step[r] = "handle" /\ request[r].route # "public" =>
            request[r].token \in Roles /\ "entitled" \in caller[r]

\* The other way round: who is refused has no good token, was at some moment not entitled, or
\* came when the database failed.
RefusedForCause ==
    \A r \in Requests :
        answer[r] \in {"unauthorized", "forbidden"} =>
            \/ request[r].token \notin Roles
            \/ "unentitled" \in caller[r]
            \/ r \in broken

=============================================================================
