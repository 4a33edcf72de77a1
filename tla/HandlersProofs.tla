---------------------------- MODULE HandlersProofs ----------------------------
(***************************************************************************)
(* Proofs about what stands before and around a handler: that the chain of *)
(* middleware admits and refuses for cause, that the rate limiters admit   *)
(* neither too much nor too little, and that an upload leaves a whole file *)
(* or none, for every number of users, addresses, file names and requests  *)
(* at once.                                                                *)
(***************************************************************************)
EXTENDS MCHandlers, Integers, TLAPS

(***************************************************************************)
(* The inductive invariant.                                                *)
(***************************************************************************)

\* While a request is on its way the history knows what its caller is now.
CallerNoted(r) ==
    step[r] # "idle" => Noted(request[r], user[request[r].owner]) \subseteq caller[r]

\* A request that is on its way has not been answered, and gets to the lookup only with a
\* good token and only on a route that asks for one.
OnItsWay(r) ==
    /\ step[r] # "idle" => answer[r] = "none"
    /\ step[r] = "lookup" => request[r].token \in Roles /\ request[r].route # "public"

\* The conjunction is preserved by every step of every request.
IInv ==
    /\ TypeOK
    /\ \A r \in Requests : CallerNoted(r) /\ OnItsWay(r)
    /\ AdmittedForCause
    /\ RefusedForCause

(***************************************************************************)
(* Rows and chains.                                                        *)
(***************************************************************************)
LEMMA NotedIsNoted ==
    ASSUME NEW q, NEW row
    PROVE  /\ Noted(q, row) \subseteq {"entitled", "unentitled"}
           /\ "entitled" \in Noted(q, row) <=> MayCall(q, row)
           /\ "unentitled" \in Noted(q, row) <=> ~MayCall(q, row)
BY DEF Noted

LEMMA Chains ==
    ASSUME NEW q \in Request
    PROVE  /\ Chain[q.route] = <<>> <=> q.route = "public"
           /\ q.route # "public" => First(Chain[q.route]) = "Authenticate"
<1>1. q.route \in {"public", "authenticated", "self", "admin"}
  BY DEF Request, Chain
<1>2. CASE q.route = "public"
  BY <1>2 DEF Chain
<1>3. CASE q.route = "authenticated"
  BY <1>3 DEF Chain, First
<1>4. CASE q.route = "self"
  BY <1>4 DEF Chain, First
<1>5. CASE q.route = "admin"
  BY <1>5 DEF Chain, First
<1>6. QED
  BY <1>1, <1>2, <1>3, <1>4, <1>5

\* The middleware lets in exactly whom the contract lets in.
LEMMA MiddlewareIsContract ==
    ASSUME NEW q \in Request, q.route # "public"
    PROVE  MayCall(q, user[q.owner]) <=> Known(q) /\ Allowed(q)
<1>1. q.route \in {"authenticated", "self", "admin"}
  BY DEF Request, Chain
<1>2. QED
  BY <1>1 DEF MayCall, Live, Known, Allowed, RoleOf

LEMMA RowsChange ==
    ASSUME NEW row \in UserRow
    PROVE  /\ Changes(row) \subseteq UserRow
           /\ \A role \in Roles : [row EXCEPT !.role = role] \in UserRow
BY DEF Changes, UserRow

(***************************************************************************)
(* The steps.                                                              *)
(***************************************************************************)
LEMMA Start == Init => IInv
<1> SUFFICES ASSUME Init PROVE IInv
  OBVIOUS
<1>1. (CHOOSE q \in Calls : TRUE) \in Request
  BY CallsAssumption
<1>2. TypeOK
  BY <1>1 DEF Init, TypeOK, UserRow, Roles
<1>3. QED
  BY <1>2 DEF Init, IInv, CallerNoted, OnItsWay, AdmittedForCause, RefusedForCause

\* What one row of the users becomes is noted for all requests of the user.
LEMMA SetUserKeeps ==
    ASSUME IInv, NEW u \in Users, NEW row \in UserRow, SetUser(u, row)
    PROVE  /\ user' \in [Users -> UserRow]
           /\ caller' \in [Requests -> SUBSET {"entitled", "unentitled"}]
           /\ \A r \in Requests :
                 /\ caller[r] \subseteq caller'[r]
                 /\ step[r] # "idle" =>
                       Noted(request[r], user'[request[r].owner]) \subseteq caller'[r]
<1>1. user' \in [Users -> UserRow] /\ user' = [user EXCEPT ![u] = row]
  BY DEF SetUser, IInv, TypeOK
<1>2. ASSUME NEW r \in Requests
      PROVE  /\ caller[r] \subseteq caller'[r]
             /\ caller'[r] \subseteq {"entitled", "unentitled"}
             /\ step[r] # "idle" =>
                   Noted(request[r], user'[request[r].owner]) \subseteq caller'[r]
  <2>1. caller'[r] = IF request[r].owner = u /\ step[r] # "idle"
                     THEN caller[r] \cup Noted(request[r], row) ELSE caller[r]
    BY DEF SetUser
  <2>2. request[r].owner \in Users /\ caller[r] \subseteq {"entitled", "unentitled"}
    BY DEF IInv, TypeOK, Request
  <2>3. CASE request[r].owner = u
    <3>1. user'[request[r].owner] = row
      BY <1>1, <2>2, <2>3 DEF IInv, TypeOK
    <3>2. QED
      BY <2>1, <2>2, <2>3, <3>1, NotedIsNoted
  <2>4. CASE request[r].owner # u
    <3>1. user'[request[r].owner] = user[request[r].owner]
      BY <1>1, <2>2, <2>4 DEF IInv, TypeOK
    <3>2. QED
      BY <2>1, <2>2, <2>4, <3>1 DEF IInv, CallerNoted
  <2>5. QED
    BY <2>3, <2>4
<1>3. caller' \in [Requests -> SUBSET {"entitled", "unentitled"}]
  <2>1. DOMAIN caller' = Requests
    BY DEF SetUser
  <2>2. caller' = [r \in Requests |-> caller'[r]]
    BY DEF SetUser
  <2>3. QED
    BY <1>2, <2>2
<1>4. QED
  BY <1>1, <1>2, <1>3

\* No request moves, and what its caller has been is not forgotten.
LEMMA NobodyMoves ==
    ASSUME IInv, TypeOK', UNCHANGED <<step, request, answer, broken>>,
           \A r \in Requests :
              /\ caller[r] \subseteq caller'[r]
              /\ step[r] # "idle" => Noted(request[r], user'[request[r].owner]) \subseteq caller'[r]
    PROVE  IInv'
<1>1. \A r \in Requests : CallerNoted(r)'
  BY DEF CallerNoted
<1>2. \A r \in Requests : OnItsWay(r)'
  BY DEF IInv, OnItsWay
<1>3. AdmittedForCause' /\ RefusedForCause'
  BY DEF IInv, AdmittedForCause, RefusedForCause
<1>4. QED
  BY <1>1, <1>2, <1>3 DEF IInv

LEMMA IssueAccessKeeps ==
    ASSUME IInv, NEW u \in Users, IssueAccess(u)
    PROVE  IInv'
<1>1. ClaimOf(u) \in Roles
  BY DEF ClaimOf, IInv, TypeOK, UserRow
<1>2. TypeOK'
  BY <1>1 DEF IssueAccess, history, IInv, TypeOK
<1>3. QED
  BY <1>2, NobodyMoves DEF IssueAccess, history, IInv, CallerNoted

LEMMA SetRoleKeeps ==
    ASSUME IInv, NEW u \in Users, NEW role \in Roles, SetRole(u, role)
    PROVE  IInv'
<1> DEFINE row == [user[u] EXCEPT !.role = role]
<1>1. row \in UserRow
  BY RowsChange DEF IInv, TypeOK
<1>2. SetUser(u, row) /\ UNCHANGED <<claim, step, request, answer, broken>>
  BY DEF SetRole
<1>3. TypeOK'
  BY <1>1, <1>2, SetUserKeeps DEF IInv, TypeOK
<1>4. QED
  BY <1>1, <1>2, <1>3, SetUserKeeps, NobodyMoves

\* One request moves; the others and the callers of all stay as they are.
LEMMA OneMoves ==
    ASSUME IInv, TypeOK', NEW r \in Requests, UNCHANGED user,
           \A q \in Requests \ {r} :
              /\ step'[q] = step[q] /\ request'[q] = request[q] /\ answer'[q] = answer[q]
              /\ caller'[q] = caller[q] /\ (q \in broken' <=> q \in broken),
           CallerNoted(r)', OnItsWay(r)',
           step'[r] = "handle" /\ request'[r].route # "public" =>
               request'[r].token \in Roles /\ "entitled" \in caller'[r],
           answer'[r] \in {"unauthorized", "forbidden"} =>
               \/ request'[r].token \notin Roles
               \/ "unentitled" \in caller'[r]
               \/ r \in broken'
    PROVE  IInv'
<1>1. ASSUME NEW q \in Requests PROVE CallerNoted(q)' /\ OnItsWay(q)'
  BY DEF IInv, CallerNoted, OnItsWay
<1>2. AdmittedForCause' /\ RefusedForCause'
  BY DEF IInv, AdmittedForCause, RefusedForCause
<1>3. QED
  BY <1>1, <1>2 DEF IInv

LEMMA ArriveKeeps ==
    ASSUME IInv, NEW r \in Requests, NEW q \in Calls, Arrive(r, q)
    PROVE  IInv'
<1>1. q \in Request
  BY CallsAssumption
<1>2. Noted(q, user[q.owner]) \in SUBSET {"entitled", "unentitled"}
  BY NotedIsNoted
<1>3. TypeOK'
  BY <1>1, <1>2 DEF Arrive, IInv, TypeOK
<1>4. /\ step'[r] = "parse" /\ request'[r] = q /\ answer'[r] = "none"
      /\ caller'[r] = Noted(q, user[q.owner]) /\ UNCHANGED user
  BY DEF Arrive, IInv, TypeOK
<1>5. \A p \in Requests \ {r} :
         /\ step'[p] = step[p] /\ request'[p] = request[p] /\ answer'[p] = answer[p]
         /\ caller'[p] = caller[p] /\ (p \in broken' <=> p \in broken)
  BY DEF Arrive, IInv, TypeOK
<1>6. CallerNoted(r)' /\ OnItsWay(r)'
  BY <1>4 DEF CallerNoted, OnItsWay
<1>7. QED
  BY <1>3, <1>4, <1>5, <1>6, OneMoves

\* A request is answered while its row, its token and its history stay.
LEMMA FinishKeeps ==
    ASSUME IInv, NEW r \in Requests, NEW a \in {"ok", "unauthorized", "forbidden"}, Finish(r, a),
           UNCHANGED <<user, claim, request, caller>>,
           broken \subseteq broken', broken' \subseteq broken \cup {r},
           a \in {"unauthorized", "forbidden"} =>
               \/ request[r].token \notin Roles
               \/ "unentitled" \in caller[r]
               \/ r \in broken'
    PROVE  IInv'
<1>1. TypeOK'
  BY DEF Finish, IInv, TypeOK
<1>2. step'[r] = "idle" /\ answer'[r] = a
  BY DEF Finish, IInv, TypeOK
<1>3. \A q \in Requests \ {r} : step'[q] = step[q] /\ answer'[q] = answer[q]
  BY DEF Finish, IInv, TypeOK
<1>4. CallerNoted(r)' /\ OnItsWay(r)'
  BY <1>2 DEF CallerNoted, OnItsWay
<1>5. QED
  BY <1>1, <1>2, <1>3, <1>4, OneMoves

\* A request goes on to the next step.
LEMMA GotoKeeps ==
    ASSUME IInv, NEW r \in Requests, NEW s \in {"lookup", "handle"}, Goto(r, s),
           UNCHANGED <<user, claim, request, history>>, step[r] # "idle",
           s = "lookup" => request[r].token \in Roles /\ request[r].route # "public",
           s = "handle" /\ request[r].route # "public" =>
               request[r].token \in Roles /\ "entitled" \in caller[r]
    PROVE  IInv'
<1>1. TypeOK'
  BY DEF Goto, history, IInv, TypeOK
<1>2. step'[r] = s /\ answer'[r] = "none"
  BY DEF Goto, IInv, TypeOK, OnItsWay
<1>3. \A q \in Requests \ {r} : step'[q] = step[q]
  BY DEF Goto, IInv, TypeOK
<1>4. CallerNoted(r)'
  BY DEF CallerNoted, IInv, history
<1>5. OnItsWay(r)'
  BY <1>2 DEF OnItsWay
<1>6. QED
  BY <1>1, <1>2, <1>3, <1>4, <1>5, OneMoves DEF Goto, history

LEMMA ParseKeeps ==
    ASSUME IInv, NEW r \in Requests, Parse(r)
    PROVE  IInv'
<1>1. request[r] \in Request
  BY DEF IInv, TypeOK
<1>2. step[r] = "parse" /\ UNCHANGED <<user, claim, request, history>>
  BY DEF Parse
<1>3. CASE request[r].route = "public"
  <2>1. Goto(r, "handle")
    BY <1>1, <1>3, Chains DEF Parse
  <2>2. QED
    BY <1>2, <1>3, <2>1, GotoKeeps
<1>4. CASE request[r].route # "public" /\ Parses(request[r].token)
  <2>1. Goto(r, "lookup")
    BY <1>1, <1>4, Chains DEF Parse
  <2>2. QED
    BY <1>2, <1>4, <2>1, GotoKeeps DEF Parses
<1>5. CASE request[r].route # "public" /\ ~Parses(request[r].token)
  <2>1. Finish(r, "unauthorized")
    BY <1>1, <1>5, Chains DEF Parse
  <2>2. QED
    BY <1>2, <1>5, <2>1, FinishKeeps DEF Parses, history
<1>6. QED
  BY <1>3, <1>4, <1>5

LEMMA LookupKeeps ==
    ASSUME IInv, NEW r \in Requests, Lookup(r)
    PROVE  IInv'
<1> DEFINE q == request[r]
<1>1. /\ step[r] = "lookup" /\ UNCHANGED <<user, claim, request, history>>
      /\ q \in Request /\ q.token \in Roles /\ q.route # "public"
      /\ Noted(q, user[q.owner]) \subseteq caller[r]
  BY DEF Lookup, IInv, TypeOK, OnItsWay, CallerNoted
<1>2. CASE MayCall(q, user[q.owner])
  <2>1. Goto(r, "handle")
    BY <1>1, <1>2, MiddlewareIsContract DEF Lookup
  <2>2. "entitled" \in caller[r]
    BY <1>1, <1>2, NotedIsNoted
  <2>3. QED
    BY <1>1, <2>1, <2>2, GotoKeeps
<1>3. CASE ~MayCall(q, user[q.owner])
  <2>1. Finish(r, "unauthorized") \/ Finish(r, "forbidden")
    BY <1>1, <1>3, MiddlewareIsContract DEF Lookup
  <2>2. "unentitled" \in caller[r]
    BY <1>1, <1>3, NotedIsNoted
  <2>3. QED
    BY <1>1, <2>1, <2>2, FinishKeeps DEF history
<1>4. QED
  BY <1>2, <1>3

LEMMA LookupFailsKeeps ==
    ASSUME IInv, NEW r \in Requests, LookupFails(r)
    PROVE  IInv'
BY FinishKeeps DEF LookupFails

LEMMA HandleKeeps ==
    ASSUME IInv, NEW r \in Requests, Handle(r)
    PROVE  IInv'
<1>1. Finish(r, "ok") /\ UNCHANGED <<claim, request, broken>> /\ request[r] \in Request
  BY DEF Handle, IInv, TypeOK
<1>2. CASE request[r].route # "admin"
  <2>1. UNCHANGED <<user, caller>>
    BY <1>2 DEF Handle
  <2>2. QED
    BY <1>1, <2>1, FinishKeeps
<1>3. CASE request[r].route = "admin"
  <2> DEFINE u == request[r].target
  <2>1. u \in Users
    BY <1>1 DEF Request
  <2>2. PICK row \in Changes(user[u]) : SetUser(u, row)
    BY <1>3 DEF Handle
  <2>3. row \in UserRow
    BY <2>1, <2>2, RowsChange DEF IInv, TypeOK
  <2>4. /\ user' \in [Users -> UserRow]
        /\ caller' \in [Requests -> SUBSET {"entitled", "unentitled"}]
        /\ \A q \in Requests :
              /\ caller[q] \subseteq caller'[q]
              /\ step[q] # "idle" =>
                    Noted(request[q], user'[request[q].owner]) \subseteq caller'[q]
    BY <2>1, <2>2, <2>3, SetUserKeeps
  <2>5. TypeOK'
    BY <1>1, <2>4 DEF Finish, IInv, TypeOK
  <2>6. /\ step'[r] = "idle" /\ answer'[r] = "ok"
        /\ \A q \in Requests \ {r} : step'[q] = step[q] /\ answer'[q] = answer[q]
    BY <1>1 DEF Finish, IInv, TypeOK
  <2>7. \A q \in Requests : CallerNoted(q)' /\ OnItsWay(q)'
    BY <1>1, <2>4, <2>6 DEF IInv, CallerNoted, OnItsWay
  <2>8. AdmittedForCause' /\ RefusedForCause'
    BY <1>1, <2>4, <2>6 DEF IInv, AdmittedForCause, RefusedForCause
  <2>9. QED
    BY <2>5, <2>7, <2>8 DEF IInv
<1>4. QED
  BY <1>2, <1>3

LEMMA StepKeeps == IInv /\ [Next]_vars => IInv'
<1> SUFFICES ASSUME IInv, [Next]_vars PROVE IInv'
  OBVIOUS
<1>1. ASSUME NEW u \in Users, IssueAccess(u) PROVE IInv'
  BY <1>1, IssueAccessKeeps
<1>2. ASSUME NEW u \in Users, NEW role \in Roles, SetRole(u, role) PROVE IInv'
  BY <1>2, SetRoleKeeps
<1>3. ASSUME NEW r \in Requests, NEW q \in Calls, Arrive(r, q) PROVE IInv'
  BY <1>3, ArriveKeeps
<1>4. ASSUME NEW r \in Requests, Parse(r) PROVE IInv'
  BY <1>4, ParseKeeps
<1>5. ASSUME NEW r \in Requests, Lookup(r) PROVE IInv'
  BY <1>5, LookupKeeps
<1>6. ASSUME NEW r \in Requests, LookupFails(r) PROVE IInv'
  BY <1>6, LookupFailsKeeps
<1>7. ASSUME NEW r \in Requests, Handle(r) PROVE IInv'
  BY <1>7, HandleKeeps
<1>8. CASE UNCHANGED vars
  BY <1>8 DEF vars, history, IInv, TypeOK, CallerNoted, OnItsWay, AdmittedForCause, RefusedForCause,
              Noted, MayCall, Live
<1>9. QED
  BY <1>1, <1>2, <1>3, <1>4, <1>5, <1>6, <1>7, <1>8 DEF Next

(***************************************************************************)
(* The theorems.                                                           *)
(***************************************************************************)

\* Whatever becomes of users while their requests are on the way, the history of each
\* request knows it: IInv holds between all steps.
THEOREM Invariance == Spec => []IInv
BY Start, StepKeeps, PTL DEF Spec

\* Authenticate loads the user of the token, and the checks behind it use what it has
\* loaded: nobody gets to a handler on what his token claims.
THEOREM Admission == Spec => []AdmittedForCause
<1>1. IInv => AdmittedForCause
  BY DEF IInv
<1>2. QED
  BY <1>1, Invariance, PTL

\* Nobody with a good token who is entitled all along is refused, unless the lookup fails.
THEOREM Refusal == Spec => []RefusedForCause
<1>1. IInv => RefusedForCause
  BY DEF IInv
<1>2. QED
  BY <1>1, Invariance, PTL

-----------------------------------------------------------------------------
(* The rate limiters.                                                      *)

\* How many requests limiter l has let through from address k up to tick i.
Upto(l, k, i) == IF i < 0 THEN 0 ELSE admitted[l][k][i]

\* The history counts what has been, and knows nothing of the future.
Cumulative(l, k) ==
    /\ \A i, j \in Limiter!Ticks : i <= j => admitted[l][k][i] <= admitted[l][k][j]
    /\ \A i \in Limiter!Ticks : i >= now => admitted[l][k][i] = admitted[l][k][now]

\* An address without a window has been let through at most as often as one window allows
\* since the interval began, and not in this tick.
NoWindow(l, k) ==
    /\ Upto(l, k, now) - Upto(l, k, now - Interval) <= Limiter!Allowed(l)
    /\ Upto(l, k, now - 1) = Upto(l, k, now)

\* A window counts what was let through since it was opened, none of it after its end, and
\* the interval that ended when it was opened saw no more than another window.
Counted(l, k, w) ==
    /\ w.start <= now /\ w.count <= Limiter!Allowed(l)
    /\ Upto(l, k, now) - Upto(l, k, w.start - 1) = w.count
    /\ \A i \in Limiter!Ticks : i - w.start >= Interval - 1 =>
           admitted[l][k][i] = admitted[l][k][now]
    /\ Upto(l, k, w.start - 1) - Upto(l, k, w.start - Interval) <= Limiter!Allowed(l)

\* What the map of a limiter holds of an address agrees with what was let through.
WindowOK(l, k) ==
    /\ Cumulative(l, k)
    /\ IF windows[l][k] = Nil THEN NoWindow(l, k) ELSE Counted(l, k, windows[l][k])

\* The conjunction is preserved by every request and every tick of the clock.
LimiterInv == Limiter!TypeOK /\ \A l \in Limiter!Limiters, k \in Keys : WindowOK(l, k)

LEMMA Clock ==
    ASSUME Limiter!TypeOK
    PROVE  /\ now \in Nat /\ MaxNow \in Nat /\ now <= MaxNow /\ Limiter!Ticks = 0..MaxNow
           /\ Interval \in Nat /\ Interval > 0
           /\ TicksPerSecond \in Nat /\ TicksPerSecond > 0
BY LimiterAssumption DEF Limiter!ConstantsAssumption, Limiter!TypeOK, Limiter!Ticks

LEMMA AllowedIsNat ==
    ASSUME NEW l \in Limiter!Limiters
    PROVE  /\ Limiter!Allowed(l) \in Nat /\ Limiter!Allowed(l) >= 1 /\ Limits[l] \in Int
           /\ Limits[l] <= Limiter!Allowed(l)
BY LimiterAssumption DEF Limiter!ConstantsAssumption, Limiter!Allowed

LEMMA CountsAreNat ==
    ASSUME Limiter!TypeOK, NEW l \in Limiter!Limiters, NEW k \in Keys
    PROVE  /\ admitted[l][k] \in [Limiter!Ticks -> Nat]
           /\ \A i \in Int : i <= MaxNow => Upto(l, k, i) \in Nat
           /\ windows[l][k] \in Limiter!Window \cup {Nil}
<1>1. admitted[l][k] \in [Limiter!Ticks -> Nat] /\ windows[l][k] \in Limiter!Window \cup {Nil}
  BY DEF Limiter!TypeOK
<1>2. ASSUME NEW i \in Int, i <= MaxNow PROVE Upto(l, k, i) \in Nat
  BY <1>1, <1>2, Clock DEF Upto, Limiter!Ticks
<1>3. QED
  BY <1>1, <1>2

LEMMA WindowIsRecord ==
    ASSUME Limiter!TypeOK, NEW w \in Limiter!Window
    PROVE  w.start \in Nat /\ w.start <= MaxNow /\ w.count \in Nat /\ w.count >= 1 /\ w # Nil
BY Clock, LimiterAssumption DEF Limiter!Window, Limiter!Ticks, Limiter!NilIsNoWindow

\* The totals of an address never fall.
LEMMA UptoRises ==
    ASSUME LimiterInv, NEW l \in Limiter!Limiters, NEW k \in Keys,
           NEW i \in Int, NEW j \in Int, i <= j, j <= MaxNow
    PROVE  Upto(l, k, i) <= Upto(l, k, j)
<1>1. Upto(l, k, i) \in Nat /\ Upto(l, k, j) \in Nat
  BY CountsAreNat, Clock DEF LimiterInv
<1>2. CASE i < 0
  BY <1>1, <1>2 DEF Upto
<1>3. CASE i >= 0
  <2>1. i \in Limiter!Ticks /\ j \in Limiter!Ticks
    BY <1>3, Clock DEF LimiterInv
  <2>2. QED
    BY <1>3, <2>1 DEF Upto, LimiterInv, WindowOK, Cumulative
<1>4. QED
  BY <1>2, <1>3

\* What an expired window leaves behind.
LEMMA ExpiredLeaves ==
    ASSUME LimiterInv, NEW l \in Limiter!Limiters, NEW k \in Keys,
           windows[l][k] # Nil, Limiter!Expired(windows[l][k])
    PROVE  NoWindow(l, k)
<1> DEFINE w == windows[l][k]
<1>1. w \in Limiter!Window
  BY CountsAreNat DEF LimiterInv
<1>2. w.start \in Nat /\ w.count \in Nat
  BY <1>1, WindowIsRecord DEF LimiterInv
<1>3. Counted(l, k, w)
  BY DEF LimiterInv, WindowOK
<1>4. now - w.start >= Interval
  BY DEF Limiter!Expired
<1>5. now - 1 \in Limiter!Ticks /\ now \in Limiter!Ticks
  BY <1>2, <1>4, Clock DEF LimiterInv
<1>6. Upto(l, k, now - 1) = Upto(l, k, now)
  <2>1. (now - 1) - w.start >= Interval - 1
    BY <1>2, <1>4, Clock DEF LimiterInv
  <2>2. admitted[l][k][now - 1] = admitted[l][k][now]
    BY <1>3, <1>5, <2>1 DEF Counted
  <2>3. QED
    BY <1>5, <2>2, Clock DEF Upto, LimiterInv
<1>7. Upto(l, k, w.start - 1) <= Upto(l, k, now - Interval)
  <2>1. /\ w.start - 1 \in Int /\ now - Interval \in Int
        /\ w.start - 1 <= now - Interval /\ now - Interval <= MaxNow
    BY <1>2, <1>4, Clock DEF LimiterInv
  <2>2. QED
    BY <2>1, UptoRises
<1>8. /\ Upto(l, k, now) \in Nat /\ Upto(l, k, now - Interval) \in Nat
      /\ Upto(l, k, w.start - 1) \in Nat
  <2>1. /\ now \in Nat /\ MaxNow \in Nat /\ now <= MaxNow
        /\ Interval \in Nat /\ Interval > 0
    BY Clock DEF LimiterInv
  <2>2. PICK s \in Nat : s = w.start /\ now - s >= Interval
    BY <1>2, <1>4
  <2>3. /\ s - 1 \in Int /\ now - Interval \in Int /\ now \in Int
        /\ s - 1 <= MaxNow /\ now - Interval <= MaxNow /\ now <= MaxNow
    BY <2>1, <2>2
  <2>4. QED
    BY <2>2, <2>3, CountsAreNat DEF LimiterInv
<1>9. w.count <= Limiter!Allowed(l) /\ Upto(l, k, now) - Upto(l, k, w.start - 1) = w.count
  BY <1>3 DEF Counted
<1>10. Upto(l, k, now) - Upto(l, k, now - Interval) <= Limiter!Allowed(l)
  BY <1>2, <1>7, <1>8, <1>9, AllowedIsNat
<1>11. QED
  BY <1>6, <1>10 DEF NoWindow

LEMMA InvGivesTwice == LimiterInv => AtMostTwice
<1> SUFFICES ASSUME LimiterInv, NEW l \in Limiter!Limiters, NEW k \in Keys
             PROVE  Limiter!AdmittedOfLate(l, k) <= 2 * Limiter!Allowed(l)
  BY DEF AtMostTwice, Limiter!AtMostTwice
<1> DEFINE w == windows[l][k]
<1>1. /\ Upto(l, k, now) \in Nat /\ Upto(l, k, now - Interval) \in Nat
      /\ Limiter!AdmittedOfLate(l, k) = Upto(l, k, now) - Upto(l, k, now - Interval)
  <2>1. Upto(l, k, now) \in Nat /\ Upto(l, k, now - Interval) \in Nat
    BY Clock, CountsAreNat DEF LimiterInv
  <2>2. QED
    BY <2>1, Clock DEF Limiter!AdmittedOfLate, Upto, LimiterInv
<1>2. CASE w = Nil
  BY <1>1, <1>2, AllowedIsNat DEF LimiterInv, WindowOK, NoWindow
<1>3. CASE w # Nil
  <2>1. w.start \in Nat /\ w.start <= MaxNow /\ w.count \in Nat
    BY <1>3, CountsAreNat, WindowIsRecord DEF LimiterInv
  <2>2. Counted(l, k, w)
    BY <1>3 DEF LimiterInv, WindowOK
  <2>3. Upto(l, k, w.start - Interval) <= Upto(l, k, now - Interval)
    <3>1. w.start <= now
      BY <2>2 DEF Counted
    <3>2. /\ w.start - Interval \in Int /\ now - Interval \in Int
          /\ w.start - Interval <= now - Interval /\ now - Interval <= MaxNow
      BY <2>1, <3>1, Clock DEF LimiterInv
    <3>3. QED
      BY <3>2, UptoRises
  <2>4. Upto(l, k, w.start - 1) \in Nat /\ Upto(l, k, w.start - Interval) \in Nat
    <3>1. /\ w.start - 1 \in Int /\ w.start - Interval \in Int
          /\ w.start - 1 <= MaxNow /\ w.start - Interval <= MaxNow
      BY <2>1, Clock DEF LimiterInv
    <3>2. QED
      BY <3>1, CountsAreNat DEF LimiterInv
  <2>5. QED
    BY <1>1, <2>1, <2>2, <2>3, <2>4, AllowedIsNat DEF Counted
<1>4. QED
  BY <1>2, <1>3

\* The interval that ends now is refused for cause.
LEMMA RefusalIsLate ==
    ASSUME LimiterInv, NEW l \in Limiter!Limiters, NEW k \in Keys,
           ~Limiter!OpensWindow(windows[l], k), ~Limiter!HasRoom(windows[l][k], l)
    PROVE  Limiter!AdmittedOfLate(l, k) >= Limits[l]
<1> DEFINE w == windows[l][k]
<1>1. w # Nil /\ ~Limiter!Expired(w) /\ ~(w.count < Limits[l])
  BY DEF Limiter!OpensWindow, Limiter!HasRoom
<1>2. w.start \in Nat /\ w.start <= MaxNow /\ w.count \in Nat
  BY <1>1, CountsAreNat, WindowIsRecord DEF LimiterInv
<1>3. Upto(l, k, now) - Upto(l, k, w.start - 1) = w.count
  BY <1>1 DEF LimiterInv, WindowOK, Counted
<1>4. /\ now - Interval \in Int /\ w.start - 1 \in Int /\ now \in Int
      /\ now - Interval <= w.start - 1 /\ w.start - 1 <= MaxNow /\ now <= MaxNow
  <2>1. /\ now \in Nat /\ MaxNow \in Nat /\ now <= MaxNow
        /\ Interval \in Nat /\ Interval > 0
    BY Clock DEF LimiterInv
  <2>2. PICK s \in Nat : s = w.start /\ s <= MaxNow /\ ~(now - s >= Interval)
    BY <1>1, <1>2 DEF Limiter!Expired
  <2>3. /\ now - Interval \in Int /\ s - 1 \in Int /\ now \in Int
        /\ now - Interval <= s - 1 /\ s - 1 <= MaxNow /\ now <= MaxNow
    BY <2>1, <2>2
  <2>4. QED
    BY <2>2, <2>3
<1>5. Upto(l, k, now - Interval) <= Upto(l, k, w.start - 1)
  BY <1>4, UptoRises
<1>6. /\ Upto(l, k, now) \in Nat /\ Upto(l, k, now - Interval) \in Nat
      /\ Upto(l, k, w.start - 1) \in Nat
  <2>1. now - Interval <= MaxNow
    BY <1>4, Clock DEF LimiterInv
  <2>2. QED
    BY <1>4, <2>1, CountsAreNat DEF LimiterInv
<1>7. Limiter!AdmittedOfLate(l, k) = Upto(l, k, now) - Upto(l, k, now - Interval)
  BY <1>6, Clock DEF Limiter!AdmittedOfLate, Upto, LimiterInv
<1>8. QED
  BY <1>1, <1>2, <1>3, <1>5, <1>6, <1>7, AllowedIsNat

(***************************************************************************)
(* One address of one limiter in a step.                                   *)
(***************************************************************************)
\* Its window stays as it is, or has expired and is swept.
LEMMA BystanderKeeps ==
    ASSUME LimiterInv, NEW l \in Limiter!Limiters, NEW k \in Keys,
           now' = now, admitted'[l][k] = admitted[l][k],
           \/ windows'[l][k] = windows[l][k]
           \/ windows[l][k] # Nil /\ Limiter!Expired(windows[l][k]) /\ windows'[l][k] = Nil
    PROVE  WindowOK(l, k)'
<1>1. \A i : Upto(l, k, i)' = Upto(l, k, i)
  BY DEF Upto
<1>2. Cumulative(l, k)'
  BY DEF LimiterInv, WindowOK, Cumulative, Limiter!Ticks
<1>3. CASE windows'[l][k] = windows[l][k]
  BY <1>1, <1>2, <1>3 DEF LimiterInv, WindowOK, NoWindow, Counted, Limiter!Allowed, Limiter!Ticks
<1>4. CASE windows[l][k] # Nil /\ Limiter!Expired(windows[l][k]) /\ windows'[l][k] = Nil
  <2>1. NoWindow(l, k)
    BY <1>4, ExpiredLeaves
  <2>2. QED
    BY <1>1, <1>2, <1>4, <2>1 DEF WindowOK, NoWindow, Limiter!Allowed
<1>5. QED
  BY <1>3, <1>4

\* One more is let through now.
OneMore(l, k) ==
    admitted'[l][k] =
        [i \in Limiter!Ticks |-> IF i < now THEN admitted[l][k][i] ELSE admitted[l][k][i] + 1]

LEMMA OneMoreCounts ==
    ASSUME LimiterInv, NEW l \in Limiter!Limiters, NEW k \in Keys, now' = now, OneMore(l, k)
    PROVE  /\ Cumulative(l, k)'
           /\ \A i \in Int : i < now => Upto(l, k, i)' = Upto(l, k, i)
           /\ Upto(l, k, now)' = Upto(l, k, now) + 1
<1>1. /\ now \in Nat /\ now \in Limiter!Ticks /\ Limiter!Ticks \subseteq Nat
      /\ \A i \in Int : i >= 0 /\ i < now => i \in Limiter!Ticks
  BY Clock DEF LimiterInv
<1>2. admitted[l][k] \in [Limiter!Ticks -> Nat]
  BY CountsAreNat DEF LimiterInv
<1>3. Cumulative(l, k)
  BY DEF LimiterInv, WindowOK
<1>4. ASSUME NEW i \in Limiter!Ticks, NEW j \in Limiter!Ticks, i <= j
      PROVE  admitted'[l][k][i] <= admitted'[l][k][j]
  <2>1. /\ admitted[l][k][i] \in Nat /\ admitted[l][k][j] \in Nat
        /\ admitted[l][k][i] <= admitted[l][k][j] /\ i \in Nat /\ j \in Nat
    BY <1>1, <1>2, <1>3, <1>4 DEF Cumulative
  <2>2. /\ admitted'[l][k][i] = IF i < now THEN admitted[l][k][i] ELSE admitted[l][k][i] + 1
        /\ admitted'[l][k][j] = IF j < now THEN admitted[l][k][j] ELSE admitted[l][k][j] + 1
    BY DEF OneMore
  <2>3. QED
    BY <1>1, <1>4, <2>1, <2>2
<1>5. ASSUME NEW i \in Limiter!Ticks, i >= now PROVE admitted'[l][k][i] = admitted'[l][k][now]
  BY <1>1, <1>2, <1>3, <1>5 DEF OneMore, Cumulative
<1>6. Cumulative(l, k)'
  BY <1>4, <1>5 DEF Cumulative, Limiter!Ticks
<1>7. ASSUME NEW i \in Int, i < now PROVE Upto(l, k, i)' = Upto(l, k, i)
  BY <1>1, <1>2, <1>7 DEF OneMore, Upto
<1>8. Upto(l, k, now)' = Upto(l, k, now) + 1
  BY <1>1, <1>2 DEF OneMore, Upto
<1>9. QED
  BY <1>6, <1>7, <1>8

LEMMA OpeningKeeps ==
    ASSUME LimiterInv, NEW l \in Limiter!Limiters, NEW k \in Keys,
           Limiter!OpensWindow(windows[l], k), now' = now, OneMore(l, k),
           windows'[l][k] = [start |-> now, count |-> 1]
    PROVE  WindowOK(l, k)'
<1> DEFINE w == [start |-> now, count |-> 1]
<1>1. NoWindow(l, k)
  BY ExpiredLeaves DEF Limiter!OpensWindow, LimiterInv, WindowOK
<1>2. /\ now \in Nat /\ now \in Int /\ now - 1 \in Int /\ now - Interval \in Int
      /\ now - Interval < now
      /\ now <= MaxNow /\ now - 1 <= MaxNow /\ now - Interval <= MaxNow
  BY Clock DEF LimiterInv
<1>3. Upto(l, k, now) \in Nat /\ Upto(l, k, now - 1) \in Nat /\ Upto(l, k, now - Interval) \in Nat
  BY <1>2, CountsAreNat DEF LimiterInv
<1>4. /\ Cumulative(l, k)'
      /\ Upto(l, k, now)' = Upto(l, k, now) + 1
      /\ Upto(l, k, now - 1)' = Upto(l, k, now - 1)
      /\ Upto(l, k, now - Interval)' = Upto(l, k, now - Interval)
  <2>1. \A i \in Int : i < now => Upto(l, k, i)' = Upto(l, k, i)
    BY OneMoreCounts
  <2>2. now - 1 < now
    BY <1>2
  <2>3. /\ Upto(l, k, now - 1)' = Upto(l, k, now - 1)
        /\ Upto(l, k, now - Interval)' = Upto(l, k, now - Interval)
    BY <1>2, <2>1, <2>2 DEF Upto
  <2>4. QED
    BY <2>3, OneMoreCounts
<1>5. /\ Upto(l, k, now)' - Upto(l, k, now - 1)' = 1
      /\ Upto(l, k, now - 1)' - Upto(l, k, now - Interval)' <= Limiter!Allowed(l)
  BY <1>1, <1>3, <1>4 DEF NoWindow
<1>6. \A i \in Limiter!Ticks : i - now >= Interval - 1 => admitted'[l][k][i] = admitted'[l][k][now]
  <2>1. SUFFICES ASSUME NEW i \in Limiter!Ticks, i - now >= Interval - 1 PROVE i >= now
    BY <1>4 DEF Cumulative, Limiter!Ticks
  <2>2. QED
    BY <2>1, Clock DEF LimiterInv
<1>7. 1 <= Limiter!Allowed(l) /\ now <= now
  BY <1>2, AllowedIsNat
<1>8. Counted(l, k, w)'
  BY <1>5, <1>6, <1>7 DEF Counted, Upto, Limiter!Allowed, Limiter!Ticks
<1>9. w # Nil
  BY <1>2, WindowIsRecord, Clock DEF Limiter!Window, Limiter!Ticks, LimiterInv
<1>10. QED
  BY <1>4, <1>8, <1>9 DEF WindowOK

LEMMA CountingKeeps ==
    ASSUME LimiterInv, NEW l \in Limiter!Limiters, NEW k \in Keys,
           ~Limiter!OpensWindow(windows[l], k), Limiter!HasRoom(windows[l][k], l), now' = now,
           OneMore(l, k),
           NEW w, w = windows[l][k],
           NEW v, v = [w EXCEPT !.count = @ + 1], windows'[l][k] = v
    PROVE  WindowOK(l, k)'
<1>1. w # Nil /\ ~Limiter!Expired(w) /\ w.count < Limits[l]
  BY DEF Limiter!OpensWindow, Limiter!HasRoom
<1>2. w \in Limiter!Window /\ w.start \in Nat /\ w.start <= MaxNow /\ w.count \in Nat
  BY <1>1, CountsAreNat, WindowIsRecord DEF LimiterInv
<1>3. Counted(l, k, w)
  BY <1>1 DEF LimiterInv, WindowOK
<1>4. v \in Limiter!Window /\ v.start = w.start /\ v.count = w.count + 1 /\ v # Nil
  <2>1. v \in Limiter!Window /\ v.start = w.start /\ v.count = w.count + 1
    BY <1>2 DEF Limiter!Window
  <2>2. QED
    BY <2>1, WindowIsRecord DEF LimiterInv
<1>5. /\ w.start <= now /\ now \in Nat /\ now - w.start < Interval
      /\ w.start - 1 \in Int /\ w.start - 1 < now /\ w.start - 1 <= MaxNow /\ now <= MaxNow
      /\ w.start - Interval \in Int /\ w.start - Interval < now
  <2>1. now \in Nat /\ now <= MaxNow /\ Interval \in Nat /\ Interval > 0 /\ MaxNow \in Nat
    BY Clock DEF LimiterInv
  <2>2. w.start <= now /\ ~(now - w.start >= Interval)
    BY <1>1, <1>3 DEF Counted, Limiter!Expired
  <2>3. QED
    BY <1>2, <2>1, <2>2
<1>6. /\ Cumulative(l, k)'
      /\ Upto(l, k, now)' = Upto(l, k, now) + 1
      /\ Upto(l, k, w.start - 1)' = Upto(l, k, w.start - 1)
      /\ Upto(l, k, w.start - Interval)' = Upto(l, k, w.start - Interval)
  <2>1. \A i \in Int : i < now => Upto(l, k, i)' = Upto(l, k, i)
    BY OneMoreCounts
  <2>2. QED
    BY <1>5, <2>1, OneMoreCounts DEF Upto
<1>7. Upto(l, k, now) \in Nat /\ Upto(l, k, w.start - 1) \in Nat
  BY <1>5, CountsAreNat DEF LimiterInv
<1>8. /\ Upto(l, k, now)' - Upto(l, k, w.start - 1)' = v.count
      /\ Upto(l, k, w.start - 1)' - Upto(l, k, w.start - Interval)' <= Limiter!Allowed(l)
      /\ v.count <= Limiter!Allowed(l)
  <2>1. Upto(l, k, now)' - Upto(l, k, w.start - 1)' = v.count
    <3>1. Upto(l, k, now) - Upto(l, k, w.start - 1) = w.count
      BY <1>3 DEF Counted
    <3>2. QED
      BY <1>2, <1>4, <1>6, <1>7, <3>1
  <2>2. Upto(l, k, w.start - 1)' - Upto(l, k, w.start - Interval)' <= Limiter!Allowed(l)
    BY <1>3, <1>6 DEF Counted
  <2>3. v.count <= Limiter!Allowed(l)
    BY <1>1, <1>2, <1>4, AllowedIsNat
  <2>4. QED
    BY <2>1, <2>2, <2>3
<1>9. \A i \in Limiter!Ticks : i - w.start >= Interval - 1 =>
          admitted'[l][k][i] = admitted'[l][k][now]
  <2>1. \A i \in Limiter!Ticks : i >= now => admitted'[l][k][i] = admitted'[l][k][now]
    BY <1>6 DEF Cumulative, Limiter!Ticks
  <2>2. ASSUME NEW i \in Limiter!Ticks, i - w.start >= Interval - 1 PROVE i >= now
    <3>1. i \in Int /\ now \in Int /\ Interval \in Int
      BY Clock DEF LimiterInv
    <3>2. w.start \in Int /\ now - w.start <= Interval - 1
      BY <1>2, <1>5, <3>1
    <3>3. QED
      BY <2>2, <3>1, <3>2
  <2>3. QED
    BY <2>1, <2>2
<1>10. Counted(l, k, v)'
  BY <1>4, <1>5, <1>8, <1>9 DEF Counted, Upto, Limiter!Allowed, Limiter!Ticks
<1>11. QED
  BY <1>4, <1>6, <1>10 DEF WindowOK

\* Time passes, and nothing else.
LEMMA TickKeeps ==
    ASSUME LimiterInv, NEW l \in Limiter!Limiters, NEW k \in Keys, now < MaxNow, now' = now + 1,
           UNCHANGED <<windows, admitted>>
    PROVE  WindowOK(l, k)'
<1>1. /\ now \in Nat /\ now + 1 \in Limiter!Ticks /\ now \in Limiter!Ticks /\ now + 1 <= MaxNow
      /\ now + 1 - Interval \in Int /\ now - Interval \in Int
      /\ now - Interval <= now + 1 - Interval
      /\ now + 1 - Interval <= MaxNow
  BY Clock DEF LimiterInv
<1>2. admitted[l][k][now + 1] = admitted[l][k][now]
  BY <1>1 DEF LimiterInv, WindowOK, Cumulative
<1>3. Cumulative(l, k)'
  BY <1>1, <1>2 DEF LimiterInv, WindowOK, Cumulative, Limiter!Ticks
<1>4. \A i : Upto(l, k, i)' = Upto(l, k, i)
  BY DEF Upto
<1>5. Upto(l, k, now + 1) = Upto(l, k, now) /\ Upto(l, k, now) \in Nat
  <2>1. Upto(l, k, now + 1) = Upto(l, k, now)
    BY <1>1, <1>2 DEF Upto
  <2>2. QED
    BY <1>1, <2>1, Clock, CountsAreNat DEF LimiterInv
<1>6. CASE windows[l][k] = Nil
  <2>1. NoWindow(l, k)
    BY <1>6 DEF LimiterInv, WindowOK
  <2>2. Upto(l, k, now - Interval) <= Upto(l, k, now + 1 - Interval)
    BY <1>1, UptoRises
  <2>3. Upto(l, k, now - Interval) \in Nat /\ Upto(l, k, now + 1 - Interval) \in Nat
    BY <1>1, CountsAreNat, Clock DEF LimiterInv
  <2>4. Upto(l, k, now + 1) - Upto(l, k, now + 1 - Interval) <= Limiter!Allowed(l)
    BY <1>5, <2>1, <2>2, <2>3, AllowedIsNat DEF NoWindow
  <2>5. Upto(l, k, (now + 1) - 1) = Upto(l, k, now + 1)
    BY <1>1, <1>5 DEF Upto
  <2>6. /\ Upto(l, k, now)' = Upto(l, k, now + 1)
        /\ Upto(l, k, now - 1)' = Upto(l, k, (now + 1) - 1)
        /\ Upto(l, k, now - Interval)' = Upto(l, k, now + 1 - Interval)
    <3>1. now' = now + 1 /\ now \in Nat /\ Interval \in Nat
      BY Clock DEF LimiterInv
    <3>2. /\ Upto(l, k, now)' = Upto(l, k, now')
          /\ Upto(l, k, now - 1)' = Upto(l, k, now' - 1)
          /\ Upto(l, k, now - Interval)' = Upto(l, k, now' - Interval)
      BY DEF Upto
    <3>3. QED
      BY <3>1, <3>2
  <2>8. NoWindow(l, k)'
    BY <2>4, <2>5, <2>6 DEF NoWindow, Limiter!Allowed
  <2>9. QED
    BY <1>3, <1>6, <2>8 DEF WindowOK
<1>7. CASE windows[l][k] # Nil
  <2> DEFINE w == windows[l][k]
  <2>1. Counted(l, k, w) /\ w.start \in Nat
    BY <1>7, CountsAreNat, WindowIsRecord DEF LimiterInv, WindowOK
  <2>2. Counted(l, k, w)'
    BY <1>1, <1>2, <1>4, <1>5, <2>1 DEF Counted, Limiter!Allowed, Limiter!Ticks
  <2>3. QED
    BY <1>3, <1>7, <2>2 DEF WindowOK
<1>8. QED
  BY <1>6, <1>7

(***************************************************************************)
(* The steps.                                                              *)
(***************************************************************************)
LEMMA LimiterStarts == Limiter!Init => LimiterInv
<1> SUFFICES ASSUME Limiter!Init PROVE LimiterInv
  OBVIOUS
<1>1. 0 \in Limiter!Ticks /\ Interval \in Nat \ {0} /\ MaxNow \in Nat
  BY LimiterAssumption DEF Limiter!ConstantsAssumption, Limiter!Ticks
<1>2. Limiter!TypeOK
  BY <1>1 DEF Limiter!Init, Limiter!TypeOK, Limiter!Request
<1>3. ASSUME NEW l \in Limiter!Limiters, NEW k \in Keys PROVE WindowOK(l, k)
  <2>1. \A i \in Limiter!Ticks : admitted[l][k][i] = 0
    BY DEF Limiter!Init
  <2>2. Upto(l, k, now) = 0 /\ Upto(l, k, now - 1) = 0 /\ Upto(l, k, now - Interval) = 0
    BY <1>1, <2>1 DEF Limiter!Init, Upto
  <2>3. NoWindow(l, k)
    BY <2>2, AllowedIsNat DEF NoWindow
  <2>4. Cumulative(l, k)
    BY <1>1, <2>1 DEF Cumulative, Limiter!Init
  <2>5. QED
    BY <2>3, <2>4 DEF WindowOK, Limiter!Init
<1>4. QED
  BY <1>2, <1>3 DEF LimiterInv

LEMMA AdmitTypes ==
    ASSUME LimiterInv, NEW c \in Requests, NEW l \in Limiter!Limiters,
           NEW ws \in [Keys -> Limiter!Window \cup {Nil}], Limiter!Admit(c, l, ws)
    PROVE  /\ Limiter!TypeOK'
           /\ now' = now
           /\ clientReq[c].key \in Keys
           /\ OneMore(l, clientReq[c].key)
           /\ windows'[l] = ws
           /\ \A m \in Limiter!Limiters, k \in Keys :
                 <<m, k>> # <<l, clientReq[c].key>> => admitted'[m][k] = admitted[m][k]
           /\ \A m \in Limiter!Limiters \ {l} : windows'[m] = windows[m]
<1>1. Limiter!TypeOK
  BY DEF LimiterInv
<1>2. clientReq[c] \in Limiter!Request /\ clientReq[c].key \in Keys /\ clientReq[c].route \in Routes
  BY <1>1 DEF Limiter!TypeOK, Limiter!Request
<1>3. windows' \in [Limiter!Limiters -> [Keys -> Limiter!Window \cup {Nil}]]
      /\ windows'[l] = ws /\ \A m \in Limiter!Limiters \ {l} : windows'[m] = windows[m]
  BY <1>1 DEF Limiter!Admit, Limiter!TypeOK
<1>4. admitted' = [admitted EXCEPT ![l][clientReq[c].key] =
          [i \in Limiter!Ticks |->
              IF i < now THEN admitted[l][clientReq[c].key][i]
              ELSE admitted[l][clientReq[c].key][i] + 1]]
  BY DEF Limiter!Admit
<1>5. OneMore(l, clientReq[c].key)
      /\ \A m \in Limiter!Limiters, k \in Keys :
             <<m, k>> # <<l, clientReq[c].key>> => admitted'[m][k] = admitted[m][k]
  BY <1>1, <1>2, <1>4 DEF OneMore, Limiter!TypeOK
<1>6. [i \in Limiter!Ticks |->
          IF i < now THEN admitted[l][clientReq[c].key][i]
          ELSE admitted[l][clientReq[c].key][i] + 1]
        \in [Limiter!Ticks -> Nat]
  BY <1>1, <1>2, CountsAreNat
<1>7. admitted' \in [Limiter!Limiters -> [Keys -> [Limiter!Ticks -> Nat]]]
  BY <1>1, <1>2, <1>4, <1>6 DEF Limiter!TypeOK
<1>8. Limiter!After(c, l) \in Limiter!Limiters \cup {"idle", "refused"}
  BY <1>2, LimiterAssumption DEF Limiter!After, Limiter!ConstantsAssumption, Limiter!Limiters
<1>9. clientPC' \in [Requests -> Limiter!Limiters \cup {"idle", "refused"}]
  BY <1>1, <1>8 DEF Limiter!Admit, Limiter!TypeOK
<1>10. now' = now /\ clientReq' = clientReq
  BY DEF Limiter!Admit
<1>11. Limiter!TypeOK'
  BY <1>1, <1>3, <1>7, <1>9, <1>10
     DEF Limiter!TypeOK, Limiter!Ticks, Limiter!Window, Limiter!Request
<1>12. QED
  BY <1>2, <1>3, <1>5, <1>10, <1>11

LEMMA AdmitFirstKeeps ==
    ASSUME LimiterInv, NEW c \in Requests, NEW l \in Limiter!Limiters, Limiter!AdmitFirst(c, l)
    PROVE  LimiterInv'
<1>0. PICK key \in Keys : key = clientReq[c].key
  BY DEF LimiterInv, Limiter!TypeOK, Limiter!Request
<1>a. PICK ws : ws = Limiter!Opened(windows[l], key)
  OBVIOUS
<1>1. Limiter!TypeOK /\ windows[l] \in [Keys -> Limiter!Window \cup {Nil}]
  BY DEF LimiterInv, Limiter!TypeOK
<1>2. [start |-> now, count |-> 1] \in Limiter!Window
  BY <1>1 DEF Limiter!TypeOK, Limiter!Window
<1>3. /\ ws \in [Keys -> Limiter!Window \cup {Nil}]
      /\ ws[key] = [start |-> now, count |-> 1]
      /\ \A k \in Keys \ {key} :
            \/ ws[k] = windows[l][k]
            \/ windows[l][k] # Nil /\ Limiter!Expired(windows[l][k]) /\ ws[k] = Nil
  <2> DEFINE opened == [windows[l] EXCEPT ![key] = [start |-> now, count |-> 1]]
  <2>1. opened \in [Keys -> Limiter!Window \cup {Nil}] /\ opened[key] = [start |-> now, count |-> 1]
        /\ \A k \in Keys \ {key} : opened[k] = windows[l][k]
    BY <1>1, <1>2
  <2>2. ~Limiter!Expired([start |-> now, count |-> 1])
    BY <1>1, Clock DEF Limiter!Expired
  <2>3. /\ Limiter!Swept(opened) \in [Keys -> Limiter!Window \cup {Nil}]
        /\ Limiter!Swept(opened)[key] = [start |-> now, count |-> 1]
        /\ \A k \in Keys \ {key} :
              \/ Limiter!Swept(opened)[k] = windows[l][k]
              \/ /\ windows[l][k] # Nil /\ Limiter!Expired(windows[l][k])
                 /\ Limiter!Swept(opened)[k] = Nil
    BY <1>1, <2>1, <2>2 DEF Limiter!Swept
  <2>4. ws = opened \/ ws = Limiter!Swept(opened)
    BY <1>a DEF Limiter!Opened
  <2>5. QED
    BY <2>1, <2>3, <2>4
<1>4. Limiter!Admit(c, l, ws) /\ Limiter!OpensWindow(windows[l], key)
  BY <1>0, <1>a DEF Limiter!AdmitFirst
<1>5. /\ Limiter!TypeOK' /\ now' = now /\ OneMore(l, key) /\ windows'[l] = ws
      /\ \A m \in Limiter!Limiters, k \in Keys :
            <<m, k>> # <<l, key>> => admitted'[m][k] = admitted[m][k]
      /\ \A m \in Limiter!Limiters \ {l} : windows'[m] = windows[m]
  BY <1>0, <1>3, <1>4, AdmitTypes
<1>6. WindowOK(l, key)'
  BY <1>3, <1>4, <1>5, OpeningKeeps
<1>7. ASSUME NEW m \in Limiter!Limiters, NEW k \in Keys, <<m, k>> # <<l, key>> PROVE WindowOK(m, k)'
  <2>1. \/ windows'[m][k] = windows[m][k]
        \/ windows[m][k] # Nil /\ Limiter!Expired(windows[m][k]) /\ windows'[m][k] = Nil
    BY <1>3, <1>5, <1>7
  <2>2. admitted'[m][k] = admitted[m][k]
    BY <1>5, <1>7
  <2>3. QED
    BY <1>5, <2>1, <2>2, BystanderKeeps
<1>8. QED
  BY <1>5, <1>6, <1>7 DEF LimiterInv

LEMMA AdmitNextKeeps ==
    ASSUME LimiterInv, NEW c \in Requests, NEW l \in Limiter!Limiters, Limiter!AdmitNext(c, l)
    PROVE  LimiterInv'
<1>0. PICK key \in Keys : key = clientReq[c].key
  BY DEF LimiterInv, Limiter!TypeOK, Limiter!Request
<1>a. PICK ws : ws = [windows[l] EXCEPT ![key].count = @ + 1]
  OBVIOUS
<1>1. Limiter!TypeOK /\ windows[l] \in [Keys -> Limiter!Window \cup {Nil}]
  BY DEF LimiterInv, Limiter!TypeOK
<1>2. /\ Limiter!Admit(c, l, ws) /\ ~Limiter!OpensWindow(windows[l], key)
      /\ Limiter!HasRoom(windows[l][key], l)
      /\ windows[l][key] \in Limiter!Window
  BY <1>0, <1>1, <1>a DEF Limiter!AdmitNext, Limiter!OpensWindow
<1>3. /\ ws \in [Keys -> Limiter!Window \cup {Nil}]
      /\ ws[key] = [windows[l][key] EXCEPT !.count = @ + 1]
      /\ \A k \in Keys \ {key} : ws[k] = windows[l][k]
  BY <1>1, <1>2, <1>a DEF Limiter!Window
<1>4. /\ Limiter!TypeOK' /\ now' = now /\ OneMore(l, key) /\ windows'[l] = ws
      /\ \A m \in Limiter!Limiters, k \in Keys :
            <<m, k>> # <<l, key>> => admitted'[m][k] = admitted[m][k]
      /\ \A m \in Limiter!Limiters \ {l} : windows'[m] = windows[m]
  BY <1>0, <1>2, <1>3, AdmitTypes
<1>5. WindowOK(l, key)'
  BY <1>2, <1>3, <1>4, CountingKeeps
<1>6. ASSUME NEW m \in Limiter!Limiters, NEW k \in Keys, <<m, k>> # <<l, key>> PROVE WindowOK(m, k)'
  <2>1. windows'[m][k] = windows[m][k]
    BY <1>3, <1>4, <1>6
  <2>2. admitted'[m][k] = admitted[m][k]
    BY <1>4, <1>6
  <2>3. QED
    BY <1>4, <2>1, <2>2, BystanderKeeps
<1>7. QED
  BY <1>4, <1>5, <1>6 DEF LimiterInv

\* A wait in whole seconds, one more than it takes, ends at a tick that is a natural number.
LEMMA WaitEnds ==
    ASSUME NEW n \in Nat, NEW i \in Nat, NEW s \in Nat, NEW p \in Nat, p > 0, n - s < i
    PROVE  n + ((i - (n - s)) \div p + 1) * p \in Nat
<1>1. PICK d \in Nat : d = i - (n - s)
  OBVIOUS
<1>2. PICK q \in Nat : q = d \div p
  OBVIOUS
<1>3. (q + 1) * p \in Nat
  OBVIOUS
<1>4. QED
  BY <1>1, <1>2, <1>3

LEMMA RefuseTypes ==
    ASSUME Limiter!TypeOK, NEW c \in Requests, NEW l \in Limiter!Limiters, Limiter!Refuse(c, l)
    PROVE  Limiter!TypeOK'
<1> DEFINE w == windows[l][clientReq[c].key]
<1>1. clientReq[c].key \in Keys /\ clientReq[c] \in Limiter!Request
  BY DEF Limiter!TypeOK, Limiter!Request
<1>2. w \in Limiter!Window /\ now - w.start < Interval
  BY <1>1, CountsAreNat, Clock, WindowIsRecord
     DEF Limiter!Refuse, Limiter!OpensWindow, Limiter!Expired
<1>3. w.start \in Limiter!Ticks /\ w.start \in Nat
  BY <1>2, WindowIsRecord DEF Limiter!Window
<1>4. PICK n \in Nat, i \in Nat, p \in Nat :
          n = now /\ i = Interval /\ p = TicksPerSecond /\ p > 0
  BY Clock
<1>5. PICK a \in Nat : a = w.start
  BY <1>3
<1>6. n + ((i - (n - a)) \div p + 1) * p \in Nat
  BY <1>2, <1>4, <1>5, WaitEnds
<1>7. now + Limiter!RetryAfter(w) * TicksPerSecond \in Nat
  BY <1>4, <1>5, <1>6 DEF Limiter!RetryAfter
<1>8. PICK s \in Limiter!Ticks, u \in Nat :
          s = w.start /\ u = now + Limiter!RetryAfter(w) * TicksPerSecond
  BY <1>3, <1>7
<1>9. PICK q : q = [clientReq[c] EXCEPT !.refusedBy = l, !.start = s, !.until = u]
  OBVIOUS
<1>10. q \in Limiter!Request
  BY <1>1, <1>9 DEF Limiter!Request
<1>11. clientReq' = [clientReq EXCEPT ![c] = q]
  BY <1>8, <1>9 DEF Limiter!Refuse
<1>12. clientReq' \in [Requests -> Limiter!Request]
  BY <1>10, <1>11 DEF Limiter!TypeOK
<1>13. clientPC' \in [Requests -> Limiter!Limiters \cup {"idle", "refused"}]
  BY DEF Limiter!Refuse, Limiter!TypeOK
<1>14. UNCHANGED <<now, windows, admitted>>
  BY DEF Limiter!Refuse
<1>15. QED
  BY <1>12, <1>13, <1>14 DEF Limiter!TypeOK, Limiter!Ticks, Limiter!Window

LEMMA LimiterStepKeeps == LimiterInv /\ [Limiter!Next]_(Limiter!vars) => LimiterInv'
<1> SUFFICES ASSUME LimiterInv, [Limiter!Next]_(Limiter!vars) PROVE LimiterInv'
  OBVIOUS
<1>1. CASE Limiter!Tick
  <2>1. Limiter!TypeOK'
    BY <1>1, Clock DEF Limiter!Tick, LimiterInv, Limiter!TypeOK, Limiter!Ticks
  <2>2. QED
    BY <1>1, <2>1, TickKeeps DEF Limiter!Tick, LimiterInv
<1>2. ASSUME UNCHANGED <<now, windows, admitted>>, Limiter!TypeOK' PROVE LimiterInv'
  BY <1>2, BystanderKeeps DEF LimiterInv
<1>3. ASSUME NEW c \in Requests, Limiter!Call(c) PROVE LimiterInv'
  <2>1. Limiter!TypeOK'
    BY <1>3 DEF Limiter!Call, LimiterInv, Limiter!TypeOK, Limiter!Limiters, Limiter!Ticks
  <2>2. QED
    BY <1>2, <1>3, <2>1 DEF Limiter!Call
<1>4. ASSUME NEW c \in Requests, NEW l \in Limiter!Limiters, Limiter!AdmitFirst(c, l)
      PROVE LimiterInv'
  BY <1>4, AdmitFirstKeeps
<1>5. ASSUME NEW c \in Requests, NEW l \in Limiter!Limiters, Limiter!AdmitNext(c, l)
      PROVE LimiterInv'
  BY <1>5, AdmitNextKeeps
<1>6. ASSUME NEW c \in Requests, NEW l \in Limiter!Limiters, Limiter!Refuse(c, l) PROVE LimiterInv'
  BY <1>2, <1>6, RefuseTypes DEF Limiter!Refuse, LimiterInv
<1>7. CASE UNCHANGED Limiter!vars
  <2>1. Limiter!TypeOK'
    BY <1>7 DEF Limiter!vars, LimiterInv, Limiter!TypeOK, Limiter!Ticks
  <2>2. QED
    BY <1>2, <1>7, <2>1 DEF Limiter!vars
<1>8. QED
  BY <1>1, <1>3, <1>4, <1>5, <1>6, <1>7 DEF Limiter!Next

\* The windows agree with what was let through, of every limiter and address: the fact about
\* rateLimiter.allow that Burst and RefusalEarned rest on.
THEOREM LimiterInvariance == Limiter!Spec => []LimiterInv
BY LimiterStarts, LimiterStepKeeps, PTL DEF Limiter!Spec

\* Whatever the limits, the window length and the clock, and however requests from an address
\* are spread over the routes, no interval lets more than two windows' worth of them through
\* one limiter: the fixed windows of rateLimiter.allow admit a burst of two limits, no more.
THEOREM Burst == Limiter!Spec => []AtMostTwice
BY LimiterInvariance, InvGivesTwice, PTL

\* A limiter answers 429 to an address only when, in the interval that ends at that moment, it
\* has already let through as many requests from it as the limit: neither the sweep of expired
\* windows nor the eviction at maxTracked nor other addresses cost an address a request.
THEOREM RefusalEarned == Limiter!Spec => RefusedAtLimit
<1> DEFINE Earned ==
        \A c \in Requests :
           clientPC'[c] = "refused" /\ clientPC[c] \in Limiter!Limiters =>
               Limiter!AdmittedOfLate(clientPC[c], clientReq[c].key) >= Limits[clientPC[c]]
<1>1. LimiterInv /\ [Limiter!Next]_(Limiter!vars) => [Earned]_(Limiter!vars)
  <2> SUFFICES ASSUME LimiterInv, Limiter!Next, NEW c \in Requests, clientPC'[c] = "refused",
                      clientPC[c] \in Limiter!Limiters
               PROVE  Limiter!AdmittedOfLate(clientPC[c], clientReq[c].key) >= Limits[clientPC[c]]
    OBVIOUS
  <2>1. /\ clientPC \in [Requests -> Limiter!Limiters \cup {"idle", "refused"}]
        /\ "refused" \notin Limiter!Limiters
    BY DEF LimiterInv, Limiter!TypeOK, Limiter!Limiters
  <2>2. PICK o \in Requests : \E l \in Limiter!Limiters : Limiter!Refuse(o, l)
    <3>1. ~Limiter!Tick
      BY <2>1 DEF Limiter!Tick
    <3>2. ASSUME NEW o \in Requests, Limiter!Call(o) PROVE FALSE
      BY <2>1, <3>2 DEF Limiter!Call, Limiter!Limiters
    <3>3. ASSUME NEW o \in Requests, NEW l \in Limiter!Limiters, NEW ws, Limiter!Admit(o, l, ws)
          PROVE FALSE
      <4>1. Limiter!After(o, l) # "refused"
        <5>1. clientReq[o].route \in Routes
          BY DEF LimiterInv, Limiter!TypeOK, Limiter!Request
        <5>2. QED
          BY <5>1, LimiterAssumption DEF Limiter!After, Limiter!ConstantsAssumption
      <4>2. QED
        BY <2>1, <3>3, <4>1 DEF Limiter!Admit
    <3>4. QED
      BY <3>1, <3>2, <3>3 DEF Limiter!Next, Limiter!AdmitFirst, Limiter!AdmitNext
  <2>3. PICK l \in Limiter!Limiters : Limiter!Refuse(o, l)
    BY <2>2
  <2>4. o = c /\ l = clientPC[c]
    BY <2>1, <2>3 DEF Limiter!Refuse
  <2>5. clientReq[c].key \in Keys
    BY DEF LimiterInv, Limiter!TypeOK, Limiter!Request
  <2>6. QED
    BY <2>3, <2>4, <2>5, RefusalIsLate DEF Limiter!Refuse
<1>2. QED
  BY <1>1, LimiterInvariance, PTL DEF Limiter!Spec, RefusedAtLimit, Limiter!RefusedAtLimit

-----------------------------------------------------------------------------
(* The uploads.                                                            *)

\* An upload that is writing, or has been answered, has a file of its own with what it has
\* written; one that has come past the sniffing sends at least a block.
OwnsFile(u) ==
    /\ uploadPC[u] \in {"open", "head", "body", "done"} => up[u].length > 0
    /\ uploadPC[u] \in {"head", "body", "done"} =>
          /\ up[u].name \in Names
          /\ disk[up[u].name] # Nil /\ disk[up[u].name].of = u
    /\ uploadPC[u] = "head" => disk[up[u].name].length = 0
    /\ uploadPC[u] = "body" => disk[up[u].name].length <= Upload!Read(u)
    /\ uploadPC[u] = "done" => disk[up[u].name].length = up[u].length /\ up[u].length <= MaxSize

\* The conjunction is preserved by every step of every upload, and by a crash.
UploadInv ==
    /\ Upload!TypeOK
    /\ \A u \in Requests : OwnsFile(u)
    /\ FailureLeavesNothing

LEMMA FileTypes ==
    ASSUME NEW u \in Requests
    PROVE  /\ Nil \notin Names
           /\ MaxSize \in Nat /\ MaxSize >= 1 /\ Upload!Limit \in Nat /\ Upload!Limit = MaxSize + 1
           /\ UploadInv => /\ up[u] \in Upload!Upload /\ up[u].length \in Nat
                           /\ Upload!Read(u) \in Nat /\ Upload!Read(u) <= MaxSize + 1
                           /\ Upload!Read(u) <= up[u].length
                           /\ Upload!Read(u) <= MaxSize => Upload!Read(u) = up[u].length
                           /\ up[u].length > 0 => Upload!Read(u) >= 1
<1>1. /\ MaxSize \in Nat /\ MaxSize >= 1 /\ Upload!Limit \in Nat /\ Upload!Limit = MaxSize + 1
      /\ Nil \notin Names
  BY UploadAssumption DEF Upload!ConstantsAssumption, Upload!Head, Upload!Limit
<1>2. ASSUME UploadInv PROVE up[u] \in Upload!Upload /\ up[u].length \in Nat
  BY <1>2, UploadAssumption DEF UploadInv, Upload!TypeOK, Upload!Upload, Upload!ConstantsAssumption
<1>3. QED
  BY <1>1, <1>2 DEF Upload!Read

\* What the invariant says of the other uploads and of the other files survives a step of u
\* that touches neither.
LEMMA OthersKeep ==
    ASSUME UploadInv, NEW u \in Requests, Upload!TypeOK',
           \A v \in Requests \ {u} : uploadPC'[v] = uploadPC[v] /\ up'[v] = up[v],
           \A v \in Requests \ {u} :
               uploadPC[v] \in {"head", "body", "done"} => disk'[up[v].name] = disk[up[v].name],
           OwnsFile(u)',
           \A n \in Names :
               disk'[n] # Nil =>
                   \/ n \in crashed'
                   \/ disk'[n] = disk[n] /\ disk[n].of \in Requests \ {u}
                   \/ /\ disk'[n].of = u /\ up'[u].name = n
                      /\ uploadPC'[u] \in {"head", "body", "done"},
           crashed \subseteq crashed'
    PROVE  UploadInv'
<1>1. ASSUME NEW v \in Requests PROVE OwnsFile(v)'
  <2>1. CASE v # u
    BY <2>1 DEF UploadInv, OwnsFile, Upload!Read, Upload!Limit
  <2>2. QED
    BY <2>1
<1>2. FailureLeavesNothing'
  BY DEF UploadInv, FailureLeavesNothing, Upload!FailureLeavesNothing
<1>3. QED
  BY <1>1, <1>2 DEF UploadInv

\* The stages before the file is opened, and those an upload can only fail from.
LEMMA NoFileKeeps ==
    ASSUME UploadInv, NEW u \in Requests, NEW stage \in {"sniff", "open", "failed"},
           uploadPC[u] \in {"new", "sniff", "open"}, Upload!Goto(u, stage),
           UNCHANGED <<disk, up, crashed>>,
           stage = "open" => up[u].length > 0
    PROVE  UploadInv'
<1>1. uploadPC'[u] = stage /\ \A v \in Requests \ {u} : uploadPC'[v] = uploadPC[v]
  BY DEF UploadInv, Upload!TypeOK, Upload!Goto
<1>2. Upload!TypeOK'
  BY DEF UploadInv, Upload!TypeOK, Upload!Goto, Upload!Stages, Upload!File, Upload!Upload
<1>3. OwnsFile(u)'
  BY <1>1 DEF OwnsFile
<1>4. ASSUME NEW n \in Names, disk'[n] # Nil
      PROVE  \/ n \in crashed'
             \/ disk'[n] = disk[n] /\ disk[n].of \in Requests \ {u}
  <2>1. disk'[n] = disk[n] /\ crashed' = crashed /\ disk[n].of \in Requests
    BY <1>4 DEF UploadInv, Upload!TypeOK, Upload!File
  <2>2. n \in crashed \/ uploadPC[disk[n].of] \in {"head", "body", "done"}
    BY <1>4, <2>1 DEF UploadInv, FailureLeavesNothing, Upload!FailureLeavesNothing
  <2>3. QED
    BY <2>1, <2>2
<1>5. QED
  BY <1>1, <1>2, <1>3, <1>4, OthersKeep

LEMMA OpenNewKeeps ==
    ASSUME UploadInv, NEW u \in Requests, NEW n \in Names,
           uploadPC[u] = "open", Upload!MayOpen(n),
           disk' = [disk EXCEPT ![n] = [of |-> u, length |-> 0]],
           up' = [up EXCEPT ![u].name = n], Upload!Goto(u, "head"), UNCHANGED crashed
    PROVE  UploadInv'
<1>1. /\ uploadPC'[u] = "head"
      /\ \A v \in Requests \ {u} : uploadPC'[v] = uploadPC[v] /\ up'[v] = up[v]
      /\ up'[u].name = n /\ up'[u].length = up[u].length
  BY DEF UploadInv, Upload!TypeOK, Upload!Goto, Upload!Upload
<1>2. disk'[n] = [of |-> u, length |-> 0] /\ \A m \in Names \ {n} : disk'[m] = disk[m]
  BY DEF UploadInv, Upload!TypeOK
<1>3. [of |-> u, length |-> 0] \in Upload!File
  BY FileTypes DEF Upload!File
<1>4. [of |-> u, length |-> 0] # Nil
  BY <1>3, UploadAssumption DEF Upload!NilIsNoFile
<1>5. Upload!TypeOK'
  BY <1>3 DEF UploadInv, Upload!TypeOK, Upload!Goto, Upload!Stages, Upload!Upload
<1>6. OwnsFile(u)'
  BY <1>1, <1>2, <1>4 DEF UploadInv, OwnsFile
<1>7. ASSUME NEW v \in Requests \ {u}, uploadPC[v] \in {"head", "body", "done"}
      PROVE  disk'[up[v].name] = disk[up[v].name]
  BY <1>2, <1>7 DEF UploadInv, OwnsFile, Upload!MayOpen
<1>8. ASSUME NEW m \in Names, disk'[m] # Nil
      PROVE  \/ m \in crashed'
             \/ disk'[m] = disk[m] /\ disk[m].of \in Requests \ {u}
             \/ disk'[m].of = u /\ uploadPC'[u] \in {"head", "body", "done"} /\ up'[u].name = m
  BY <1>1, <1>2, <1>8
     DEF UploadInv, FailureLeavesNothing, Upload!FailureLeavesNothing, Upload!TypeOK, Upload!File
<1>9. QED
  BY <1>1, <1>5, <1>6, <1>7, <1>8, OthersKeep

LEMMA CleanUpKeeps ==
    ASSUME UploadInv, NEW u \in Requests, uploadPC[u] \in {"head", "body"}, Upload!CleanUp(u),
           UNCHANGED <<up, crashed>>
    PROVE  UploadInv'
<1>1. PICK n \in Names : n = up[u].name /\ disk[n] # Nil /\ disk[n].of = u
  BY DEF UploadInv, OwnsFile
<1>2. uploadPC'[u] = "failed" /\ \A v \in Requests \ {u} : uploadPC'[v] = uploadPC[v]
  BY DEF UploadInv, Upload!TypeOK, Upload!CleanUp, Upload!Goto
<1>3. disk'[n] = Nil /\ \A m \in Names \ {n} : disk'[m] = disk[m]
  BY <1>1 DEF UploadInv, Upload!TypeOK, Upload!CleanUp, Upload!Removed
<1>4. Upload!TypeOK'
  BY DEF UploadInv, Upload!TypeOK, Upload!CleanUp, Upload!Removed, Upload!Goto, Upload!Stages,
     Upload!File, Upload!Upload
<1>5. OwnsFile(u)'
  BY <1>2 DEF OwnsFile
<1>6. ASSUME NEW v \in Requests \ {u}, uploadPC[v] \in {"head", "body", "done"}
      PROVE  disk'[up[v].name] = disk[up[v].name]
  BY <1>1, <1>3, <1>6 DEF UploadInv, OwnsFile
<1>7. ASSUME NEW m \in Names, disk'[m] # Nil
      PROVE  \/ m \in crashed'
             \/ disk'[m] = disk[m] /\ disk[m].of \in Requests \ {u}
  <2>1. m # n /\ disk'[m] = disk[m] /\ crashed' = crashed /\ disk[m].of \in Requests
    BY <1>3, <1>7 DEF UploadInv, Upload!TypeOK, Upload!File
  <2>2. m \in crashed \/ up[disk[m].of].name = m
    BY <1>7, <2>1 DEF UploadInv, FailureLeavesNothing, Upload!FailureLeavesNothing
  <2>3. QED
    BY <1>1, <2>1, <2>2
<1>8. QED
  BY <1>2, <1>4, <1>5, <1>6, <1>7, OthersKeep

\* One more block is written.
LEMMA AppendKeeps ==
    ASSUME UploadInv, NEW u \in Requests, uploadPC[u] \in {"head", "body"}, Upload!Append(u),
           disk[up[u].name].length < Upload!Read(u), Upload!Goto(u, "body"),
           UNCHANGED <<up, crashed>>
    PROVE  UploadInv'
<1>1. PICK n \in Names : n = up[u].name /\ disk[n] # Nil /\ disk[n].of = u
  BY DEF UploadInv, OwnsFile
<1>2. uploadPC'[u] = "body" /\ \A v \in Requests \ {u} : uploadPC'[v] = uploadPC[v]
  BY DEF UploadInv, Upload!TypeOK, Upload!Goto
<1>3. disk[n] \in Upload!File /\ disk[n].length \in Nat /\ disk[n].length < Upload!Read(u)
  BY <1>1, FileTypes DEF UploadInv, Upload!TypeOK, Upload!File
<1>4. /\ disk'[n] = [of |-> u, length |-> disk[n].length + 1]
      /\ \A m \in Names \ {n} : disk'[m] = disk[m]
  BY <1>1 DEF UploadInv, Upload!TypeOK, Upload!Append
<1>5. /\ disk'[n] \in Upload!File /\ disk'[n] # Nil /\ disk'[n].length <= Upload!Read(u)
      /\ disk'[n].of = u
  <2>1. disk[n].length + 1 \in 0..(MaxSize + 1) /\ disk[n].length + 1 <= Upload!Read(u)
    BY <1>3, FileTypes
  <2>2. QED
    BY <1>4, <2>1, UploadAssumption DEF Upload!File, Upload!NilIsNoFile
<1>6. disk' \in [Names -> Upload!File \cup {Nil}]
  BY <1>1, <1>4, <1>5 DEF UploadInv, Upload!TypeOK, Upload!Append
<1>7. Upload!TypeOK'
  BY <1>6 DEF UploadInv, Upload!TypeOK, Upload!Goto, Upload!Stages, Upload!File, Upload!Upload
<1>8. OwnsFile(u)'
  BY <1>1, <1>2, <1>5 DEF UploadInv, OwnsFile, Upload!Read, Upload!Limit
<1>9. ASSUME NEW v \in Requests \ {u}, uploadPC[v] \in {"head", "body", "done"}
      PROVE  disk'[up[v].name] = disk[up[v].name]
  BY <1>1, <1>4, <1>9 DEF UploadInv, OwnsFile
<1>10. ASSUME NEW m \in Names, disk'[m] # Nil
       PROVE  \/ m \in crashed'
              \/ disk'[m] = disk[m] /\ disk[m].of \in Requests \ {u}
              \/ disk'[m].of = u /\ uploadPC'[u] \in {"head", "body", "done"} /\ up'[u].name = m
  BY <1>1, <1>2, <1>4, <1>5, <1>10
     DEF UploadInv, FailureLeavesNothing, Upload!FailureLeavesNothing, Upload!TypeOK, Upload!File
<1>11. QED
  BY <1>2, <1>7, <1>8, <1>9, <1>10, OthersKeep

LEMMA WholeKeeps ==
    ASSUME UploadInv, NEW u \in Requests, Upload!Finish(u)
    PROVE  UploadInv'
<1>1. uploadPC[u] = "body" /\ disk[up[u].name].length = Upload!Read(u) /\ UNCHANGED <<up, crashed>>
  BY DEF Upload!Finish
<1>2. CASE disk[up[u].name].length > MaxSize
  BY <1>1, <1>2, CleanUpKeeps DEF Upload!Finish
<1>3. CASE ~(disk[up[u].name].length > MaxSize)
  <2>1. Upload!Goto(u, "done") /\ UNCHANGED disk
    BY <1>3 DEF Upload!Finish
  <2>2. uploadPC'[u] = "done" /\ \A v \in Requests \ {u} : uploadPC'[v] = uploadPC[v]
    BY <2>1 DEF UploadInv, Upload!TypeOK, Upload!Goto
  <2>3. Upload!Read(u) \in Nat /\ Upload!Read(u) = up[u].length /\ up[u].length <= MaxSize
    BY <1>1, <1>3, FileTypes
  <2>4. Upload!TypeOK'
    BY <1>1, <2>1
       DEF UploadInv, Upload!TypeOK, Upload!Goto, Upload!Stages, Upload!File, Upload!Upload
  <2>5. OwnsFile(u)'
    BY <1>1, <2>1, <2>2, <2>3 DEF UploadInv, OwnsFile
  <2>6. ASSUME NEW m \in Names, disk'[m] # Nil
        PROVE  \/ m \in crashed'
               \/ disk'[m] = disk[m] /\ disk[m].of \in Requests \ {u}
               \/ disk'[m].of = u /\ uploadPC'[u] \in {"head", "body", "done"} /\ up'[u].name = m
    BY <1>1, <2>1, <2>2, <2>6
       DEF UploadInv, FailureLeavesNothing, Upload!FailureLeavesNothing, Upload!TypeOK, Upload!File
  <2>7. QED
    BY <1>1, <2>1, <2>2, <2>4, <2>5, <2>6, OthersKeep
<1>4. QED
  BY <1>2, <1>3

LEMMA UploadCrashKeeps ==
    ASSUME UploadInv, Upload!Crash
    PROVE  UploadInv'
<1>1. /\ UNCHANGED <<disk, up>>
      /\ crashed' = crashed \cup {up[u].name : u \in Upload!Writing}
      /\ \A u \in Requests :
            uploadPC'[u] =
                IF uploadPC[u] \in {"new", "failed", "done"} THEN uploadPC[u] ELSE "failed"
      /\ uploadPC' \in [Requests -> Upload!Stages]
  BY DEF Upload!Crash, UploadInv, Upload!TypeOK, Upload!Stages
<1>2. crashed' \subseteq Names
  BY <1>1 DEF UploadInv, Upload!TypeOK, OwnsFile, Upload!Writing
<1>3. Upload!TypeOK'
  BY <1>1, <1>2 DEF UploadInv, Upload!TypeOK, Upload!File, Upload!Upload
<1>4. \A u \in Requests : OwnsFile(u)'
  BY <1>1 DEF UploadInv, OwnsFile
<1>5. ASSUME NEW n \in Names, disk'[n] # Nil, n \notin crashed'
      PROVE  uploadPC'[disk'[n].of] \in {"head", "body", "done"} /\ up'[disk'[n].of].name = n
  <2>1. n \notin crashed /\ disk[n] # Nil /\ disk[n].of \in Requests
    BY <1>1, <1>5 DEF UploadInv, Upload!TypeOK, Upload!File
  <2>2. uploadPC[disk[n].of] \in {"head", "body", "done"} /\ up[disk[n].of].name = n
    BY <2>1 DEF UploadInv, FailureLeavesNothing, Upload!FailureLeavesNothing
  <2>3. disk[n].of \notin Upload!Writing
    BY <1>1, <1>5, <2>2
  <2>4. QED
    BY <1>1, <2>1, <2>2, <2>3 DEF Upload!Writing
<1>6. QED
  BY <1>3, <1>4, <1>5 DEF UploadInv, FailureLeavesNothing, Upload!FailureLeavesNothing

LEMMA UploadStarts == Upload!Init => UploadInv
<1> SUFFICES ASSUME Upload!Init PROVE UploadInv
  OBVIOUS
<1>1. Upload!TypeOK
  BY DEF Upload!Init, Upload!TypeOK, Upload!Stages, Upload!Upload
<1>2. QED
  BY <1>1 DEF Upload!Init, UploadInv, OwnsFile, FailureLeavesNothing, Upload!FailureLeavesNothing

LEMMA UploadStepKeeps == UploadInv /\ [Upload!Next]_(Upload!vars) => UploadInv'
<1> SUFFICES ASSUME UploadInv, [Upload!Next]_(Upload!vars) PROVE UploadInv'
  OBVIOUS
<1>1. ASSUME NEW u \in Requests, Upload!Receive(u) PROVE UploadInv'
  BY <1>1, NoFileKeeps DEF Upload!Receive
<1>2. ASSUME NEW u \in Requests, Upload!Sniff(u) PROVE UploadInv'
  BY <1>2, NoFileKeeps DEF Upload!Sniff
<1>3. ASSUME NEW u \in Requests, Upload!Open(u) PROVE UploadInv'
  BY <1>3, OpenNewKeeps, NoFileKeeps DEF Upload!Open
<1>4. ASSUME NEW u \in Requests, Upload!WriteHead(u) PROVE UploadInv'
  <2>1. disk[up[u].name].length = 0 /\ Upload!Read(u) \in Nat /\ Upload!Read(u) >= 1
    BY <1>4, FileTypes DEF Upload!WriteHead, UploadInv, OwnsFile
  <2>2. disk[up[u].name].length < Upload!Read(u)
    BY <2>1
  <2>3. QED
    BY <1>4, <2>2, AppendKeeps, CleanUpKeeps DEF Upload!WriteHead
<1>5. ASSUME NEW u \in Requests, Upload!Copy(u) PROVE UploadInv'
  <2>1. UNCHANGED uploadPC /\ uploadPC[u] = "body" => Upload!Goto(u, "body")
    BY DEF UploadInv, Upload!TypeOK, Upload!Goto
  <2>2. QED
    BY <1>5, <2>1, AppendKeeps, CleanUpKeeps DEF Upload!Copy
<1>6. ASSUME NEW u \in Requests, Upload!Finish(u) PROVE UploadInv'
  BY <1>6, WholeKeeps
<1>7. CASE UNCHANGED Upload!vars
  BY <1>7 DEF Upload!vars, UploadInv, Upload!TypeOK, OwnsFile, Upload!Read, FailureLeavesNothing,
     Upload!FailureLeavesNothing
<1>8. QED
  BY <1>1, <1>2, <1>3, <1>4, <1>5, <1>6, <1>7, UploadCrashKeeps DEF Upload!Next, Upload!Step

\* Every upload that has opened a file is the only one to write it, and what is on disk is what
\* it has written so far: the fact about saveThumbnail that the next two theorems rest on.
THEOREM UploadInvariance == Upload!Spec => []UploadInv
BY UploadStarts, UploadStepKeeps, PTL DEF Upload!Spec

\* The URL an upload is answered with names a file that holds that upload from its first byte
\* to its last, never one cut off at the size limit or mixed with another upload's.
THEOREM WholeAnswer == Upload!Spec => []AnsweredIsWhole
<1>1. UploadInv => AnsweredIsWhole
  BY DEF UploadInv, OwnsFile, AnsweredIsWhole, Upload!AnsweredIsWhole, Upload!TypeOK, Upload!File
<1>2. QED
  BY <1>1, UploadInvariance, PTL

\* However many uploads run at once and wherever one fails, its file is removed again; only a
\* crash between the opening of the file and the removal may leave one behind.
THEOREM NothingLeft == Upload!Spec => []FailureLeavesNothing
<1>1. UploadInv => FailureLeavesNothing
  BY DEF UploadInv
<1>2. QED
  BY <1>1, UploadInvariance, PTL

-----------------------------------------------------------------------------
(* The composition.                                                        *)

\* Whatever part a behaviour follows, it is a behaviour of each: the others stutter.
LEMMA PartsFollow == PartsSpec => Spec /\ Limiter!Spec /\ Upload!Spec
<1>1. PartsInit => Init /\ Limiter!Init /\ Upload!Init
  BY DEF PartsInit
<1>2. [PartsNext]_<<part, vars, ofLimiter, ofUpload>> =>
          [Next]_vars /\ [Limiter!Next]_(Limiter!vars) /\ [Upload!Next]_(Upload!vars)
  BY DEF PartsNext, ofLimiter, ofUpload, Limiter!vars, Upload!vars
<1>3. QED
  BY <1>1, <1>2, PTL DEF PartsSpec, Spec, Limiter!Spec, Upload!Spec

\* So what the parts promise holds of the whole that TLC runs.
THEOREM PartsHold ==
    PartsSpec =>
        /\ [](AdmittedForCause /\ RefusedForCause)
        /\ [](AtMostTwice /\ AnsweredIsWhole /\ FailureLeavesNothing)
        /\ RefusedAtLimit
BY PartsFollow, Admission, Refusal, Burst, RefusalEarned, WholeAnswer, NothingLeft, PTL

=============================================================================
