----------------------------- MODULE RateLimiter ------------------------------
(***************************************************************************)
(* The rate limiters. Each keeps a fixed window per client address: when   *)
(* it began and how many requests it has admitted. A request passes the    *)
(* general limiter and then, on its route, the limiter of the login or the *)
(* refresh; each decides under a mutex of its own, so requests interleave  *)
(* between the two. A refused client is told when to come back. A limiter  *)
(* with too many windows drops the expired ones.                           *)
(*                                                                         *)
(* Time is counted in ticks, several to the second, because Retry-After    *)
(* is given in whole seconds. The clock is read inside the mutex and never *)
(* goes back. Deciding, with the sweep, is one step: nobody sees the map   *)
(* in between.                                                             *)
(*                                                                         *)
(* The definitions marked "Mutation" are mistakes the code could have made *)
(* in the definition that follows. Nothing uses them.                      *)
(***************************************************************************)
EXTENDS Integers, FiniteSets

CONSTANTS
    Keys,             \* client addresses, without their port
    Conns,            \* clients, with one request at a time
    Routes,           \* the limited routes clients call, and "other"
    Limit,            \* requests per interval, by limiter; nothing validates it
    Interval,         \* rateLimitWindow, in ticks
    TicksPerSecond,
    MaxTracked,       \* maxTrackedWindows
    MaxNow,           \* bound of the clock
    Nil               \* no window

Limiters == {"general", "login", "refresh"}

ConstantsAssumption ==
    /\ Limit \in [Limiters -> Int]
    /\ Interval \in Nat \ {0} /\ TicksPerSecond \in Nat \ {0}
    /\ MaxTracked \in Nat /\ MaxNow \in Nat
    /\ Routes \subseteq {"login", "refresh", "other"}

VARIABLES
    now,       \* the monotonic clock
    windows,   \* the windows of each limiter, by address
    pc,        \* where each client's request stands
    req,       \* the client's address and route, and what it has been told
    admitted   \* how many requests a limiter has let through, by address, up to each tick (history)

vars == <<now, windows, pc, req, admitted>>

-----------------------------------------------------------------------------
(* One limiter.                                                            *)

Ticks == 0..MaxNow

Window == [start: Ticks, count: Nat \ {0}]

Request == [key: Keys, route: Routes, refusedBy: Limiters \cup {Nil},
            start: Ticks, until: Nat]

NilIsNoWindow == Nil \notin Window /\ Nil \notin Limiters

\* Mutation: a window that is as old as the interval still counts.
ExpiredLate(w) == now - w.start > Interval

Expired(w) == now - w.start >= Interval

Tracked(ws) == {k \in Keys : ws[k] # Nil}

\* Mutation: the sweep drops every window.
SweptAll(ws) == [k \in Keys |-> Nil]

\* sweepLocked
Swept(ws) == [k \in Keys |-> IF ws[k] # Nil /\ Expired(ws[k]) THEN Nil ELSE ws[k]]

\* The window a request finds is over, or there is none: it opens one and is admitted,
\* whatever the limit. Only then can the table have grown.
OpensWindow(ws, k) == ws[k] # Nil => Expired(ws[k])

Opened(ws, k) ==
    LET opened == [ws EXCEPT ![k] = [start |-> now, count |-> 1]] IN
    IF Cardinality(Tracked(opened)) > MaxTracked THEN Swept(opened) ELSE opened

HasRoom(w, l) == w.count < Limit[l]

\* int(retryAfter.Seconds()) + 1
RetryAfter(w) == (Interval - (now - w.start)) \div TicksPerSecond + 1

-----------------------------------------------------------------------------
(* Requests.                                                               *)

Init ==
    /\ now = 0
    /\ windows = [l \in Limiters |-> [k \in Keys |-> Nil]]
    /\ pc = [c \in Conns |-> "idle"]
    /\ req \in [Conns -> {[key |-> k, route |-> r, refusedBy |-> Nil, start |-> 0, until |-> 0] :
                             k \in Keys, r \in Routes}]
    /\ admitted = [l \in Limiters |-> [k \in Keys |-> [i \in Ticks |-> 0]]]

\* A client calls; one that was refused waits until it may come back.
Call(c) ==
    /\ pc[c] \in {"idle", "refused"}
    /\ pc[c] = "refused" => now >= req[c].until
    /\ pc' = [pc EXCEPT ![c] = "general"]
    /\ UNCHANGED <<now, windows, req, admitted>>

\* The route's own limiter, or the handler.
After(c, l) == IF l = "general" /\ req[c].route # "other" THEN req[c].route ELSE "idle"

Admit(c, l, ws) ==
    /\ windows' = [windows EXCEPT ![l] = ws]
    /\ admitted' = [admitted EXCEPT ![l][req[c].key] =
          [i \in Ticks |-> IF i < now THEN @[i] ELSE @[i] + 1]]
    /\ pc' = [pc EXCEPT ![c] = After(c, l)]
    /\ UNCHANGED <<now, req>>

AdmitFirst(c, l) ==
    /\ pc[c] = l
    /\ OpensWindow(windows[l], req[c].key)
    /\ Admit(c, l, Opened(windows[l], req[c].key))

AdmitNext(c, l) ==
    /\ pc[c] = l
    /\ LET k == req[c].key  w == windows[l][k] IN
       /\ ~OpensWindow(windows[l], k)
       /\ HasRoom(w, l)
       /\ Admit(c, l, [windows[l] EXCEPT ![k].count = @ + 1])

\* 429 with Retry-After.
Refuse(c, l) ==
    /\ pc[c] = l
    /\ LET k == req[c].key  w == windows[l][k] IN
       /\ ~OpensWindow(windows[l], k)
       /\ ~HasRoom(w, l)
       /\ req' = [req EXCEPT ![c].refusedBy = l, ![c].start = w.start,
                             ![c].until = now + RetryAfter(w) * TicksPerSecond]
    /\ pc' = [pc EXCEPT ![c] = "refused"]
    /\ UNCHANGED <<now, windows, admitted>>

Tick ==
    /\ now < MaxNow
    /\ now' = now + 1
    /\ UNCHANGED <<windows, pc, req, admitted>>

Next ==
    \/ Tick
    \/ \E c \in Conns :
          \/ Call(c)
          \/ \E l \in Limiters : AdmitFirst(c, l) \/ AdmitNext(c, l) \/ Refuse(c, l)

Spec == Init /\ [][Next]_vars

-----------------------------------------------------------------------------
(* Properties.                                                             *)

\* Every variable has its type.
TypeOK ==
    /\ now \in Ticks
    /\ windows \in [Limiters -> [Keys -> Window \cup {Nil}]]
    /\ pc \in [Conns -> Limiters \cup {"idle", "refused"}]
    /\ req \in [Conns -> Request]
    /\ admitted \in [Limiters -> [Keys -> [Ticks -> Nat]]]

\* What a limiter has admitted from an address in the interval that ends now.
AdmittedOfLate(l, k) ==
    admitted[l][k][now] - (IF now < Interval THEN 0 ELSE admitted[l][k][now - Interval])

\* A limit that is not positive admits the request that opens a window.
Allowed(l) == IF Limit[l] < 1 THEN 1 ELSE Limit[l]

\* Fixed windows let a burst through on either side of their boundary, but no interval
\* of that length ever admits more than twice the limit, however the table is swept.
AtMostTwice ==
    \A l \in Limiters, k \in Keys : AdmittedOfLate(l, k) <= 2 * Allowed(l)

\* A client is refused only when the limiter has admitted its address as often as the
\* limit allows within the last interval: no window outlives its time.
RefusedAtLimit ==
    [][\A c \in Conns :
          pc'[c] = "refused" /\ pc[c] \in Limiters =>
              AdmittedOfLate(pc[c], req[c].key) >= Limit[pc[c]]]_vars

=============================================================================
