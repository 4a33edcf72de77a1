---------------------------- MODULE ProgressProofs ----------------------------
(***************************************************************************)
(* Proofs about what has to come to an end, as far as they are safety: a   *)
(* server that reports success has lost no request, a tunnel that has      *)
(* ended holds nothing open, and a listing read to its end has returned    *)
(* every row that was there all along, in order; for every number of       *)
(* connections, rows and pages.                                            *)
(***************************************************************************)
EXTENDS MCProgress, Integers, TLAPS

(***************************************************************************)
(* The inductive invariant.                                                *)
(***************************************************************************)

\* The database is closed only once run is about to return.
ClosedLate == db = "closed" => main \in {"exit", "exited"}

\* The serving goroutine has not been started yet, or it sends its error when it returns.
ChannelHasRoom ==
    /\ main \in {"load", "ping", "serve"} => server = "idle"
    /\ serveErr # <<>> => server = "returned"

\* A handler that runs keeps its connection active, and is refused only by a closed database.
HandlerHasConnection(c) ==
    /\ work[c] \in Unfinished => conn[c] = "active"
    /\ conn[c] = "none" => work[c] = "none"
    /\ work[c] = "refused" => db = "closed"

\* A success is reported only when Shutdown has found no connection left; since then
\* none is taken, because the listener is closed.
SuccessIsQuiet ==
    code = "success" =>
        /\ main \in {"cleanup", "exit", "exited"} /\ shutting /\ Quiet
        /\ \A c \in Conns : work[c] \in {"none", "answered"}

\* The conjunction is preserved by every step of the process and its clients.
IInv ==
    /\ TypeOK
    /\ ClosedLate /\ ChannelHasRoom
    /\ main = "shutdown" => shutting
    /\ \A c \in Conns : HandlerHasConnection(c)
    /\ SuccessIsQuiet

(***************************************************************************)
(* The steps of main.                                                      *)
(***************************************************************************)
LEMMA Start == Init => IInv
BY DEF Init, IInv, TypeOK, ClosedLate, ChannelHasRoom, HandlerHasConnection, SuccessIsQuiet,
   Unfinished

\* main and the signal touch no connection.
LEMMA MainKeeps ==
    ASSUME IInv, TypeOK', UNCHANGED clients, ClosedLate', ChannelHasRoom',
           main' = "shutdown" => shutting',
           db = "closed" => db' = "closed",
           code' = "success" =>
               \/ main' \in {"cleanup", "exit", "exited"} /\ shutting' /\ code = "success"
               \/ main' = "cleanup" /\ shutting' /\ Quiet /\ db # "closed"
    PROVE  IInv'
<1>1. \A c \in Conns : HandlerHasConnection(c)'
  BY DEF IInv, HandlerHasConnection, clients
<1>2. SuccessIsQuiet'
  <2>1. CASE code = "success"
    BY <2>1 DEF IInv, SuccessIsQuiet, Quiet, clients
  <2>2. CASE code' = "success" /\ code # "success"
    <3>1. \A c \in Conns : work[c] \in {"none", "answered"}
      BY <2>2 DEF IInv, TypeOK, HandlerHasConnection, Quiet, Unfinished
    <3>2. QED
      BY <2>2, <3>1 DEF SuccessIsQuiet, Quiet, clients
  <2>3. QED
    BY <2>1, <2>2 DEF SuccessIsQuiet
<1>3. QED
  BY <1>1, <1>2 DEF IInv

LEMMA SignalKeeps == ASSUME IInv, Signal PROVE IInv'
<1>1. TypeOK' /\ ClosedLate' /\ ChannelHasRoom'
  BY DEF Signal, IInv, TypeOK, ClosedLate, ChannelHasRoom, serving, clients
<1>2. QED
  BY <1>1, MainKeeps DEF Signal, IInv, SuccessIsQuiet

LEMMA LoadKeeps == ASSUME IInv, Load PROVE IInv'
<1>1. TypeOK' /\ ClosedLate' /\ ChannelHasRoom'
  BY DEF Load, IInv, TypeOK, ClosedLate, ChannelHasRoom, serving, clients
<1>2. QED
  BY <1>1, MainKeeps DEF Load, IInv, SuccessIsQuiet, ClosedLate

LEMMA PingKeeps == ASSUME IInv, Ping PROVE IInv'
<1>1. TypeOK' /\ ClosedLate' /\ ChannelHasRoom'
  BY DEF Ping, AfterFailedPing, IInv, TypeOK, ClosedLate, ChannelHasRoom, serving, clients
<1>2. QED
  BY <1>1, MainKeeps DEF Ping, AfterFailedPing, IInv, SuccessIsQuiet, ClosedLate

LEMMA GoKeeps == ASSUME IInv, Go PROVE IInv'
<1>1. TypeOK' /\ ClosedLate' /\ ChannelHasRoom'
  BY DEF Go, IInv, TypeOK, ClosedLate, ChannelHasRoom, clients
<1>2. QED
  BY <1>1, MainKeeps DEF Go, IInv, SuccessIsQuiet

LEMMA ServerFailedKeeps == ASSUME IInv, ServerFailed PROVE IInv'
<1>1. serveErr \in {<<"failed">>, <<"closed">>}
  BY DEF ServerFailed, IInv, TypeOK
<1>2. serveErr' = <<>>
  BY <1>1 DEF ServerFailed
<1>3. TypeOK' /\ ClosedLate' /\ ChannelHasRoom'
  <2>1. TypeOK'
    BY <1>2 DEF ServerFailed, IInv, TypeOK, clients
  <2>2. ClosedLate' /\ ChannelHasRoom'
    BY <1>2 DEF ServerFailed, IInv, ClosedLate, ChannelHasRoom, clients
  <2>3. QED
    BY <2>1, <2>2
<1>4. QED
  BY <1>3, MainKeeps DEF ServerFailed

LEMMA ShutDownKeeps == ASSUME IInv, ShutDown PROVE IInv'
<1>1. TypeOK' /\ ClosedLate' /\ ChannelHasRoom'
  BY DEF ShutDown, IInv, TypeOK, ClosedLate, ChannelHasRoom, serving, clients
<1>2. QED
  BY <1>1, MainKeeps DEF ShutDown, IInv, SuccessIsQuiet

LEMMA DrainedInTimeKeeps == ASSUME IInv, DrainedInTime PROVE IInv'
<1>1. TypeOK' /\ ClosedLate' /\ ChannelHasRoom'
  BY DEF DrainedInTime, IInv, TypeOK, ClosedLate, ChannelHasRoom, serving, clients
<1>2. QED
  BY <1>1, MainKeeps DEF DrainedInTime, IInv, ClosedLate

LEMMA TimedOutKeeps == ASSUME IInv, TimedOut PROVE IInv'
<1>1. TypeOK' /\ ClosedLate' /\ ChannelHasRoom'
  BY DEF TimedOut, MayTimeOut, AfterTimeout, IInv, TypeOK, ClosedLate, ChannelHasRoom, serving,
     clients
<1>2. QED
  BY <1>1, MainKeeps DEF TimedOut, AfterTimeout

LEMMA CloseDatabaseKeeps == ASSUME IInv, CloseDatabase PROVE IInv'
<1>1. TypeOK' /\ ClosedLate' /\ ChannelHasRoom'
  BY DEF CloseDatabase, IInv, TypeOK, ClosedLate, ChannelHasRoom, serving, clients
<1>2. QED
  BY <1>1, MainKeeps DEF CloseDatabase, IInv, SuccessIsQuiet

LEMMA ExitKeeps == ASSUME IInv, Exit PROVE IInv'
<1>1. TypeOK' /\ ClosedLate' /\ ChannelHasRoom'
  BY DEF Exit, IInv, TypeOK, ClosedLate, ChannelHasRoom, serving, clients
<1>2. QED
  BY <1>1, MainKeeps DEF Exit, IInv, SuccessIsQuiet

(***************************************************************************)
(* The serving goroutine.                                                  *)
(***************************************************************************)
LEMMA ServingKeeps ==
    ASSUME IInv, server \in {"starting", "bound", "serving"},
           \/ server' \in {"bound", "serving"} /\ UNCHANGED serveErr
           \/ Stop("closed")
           \/ Stop("failed"),
           UNCHANGED <<main, code, db, signalled, shutting, clients>>
    PROVE  IInv'
<1>1. serveErr = <<>>
  BY DEF IInv, ChannelHasRoom
<1>2. serveErr' \in {<<>>, <<"failed">>, <<"closed">>}
      /\ server' \in {"bound", "serving", "returned"}
      /\ (serveErr' # <<>> => server' = "returned")
  BY <1>1 DEF Stop, Sent
<1>3. TypeOK' /\ ClosedLate' /\ ChannelHasRoom'
  BY <1>2 DEF IInv, TypeOK, ClosedLate, ChannelHasRoom, clients
<1>4. QED
  BY <1>3, MainKeeps DEF IInv, SuccessIsQuiet

(***************************************************************************)
(* Clients and handlers.                                                   *)
(***************************************************************************)

\* One connection changes; a server that has reported a success has none that could.
LEMMA OneConnection ==
    ASSUME IInv, NEW c \in Conns, code # "success",
           UNCHANGED <<main, code, db, signalled, shutting, serving>>,
           conn' \in [Conns -> {"none", "idle", "active", "closed"}],
           work' \in [Conns -> Unfinished \cup {"none", "answered", "refused"}],
           \A d \in Conns \ {c} : conn'[d] = conn[d] /\ work'[d] = work[d],
           HandlerHasConnection(c)'
    PROVE  IInv'
<1>1. TypeOK' /\ ClosedLate' /\ ChannelHasRoom'
  BY DEF IInv, TypeOK, ClosedLate, ChannelHasRoom, serving
<1>2. \A d \in Conns : HandlerHasConnection(d)'
  BY DEF IInv, HandlerHasConnection
<1>3. QED
  BY <1>1, <1>2 DEF IInv, SuccessIsQuiet

LEMMA ConnectKeeps == ASSUME IInv, NEW c \in Conns, Connect(c) PROVE IInv'
<1>1. code # "success"
  BY DEF Connect, IInv, SuccessIsQuiet
<1>2. HandlerHasConnection(c)'
  BY DEF Connect, IInv, TypeOK, HandlerHasConnection, Unfinished
<1>3. QED
  BY <1>1, <1>2, OneConnection DEF Connect, IInv, TypeOK

LEMMA RequestKeeps == ASSUME IInv, NEW c \in Conns, Request(c) PROVE IInv'
<1>1. code # "success"
  BY DEF Request, IInv, SuccessIsQuiet, Quiet
<1>2. HandlerHasConnection(c)'
  BY DEF Request, IInv, TypeOK, HandlerHasConnection
<1>3. QED
  BY <1>1, <1>2, OneConnection DEF Request, IInv, TypeOK, Unfinished

LEMMA BeginKeeps == ASSUME IInv, NEW c \in Conns, Begin(c) PROVE IInv'
<1>1. code # "success"
  BY DEF Begin, IInv, SuccessIsQuiet
<1>2. HandlerHasConnection(c)'
  BY DEF Begin, Answer, IInv, TypeOK, HandlerHasConnection, Unfinished
<1>3. QED
  BY <1>1, <1>2, OneConnection DEF Begin, Answer, IInv, TypeOK, Unfinished

LEMMA CommitKeeps == ASSUME IInv, NEW c \in Conns, Commit(c) PROVE IInv'
<1>1. code # "success"
  BY DEF Commit, IInv, SuccessIsQuiet
<1>2. HandlerHasConnection(c)'
  BY DEF Commit, IInv, TypeOK, HandlerHasConnection, Unfinished
<1>3. QED
  BY <1>1, <1>2, OneConnection DEF Commit, IInv, TypeOK, Unfinished

LEMMA RespondKeeps == ASSUME IInv, NEW c \in Conns, Respond(c) PROVE IInv'
<1>1. code # "success"
  BY DEF Respond, IInv, SuccessIsQuiet
<1>2. HandlerHasConnection(c)'
  BY DEF Respond, Answer, IInv, TypeOK, HandlerHasConnection, Unfinished
<1>3. QED
  BY <1>1, <1>2, OneConnection DEF Respond, Answer, IInv, TypeOK, Unfinished

LEMMA CloseIdleKeeps == ASSUME IInv, NEW c \in Conns, CloseIdle(c) PROVE IInv'
<1>1. code # "success"
  BY DEF CloseIdle, IInv, SuccessIsQuiet
<1>2. HandlerHasConnection(c)'
  BY DEF CloseIdle, IInv, TypeOK, HandlerHasConnection, Unfinished
<1>3. QED
  BY <1>1, <1>2, OneConnection DEF CloseIdle, IInv, TypeOK

LEMMA StepKeeps == IInv /\ [Next]_vars => IInv'
<1> SUFFICES ASSUME IInv, [Next]_vars PROVE IInv'
  OBVIOUS
<1>1. CASE Signal
  BY <1>1, SignalKeeps
<1>2. CASE Main
  BY <1>2, LoadKeeps, PingKeeps, GoKeeps, ServerFailedKeeps, ShutDownKeeps, DrainedInTimeKeeps,
     TimedOutKeeps, CloseDatabaseKeeps, ExitKeeps DEF Main
<1>3. CASE Listen
  BY <1>3, ServingKeeps DEF Listen
<1>4. CASE Serve
  BY <1>4, ServingKeeps DEF Serve
<1>5. CASE ServeEnds
  BY <1>5, ServingKeeps DEF ServeEnds
<1>6. ASSUME NEW c \in Conns,
             Connect(c) \/ Request(c) \/ Begin(c) \/ Commit(c) \/ Respond(c) \/ CloseIdle(c)
      PROVE  IInv'
  BY <1>6, ConnectKeeps, RequestKeeps, BeginKeeps, CommitKeeps, RespondKeeps, CloseIdleKeeps
<1>7. CASE UNCHANGED vars
  BY <1>7 DEF vars, serving, clients, IInv, TypeOK, ClosedLate, ChannelHasRoom,
              HandlerHasConnection, SuccessIsQuiet, Quiet
<1>8. QED
  BY <1>1, <1>2, <1>3, <1>4, <1>5, <1>6, <1>7 DEF Next

(***************************************************************************)
(* The theorems.                                                           *)
(***************************************************************************)

\* run, its goroutine and the handlers keep IInv between all their steps.
THEOREM Invariance == Spec => []IInv
BY Start, StepKeeps, PTL DEF Spec

\* When run returns no error after a signal, srv.Shutdown has waited for every handler,
\* and no request that came late met the closed database.
THEOREM Graceful == Spec => []GracefulLosesNothing
<1>1. IInv => GracefulLosesNothing
  BY DEF IInv, SuccessIsQuiet, GracefulLosesNothing
<1>2. QED
  BY <1>1, Invariance, PTL

-----------------------------------------------------------------------------
(* The tunnel.                                                             *)

\* What Open holds follows from how far it has come, and there is nothing to close before
\* it has done.
OpenHolds ==
    /\ open \in {"dial", "failed"} => ~socket /\ ~ssh
    /\ open = "handshake" => ~ssh
    /\ open # "done" => ~listener /\ once = "free"

\* The listener goes first, and the client before anybody returns from Close.
ClosesInOrder ==
    /\ once # "free" => ~listener
    /\ once = "done" => ~ssh
    /\ \A k \in Closers :
          /\ closer[k] # "idle" => once # "free"
          /\ closer[k] = "returned" => once = "done"

\* What a connection holds follows from where it stands.
ConnHolds(c) ==
    /\ forwarded[c] \in {"none", "backlog", "dialing"} =>
          remote[c] = "none" /\ \A d \in Tunnel!Directions : copy[c][d] = "none"
    /\ forwarded[c] = "ended" =>
          /\ local[c] = "closed" /\ remote[c] # "open"
          /\ \A d \in Tunnel!Directions : copy[c][d] # "copying"

\* The types of what the connections hold, apart from the rest of TypeOK.
ForwardingTypes ==
    /\ forwarded \in [Clients -> {"none", "backlog", "dialing", "piping", "ended"}]
    /\ local \in [Clients -> Tunnel!Ends] /\ remote \in [Clients -> Tunnel!Ends]
    /\ copy \in [Clients -> [Tunnel!Directions -> {"none", "copying", "done"}]]
    /\ hungUp \in [Clients -> SUBSET Tunnel!Directions]

\* The conjunction is preserved by every step of Open, Close and the connections.
TunnelInv ==
    /\ Tunnel!TypeOK
    /\ OpenHolds
    /\ ClosesInOrder
    /\ \A c \in Clients : ConnHolds(c)

LEMMA TunnelStarts == Tunnel!Init => TunnelInv
<1> SUFFICES ASSUME Tunnel!Init PROVE TunnelInv
  OBVIOUS
<1>1. socket \in BOOLEAN /\ listener \in BOOLEAN /\ ssh \in BOOLEAN /\ loop \in BOOLEAN
  BY Zenon DEF Tunnel!Init
<1>2. Tunnel!TypeOK
  BY <1>1 DEF Tunnel!Init, Tunnel!TypeOK, Tunnel!Ends
<1>3. OpenHolds /\ ClosesInOrder
  BY Zenon DEF Tunnel!Init, OpenHolds, ClosesInOrder
<1>4. \A c \in Clients : ConnHolds(c)
  BY DEF Tunnel!Init, ConnHolds
<1>5. QED
  BY <1>2, <1>3, <1>4 DEF TunnelInv

\* Opening and closing leave the connections alone, and connections the rest.
LEMMA OpenSideKeeps ==
    ASSUME TunnelInv, Tunnel!Opening \/ Tunnel!SessionLost \/ Tunnel!AcceptFails
    PROVE  TunnelInv'
<1>1. UNCHANGED Tunnel!forwarding /\ UNCHANGED Tunnel!closing
  BY DEF Tunnel!Opening, Tunnel!Dial, Tunnel!Handshake, Tunnel!Listen, Tunnel!SessionLost,
     Tunnel!AcceptFails
<1>2. \A c \in Clients : ConnHolds(c)'
  BY <1>1 DEF TunnelInv, ConnHolds, Tunnel!forwarding
<1>3. /\ open' \in {"dial", "handshake", "listen", "done", "failed"}
      /\ socket' \in BOOLEAN /\ listener' \in BOOLEAN /\ ssh' \in BOOLEAN /\ loop' \in BOOLEAN
      /\ OpenHolds' /\ ClosesInOrder'
  <2>1. CASE Tunnel!Dial
    <3>1. ~socket /\ ~ssh /\ ~listener /\ ssh' = ssh /\ listener' = listener /\ loop' = loop
      BY <2>1 DEF Tunnel!Dial, TunnelInv, OpenHolds
    <3>2. \/ open' = "handshake" /\ socket' = TRUE
          \/ open' = "failed" /\ socket' = socket
      BY <2>1 DEF Tunnel!Dial
    <3>3. UNCHANGED <<once, closer>> /\ once = "free"
      BY <2>1 DEF Tunnel!Dial, Tunnel!closing, TunnelInv, OpenHolds
    <3>4. /\ open' \in {"dial", "handshake", "listen", "done", "failed"}
          /\ socket' \in BOOLEAN /\ listener' \in BOOLEAN /\ ssh' \in BOOLEAN /\ loop' \in BOOLEAN
      BY <3>1, <3>2, <3>3, Zenon DEF TunnelInv, Tunnel!TypeOK
    <3>5. OpenHolds'
      BY <3>1, <3>2, <3>3 DEF OpenHolds
    <3>6. ClosesInOrder'
      BY <3>1, <3>2, <3>3 DEF TunnelInv, ClosesInOrder
    <3>7. QED
      BY <3>4, <3>5, <3>6
  <2>2. CASE Tunnel!Handshake
    <3>1. ~ssh /\ ~listener /\ listener' = listener /\ loop' = loop
      BY <2>2 DEF Tunnel!Handshake, TunnelInv, OpenHolds
    <3>2. \/ open' = "listen" /\ ssh' = TRUE /\ socket' = socket
          \/ open' = "failed" /\ socket' = FALSE /\ ssh' = ssh
      BY <2>2 DEF Tunnel!Handshake
    <3>3. UNCHANGED <<once, closer>> /\ once = "free"
      BY <2>2 DEF Tunnel!Handshake, Tunnel!closing, TunnelInv, OpenHolds
    <3>4. /\ open' \in {"dial", "handshake", "listen", "done", "failed"}
          /\ socket' \in BOOLEAN /\ listener' \in BOOLEAN /\ ssh' \in BOOLEAN /\ loop' \in BOOLEAN
      BY <3>1, <3>2, <3>3, Zenon DEF TunnelInv, Tunnel!TypeOK
    <3>5. OpenHolds'
      BY <3>1, <3>2, <3>3 DEF OpenHolds
    <3>6. ClosesInOrder'
      BY <3>1, <3>2, <3>3 DEF TunnelInv, ClosesInOrder
    <3>7. QED
      BY <3>4, <3>5, <3>6
  <2>3. CASE Tunnel!Listen
    <3>1. \/ open' = "done" /\ listener' = TRUE /\ loop' = TRUE /\ UNCHANGED <<socket, ssh>>
          \/ open' = "failed" /\ ssh' = FALSE /\ socket' = FALSE /\ UNCHANGED <<listener, loop>>
      BY <2>3 DEF Tunnel!Listen
    <3>2. UNCHANGED <<once, closer>> /\ once = "free" /\ ~listener
      BY <2>3 DEF Tunnel!Listen, Tunnel!closing, TunnelInv, OpenHolds
    <3>3. /\ open' \in {"dial", "handshake", "listen", "done", "failed"}
          /\ socket' \in BOOLEAN /\ listener' \in BOOLEAN /\ ssh' \in BOOLEAN /\ loop' \in BOOLEAN
      BY <3>1, <3>2, Zenon DEF TunnelInv, Tunnel!TypeOK
    <3>4. OpenHolds'
      BY <3>1, <3>2 DEF OpenHolds
    <3>5. ClosesInOrder'
      BY <3>1, <3>2 DEF TunnelInv, ClosesInOrder
    <3>6. QED
      BY <3>3, <3>4, <3>5
  <2>4. CASE Tunnel!SessionLost
    BY <2>4 DEF TunnelInv, Tunnel!TypeOK, OpenHolds, ClosesInOrder, Tunnel!SessionLost,
       Tunnel!closing
  <2>5. CASE Tunnel!AcceptFails
    BY <2>5 DEF TunnelInv, Tunnel!TypeOK, OpenHolds, ClosesInOrder, Tunnel!AcceptFails,
       Tunnel!closing
  <2>6. QED
    BY <2>1, <2>2, <2>3, <2>4, <2>5 DEF Tunnel!Opening
<1>4. Tunnel!TypeOK'
  BY <1>1, <1>3 DEF TunnelInv, Tunnel!TypeOK, Tunnel!forwarding, Tunnel!closing
<1>5. QED
  BY <1>2, <1>3, <1>4 DEF TunnelInv

LEMMA CloseSideKeeps ==
    ASSUME TunnelInv, NEW k \in Closers,
           Tunnel!CloseListener(k) \/ Tunnel!CloseClient(k) \/ Tunnel!CloseAgain(k)
    PROVE  TunnelInv'
<1>1. UNCHANGED Tunnel!forwarding /\ UNCHANGED <<open, loop>>
  BY DEF Tunnel!CloseListener, Tunnel!CloseClient, Tunnel!CloseAgain, Tunnel!tunnel
<1>2. \A c \in Clients : ConnHolds(c)'
  BY <1>1 DEF TunnelInv, ConnHolds, Tunnel!forwarding
<1>3. /\ closer' \in [Closers -> {"idle", "client", "returned"}]
      /\ \A q \in Closers : q # k => closer'[q] = closer[q]
  BY DEF TunnelInv, Tunnel!TypeOK, Tunnel!CloseListener, Tunnel!CloseClient, Tunnel!CloseAgain
<1>4. CASE Tunnel!CloseListener(k)
  <2>1. closer'[k] = "client" /\ once' = "running" /\ ~listener'
    BY <1>4 DEF Tunnel!CloseListener, TunnelInv, Tunnel!TypeOK
  <2>2. Tunnel!TypeOK'
    BY <1>1, <1>3, <1>4, <2>1 DEF Tunnel!CloseListener, TunnelInv, Tunnel!TypeOK, Tunnel!forwarding
  <2>3. OpenHolds'
    BY <1>4, <2>1 DEF Tunnel!CloseListener, TunnelInv, OpenHolds
  <2>4. ClosesInOrder'
    BY <1>3, <1>4, <2>1 DEF Tunnel!CloseListener, TunnelInv, ClosesInOrder
  <2>5. QED
    BY <1>2, <2>2, <2>3, <2>4 DEF TunnelInv
<1>5. CASE Tunnel!CloseClient(k)
  <2>1. closer'[k] = "returned" /\ once' = "done" /\ ~ssh' /\ ~socket' /\ listener' = listener
    BY <1>5 DEF Tunnel!CloseClient, TunnelInv, Tunnel!TypeOK
  <2>2. once # "free"
    BY <1>5 DEF Tunnel!CloseClient, TunnelInv, ClosesInOrder
  <2>3. Tunnel!TypeOK'
    BY <1>1, <1>3, <1>5, <2>1 DEF Tunnel!CloseClient, TunnelInv, Tunnel!TypeOK, Tunnel!forwarding
  <2>4. OpenHolds'
    BY <1>1, <2>1, <2>2 DEF TunnelInv, OpenHolds
  <2>5. ClosesInOrder'
    BY <1>3, <2>1, <2>2 DEF TunnelInv, ClosesInOrder
  <2>6. QED
    BY <1>2, <2>3, <2>4, <2>5 DEF TunnelInv
<1>6. CASE Tunnel!CloseAgain(k)
  <2>1. closer'[k] = "returned" /\ once = "done" /\ once' = once /\ UNCHANGED Tunnel!tunnel
    BY <1>6 DEF Tunnel!CloseAgain, Tunnel!MayReturn, TunnelInv, Tunnel!TypeOK
  <2>2. Tunnel!TypeOK'
    BY <1>1, <1>3, <2>1 DEF TunnelInv, Tunnel!TypeOK, Tunnel!forwarding, Tunnel!tunnel
  <2>3. OpenHolds'
    BY <2>1 DEF TunnelInv, OpenHolds, Tunnel!tunnel
  <2>4. ClosesInOrder'
    BY <1>3, <2>1 DEF TunnelInv, ClosesInOrder, Tunnel!tunnel
  <2>5. QED
    BY <1>2, <2>2, <2>3, <2>4 DEF TunnelInv
<1>7. QED
  BY <1>4, <1>5, <1>6

\* A step of one connection disturbs no other.
LEMMA ConnStepKeeps ==
    ASSUME TunnelInv, NEW c \in Clients, UNCHANGED <<Tunnel!tunnel, Tunnel!closing>>,
           ForwardingTypes',
           \A o \in Clients : o # c =>
               /\ forwarded'[o] = forwarded[o] /\ local'[o] = local[o] /\ remote'[o] = remote[o]
               /\ copy'[o] = copy[o],
           ConnHolds(c)'
    PROVE  TunnelInv'
<1>1. ASSUME NEW o \in Clients, o # c PROVE ConnHolds(o)'
  <2>1. /\ forwarded'[o] = forwarded[o] /\ local'[o] = local[o] /\ remote'[o] = remote[o]
        /\ copy'[o] = copy[o]
    BY <1>1
  <2>2. QED
    BY <2>1 DEF TunnelInv, ConnHolds
<1>2. Tunnel!TypeOK'
  BY DEF TunnelInv, Tunnel!TypeOK, Tunnel!tunnel, Tunnel!closing, ForwardingTypes
<1>3. OpenHolds' /\ ClosesInOrder'
  BY DEF TunnelInv, OpenHolds, ClosesInOrder, Tunnel!tunnel, Tunnel!closing
<1>4. QED
  BY <1>1, <1>2, <1>3 DEF TunnelInv

LEMMA ConnTypes ==
    ASSUME TunnelInv, NEW c \in Clients
    PROVE  /\ ForwardingTypes /\ ConnHolds(c)
           /\ copy[c] \in [Tunnel!Directions -> {"none", "copying", "done"}]
BY DEF TunnelInv, Tunnel!TypeOK, ForwardingTypes

\* The goroutine of the connection ends, and no copy with it.
LEMMA EndConnKeeps ==
    ASSUME TunnelInv, NEW c \in Clients, Tunnel!EndConn(c),
           UNCHANGED <<Tunnel!tunnel, Tunnel!closing, copy, hungUp>>,
           \A d \in Tunnel!Directions : copy[c][d] # "copying"
    PROVE  TunnelInv'
<1>1. ForwardingTypes'
  BY ConnTypes DEF ForwardingTypes, Tunnel!EndConn, Tunnel!Ends
<1>2. ConnHolds(c)'
  BY ConnTypes DEF ForwardingTypes, Tunnel!EndConn, ConnHolds
<1>3. QED
  BY <1>1, <1>2, ConnTypes, ConnStepKeeps DEF Tunnel!EndConn, ForwardingTypes

LEMMA ForwardKeeps ==
    ASSUME TunnelInv, NEW c \in Clients,
           \/ Tunnel!Connect(c) \/ Tunnel!Forward(c)
           \/ \E d \in Tunnel!Directions : Tunnel!HangUp(c, d)
    PROVE  TunnelInv'
<1>1. CASE Tunnel!Connect(c)
  <2>1. ForwardingTypes' /\ ConnHolds(c)'
    BY <1>1, ConnTypes DEF Tunnel!Connect, ConnHolds, ForwardingTypes, Tunnel!Ends
  <2>2. QED
    BY <1>1, <2>1, ConnTypes, ConnStepKeeps DEF Tunnel!Connect, ForwardingTypes
<1>2. CASE Tunnel!Reset(c)
  <2>1. ForwardingTypes' /\ ConnHolds(c)'
    BY <1>2, ConnTypes DEF Tunnel!Reset, ConnHolds, ForwardingTypes, Tunnel!Ends
  <2>2. QED
    BY <1>2, <2>1, ConnTypes, ConnStepKeeps DEF Tunnel!Reset, ForwardingTypes
<1>3. CASE Tunnel!Accept(c)
  <2>1. ForwardingTypes' /\ ConnHolds(c)'
    BY <1>3, ConnTypes DEF Tunnel!Accept, ConnHolds, ForwardingTypes
  <2>2. QED
    BY <1>3, <2>1, ConnTypes, ConnStepKeeps DEF Tunnel!Accept, ForwardingTypes
<1>4. CASE Tunnel!DialTarget(c)
  <2>1. CASE Tunnel!EndConn(c) /\ UNCHANGED copy
    BY <1>4, <2>1, ConnTypes, EndConnKeeps DEF Tunnel!DialTarget, ConnHolds
  <2>2. CASE /\ forwarded' = [forwarded EXCEPT ![c] = "piping"]
             /\ remote' = [remote EXCEPT ![c] = "open"]
             /\ copy' = [copy EXCEPT ![c] = [d \in Tunnel!Directions |-> "copying"]]
             /\ UNCHANGED local
    <3>1. [d \in Tunnel!Directions |-> "copying"] \in
              [Tunnel!Directions -> {"none", "copying", "done"}]
      OBVIOUS
    <3>2. ForwardingTypes' /\ ConnHolds(c)'
      BY <1>4, <2>2, <3>1, ConnTypes DEF Tunnel!DialTarget, ConnHolds, ForwardingTypes, Tunnel!Ends
    <3>3. QED
      BY <1>4, <2>2, <3>2, ConnTypes, ConnStepKeeps DEF Tunnel!DialTarget, ForwardingTypes
  <2>3. QED
    BY <1>4, <2>1, <2>2 DEF Tunnel!DialTarget
<1>5. CASE Tunnel!PipeReturns(c)
  BY <1>5, ConnTypes, EndConnKeeps DEF Tunnel!PipeReturns, Tunnel!BothDone
<1>6. ASSUME NEW d \in Tunnel!Directions, Tunnel!CopyEnds(c, d) PROVE TunnelInv'
  <2>1. ForwardingTypes'
    BY <1>6, ConnTypes DEF Tunnel!CopyEnds, Tunnel!CloseBoth, ForwardingTypes, Tunnel!Ends
  <2>2. forwarded'[c] = "piping"
    BY <1>6 DEF Tunnel!CopyEnds
  <2>3. ConnHolds(c)'
    BY <2>2 DEF ConnHolds
  <2>4. QED
    BY <1>6, <2>1, <2>3, ConnTypes, ConnStepKeeps
       DEF Tunnel!CopyEnds, Tunnel!CloseBoth, ForwardingTypes
<1>7. ASSUME NEW d \in Tunnel!Directions, Tunnel!HangUp(c, d) PROVE TunnelInv'
  <2>1. ForwardingTypes' /\ ConnHolds(c)'
    BY <1>7, ConnTypes DEF Tunnel!HangUp, ForwardingTypes, ConnHolds
  <2>2. QED
    BY <1>7, <2>1, ConnTypes, ConnStepKeeps DEF Tunnel!HangUp
<1>8. QED
  BY <1>1, <1>2, <1>3, <1>4, <1>5, <1>6, <1>7 DEF Tunnel!Forward

LEMMA TunnelStepKeeps == TunnelInv /\ [Tunnel!Next]_(Tunnel!vars) => TunnelInv'
<1> SUFFICES ASSUME TunnelInv, [Tunnel!Next]_(Tunnel!vars) PROVE TunnelInv'
  OBVIOUS
<1>1. CASE UNCHANGED Tunnel!vars
  BY <1>1 DEF Tunnel!vars, TunnelInv, Tunnel!TypeOK, OpenHolds, ClosesInOrder, ConnHolds
<1>2. QED
  BY <1>1, OpenSideKeeps, CloseSideKeeps, ForwardKeeps DEF Tunnel!Next

\* What Open, Close and a forwarded connection hold follows from how far each has come.
THEOREM TunnelInvariance == Tunnel!Spec => []TunnelInv
BY TunnelStarts, TunnelStepKeeps, PTL DEF Tunnel!Spec

\* A tunnel whose Open has failed holds no socket, SSH client or listener, one whose Close has
\* returned neither of the last two, and a forwarded connection that has ended has closed its
\* sockets and runs no copy, in whatever order they opened, closed and hung up.
THEOREM NoLeak == Tunnel!Spec => []NothingLeaks
<1>1. TunnelInv => NothingLeaks
  BY DEF TunnelInv, OpenHolds, ClosesInOrder, ConnHolds, NothingLeaks, Tunnel!NothingLeaks
<1>2. QED
  BY <1>1, TunnelInvariance, PTL

-----------------------------------------------------------------------------
(* The listings.                                                           *)

\* A scan has returned the steady rows up to its cursor, and no row beyond it.
ReadUpToCursor ==
    /\ cursor = 0 => \A i \in Paging!Ids : times[i] = 0
    /\ cursor # 0 =>
          /\ \A i \in steady : Paging!Before(cursor, i) \/ times[i] > 0
          /\ \A i \in Paging!Ids : times[i] > 0 => ~Paging!Before(cursor, i)

\* The ids the sequence has not drawn yet.
Undrawn(i) == i \in Paging!Ids /\ i >= nextID

\* The conjunction is preserved by every page, and by every insertion, edit and deletion
\* between two pages.
PagingInv ==
    /\ Paging!TypeOK
    /\ \A i : Undrawn(i) => table[i] = "none"
    /\ steady \subseteq Paging!Shown
    /\ phase = "idle" => cursor = 0
    /\ phase \in {"idle", "parent", "query", "page"} => ReadUpToCursor
    /\ ScanIsComplete

LEMMA Bounds ==
    /\ MaxID \in Nat /\ MaxLimit \in Nat /\ 1 \in 1 .. MaxLimit
    /\ DefaultLimit \in 1 .. MaxLimit /\ PublicDefault \in 1 .. MaxLimit
    /\ RawLimits \subseteq Nat /\ Paging!Ids = 1 .. MaxID
BY PagingAssumption DEF Paging!ConstantsAssumption, Paging!Ids

\* The order of a listing is one of the two strict orders of the ids.
LEMMA BeforeOrders ==
    ASSUME NEW i \in Int, NEW j \in Int, NEW k \in Int
    PROVE  /\ Paging!Before(i, j) => ~Paging!Before(j, i)
           /\ ~Paging!Before(i, j) /\ Paging!Before(i, k) => Paging!Before(j, k)
           /\ Paging!Before(i, j) /\ Paging!Before(j, k) => Paging!Before(i, k)
BY DEF Paging!Before

LEMMA PagingStarts == Paging!Init => PagingInv
<1> SUFFICES ASSUME Paging!Init PROVE PagingInv
  OBVIOUS
<1>1. 0 \in 0 .. MaxID /\ 1 \in 1 .. (MaxID + 1) /\ 1 \in 1 .. MaxLimit
  BY Bounds
<1>2. Paging!TypeOK
  BY <1>1 DEF Paging!Init, Paging!TypeOK
<1>3. ReadUpToCursor /\ ScanIsComplete /\ steady \subseteq Paging!Shown
  BY DEF Paging!Init, ReadUpToCursor, ScanIsComplete, Paging!ScanIsComplete
<1>4. QED
  BY <1>2, <1>3 DEF PagingInv, Paging!Init, Undrawn

\* What others do to the rows takes no row into the steady ones, and out of them what is shown
\* no longer.
LEMMA RowsKeep ==
    ASSUME PagingInv, UNCHANGED <<listing, Paging!scan>>,
           table' \in [Paging!Ids -> {"none", "open", "shown", "hidden", "gone"}],
           nextID' \in 1 .. (MaxID + 1), parent' \in BOOLEAN,
           \A i : Undrawn(i)' => table'[i] = "none",
           steady' \subseteq steady, \A i \in steady' : table'[i] = "shown"
    PROVE  PagingInv'
<1>1. UNCHANGED <<phase, limit, cursor, times>>
  BY DEF Paging!scan
<1>2. Paging!TypeOK' /\ steady' \subseteq Paging!Ids
  BY <1>1 DEF PagingInv, Paging!TypeOK
<1>3. steady' \subseteq Paging!Shown'
  BY <1>2 DEF Paging!Shown
<1>4. ReadUpToCursor => ReadUpToCursor'
  BY <1>1, Zenon DEF ReadUpToCursor, Paging!Before
<1>5. ScanIsComplete'
  BY <1>1, Zenon DEF PagingInv, ScanIsComplete, Paging!ScanIsComplete
<1>6. QED
  BY <1>1, <1>2, <1>3, <1>4, <1>5 DEF PagingInv

LEMMA BecomesKeeps ==
    ASSUME PagingInv, NEW i \in Paging!Ids, NEW from, from # "none",
           NEW to \in {"shown", "hidden", "gone"}, Paging!Becomes(i, from, to), parent' \in BOOLEAN
    PROVE  PagingInv'
<1>1. table' \in [Paging!Ids -> {"none", "open", "shown", "hidden", "gone"}]
  BY DEF PagingInv, Paging!TypeOK, Paging!Becomes
<1>2. steady' \subseteq steady
  BY DEF Paging!Becomes
<1>3. ASSUME NEW j \in steady' PROVE table'[j] = "shown"
  <2>1. j \in Paging!Ids /\ table[j] = "shown"
    BY <1>2, <1>3 DEF PagingInv, Paging!Shown
  <2>2. j = i => to = "shown"
    BY <1>3 DEF Paging!Becomes
  <2>3. QED
    BY <2>1, <2>2 DEF Paging!Becomes, PagingInv, Paging!TypeOK
<1>4. nextID' \in 1 .. (MaxID + 1)
  BY DEF Paging!Becomes, PagingInv, Paging!TypeOK
<1>5. ASSUME NEW j, Undrawn(j)' PROVE table'[j] = "none"
  <2>1. Undrawn(j)
    BY <1>5 DEF Undrawn, Paging!Becomes
  <2>2. table[j] = "none" /\ j # i /\ j \in Paging!Ids
    BY <2>1 DEF PagingInv, Paging!Becomes, Undrawn
  <2>3. QED
    BY <2>2 DEF Paging!Becomes, PagingInv, Paging!TypeOK
<1>6. QED
  BY <1>1, <1>2, <1>3, <1>4, <1>5, RowsKeep DEF Paging!Becomes

LEMMA OthersKeep == ASSUME PagingInv, Paging!Others PROVE PagingInv'
<1>1. parent \in BOOLEAN /\ (UNCHANGED parent => parent' \in BOOLEAN)
  BY DEF PagingInv, Paging!TypeOK
<1>2. CASE Paging!Insert
  <2>1. nextID \in Paging!Ids /\ nextID + 1 \in 1 .. (MaxID + 1)
    BY <1>2, Bounds DEF Paging!Insert
  <2>2. table' \in [Paging!Ids -> {"none", "open", "shown", "hidden", "gone"}]
    BY <1>2, <2>1 DEF Paging!Insert, PagingInv, Paging!TypeOK
  <2>3. table[nextID] = "none"
    BY <2>1, Bounds DEF PagingInv, Undrawn
  <2>4. ASSUME NEW j, Undrawn(j)' PROVE table'[j] = "none"
    <3>1. j \in Int /\ nextID \in Int /\ j >= nextID + 1 /\ j \in Paging!Ids
      BY <1>2, <2>1, <2>4, Bounds DEF Undrawn, Paging!Insert
    <3>2. Undrawn(j) /\ j # nextID
      BY <3>1 DEF Undrawn
    <3>3. QED
      BY <1>2, <3>1, <3>2 DEF Paging!Insert, PagingInv, Paging!TypeOK
  <2>5. ASSUME NEW j \in steady' PROVE table'[j] = "shown"
    <3>1. j \in Paging!Ids /\ table[j] = "shown"
      BY <1>2, <2>5 DEF Paging!Insert, PagingInv, Paging!Shown
    <3>2. QED
      BY <1>2, <2>3, <3>1 DEF Paging!Insert, PagingInv, Paging!TypeOK
  <2>6. QED
    BY <1>1, <1>2, <2>1, <2>2, <2>4, <2>5, RowsKeep DEF Paging!Insert
<1>3. ASSUME NEW i \in Paging!Ids,
             \/ Paging!Commit(i) \/ Paging!Rollback(i) \/ Paging!Edit(i) \/ Paging!Delete(i)
             \/ Paging!DeleteEnterprise(i)
      PROVE  PagingInv'
  <2>1. CASE Paging!Commit(i)
    BY <1>1, <2>1, BecomesKeeps DEF Paging!Commit
  <2>2. CASE Paging!Rollback(i)
    BY <1>1, <2>2, BecomesKeeps DEF Paging!Rollback
  <2>3. CASE Paging!Edit(i)
    BY <1>1, <2>3, BecomesKeeps DEF Paging!Edit
  <2>4. CASE Paging!Delete(i)
    BY <1>1, <2>4, BecomesKeeps DEF Paging!Delete
  <2>5. CASE Paging!DeleteEnterprise(i)
    BY <2>5, BecomesKeeps DEF Paging!DeleteEnterprise
  <2>6. QED
    BY <1>3, <2>1, <2>2, <2>3, <2>4, <2>5
<1>4. CASE Paging!DeleteCatalog
  <2>1. \A i : Undrawn(i)' => table'[i] = "none"
    BY <1>4 DEF Paging!DeleteCatalog, PagingInv, Undrawn
  <2>2. QED
    BY <1>4, <2>1, RowsKeep DEF Paging!DeleteCatalog, PagingInv, Paging!TypeOK, Paging!Shown
<1>5. QED
  BY <1>2, <1>3, <1>4 DEF Paging!Others

LEMMA AskKeeps ==
    ASSUME PagingInv, NEW name, NEW n \in RawLimits, NEW default \in 1 .. MaxLimit,
           NEW next \in {"parent", "query"}, Paging!Ask(name, n, default, next)
    PROVE  PagingInv'
<1>1. Paging!Clamp(n, default) \in 1 .. MaxLimit
  BY Bounds DEF Paging!Clamp
<1>2. Paging!TypeOK'
  BY <1>1 DEF Paging!Ask, PagingInv, Paging!TypeOK, Paging!rows, Paging!Shown
<1>3. /\ UNCHANGED <<listing, table, nextID, parent, cursor, times>>
      /\ phase \in {"idle", "page"} /\ phase' = next
  BY DEF Paging!Ask, Paging!rows
<1>4. steady' \subseteq Paging!Shown'
  BY <1>3 DEF Paging!Ask, PagingInv, Paging!Shown
<1>5. ReadUpToCursor'
  <2>1. ReadUpToCursor
    BY <1>3 DEF PagingInv
  <2>2. CASE phase = "idle"
    BY <1>3, <2>1, <2>2 DEF PagingInv, ReadUpToCursor
  <2>3. CASE phase = "page"
    <3>1. steady' = steady
      BY <2>3 DEF Paging!Ask
    <3>2. QED
      BY <1>3, <2>1, <3>1, Zenon DEF ReadUpToCursor, Paging!Before
  <2>4. QED
    BY <1>3, <2>2, <2>3
<1>6. \A i : Undrawn(i)' => table'[i] = "none"
  BY <1>3 DEF PagingInv, Undrawn
<1>7. QED
  BY <1>2, <1>3, <1>4, <1>5, <1>6 DEF PagingInv, ScanIsComplete, Paging!ScanIsComplete

LEMMA RequestsKeep == ASSUME PagingInv, NEW n \in RawLimits, Paging!Requests(n) PROVE PagingInv'
BY Bounds, AskKeeps
   DEF Paging!Requests, Paging!ListUsers, Paging!ListCatalogs, Paging!ListEnterprises,
   Paging!ListPublic, Paging!ListAuditLogs,
   Paging!ListEnrollments, Paging!ListByCatalog

LEMMA LookUpKeeps == ASSUME PagingInv, Paging!LookUp PROVE PagingInv'
<1>1. /\ UNCHANGED <<listing, table, nextID, parent, limit, cursor, times, steady>>
      /\ phase = "parent" /\ phase' \in {"query", "not found"}
  BY DEF Paging!LookUp, Paging!rows
<1>2. Paging!TypeOK' /\ steady' \subseteq Paging!Shown' /\ \A i : Undrawn(i)' => table'[i] = "none"
  BY <1>1 DEF PagingInv, Paging!TypeOK, Paging!Shown, Undrawn
<1>3. ReadUpToCursor'
  BY <1>1 DEF PagingInv, ReadUpToCursor, Paging!Before
<1>4. QED
  BY <1>1, <1>2, <1>3 DEF PagingInv, ScanIsComplete, Paging!ScanIsComplete

LEMMA RestartKeeps == ASSUME PagingInv, Paging!Restart PROVE PagingInv'
<1>1. 0 \in 0 .. MaxID /\ 1 \in 1 .. MaxLimit
  BY Bounds
<1>2. UNCHANGED <<listing, table, nextID, parent>> /\ phase' = "idle" /\ cursor' = 0 /\ steady' = {}
  BY DEF Paging!Restart, Paging!rows
<1>3. Paging!TypeOK' /\ \A i : Undrawn(i)' => table'[i] = "none"
  <2>1. limit' = 1 /\ times' \in [Paging!Ids -> 0 .. 2]
    BY DEF Paging!Restart
  <2>2. Paging!TypeOK'
    BY <1>1, <1>2, <2>1 DEF PagingInv, Paging!TypeOK
  <2>3. \A i : Undrawn(i)' => table'[i] = "none"
    BY <1>2 DEF PagingInv, Undrawn
  <2>4. QED
    BY <2>2, <2>3
<1>4. ReadUpToCursor'
  BY <1>2 DEF Paging!Restart, ReadUpToCursor
<1>5. QED
  BY <1>2, <1>3, <1>4 DEF PagingInv, ScanIsComplete, Paging!ScanIsComplete

\* Every row of a query lies beyond the cursor, and none of those was returned before.
LEMMA MatchingIsNew ==
    ASSUME PagingInv, phase = "query"
    PROVE  /\ Paging!Matching \subseteq Paging!Ids /\ Paging!Ids \subseteq Int /\ cursor \in Int
           /\ \A i \in Paging!Matching : times[i] = 0
           /\ \A i \in steady : i \in Paging!Matching \/ times[i] > 0
           /\ \A i \in Paging!Matching : cursor # 0 => Paging!Before(cursor, i)
<1>1. /\ Paging!Ids \subseteq Int /\ cursor \in Int /\ Paging!Matching \subseteq Paging!Ids
      /\ steady \subseteq Paging!Ids
  BY Bounds DEF PagingInv, Paging!TypeOK, Paging!Matching, Paging!Shown
<1>2. ReadUpToCursor /\ \A i \in Paging!Ids : times[i] \in 0 .. 2
  BY DEF PagingInv, Paging!TypeOK
<1>3. \A i \in Paging!Matching : cursor # 0 => Paging!Before(cursor, i)
  BY DEF Paging!Matching, Paging!Beyond
<1>4. ASSUME NEW i \in Paging!Matching PROVE times[i] = 0
  <2>1. i \in Paging!Ids /\ times[i] \in 0 .. 2 /\ ~(times[i] > 0)
    BY <1>1, <1>2, <1>3 DEF ReadUpToCursor
  <2>2. QED
    BY <2>1
<1>5. ASSUME NEW i \in steady PROVE i \in Paging!Matching \/ times[i] > 0
  BY <1>2, <1>5 DEF PagingInv, ReadUpToCursor, Paging!Matching, Paging!Beyond
<1>6. QED
  BY <1>1, <1>3, <1>4, <1>5

\* What a page returns.
LEMMA ReturnCounts ==
    ASSUME PagingInv, NEW page \in SUBSET Paging!Ids, Paging!Return(page)
    PROVE  /\ times' \in [Paging!Ids -> 0 .. 2]
           /\ \A i \in Paging!Ids : times'[i] > 0 <=> i \in page \/ times[i] > 0
           /\ \A i \in Paging!Ids \ page : times'[i] = times[i]
<1>1. \A i \in Paging!Ids : times[i] \in 0 .. 2
  BY DEF PagingInv, Paging!TypeOK
<1>2. QED
  BY <1>1 DEF Paging!Return

\* A page that is not the last, and the cursor that comes with it.
LEMMA PageKeeps ==
    ASSUME PagingInv, phase = "query",
           NEW fetched \in SUBSET Paging!Matching,
           Paging!IsFirst(fetched, Paging!Fetched, Paging!Matching),
           NEW page \in SUBSET fetched, Paging!IsFirst(page, limit, fetched),
           NEW next \in Paging!Ids, Paging!IsNextCursor(next, page, fetched),
           Paging!Return(page), cursor' = next, phase' = "page",
           UNCHANGED <<listing, Paging!rows, limit, steady>>
    PROVE  PagingInv'
<1>1. /\ page \subseteq Paging!Matching /\ page \subseteq Paging!Ids /\ next \in page
      /\ \A j \in page : j # next => Paging!Before(j, next)
      /\ UNCHANGED <<listing, table, nextID, parent, steady>>
  BY MatchingIsNew DEF Paging!IsNextCursor, Paging!IsLast, Paging!rows
<1>2. next \in 1 .. MaxID /\ next \in Int /\ next # 0 /\ next \in 0 .. MaxID
  BY Bounds
<1>3. Paging!TypeOK' /\ steady' \subseteq Paging!Shown' /\ \A i : Undrawn(i)' => table'[i] = "none"
  <2>1. Paging!TypeOK'
    BY <1>1, <1>2, ReturnCounts DEF PagingInv, Paging!TypeOK
  <2>2. QED
    BY <1>1, <2>1 DEF PagingInv, Undrawn, Paging!Shown
<1>4. ASSUME NEW i \in steady PROVE Paging!Before(next, i) \/ times'[i] > 0
  <2>1. i \in Paging!Ids
    BY DEF PagingInv, Paging!TypeOK
  <2>2. CASE i \in page \/ times[i] > 0
    BY <1>1, <2>1, <2>2, ReturnCounts
  <2>3. CASE i \notin page /\ i \in Paging!Matching
    BY <1>1, <2>3 DEF Paging!IsFirst
  <2>4. QED
    BY <2>2, <2>3, MatchingIsNew
<1>5. ASSUME NEW i \in Paging!Ids, times'[i] > 0 PROVE ~Paging!Before(next, i)
  <2>1. i \in Int /\ cursor \in Int /\ next \in Int
    BY MatchingIsNew, <1>2
  <2>2. CASE i \in page
    BY <1>1, <2>1, <2>2, BeforeOrders DEF Paging!Before
  <2>3. CASE i \notin page
    <3>1. times[i] > 0 /\ ReadUpToCursor
      BY <1>1, <1>5, <2>3, ReturnCounts DEF PagingInv
    <3>2. cursor # 0 /\ ~Paging!Before(cursor, i) /\ Paging!Before(cursor, next)
      BY <1>1, <3>1, MatchingIsNew DEF ReadUpToCursor
    <3>3. QED
      BY <2>1, <3>2, BeforeOrders
  <2>4. QED
    BY <2>2, <2>3
<1>6. ReadUpToCursor'
  BY <1>1, <1>2, <1>4, <1>5 DEF ReadUpToCursor, Paging!Before
<1>7. QED
  BY <1>3, <1>6 DEF PagingInv, ScanIsComplete, Paging!ScanIsComplete

\* The last page holds all that is left.
LEMMA LastPageKeeps ==
    ASSUME PagingInv, phase = "query",
           NEW fetched \in SUBSET Paging!Matching,
           Paging!IsFirst(fetched, Paging!Fetched, Paging!Matching),
           Paging!Cardinality(fetched) <= limit,
           Paging!Return(fetched), phase' = "done",
           UNCHANGED <<listing, Paging!rows, limit, steady, cursor>>
    PROVE  PagingInv'
<1>1. /\ fetched \subseteq Paging!Ids
      /\ UNCHANGED <<listing, table, nextID, parent, steady, cursor, limit>>
  BY MatchingIsNew DEF Paging!rows
<1>2. fetched = Paging!Matching
  <2>1. limit \in Int /\ ~(limit + 1 <= limit)
    BY Bounds DEF PagingInv, Paging!TypeOK
  <2>2. QED
    BY <2>1 DEF Paging!IsFirst, Paging!Fetched
<1>3. Paging!TypeOK' /\ steady' \subseteq Paging!Shown' /\ \A i : Undrawn(i)' => table'[i] = "none"
  <2>1. Paging!TypeOK'
    BY <1>1, ReturnCounts DEF PagingInv, Paging!TypeOK
  <2>2. QED
    BY <1>1, <2>1 DEF PagingInv, Undrawn, Paging!Shown
<1>4. ASSUME NEW i \in steady PROVE times'[i] > 0
  <2>1. i \in Paging!Ids
    BY DEF PagingInv, Paging!TypeOK
  <2>2. QED
    BY <1>1, <1>2, <2>1, MatchingIsNew, ReturnCounts
<1>5. QED
  BY <1>1, <1>3, <1>4 DEF PagingInv, ScanIsComplete, Paging!ScanIsComplete

LEMMA AnswerKeeps == ASSUME PagingInv, Paging!Answer(Paging!Matching) PROVE PagingInv'
<1>1. phase = "query" /\ UNCHANGED <<listing, Paging!rows, limit, steady>>
  BY DEF Paging!Answer
<1>2. PICK fetched \in SUBSET Paging!Matching :
          /\ Paging!IsFirst(fetched, Paging!Fetched, Paging!Matching)
          /\ \/ /\ \E page \in SUBSET fetched, next \in Paging!Ids :
                      /\ Paging!IsFirst(page, limit, fetched)
                      /\ Paging!IsNextCursor(next, page, fetched)
                      /\ Paging!Return(page)
                      /\ cursor' = next
                /\ phase' = "page"
             \/ /\ Paging!Cardinality(fetched) <= limit
                /\ Paging!Return(fetched)
                /\ phase' = "done"
                /\ UNCHANGED cursor
  BY DEF Paging!Answer
<1>3. CASE /\ \E page \in SUBSET fetched, next \in Paging!Ids :
                 /\ Paging!IsFirst(page, limit, fetched)
                 /\ Paging!IsNextCursor(next, page, fetched)
                 /\ Paging!Return(page)
                 /\ cursor' = next
           /\ phase' = "page"
  BY <1>1, <1>2, <1>3, PageKeeps
<1>4. CASE /\ Paging!Cardinality(fetched) <= limit
           /\ Paging!Return(fetched)
           /\ phase' = "done"
           /\ UNCHANGED cursor
  BY <1>1, <1>2, <1>4, LastPageKeeps
<1>5. QED
  BY <1>2, <1>3, <1>4

LEMMA QueriesKeep == ASSUME PagingInv, Paging!Queries PROVE PagingInv'
BY LookUpKeeps, AnswerKeeps
   DEF Paging!Queries, Paging!FindEnterprise, Paging!FindCatalog, Paging!FindUsers,
   Paging!FindTrainingCatalogs,
   Paging!FindEnterprises, Paging!FindPublicEnterprises, Paging!FindEnterpriseAuditEvents,
   Paging!FindTrainingEnrollments

LEMMA PagingStepKeeps == PagingInv /\ [Paging!Next]_(Paging!vars) => PagingInv'
<1> SUFFICES ASSUME PagingInv, [Paging!Next]_(Paging!vars) PROVE PagingInv'
  OBVIOUS
<1>1. CASE UNCHANGED Paging!vars
  BY <1>1 DEF Paging!vars, PagingInv, Paging!TypeOK, ReadUpToCursor, ScanIsComplete,
     Paging!ScanIsComplete, Undrawn, Paging!Shown, Paging!Before
<1>2. QED
  BY <1>1, OthersKeep, RequestsKeep, QueriesKeep, RestartKeeps DEF Paging!Next

\* Whatever is inserted, edited and deleted between its pages, a scan has returned the steady
\* rows up to its cursor.
THEOREM PagingInvariance == Paging!Spec => []PagingInv
BY PagingStarts, PagingStepKeeps, PTL DEF Paging!Spec

\* A scan that has come to the end has returned every row that was there and visible all
\* along, from whatever page size the client asks for.
THEOREM Complete == Paging!Spec => []ScanIsComplete
<1>1. PagingInv => ScanIsComplete
  BY DEF PagingInv
<1>2. QED
  BY <1>1, PagingInvariance, PTL

\* Only an answer returns rows, and it returns rows beyond the cursor.
LEMMA OnlyAnswersReturn ==
    ASSUME PagingInv, [Paging!Next]_(Paging!vars), NEW i \in Paging!Ids, times'[i] > times[i]
    PROVE  phase = "query" /\ i \in Paging!Matching
<1>1. times[i] \in 0 .. 2
  BY DEF PagingInv, Paging!TypeOK
<1>2. times' # times /\ times'[i] # 0
  BY <1>1
<1>3. /\ ~UNCHANGED Paging!vars /\ ~Paging!Others
      /\ ~(\E n \in RawLimits : Paging!Requests(n)) /\ ~Paging!Restart
  <2>1. ~UNCHANGED Paging!vars /\ ~Paging!Restart
    BY <1>2 DEF Paging!vars, Paging!Restart
  <2>2. ~Paging!Others
    BY <1>2 DEF Paging!Others, Paging!Insert, Paging!Commit, Paging!Rollback, Paging!Edit,
       Paging!Delete, Paging!DeleteEnterprise, Paging!DeleteCatalog, Paging!Becomes, Paging!scan
  <2>3. ~(\E n \in RawLimits : Paging!Requests(n))
    BY <1>2 DEF Paging!Requests, Paging!ListUsers, Paging!ListCatalogs, Paging!ListEnterprises,
       Paging!ListPublic, Paging!ListAuditLogs,
       Paging!ListEnrollments, Paging!ListByCatalog, Paging!Ask
  <2>4. QED
    BY <2>1, <2>2, <2>3
<1>4. Paging!Answer(Paging!Matching)
  BY <1>2, <1>3
     DEF Paging!Next, Paging!Queries, Paging!FindEnterprise, Paging!FindCatalog, Paging!LookUp,
     Paging!FindUsers, Paging!FindTrainingCatalogs,
     Paging!FindEnterprises, Paging!FindPublicEnterprises, Paging!FindEnterpriseAuditEvents,
     Paging!FindTrainingEnrollments
<1>5. PICK page \in SUBSET Paging!Matching : Paging!Return(page) /\ phase = "query"
  BY <1>4 DEF Paging!Answer
<1>6. i \in page
  <2>1. page \in SUBSET Paging!Ids
    BY <1>5, MatchingIsNew
  <2>2. i \notin page => times'[i] = times[i]
    BY <1>5, <2>1, ReturnCounts
  <2>3. QED
    BY <1>1, <2>2
<1>7. QED
  BY <1>5, <1>6

\* A page returns only rows that come after all those of the pages before it, so none comes
\* twice.
THEOREM OneWay == Paging!Spec => InOrder
<1>1. PagingInv /\ [Paging!Next]_(Paging!vars) =>
          [\A i, j \in Paging!Ids :
              times'[i] > times[i] /\ times[j] > 0 => Paging!Before(j, i)]_(Paging!vars)
  <2> SUFFICES ASSUME PagingInv, [Paging!Next]_(Paging!vars), NEW i \in Paging!Ids,
                      NEW j \in Paging!Ids,
                      times'[i] > times[i], times[j] > 0
               PROVE  Paging!Before(j, i)
    OBVIOUS
  <2>1. phase = "query" /\ i \in Paging!Matching
    BY OnlyAnswersReturn
  <2>2. i \in Int /\ j \in Int /\ cursor \in Int
    BY <2>1, MatchingIsNew
  <2>3. cursor # 0 /\ ~Paging!Before(cursor, j)
    BY <2>1 DEF PagingInv, ReadUpToCursor
  <2>4. Paging!Before(cursor, i)
    BY <2>1, <2>3, MatchingIsNew
  <2>5. QED
    BY <2>2, <2>3, <2>4, BeforeOrders
<1>2. QED
  BY <1>1, PagingInvariance, PTL DEF Paging!Spec, InOrder, Paging!InOrder

-----------------------------------------------------------------------------
(* The composition.                                                        *)

\* Whatever part a behaviour follows, it is a behaviour of each: the others stutter.
LEMMA PartsFollow == PartsSpec => Spec /\ Tunnel!Spec /\ Paging!Spec
<1>1. PartsInit => Init /\ Tunnel!Init /\ Paging!Init
  BY DEF PartsInit
<1>2. [PartsNext]_<<part, vars, ofTunnel, ofPaging, ofAccount>> =>
          [Next]_vars /\ [Tunnel!Next]_(Tunnel!vars) /\ [Paging!Next]_(Paging!vars)
  BY DEF PartsNext, ofTunnel, ofPaging, Tunnel!vars, Paging!vars
<1>3. QED
  BY <1>1, <1>2, PTL DEF PartsSpec, Spec, Tunnel!Spec, Paging!Spec

\* So what the parts promise holds of the whole that TLC runs.
THEOREM PartsHold ==
    PartsSpec => [](GracefulLosesNothing /\ NothingLeaks /\ ScanIsComplete) /\ InOrder
BY PartsFollow, Graceful, NoLeak, Complete, OneWay, PTL

=============================================================================
