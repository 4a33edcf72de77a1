---------------------------- MODULE ServerLifecycle ----------------------------
(***************************************************************************)
(* The life of the server process: main opens and pings the database,      *)
(* starts a goroutine that listens and serves, and waits until that one    *)
(* fails or a signal comes. A signal makes it shut the server down: the    *)
(* listener is closed, idle connections are closed, and main waits for the *)
(* active ones until the timeout. What main has deferred then closes the   *)
(* database and the process ends, with the handlers that still run.        *)
(*                                                                         *)
(* net/http and database/sql are modelled as the code uses them: a server  *)
(* that is shutting down starts no listener, a connection taken before may *)
(* still become active, and a closed database refuses new statements while *)
(* a transaction that has its connection goes on.                          *)
(*                                                                         *)
(* The definitions marked "Mutation" are mistakes the code could have made *)
(* in the definition that follows. Nothing uses them.                      *)
(***************************************************************************)
EXTENDS Sequences, FiniteSets

CONSTANT Conns   \* client connections, each good for one request

VARIABLES
    main,      \* where run stands
    code,      \* what run returns, once it is known
    db,        \* the database handle
    signalled, \* a signal has cancelled the context
    shutting,  \* srv.Shutdown was called
    server,    \* where the serving goroutine stands
    serveErr,  \* the channel, with room for one error
    conn,      \* the connections
    work       \* the handler of each connection

vars == <<main, code, db, signalled, shutting, server, serveErr, conn, work>>
serving == <<server, serveErr>>
clients == <<conn, work>>

-----------------------------------------------------------------------------
Unfinished == {"running", "transaction", "committed"}

Init ==
    /\ main = "load" /\ code = "none"
    /\ db = "none"
    /\ signalled = FALSE /\ shutting = FALSE
    /\ server = "idle" /\ serveErr = <<>>
    /\ conn = [c \in Conns |-> "none"]
    /\ work = [c \in Conns |-> "none"]

Alive == main # "exited"

\* SIGINT or SIGTERM. The second one changes nothing: stop is deferred.
Signal ==
    /\ Alive /\ main # "load"
    /\ signalled' = TRUE
    /\ UNCHANGED <<main, code, db, shutting, serving, clients>>

-----------------------------------------------------------------------------
(* Bootstrap.                                                              *)

\* The configuration is loaded and validated, sql.Open makes the handle.
Load ==
    /\ main = "load"
    /\ \/ main' = "ping" /\ db' = "open" /\ UNCHANGED code
       \/ main' = "exit" /\ code' = "failure" /\ UNCHANGED db
    /\ UNCHANGED <<signalled, shutting, serving, clients>>

AfterFailedPing == "closed"

\* The ping fails, takes five seconds, or is cancelled by the signal.
Ping ==
    /\ main = "ping"
    /\ \/ main' = "serve" /\ UNCHANGED <<code, db>>
       \/ main' = "exit" /\ code' = "failure" /\ db' = AfterFailedPing
    /\ UNCHANGED <<signalled, shutting, serving, clients>>

-----------------------------------------------------------------------------
(* The serving goroutine.                                                  *)

Go ==
    /\ main = "serve"
    /\ main' = "select"
    /\ server' = "starting"
    /\ UNCHANGED <<code, db, signalled, shutting, serveErr, clients>>

\* Mutation: an error is sent, and sent again by a deferred call.
SentTwice(err) == serveErr \o <<err, err>>

\* The send does not block: main receives at most once, and the channel has room for one.
Sent(err) == Append(serveErr, err)

Stop(err) ==
    /\ server' = "returned"
    /\ serveErr' = Sent(err)

\* ListenAndServe binds the address, unless the server is shutting down.
Listen ==
    /\ Alive /\ server = "starting"
    /\ \/ shutting /\ Stop("closed")
       \/ ~shutting /\ server' = "bound" /\ UNCHANGED serveErr
       \/ ~shutting /\ Stop("failed")
    /\ UNCHANGED <<main, code, db, signalled, shutting, clients>>

\* Serve takes the listener, or finds that Shutdown came first.
Serve ==
    /\ Alive /\ server = "bound"
    /\ IF shutting THEN Stop("closed") ELSE server' = "serving" /\ UNCHANGED serveErr
    /\ UNCHANGED <<main, code, db, signalled, shutting, clients>>

\* Accept returns an error: of the closed listener, or one that lasts.
ServeEnds ==
    /\ Alive /\ server = "serving"
    /\ Stop(IF shutting THEN "closed" ELSE "failed")
    /\ UNCHANGED <<main, code, db, signalled, shutting, clients>>

-----------------------------------------------------------------------------
(* Clients and handlers.                                                   *)

Connect(c) ==
    /\ Alive /\ server = "serving" /\ ~shutting
    /\ conn[c] = "none"
    /\ conn' = [conn EXCEPT ![c] = "idle"]
    /\ UNCHANGED <<main, code, db, signalled, shutting, serving, work>>

\* A request arrives, after Shutdown as well if the connection is not yet closed.
Request(c) ==
    /\ Alive
    /\ conn[c] = "idle" /\ work[c] = "none"
    /\ conn' = [conn EXCEPT ![c] = "active"]
    /\ work' = [work EXCEPT ![c] = "running"]
    /\ UNCHANGED <<main, code, db, signalled, shutting, serving>>

Answer(c, w) ==
    /\ work' = [work EXCEPT ![c] = w]
    /\ conn' = [conn EXCEPT ![c] = "idle"]

\* The handler begins a transaction; a closed database makes it answer 500.
Begin(c) ==
    /\ Alive
    /\ work[c] = "running"
    /\ \/ db = "open" /\ work' = [work EXCEPT ![c] = "transaction"] /\ UNCHANGED conn
       \/ db = "closed" /\ Answer(c, "refused")
    /\ UNCHANGED <<main, code, db, signalled, shutting, serving>>

Commit(c) ==
    /\ Alive
    /\ work[c] = "transaction"
    /\ work' = [work EXCEPT ![c] = "committed"]
    /\ UNCHANGED <<main, code, db, signalled, shutting, serving, conn>>

Respond(c) ==
    /\ Alive
    /\ work[c] = "committed"
    /\ Answer(c, "answered")
    /\ UNCHANGED <<main, code, db, signalled, shutting, serving>>

\* Shutdown closes the connections it finds idle.
CloseIdle(c) ==
    /\ main = "shutdown" /\ conn[c] = "idle"
    /\ conn' = [conn EXCEPT ![c] = "closed"]
    /\ UNCHANGED <<main, code, db, signalled, shutting, serving, work>>

-----------------------------------------------------------------------------
(* The end of run.                                                         *)

\* The select takes either case when both are ready.
ServerFailed ==
    /\ main = "select" /\ serveErr # <<>>
    /\ main' = "cleanup" /\ code' = "failure"
    /\ serveErr' = Tail(serveErr)
    /\ UNCHANGED <<db, signalled, shutting, server, clients>>

ShutDown ==
    /\ main = "select" /\ signalled
    /\ main' = "shutdown"
    /\ shutting' = TRUE
    /\ UNCHANGED <<code, db, signalled, serving, clients>>

\* No connection is left.
Quiet == \A c \in Conns : conn[c] \in {"none", "closed"}

DrainedInTime ==
    /\ main = "shutdown" /\ Quiet
    /\ main' = "cleanup" /\ code' = "success"
    /\ UNCHANGED <<db, signalled, shutting, serving, clients>>

\* Mutation: Shutdown is called without a deadline.
MayTimeOutNever == FALSE

\* The shutdown timeout may come at any time.
MayTimeOut == main = "shutdown"

\* Mutation: the error of Shutdown is logged and not returned.
AfterTimeoutUnnoticed == "success"

\* run returns the error of Shutdown.
AfterTimeout == "failure"

TimedOut ==
    /\ MayTimeOut
    /\ main' = "cleanup" /\ code' = AfterTimeout
    /\ UNCHANGED <<db, signalled, shutting, serving, clients>>

\* The deferred db.Close, which does not wait for the handlers.
CloseDatabase ==
    /\ main = "cleanup"
    /\ main' = "exit"
    /\ db' = "closed"
    /\ UNCHANGED <<code, signalled, shutting, serving, clients>>

\* main returns, or os.Exit(1): whatever still runs is cut off.
Exit ==
    /\ main = "exit"
    /\ main' = "exited"
    /\ UNCHANGED <<code, db, signalled, shutting, serving, clients>>

-----------------------------------------------------------------------------
Main ==
    \/ Load \/ Ping \/ Go
    \/ ServerFailed \/ ShutDown \/ DrainedInTime \/ TimedOut
    \/ CloseDatabase \/ Exit

Next ==
    \/ Signal \/ Main
    \/ Listen \/ Serve \/ ServeEnds
    \/ \E c \in Conns :
          Connect(c) \/ Request(c) \/ Begin(c) \/ Commit(c) \/ Respond(c) \/ CloseIdle(c)

Spec == Init /\ [][Next]_vars

\* main runs, and its timers expire; no handler has to come to an end.
Fairness == WF_vars(Main)

FairSpec == Spec /\ Fairness

-----------------------------------------------------------------------------
(* Properties.                                                             *)

\* Every variable has its type; the channel never holds more than it has room for.
TypeOK ==
    /\ main \in {"load", "ping", "serve", "select", "shutdown", "cleanup", "exit", "exited"}
    /\ code \in {"none", "success", "failure"}
    /\ db \in {"none", "open", "closed"}
    /\ signalled \in BOOLEAN /\ shutting \in BOOLEAN
    /\ server \in {"idle", "starting", "bound", "serving", "returned"}
    /\ serveErr \in {<<>>, <<"failed">>, <<"closed">>}
    /\ conn \in [Conns -> {"none", "idle", "active", "closed"}]
    /\ work \in [Conns -> Unfinished \cup {"none", "answered", "refused"}]

\* A server that reports a graceful stop has cut nobody off: no handler runs once the
\* database is closed, and none was refused by a closed database, whenever its request
\* arrived.
GracefulLosesNothing ==
    db = "closed" /\ code = "success" =>
        \A c \in Conns : work[c] \in {"none", "answered"}

\* After a signal the process ends, whatever it was doing and whatever the handlers do.
SignalEnds == signalled ~> main = "exited"

=============================================================================
