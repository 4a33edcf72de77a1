-------------------------------- MODULE Tunnel --------------------------------
(***************************************************************************)
(* The SSH tunnel of the commands. Open dials the bastion, shakes hands    *)
(* and listens on a local port; a goroutine accepts connections and starts *)
(* one per connection, which dials the target through the bastion and      *)
(* copies in both directions until one of them ends. Clients and targets   *)
(* hang up, the bastion may drop the session, and Close runs at any time,  *)
(* from more than one caller.                                              *)
(*                                                                         *)
(* What is copied is left out: a copy ends, or goes on. An error that      *)
(* Accept returns ends the accepting goroutine for good, whether or not    *)
(* the listener is closed.                                                 *)
(*                                                                         *)
(* The definitions marked "Mutation" are mistakes the code could have made *)
(* in the definition that follows. Nothing uses them.                      *)
(***************************************************************************)
EXTENDS Naturals

CONSTANTS
    Conns,    \* connections of local clients
    Closers   \* callers of Close

VARIABLES
    open,      \* what Open has done so far, or the end it has come to
    socket,    \* the TCP connection to the bastion is open
    listener,  \* the local listener is open
    ssh,       \* the SSH client is open
    loop,      \* forward is accepting
    once,      \* closeOnce
    closer,    \* what each caller of Close is about to do
    conn,      \* where each connection stands
    local,     \* its local end
    remote,    \* its end at the target
    copy,      \* its two copies
    hungUp     \* the peers that have closed their side

vars == <<open, socket, listener, ssh, loop, once, closer, conn, local, remote, copy, hungUp>>
tunnel == <<open, socket, listener, ssh, loop>>
closing == <<once, closer>>
forwarding == <<conn, local, remote, copy, hungUp>>

-----------------------------------------------------------------------------
Ends == {"none", "open", "closed"}
\* "in" copies what the target sends to the client, "out" the other way.
Directions == {"in", "out"}

Init ==
    /\ open = "dial"
    /\ socket = FALSE /\ listener = FALSE /\ ssh = FALSE /\ loop = FALSE
    /\ once = "free"
    /\ closer = [k \in Closers |-> "idle"]
    /\ conn = [c \in Conns |-> "none"]
    /\ local = [c \in Conns |-> "none"]
    /\ remote = [c \in Conns |-> "none"]
    /\ copy = [c \in Conns |-> [d \in Directions |-> "none"]]
    /\ hungUp = [c \in Conns |-> {}]

-----------------------------------------------------------------------------
(* Open.                                                                   *)

\* A cancelled context, or no route.
Dial ==
    /\ open = "dial"
    /\ \/ open' = "handshake" /\ socket' = TRUE
       \/ open' = "failed" /\ UNCHANGED socket
    /\ UNCHANGED <<listener, ssh, loop, closing, forwarding>>

\* A failed handshake closes the connection.
Handshake ==
    /\ open = "handshake"
    /\ \/ open' = "listen" /\ ssh' = TRUE /\ UNCHANGED socket
       \/ open' = "failed" /\ socket' = FALSE /\ UNCHANGED ssh
    /\ UNCHANGED <<listener, loop, closing, forwarding>>

Listen ==
    /\ open = "listen"
    /\ \/ open' = "done" /\ listener' = TRUE /\ loop' = TRUE /\ UNCHANGED <<socket, ssh>>
       \/ open' = "failed" /\ ssh' = FALSE /\ socket' = FALSE /\ UNCHANGED <<listener, loop>>
    /\ UNCHANGED <<closing, forwarding>>

\* The bastion drops the session.
SessionLost ==
    /\ open = "done" /\ ssh
    /\ ssh' = FALSE /\ socket' = FALSE
    /\ UNCHANGED <<open, listener, loop, closing, forwarding>>

-----------------------------------------------------------------------------
(* Close.                                                                  *)

\* Mutation: a flag instead of the sync.Once, which nobody waits for.
MayReturnAtOnce == once # "free"

\* A second caller of once.Do returns when the first has done.
MayReturn == once = "done"

CloseListener(k) ==
    /\ open = "done" /\ closer[k] = "idle" /\ once = "free"
    /\ once' = "running"
    /\ listener' = FALSE
    /\ closer' = [closer EXCEPT ![k] = "client"]
    /\ UNCHANGED <<open, socket, ssh, loop, forwarding>>

CloseClient(k) ==
    /\ closer[k] = "client"
    /\ ssh' = FALSE /\ socket' = FALSE
    /\ once' = "done"
    /\ closer' = [closer EXCEPT ![k] = "returned"]
    /\ UNCHANGED <<open, listener, loop, forwarding>>

CloseAgain(k) ==
    /\ open = "done" /\ closer[k] = "idle" /\ MayReturn
    /\ closer' = [closer EXCEPT ![k] = "returned"]
    /\ UNCHANGED <<tunnel, once, forwarding>>

-----------------------------------------------------------------------------
(* Forwarding.                                                             *)

Connect(c) ==
    /\ conn[c] = "none" /\ listener
    /\ conn' = [conn EXCEPT ![c] = "backlog"]
    /\ local' = [local EXCEPT ![c] = "open"]
    /\ UNCHANGED <<tunnel, closing, remote, copy, hungUp>>

\* The kernel resets what was not accepted when the listener closes.
Reset(c) ==
    /\ conn[c] = "backlog" /\ ~listener
    /\ conn' = [conn EXCEPT ![c] = "ended"]
    /\ local' = [local EXCEPT ![c] = "closed"]
    /\ UNCHANGED <<tunnel, closing, remote, copy, hungUp>>

Accept(c) ==
    /\ loop /\ listener /\ conn[c] = "backlog"
    /\ conn' = [conn EXCEPT ![c] = "dialing"]
    /\ UNCHANGED <<tunnel, closing, local, remote, copy, hungUp>>

\* The listener is closed, or the process is out of file descriptors.
AcceptFails ==
    /\ loop
    /\ loop' = FALSE
    /\ UNCHANGED <<open, socket, listener, ssh, closing, forwarding>>

\* Deferred: the goroutine of the connection closes what it holds.
EndConn(c) ==
    /\ conn' = [conn EXCEPT ![c] = "ended"]
    /\ local' = [local EXCEPT ![c] = "closed"]
    /\ remote' = [remote EXCEPT ![c] = IF @ = "none" THEN "none" ELSE "closed"]

DialTarget(c) ==
    /\ conn[c] = "dialing"
    /\ \/ /\ ssh
          /\ conn' = [conn EXCEPT ![c] = "piping"]
          /\ remote' = [remote EXCEPT ![c] = "open"]
          /\ copy' = [copy EXCEPT ![c] = [d \in Directions |-> "copying"]]
          /\ UNCHANGED local
       \/ EndConn(c) /\ UNCHANGED copy
    /\ UNCHANGED <<tunnel, closing, hungUp>>

\* The client or the target closes its side.
HangUp(c, d) ==
    /\ conn[c] = "piping" /\ d \notin hungUp[c]
    /\ hungUp' = [hungUp EXCEPT ![c] = @ \cup {d}]
    /\ UNCHANGED <<tunnel, closing, conn, local, remote, copy>>

\* Reading ends with an error or the end of the stream; "in" reads from the target.
ReadEnds(c, d) ==
    \/ d \in hungUp[c]
    \/ local[c] = "closed" \/ remote[c] = "closed"
    \/ d = "in" /\ ~ssh

\* Mutation: the copy that ends closes nothing.
CloseNeither(ends, c) == ends

\* Mutation: the copy that ends closes for writing only (CloseWrite).
CloseHalf(ends, c) == [ends EXCEPT ![c] = "half"]

\* closeBoth
CloseBoth(ends, c) == [ends EXCEPT ![c] = "closed"]

CopyEnds(c, d) ==
    /\ conn[c] = "piping" /\ copy[c][d] = "copying"
    /\ ReadEnds(c, d)
    /\ copy' = [copy EXCEPT ![c][d] = "done"]
    /\ local' = CloseBoth(local, c)
    /\ remote' = CloseBoth(remote, c)
    /\ UNCHANGED <<tunnel, closing, conn, hungUp>>

\* wg.Wait
BothDone(c) == \A d \in Directions : copy[c][d] = "done"

PipeReturns(c) ==
    /\ conn[c] = "piping" /\ BothDone(c)
    /\ EndConn(c)
    /\ UNCHANGED <<tunnel, closing, copy, hungUp>>

-----------------------------------------------------------------------------
Opening == Dial \/ Handshake \/ Listen

\* What the goroutines and the kernel do of their own.
Forward(c) ==
    \/ Reset(c) \/ Accept(c) \/ DialTarget(c) \/ PipeReturns(c)
    \/ \E d \in Directions : CopyEnds(c, d)

Next ==
    \/ Opening \/ SessionLost \/ AcceptFails
    \/ \E k \in Closers : CloseListener(k) \/ CloseClient(k) \/ CloseAgain(k)
    \/ \E c \in Conns : Connect(c) \/ Forward(c) \/ \E d \in Directions : HangUp(c, d)

Spec == Init /\ [][Next]_vars

\* Goroutines run; nobody has to hang up, and nobody has to call Close.
Fairness ==
    /\ WF_vars(loop /\ ~listener /\ AcceptFails)
    /\ \A c \in Conns : WF_vars(Reset(c)) /\ WF_vars(Forward(c))
    /\ \A c \in Conns, d \in Directions : WF_vars(CopyEnds(c, d))
    /\ \A k \in Closers : WF_vars(CloseClient(k))

FairSpec == Spec /\ Fairness

-----------------------------------------------------------------------------
(* Properties.                                                             *)

\* Every variable has its type.
TypeOK ==
    /\ open \in {"dial", "handshake", "listen", "done", "failed"}
    /\ socket \in BOOLEAN /\ listener \in BOOLEAN /\ ssh \in BOOLEAN /\ loop \in BOOLEAN
    /\ once \in {"free", "running", "done"}
    /\ closer \in [Closers -> {"idle", "client", "returned"}]
    /\ conn \in [Conns -> {"none", "backlog", "dialing", "piping", "ended"}]
    /\ local \in [Conns -> Ends] /\ remote \in [Conns -> Ends]
    /\ copy \in [Conns -> [Directions -> {"none", "copying", "done"}]]
    /\ hungUp \in [Conns -> SUBSET Directions]

\* Nothing is left open by an Open that fails, by a Close that has returned, whoever
\* called it, or by a connection whose goroutine has ended, which no copy outlives.
NothingLeaks ==
    /\ open = "failed" => ~socket /\ ~ssh /\ ~listener
    /\ \A k \in Closers : closer[k] = "returned" => ~listener /\ ~ssh
    /\ \A c \in Conns :
          conn[c] = "ended" =>
              /\ local[c] = "closed" /\ remote[c] # "open"
              /\ \A d \in Directions : copy[c][d] # "copying"

\* What the comment on Close says: it halts the forwarding goroutines. Once Close has
\* begun, the accepting goroutine and that of every connection come to their end.
CloseHalts ==
    once # "free" ~> ~loop /\ \A c \in Conns : conn[c] \in {"none", "ended"}

\* When the client or the target hangs up, the connection comes to its end, idle as the
\* other side may be.
HangUpEnds == \A c \in Conns : hungUp[c] # {} ~> conn[c] = "ended"

=============================================================================
