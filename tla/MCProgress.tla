------------------------------ MODULE MCProgress ------------------------------
(***************************************************************************)
(* Instances for TLC of what has to come to an end: the server, the        *)
(* tunnel, the scan of a listing and the requests of an account. They      *)
(* share no state, so a behaviour follows one of them, "part", and leaves  *)
(* the others as they began; the fairness assumed is that of the one.      *)
(***************************************************************************)
EXTENDS ServerLifecycle, Naturals

CONSTANTS
    Clients, Closers,
    MaxID, RawLimits, DefaultLimit, PublicDefault, MaxLimit,
    PublicIDs, Emails, Profiles, Sessions, Nil, PublicIDAttempts, MaxHashes

VARIABLES
    part,
    open, socket, listener, ssh, loop, once, closer, forwarded, local, remote, copy, hungUp,
    listing, table, nextID, parent, phase, limit, cursor, times, steady,
    user, profile, session, lastHash, ended, pc, req

-----------------------------------------------------------------------------
Tunnel == INSTANCE Tunnel WITH Conns <- Clients, conn <- forwarded

Opened == {"users", "catalogs", "enrollments", "catalog enrollments",
           "newest catalogs", "enterprises", "public enterprises", "audit logs"}
Paging == INSTANCE CursorPaging

Account == INSTANCE UserAccount WITH Conns <- Clients

ASSUME PagingAssumption == Paging!ConstantsAssumption
ASSUME AccountAssumption == Account!ConstantsAssumption /\ Account!NilIsNoRow

ofTunnel == <<open, socket, listener, ssh, loop, once, closer, forwarded, local, remote, copy, hungUp>>
ofPaging == <<listing, table, nextID, parent, phase, limit, cursor, times, steady>>
ofAccount == <<user, profile, session, lastHash, ended, pc, req>>

PartsInit ==
    /\ part \in {"server", "tunnel", "paging", "account"}
    /\ Init /\ Tunnel!Init /\ Paging!Init /\ Account!Init
    /\ part # "paging" => listing = "users"

PartsNext ==
    \/ part = "server" /\ Next /\ UNCHANGED <<part, ofTunnel, ofPaging, ofAccount>>
    \/ part = "tunnel" /\ Tunnel!Next /\ UNCHANGED <<part, vars, ofPaging, ofAccount>>
    \/ part = "paging" /\ Paging!Next /\ UNCHANGED <<part, vars, ofTunnel, ofAccount>>
    \/ part = "account" /\ Account!Next /\ UNCHANGED <<part, vars, ofTunnel, ofPaging>>

PartsSpec ==
    /\ PartsInit /\ [][PartsNext]_<<part, vars, ofTunnel, ofPaging, ofAccount>>
    /\ \/ part = "server" /\ Fairness
       \/ part = "tunnel" /\ Tunnel!Fairness
       \/ part = "paging"
       \/ part = "account" /\ Account!Fairness

-----------------------------------------------------------------------------
(* The properties of the parts, under their names.                         *)

\* What has ended holds nothing open.
NothingLeaks == Tunnel!NothingLeaks

\* Once Close has begun every goroutine comes to its end.
CloseHalts == Tunnel!CloseHalts

\* A connection whose client or target hangs up comes to its end.
HangUpEnds == Tunnel!HangUpEnds

\* A scan returns every row that was there all along.
ScanIsComplete == Paging!ScanIsComplete

\* A scan returns rows in order and none twice.
InOrder == Paging!InOrder

\* Every request of an account is answered.
RequestsFinish == Account!RequestsFinish

=============================================================================
