------------------------------ MODULE MCHandlers ------------------------------
(***************************************************************************)
(* Instances for TLC of what stands before and around a handler: access    *)
(* control, the rate limiters and the thumbnail upload. They share no      *)
(* state, so a behaviour follows one of them, "part", and leaves the       *)
(* others as they began.                                                   *)
(***************************************************************************)
EXTENDS AccessControl, TLC

CONSTANTS
    Keys, Routes, Limits, Interval, TicksPerSecond, MaxTracked, MaxNow,
    Names, Lengths, MaxSize,
    Nil

VARIABLES
    part,
    now, windows, clientPC, clientReq, admitted,
    disk, uploadPC, up, crashed

-----------------------------------------------------------------------------
\* The administrator and the member call the routes of administrators for each other, the
\* member with a token from before or after he was one, and the member calls those of his
\* own. A token that is not good goes with one route.
MCCalls ==
    [route : {"admin"}, owner : Admins, target : Users \ Admins, token : {"admin"}]
        \cup [route : {"admin"}, owner : Users \ Admins, target : Admins, token : Roles]
        \cup [route : {"self"}, owner : Users \ Admins, target : Users, token : {"member"}]
        \cup [route : {"authenticated"}, owner : Admins, target : Admins, token : {"expired", "admin"}]
        \cup [route : {"public"}, owner : Admins, target : Admins, token : {"none"}]

\* The limiter of the route is stricter than the general one.
MCLimits == [l \in {"general", "login", "refresh"} |-> IF l = "general" THEN 2 ELSE 1]

MCSymmetry == Permutations(Requests) \cup Permutations(Keys)

-----------------------------------------------------------------------------
Limiter == INSTANCE RateLimiter WITH
    Conns <- Requests, Limit <- Limits, pc <- clientPC, req <- clientReq

Upload == INSTANCE ThumbnailUpload WITH Uploads <- Requests, pc <- uploadPC

ASSUME LimiterAssumption == Limiter!ConstantsAssumption /\ Limiter!NilIsNoWindow
ASSUME UploadAssumption == Upload!ConstantsAssumption /\ Upload!NilIsNoFile

ofLimiter == <<now, windows, clientPC, clientReq, admitted>>
ofUpload == <<disk, uploadPC, up, crashed>>

PartsInit ==
    /\ part \in {"access", "limiter", "upload"}
    /\ Init /\ Limiter!Init /\ Upload!Init
    /\ part # "limiter" => \A r \in Requests : clientReq[r] = clientReq[CHOOSE s \in Requests : TRUE]
    /\ part # "upload" => \A r \in Requests : up[r].length = 0 /\ up[r].declared = 0 /\ up[r].image

PartsNext ==
    \/ part = "access" /\ Next /\ UNCHANGED <<part, ofLimiter, ofUpload>>
    \/ part = "limiter" /\ Limiter!Next /\ UNCHANGED <<part, vars, ofUpload>>
    \/ part = "upload" /\ Upload!Next /\ UNCHANGED <<part, vars, ofLimiter>>

PartsSpec == PartsInit /\ [][PartsNext]_<<part, vars, ofLimiter, ofUpload>>

-----------------------------------------------------------------------------
(* The properties of the parts, under their names.                         *)

\* No interval admits more than twice the limit from one address.
AtMostTwice == Limiter!AtMostTwice

\* A client is refused only when its address has used up the limit.
RefusedAtLimit == Limiter!RefusedAtLimit

\* A URL that was answered names a file that holds the whole upload.
AnsweredIsWhole == Upload!AnsweredIsWhole

\* An upload that fails leaves no file behind.
FailureLeavesNothing == Upload!FailureLeavesNothing

=============================================================================
