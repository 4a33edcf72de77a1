---------------------- MODULE RefreshSessionInvariant ----------------------
(***************************************************************************)
(* The inductive invariant of RefreshSession: what holds between the       *)
(* statements of the requests, so that one family never has two live       *)
(* sessions.                                                               *)
(***************************************************************************)
EXTENDS RefreshSession

\* A request knows what its next statement needs, and the time it has sampled is past.
LocalsReady(t) ==
    /\ req[t].at <= now
    /\ pc[t] = "cleanup" => \/ req[t].op = "login" /\ req[t].user \in Users
                            \/ req[t].op = "refresh" /\ req[t].token \in Tokens
    /\ pc[t] = "create" => req[t].user \in Users
    /\ pc[t] \in {"find", "checkUser", "rotate", "commitRotate"} => req[t].token \in Tokens

\* Sessions and families are named after tokens that have been handed out.
SessionsIssued ==
    \A s \in Tokens : Exists(s) => s \in issued /\ session[s].family \in issued

\* The row that an open rotation has written is live for everybody else, the token
\* drawn for its replacement is unknown, and two open rotations share neither.
RotationsExclusive ==
    \A t \in Conns : pc[t] = "commitRotate" =>
        /\ IsLive(req[t].token)
        /\ req[t].next \in Tokens \ issued
        /\ \A r \in Conns \ {t} : pc[r] = "commitRotate" =>
               req[r].token # req[t].token /\ req[r].next # req[t].next

\* The conjunction is preserved by every statement of every request.
IInv ==
    /\ TypeOK
    /\ \A t \in Conns : LocalsReady(t)
    /\ SessionsIssued
    /\ RotationsExclusive
    /\ OneLivePerFamily
=============================================================================
