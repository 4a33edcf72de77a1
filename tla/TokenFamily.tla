---------------------------- MODULE TokenFamily ----------------------------
(***************************************************************************)
(* What refresh sessions promise: a login opens a family of refresh tokens *)
(* that has one current token, each rotation hands the family over to a    *)
(* token nobody has seen before, and a family that has ended stays ended.  *)
(* RefreshSession implements this module (its Family instance).            *)
(***************************************************************************)
CONSTANTS Tokens

VARIABLES
    current,  \* the tokens a family accepts: one while it is open, else none
    issued    \* the tokens handed out so far

vars == <<current, issued>>

\* A family is named after the token of the login that opened it.
Families == Tokens

Init ==
    /\ current = [f \in Families |-> {}]
    /\ issued = {}

Open(f) ==
    /\ f \notin issued
    /\ current' = [current EXCEPT ![f] = {f}]
    /\ issued' = issued \cup {f}

Rotate(f, old, new) ==
    /\ current[f] = {old}
    /\ new \notin issued
    /\ current' = [current EXCEPT ![f] = {new}]
    /\ issued' = issued \cup {new}

\* One statement may end several families: all of a user, or all expired ones.
End(ended) ==
    /\ current' = [f \in Families |-> IF f \in ended THEN {} ELSE current[f]]
    /\ UNCHANGED issued

Next ==
    \/ \E f \in Families : Open(f)
    \/ \E f \in Families, old, new \in Tokens : Rotate(f, old, new)
    \/ \E ended \in SUBSET Families : End(ended)

Spec == Init /\ [][Next]_vars
=============================================================================
