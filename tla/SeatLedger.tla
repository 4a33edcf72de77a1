----------------------------- MODULE SeatLedger -----------------------------
(***************************************************************************)
(* What the training service promises, without transactions, locks or a    *)
(* stored counter: every request takes effect at once, on the state it     *)
(* finds, and a seat is given only when the rows themselves show it free.  *)
(* TrainingEnrollment implements this module (its Ledger instance): the    *)
(* interleaved statements behave as if requests ran one after the other.   *)
(***************************************************************************)
EXTENDS Integers, FiniteSets

CONSTANTS Users, Catalogs, EnrollmentIDs, Nil, NewSlots, EditSlots,
          TrainingStatuses, RequestedStatuses

VARIABLES
    offer,      \* what a catalog offers: capacity, status, withdrawn or not
    enrollment  \* the enrollments, by public id

vars == <<offer, enrollment>>

Open(c) ==
    /\ offer[c] # Nil
    /\ ~offer[c].deleted
    /\ offer[c].training_status \in {"planned", "ongoing"}

Live(e) == enrollment[e] # Nil /\ ~enrollment[e].deleted

Enrolled(c, statuses) ==
    {e \in EnrollmentIDs : /\ Live(e)
                           /\ enrollment[e].catalog = c
                           /\ enrollment[e].status \in statuses}

Fits(c, statuses) ==
    offer[c].max_slots # Nil
        => Cardinality(Enrolled(c, statuses)) < offer[c].max_slots

Init ==
    /\ offer = [c \in Catalogs |-> Nil]
    /\ enrollment = [e \in EnrollmentIDs |-> Nil]

Publish(c, slots, status) ==
    /\ offer[c] = Nil
    /\ offer' = [offer EXCEPT ![c] = [max_slots |-> slots, training_status |-> status,
                                      deleted |-> FALSE]]
    /\ UNCHANGED enrollment

\* An administrator may lower the capacity below what is taken already.
Revise(c, slots, status) ==
    /\ offer[c] # Nil /\ ~offer[c].deleted
    /\ slots \in EditSlots \cup {offer[c].max_slots}
    /\ offer' = [offer EXCEPT ![c].max_slots = slots, ![c].training_status = status]
    /\ UNCHANGED enrollment

Withdraw(c) ==
    /\ offer[c] # Nil /\ ~offer[c].deleted
    /\ offer' = [offer EXCEPT ![c].deleted = TRUE]
    /\ UNCHANGED enrollment

\* A seat is reserved while the enrollment is pending or accepted.
Reserve(u, c, e) ==
    /\ enrollment[e] = Nil
    /\ Open(c)
    /\ \A d \in EnrollmentIDs :
          Live(d) => enrollment[d].user # u \/ enrollment[d].catalog # c
    /\ Fits(c, {"pending", "accepted"})
    /\ enrollment' = [enrollment EXCEPT ![e] =
                         [user |-> u, catalog |-> c, status |-> "pending",
                          deleted |-> FALSE]]
    /\ UNCHANGED offer

\* Acceptance needs a seat no accepted enrollment holds; cancelling is final.
Decide(e, s) ==
    /\ Live(e)
    /\ s = "accepted" /\ enrollment[e].status # "accepted"
          => Fits(enrollment[e].catalog, {"accepted"})
    /\ enrollment' = [enrollment EXCEPT ![e].status = s, ![e].deleted = (s = "cancelled")]
    /\ UNCHANGED offer

Next ==
    \/ \E c \in Catalogs, slots \in NewSlots \cup {Nil}, status \in TrainingStatuses :
          Publish(c, slots, status)
    \/ \E c \in Catalogs, slots \in NewSlots \cup EditSlots \cup {Nil},
          status \in TrainingStatuses : Revise(c, slots, status)
    \/ \E c \in Catalogs : Withdraw(c)
    \/ \E u \in Users, c \in Catalogs, e \in EnrollmentIDs : Reserve(u, c, e)
    \/ \E e \in EnrollmentIDs, s \in RequestedStatuses \cup {"cancelled"} : Decide(e, s)

Spec == Init /\ [][Next]_vars
=============================================================================
