------------------------------ MODULE AuditTrail ------------------------------
(***************************************************************************)
(* What the enterprise directory promises about its audit log, with no     *)
(* transactions and no locks: the content of a record changes only         *)
(* together with one new entry of its log, the entry names exactly what    *)
(* changed, it comes after every earlier entry of the record, and a        *)
(* deleted record has no further entry.                                    *)
(***************************************************************************)
EXTENDS Integers

CONSTANTS
    Records,
    Actors,
    Fields,
    Values,
    Positions, \* of the log
    Unset,     \* the value of a field nobody has given one
    Nil        \* no record, no entry, a field that is not named

VARIABLES
    content,   \* the values of a record, by record; Nil before it exists
    deleted,   \* the records that have been deleted
    log        \* the entries, by position

EntriesOf(r) == {i \in Positions : log[i] # Nil /\ log[i].record = r}

Init ==
    /\ content = [r \in Records |-> Nil]
    /\ deleted = {}
    /\ log = [i \in Positions |-> Nil]

AddEntry(r, a, action, named) ==
    \E i \in Positions :
        /\ log[i] = Nil
        /\ \A j \in EntriesOf(r) : j < i
        /\ log' = [log EXCEPT ![i] = [record |-> r, actor |-> a, action |-> action, named |-> named]]

Becomes(r, values) == content' = [content EXCEPT ![r] = values]

\* The fields that a record gets without being given them are unset.
CreateRecord(r, a) ==
    /\ content[r] = Nil
    /\ content'[r] \in [Fields -> Values]
    /\ Becomes(r, content'[r])
    /\ \E given \in SUBSET Fields :
          /\ \A f \in Fields \ given : content'[r][f] = Unset
          /\ AddEntry(r, a, "create", [f \in Fields |-> IF f \in given THEN content'[r][f] ELSE Nil])
    /\ UNCHANGED deleted

\* At least one field changes, and the entry names the new values of those that do.
ChangeRecord(r, a) ==
    /\ content[r] # Nil /\ r \notin deleted
    /\ content'[r] \in [Fields -> Values] \ {content[r]}
    /\ Becomes(r, content'[r])
    /\ AddEntry(r, a, "update",
          [f \in Fields |-> IF content'[r][f] = content[r][f] THEN Nil ELSE content'[r][f]])
    /\ UNCHANGED deleted

DeleteRecord(r, a) ==
    /\ content[r] # Nil /\ r \notin deleted
    /\ deleted' = deleted \cup {r}
    /\ AddEntry(r, a, "delete", [f \in Fields |-> Nil])
    /\ UNCHANGED content

Next == \E r \in Records, a \in Actors :
    CreateRecord(r, a) \/ ChangeRecord(r, a) \/ DeleteRecord(r, a)

Spec == Init /\ [][Next]_<<content, deleted, log>>

=============================================================================
