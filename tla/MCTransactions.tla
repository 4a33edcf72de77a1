---------------------------- MODULE MCTransactions ----------------------------
(***************************************************************************)
(* Instances for TLC of what runs transactions of its own: the editing of  *)
(* catalogs, the enterprise registry, the accounts and the seeders. They   *)
(* share no row that one of them guards for another, so a behaviour        *)
(* follows one of them, "part", and leaves the others as they began.       *)
(***************************************************************************)
EXTENDS CatalogEditing, FiniteSets, TLC

CONSTANTS
    Members, Admins, text, Conns, PublicIDs, Nil, PublicIDAttempts, MaxEvents,
    Emails, Profiles, Sessions, MaxHashes,
    Procs, SeedEmails, AdminEmail, MaxRuns, MaxOwned

VARIABLES
    part,
    enterprise, event, nextEvent, registryPC, registryReq,
    user, profile, session, lastHash, ended, accountPC, accountReq,
    file, seeded, owned, catalogs, seederPC, run, started, made, deleted

-----------------------------------------------------------------------------
(* A status is empty or planned, a date empty or one of two days; slots    *)
(* are zero, one, or one more than the column can hold. A request supplies *)
(* one or two fields, or none.                                             *)

MCValues(f) ==
    CASE f = "status" -> {0, 1}
      [] f \in DateFields -> 0 .. 2
      [] f = "slots" -> {0, 1, 2}

MCInputs ==
    UNION {{input \in [S -> 0 .. 2] : \A f \in S : input[f] \in MCValues(f)} :
              S \in {T \in SUBSET Fields : Cardinality(T) <= 2}}

\* Updates of one field at a time, one of all three, and one with an empty status.
Sends(description, support, status) ==
    [description |-> description, support |-> support, status |-> status]

MCChanges ==
    {Sends(text, Nil, Nil), Sends("", Nil, Nil), Sends(Nil, text, Nil),
     Sends(Nil, Nil, "inactive"), Sends(text, text, "active"), Sends(Nil, Nil, "")}

\* A good file, one with a duplicate, and one whose second row is malformed.
Record(email, has, valid) == [email |-> email, enterprise |-> has, valid |-> valid]

MCFiles ==
    LET other == CHOOSE e \in SeedEmails : e # AdminEmail IN
    {<<Record(other, TRUE, TRUE), Record(AdminEmail, FALSE, TRUE)>>,
     <<Record(other, TRUE, TRUE), Record(other, FALSE, TRUE)>>,
     <<Record(other, TRUE, TRUE), Record(AdminEmail, FALSE, FALSE)>>}

MCSymmetry ==
    Permutations(Conns) \cup Permutations(Members) \cup Permutations(Emails)
        \cup Permutations(Sessions)

-----------------------------------------------------------------------------
\* The modules of the proofs extend those of the two parts, so that what is proved of a part
\* is a fact about the instance that TLC runs.
Registry == INSTANCE EnterpriseRegistryProofs WITH
    Texts <- {text}, Changes <- MCChanges, pc <- registryPC, req <- registryReq

Account == INSTANCE UserAccountProofs WITH pc <- accountPC, req <- accountReq

Seeder == INSTANCE Seeders WITH
    Emails <- SeedEmails, Files <- MCFiles, user <- seeded, pc <- seederPC

ASSUME RegistryAssumption == Registry!ConstantsAssumption /\ Registry!NilIsNoRow
ASSUME AccountAssumption == Account!ConstantsAssumption /\ Account!NilIsNoRow
ASSUME SeederAssumption == Seeder!ConstantsAssumption

ofRegistry == <<enterprise, event, nextEvent, registryPC, registryReq>>
ofAccounts == <<user, profile, session, lastHash, ended, accountPC, accountReq>>
ofSeeders == <<file, seeded, owned, catalogs, seederPC, run, started, made, deleted>>

PartsInit ==
    /\ part \in {"catalog", "registry", "accounts", "seeders"}
    /\ Init /\ Registry!Init /\ Account!Init /\ Seeder!Init
    /\ part # "seeders" => \A i \in DOMAIN file : file[i].valid /\ file[i].email = file[1].email

PartsNext ==
    \/ part = "catalog" /\ Next /\ UNCHANGED <<part, ofRegistry, ofAccounts, ofSeeders>>
    \/ part = "registry" /\ Registry!Next /\ UNCHANGED <<part, vars, ofAccounts, ofSeeders>>
    \/ part = "accounts" /\ Account!Next /\ UNCHANGED <<part, vars, ofRegistry, ofSeeders>>
    \/ part = "seeders" /\ Seeder!Next /\ UNCHANGED <<part, vars, ofRegistry, ofAccounts>>

PartsSpec == PartsInit /\ [][PartsNext]_<<part, vars, ofRegistry, ofAccounts, ofSeeders>>

-----------------------------------------------------------------------------
(* The properties of the parts, under their names.                         *)

\* Every variable of every part has its type.
TypesOK == TypeOK /\ Registry!TypeOK /\ Account!TypeOK /\ Seeder!TypeOK

\* The audit log explains the row of every enterprise.
AuditExplainsRow == Registry!AuditExplainsRow

\* The registry implements AuditTrail.
ImplementsTrail == Registry!ImplementsTrail

\* A user and its profile are deleted together.
DeletedTogether == Account!DeletedTogether

\* A change of the password replaces the hash it has compared.
ChangeReplacesCompared == Account!ChangeReplacesCompared

\* A revocation ends the sessions of the passwords older than the one it was sent after.
PasswordEndsSessions == Account!PasswordEndsSessions

\* A run of a seeder that ends well has made what its file says, and nothing of it twice.
DoneMeansSeeded == Seeder!DoneMeansSeeded

\* Users that own an enterprise get no other. (They do.)
OwnersAreSkipped == Seeder!OwnersAreSkipped

=============================================================================
