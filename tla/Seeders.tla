------------------------------- MODULE Seeders --------------------------------
(***************************************************************************)
(* The seeding commands: users with their enterprises from a CSV file,     *)
(* training catalogs from a CSV file, and the first administrator. Each is *)
(* a process that reads its file, then commits one row after the other; it *)
(* may be killed or fail at any statement and be run again, twice at a     *)
(* time, and the server it shares the database with serves requests.       *)
(*                                                                         *)
(* A row of a file is the e-mail address it names, whether it has an       *)
(* enterprise, and whether it is well formed; the catalog file is the same *)
(* rows without the addresses. Of the tables there are the users and their *)
(* roles by address, how many enterprises each owns, and how many catalogs *)
(* each row has become. A drawn public id that is taken costs one attempt. *)
(*                                                                         *)
(* The definitions marked "Mutation" are mistakes the code could have made *)
(* in the definition that follows. Nothing uses them.                      *)
(***************************************************************************)
EXTENDS Integers

CONSTANTS
    Procs,             \* processes that run the commands
    Emails,            \* addresses in the files
    AdminEmail,        \* SEEDER_ADMIN_EMAIL
    Files,             \* the CSV files under study
    PublicIDAttempts,  \* publicIDAttempts
    MaxRuns,           \* bound of the number of runs
    MaxOwned           \* bound of the enterprises of one user

Row == [email: Emails, enterprise: BOOLEAN, valid: BOOLEAN]

\* The rows of a file are numbered from one, without gaps.
Numbered(f) == DOMAIN f \subseteq Nat \ {0} /\ \A i \in DOMAIN f : 1..i \subseteq DOMAIN f

ConstantsAssumption ==
    /\ AdminEmail \in Emails
    /\ \A f \in Files : f \in [DOMAIN f -> Row] /\ Numbered(f)
    /\ PublicIDAttempts \in Nat \ {0} /\ MaxRuns \in Nat /\ MaxOwned \in Nat

VARIABLES
    file,      \* the rows of the CSV file
    user,      \* the user of each address
    owned,     \* live enterprises of each user
    catalogs,  \* catalogs created from each row
    pc,        \* the statement a process is about to execute
    run,       \* its local variables
    started,   \* number of runs (history)
    made,      \* what the last run of a process has made of each row of the file (history)
    deleted    \* users somebody deleted, or deleted an enterprise of (history)

vars == <<file, user, owned, catalogs, pc, run, started, made, deleted>>
tables == <<user, owned, catalogs>>
history == <<started, made, deleted>>

-----------------------------------------------------------------------------
(* Files and runs.                                                         *)

Tasks == {"users", "catalogs", "admin"}

Statements == {"idle", "find", "check", "create user", "create enterprise", "create catalog",
               "create admin", "done", "failed"}

\* duplicates: what a run of the users has reported as registered although it had not found it.
Run == [task: Tasks, row: Nat, attempts: 0..PublicIDAttempts, duplicates: SUBSET Emails]

NoRun == [task |-> "users", row |-> 1, attempts |-> 0, duplicates |-> {}]

\* parseCSV: no row is seeded unless every row is well formed.
CatalogsParse == DOMAIN file # {} /\ \A i \in DOMAIN file : file[i].valid

\* parseUserEnterpriseCSV: nor when an address occurs twice.
UsersParse ==
    /\ CatalogsParse
    /\ \A i, j \in DOMAIN file : file[i].email = file[j].email => i = j

Init ==
    /\ file \in Files
    /\ user = [e \in Emails |-> "none"]
    /\ owned = [e \in Emails |-> 0]
    /\ catalogs = [i \in DOMAIN file |-> 0]
    /\ pc = [p \in Procs |-> "idle"]
    /\ run = [p \in Procs |-> NoRun]
    /\ started = 0
    /\ made = [p \in Procs |-> [i \in DOMAIN file |-> 0]]
    /\ deleted = {}

Running(p) == pc[p] \notin {"idle", "done", "failed"}

\* A command starts: it parses its file before it opens the database.
Start(p, task, parses, statement) ==
    /\ ~Running(p)
    /\ started < MaxRuns
    /\ started' = started + 1
    /\ made' = [made EXCEPT ![p] = [i \in DOMAIN file |-> 0]]
    /\ run' = [run EXCEPT ![p] = [NoRun EXCEPT !.task = task]]
    /\ pc' = [pc EXCEPT ![p] = IF parses THEN statement ELSE "failed"]
    /\ UNCHANGED <<file, tables, deleted>>

SeedUsers(p) == Start(p, "users", UsersParse, "find")
SeedCatalogs(p) == Start(p, "catalogs", CatalogsParse, "create catalog")
\* The credentials are checked before the database is opened; here they are good.
SeedAdmin(p) == Start(p, "admin", TRUE, "create admin")

\* The process is killed, or a statement fails: what it has committed stays.
Crash(p) ==
    /\ Running(p)
    /\ pc' = [pc EXCEPT ![p] = "failed"]
    /\ UNCHANGED <<file, tables, run, history>>

-----------------------------------------------------------------------------
(* Statements.                                                             *)

Email(p) == file[run[p].row].email
HasEnterprise(p) == file[run[p].row].enterprise

\* The rest of the record's iteration, or the next record.
Goto(p, statement) ==
    /\ pc' = [pc EXCEPT ![p] = statement]
    /\ run' = [run EXCEPT ![p].attempts = 0]

NextRecord(p, first, duplicates) ==
    LET r == run[p] IN
    /\ pc' = [pc EXCEPT ![p] = IF r.row + 1 \in DOMAIN file THEN first ELSE "done"]
    /\ run' = [run EXCEPT ![p] =
                  [r EXCEPT !.attempts = 0, !.duplicates = r.duplicates \cup duplicates,
                            !.row = IF r.row + 1 \in DOMAIN file THEN r.row + 1 ELSE r.row]]

\* Mutation: one attempt more than publicIDAttempts.
CollidesOnceMore(p) ==
    /\ run' = [run EXCEPT ![p].attempts = @ + 1]
    /\ pc' = [pc EXCEPT ![p] = IF run[p].attempts = PublicIDAttempts THEN "failed" ELSE @]
    /\ UNCHANGED <<file, tables, history>>

\* The drawn public id is taken: another attempt, or the run ends with an error.
Collides(p) ==
    /\ run' = [run EXCEPT ![p].attempts = @ + 1]
    /\ pc' = [pc EXCEPT ![p] = IF run[p].attempts + 1 = PublicIDAttempts THEN "failed" ELSE @]
    /\ UNCHANGED <<file, tables, history>>

\* Mutation: whoever is registered is skipped.
MissesEnterpriseNever(p) == FALSE

\* A user that exists goes on to its enterprise when the record has one.
MissesEnterprise(p) == HasEnterprise(p)

\* FindUserByEmail finds no deleted users.
Registered(e) == user[e] \in {"member", "admin"}

FindUser(p) ==
    /\ pc[p] = "find"
    /\ IF ~Registered(Email(p)) THEN Goto(p, "create user")
       ELSE IF MissesEnterprise(p) THEN Goto(p, "check")
       ELSE NextRecord(p, "find", {})
    /\ UNCHANGED <<file, tables, history>>

\* FindEnterprises with the filter the seeder sets: only OwnerID. Limit stays 0, which
\* the query passes to LIMIT.
FilterLimit == 0
Found(n) == IF n < FilterLimit THEN n ELSE FilterLimit

CheckEnterprises(p) ==
    /\ pc[p] = "check"
    /\ IF Found(owned[Email(p)]) > 0 THEN NextRecord(p, "find", {})
       ELSE Goto(p, "create enterprise")
    /\ UNCHANGED <<file, tables, history>>

\* CreateUser with the role of a member. The addresses of deleted users are taken too.
CreateUser(p) ==
    /\ pc[p] = "create user"
    /\ \/ Collides(p)
       \/ /\ user[Email(p)] # "none"
          /\ NextRecord(p, "find", {Email(p)})
          /\ UNCHANGED <<file, tables, history>>
       \/ /\ user[Email(p)] = "none"
          /\ user' = [user EXCEPT ![Email(p)] = "member"]
          /\ IF HasEnterprise(p) THEN Goto(p, "create enterprise") ELSE NextRecord(p, "find", {})
          /\ UNCHANGED <<file, owned, catalogs, history>>

Makes(p) == made' = [made EXCEPT ![p][run[p].row] = @ + 1]

CreateEnterprise(p) ==
    /\ pc[p] = "create enterprise"
    /\ \/ Collides(p)
       \/ /\ owned[Email(p)] < MaxOwned
          /\ owned' = [owned EXCEPT ![Email(p)] = @ + 1]
          /\ Makes(p)
          /\ NextRecord(p, "find", {})
          /\ UNCHANGED <<file, user, catalogs, started, deleted>>

\* Nothing tells whether an earlier run has inserted the row.
CreateCatalog(p) ==
    /\ pc[p] = "create catalog"
    /\ \/ Collides(p)
       \/ /\ catalogs' = [catalogs EXCEPT ![run[p].row] = @ + 1]
          /\ Makes(p)
          /\ NextRecord(p, "create catalog", {})
          /\ UNCHANGED <<file, user, owned, started, deleted>>

\* A taken address is an error, and nothing is written.
CreateAdmin(p) ==
    /\ pc[p] = "create admin"
    /\ \/ Collides(p)
       \/ /\ user[AdminEmail] # "none"
          /\ Goto(p, "failed")
          /\ UNCHANGED <<file, tables, history>>
       \/ /\ user[AdminEmail] = "none"
          /\ user' = [user EXCEPT ![AdminEmail] = "admin"]
          /\ Goto(p, "done")
          /\ UNCHANGED <<file, owned, catalogs, history>>

-----------------------------------------------------------------------------
(* What the server does meanwhile.                                         *)

Serve(e) ==
    /\ \/ /\ user[e] = "none"
          /\ user' = [user EXCEPT ![e] = "member"]
          /\ UNCHANGED <<owned, deleted>>
       \/ /\ Registered(e)
          /\ user' = [user EXCEPT ![e] = "deleted"]
          /\ deleted' = deleted \cup {e}
          /\ UNCHANGED owned
       \/ /\ Registered(e) /\ owned[e] < MaxOwned
          /\ owned' = [owned EXCEPT ![e] = @ + 1]
          /\ UNCHANGED <<user, deleted>>
       \/ /\ owned[e] > 0
          /\ owned' = [owned EXCEPT ![e] = @ - 1]
          /\ deleted' = deleted \cup {e}
          /\ UNCHANGED user
    /\ UNCHANGED <<file, catalogs, pc, run, started, made>>

Step(p) ==
    \/ FindUser(p) \/ CheckEnterprises(p) \/ CreateUser(p) \/ CreateEnterprise(p)
    \/ CreateCatalog(p) \/ CreateAdmin(p)

Next ==
    \/ \E p \in Procs :
          SeedUsers(p) \/ SeedCatalogs(p) \/ SeedAdmin(p) \/ Step(p) \/ Crash(p)
    \/ \E e \in Emails : Serve(e)

Spec == Init /\ [][Next]_vars

-----------------------------------------------------------------------------
(* Properties.                                                             *)

\* Every variable has its type, and a run that reads the file is at a row of it.
TypeOK ==
    /\ user \in [Emails -> {"none", "member", "admin", "deleted"}]
    /\ owned \in [Emails -> 0..MaxOwned]
    /\ catalogs \in [DOMAIN file -> Nat]
    /\ pc \in [Procs -> Statements]
    /\ run \in [Procs -> Run]
    /\ made \in [Procs -> [DOMAIN file -> Nat]]
    /\ \A p \in Procs :
          Running(p) =>
              /\ run[p].attempts < PublicIDAttempts
              /\ run[p].task # "admin" => run[p].row \in DOMAIN file

\* What a run that ends without an error has brought about, whatever an earlier run has left
\* behind when it was cut off. Of the users: every address has a user and, if the record names
\* one, an enterprise; excepted are records it has reported as duplicates, which it skips, and
\* users the server deletes or deletes enterprises of. Of the catalogs: it has itself created
\* one of every row, again if an earlier run had. Of the administrator: the address is an
\* administrator's, or was until the account was deleted. No run, not even one that is cut
\* off, makes two of one record. (Two runs may: the second finds no enterprise of the first,
\* see FilterLimit, and none of its catalogs.)
DoneMeansSeeded ==
    /\ \A p \in Procs, i \in DOMAIN file : made[p][i] <= 1
    /\ \A p \in Procs : pc[p] = "done" =>
          \/ /\ run[p].task = "users"
             /\ \A i \in DOMAIN file :
                   LET e == file[i].email IN
                   /\ user[e] # "none"
                   /\ file[i].enterprise /\ e \notin run[p].duplicates \cup deleted => owned[e] > 0
          \/ /\ run[p].task = "catalogs"
             /\ \A i \in DOMAIN file : made[p][i] = 1 /\ catalogs[i] >= 1
          \/ /\ run[p].task = "admin"
             /\ user[AdminEmail] \in {"admin", "deleted"}

\* A claim that the code does not keep: an existing user gets an enterprise from the seeder
\* only where its "enterprise is missing", so that a file is seeded again without harm.
OwnersAreSkipped ==
    [][\A p \in Procs :
          pc[p] = "check" /\ pc'[p] = "create enterprise" => owned[Email(p)] = 0]_vars

=============================================================================
