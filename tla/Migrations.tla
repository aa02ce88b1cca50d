----------------------------- MODULE Migrations -----------------------------
(***************************************************************************)
(* live-migrate: the numbered SQL files, the ledger of those that were     *)
(* applied, the advisory lock, and the service accounts it provisions.     *)
(*                                                                         *)
(* A file is a number of statements, each of which MySQL commits by        *)
(* itself.  A statement in Once fails when it is run a second time, as the *)
(* ADD COLUMN of 005_user_avatar.sql does; the other files are written so  *)
(* that they can be repeated.  Jobs may run at once, and from different    *)
(* images: an older one lacks the last files, and a file may have been     *)
(* edited.  A job that fails is started again.                             *)
(*                                                                         *)
(* served and cut are history for the properties: the accounts that have   *)
(* once had their privileges, and those a job left between REVOKE and      *)
(* GRANT.                                                                  *)
(***************************************************************************)
EXTENDS Naturals, FiniteSets

CONSTANTS
    Jobs,
    Files,        \* 1..n, in the order of their names
    Statements,   \* the number of statements of each file
    Once,         \* the statements <<f, s>> that cannot be repeated
    Checksum,     \* of each file in the image of each job, the first files of all
    Accounts,     \* 1..k, in the order of provisionServiceAccounts
    MaxFailures,  \* bound on the failures that have no cause in the model
    NoJob, NoSum

\* The statements of all files.
AllStatements == UNION {{<<f, s>> : s \in 1..Statements[f]} : f \in Files}

ASSUME MigrationsAssumption ==
    /\ IsFiniteSet(Files) /\ Files = 1..Cardinality(Files)
    /\ IsFiniteSet(Accounts) /\ Accounts = 1..Cardinality(Accounts)
    /\ Statements \in [Files -> Nat \ {0}]
    /\ Once \subseteq AllStatements
    /\ DOMAIN Checksum = Jobs
    /\ \A j \in Jobs : /\ DOMAIN Checksum[j] \in {1..n : n \in 0..Cardinality(Files)}
                       /\ \A f \in DOMAIN Checksum[j] : Checksum[j][f] # NoSum
    /\ NoJob \notin Jobs
    /\ MaxFailures \in Nat

VARIABLES
    lock,         \* the holder of GET_LOCK
    ledger,       \* schema_migrations: the checksum of each applied file
    applied,      \* the statements whose effect is in the database
    granted,      \* the accounts that have their privileges
    pc,
    at,           \* the file, or the account, a job has come to
    statement,    \* the next statement of the file
    failures,
    served, cut

databaseVars == <<ledger, applied, granted>>
jobVars == <<pc, at, statement>>
vars == <<lock, databaseVars, jobVars, failures, served, cut>>

Init ==
    /\ lock = NoJob
    /\ ledger = [f \in Files |-> NoSum]
    /\ applied = {}
    /\ granted = {}
    /\ pc = [j \in Jobs |-> "start"]
    /\ at = [j \in Jobs |-> 1]
    /\ statement = [j \in Jobs |-> 1]
    /\ failures = 0
    /\ served = {} /\ cut = {}

Goto(j, step) == pc' = [pc EXCEPT ![j] = step]

\* GET_LOCK, then the ledger table is created if it is missing.
Lock(j) ==
    /\ pc[j] = "start"
    /\ lock = NoJob
    /\ lock' = j
    /\ Goto(j, "check")
    /\ at' = [at EXCEPT ![j] = 1]
    /\ UNCHANGED <<databaseVars, statement, failures, served, cut>>

\* The files in the image of a job.
Image(j) == DOMAIN Checksum[j]

\* The deferred RELEASE_LOCK, or the end of the session.
Release(j) == lock' = IF lock = j THEN NoJob ELSE lock

\* Mutant: a file that was edited after it was applied is applied again.
CheckFile_EditedAgain(j) ==
    LET f == at[j] IN
    /\ pc[j] = "check"
    /\ f \in Image(j)
    /\ IF ledger[f] = Checksum[j][f]
       THEN at' = [at EXCEPT ![j] = f + 1] /\ UNCHANGED <<pc, statement>>
       ELSE Goto(j, "apply") /\ statement' = [statement EXCEPT ![j] = 1] /\ UNCHANGED at
    /\ UNCHANGED <<lock, databaseVars, failures, served, cut>>

\* The ledger says whether the next file is applied, skipped or refused.
CheckFile(j) ==
    LET f == at[j] IN
    /\ pc[j] = "check"
    /\ f \in Image(j)
    /\ \/ /\ ledger[f] = NoSum
          /\ Goto(j, "apply")
          /\ statement' = [statement EXCEPT ![j] = 1]
          /\ UNCHANGED <<lock, at>>
       \/ /\ ledger[f] = Checksum[j][f]
          /\ at' = [at EXCEPT ![j] = f + 1]
          /\ UNCHANGED <<lock, pc, statement>>
       \/ /\ ledger[f] \notin {NoSum, Checksum[j][f]}
          /\ Goto(j, "failed")
          /\ Release(j)
          /\ UNCHANGED <<at, statement>>
    /\ UNCHANGED <<databaseVars, failures, served, cut>>

\* Mutant: a failing statement ends the file as if it had succeeded.
Apply_ErrorIgnored(j) ==
    LET here == <<at[j], statement[j]>> IN
    /\ pc[j] = "apply"
    /\ applied' = applied \cup {here}
    /\ statement' = [statement EXCEPT ![j] = @ + 1]
    /\ Goto(j, IF here \in Once \cap applied \/ statement[j] = Statements[at[j]] THEN "record" ELSE "apply")
    /\ UNCHANGED <<lock, ledger, granted, at, failures, served, cut>>

\* One statement of the file's body.
Apply(j) ==
    LET here == <<at[j], statement[j]>> IN
    /\ pc[j] = "apply"
    /\ IF here \in Once \cap applied
       THEN Goto(j, "failed") /\ Release(j) /\ UNCHANGED <<applied, statement>>
       ELSE /\ applied' = applied \cup {here}
            /\ statement' = [statement EXCEPT ![j] = @ + 1]
            /\ Goto(j, IF statement[j] = Statements[at[j]] THEN "record" ELSE "apply")
            /\ UNCHANGED lock
    /\ UNCHANGED <<ledger, granted, at, failures, served, cut>>

Record(j) ==
    /\ pc[j] = "record"
    /\ ledger' = [ledger EXCEPT ![at[j]] = Checksum[j][at[j]]]
    /\ at' = [at EXCEPT ![j] = @ + 1]
    /\ Goto(j, "check")
    /\ UNCHANGED <<lock, applied, granted, statement, failures, served, cut>>

\* All files of the image are done: on to the accounts.
Provision(j) ==
    /\ pc[j] = "check"
    /\ at[j] \notin Image(j)
    /\ Goto(j, "revoke")
    /\ at' = [at EXCEPT ![j] = 1]
    /\ UNCHANGED <<lock, databaseVars, statement, failures, served, cut>>

\* Mutant: an account that exists already is left as it is.
Revoke_ExistingSkipped(j) ==
    /\ pc[j] = "revoke"
    /\ at[j] \in Accounts
    /\ IF at[j] \in served \cup cut
       THEN at' = [at EXCEPT ![j] = @ + 1] /\ UNCHANGED <<granted, pc>>
       ELSE granted' = granted \ {at[j]} /\ Goto(j, "grant") /\ UNCHANGED at
    /\ UNCHANGED <<lock, ledger, applied, statement, failures, served, cut>>

\* CREATE USER IF NOT EXISTS, ALTER USER and REVOKE ALL PRIVILEGES.
Revoke(j) ==
    /\ pc[j] = "revoke"
    /\ at[j] \in Accounts
    /\ granted' = granted \ {at[j]}
    /\ Goto(j, "grant")
    /\ UNCHANGED <<lock, ledger, applied, at, statement, failures, served, cut>>

Grant(j) ==
    /\ pc[j] = "grant"
    /\ granted' = granted \cup {at[j]}
    /\ served' = served \cup {at[j]}
    /\ cut' = cut \ {at[j]}
    /\ at' = [at EXCEPT ![j] = @ + 1]
    /\ Goto(j, "revoke")
    /\ UNCHANGED <<lock, ledger, applied, statement, failures>>

Finish(j) ==
    /\ pc[j] = "revoke"
    /\ at[j] \notin Accounts
    /\ Goto(j, "done")
    /\ Release(j)
    /\ UNCHANGED <<databaseVars, at, statement, failures, served, cut>>

\* A call fails, the five minutes are over, a password is missing, or the job dies.
Fail(j) ==
    /\ pc[j] \notin {"done", "failed"}
    /\ failures < MaxFailures
    /\ failures' = failures + 1
    /\ Goto(j, "failed")
    /\ Release(j)
    /\ cut' = IF pc[j] = "grant" THEN cut \cup {at[j]} ELSE cut
    /\ UNCHANGED <<databaseVars, at, statement, served>>

\* The job is started again.
Restart(j) ==
    /\ pc[j] = "failed"
    /\ Goto(j, "start")
    /\ UNCHANGED <<lock, databaseVars, at, statement, failures, served, cut>>

Run(j) ==
    \/ Lock(j) \/ CheckFile(j) \/ Apply(j) \/ Record(j) \/ Provision(j) \/ Revoke(j) \/ Grant(j)
    \/ Finish(j) \/ Restart(j)

Next == \E j \in Jobs : Run(j) \/ Fail(j)

Spec == Init /\ [][Next]_vars

\* A job's calls end, the scheduler starts a failed job again, and MySQL hands the
\* lock to some waiter, in the order they came.
Fairness == \A j \in Jobs : WF_vars(Run(j)) /\ SF_vars(Lock(j))

FairSpec == Spec /\ Fairness

-----------------------------------------------------------------------------
(* Properties *)

Busy == {"check", "apply", "record", "revoke", "grant"}

TypeOK ==
    /\ lock \in Jobs \cup {NoJob}
    /\ ledger \in [Files -> {NoSum} \cup UNION {{Checksum[j][f] : f \in Image(j)} : j \in Jobs}]
    /\ applied \subseteq AllStatements
    /\ granted \subseteq Accounts /\ served \subseteq Accounts /\ cut \subseteq Accounts
    /\ pc \in [Jobs -> Busy \cup {"start", "failed", "done"}]
    /\ at \in [Jobs -> Nat] /\ statement \in [Jobs -> Nat]
    /\ failures \in 0..MaxFailures
    /\ \A j \in Jobs : pc[j] \in Busy => lock = j

\* The order the statements of all files are written in.
Precedes(a, b) == a[1] < b[1] \/ (a[1] = b[1] /\ a[2] < b[2])

\* Whatever was interrupted and started again, and whoever ran beside: the database
\* holds a prefix of the statements of all files, in their order, and a file is in
\* the ledger only when all of them up to its last one are in the database.
SchemaIsAPrefix ==
    /\ \A b \in applied : \A a \in AllStatements : Precedes(a, b) => a \in applied
    /\ \A f \in Files : ledger[f] # NoSum => <<f, Statements[f]>> \in applied

\* A recorded file is never run again, nor its ledger entry changed: not by a second
\* job that checked the ledger earlier, and not by an image with an edited file.
RecordedIsFinal ==
    [][\A f \in Files : ledger[f] # NoSum =>
          /\ ledger'[f] = ledger[f]
          /\ ~\E j \in Jobs : pc[j] = "apply" /\ at[j] = f]_vars

\* A service account that was provisioned has its privileges, unless a job is between
\* its REVOKE and its GRANT, or was interrupted there: the two are not one step.
ServedUnlessInterrupted ==
    served \ cut \subseteq granted \cup {at[j] : j \in {i \in Jobs : pc[i] = "grant"}}

\* The invariant of the database the jobs leave behind, whenever one stops: whoever is
\* at work holds the lock, the schema is a prefix of the files, and the services that
\* had their privileges have them.
MigrationsInv == TypeOK /\ SchemaIsAPrefix /\ ServedUnlessInterrupted

\* A statement that cannot be run again is in the database, its file is not in the
\* ledger, and no job is at work behind it: whoever comes to it fails.
Wedged ==
    \E a \in Once \cap applied :
        /\ ledger[a[1]] = NoSum
        /\ ~\E j \in Jobs : pc[j] \in {"apply", "record"} /\ at[j] = a[1] /\ statement[j] > a[2]

\* A job whose files are, as far as they were applied, those that were applied.
Matches(j) == \A f \in Image(j) : ledger[f] \in {NoSum, Checksum[j][f]}

\* Every job finishes, and at that moment every account has its privileges, except when
\* its image was overtaken by another one, or when an interruption has wedged a file
\* whose statements cannot be repeated: from then on every restart fails.  And whatever
\* the other jobs revoke meanwhile or leave revoked, in the end every account has its
\* privileges for good, unless no job is left that could finish.
JobsFinish ==
    /\ \A j \in Jobs : <>((pc[j] = "done" /\ granted = Accounts) \/ Wedged \/ ~Matches(j))
    /\ <>[](granted = Accounts \/ Wedged \/ \A j \in Jobs : ~Matches(j))
=============================================================================
