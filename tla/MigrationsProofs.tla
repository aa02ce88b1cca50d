--------------------------- MODULE MigrationsProofs ---------------------------
(***************************************************************************)
(* Proofs about the schema migrations, for any jobs, files, statements,    *)
(* images, accounts and number of failures.                                *)
(*                                                                         *)
(* The argument: the advisory lock keeps all but one job out (the last     *)
(* conjunct of TypeOK), so what a job found in the ledger still holds when *)
(* it acts on it: the files before its own are recorded                    *)
(* (EarlierAreRecorded), its own is not, and the statements it has left    *)
(* behind are in the database (FileIsOpen).  A recorded file is complete   *)
(* and the applied statements are a prefix, so the next statement extends  *)
(* the prefix.                                                             *)
(***************************************************************************)
EXTENDS Migrations, FiniteSetTheorems, TLAPS

\* The files a job has passed are in the ledger.
EarlierAreRecorded ==
    \A j \in Jobs : pc[j] \in {"check", "apply", "record"} =>
        \A f \in Files : f < at[j] => ledger[f] # NoSum

\* The file a job is working on is not in the ledger, and its statements up to the
\* next one are in the database.
FileIsOpen ==
    \A j \in Jobs :
        /\ pc[j] = "apply" =>
              /\ at[j] \in Image(j) /\ ledger[at[j]] = NoSum
              /\ statement[j] \in 1..Statements[at[j]]
              /\ \A s \in 1..(statement[j] - 1) : <<at[j], s>> \in applied
        /\ pc[j] = "record" =>
              /\ at[j] \in Image(j) /\ ledger[at[j]] = NoSum
              /\ <<at[j], Statements[at[j]]>> \in applied

\* The account a job is about to grant to is one of the service accounts.
AccountIsKnown == \A j \in Jobs : pc[j] = "grant" => at[j] \in Accounts

IndInv ==
    /\ TypeOK
    /\ SchemaIsAPrefix
    /\ ServedUnlessInterrupted
    /\ EarlierAreRecorded
    /\ FileIsOpen
    /\ AccountIsKnown

-----------------------------------------------------------------------------
\* A statement is a file and a place in it.
LEMMA StatementParts ==
    /\ \A f \in Files : \A s \in 1..Statements[f] : <<f, s>> \in AllStatements
    /\ \A a \in AllStatements : \E f \in Files : \E s \in 1..Statements[f] : a = <<f, s>>
  BY DEF AllStatements

LEMMA FilesAreNumbers ==
    /\ Files \subseteq Nat \ {0} /\ Accounts \subseteq Nat
    /\ \A f \in Files : Statements[f] \in Nat \ {0}
<1>1. Cardinality(Files) \in Nat /\ Cardinality(Accounts) \in Nat
  BY MigrationsAssumption, FS_CardinalityType
<1>2. 1..Cardinality(Files) \subseteq Nat \ {0} /\ 1..Cardinality(Accounts) \subseteq Nat
  BY <1>1
<1>3. Files \subseteq Nat \ {0} /\ Accounts \subseteq Nat
  BY <1>2, MigrationsAssumption
<1> QED BY <1>3, MigrationsAssumption

\* An image holds some of the files.
LEMMA ImageIsOfFiles ==
    ASSUME NEW j \in Jobs
    PROVE  Image(j) \subseteq Files /\ \A f \in Image(j) : Checksum[j][f] # NoSum
<1>1. Cardinality(Files) \in Nat
  BY MigrationsAssumption, FS_CardinalityType
<1>2. PICK n \in 0..Cardinality(Files) : Image(j) = 1..n
  BY MigrationsAssumption DEF Image
<1>3. 1..n \subseteq 1..Cardinality(Files)
  BY <1>1
<1> QED BY <1>2, <1>3, MigrationsAssumption DEF Image

\* Whoever is at work holds the lock, so two jobs are never at work.
LEMMA OneAtWork ==
    ASSUME TypeOK, NEW i \in Jobs, NEW j \in Jobs, pc[i] \in Busy, pc[j] \in Busy
    PROVE  i = j
  BY DEF TypeOK

\* Leaving releases the lock when the job holds it, and no other job does then.
LEMMA ReleaseType ==
    ASSUME TypeOK, NEW j \in Jobs, Release(j), NEW step \in {"failed", "done"}, Goto(j, step)
    PROVE  /\ lock' \in Jobs \cup {NoJob}
           /\ \A i \in Jobs : pc'[i] \in Busy => i # j /\ pc[i] \in Busy /\ lock' = i
<1>1. \A i \in Jobs : pc'[i] = IF i = j THEN step ELSE pc[i]
  BY DEF Goto, TypeOK
<1> QED BY <1>1 DEF Release, TypeOK, Busy

LEMMA IndInit == Init => IndInv
<1> SUFFICES ASSUME Init PROVE IndInv
  OBVIOUS
<1>1. TypeOK
  BY MigrationsAssumption DEF Init, TypeOK, Busy
<1> QED
  BY <1>1 DEF Init, IndInv, SchemaIsAPrefix, ServedUnlessInterrupted, EarlierAreRecorded, FileIsOpen,
              AccountIsKnown

-----------------------------------------------------------------------------
\* GET_LOCK: the job begins with the first file.
LEMMA LockStep == ASSUME IndInv, NEW j \in Jobs, Lock(j) PROVE IndInv'
<1> USE DEF IndInv, databaseVars
<1>1. /\ \A i \in Jobs : pc'[i] = IF i = j THEN "check" ELSE pc[i]
      /\ \A i \in Jobs : at'[i] = IF i = j THEN 1 ELSE at[i]
      /\ lock = NoJob /\ lock' = j
      /\ UNCHANGED <<ledger, applied, granted, statement, failures, served, cut>>
  BY DEF Lock, Goto, TypeOK
<1>2. \A i \in Jobs : pc[i] \notin Busy
  BY <1>1, MigrationsAssumption DEF TypeOK
<1>3. TypeOK'
  BY <1>1, <1>2 DEF Lock, Goto, TypeOK, Busy
<1>4. SchemaIsAPrefix'
  BY <1>1 DEF SchemaIsAPrefix
<1>5. ServedUnlessInterrupted'
  BY <1>1, <1>2 DEF ServedUnlessInterrupted, Busy
<1>6. EarlierAreRecorded'
  BY <1>1, <1>2, FilesAreNumbers DEF EarlierAreRecorded, Busy
<1>7. FileIsOpen' /\ AccountIsKnown'
  BY <1>1, <1>2 DEF FileIsOpen, AccountIsKnown, Busy
<1> QED BY <1>3, <1>4, <1>5, <1>6, <1>7

\* A job leaves: the other jobs and the database are as they were.
LEMMA LeaveStep ==
    ASSUME IndInv, NEW j \in Jobs, NEW step \in {"failed", "done"}, Goto(j, step), Release(j),
           UNCHANGED <<databaseVars, at, statement, served>>,
           failures' \in 0..MaxFailures,
           cut' = IF pc[j] = "grant" THEN cut \cup {at[j]} ELSE cut
    PROVE  IndInv'
<1> USE DEF IndInv, databaseVars
<1>1. \A i \in Jobs : pc'[i] = IF i = j THEN step ELSE pc[i]
  BY DEF Goto, TypeOK
<1>2. /\ lock' \in Jobs \cup {NoJob}
      /\ \A i \in Jobs : pc'[i] \in Busy => i # j /\ pc[i] \in Busy /\ lock' = i
  BY ReleaseType
<1>3. TypeOK'
  <2>1. cut' \subseteq Accounts
    BY DEF AccountIsKnown, TypeOK
  <2> QED BY <1>2, <2>1 DEF Goto, TypeOK
<1>4. SchemaIsAPrefix'
  BY DEF SchemaIsAPrefix
<1>5. ServedUnlessInterrupted'
  BY <1>1 DEF ServedUnlessInterrupted
<1>6. EarlierAreRecorded' /\ FileIsOpen' /\ AccountIsKnown'
  BY <1>1 DEF EarlierAreRecorded, FileIsOpen, AccountIsKnown
<1> QED BY <1>3, <1>4, <1>5, <1>6

LEMMA CheckFileStep == ASSUME IndInv, NEW j \in Jobs, CheckFile(j) PROVE IndInv'
<1> USE DEF IndInv, databaseVars
<1>0. at[j] \in Image(j) /\ at[j] \in Files /\ pc[j] = "check" /\ at[j] \in Nat
  BY FilesAreNumbers, ImageIsOfFiles DEF CheckFile
<1>1. CASE ledger[at[j]] = NoSum
  <2>0. /\ Goto(j, "apply") /\ statement' = [statement EXCEPT ![j] = 1]
        /\ UNCHANGED <<lock, ledger, applied, granted, at, failures, served, cut>>
    BY <1>0, <1>1, ImageIsOfFiles DEF CheckFile
  <2>1. /\ \A i \in Jobs : pc'[i] = IF i = j THEN "apply" ELSE pc[i]
        /\ \A i \in Jobs : statement'[i] = IF i = j THEN 1 ELSE statement[i]
        /\ UNCHANGED <<lock, ledger, applied, granted, at, failures, served, cut>>
    BY <2>0 DEF Goto, TypeOK
  <2>2. TypeOK'
    <3>1. pc' \in [Jobs -> Busy \cup {"start", "failed", "done"}] /\ statement' \in [Jobs -> Nat]
      BY <2>0 DEF Goto, TypeOK, Busy
    <3> QED BY <1>0, <2>1, <3>1 DEF TypeOK, Busy
  <2>3. SchemaIsAPrefix' /\ ServedUnlessInterrupted'
    BY <1>0, <2>1 DEF SchemaIsAPrefix, ServedUnlessInterrupted
  <2>4. EarlierAreRecorded' /\ AccountIsKnown'
    BY <1>0, <2>1 DEF EarlierAreRecorded, AccountIsKnown
  <2>5. FileIsOpen'
    <3>1. 1 \in 1..Statements[at[j]] /\ 1..(1 - 1) = {}
      BY <1>0, FilesAreNumbers
    <3> QED BY <1>0, <1>1, <2>1, <3>1 DEF FileIsOpen
  <2> QED BY <2>2, <2>3, <2>4, <2>5
<1>2. CASE ledger[at[j]] # NoSum /\ ledger[at[j]] = Checksum[j][at[j]]
  <2>1. /\ \A i \in Jobs : at'[i] = IF i = j THEN at[j] + 1 ELSE at[i]
        /\ UNCHANGED <<lock, ledger, applied, granted, pc, statement, failures, served, cut>>
    BY <1>0, <1>2 DEF CheckFile, TypeOK
  <2>2. TypeOK'
    BY <1>0, <1>2, <2>1 DEF CheckFile, TypeOK
  <2>3. SchemaIsAPrefix' /\ ServedUnlessInterrupted'
    BY <1>0, <2>1 DEF SchemaIsAPrefix, ServedUnlessInterrupted
  <2>4. EarlierAreRecorded'
    <3> SUFFICES ASSUME NEW i \in Jobs, pc[i] \in {"check", "apply", "record"},
                        NEW f \in Files, f < at'[i]
                 PROVE  ledger[f] # NoSum
      BY <2>1 DEF EarlierAreRecorded
    <3>1. f \in Nat /\ at[i] \in Nat
      BY FilesAreNumbers DEF TypeOK
    <3>2. CASE i = j
      BY <1>0, <1>2, <2>1, <3>1, <3>2 DEF EarlierAreRecorded
    <3> QED BY <2>1, <3>2 DEF EarlierAreRecorded
  <2>5. FileIsOpen' /\ AccountIsKnown'
    BY <1>0, <2>1 DEF FileIsOpen, AccountIsKnown
  <2> QED BY <2>2, <2>3, <2>4, <2>5
<1>3. CASE ledger[at[j]] # NoSum /\ ledger[at[j]] # Checksum[j][at[j]]
  <2>1. Goto(j, "failed") /\ Release(j) /\ UNCHANGED <<databaseVars, at, statement, failures, served, cut>>
    BY <1>3 DEF CheckFile
  <2> QED BY <1>0, <2>1, LeaveStep DEF TypeOK
<1> QED BY <1>1, <1>2, <1>3

\* Where a job is that applies a file.
LEMMA ApplyPlace ==
    ASSUME IndInv, NEW j \in Jobs, pc[j] = "apply"
    PROVE  /\ at[j] \in Image(j) /\ at[j] \in Files /\ at[j] \in Nat /\ ledger[at[j]] = NoSum
           /\ statement[j] \in 1..Statements[at[j]] /\ statement[j] \in Nat /\ Statements[at[j]] \in Nat
           /\ \A s \in 1..(statement[j] - 1) : <<at[j], s>> \in applied
           /\ \A g \in Files : g < at[j] => ledger[g] # NoSum
<1>1. FileIsOpen /\ EarlierAreRecorded /\ TypeOK
  BY DEF IndInv
<1>2. /\ at[j] \in Image(j) /\ ledger[at[j]] = NoSum
      /\ statement[j] \in 1..Statements[at[j]]
      /\ \A s \in 1..(statement[j] - 1) : <<at[j], s>> \in applied
  BY <1>1, Zenon DEF FileIsOpen
<1>3. at[j] \in Files /\ at[j] \in Nat /\ statement[j] \in Nat /\ Statements[at[j]] \in Nat
  BY <1>1, <1>2, FilesAreNumbers, ImageIsOfFiles DEF TypeOK
<1>4. \A g \in Files : g < at[j] => ledger[g] # NoSum
  BY <1>1, Zenon DEF EarlierAreRecorded
<1> QED BY <1>2, <1>3, <1>4, Zenon

\* The next statement extends the prefix: the files before are complete and so is the
\* part of this one before it.
LEMMA PrefixGrows ==
    ASSUME IndInv, NEW j \in Jobs, pc[j] = "apply",
           applied' = applied \cup {<<at[j], statement[j]>>}, UNCHANGED ledger
    PROVE  SchemaIsAPrefix'
<1> DEFINE f == at[j]
           s == statement[j]
<1> USE DEF IndInv
<1>1. /\ f \in Files /\ f \in Nat
      /\ s \in 1..Statements[f] /\ s \in Nat
      /\ \A t \in 1..(s - 1) : <<f, t>> \in applied
      /\ \A g \in Files : g < f => ledger[g] # NoSum
  BY ApplyPlace, Zenon
<1> HIDE DEF f, s
<1>2. ASSUME NEW a \in AllStatements, Precedes(a, <<f, s>>) PROVE a \in applied
  <2>0. PICK g \in Files : \E t \in 1..Statements[g] : a = <<g, t>>
    BY StatementParts
  <2>1. PICK t \in 1..Statements[g] : a = <<g, t>>
    BY <2>0
  <2>2. g \in Nat /\ Statements[g] \in Nat /\ t \in Nat /\ 1 <= t /\ t <= Statements[g]
    BY FilesAreNumbers
  <2>3. g < f \/ (g = f /\ t < s)
    BY <1>2, <2>1 DEF Precedes
  <2>4. CASE g < f
    <3>1. <<g, Statements[g]>> \in applied
      BY <1>1, <2>4 DEF SchemaIsAPrefix
    <3>2. CASE t = Statements[g]
      BY <2>1, <3>1, <3>2
    <3>3. CASE t < Statements[g]
      <4>1. Precedes(a, <<g, Statements[g]>>)
        BY <2>1, <3>3 DEF Precedes
      <4> QED BY <3>1, <4>1 DEF SchemaIsAPrefix
    <3> QED BY <2>2, <3>2, <3>3
  <2>5. CASE g = f /\ t < s
    <3>1. t \in 1..(s - 1)
      BY <1>1, <2>2, <2>5
    <3> QED BY <1>1, <2>1, <2>5, <3>1
  <2> QED BY <2>3, <2>4, <2>5
<1>3. \A b \in applied' : \A a \in AllStatements : Precedes(a, b) => a \in applied'
  BY <1>2 DEF SchemaIsAPrefix, f, s
<1>4. \A g \in Files : ledger'[g] # NoSum => <<g, Statements[g]>> \in applied'
  BY DEF SchemaIsAPrefix
<1> QED BY <1>3, <1>4 DEF SchemaIsAPrefix

LEMMA ApplyStep == ASSUME IndInv, NEW j \in Jobs, Apply(j) PROVE IndInv'
<1> USE DEF IndInv
<1> DEFINE here == <<at[j], statement[j]>>
<1>0. pc[j] = "apply" /\ UNCHANGED <<ledger, granted, at, failures, served, cut>>
  BY DEF Apply
<1>1. CASE here \in Once \cap applied
  <2>1. Goto(j, "failed") /\ Release(j) /\ UNCHANGED <<applied, statement>>
    BY <1>1 DEF Apply
  <2> QED BY <1>0, <2>1, LeaveStep DEF TypeOK, databaseVars
<1>2. CASE here \notin Once \cap applied
  <2> DEFINE step == IF statement[j] = Statements[at[j]] THEN "record" ELSE "apply"
  <2>1. /\ applied' = applied \cup {here}
        /\ statement' = [statement EXCEPT ![j] = @ + 1]
        /\ Goto(j, step)
        /\ UNCHANGED lock
    BY <1>2 DEF Apply
  <2>2. /\ at[j] \in Image(j) /\ at[j] \in Files /\ ledger[at[j]] = NoSum
        /\ statement[j] \in 1..Statements[at[j]] /\ statement[j] \in Nat /\ Statements[at[j]] \in Nat
        /\ \A s \in 1..(statement[j] - 1) : <<at[j], s>> \in applied
    BY <1>0, ApplyPlace, Zenon
  <2>3. step \in {"record", "apply"}
    OBVIOUS
  <2>4. /\ \A i \in Jobs : pc'[i] = IF i = j THEN step ELSE pc[i]
        /\ \A i \in Jobs : statement'[i] = IF i = j THEN statement[j] + 1 ELSE statement[i]
    BY <2>1 DEF Goto, TypeOK
  <2>5. TypeOK'
    <3>1. here \in AllStatements
      BY <2>2, StatementParts
    <3>2. pc' \in [Jobs -> Busy \cup {"start", "failed", "done"}]
      BY <2>1, <2>3 DEF Goto, TypeOK, Busy
    <3>3. statement' \in [Jobs -> Nat]
      BY <2>1, <2>2 DEF TypeOK
    <3>4. \A i \in Jobs : pc'[i] \in Busy => lock' = i
      BY <1>0, <2>1, <2>4 DEF TypeOK, Busy
    <3> QED BY <1>0, <2>1, <3>1, <3>2, <3>3, <3>4 DEF TypeOK
  <2>6. SchemaIsAPrefix'
    BY <1>0, <2>1, PrefixGrows
  <2>7. ServedUnlessInterrupted' /\ AccountIsKnown'
    BY <1>0, <2>3, <2>4 DEF ServedUnlessInterrupted, AccountIsKnown
  <2>8. EarlierAreRecorded'
    BY <1>0, <2>3, <2>4 DEF EarlierAreRecorded
  <2>9. FileIsOpen'
    <3> SUFFICES ASSUME NEW i \in Jobs
                 PROVE  /\ pc'[i] = "apply" =>
                             /\ at[i] \in Image(i) /\ ledger[at[i]] = NoSum
                             /\ statement'[i] \in 1..Statements[at[i]]
                             /\ \A s \in 1..(statement'[i] - 1) : <<at[i], s>> \in applied'
                        /\ pc'[i] = "record" =>
                             /\ at[i] \in Image(i) /\ ledger[at[i]] = NoSum
                             /\ <<at[i], Statements[at[i]]>> \in applied'
      BY <1>0 DEF FileIsOpen
    <3>1. CASE i # j
      BY <2>1, <2>4, <3>1 DEF FileIsOpen
    <3>2. CASE i = j /\ statement[j] = Statements[at[j]]
      BY <2>1, <2>2, <2>4, <3>2
    <3>3. CASE i = j /\ statement[j] # Statements[at[j]]
      <4>1. statement[j] + 1 \in 1..Statements[at[j]]
        BY <2>2, <3>3
      <4>2. \A s \in 1..(statement[j] + 1 - 1) : s = statement[j] \/ s \in 1..(statement[j] - 1)
        BY <2>2
      <4>3. pc'[j] = "apply"
        BY <2>4, <3>3
      <4> QED BY <2>1, <2>2, <2>4, <3>3, <4>1, <4>2, <4>3
    <3> QED BY <3>1, <3>2, <3>3
  <2> QED BY <2>5, <2>6, <2>7, <2>8, <2>9
<1> QED BY <1>1, <1>2

\* The ledger entry is written once, for a complete file.
LEMMA RecordStep == ASSUME IndInv, NEW j \in Jobs, Record(j) PROVE IndInv'
<1> USE DEF IndInv
<1>0. pc[j] = "record" /\ UNCHANGED <<lock, applied, granted, statement, failures, served, cut>>
  BY DEF Record
<1>1. /\ at[j] \in Image(j) /\ at[j] \in Files /\ at[j] \in Nat /\ ledger[at[j]] = NoSum
      /\ <<at[j], Statements[at[j]]>> \in applied
  BY <1>0, FilesAreNumbers, ImageIsOfFiles DEF FileIsOpen, TypeOK
<1>2. /\ \A f \in Files : ledger'[f] = IF f = at[j] THEN Checksum[j][at[j]] ELSE ledger[f]
      /\ \A i \in Jobs : at'[i] = IF i = j THEN at[j] + 1 ELSE at[i]
      /\ \A i \in Jobs : pc'[i] = IF i = j THEN "check" ELSE pc[i]
      /\ Checksum[j][at[j]] # NoSum
  BY <1>1, ImageIsOfFiles DEF Record, Goto, TypeOK
<1>3. \A i \in Jobs : pc[i] \in Busy => i = j
  BY <1>0, OneAtWork DEF Busy
<1>4. TypeOK'
  <2>1. ledger' \in [Files -> {NoSum} \cup UNION {{Checksum[i][f] : f \in Image(i)} : i \in Jobs}]
    BY <1>1 DEF Record, TypeOK
  <2>2. pc' \in [Jobs -> Busy \cup {"start", "failed", "done"}]
    BY DEF Record, Goto, TypeOK, Busy
  <2>3. at' \in [Jobs -> Nat]
    BY DEF Record, TypeOK
  <2>4. \A i \in Jobs : pc'[i] \in Busy => lock' = i
    BY <1>0, <1>2 DEF TypeOK, Busy
  <2> QED BY <1>0, <2>1, <2>2, <2>3, <2>4 DEF TypeOK
<1>5. SchemaIsAPrefix'
  <2>1. \A b \in applied' : \A a \in AllStatements : Precedes(a, b) => a \in applied'
    BY <1>0 DEF SchemaIsAPrefix
  <2>2. \A f \in Files : ledger'[f] # NoSum => <<f, Statements[f]>> \in applied'
    BY <1>0, <1>1, <1>2 DEF SchemaIsAPrefix
  <2> QED BY <2>1, <2>2 DEF SchemaIsAPrefix
<1>6. ServedUnlessInterrupted'
  BY <1>0, <1>2 DEF ServedUnlessInterrupted
<1>7. EarlierAreRecorded'
  <2> SUFFICES ASSUME NEW i \in Jobs, pc'[i] \in {"check", "apply", "record"},
                      NEW f \in Files, f < at'[i]
               PROVE  ledger'[f] # NoSum
    BY DEF EarlierAreRecorded
  <2>1. i = j
    BY <1>2, <1>3 DEF Busy
  <2>2. f \in Nat /\ (f < at[j] \/ f = at[j])
    BY <1>1, <1>2, <2>1, FilesAreNumbers
  <2> QED BY <1>0, <1>2, <2>2 DEF EarlierAreRecorded
<1>8. FileIsOpen' /\ AccountIsKnown'
  BY <1>2, <1>3 DEF FileIsOpen, AccountIsKnown, Busy
<1> QED BY <1>4, <1>5, <1>6, <1>7, <1>8

\* A job at the accounts changes only who has privileges.
LEMMA AccountsStep ==
    ASSUME IndInv, NEW j \in Jobs, pc[j] \in Busy, NEW step \in {"revoke", "grant"}, Goto(j, step),
           UNCHANGED <<lock, ledger, applied, statement, failures>>,
           at' \in [Jobs -> Nat], \A i \in Jobs \ {j} : at'[i] = at[i],
           step = "grant" => at'[j] \in Accounts,
           granted' \subseteq Accounts, served' \subseteq Accounts, cut' \subseteq Accounts,
           ServedUnlessInterrupted'
    PROVE  IndInv'
<1> USE DEF IndInv
<1>1. \A i \in Jobs : pc'[i] = IF i = j THEN step ELSE pc[i]
  BY DEF Goto, TypeOK
<1>2. TypeOK'
  <2>1. pc' \in [Jobs -> Busy \cup {"start", "failed", "done"}]
    BY DEF Goto, TypeOK, Busy
  <2> QED BY <1>1, <2>1 DEF TypeOK, Busy
<1>3. SchemaIsAPrefix'
  BY DEF SchemaIsAPrefix
<1>4. EarlierAreRecorded' /\ FileIsOpen'
  BY <1>1 DEF EarlierAreRecorded, FileIsOpen
<1>5. AccountIsKnown'
  BY <1>1 DEF AccountIsKnown
<1> QED BY <1>2, <1>3, <1>4, <1>5

LEMMA ProvisionStep == ASSUME IndInv, NEW j \in Jobs, Provision(j) PROVE IndInv'
<1>1. /\ \A i \in Jobs : pc'[i] = IF i = j THEN "revoke" ELSE pc[i]
      /\ \A i \in Jobs \ {j} : at'[i] = at[i]
      /\ at' \in [Jobs -> Nat]
      /\ pc[j] = "check"
  BY DEF Provision, Goto, IndInv, TypeOK
<1>2. ServedUnlessInterrupted'
  BY <1>1 DEF Provision, databaseVars, IndInv, ServedUnlessInterrupted
<1> QED BY <1>1, <1>2, AccountsStep DEF Provision, databaseVars, IndInv, TypeOK, Busy

LEMMA RevokeStep == ASSUME IndInv, NEW j \in Jobs, Revoke(j) PROVE IndInv'
<1>1. /\ \A i \in Jobs : pc'[i] = IF i = j THEN "grant" ELSE pc[i]
      /\ pc[j] = "revoke" /\ at[j] \in Accounts /\ granted' = granted \ {at[j]}
      /\ UNCHANGED <<lock, ledger, applied, at, statement, failures, served, cut>>
  BY DEF Revoke, Goto, IndInv, TypeOK
<1>2. ServedUnlessInterrupted'
  BY <1>1 DEF IndInv, ServedUnlessInterrupted
<1> QED BY <1>1, <1>2, AccountsStep DEF Revoke, IndInv, TypeOK, Busy

LEMMA GrantStep == ASSUME IndInv, NEW j \in Jobs, Grant(j) PROVE IndInv'
<1>1. /\ \A i \in Jobs : pc'[i] = IF i = j THEN "revoke" ELSE pc[i]
      /\ \A i \in Jobs \ {j} : at'[i] = at[i]
      /\ at' \in [Jobs -> Nat]
      /\ pc[j] = "grant" /\ at[j] \in Accounts
      /\ granted' = granted \cup {at[j]} /\ served' = served \cup {at[j]} /\ cut' = cut \ {at[j]}
  BY DEF Grant, Goto, IndInv, TypeOK, AccountIsKnown
<1>2. ServedUnlessInterrupted'
  BY <1>1 DEF IndInv, ServedUnlessInterrupted
<1> QED BY <1>1, <1>2, AccountsStep DEF Grant, IndInv, TypeOK, Busy

LEMMA FinishStep == ASSUME IndInv, NEW j \in Jobs, Finish(j) PROVE IndInv'
  BY LeaveStep DEF Finish, IndInv, TypeOK

LEMMA FailStep == ASSUME IndInv, NEW j \in Jobs, Fail(j) PROVE IndInv'
<1>1. failures' \in 0..MaxFailures
  <2>1. failures \in 0..MaxFailures /\ failures < MaxFailures /\ failures' = failures + 1
    BY DEF Fail, IndInv, TypeOK
  <2> QED BY <2>1, MigrationsAssumption
<1> QED BY <1>1, LeaveStep DEF Fail

LEMMA RestartStep == ASSUME IndInv, NEW j \in Jobs, Restart(j) PROVE IndInv'
<1> USE DEF IndInv, databaseVars
<1>1. /\ \A i \in Jobs : pc'[i] = IF i = j THEN "start" ELSE pc[i]
      /\ pc[j] = "failed"
      /\ UNCHANGED <<lock, ledger, applied, granted, at, statement, failures, served, cut>>
  BY DEF Restart, Goto, TypeOK
<1>2. TypeOK'
  BY <1>1 DEF Restart, Goto, TypeOK, Busy
<1>3. SchemaIsAPrefix' /\ ServedUnlessInterrupted'
  BY <1>1 DEF SchemaIsAPrefix, ServedUnlessInterrupted
<1>4. EarlierAreRecorded' /\ FileIsOpen' /\ AccountIsKnown'
  BY <1>1 DEF EarlierAreRecorded, FileIsOpen, AccountIsKnown
<1> QED BY <1>2, <1>3, <1>4

-----------------------------------------------------------------------------
\* Every step keeps the inductive invariant.
LEMMA IndStep == IndInv /\ [Next]_vars => IndInv'
<1> SUFFICES ASSUME IndInv, [Next]_vars PROVE IndInv'
  OBVIOUS
<1>1. CASE UNCHANGED vars
  BY <1>1 DEF vars, databaseVars, jobVars, IndInv, TypeOK, SchemaIsAPrefix, ServedUnlessInterrupted,
              EarlierAreRecorded, FileIsOpen, AccountIsKnown
<1> QED
  BY <1>1, LockStep, CheckFileStep, ApplyStep, RecordStep, ProvisionStep, RevokeStep, GrantStep,
     FinishStep, FailStep, RestartStep DEF Next, Run

\* The inductive invariant of the migrations.
THEOREM MigrationsInductive == Spec => []IndInv
  BY IndInit, IndStep, PTL DEF Spec

\* However the jobs interleave, fail and start again, with whatever images: the
\* database holds a prefix of the statements, the ledger only complete files, one job
\* at a time is at work, and an account that had its privileges has them unless a job
\* is, or was interrupted, between REVOKE and GRANT.
THEOREM MigrationsInvariant == Spec => []MigrationsInv
<1>1. IndInv => MigrationsInv
  BY DEF IndInv, MigrationsInv
<1> QED BY <1>1, MigrationsInductive, PTL

\* No job runs a recorded file again or changes its entry in the ledger.
THEOREM RecordedStaysFinal == Spec => RecordedIsFinal
<1>1. ASSUME IndInv, [Next]_vars
      PROVE  [\A f \in Files : ledger[f] # NoSum =>
                 /\ ledger'[f] = ledger[f]
                 /\ ~\E j \in Jobs : pc[j] = "apply" /\ at[j] = f]_vars
  <2> SUFFICES ASSUME Next, NEW f \in Files, ledger[f] # NoSum
               PROVE  ledger'[f] = ledger[f] /\ ~\E j \in Jobs : pc[j] = "apply" /\ at[j] = f
    BY <1>1
  <2>1. ~\E j \in Jobs : pc[j] = "apply" /\ at[j] = f
    BY <1>1 DEF IndInv, FileIsOpen
  <2>2. CASE \E j \in Jobs : Record(j)
    <3>1. PICK j \in Jobs : Record(j)
      BY <2>2
    <3>2. at[j] # f
      BY <1>1, <3>1 DEF Record, IndInv, FileIsOpen
    <3>3. ledger'[f] = ledger[f]
      BY <1>1, <3>1, <3>2 DEF Record, IndInv, TypeOK
    <3> QED BY <2>1, <3>3
  <2>3. (\E j \in Jobs : Record(j)) \/ UNCHANGED ledger
    BY DEF Next, Run, Lock, CheckFile, Apply, Provision, Revoke, Grant, Finish, Fail, Restart,
           databaseVars
  <2> QED BY <2>1, <2>2, <2>3
<1> QED BY <1>1, MigrationsInductive, PTL DEF Spec, RecordedIsFinal

-----------------------------------------------------------------------------
(* What a job has done when it finishes *)

\* The accounts a job has passed have their privileges: nobody else revokes them while
\* it holds the lock.
PassedAreGranted ==
    \A j \in Jobs : pc[j] \in {"revoke", "grant"} =>
        1 <= at[j] /\ \A a \in Accounts : a < at[j] => a \in granted

LEMMA PassedStep == IndInv /\ PassedAreGranted /\ [Next]_vars => PassedAreGranted'
<1> SUFFICES ASSUME IndInv, PassedAreGranted, [Next]_vars PROVE PassedAreGranted'
  OBVIOUS
<1>0. TypeOK /\ AccountIsKnown
  BY DEF IndInv
<1>1. CASE UNCHANGED vars
  BY <1>1 DEF vars, databaseVars, jobVars, PassedAreGranted
<1>2. ASSUME NEW j \in Jobs, Provision(j) PROVE PassedAreGranted'
  <2>1. /\ \A i \in Jobs \ {j} : pc'[i] = pc[i] /\ at'[i] = at[i]
        /\ at'[j] = 1 /\ granted' = granted
    BY <1>0, <1>2 DEF Provision, Goto, databaseVars, TypeOK
  <2>2. \A a \in Accounts : ~(a < 1)
    <3>1. Cardinality(Accounts) \in Nat /\ Accounts = 1..Cardinality(Accounts)
      BY MigrationsAssumption, FS_CardinalityType
    <3> QED BY <3>1
  <2> QED BY <2>1, <2>2 DEF PassedAreGranted
<1>3. ASSUME NEW j \in Jobs, Revoke(j) PROVE PassedAreGranted'
  <2>1. /\ \A i \in Jobs : pc'[i] = IF i = j THEN "grant" ELSE pc[i]
        /\ pc[j] = "revoke" /\ at' = at /\ granted' = granted \ {at[j]}
    BY <1>0, <1>3 DEF Revoke, Goto, TypeOK
  <2>2. \A i \in Jobs : pc'[i] \in {"revoke", "grant"} => i = j
    BY <1>0, <2>1, OneAtWork DEF Busy
  <2>3. at[j] \in Nat /\ \A a \in Accounts : a < at[j] => a \in granted /\ a # at[j]
    BY <1>0, <2>1, FilesAreNumbers DEF PassedAreGranted, TypeOK
  <2> QED BY <2>1, <2>2, <2>3 DEF PassedAreGranted
<1>4. ASSUME NEW j \in Jobs, Grant(j) PROVE PassedAreGranted'
  <2>1. /\ \A i \in Jobs : pc'[i] = IF i = j THEN "revoke" ELSE pc[i]
        /\ \A i \in Jobs : at'[i] = IF i = j THEN at[j] + 1 ELSE at[i]
        /\ pc[j] = "grant" /\ granted' = granted \cup {at[j]}
    BY <1>0, <1>4 DEF Grant, Goto, TypeOK
  <2>2. at[j] \in Nat
    BY <1>0 DEF TypeOK
  <2>3. \A a \in Accounts : a < at[j] + 1 => a < at[j] \/ a = at[j]
    <3>1. \A n \in Nat : n < at[j] + 1 => n < at[j] \/ n = at[j]
      BY <2>2
    <3> QED BY <3>1, FilesAreNumbers
  <2> QED BY <2>1, <2>2, <2>3 DEF PassedAreGranted
<1>5. ASSUME NEW j \in Jobs, \/ Lock(j) \/ CheckFile(j) \/ Apply(j) \/ Record(j)
                            \/ Finish(j) \/ Restart(j) \/ Fail(j)
      PROVE  PassedAreGranted'
  <2> DEFINE Elsewhere == /\ \A i \in Jobs \ {j} : pc'[i] = pc[i] /\ at'[i] = at[i]
                          /\ pc'[j] \notin {"revoke", "grant"} /\ granted' = granted
  <2>a. ASSUME Lock(j) PROVE Elsewhere
    BY <1>0, <2>a DEF Lock, Goto, databaseVars, TypeOK
  <2>b. ASSUME CheckFile(j) PROVE Elsewhere
    BY <1>0, <2>b DEF CheckFile, Goto, databaseVars, TypeOK
  <2>c. ASSUME Apply(j) PROVE Elsewhere
    BY <1>0, <2>c DEF Apply, Goto, TypeOK
  <2>d. ASSUME Record(j) PROVE Elsewhere
    BY <1>0, <2>d DEF Record, Goto, TypeOK
  <2>e. ASSUME Finish(j) \/ Restart(j) \/ Fail(j) PROVE Elsewhere
    BY <1>0, <2>e DEF Finish, Restart, Fail, Goto, databaseVars, TypeOK
  <2>1. Elsewhere
    BY <1>5, <2>a, <2>b, <2>c, <2>d, <2>e
  <2> QED BY <2>1 DEF PassedAreGranted
<1> QED BY <1>1, <1>2, <1>3, <1>4, <1>5 DEF Next, Run

\* At the moment a job finishes every service account has its privileges, whatever was
\* interrupted before and whoever waits for the lock: the safety half of JobsFinish.
THEOREM FinishedHasGranted ==
    Spec => [][\A j \in Jobs : pc[j] # "done" /\ pc'[j] = "done" => granted' = Accounts]_vars
<1>1. Init => PassedAreGranted
  BY DEF Init, PassedAreGranted
<1>2. Spec => []PassedAreGranted
  BY <1>1, PassedStep, MigrationsInductive, PTL DEF Spec
<1>3. ASSUME IndInv, PassedAreGranted, [Next]_vars
      PROVE  [\A j \in Jobs : pc[j] # "done" /\ pc'[j] = "done" => granted' = Accounts]_vars
  <2> SUFFICES ASSUME Next, NEW j \in Jobs, pc[j] # "done", pc'[j] = "done"
               PROVE  granted' = Accounts
    BY <1>3
  <2>0. TypeOK
    BY <1>3 DEF IndInv
  <2>1. Finish(j)
    BY <2>0 DEF Next, Run, Lock, CheckFile, Apply, Record, Provision, Revoke, Grant, Finish, Fail,
                Restart, Goto, TypeOK
  <2>2. pc[j] = "revoke" /\ at[j] \notin Accounts /\ granted' = granted
    BY <2>1 DEF Finish, databaseVars
  <2>3. \A a \in Accounts : a < at[j]
    <3>1. Cardinality(Accounts) \in Nat /\ Accounts = 1..Cardinality(Accounts)
      BY MigrationsAssumption, FS_CardinalityType
    <3>2. at[j] \in Nat /\ 1 <= at[j]
      BY <1>3, <2>0, <2>2 DEF PassedAreGranted, TypeOK
    <3> QED BY <2>2, <3>1, <3>2
  <2> QED BY <1>3, <2>0, <2>2, <2>3 DEF PassedAreGranted, TypeOK
<1> QED BY <1>2, <1>3, MigrationsInductive, PTL DEF Spec
=============================================================================
