SPECIFICATION FairSpec
CONSTANTS
    j1 = j1
    j2 = j2
    j3 = j3
    Jobs = {j1, j2, j3}
    Files = {1, 2, 3}
    Statements <- MCStatements
    Once <- MCOnce
    Checksum <- MCChecksum
    Accounts = {1, 2}
    MaxFailures = 3
    NoJob = NoJob
    NoSum = "none"
INVARIANTS
    MigrationsInv
PROPERTIES
    RecordedIsFinal
    JobsFinish
CHECK_DEADLOCK FALSE
