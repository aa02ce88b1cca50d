SPECIFICATION FairSpec
CONSTANTS
    m1 = m1
    m2 = m2
    Messages = {m1, m2}
    Users = {u1, u2}
    Lower <- MCLower
    Texts <- MCTexts
    Bucket <- MCBucket
    Words <- MCWords
    MaxLength = 3
    Traffic <- MCTraffic
    Audience = {1, 4}
    UserRateLimit = 1
    UserRateWindow = 2
    Durations = {0, 1}
    BufferSize = 1
    MaxTime = 2
    MaxCrashes = 1
    MaxChanges = 1
    Governed = {u1}
INVARIANTS
    DanmakuInv
    LimiterIsRight
    SuccessIsTrue
    SamplingIsMonotone
PROPERTIES
    EventuallyArchived
CHECK_DEADLOCK FALSE
