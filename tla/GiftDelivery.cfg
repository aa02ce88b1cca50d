SPECIFICATION DeliveryFairSpec
CONSTANTS
    Events = {good, odd, bad}
    Malformed = {odd}
    BadPayload = {bad}
    Members = {m1, m2}
    MaxLog = 3
    MaxDeliveryFaults = 2
    NoMember = NoMember
INVARIANTS
    NoSilentSkip
    DeliveredOnceUnlessDisturbed
PROPERTIES
    OffsetOnlyAdvances
    EveryRecordConsumed
CHECK_DEADLOCK FALSE
