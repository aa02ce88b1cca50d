SPECIFICATION OutboxFairSpec
CONSTANTS
    Events = {1, 2}
    Workers = {w1, w2}
    Mortal = {w1}
    BatchSize = 2
    MaxOutboxFaults = 2
    NoWorker = NoWorker
INVARIANTS
    PublishedIsInLog
    CopiesHaveACause
PROPERTIES
    NeverUnpublished
    EventuallyPublished
CHECK_DEADLOCK FALSE
