SPECIFICATION FairSpec
CONSTANTS
    Events = {1, 2}
    Workers = {w1, w2}
    Mortal = {w1}
    BatchSize = 1
    MaxOutboxFaults = 0
    NoWorker = NoWorker
    Malformed = {2}
    BadPayload = {}
    Members = {m1}
    MaxLog = 0
    MaxDeliveryFaults = 1
    MaxReplays = 1
    NoMember = NoMember
INVARIANTS
    PipelineInv
PROPERTIES
    DeliversEveryOrder
CHECK_DEADLOCK FALSE
