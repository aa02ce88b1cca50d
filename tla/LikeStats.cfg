SPECIFICATION Spec
CONSTANTS
    Rooms = {r1}
    Requests = {q1}
    Counts = {1, 2}
    Batch = 1
    Shards = {k1}
    ShardOf <- OneShard
    MaxLikes = 3
    MaxViewers = 0
    MaxFaults = 2
    NoRoom = NoRoom
INVARIANTS
    LikeStatsInv
    LikesConserved
PROPERTIES
    CheckpointNeverFalls
    TotalNeverFalls
