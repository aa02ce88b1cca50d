SPECIFICATION FairSpec
CONSTANTS
    Rooms = {r1}
    Requests = {q1}
    Counts = {1}
    Batch = 1
    Shards = {k1}
    ShardOf <- OneShard
    MaxLikes = 1
    MaxViewers = 1
    MaxFaults = 1
    NoRoom = NoRoom
PROPERTIES
    ScreenCatchesUp
