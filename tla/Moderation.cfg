SPECIFICATION FairSpec
CONSTANTS
    Users = {u1}
    Handlers = {h1, h2}
    Requests = {"like", "join", "heartbeat", "ban", "unban"}
INVARIANTS
    ModerationInv
PROPERTIES
    BanTakesHold
    ClosedRoomEmpties
