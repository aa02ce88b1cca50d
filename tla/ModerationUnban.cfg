SPECIFICATION Spec
CONSTANTS
    Users = {u1}
    Handlers = {h1, h2}
    Requests = {"like", "ban", "unban"}
INVARIANTS
    UnbanDeletesCache
