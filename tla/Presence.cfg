SPECIFICATION Spec
CONSTANTS
    a = a
    b = b
    Users = {a, b}
    Ttl = 2
    Window = 4
    Limit = 1
    MaxDelay = 1
    MaxTime = 5
    MaxGift = 1
SYMMETRY Symmetry
INVARIANTS
    PresenceInv
    PromiseIsKept
    FirstComeFirstListed
PROPERTIES
    PlaceIsKept
