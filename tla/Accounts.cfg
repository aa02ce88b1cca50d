SPECIFICATION Spec
CONSTANTS
    Calls = {c1, c2}
    Spellings = {"Ann", "ann ", "x"}
    Passwords = {"p", "q", "short"}
    Normalize <- MCNormalize
    ValidUsername = {"ann"}
    ValidPassword = {"p", "q"}
    Ttl = 2
    MaxTime = 5
    MaxRooms = 1
    NoRow = NoRow
    NoName = "no name"
    NoPassword = "no password"
INVARIANTS
    AccountsInv
PROPERTIES
    OneAccountPerName
    LockedOutAfterTtl
