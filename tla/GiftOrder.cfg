SPECIFICATION FairSpec
CONSTANTS
    Calls = {c1, c2}
    CreditCalls = {d1}
    Users = {u1, u2}
    Rooms = {r1}
    Gifts = {g1, g2}
    Keys = {k1, k2}
    u1 = u1
    u2 = u2
    g1 = g1
    g2 = g2
    k1 = k1
    k2 = k2
    r1 = r1
    Requests <- MCRequests
    Credits <- MCCredits
    Price <- MCPrice
    Opening <- MCOpening
    MaxCountPerRequest = 3
    MaxCreditAmount = 2
    MaxInt64 = 7
    NoOrder = NoOrder
    NoCall = NoCall
    NoRequest = NoRequest
INVARIANTS
    LedgerExplainsBalance
    NoDoubleCharge
    AnswersAreTrue
    ScoreNeverOvercounts
PROPERTIES
    SoldKeyIsNeverRefused
    ImplementsSale
    EveryCallAnswered
