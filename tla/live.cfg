SPECIFICATION EventsSpec
CONSTANTS
    Calls = {c1, c2, n}
    c1 = c1
    c2 = c2
    n = n
    Nested = {n}
    s1 = s1
    s2 = s2
    Subscribers = {s1, s2}
    Early <- MCEarly
    Conducts <- MCConducts
    NoCall = NoCall
    Keys = {"k1", "k2"}
    Accounts <- MCAccounts
    NoId = "none"
    Opening <- MCOpening
    Existing <- MCExisting
    Requests <- Noted
    Chain <- MCChain
    Providers <- Shipped
    LedgerFaults = FALSE
INVARIANTS
    HeardInOrder
    ThrowsAfterTheFact
    NoEventIsMissed
PROPERTIES
    EveryCallReturns
    EveryClaimSettles
