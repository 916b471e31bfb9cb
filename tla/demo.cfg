SPECIFICATION DemoSpec
CONSTANTS
    Calls <- MCCalls
    NoCall = "nobody"
    Keys <- MCKeys
    Accounts <- MCAccounts
    NoId = "none"
    Opening <- MCOpening
    Existing = {"u", "m"}
    Requests <- MCRequests
    Chain <- MCChain
    Providers <- Shipped
    LedgerFaults = FALSE
    Script <- MCScript
    Burst <- MCBurst
    Asks <- MCAsks
    Wallet = "v"
    Merchant = "m"
    Workers = {"w1", "w2"}
INVARIANTS
    BurstAsTold
    AuditIsComplete
PROPERTIES
    RejectedMovesNothing
    DemoEnds
