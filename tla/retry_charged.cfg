SPECIFICATION RestartSpec
CONSTANTS
    Calls = {c1}
    c1 = c1
    NoCall = NoCall
    Keys = {"k1", "k2"}
    Accounts <- MCAccounts
    NoId = "none"
    Opening <- MCOpening
    Existing <- MCExisting
    Requests <- OneWay
    Chain <- MCChain
    Providers <- Shipped
    LedgerFaults = FALSE
    Crashes = 1
INVARIANT RetryNotCharged
