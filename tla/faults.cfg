SPECIFICATION RestartSpec
CONSTANTS
    Calls = {c1, c2}
    c1 = c1
    c2 = c2
    NoCall = NoCall
    Keys = {"k1", "k2"}
    Accounts <- MCAccounts
    NoId = "none"
    Opening <- MCOpening
    Existing <- MCExisting
    Requests <- Troubled
    Chain <- MCChain
    Providers <- Fussy
    LedgerFaults = TRUE
    Crashes = 1
SYMMETRY Symmetric
INVARIANTS
    CompensationAccounted
    CapturedWasCharged
    OnlyRefusedCapturesKeepTheMoney
PROPERTIES
    OwnSavesStay
