SPECIFICATION Spec
CONSTANTS
    Calls = {c1, c2}
    c1 = c1
    c2 = c2
    NoCall = NoCall
    Keys = {"k1", "k2"}
    Accounts <- MCAccounts
    NoId = "none"
    Opening <- MCOpening
    Existing <- MCExisting
    Requests <- Foreign
    Chain <- MCChain
    Providers <- Shipped
    LedgerFaults = FALSE
SYMMETRY Symmetric
INVARIANT NoClaimLeftOpen
