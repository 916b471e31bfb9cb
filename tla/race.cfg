SPECIFICATION Spec
CONSTANTS
    Calls = {c1, c2, c3}
    c1 = c1
    c2 = c2
    c3 = c3
    NoCall = NoCall
    Keys = {"k1", "k2", "k3"}
    Accounts <- MCAccounts
    NoId = "none"
    Opening <- MCOpening
    Existing <- MCExisting
    Requests <- Race
    Chain <- MCChain
    Providers <- Shipped
    LedgerFaults = FALSE
SYMMETRY Symmetric
INVARIANTS
    NoOverdraft
    ChargedOnce
    OneAnswerPerKey
    PayerDebitsInOrder
    ExactlyTheAffordable
    CapturedIffPosted
    LiveMatchesJournal
    SumsFitTheSupply
    Settlement
PROPERTIES
    StoredForever
    OnlyTheHolderDebits
