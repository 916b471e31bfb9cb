SPECIFICATION Spec
CONSTANTS
    Calls = {c1, c2}
    c1 = c1
    c2 = c2
    NoCall = NoCall
    Keys = {"k1", "k2"}
    Accounts <- MCAccounts
    NoId = "none"
    Opening <- MCOpening
    Existing <- MCExisting
    Requests <- EveryKind
    Chain <- MCChain
    Providers <- Fussy
    LedgerFaults = TRUE
SYMMETRY Symmetric
INVARIANTS
    TypeOK
    EventsAreFacts
    Ownership
PROPERTIES
    KeepsContract
