SPECIFICATION Spec
CONSTANTS
    t1 = t1
    t2 = t2
    t3 = t3
    Ids = {t1, t2, t3}
    Bodies = {"AUTHORIZED", "CAPTURED"}
    DiskFaults = FALSE

INVARIANTS
    SavedSurvives
