CONSTANTS
    Threads = {t1, t2}
    NoJob = NoJob
    NoThread = NoThread
    Modes = {"OBSERVE", "WARN", "ENFORCE", "QUARANTINE"}
    Profiles <- MCProfiles
    MaxOperations = 5
SPECIFICATION Spec
SYMMETRY SymmetricThreads
INVARIANTS
    ModeAudited
    ShadowReportExact
    TamperEvident
    
CHECK_DEADLOCK FALSE
