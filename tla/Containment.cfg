CONSTANTS
    Subjects = {s1, s2}
    Threads = {t1, t2}
    NoThread = NoThread
    NoJob = NoJob
    Features <- MCFeatures
    Thresholds <- MCThresholds
    Cooldown = 1
    MaxEpoch = 3
    MaxTime = 1
    Capabilities <- MCCapabilities
    Delegated <- MCDelegated
    EnterprisePolicy <- MCCapabilities
    RuntimeProfile <- MCCapabilities
    Profile <- MCProfile
SPECIFICATION FairSpec
INVARIANTS
    TypeOK
    ChainLinked
    EpochsAudited
    CooldownHonoured
PROPERTIES
    RecoveryGated
    EscalationRestoresOnlyDiagnostics
    LockReleased
