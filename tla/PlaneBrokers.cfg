CONSTANTS
    s1 = s1
    s2 = s2
    e1 = e1
    e2 = e2
    readFile = readFile
    Subjects = {s1, s2}
    Threads = {admin}
    NoThread = NoThread
    NoJob = NoJob
    Features <- MCFeatures
    Thresholds <- MCThresholds
    Cooldown = 0
    MaxEpoch = 0
    MaxTime = 1
    Workers = {w1}
    NoWork = NoWork
    Mediators = {m1, m2}
    NoMediation = NoMediation
    Envelopes = {e1, e2}
    Actions = {readFile}
    SubjectOf <- MCTwoSubjects
    ActionOf <- MCOneAction
    SequenceOf <- MCSequences
    RequestExpires <- MCNeverExpires
    SessionExpires <- MCSessionsLast
    TokenTTL = 1
    ApprovalTTL = 1
    MaxMediations = 3
SPECIFICATION PlaneSpec
SYMMETRY SymmetricThreads
INVARIANTS
    SingleUse
    EffectAuthorized
    AuditComplete
