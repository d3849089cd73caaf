CONSTANTS
    s1 = s1
    s2 = s2
    e1 = e1
    e2 = e2
    readFile = readFile
    Subjects = {s1}
    Threads = {admin}
    NoThread = NoThread
    NoJob = NoJob
    Features <- MCFeatures
    Thresholds <- MCThresholds
    Cooldown = 0
    MaxEpoch = 2
    MaxTime = 1
    Workers = {w1, w2}
    NoWork = NoWork
    Mediators = {m1}
    NoMediation = NoMediation
    Envelopes = {e1}
    Actions = {readFile}
    SubjectOf <- MCSameSubject
    ActionOf <- MCOneAction
    SequenceOf <- MCSequences
    RequestExpires <- MCNeverExpires
    SessionExpires <- MCSessionsShort
    TokenTTL = 1
    ApprovalTTL = 1
    MaxMediations = 1
SPECIFICATION PlaneSpec
SYMMETRY SymmetricThreads
INVARIANTS
    OneTokenPerEnvelope
    ApprovalRespected
    GateHeldOnce
    OldTokensStayDead
PROPERTIES
    ImplementsLifecycle
