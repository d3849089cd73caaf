CONSTANTS
    a = a
    b = b
    c = c
    PartyOrder <- MCOrder
    Rosters <- MCRosters
    Threads = {t1, t2}
    NoJob = NoJob
    Declarations <- MCDeclarations
    Statuses = {"ACTIVE"}
    NoContext = NoContext
    BrokerParty = broker
    BrokerGens = 1
    MaxGens = 2
    AllowedSets = {{"SUM_V1"}}
    MaxInputs = 1
    MaxResults = 1
SPECIFICATION Spec
SYMMETRY SymmetricThreads
INVARIANTS
    AllPartiesNeeded
    RetryHeals
CHECK_DEADLOCK FALSE
