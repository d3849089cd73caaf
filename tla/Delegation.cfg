CONSTANTS
    Covers <- MCCovers
    NetworkAllowlist = {}
    MaxRows = 0
    MaxBytes = 0
    Absent = Absent
    Threads = {t1, t2}
    NoCall = NoCall
    Principals = {admin, alice}
    Trusted = {}
    LateAuthorities = {admin}
    Offers <- MCOffers
    Actions <- MCActions
    AllowedExternal = {alice}
    AllowSecretExternal = FALSE
    MaxTime = 1
    MaxDelegations = 3
    ChainDepths = {2}
SPECIFICATION Spec
SYMMETRY SymmetricThreads
INVARIANTS
    Attenuated
    GrantsAttenuate
    NoLaundering
    RevocationPropagates
CHECK_DEADLOCK FALSE
