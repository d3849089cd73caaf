CONSTANTS
    scope = scope
    r1 = r1
    r2 = r2
    r3 = r3
    Unset = Unset
    Policy <- MCBudget
    Queries <- MCOneQuery
    Callers = {c1, c2}
    NoCall = NoCall
    Datasets = {d1}
    Programs = {sum}
    Scopes = {scope}
    Classifications = {"PUBLIC", "CONFIDENTIAL"}
    Strays = {stray}
    Grants <- MCAllPermissions
    Assertions = {FALSE}
    Containments = {"RESTRICTED"}
    ApprovalTTL = 1
    MaxCiphertexts = 1
    MaxResults = 0
    MaxRequests = 3
    MaxTime = 1
    Timestamps = {0, 1}
SPECIFICATION ReleaseSpec
SYMMETRY CallerSymmetry
INVARIANTS
    BudgetOvershootBounded
    ReleasedOnce
