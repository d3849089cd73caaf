CONSTANTS
    scope = scope
    r1 = r1
    r2 = r2
    r3 = r3
    Unset = Unset
    Policy <- MCPatterns
    Queries <- MCOverlapping
    Callers = {c1, c2}
    NoCall = NoCall
    Datasets = {d1}
    Programs = {sum}
    Scopes = {scope}
    Classifications = {"CONFIDENTIAL"}
    Strays = {stray}
    Grants <- MCAllPermissions
    Assertions = {FALSE}
    Containments = {}
    ApprovalTTL = 1
    MaxCiphertexts = 1
    MaxResults = 2
    MaxRequests = 2
    MaxTime = 0
    Timestamps = {0}
SPECIFICATION ReleaseSpec
SYMMETRY CallerSymmetry
INVARIANTS
    HumanApproved
    Traceable
    NoLeakPattern
