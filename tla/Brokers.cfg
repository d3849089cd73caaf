CONSTANTS
    Threads = {t1, t2}
    Requests <- MCRequests
    Decisions <- MCDecisions
    Refused = Refused
    MaxBytes = 1
    MaxInodes = 4
    MaxSwaps = 3
SPECIFICATION Spec
SYMMETRY SymmetricThreads
INVARIANTS
    BytesContained
    EffectsReceipted
    OnlyApprovedLeaves
CHECK_DEADLOCK FALSE
