CONSTANTS
    Admins = {t1, t2}
    NoOp = NoOp
    Agents = {a1, a2}
    KeyIds = {k1, k2}
    NoKey = NoKey
    Windows <- MCWindows
    MaxTime = 1
SPECIFICATION RegistrySpec
SYMMETRY RegistrySymmetry
INVARIANTS
    OneSigningKey
    KillSwitchFinal
PROPERTIES
    NoVerificationGap
