SPECIFICATION Spec
CONSTANTS
    Keys <- MCKeys
    Algorithm <- MCAlgorithm
    Passwords = {"pw", "other"}
    NoPassword = "none"
    MaxKeys = 3
INVARIANTS
    TypeOK
    DefaultSignerSigns
    DefaultSignerCameFirst
PROPERTY
    RestoreIsExact
