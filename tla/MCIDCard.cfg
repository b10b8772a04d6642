SPECIFICATION Spec
CONSTANTS
    Keys <- MCKeys
    Algorithm <- MCAlgorithm
    Canonical <- MCCanonical
    Purposes = {"decrypt", "sign"}
    SignPurpose = "sign"
    Times <- MCTimes
    Repeats = 2
    Lists <- MCLists
    Expiries = {1}
    MaxSubkeys = 2
    MaxRevoked = 1
INVARIANTS
    TypeOK
    EntriesDistinct
PROPERTY
    ImplementsGrants
