SPECIFICATION Spec
CONSTANTS
    Keys <- MCKeys
    Algorithm <- MCAlgorithm
    Canonical <- MCCanonical
    HeaderKeys = {}
    HeaderKinds = {}
    Purposes = {"sign"}
    SignPurpose = "sign"
    Times <- MCTimes
    Repeats = 1
    Subjects = {"alice"}
    Statuses = {"valid", "suspended"}
    ValidStatus = "valid"
    CardsMet <- MCCards
    GroupKey = "group"
    MaxSigners = 2
INVARIANTS
    TypeOK
    VerifyIsExact
    AuthorityFromGroup
PROPERTY
    StoringKeepsVerdict
