SPECIFICATION Spec
CONSTANTS
    Keys <- MCKeys
    Algorithm <- MCAlgorithm
    HeaderKeys = {"ct"}
    HeaderKinds <- MCHeaderKinds
    Inbox <- MCInbox
INVARIANTS
    TypeOK
    OpenedIsAuthentic
    OnlyHoldersUnseal
PROPERTIES
    KeepsPromise
    CallReturns
CHECK_DEADLOCK FALSE
