SPECIFICATION Spec
CONSTANTS
    Keys <- MCKeys
    Algorithm <- MCAlgorithm
    HeaderKeys = {"ct"}
    HeaderKinds <- MCHeaderKinds
    MaxLayers = 3
    MaxSignatures = 1
    MaxRecipients = 2
    MaxMinted = 4
INVARIANTS
    RecipientsRead
    AuthorsReported
    ContentsDelivered
CHECK_DEADLOCK FALSE
