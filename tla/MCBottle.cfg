SPECIFICATION Spec
CONSTANTS
    Keys <- MCKeys
    Algorithm <- MCAlgorithm
    HeaderKeys = {"ct"}
    HeaderKinds <- MCHeaderKinds
    MaxLayers = 3
    MaxSignatures = 2
    MaxRecipients = 2
    MaxMinted = 4
INVARIANTS
    TypeOK
    SignaturesCoverMessages
    SealedForRecipients
    LayersDecode
PROPERTIES
    ProtectionCoversBottle
    NoLayerLost
    FailureAtMostBottlesUp
