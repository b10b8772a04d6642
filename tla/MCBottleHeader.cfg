SPECIFICATION Spec
CONSTANTS
    Keys <- MCKeys
    Algorithm <- MCAlgorithm
    HeaderKeys = {"ct"}
    HeaderKinds <- MCHeaderKinds
    MaxLayers = 3
    MaxSignatures = 2
    MaxRecipients = 1
    MaxMinted = 4
PROPERTY
    HeaderSurvivesEncrypt
