SPECIFICATION Spec
CONSTANTS
    Keys <- MCKeys
    Algorithm <- MCAlgorithm
    Passwords = {"pw", "other"}
    NoPassword = "none"
    MaxKeys = 3
PROPERTY
    RestoreGivesBackSigner
