SPECIFICATION Spec
CONSTANTS
    GroupBits = 2
    WordBits = 9
    EphemeralPkix <- MCEphemeral
    KemText <- MCKemText
    Nonce <- MCNonce
    SealedBuffer <- MCSealed
    TagSize = 3
    MaxEcdhPrefix = 10
    MaxKemPrefix = 12
    SequenceTag = 6
    OidTag = 5
    BitStringTag = 3
    MaxLengthBytes = 2
    FirstRadix = 2
    KeyKinds <- MCKinds
    HybridKinds <- MCHybrids
    KeyOid <- MCOid
    KeySize <- MCKeySize
    XSize = 3
    DkSize <- MCDkSize
    FieldValues = {"a", "b", "c", "d"}
    Targets <- MCTargets
    Things <- MCThings
    Junk <- MCJunk
    ExtraBytes = {0, 3}
INVARIANT
    TrailingRejected
CHECK_DEADLOCK FALSE
