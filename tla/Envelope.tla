------------------------------ MODULE Envelope ------------------------------
(***************************************************************************)
(* The bytes of a short envelope: what ecdh.rs and mlkem.rs write for a    *)
(* recipient and how they take it apart, to the byte.  Sizes are scaled.   *)
(* The cryptography is ideal: there is one ephemeral key, one ciphertext   *)
(* and one sealed buffer, and any other bytes in their place are refused   *)
(* by the operation that reads them.                                       *)
(***************************************************************************)
EXTENDS Uvarint

CONSTANTS
    EphemeralPkix,  \* the PKIX bytes of the ephemeral public key
    KemText,        \* the ML-KEM ciphertext of the shared secret
    Nonce,          \* the nonce of the AEAD
    SealedBuffer,   \* the buffer sealed under the agreed key, with its tag
    TagSize,
    MaxEcdhPrefix,  \* longest ephemeral key ecdh::decrypt accepts
    MaxKemPrefix    \* longest chunk mlkem::read_chunk accepts

ASSUME PartsAssumption ==
    /\ {EphemeralPkix, KemText, Nonce, SealedBuffer} \subseteq Seq(Octet)
    /\ {Len(EphemeralPkix), Len(KemText)} \subseteq Word
    /\ TagSize \in 0 .. Len(SealedBuffer)
    /\ {MaxEcdhPrefix, MaxKemPrefix} \subseteq Nat

\* What is sealed here is short enough for those who open it.
ASSUME LimitAssumption ==
    /\ Len(EphemeralPkix) <= MaxEcdhPrefix /\ Len(EphemeralPkix) <= MaxKemPrefix
    /\ Len(KemText) <= MaxKemPrefix

EnvelopeKinds == {"ecdh", "hybrid", "pure"}

-----------------------------------------------------------------------------

Prefixed(bytes) == AppendUvarint[Len(bytes)] \o bytes

\* ecdh::envelope, mlkem::hybrid_encrypt and pure_encrypt.
EnvelopeBytes(kind) ==
    CASE kind = "ecdh"   -> <<0>> \o Prefixed(EphemeralPkix) \o Nonce \o SealedBuffer
      [] kind = "hybrid" -> <<1>> \o Prefixed(EphemeralPkix) \o Prefixed(KemText)
                                  \o Nonce \o SealedBuffer
      [] kind = "pure"   -> <<2>> \o Prefixed(KemText) \o Nonce \o SealedBuffer

\* A chunk after its length, which is cut to usize before it is compared; there
\* must be reserve more bytes behind it.
ReadChunk(t, data, limit, reserve) ==
    Then(ReadUvarint(t, data), LAMBDA u :
        LET len == u.value % Power[t.bits]
        IN  IF len > limit \/ Len(data) < u.used + len + reserve THEN Fail("Malformed")
            ELSE [error |-> "none",
                  chunk |-> SubSeq(data, u.used + 1, u.used + len),
                  rest  |-> SubSeq(data, u.used + len + 1, Len(data))])

\* mlkem::open_tail and aead::open on a nonce and what follows it.
OpenTail(rest) ==
    IF Len(rest) < Len(Nonce) THEN Fail("Malformed")
    ELSE IF Len(rest) - Len(Nonce) < TagSize THEN Fail("Malformed")
    ELSE IF rest # Nonce \o SealedBuffer THEN Fail("Crypto")
    ELSE Fine("buffer")

\* ecdh::decrypt, with the key that the envelope is for.
OpenEcdh(t, data) ==
    IF data = <<>> \/ data[1] # 0 THEN Fail("Malformed")
    ELSE Then(ReadChunk(t, Tail(data), MaxEcdhPrefix, Len(Nonce)), LAMBDA c :
            IF c.chunk # EphemeralPkix THEN Fail("Pkix") ELSE OpenTail(c.rest))

\* mlkem::decrypt of version 1: both chunks are taken before either is read.
OpenHybrid(t, data) ==
    Then(ReadChunk(t, data, MaxKemPrefix, 0), LAMBDA x :
    Then(ReadChunk(t, x.rest, MaxKemPrefix, 0), LAMBDA m :
        IF x.chunk # EphemeralPkix THEN Fail("Pkix")
        ELSE IF m.chunk # KemText THEN Fail("Malformed")
        ELSE OpenTail(m.rest)))

\* mlkem::decrypt of version 2.
OpenPure(t, data) ==
    Then(ReadChunk(t, data, MaxKemPrefix, 0), LAMBDA m :
        IF m.chunk # KemText THEN Fail("Malformed") ELSE OpenTail(m.rest))

\* short::decrypt_short with the key of an envelope of this kind.
OpenEnvelope(t, kind, data) ==
    IF kind = "ecdh" THEN OpenEcdh(t, data)
    ELSE IF data = <<>> THEN Fail("Malformed")
    ELSE IF data[1] = 1 THEN IF kind = "hybrid" THEN OpenHybrid(t, Tail(data)) ELSE Fail("Crypto")
    ELSE IF data[1] = 2 THEN OpenPure(t, Tail(data))
    ELSE Fail("Malformed")
=============================================================================
