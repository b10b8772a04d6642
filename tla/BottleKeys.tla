----------------------------- MODULE BottleKeys -----------------------------
(***************************************************************************)
(* Keys, signatures and short envelopes: what sign.rs, short.rs, ecdh.rs   *)
(* and mlkem.rs decide from the kind of key they are given.                *)
(*                                                                         *)
(* A key is named by the PKIX byte string that identifies it everywhere in *)
(* the library.  The cryptography is ideal: a signature verifies under the *)
(* key and over the bytes it was made for and no others, and an envelope   *)
(* opens with the private key it was made for and no other.                *)
(***************************************************************************)
EXTENDS Integers, Sequences

CONSTANTS
    Keys,       \* PKIX byte strings met as signers, recipients or keychain keys
    Algorithm   \* the kind of key each of them parses to

\* The variants of PublicKey.  "EcdsaOther" is a curve other than P-256, which
\* only a public key can be on; "Unparsable" is a byte string that
\* pkix::parse_public_key refuses; an ML-KEM name without a number is of the
\* parameter set 768.  ML-DSA-44, -65 and -87 behave alike here.
HybridKinds == {"MlKemHybrid", "MlKemHybrid1024"}
KemKinds    == HybridKinds \cup {"MlKem", "MlKem1024"}
Algorithms  == KemKinds \cup {"Rsa", "Ecdsa", "EcdsaOther", "Ed25519", "X25519",
                              "MlDsa", "SlhDsa", "Unparsable"}

ASSUME AlgorithmAssumption == Algorithm \in [Keys -> Algorithms]

PublicKeys  == {k \in Keys : Algorithm[k] # "Unparsable"}
PrivateKeys == {k \in PublicKeys : Algorithm[k] # "EcdsaOther"}

-----------------------------------------------------------------------------
(* Signatures.  The data of a signature is the pair of the key that made it *)
(* and the bytes it was made over.                                          *)

\* PrivateKey::can_sign, the keychain's test for a default signer.
CanSign(k) == Algorithm[k] \notin KemKinds \cup {"X25519"}

\* The kinds sign::sign has an arm for: the post-quantum ones, then the rest.
SignSupported(k) ==
    \/ Algorithm[k] \in {"MlDsa", "SlhDsa"}
    \/ Algorithm[k] \in {"Rsa", "Ecdsa", "Ed25519"}

\* The kinds sign::verify has an arm for: a public ECDSA key may be on any curve.
VerifySupported(k) ==
    \/ Algorithm[k] \in {"MlDsa", "SlhDsa"}
    \/ Algorithm[k] \in {"Rsa", "Ecdsa", "EcdsaOther", "Ed25519"}

SignatureOver(k, msg) == [by |-> k, over |-> msg]

\* sign::verify_pkix: the signer must parse, must be a kind that verifies,
\* and the signature must be its own over exactly msg.  "Pkix" stands for every
\* error of the parse.
VerifyError(signer, msg, data) ==
    IF signer \notin PublicKeys THEN "Pkix"
    ELSE IF ~VerifySupported(signer) THEN "UnsupportedKey"
    ELSE IF data # SignatureOver(signer, msg) THEN "VerifyFailed"
    ELSE "none"

Verifies(signer, msg, data) == VerifyError(signer, msg, data) = "none"

-----------------------------------------------------------------------------
(* Short envelopes: a small buffer (here a content key) for one recipient.  *)

\* How the bytes of an envelope begin: a version byte of ecdh.rs or mlkem.rs,
\* or, for an OAEP ciphertext and for junk, no version byte at all.
Versions == {"oaep", "ecdh", "hybrid", "pure", "none"}

\* Where an envelope was cut short: inside a length prefix or what it counts,
\* inside the nonce, or inside the tag behind it.
Cuts == {"chunk", "nonce", "tag", "none"}

\* The embedded ephemeral key: a P-256 or an X25519 one, an X25519 one of low
\* order that no agreement accepts, a key of another kind, or bytes that are no
\* public key.
Ephemerals == {"P256", "X25519", "weak", "other", "none"}

\* The embedded ML-KEM ciphertext, by the parameter set whose length it has.
Ciphertexts == {"768", "1024", "none"}

\* The ephemeral curve that a recipient of each kind agrees on.
CurveOf(k) ==
    CASE Algorithm[k] = "Ecdsa" -> "P256"
      [] Algorithm[k] \in {"Ed25519", "X25519"} \cup HybridKinds -> "X25519"
      [] OTHER -> "none"

CiphertextOf(k) ==
    CASE Algorithm[k] \in {"MlKem", "MlKemHybrid"} -> "768"
      [] Algorithm[k] \in {"MlKem1024", "MlKemHybrid1024"} -> "1024"
      [] OTHER -> "none"

\* The framing short::encrypt_short chooses, "refused" when it refuses the key.
VersionFor(k) ==
    CASE Algorithm[k] = "Rsa" -> "oaep"
      [] Algorithm[k] \in {"Ecdsa", "Ed25519", "X25519"} -> "ecdh"
      [] Algorithm[k] \in HybridKinds -> "hybrid"
      [] Algorithm[k] \in KemKinds \ HybridKinds -> "pure"
      [] OTHER -> "refused"

CanReceive(k) == VersionFor(k) # "refused"

\* An envelope for k holding ck.  whole: the buffer is a full 32-byte key.
EncryptShort(ck, k) ==
    [version    |-> VersionFor(k),
     cut        |-> "none",
     ephemeral  |-> CurveOf(k),
     ciphertext |-> CiphertextOf(k),
     to         |-> k,
     holds      |-> ck,
     whole      |-> TRUE]

\* aead::open behind a framing: a cut in what is left of it, then the tag.
TailError(e, k, cuts) ==
    IF e.cut \in cuts THEN "Malformed" ELSE IF e.to # k THEN "Crypto" ELSE "none"

\* ecdh::decrypt: the framing, the ephemeral key, the (private, ephemeral) pair,
\* the agreement, then what it was to decrypt.
EcdhError(e, k) ==
    IF e.version # "ecdh" \/ e.cut \in {"chunk", "nonce"} THEN "Malformed"
    ELSE IF e.ephemeral = "none" THEN "Pkix"
    ELSE IF CurveOf(k) = "X25519" /\ e.ephemeral = "weak" THEN "Crypto"
    ELSE IF CurveOf(k) # e.ephemeral THEN "UnsupportedKey"
    ELSE TailError(e, k, {"tag"})

\* The hybrid arm of mlkem::decrypt up to the decapsulation: it needs a hybrid
\* key, both chunks, and an X25519 key in the first that agrees.
HybridError(e, k) ==
    IF Algorithm[k] \notin HybridKinds THEN "Crypto"
    ELSE IF e.cut = "chunk" THEN "Malformed"
    ELSE IF e.ephemeral = "none" THEN "Pkix"
    ELSE IF e.ephemeral \notin {"X25519", "weak"} THEN "Malformed"
    ELSE IF e.ephemeral = "weak" THEN "Crypto"
    ELSE "none"

\* mlkem::decrypt.  Decapsulation refuses a ciphertext of another length, and of
\* one made for another key it makes a secret that fails at the tag.
KemError(e, k) ==
    IF e.version \notin {"hybrid", "pure"} THEN "Malformed"
    ELSE IF e.version = "hybrid" /\ HybridError(e, k) # "none" THEN HybridError(e, k)
    ELSE IF e.cut = "chunk" \/ e.ciphertext # CiphertextOf(k) THEN "Malformed"
    ELSE TailError(e, k, {"nonce", "tag"})

OaepError(e, k) ==
    IF e.version = "oaep" /\ e.cut = "none" /\ e.to = k THEN "none" ELSE "Crypto"

\* short::decrypt_short with the private key k: the error, or "none" and the
\* caller reads e.holds.
DecryptError(e, k) ==
    CASE Algorithm[k] = "Rsa" -> OaepError(e, k)
      [] Algorithm[k] \in KemKinds -> KemError(e, k)
      [] OTHER -> EcdhError(e, k)

Opens(e, k) == DecryptError(e, k) = "none"
=============================================================================
