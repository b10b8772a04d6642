---------------------------- MODULE OpenVerdict -----------------------------
(***************************************************************************)
(* The one answer to a call of Opener::open, given the bottle and the keys *)
(* of the keychain: it is decided by the first layer that ends the call.   *)
(***************************************************************************)
EXTENDS OpenResult, FiniteSets

\* The first and the last of a set of indices.
FirstOf(S) == CHOOSE i \in S : \A j \in S : i <= j
LastOf(S)  == CHOOSE i \in S : \A j \in S : j <= i

-----------------------------------------------------------------------------

\* The layers as the opener decodes them, outermost first.
Decoded(b) ==
    [i \in 1 .. Len(b.nested) + 1 |->
        IF i = 1 THEN b.bottle
        ELSE LET outer == IF i = 2 THEN b.bottle ELSE b.nested[i - 2]
             IN  DecodedFrom(outer.message.enc, b.nested[i - 1])]

\* Verification stops at the first signature that does not verify.
Failing(l) ==
    {i \in DOMAIN l.signatures.list :
        ~Verifies(l.signatures.list[i].signer, l.message, l.signatures.list[i].data)}

SignaturesError(l) ==
    LET sig == l.signatures.list[FirstOf(Failing(l))]
    IN  IF Failing(l) = {} THEN "none" ELSE VerifyError(sig.signer, l.message, sig.data)

\* The slots that name a held key, and those of them it opens to a full key.  A
\* slot names a key by the bytes under which the keychain has it (opener.rs:122);
\* canonical_recipient_pkix (opener.rs:138-145), "used when matching keychain
\* entries that were parsed from a different but equivalent encoding" by its
\* comment, is called by nothing, so that an equivalent encoding names no key.
Tried(l, keys) ==
    {i \in DOMAIN l.recipients.list : l.recipients.list[i].recipient \in keys}

Yielding(l, keys) ==
    {i \in Tried(l, keys) : LET slot == l.recipients.list[i]
                            IN  Opens(slot.data, slot.recipient) /\ slot.data.whole}

\* The first slot that yields a key decides; without one the error is that of
\* the last slot that was tried.
SlotsError(l, keys) ==
    LET last == l.recipients.list[LastOf(Tried(l, keys))]
    IN  IF Yielding(l, keys) # {} THEN "none"
        ELSE IF Tried(l, keys) = {} THEN "NoAppropriateKey"
        ELSE IF Opens(last.data, last.recipient) THEN "Crypto"
        ELSE DecryptError(last.data, last.recipient)

SealError(l, keys) ==
    LET key == l.recipients.list[FirstOf(Yielding(l, keys))].data.holds
    IN  IF SlotsError(l, keys) # "none" THEN SlotsError(l, keys)
        ELSE IF l.message.key = NoKey /\ l.message.enc = "short" THEN "Malformed"
        ELSE IF l.message.key = NoKey \/ l.message.key # key THEN "Crypto"
        ELSE IF l.message.enc # "cbor" THEN "Cbor"
        ELSE "none"

\* The error in which layer l ends the call, if any.
LayerError(l, keys) ==
    IF SignaturesError(l) # "none" THEN SignaturesError(l)
    ELSE IF l.format = "ClearText" THEN "none"
    ELSE IF l.format = "CborBottle" /\ (l.message.enc # "cbor" \/ l.message.key # NoKey) THEN "Cbor"
    ELSE IF l.format = "JsonBottle" /\ (l.message.enc # "json" \/ l.message.key # NoKey) THEN "Json"
    ELSE IF l.format = "Aes" THEN SealError(l, keys)
    ELSE "none"

Ends(l, keys) == l.format = "ClearText" \/ LayerError(l, keys) # "none"

\* The signatures of the first n layers, in the order they are verified, for each n.
Joined(layers) ==
    LET upto[n \in 0 .. Len(layers)] ==
            IF n = 0 THEN <<>> ELSE upto[n - 1] \o layers[n].signatures.list
    IN  upto

SealedLayers(layers, n) == {i \in 1 .. n : layers[i].format = "Aes"}

\* The answer when layer number n is the one that ends the call.
AnswerAt(layers, n, keys) ==
    IF LayerError(layers[n], keys) # "none"
    THEN Failure(LayerError(layers[n], keys))
    ELSE [error      |-> "none",
          payload    |-> layers[n].message,
          decryption |-> Cardinality(SealedLayers(layers, n)),
          signatures |-> Joined(layers)[n],
          bottles    |-> SubSeq(layers, 1, n)]

\* The answer to the call.
Verdict(b, keys) ==
    LET layers == Decoded(b)
    IN  AnswerAt(layers, FirstOf({n \in DOMAIN layers : Ends(layers[n], keys)}), keys)
=============================================================================
