------------------------------- MODULE Bottle -------------------------------
(***************************************************************************)
(* The write side of the library: a caller holds one Bottle and calls the  *)
(* operations of bottle.rs and seal.rs on it, in any order, failing calls  *)
(* included.                                                               *)
(*                                                                         *)
(* bottle is the struct the caller holds, nested the layers encoded inside *)
(* its message, outermost first.  Every operation that makes new bytes     *)
(* takes a token of its own, so that two byte strings are equal exactly    *)
(* when they are the same encoding.                                        *)
(***************************************************************************)
EXTENDS BottleLayers

CONSTANTS
    MaxLayers,      \* bound: layers of a bottle, the outermost included
    MaxSignatures,  \* bound: signatures of one layer
    MaxRecipients,  \* bound: recipients of one encrypt call
    MaxMinted       \* bound: tokens spent on messages and content keys

ASSUME BoundAssumption ==
    {MaxLayers, MaxSignatures, MaxRecipients, MaxMinted} \subseteq Nat

VARIABLES
    bottle,     \* the Bottle the caller holds
    nested,     \* the layers inside its message, outermost first
    minted,     \* the number of tokens spent so far
    result      \* what the last call returned: "ok" or the kind of its error

vars == <<bottle, nested, minted, result>>

Results == {"ok", "UnsupportedKey", "EncryptNoRecipient", "NotABottle", "Json"}

\* Every layer of the bottle, and every sequence of recipients a caller passes.
Layers         == {bottle} \cup {nested[i] : i \in DOMAIN nested}
RecipientLists == UNION {[1 .. n -> PublicKeys] : n \in 0 .. MaxRecipients}

-----------------------------------------------------------------------------

\* The bounds, as a guard: room for so many more layers and tokens.
RoomFor(layers, tokens) ==
    Len(nested) + layers < MaxLayers /\ minted + tokens <= MaxMinted

\* A bottle wrapping the encoding of the current one.
Wrapper(format, enc) == Fresh(Plain(minted + 1, enc), format)

\* Bottle::new, or the same bottle decoded from an encoding that writes its
\* lists as [] and not as null.
Init ==
    /\ \E o \in {None, Some(<<>>)} :
          bottle = [Fresh(Plain(1, "raw"), "ClearText")
                        EXCEPT !.recipients = o, !.signatures = o]
    /\ nested = <<>>
    /\ minted = 1
    /\ result = "ok"

WithHeader(h, v) ==
    /\ bottle' = [bottle EXCEPT !.header[h] = v]
    /\ result' = "ok"
    /\ UNCHANGED <<nested, minted>>

\* Replaces the bottle by one whose message is its encoding.
Wrap(format, enc) ==
    /\ RoomFor(1, 1)
    /\ bottle' = Wrapper(format, enc)
    /\ nested' = <<bottle>> \o nested
    /\ minted' = minted + 1

BottleUp ==
    /\ Wrap("CborBottle", "cbor")
    /\ result' = "ok"

\* Bottle::as_json_bottle over the to_json of the current bottle.
AsJsonBottle ==
    /\ JsonEncodable(bottle)
    /\ Wrap("JsonBottle", "json")
    /\ result' = "ok"

\* The bottle written with to_json and read back with from_json.
ViaJson ==
    /\ JsonEncodable(bottle)
    /\ bottle' = JsonTrip(bottle)
    /\ result' = "ok"
    /\ UNCHANGED <<nested, minted>>

ToJsonFails ==
    /\ ~JsonEncodable(bottle)
    /\ result' = "Json"
    /\ UNCHANGED <<bottle, nested, minted>>

\* Mutated: an encrypted bottle is read as a nested one.
ChildOfAny ==
    /\ bottle.format # "ClearText"
    /\ bottle' = DecodedFrom(bottle.message.enc, Head(nested))
    /\ nested' = Tail(nested)
    /\ result' = "ok"
    /\ UNCHANGED minted

\* The caller goes on with the child of the bottle.
Child ==
    /\ bottle.format \in {"CborBottle", "JsonBottle"}
    /\ bottle' = DecodedFrom(bottle.message.enc, Head(nested))
    /\ nested' = Tail(nested)
    /\ result' = "ok"
    /\ UNCHANGED minted

ChildFails ==
    /\ bottle.format \in {"ClearText", "Aes"}
    /\ result' = "NotABottle"
    /\ UNCHANGED <<bottle, nested, minted>>
-----------------------------------------------------------------------------
(* Bottle::sign bottles up a bottle that carries a header, then signs; a    *)
(* key that cannot sign is refused only after that.                         *)

SignAs(b, k) ==
    \/ /\ SignSupported(k)
       /\ Len(b.signatures.list) < MaxSignatures
       /\ bottle' = Signed(b, k)
       /\ result' = "ok"
    \/ /\ ~SignSupported(k)
       /\ bottle' = b
       /\ result' = "UnsupportedKey"

\* Mutated: the bottle is signed as it is, header values and all.
SignUncovered(k) ==
    /\ SignAs(bottle, k)
    /\ UNCHANGED <<nested, minted>>

Sign(k) ==
    \/ /\ bottle.header = NoHeader
       /\ SignAs(bottle, k)
       /\ UNCHANGED <<nested, minted>>
    \/ /\ bottle.header # NoHeader
       /\ RoomFor(1, 1)
       /\ SignAs(Wrapper("CborBottle", "cbor"), k)
       /\ nested' = <<bottle>> \o nested
       /\ minted' = minted + 1
-----------------------------------------------------------------------------
(* Bottle::encrypt bottles up a bottle that is not a clean nested bottle,   *)
(* then seals it under a content key of its own.  Recipients are tried in   *)
(* order and the first that cannot receive ends the call.                   *)

\* Mutated: an empty list of recipients is not refused.
EncryptionErrorNoEmptyCheck(rs) ==
    IF \E i \in DOMAIN rs : ~CanReceive(rs[i]) THEN "UnsupportedKey" ELSE "ok"

\* Mutated: recipients are not asked whether they can receive.
EncryptionErrorUnchecked(rs) == IF rs = <<>> THEN "EncryptNoRecipient" ELSE "ok"

EncryptionError(rs) ==
    IF \E i \in DOMAIN rs : ~CanReceive(rs[i]) THEN "UnsupportedKey"
    ELSE IF rs = <<>> THEN "EncryptNoRecipient"
    ELSE "ok"

\* Mutated: the slots are made for a key other than the one sealed with.
SealedBottleStaleKey(b, t, rs) ==
    [header     |-> NoHeader,
     message    |-> Sealed(t, b.message, t),
     format     |-> "Aes",
     recipients |-> Some([i \in 1 .. Len(rs) |-> SlotFor(t - 1, rs[i])]),
     signatures |-> b.signatures]

SealedBottle(b, t, rs) ==
    [header     |-> NoHeader,
     message    |-> Sealed(t, b.message, t),
     format     |-> "Aes",
     recipients |-> Some([i \in 1 .. Len(rs) |-> SlotFor(t, rs[i])]),
     signatures |-> b.signatures]

\* Mutated: the struct is written before the recipients have been tried.
EncryptAsEager(b, n, rs) ==
    /\ result' = EncryptionError(rs)
    /\ bottle' = SealedBottle(b, n + 1, rs)
    /\ minted' = n + 1

\* b is the bottle once bottled up, n the tokens that has taken.
EncryptAs(b, n, rs) ==
    /\ result' = EncryptionError(rs)
    /\ \/ /\ EncryptionError(rs) = "ok"
          /\ bottle' = SealedBottle(b, n + 1, rs)
          /\ minted' = n + 1
       \/ /\ EncryptionError(rs) # "ok"
          /\ bottle' = b
          /\ minted' = n

Encrypt(rs) ==
    \/ /\ IsClean(bottle)
       /\ RoomFor(0, 1)
       /\ EncryptAs(bottle, minted, rs)
       /\ UNCHANGED nested
    \/ /\ ~IsClean(bottle)
       /\ RoomFor(1, 2)
       /\ EncryptAs(Wrapper("CborBottle", "cbor"), minted + 1, rs)
       /\ nested' = <<bottle>> \o nested
-----------------------------------------------------------------------------

Next ==
    \/ \E h \in HeaderKeys, v \in HeaderKinds : WithHeader(h, v)
    \/ BottleUp
    \/ AsJsonBottle
    \/ ViaJson
    \/ ToJsonFails
    \/ Child
    \/ ChildFails
    \/ \E k \in PrivateKeys : Sign(k)
    \/ \E rs \in RecipientLists : Encrypt(rs)

Spec == Init /\ [][Next]_vars
-----------------------------------------------------------------------------
(* Properties.                                                              *)

TypeOK ==
    /\ bottle \in Layer
    /\ nested \in Seq(Layer)
    /\ minted \in Nat
    /\ result \in Results

\* Whatever was called in whatever order, every signature on every layer
\* verifies over the message that layer has now: encrypt replaces a message
\* only where no signature is (seal.rs:16, bottle.rs:331).
CoveredBySignatures(b) ==
    \A i \in DOMAIN b.signatures.list :
        Verifies(b.signatures.list[i].signer, b.message, b.signatures.list[i].data)

SignaturesCoverMessages == \A b \in Layers : CoveredBySignatures(b)

\* An encrypted layer has a recipient, and every slot of it yields, to the key
\* the slot names, the full content key the message is sealed under.
OpenableBySlots(b) ==
    b.format = "Aes" =>
        /\ b.recipients.list # <<>>
        /\ b.message.key # NoKey
        /\ \A i \in DOMAIN b.recipients.list :
              LET slot == b.recipients.list[i]
              IN  /\ Opens(slot.data, slot.recipient)
                  /\ slot.data.holds = b.message.key
                  /\ slot.data.whole

SealedForRecipients == \A b \in Layers : OpenableBySlots(b)

\* The format of every layer tells how its message decodes: the innermost layer
\* alone is clear text, and what is sealed is always the CBOR form, the only
\* one opener.rs:96 reads, even when a JSON bottle was encrypted.
DecodesByFormat(b) ==
    /\ b.format = "ClearText"  => b.message.enc = "raw"
    /\ b.format = "CborBottle" => b.message.enc = "cbor" /\ b.message.key = NoKey
    /\ b.format = "JsonBottle" => b.message.enc = "json" /\ b.message.key = NoKey
    /\ b.format = "Aes"        => b.message.enc = "cbor"

LayersDecode ==
    /\ \A b \in Layers : DecodesByFormat(b)
    /\ (bottle.format = "ClearText") <=> (nested = <<>>)
    /\ \A i \in DOMAIN nested :
          (nested[i].format = "ClearText") <=> (i = Len(nested))

\* A bottle that a call has just signed or encrypted shows nothing that the call
\* left unprotected: no header outside a signature, and neither a header nor a
\* signature of the plaintext outside an encryption (seal.rs:16, 48, 58).
Protected ==
    /\ (\E k \in PrivateKeys : Sign(k)) /\ result' = "ok"
          => bottle'.header = NoHeader
    /\ (\E rs \in RecipientLists : Encrypt(rs)) /\ result' = "ok"
          => /\ bottle'.header = NoHeader
             /\ bottle'.signatures.list = <<>>

ProtectionCoversBottle == [][Protected]_vars

\* Only child lets go of a layer or of a signature, and only child and the
\* sealing of a clean bottle let go of a header value: any other call leaves the
\* bottle whole inside the new one, or only adds to it.  Sealing a clean bottle
\* keeps what is nested in it but drops its own header (seal.rs:48), which
\* HeaderSurvivesEncrypt is about.
Extends(old, new) ==
    /\ new.message = old.message
    /\ new.format = old.format
    /\ \A i \in DOMAIN old.signatures.list :
          /\ i \in DOMAIN new.signatures.list
          /\ new.signatures.list[i] = old.signatures.list[i]
    /\ \A h \in HeaderKeys : old.header[h] # "absent" => new.header[h] # "absent"

SealsClean ==
    /\ \E rs \in RecipientLists : Encrypt(rs)
    /\ IsClean(bottle)
    /\ nested' = nested
    /\ bottle'.format = "Aes" /\ bottle'.message.enc = bottle.message.enc

KeepsLayers ==
    \/ nested' = <<bottle>> \o nested
    \/ nested' = nested /\ Extends(bottle, bottle')
    \/ SealsClean

NoLayerLost == [][Child \/ KeepsLayers]_vars

\* A call that fails has at most bottled the bottle up; the caller who goes on
\* with it has everything that was there (seal.rs:16-42, 58-63).
FailureAtMostBottlesUp ==
    [][result' # "ok" =>
          \/ UNCHANGED <<bottle, nested>>
          \/ /\ bottle' = Wrapper("CborBottle", "cbor")
             /\ nested' = <<bottle>> \o nested]_vars

\* What tests/json.rs:18 says of the round trip through JSON: it must preserve
\* all fields, and so the values of the header.
HeaderSurvivesJson == [][ViaJson => bottle'.header = bottle.header]_vars

\* What bottle.rs:135 says of header values: they are left unprotected unless
\* the bottle is bottled up, so encrypting one must not make them disappear.
HeaderSurvives ==
    \A rs \in RecipientLists, h \in HeaderKeys :
        Encrypt(rs) /\ bottle.header[h] # "absent"
            => \E b \in Layers' : b.header[h] = bottle.header[h]

HeaderSurvivesEncrypt == [][HeaderSurvives]_vars
=============================================================================
