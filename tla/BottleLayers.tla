---------------------------- MODULE BottleLayers ----------------------------
(***************************************************************************)
(* The Bottle struct as a value: its five fields, what its message bytes   *)
(* are made of, and what happens to a bottle that is written as JSON.      *)
(*                                                                         *)
(* A byte string is a token (id) together with the two facts the library   *)
(* depends on: what the bytes, or their plaintext when they are sealed,    *)
(* decode as, and the content key they are sealed under.  The bottle that  *)
(* an encoding stands for is kept beside it, by the modules that extend    *)
(* this one, as the sequence of nested layers.                             *)
(***************************************************************************)
EXTENDS BottleKeys

CONSTANTS
    HeaderKeys,     \* names of header entries
    HeaderKinds     \* kinds of CBOR value a header entry may hold

\* What the library distinguishes in a header value.  "bigint" lies outside
\* the range of i64 and "wrapped" is what `as i64` makes of it; "text64" is a
\* text that spells bytes in base64url; "intkeys" is a map with a key that is
\* not a text.
AllHeaderKinds == {"null", "bool", "int", "bigint", "wrapped", "float", "nan",
                   "text", "bytes", "text64", "tag", "intkeys"}

ASSUME HeaderAssumption == HeaderKinds \subseteq AllHeaderKinds

-----------------------------------------------------------------------------
(* Message bytes.                                                           *)

NoKey == 0

\* "raw" bytes are no bottle at all, "short" ones are also shorter than a nonce
\* and a tag.
Encodings == {"raw", "short", "cbor", "json"}

Message == [id : Nat, enc : Encodings, key : Nat]

Plain(id, enc)     == [id |-> id, enc |-> enc, key |-> NoKey]
Sealed(id, msg, k) == [id |-> id, enc |-> msg.enc, key |-> k]

-----------------------------------------------------------------------------
(* The struct.                                                              *)

Formats == {"ClearText", "CborBottle", "Aes", "JsonBottle"}

\* Option<Vec<_>>: an absent list and an empty one are different values.
None       == [some |-> FALSE, list |-> <<>>]
Some(s)    == [some |-> TRUE, list |-> s]
OptionOf(S) == [some : BOOLEAN, list : Seq(S)]

SignatureData == [by : Keys, over : Message]
Signature     == [signer : Keys, data : SignatureData]
Envelope      == [version : Versions, cut : Cuts, ephemeral : Ephemerals,
                  ciphertext : Ciphertexts, to : Keys, holds : Nat, whole : BOOLEAN]
Slot          == [recipient : Keys, data : Envelope]
Header        == [HeaderKeys -> AllHeaderKinds \cup {"absent"}]

Layer == [header : Header, message : Message, format : Formats,
          recipients : OptionOf(Slot), signatures : OptionOf(Signature)]

NoHeader == [h \in HeaderKeys |-> "absent"]

\* Bottle::new, as_cbor_bottle and as_json_bottle differ in the format alone.
Fresh(msg, format) ==
    [header |-> NoHeader, message |-> msg, format |-> format,
     recipients |-> None, signatures |-> None]

\* Mutated: the test forgets the signatures.
IsCleanSigned(b) == b.format = "CborBottle"

\* Mutated: the test lets a nested JSON bottle pass.
IsCleanJson(b) == b.format \in {"CborBottle", "JsonBottle"} /\ b.signatures.list = <<>>

\* Bottle::is_clean_bottle.
IsClean(b) == b.format = "CborBottle" /\ b.signatures.list = <<>>

\* The signature of the bottle's message that Bottle::sign appends.
Signed(b, k) ==
    [b EXCEPT !.signatures =
        Some(Append(@.list, [signer |-> k, data |-> SignatureOver(k, b.message)]))]

\* The slot Bottle::encrypt makes for the recipient k of content key ck.
SlotFor(ck, k) == [recipient |-> k, data |-> EncryptShort(ck, k)]

-----------------------------------------------------------------------------
(* JSON, where a bottle does not come back as it went.                      *)

\* cbor_value_to_json followed by json_to_cbor_value.
JsonKind(v) ==
    CASE v = "bytes"         -> "text64"
      [] v = "bigint"        -> "wrapped"
      [] v \in {"nan", "tag"} -> "null"
      [] OTHER               -> v

\* header_to_json has an error for a nested map with a key that is not a text.
JsonEncodable(b) == \A h \in HeaderKeys : b.header[h] # "intkeys"

\* An empty list is left out by bottle_to_json, so it is read back as absent.
JsonOption(o) == IF o.list = <<>> THEN None ELSE o

\* Mutated: the header is not written.
JsonTripBare(b) ==
    [b EXCEPT !.header = NoHeader, !.recipients = JsonOption(@), !.signatures = JsonOption(@)]

\* bottle_to_json followed by bottle_from_json.
JsonTrip(b) ==
    [header     |-> [h \in HeaderKeys |-> JsonKind(b.header[h])],
     message    |-> b.message,
     format     |-> b.format,
     recipients |-> JsonOption(b.recipients),
     signatures |-> JsonOption(b.signatures)]

\* The nested bottle that a message holding it, encoded as enc, decodes to: the
\* CBOR form loses nothing.  Bytes of another shape, which Bottle::from_value and
\* bottle_from_json refuse, are no bottle and have another encoding than these.
DecodedFrom(enc, b) == IF enc = "json" THEN JsonTrip(b) ELSE b
=============================================================================
