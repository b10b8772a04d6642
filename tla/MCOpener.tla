------------------------------ MODULE MCOpener ------------------------------
(***************************************************************************)
(* Opener for TLC, on bottles that no well-behaved writer made: signatures *)
(* over other bytes or by keys that cannot sign, slots of the wrong shape, *)
(* messages that are not what the format says, in chains of three layers.  *)
(***************************************************************************)
EXTENDS Opener

MCKeys == {"ed", "kem", "hyb", "bad"}

MCAlgorithm ==
    [k \in MCKeys |-> CASE k = "ed"  -> "Ed25519"
                        [] k = "kem" -> "MlKem"
                        [] k = "hyb" -> "MlKemHybrid1024"
                        [] k = "bad" -> "Unparsable"]

MCHeaderKinds == {"text"}

\* Lists of signatures a layer with message m may carry.
Good(m)   == [signer |-> "ed", data |-> SignatureOver("ed", m)]
Forged    == [signer |-> "ed", data |-> SignatureOver("ed", Plain(99, "raw"))]
ByKem(m)  == [signer |-> "kem", data |-> SignatureOver("kem", m)]
ByBad(m)  == [signer |-> "bad", data |-> SignatureOver("bad", m)]

SignatureLists(m) ==
    {None, Some(<<>>), Some(<<Good(m)>>), Some(<<Good(m), Forged>>),
     Some(<<ByKem(m)>>), Some(<<Forged, ByBad(m)>>), Some(<<ByBad(m)>>)}

\* Lists of slots a layer sealed under ck may carry.
Slots(ck) ==
    {SlotFor(ck, "ed"), SlotFor(ck, "kem"), SlotFor(ck, "hyb"),
     [recipient |-> "ed", data |-> EncryptShort(ck, "kem")],
     [recipient |-> "kem", data |-> [EncryptShort(ck, "kem") EXCEPT !.whole = FALSE]],
     SlotFor(ck + 1, "ed"),
     [recipient |-> "bad", data |-> EncryptShort(ck, "ed")]}

\* Envelopes that were cut, or built with a part that is not the recipient's,
\* for each framing; the last is sound, in the framing a hybrid key also reads.
Cut(e, where)      == [e EXCEPT !.cut = where]
Ephemeral(e, eph)  == [e EXCEPT !.ephemeral = eph]
Ciphertext(e, len) == [e EXCEPT !.ciphertext = len]

Odd(ck, k) ==
    LET e == EncryptShort(ck, k)
    IN  CASE k = "ed"  -> {Cut(e, "nonce"), Cut(e, "tag"), Ephemeral(e, "none"),
                           Ephemeral(e, "weak"), Ephemeral(e, "P256")}
          [] k = "kem" -> {Cut(e, "chunk"), Cut(e, "tag"), Ciphertext(e, "1024"),
                           [e EXCEPT !.version = "hybrid"], [e EXCEPT !.version = "none"]}
          [] k = "hyb" -> {Cut(e, "chunk"), Cut(e, "nonce"), Ephemeral(e, "none"),
                           Ephemeral(e, "other"), Ephemeral(e, "weak"),
                           Ciphertext(e, "768"), [e EXCEPT !.version = "pure"]}

OddSlots(ck) ==
    UNION {{[recipient |-> k, data |-> e] : e \in Odd(ck, k)} : k \in {"ed", "kem", "hyb"}}

SlotLists(ck) ==
    {None, Some(<<>>)} \cup {Some(<<s>>) : s \in Slots(ck) \cup OddSlots(ck)}
        \cup {Some(<<s, t>>) : s, t \in Slots(ck)}
        \cup {Some(<<s, SlotFor(ck, "ed")>>) : s \in OddSlots(ck)}

Struct(m, f, r, s) ==
    [header |-> NoHeader, message |-> m, format |-> f, recipients |-> r, signatures |-> s]

\* Layers number d of a chain whose message holds a bottle.
Clear(d) ==
    UNION {{Struct(Plain(d, e), f, None, s) :
               f \in {"CborBottle", "JsonBottle"},
               s \in {None, Some(<<Good(Plain(d, e))>>), Some(<<Forged>>)}} :
              e \in {"cbor", "json"}}

SealedAt(d, e) == [id |-> d, enc |-> e, key |-> d]

Encrypted(d, lists) == {Struct(SealedAt(d, "cbor"), "Aes", r, None) : r \in lists}

\* Sealed messages in layers that do not say so, and sealed JSON.
Mislabelled(d) ==
    {Struct(SealedAt(d, "cbor"), f, Some(<<SlotFor(d, "ed")>>), None) :
        f \in {"CborBottle", "JsonBottle", "ClearText"}}
    \cup {Struct(SealedAt(d, "json"), "Aes", Some(<<SlotFor(d, "ed")>>), None)}

Outer == Clear(1) \cup Encrypted(1, SlotLists(1)) \cup Mislabelled(1)

Middle == Clear(2) \cup Encrypted(2, {Some(<<s>>) : s \in Slots(2)})

Innermost(d) ==
    UNION {{Struct(m, f, None, s) : f \in Formats, s \in SignatureLists(m)} :
              m \in {Plain(d, "raw"), Plain(d, "short")}}
    \cup {Struct(m, "Aes", Some(<<SlotFor(d, "ed")>>), None) :
             m \in {Plain(d, "raw"), Plain(d, "short"), SealedAt(d, "raw")}}

\* The innermost layers that long chains end in.
Payloads(d) ==
    LET m == Plain(d, "raw")
    IN  {Struct(m, "ClearText", None, s) : s \in {None, Some(<<Good(m)>>), Some(<<Forged>>)}}

MCInbox ==
    {[bottle |-> x, nested |-> <<>>] : x \in Innermost(1)}
    \cup {[bottle |-> x, nested |-> <<y>>] : x \in Outer, y \in Payloads(2)}
    \cup {[bottle |-> x, nested |-> <<y>>] : x \in Clear(1), y \in Innermost(2)}
    \cup {[bottle |-> x, nested |-> <<y, z>>] :
             x \in Outer, y \in Middle, z \in Payloads(3)}
=============================================================================
