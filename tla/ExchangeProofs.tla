--------------------------- MODULE ExchangeProofs ---------------------------
(***************************************************************************)
(* Proofs about Exchange, for every set of keys, every assignment of kinds *)
(* to them, every header and every bound: the proofs of the write side and *)
(* of the read side compose.  What the writer's invariant says of a bottle *)
(* decides the verdict on it, and the reader's answer is the verdict.      *)
(***************************************************************************)
EXTENDS Exchange, LayerProofs

WP == INSTANCE BottleProofs WITH bottle <- draft, nested <- packed
RP == INSTANCE OpenerProofs WITH Inbox <- {}

-----------------------------------------------------------------------------
(* What both sides assume holds here, and they speak of the same things.    *)

LEMMA WriterAssumptions ==
    /\ Algorithm \in [Keys -> WP!Algorithms]
    /\ HeaderKinds \subseteq WP!AllHeaderKinds
    /\ {MaxLayers, MaxSignatures, MaxRecipients, MaxMinted} \subseteq Nat
  BY AlgorithmAssumption, HeaderAssumption, BoundAssumption
     DEF WP!Algorithms, Algorithms, WP!KemKinds, KemKinds,
         WP!HybridKinds, HybridKinds, WP!AllHeaderKinds, AllHeaderKinds

LEMMA ReaderAssumptions ==
    /\ Algorithm \in [Keys -> RP!Algorithms]
    /\ HeaderKinds \subseteq RP!AllHeaderKinds
    /\ {} \subseteq RP!Box \ {RP!NoBox}
  BY AlgorithmAssumption, HeaderAssumption
     DEF RP!Algorithms, Algorithms, RP!KemKinds, KemKinds,
         RP!HybridKinds, HybridKinds, RP!AllHeaderKinds, AllHeaderKinds

LEMMA SameVerdict ==
    /\ \A b, keys : RP!Verdict(b, keys) = Verdict(b, keys)
    /\ RP!Box = Box
<1>1. \A s, m, d : RP!VerifyError(s, m, d) = VerifyError(s, m, d)
  BY DEF RP!VerifyError, VerifyError, RP!PublicKeys, PublicKeys,
         RP!VerifySupported, VerifySupported, RP!SignatureOver, SignatureOver
<1>2. \A S : RP!FirstOf(S) = FirstOf(S) /\ RP!LastOf(S) = LastOf(S)
  BY DEF RP!FirstOf, FirstOf, RP!LastOf, LastOf
<1>3. \A l : RP!Failing(l) = Failing(l)
  BY <1>1 DEF RP!Failing, Failing, RP!Verifies, Verifies
<1>4. \A l : RP!SignaturesError(l) = SignaturesError(l)
  BY <1>1, <1>2, <1>3 DEF RP!SignaturesError, SignaturesError
<1>5. \A e, k : RP!DecryptError(e, k) = DecryptError(e, k)
  BY DEF RP!DecryptError, DecryptError, RP!OaepError, OaepError,
         RP!KemError, KemError, RP!HybridError, HybridError,
         RP!EcdhError, EcdhError, RP!TailError, TailError,
         RP!CurveOf, CurveOf, RP!CiphertextOf, CiphertextOf,
         RP!HybridKinds, HybridKinds, RP!KemKinds, KemKinds
<1>6. \A l, keys : /\ RP!Tried(l, keys) = Tried(l, keys)
                   /\ RP!Yielding(l, keys) = Yielding(l, keys)
  BY <1>5 DEF RP!Tried, Tried, RP!Yielding, Yielding, RP!Opens, Opens
<1>7. \A l, keys : RP!SlotsError(l, keys) = SlotsError(l, keys)
  BY <1>2, <1>5, <1>6 DEF RP!SlotsError, SlotsError, RP!Opens, Opens
<1>8. \A l, keys : RP!SealError(l, keys) = SealError(l, keys)
  BY <1>2, <1>6, <1>7 DEF RP!SealError, SealError, RP!NoKey, NoKey
<1>9. \A l, keys : RP!LayerError(l, keys) = LayerError(l, keys)
  BY <1>4, <1>8 DEF RP!LayerError, LayerError, RP!NoKey, NoKey
<1>10. \A l, keys : RP!Ends(l, keys) = Ends(l, keys)
  BY <1>9 DEF RP!Ends, Ends
<1>11. \A enc, b : RP!DecodedFrom(enc, b) = DecodedFrom(enc, b)
  BY DEF RP!DecodedFrom, DecodedFrom, RP!JsonTrip, JsonTrip,
         RP!JsonKind, JsonKind, RP!JsonOption, JsonOption, RP!None, None
<1>12. \A b : RP!Decoded(b) = Decoded(b)
  BY <1>11 DEF RP!Decoded, Decoded
<1>13. \A L : RP!Joined(L) = Joined(L)
  BY Zenon DEF RP!Joined, Joined
<1>14. \A L, n : RP!SealedLayers(L, n) = SealedLayers(L, n)
  BY DEF RP!SealedLayers, SealedLayers
<1>15. \A S : RP!Cardinality(S) = Cardinality(S)
  BY Zenon DEF RP!Cardinality, Cardinality
<1>16. \A e : RP!Failure(e) = Failure(e)
  BY DEF RP!Failure, Failure, RP!Plain, Plain, RP!NoKey, NoKey
<1>17. \A L, n, keys : RP!AnswerAt(L, n, keys) = AnswerAt(L, n, keys)
  BY <1>9, <1>13, <1>14, <1>15, <1>16 DEF RP!AnswerAt, AnswerAt
<1>18. \A b, keys : RP!Verdict(b, keys) = Verdict(b, keys)
  BY <1>2, <1>10, <1>12, <1>17 DEF RP!Verdict, Verdict
<1>19. RP!Layer = Layer
  BY DEF RP!Layer, Layer, RP!Header, Header, RP!AllHeaderKinds, AllHeaderKinds,
         RP!Message, Message, RP!Encodings, Encodings, RP!Formats, Formats,
         RP!OptionOf, OptionOf, RP!Slot, Slot, RP!Signature, Signature,
         RP!SignatureData, SignatureData, RP!Envelope, Envelope, RP!Versions, Versions,
         RP!Cuts, Cuts, RP!Ephemerals, Ephemerals, RP!Ciphertexts, Ciphertexts
<1>20. RP!Box = Box
  BY <1>19 DEF RP!Box, Box, RP!Holds, Holds, RP!HoldsBottle, HoldsBottle
<1> QED
  BY <1>18, <1>20

\* The steps of the reader are those the proofs of the read side are about.
LEMMA SameReader ==
    /\ R!Init => RP!Init
    /\ \A b : R!Open(b) => RP!Open(b)
    /\ R!Step => RP!Step
<1>1. R!Init => RP!Init
  BY DEF R!Init, RP!Init, R!PrivateKeys, RP!PrivateKeys, R!PublicKeys, RP!PublicKeys,
         R!NoBox, RP!NoBox, R!Pending, RP!Pending, R!Failure, RP!Failure, R!Plain, RP!Plain,
         R!NoKey, RP!NoKey, R!Fresh, RP!Fresh, R!NoHeader, RP!NoHeader, R!None, RP!None
<1>2. \A b : R!Open(b) => RP!Open(b)
  BY DEF R!Open, RP!Open
<1>3. \A e : R!Fail(e) = RP!Fail(e)
  BY DEF R!Fail, RP!Fail, R!Return, RP!Return, R!Failure, RP!Failure, R!Plain, RP!Plain,
         R!NoKey, RP!NoKey
<1>4. R!PushLayer => RP!PushLayer
  BY DEF R!PushLayer, RP!PushLayer
<1>5. R!VerifySignature => RP!VerifySignature
  <2>1. \A s, m, d : R!VerifyError(s, m, d) = RP!VerifyError(s, m, d)
    BY DEF RP!VerifyError, R!VerifyError, RP!PublicKeys, R!PublicKeys,
           RP!VerifySupported, R!VerifySupported, RP!SignatureOver, R!SignatureOver
  <2> QED
    BY <1>3, <2>1 DEF R!VerifySignature, RP!VerifySignature
<1>6. R!SignaturesVerified => RP!SignaturesVerified
  BY DEF R!SignaturesVerified, RP!SignaturesVerified
<1>7. R!ReturnPayload => RP!ReturnPayload
  BY DEF R!ReturnPayload, RP!ReturnPayload, R!Return, RP!Return
<1>8. R!DecodeNested => RP!DecodeNested
  <2>1. \A enc, b : R!DecodedFrom(enc, b) = RP!DecodedFrom(enc, b)
    BY DEF RP!DecodedFrom, R!DecodedFrom, RP!JsonTrip, R!JsonTrip,
           RP!JsonKind, R!JsonKind, RP!JsonOption, R!JsonOption, RP!None, R!None
  <2> QED
    BY <1>3, <2>1
       DEF R!DecodeNested, RP!DecodeNested, R!NestedEncoding, RP!NestedEncoding,
           R!Descend, RP!Descend, R!NoKey, RP!NoKey
<1>9. R!StartSlots => RP!StartSlots
  BY DEF R!StartSlots, RP!StartSlots
<1>10. R!TrySlot => RP!TrySlot
  <2>1. \A e, k : R!DecryptError(e, k) = RP!DecryptError(e, k)
    BY DEF RP!DecryptError, R!DecryptError, RP!OaepError, R!OaepError,
           RP!KemError, R!KemError, RP!HybridError, R!HybridError,
           RP!EcdhError, R!EcdhError, RP!TailError, R!TailError,
           RP!CurveOf, R!CurveOf, RP!CiphertextOf, R!CiphertextOf,
           RP!HybridKinds, R!HybridKinds, RP!KemKinds, R!KemKinds
  <2> QED
    BY <2>1 DEF R!TrySlot, RP!TrySlot
<1>11. R!SlotsExhausted => RP!SlotsExhausted
  BY <1>3 DEF R!SlotsExhausted, RP!SlotsExhausted
<1>12. R!Unseal => RP!Unseal
  <2>1. \A b, ck : R!UnsealError(b, ck) = RP!UnsealError(b, ck)
    BY DEF R!UnsealError, RP!UnsealError, R!NoKey, RP!NoKey
  <2> QED
    BY <1>3, <2>1 DEF R!Unseal, RP!Unseal, R!Descend, RP!Descend
<1> QED
  BY <1>1, <1>2, <1>4, <1>5, <1>6, <1>7, <1>8, <1>9, <1>10, <1>11, <1>12
     DEF R!Step, RP!Step

LEMMA SameWriter ==
    /\ W!Init => WP!Init
    /\ W!Next => WP!Next
<1>1. \A m, f : W!Fresh(m, f) = WP!Fresh(m, f)
  BY DEF W!Fresh, WP!Fresh, W!NoHeader, WP!NoHeader, W!None, WP!None
<1>2. \A n, e : W!Plain(n, e) = WP!Plain(n, e)
  BY DEF W!Plain, WP!Plain, W!NoKey, WP!NoKey
<1>3. \A f, e : W!Wrapper(f, e) = WP!Wrapper(f, e)
  BY <1>1, <1>2 DEF W!Wrapper, WP!Wrapper
<1>4. W!Init => WP!Init
  BY <1>1, <1>2 DEF W!Init, WP!Init, W!None, WP!None, W!Some, WP!Some
<1>5. \A n, m : W!RoomFor(n, m) = WP!RoomFor(n, m)
  BY DEF W!RoomFor, WP!RoomFor
<1>6. \A b : /\ W!JsonEncodable(b) = WP!JsonEncodable(b)
             /\ W!JsonTrip(b) = WP!JsonTrip(b)
  BY DEF W!JsonEncodable, WP!JsonEncodable, W!JsonTrip, WP!JsonTrip, W!JsonKind, WP!JsonKind,
         W!JsonOption, WP!JsonOption, W!None, WP!None
<1>7. ASSUME NEW h \in HeaderKeys, NEW v \in HeaderKinds, W!WithHeader(h, v)
      PROVE  WP!WithHeader(h, v)
  BY <1>7 DEF W!WithHeader, WP!WithHeader
<1>8. W!BottleUp => WP!BottleUp
  BY <1>3, <1>5 DEF W!BottleUp, WP!BottleUp, W!Wrap, WP!Wrap
<1>9. W!AsJsonBottle => WP!AsJsonBottle
  BY <1>3, <1>5, <1>6 DEF W!AsJsonBottle, WP!AsJsonBottle, W!Wrap, WP!Wrap
<1>10. (W!ViaJson => WP!ViaJson) /\ (W!ToJsonFails => WP!ToJsonFails)
  BY <1>6 DEF W!ViaJson, WP!ViaJson, W!ToJsonFails, WP!ToJsonFails
<1>11. (W!Child => WP!Child) /\ (W!ChildFails => WP!ChildFails)
  BY <1>6 DEF W!Child, WP!Child, W!ChildFails, WP!ChildFails, W!DecodedFrom, WP!DecodedFrom
<1>12. ASSUME NEW k \in W!PrivateKeys, W!Sign(k)
       PROVE  k \in WP!PrivateKeys /\ WP!Sign(k)
  <2>1. \A b : W!SignAs(b, k) = WP!SignAs(b, k)
    BY DEF W!SignAs, WP!SignAs, W!SignSupported, WP!SignSupported, W!Signed, WP!Signed,
           W!SignatureOver, WP!SignatureOver, W!Some, WP!Some
  <2> QED
    BY <1>3, <1>5, <1>12, <2>1
       DEF W!Sign, WP!Sign, W!NoHeader, WP!NoHeader, W!PrivateKeys, WP!PrivateKeys,
           W!PublicKeys, WP!PublicKeys
<1>13. ASSUME NEW rs \in W!RecipientLists, W!Encrypt(rs)
       PROVE  rs \in WP!RecipientLists /\ WP!Encrypt(rs)
  <2>1. \A k : /\ W!VersionFor(k) = WP!VersionFor(k) /\ W!CurveOf(k) = WP!CurveOf(k)
               /\ W!CiphertextOf(k) = WP!CiphertextOf(k)
    BY DEF W!VersionFor, WP!VersionFor, W!CurveOf, WP!CurveOf, W!CiphertextOf,
           WP!CiphertextOf, W!HybridKinds, WP!HybridKinds, W!KemKinds, WP!KemKinds
  <2>2. W!EncryptionError(rs) = WP!EncryptionError(rs)
    BY <2>1 DEF W!EncryptionError, WP!EncryptionError, W!CanReceive, WP!CanReceive
  <2>3. \A ck, k : W!SlotFor(ck, k) = WP!SlotFor(ck, k)
    BY <2>1 DEF W!SlotFor, WP!SlotFor, W!EncryptShort, WP!EncryptShort
  <2>4. \A b, n : W!SealedBottle(b, n, rs) = WP!SealedBottle(b, n, rs)
    BY <2>3 DEF W!SealedBottle, WP!SealedBottle, W!NoHeader, WP!NoHeader, W!Some, WP!Some,
                W!Sealed, WP!Sealed
  <2>5. \A b, n : W!EncryptAs(b, n, rs) = WP!EncryptAs(b, n, rs)
    BY <2>2, <2>4 DEF W!EncryptAs, WP!EncryptAs
  <2>6. rs \in WP!RecipientLists
    BY DEF W!RecipientLists, WP!RecipientLists, W!PublicKeys, WP!PublicKeys
  <2> QED
    BY <1>3, <1>5, <1>13, <2>5, <2>6 DEF W!Encrypt, WP!Encrypt, W!IsClean, WP!IsClean
<1>14. W!Next => WP!Next
  BY <1>7, <1>8, <1>9, <1>10, <1>11, <1>12, <1>13 DEF W!Next, WP!Next
<1> QED
  BY <1>4, <1>14

-----------------------------------------------------------------------------
(* A layer as the writer left it, seen by the reader.                       *)

\* Everything the verdict depends on.
Readable(l) ==
    /\ \A i \in DOMAIN l.signatures.list :
          Verifies(l.signatures.list[i].signer, l.message, l.signatures.list[i].data)
    /\ l.format \in Formats
    /\ HoldsBottle(l) <=> l.format # "ClearText"
    /\ l.format = "CborBottle" => l.message.enc = "cbor" /\ l.message.key = NoKey
    /\ l.format = "JsonBottle" => l.message.enc = "json" /\ l.message.key = NoKey
    /\ l.format = "Aes" =>
          /\ l.message.enc = "cbor" /\ l.message.key # NoKey
          /\ \A i \in DOMAIN l.recipients.list :
                LET slot == l.recipients.list[i]
                IN  /\ Opens(slot.data, slot.recipient)
                    /\ slot.data.whole
                    /\ slot.data.holds = l.message.key

LEMMA SoundIsReadable ==
    ASSUME NEW l \in Layer, WP!Sound(l)
    PROVE  Readable(l)
<1>1. \A s, m, d : WP!Verifies(s, m, d) = Verifies(s, m, d)
  BY DEF WP!VerifyError, VerifyError, WP!PublicKeys, PublicKeys, WP!Verifies, Verifies,
         WP!VerifySupported, VerifySupported, WP!SignatureOver, SignatureOver
<1>2. \A e, k : WP!Opens(e, k) = Opens(e, k)
  BY DEF WP!DecryptError, DecryptError, WP!OaepError, OaepError, WP!Opens, Opens,
         WP!KemError, KemError, WP!HybridError, HybridError,
         WP!EcdhError, EcdhError, WP!TailError, TailError,
         WP!CurveOf, CurveOf, WP!CiphertextOf, CiphertextOf,
         WP!HybridKinds, HybridKinds, WP!KemKinds, KemKinds
<1>3. WP!NoKey = NoKey
  BY DEF WP!NoKey, NoKey
<1>4. l.format \in Formats
  BY LayerFields
<1>5. WP!CoveredBySignatures(l) /\ WP!OpenableBySlots(l) /\ WP!DecodesByFormat(l)
  BY DEF WP!Sound
<1>6. HoldsBottle(l) <=> l.format # "ClearText"
  BY <1>4, <1>5 DEF WP!DecodesByFormat, HoldsBottle, Formats
<1> QED
  BY <1>1, <1>2, <1>3, <1>4, <1>5, <1>6
     DEF Readable, WP!CoveredBySignatures, WP!OpenableBySlots, WP!DecodesByFormat

\* The layer l the reader decodes is the layer b the writer made, but for what
\* JSON does to header values.
SameLayer(l, b) ==
    /\ l \in Layer
    /\ l.message = b.message /\ l.format = b.format
    /\ l.recipients.list = b.recipients.list
    /\ l.signatures.list = b.signatures.list
    /\ HeadersOf(l) = HeadersOf(b)

LEMMA JsonIsSame ==
    ASSUME NEW b \in Layer
    PROVE  SameLayer(b, b) /\ SameLayer(JsonTrip(b), b)
<1>1. \A h \in HeaderKeys :
          JsonTrip(b).header[h] # "absent" <=> b.header[h] # "absent"
  BY DEF JsonTrip, JsonKind
<1> QED
  BY <1>1, JsonTripFields DEF SameLayer, HeadersOf

LEMMA SameIsReadable ==
    ASSUME NEW b, NEW l, SameLayer(l, b), Readable(b)
    PROVE  Readable(l)
  BY DEF SameLayer, Readable, HoldsBottle

\* An encrypted layer ends the call when it has no slot for a held key; a layer
\* of clear text ends it well; no other ends it.
LEMMA ReadableEnds ==
    ASSUME NEW l \in Layer, Readable(l), NEW keys
    PROVE  LayerError(l, keys) =
              IF l.format = "Aes" /\ Tried(l, keys) = {} THEN "NoAppropriateKey" ELSE "none"
<1>1. SignaturesError(l) = "none"
  <2>1. Failing(l) = {}
    BY DEF Failing, Readable
  <2> QED
    BY <2>1, NoneFailingError
<1>2. CASE l.format # "Aes"
  BY <1>1, <1>2 DEF LayerError, Readable, Formats
<1>3. CASE l.format = "Aes"
  <2>1. Yielding(l, keys) = Tried(l, keys) /\ Tried(l, keys) \in SUBSET Nat
    BY <1>3, LayerFields DEF Yielding, Tried, Readable
  <2>2. CASE Tried(l, keys) = {}
    <3>1. SlotsError(l, keys) = "NoAppropriateKey"
      BY <2>1, <2>2 DEF SlotsError
    <3> QED
      BY <1>1, <1>3, <2>2, <3>1 DEF LayerError, SealError
  <2>3. CASE Tried(l, keys) # {}
    <3>1. SlotsError(l, keys) = "none"
      BY <2>1, <2>3 DEF SlotsError
    <3>2. FirstOf(Tried(l, keys)) \in DOMAIN l.recipients.list
      BY <2>1, <2>3, FirstOfLeast DEF Tried
    <3>3. SealError(l, keys) = "none"
      BY <1>3, <2>1, <3>1, <3>2 DEF SealError, Readable
    <3> QED
      BY <1>1, <1>3, <2>3, <3>3 DEF LayerError
  <2> QED
    BY <2>2, <2>3
<1> QED
  BY <1>2, <1>3

-----------------------------------------------------------------------------
(* The inductive invariant.                                                 *)

\* The layers the writer has, outermost first.
Written(n) == IF n = 1 THEN draft ELSE packed[n - 1]

\* The innermost one is still the bottle made first.
Original == Written(Len(packed) + 1).message = Plain(1, "raw")

\* What the reader was handed is what the writer has.
Sent == pc # "idle" =>
            /\ box.nested = packed
            /\ box.bottle = draft \/ box.bottle = JsonTrip(draft)

IInv ==
    /\ WP!IInv
    /\ Original
    /\ RP!IInv /\ RP!SimInv
    /\ Sent

LEMMA WriterFacts ==
    ASSUME WP!IInv
    PROVE  /\ draft \in Layer /\ packed \in Seq(Layer)
           /\ Len(packed) \in Nat /\ DOMAIN packed = 1 .. Len(packed)
           /\ Readable(draft) /\ \A i \in DOMAIN packed : Readable(packed[i])
           /\ draft.format = "ClearText" <=> packed = <<>>
           /\ \A i \in DOMAIN packed : packed[i].format = "ClearText" <=> i = Len(packed)
<1>1. WP!Layer = Layer
  BY DEF WP!Layer, Layer, WP!Header, Header, WP!AllHeaderKinds, AllHeaderKinds,
         WP!Message, Message, WP!Encodings, Encodings, WP!Formats, Formats,
         WP!OptionOf, OptionOf, WP!Slot, Slot, WP!Signature, Signature,
         WP!SignatureData, SignatureData, WP!Envelope, Envelope, WP!Versions, Versions,
         WP!Cuts, Cuts, WP!Ephemerals, Ephemerals, WP!Ciphertexts, Ciphertexts
<1>2. /\ draft \in Layer /\ packed \in Seq(Layer)
      /\ WP!Sound(draft) /\ \A i \in DOMAIN packed : WP!Sound(packed[i])
      /\ draft.format = "ClearText" <=> packed = <<>>
      /\ \A i \in DOMAIN packed : packed[i].format = "ClearText" <=> i = Len(packed)
  BY <1>1 DEF WP!IInv, WP!Chain
<1>3. \A i \in DOMAIN packed : packed[i] \in Layer
  BY <1>2
<1> QED
  BY <1>2, <1>3, SoundIsReadable

\* The bottle the writer has is one an opener may be handed, and so is the same
\* bottle back from JSON.
LEMMA WrittenIsBox ==
    ASSUME WP!IInv, NEW b, b = draft \/ b = JsonTrip(draft)
    PROVE  [bottle |-> b, nested |-> packed] \in Box
<1>1. SameLayer(b, draft)
  BY WriterFacts, JsonIsSame
<1>2. b \in Layer /\ Readable(b)
  BY <1>1, WriterFacts, SameIsReadable DEF SameLayer
<1>3. Holds(b, packed)
  BY <1>1, <1>2, WriterFacts DEF Holds, SameLayer, Readable
<1> QED
  BY <1>2, <1>3, WriterFacts DEF Box

LEMMA InitInv == Init => IInv
<1> SUFFICES ASSUME Init
             PROVE  IInv
  OBVIOUS
<1>1. WP!IInv
  BY WP!InitInv, WriterAssumptions, SameWriter DEF Init
<1>2. RP!IInv /\ RP!SimInv
  BY RP!InitInv, RP!InitSim, ReaderAssumptions, SameReader DEF Init
<1>3. Sent
  BY DEF Init, R!Init, Sent
<1>4. Original
  <2>1. draft.message = W!Plain(1, "raw") /\ packed = <<>>
    BY DEF Init, W!Init, W!Fresh
  <2> QED
    BY <2>1 DEF Original, Written, W!Plain, Plain, W!NoKey, NoKey
<1> QED
  BY <1>1, <1>2, <1>3, <1>4 DEF IInv

\* What was given to Bottle::new stays the innermost message.
LEMMA WriteOriginal ==
    ASSUME WP!IInv, Original, W!Next
    PROVE  Original'
<1>1. WP!Child \/ WP!KeepsLayers
  BY WP!StepKeeps, WriterAssumptions, SameWriter
<1>2. draft \in Layer /\ packed \in Seq(Layer) /\ Len(packed) \in Nat
  BY WriterFacts
<1>3. CASE WP!Child
  <2>1. /\ packed # <<>> /\ packed' = Tail(packed)
        /\ draft' = WP!DecodedFrom(draft.message.enc, Head(packed))
    BY <1>3, WriterFacts DEF WP!Child
  <2>2. WP!DecodedFrom(draft.message.enc, Head(packed)).message = Head(packed).message
    BY DEF WP!DecodedFrom, WP!JsonTrip
  <2>3. CASE Len(packed) = 1
    <3>1. Len(packed') = 0 /\ Head(packed) = packed[Len(packed)]
      BY <1>2, <2>1, <2>3
    <3>2. draft'.message = Plain(1, "raw")
      BY <2>1, <2>2, <2>3, <3>1 DEF Original, Written
    <3> QED
      BY <3>1, <3>2 DEF Original, Written
  <2>4. CASE Len(packed) # 1
    <3>1. /\ Len(packed') = Len(packed) - 1
          /\ packed'[Len(packed')] = packed[Len(packed)]
          /\ Len(packed) > 1
      <4>1. \A f \in Seq(Layer) : f # <<>> =>
               /\ Len(f) >= 1 /\ Len(Tail(f)) = Len(f) - 1
               /\ \A i \in 1 .. Len(f) - 1 : Tail(f)[i] = f[i + 1]
        OBVIOUS
      <4>2. /\ Len(packed) >= 1 /\ Len(packed') = Len(packed) - 1
            /\ \A i \in 1 .. Len(packed) - 1 : packed'[i] = packed[i + 1]
        BY <1>2, <2>1, <4>1
      <4> QED
        BY <1>2, <2>4, <4>2
    <3>2. packed[Len(packed)].message = Plain(1, "raw")
      BY <1>2, <3>1 DEF Original, Written
    <3>3. (Len(packed) - 1) + 1 # 1 /\ ((Len(packed) - 1) + 1) - 1 = Len(packed) - 1
      BY <1>2, <3>1
    <3> QED
      BY <3>1, <3>2, <3>3 DEF Original, Written
  <2> QED
    BY <2>3, <2>4
<1>4. CASE packed' = <<draft>> \o packed
  <2>1. /\ Len(packed') = Len(packed) + 1
        /\ packed'[Len(packed')] = IF packed = <<>> THEN draft ELSE packed[Len(packed)]
    BY <1>2, <1>4
  <2> QED
    BY <1>2, <2>1 DEF Original, Written
<1>5. CASE packed' = packed /\ WP!Extends(draft, draft')
  BY <1>2, <1>5 DEF Original, Written, WP!Extends
<1>6. CASE packed' = packed /\ WP!IsClean(draft)
  <2>1. packed # <<>>
    BY <1>6, WriterFacts DEF WP!IsClean
  <2> QED
    BY <1>2, <1>6, <2>1 DEF Original, Written
<1> QED
  BY <1>1, <1>3, <1>4, <1>5, <1>6 DEF WP!KeepsLayers, WP!SealsClean

LEMMA WriteInv ==
    ASSUME IInv, Write
    PROVE  IInv'
<1>1. pc = "idle" /\ W!Next /\ UNCHANGED reader
  BY DEF Write
<1>2. WP!IInv'
  BY <1>1, WP!StepInv, WriterAssumptions, SameWriter DEF IInv
<1>3. Original'
  BY <1>1, WriteOriginal DEF IInv
<1>4. RP!IInv' /\ RP!SimInv'
  <2>1. UNCHANGED RP!vars
    BY <1>1 DEF reader, RP!vars
  <2> QED
    BY <2>1, RP!StepInv, RP!SimStep, ReaderAssumptions DEF IInv
<1>5. Sent'
  BY <1>1 DEF reader, Sent
<1> QED
  BY <1>2, <1>3, <1>4, <1>5 DEF IInv

\* The bottle goes over to the reader, however it was encoded.
LEMMA SendInv ==
    ASSUME IInv, SendCbor \/ SendJson
    PROVE  IInv'
<1>1. PICK b \in {draft, JsonTrip(draft)} :
          /\ pc = "idle" /\ R!Open([bottle |-> b, nested |-> packed])
          /\ result' = "ok" /\ UNCHANGED <<draft, packed, minted>>
  BY DEF SendCbor, SendJson
<1> DEFINE bx == [bottle |-> b, nested |-> packed]
<1>2. bx \in RP!Box /\ RP!Open(bx)
  BY <1>1, WrittenIsBox, SameVerdict, SameReader DEF IInv
<1>3. RP!IInv' /\ RP!SimInv'
  <2> HIDE DEF bx
  <2> QED
    BY <1>1, <1>2, RP!OpenInv, RP!OpenSim, ReaderAssumptions DEF IInv
<1>4. WP!IInv'
  BY <1>1 DEF IInv, WP!IInv, WP!Results
<1>5. Original'
  BY <1>1 DEF IInv, Original, Written
<1>6. Sent'
  BY <1>1 DEF R!Open, Sent
<1> QED
  BY <1>3, <1>4, <1>5, <1>6 DEF IInv

LEMMA ReadInv ==
    ASSUME IInv, Read
    PROVE  IInv'
<1>1. R!Step /\ UNCHANGED <<draft, packed, minted, result>>
  BY DEF Read, writer
<1>2. RP!Step /\ RP!Next
  BY <1>1, SameReader DEF RP!Next
<1>3. RP!IInv' /\ RP!SimInv'
  BY <1>2, RP!StepInv, RP!SimStep, ReaderAssumptions DEF IInv
<1>4. WP!IInv' /\ Original'
  BY <1>1 DEF IInv, WP!IInv, Original, Written
<1>5. pc # "idle" /\ UNCHANGED box
  BY <1>2, RP!Moves, ReaderAssumptions
<1>6. Sent'
  BY <1>1, <1>5 DEF IInv, Sent
<1> QED
  BY <1>3, <1>4, <1>6 DEF IInv

LEMMA StepInv == IInv /\ [Next]_vars => IInv'
<1> SUFFICES ASSUME IInv, [Next]_vars
             PROVE  IInv'
  OBVIOUS
<1>1. CASE Write
  BY <1>1, WriteInv
<1>2. CASE SendCbor \/ SendJson
  BY <1>2, SendInv
<1>3. CASE Read
  BY <1>3, ReadInv
<1>4. CASE UNCHANGED vars
  <2>1. UNCHANGED <<draft, packed, minted, result, pc, box>> /\ UNCHANGED RP!vars
    BY <1>4 DEF vars, writer, reader, RP!vars
  <2>2. RP!IInv' /\ RP!SimInv'
    BY <2>1, RP!StepInv, RP!SimStep, ReaderAssumptions DEF IInv
  <2> QED
    BY <2>1, <2>2 DEF IInv, WP!IInv, Original, Written, Sent
<1> QED
  BY <1>1, <1>2, <1>3, <1>4 DEF Next

\* The invariant holds throughout every exchange.
THEOREM Invariance == Spec => []IInv
<1> QED
  BY InitInv, StepInv, PTL DEF Spec

-----------------------------------------------------------------------------
(* The verdict on what the writer sent.                                     *)

\* The reader's layers, one for one, are those of the writer.
LEMMA SentLayers ==
    ASSUME IInv, pc # "idle"
    PROVE  /\ Len(Decoded(box)) = Len(packed) + 1 /\ Len(box.nested) = Len(packed)
           /\ DOMAIN Decoded(box) = 1 .. Len(packed) + 1
           /\ \A n \in 1 .. Len(packed) + 1 : SameLayer(Decoded(box)[n], Written(n))
<1>1. box.nested = packed /\ (box.bottle = draft \/ box.bottle = JsonTrip(draft))
  BY DEF IInv, Sent
<1>2. /\ draft \in Layer /\ packed \in Seq(Layer) /\ Len(packed) \in Nat
      /\ DOMAIN packed = 1 .. Len(packed)
  BY WriterFacts DEF IInv
<1>3. box \in Box
  BY SameVerdict DEF IInv, RP!IInv, RP!TypeOK
<1>4. /\ Decoded(box) \in Seq(Layer) /\ Len(Decoded(box)) = Len(packed) + 1
      /\ Decoded(box)[1] = box.bottle
      /\ \A i \in 1 .. Len(packed) :
            Decoded(box)[i + 1] = DecodedFrom(Decoded(box)[i].message.enc, packed[i])
  BY <1>1, <1>3, DecodedChain
<1>5. ASSUME NEW n \in 1 .. Len(packed) + 1
      PROVE  SameLayer(Decoded(box)[n], Written(n))
  <2>1. CASE n = 1
    BY <1>1, <1>2, <1>4, <2>1, JsonIsSame DEF Written
  <2>2. CASE n # 1
    <3>1. n - 1 \in 1 .. Len(packed) /\ (n - 1) + 1 = n
      BY <1>2, <2>2
    <3>2. Decoded(box)[n] = DecodedFrom(Decoded(box)[n - 1].message.enc, packed[n - 1])
      BY <1>4, <3>1
    <3>3. packed[n - 1] \in Layer /\ Written(n) = packed[n - 1]
      BY <1>2, <2>2, <3>1 DEF Written
    <3> QED
      BY <3>2, <3>3, JsonIsSame DEF DecodedFrom
  <2> QED
    BY <2>1, <2>2
<1>6. DOMAIN Decoded(box) = 1 .. Len(packed) + 1
  BY <1>4
<1> QED
  BY <1>1, <1>4, <1>5, <1>6

\* Which of them end the call: the one of clear text, which is the last, and
\* those with no slot for a held key.
LEMMA SentEnds ==
    ASSUME IInv, pc # "idle", NEW n \in 1 .. Len(packed) + 1
    PROVE  LET l == Decoded(box)[n]
               w == Written(n)
           IN  /\ w \in W!Layers
               /\ l.format = w.format
               /\ l.format = "ClearText" <=> n = Len(packed) + 1
               /\ LayerError(l, held) =
                     IF w.format = "Aes" /\ Tried(w, held) = {} THEN "NoAppropriateKey"
                     ELSE "none"
<1> DEFINE l == Decoded(box)[n]
           w == Written(n)
<1>1. /\ draft \in Layer /\ packed \in Seq(Layer) /\ Len(packed) \in Nat
      /\ DOMAIN packed = 1 .. Len(packed)
      /\ Readable(draft) /\ \A i \in DOMAIN packed : Readable(packed[i])
      /\ draft.format = "ClearText" <=> packed = <<>>
      /\ \A i \in DOMAIN packed : packed[i].format = "ClearText" <=> i = Len(packed)
  BY WriterFacts DEF IInv
<1>2. SameLayer(l, w)
  BY SentLayers
<1>3. /\ Readable(w) /\ w \in W!Layers
      /\ w.format = "ClearText" <=> n = Len(packed) + 1
  <2>1. CASE n = 1
    BY <1>1, <2>1 DEF Written, W!Layers
  <2>2. CASE n # 1
    <3>1. n - 1 \in DOMAIN packed /\ w = packed[n - 1]
      BY <1>1, <2>2 DEF Written
    <3>2. n - 1 = Len(packed) <=> n = Len(packed) + 1
      BY <1>1
    <3> HIDE DEF w
    <3> QED
      BY <1>1, <3>1, <3>2 DEF W!Layers
  <2> QED
    BY <2>1, <2>2
<1>4. l \in Layer /\ Readable(l) /\ l.format = w.format
  BY <1>2, <1>3, SameIsReadable DEF SameLayer
<1>5. Tried(l, held) = Tried(w, held)
  BY <1>2 DEF SameLayer, Tried
<1> HIDE DEF l, w
<1>6. LayerError(l, held) =
          IF w.format = "Aes" /\ Tried(w, held) = {} THEN "NoAppropriateKey" ELSE "none"
  BY <1>4, <1>5, ReadableEnds
<1> QED
  BY <1>3, <1>4, <1>6 DEF l, w

\* The call ends at some layer, all those before it passed.
LEMMA EndsAt ==
    ASSUME IInv, pc = "done"
    PROVE  \E n \in 1 .. Len(packed) + 1 :
              /\ answer = AnswerAt(Decoded(box), n, held)
              /\ Ends(Decoded(box)[n], held)
              /\ \A m \in 1 .. n - 1 : ~Ends(Decoded(box)[m], held)
<1> DEFINE N == Len(packed) + 1
<1>1. Len(packed) \in Nat /\ Len(box.nested) = Len(packed) /\ N \in 1 .. N
  BY SentLayers, WriterFacts DEF IInv
<1>2. Ends(Decoded(box)[N], held)
  BY <1>1, SentEnds DEF Ends
<1>3. PICK n \in 1 .. N : /\ Ends(Decoded(box)[n], held)
                          /\ \A m \in 1 .. n - 1 : ~Ends(Decoded(box)[m], held)
  BY <1>1, <1>2, FirstEnds
<1>4. Verdict(box, held) = AnswerAt(Decoded(box), n, held)
  BY <1>1, <1>3, VerdictIs
<1>5. answer = Verdict(box, held)
  BY SameVerdict DEF IInv, RP!SimInv, RP!Answered
<1> QED
  BY <1>3, <1>4, <1>5

\* A call that succeeds goes to the innermost layer.
LEMMA SuccessIsWhole ==
    ASSUME IInv, pc = "done", answer.error = "none"
    PROVE  LET N == Len(packed) + 1
           IN  /\ answer.payload = Decoded(box)[N].message
               /\ answer.signatures = Joined(Decoded(box))[N]
               /\ answer.bottles = SubSeq(Decoded(box), 1, N)
<1>1. PICK n \in 1 .. Len(packed) + 1 :
          answer = AnswerAt(Decoded(box), n, held) /\ Ends(Decoded(box)[n], held)
  BY EndsAt
<1>2. n = Len(packed) + 1
  BY <1>1, SuccessAt, SentEnds
<1> QED
  BY <1>1, <1>2, SuccessAt

-----------------------------------------------------------------------------
(* What the invariant gives.                                                *)

LEMMA TriedIsOpen ==
    \A w : Tried(w, held) # {} <=>
              \E i \in DOMAIN w.recipients.list : w.recipients.list[i].recipient \in held
  BY DEF Tried

\* A bottle made with the library opens for its recipients and for nobody else,
\* who are told so, however it was made and sent.
THEOREM RecipientsAlwaysRead == Spec => []RecipientsRead
<1>1. ASSUME IInv, pc = "done"
      PROVE  answer.error = IF AllOpenTo(held) THEN "none" ELSE "NoAppropriateKey"
  <2> DEFINE N == Len(packed) + 1
             Shut(w) == w.format = "Aes" /\ Tried(w, held) = {}
  <2>1. PICK n \in 1 .. N :
            /\ answer = AnswerAt(Decoded(box), n, held)
            /\ Ends(Decoded(box)[n], held)
            /\ \A m \in 1 .. n - 1 : ~Ends(Decoded(box)[m], held)
    BY <1>1, EndsAt
  <2>2. answer.error = LayerError(Decoded(box)[n], held)
    BY <2>1 DEF AnswerAt, Failure
  <2>3. \A m \in 1 .. N :
           /\ Written(m) \in W!Layers
           /\ Decoded(box)[m].format = "ClearText" <=> m = N
           /\ LayerError(Decoded(box)[m], held) =
                 IF Shut(Written(m)) THEN "NoAppropriateKey" ELSE "none"
    BY <1>1, SentEnds
  <2>4. CASE Shut(Written(n))
    <3>1. ~AllOpenTo(held)
      BY <2>3, <2>4, TriedIsOpen DEF AllOpenTo
    <3> QED
      BY <2>2, <2>3, <2>4, <3>1
  <2>5. CASE ~Shut(Written(n))
    <3>1. LayerError(Decoded(box)[n], held) = "none"
      BY <2>3, <2>5
    <3>2. n = N
      BY <2>1, <2>3, <3>1 DEF Ends
    <3>3. \A m \in 1 .. N : ~Shut(Written(m))
      <4> TAKE m \in 1 .. N
      <4>1. m = N \/ m \in 1 .. n - 1
        BY <1>1, <3>2, WriterFacts DEF IInv
      <4>2. m \in 1 .. n - 1 => LayerError(Decoded(box)[m], held) = "none"
        BY <2>1 DEF Ends
      <4> QED
        BY <2>3, <2>5, <3>2, <4>1, <4>2
    <3>4. \A b \in W!Layers : \E m \in 1 .. N : b = Written(m)
      <4>1. Len(packed) \in Nat /\ DOMAIN packed = 1 .. Len(packed)
        BY <1>1, WriterFacts DEF IInv
      <4>2. draft = Written(1) /\ 1 \in 1 .. N
        BY <4>1 DEF Written
      <4>3. \A i \in DOMAIN packed : packed[i] = Written(i + 1) /\ i + 1 \in 1 .. N
        BY <4>1 DEF Written
      <4> QED
        BY <4>2, <4>3 DEF W!Layers
    <3>5. AllOpenTo(held)
      BY <3>3, <3>4, TriedIsOpen DEF AllOpenTo
    <3> QED
      BY <2>2, <3>1, <3>5
  <2> QED
    BY <2>4, <2>5
<1>2. IInv => RecipientsRead
  BY <1>1 DEF RecipientsRead
<1> QED
  BY <1>2, Invariance, PTL

\* Whoever signed a layer the writer has, and only they, are reported to a
\* reader who opens the bottle.
THEOREM AuthorsAlwaysReported == Spec => []AuthorsReported
<1>1. ASSUME IInv, pc = "done", answer.error = "none"
      PROVE  {answer.signatures[i].signer : i \in DOMAIN answer.signatures}
                = UNION {AuthorsOf(b) : b \in W!Layers}
  <2> DEFINE N == Len(packed) + 1
             L == Decoded(box)
             S == UNION {Range(L[m].signatures.list) : m \in 1 .. N}
  <2>1. Len(packed) \in Nat /\ DOMAIN packed = 1 .. Len(packed)
    BY <1>1, WriterFacts DEF IInv
  <2>2. answer.signatures = Joined(L)[N]
    BY <1>1, SuccessIsWhole
  <2>3. Len(L) = N /\ \A m \in 1 .. N : SameLayer(L[m], Written(m))
    BY <1>1, SentLayers
  <2>4. \A m \in 1 .. N : L[m].signatures.list \in Seq(Signature)
    BY <2>3, LayerFields DEF SameLayer
  <2>5. Joined(L)[N] \in Seq(Signature) /\ Range(Joined(L)[N]) = S
    <3>1. Len(L) \in Nat /\ N \in 0 .. Len(L)
      BY <2>1, <2>3
    <3> HIDE DEF L
    <3> QED
      BY <2>3, <2>4, <3>1, JoinedRange
  <2>6. {answer.signatures[i].signer : i \in DOMAIN answer.signatures} = {s.signer : s \in S}
    BY <2>2, <2>5 DEF Range
  <2>7. S = UNION {Range(Written(m).signatures.list) : m \in 1 .. N}
    BY <2>3 DEF SameLayer
  <2>8. W!Layers = {Written(m) : m \in 1 .. N}
    <3>1. Written(1) = draft /\ 1 \in 1 .. N
      BY <2>1 DEF Written
    <3>2. \A m \in 1 .. N : Written(m) = draft \/ (m - 1 \in DOMAIN packed /\ Written(m) = packed[m - 1])
      BY <2>1 DEF Written
    <3>3. \A i \in DOMAIN packed : i + 1 \in 1 .. N /\ Written(i + 1) = packed[i]
      BY <2>1 DEF Written
    <3> QED
      BY <3>1, <3>2, <3>3 DEF W!Layers
  <2>9. \A b : AuthorsOf(b) = {s.signer : s \in Range(b.signatures.list)}
    BY DEF AuthorsOf, Range
  <2>10. {s.signer : s \in S} = UNION {AuthorsOf(b) : b \in W!Layers}
    <3> HIDE DEF S
    <3> QED
      BY <2>7, <2>8, <2>9
  <2> QED
    BY <2>6, <2>10
<1>2. IInv => AuthorsReported
  BY <1>1 DEF AuthorsReported
<1> QED
  BY <1>2, Invariance, PTL

\* A reader who opens the bottle has the bytes given to Bottle::new, and with
\* them every layer and every header of the writer.
THEOREM ContentsAlwaysDelivered == Spec => []ContentsDelivered
<1>1. ASSUME IInv, pc = "done", answer.error = "none"
      PROVE  /\ answer.payload = Plain(1, "raw")
             /\ Len(answer.bottles) = Len(packed) + 1
             /\ HeadersOf(answer.bottles[1]) = HeadersOf(draft)
             /\ \A i \in DOMAIN packed :
                   HeadersOf(answer.bottles[i + 1]) = HeadersOf(packed[i])
  <2> DEFINE N == Len(packed) + 1
             L == Decoded(box)
  <2>1. /\ Len(packed) \in Nat /\ DOMAIN packed = 1 .. Len(packed) /\ N \in 1 .. N
        /\ 1 \in 1 .. N
    BY <1>1, WriterFacts DEF IInv
  <2>2. answer.payload = L[N].message /\ answer.bottles = SubSeq(L, 1, N)
    BY <1>1, SuccessIsWhole
  <2>3. Len(L) = N /\ \A m \in 1 .. N : SameLayer(L[m], Written(m))
    BY <1>1, SentLayers
  <2>4. answer.payload = Plain(1, "raw")
    BY <1>1, <2>1, <2>2, <2>3 DEF SameLayer, IInv, Original
  <2>5. Len(answer.bottles) = N /\ \A m \in 1 .. N : answer.bottles[m] = L[m]
    BY <2>1, <2>2
  <2>6. \A m \in 1 .. N : HeadersOf(answer.bottles[m]) = HeadersOf(Written(m))
    BY <2>3, <2>5 DEF SameLayer
  <2>7. Written(1) = draft
    BY DEF Written
  <2>8. \A i \in DOMAIN packed : i + 1 \in 1 .. N /\ Written(i + 1) = packed[i]
    BY <2>1 DEF Written
  <2> QED
    BY <2>1, <2>4, <2>5, <2>6, <2>7, <2>8
<1>2. IInv => ContentsDelivered
  BY <1>1 DEF ContentsDelivered
<1> QED
  BY <1>2, Invariance, PTL
=============================================================================
