---------------------------- MODULE BottleProofs ----------------------------
(***************************************************************************)
(* Proofs about Bottle, for every set of keys, every assignment of kinds   *)
(* to them, every bound and every header: what any sequence of calls of    *)
(* the write side leaves behind is well typed, its signatures verify, its  *)
(* encrypted layers open for the recipients they name, and each layer      *)
(* decodes as its format says.                                             *)
(***************************************************************************)
EXTENDS Bottle, LayerProofs

-----------------------------------------------------------------------------
(* The inductive invariant.  What matters of a layer is one predicate on    *)
(* the layer, so that an action has to answer only for the layer it makes.  *)

Sound(b) ==
    /\ CoveredBySignatures(b)
    /\ OpenableBySlots(b)
    /\ DecodesByFormat(b)

\* A bottle b with the layers n inside its message.
Chain(b, n) ==
    /\ b \in Layer /\ Sound(b)
    /\ n \in Seq(Layer) /\ \A i \in DOMAIN n : Sound(n[i])
    /\ (b.format = "ClearText") <=> (n = <<>>)
    /\ \A i \in DOMAIN n : (n[i].format = "ClearText") <=> (i = Len(n))

IInv ==
    /\ minted \in Nat
    /\ result \in Results
    /\ Chain(bottle, nested)

-----------------------------------------------------------------------------
(* Layers and the operations on them.                                       *)

\* A bottle that wraps an encoding has the fields of a Bottle and is sound.
LEMMA WrapperSound ==
    ASSUME NEW n \in Nat,
           NEW f \in {"CborBottle", "JsonBottle"},
           NEW e \in Encodings, e = IF f = "CborBottle" THEN "cbor" ELSE "json"
    PROVE  /\ Fresh(Plain(n, e), f) \in Layer
           /\ Sound(Fresh(Plain(n, e), f))
           /\ Fresh(Plain(n, e), f).header = NoHeader
           /\ Fresh(Plain(n, e), f).format = f
<1> DEFINE b == Fresh(Plain(n, e), f)
<1>1. b \in Layer
  <2>1. None \in OptionOf(Slot) /\ None \in OptionOf(Signature)
    BY DEF None, OptionOf
  <2>2. NoHeader \in Header
    BY DEF NoHeader, Header
  <2>3. Plain(n, e) \in Message
    BY DEF Plain, Message, NoKey
  <2> QED
    BY <2>1, <2>2, <2>3 DEF Fresh, Layer, Formats
<1>2. Sound(b)
  <2>1. /\ b.format = f /\ b.signatures.list = <<>>
        /\ b.message.enc = e /\ b.message.key = NoKey
    BY DEF Fresh, Plain, None
  <2>2. CoveredBySignatures(b)
    BY <2>1 DEF CoveredBySignatures
  <2>3. OpenableBySlots(b)
    BY <2>1 DEF OpenableBySlots
  <2>4. DecodesByFormat(b)
    BY <2>1 DEF DecodesByFormat
  <2> QED
    BY <2>2, <2>3, <2>4 DEF Sound
<1> QED
  BY <1>1, <1>2 DEF Fresh

\* Appending the signature of a supported key over the message the layer has
\* keeps the layer sound.
LEMMA SignedSound ==
    ASSUME NEW b \in Layer, Sound(b), NEW k \in PrivateKeys, SignSupported(k)
    PROVE  /\ Signed(b, k) \in Layer
           /\ Sound(Signed(b, k))
           /\ Signed(b, k).format = b.format
<1> DEFINE s    == [signer |-> k, data |-> SignatureOver(k, b.message)]
           new  == Append(b.signatures.list, s)
           c    == Signed(b, k)
<1>1. k \in Keys /\ k \in PublicKeys
  BY DEF PrivateKeys, PublicKeys
<1>2. s \in Signature
  BY <1>1 DEF Signature, SignatureData, SignatureOver, Layer
<1>3. b.signatures.list \in Seq(Signature)
  BY DEF Layer, OptionOf
<1>4. new \in Seq(Signature)
  BY <1>2, <1>3
<1>5. c = [b EXCEPT !.signatures = [some |-> TRUE, list |-> new]]
  BY DEF Signed, Some
<1>6. c = [header |-> b.header, message |-> b.message, format |-> b.format,
           recipients |-> b.recipients, signatures |-> [some |-> TRUE, list |-> new]]
  BY <1>5, LayerFields
<1>7. /\ c.message = b.message /\ c.format = b.format
      /\ c.recipients = b.recipients /\ c.signatures.list = new
  BY <1>6
<1>7a. c \in Layer
  <2>1. [some |-> TRUE, list |-> new] \in OptionOf(Signature)
    BY <1>4 DEF OptionOf
  <2> HIDE DEF new
  <2> QED
    BY <1>6, <2>1, LayerFields DEF Layer
<1>8. Verifies(k, b.message, SignatureOver(k, b.message))
  BY <1>1 DEF Verifies, VerifyError, SignSupported, VerifySupported
<1>9. CoveredBySignatures(c)
  <2> SUFFICES ASSUME NEW i \in DOMAIN new
               PROVE  Verifies(new[i].signer, b.message, new[i].data)
    BY <1>7 DEF CoveredBySignatures
  <2>1. CASE i = Len(b.signatures.list) + 1
    BY <2>1, <1>3, <1>8, <1>2
  <2>2. CASE i # Len(b.signatures.list) + 1
    BY <2>2, <1>3, <1>2 DEF Sound, CoveredBySignatures
  <2> QED
    BY <2>1, <2>2
<1>10. OpenableBySlots(c) /\ DecodesByFormat(c)
  BY <1>7 DEF Sound, OpenableBySlots, DecodesByFormat
<1> QED
  BY <1>7, <1>7a, <1>9, <1>10 DEF Sound

\* Sealing a sound nested bottle for recipients that can all receive gives a
\* sound encrypted layer.
LEMMA SealedSound ==
    ASSUME NEW b \in Layer, Sound(b), IsClean(b),
           NEW t \in Nat, t # 0,
           NEW rs \in RecipientLists, EncryptionError(rs) = "ok"
    PROVE  /\ SealedBottle(b, t, rs) \in Layer
           /\ Sound(SealedBottle(b, t, rs))
           /\ SealedBottle(b, t, rs).format = "Aes"
<1> DEFINE slots == [i \in 1 .. Len(rs) |-> SlotFor(t, rs[i])]
           c     == SealedBottle(b, t, rs)
<1>1. rs \in Seq(PublicKeys)
  BY BoundAssumption DEF RecipientLists
<1>2. rs # <<>> /\ \A i \in 1 .. Len(rs) : CanReceive(rs[i])
  BY <1>1 DEF EncryptionError
<1>3. ASSUME NEW i \in 1 .. Len(rs)
      PROVE  /\ slots[i] \in Slot
             /\ Opens(slots[i].data, slots[i].recipient)
             /\ slots[i].data.holds = t
             /\ slots[i].data.whole
  <2>1. rs[i] \in Keys /\ CanReceive(rs[i])
    BY <1>1, <1>2 DEF PublicKeys
  <2> DEFINE k == rs[i]
             env == EncryptShort(t, k)
  <2>2. slots[i] = [recipient |-> k, data |-> env]
    BY DEF SlotFor
  <2>3. env \in Envelope
    BY <2>1 DEF EncryptShort, Envelope, CanReceive, VersionFor, CurveOf, CiphertextOf,
                 Versions, Cuts, Ephemerals, Ciphertexts
  <2>4. env.holds = t /\ env.whole /\ env.to = k /\ env.version = VersionFor(k)
        /\ env.cut = "none" /\ env.ephemeral = CurveOf(k) /\ env.ciphertext = CiphertextOf(k)
    BY DEF EncryptShort
  <2>5. DecryptError(env, k) = "none"
    BY <2>1, <2>4 DEF DecryptError, OaepError, KemError, HybridError, EcdhError,
                      TailError, CanReceive, VersionFor, CurveOf, HybridKinds, KemKinds
  <2> QED
    BY <2>1, <2>2, <2>3, <2>4, <2>5 DEF Slot, Opens
<1>4. slots \in Seq(Slot) /\ Len(slots) = Len(rs) /\ DOMAIN slots = 1 .. Len(rs)
  <2>1. Len(rs) \in Nat
    BY <1>1
  <2>2. slots \in [1 .. Len(rs) -> Slot]
    BY <1>3
  <2> QED
    BY <2>1, <2>2
<1>5. slots # <<>>
  BY <1>1, <1>2, <1>4
<1>6. /\ c.header = NoHeader /\ c.message = [id |-> t, enc |-> b.message.enc, key |-> t]
      /\ c.format = "Aes" /\ c.recipients = [some |-> TRUE, list |-> slots]
      /\ c.signatures = b.signatures
      /\ c = [header |-> c.header, message |-> c.message, format |-> c.format,
              recipients |-> c.recipients, signatures |-> c.signatures]
  BY DEF SealedBottle, Sealed, Some
<1>7. NoHeader \in Header
  BY DEF NoHeader, Header
<1>8. c \in Layer
  <2>1. c.message \in Message
    BY <1>6 DEF Message, Layer
  <2>2. c.recipients \in OptionOf(Slot)
    BY <1>4, <1>6 DEF OptionOf
  <2>3. c.signatures \in OptionOf(Signature)
    BY <1>6 DEF Layer
  <2> HIDE DEF c
  <2> QED
    BY <1>6, <1>7, <2>1, <2>2, <2>3 DEF Layer, Formats
<1>9. CoveredBySignatures(c)
  BY <1>6 DEF IsClean, CoveredBySignatures
<1>10. OpenableBySlots(c)
  <2>1. c.recipients.list = slots /\ c.message.key = t
    BY <1>6
  <2> HIDE DEF c, slots
  <2> QED
    BY <1>3, <1>4, <1>5, <2>1 DEF OpenableBySlots, NoKey
<1>11. DecodesByFormat(c)
  BY <1>6 DEF DecodesByFormat, Sound, IsClean
<1> QED
  BY <1>6, <1>8, <1>9, <1>10, <1>11 DEF Sound

\* A sound layer read back from JSON is sound: the message, the format, the
\* signatures and the slots come back as they went.
LEMMA JsonSound ==
    ASSUME NEW b \in Layer, Sound(b)
    PROVE  /\ JsonTrip(b) \in Layer
           /\ Sound(JsonTrip(b))
           /\ JsonTrip(b).format = b.format
  BY JsonTripFields
     DEF Sound, CoveredBySignatures, OpenableBySlots, DecodesByFormat

-----------------------------------------------------------------------------
(* Chains of layers.                                                        *)

\* Bottling a chain up under a sound wrapper gives a chain.
LEMMA WrapChain ==
    ASSUME NEW b, NEW n, Chain(b, n),
           NEW w \in Layer, Sound(w), w.format # "ClearText"
    PROVE  Chain(w, <<b>> \o n)
<1> DEFINE m == <<b>> \o n
<1>1. b \in Layer /\ n \in Seq(Layer)
  BY DEF Chain
<1>2. /\ m \in Seq(Layer) /\ Len(m) = Len(n) + 1 /\ m # <<>>
      /\ \A i \in DOMAIN m : m[i] = IF i = 1 THEN b ELSE n[i - 1]
      /\ \A i \in DOMAIN m : i # 1 => i - 1 \in DOMAIN n
      /\ DOMAIN m = 1 .. Len(m)
  BY <1>1
<1>3. ASSUME NEW i \in DOMAIN m
      PROVE  Sound(m[i]) /\ ((m[i].format = "ClearText") <=> (i = Len(m)))
  <2>1. CASE i = 1
    <3>1. m[i] = b
      BY <1>2, <2>1
    <3>2. (i = Len(m)) <=> (n = <<>>)
      BY <1>1, <1>2, <2>1
    <3> QED
      BY <3>1, <3>2 DEF Chain
  <2>2. CASE i # 1
    <3>1. i - 1 \in DOMAIN n /\ m[i] = n[i - 1]
      BY <1>2, <2>2
    <3>2. (i = Len(m)) <=> (i - 1 = Len(n))
      BY <1>1, <1>2
    <3> HIDE DEF m
    <3> QED
      BY <3>1, <3>2 DEF Chain
  <2> QED
    BY <2>1, <2>2
<1> HIDE DEF m
<1> QED
  BY <1>2, <1>3 DEF Chain, m

\* What is inside a bottle that is not clear text is itself a chain.
LEMMA ChildChain ==
    ASSUME NEW b, NEW n, Chain(b, n), b.format # "ClearText"
    PROVE  Chain(Head(n), Tail(n))
<1>1. n \in Seq(Layer) /\ n # <<>>
  BY DEF Chain
<1>2. /\ 1 \in DOMAIN n /\ Head(n) = n[1] /\ n[1] \in Layer
      /\ Tail(n) \in Seq(Layer) /\ Len(Tail(n)) = Len(n) - 1
      /\ \A i \in DOMAIN Tail(n) : i + 1 \in DOMAIN n /\ Tail(n)[i] = n[i + 1]
  BY <1>1
<1>3. (n[1].format = "ClearText") <=> (Tail(n) = <<>>)
  <2>1. (1 = Len(n)) <=> (Tail(n) = <<>>)
    <3>1. Tail(n) = <<>> <=> Len(Tail(n)) = 0
      BY <1>2, EmptySeq
    <3> QED
      BY <1>1, <1>2, <3>1
  <2> QED
    BY <1>2, <2>1 DEF Chain
<1>4. ASSUME NEW i \in DOMAIN Tail(n)
      PROVE  /\ Sound(Tail(n)[i])
             /\ (Tail(n)[i].format = "ClearText") <=> (i = Len(Tail(n)))
  <2>1. i + 1 \in DOMAIN n /\ Tail(n)[i] = n[i + 1]
    BY <1>2
  <2>2. (i = Len(Tail(n))) <=> (i + 1 = Len(n))
    BY <1>1, <1>2
  <2> QED
    BY <2>1, <2>2 DEF Chain
<1> QED
  BY <1>2, <1>3, <1>4 DEF Chain

\* The outermost layer of a chain may be replaced by a sound one that is clear
\* text exactly when it was.
LEMMA ReplaceChain ==
    ASSUME NEW b, NEW n, Chain(b, n),
           NEW c \in Layer, Sound(c), (c.format = "ClearText") <=> (b.format = "ClearText")
    PROVE  Chain(c, n)
  BY DEF Chain

-----------------------------------------------------------------------------
(* The invariant, one action at a time.                                     *)

LEMMA InitInv == Init => IInv
<1> SUFFICES ASSUME Init
             PROVE  IInv
  OBVIOUS
<1> PICK o \in {None, Some(<<>>)} :
        bottle = [Fresh(Plain(1, "raw"), "ClearText")
                      EXCEPT !.recipients = o, !.signatures = o]
  BY DEF Init
<1>1. /\ bottle.header = NoHeader /\ bottle.message = Plain(1, "raw")
      /\ bottle.format = "ClearText"
      /\ bottle.recipients = o /\ bottle.signatures = o
      /\ bottle = [header |-> bottle.header, message |-> bottle.message,
                   format |-> bottle.format, recipients |-> bottle.recipients,
                   signatures |-> bottle.signatures]
  BY DEF Fresh
<1>2. o.list = <<>> /\ o \in OptionOf(Slot) /\ o \in OptionOf(Signature)
  <2>1. <<>> \in Seq(Slot) /\ <<>> \in Seq(Signature)
    OBVIOUS
  <2>2. None.list = <<>> /\ None \in OptionOf(Slot) /\ None \in OptionOf(Signature)
    BY <2>1 DEF None, OptionOf
  <2>3. /\ Some(<<>>).list = <<>>
        /\ Some(<<>>) \in OptionOf(Slot) /\ Some(<<>>) \in OptionOf(Signature)
    BY <2>1 DEF Some, OptionOf
  <2> QED
    BY <2>2, <2>3
<1>3. Plain(1, "raw") \in Message /\ Plain(1, "raw").enc = "raw"
  BY DEF Plain, Message, Encodings, NoKey
<1>4. NoHeader \in Header
  BY DEF NoHeader, Header
<1>5. bottle \in Layer
  BY <1>1, <1>2, <1>3, <1>4 DEF Layer, Formats
<1>6. Sound(bottle)
  BY <1>1, <1>2, <1>3 DEF Sound, CoveredBySignatures, OpenableBySlots, DecodesByFormat
<1>7. nested = <<>> /\ minted = 1 /\ result = "ok"
  BY DEF Init
<1>8. Chain(bottle, nested)
  <2>1. <<>> \in Seq(Layer) /\ DOMAIN <<>> = {}
    OBVIOUS
  <2> QED
    BY <1>1, <1>5, <1>6, <1>7, <2>1 DEF Chain
<1> QED
  BY <1>7, <1>8 DEF IInv, Results

\* The wrapper bottle_up and as_json_bottle make, over the current bottle.
LEMMA WrapperFacts ==
    ASSUME IInv,
           NEW f \in {"CborBottle", "JsonBottle"}, NEW e,
           e = IF f = "CborBottle" THEN "cbor" ELSE "json"
    PROVE  /\ Wrapper(f, e) \in Layer /\ Sound(Wrapper(f, e))
           /\ Wrapper(f, e).format = f /\ Wrapper(f, e).header = NoHeader
           /\ Chain(Wrapper(f, e), <<bottle>> \o nested)
<1>1. minted + 1 \in Nat /\ e \in Encodings
  BY DEF IInv, Encodings
<1>2. /\ Wrapper(f, e) \in Layer /\ Sound(Wrapper(f, e))
      /\ Wrapper(f, e).format = f /\ Wrapper(f, e).header = NoHeader
  BY <1>1, WrapperSound DEF Wrapper
<1> QED
  BY <1>2, WrapChain DEF IInv

LEMMA WithHeaderInv ==
    ASSUME IInv, NEW h \in HeaderKeys, NEW v \in HeaderKinds, WithHeader(h, v)
    PROVE  IInv'
<1> DEFINE c == [bottle EXCEPT !.header = [bottle.header EXCEPT ![h] = v]]
<1>1. bottle \in Layer /\ Sound(bottle)
  BY DEF IInv, Chain
<1>2. bottle' = c /\ nested' = nested /\ minted' = minted /\ result' = "ok"
  BY DEF WithHeader
<1>3. [bottle.header EXCEPT ![h] = v] \in Header
  BY <1>1, HeaderAssumption DEF Layer, Header
<1>4. /\ c \in Layer /\ c.format = bottle.format /\ c.message = bottle.message
      /\ c.signatures = bottle.signatures /\ c.recipients = bottle.recipients
  BY <1>1, <1>3 DEF Layer
<1> HIDE DEF c
<1>5. Sound(c)
  BY <1>1, <1>4 DEF Sound, CoveredBySignatures, OpenableBySlots, DecodesByFormat
<1>6. Chain(c, nested)
  BY <1>4, <1>5, ReplaceChain DEF IInv
<1> QED
  BY <1>2, <1>6 DEF IInv, Results

LEMMA WrapInv ==
    ASSUME IInv, BottleUp \/ AsJsonBottle
    PROVE  IInv'
<1>1. CASE BottleUp
  BY <1>1, WrapperFacts DEF BottleUp, Wrap, IInv, Results
<1>2. CASE AsJsonBottle
  BY <1>2, WrapperFacts DEF AsJsonBottle, Wrap, IInv, Results
<1> QED
  BY <1>1, <1>2

LEMMA JsonInv ==
    ASSUME IInv, ViaJson \/ ToJsonFails
    PROVE  IInv'
<1>1. CASE ViaJson
  <2>1. Chain(JsonTrip(bottle), nested)
    BY JsonSound, ReplaceChain DEF IInv, Chain
  <2> QED
    BY <1>1, <2>1 DEF ViaJson, IInv, Results
<1>2. CASE ToJsonFails
  BY <1>2 DEF ToJsonFails, IInv, Results
<1> QED
  BY <1>1, <1>2

LEMMA ChildInv ==
    ASSUME IInv, Child \/ ChildFails
    PROVE  IInv'
<1>1. CASE Child
  <2> DEFINE c == DecodedFrom(bottle.message.enc, Head(nested))
  <2>1. Chain(Head(nested), Tail(nested))
    BY <1>1, ChildChain DEF Child, IInv
  <2>2. Chain(c, Tail(nested))
    <3>1. CASE bottle.message.enc = "json"
      <4>1. Head(nested) \in Layer /\ Sound(Head(nested))
        BY <2>1 DEF Chain
      <4> QED
        BY <2>1, <3>1, <4>1, JsonSound, ReplaceChain DEF DecodedFrom
    <3>2. CASE bottle.message.enc # "json"
      BY <2>1, <3>2 DEF DecodedFrom
    <3> QED
      BY <3>1, <3>2
  <2> QED
    BY <1>1, <2>2 DEF Child, IInv, Results
<1>2. CASE ChildFails
  BY <1>2 DEF ChildFails, IInv, Results
<1> QED
  BY <1>1, <1>2

\* sign, on a bottle that is the current one or its wrapper.
LEMMA SignAsChain ==
    ASSUME NEW b, NEW n, Chain(b, n), NEW k \in PrivateKeys, SignAs(b, k)
    PROVE  Chain(bottle', n) /\ result' \in Results
<1>1. b \in Layer /\ Sound(b)
  BY DEF Chain
<1>2. CASE SignSupported(k) /\ bottle' = Signed(b, k) /\ result' = "ok"
  BY <1>1, <1>2, SignedSound, ReplaceChain DEF Results
<1>3. CASE bottle' = b /\ result' = "UnsupportedKey"
  BY <1>3 DEF Results
<1> QED
  BY <1>2, <1>3 DEF SignAs

LEMMA SignInv ==
    ASSUME IInv, NEW k \in PrivateKeys, Sign(k)
    PROVE  IInv'
<1> DEFINE w == Wrapper("CborBottle", "cbor")
<1>1. Chain(bottle, nested) /\ Chain(w, <<bottle>> \o nested) /\ minted \in Nat
  BY WrapperFacts DEF IInv
<1> HIDE DEF w
<1>2. CASE SignAs(bottle, k) /\ UNCHANGED <<nested, minted>>
  BY <1>1, <1>2, SignAsChain DEF IInv
<1>3. CASE SignAs(w, k) /\ nested' = <<bottle>> \o nested /\ minted' = minted + 1
  BY <1>1, <1>3, SignAsChain DEF IInv
<1> QED
  BY <1>2, <1>3 DEF Sign, w

\* encrypt, on a clean bottle that is the current one or its wrapper.
LEMMA EncryptAsChain ==
    ASSUME NEW b, NEW n, Chain(b, n), IsClean(b), NEW t \in Nat,
           NEW rs \in RecipientLists, EncryptAs(b, t, rs)
    PROVE  Chain(bottle', n) /\ result' \in Results /\ minted' \in Nat
<1>1. b \in Layer /\ Sound(b) /\ t + 1 \in Nat /\ t + 1 # 0
  BY DEF Chain
<1>2. result' \in Results
  BY DEF EncryptAs, EncryptionError, Results
<1>3. CASE /\ EncryptionError(rs) = "ok"
           /\ bottle' = SealedBottle(b, t + 1, rs)
           /\ minted' = t + 1
  <2>1. /\ bottle' \in Layer /\ Sound(bottle') /\ bottle'.format = "Aes"
    BY <1>1, <1>3, SealedSound
  <2>2. b.format # "ClearText"
    BY DEF IsClean
  <2> QED
    BY <1>1, <1>2, <1>3, <2>1, <2>2, ReplaceChain
<1>4. CASE bottle' = b /\ minted' = t
  BY <1>2, <1>4
<1> QED
  BY <1>3, <1>4 DEF EncryptAs

LEMMA EncryptInv ==
    ASSUME IInv, NEW rs \in RecipientLists, Encrypt(rs)
    PROVE  IInv'
<1> DEFINE w == Wrapper("CborBottle", "cbor")
<1>1. Chain(bottle, nested) /\ Chain(w, <<bottle>> \o nested)
  BY WrapperFacts DEF IInv
<1>2. minted \in Nat /\ minted + 1 \in Nat
  BY DEF IInv
<1>3. IsClean(w)
  BY DEF IsClean, Wrapper, Fresh, None
<1> HIDE DEF w
<1>4. CASE IsClean(bottle) /\ EncryptAs(bottle, minted, rs) /\ UNCHANGED nested
  BY <1>1, <1>2, <1>4, EncryptAsChain DEF IInv
<1>5. CASE EncryptAs(w, minted + 1, rs) /\ nested' = <<bottle>> \o nested
  BY <1>1, <1>2, <1>3, <1>5, EncryptAsChain DEF IInv
<1> QED
  BY <1>4, <1>5 DEF Encrypt, w

LEMMA StepInv == IInv /\ [Next]_vars => IInv'
<1> SUFFICES ASSUME IInv, [Next]_vars
             PROVE  IInv'
  OBVIOUS
<1>1. ASSUME NEW h \in HeaderKeys, NEW v \in HeaderKinds, WithHeader(h, v)
      PROVE  IInv'
  BY <1>1, WithHeaderInv
<1>2. CASE BottleUp \/ AsJsonBottle
  BY <1>2, WrapInv
<1>3. CASE ViaJson \/ ToJsonFails
  BY <1>3, JsonInv
<1>4. CASE Child \/ ChildFails
  BY <1>4, ChildInv
<1>5. ASSUME NEW k \in PrivateKeys, Sign(k)
      PROVE  IInv'
  BY <1>5, SignInv
<1>6. ASSUME NEW rs \in RecipientLists, Encrypt(rs)
      PROVE  IInv'
  BY <1>6, EncryptInv
<1>7. CASE UNCHANGED vars
  BY <1>7 DEF vars, IInv
<1> QED
  BY <1>1, <1>2, <1>3, <1>4, <1>5, <1>6, <1>7 DEF Next

\* The invariant holds of every reachable bottle.
THEOREM Invariance == Spec => []IInv
<1>1. Init => IInv
  BY InitInv
<1>2. IInv /\ [Next]_vars => IInv'
  BY StepInv
<1> QED
  BY <1>1, <1>2, PTL DEF Spec

-----------------------------------------------------------------------------
(* What the invariant gives.                                                *)

\* Every reachable bottle has the fields of the struct, at every layer.
THEOREM TypeCorrect == Spec => []TypeOK
<1>1. IInv => TypeOK
  BY DEF IInv, Chain, TypeOK
<1> QED
  BY <1>1, Invariance, PTL

\* No sequence of calls leaves a signature on a message it was not made over.
THEOREM SignaturesAlwaysCover == Spec => []SignaturesCoverMessages
<1>1. IInv => SignaturesCoverMessages
  BY DEF IInv, Chain, Sound, SignaturesCoverMessages, Layers
<1> QED
  BY <1>1, Invariance, PTL

\* No sequence of calls makes an encrypted layer its recipients cannot open.
THEOREM SealedAlwaysForRecipients == Spec => []SealedForRecipients
<1>1. IInv => SealedForRecipients
  BY DEF IInv, Chain, Sound, SealedForRecipients, Layers
<1> QED
  BY <1>1, Invariance, PTL

\* No sequence of calls makes a layer that decodes as something else than its
\* format says.
THEOREM LayersAlwaysDecode == Spec => []LayersDecode
<1>1. IInv => LayersDecode
  BY DEF IInv, Chain, Sound, LayersDecode, Layers
<1> QED
  BY <1>1, Invariance, PTL

\* A call that signs or encrypts leaves nothing unprotected on the bottle.
THEOREM ProtectionAlwaysCovers == Spec => ProtectionCoversBottle
<1> DEFINE w == Wrapper("CborBottle", "cbor")
<1>1. ASSUME IInv, NEW k \in PrivateKeys, Sign(k), result' = "ok"
      PROVE  bottle'.header = NoHeader
  <2>1. w.header = NoHeader /\ w \in Layer /\ bottle \in Layer
    BY <1>1, WrapperFacts DEF IInv, Chain
  <2>2. PICK b \in {bottle, w} : b.header = NoHeader /\ SignAs(b, k)
    BY <1>1, <2>1 DEF Sign
  <2>3. bottle' = Signed(b, k) \/ bottle' = b
    BY <2>2 DEF SignAs
  <2>4. Signed(b, k).header = b.header
    BY <2>1, <2>2 DEF Signed, Layer
  <2> QED
    BY <2>2, <2>3, <2>4
<1>2. ASSUME IInv, NEW rs \in RecipientLists, Encrypt(rs), result' = "ok"
      PROVE  bottle'.header = NoHeader /\ bottle'.signatures.list = <<>>
  <2>1. IsClean(w)
    BY DEF IsClean, Wrapper, Fresh, None
  <2>2. PICK b \in {bottle, w}, t \in {minted, minted + 1} :
            IsClean(b) /\ EncryptAs(b, t, rs)
    BY <1>2, <2>1 DEF Encrypt
  <2>3. bottle' = SealedBottle(b, t + 1, rs)
    BY <1>2, <2>2 DEF EncryptAs
  <2> QED
    BY <2>2, <2>3 DEF SealedBottle, IsClean
<1>3. IInv /\ [Next]_vars => [Protected]_vars
  BY <1>1, <1>2 DEF Protected
<1> QED
  BY <1>3, Invariance, PTL DEF Spec, ProtectionCoversBottle

\* A failing call has at most bottled the bottle up, whatever it was asked for.
THEOREM FailureIsBounded == Spec => FailureAtMostBottlesUp
<1> DEFINE w  == Wrapper("CborBottle", "cbor")
           Up == bottle' = w /\ nested' = <<bottle>> \o nested
           P  == result' # "ok" => UNCHANGED <<bottle, nested>> \/ Up
<1>1. ASSUME Next
      PROVE  P
  <2> HIDE DEF w
  <2>1. ASSUME NEW h \in HeaderKeys, NEW v \in HeaderKinds, WithHeader(h, v)
        PROVE  P
    BY <2>1 DEF WithHeader
  <2>2. CASE BottleUp \/ AsJsonBottle \/ ViaJson \/ Child
    BY <2>2 DEF BottleUp, AsJsonBottle, ViaJson, Child
  <2>3. CASE ToJsonFails \/ ChildFails
    BY <2>3 DEF ToJsonFails, ChildFails
  <2>4. ASSUME NEW k \in PrivateKeys, Sign(k)
        PROVE  P
    BY <2>4 DEF Sign, SignAs, w
  <2>5. ASSUME NEW rs \in RecipientLists, Encrypt(rs)
        PROVE  P
    BY <2>5 DEF Encrypt, EncryptAs, w
  <2> QED
    BY <1>1, <2>1, <2>2, <2>3, <2>4, <2>5 DEF Next
<1>2. [Next]_vars => [P]_vars
  BY <1>1
<1> QED
  BY <1>2, PTL DEF Spec, FailureAtMostBottlesUp

-----------------------------------------------------------------------------
(* Nothing is lost but by child.                                            *)

LEMMA ExtendsItself == \A b : Extends(b, b)
BY DEF Extends

\* A signature more, or a trip through JSON, keeps what a layer has.
LEMMA SignedExtends ==
    ASSUME NEW b \in Layer, NEW k \in PrivateKeys
    PROVE  Extends(b, Signed(b, k))
<1> DEFINE s   == [signer |-> k, data |-> SignatureOver(k, b.message)]
           old == b.signatures.list
           c   == Signed(b, k)
<1>1. /\ c.message = b.message /\ c.format = b.format /\ c.header = b.header
      /\ c.signatures.list = Append(old, s)
  BY LayerFields DEF Signed, Some, Layer
<1>2. old \in Seq(Signature)
  BY LayerFields
<1>3. \A i \in DOMAIN old : i \in DOMAIN Append(old, s) /\ Append(old, s)[i] = old[i]
  <2> HIDE DEF s, old
  <2> QED
    BY <1>2
<1> QED
  BY <1>1, <1>3 DEF Extends

LEMMA JsonExtends ==
    ASSUME NEW b \in Layer
    PROVE  Extends(b, JsonTrip(b))
<1>1. /\ JsonTrip(b).message = b.message /\ JsonTrip(b).format = b.format
      /\ JsonTrip(b).signatures.list = b.signatures.list
  BY JsonTripFields
<1>2. \A h \in HeaderKeys : JsonTrip(b).header[h] = JsonKind(b.header[h])
  BY DEF JsonTrip
<1>3. \A h \in HeaderKeys : b.header[h] # "absent" => JsonKind(b.header[h]) # "absent"
  BY DEF JsonKind
<1> QED
  BY <1>1, <1>2, <1>3 DEF Extends

LEMMA HeaderExtends ==
    ASSUME NEW b \in Layer, NEW h \in HeaderKeys, NEW v \in HeaderKinds
    PROVE  Extends(b, [b EXCEPT !.header[h] = v])
<1> DEFINE c == [b EXCEPT !.header[h] = v]
<1>1. /\ c.message = b.message /\ c.format = b.format /\ c.signatures = b.signatures
      /\ c.header = [b.header EXCEPT ![h] = v]
  BY DEF Layer
<1>2. v # "absent"
  BY HeaderAssumption DEF AllHeaderKinds
<1>3. \A g \in HeaderKeys : b.header[g] # "absent" => c.header[g] # "absent"
  BY <1>1, <1>2 DEF Layer, Header
<1> QED
  BY <1>1, <1>3 DEF Extends

LEMMA StepKeeps ==
    ASSUME IInv, Next
    PROVE  Child \/ KeepsLayers
<1>1. bottle \in Layer
  BY DEF IInv, Chain
<1>2. ASSUME NEW h \in HeaderKeys, NEW v \in HeaderKinds, WithHeader(h, v)
      PROVE  KeepsLayers
  BY <1>1, <1>2, HeaderExtends DEF WithHeader, KeepsLayers
<1>3. CASE BottleUp \/ AsJsonBottle
  BY <1>3 DEF BottleUp, AsJsonBottle, Wrap, KeepsLayers
<1>4. CASE ViaJson
  BY <1>1, <1>4, JsonExtends DEF ViaJson, KeepsLayers
<1>5. CASE ToJsonFails \/ ChildFails
  BY <1>5, ExtendsItself DEF ToJsonFails, ChildFails, KeepsLayers
<1>6. ASSUME NEW k \in PrivateKeys, Sign(k)
      PROVE  KeepsLayers
  <2>1. CASE SignAs(bottle, k) /\ UNCHANGED <<nested, minted>>
    BY <1>1, <2>1, SignedExtends, ExtendsItself DEF SignAs, KeepsLayers
  <2>2. CASE nested' = <<bottle>> \o nested
    BY <2>2 DEF KeepsLayers
  <2> QED
    BY <1>6, <2>1, <2>2 DEF Sign
<1>7. ASSUME NEW rs \in RecipientLists, Encrypt(rs)
      PROVE  KeepsLayers
  <2>1. CASE IsClean(bottle) /\ EncryptAs(bottle, minted, rs) /\ UNCHANGED nested
    <3>1. CASE bottle' = SealedBottle(bottle, minted + 1, rs)
      BY <1>7, <2>1, <3>1 DEF SealedBottle, Sealed, SealsClean, KeepsLayers
    <3>2. CASE bottle' = bottle
      BY <2>1, <3>2, ExtendsItself DEF KeepsLayers
    <3> QED
      BY <2>1, <3>1, <3>2 DEF EncryptAs
  <2>2. CASE nested' = <<bottle>> \o nested
    BY <2>2 DEF KeepsLayers
  <2> QED
    BY <1>7, <2>1, <2>2 DEF Encrypt
<1> QED
  BY <1>2, <1>3, <1>4, <1>5, <1>6, <1>7 DEF Next

\* Every call but child keeps the layers and the signatures there are, and the
\* header values too, but for those of a clean bottle that encrypt seals.
THEOREM LayersAreKept == Spec => NoLayerLost
<1>1. IInv /\ [Next]_vars => [Child \/ KeepsLayers]_vars
  BY StepKeeps
<1> QED
  BY <1>1, Invariance, PTL DEF Spec, NoLayerLost
=============================================================================
