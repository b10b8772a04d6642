---------------------------- MODULE GroupProofs ----------------------------
(***************************************************************************)
(* Proofs about Group: what a verifier concludes from a membership and the *)
(* cards it was handed, for every group, card, key and length of the lists *)
(* of signers.                                                             *)
(***************************************************************************)
EXTENDS Group, LayerProofs

CP == INSTANCE IDCardProofs WITH Lists <- {}, Expiries <- {}, MaxSubkeys <- 0, MaxRevoked <- 0,
                                 card <- trusted, answer <- trusted

-----------------------------------------------------------------------------
(* What IDCardProofs shows of cards as values; its variables play no part.  *)

\* from_cbor(to_cbor(c)) is c here too.
LEMMA CardRoundTrip ==
    ASSUME NEW c \in Card
    PROVE  CardFrom(CardValue(c)) = c
<1>1. /\ Algorithm \in [Keys -> CP!Algorithms]
      /\ {} \subseteq CP!PurposeLists /\ {} \subseteq Times
      /\ {0, 0} \subseteq Nat
  BY AlgorithmAssumption DEF CP!Algorithms, Algorithms, CP!KemKinds, KemKinds,
         CP!HybridKinds, HybridKinds
<1>2. CP!Card = Card
  BY Zenon DEF CP!Card, Card, CP!SubKey, SubKey, CP!Option, Option, CP!Absent, Absent,
               CP!Present, Present, CP!PurposeLists, PurposeLists
<1>3. CP!CardFrom(CP!CardValue(c)) = CardFrom(CardValue(c))
  BY Zenon DEF CP!CardFrom, CardFrom, CP!CardValue, CardValue, CP!Each, Each,
               CP!SubKeyFrom, SubKeyFrom, CP!SubKeyValue, SubKeyValue,
               CP!Absent, Absent, CP!Present, Present, CP!NoPurposes, NoPurposes
<1>4. CP!CardFrom(CP!CardValue(c)) = c
  BY <1>1, <1>2, CP!CardRoundTrip, CanonicalAssumption, PurposeAssumption,
     TimesAssumption, RepeatsAssumption
<1> QED
  BY <1>3, <1>4

-----------------------------------------------------------------------------
(* The invariant.                                                           *)

\* Only keys that sign have made statements.
SignersMade == \A st \in statements : VerifySupported(st.by)

\* The verifier's card is one that its own key signed, or a bottle around it.
TrustedVouched == trusted # Absent => trusted[1] \in vouched

GroupInv == TypeOK /\ SignersMade /\ TrustedVouched

-----------------------------------------------------------------------------
(* Memberships.                                                             *)

LEMMA SupportedSigns ==
    ASSUME NEW k, SignSupported(k)
    PROVE  VerifySupported(k)
  BY DEF SignSupported, VerifySupported

\* A membership is its five fields.
LEMMA MemberFields ==
    ASSUME TypeOK
    PROVE  /\ member = [subject |-> member.subject, key |-> member.key,
                        status |-> member.status, sign_key |-> member.sign_key,
                        signature |-> member.signature]
           /\ member.subject \in Option(Subjects) /\ member.key = GroupKey
           /\ member.status \in Statuses /\ member.sign_key \in Option(OwnKeys)
           /\ member.signature \in Option(statements)
  BY DEF TypeOK

\* The signed bytes of two memberships are equal when their fields but the
\* signature are.
LEMMA SameBytes ==
    ASSUME NEW m, NEW n, m.subject = n.subject, m.key = n.key, m.status = n.status,
           m.sign_key = n.sign_key
    PROVE  SignatureBytes(m) = SignatureBytes(n)
  BY DEF SignatureBytes, Entries

LEMMA EntriesAre ==
    ASSUME NEW m, NEW whole
    PROVE  LET map == Entries(m, whole)
           IN  /\ map[1] = m.subject /\ map[2] = m.key /\ map[3] = m.status
               /\ map[6] = m.sign_key
               /\ map[7] = IF whole THEN m.signature ELSE Absent
  BY DEF Entries

\* from_value(to_value(m)) is m.
LEMMA MembershipRoundTrip ==
    ASSUME TypeOK
    PROVE  MembershipFrom(Entries(member, TRUE)) = member
<1>1. MembershipFrom(Entries(member, TRUE)) =
        [subject |-> member.subject, key |-> member.key, status |-> member.status,
         sign_key |-> member.sign_key, signature |-> member.signature]
  BY EntriesAre DEF MembershipFrom
<1> QED
  BY <1>1, MemberFields

-----------------------------------------------------------------------------
(* Who may sign.                                                            *)

LEMMA OwnKeysAre ==
    ASSUME NEW k \in OwnKeys
    PROVE  k \in Keys /\ k \in PublicKeys /\ Canonical[k] = k
  BY DEF OwnKeys, PrivateKeys, PublicKeys

\* The keys that a card of the group grants signing are those verify accepts.
LEMMA CardGrants ==
    ASSUME NEW c \in Card, NEW k \in OwnKeys, NEW m, m.key = GroupKey,
           m.sign_key = Present(k)
    PROVE  CardError(m, c) = "none" <=> MaySign(k, Present(c))
<1> DEFINE unexpired(s) == s.expires = Absent \/ s.expires[1] > 0
           granted == \E i \in DOMAIN c.subkeys :
                         /\ Canonical[c.subkeys[i].key] = k
                         /\ c.subkeys[i].purposes[SignPurpose] > 0
                         /\ unexpired(c.subkeys[i])
<1>1. k \in Keys /\ k \in PublicKeys /\ Canonical[k] = k
  BY OwnKeysAre
<1>2. m.sign_key[1] = k
  BY DEF Present
<1>3. ASSUME NEW i \in DOMAIN c.subkeys
      PROVE  /\ c.subkeys[i].key \in Keys
             /\ ~Expired(c.subkeys[i], 0) <=> unexpired(c.subkeys[i])
             /\ HasPurpose(c.subkeys[i], SignPurpose)
                   <=> c.subkeys[i].purposes[SignPurpose] > 0
  <2>1. c.subkeys[i] \in SubKey
    BY DEF Card
  <2>2. c.subkeys[i].expires = Absent \/ c.subkeys[i].expires[1] \in Nat
    BY <2>1, TimesAssumption DEF SubKey, Option, Present, Absent
  <2>3. ~Expired(c.subkeys[i], 0) <=> unexpired(c.subkeys[i])
    BY <2>2 DEF Expired
  <2> QED
    BY <2>1, <2>3 DEF SubKey, HasPurpose
<1>4. \A key \in Keys : Canonical[key] = k => key \in PublicKeys
  BY <1>1, CanonicalAssumption DEF PublicKeys
<1>5. k \in KeysFor(c, SignPurpose, 0) <=> granted
  <2>1. ASSUME k \in KeysFor(c, SignPurpose, 0)
        PROVE  granted
    <3>1. PICK i \in DOMAIN c.subkeys :
              /\ Canonical[c.subkeys[i].key] = k
              /\ HasPurpose(c.subkeys[i], SignPurpose) /\ ~Expired(c.subkeys[i], 0)
      BY <2>1 DEF KeysFor
    <3> HIDE DEF unexpired
    <3> QED
      BY <3>1, <1>3
  <2>2. ASSUME granted
        PROVE  k \in KeysFor(c, SignPurpose, 0)
    <3> HIDE DEF unexpired
    <3>1. PICK i \in DOMAIN c.subkeys :
              /\ Canonical[c.subkeys[i].key] = k
              /\ c.subkeys[i].purposes[SignPurpose] > 0
              /\ unexpired(c.subkeys[i])
      BY <2>2
    <3>2. /\ HasPurpose(c.subkeys[i], SignPurpose) /\ ~Expired(c.subkeys[i], 0)
          /\ c.subkeys[i].key \in PublicKeys
      BY <3>1, <1>3, <1>4
    <3> QED
      BY <3>1, <3>2 DEF KeysFor
  <2> QED
    BY <2>1, <2>2
<1>6. MaySign(k, Present(c)) <=> c.self_key = GroupKey /\ granted
  BY DEF MaySign, Present, Absent
<1> HIDE DEF granted
<1> QED
  BY <1>1, <1>2, <1>5, <1>6 DEF CardError

-----------------------------------------------------------------------------
(* Exactness.                                                               *)

\* The statement attached that says all the membership says is a signature
\* over its bytes.
LEMMA SaysIsSignature ==
    ASSUME TypeOK, NEW k \in OwnKeys, NEW st \in statements,
           member.sign_key = Present(k)
    PROVE  Says(st, k, member) <=> st = SignatureOver(k, SignatureBytes(member))
<1>0. st \in [by : OwnKeys, over : {SignatureBytes(m) : m \in Contents}]
  BY DEF TypeOK, Statements
<1>1. PICK m \in Contents : st = [by |-> st.by, over |-> SignatureBytes(m)]
  BY <1>0
<1>2. st.over[2] = Entries(m, FALSE)
  <2>1. st.over = SignatureBytes(m)
    BY <1>1
  <2> QED
    BY <2>1 DEF SignatureBytes
<1>3. /\ st.over[2][1] = m.subject /\ st.over[2][2] = m.key
      /\ st.over[2][3] = m.status /\ st.over[2][6] = m.sign_key
  BY <1>2, EntriesAre
<1>4. ASSUME Says(st, k, member)
      PROVE  st = SignatureOver(k, SignatureBytes(member))
  <2>1. /\ st.by = k /\ m.subject = member.subject /\ m.key = member.key
        /\ m.status = member.status /\ m.sign_key = member.sign_key
    BY <1>3, <1>4 DEF Says
  <2>2. SignatureBytes(m) = SignatureBytes(member)
    BY <2>1, SameBytes
  <2> QED
    BY <1>1, <2>1, <2>2 DEF SignatureOver
<1>5. ASSUME st = SignatureOver(k, SignatureBytes(member))
      PROVE  Says(st, k, member)
  <2>1. st.by = k /\ st.over[2] = Entries(member, FALSE)
    BY <1>5 DEF SignatureOver, SignatureBytes
  <2>2. /\ st.over[2][1] = member.subject /\ st.over[2][2] = member.key
        /\ st.over[2][3] = member.status /\ st.over[2][6] = member.sign_key
    BY <2>1, EntriesAre
  <2> QED
    BY <2>1, <2>2 DEF Says
<1> QED
  BY <1>4, <1>5

\* What verify makes of the signing key, with or without a card.
SignerError(m, group) == IF group = Absent THEN KeyError(m) ELSE CardError(m, group[1])

LEMMA SignerGrants ==
    ASSUME TypeOK, NEW group \in Option(CardsMet), NEW k \in OwnKeys,
           member.sign_key = Present(k)
    PROVE  SignerError(member, group) = "none" <=> MaySign(k, group)
<1>1. member.key = GroupKey
  BY MemberFields
<1>2. CASE group = Absent
  <2>1. KeyError(member) = "none" <=> k = GroupKey
    BY <1>1 DEF KeyError, Present
  <2> QED
    BY <1>2, <2>1 DEF SignerError, MaySign
<1>3. CASE group # Absent
  <2>1. PICK c \in CardsMet : group = Present(c)
    BY <1>3 DEF Option
  <2>2. c \in Card /\ group[1] = c
    BY <2>1, CardsAssumption DEF Present
  <2> QED
    BY <1>1, <1>3, <2>1, <2>2, CardGrants DEF SignerError
<1> QED
  BY <1>2, <1>3

\* A membership passes only with every field that is asked for, a signing key
\* that is granted and a signature that verifies; and with those it passes.
LEMMA VerifiesWhen ==
    ASSUME NEW m, NEW group
    PROVE  MembershipVerifies(m, group) <=>
              /\ m.subject # Absent /\ m.sign_key # Absent /\ m.signature # Absent
              /\ SignerError(m, group) = "none"
              /\ Verifies(m.sign_key[1], SignatureBytes(m), m.signature[1])
<1> DEFINE sound == VerifyError(m.sign_key[1], SignatureBytes(m), m.signature[1])
<1>1. MembershipError(m, group) =
         IF m.subject = Absent \/ m.sign_key = Absent THEN "Malformed"
         ELSE IF SignerError(m, group) # "none" THEN SignerError(m, group)
         ELSE IF m.signature = Absent THEN "Malformed"
         ELSE sound
  BY DEF MembershipError, SignerError
<1>2. Verifies(m.sign_key[1], SignatureBytes(m), m.signature[1]) <=> sound = "none"
  BY DEF Verifies
<1> HIDE DEF sound
<1> QED
  BY <1>1, <1>2 DEF MembershipVerifies

\* A signature verifies exactly when it is the one made over those bytes.
LEMMA VerifiesExactly ==
    ASSUME NEW k, NEW msg, NEW data
    PROVE  Verifies(k, msg, data) <=>
              k \in PublicKeys /\ VerifySupported(k) /\ data = SignatureOver(k, msg)
  BY DEF Verifies, VerifyError

LEMMA ExactFor ==
    ASSUME GroupInv, NEW group \in Option(CardsMet)
    PROVE  MembershipVerifies(member, group) <=>
              \E k \in OwnKeys : /\ MaySign(k, group)
                                /\ member.sign_key = Present(k)
                                /\ \E st \in statements : /\ member.signature = Present(st)
                                                         /\ Says(st, k, member)
                                /\ member.subject # Absent
<1>0. TypeOK /\ SignersMade
  BY DEF GroupInv
<1>1. ASSUME MembershipVerifies(member, group)
      PROVE  \E k \in OwnKeys : /\ MaySign(k, group)
                                /\ member.sign_key = Present(k)
                                /\ \E st \in statements : /\ member.signature = Present(st)
                                                         /\ Says(st, k, member)
                                /\ member.subject # Absent
  <2>1. /\ member.subject # Absent /\ member.sign_key # Absent /\ member.signature # Absent
        /\ SignerError(member, group) = "none"
        /\ Verifies(member.sign_key[1], SignatureBytes(member), member.signature[1])
    BY <1>1, VerifiesWhen
  <2>2. PICK k \in OwnKeys : member.sign_key = Present(k)
    BY <1>0, <2>1, MemberFields DEF Option
  <2>3. PICK st \in statements : member.signature = Present(st)
    BY <1>0, <2>1, MemberFields DEF Option
  <2>4. member.sign_key[1] = k /\ member.signature[1] = st
    BY <2>2, <2>3 DEF Present
  <2>5. st = SignatureOver(k, SignatureBytes(member))
    BY <2>1, <2>4, VerifiesExactly
  <2>6. Says(st, k, member) /\ MaySign(k, group)
    BY <1>0, <2>1, <2>2, <2>5, SaysIsSignature, SignerGrants
  <2> QED
    BY <2>1, <2>2, <2>3, <2>6
<1>2. ASSUME NEW k \in OwnKeys, MaySign(k, group), member.sign_key = Present(k),
             NEW st \in statements, member.signature = Present(st), Says(st, k, member),
             member.subject # Absent
      PROVE  MembershipVerifies(member, group)
  <2>1. member.sign_key[1] = k /\ member.signature[1] = st
    BY <1>2 DEF Present
  <2>2. member.sign_key # Absent /\ member.signature # Absent
    BY <1>2 DEF Present, Absent
  <2>3. st = SignatureOver(k, SignatureBytes(member)) /\ st.by = k
    BY <1>0, <1>2, SaysIsSignature DEF Says
  <2>4. k \in PublicKeys /\ VerifySupported(k)
    BY <1>0, <2>3, OwnKeysAre DEF SignersMade
  <2>5. Verifies(k, SignatureBytes(member), st)
    BY <2>3, <2>4, VerifiesExactly
  <2>6. SignerError(member, group) = "none"
    BY <1>0, <1>2, SignerGrants
  <2> QED
    BY <1>2, <2>1, <2>2, <2>5, <2>6, VerifiesWhen
<1> QED
  BY <1>1, <1>2

-----------------------------------------------------------------------------
(* Cards on the way.                                                        *)

\* What verifies at the signer's place in a list.
AllVerify(l) ==
    \A i \in DOMAIN l.signatures.list :
        Verifies(l.signatures.list[i].signer, l.message, l.signatures.list[i].data)

\* from_signed on a bottle whose innermost layer is a card in clear text, inside
\* layers that are nested bottles: if it gives a card, it is that one, every
\* signature on the way to it verifies, and one of them names the card's own key.
LEMMA FromSignedGives ==
    ASSUME NEW b, Len(b.nested) \in Nat, NEW c \in Card,
           NEW X, \A n \in DOMAIN Decoded(b) : Decoded(b)[n].signatures.list \in Seq(X),
           \A n \in DOMAIN Decoded(b) :
              IF n = Len(b.nested) + 1
              THEN Decoded(b)[n].format = "ClearText" /\ Decoded(b)[n].message = CardBytes(c)
              ELSE Decoded(b)[n].format # "ClearText",
           FromSigned(b) # Absent
    PROVE  /\ FromSigned(b) = Present(c)
           /\ \A n \in DOMAIN Decoded(b) : AllVerify(Decoded(b)[n])
           /\ \E n \in DOMAIN Decoded(b) :
                 \E i \in DOMAIN Decoded(b)[n].signatures.list :
                    Decoded(b)[n].signatures.list[i].signer = c.self_key
<1> DEFINE layers == Decoded(b)
           last   == Len(b.nested) + 1
           r      == Verdict(b, {})
<1>1. DOMAIN layers = 1 .. last /\ last \in 1 .. last /\ Len(layers) = last
  BY DEF Decoded
<1>2. Ends(layers[last], {})
  BY <1>1 DEF Ends
<1>3. PICK n \in 1 .. last : /\ Ends(layers[n], {})
                             /\ \A m \in 1 .. n - 1 : ~Ends(layers[m], {})
  BY <1>1, <1>2, FirstEnds
<1>4. r = AnswerAt(layers, n, {})
  BY <1>3, VerdictIs
<1>5. /\ r.error = "none" /\ IsCard(r.payload)
      /\ \E i \in DOMAIN r.signatures : r.signatures[i].signer = CardFrom(r.payload.id[2]).self_key
      /\ FromSigned(b) = Present(CardFrom(r.payload.id[2]))
  BY DEF FromSigned
<1>6. /\ LayerError(layers[n], {}) = "none" /\ layers[n].format = "ClearText"
      /\ r.payload = layers[n].message /\ r.signatures = Joined(layers)[n]
  <2> HIDE DEF layers
  <2> QED
    BY <1>3, <1>4, <1>5, SuccessAt
<1>7. n = last /\ layers[last].message = CardBytes(c)
  BY <1>1, <1>6
<1>8. CardFrom(r.payload.id[2]) = c
  <2>1. r.payload.id[2] = CardValue(c)
    BY <1>6, <1>7 DEF CardBytes, Plain
  <2> QED
    BY <2>1, CardRoundTrip
<1>9. ASSUME NEW m \in DOMAIN layers
      PROVE  AllVerify(layers[m])
  <2>1. LayerError(layers[m], {}) = "none"
    BY <1>1, <1>3, <1>6, <1>7 DEF Ends
  <2>2. layers[m].signatures.list \in Seq(X)
    OBVIOUS
  <2> HIDE DEF layers
  <2>3. Failing(layers[m]) = {}
    BY <2>1, <2>2, PastLayer, NoneFailing
  <2> QED
    BY <2>3 DEF Failing, AllVerify
<1>10. \E m \in DOMAIN layers : \E i \in DOMAIN layers[m].signatures.list :
          layers[m].signatures.list[i].signer = c.self_key
  <2>1. /\ Joined(layers)[last] \in Seq(X)
        /\ Range(Joined(layers)[last])
              = UNION {Range(layers[m].signatures.list) : m \in 1 .. last}
    <3>1. last \in 0 .. Len(layers) /\ Len(layers) \in Nat
      BY <1>1
    <3>2. \A m \in 1 .. Len(layers) : layers[m].signatures.list \in Seq(X)
      BY <1>1
    <3> HIDE DEF layers, last
    <3> QED
      BY <3>1, <3>2, JoinedRange
  <2>2. PICK i \in DOMAIN r.signatures : r.signatures[i].signer = c.self_key
    BY <1>5, <1>8
  <2> DEFINE sig == r.signatures[i]
  <2>3. sig \in Range(Joined(layers)[last])
    BY <1>6, <1>7, <2>2 DEF Range
  <2> HIDE DEF r, layers, last
  <2>4. PICK m \in 1 .. last : sig \in Range(layers[m].signatures.list)
    BY <2>1, <2>3
  <2>5. PICK j \in DOMAIN layers[m].signatures.list : sig = layers[m].signatures.list[j]
    BY <2>4 DEF Range
  <2> QED
    BY <1>1, <2>2, <2>5
<1> QED
  BY <1>5, <1>8, <1>9, <1>10

\* The layers of a card's bottle, whatever signatures the outermost one carries.
LEMMA CardBottleLayers ==
    ASSUME NEW c, NEW b,
           b.bottle.message = CardBottle(CardBytes(c)).bottle.message,
           b.bottle.format = "CborBottle",
           b.nested = CardBottle(CardBytes(c)).nested
    PROVE  LET content == Fresh(CardBytes(c), "ClearText")
           IN  /\ Len(b.nested) = 1 /\ DOMAIN Decoded(b) = {1, 2}
               /\ Decoded(b)[1] = b.bottle /\ Decoded(b)[2] = content
               /\ content.format = "ClearText" /\ content.message = CardBytes(c)
               /\ content.signatures.list = <<>>
<1> DEFINE content == Fresh(CardBytes(c), "ClearText")
<1>0. /\ content.format = "ClearText" /\ content.message = CardBytes(c)
      /\ content.signatures.list = <<>>
  BY DEF Fresh, None
<1>1. b.nested = <<content>> /\ b.bottle.message.enc = "cbor"
  <2>1. CardBottle(CardBytes(c)) =
           [bottle |-> Fresh(Plain(<<"bottle", content>>, "cbor"), "CborBottle"),
            nested |-> <<content>>]
    BY DEF CardBottle
  <2>2. CardBottle(CardBytes(c)).bottle.message = Plain(<<"bottle", content>>, "cbor")
    BY <2>1 DEF Fresh
  <2> QED
    BY <2>1, <2>2 DEF Plain
<1> HIDE DEF content
<1>2. Len(b.nested) = 1 /\ b.nested[1] = content
  BY <1>1
<1>3. /\ DOMAIN Decoded(b) = 1 .. 2
      /\ Decoded(b)[1] = b.bottle
      /\ Decoded(b)[2] = DecodedFrom(b.bottle.message.enc, b.nested[1])
  BY <1>2 DEF Decoded
<1>4. Decoded(b)[2] = content
  BY <1>1, <1>2, <1>3 DEF DecodedFrom
<1> QED
  BY <1>0, <1>2, <1>3, <1>4 DEF content

\* Signing puts a list of signatures on the outermost layer and nothing else.
LEMMA SignBottleFields ==
    ASSUME NEW b, b = [bottle |-> b.bottle, nested |-> b.nested],
           b.bottle = [header |-> b.bottle.header, message |-> b.bottle.message,
                       format |-> b.bottle.format, recipients |-> b.bottle.recipients,
                       signatures |-> None],
           NEW n \in Nat, NEW ks \in [1 .. n -> OwnKeys]
    PROVE  /\ SignBottle(b, ks).bottle.message = b.bottle.message
           /\ SignBottle(b, ks).bottle.format = b.bottle.format
           /\ SignBottle(b, ks).nested = b.nested
           /\ SignBottle(b, ks).bottle.signatures.list =
                 [i \in 1 .. n |->
                     [signer |-> ks[i], data |-> SignatureOver(ks[i], b.bottle.message)]]
<1> DEFINE s    == SignBottle(b, ks)
           list == [i \in 1 .. n |->
                       [signer |-> ks[i], data |-> SignatureOver(ks[i], b.bottle.message)]]
<1>1. /\ s.bottle.message = b.bottle.message /\ s.bottle.format = b.bottle.format
      /\ s.nested = b.nested
      /\ s.bottle.signatures =
            IF ks = <<>> THEN None
            ELSE Some([i \in DOMAIN ks |->
                         [signer |-> ks[i], data |-> SignatureOver(ks[i], b.bottle.message)]])
  BY DEF SignBottle
<1>2. CASE ks = <<>>
  <2>1. n = 0 /\ list = <<>>
    BY <1>2
  <2> QED
    BY <1>1, <1>2, <2>1 DEF None
<1>3. CASE ks # <<>>
  <2>1. [i \in DOMAIN ks |-> [signer |-> ks[i], data |-> SignatureOver(ks[i], b.bottle.message)]]
           = list
    OBVIOUS
  <2>2. s.bottle.signatures =
           Some([i \in DOMAIN ks |->
                   [signer |-> ks[i], data |-> SignatureOver(ks[i], b.bottle.message)]])
    BY <1>1, <1>3
  <2> HIDE DEF list, s
  <2>3. s.bottle.signatures.list = list
    BY <2>1, <2>2 DEF Some
  <2> QED
    BY <1>1, <2>3 DEF list, s
<1> QED
  BY <1>1, <1>2, <1>3

\* The clean bottle around a card, field by field.
LEMMA CardBottleFields ==
    ASSUME NEW c
    PROVE  /\ CardBottle(CardBytes(c)) =
                 [bottle |-> CardBottle(CardBytes(c)).bottle,
                  nested |-> <<Fresh(CardBytes(c), "ClearText")>>]
           /\ CardBottle(CardBytes(c)).bottle =
                 [header |-> NoHeader,
                  message |-> Plain(<<"bottle", Fresh(CardBytes(c), "ClearText")>>, "cbor"),
                  format |-> "CborBottle", recipients |-> None, signatures |-> None]
<1> DEFINE content == Fresh(CardBytes(c), "ClearText")
<1>1. CardBottle(CardBytes(c)) =
         [bottle |-> Fresh(Plain(<<"bottle", content>>, "cbor"), "CborBottle"),
          nested |-> <<content>>]
  BY DEF CardBottle
<1>2. Fresh(Plain(<<"bottle", content>>, "cbor"), "CborBottle") =
         [header |-> NoHeader, message |-> Plain(<<"bottle", content>>, "cbor"),
          format |-> "CborBottle", recipients |-> None, signatures |-> None]
  BY DEF Fresh
<1> HIDE DEF content
<1>3. CardBottle(CardBytes(c)).bottle = Fresh(Plain(<<"bottle", content>>, "cbor"), "CborBottle")
  BY <1>1
<1> QED
  BY <1>1, <1>2, <1>3 DEF content

\* The bottles of different cards have different messages.
LEMMA CardsTold ==
    ASSUME NEW c \in Card, NEW d \in Card,
           CardBottle(CardBytes(c)).bottle.message = CardBottle(CardBytes(d)).bottle.message
    PROVE  c = d
<1>1. ASSUME NEW x
      PROVE  CardBottle(CardBytes(x)).bottle.message.id
                = <<"bottle", Fresh(CardBytes(x), "ClearText")>>
  <2>1. CardBottle(CardBytes(x)).bottle =
           [header |-> NoHeader,
            message |-> Plain(<<"bottle", Fresh(CardBytes(x), "ClearText")>>, "cbor"),
            format |-> "CborBottle", recipients |-> None, signatures |-> None]
    BY CardBottleFields
  <2>2. CardBottle(CardBytes(x)).bottle.message
           = Plain(<<"bottle", Fresh(CardBytes(x), "ClearText")>>, "cbor")
    BY <2>1
  <2> QED
    BY <2>2 DEF Plain
<1>2. Fresh(CardBytes(c), "ClearText") = Fresh(CardBytes(d), "ClearText")
  BY <1>1
<1>3. CardBytes(c) = CardBytes(d)
  BY <1>2 DEF Fresh
<1>4. CardValue(c) = CardValue(d)
  BY <1>3 DEF CardBytes, Plain
<1> QED
  BY <1>4, CardRoundTrip

\* A card's bottle with one signature, that k made on the bottle of card d.
LEMMA OneSignature ==
    ASSUME NEW c \in Card, NEW d \in Card, NEW k \in OwnKeys, NEW b,
           b.bottle.message = CardBottle(CardBytes(c)).bottle.message,
           b.bottle.format = "CborBottle",
           b.nested = CardBottle(CardBytes(c)).nested,
           b.bottle.signatures.list =
              <<[signer |-> k,
                 data   |-> SignatureOver(k, CardBottle(CardBytes(d)).bottle.message)]>>,
           FromSigned(b) # Absent
    PROVE  FromSigned(b) = Present(c) /\ c = d /\ c.self_key = k
<1> DEFINE msg(x) == CardBottle(CardBytes(x)).bottle.message
           sig    == [signer |-> k, data |-> SignatureOver(k, msg(d))]
           layers == Decoded(b)
<1>1. /\ Len(b.nested) = 1 /\ DOMAIN layers = {1, 2}
      /\ layers[1] = b.bottle
      /\ layers[2].format = "ClearText" /\ layers[2].message = CardBytes(c)
      /\ layers[2].signatures.list = <<>>
  BY CardBottleLayers
<1>2. layers[1].format = "CborBottle" /\ layers[1].message = msg(c)
  BY <1>1
<1>3. layers[1].signatures.list = <<sig>>
  BY <1>1
<1>4. sig.signer = k /\ sig.data = SignatureOver(k, msg(d))
  OBVIOUS
<1> HIDE DEF msg, sig, layers
<1>5. \A n \in DOMAIN layers : layers[n].signatures.list \in Seq({sig})
  <2>1. <<sig>> \in Seq({sig}) /\ <<>> \in Seq({sig})
    OBVIOUS
  <2> QED
    BY <1>1, <1>3, <2>1
<1>6. \A n \in DOMAIN layers :
         IF n = Len(b.nested) + 1
         THEN layers[n].format = "ClearText" /\ layers[n].message = CardBytes(c)
         ELSE layers[n].format # "ClearText"
  BY <1>1, <1>2
<1>7. /\ FromSigned(b) = Present(c)
      /\ \A n \in DOMAIN layers : AllVerify(layers[n])
      /\ \E n \in DOMAIN layers :
            \E i \in DOMAIN layers[n].signatures.list :
               layers[n].signatures.list[i].signer = c.self_key
  <2>1. Len(b.nested) \in Nat
    BY <1>1
  <2> QED
    BY <1>5, <1>6, <2>1, FromSignedGives DEF layers
<1>8. c.self_key = k
  BY <1>1, <1>3, <1>4, <1>7
<1>9. Verifies(k, msg(c), SignatureOver(k, msg(d)))
  BY <1>1, <1>2, <1>3, <1>4, <1>7 DEF AllVerify
<1>10. SignatureOver(k, msg(d)) = SignatureOver(k, msg(c))
  BY <1>9, VerifiesExactly
<1>11. msg(c) = msg(d)
  BY <1>10 DEF SignatureOver
<1>12. c = d
  BY <1>11, CardsTold DEF msg
<1> QED
  BY <1>7, <1>8, <1>12

\* The bottle of card d that k alone has signed.
LEMMA SignedOnce ==
    ASSUME NEW d, NEW k \in OwnKeys
    PROVE  LET b == SignBottle(CardBottle(CardBytes(d)), <<k>>)
               u == CardBottle(CardBytes(d))
           IN  /\ b.bottle.message = u.bottle.message /\ b.bottle.format = "CborBottle"
               /\ b.nested = u.nested
               /\ b.bottle.signatures.list =
                     <<[signer |-> k, data |-> SignatureOver(k, u.bottle.message)]>>
<1> DEFINE u   == CardBottle(CardBytes(d))
           msg == u.bottle.message
           b   == SignBottle(u, <<k>>)
<1>1. /\ u = [bottle |-> u.bottle, nested |-> u.nested]
      /\ u.bottle = [header |-> u.bottle.header, message |-> u.bottle.message,
                     format |-> u.bottle.format, recipients |-> u.bottle.recipients,
                     signatures |-> None]
      /\ u.bottle.format = "CborBottle"
  <2>1. /\ u = [bottle |-> u.bottle, nested |-> <<Fresh(CardBytes(d), "ClearText")>>]
        /\ u.bottle =
              [header |-> NoHeader,
               message |-> Plain(<<"bottle", Fresh(CardBytes(d), "ClearText")>>, "cbor"),
               format |-> "CborBottle", recipients |-> None, signatures |-> None]
    BY CardBottleFields
  <2> HIDE DEF u
  <2> QED
    BY <2>1
<1>2. <<k>> \in [1 .. 1 -> OwnKeys] /\ 1 \in Nat
  OBVIOUS
<1> HIDE DEF u
<1>3. /\ b.bottle.message = msg /\ b.bottle.format = "CborBottle" /\ b.nested = u.nested
      /\ b.bottle.signatures.list =
            [i \in 1 .. 1 |-> [signer |-> <<k>>[i], data |-> SignatureOver(<<k>>[i], msg)]]
  BY <1>1, <1>2, SignBottleFields
<1> HIDE DEF b
<1>4. [i \in 1 .. 1 |-> [signer |-> <<k>>[i], data |-> SignatureOver(<<k>>[i], msg)]]
         = <<[signer |-> k, data |-> SignatureOver(k, msg)]>>
  OBVIOUS
<1> QED
  BY <1>3, <1>4 DEF u, b

\* The signatures over msg of m keys.
SignedBy(ks, msg, m) ==
    [i \in 1 .. m |-> [signer |-> ks[i], data |-> SignatureOver(ks[i], msg)]]

\* What DeliverWrapped delivers.
Wrapped(c, ks, j) == SignBottle(Wrap(SignBottle(CardBottle(CardBytes(c)), ks)), <<j>>)

\* A bottle around a card's bottle: the layers of what travels, when the keys of
\* ks have signed the inner one and j the outer one.
LEMMA WrappedLayers ==
    ASSUME NEW c, NEW n \in Nat, NEW ks \in [1 .. n -> OwnKeys], NEW j \in OwnKeys
    PROVE  LET b      == Wrapped(c, ks, j)
               layers == Decoded(b)
           IN  /\ Len(b.nested) = 2 /\ DOMAIN layers = {1, 2, 3}
               /\ layers[1].format = "CborBottle" /\ layers[2].format = "CborBottle"
               /\ layers[3].format = "ClearText" /\ layers[3].message = CardBytes(c)
               /\ layers[1].signatures.list = SignedBy(<<j>>, layers[1].message, 1)
               /\ layers[2].signatures.list = SignedBy(ks, layers[2].message, n)
               /\ layers[3].signatures.list = <<>>
<1> DEFINE u       == CardBottle(CardBytes(c))
           content == Fresh(CardBytes(c), "ClearText")
           inner   == SignBottle(u, ks)
           w       == Wrap(inner)
           b       == Wrapped(c, ks, j)
           layers  == Decoded(b)
<1>0. b = SignBottle(w, <<j>>)
  BY DEF Wrapped
<1> HIDE DEF b, layers
<1>1. /\ u = [bottle |-> u.bottle, nested |-> <<content>>]
      /\ u.bottle =
            [header |-> NoHeader, message |-> Plain(<<"bottle", content>>, "cbor"),
             format |-> "CborBottle", recipients |-> None, signatures |-> None]
  BY CardBottleFields
<1>2. /\ content.format = "ClearText" /\ content.message = CardBytes(c)
      /\ content.signatures.list = <<>>
  BY DEF Fresh, None
<1> HIDE DEF u, content
<1>3. /\ u = [bottle |-> u.bottle, nested |-> u.nested] /\ u.nested = <<content>>
      /\ u.bottle = [header |-> u.bottle.header, message |-> u.bottle.message,
                     format |-> u.bottle.format, recipients |-> u.bottle.recipients,
                     signatures |-> None]
      /\ u.bottle.format = "CborBottle"
      /\ u.bottle.message = Plain(<<"bottle", content>>, "cbor")
  BY <1>1
<1>4. u.bottle.message.enc = "cbor"
  BY <1>3 DEF Plain
<1>5. /\ inner.bottle.message = u.bottle.message /\ inner.bottle.format = "CborBottle"
      /\ inner.nested = <<content>>
      /\ inner.bottle.signatures.list = SignedBy(ks, u.bottle.message, n)
  BY <1>3, SignBottleFields DEF SignedBy
<1> HIDE DEF inner
<1>6. /\ w = [bottle |-> w.bottle, nested |-> <<inner.bottle>> \o inner.nested]
      /\ w.bottle = [header |-> NoHeader, message |-> Plain(<<"bottle", inner>>, "cbor"),
                     format |-> "CborBottle", recipients |-> None, signatures |-> None]
  BY DEF Wrap, Fresh
<1> HIDE DEF w
<1>7. /\ w = [bottle |-> w.bottle, nested |-> w.nested]
      /\ w.nested = <<inner.bottle, content>>
      /\ w.bottle = [header |-> w.bottle.header, message |-> w.bottle.message,
                     format |-> w.bottle.format, recipients |-> w.bottle.recipients,
                     signatures |-> None]
      /\ w.bottle.format = "CborBottle"
      /\ w.bottle.message = Plain(<<"bottle", inner>>, "cbor")
  BY <1>5, <1>6
<1>8. <<j>> \in [1 .. 1 -> OwnKeys] /\ 1 \in Nat
  OBVIOUS
<1>9. /\ b.bottle.message = w.bottle.message /\ b.bottle.format = "CborBottle"
      /\ b.nested = <<inner.bottle, content>>
      /\ b.bottle.signatures.list = SignedBy(<<j>>, w.bottle.message, 1)
  BY <1>0, <1>7, <1>8, SignBottleFields DEF SignedBy
<1>10. b.bottle.message.enc = "cbor"
  BY <1>7, <1>9 DEF Plain
<1>11. Len(b.nested) = 2 /\ b.nested[1] = inner.bottle /\ b.nested[2] = content
  BY <1>9
<1>12. /\ DOMAIN layers = 1 .. 3
       /\ layers[1] = b.bottle
       /\ layers[2] = DecodedFrom(b.bottle.message.enc, inner.bottle)
       /\ layers[3] = DecodedFrom(inner.bottle.message.enc, content)
  BY <1>11 DEF Decoded, layers
<1>13. layers[2] = inner.bottle /\ layers[3] = content
  BY <1>4, <1>5, <1>10, <1>12 DEF DecodedFrom
<1>14. 1 .. 3 = {1, 2, 3}
  OBVIOUS
<1> HIDE DEF layers
<1>15. /\ layers[1].signatures.list = SignedBy(<<j>>, layers[1].message, 1)
       /\ layers[2].signatures.list = SignedBy(ks, layers[2].message, n)
  BY <1>5, <1>9, <1>12, <1>13
<1> QED
  BY <1>2, <1>5, <1>9, <1>11, <1>12, <1>13, <1>14, <1>15
     DEF layers, b

\* If from_signed reads a card out of it, the card's own key is one of those.
LEMMA WrappedGives ==
    ASSUME NEW c \in Card, NEW n \in Nat, NEW ks \in [1 .. n -> OwnKeys], NEW j \in OwnKeys,
           FromSigned(Wrapped(c, ks, j)) # Absent
    PROVE  /\ FromSigned(Wrapped(c, ks, j)) = Present(c)
           /\ c.self_key \in {ks[i] : i \in DOMAIN ks} \cup {j}
<1> DEFINE b == Wrapped(c, ks, j)
           layers == Decoded(b)
           made(msg) == {[signer |-> k, data |-> SignatureOver(k, msg)] : k \in OwnKeys}
           X == made(layers[1].message) \cup made(layers[2].message)
<1>1. /\ Len(b.nested) = 2 /\ DOMAIN layers = {1, 2, 3}
      /\ layers[1].format = "CborBottle" /\ layers[2].format = "CborBottle"
      /\ layers[3].format = "ClearText" /\ layers[3].message = CardBytes(c)
      /\ layers[1].signatures.list = SignedBy(<<j>>, layers[1].message, 1)
      /\ layers[2].signatures.list = SignedBy(ks, layers[2].message, n)
      /\ layers[3].signatures.list = <<>>
  BY WrappedLayers
<1>2. ASSUME NEW msg
      PROVE  SignedBy(<<j>>, msg, 1) \in Seq(made(msg)) /\ SignedBy(ks, msg, n) \in Seq(made(msg))
  <2>1. SignedBy(<<j>>, msg, 1) \in [1 .. 1 -> made(msg)]
    BY DEF SignedBy
  <2>2. SignedBy(ks, msg, n) \in [1 .. n -> made(msg)]
    BY DEF SignedBy
  <2>3. \A S : \A m \in Nat : \A f \in [1 .. m -> S] : f \in Seq(S)
    OBVIOUS
  <2> HIDE DEF made
  <2> QED
    BY <2>1, <2>2, <2>3
<1>3. /\ \A i \in 1 .. 1 : SignedBy(<<j>>, layers[1].message, 1)[i].signer = j
      /\ \A i \in 1 .. n : SignedBy(ks, layers[2].message, n)[i].signer = ks[i]
  BY DEF SignedBy
<1>4. /\ DOMAIN SignedBy(<<j>>, layers[1].message, 1) = 1 .. 1
      /\ DOMAIN SignedBy(ks, layers[2].message, n) = 1 .. n
      /\ DOMAIN ks = 1 .. n
  BY DEF SignedBy
<1>4a. FromSigned(b) # Absent
  OBVIOUS
<1> HIDE DEF b, layers, made
<1>5. \A m \in DOMAIN layers : layers[m].signatures.list \in Seq(X)
  <2>1. /\ layers[1].signatures.list \in Seq(made(layers[1].message))
        /\ layers[2].signatures.list \in Seq(made(layers[2].message))
    BY <1>1, <1>2
  <2>2. \A A, B : \A s \in Seq(A) : s \in Seq(A \cup B) /\ s \in Seq(B \cup A)
    OBVIOUS
  <2>3. <<>> \in Seq(X)
    OBVIOUS
  <2> QED
    BY <1>1, <2>1, <2>2, <2>3
<1>6. \A m \in DOMAIN layers :
         IF m = Len(b.nested) + 1
         THEN layers[m].format = "ClearText" /\ layers[m].message = CardBytes(c)
         ELSE layers[m].format # "ClearText"
  BY <1>1
<1>7. /\ FromSigned(b) = Present(c)
      /\ \E m \in DOMAIN layers :
            \E i \in DOMAIN layers[m].signatures.list :
               layers[m].signatures.list[i].signer = c.self_key
  <2>1. Len(b.nested) \in Nat
    BY <1>1
  <2> HIDE DEF X
  <2> QED
    BY <1>4a, <1>5, <1>6, <2>1, FromSignedGives DEF layers
<1>8. \/ \E i \in 1 .. 1 : SignedBy(<<j>>, layers[1].message, 1)[i].signer = c.self_key
      \/ \E i \in 1 .. n : SignedBy(ks, layers[2].message, n)[i].signer = c.self_key
  BY <1>1, <1>4, <1>7
<1>9. c.self_key = j \/ \E i \in 1 .. n : ks[i] = c.self_key
  BY <1>3, <1>8
<1> QED
  BY <1>4, <1>7, <1>9 DEF b

-----------------------------------------------------------------------------
(* The invariant holds.                                                     *)

LEMMA InitInv == Init => GroupInv
<1> SUFFICES ASSUME Init
             PROVE  GroupInv
  OBVIOUS
<1>1. PICK s \in Subjects : member = NewMembership(s, GroupKey)
  BY DEF Init
<1>2. TypeOK
  BY <1>1, StatusAssumption DEF Init, TypeOK, NewMembership, Option
<1>3. SignersMade /\ TrustedVouched
  BY DEF Init, SignersMade, TrustedVouched
<1> QED
  BY <1>2, <1>3 DEF GroupInv

\* A card that is delivered is read as the card it is, and is vouched for.
LEMMA DeliveryKeeps ==
    ASSUME GroupInv, NEW b, Receive(b),
           vouched \subseteq vouched', vouched' \subseteq CardsMet,
           FromSigned(b) # Absent =>
              \E c \in CardsMet : FromSigned(b) = Present(c) /\ c \in vouched'
    PROVE  GroupInv'
<1>1. member' = member /\ statements' = statements
  BY DEF Receive
<1>2. CASE FromSigned(b) = Absent
  <2>1. trusted' = trusted
    BY <1>2 DEF Receive
  <2> QED
    BY <1>1, <2>1 DEF GroupInv, TypeOK, SignersMade, TrustedVouched
<1>3. CASE FromSigned(b) # Absent
  <2>1. PICK c \in CardsMet : FromSigned(b) = Present(c) /\ c \in vouched'
    BY <1>3
  <2>2. trusted' = Present(c) /\ trusted'[1] = c /\ trusted' \in Option(CardsMet)
    BY <1>3, <2>1 DEF Receive, Present, Option
  <2> QED
    BY <1>1, <2>1, <2>2 DEF GroupInv, TypeOK, SignersMade, TrustedVouched
<1> QED
  BY <1>2, <1>3

LEMMA DeliverSignedInv ==
    ASSUME GroupInv, NEW c \in CardsMet, NEW k \in OwnKeys, DeliverSigned(c, k)
    PROVE  GroupInv'
<1> DEFINE u == CardBottle(CardBytes(c))
           b == SignBottle(u, <<k>>)
<1>1. c \in Card
  BY CardsAssumption
<1>2. /\ Receive(b)
      /\ vouched' = IF c.self_key \in {k} THEN vouched \cup {c} ELSE vouched
      /\ vouched \subseteq CardsMet
  BY DEF DeliverSigned, Vouch, GroupInv, TypeOK
<1>3. ASSUME FromSigned(b) # Absent
      PROVE  FromSigned(b) = Present(c) /\ c.self_key = k
  <2>1. /\ b.bottle.message = u.bottle.message /\ b.bottle.format = "CborBottle"
        /\ b.nested = u.nested
        /\ b.bottle.signatures.list =
              <<[signer |-> k, data |-> SignatureOver(k, u.bottle.message)]>>
    BY SignedOnce
  <2> HIDE DEF b
  <2> QED
    BY <1>1, <1>3, <2>1, OneSignature
<1> HIDE DEF b
<1> QED
  BY <1>2, <1>3, DeliveryKeeps

LEMMA DeliverWrappedInv ==
    ASSUME GroupInv, NEW c \in CardsMet, NEW ks \in Signers, NEW j \in OwnKeys,
           DeliverWrapped(c, ks, j)
    PROVE  GroupInv'
<1> DEFINE b == Wrapped(c, ks, j)
           S == {ks[i] : i \in DOMAIN ks} \cup {j}
<1>1. c \in Card
  BY CardsAssumption
<1>2. PICK n \in 0 .. MaxSigners : ks \in [1 .. n -> OwnKeys]
  BY DEF Signers
<1>3. n \in Nat
  BY SignersAssumption
<1>4. /\ Receive(b)
      /\ vouched' = IF c.self_key \in S THEN vouched \cup {c} ELSE vouched
      /\ vouched \subseteq CardsMet
  BY DEF DeliverWrapped, Wrapped, Vouch, GroupInv, TypeOK
<1>5. ASSUME FromSigned(b) # Absent
      PROVE  FromSigned(b) = Present(c) /\ c.self_key \in S
  BY <1>1, <1>2, <1>3, <1>5, WrappedGives
<1> HIDE DEF b, S
<1> QED
  BY <1>4, <1>5, DeliveryKeeps

LEMMA DeliverMixedInv ==
    ASSUME GroupInv, NEW c \in CardsMet, NEW d \in CardsMet, NEW k \in OwnKeys,
           DeliverMixed(c, d, k)
    PROVE  GroupInv'
<1> DEFINE u == CardBottle(CardBytes(c))
           v == CardBottle(CardBytes(d))
           w == SignBottle(v, <<k>>)
           b == WithSignaturesOf(u, w)
<1>1. c \in Card /\ d \in Card
  BY CardsAssumption
<1>2. /\ Receive(b)
      /\ vouched' = IF d.self_key \in {k} THEN vouched \cup {d} ELSE vouched
      /\ vouched \subseteq CardsMet
  BY DEF DeliverMixed, Vouch, GroupInv, TypeOK
<1>3. ASSUME FromSigned(b) # Absent
      PROVE  FromSigned(b) = Present(c) /\ c = d /\ d.self_key = k
  <2>1. w.bottle.signatures.list =
           <<[signer |-> k, data |-> SignatureOver(k, v.bottle.message)]>>
    BY SignedOnce
  <2>2. /\ u = [bottle |-> u.bottle, nested |-> <<Fresh(CardBytes(c), "ClearText")>>]
        /\ u.bottle =
              [header |-> NoHeader,
               message |-> Plain(<<"bottle", Fresh(CardBytes(c), "ClearText")>>, "cbor"),
               format |-> "CborBottle", recipients |-> None, signatures |-> None]
    BY CardBottleFields
  <2>3. b = [u EXCEPT !.bottle.signatures = w.bottle.signatures]
    BY DEF WithSignaturesOf
  <2> HIDE DEF u, w, b
  <2>4. /\ b.bottle.message = u.bottle.message /\ b.bottle.format = "CborBottle"
        /\ b.nested = u.nested /\ b.bottle.signatures = w.bottle.signatures
    BY <2>2, <2>3
  <2>5. b.bottle.signatures.list =
           <<[signer |-> k, data |-> SignatureOver(k, v.bottle.message)]>>
    BY <2>1, <2>4
  <2>6. FromSigned(b) = Present(c) /\ c = d /\ c.self_key = k
    BY <1>1, <1>3, <2>4, <2>5, OneSignature DEF u
  <2> QED
    BY <2>6
<1> HIDE DEF b
<1> QED
  BY <1>2, <1>3, DeliveryKeeps

LEMMA SignInv ==
    ASSUME GroupInv, NEW k \in OwnKeys, Sign(k)
    PROVE  GroupInv'
<1> DEFINE named == [member EXCEPT !.sign_key = Present(k)]
           sig   == SignatureOver(k, SignatureBytes(named))
<1>0. TypeOK
  BY DEF GroupInv
<1>1. /\ named = [subject |-> member.subject, key |-> member.key,
                  status |-> member.status, sign_key |-> Present(k),
                  signature |-> member.signature]
      /\ Present(k) \in Option(OwnKeys)
  BY <1>0, MemberFields DEF Option
<1>2. trusted' = trusted /\ vouched' = vouched
  BY DEF Sign
<1>3. ASSUME SignSupported(k), statements' = statements \cup {sig},
             member' = [named EXCEPT !.signature = Present(sig)]
      PROVE  GroupInv'
  <2> DEFINE bare == [named EXCEPT !.signature = Absent]
  <2>1. bare = [subject |-> member.subject, key |-> member.key, status |-> member.status,
                sign_key |-> Present(k), signature |-> Absent]
    <3> HIDE DEF named
    <3> QED
      BY <1>1
  <2>2. bare \in Contents
    <3> HIDE DEF bare
    <3> QED
      BY <1>0, <1>1, <2>1, MemberFields DEF Contents
  <2>3. SignatureBytes(named) = SignatureBytes(bare)
    <3>1. /\ named.subject = bare.subject /\ named.key = bare.key
          /\ named.status = bare.status /\ named.sign_key = bare.sign_key
      BY <1>1, <2>1
    <3> HIDE DEF named, bare
    <3> QED
      BY <3>1, SameBytes
  <2>4. sig \in Statements
    <3> HIDE DEF bare, named
    <3> QED
      BY <2>2, <2>3 DEF Statements, SignatureOver
  <2>5. VerifySupported(sig.by)
    BY <1>3, SupportedSigns DEF SignatureOver
  <2>6. member' = [subject |-> member.subject, key |-> member.key, status |-> member.status,
                   sign_key |-> Present(k), signature |-> Present(sig)]
    <3> HIDE DEF named, sig
    <3> QED
      BY <1>1, <1>3
  <2> HIDE DEF sig, bare, named
  <2>7. /\ statements' \subseteq Statements
        /\ member' \in [subject : Option(Subjects), key : {GroupKey}, status : Statuses,
                        sign_key : Option(OwnKeys), signature : Option(statements')]
    <3>1. Present(sig) \in Option(statements')
      BY <1>3 DEF Option
    <3> QED
      BY <1>0, <1>1, <1>3, <2>4, <2>6, <3>1, MemberFields DEF TypeOK
  <2> QED
    BY <1>2, <1>3, <2>5, <2>7 DEF GroupInv, TypeOK, SignersMade, TrustedVouched
<1>4. ASSUME member' = named, UNCHANGED statements
      PROVE  GroupInv'
  <2> HIDE DEF named
  <2>1. member' \in [subject : Option(Subjects), key : {GroupKey}, status : Statuses,
                     sign_key : Option(OwnKeys), signature : Option(statements')]
    BY <1>0, <1>1, <1>4, MemberFields
  <2> QED
    BY <1>2, <1>4, <2>1 DEF GroupInv, TypeOK, SignersMade, TrustedVouched
<1> QED
  BY <1>3, <1>4 DEF Sign

LEMMA NextInv == GroupInv /\ [Next]_vars => GroupInv'
<1> SUFFICES ASSUME GroupInv, [Next]_vars
             PROVE  GroupInv'
  OBVIOUS
<1>0. TypeOK
  BY DEF GroupInv
<1>1. ASSUME NEW c \in CardsMet, NEW k \in OwnKeys, DeliverSigned(c, k)
      PROVE  GroupInv'
  BY <1>1, DeliverSignedInv
<1>2. ASSUME NEW c \in CardsMet, NEW ks \in Signers, NEW j \in OwnKeys,
             DeliverWrapped(c, ks, j)
      PROVE  GroupInv'
  BY <1>2, DeliverWrappedInv
<1>3. ASSUME NEW c \in CardsMet, NEW d \in CardsMet, NEW k \in OwnKeys,
             DeliverMixed(c, d, k)
      PROVE  GroupInv'
  BY <1>3, DeliverMixedInv
<1>4. ASSUME NEW st \in Statuses, SetStatus(st)
      PROVE  GroupInv'
  BY <1>4 DEF SetStatus, GroupInv, TypeOK, SignersMade, TrustedVouched
<1>5. ASSUME NEW s \in Option(Subjects), SetSubject(s)
      PROVE  GroupInv'
  BY <1>5 DEF SetSubject, GroupInv, TypeOK, SignersMade, TrustedVouched
<1>6. ASSUME NEW k \in OwnKeys, Sign(k)
      PROVE  GroupInv'
  BY <1>6, SignInv
<1>7. CASE Store
  <2>1. UNCHANGED vars
    BY <1>0, <1>7, MembershipRoundTrip DEF Store, vars
  <2> QED
    BY <2>1 DEF vars, GroupInv, TypeOK, SignersMade, TrustedVouched
<1>8. CASE UNCHANGED vars
  BY <1>8 DEF vars, GroupInv, TypeOK, SignersMade, TrustedVouched
<1> QED
  BY <1>1, <1>2, <1>3, <1>4, <1>5, <1>6, <1>7, <1>8 DEF Next

\* GroupInv holds in every state of the group.
THEOREM Invariance == Spec => []GroupInv
  BY InitInv, NextInv, PTL DEF Spec

\* TypeOK, of memberships, statements and cards of any number: a signature never
\* covers an earlier one (membership.rs:63-67).
THEOREM TypeCorrect == Spec => []TypeOK
<1>1. GroupInv => TypeOK
  BY DEF GroupInv
<1> QED
  BY <1>1, Invariance, PTL

\* Whatever was edited, signed and received in whatever order, verify succeeds
\* exactly when a key that may sign for the group has made a statement of all the
\* membership says, and that statement is attached (membership.rs:149-189).
THEOREM Exactness == Spec => []VerifyIsExact
<1>1. GroupInv => VerifyIsExact
  <2> SUFFICES ASSUME GroupInv
               PROVE  VerifyIsExact
    OBVIOUS
  <2>1. Absent \in Option(CardsMet) /\ trusted \in Option(CardsMet)
    BY DEF GroupInv, TypeOK, Option
  <2>2. ASSUME NEW group \in {Absent, trusted}
        PROVE  group \in Option(CardsMet)
    BY <2>1
  <2> QED
    BY <2>2, ExactFor DEF VerifyIsExact
<1> QED
  BY <1>1, Invariance, PTL

\* A membership that passes against the verifier's card was signed by a key that
\* the card grants signing, and that card was vouched for by the group's own key,
\* whoever else signed or carried cards (idcard.rs:279-286).
THEOREM Authority == Spec => []AuthorityFromGroup
<1>1. GroupInv => AuthorityFromGroup
  <2> SUFFICES ASSUME GroupInv, trusted # Absent, MembershipVerifies(member, trusted)
               PROVE  \E c \in vouched : /\ c.self_key = GroupKey
                                        /\ MaySign(member.sign_key[1], Present(c))
    BY DEF AuthorityFromGroup
  <2>1. PICK c \in CardsMet : trusted = Present(c)
    BY DEF GroupInv, TypeOK, Option
  <2>2. c \in vouched /\ trusted \in Option(CardsMet)
    BY <2>1 DEF GroupInv, TypeOK, TrustedVouched, Present
  <2>3. PICK k \in OwnKeys : MaySign(k, trusted) /\ member.sign_key = Present(k)
    BY <2>2, ExactFor
  <2>4. member.sign_key[1] = k
    BY <2>3 DEF Present
  <2>5. c.self_key = GroupKey
    BY <2>1, <2>3 DEF MaySign, Present, Absent
  <2> QED
    BY <2>1, <2>2, <2>3, <2>4, <2>5
<1> QED
  BY <1>1, Invariance, PTL

\* Storing a membership on a card and reading it back changes nothing about it;
\* one whose subject was cleared, as membership.rs:17 has it, is refused, and
\* verifies as before once it has its subject again (idcard.rs:183-190, 239-247;
\* membership.rs:80-132, 151).
THEOREM StoringIsNeutral == Spec => StoringKeepsVerdict
<1> DEFINE A == Store \/ SetSubject(Absent) =>
                   \A group \in {Absent, trusted} :
                      /\ Store => MembershipError(member', group) = MembershipError(member, group)
                      /\ member'.subject = Absent => MembershipError(member', group) = "Malformed"
                      /\ \A s \in Subjects :
                            MembershipError(WithSubject(member', s), group)
                               = MembershipError(WithSubject(member, s), group)
<1>1. GroupInv /\ [Next]_vars => [A]_vars
  <2>1. TypeOK /\ Store => member' = member
    BY MembershipRoundTrip DEF Store
  <2>2. GroupInv => TypeOK
    BY DEF GroupInv
  <2>3. TypeOK /\ SetSubject(Absent) =>
           \A s \in Subjects : WithSubject(member', s) = WithSubject(member, s)
    BY DEF TypeOK, SetSubject, WithSubject
  <2>4. \A m, group : m.subject = Absent => MembershipError(m, group) = "Malformed"
    BY DEF MembershipError
  <2> QED
    BY <2>1, <2>2, <2>3, <2>4
<1> QED
  BY <1>1, Invariance, PTL DEF Spec, StoringKeepsVerdict
=============================================================================
