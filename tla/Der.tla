-------------------------------- MODULE Der ---------------------------------
(***************************************************************************)
(* Public keys as DER: the readers of pkix.rs, mlkem.rs and pqsig.rs and   *)
(* what those modules write themselves, the keys of X25519, ML-KEM and     *)
(* ML-DSA.  Sizes and object identifiers are scaled.                       *)
(***************************************************************************)
EXTENDS Uvarint

CONSTANTS
    SequenceTag, OidTag, BitStringTag,
    MaxLengthBytes,     \* bytes of a long length that are read: 4
    FirstRadix,         \* what the first arc of an OID is multiplied by: 40
    KeyKinds,           \* the kinds of public key written here
    HybridKinds,        \* those of them that are X25519 and ML-KEM together
    KeyOid,             \* the arcs of each kind's OID
    KeySize,            \* the bytes of each kind's key, or its ML-KEM part
    XSize,              \* the bytes of an X25519 key: 32
    DkSize              \* the bytes of a decapsulation key of either variant

Variants == {0, 1}      \* MlKemVariant: ML-KEM-768 and -1024

LongLimit == Power[(GroupBits + 1) * MaxLengthBytes]    \* above the longest length

ASSUME TagAssumption == {SequenceTag, OidTag, BitStringTag} \subseteq Octet

\* A byte announces how many bytes a long length has, and the header and a length
\* of so many bytes fit a word.
ASSUME LengthAssumption ==
    /\ MaxLengthBytes \in 1 .. Radix - 1
    /\ LongLimit + MaxLengthBytes + 2 <= Power[WordBits]

ASSUME KeyAssumption ==
    /\ HybridKinds \subseteq KeyKinds
    /\ KeySize \in [KeyKinds -> Nat]
    /\ DkSize \in [Variants -> Nat]
    /\ XSize \in Nat \ {0}
    /\ \A j, k \in KeyKinds : KeyOid[j] = KeyOid[k] => j = k

\* The first two arcs share a byte.
ASSUME OidAssumption ==
    /\ FirstRadix \in Nat \ {0}
    /\ \A k \in KeyKinds :
          /\ KeyOid[k] \in Seq(Word) /\ Len(KeyOid[k]) >= 2
          /\ KeyOid[k][2] < FirstRadix
          /\ KeyOid[k][1] * FirstRadix + KeyOid[k][2] \in Octet

-----------------------------------------------------------------------------
(* The encoder, purecrypto's der module: lengths in their shortest form.    *)

\* Numbers in digits of the radix r, the highest first.
Digits(r) ==
    LET d[n \in Nat] == IF n < r THEN <<n>> ELSE Append(d[n \div r], n % r) IN d

Tlv(tag, body) ==
    LET len    == Len(body)
        digits == Digits(2 * Radix)[len]
    IN  <<tag>> \o (IF len < Radix THEN <<len>> ELSE <<Radix + Len(digits)>> \o digits) \o body

ArcBytes(v) ==
    LET g == Digits(Radix)[v]
    IN  [i \in DOMAIN g |-> IF i < Len(g) THEN g[i] + Radix ELSE g[i]]

\* The bytes of the first n arcs.
OidBytes(oid) ==
    LET bytes[n \in 2 .. Len(oid)] ==
            IF n = 2 THEN <<oid[1] * FirstRadix + oid[2]>> ELSE bytes[n - 1] \o ArcBytes(oid[n])
    IN  bytes

OidTlv(oid) == Tlv(OidTag, OidBytes(oid)[Len(oid)])

BitString(bytes) == Tlv(BitStringTag, <<0>> \o bytes)

Spki(oid, key) == Tlv(SequenceTag, Tlv(SequenceTag, OidTlv(oid)) \o BitString(key))

-----------------------------------------------------------------------------
(* The readers.                                                             *)

\* What the first n bytes add up to as digits, the highest first.
Big(bytes) ==
    LET sum[n \in 0 .. Len(bytes)] ==
            IF n = 0 THEN 0 ELSE sum[n - 1] * (2 * Radix) + bytes[n]
    IN  sum

\* The length a TLV announces, and the bytes before its body, where data
\* has those bytes.
Length(data) ==
    LET n == data[2] - Radix
    IN  IF data[2] < Radix THEN [len |-> data[2], hdr |-> 2]
        ELSE [len |-> Big(SubSeq(data, 3, 2 + n))[n], hdr |-> 2 + n]

LengthRefused(data) ==
    LET n == data[2] - Radix
    IN  data[2] >= Radix /\ (n = 0 \/ n > MaxLengthBytes \/ Len(data) < 2 + n)

\* The body of a TLV that ends at its byte end, and what follows it.
Body(data, hdr, end) ==
    [error |-> "none", tag |-> data[1],
     body  |-> SubSeq(data, hdr + 1, end), rest |-> SubSeq(data, end + 1, Len(data))]

\* Mutated: the end of the body is not compared with the end of the data.
SplitUnchecked(t, data, l) ==
    IF Len(data) < l.hdr + l.len THEN Fail("panic") ELSE Body(data, l.hdr, l.hdr + l.len)

\* Where the sum of header and length is past usize the program panics, when it
\* is added, or unchecked when the slice ends before it starts.
Split(t, data, l) ==
    IF l.hdr + l.len >= Power[t.bits] THEN Fail("panic")
    ELSE IF Len(data) < l.hdr + l.len THEN Fail("Pkix")
    ELSE Body(data, l.hdr, l.hdr + l.len)

\* pkix::read_tlv.
ReadTlv(t, data) ==
    IF Len(data) < 2 \/ LengthRefused(data) THEN Fail("Pkix")
    ELSE Split(t, data, Length(data))

\* Mutated: the groups of an arc before its last one are forgotten.
ArcsOfLast(body) ==
    <<body[1] \div FirstRadix, body[1] % FirstRadix>> \o SelectSeq(Tail(body), LAMBDA b : b < Radix)

\* The arcs of an OID after its first n bytes, and the arc begun: it wraps at the
\* word, and is dropped if it has no end.
ArcsRead(body) ==
    LET read[n \in 1 .. Len(body)] ==
            IF n = 1
            THEN [arcs |-> <<body[1] \div FirstRadix, body[1] % FirstRadix>>, value |-> 0]
            ELSE LET v == ((read[n - 1].value * Radix) % Power[WordBits]) + (body[n] % Radix)
                 IN  IF body[n] < Radix
                     THEN [arcs |-> Append(read[n - 1].arcs, v), value |-> 0]
                     ELSE [arcs |-> read[n - 1].arcs, value |-> v]
    IN  read

Arcs(body) == ArcsRead(body)[Len(body)].arcs

\* pkix::decode_oid.
DecodeOid(body) == IF body = <<>> THEN Fail("Pkix") ELSE Fine(Arcs(body))

\* The next TLV of data, which must have this tag and, if full, a body.
Expect(t, data, tag, full) ==
    Then(ReadTlv(t, data), LAMBDA r :
        IF r.tag # tag \/ (full /\ r.body = <<>>) THEN Fail("Pkix") ELSE r)

\* The AlgorithmIdentifier and the BIT STRING of a key.
ParseParts(t, body) ==
    Then(Expect(t, body, SequenceTag, FALSE), LAMBDA alg :
    Then(Expect(t, alg.body, OidTag, FALSE), LAMBDA id :
    Then(DecodeOid(id.body), LAMBDA oid :
    Then(Expect(t, alg.rest, BitStringTag, TRUE), LAMBDA bits :
        [error |-> "none", oid |-> oid.value, key |-> Tail(bits.body)]))))

\* Mutated: what follows the SEQUENCE is not looked at.
ParseSpkiLoose(t, der) ==
    Then(Expect(t, der, SequenceTag, FALSE), LAMBDA s : ParseParts(t, s.body))

\* pkix::parse_spki: the OID and the key of one SEQUENCE with nothing behind it.
ParseSpki(t, der) ==
    Then(Expect(t, der, SequenceTag, FALSE), LAMBDA s :
        IF s.rest # <<>> THEN Fail("Pkix") ELSE ParseParts(t, s.body))

-----------------------------------------------------------------------------
(* Public keys.                                                             *)

\* A key: its kind and its part, or its X25519 part and its ML-KEM part.
PublicKey(kind, parts) == [kind |-> kind, parts |-> parts]

IsPublicKey(k) ==
    /\ k = PublicKey(k.kind, k.parts)
    /\ k.kind \in KeyKinds /\ k.parts \in Seq(Seq(Octet))
    /\ Len(k.parts) = (IF k.kind \in HybridKinds THEN 2 ELSE 1)
    /\ k.kind \in HybridKinds => Len(k.parts[1]) = XSize
    /\ Len(k.parts[Len(k.parts)]) = KeySize[k.kind]

\* marshal_public_key and the marshal_spki of mlkem.rs and pqsig.rs.
MarshalPublicKey(k) ==
    Spki(KeyOid[k.kind],
         IF k.kind \in HybridKinds
         THEN Tlv(SequenceTag, BitString(k.parts[1]) \o BitString(k.parts[2]))
         ELSE k.parts[1])

\* mlkem::parse_composite.
ParseComposite(t, data) ==
    Then(Expect(t, data, SequenceTag, FALSE), LAMBDA s :
    Then(Expect(t, s.body, BitStringTag, TRUE), LAMBDA x :
        IF Len(Tail(x.body)) # XSize THEN Fail("Pkix")
        ELSE Then(Expect(t, x.rest, BitStringTag, TRUE), LAMBDA ek :
                Fine(<<Tail(x.body), Tail(ek.body)>>))))

\* What the bits of a key of this kind are.
ParseBits(t, kind, key) ==
    IF kind \in HybridKinds THEN ParseComposite(t, key) ELSE Fine(<<key>>)

\* parse_public_key and the try_parse of mlkem.rs and pqsig.rs: the OID says what
\* the bits are.  The kinds that purecrypto parses are left out.
ParsePublicKey(t, der) ==
    Then(ParseSpki(t, der), LAMBDA s :
        LET found == {k \in KeyKinds : KeyOid[k] = s.oid}
            kind  == CHOOSE k \in found : TRUE
        IN  IF found = {} THEN Fail("Pkix")
            ELSE Then(ParseBits(t, kind, s.key), LAMBDA p :
                    IF Len(p.value[Len(p.value)]) # KeySize[kind] THEN Fail("Pkix")
                    ELSE Fine(PublicKey(kind, p.value))))

-----------------------------------------------------------------------------
(* ML-KEM private keys in a keychain.                                       *)

IsPrivateKey(k) ==
    /\ k \in [variant : Variants, dk : Seq(Octet), x : Seq(Seq(Octet))]
    /\ Len(k.dk) = DkSize[k.variant]
    /\ k.x # <<>> => Len(k.x) = 1 /\ Len(k.x[1]) = XSize

\* MlKemPrivate::to_key_bytes; x is an optional scalar.
ToKeyBytes(k) ==
    <<k.variant, Len(k.x)>> \o k.dk \o (IF k.x = <<>> THEN <<>> ELSE k.x[1])

\* Mutated: the decapsulation key is taken at any length.
FromKeyBytesUnsized(data) ==
    LET n == IF data[2] # 0 THEN XSize ELSE 0
    IN  IF Len(data) < 2 \/ data[1] \notin Variants \/ Len(data) < 2 + n
        THEN Fail("Malformed")
        ELSE Fine([variant |-> data[1], dk |-> SubSeq(data, 3, Len(data) - n),
                   x |-> IF n = 0 THEN <<>> ELSE <<SubSeq(data, Len(data) - n + 1, Len(data))>>])

\* MlKemPrivate::from_key_bytes: any second byte but 0 stands for a hybrid key.
FromKeyBytes(data) ==
    LET n == IF data[2] # 0 THEN XSize ELSE 0
    IN  IF Len(data) < 2 \/ data[1] \notin Variants \/ Len(data) # 2 + n + DkSize[data[1]]
        THEN Fail("Malformed")
        ELSE Fine([variant |-> data[1], dk |-> SubSeq(data, 3, Len(data) - n),
                   x |-> IF n = 0 THEN <<>> ELSE <<SubSeq(data, Len(data) - n + 1, Len(data))>>])
=============================================================================
