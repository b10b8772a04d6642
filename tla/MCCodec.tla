------------------------------ MODULE MCCodec -------------------------------
(***************************************************************************)
(* Codec for TLC, with two bits in a group: bytes 0 to 7, a word of nine   *)
(* bits whose last, fifth byte has one, a narrow usize of six, which a DER *)
(* length of two bytes fills.                                              *)
(***************************************************************************)
EXTENDS Codec

LOCAL INSTANCE SequencesExt

Narrow  == [bits |-> 6, checked |-> FALSE]
Wide    == [bits |-> 9, checked |-> FALSE]
Checked == [bits |-> 9, checked |-> TRUE]

MCTargets == {Narrow, Wide, Checked}

Bytes(n, b) == [i \in 1 .. n |-> b]

MCEphemeral == Bytes(5, 1)
MCKemText   == Bytes(6, 4)
MCNonce     == Bytes(2, 6)
MCSealed    == Bytes(4, 7)

\* The arcs of an OID take one byte, two bytes, and three.
MCKinds   == {"X25519", "MlKem768", "MlKem1024", "Hybrid768", "Hybrid1024", "MlDsa"}
MCHybrids == {"Hybrid768", "Hybrid1024"}
MCOid ==
    [k \in MCKinds |->
        CASE k = "X25519"     -> <<1, 1, 9>>
          [] k = "MlKem768"   -> <<2, 1, 5, 2>>
          [] k = "MlKem1024"  -> <<2, 1, 5, 3>>
          [] k = "Hybrid768"  -> <<1, 1, 60, 1>>
          [] k = "Hybrid1024" -> <<1, 1, 60, 2>>
          [] k = "MlDsa"      -> <<1, 1, 13, 2>>]
MCKeySize ==
    [k \in MCKinds |-> CASE k = "X25519" -> 3
                         [] k \in {"MlKem768", "Hybrid768"} -> 4
                         [] k = "MlDsa" -> 2
                         [] OTHER -> 6]
MCDkSize == [v \in {0, 1} |-> 2 + v]

Part(n) == [i \in 1 .. n |-> (3 * i) % 8]

MCPublic ==
    {PublicKey(k, IF k \in MCHybrids THEN <<Bytes(3, 5), Part(MCKeySize[k])>>
                  ELSE <<Part(MCKeySize[k])>>) : k \in MCKinds}

MCPrivate ==
    {[variant |-> v, dk |-> Part(MCDkSize[v]), x |-> x] :
        v \in {0, 1}, x \in {<<>>, <<Bytes(3, 5)>>}}

\* Header keys of one length and of another; the values tell the entries apart.
MCEntries == {<<<<1>>, "a">>, <<<<2>>, "b">>, <<<<1, 3>>, "c">>, <<<<1, 0>>, "d">>}

MCThings ==
    {[what |-> "uvarint", value |-> v] : v \in {0, 3, 4, 17, 255, 256, 511}}
      \cup {[what |-> "envelope", value |-> k] : k \in EnvelopeKinds}
      \cup {[what |-> "public", value |-> k] : k \in MCPublic}
      \cup {[what |-> "private", value |-> k] : k \in MCPrivate}
      \cup {[what |-> "map", value |-> m] : m \in SetToSeqs(MCEntries)}
      \cup {[what |-> "value", value |-> v] : v \in {<<>>, <<1, 2>>}}

\* Every string of up to two bytes, and longer ones of a last group of one, a
\* continued zero and a continued three, with every last byte a word may be given:
\* the limits of a word, of a chunk and of a DER length are among them, and more
\* bytes than a word has.
MCJunk ==
    UNION {[1 .. n -> 0 .. 7] : n \in 0 .. 2}
      \cup UNION {[1 .. n -> {1, 4, 7}] : n \in 3 .. 6}
      \cup {<<4, 7, 7, 4, b>> : b \in 0 .. 7}
=============================================================================
