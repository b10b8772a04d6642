---------------------------- MODULE LayerProofs ----------------------------
(***************************************************************************)
(* Lemmas about layers and about the verdict on a bottle that the proofs   *)
(* of the write side, of the read side and of their composition share.     *)
(***************************************************************************)
EXTENDS OpenVerdict, FiniteSetTheorems, WellFoundedInduction, SequenceTheorems, TLAPS

\* A layer is its five fields, and updating some of them gives a layer again.
LEMMA LayerFields ==
    ASSUME NEW b \in Layer
    PROVE  /\ b = [header |-> b.header, message |-> b.message, format |-> b.format,
                   recipients |-> b.recipients, signatures |-> b.signatures]
           /\ b.header \in Header /\ b.message \in Message /\ b.format \in Formats
           /\ b.recipients \in OptionOf(Slot) /\ b.signatures \in OptionOf(Signature)
           /\ b.recipients.list \in Seq(Slot) /\ b.signatures.list \in Seq(Signature)
  BY DEF Layer, OptionOf

\* A layer read back from JSON is a layer; the message, the format, the
\* signatures and the slots come back as they went.
LEMMA JsonTripFields ==
    ASSUME NEW b \in Layer
    PROVE  /\ JsonTrip(b) \in Layer
           /\ JsonTrip(b).message = b.message
           /\ JsonTrip(b).format = b.format
           /\ JsonTrip(b).recipients.list = b.recipients.list
           /\ JsonTrip(b).signatures.list = b.signatures.list
<1> DEFINE c == JsonTrip(b)
<1>1. /\ c.header = [h \in HeaderKeys |-> JsonKind(b.header[h])]
      /\ c.message = b.message /\ c.format = b.format
      /\ c.recipients = JsonOption(b.recipients)
      /\ c.signatures = JsonOption(b.signatures)
      /\ c = [header |-> c.header, message |-> c.message, format |-> c.format,
              recipients |-> c.recipients, signatures |-> c.signatures]
  BY DEF JsonTrip
<1>2. c.header \in Header
  BY <1>1 DEF Header, JsonKind, AllHeaderKinds, Layer
<1>3. /\ c.recipients \in OptionOf(Slot) /\ c.recipients.list = b.recipients.list
      /\ c.signatures \in OptionOf(Signature) /\ c.signatures.list = b.signatures.list
  BY <1>1 DEF JsonOption, None, OptionOf, Layer
<1> HIDE DEF c
<1>4. c \in Layer
  BY <1>1, <1>2, <1>3 DEF Layer
<1> QED
  BY <1>1, <1>3, <1>4 DEF c

\* So a nested bottle decodes as a layer with the same message.
LEMMA DecodedFromFields ==
    ASSUME NEW b \in Layer, NEW enc
    PROVE  DecodedFrom(enc, b) \in Layer /\ DecodedFrom(enc, b).message = b.message
  BY JsonTripFields DEF DecodedFrom

-----------------------------------------------------------------------------
(* First and last indices.                                                  *)

LEMMA LeastNumber ==
    ASSUME NEW S \in SUBSET Nat, S # {}
    PROVE  \E i \in S : \A j \in S : i <= j
<1> DEFINE R == {ss \in Nat \X Nat : ss[1] < ss[2]}
<1>1. IsWellFoundedOn(R, Nat)
  BY NatLessThanWellFounded DEF OpToRel
<1>2. PICK i \in S : \A j \in S : ~ (<<j, i>> \in R)
  <2> HIDE DEF R
  <2> QED
    BY <1>1, WFMin
<1>3. ASSUME NEW j \in S
      PROVE  i <= j
  <2>1. i \in Nat /\ j \in Nat /\ <<j, i>> \notin R
    BY <1>2
  <2>2. j < i => <<j, i>> \in R
    BY <2>1, Zenon
  <2> QED
    BY <2>1, <2>2
<1> QED
  BY <1>3

LEMMA FirstOfLeast ==
    ASSUME NEW S \in SUBSET Nat, S # {}
    PROVE  FirstOf(S) \in S /\ \A j \in S : FirstOf(S) <= j
  BY LeastNumber DEF FirstOf

LEMMA FirstOfIs ==
    ASSUME NEW S \in SUBSET Nat, NEW i \in S, \A j \in S : i <= j
    PROVE  FirstOf(S) = i
<1>1. FirstOf(S) \in S /\ FirstOf(S) <= i /\ i <= FirstOf(S)
  BY FirstOfLeast
<1>2. \A a, b \in Nat : a <= b /\ b <= a => a = b
  OBVIOUS
<1> QED
  BY <1>1, <1>2, Zenon

LEMMA LastOfIs ==
    ASSUME NEW S \in SUBSET Nat, NEW i \in S, \A j \in S : j <= i
    PROVE  LastOf(S) = i
<1>1. LastOf(S) \in S /\ LastOf(S) <= i /\ i <= LastOf(S)
  BY DEF LastOf
<1>2. \A a, b \in Nat : a <= b /\ b <= a => a = b
  OBVIOUS
<1> QED
  BY <1>1, <1>2, Zenon

-----------------------------------------------------------------------------
(* The signatures of the layers, joined.                                    *)

\* The equation that defines Joined has a solution, up to any n.
LEMMA JoinedExists ==
    ASSUME NEW lists, NEW N \in Nat
    PROVE  \E g : g = [m \in 0 .. N |-> IF m = 0 THEN <<>> ELSE g[m - 1] \o lists[m]]
<1> DEFINE Eq(g, n) == g = [m \in 0 .. n |-> IF m = 0 THEN <<>> ELSE g[m - 1] \o lists[m]]
           bad == {n \in Nat : ~ \E g : Eq(g, n)}
<1>1. ASSUME bad # {}
      PROVE  FALSE
  <2>1. bad \in SUBSET Nat
    OBVIOUS
  <2>2. PICK n \in bad : \A m \in bad : n <= m
    <3> HIDE DEF bad
    <3> QED
      BY <1>1, <2>1, LeastNumber
  <2>3. CASE n = 0
    <3>1. Eq([m \in 0 .. 0 |-> <<>>], 0)
      OBVIOUS
    <3> QED
      BY <2>3, <3>1
  <2>4. CASE n # 0
    <3>1. n \in Nat /\ n - 1 \in Nat /\ ~(n <= n - 1)
      BY <2>4
    <3>1a. n - 1 \notin bad
      <4> HIDE DEF bad
      <4> QED
        BY <2>2, <3>1
    <3>2. PICK g : Eq(g, n - 1)
      BY <3>1, <3>1a
    <3> DEFINE f == [m \in 0 .. n |-> IF m = n THEN g[n - 1] \o lists[n] ELSE g[m]]
    <3>3. \A m \in 0 .. n - 1 : f[m] = g[m]
      BY <3>1
    <3>4. ASSUME NEW m \in 0 .. n
          PROVE  f[m] = IF m = 0 THEN <<>> ELSE f[m - 1] \o lists[m]
      <4>1. CASE m = n
        BY <2>4, <3>1, <3>3, <4>1
      <4>2. CASE m # n
        <5>1. m \in 0 .. n - 1 /\ (m # 0 => m - 1 \in 0 .. n - 1)
          BY <3>1, <4>2
        <5>2. g[m] = IF m = 0 THEN <<>> ELSE g[m - 1] \o lists[m]
          BY <3>2, <5>1
        <5> HIDE DEF f
        <5> QED
          BY <3>3, <5>1, <5>2
      <4> QED
        BY <4>1, <4>2
    <3>5. f = [m \in 0 .. n |-> f[m]]
      OBVIOUS
    <3>6. Eq(f, n)
      <4> HIDE DEF f
      <4> QED
        BY <3>4, <3>5
    <3> QED
      BY <2>2, <3>6
  <2> QED
    BY <2>3, <2>4
<1> QED
  BY <1>1

LEMMA JoinedStep ==
    ASSUME NEW layers, Len(layers) \in Nat
    PROVE  /\ Joined(layers)[0] = <<>>
           /\ \A n \in 1 .. Len(layers) :
                 Joined(layers)[n] = Joined(layers)[n - 1] \o layers[n].signatures.list
<1> DEFINE N     == Len(layers)
           lists == [m \in 1 .. N |-> layers[m].signatures.list]
           Eq(g) == g = [m \in 0 .. N |-> IF m = 0 THEN <<>>
                                          ELSE g[m - 1] \o layers[m].signatures.list]
           h     == CHOOSE g : Eq(g)
<1>1. PICK g : g = [m \in 0 .. N |-> IF m = 0 THEN <<>> ELSE g[m - 1] \o lists[m]]
  <2> HIDE DEF lists
  <2> QED
    BY JoinedExists
<1>2. Eq(g)
  <2>1. \A m \in 0 .. N : m # 0 => lists[m] = layers[m].signatures.list
    OBVIOUS
  <2> HIDE DEF lists
  <2> QED
    BY <1>1, <2>1
<1>3. Eq(h)
  <2> HIDE DEF Eq
  <2> QED
    BY <1>2
<1>4. Joined(layers) = h
  BY DEF Joined
<1> HIDE DEF h
<1>5. \A n \in 1 .. N : n \in 0 .. N /\ n # 0
  OBVIOUS
<1> QED
  BY <1>3, <1>4, <1>5

\* The signatures joined are those of the layers, all of them and no other.
LEMMA JoinedRange ==
    ASSUME NEW X, NEW layers, Len(layers) \in Nat,
           \A m \in 1 .. Len(layers) : layers[m].signatures.list \in Seq(X)
    PROVE  \A n \in 0 .. Len(layers) :
              /\ Joined(layers)[n] \in Seq(X)
              /\ Range(Joined(layers)[n])
                    = UNION {Range(layers[m].signatures.list) : m \in 1 .. n}
<1> DEFINE N   == Len(layers)
           J   == Joined(layers)
           bad == {n \in 0 .. N :
                      ~ /\ J[n] \in Seq(X)
                        /\ Range(J[n]) = UNION {Range(layers[m].signatures.list) : m \in 1 .. n}}
<1>1. ASSUME bad # {}
      PROVE  FALSE
  <2>1. bad \in SUBSET Nat
    OBVIOUS
  <2>2. PICK n \in bad : \A m \in bad : n <= m
    <3> HIDE DEF bad
    <3> QED
      BY <1>1, <2>1, LeastNumber
  <2>3. CASE n = 0
    <3>1. J[0] = <<>>
      BY JoinedStep
    <3>2. J[0] \in Seq(X) /\ Range(J[0]) = {}
      BY <3>1 DEF Range
    <3>3. {Range(layers[m].signatures.list) : m \in 1 .. 0} = {}
      OBVIOUS
    <3> HIDE DEF J
    <3> QED
      BY <2>2, <2>3, <3>2, <3>3
  <2>4. CASE n # 0
    <3> DEFINE list == layers[n].signatures.list
    <3>1. n \in 1 .. N /\ n - 1 \in 0 .. N /\ ~(n <= n - 1)
      BY <2>4
    <3>1a. n - 1 \notin bad
      <4> HIDE DEF bad
      <4> QED
        BY <2>2, <3>1
    <3>2. /\ J[n - 1] \in Seq(X)
          /\ Range(J[n - 1]) = UNION {Range(layers[m].signatures.list) : m \in 1 .. n - 1}
      BY <3>1, <3>1a
    <3>3. J[n] = J[n - 1] \o list /\ list \in Seq(X)
      BY <3>1, JoinedStep
    <3> HIDE DEF J, list
    <3>4. J[n] \in Seq(X) /\ Range(J[n]) = Range(J[n - 1]) \cup Range(list)
      BY <3>2, <3>3, RangeConcatenation
    <3>5. 1 .. n = (1 .. n - 1) \cup {n}
      BY <3>1
    <3>6. UNION {Range(layers[m].signatures.list) : m \in 1 .. n}
             = (UNION {Range(layers[m].signatures.list) : m \in 1 .. n - 1}) \cup Range(list)
      BY <3>5, Zenon DEF list
    <3> QED
      BY <2>2, <3>2, <3>4, <3>6
  <2> QED
    BY <2>3, <2>4
<1> QED
  BY <1>1

-----------------------------------------------------------------------------
(* The verdict.                                                             *)

\* The layer that ends a call is the first that does.
LEMMA VerdictIs ==
    ASSUME NEW b, NEW keys, Len(b.nested) \in Nat,
           NEW n \in 1 .. Len(b.nested) + 1,
           Ends(Decoded(b)[n], keys),
           \A m \in 1 .. n - 1 : ~Ends(Decoded(b)[m], keys)
    PROVE  Verdict(b, keys) = AnswerAt(Decoded(b), n, keys)
<1> DEFINE layers == Decoded(b)
           S      == {m \in DOMAIN layers : Ends(layers[m], keys)}
<1>1. DOMAIN layers = 1 .. Len(b.nested) + 1
  BY DEF Decoded
<1>2. n \in S /\ S \in SUBSET Nat
  BY <1>1
<1>3. ASSUME NEW m \in S
      PROVE  n <= m
  <2>1. m \in Nat /\ n \in Nat /\ m >= 1 /\ m \notin 1 .. n - 1
    BY <1>1
  <2> HIDE DEF S
  <2> QED
    BY <2>1
<1>4. FirstOf(S) = n
  <2> HIDE DEF S
  <2> QED
    BY <1>2, <1>3, FirstOfIs
<1> QED
  BY <1>4 DEF Verdict

\* If a layer ends the call, there is a first that does.
LEMMA FirstEnds ==
    ASSUME NEW b, NEW keys, Len(b.nested) \in Nat,
           NEW e \in 1 .. Len(b.nested) + 1, Ends(Decoded(b)[e], keys)
    PROVE  \E n \in 1 .. e : /\ Ends(Decoded(b)[n], keys)
                             /\ \A m \in 1 .. n - 1 : ~Ends(Decoded(b)[m], keys)
<1> DEFINE S == {m \in 1 .. e : Ends(Decoded(b)[m], keys)}
<1>1. S \in SUBSET Nat /\ S # {}
  OBVIOUS
<1>2. PICK n \in S : \A m \in S : n <= m
  <2> HIDE DEF S
  <2> QED
    BY <1>1, LeastNumber
<1>3. ASSUME NEW m \in 1 .. n - 1
      PROVE  ~Ends(Decoded(b)[m], keys)
  <2>1. m \in 1 .. e /\ ~(n <= m)
    OBVIOUS
  <2> QED
    BY <1>2, <2>1
<1> QED
  BY <1>2, <1>3

\* A layer that ends in no error over its signatures has only good ones.
LEMMA NoneFailing ==
    ASSUME NEW l, SignaturesError(l) = "none",
           DOMAIN l.signatures.list \in SUBSET Nat
    PROVE  Failing(l) = {}
<1>1. ASSUME Failing(l) # {}
      PROVE  FALSE
  <2>1. Failing(l) \in SUBSET Nat
    BY DEF Failing
  <2>2. FirstOf(Failing(l)) \in Failing(l)
    BY <1>1, <2>1, FirstOfLeast
  <2> QED
    BY <1>1, <2>2 DEF SignaturesError, Failing, Verifies
<1> QED
  BY <1>1

LEMMA NoneFailingError ==
    ASSUME NEW l, Failing(l) = {}
    PROVE  SignaturesError(l) = "none"
  BY DEF SignaturesError

\* A layer that the call goes past, or that it ends well in, has no error.
LEMMA PastLayer ==
    ASSUME NEW l, NEW keys, LayerError(l, keys) = "none"
    PROVE  SignaturesError(l) = "none"
  BY DEF LayerError

\* A call that succeeds ends in a layer of clear text, all of whose signatures
\* verify like those of the layers before it.
LEMMA SuccessAt ==
    ASSUME NEW layers, NEW n, NEW keys, Ends(layers[n], keys),
           AnswerAt(layers, n, keys).error = "none"
    PROVE  /\ LayerError(layers[n], keys) = "none"
           /\ layers[n].format = "ClearText"
           /\ AnswerAt(layers, n, keys).payload = layers[n].message
           /\ AnswerAt(layers, n, keys).signatures = Joined(layers)[n]
           /\ AnswerAt(layers, n, keys).bottles = SubSeq(layers, 1, n)
  BY DEF AnswerAt, Failure, Ends

-----------------------------------------------------------------------------
(* The layers of a bottle.                                                  *)

\* They are layers, and each is decoded from the message of the one before it.
LEMMA DecodedChain ==
    ASSUME NEW b \in Box
    PROVE  /\ b.nested \in Seq(Layer) /\ Holds(b.bottle, b.nested)
           /\ Len(b.nested) \in Nat
           /\ Decoded(b) \in Seq(Layer) /\ Len(Decoded(b)) = Len(b.nested) + 1
           /\ Decoded(b)[1] = b.bottle
           /\ \A i \in 1 .. Len(b.nested) :
                 Decoded(b)[i + 1] = DecodedFrom(Decoded(b)[i].message.enc, b.nested[i])
<1> DEFINE N      == Len(b.nested)
           layers == Decoded(b)
           outer(i) == IF i = 2 THEN b.bottle ELSE b.nested[i - 2]
<1>1. b.bottle \in Layer /\ b.nested \in Seq(Layer) /\ N \in Nat /\ Holds(b.bottle, b.nested)
  BY DEF Box
<1>2. /\ layers = [i \in 1 .. N + 1 |->
                     IF i = 1 THEN b.bottle
                     ELSE DecodedFrom(outer(i).message.enc, b.nested[i - 1])]
  BY DEF Decoded
<1> HIDE DEF layers
<1>3. /\ layers[1] = b.bottle
      /\ \A i \in 2 .. N + 1 : layers[i] = DecodedFrom(outer(i).message.enc, b.nested[i - 1])
      /\ DOMAIN layers = 1 .. N + 1
  <2> HIDE DEF outer
  <2> QED
    BY <1>1, <1>2
<1>4. \A i \in 1 .. N : b.nested[i] \in Layer
  BY <1>1
<1>5. ASSUME NEW i \in 2 .. N + 1
      PROVE  layers[i] \in Layer /\ layers[i].message = b.nested[i - 1].message
  <2>1. b.nested[i - 1] \in Layer
    BY <1>1, <1>4
  <2> HIDE DEF outer
  <2> QED
    BY <1>3, <2>1, DecodedFromFields
<1>6. \A i \in 1 .. N + 1 : layers[i] \in Layer
  <2> TAKE i \in 1 .. N + 1
  <2>1. i = 1 \/ i \in 2 .. N + 1
    BY <1>1
  <2> QED
    BY <1>1, <1>3, <1>5, <2>1
<1>7. layers \in Seq(Layer) /\ Len(layers) = N + 1
  <2>1. layers = [i \in 1 .. N + 1 |-> layers[i]]
    <3> HIDE DEF outer
    <3> QED
      BY <1>2
  <2>2. layers \in [1 .. N + 1 -> Layer]
    BY <1>6, <2>1
  <2> QED
    BY <1>1, <2>2
<1>8. ASSUME NEW i \in 1 .. N
      PROVE  layers[i + 1] = DecodedFrom(layers[i].message.enc, b.nested[i])
  <2>1. i + 1 \in 2 .. N + 1 /\ (i + 1) - 1 = i /\ (i + 1) - 2 = i - 1
    BY <1>1
  <2>2. outer(i + 1).message = layers[i].message
    <3>1. CASE i = 1
      BY <1>3, <3>1
    <3>2. CASE i # 1
      <4>1. i \in 2 .. N + 1
        BY <1>1, <3>2
      <4>2. outer(i + 1) = b.nested[i - 1]
        BY <2>1, <3>2
      <4> QED
        BY <1>5, <4>1, <4>2
    <3> QED
      BY <3>1, <3>2
  <2> HIDE DEF outer
  <2> QED
    BY <1>3, <2>1, <2>2
<1> QED
  BY <1>1, <1>3, <1>7, <1>8 DEF layers

\* How many layers are sealed.
LEMMA SealedCount ==
    ASSUME NEW layers
    PROVE  /\ Cardinality(SealedLayers(layers, 0)) = 0
           /\ \A n \in Nat \ {0} :
                 /\ Cardinality(SealedLayers(layers, n - 1)) \in Nat
                 /\ Cardinality(SealedLayers(layers, n))
                       = Cardinality(SealedLayers(layers, n - 1))
                            + (IF layers[n].format = "Aes" THEN 1 ELSE 0)
<1>1. SealedLayers(layers, 0) = {}
  BY DEF SealedLayers
<1>2. Cardinality(SealedLayers(layers, 0)) = 0
  BY <1>1, FS_EmptySet
<1>3. ASSUME NEW n \in Nat \ {0}
      PROVE  /\ Cardinality(SealedLayers(layers, n - 1)) \in Nat
             /\ Cardinality(SealedLayers(layers, n))
                   = Cardinality(SealedLayers(layers, n - 1))
                        + (IF layers[n].format = "Aes" THEN 1 ELSE 0)
  <2> DEFINE S == SealedLayers(layers, n - 1)
  <2>1. S \subseteq 1 .. n - 1
    BY DEF SealedLayers
  <2>2. IsFiniteSet(1 .. n - 1)
    BY FS_Interval
  <2>3. IsFiniteSet(S) /\ Cardinality(S) \in Nat
    BY <2>1, <2>2, FS_Subset, FS_CardinalityType
  <2>4. n \notin S
    BY <2>1
  <2>5. SealedLayers(layers, n) = IF layers[n].format = "Aes" THEN S \cup {n} ELSE S
    BY DEF SealedLayers
  <2> HIDE DEF S
  <2>6. Cardinality(S \cup {n}) = Cardinality(S) + 1
    BY <2>3, <2>4, FS_AddElement
  <2> QED
    BY <2>3, <2>5, <2>6 DEF S
<1> QED
  BY <1>2, <1>3
=============================================================================
