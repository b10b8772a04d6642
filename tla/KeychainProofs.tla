--------------------------- MODULE KeychainProofs ---------------------------
(***************************************************************************)
(* Proofs about Keychain, for every set of keys and passwords: the default *)
(* signer is the first signing key that came in, however the keychain came *)
(* about, and bytes that nobody changed give all of their keys, or under   *)
(* another password an error.                                              *)
(***************************************************************************)
EXTENDS Keychain, FiniteSetTheorems, WellFoundedInduction, SequenceTheorems, TLAPS

-----------------------------------------------------------------------------
(* The loop of deserialize: the signer after the last entry.                *)

LEMMA LeastNumber ==
    ASSUME NEW S \in SUBSET Nat, S # {}
    PROVE  \E i \in S : \A j \in S : i <= j
<1> DEFINE R == {ss \in Nat \X Nat : ss[1] < ss[2]}
<1>1. IsWellFoundedOn(R, Nat)
    BY NatLessThanWellFounded DEF OpToRel
<1>2. PICK i \in S : \A j \in S : ~ (<<j, i>> \in R)
  <2> HIDE DEF R
  <2>. QED
      BY <1>1, WFMin
<1>3. ASSUME NEW j \in S PROVE i <= j
  <2>1. i \in Nat /\ j \in Nat /\ <<j, i>> \notin R
      BY <1>2
  <2>2. j < i => <<j, i>> \in R
      BY <2>1, Zenon
  <2>. QED
      BY <2>1, <2>2
<1>. QED
    BY <1>3

\* The first index of a key that signs.
IsFirst(list, i) ==
    i \in DOMAIN list /\ CanSign(list[i]) /\ \A j \in 1 .. i - 1 : ~CanSign(list[j])

LEMMA FirstExists ==
    ASSUME NEW list \in Seq(PrivateKeys), NEW n \in DOMAIN list, CanSign(list[n])
    PROVE  \E i \in 1 .. n : IsFirst(list, i)
<1> DEFINE S == {i \in DOMAIN list : CanSign(list[i])}
<1>1. S \in SUBSET Nat /\ n \in S
    OBVIOUS
<1>2. PICK i \in S : \A j \in S : i <= j
    BY <1>1, LeastNumber
<1>3. \A j \in 1 .. i - 1 : ~CanSign(list[j])
    BY <1>2
<1>. QED
    BY <1>1, <1>2, <1>3 DEF IsFirst

LEMMA FirstUnique ==
    ASSUME NEW list \in Seq(PrivateKeys), NEW i, NEW j, IsFirst(list, i), IsFirst(list, j)
    PROVE  i = j
BY DEF IsFirst

\* The signer after the first n keys of a list, as the loop has it.
SignerAt(list, n) ==
    IF \E i \in 1 .. n : CanSign(list[i])
    THEN list[CHOOSE i \in DOMAIN list : IsFirst(list, i)]
    ELSE NoSigner

LEMMA SignerAtStep ==
    ASSUME NEW list \in Seq(PrivateKeys), NEW n \in DOMAIN list
    PROVE  SignerAt(list, n) = SignerAfter(SignerAt(list, n - 1), list[n])
<1> DEFINE first == CHOOSE i \in DOMAIN list : IsFirst(list, i)
<1>1. CASE \E i \in 1 .. n - 1 : CanSign(list[i])
  <2>1. PICK i \in 1 .. n - 1 : CanSign(list[i])
      BY <1>1
  <2>2. i \in DOMAIN list
      BY <2>1
  <2>3. first \in DOMAIN list
      BY <2>1, <2>2, FirstExists DEF IsFirst
  <2>4. list[first] # NoSigner
      BY <2>3, SignerAssumption DEF PrivateKeys, PublicKeys
  <2>5. SignerAt(list, n) = list[first] /\ SignerAt(list, n - 1) = list[first]
      BY <1>1 DEF SignerAt
  <2>. QED
      BY <2>4, <2>5 DEF SignerAfter
<1>2. CASE CanSign(list[n]) /\ ~ \E i \in 1 .. n - 1 : CanSign(list[i])
  <2>1. IsFirst(list, n)
      BY <1>2 DEF IsFirst
  <2>2. first = n
      BY <2>1, FirstUnique DEF IsFirst
  <2>3. SignerAt(list, n - 1) = NoSigner
      BY <1>2 DEF SignerAt
  <2>4. n \in 1 .. n /\ CanSign(list[n])
      BY <1>2
  <2>5. SignerAt(list, n) = list[n]
      BY <2>2, <2>4, Zenon DEF SignerAt
  <2>. QED
      BY <1>2, <2>3, <2>5 DEF SignerAfter
<1>3. CASE ~ \E i \in 1 .. n : CanSign(list[i])
  <2>1. SignerAt(list, n) = NoSigner /\ SignerAt(list, n - 1) = NoSigner
      BY <1>3 DEF SignerAt
  <2>2. ~CanSign(list[n])
      BY <1>3
  <2>. QED
      BY <2>1, <2>2 DEF SignerAfter
<1>. QED
    BY <1>1, <1>2, <1>3

\* What the loop computes: one step after the other is the signer at the end.
LEMMA SignerOfIsSignerAt ==
    ASSUME NEW list \in Seq(PrivateKeys)
    PROVE  SignerOf(list) = SignerAt(list, Len(list))
<1> DEFINE N     == Len(list)
           Eq(g) == g = [n \in 0 .. N |-> IF n = 0 THEN NoSigner
                                          ELSE SignerAfter(g[n - 1], list[n])]
           w     == [n \in 0 .. N |-> SignerAt(list, n)]
           h     == CHOOSE g : Eq(g)
<1>1. Eq(w)
  <2>1. SignerAt(list, 0) = NoSigner
      BY DEF SignerAt
  <2>2. \A n \in 0 .. N : n # 0 => /\ n - 1 \in 0 .. N
                                   /\ SignerAt(list, n) = SignerAfter(w[n - 1], list[n])
      BY SignerAtStep
  <2>. QED
      BY <2>1, <2>2
<1>2. Eq(h)
    BY <1>1
<1>3. SignerOf(list) = h[N]
    BY DEF SignerOf
<1>4. \A n \in 0 .. N : h[n] = w[n]
  <2> DEFINE bad == {n \in 0 .. N : h[n] # w[n]}
  <2>1. ASSUME bad # {} PROVE FALSE
    <3>1. bad \in SUBSET Nat
        OBVIOUS
    <3>2. PICK n \in bad : \A m \in bad : n <= m
        BY <2>1, <3>1, LeastNumber
    <3>3. h[n] = IF n = 0 THEN NoSigner ELSE SignerAfter(h[n - 1], list[n])
        BY <1>2
    <3>4. w[n] = IF n = 0 THEN NoSigner ELSE SignerAfter(w[n - 1], list[n])
        BY <1>1
    <3>5. n # 0 => h[n - 1] = w[n - 1]
        BY <3>2
    <3>. QED
        BY <3>2, <3>3, <3>4, <3>5
  <2>. QED
      BY <2>1
<1>. QED
    BY <1>3, <1>4

LEMMA SignerAtIsFirst ==
    ASSUME NEW list \in Seq(PrivateKeys)
    PROVE  FirstToSign(SignerAt(list, Len(list)), list)
<1>1. DOMAIN list = 1 .. Len(list)
    OBVIOUS
<1>2. CASE \E i \in DOMAIN list : CanSign(list[i])
  <2>1. PICK i \in DOMAIN list : IsFirst(list, i)
      BY <1>2, FirstExists DEF IsFirst
  <2>2. (CHOOSE x \in DOMAIN list : IsFirst(list, x)) = i
      BY <2>1, FirstUnique
  <2>. QED
      BY <1>1, <1>2, <2>1, <2>2 DEF SignerAt, FirstToSign, IsFirst
<1>3. CASE ~ \E i \in DOMAIN list : CanSign(list[i])
    BY <1>1, <1>3 DEF SignerAt, FirstToSign
<1>. QED
    BY <1>2, <1>3

\* The keys of a list, added in turn, leave the first that signs.
LEMMA SignerOfIsFirst ==
    ASSUME NEW list \in Seq(PrivateKeys)
    PROVE  FirstToSign(SignerOf(list), list)
BY SignerOfIsSignerAt, SignerAtIsFirst

-----------------------------------------------------------------------------
(* The invariant: what the keychain and the serialized bytes are, given the *)
(* keys that came in and the keychain that was serialized.                  *)

\* The keys held are those that came in, and the signer is the first that signs.
KeysCameIn ==
    /\ keys = {added[i] : i \in DOMAIN added}
    /\ DefaultSignerCameFirst

\* Bytes that nobody changed are a container of the current format, and hold
\* every key of the keychain serialized.
IntactIsCurrent ==
    stored # Nothing /\ stored.intact =>
        /\ stored.framed
        /\ stored.version = FormatVersion
        /\ saved.keys = {stored.entries[i].payload : i \in DOMAIN stored.entries}

KeychainInv ==
    /\ TypeOK
    /\ KeysCameIn
    /\ IntactIsCurrent

-----------------------------------------------------------------------------
(* Lists and sets of keys.                                                  *)

LEMMA ListIsFinite ==
    ASSUME NEW list \in Seq(PrivateKeys)
    PROVE  IsFiniteSet({list[i] : i \in DOMAIN list})
<1> DEFINE T == {list[i] : i \in DOMAIN list}
           f == [i \in DOMAIN list |-> list[i]]
<1>1. IsFiniteSet(DOMAIN list)
    BY FS_Interval, 1 \in Int, Len(list) \in Int, DOMAIN list = 1 .. Len(list)
<1>2. f \in Surjection(DOMAIN list, T)
    BY DEF Surjection
<1>. QED
    BY <1>1, <1>2, FS_Surjection

\* An order in which a hash map is gone through meets every key, and no other.
LEMMA OrderIsList ==
    ASSUME NEW S \in SUBSET PrivateKeys, IsFiniteSet(S), NEW order \in Orders(S)
    PROVE  /\ order \in Seq(PrivateKeys)
           /\ {order[i] : i \in DOMAIN order} = S
<1>1. Cardinality(S) \in Nat
    BY FS_CardinalityType
<1>2. order \in [1 .. Cardinality(S) -> S] /\ \A k \in S : \E i \in 1 .. Cardinality(S) : order[i] = k
    BY DEF Orders
<1>. QED
    BY <1>1, <1>2

\* One key more at the end of a list.
LEMMA FirstOfAppend ==
    ASSUME NEW list \in Seq(PrivateKeys), NEW k \in PrivateKeys,
           NEW signer, FirstToSign(signer, list)
    PROVE  FirstToSign(SignerAfter(signer, k), Append(list, k))
<1> DEFINE n   == Len(list)
           new == Append(list, k)
<1>1. /\ n \in Nat
      /\ DOMAIN list = 1 .. n
      /\ DOMAIN new = 1 .. n + 1
      /\ new[n + 1] = k
      /\ \A i \in 1 .. n : new[i] = list[i]
    OBVIOUS
<1>. HIDE DEF n, new
<1>2. CASE \E i \in DOMAIN list : CanSign(list[i])
  <2>1. PICK i \in DOMAIN list : /\ signer = list[i] /\ CanSign(list[i])
                                 /\ \A j \in 1 .. i - 1 : ~CanSign(list[j])
      BY <1>2 DEF FirstToSign
  <2>2. signer # NoSigner
      BY <2>1, SignerAssumption DEF PrivateKeys, PublicKeys
  <2>3. i \in DOMAIN new /\ signer = new[i] /\ CanSign(new[i])
      BY <1>1, <2>1
  <2>4. \A j \in 1 .. i - 1 : ~CanSign(new[j])
      BY <1>1, <2>1
  <2>. QED
      BY <2>2, <2>3, <2>4 DEF FirstToSign, SignerAfter, new
<1>3. CASE CanSign(k) /\ ~ \E i \in DOMAIN list : CanSign(list[i])
  <2>1. signer = NoSigner
      BY <1>3 DEF FirstToSign
  <2>2. n + 1 \in DOMAIN new /\ k = new[n + 1] /\ \A j \in 1 .. n : ~CanSign(new[j])
      BY <1>1, <1>3
  <2>3. (n + 1) - 1 = n
      BY <1>1
  <2>4. SignerAfter(signer, k) = k
      BY <1>3, <2>1 DEF SignerAfter
  <2>. QED
      BY <1>3, <2>2, <2>3, <2>4 DEF FirstToSign, new
<1>4. CASE ~CanSign(k) /\ ~ \E i \in DOMAIN list : CanSign(list[i])
  <2>1. signer = NoSigner
      BY <1>4 DEF FirstToSign
  <2>2. ~ \E i \in DOMAIN new : CanSign(new[i])
      BY <1>1, <1>4
  <2>. QED
      BY <1>4, <2>1, <2>2 DEF FirstToSign, SignerAfter, new
<1>. QED
    BY <1>2, <1>3, <1>4

\* A key that came in before changes no signer.
LEMMA FirstAgain ==
    ASSUME NEW list \in Seq(PrivateKeys), NEW i \in DOMAIN list,
           NEW signer, FirstToSign(signer, list)
    PROVE  SignerAfter(signer, list[i]) = signer
<1>1. CASE CanSign(list[i])
  <2>1. PICK j \in DOMAIN list : signer = list[j]
      BY <1>1 DEF FirstToSign
  <2>2. signer # NoSigner
      BY <2>1, SignerAssumption DEF PrivateKeys, PublicKeys
  <2>. QED
      BY <2>2 DEF SignerAfter
<1>. QED
    BY <1>1 DEF SignerAfter

\* The signer of a list is a key of the list that signs, if there is one.
LEMMA FirstIsKey ==
    ASSUME NEW list \in Seq(PrivateKeys), NEW signer, FirstToSign(signer, list)
    PROVE  /\ signer \in PrivateKeys \cup {NoSigner}
           /\ signer # NoSigner => \E i \in DOMAIN list : signer = list[i] /\ CanSign(list[i])
           /\ (\E i \in DOMAIN list : CanSign(list[i])) => signer # NoSigner
BY SignerAssumption DEF FirstToSign, PrivateKeys, PublicKeys

-----------------------------------------------------------------------------
(* Entries.                                                                 *)

\* Whatever the kind of a private key, the entry it is written as reads back.
LEMMA EntryOfKeyReads ==
    ASSUME NEW k \in PrivateKeys
    PROVE  ToEntry(k) \in Entry /\ ToEntry(k).payload = k /\ EntryReads(ToEntry(k))
BY AlgorithmAssumption, SignerAssumption
DEF ToEntry, Entry, EntryKind, EntryReads, PayloadReads, Pkcs8, MlKemKind, EcdsaKind,
    Pkcs8Kinds, KemKinds, HybridKinds, PrivateKeys, PublicKeys, Algorithms

-----------------------------------------------------------------------------
(* Every step keeps the invariant.                                          *)

LEMMA InitEstablishes == Init => KeychainInv
BY DEF Init, KeychainInv, TypeOK, KeysCameIn, DefaultSignerCameFirst, FirstToSign,
       IntactIsCurrent, Nothing, EmptyKeychain,
       Stored, Entry, FormatVersion

LEMMA AddKeyKeeps ==
    ASSUME KeychainInv, NEW k \in PrivateKeys, AddKey(k)
    PROVE  KeychainInv'
<1>1. added \in Seq(PrivateKeys) /\ FirstToSign(sign_key, added)
    BY DEF KeychainInv, TypeOK, KeysCameIn, DefaultSignerCameFirst
<1>2. /\ added' \in Seq(PrivateKeys)
      /\ keys' = {added'[i] : i \in DOMAIN added'}
      /\ FirstToSign(sign_key', added')
  <2>1. CASE k \in keys
    <3>1. PICK i \in DOMAIN added : added[i] = k
        BY <2>1 DEF KeychainInv, KeysCameIn
    <3>2. sign_key' = sign_key
        BY <1>1, <3>1, FirstAgain DEF AddKey
    <3>. QED
        BY <1>1, <2>1, <3>2 DEF AddKey, KeychainInv, KeysCameIn
  <2>2. CASE k \notin keys
    <3>1. added' = Append(added, k) /\ sign_key' = SignerAfter(sign_key, k)
        BY <2>2 DEF AddKey
    <3>2. FirstToSign(sign_key', added')
        BY <1>1, <3>1, FirstOfAppend
    <3>3. /\ DOMAIN added' = DOMAIN added \cup {Len(added) + 1}
          /\ added'[Len(added) + 1] = k
          /\ \A i \in DOMAIN added : added'[i] = added[i]
        BY <1>1, <3>1
    <3>4. keys' = {added[i] : i \in DOMAIN added} \cup {k}
        BY DEF AddKey, KeychainInv, KeysCameIn
    <3>5. keys' = {added'[i] : i \in DOMAIN added'}
        BY <3>3, <3>4
    <3>. QED
        BY <1>1, <3>1, <3>2, <3>5
  <2>. QED
      BY <2>1, <2>2
<1>3. sign_key' \in PrivateKeys \cup {NoSigner}
    BY <1>2, FirstIsKey
<1>4. keys' \subseteq PrivateKeys /\ stored' = stored /\ saved' = saved
    BY DEF AddKey, KeychainInv, TypeOK
<1>. QED
    BY <1>2, <1>3, <1>4
    DEF KeychainInv, TypeOK, KeysCameIn, DefaultSignerCameFirst, IntactIsCurrent

LEMMA SerializeKeeps ==
    ASSUME KeychainInv, NEW pw \in Passwords \cup {NoPassword}, Serialize(pw)
    PROVE  KeychainInv'
<1>1. IsFiniteSet(keys) /\ keys \subseteq PrivateKeys
    BY ListIsFinite DEF KeychainInv, TypeOK, KeysCameIn
<1>2. PICK order \in Orders(keys) :
          stored' = [password |-> pw, intact |-> TRUE, framed |-> TRUE,
                     version  |-> FormatVersion,
                     entries  |-> [i \in DOMAIN order |-> ToEntry(order[i])]]
    BY DEF Serialize
<1>3. order \in Seq(PrivateKeys) /\ keys = {order[i] : i \in DOMAIN order}
    BY <1>1, OrderIsList
<1>4. \A i \in DOMAIN order : /\ ToEntry(order[i]) \in Entry
                              /\ ToEntry(order[i]).payload = order[i]
                              /\ EntryReads(ToEntry(order[i]))
    BY <1>3, EntryOfKeyReads
<1>5. DOMAIN stored'.entries = DOMAIN order /\ stored'.entries \in Seq(Entry)
    BY <1>2, <1>3, <1>4
<1>6. \A i \in DOMAIN order : stored'.entries[i].payload = order[i] /\ EntryReads(stored'.entries[i])
    BY <1>2, <1>4
<1>7. stored' \in Stored /\ stored'.version = FormatVersion /\ stored'.intact /\ stored'.framed
    BY <1>2, <1>5 DEF Stored, FormatVersion
<1>8. saved' = [keys |-> keys, sign_key |-> sign_key] /\ UNCHANGED <<keys, sign_key, added>>
    BY DEF Serialize
<1>9. TypeOK'
    BY <1>1, <1>5, <1>6, <1>7, <1>8 DEF KeychainInv, TypeOK
<1>10. KeysCameIn'
    BY <1>8 DEF KeychainInv, KeysCameIn, DefaultSignerCameFirst
<1>11. saved'.keys = {stored'.entries[i].payload : i \in DOMAIN stored'.entries}
    BY <1>3, <1>5, <1>6, <1>8
<1>. QED
    BY <1>7, <1>9, <1>10, <1>11 DEF KeychainInv, IntactIsCurrent

\* An entry of which a byte changed is still an entry.
LEMMA ChangedEntryIsEntry ==
    ASSUME NEW e \in Entry, NEW taken, NEW c \in ChangedEntries(e, taken)
    PROVE  c \in Entry
<1>1. CASE c = [e EXCEPT !.pair = FALSE]
    BY <1>1 DEF Entry
<1>2. ASSUME NEW kind \in EntryKinds \cup {3}, c = [e EXCEPT !.kind = kind]
      PROVE  c \in Entry
    BY <1>2 DEF Entry, EntryKinds, Pkcs8, MlKemKind, EcdsaKind
<1>3. ASSUME NEW p \in {Garbage} \cup PrivateKeys, c = [e EXCEPT !.payload = p]
      PROVE  c \in Entry
    BY <1>3 DEF Entry
<1>4. \/ c = [e EXCEPT !.pair = FALSE]
      \/ \E kind \in EntryKinds \cup {3} : c = [e EXCEPT !.kind = kind]
      \/ \E p \in {Garbage} \cup PrivateKeys : c = [e EXCEPT !.payload = p]
    BY Zenon DEF ChangedEntries
<1>. QED
    BY <1>1, <1>2, <1>3, <1>4

LEMMA DamageKeeps ==
    ASSUME KeychainInv, Damage
    PROVE  KeychainInv'
<1>1. UNCHANGED <<keys, sign_key, added, saved>>
    BY DEF Damage
<1>2. stored \in Stored /\ stored.entries \in Seq(Entry)
    BY DEF KeychainInv, TypeOK, Stored
<1>3. SUFFICES stored' \in Stored /\ ~stored'.intact
    BY <1>1
    DEF KeychainInv, TypeOK, KeysCameIn, DefaultSignerCameFirst, IntactIsCurrent
<1>4. CASE \/ stored' = [stored EXCEPT !.intact = FALSE]
           \/ stored' = [stored EXCEPT !.intact = FALSE, !.framed = FALSE]
           \/ stored' = [stored EXCEPT !.intact = FALSE, !.version = FormatVersion + 1]
  <2>1. FormatVersion + 1 \in Nat
      BY DEF FormatVersion
  <2>. QED
      BY <1>2, <1>4, <2>1 DEF Stored
<1>5. ASSUME NEW n \in 0 .. Len(stored.entries) - 1,
             stored' = [stored EXCEPT !.intact = FALSE, !.entries = SubSeq(@, 1, n)]
      PROVE  stored' \in Stored /\ ~stored'.intact
  <2>1. SubSeq(stored.entries, 1, n) \in Seq(Entry)
      BY <1>2
  <2>. QED
      BY <1>2, <1>5, <2>1 DEF Stored
<1>6. ASSUME NEW i \in DOMAIN stored.entries, NEW taken,
             NEW e \in ChangedEntries(stored.entries[i], taken),
             stored' = [stored EXCEPT !.intact = FALSE, !.entries[i] = e]
      PROVE  stored' \in Stored /\ ~stored'.intact
  <2>1. stored.entries[i] \in Entry
      BY <1>2
  <2>2. e \in Entry
      BY <1>6, <2>1, ChangedEntryIsEntry
  <2>3. [stored.entries EXCEPT ![i] = e] \in Seq(Entry)
      BY <1>2, <2>2
  <2>. QED
      BY <1>2, <1>6, <2>3 DEF Stored
<1>. QED
    BY <1>4, <1>5, <1>6 DEF Damage, DamagePlain

LEMMA DeserializeKeeps ==
    ASSUME KeychainInv, NEW pw \in Passwords \cup {NoPassword}, Deserialize(pw)
    PROVE  KeychainInv'
<1>1. stored' = stored /\ saved' = saved
    BY DEF Deserialize
<1>2. CASE UNCHANGED <<keys, sign_key, added>>
    BY <1>1, <1>2
    DEF KeychainInv, TypeOK, KeysCameIn, DefaultSignerCameFirst, IntactIsCurrent
<1>3. CASE /\ DeserializeError(stored, pw) = "ok"
           /\ keys' = {stored.entries[i].payload : i \in DOMAIN stored.entries}
           /\ added' = PayloadsOf(stored)
           /\ sign_key' = SignerOf(PayloadsOf(stored))
  <2>1. stored.entries \in Seq(Entry)
      BY DEF KeychainInv, TypeOK, Stored
  <2>2. \A i \in DOMAIN stored.entries : stored.entries[i].payload \in PrivateKeys
    <3>1. \A i \in DOMAIN stored.entries : stored.entries[i] \in Entry
        BY <2>1
    <3>2. \A i \in DOMAIN stored.entries : EntryReads(stored.entries[i])
        BY <1>3 DEF DeserializeError
    <3>. QED
        BY <3>1, <3>2 DEF Entry, EntryReads
  <2>3. /\ added' \in Seq(PrivateKeys)
        /\ DOMAIN added' = DOMAIN stored.entries
        /\ \A i \in DOMAIN added' : added'[i] = stored.entries[i].payload
      BY <1>3, <2>1, <2>2 DEF PayloadsOf
  <2>4. keys' = {added'[i] : i \in DOMAIN added'} /\ keys' \subseteq PrivateKeys
      BY <1>3, <2>2, <2>3
  <2>5. FirstToSign(sign_key', added')
      BY <1>3, <2>3, SignerOfIsFirst
  <2>6. sign_key' \in PrivateKeys \cup {NoSigner}
      BY <2>3, <2>5, FirstIsKey
  <2>. QED
      BY <1>1, <2>3, <2>4, <2>5, <2>6
      DEF KeychainInv, TypeOK, KeysCameIn, DefaultSignerCameFirst, IntactIsCurrent
<1>. QED
    BY <1>2, <1>3 DEF Deserialize

LEMMA NextKeeps == KeychainInv /\ [Next]_vars => KeychainInv'
<1>1. ASSUME KeychainInv, UNCHANGED vars PROVE KeychainInv'
    BY <1>1 DEF vars, KeychainInv, TypeOK, KeysCameIn, DefaultSignerCameFirst, IntactIsCurrent
<1>. QED
    BY <1>1, AddKeyKeeps, SerializeKeeps, DamageKeeps, DeserializeKeeps DEF Next

\* The keys held are those that came in, and the bytes hold the keys serialized.
THEOREM Invariance == Spec => []KeychainInv
<1>. QED
    BY InitEstablishes, NextKeeps, PTL DEF Spec

\* A keychain and its bytes are well formed: what is stored reads back as long as
\* nobody changes it (Keychain::serialize, PrivateKey::to_entry and from_entry).
THEOREM TypeCorrect == Spec => []TypeOK
<1>1. KeychainInv => TypeOK
    BY DEF KeychainInv
<1>. QED
    BY <1>1, Invariance, PTL

\* However keys were added and keychains read back, the default signer is the
\* signing key that came in first (Keychain::add_key, deserialize).
THEOREM SignerCameFirst == Spec => []DefaultSignerCameFirst
<1>1. KeychainInv => DefaultSignerCameFirst
    BY DEF KeychainInv, KeysCameIn
<1>. QED
    BY <1>1, Invariance, PTL

\* first_signer gives a key that sign::sign accepts as soon as the keychain holds
\* one, whatever kinds of keys it holds (PrivateKey::can_sign, sign::sign).
THEOREM SignerSigns == Spec => []DefaultSignerSigns
<1>1. \A k \in PrivateKeys : CanSign(k) <=> SignSupported(k)
    BY AlgorithmAssumption
    DEF CanSign, SignSupported, PrivateKeys, PublicKeys, Algorithms, KemKinds, HybridKinds
<1>2. KeychainInv => DefaultSignerSigns
  <2>1. SUFFICES ASSUME KeychainInv PROVE DefaultSignerSigns
      OBVIOUS
  <2>2. /\ added \in Seq(PrivateKeys) /\ FirstToSign(sign_key, added)
        /\ keys = {added[i] : i \in DOMAIN added}
      BY <2>1 DEF KeychainInv, TypeOK, KeysCameIn, DefaultSignerCameFirst
  <2>3. /\ sign_key # NoSigner =>
               \E i \in DOMAIN added : sign_key = added[i] /\ CanSign(added[i])
        /\ (\E i \in DOMAIN added : CanSign(added[i])) => sign_key # NoSigner
      BY <2>2, FirstIsKey
  <2>4. \A i \in DOMAIN added : added[i] \in PrivateKeys /\ added[i] \in keys
      BY <2>2
  <2>. QED
      BY <1>1, <2>2, <2>3, <2>4 DEF DefaultSignerSigns
<1>. QED
    BY <1>2, Invariance, PTL

\* Bytes that nobody changed read under the password they were written with,
\* whatever keys they hold.
LEMMA IntactReads ==
    ASSUME KeychainInv, stored # Nothing, stored.intact
    PROVE  DeserializeError(stored, stored.password) = "ok"
BY DEF KeychainInv, TypeOK, IntactIsCurrent, DeserializeError

\* A password that is not that of the bytes, or encrypted bytes that changed, never
\* read.
LEMMA OthersRefused ==
    ASSUME NEW pw, pw # stored.password \/ (~stored.intact /\ pw # NoPassword)
    PROVE  DeserializeError(stored, pw) # "ok"
BY DEF DeserializeError

\* Reading back gives every key that was serialized from bytes that nobody changed,
\* and an error and no key under another password or from encrypted bytes that
\* changed (Keychain::serialize, deserialize, PrivateKey::to_entry, from_entry).
THEOREM RestoredExactly == Spec => RestoreIsExact
<1>1. ASSUME KeychainInv, NEW pw \in Passwords \cup {NoPassword}, Deserialize(pw)
      PROVE  /\ stored.intact /\ pw = stored.password
                   => result' = "ok" /\ keys' = saved.keys
             /\ pw # stored.password \/ (~stored.intact /\ pw # NoPassword)
                   => result' # "ok" /\ UNCHANGED <<keys, sign_key>>
  <2>1. stored # Nothing /\ result' = DeserializeError(stored, pw)
      BY <1>1 DEF Deserialize
  <2>2. CASE stored.intact /\ pw = stored.password
    <3>1. DeserializeError(stored, pw) = "ok"
        BY <1>1, <2>1, <2>2, IntactReads
    <3>2. keys' = {stored.entries[i].payload : i \in DOMAIN stored.entries}
        BY <1>1, <3>1 DEF Deserialize
    <3>. QED
        BY <1>1, <2>1, <2>2, <3>1, <3>2 DEF KeychainInv, IntactIsCurrent
  <2>3. CASE pw # stored.password \/ (~stored.intact /\ pw # NoPassword)
    <3>1. DeserializeError(stored, pw) # "ok"
        BY <2>3, OthersRefused
    <3>. QED
        BY <1>1, <2>1, <2>3, <3>1 DEF Deserialize
  <2>. QED
      BY <2>2, <2>3
<1>2. KeychainInv =>
          \A pw \in Passwords \cup {NoPassword} :
              Deserialize(pw) =>
                  /\ stored.intact /\ pw = stored.password
                        => result' = "ok" /\ keys' = saved.keys
                  /\ pw # stored.password \/ (~stored.intact /\ pw # NoPassword)
                        => result' # "ok" /\ UNCHANGED <<keys, sign_key>>
    BY <1>1
<1>. QED
    BY <1>2, Invariance, PTL DEF RestoreIsExact
=============================================================================
