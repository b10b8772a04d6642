---------------------------- MODULE IDCardProofs ----------------------------
(***************************************************************************)
(* Proofs about IDCard, for every set of keys, purposes and times: no      *)
(* sequence of calls makes two entries of one byte string, a card survives *)
(* its CBOR encoding, and it behaves as the table of grants it stands for. *)
(***************************************************************************)
EXTENDS IDCard, WellFoundedInduction, SequenceTheorems, TLAPS

-----------------------------------------------------------------------------
(* find_key.                                                                *)

LEMMA LeastIsMember ==
    ASSUME NEW S \in SUBSET (Nat \ {0})
    PROVE  /\ Least(S) = 0 <=> S = {}
           /\ S # {} => Least(S) \in S
<1>1. CASE S = {}
    BY <1>1 DEF Least
<1>2. CASE S # {}
  <2> DEFINE R == {ss \in Nat \X Nat : ss[1] < ss[2]}
  <2>0. IsWellFoundedOn(R, Nat)
      BY NatLessThanWellFounded DEF OpToRel
  <2>1. PICK i \in S : \A j \in S : ~ (<<j, i>> \in R)
    <3> HIDE DEF R
    <3>. QED
        BY <1>2, <2>0, WFMin
  <2>2. ASSUME NEW j \in S PROVE i <= j
    <3>1. i \in Nat /\ j \in Nat /\ <<j, i>> \notin R
        BY <2>1
    <3>2. j < i => <<j, i>> \in R
        BY <3>1, Zenon
    <3>. QED
        BY <3>1, <3>2
  <2>3. Least(S) = CHOOSE x \in S : \A y \in S : x <= y
      BY <1>2 DEF Least
  <2>4. Least(S) \in S
      BY <2>2, <2>3
  <2>. QED
      BY <1>2, <2>4
<1>. QED
    BY <1>1, <1>2

\* find_key returns an entry with the bytes asked for, or there is none.
LEMMA FindKeyFinds ==
    ASSUME NEW c, c.subkeys \in Seq(SubKey), NEW k
    PROVE  /\ FindKey(c, k) = 0 <=> \A i \in DOMAIN c.subkeys : c.subkeys[i].key # k
           /\ FindKey(c, k) # 0 => /\ FindKey(c, k) \in DOMAIN c.subkeys
                                   /\ c.subkeys[FindKey(c, k)].key = k
<1> DEFINE at == {i \in DOMAIN c.subkeys : c.subkeys[i].key = k}
<1>1. at \in SUBSET (Nat \ {0})
    OBVIOUS
<1>2. FindKey(c, k) = Least(at)
    BY DEF FindKey
<1>3. /\ Least(at) = 0 <=> at = {}
      /\ at # {} => Least(at) \in at
    BY <1>1, LeastIsMember
<1>. QED
    BY <1>2, <1>3

\* Where the entries are distinct, the one it returns is the only one.
LEMMA FindKeyOfEntry ==
    ASSUME NEW c, c.subkeys \in Seq(SubKey),
           \A i, j \in DOMAIN c.subkeys : c.subkeys[i].key = c.subkeys[j].key => i = j,
           NEW n \in DOMAIN c.subkeys
    PROVE  FindKey(c, c.subkeys[n].key) = n
BY FindKeyFinds

-----------------------------------------------------------------------------
(* CBOR.                                                                    *)

LEMMA SubKeyRoundTrip ==
    ASSUME NEW s \in SubKey
    PROVE  SubKeyFrom(SubKeyValue(s)) = s
<1> DEFINE v == SubKeyValue(s)
<1>1. CASE s.expires = Absent
  <2>1. DOMAIN v = {1, 4} /\ v[1] = s.key /\ v[4] = s.purposes
      BY <1>1 DEF SubKeyValue
  <2>. QED
      BY <1>1, <2>1 DEF SubKeyFrom, SubKey
<1>2. CASE s.expires # Absent
  <2>1. DOMAIN v = {1, 3, 4} /\ v[1] = s.key /\ v[3] = s.expires[1] /\ v[4] = s.purposes
      BY <1>2 DEF SubKeyValue
  <2>2. s.expires = Present(s.expires[1])
      BY <1>2 DEF SubKey, Option, Present
  <2>. QED
      BY <2>1, <2>2 DEF SubKeyFrom, SubKey
<1>. QED
    BY <1>1, <1>2

LEMMA ListRoundTrip ==
    ASSUME NEW list \in Seq(SubKey)
    PROVE  Each(Each(list, SubKeyValue), SubKeyFrom) = list
<1>1. \A i \in DOMAIN list : SubKeyFrom(SubKeyValue(list[i])) = list[i]
    BY SubKeyRoundTrip
<1>2. Each(Each(list, SubKeyValue), SubKeyFrom) = [i \in DOMAIN list |-> list[i]]
    BY <1>1 DEF Each
<1>. QED
    BY <1>2

\* from_cbor(to_cbor(c)) is c, whatever the card holds.
THEOREM CardRoundTrip ==
    ASSUME NEW c \in Card
    PROVE  CardFrom(CardValue(c)) = c
<1> DEFINE v == CardValue(c)
<1>1. /\ v[1] = c.self_key
      /\ v[3] = Each(c.subkeys, SubKeyValue)
      /\ v[4] = IF c.revoke = Absent THEN Absent ELSE Present(Each(c.revoke[1], SubKeyValue))
    BY DEF CardValue
<1>2. c = [self_key |-> c.self_key, subkeys |-> c.subkeys, revoke |-> c.revoke]
    BY DEF Card
<1>3. Each(v[3], SubKeyFrom) = c.subkeys
    BY <1>1, ListRoundTrip DEF Card
<1>4. (IF v[4] = Absent THEN Absent ELSE Present(Each(v[4][1], SubKeyFrom))) = c.revoke
  <2>1. CASE c.revoke = Absent
      BY <1>1, <2>1
  <2>2. CASE c.revoke # Absent
    <3>1. c.revoke[1] \in Seq(SubKey) /\ c.revoke = Present(c.revoke[1])
        BY <2>2 DEF Card, Present, Absent
    <3>2. v[4] # Absent /\ v[4][1] = Each(c.revoke[1], SubKeyValue)
        BY <1>1, <2>2 DEF Present, Absent
    <3>. QED
        BY <3>1, <3>2, ListRoundTrip
  <2>. QED
      BY <2>1, <2>2
<1>. QED
    BY <1>1, <1>2, <1>3, <1>4 DEF CardFrom

-----------------------------------------------------------------------------
(* The invariant: types, and entries with distinct keys.                    *)

IDCardInv == TypeOK /\ EntriesDistinct

\* An entry may change in any field but its key.
LEMMA SameKeysDistinct ==
    ASSUME EntriesDistinct, card.subkeys \in Seq(SubKey), card'.subkeys \in Seq(SubKey),
           DOMAIN card'.subkeys = DOMAIN card.subkeys,
           \A i \in DOMAIN card.subkeys : card'.subkeys[i].key = card.subkeys[i].key
    PROVE  EntriesDistinct'
BY DEF EntriesDistinct

\* What a card becomes when the fields of entry i, but not its key, are changed.
LEMMA EntryUpdated ==
    ASSUME TypeOK, NEW i \in DOMAIN card.subkeys, NEW s \in SubKey,
           s.key = card.subkeys[i].key,
           card' = [card EXCEPT !.subkeys = [@ EXCEPT ![i] = s]]
    PROVE  /\ card' \in Card
           /\ card'.subkeys = [card.subkeys EXCEPT ![i] = s]
           /\ DOMAIN card'.subkeys = DOMAIN card.subkeys
           /\ \A j \in DOMAIN card.subkeys : card'.subkeys[j].key = card.subkeys[j].key
<1>1. card.subkeys \in Seq(SubKey)
    BY DEF TypeOK, Card
<1>2. card'.subkeys = [card.subkeys EXCEPT ![i] = s]
    BY DEF TypeOK, Card
<1>3. card'.subkeys \in Seq(SubKey) /\ DOMAIN card'.subkeys = DOMAIN card.subkeys
    BY <1>1, <1>2
<1>4. card' \in Card
    BY <1>2, <1>3 DEF TypeOK, Card
<1>. QED
    BY <1>1, <1>2, <1>3, <1>4

LEMMA PurposesOf ==
    ASSUME TypeOK, NEW i \in DOMAIN card.subkeys
    PROVE  card.subkeys[i] \in SubKey
BY DEF TypeOK, Card

\* add_purpose, as the change of an entry; its list holds nothing it did not hold
\* or was not given, and nothing more often.
LEMMA AddPurposeEffect ==
    ASSUME TypeOK, NEW i \in DOMAIN card.subkeys, NEW S \in SUBSET Purposes,
           AddPurpose(i, S)
    PROVE  \E s \in SubKey :
              /\ s.key = card.subkeys[i].key /\ s.expires = card.subkeys[i].expires
              /\ \A p \in Purposes :
                    HasPurpose(s, p) <=> HasPurpose(card.subkeys[i], p) \/ p \in S
              /\ card' = [card EXCEPT !.subkeys = [@ EXCEPT ![i] = s]]
<1> DEFINE old == card.subkeys[i]
           ps  == [p \in Purposes |-> IF p \in S /\ old.purposes[p] = 0 THEN 1
                                      ELSE old.purposes[p]]
           s   == [key |-> old.key, expires |-> old.expires, purposes |-> ps]
<1>1. old \in SubKey
    BY PurposesOf
<1>2. ps \in PurposeLists
    BY <1>1, RepeatsAssumption DEF SubKey, PurposeLists
<1>3. s \in SubKey
    BY <1>1, <1>2 DEF SubKey
<1>4. \A p \in Purposes : HasPurpose(s, p) <=> HasPurpose(old, p) \/ p \in S
    BY <1>1 DEF HasPurpose, SubKey, PurposeLists
<1>5. [old EXCEPT !.purposes = ps] = s
    BY <1>1 DEF SubKey
<1>6. card' = [card EXCEPT !.subkeys = [@ EXCEPT ![i] = s]]
    BY <1>5 DEF AddPurpose
<1>. QED
    BY <1>3, <1>4, <1>6

\* The same of set_key_purposes where the key has an entry, and of an expiry.
LEMMA SetKeyPurposesFound ==
    ASSUME TypeOK, NEW k \in Keys, NEW ps \in PurposeLists, FindKey(card, k) # 0,
           card' = [card EXCEPT !.subkeys[FindKey(card, k)].purposes = ps]
    PROVE  LET i == FindKey(card, k)
               s == [card.subkeys[i] EXCEPT !.purposes = ps]
           IN  /\ i \in DOMAIN card.subkeys /\ card.subkeys[i].key = k
               /\ s \in SubKey /\ s.key = k /\ s.expires = card.subkeys[i].expires
               /\ s.purposes = ps
               /\ card' = [card EXCEPT !.subkeys = [@ EXCEPT ![i] = s]]
<1>1. card.subkeys \in Seq(SubKey)
    BY DEF TypeOK, Card
<1>2. FindKey(card, k) \in DOMAIN card.subkeys /\ card.subkeys[FindKey(card, k)].key = k
    BY <1>1, FindKeyFinds
<1>3. card.subkeys[FindKey(card, k)] \in SubKey
    BY <1>2, PurposesOf
<1>. QED
    BY <1>2, <1>3 DEF SubKey

LEMMA SetExpiryEffect ==
    ASSUME TypeOK, NEW i \in DOMAIN card.subkeys, NEW until \in Option(Times),
           SetExpiry(i, until)
    PROVE  LET s == [card.subkeys[i] EXCEPT !.expires = until]
           IN  /\ s \in SubKey /\ s.key = card.subkeys[i].key
               /\ s.purposes = card.subkeys[i].purposes /\ s.expires = until
               /\ card' = [card EXCEPT !.subkeys = [@ EXCEPT ![i] = s]]
<1>1. card.subkeys[i] \in SubKey
    BY PurposesOf
<1>. QED
    BY <1>1 DEF SubKey, SetExpiry

\* What a card becomes when an entry is added.
LEMMA EntryAppended ==
    ASSUME TypeOK, NEW k \in Keys, NEW ps \in PurposeLists, FindKey(card, k) = 0,
           card' = [card EXCEPT !.subkeys = Append(@, NewEntry(k, ps))]
    PROVE  /\ card' \in Card
           /\ Len(card.subkeys) \in Nat
           /\ DOMAIN card.subkeys = 1 .. Len(card.subkeys)
           /\ DOMAIN card'.subkeys = 1 .. Len(card.subkeys) + 1
           /\ \A i \in DOMAIN card.subkeys : /\ card'.subkeys[i] = card.subkeys[i]
                                             /\ card.subkeys[i].key # k
           /\ card'.subkeys[Len(card.subkeys) + 1] = NewEntry(k, ps)
<1>1. card.subkeys \in Seq(SubKey)
    BY DEF TypeOK, Card
<1>2. NewEntry(k, ps) \in SubKey
    BY DEF NewEntry, SubKey, Option
<1>3. card'.subkeys = Append(card.subkeys, NewEntry(k, ps))
    BY DEF TypeOK, Card
<1>4. card' \in Card
  <2>1. Append(card.subkeys, NewEntry(k, ps)) \in Seq(SubKey)
      BY <1>1, <1>2
  <2>. QED
      BY <1>3, <2>1 DEF TypeOK, Card
<1>5. \A i \in DOMAIN card.subkeys : card.subkeys[i].key # k
    BY <1>1, FindKeyFinds
<1>. QED
    BY <1>1, <1>3, <1>4, <1>5

LEMMA KeysForKeys ==
    ASSUME NEW c \in Card, NEW p, NEW t
    PROVE  KeysFor(c, p, t) \subseteq Keys
BY CanonicalAssumption DEF KeysFor, PublicKeys

LEMMA InputsTyped ==
    Lists \subseteq PurposeLists /\ Option(Expiries) \subseteq Option(Times)
BY InputAssumption DEF Option, Present

LEMMA InvInit ==
    ASSUME Init
    PROVE  IDCardInv
<1>1. PICK k \in OwnKeys : card = NewCard(k)
    BY DEF Init
<1>2. k \in Keys
    BY <1>1 DEF OwnKeys, PrivateKeys, PublicKeys
<1>3. NewEntry(k, OnlySign) \in SubKey
    BY <1>2, RepeatsAssumption, PurposeAssumption
    DEF NewEntry, OnlySign, NoPurposes, PurposeLists, SubKey, Option
<1>4. <<NewEntry(k, OnlySign)>> \in Seq(SubKey)
    BY <1>3
<1>5. card \in Card
    BY <1>1, <1>2, <1>4 DEF NewCard, Card, Absent
<1>6. EntriesDistinct
    BY <1>1 DEF NewCard, EntriesDistinct
<1>. QED
    BY <1>5, <1>6 DEF IDCardInv, TypeOK, Init, Option

LEMMA InvNext ==
    ASSUME IDCardInv, [Next]_vars
    PROVE  IDCardInv'
<1>. USE DEF IDCardInv
<1>1. card.subkeys \in Seq(SubKey) /\ TypeOK
    BY DEF TypeOK, Card
<1>2. ASSUME NEW i \in DOMAIN card.subkeys, NEW s \in SubKey,
             s.key = card.subkeys[i].key,
             card' = [card EXCEPT !.subkeys = [@ EXCEPT ![i] = s]], UNCHANGED answer
      PROVE  IDCardInv'
  <2>1. /\ card' \in Card
        /\ DOMAIN card'.subkeys = DOMAIN card.subkeys
        /\ \A j \in DOMAIN card.subkeys : card'.subkeys[j].key = card.subkeys[j].key
      BY <1>1, <1>2, EntryUpdated
  <2>2. EntriesDistinct'
      BY <2>1 DEF EntriesDistinct
  <2>. QED
      BY <1>2, <2>1, <2>2 DEF TypeOK
<1>3. ASSUME NEW k \in Keys, NEW ps \in PurposeLists, SetKeyPurposes(k, ps)
      PROVE  IDCardInv'
  <2>1. CASE FindKey(card, k) # 0
    <3>1. card' = [card EXCEPT !.subkeys[FindKey(card, k)].purposes = ps]
        BY <1>3, <2>1 DEF SetKeyPurposes
    <3> DEFINE i == FindKey(card, k)
               s == [card.subkeys[i] EXCEPT !.purposes = ps]
    <3>2. /\ i \in DOMAIN card.subkeys /\ card.subkeys[i].key = k
          /\ s \in SubKey /\ s.key = k
          /\ card' = [card EXCEPT !.subkeys = [@ EXCEPT ![i] = s]]
        BY <1>1, <2>1, <3>1, SetKeyPurposesFound
    <3>3. UNCHANGED answer
        BY <1>3 DEF SetKeyPurposes
    <3> HIDE DEF i, s
    <3>. QED
        BY <1>2, <3>2, <3>3
  <2>2. CASE FindKey(card, k) = 0
    <3>1. card' = [card EXCEPT !.subkeys = Append(@, NewEntry(k, ps))]
        BY <1>3, <2>2 DEF SetKeyPurposes
    <3>2. /\ card' \in Card
          /\ Len(card.subkeys) \in Nat
          /\ DOMAIN card.subkeys = 1 .. Len(card.subkeys)
          /\ DOMAIN card'.subkeys = 1 .. Len(card.subkeys) + 1
          /\ \A i \in DOMAIN card.subkeys : /\ card'.subkeys[i] = card.subkeys[i]
                                            /\ card.subkeys[i].key # k
          /\ card'.subkeys[Len(card.subkeys) + 1] = NewEntry(k, ps)
        BY <1>1, <2>2, <3>1, EntryAppended
    <3>3. NewEntry(k, ps).key = k
        BY DEF NewEntry
    <3>4. EntriesDistinct'
      <4> SUFFICES ASSUME NEW i \in DOMAIN card'.subkeys, NEW j \in DOMAIN card'.subkeys,
                          card'.subkeys[i].key = card'.subkeys[j].key
                   PROVE  i = j
          BY DEF EntriesDistinct
      <4> DEFINE n == Len(card.subkeys)
      <4>1. CASE i \in 1 .. n /\ j \in 1 .. n
          BY <3>2, <4>1 DEF EntriesDistinct
      <4>2. CASE i = n + 1 \/ j = n + 1
          BY <3>2, <3>3, <4>2
      <4>. QED
          BY <3>2, <4>1, <4>2
    <3>. QED
        BY <1>3, <3>2, <3>4 DEF SetKeyPurposes, TypeOK
  <2>. QED
      BY <2>1, <2>2
<1>4. ASSUME NEW i \in DOMAIN card.subkeys, NEW S \in SUBSET Purposes, AddPurpose(i, S)
      PROVE  IDCardInv'
  <2>1. UNCHANGED answer
      BY <1>4 DEF AddPurpose
  <2>. QED
      BY <1>1, <1>2, <1>4, <2>1, AddPurposeEffect
<1>5. ASSUME NEW i \in DOMAIN card.subkeys, NEW until \in Option(Times),
             SetExpiry(i, until)
      PROVE  IDCardInv'
  <2>1. UNCHANGED answer
      BY <1>5 DEF SetExpiry
  <2>. QED
      BY <1>1, <1>2, <1>5, <2>1, SetExpiryEffect
<1>6. ASSUME NEW i \in DOMAIN card.subkeys, Revoke(i)
      PROVE  IDCardInv'
  <2>1. card.subkeys[i] \in SubKey
      BY <1>1, <1>6, PurposesOf
  <2>2. Listed(card.revoke) \in Seq(SubKey)
      BY <1>1 DEF TypeOK, Card, Listed, Absent
  <2>3. Present(Append(Listed(card.revoke), card.subkeys[i])) \in Seq(Seq(SubKey))
      BY <2>1, <2>2 DEF Present
  <2> DEFINE r == Present(Append(Listed(card.revoke), card.subkeys[i]))
  <2>4. r \in Seq(Seq(SubKey)) /\ Len(r) <= 1
      BY <2>3 DEF Present
  <2>5. card' = [card EXCEPT !.revoke = r]
      BY <1>6 DEF Revoke
  <2> HIDE DEF r
  <2>6. /\ card' \in Card /\ card'.subkeys = card.subkeys
    <3>1. card \in [self_key : Keys, subkeys : Seq(SubKey), revoke : Seq(Seq(SubKey))]
        BY <1>1 DEF TypeOK, Card
    <3>2. /\ card' \in [self_key : Keys, subkeys : Seq(SubKey), revoke : Seq(Seq(SubKey))]
          /\ card'.subkeys = card.subkeys /\ card'.revoke = r
        BY <2>4, <2>5, <3>1
    <3>3. Len(card'.revoke) <= 1
        BY <2>4, <3>2, Zenon
    <3>4. card' \in Card
        BY <3>2, <3>3, Zenon DEF Card
    <3>. QED
        BY <3>2, <3>4
  <2>. QED
      BY <1>6, <2>6 DEF Revoke, TypeOK, EntriesDistinct
<1>7. CASE Reload
    BY <1>7, CardRoundTrip DEF Reload, TypeOK, EntriesDistinct
<1>8. ASSUME NEW p \in Purposes, NEW t \in Times, CallKeysFor(p, t)
      PROVE  IDCardInv'
  <2>1. /\ card' = card
        /\ answer' = Present([purpose |-> p, time |-> t, keys |-> KeysFor(card, p, t)])
      BY <1>8 DEF CallKeysFor
  <2>2. KeysFor(card, p, t) \subseteq Keys
      BY <1>1, KeysForKeys DEF TypeOK
  <2>3. answer' \in Option([purpose : Purposes, time : Times, keys : SUBSET Keys])
      BY <2>1, <2>2 DEF Option
  <2>. QED
      BY <1>1, <2>1, <2>3 DEF TypeOK, EntriesDistinct
<1>9. CASE UNCHANGED vars
    BY <1>9 DEF vars, TypeOK, EntriesDistinct
<1>. QED
    BY <1>3, <1>4, <1>5, <1>6, <1>7, <1>8, <1>9, InputsTyped DEF Next, Edit

\* The types of a card hold whatever calls are made (idcard.rs:47-54, 158-173).
THEOREM TypeCorrect == Spec => []TypeOK
<1>1. Init => IDCardInv
    BY InvInit
<1>2. IDCardInv /\ [Next]_vars => IDCardInv'
    BY InvNext
<1>3. IDCardInv => TypeOK
    BY DEF IDCardInv
<1>. QED
    BY <1>1, <1>2, <1>3, PTL DEF Spec

\* Whatever calls are made, a byte string names one entry (idcard.rs:162).
THEOREM EntriesStayDistinct == Spec => []EntriesDistinct
<1>1. Init => IDCardInv
    BY InvInit
<1>2. IDCardInv /\ [Next]_vars => IDCardInv'
    BY InvNext
<1>3. IDCardInv => EntriesDistinct
    BY DEF IDCardInv
<1>. QED
    BY <1>1, <1>2, <1>3, PTL DEF Spec

-----------------------------------------------------------------------------
(* The refinement.                                                          *)

Serves(s)  == {p \in Purposes : HasPurpose(s, p)}
Granted(s) == [listed |-> TRUE, until |-> s.expires, purposes |-> Serves(s)]

NotGranted == [listed |-> FALSE, purposes |-> {}, until |-> Absent]

Grant(u) == [listed : BOOLEAN, until : u, purposes : SUBSET Purposes]

LEMMA GrantedIsGrant ==
    ASSUME NEW s
    PROVE  Granted(s) \in Grant({s.expires})
BY DEF Granted, Grant, Serves

LEMMA GrantChanged ==
    ASSUME NEW u, NEW g \in Grant(u), NEW x
    PROVE  /\ [g EXCEPT !.until = x]
                = [listed |-> g.listed, until |-> x, purposes |-> g.purposes]
           /\ [g EXCEPT !.purposes = x]
                = [listed |-> g.listed, until |-> g.until, purposes |-> x]
<1>1. [g EXCEPT !.until = x] = [listed |-> g.listed, until |-> x, purposes |-> g.purposes]
    BY DEF Grant
<1>2. [g EXCEPT !.purposes = x] = [listed |-> g.listed, until |-> g.until, purposes |-> x]
    BY DEF Grant
<1>. QED
    BY <1>1, <1>2, Zenon

LEMMA GrantsOfKey ==
    ASSUME NEW c, NEW k \in Keys
    PROVE  GrantsOf(c)[k] = IF FindKey(c, k) = 0 THEN NotGranted
                            ELSE Granted(c.subkeys[FindKey(c, k)])
BY DEF GrantsOf, Granted, NotGranted, Serves

LEMMA GrantsOfFunction ==
    ASSUME NEW c
    PROVE  GrantsOf(c) = [k \in Keys |-> GrantsOf(c)[k]]
BY DEF GrantsOf

\* Changing an entry changes what its key is granted, and nothing else.
LEMMA EntryStep ==
    ASSUME IDCardInv, NEW i \in DOMAIN card.subkeys, NEW s \in SubKey,
           s.key = card.subkeys[i].key,
           card' = [card EXCEPT !.subkeys = [@ EXCEPT ![i] = s]]
    PROVE  /\ card.subkeys[i].key \in Keys
           /\ GrantsOf(card)[card.subkeys[i].key] = Granted(card.subkeys[i])
           /\ GrantsOf(card)' = [GrantsOf(card) EXCEPT ![card.subkeys[i].key] = Granted(s)]
<1> DEFINE key == card.subkeys[i].key
<1>1. card.subkeys \in Seq(SubKey) /\ TypeOK /\ DOMAIN card.subkeys = 1 .. Len(card.subkeys)
    BY DEF IDCardInv, TypeOK, Card
<1>2. /\ card'.subkeys = [card.subkeys EXCEPT ![i] = s]
      /\ DOMAIN card'.subkeys = DOMAIN card.subkeys
      /\ \A j \in DOMAIN card.subkeys : card'.subkeys[j].key = card.subkeys[j].key
    BY <1>1, EntryUpdated
<1>3. ASSUME NEW k PROVE FindKey(card', k) = FindKey(card, k)
  <2>1. {j \in DOMAIN card'.subkeys : card'.subkeys[j].key = k}
          = {j \in DOMAIN card.subkeys : card.subkeys[j].key = k}
      BY <1>2
  <2>. QED
      BY <2>1 DEF FindKey
<1>4. FindKey(card, key) = i /\ i # 0
    BY <1>1, FindKeyOfEntry DEF IDCardInv, EntriesDistinct
<1>5. key \in Keys
    BY <1>1, PurposesOf DEF SubKey
<1>6. GrantsOf(card)[key] = Granted(card.subkeys[i])
    BY <1>4, <1>5, GrantsOfKey
<1>7. GrantsOf(card')[key] = Granted(s)
  <2>1. card'.subkeys[i] = s
      BY <1>2
  <2>2. FindKey(card', key) = i
      BY <1>3, <1>4
  <2>3. GrantsOf(card')[key] = Granted(card'.subkeys[FindKey(card', key)])
      BY <1>4, <1>5, <2>2, GrantsOfKey
  <2>. QED
      BY <2>1, <2>2, <2>3
<1>8. ASSUME NEW k \in Keys, k # key
      PROVE  GrantsOf(card')[k] = GrantsOf(card)[k]
  <2>1. CASE FindKey(card, k) = 0
      BY <1>3, <2>1, GrantsOfKey
  <2>2. CASE FindKey(card, k) # 0
    <3>1. /\ FindKey(card, k) \in DOMAIN card.subkeys
          /\ card.subkeys[FindKey(card, k)].key = k
        BY <1>1, <2>2, FindKeyFinds
    <3>2. card'.subkeys[FindKey(card, k)] = card.subkeys[FindKey(card, k)]
        BY <1>2, <1>8, <3>1
    <3>. QED
        BY <1>3, <2>2, <3>2, GrantsOfKey
  <2>. QED
      BY <2>1, <2>2
<1>9. GrantsOf(card') = [GrantsOf(card) EXCEPT ![key] = Granted(s)]
    BY <1>5, <1>7, <1>8, GrantsOfFunction
<1>10. GrantsOf(card)' = GrantsOf(card')
    BY DEF GrantsOf, FindKey
<1>. QED
    BY <1>5, <1>6, <1>9, <1>10

\* Adding an entry grants its key what the entry says, where it was granted nothing.
LEMMA AppendStep ==
    ASSUME IDCardInv, NEW k \in Keys, NEW ps \in PurposeLists, FindKey(card, k) = 0,
           card' = [card EXCEPT !.subkeys = Append(@, NewEntry(k, ps))]
    PROVE  /\ GrantsOf(card)[k] = NotGranted
           /\ GrantsOf(card)' = [GrantsOf(card) EXCEPT ![k] = Granted(NewEntry(k, ps))]
<1> DEFINE n == Len(card.subkeys)
<1>1. card.subkeys \in Seq(SubKey) /\ TypeOK
    BY DEF IDCardInv, TypeOK, Card
<1>2. /\ card' \in Card
      /\ n \in Nat
      /\ DOMAIN card.subkeys = 1 .. n
      /\ DOMAIN card'.subkeys = 1 .. n + 1
      /\ \A i \in DOMAIN card.subkeys : /\ card'.subkeys[i] = card.subkeys[i]
                                        /\ card.subkeys[i].key # k
      /\ card'.subkeys[n + 1] = NewEntry(k, ps)
    BY <1>1, EntryAppended
<1>3. card'.subkeys \in Seq(SubKey)
    BY <1>2 DEF Card
<1>4. GrantsOf(card)[k] = NotGranted
    BY GrantsOfKey
<1>5. GrantsOf(card')[k] = Granted(NewEntry(k, ps))
  <2>1. card'.subkeys[n + 1].key = k /\ n + 1 \in DOMAIN card'.subkeys
      BY <1>2 DEF NewEntry
  <2>2. FindKey(card', k) # 0
      BY <1>3, <2>1, FindKeyFinds
  <2>3. FindKey(card', k) \in DOMAIN card'.subkeys /\ card'.subkeys[FindKey(card', k)].key = k
      BY <1>3, <2>2, FindKeyFinds
  <2> DEFINE f == FindKey(card', k)
  <2>4. f \notin 1 .. n
    <3> SUFFICES ASSUME f \in 1 .. n PROVE FALSE
        OBVIOUS
    <3>1. card'.subkeys[f] = card.subkeys[f] /\ card.subkeys[f].key # k
        BY <1>2
    <3>2. card'.subkeys[f].key = k
        BY <2>3
    <3>. QED
        BY <3>1, <3>2
  <2>5. f \in 1 .. n + 1
      BY <1>2, <2>3
  <2> HIDE DEF f
  <2>6. f = n + 1
      BY <1>2, <2>4, <2>5
  <2>7. FindKey(card', k) = n + 1
      BY <2>6 DEF f
  <2>8. GrantsOf(card')[k] = Granted(card'.subkeys[FindKey(card', k)])
      BY <2>2, GrantsOfKey
  <2>. QED
      BY <1>2, <2>7, <2>8
<1>6. ASSUME NEW x \in Keys, x # k
      PROVE  GrantsOf(card')[x] = GrantsOf(card)[x]
  <2>1. {i \in DOMAIN card'.subkeys : card'.subkeys[i].key = x}
          = {i \in DOMAIN card.subkeys : card.subkeys[i].key = x}
    <3>1. card'.subkeys[n + 1].key # x
        BY <1>2, <1>6 DEF NewEntry
    <3>. QED
        BY <1>2, <3>1
  <2>2. FindKey(card', x) = FindKey(card, x)
      BY <2>1 DEF FindKey
  <2>3. FindKey(card, x) # 0 => card'.subkeys[FindKey(card, x)] = card.subkeys[FindKey(card, x)]
      BY <1>1, <1>2, FindKeyFinds
  <2>. QED
      BY <2>2, <2>3, GrantsOfKey
<1>7. GrantsOf(card') = [GrantsOf(card) EXCEPT ![k] = Granted(NewEntry(k, ps))]
    BY <1>5, <1>6, GrantsOfFunction
<1>8. GrantsOf(card)' = GrantsOf(card')
    BY DEF GrantsOf, FindKey
<1>. QED
    BY <1>4, <1>7, <1>8

\* keys_for answers with the keys that the table finds fit.
LEMMA KeysForIsFitFor ==
    ASSUME IDCardInv, NEW p \in Purposes, NEW t
    PROVE  KeysFor(card, p, t) = Table!FitFor(p, t)
<1>1. card.subkeys \in Seq(SubKey)
    BY DEF IDCardInv, TypeOK, Card
<1> DEFINE Fit(i) == /\ HasPurpose(card.subkeys[i], p)
                     /\ ~Expired(card.subkeys[i], t)
                     /\ card.subkeys[i].key \in PublicKeys
           FitKey(k) == /\ p \in GrantsOf(card)[k].purposes
                        /\ ~Table!Expired(GrantsOf(card)[k].until, t)
<1>2. ASSUME NEW i \in DOMAIN card.subkeys
      PROVE  Fit(i) <=> card.subkeys[i].key \in PublicKeys /\ FitKey(card.subkeys[i].key)
  <2>1. card.subkeys[i].key \in Keys
      BY PurposesOf DEF IDCardInv, SubKey
  <2>2. FindKey(card, card.subkeys[i].key) = i /\ i # 0
      BY <1>1, FindKeyOfEntry DEF IDCardInv, EntriesDistinct
  <2>3. GrantsOf(card)[card.subkeys[i].key] = Granted(card.subkeys[i])
      BY <2>1, <2>2, GrantsOfKey
  <2>. QED
      BY <2>3 DEF Granted, Serves, Expired, Table!Expired, Absent, Table!Absent
<1>3. ASSUME NEW k \in Keys, FitKey(k)
      PROVE  \E i \in DOMAIN card.subkeys : card.subkeys[i].key = k
  <2>1. FindKey(card, k) # 0
      BY <1>3, GrantsOfKey DEF NotGranted
  <2>. QED
      BY <1>1, <2>1, FindKeyFinds
<1>4. Table!PublicKeys = PublicKeys
    BY DEF PublicKeys, Table!PublicKeys
<1>5. PublicKeys \subseteq Keys
    BY DEF PublicKeys
<1>6. KeysFor(card, p, t) = {Canonical[card.subkeys[i].key] : i \in {j \in DOMAIN card.subkeys : Fit(j)}}
    BY DEF KeysFor
<1>7. Table!FitFor(p, t) = {Canonical[k] : k \in {x \in PublicKeys : FitKey(x)}}
    BY <1>4 DEF Table!FitFor
<1> HIDE DEF Fit, FitKey
<1>8. \A x : x \in KeysFor(card, p, t) <=> x \in Table!FitFor(p, t)
    BY <1>2, <1>3, <1>5, <1>6, <1>7
<1>. QED
    BY <1>8

\* A new card stands for the table in which its own key may sign.
LEMMA RefinesInit ==
    ASSUME Init
    PROVE  Table!GrantsInit
<1>1. PICK k \in OwnKeys : card = NewCard(k)
    BY DEF Init
<1>2. OwnKeys = Table!OwnKeys /\ OwnKeys \subseteq Keys
    BY DEF OwnKeys, Table!OwnKeys, PrivateKeys, Table!PrivateKeys, PublicKeys, Table!PublicKeys
<1> DEFINE new == NewEntry(k, OnlySign)
           own == [listed |-> TRUE, purposes |-> {SignPurpose}, until |-> Table!Absent]
<1>3. /\ card.subkeys = <<new>> /\ card.subkeys \in Seq(SubKey)
      /\ DOMAIN card.subkeys = {1} /\ card.subkeys[1] = new /\ new.key = k
    BY <1>1, InvInit DEF NewCard, IDCardInv, TypeOK, Card, NewEntry
<1>4. Granted(new) = own
  <2>1. Serves(new) = {SignPurpose}
      BY PurposeAssumption DEF Serves, NewEntry, OnlySign, NoPurposes, HasPurpose
  <2>2. new.expires = Table!Absent
      BY DEF NewEntry, Absent, Table!Absent
  <2>. QED
      BY <2>1, <2>2 DEF Granted
<1>5. GrantsOf(card)[k] = own
  <2> HIDE DEF new
  <2>1. FindKey(card, k) # 0
      BY <1>3, FindKeyFinds
  <2>2. FindKey(card, k) = 1
      BY <1>3, <2>1, FindKeyFinds
  <2>3. GrantsOf(card)[k] = Granted(card.subkeys[FindKey(card, k)])
      BY <1>2, <2>1, GrantsOfKey
  <2>. QED
      BY <1>3, <1>4, <2>2, <2>3
<1>6. ASSUME NEW x \in Keys, x # k
      PROVE  GrantsOf(card)[x] = Table!NoGrant
  <2>1. FindKey(card, x) = 0
      BY <1>3, <1>6, FindKeyFinds
  <2>. QED
      BY <2>1, GrantsOfKey DEF NotGranted, Table!NoGrant, Absent, Table!Absent
<1>7. GrantsOf(card) = [x \in Keys |-> IF x = k THEN own ELSE Table!NoGrant]
    BY <1>5, <1>6, GrantsOfFunction
<1>. QED
    BY <1>2, <1>7 DEF Table!GrantsInit, Init, Absent, Table!Absent

\* The calls that change an entry, or add one, are calls on the table.
LEMMA EditRefines ==
    ASSUME IDCardInv, Edit
    PROVE  Table!GrantsNext
<1>1. TypeOK /\ answer' = answer
    BY DEF IDCardInv, Edit, SetKeyPurposes, AddPurpose, SetExpiry
<1> DEFINE G == GrantsOf(card)
<1>2. ASSUME NEW k \in Keys, NEW ps \in PurposeLists, SetKeyPurposes(k, ps)
      PROVE  Table!GrantsNext
  <2> DEFINE S == {p \in Purposes : ps[p] > 0}
  <2>1. S \in SUBSET Purposes
      OBVIOUS
  <2>2. G' = [G EXCEPT ![k] = [listed |-> TRUE, purposes |-> S, until |-> @.until]]
    <3>1. CASE FindKey(card, k) # 0
      <4> DEFINE i == FindKey(card, k)
                 s == [card.subkeys[i] EXCEPT !.purposes = ps]
      <4>1. card' = [card EXCEPT !.subkeys[FindKey(card, k)].purposes = ps]
          BY <1>2, <3>1 DEF SetKeyPurposes
      <4>2. /\ i \in DOMAIN card.subkeys /\ card.subkeys[i].key = k
            /\ s \in SubKey /\ s.key = k /\ s.expires = card.subkeys[i].expires
            /\ s.purposes = ps
            /\ card' = [card EXCEPT !.subkeys = [@ EXCEPT ![i] = s]]
          BY <1>1, <3>1, <4>1, SetKeyPurposesFound
      <4> HIDE DEF i, s
      <4>3. G[k] = Granted(card.subkeys[i]) /\ G' = [G EXCEPT ![k] = Granted(s)]
          BY <4>2, EntryStep
      <4>4. Serves(s) = S
          BY <4>2 DEF Serves, HasPurpose
      <4>5. Granted(s) = [listed |-> TRUE, purposes |-> S, until |-> G[k].until]
          BY <4>2, <4>3, <4>4 DEF Granted
      <4>. QED
          BY <4>3, <4>5 DEF GrantsOf
    <3>2. CASE FindKey(card, k) = 0
      <4>1. card' = [card EXCEPT !.subkeys = Append(@, NewEntry(k, ps))]
          BY <1>2, <3>2 DEF SetKeyPurposes
      <4>2. G[k] = NotGranted /\ G' = [G EXCEPT ![k] = Granted(NewEntry(k, ps))]
          BY <3>2, <4>1, AppendStep
      <4>3. Serves(NewEntry(k, ps)) = S /\ NewEntry(k, ps).expires = NotGranted.until
          BY DEF Serves, NewEntry, HasPurpose, NotGranted
      <4>4. Granted(NewEntry(k, ps)) = [listed |-> TRUE, purposes |-> S, until |-> G[k].until]
          BY <4>2, <4>3 DEF Granted
      <4>. QED
          BY <4>2, <4>4 DEF GrantsOf
    <3>. QED
        BY <3>1, <3>2
  <2>3. Table!Assign(k, S)
      BY <1>1, <2>2 DEF Table!Assign
  <2>. QED
      BY <2>1, <2>3 DEF Table!GrantsNext
<1>3. ASSUME NEW i \in DOMAIN card.subkeys, NEW S \in SUBSET Purposes, AddPurpose(i, S)
      PROVE  Table!GrantsNext
  <2> DEFINE k == card.subkeys[i].key
  <2>1. PICK s \in SubKey :
           /\ s.key = k /\ s.expires = card.subkeys[i].expires
           /\ \A p \in Purposes :
                 HasPurpose(s, p) <=> HasPurpose(card.subkeys[i], p) \/ p \in S
           /\ card' = [card EXCEPT !.subkeys = [@ EXCEPT ![i] = s]]
      BY <1>1, <1>3, AddPurposeEffect
  <2>2. /\ k \in Keys /\ G[k] = Granted(card.subkeys[i])
        /\ G' = [G EXCEPT ![k] = Granted(s)]
      BY <2>1, EntryStep
  <2>3. Serves(s) = Serves(card.subkeys[i]) \cup S
      BY <2>1, Zenon DEF Serves
  <2>4. Granted(s) = [Granted(card.subkeys[i]) EXCEPT !.purposes = @ \cup S]
    <3> DEFINE g == Granted(card.subkeys[i])
               x == g.purposes \cup S
    <3>1. [g EXCEPT !.purposes = x]
            = [listed |-> g.listed, until |-> g.until, purposes |-> x]
      <4>1. g \in Grant({card.subkeys[i].expires})
          BY GrantedIsGrant
      <4> HIDE DEF g, x
      <4>. QED
          BY <4>1, GrantChanged
    <3>. QED
        BY <2>1, <2>3, <3>1 DEF Granted
  <2>5. [G EXCEPT ![k].purposes = @ \cup S] = [G EXCEPT ![k] = [G[k] EXCEPT !.purposes = @ \cup S]]
      BY DEF GrantsOf
  <2>6. G[k].listed
      BY <2>2 DEF Granted
  <2>7. Table!Widen(k, S)
    <3> HIDE DEF k
    <3>. QED
        BY <1>1, <2>2, <2>4, <2>5, <2>6 DEF Table!Widen
  <2>. QED
      BY <2>2, <2>7 DEF Table!GrantsNext
<1>4. ASSUME NEW i \in DOMAIN card.subkeys, NEW until \in Option(Times),
             SetExpiry(i, until)
      PROVE  Table!GrantsNext
  <2> DEFINE k == card.subkeys[i].key
             s == [card.subkeys[i] EXCEPT !.expires = until]
  <2>1. /\ s \in SubKey /\ s.key = k
        /\ s.purposes = card.subkeys[i].purposes /\ s.expires = until
        /\ card' = [card EXCEPT !.subkeys = [@ EXCEPT ![i] = s]]
      BY <1>1, <1>4, SetExpiryEffect
  <2> HIDE DEF s
  <2>2. /\ k \in Keys /\ G[k] = Granted(card.subkeys[i])
        /\ G' = [G EXCEPT ![k] = Granted(s)]
      BY <2>1, EntryStep
  <2>3. Granted(s) = [Granted(card.subkeys[i]) EXCEPT !.until = until]
    <3>1. Serves(s) = Serves(card.subkeys[i])
        BY <2>1 DEF Serves, HasPurpose
    <3>2. [Granted(card.subkeys[i]) EXCEPT !.until = until]
            = [listed   |-> Granted(card.subkeys[i]).listed,
               until    |-> until,
               purposes |-> Granted(card.subkeys[i]).purposes]
        BY GrantedIsGrant, GrantChanged
    <3>. QED
        BY <2>1, <3>1, <3>2 DEF Granted
  <2>4. [G EXCEPT ![k].until = until] = [G EXCEPT ![k] = [G[k] EXCEPT !.until = until]]
      BY DEF GrantsOf
  <2>5. G[k].listed
      BY <2>2 DEF Granted
  <2>6. Table!Limit(k, until)
    <3> HIDE DEF k
    <3>. QED
        BY <1>1, <2>2, <2>3, <2>4, <2>5 DEF Table!Limit
  <2>7. until \in Table!Option(Times)
      BY DEF Option, Table!Option, Absent, Table!Absent, Present, Table!Present
  <2>. QED
      BY <2>2, <2>6, <2>7 DEF Table!GrantsNext
<1>. QED
    BY <1>2, <1>3, <1>4, InputsTyped DEF Edit

LEMMA RefinesNext ==
    ASSUME IDCardInv, [Next]_vars
    PROVE  [Table!GrantsNext]_<<GrantsOf(card), answer>>
<1>1. ASSUME card'.subkeys = card.subkeys
      PROVE  GrantsOf(card)' = GrantsOf(card)
    BY <1>1 DEF GrantsOf, FindKey
<1>2. CASE Edit
    BY <1>2, EditRefines
<1>3. ASSUME NEW i \in DOMAIN card.subkeys, Revoke(i)
      PROVE  UNCHANGED <<GrantsOf(card), answer>>
    BY <1>1, <1>3 DEF Revoke, IDCardInv, TypeOK, Card
<1>4. CASE Reload
    BY <1>1, <1>4, CardRoundTrip DEF Reload, IDCardInv, TypeOK
<1>5. ASSUME NEW p \in Purposes, NEW t \in Times, CallKeysFor(p, t)
      PROVE  Table!GrantsNext
  <2>1. /\ card' = card
        /\ answer' = Present([purpose |-> p, time |-> t, keys |-> Table!FitFor(p, t)])
      BY <1>5, KeysForIsFitFor DEF CallKeysFor
  <2>2. Table!Ask(p, t)
      BY <1>1, <2>1 DEF Table!Ask, Table!Present, Present
  <2>. QED
      BY <2>2 DEF Table!GrantsNext
<1>6. CASE UNCHANGED vars
    BY <1>1, <1>6 DEF vars
<1>. QED
    BY <1>2, <1>3, <1>4, <1>5, <1>6 DEF Next

\* A card is the table of grants it stands for, whatever calls are made: each
\* changes what the key it names is good for and nothing else, and keys_for
\* answers from the table (idcard.rs:47-54, 133-173, 177-262).
THEOREM CardImplementsGrants == Spec => ImplementsGrants
<1>1. Init => IDCardInv /\ Table!GrantsInit
    BY InvInit, RefinesInit
<1>2. IDCardInv /\ [Next]_vars => IDCardInv'
    BY InvNext
<1>3. IDCardInv /\ [Next]_vars => [Table!GrantsNext]_<<GrantsOf(card), answer>>
    BY RefinesNext
<1>. QED
    BY <1>1, <1>2, <1>3, PTL DEF Spec, ImplementsGrants, Table!GrantsSpec
=============================================================================
