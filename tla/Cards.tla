------------------------------- MODULE Cards --------------------------------
(***************************************************************************)
(* The IDCard struct as a value: its entries, the questions keys_for and   *)
(* find_key ask of them, and its CBOR map.  Of the six fields those are    *)
(* kept that an operation reads; meta and the times of issue are carried   *)
(* along by the code and read by nothing.                                  *)
(*                                                                         *)
(* A list of purposes is sorted after every call that changes it, so it is *)
(* given by how often it holds each purpose.                               *)
(***************************************************************************)
EXTENDS BottleKeys

CONSTANTS
    Canonical,      \* the encoding that each key is marshalled to
    Purposes,       \* names of purposes
    SignPurpose,    \* "sign" among them
    Times,          \* points in time, in seconds
    Repeats         \* bound: how often a caller's list holds one purpose

ASSUME CanonicalAssumption ==
    /\ Canonical \in [Keys -> Keys]
    /\ \A k \in Keys : /\ Canonical[Canonical[k]] = Canonical[k]
                       /\ Algorithm[Canonical[k]] = Algorithm[k]
ASSUME PurposeAssumption == SignPurpose \in Purposes
ASSUME TimesAssumption   == Times \subseteq Nat
ASSUME RepeatsAssumption == Repeats \in Nat \ {0}

-----------------------------------------------------------------------------

\* Option<T>: nothing, or one value.
Absent     == <<>>
Present(x) == <<x>>
Option(S)  == {Absent} \cup {Present(x) : x \in S}

\* The entries of an optional list.
Listed(o) == IF o = Absent THEN <<>> ELSE o[1]

OwnKeys == {k \in PrivateKeys : Canonical[k] = k}

PurposeLists == [Purposes -> 0 .. Repeats]
NoPurposes   == [p \in Purposes |-> 0]
OnlySign     == [NoPurposes EXCEPT ![SignPurpose] = 1]

SubKey == [key : Keys, expires : Option(Times), purposes : PurposeLists]
Card   == {c \in [self_key : Keys, subkeys : Seq(SubKey), revoke : Seq(Seq(SubKey))] :
              Len(c.revoke) <= 1}

NewEntry(k, ps) == [key |-> k, expires |-> Absent, purposes |-> ps]

\* IDCard::new: the primary key is listed for signing whatever its kind.
NewCard(k) ==
    [self_key |-> k, subkeys |-> <<NewEntry(k, OnlySign)>>, revoke |-> Absent]

HasPurpose(s, p) == s.purposes[p] > 0

\* Mutated: a key expires after the second it expires at.
ExpiredLate(s, t) == s.expires # Absent /\ s.expires[1] < t

Expired(s, t) == s.expires # Absent /\ s.expires[1] <= t

\* IDCard::keys_for; a subkey that does not parse is passed over.
KeysFor(c, p, t) ==
    {Canonical[c.subkeys[i].key] :
        i \in {j \in DOMAIN c.subkeys : /\ HasPurpose(c.subkeys[j], p)
                                        /\ ~Expired(c.subkeys[j], t)
                                        /\ c.subkeys[j].key \in PublicKeys}}

\* The least of a set of indices, or 0.
Least(S) == IF S = {} THEN 0 ELSE CHOOSE i \in S : \A j \in S : i <= j

\* IDCard::find_key: the index of the first entry with these bytes, or 0.
FindKey(c, k) == Least({i \in DOMAIN c.subkeys : c.subkeys[i].key = k})

-----------------------------------------------------------------------------
(* The card as a CBOR map and back.  A value of a field that may be null is *)
(* an option; an expiry that is absent leaves its key out of the map.       *)

SubKeyValue(s) ==
    [f \in {1, 4} \cup (IF s.expires = Absent THEN {} ELSE {3}) |->
        CASE f = 1 -> s.key [] f = 3 -> s.expires[1] [] f = 4 -> s.purposes]

SubKeyFrom(v) ==
    [key      |-> v[1],
     expires  |-> IF 3 \in DOMAIN v THEN Present(v[3]) ELSE Absent,
     purposes |-> IF 4 \in DOMAIN v THEN v[4] ELSE NoPurposes]

Each(list, Op(_)) == [i \in DOMAIN list |-> Op(list[i])]

CardValue(c) ==
    [f \in {1, 3, 4} |->
        CASE f = 1 -> c.self_key
          [] f = 3 -> Each(c.subkeys, SubKeyValue)
          [] f = 4 -> IF c.revoke = Absent THEN Absent
                      ELSE Present(Each(c.revoke[1], SubKeyValue))]

CardFrom(v) ==
    [self_key |-> v[1],
     subkeys  |-> Each(v[3], SubKeyFrom),
     revoke   |-> IF v[4] = Absent THEN Absent ELSE Present(Each(v[4][1], SubKeyFrom))]
=============================================================================
