------------------------------- MODULE IDCard -------------------------------
(***************************************************************************)
(* An IDCard in its owner's hands: the calls of idcard.rs that change it,  *)
(* and the writes to its public fields, in any order.                      *)
(***************************************************************************)
EXTENDS Cards

CONSTANTS
    Lists,          \* the lists of purposes that callers give
    Expiries,       \* the times of expiry that owners write
    MaxSubkeys,     \* bound: entries of the card
    MaxRevoked      \* bound: entries of its revocation list

ASSUME InputAssumption  == Lists \subseteq PurposeLists /\ Expiries \subseteq Times
ASSUME BoundsAssumption == {MaxSubkeys, MaxRevoked} \subseteq Nat

VARIABLES
    card,       \* the card
    answer      \* the last call of keys_for and what it returned, if there was one

vars == <<card, answer>>

-----------------------------------------------------------------------------

Init ==
    /\ \E k \in OwnKeys : card = NewCard(k)
    /\ answer = Absent

\* Mutated: the entry is never looked up.
SetKeyPurposesAnew(k, ps) ==
    /\ Len(card.subkeys) < MaxSubkeys
    /\ card' = [card EXCEPT !.subkeys = Append(@, NewEntry(k, ps))]
    /\ UNCHANGED answer

\* set_key_purposes: the first entry of the key is changed, or one is added.
SetKeyPurposes(k, ps) ==
    /\ \/ /\ FindKey(card, k) # 0
          /\ card' = [card EXCEPT !.subkeys[FindKey(card, k)].purposes = ps]
       \/ /\ FindKey(card, k) = 0
          /\ Len(card.subkeys) < MaxSubkeys
          /\ card' = [card EXCEPT !.subkeys = Append(@, NewEntry(k, ps))]
    /\ UNCHANGED answer

\* Mutated: a purpose is pushed though the list has it.
AddPurposeAgain(i, S) ==
    /\ card' = [card EXCEPT !.subkeys[i].purposes =
                   [p \in Purposes |-> IF p \in S THEN @[p] + 1 ELSE @[p]]]
    /\ UNCHANGED answer

\* SubKey::add_purpose on an entry: each purpose that the list does not have yet.
AddPurpose(i, S) ==
    /\ card' = [card EXCEPT !.subkeys[i].purposes =
                   [p \in Purposes |-> IF p \in S /\ @[p] = 0 THEN 1 ELSE @[p]]]
    /\ UNCHANGED answer

\* The owner writes the expiry of an entry.
SetExpiry(i, until) ==
    /\ card' = [card EXCEPT !.subkeys[i].expires = until]
    /\ UNCHANGED answer

\* The owner puts a copy of an entry on the revocation list.
Revoke(i) ==
    /\ Len(Listed(card.revoke)) < MaxRevoked
    /\ card' = [card EXCEPT !.revoke = Present(Append(Listed(@), card.subkeys[i]))]
    /\ UNCHANGED answer

\* The card goes through to_cbor and from_cbor.
Reload ==
    /\ card' = CardFrom(CardValue(card))
    /\ UNCHANGED answer

CallKeysFor(p, t) ==
    /\ answer' = Present([purpose |-> p, time |-> t, keys |-> KeysFor(card, p, t)])
    /\ UNCHANGED card

Edit ==
    \/ \E k \in Keys, ps \in Lists : SetKeyPurposes(k, ps)
    \/ \E i \in DOMAIN card.subkeys, S \in SUBSET Purposes : AddPurpose(i, S)
    \/ \E i \in DOMAIN card.subkeys, until \in Option(Expiries) : SetExpiry(i, until)

Next ==
    \/ Edit
    \/ \E i \in DOMAIN card.subkeys : Revoke(i)
    \/ Reload
    \/ \E p \in Purposes, t \in Times : CallKeysFor(p, t)

Spec == Init /\ [][Next]_vars
-----------------------------------------------------------------------------
(* Properties.                                                              *)

\* The types; no list holds a purpose more often than a list some caller gave
\* to set_key_purposes, so add_purpose never repeats one (idcard.rs:47-54).
TypeOK ==
    /\ card \in Card
    /\ answer \in Option([purpose : Purposes, time : Times, keys : SUBSET Keys])

\* Whatever calls are made, a byte string names one entry of the card: the code
\* changes the first match and reads all of them (idcard.rs:138, 162), so a
\* second entry would keep a purpose that was taken away.
EntriesDistinct ==
    \A i, j \in DOMAIN card.subkeys :
        card.subkeys[i].key = card.subkeys[j].key => i = j

\* The card read as the table it stands for.
GrantsOf(c) ==
    [k \in Keys |->
        LET i == FindKey(c, k)
        IN  IF i = 0
            THEN [listed |-> FALSE, purposes |-> {}, until |-> Absent]
            ELSE [listed |-> TRUE, until |-> c.subkeys[i].expires,
                  purposes |-> {p \in Purposes : HasPurpose(c.subkeys[i], p)}]]

Table == INSTANCE Grants WITH grants <- GrantsOf(card)

\* The card implements the table of grants: a call changes what the key it names
\* is good for and nothing else, CBOR and the revocation list change nothing, and
\* keys_for gives the keys granted the purpose and not expired at that second.
ImplementsGrants == Table!GrantsSpec
=============================================================================
