----------------------------- MODULE Membership -----------------------------
(***************************************************************************)
(* The Membership struct as a value: its CBOR map, the bytes its signature *)
(* covers, and the checks of Membership::verify in their order.  info and  *)
(* issued are covered by the signature like status is and are left out.    *)
(***************************************************************************)
EXTENDS Cards

CONSTANTS
    Subjects,       \* primary keys of members
    Statuses,       \* texts of the status field
    ValidStatus     \* "valid" among them

ASSUME StatusAssumption == ValidStatus \in Statuses

-----------------------------------------------------------------------------

\* Membership::new.
NewMembership(subject, group) ==
    [subject |-> Present(subject), key |-> group, status |-> ValidStatus,
     sign_key |-> Absent, signature |-> Absent]

\* The map that is encoded: a field without a value is null, and the
\* signature is null in what is signed.
Entries(m, include_signature) ==
    [f \in {1, 2, 3, 6, 7} |->
        CASE f = 1 -> m.subject
          [] f = 2 -> m.key
          [] f = 3 -> m.status
          [] f = 6 -> m.sign_key
          [] f = 7 -> IF include_signature THEN m.signature ELSE Absent]

\* Mutated: the earlier signature is covered by the new one.
SignatureBytesWhole(m) == <<"membership", Entries(m, TRUE)>>

\* The bytes of the map that signature_bytes encodes.
SignatureBytes(m) == <<"membership", Entries(m, FALSE)>>

\* Mutated: a suspended membership is read back with the status of a new one.
MembershipFromFresh(map) ==
    [subject |-> map[1], key |-> map[2], status |-> ValidStatus,
     sign_key |-> map[6], signature |-> map[7]]

\* Membership::from_value.
MembershipFrom(map) ==
    [subject |-> map[1], key |-> map[2], status |-> map[3],
     sign_key |-> map[6], signature |-> map[7]]

-----------------------------------------------------------------------------

\* verify with no card: the group key itself must have signed.
KeyError(m) == IF m.sign_key # Present(m.key) THEN "Malformed" ELSE "none"

\* Mutated: the bytes of the card's entries are compared, not the keys.
CardErrorBytes(m, card) ==
    IF m.key # card.self_key THEN "Malformed"
    ELSE IF m.sign_key[1] \notin PublicKeys THEN "Pkix"
    ELSE IF ~ \E i \in DOMAIN card.subkeys :
             /\ card.subkeys[i].key = m.sign_key[1]
             /\ HasPurpose(card.subkeys[i], SignPurpose)
             /\ ~Expired(card.subkeys[i], 0) THEN "KeyUnfit"
    ELSE "none"

\* verify with the card of the group: the card must be that of the group and
\* list the signing key, in whatever encoding, for signing at time 0.
CardError(m, card) ==
    IF m.key # card.self_key THEN "Malformed"
    ELSE IF m.sign_key[1] \notin PublicKeys THEN "Pkix"
    ELSE IF Canonical[m.sign_key[1]] \notin KeysFor(card, SignPurpose, 0) THEN "KeyUnfit"
    ELSE "none"

\* Membership::verify; group is an optional card.
MembershipError(m, group) ==
    LET signer == IF group = Absent THEN KeyError(m) ELSE CardError(m, group[1])
    IN  IF m.subject = Absent \/ m.sign_key = Absent THEN "Malformed"
        ELSE IF signer # "none" THEN signer
        ELSE IF m.signature = Absent THEN "Malformed"
        ELSE VerifyError(m.sign_key[1], SignatureBytes(m), m.signature[1])

MembershipVerifies(m, group) == MembershipError(m, group) = "none"
=============================================================================
