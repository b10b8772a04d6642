------------------------------- MODULE Group --------------------------------
(***************************************************************************)
(* A group, its members and somebody who checks a membership: cards travel *)
(* as signed bottles and are read by IDCard::from_signed, a membership is  *)
(* edited, signed by whoever has a key, stored on a card and verified      *)
(* against the card the verifier has come to trust.                        *)
(*                                                                         *)
(* A card's bytes are the token <<"card", map>>, the bytes of a bottle the *)
(* token <<"bottle", its layers>>: different contents, different tokens.   *)
(***************************************************************************)
EXTENDS Membership, OpenVerdict

CONSTANTS
    CardsMet,       \* the cards that are made, by whoever
    GroupKey,       \* the primary key of the group
    MaxSigners      \* bound: signatures on one layer of a card on the way

ASSUME CardsAssumption   == CardsMet \subseteq Card
ASSUME GroupAssumption   == GroupKey \in OwnKeys
ASSUME SignersAssumption == MaxSigners \in Nat

VARIABLES
    member,         \* the membership
    statements,     \* the signatures that sign::sign has made over memberships
    trusted,        \* the verifier's card of the group, if it has read one
    vouched         \* the cards that their own key signed, or a bottle around them

vars == <<member, statements, trusted, vouched>>

-----------------------------------------------------------------------------
(* Cards on the way.                                                        *)

CardBytes(c) == Plain(<<"card", CardValue(c)>>, "raw")

\* Bottle::new, with_header and bottle_up: the card's layer inside a clean one.
CardBottle(msg) ==
    LET content == Fresh(msg, "ClearText")
    IN  [bottle |-> Fresh(Plain(<<"bottle", content>>, "cbor"), "CborBottle"),
         nested |-> <<content>>]

\* The lists of keys that sign one after the other.
Signers == UNION {[1 .. n -> OwnKeys] : n \in 0 .. MaxSigners}

\* Bottle::sign on the outermost layer of an unsigned bottle, by each of ks in turn.
SignBottle(b, ks) ==
    [b EXCEPT !.bottle.signatures =
        IF ks = <<>> THEN @
        ELSE Some([i \in DOMAIN ks |->
                      [signer |-> ks[i], data |-> SignatureOver(ks[i], b.bottle.message)]])]

\* A carrier's bottle_up: a signed bottle goes inside a clean one.
Wrap(b) ==
    [bottle |-> Fresh(Plain(<<"bottle", b>>, "cbor"), "CborBottle"),
     nested |-> <<b.bottle>> \o b.nested]

\* The signatures of bottle d on the layers of bottle b: a damaged transport.
WithSignaturesOf(b, d) == [b EXCEPT !.bottle.signatures = d.bottle.signatures]

-----------------------------------------------------------------------------
(* IDCard::from_signed.                                                     *)

IsCard(payload) == payload.id[1] = "card"

\* Mutated: any verified signature will do.
FromSignedByAnyone(b) ==
    LET r == Verdict(b, {})
    IN  IF r.error # "none" \/ ~IsCard(r.payload) \/ r.signatures = <<>>
        THEN Absent
        ELSE Present(CardFrom(r.payload.id[2]))

\* The card that is read, or Absent for an error: the bottle must open without
\* keys, hold a card, and one of the signatures verified on the way to it must
\* name the bytes of the card's own key.
FromSigned(b) ==
    LET r == Verdict(b, {})
        c == CardFrom(r.payload.id[2])
    IN  IF /\ r.error = "none"
           /\ IsCard(r.payload)
           /\ \E i \in DOMAIN r.signatures : r.signatures[i].signer = c.self_key
        THEN Present(c)
        ELSE Absent

-----------------------------------------------------------------------------

Init ==
    /\ \E s \in Subjects : member = NewMembership(s, GroupKey)
    /\ statements = {}
    /\ trusted = Absent
    /\ vouched = {}

\* Card c was signed by the keys of S, on its own bottle or on one around it.
Vouch(c, S) ==
    vouched' = IF c.self_key \in S THEN vouched \cup {c} ELSE vouched

\* The verifier is handed a bottle; after an error it keeps the card it has.
Receive(b) ==
    /\ trusted' = IF FromSigned(b) = Absent THEN trusted ELSE FromSigned(b)
    /\ UNCHANGED <<member, statements>>

\* IDCard::sign with key k; it has an error when k cannot sign.
DeliverSigned(c, k) ==
    /\ SignSupported(k)
    /\ Vouch(c, {k})
    /\ Receive(SignBottle(CardBottle(CardBytes(c)), <<k>>))

\* The bottle of a card, signed by the keys of ks, in a bottle that j has signed.
DeliverWrapped(c, ks, j) ==
    /\ \A i \in DOMAIN ks : SignSupported(ks[i])
    /\ SignSupported(j)
    /\ Vouch(c, {ks[i] : i \in DOMAIN ks} \cup {j})
    /\ Receive(SignBottle(Wrap(SignBottle(CardBottle(CardBytes(c)), ks)), <<j>>))

\* A bottle of card c arrives with the signature made on the bottle of card d.
DeliverMixed(c, d, k) ==
    /\ SignSupported(k)
    /\ Vouch(d, {k})
    /\ Receive(WithSignaturesOf(CardBottle(CardBytes(c)),
                                SignBottle(CardBottle(CardBytes(d)), <<k>>)))

\* The public fields of the membership.
SetStatus(st) ==
    /\ member' = [member EXCEPT !.status = st]
    /\ UNCHANGED <<statements, trusted, vouched>>

SetSubject(s) ==
    /\ member' = [member EXCEPT !.subject = s]
    /\ UNCHANGED <<statements, trusted, vouched>>

\* Membership::sign.  The signing key is named before the signature is made,
\* and stays named when a key that cannot sign makes none.
Sign(k) ==
    /\ member.subject # Absent
    /\ LET named == [member EXCEPT !.sign_key = Present(k)]
           sig   == SignatureOver(k, SignatureBytes(named))
       IN  \/ /\ SignSupported(k)
              /\ statements' = statements \cup {sig}
              /\ member' = [named EXCEPT !.signature = Present(sig)]
           \/ /\ ~SignSupported(k)
              /\ member' = named
              /\ UNCHANGED statements
    /\ UNCHANGED <<trusted, vouched>>

\* The membership goes into a card's groups and comes back, through CBOR.
Store ==
    /\ member' = MembershipFrom(Entries(member, TRUE))
    /\ UNCHANGED <<statements, trusted, vouched>>

Next ==
    \/ \E c \in CardsMet, k \in OwnKeys : DeliverSigned(c, k)
    \/ \E c \in CardsMet, ks \in Signers, j \in OwnKeys : DeliverWrapped(c, ks, j)
    \/ \E c, d \in CardsMet, k \in OwnKeys : DeliverMixed(c, d, k)
    \/ \E st \in Statuses : SetStatus(st)
    \/ \E s \in Option(Subjects) : SetSubject(s)
    \/ \E k \in OwnKeys : Sign(k)
    \/ Store

Spec == Init /\ [][Next]_vars

-----------------------------------------------------------------------------
(* Properties.                                                              *)

\* What can be signed: a membership with every field but the signature.
Contents ==
    [subject : Option(Subjects), key : {GroupKey}, status : Statuses,
     sign_key : Option(OwnKeys), signature : {Absent}]

Statements == [by : OwnKeys, over : {SignatureBytes(m) : m \in Contents}]

\* The types; a signature never covers an earlier one, so a membership can be
\* signed again (membership.rs:63-67).
TypeOK ==
    /\ statements \subseteq Statements
    /\ member \in [subject : Option(Subjects), key : {GroupKey}, status : Statuses,
                  sign_key : Option(OwnKeys), signature : Option(statements)]
    /\ trusted \in Option(CardsMet)
    /\ vouched \subseteq CardsMet

\* Statement st, made by key k, says all that membership m says.
Says(st, k, m) ==
    /\ st.by = k
    /\ LET map == st.over[2]
       IN  <<map[1], map[2], map[3], map[6]>> = <<m.subject, m.key, m.status, Present(k)>>

\* Key k may sign for the group, as the verifier can know: it is the group's key,
\* or the group's card grants it signing, in some encoding and past time 0.
MaySign(k, group) ==
    IF group = Absent THEN k = GroupKey
    ELSE /\ group[1].self_key = GroupKey
         /\ \E i \in DOMAIN group[1].subkeys :
               LET s == group[1].subkeys[i]
               IN  /\ Canonical[s.key] = k
                   /\ s.purposes[SignPurpose] > 0
                   /\ s.expires = Absent \/ s.expires[1] > 0

\* verify succeeds exactly when a key that may sign for the group has made a
\* statement of all that the membership says now and that statement is the one
\* attached: no order of edits, signatures, failed signatures and new cards makes
\* another membership pass, or a good one fail (membership.rs:149-189).
VerifyIsExact ==
    \A group \in {Absent, trusted} :
        MembershipVerifies(member, group) <=>
            \E k \in OwnKeys : /\ MaySign(k, group)
                              /\ member.sign_key = Present(k)
                              /\ \E st \in statements : /\ member.signature = Present(st)
                                                       /\ Says(st, k, member)
                              /\ member.subject # Absent

\* Authority comes from the group: a membership that passes against the card the
\* verifier has read was signed by a key on a card that the group's own key signed
\* or wrapped, whoever else signed or carried cards (idcard.rs:279-286).
AuthorityFromGroup ==
    trusted # Absent /\ MembershipVerifies(member, trusted) =>
        \E c \in vouched : /\ c.self_key = GroupKey
                          /\ MaySign(member.sign_key[1], Present(c))

WithSubject(m, s) == [m EXCEPT !.subject = Present(s)]

\* Storing a membership on a card and reading it back changes neither what it
\* says nor how it verifies (idcard.rs:183-190, 239-247; membership.rs:80-132).
\* membership.rs:17 says the subject is "cleared once stored on an IDCard": no
\* code clears it, a stored membership that verified still does, and where a
\* caller clears it verify refuses (membership.rs:151) until the subject is put
\* back, which gives the verdict there was, whatever was stored in between.
StoringKeepsVerdict ==
    [][Store \/ SetSubject(Absent) =>
          \A group \in {Absent, trusted} :
             /\ Store => MembershipError(member', group) = MembershipError(member, group)
             /\ member'.subject = Absent => MembershipError(member', group) = "Malformed"
             /\ \A s \in Subjects :
                   MembershipError(WithSubject(member', s), group)
                      = MembershipError(WithSubject(member, s), group)]_vars

\* The comment on the field, membership.rs:26: "The key that generated the
\* signature."  sign names the key before it has signed (membership.rs:141-143).
SignKeyMadeSignature ==
    member.signature # Absent =>
        member.sign_key = Present(member.signature[1].by)
=============================================================================
