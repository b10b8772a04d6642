------------------------------ MODULE Keychain ------------------------------
(***************************************************************************)
(* The keychain: private keys indexed by their PKIX public key, one of     *)
(* them the default signer, written to a byte string and read back.        *)
(*                                                                         *)
(* stored is one serialized keychain, in the caller's hands between        *)
(* serialize and deserialize; bytes that someone changed are part of it.    *)
(***************************************************************************)
EXTENDS BottleKeys, FiniteSets

CONSTANTS
    Passwords,      \* the passwords a caller uses
    NoPassword,     \* Option::None for a password
    MaxKeys         \* bound: keys added to one keychain

ASSUME PasswordAssumption == NoPassword \notin Passwords

NoSigner == "no signer"
Garbage  == "garbage"       \* a payload that is no private key
ASSUME SignerAssumption == NoSigner \notin Keys /\ Garbage \notin Keys

VARIABLES
    keys,           \* the keys held: the domain of the hash map
    sign_key,       \* the default signer, or NoSigner
    stored,         \* the last serialized keychain, or Nothing
    result,         \* what the last call returned
    added,          \* history: the keys in the order they came in
    saved           \* history: the keychain that was serialized

vars == <<keys, sign_key, stored, result, added, saved>>

-----------------------------------------------------------------------------
(* Entries: PrivateKey::to_entry and from_entry.                            *)

Pkcs8     == 0
MlKemKind == 1
EcdsaKind == 2
EntryKinds == {Pkcs8, MlKemKind, EcdsaKind}

\* Mutated: an ECDSA key is written as PKCS#8 like the others.
EntryKindPkcs8(k) ==
    IF Algorithm[k] \in KemKinds THEN MlKemKind ELSE Pkcs8

EntryKind(k) ==
    CASE Algorithm[k] = "Ecdsa" -> EcdsaKind
      [] Algorithm[k] \in KemKinds -> MlKemKind
      [] OTHER -> Pkcs8

\* pair: the entry is an array of a number of one byte and a byte string.
ToEntry(k) == [pair |-> TRUE, kind |-> EntryKind(k), payload |-> k]

\* The payload of one kind does not parse as another; PKCS#8 bytes come back as
\* the kinds from_any has an arm for.
Pkcs8Kinds == {"Rsa", "Ed25519", "X25519", "MlDsa", "SlhDsa"}

PayloadReads(e) ==
    \/ e.kind = Pkcs8 /\ Algorithm[e.payload] \in Pkcs8Kinds
    \/ e.kind = EcdsaKind /\ Algorithm[e.payload] = "Ecdsa"
    \/ e.kind = MlKemKind /\ Algorithm[e.payload] \in KemKinds

EntryReads(e) == e.pair /\ e.payload # Garbage /\ PayloadReads(e)

-----------------------------------------------------------------------------

\* framed: the container is an array of a number and an array.
Entry   == [pair : BOOLEAN, kind : Nat, payload : PrivateKeys \cup {Garbage}]
Stored  == [password : Passwords \cup {NoPassword}, intact : BOOLEAN, framed : BOOLEAN,
            version : Nat, entries : Seq(Entry)]
Nothing == [password |-> NoPassword, intact |-> TRUE, framed |-> FALSE, version |-> 0,
            entries |-> <<>>]
FormatVersion == 1

EmptyKeychain == [keys |-> {}, sign_key |-> NoSigner]

Init ==
    /\ keys = {}
    /\ sign_key = NoSigner
    /\ stored = Nothing
    /\ result = "ok"
    /\ added = <<>>
    /\ saved = EmptyKeychain

\* Mutated: any key becomes the signer when there is none.
SignerAfterAny(signer, k) == IF signer = NoSigner THEN k ELSE signer

\* Mutated: the last signing key added becomes the signer.
SignerAfterLast(signer, k) == IF CanSign(k) THEN k ELSE signer

\* The default signer once k is added to a keychain whose signer is signer.
SignerAfter(signer, k) == IF CanSign(k) /\ signer = NoSigner THEN k ELSE signer

\* The default signer of a keychain that the keys of a list were added to.
SignerOf(list) ==
    LET signer[n \in 0 .. Len(list)] ==
            IF n = 0 THEN NoSigner ELSE SignerAfter(signer[n - 1], list[n])
    IN  signer[Len(list)]

\* add_key, of a key held already too; from_keys is a sequence of these on an empty keychain.
AddKey(k) ==
    /\ Cardinality(keys \cup {k}) <= MaxKeys
    /\ keys' = keys \cup {k}
    /\ sign_key' = SignerAfter(sign_key, k)
    /\ added' = IF k \in keys THEN added ELSE Append(added, k)
    /\ result' = "ok"
    /\ UNCHANGED <<stored, saved>>

\* The orders in which the keys of a set can be gone through.
Orders(S) ==
    {order \in [1 .. Cardinality(S) -> S] :
        \A k \in S : \E i \in 1 .. Cardinality(S) : order[i] = k}

\* serialize: the values of the hash map in any order, under the password.
Serialize(pw) ==
    /\ \E order \in Orders(keys) :
          stored' = [password |-> pw, intact |-> TRUE, framed |-> TRUE,
                     version  |-> FormatVersion,
                     entries  |-> [i \in DOMAIN order |-> ToEntry(order[i])]]
    /\ saved' = [keys |-> keys, sign_key |-> sign_key]
    /\ result' = "ok"
    /\ UNCHANGED <<keys, sign_key, added>>

\* What one changed byte makes of an entry: its shape, its kind, or its payload,
\* which then holds nothing that reads or, as every P-256 scalar and every seed
\* is a key, another key of that entry kind.
ChangedEntries(e, taken) ==
    {[e EXCEPT !.pair = FALSE]}
        \cup {[e EXCEPT !.kind = kind] : kind \in (EntryKinds \cup {3}) \ {e.kind}}
        \cup {[e EXCEPT !.payload = p] :
                 p \in {Garbage} \cup {k \in PrivateKeys \ taken : EntryKind(k) = e.kind}}

\* What it makes of a plain container: bytes of another shape, another version,
\* a shorter list, whose last entries are trailing data that cbor::from_slice
\* ignores, or a changed entry.  A change that decoding does not notice is none.
DamagePlain ==
    LET held == {stored.entries[i].payload : i \in DOMAIN stored.entries}
    IN  \/ stored' = [stored EXCEPT !.intact = FALSE, !.framed = FALSE]
        \/ stored' = [stored EXCEPT !.intact = FALSE, !.version = FormatVersion + 1]
        \/ \E n \in 0 .. Len(stored.entries) - 1 :
              stored' = [stored EXCEPT !.intact = FALSE, !.entries = SubSeq(@, 1, n)]
        \/ \E i \in DOMAIN stored.entries : \E e \in ChangedEntries(stored.entries[i], held) :
              stored' = [stored EXCEPT !.intact = FALSE, !.entries[i] = e]

\* The bytes change, once, in the caller's hands; those of an encrypted container
\* are authenticated, so that which one changed makes no difference.
Damage ==
    /\ stored # Nothing
    /\ stored.intact
    /\ \/ stored.password = NoPassword /\ DamagePlain
       \/ stored.password # NoPassword /\ stored' = [stored EXCEPT !.intact = FALSE]
    /\ UNCHANGED <<keys, sign_key, result, added, saved>>

-----------------------------------------------------------------------------
(* deserialize: the password, the container, then entry by entry into a     *)
(* keychain of its own, which an error drops.                               *)

\* Mutated: a password is ignored when the bytes are not encrypted.
DeserializeErrorLax(s, pw) ==
    IF pw # NoPassword /\ s.password # NoPassword /\ (s.password # pw \/ ~s.intact) THEN "Crypto"
    ELSE IF pw = NoPassword /\ s.password # NoPassword THEN "Malformed"
    ELSE IF ~s.framed \/ s.version # FormatVersion THEN "Malformed"
    ELSE IF \E i \in DOMAIN s.entries : ~EntryReads(s.entries[i]) THEN "Entry"
    ELSE "ok"

\* "Malformed" is any error of reading the container, that of cbor::from_slice
\* too, and "Entry" any error of reading an entry, of its shape or in from_entry.
DeserializeError(s, pw) ==
    IF pw # NoPassword /\ (s.password # pw \/ ~s.intact) THEN "Crypto"
    ELSE IF pw = NoPassword /\ s.password # NoPassword THEN "Malformed"
    ELSE IF ~s.framed \/ s.version # FormatVersion THEN "Malformed"
    ELSE IF \E i \in DOMAIN s.entries : ~EntryReads(s.entries[i]) THEN "Entry"
    ELSE "ok"

PayloadsOf(s) == [i \in DOMAIN s.entries |-> s.entries[i].payload]

\* The caller replaces the keychain by the one read back.
Deserialize(pw) ==
    /\ stored # Nothing
    /\ result' = DeserializeError(stored, pw)
    /\ \/ /\ DeserializeError(stored, pw) = "ok"
          /\ keys' = {stored.entries[i].payload : i \in DOMAIN stored.entries}
          /\ added' = PayloadsOf(stored)
          /\ sign_key' = SignerOf(PayloadsOf(stored))
       \/ /\ DeserializeError(stored, pw) # "ok"
          /\ UNCHANGED <<keys, sign_key, added>>
    /\ UNCHANGED <<stored, saved>>

Next ==
    \/ \E k \in PrivateKeys : AddKey(k)
    \/ \E pw \in Passwords \cup {NoPassword} : Serialize(pw)
    \/ Damage
    \/ \E pw \in Passwords \cup {NoPassword} : Deserialize(pw)

Spec == Init /\ [][Next]_vars
-----------------------------------------------------------------------------
(* Properties.                                                              *)

\* The types of the state; an intact container holds entries that from_entry has
\* an arm for, whatever keys were serialized (key.rs:125-176).
TypeOK ==
    /\ keys \subseteq PrivateKeys
    /\ sign_key \in PrivateKeys \cup {NoSigner}
    /\ stored \in Stored
    /\ stored.intact => \A i \in DOMAIN stored.entries : EntryReads(stored.entries[i])
    /\ added \in Seq(PrivateKeys)
    /\ saved \in [keys : SUBSET PrivateKeys, sign_key : PrivateKeys \cup {NoSigner}]

\* However a keychain came about, first_signer has a key to give as soon as one
\* of the keys held can sign, it is held, and sign::sign accepts it: key.rs:107
\* and the arms of sign.rs:16-34 agree for every kind of key.
DefaultSignerSigns ==
    /\ sign_key # NoSigner => sign_key \in keys /\ SignSupported(sign_key)
    /\ (\E k \in keys : SignSupported(k)) => sign_key # NoSigner

\* Of the keys of a list, this is the first one that signs, if any does.
FirstToSign(signer, list) ==
    IF \E i \in DOMAIN list : CanSign(list[i])
    THEN \E i \in DOMAIN list : /\ signer = list[i] /\ CanSign(list[i])
                                /\ \A j \in 1 .. i - 1 : ~CanSign(list[j])
    ELSE signer = NoSigner

\* The default signer is the signing key that came in first, by add_key or as an
\* entry of the keychain read back (keychain.rs:30-36).
DefaultSignerCameFirst == FirstToSign(sign_key, added)

\* What keychain.rs:102-106 says.  Bytes that nobody changed give back, under
\* their password, the very keys that were serialized, whatever their kinds and
\* order; another password, or one for bytes that are not encrypted, or none for
\* bytes that are, is an error and never a keychain, and so is any change to
\* encrypted bytes.  Of changed bytes that are not encrypted nothing is said:
\* they may read as fewer keys or as others.
RestoreIsExact ==
    [][\A pw \in Passwords \cup {NoPassword} :
          Deserialize(pw) =>
              /\ stored.intact /\ pw = stored.password
                    => result' = "ok" /\ keys' = saved.keys
              /\ pw # stored.password \/ (~stored.intact /\ pw # NoPassword)
                    => result' # "ok" /\ UNCHANGED <<keys, sign_key>>]_vars

\* What keychain.rs:102 says: deserialize reconstructs the keychain that was
\* serialized, its default signer included, from bytes that nobody changed.
RestoreGivesBackSigner ==
    [][\A pw \in Passwords \cup {NoPassword} :
          Deserialize(pw) /\ stored.intact /\ result' = "ok"
              => sign_key' = saved.sign_key]_vars
=============================================================================
