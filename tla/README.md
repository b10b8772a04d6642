# A TLA+ verification of bottlers

`bottlers` (crate `bottlers`, Rust, `src/src/*.rs`) implements *bottles*:
containers that are nested, signed and encrypted layer by layer, and the
keychains, ID cards and group memberships that go with them. This directory
holds a formal model of it, the TLC runs that check it on small
instances, and theorems about it that TLAPS proves for every instance.

To check a module: `tlc -config MCBottle.cfg MCBottle` (the same for the other
MC modules); to prove one: `tlapm BottleProofs.tla` (the same for the other
modules whose name ends in `Proofs`).

## 1. Inventory

The library is single threaded and has no I/O of its own: each object is owned
by one caller, `&mut self` rules out concurrent calls, and nothing is persisted
except byte strings handed to the caller. What is hard is therefore not
interleaving but *sequences*: any legal sequence of calls, failed ones included,
on a structure whose five fields must keep fitting together; a bottle that comes
from elsewhere and need not have been made by this library; byte strings that
are stored and read back; and tables about kinds of keys that are repeated in
several files and kept in step by hand.

| Component | State | Operations that change it | What makes it correct |
|---|---|---|---|
| bottle (`bottle.rs`) | header, message, format, recipients, signatures; nested layers inside the message | `new`, `with_header`, `bottle_up`, `child`, `as_cbor_bottle`, `as_json_bottle` | the format of each layer tells how its message decodes; no layer is lost |
| seal (`seal.rs`) | the same struct | `encrypt`, `sign` | signatures cover the message they lie beside; every slot yields the content key; nothing is left outside a protection; a failure is harmless |
| opener (`opener.rs`) | keychain; during a call: current layer, `OpenResult`, `last_err` | `open`, `open_cbor`, `open_json`, `recover_content_key` | only verified signatures are reported; only holders read; a call always returns; the right error |
| sign, pqsig | none | `sign`, `verify`, `verify_pkix` | the kinds that sign are those that verify and those of `can_sign` |
| short, ecdh, mlkem | none | `encrypt_short`, `decrypt_short` | what is made for a key opens with it and with no other |
| key | none | `can_sign`, `to_entry`, `from_entry`, `from_any` | every kind written is read back |
| keychain | keys by PKIX, `sign_key` | `add_key`, `from_keys`, `serialize`, `deserialize` | the default signer can sign; intact bytes give back every key; a wrong password or a change to encrypted bytes is an error |
| json | none | `bottle_to_json`, `bottle_from_json` | a round trip preserves every field |
| idcard | subkeys with purposes and expiry, revocations, groups | `set_key_purposes`, `add_purpose`, writes to public fields, `to_cbor`, `from_cbor`, `sign`, `from_signed` | a card is a table of what each key may do; a card is accepted only from its own key |
| membership | subject, group, status, `sign_key`, signature | `sign`, writes to public fields, `from_value`; `verify` reads | `verify` succeeds exactly when a key with authority stated what the membership says now |
| cbor, pkix, pqkey | none | varints, canonical order, one value, DER | decoding inverts encoding; nothing else decodes to the same; no length is used before it is checked |
| error, memclr, lib | none | - | - |

How they interact: a writer calls `bottle` and `seal`; `seal` asks `sign` for a
signature and `short` for one envelope per recipient (`ecdh`, `mlkem` or RSA by
the kind of key). The result travels as CBOR or through `json`. A reader calls
`opener`, which decodes layer after layer, asks `sign` to verify each signature,
looks recipients up in its `keychain` and asks `short` to open their slots.
`idcard` and `membership` are payloads of signed bottles and are accepted on
what the opener reports (`OpenResult::signed_by_pkix`). There are no callbacks
and no shared state; byte strings are the only messages.

PROJECT.json lists every component with what is modelled of it, and 35 hazards
at the lines where they bite; four of them no property covers, with the reason.

## 2. Modules

```
 BottleKeys ── kinds of key, ideal signatures, short envelopes
   │    ├───── Keychain            add_key, serialize, deserialize
   │    │        └── KeychainProofs
   │    ├───── Grants ── a card as a table of grants         (abstract)
   │    └───── Cards ── the IDCard struct as a value
   │             ├── IDCard ── a card in its owner's hands   (detailed)
   │             │     └── IDCardProofs ── also what GroupProofs needs of cards
   │             └── Membership ── the Membership struct as a value
   │                   └── Group ── cards and a membership on the way to a
   │                         │      verifier; opens bottles by OpenVerdict
   │                         └── GroupProofs
 BottleLayers ─ the struct, message bytes, the JSON round trip
   ├── Bottle ── the write side, one action per operation
   │     └── BottleProofs
   ├── OpenResult ── what open is given and returns
   │     ├── OpenVerdict ── the one answer to a call of open, as a function
   │     │     ├── OpenPromise ── open as one atomic step  (abstract)
   │     │     └── LayerProofs ── lemmas on layers and verdicts, used by
   │     │            BottleProofs, OpenerProofs, ExchangeProofs, GroupProofs
   │     └── Opener ── open as the code runs it            (detailed)
   │           └── OpenerProofs ── Opener implements OpenPromise
   └── Exchange ── Bottle and Opener composed by a transport
         └── ExchangeProofs ── by instances of BottleProofs and OpenerProofs

 Uvarint ── varints, words, targets of a build
   ├── Envelope ── the bytes of short envelopes
   ├── Der ── public keys as DER, stored ML-KEM keys
   ├── Cbor ── canonical order, decoding of one value
   └── Codec ── written, cut, extended or replaced, read
         └── CodecProofs
```

* **BottleKeys** models what `sign.rs`, `short.rs`, `ecdh.rs` and `mlkem.rs`
  decide from the kind of key: which kinds sign, verify and receive, the framing
  of an envelope, and which error comes first when one is opened. An envelope says
  how its bytes begin (`version`), where it was cut, which ephemeral key and which
  size of ML-KEM ciphertext it embeds, for whom it was made and what it holds; so
  `EcdhError`, `HybridError` and `KemError` have every error path of `ecdh::decrypt`
  and `mlkem::decrypt`, in their order. The three lists of signing kinds that the code
  keeps (`can_sign` in `key.rs`, the arms of `sign::sign` and of `sign::verify`) are
  three definitions here as well.
* **BottleLayers** holds the `Bottle` struct as a record with the five fields of
  the code, and `DecodedFrom`, what a nested bottle is after the encoding it went
  through (CBOR: itself; JSON: `JsonTrip`).
* **Bottle** is the write side. `bottle` is the struct the caller holds; `nested`
  the sequence of layers encoded inside its message, outermost first, so that
  `bottle_up` pushes and `child` pops; `result` is what the last call returned.
  `Sign` and `Encrypt` are whole handlers: the conditional `bottle_up`, the loop
  over recipients with its early return, the cleared header, in one step, because
  nobody else can see the struct during the call.
* **Opener** is one call of `open`. Here the steps are fine: a turn of the layer
  loop (`PushLayer`, `DecodeNested`, `Unseal`), of the signature loop
  (`VerifySignature`) and of the recipient loop (`TrySlot`) is each an action, and
  so is each early return. Its variables are the locals of the code: `bottle` is
  `current`, `bottles`, `signatures` and `decryption` are `res`, `lastErr` is
  `last_err`. `box` and `answer` are the argument and the value returned.
* **OpenVerdict** states what `open` returns without loops: `Verdict` is a function
  of the bottle and the keys, decided by the first layer that ends the call
  (`Ends`). Where the loops of the code stop is said with sets of indices: the
  signatures that fail (`Failing`), the slots of held keys (`Tried`), those that
  yield a key (`Yielding`). An IF chain lists checks in the order of the code.
* **OpenPromise** makes it a specification: a bottle is handed over and one atomic
  step gives the verdict. Opener implements it (`KeepsPromise`, the abstract
  specification as a property; the variables have the same names, so the mapping is
  the identity on `held`, `box`, `answer` and hides the rest). `NoBox` stands for no
  bottle at all; token 0, which it is made of, is no bottle's contents.
* **Exchange** composes the two: whatever the writer made is sent as CBOR or JSON
  and opened by a reader with some keychain. `open_cbor` and `open_json` are its
  sends, and the only ways in which the reader's `Inbox` is used: it is empty.
* **Keychain** has the map, the default signer and one serialized byte string in
  the caller's hands, which may change. One changed byte of a plain container makes
  another shape, version, entry kind or payload of it, or a shorter list
  (`DamagePlain`). `serialize` goes through the hash map in
  any of its `Orders`; `SignerOf` is the loop of `deserialize`, the default signer
  after `add_key` of each entry in turn. `added` and `saved` are history variables:
  nothing but the properties reads them.
* **Cards** has the card as a record of the fields that some operation reads, the
  questions `keys_for` and `find_key` as operators on it, and its CBOR map in both
  directions: an absent expiry leaves its key out of the map, an absent list is
  null.
* **IDCard** has one variable for the card and one for the last call of
  `keys_for`, the question with its answer. Its actions are the two setters, CBOR and back (`Reload`), and writes
  to public fields (`SetExpiry`, `Revoke`), since the code leaves these to the
  caller.
* **Grants** says what a card is for: a function from keys to purposes and expiry,
  with four operations. IDCard implements it under `grants <- GrantsOf(card)`
  (`ImplementsGrants`); `Revoke` and `Reload` map to stutters. In particular the
  revocation list has no effect on `keys_for`, which is what idcard.rs:131-147 does.
* **Membership** has `signature_bytes`, `from_value` and `verify` as operators, the
  checks of `verify` in their order with their errors.
* **Group** puts them together. Cards reach a verifier as bottles: signed by any key
  (`DeliverSigned`), signed by several and wrapped in a bottle signed by another
  (`DeliverWrapped`), or with the signatures of another card's bottle
  (`DeliverMixed`). `FromSigned` opens them with `Verdict` of OpenVerdict and no
  keys, so the composition is with what `Opener` was shown to implement. Meanwhile
  the membership's fields are written, it is signed by whoever has a key, and it is
  stored and read back. `vouched` and `statements` are history variables.
* **Codec** is one writer and one reader with bytes between them, which arrive as
  they were, cut, extended by one byte, or replaced by junk. The reader's build
  (`target`) has a width for `usize` and checks overflow or does not. The formats
  are in **Uvarint**, **Envelope**, **Der** and **Cbor**, to the byte. Each loop of the
  code is a function of the number of turns it has made: `Denoted` and `ArcsRead` are the
  accumulators of `read_uvarint` and `decode_oid`, `Big` is that of a DER length,
  `Sorted` the entries sorted so far.

### Abstractions

* Cryptography is ideal. A signature is the pair of the key and the bytes, an
  envelope names the key it was made for. A content key and a ciphertext are
  numbered tokens; every encryption takes a fresh one.
* Byte strings are tokens plus what the code depends on: what they decode as
  (`enc`) and what they are sealed under (`key`). Two messages are equal exactly
  when they are the same encoding.
* A key is its PKIX byte string. In Cards a key may have a second encoding:
  `Canonical` gives the one it is marshalled to, and private keys are met under
  that one only (`public_pkix`). Elsewhere a second encoding is just another name,
  which the opener does not look for (opener.rs:122).
* A cut envelope is cut at its length prefixes, its nonce or its tag; an ephemeral
  key is a P-256 or an X25519 one, one of low order, of another kind, or unparsable.
  Errors of one kind are one error: "Pkix" is any failure to parse a key, "Cbor" and
  "Json" any failure to decode a bottle, wrong shapes of its fields included. An RSA
  ciphertext is taken not to begin like another framing, and the other way round.
* A change to a serialized keychain that decoding does not notice (in bytes of
  a key that are redundant or do not enter its PKIX name, as the value an ML-KEM key
  rejects with) counts as none. What a changed scalar or seed yields is some other key
  of the instance of the same entry kind, one that is not in the container.
* A list of purposes is sorted after every call that changes it, so it is given by
  how often it holds each purpose; `set_key_purposes` keeps a caller's duplicates.
* The bytes of a card, of what a membership signs and of a bottle are tokens made
  of their contents: other contents, other bytes. That the contents determine the
  bytes is `CanonicalOrder`, that nothing else decodes to them is not assumed.
* The codec modules are scaled: bytes of 3 bits of which 2 carry a varint, words of
  9 bits for 64, and a narrow `usize` of 6 for 32. As in the program the last byte
  of the longest varint has one bit left, and a DER length of the most bytes allowed
  fills the narrow `usize`. Keys, chunks and limits have a few bytes, lengths on
  both sides of the one-byte form. Object identifiers have arcs of one, two and
  three bytes. The encoder of purecrypto is external and writes shortest forms;
  ciborium's encoding of a value is only taken to say where it ends.
* Outside Codec, CBOR is taken to return what was written; JSON is not, `JsonTrip` says what it
  changes. Header values are represented by the kinds that the JSON conversion
  treats differently; the type byte of a signature or recipient (`typ`, always 0
  in this library, never read) is left out.
* Errors are kept by kind, so that which check fires first is visible; the
  decoder's errors are merged into one kind per decoder.

## 3. Runs

| Run | Question | Instance | States |
|---|---|---|---|
| bottle | what any sequence of write-side calls leaves behind | a signing-and-receiving, a receiving-only and a name-only key; 3 layers, 2 signatures, 2 recipients, 4 tokens | 185 121 |
| opener | does one call of `open`, on any bottle, do what is promised, and return | 4 keys, 3 of them private, every subset of these held; 7 223 bottles of up to 3 layers, envelopes cut or built wrongly in every way the code tells apart but RSA's | 419 343 |
| exchange | does what was written open for its recipients, and for nobody else | 2 keys; 3 layers, 1 signature, 2 recipients, 4 tokens | 987 096 |
| keychain | is the default signer usable, does a restore give what was saved | 5 keys, 3 of them held at a time, all kinds of entry, three signers; 2 passwords | 53 477 |
| idcard | is a card the table of grants it stands for | a key, a second encoding of it and an unparsable one; 2 entries, 1 revoked, 2 purposes, one expiry and two instants | 25 180 |
| group | does `verify` say exactly who stated what, whatever cards arrive | the group's key, another signer, a key that cannot sign; cards with and without expiry, foreign and second encodings; 2 statuses | 12 672 |
| codec | do readers and writers agree, and on nothing else | all formats; every cut, one byte more, all junk up to 2 bytes and some hundred longer strings; 3 targets | 154 992 |
| header, json, signer, resign, trailing | the five disagreements of section 5 | as above | violated |

What the properties say, in the words of their hazards:

* *bottle.* `SignaturesCoverMessages`: `encrypt` replaces the message, so a
  signature beside it would go stale; it never happens because of the
  `bottle_up` of seal.rs:16. `SealedForRecipients`: each slot yields the key the
  message is sealed under. `LayersDecode`: the opener decodes whatever it unseals
  as CBOR, so a JSON bottle must never be sealed directly.
  `ProtectionCoversBottle`: after a successful `sign` or `encrypt` no header and,
  for `encrypt`, no plaintext signature is outside. `NoLayerLost`: only `child`
  lets go of a layer or a signature; header values are kept too, with one exception
  written into the property (`SealsClean`), the header of a clean bottle that `encrypt`
  seals, which the code does drop: that case has a run of its own, *header*. `FailureAtMostBottlesUp`: what a failed call may have done.
* *opener.* `OpenedIsAuthentic`: the signatures of all layers go into one list
  while `current` moves on; each was verified over its own layer's message.
  `OnlyHoldersUnseal`: getting past an encrypted layer took a held key that a
  slot was made for. `KeepsPromise`: payload, report or kind of error is the verdict of
  the abstract specification, for envelopes that fail in each way the code tells
  apart. It is exact about the code, which looks slots up by the bytes of the name
  they carry; a doc of the opener says otherwise (section 5). `CallReturns`: liveness.
* *exchange.* `RecipientsRead`: success, or exactly `NoAppropriateKey`; no mixture
  of calls makes a bottle that fails otherwise. `AuthorsReported`: whoever signed
  any layer is reported. `ContentsDelivered`: the payload, every layer and the
  names of its headers arrive.
* *keychain.* `DefaultSignerSigns` relates the two hand-kept lists of signing
  kinds; `DefaultSignerCameFirst` fixes which key it is;
  `RestoreIsExact`: bytes nobody changed give back, under their password, exactly the
  keys that were serialized; a wrong password, one for a plain container or none for
  an encrypted one, and any change to encrypted bytes give an error and no keychain.
  Of changed bytes without a password it promises nothing, for the code does not: a
  flipped byte of a scalar or a seed gives another key, a shortened array header fewer
  keys (cbor.rs:20 ignores the rest), and the run has these outcomes. `TypeOK` includes that whatever
  `to_entry` writes `from_entry` has an arm for.

* *idcard.* `ImplementsGrants` (the refinement above): first match on a write and all
  matches on a read agree; taking a purpose away takes it away although lists may
  hold it twice; the second of expiry counts as expired; CBOR changes nothing.
  `EntriesDistinct` is why the two kinds of match agree.
* *group.* `VerifyIsExact`: an equivalence, for every order of edits, signatures,
  failed signatures and cards, with and without a card; in particular the key may
  be listed in another encoding, or listed for signing though it cannot sign, and a
  subkey that has expired since is accepted, for `verify` asks at time 0.
  `AuthorityFromGroup`: what verifies rests on a card that the group's own key signed
  or wrapped, whoever else signed or carried cards. `StoringKeepsVerdict`: CBOR
  changes no verdict; with the subject cleared, as membership.rs:17 says it is on an
  IDCard, the verdict is `Malformed`, and putting the subject back restores the one
  there was (section 5). `TypeOK` says that a signature never covers an earlier one.
* *codec.* `ReadsBack` on every target; `PrefixRefused`: wherever the bytes are cut
  they are refused with an error; `ExtensionRefused` for the formats with an end;
  `UvarintExact`: acceptance and value are those of unbounded arithmetic;
  `WideReleaseReturns`: no bytes make a reader panic on a target as wide as a word
  that does not check overflow. Two panics of other targets are in the model: the
  shift of cbor.rs:96 where overflow is checked, and `hdr + len` of pkix.rs:88 where
  `usize` is narrow. `CanonicalOrder`: every order of collecting the entries of a
  map gives the same bytes.

### Bounds, and why they are enough

* *Layers (3), tokens (4).* An operation looks at the outermost layer only and
  affects at most two, itself and the wrapper it adds. Three layers are enough for
  a layer with one outside and one inside it, for encrypt over sign over clear, for
  double encryption and for the JSON bottle that is bottled up and sealed; four
  tokens are what that takes.
* *Signatures and recipients (2).* Both loops keep no state between turns but
  `last_err` and the position; two elements give every pair of outcomes, in every
  order (good then bad, a slot that fails before one that opens, the same recipient
  twice).
* *MCOpener's bottles* are built, not reached: outer layers of every format over
  messages that do and do not fit it, signatures that are good, over other bytes,
  or by keys that cannot sign or parse, slots for the right key, for another key,
  for another content key, truncated, and by unparsable names; envelopes with each
  part missing or of another kind, alone and before one that opens. They need not be
  bottles any writer of this library can make: `open` reads bytes from anywhere.
* *Keychain.* Each kind of entry occurs, signers in all orders (three keys of the five
  at a time, `MaxKeys`), and for a P-256 scalar and a PKCS#8 seed another key that a changed byte can make of
  it; one change per serialized string is enough, for the first bad entry decides.
* *IDCard.* Edits name one entry and leave the others alone: two entries are enough
  for one to be changed by mistake for the other, three keys to have an entry for
  each kind and one without. What callers give is `Lists` and `Expiries`: one purpose
  may be given twice, and of the two instants one is before the one expiry and one is
  its own. Cards start from `IDCard::new`: cards decoded from
  bytes of others may have two entries of one key, and the group run has such cards
  only as far as their keys differ in encoding.
* *Group.* One membership, one verifier; two signers on a layer (`MaxSigners`), so
  that the group's key is there alone, with another, before or after it, or not; a verdict depends on the last card accepted
  and on the last signature, so longer histories add nothing but earlier ones.
* The bounds live in guards (`RoomFor`, `MaxSignatures`, `RecipientLists`,
  `MaxSubkeys`, `MaxRevoked`, `MaxSigners`, `MaxKeys`) and are constants that the theorems leave arbitrary.

### Fairness and deadlock

`Opener` assumes `WF_vars(Step)`: `open` is sequential code that blocks on
nothing, so once called it runs. `Call` has no fairness; nobody need call. The
other specifications assume none and have no liveness property. Deadlock checking
is off in MCOpener, MCExchange and MCCodec only, where the one call has returned
and the system does stop.

## 4. Proofs

All constants are arbitrary; the assumptions are those the modules name:
`AlgorithmAssumption` (each key has a kind), `HeaderAssumption`,
`BoundAssumption` (the bounds are natural numbers) and `InboxAssumption` (what is
handed over is a bottle whose `enc` tags agree with what is nested in it, which is
the meaning of these tags, and is not `NoBox`, the value that stands for none).

**LayerProofs** holds the lemmas that several proofs need: the
fields of a layer and of what JSON makes of it, least and last indices (through the
well-foundedness of the naturals, the only induction the provers can be given: a
claim about every step of a loop is proved by taking the least step at which it
fails), `Joined` as a recursive function with its step equation and its range, and the
verdict at the first layer that ends a call (`VerdictIs`).

**BottleProofs.** The inductive invariant `IInv` is `Chain(bottle, nested)` with the
types of the counters: the current bottle and the layers inside it are well-typed,
each of them is `Sound` (its signatures cover its message, its slots open, its
format tells its encoding), and the innermost alone is clear text. The invariants of the
run are not inductive one by one: that `Encrypt` seals CBOR follows from
`LayersDecode` of the clean bottle it starts from, and that it leaves no stale
signature from cleanness and the wrapper being fresh. One lemma per action shows
that it preserves the invariant; the lemmas on `Signed`, `SealedBottle` and
`JsonTrip` do the work and are cited by name. Theorems: `Invariance`,
`TypeCorrect`, `SignaturesAlwaysCover`, `SealedAlwaysForRecipients`,
`LayersAlwaysDecode`, `ProtectionAlwaysCovers`, `FailureIsBounded`, and
`LayersAreKept` (`NoLayerLost`), which rests on what one signature, one header value
or one trip through JSON keeps of a layer; the header of a clean bottle is excepted
from it as from the property.

**OpenerProofs.** The invariant `IInv` ties the progress of the call to its report:
every layer pushed except the current one has been verified completely, the current
one as far as `turn`; the signatures reported are exactly those; every encrypted layer
left behind had a slot of a held key that yields the key it is sealed under; a key
recovered came from such a slot; and the layers still nested agree with the `enc`
tag of the current message, without which `Head(nested)` would not be a layer.
Theorems: `Invariance`, `TypeCorrect`, `OpenedAlwaysAuthentic`,
`OnlyHoldersEverUnseal`: for every number of layers, signatures, recipients and
keys, and every bottle.

`Refinement` is the implementation of OpenPromise. The simulation invariant `SimInv`
says where a call is in terms of the verdict: it is at layer `Depth` of the decoded
bottle and none of the layers before it ends the call (`At`); the signatures reported
are `Joined` up to there and none of them fails (`SignaturesSoFar`); none of the slots
that had their turn yields a key, and the last of them that was tried left its error
(`SlotsSoFar`); a key recovered is that of the first slot that yields one
(`KeyIsFirst`); an answer given is the verdict (`Answered`). One lemma per action
(`PushLayerSim`, ..., `UnsealSim`) preserves it; a step that fails does so at the
layer that ends the call (`FailSim`), one that goes on leaves a layer that does not
(`DescendSim`). Then each step is a stutter of the promise or its one `Answer`
(`StepKeepsPromise`). `SameVerdict` identifies the operators of the instance with
those of the module.

**ExchangeProofs.** The two sides compose by their proofs: the module instantiates
BottleProofs for the writer and OpenerProofs for the reader, shows that what they
assume holds here and that their steps are those of Exchange (`SameWriter`,
`SameReader`), and cites their lemmas. The invariant adds to theirs that the reader was
handed what the writer has (`Sent`) and that its innermost message is the one made
first (`Original`, by `StepKeeps` of BottleProofs). A sound layer is `Readable`, and
so is what JSON makes of it; a readable layer ends a call only if it is clear text or
has no slot for a held key (`ReadableEnds`). With the answer being the verdict this
gives `RecipientsAlwaysRead`, `AuthorsAlwaysReported` and
`ContentsAlwaysDelivered`, for any number of layers, signatures, recipients and keys,
where the run has three, one, two and two.

**KeychainProofs.** The invariant `KeychainInv` is `TypeOK` with what the history
variables mean: the keys held are those that came in, the default signer is the
first of them that signs, and bytes nobody changed are framed, of the current version and
hold exactly the keys that were saved. `RestoredExactly` (`RestoreIsExact`) follows from
two lemmas, one for each half: `IntactReads` (such bytes read back under their password)
and `OthersRefused` (another password, or a change to encrypted bytes, is an error).
Other theorems: `TypeCorrect`, `SignerCameFirst`, `SignerSigns`. Assumption:
`SignerAssumption` (no key is the value that stands for none, nor the payload that is
no key).

**GroupProofs.** `GroupInv` is `TypeOK`, that statements were made by keys that sign,
and that the verifier's card is in `vouched`. The work is in the last part: for each way
of delivery the verdict on the bottle is computed from its two or three layers, with
`VerdictIs` and `Joined`, and the signers it reports are those that signed it
(`DeliverMixed`: those whose signature fits, which makes the two cards equal).
Theorems: `TypeCorrect`, `Exactness` (`VerifyIsExact`; the signed bytes determine the
fields), `Authority` (`AuthorityFromGroup`) and `StoringIsNeutral`
(`StoringKeepsVerdict`, the cleared subject included), for any cards, memberships, keys and lists of signers.
`CardRoundTrip` is taken from an instance of IDCardProofs, in which the owner's bounds
and variables play no part. Assumptions: those of Cards, `CardsAssumption`,
`GroupAssumption` (the group's key is one a private key exists for),
`SignersAssumption`, `StatusAssumption`.

**IDCardProofs.** The invariant is `TypeOK /\ EntriesDistinct`: without distinct
entries a write to the first match would not be a write to the table. From it follow
`TypeCorrect`, `EntriesStayDistinct` and the refinement `CardImplementsGrants`, for
all keys, encodings, purposes, times and numbers of entries. `FindKeyFinds` says what
the search returns (through the well-foundedness of the naturals, for it is a least
index); `EntryStep` and `AppendStep` turn a change of one entry into a change of the
table at one key; `KeysForIsFitFor` equates the two answers; `CardRoundTrip` (CBOR
returns every card as it was) makes a reload a stutter. Assumptions:
`CanonicalAssumption` (an encoding's canonical form is canonical and of the same
kind), `PurposeAssumption`, `RepeatsAssumption`, `InputAssumption` (what callers give
is typed).

**CodecProofs.** Nothing in Codec goes wrong over several steps, so its invariant
`CodecInv` is short: the bytes on the way are what was written, or a proper prefix of
it, or it with something behind it, or junk, and an answer given is what the reader
makes of them. What it takes is to know what the formats do with bytes of any length. The
provers are given no induction over data; so everything the formats compute is a
function from a number of turns to a state, and two lemmas take the place of
induction, both from the least number of a set: `Induction` (a set that holds a number
whenever it holds those below it holds them all) and `Recursion` (a function written
by a step equation satisfies it). On them rest:

* *numbers.* `PowerStep`, `PowerPlus`, and division by the radix;
  `DenotedStep`, `DenotedBound`, `DenotedShift`: what the groups of a varint add up to,
  and (`FitsWord`) that the test on the last byte allowed is the test against the word.
* *varints.* `UvarintReadsBack`, `UvarintCut`, `ReadUvarintEnds` and
  `ReadUvarintEndless`. These give `UvarintExactHolds`.
* *envelopes.* A chunk reads back (`ChunkReadsBack`) or was cut (`ChunkShort`); bytes
  put together are cut in one part or behind it (`BrokenJoined`, `ShortJoined`); so an
  envelope opens exactly when nothing is missing and nothing is behind it.
* *DER.* A length in digits denotes itself (`LengthDigits`), an arc in groups is read
  as the number it was (`ArcRead`) whatever arcs precede it (`OidReadsBack`), a TLV
  reads back with what is behind it left over (`TlvReadsBack`) and is refused when
  cut; plain, composite and stored keys are nested TLVs and chunks of known sizes.
* *panics.* `BigBound` and `LimitHolds`: a DER length of at most as many bytes as are
  allowed, with its header, fits a word. With the same for each chunk this gives
  `WideReleaseReturnsHolds`, for any bytes.
* *maps.* `Precedes` orders distinct byte strings strictly and totally
  (`PrecedesOnce`, `PrecedesEither`, `PrecedesThrough`); `Insert` keeps an ordered
  sequence ordered and adds one entry to its set (`InsertIs`); a set has one ordered
  sequence (`OrderedOnce`). These give `CanonicalOrderHolds`.

Theorems: `ReadsBackHolds`, `PrefixRefusedHolds`, `ExtensionRefusedHolds`,
`UvarintExactHolds`, `WideReleaseReturnsHolds`, `CanonicalOrderHolds`. They hold at the
scaled widths of the run and at the 7, 64 and 8 bits of the code alike, for all
words, keys and contents. Assumptions: `WidthAssumption` (a word is wider than a
group), `PartsAssumption` (the parts of an envelope are bytes with lengths that fit a
word), `LimitAssumption` (what is written keeps the limits readers have),
`TagAssumption`, `LengthAssumption` (a length of the most bytes allowed fits a word: 4
bytes in 64 bits), `KeyAssumption` (sizes of keys; an X25519 key is not empty, or the
length of a stored key would not tell whether it is hybrid), `OidAssumption` (object
identifiers are those that have an encoding), `TargetsAssumption`,
`ThingsAssumption` (what is written is of the type its reader expects),
`BytesAssumption`, and `FitAssumption` (what is written fits the reader's `usize` and a
DER length: a 16-bit reader of a longer key is not spoken of).

**Model-checked only.** `CallReturns`: liveness under fairness is out of the prover's
reach. The five disagreements of section 5 that have a run are counterexamples and need no proof. What
the theorems leave to TLC besides is that the assumptions have an instance: every
module with an assumption is extended by that of a passing run.

## 5. Disagreements found

1. *header* (`seal.rs:48`). `encrypt` clears the header in every case, but only a
   bottle that was bottled up first has it saved inside. A clean nested bottle
   (format `CborBottle`, unsigned) with a header is not bottled up, because
   `is_clean_bottle` ignores the header, and loses it. `sign` guards the same case.
   Trace: `new`, `bottle_up`, `with_header`, `encrypt`.
2. *json* (`json.rs:176`). tests/json.rs:18 asks of the round trip that it preserve
   all fields; a header value that is a byte string comes back as a text.
3. *signer* (`keychain.rs:79`). keychain.rs:102 says that `deserialize`
   reconstructs the keychain from the output of `serialize`; with two signing keys
   the default signer may come back as the other one, for entries are written in
   the order of the hash map and the signer is not written.

4. *resign* (`membership.rs:142`). membership.rs:27 calls `sign_key` the key that
   generated the signature; `sign` writes it before it signs, so a call that fails
   leaves the name of a key that signed nothing beside the signature of another, and
   a membership that verified no longer does. TLC's trace signs with the manager's key
   first; any key that signs will do.
5. *trailing* (`cbor.rs:20`). cbor.rs:19 says that `from_slice` rejects trailing
   data; it never looks at what is left.

In two more places a doc says otherwise than the code. They have no run of their own:
what the code does instead is in a property of a passing run, named below, which is exact
about the code and shows what a caller who trusts the doc meets.

6. *Matching of recipients* (`opener.rs:122`). opener.rs:138 says of
   `canonical_recipient_pkix` that it is "used when matching keychain entries that were
   parsed from a different but equivalent encoding". The function is dead code; slots
   are looked up by the bytes they carry, as the comment at opener.rs:121 says and
   `KeepsPromise` has it. A slot under a second encoding of a held key's name is passed
   over.
7. *The subject of a stored membership* (`membership.rs:151`). membership.rs:17 says
   that it is "cleared once stored on an IDCard". Nothing in the library clears it:
   `to_value` writes it, `IDCard::from_cbor` reads it back and does not fill one in. A
   caller who follows the doc gets `Malformed` from `verify` until the subject is set
   again (`StoringKeepsVerdict`).

## 6. Not modelled, and the plan

Not modelled: wiping of memory (`memclr`; memory contents after a return), PKCS#8,
the SPKI codecs of RSA, ECDSA, Ed25519 and SLH-DSA and the cryptographic primitives
(external crates), the conversion of Ed25519 keys (`ed_convert`, arithmetic on the
curve), the lenient accessors of cbor.rs (text taken for bytes), decoding of JSON
that no bottle was written as, `meta`, `info` and the times of issue (carried, read by
nothing), formatting of errors, the re-exports of `lib.rs`,
`canonical_recipient_pkix` (no caller).

Done in this order: BottleKeys, BottleLayers and Bottle; OpenPromise and Opener;
Exchange; Keychain; BottleProofs and OpenerProofs; Cards, Grants and IDCard;
Membership and Group; the codecs; IDCardProofs; KeychainProofs; LayerProofs and
GroupProofs; the refinement of OpenPromise; ExchangeProofs; CodecProofs. Every property
of the passing runs but `CallReturns` is now a theorem. What is left:

1. Exchange: that a bottle sent has one answer whichever encoding carried it, headers
   aside.
2. The lenient accessors of cbor.rs and the decoding of JSON that no bottle was written
   as, both of which accept more than this library writes.
3. `ed_convert`, at a scaled field.
