------------------------------- MODULE Codec --------------------------------
(***************************************************************************)
(* Something is written as bytes, the bytes are cut, extended or replaced  *)
(* on the way, and a reader on another target takes them apart: the wire   *)
(* formats of the library as what a writer and a reader agree on.          *)
(***************************************************************************)
EXTENDS Envelope, Der, Cbor

CONSTANTS
    Targets,        \* builds that read
    Things,         \* what is written: records [what, value]
    Junk,           \* byte strings that were never written by this library
    ExtraBytes      \* bytes that may follow what was written

ASSUME TargetsAssumption == Targets \subseteq Target

\* The readers: a varint, an envelope, a public key, a stored ML-KEM key, a map
\* and a CBOR value.
IsThing(x) ==
    /\ x = [what |-> x.what, value |-> x.value]
    /\ \/ x.what = "uvarint" /\ x.value \in Word
       \/ x.what = "envelope" /\ x.value \in EnvelopeKinds
       \/ x.what = "public" /\ IsPublicKey(x.value)
       \/ x.what = "private" /\ IsPrivateKey(x.value)
       \/ x.what = "map" /\ IsEntries(x.value)
       \/ x.what = "value" /\ x.value \in Seq(Octet) /\ Len(x.value) \in Octet

ASSUME ThingsAssumption == \A x \in Things : IsThing(x)
ASSUME BytesAssumption  == Junk \subseteq Seq(Octet) /\ ExtraBytes \subseteq Octet

\* What is written is short enough for a usize of every target and for a DER length.
ASSUME FitAssumption ==
    /\ \A t \in Targets : {Len(EphemeralPkix), Len(KemText)} \subseteq 0 .. Power[t.bits] - 1
    /\ \A x \in Things : x.what = "public" =>
          /\ Len(MarshalPublicKey(x.value)) < LongLimit
          /\ \A t \in Targets : Len(MarshalPublicKey(x.value)) < Power[t.bits]

VARIABLES
    target,     \* the build that reads
    thing,      \* what was written, or what the reader takes the bytes for
    bytes,      \* the bytes, a map as the sequence of its entries
    fate,       \* what happened to them
    outcome     \* what the reader returned

vars == <<target, thing, bytes, fate, outcome>>

Unread == Fail("unread")

-----------------------------------------------------------------------------

Encoded(x) ==
    CASE x.what = "uvarint"  -> AppendUvarint[x.value]
      [] x.what = "envelope" -> EnvelopeBytes(x.value)
      [] x.what = "public"   -> MarshalPublicKey(x.value)
      [] x.what = "private"  -> ToKeyBytes(x.value)
      [] x.what = "map"      -> CanonicalMap(x.value)
      [] x.what = "value"    -> ToVec(x.value)

ReadAs(t, x, data) ==
    CASE x.what = "uvarint"  -> ReadUvarint(t, data)
      [] x.what = "envelope" -> OpenEnvelope(t, x.value, data)
      [] x.what = "public"   -> ParsePublicKey(t, data)
      [] x.what = "private"  -> FromKeyBytes(data)
      [] x.what = "map"      -> Fine(data)
      [] x.what = "value"    -> FromSlice(data)

Init ==
    /\ target \in Targets
    /\ thing \in Things
    /\ bytes = Encoded(thing)
    /\ fate = "intact"
    /\ outcome = Unread

OnTheWay == fate = "intact" /\ outcome = Unread

\* Only the first n bytes arrive.
Cut(n) ==
    /\ OnTheWay
    /\ thing.what # "map"
    /\ bytes' = SubSeq(bytes, 1, n)
    /\ fate' = "cut"
    /\ UNCHANGED <<target, thing, outcome>>

\* Something follows the bytes.
Extend(b) ==
    /\ OnTheWay
    /\ thing.what # "map"
    /\ bytes' = Append(bytes, b)
    /\ fate' = "extended"
    /\ UNCHANGED <<target, thing, outcome>>

\* Other bytes arrive.
Replace(data) ==
    /\ OnTheWay
    /\ thing.what # "map"
    /\ bytes' = data
    /\ fate' = "replaced"
    /\ UNCHANGED <<target, thing, outcome>>

Read ==
    /\ outcome = Unread
    /\ outcome' = ReadAs(target, thing, bytes)
    /\ UNCHANGED <<target, thing, bytes, fate>>

Next ==
    \/ \E n \in 0 .. Len(bytes) - 1 : Cut(n)
    \/ \E b \in ExtraBytes : Extend(b)
    \/ \E data \in Junk : Replace(data)
    \/ Read

Spec == Init /\ [][Next]_vars

-----------------------------------------------------------------------------
(* Properties.                                                              *)

WasRead == outcome # Unread

\* What a reader makes of bytes that arrive as they were written.
Expected(x) ==
    CASE x.what = "envelope" -> Fine("buffer")
      [] x.what = "uvarint"  -> [error |-> "none", used |-> Len(bytes), value |-> x.value]
      [] OTHER -> Fine(x.value)

\* Bytes that arrive as they were written are read back as what was written, on
\* every target: lengths of one byte and of more, plain and composite keys, arcs
\* of several bytes (append_uvarint and read_uvarint, the three envelopes,
\* marshal_spki and parse_public_key, to_key_bytes and from_key_bytes).
ReadsBack ==
    WasRead /\ fate = "intact" /\ thing.what # "map" => outcome = Expected(thing)

\* Bytes of which the end is missing are refused, wherever they were cut, and the
\* refusal is an error: nothing shorter than what was written stands for
\* something else (pkix.rs:88, mlkem.rs:147-160 and 299, ecdh.rs:73).
PrefixRefused ==
    WasRead /\ fate = "cut" => outcome.error \notin {"none", "panic"}

\* Bytes with something behind them are refused where the format has an end of
\* its own: a key, an envelope.  A varint is read from the front of longer data.
ExtensionRefused ==
    WasRead /\ fate = "extended" =>
        CASE thing.what \in {"public", "private", "envelope"} ->
                outcome.error \notin {"none", "panic"}
          [] thing.what = "uvarint" ->
                outcome = [error |-> "none", used |-> Len(bytes) - 1, value |-> thing.value]
          [] OTHER -> TRUE

\* A varint is accepted exactly when it ends within the bytes of a word and the
\* number it denotes, summed without any width, fits a word; that number is then
\* the one returned (cbor.rs:86-100).
UvarintExact ==
    WasRead /\ thing.what = "uvarint" /\ outcome.error # "panic" =>
        LET ends == {i \in DOMAIN bytes : bytes[i] < Radix}
            n    == CHOOSE i \in ends : \A j \in ends : i <= j
        IN  IF ends # {} /\ n <= LastGroup + 1 /\ Denoted(bytes)[n] \in Word
            THEN outcome = [error |-> "none", used |-> n, value |-> Denoted(bytes)[n]]
            ELSE outcome.error = "Malformed"

\* On a target with a word for usize, and where overflow is not checked, no bytes
\* make a reader panic: every length is compared with what there is before it is
\* used (pkix.rs:79 and 88, mlkem.rs:299 and 306, ecdh.rs:73).
WideReleaseReturns ==
    WasRead /\ ~target.checked /\ target.bits >= WordBits => outcome.error # "panic"

Reorderings(S) ==
    {f \in [S -> S] : /\ \A x, y \in S : f[x] = f[y] => x = y
                      /\ \A y \in S : \E x \in S : f[x] = y}

\* What is signed does not depend on the order in which the fields of a map were
\* collected: the entries in any other order are written as the same bytes
\* (cbor.rs:29-41, the signature of a membership, the header of a bottle).
CanonicalOrder ==
    thing.what = "map" =>
        \A f \in Reorderings(DOMAIN thing.value) :
            CanonicalMap([i \in DOMAIN thing.value |-> thing.value[f[i]]]) = bytes

\* The comment on from_slice, cbor.rs:19: "Decodes a single CBOR [`Value`] from
\* bytes, rejecting trailing data."  from_slice never looks at what is left.
TrailingRejected ==
    WasRead /\ fate = "extended" /\ thing.what = "value" => outcome.error # "none"
=============================================================================
