-------------------------------- MODULE Cbor --------------------------------
(***************************************************************************)
(* cbor.rs above ciborium: the order of the keys of a map, which is what   *)
(* makes two implementations sign the same bytes, and the decoding of one  *)
(* value.  A key is given by its encoding; of the encoding of a value only *)
(* that matters that it says itself where it ends.                         *)
(***************************************************************************)
EXTENDS Uvarint

CONSTANT FieldValues    \* the values of the entries of a map

\* Entries collected for a map: pairs of an encoded key and a value.
IsEntries(m) ==
    /\ m \in Seq(Seq(Octet) \X FieldValues)
    /\ \A i, j \in DOMAIN m : m[i][1] = m[j][1] => i = j

\* The first position at which two byte strings of a length differ, or 0.
Differ(a, b) ==
    LET at == {i \in DOMAIN a : a[i] # b[i]}
    IN  IF at = {} THEN 0 ELSE CHOOSE i \in at : \A j \in at : i <= j

\* Mutated: keys of a length are left in the order they come in.
PrecedesByLength(a, b) == Len(a) < Len(b)

\* The comparison of canonical_sort: by length, then bytewise.
Precedes(a, b) ==
    \/ Len(a) < Len(b)
    \/ /\ Len(a) = Len(b)
       /\ Differ(a, b) # 0
       /\ a[Differ(a, b)] < b[Differ(a, b)]

\* One entry goes behind those that do not follow it: the sort is stable.
Insert(sorted, e) ==
    LET behind == {i \in DOMAIN sorted : Precedes(e[1], sorted[i][1])}
        at     == IF behind = {} THEN Len(sorted) + 1
                  ELSE CHOOSE i \in behind : \A j \in behind : i <= j
    IN  SubSeq(sorted, 1, at - 1) \o <<e>> \o SubSeq(sorted, at, Len(sorted))

\* canonical_sort of the first n entries.
Sorted(entries) ==
    LET sorted[n \in 0 .. Len(entries)] ==
            IF n = 0 THEN <<>> ELSE Insert(sorted[n - 1], entries[n])
    IN  sorted

CanonicalMap(entries) == Sorted(entries)[Len(entries)]

\* A value as ciborium writes it, here with its length in front.
ToVec(v) == <<Len(v)>> \o v

\* from_slice: the value at the front of data.
FromSlice(data) ==
    IF data = <<>> \/ Len(data) < 1 + data[1] THEN Fail("Cbor")
    ELSE Fine(SubSeq(data, 2, 1 + data[1]))
=============================================================================
