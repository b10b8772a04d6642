------------------------------ MODULE Uvarint -------------------------------
(***************************************************************************)
(* Unsigned varints as cbor.rs writes and reads them, over bytes of        *)
(* GroupBits + 1 bits and words of WordBits bits: 7 and 64 in the program. *)
(*                                                                         *)
(* A target of the build is [bits, checked]: the width of usize, and       *)
(* whether an arithmetic overflow panics.                                  *)
(***************************************************************************)
EXTENDS Integers, Sequences

CONSTANTS GroupBits, WordBits

ASSUME WidthAssumption ==
    /\ {GroupBits, WordBits} \subseteq Nat \ {0}
    /\ GroupBits < WordBits

\* 2^n, as a function that the proofs can take apart.
Power[n \in Nat] == IF n = 0 THEN 1 ELSE 2 * Power[n - 1]

Radix == Power[GroupBits]       \* a byte from here on announces another one
Octet == 0 .. 2 * Radix - 1
Word  == 0 .. Power[WordBits] - 1

Target == [bits : Nat, checked : BOOLEAN]

\* The index, from 0, of the last byte of a word, and the largest that fits.
LastGroup == (WordBits - 1) \div GroupBits
LastMax   == Power[WordBits - GroupBits * LastGroup] - 1

\* Results of readers: an error's kind, "panic" for a call that does not return.
Fail(e) == [error |-> e]
Fine(x) == [error |-> "none", value |-> x]

\* The operator ?: an error is returned, a result goes on.
Then(r, Rest(_)) == IF r.error # "none" THEN r ELSE Rest(r)

\* append_uvarint: the lowest group first.
AppendUvarint[v \in Word] ==
    IF v < Radix THEN <<v>>
    ELSE <<(v % Radix) + Radix>> \o AppendUvarint[v \div Radix]

\* What the first n bytes denote: each group is shifted past those before it.
Denoted(data) ==
    LET sum[n \in 0 .. Len(data)] ==
            IF n = 0 THEN 0
            ELSE sum[n - 1] + (data[n] % Radix) * Power[GroupBits * (n - 1)]
    IN  sum

\* How many bytes are read before the one that ends the number.
Continued(data) ==
    LET ends == {i \in DOMAIN data : data[i] < Radix}
    IN  IF ends = {} THEN Len(data) ELSE (CHOOSE i \in ends : \A j \in ends : i <= j) - 1

\* A number of n bytes at the front of data.
Taken(data, n) ==
    [error |-> "none", used |-> n, value |-> Denoted(data)[n] % Power[WordBits]]

\* Mutated: the bits of the last byte are not looked at.
EndedLax(t, data, i) ==
    IF t.checked /\ i > LastGroup + 1 THEN Fail("panic")
    ELSE IF i = Len(data) \/ i > LastGroup THEN Fail("Malformed")
    ELSE Taken(data, i + 1)

\* read_uvarint, on data with i bytes that announce another.  The shift grows with
\* every byte and is compared with nothing: past the word it panics where overflow
\* is checked, and is masked elsewhere, where the number of bytes then makes an
\* error.
Ended(t, data, i) ==
    IF t.checked /\ i > LastGroup + 1 THEN Fail("panic")
    ELSE IF i = Len(data) THEN Fail("Malformed")
    ELSE IF i > LastGroup \/ (i = LastGroup /\ data[i + 1] > LastMax) THEN Fail("Malformed")
    ELSE Taken(data, i + 1)

ReadUvarint(t, data) == Ended(t, data, Continued(data))
=============================================================================
