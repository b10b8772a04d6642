------------------------------ MODULE MCIDCard ------------------------------
(***************************************************************************)
(* IDCard for TLC: a signing key, another encoding of the same key and a   *)
(* byte string that does not parse; two purposes, one of which a caller    *)
(* may list twice; an expiry, the instant before it and its own.           *)
(***************************************************************************)
EXTENDS IDCard

MCKeys == {"ed", "ed_alias", "bad"}

MCAlgorithm == [k \in MCKeys |-> IF k = "bad" THEN "Unparsable" ELSE "Ed25519"]
MCCanonical == [k \in MCKeys |-> IF k = "bad" THEN "bad" ELSE "ed"]

MCTimes == {0, 1}

\* What callers give: "decrypt", or "sign" twice.
MCLists == {[decrypt |-> 1, sign |-> 0], [decrypt |-> 0, sign |-> 2]}
=============================================================================
