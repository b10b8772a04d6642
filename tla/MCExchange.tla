----------------------------- MODULE MCExchange -----------------------------
(***************************************************************************)
(* Exchange for TLC: a key that signs and receives and one that only       *)
(* receives; header values that JSON changes.                              *)
(***************************************************************************)
EXTENDS Exchange

MCKeys == {"ed", "kem"}

MCAlgorithm ==
    [k \in MCKeys |-> CASE k = "ed"  -> "Ed25519" [] k = "kem" -> "MlKemHybrid"]

MCHeaderKinds == {"bytes"}
=============================================================================
