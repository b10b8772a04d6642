------------------------------ MODULE MCBottle ------------------------------
(***************************************************************************)
(* Bottle for TLC: a key that signs and receives, one that only receives   *)
(* and one, on another curve than P-256, that can only be named: no bottle *)
(* can be sealed for it and nobody signs with it.                          *)
(***************************************************************************)
EXTENDS Bottle

MCKeys == {"ed", "kem", "p384"}

MCAlgorithm ==
    [k \in MCKeys |-> CASE k = "ed"   -> "Ed25519"
                        [] k = "kem"  -> "MlKemHybrid"
                        [] k = "p384" -> "EcdsaOther"]

MCHeaderKinds == {"bytes", "intkeys"}
=============================================================================
