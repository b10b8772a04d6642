----------------------------- MODULE MCKeychain -----------------------------
(***************************************************************************)
(* Keychain for TLC: three keys that sign and two that do not, so that     *)
(* every kind of entry and every order of the signers occurs, and a        *)
(* changed byte can make one key of another.                               *)
(***************************************************************************)
EXTENDS Keychain

MCKeys == {"ec", "ec2", "ed", "x", "kem"}

MCAlgorithm ==
    [k \in MCKeys |-> CASE k \in {"ec", "ec2"} -> "Ecdsa"
                        [] k = "ed"  -> "Ed25519"
                        [] k = "x"   -> "X25519"
                        [] k = "kem" -> "MlKemHybrid"]
=============================================================================
