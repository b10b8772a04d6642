----------------------------- MODULE OpenResult -----------------------------
(***************************************************************************)
(* What Opener::open is given and what it returns.                         *)
(***************************************************************************)
EXTENDS BottleLayers

\* The message of a layer decodes as a bottle exactly when one is nested in it.
HoldsBottle(l) == l.message.enc \in {"cbor", "json"}

Holds(l, inside) ==
    /\ HoldsBottle(l) <=> inside # <<>>
    /\ \A i \in DOMAIN inside : HoldsBottle(inside[i]) <=> i # Len(inside)

\* A bottle as an opener is handed it; NoBox before the call.
Box   == {b \in [bottle : Layer, nested : Seq(Layer)] : Holds(b.bottle, b.nested)}
NoBox == [bottle |-> Fresh(Plain(0, "raw"), "ClearText"), nested |-> <<>>]

\* Ok((payload, OpenResult)) as error "none", Err(e) as its kind.  An error
\* carries nothing else: the partial OpenResult is dropped.  "Cbor" and "Json"
\* are any error of the decoder of that name, a wrong shape included.
Errors == {"none", "pending", "Pkix", "UnsupportedKey", "VerifyFailed", "Cbor",
           "Json", "NoAppropriateKey", "Crypto", "Malformed"}

Failure(e) == [error |-> e, payload |-> Plain(0, "raw"), decryption |-> 0,
               signatures |-> <<>>, bottles |-> <<>>]
Pending    == Failure("pending")

Answers == [error : Errors, payload : Message, decryption : Nat,
            signatures : Seq(Signature), bottles : Seq(Layer)]
=============================================================================
