------------------------------ MODULE Exchange ------------------------------
(***************************************************************************)
(* A writer, a transport and a reader: the bottle made by any sequence of  *)
(* calls of the write side is handed over, as CBOR or as JSON, and opened  *)
(* with a keychain.  Composes Bottle and Opener; the reader is handed only *)
(* what the writer made.                                                   *)
(***************************************************************************)
EXTENDS BottleLayers

CONSTANTS MaxLayers, MaxSignatures, MaxRecipients, MaxMinted    \* as in Bottle

ASSUME BoundAssumption ==
    {MaxLayers, MaxSignatures, MaxRecipients, MaxMinted} \subseteq Nat

VARIABLES
    draft, packed, minted, result,      \* the writer: its bottle, as in Bottle
    held, box, pc, bottle, nested, bottles, signatures, decryption,
    turn, lastErr, key, answer          \* the reader, as in Opener

writer == <<draft, packed, minted, result>>
reader == <<held, box, pc, bottle, nested, bottles, signatures, decryption,
            turn, lastErr, key, answer>>
vars   == <<writer, reader>>

W == INSTANCE Bottle WITH bottle <- draft, nested <- packed
R == INSTANCE Opener WITH Inbox <- {}     \* handed a bottle by Send only

Init == W!Init /\ R!Init

Write == pc = "idle" /\ W!Next /\ UNCHANGED reader

\* The bottle goes through to_cbor and from_cbor, or in memory: the same thing.
SendCbor ==
    /\ pc = "idle"
    /\ R!Open([bottle |-> draft, nested |-> packed])
    /\ result' = "ok"
    /\ UNCHANGED <<draft, packed, minted>>

\* The bottle goes through to_json and from_json.
SendJson ==
    /\ pc = "idle"
    /\ JsonEncodable(draft)
    /\ R!Open([bottle |-> JsonTrip(draft), nested |-> packed])
    /\ result' = "ok"
    /\ UNCHANGED <<draft, packed, minted>>

Read == R!Step /\ UNCHANGED writer

Next == Write \/ SendCbor \/ SendJson \/ Read

Spec == Init /\ [][Next]_vars
-----------------------------------------------------------------------------
(* Properties.                                                              *)

\* The layers the writer sealed are all open to the reader's keychain.
AllOpenTo(keys) ==
    \A b \in W!Layers :
        b.format = "Aes" =>
            \E i \in DOMAIN b.recipients.list : b.recipients.list[i].recipient \in keys

\* A bottle made with the library opens for its recipients and for nobody else,
\* and an outsider is told so; no order of calls, of failed calls or of
\* encodings makes a bottle that fails in any other way.
RecipientsRead ==
    pc = "done" =>
        answer.error = IF AllOpenTo(held) THEN "none" ELSE "NoAppropriateKey"

\* Whoever signed a layer of the bottle, and only they, are reported as signers
\* to a reader who opens it, whatever was done to the bottle afterwards.
AuthorsOf(b) == {b.signatures.list[i].signer : i \in DOMAIN b.signatures.list}

AuthorsReported ==
    pc = "done" /\ answer.error = "none" =>
        {answer.signatures[i].signer : i \in DOMAIN answer.signatures}
            = UNION {AuthorsOf(b) : b \in W!Layers}

\* The reader gets the bytes given to Bottle::new, and with them every layer
\* the writer has on the bottle, with the headers that were set.
HeadersOf(b) == {h \in HeaderKeys : b.header[h] # "absent"}

ContentsDelivered ==
    pc = "done" /\ answer.error = "none" =>
        /\ answer.payload = Plain(1, "raw")
        /\ Len(answer.bottles) = Len(packed) + 1
        /\ HeadersOf(answer.bottles[1]) = HeadersOf(draft)
        /\ \A i \in DOMAIN packed :
              HeadersOf(answer.bottles[i + 1]) = HeadersOf(packed[i])
=============================================================================
