------------------------------- MODULE Opener -------------------------------
(***************************************************************************)
(* Opener::open and Opener::recover_content_key step by step: one call, on *)
(* a bottle from anywhere, with the keys of one keychain.  Each turn of a  *)
(* loop of the code, and each early return, is a step.                     *)
(***************************************************************************)
EXTENDS OpenResult

CONSTANT Inbox      \* the bottles an opener may be handed

VARIABLES
    held,           \* the private keys of the opener's keychain
    box,            \* the argument of the call
    pc,             \* where in the code the call is
    bottle,         \* `current`, the layer being opened
    nested,         \* what the message of that layer holds
    bottles,        \* res.bottles
    signatures,     \* res.signatures
    decryption,     \* res.decryption
    turn,           \* the turns taken of the inner loop
    lastErr,        \* last_err of recover_content_key
    key,            \* the content key it returned
    answer          \* what the call returned

vars == <<held, box, pc, bottle, nested, bottles, signatures, decryption,
          turn, lastErr, key, answer>>

Promise == INSTANCE OpenPromise

\* NoBox stands for no bottle at all: it is none of those an opener is handed.
ASSUME InboxAssumption == Inbox \subseteq Box \ {NoBox}

Steps == {"idle", "layer", "verify", "format", "slots", "unseal", "done"}
-----------------------------------------------------------------------------

Init ==
    /\ held \in SUBSET PrivateKeys
    /\ box = NoBox
    /\ answer = Pending
    /\ pc = "idle"
    /\ bottle = box.bottle
    /\ nested = <<>>
    /\ bottles = <<>>
    /\ signatures = <<>>
    /\ decryption = 0
    /\ turn = 0
    /\ lastErr = "NoAppropriateKey"
    /\ key = NoKey

\* open(b): the result starts empty and b is the current bottle.
Open(b) ==
    /\ box' = b
    /\ bottle' = b.bottle
    /\ nested' = b.nested
    /\ pc' = "layer"
    /\ UNCHANGED <<held, bottles, signatures, decryption, turn, lastErr, key, answer>>

Call == pc = "idle" /\ \E b \in Inbox : Open(b)

Return(a) ==
    /\ answer' = a
    /\ pc' = "done"
    /\ UNCHANGED <<held, box, bottle, nested, turn, lastErr, key>>

\* The `?` of the code: an error ends the call and the result is dropped.
Fail(e) == Return(Failure(e)) /\ UNCHANGED <<bottles, signatures, decryption>>

\* Mutated: each layer starts a report of its own.
PushLayerAnew ==
    /\ pc = "layer"
    /\ bottles' = Append(bottles, bottle)
    /\ signatures' = <<>>
    /\ turn' = 0
    /\ pc' = "verify"
    /\ UNCHANGED <<held, box, bottle, nested, decryption, lastErr, key, answer>>

\* The head of the loop.
PushLayer ==
    /\ pc = "layer"
    /\ bottles' = Append(bottles, bottle)
    /\ turn' = 0
    /\ pc' = "verify"
    /\ UNCHANGED <<held, box, bottle, nested, signatures, decryption, lastErr, key, answer>>

\* Mutated: a signature that does not verify is passed over.
VerifySignatureLax ==
    /\ pc = "verify"
    /\ turn < Len(bottle.signatures.list)
    /\ signatures' = Append(signatures, bottle.signatures.list[turn + 1])
    /\ turn' = turn + 1
    /\ UNCHANGED <<held, box, pc, bottle, nested, bottles, decryption, lastErr, key, answer>>

\* One turn of the loop over the signatures.
VerifySignature ==
    /\ pc = "verify"
    /\ turn < Len(bottle.signatures.list)
    /\ LET sig == bottle.signatures.list[turn + 1]
           err == VerifyError(sig.signer, bottle.message, sig.data)
       IN  \/ /\ err = "none"
              /\ signatures' = Append(signatures, sig)
              /\ turn' = turn + 1
              /\ UNCHANGED <<held, box, pc, bottle, nested, bottles, decryption,
                             lastErr, key, answer>>
           \/ /\ err # "none"
              /\ Fail(err)

SignaturesVerified ==
    /\ pc = "verify"
    /\ turn = Len(bottle.signatures.list)
    /\ pc' = "format"
    /\ UNCHANGED <<held, box, bottle, nested, bottles, signatures, decryption,
                   turn, lastErr, key, answer>>

\* Clear text: the call returns the payload and the result.
ReturnPayload ==
    /\ pc = "format"
    /\ bottle.format = "ClearText"
    /\ Return([error |-> "none", payload |-> bottle.message, decryption |-> decryption,
               signatures |-> signatures, bottles |-> bottles])
    /\ UNCHANGED <<bottles, signatures, decryption>>

\* current = child.
Descend(child) ==
    /\ bottle' = child
    /\ nested' = Tail(nested)
    /\ pc' = "layer"

\* A nested bottle that is not encrypted.  Bytes decode as the nested bottle
\* when they were encoded the way the format says.
NestedEncoding(b) == IF b.format = "CborBottle" THEN "cbor" ELSE "json"

DecodeNested ==
    /\ pc = "format"
    /\ bottle.format \in {"CborBottle", "JsonBottle"}
    /\ LET enc == NestedEncoding(bottle)
       IN  \/ /\ bottle.message.enc = enc /\ bottle.message.key = NoKey
              /\ Descend(DecodedFrom(enc, Head(nested)))
              /\ UNCHANGED <<held, box, bottles, signatures, decryption, turn,
                             lastErr, key, answer>>
           \/ /\ bottle.message.enc # enc \/ bottle.message.key # NoKey
              /\ Fail(IF enc = "cbor" THEN "Cbor" ELSE "Json")

\* An encrypted bottle: recover_content_key is called.
StartSlots ==
    /\ pc = "format"
    /\ bottle.format = "Aes"
    /\ pc' = "slots"
    /\ turn' = 0
    /\ lastErr' = "NoAppropriateKey"
    /\ UNCHANGED <<held, box, bottle, nested, bottles, signatures, decryption, key, answer>>

\* Mutated: a slot is tried with whatever key it names.
TrySlotOfAnyone ==
    /\ pc = "slots"
    /\ turn < Len(bottle.recipients.list)
    /\ LET slot == bottle.recipients.list[turn + 1]
       IN  \/ /\ Opens(slot.data, slot.recipient)
              /\ key' = slot.data.holds
              /\ pc' = "unseal"
              /\ UNCHANGED <<turn, lastErr>>
           \/ /\ ~Opens(slot.data, slot.recipient)
              /\ turn' = turn + 1
              /\ UNCHANGED <<pc, key, lastErr>>
    /\ UNCHANGED <<held, box, bottle, nested, bottles, signatures, decryption, answer>>

\* Mutated: the first slot of a held key decides, whether it opens or not.
TrySlotOnce ==
    /\ pc = "slots"
    /\ turn < Len(bottle.recipients.list)
    /\ LET slot == bottle.recipients.list[turn + 1]
       IN  \/ /\ slot.recipient \in held /\ Opens(slot.data, slot.recipient)
              /\ key' = slot.data.holds
              /\ pc' = "unseal"
              /\ UNCHANGED <<turn, bottles, signatures, decryption, held, box,
                             bottle, nested, lastErr, answer>>
           \/ /\ slot.recipient \in held /\ ~Opens(slot.data, slot.recipient)
              /\ Fail(DecryptError(slot.data, slot.recipient))
           \/ /\ slot.recipient \notin held
              /\ turn' = turn + 1
              /\ UNCHANGED <<pc, key, bottles, signatures, decryption, held, box,
                             bottle, nested, lastErr, answer>>

\* Mutated: the turn is not counted when the key of a slot is not held.
TrySlotStuck ==
    /\ pc = "slots"
    /\ turn < Len(bottle.recipients.list)
    /\ LET slot == bottle.recipients.list[turn + 1]
       IN  \/ /\ slot.recipient \in held /\ Opens(slot.data, slot.recipient)
              /\ key' = slot.data.holds
              /\ pc' = "unseal"
              /\ UNCHANGED <<turn, lastErr>>
           \/ /\ slot.recipient \notin held \/ ~Opens(slot.data, slot.recipient)
              /\ turn' = IF slot.recipient \in held THEN turn + 1 ELSE turn
              /\ UNCHANGED <<pc, key, lastErr>>
    /\ UNCHANGED <<held, box, bottle, nested, bottles, signatures, decryption, answer>>

\* Mutated: a content key of the wrong length leaves no error behind.
TrySlotNoLength ==
    /\ pc = "slots"
    /\ turn < Len(bottle.recipients.list)
    /\ LET slot == bottle.recipients.list[turn + 1]
       IN  \/ /\ slot.recipient \in held /\ Opens(slot.data, slot.recipient)
              /\ slot.data.whole
              /\ key' = slot.data.holds
              /\ pc' = "unseal"
              /\ UNCHANGED <<turn, lastErr>>
           \/ /\ slot.recipient \in held
              /\ ~(Opens(slot.data, slot.recipient) /\ slot.data.whole)
              /\ lastErr' = DecryptError(slot.data, slot.recipient)
              /\ turn' = turn + 1
              /\ UNCHANGED <<pc, key>>
           \/ /\ slot.recipient \notin held
              /\ turn' = turn + 1
              /\ UNCHANGED <<pc, key, lastErr>>
    /\ UNCHANGED <<held, box, bottle, nested, bottles, signatures, decryption, answer>>

\* One turn of the loop over the recipients.
TrySlot ==
    /\ pc = "slots"
    /\ turn < Len(bottle.recipients.list)
    /\ LET slot == bottle.recipients.list[turn + 1]
           err  == DecryptError(slot.data, slot.recipient)
       IN  \/ /\ slot.recipient \in held /\ err = "none" /\ slot.data.whole
              /\ key' = slot.data.holds
              /\ pc' = "unseal"
              /\ UNCHANGED <<turn, lastErr>>
           \/ /\ slot.recipient \in held /\ (err # "none" \/ ~slot.data.whole)
              /\ lastErr' = IF err = "none" THEN "Crypto" ELSE err
              /\ turn' = turn + 1
              /\ UNCHANGED <<pc, key>>
           \/ /\ slot.recipient \notin held
              /\ turn' = turn + 1
              /\ UNCHANGED <<pc, key, lastErr>>
    /\ UNCHANGED <<held, box, bottle, nested, bottles, signatures, decryption, answer>>

\* No slot gave a key, or there is no list of recipients at all.
SlotsExhausted ==
    /\ pc = "slots"
    /\ turn = Len(bottle.recipients.list)
    /\ Fail(lastErr)

\* The message is unsealed and what it holds is decoded as CBOR.
UnsealError(b, ck) ==
    IF b.message.key = NoKey /\ b.message.enc = "short" THEN "Malformed"
    ELSE IF b.message.key = NoKey \/ b.message.key # ck THEN "Crypto"
    ELSE IF b.message.enc # "cbor" THEN "Cbor"
    ELSE "none"

Unseal ==
    /\ pc = "unseal"
    /\ \/ /\ UnsealError(bottle, key) = "none"
          /\ decryption' = decryption + 1
          /\ Descend(Head(nested))
          /\ UNCHANGED <<held, box, bottles, signatures, turn, lastErr, key, answer>>
       \/ /\ UnsealError(bottle, key) # "none"
          /\ Fail(UnsealError(bottle, key))

-----------------------------------------------------------------------------

Step ==
    \/ PushLayer
    \/ VerifySignature
    \/ SignaturesVerified
    \/ ReturnPayload
    \/ DecodeNested
    \/ StartSlots
    \/ TrySlot
    \/ SlotsExhausted
    \/ Unseal

Next == Call \/ Step

\* open is sequential code that blocks on nothing: once called it keeps running.
Spec == Init /\ [][Next]_vars /\ WF_vars(Step)
-----------------------------------------------------------------------------
(* Properties.                                                              *)

TypeOK ==
    /\ held \in SUBSET PrivateKeys
    /\ box \in Box
    /\ pc \in Steps
    /\ bottle \in Layer
    /\ nested \in Seq(Layer)
    /\ bottles \in Seq(Layer)
    /\ signatures \in Seq(Signature)
    /\ decryption \in Nat
    /\ turn \in Nat
    /\ lastErr \in Errors \ {"none", "pending"}
    /\ key \in Nat
    /\ answer \in Answers

Authentic(b, i) ==
    Verifies(b.signatures.list[i].signer, b.message, b.signatures.list[i].data)

\* A call that succeeds has verified every signature of every layer it went
\* through, each over the message of its own layer, and reports them all and
\* no other (opener.rs:69-74); signed_by_pkix rests on this.
OpenedIsAuthentic ==
    answer.error = "none" =>
        /\ \A j \in DOMAIN answer.bottles :
              \A i \in DOMAIN answer.bottles[j].signatures.list :
                 /\ Authentic(answer.bottles[j], i)
                 /\ \E n \in DOMAIN answer.signatures :
                       answer.signatures[n] = answer.bottles[j].signatures.list[i]
        /\ \A n \in DOMAIN answer.signatures :
              \E j \in DOMAIN answer.bottles :
                 \E i \in DOMAIN answer.bottles[j].signatures.list :
                    answer.signatures[n] = answer.bottles[j].signatures.list[i]

\* Some slot of b gives its content key to a key of the keychain.
HolderCanUnseal(b) ==
    \E i \in DOMAIN b.recipients.list :
        LET slot == b.recipients.list[i]
        IN  /\ slot.recipient \in held
            /\ Opens(slot.data, slot.recipient)
            /\ slot.data.holds = b.message.key

\* A call gets past an encrypted layer only with a key of the keychain that one
\* of its slots names and was really made for (opener.rs:114-135).
OnlyHoldersUnseal ==
    answer.error = "none" =>
        \A j \in DOMAIN answer.bottles :
            answer.bottles[j].format = "Aes" => HolderCanUnseal(answer.bottles[j])

\* open implements its promise: whatever the bottle and the keychain, its one
\* answer is the verdict, the payload, the report or the error included: that of
\* the layer and the slot that decide, each failure of an envelope with its own
\* (short.rs:33-42).  The verdict is what the code does, so recipients are matched
\* by their bytes (opener.rs:122), not, as the comment at opener.rs:138 has it, in
\* canonical form.
KeepsPromise == Promise!PromiseSpec

\* Every call returns: each turn of the loop goes to a layer strictly inside
\* the message of the last, however the bottle was made (opener.rs:65).
CallReturns == (box # NoBox) ~> (pc = "done")
=============================================================================
