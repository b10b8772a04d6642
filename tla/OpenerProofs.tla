---------------------------- MODULE OpenerProofs ----------------------------
(***************************************************************************)
(* Proofs about Opener, for every bottle an opener may be handed and every *)
(* keychain: a call that succeeds has verified and reports exactly the     *)
(* signatures of the layers it went through, and got past the encrypted    *)
(* ones with keys of the keychain that a slot was made for.                *)
(***************************************************************************)
EXTENDS Opener, LayerProofs

-----------------------------------------------------------------------------
(* The inductive invariant.  Layers before the last one reached are done    *)
(* with: all their signatures are verified and reported, and their content  *)
(* key came from a slot of a held key.  The last one is under way, and turn *)
(* says how far.                                                            *)

Started == pc = "idle" => bottles = <<>> /\ signatures = <<>>

SignaturesOf(j) == bottles[j].signatures.list

Reported(s) == \E n \in DOMAIN signatures : signatures[n] = s

\* Whether signature i of layer j has had its turn.
Processed(j, i) ==
    \/ j < Len(bottles)
    \/ pc \in {"layer", "format", "slots", "unseal"}
    \/ pc = "verify" /\ i <= turn

\* The layer the call is working on is the last one pushed.
AtLast ==
    pc \in {"verify", "format", "slots", "unseal"} =>
        bottles # <<>> /\ bottles[Len(bottles)] = bottle

\* Every signature that had its turn verified and is reported.
ProcessedVerified ==
    pc # "done" =>
        \A j \in DOMAIN bottles : \A i \in DOMAIN SignaturesOf(j) :
            Processed(j, i) => Authentic(bottles[j], i) /\ Reported(SignaturesOf(j)[i])

\* Nothing else is reported.
OnlyLayersReported ==
    pc # "done" =>
        \A n \in DOMAIN signatures :
            \E j \in DOMAIN bottles : \E i \in DOMAIN SignaturesOf(j) :
                signatures[n] = SignaturesOf(j)[i]

\* Encrypted layers that have been left were opened through a held key; the one
\* being unsealed has its key from a slot of a held key.
LeftUnsealed ==
    pc # "done" =>
        \A j \in DOMAIN bottles :
            (j < Len(bottles) \/ pc = "layer") /\ bottles[j].format = "Aes"
                => HolderCanUnseal(bottles[j])

SlotGaveKey(b, k) ==
    \E i \in DOMAIN b.recipients.list :
        LET slot == b.recipients.list[i]
        IN  slot.recipient \in held /\ Opens(slot.data, slot.recipient) /\ slot.data.holds = k

KeyFromSlot == pc = "unseal" => SlotGaveKey(bottle, key)

\* What the answer is once there is one.
AnswerGood ==
    /\ pc # "done" => answer = Pending
    /\ OpenedIsAuthentic
    /\ OnlyHoldersUnseal

IInv ==
    /\ TypeOK
    /\ Holds(bottle, nested)
    /\ Started
    /\ AtLast
    /\ ProcessedVerified
    /\ OnlyLayersReported
    /\ LeftUnsealed
    /\ KeyFromSlot
    /\ AnswerGood

-----------------------------------------------------------------------------
(* Facts the steps share.                                                   *)

\* The answer is the pending one, or an error: nothing is claimed of it.
LEMMA NothingClaimed ==
    ASSUME answer.error # "none"
    PROVE  OpenedIsAuthentic /\ OnlyHoldersUnseal
  BY DEF OpenedIsAuthentic, OnlyHoldersUnseal

LEMMA FailureTyped ==
    ASSUME NEW e \in Errors
    PROVE  Failure(e) \in Answers /\ Failure(e).error = e
<1>1. Plain(0, "raw") \in Message
  BY DEF Plain, Message, NoKey, Encodings
<1>2. <<>> \in Seq(Signature) /\ <<>> \in Seq(Layer)
  BY EmptySeq
<1> QED
  BY <1>1, <1>2 DEF Failure, Answers

\* What is inside a message that holds a bottle is itself such a chain.
LEMMA InsideHolds ==
    ASSUME NEW b, NEW n \in Seq(Layer), Holds(b, n), HoldsBottle(b),
           NEW c, c.message = Head(n).message
    PROVE  /\ n # <<>> /\ Head(n) \in Layer /\ Tail(n) \in Seq(Layer)
           /\ Holds(c, Tail(n))
<1>1. n # <<>>
  BY DEF Holds
<1>2. /\ 1 \in DOMAIN n /\ Head(n) = n[1] /\ n[1] \in Layer
      /\ Tail(n) \in Seq(Layer) /\ Len(Tail(n)) = Len(n) - 1
      /\ \A i \in DOMAIN Tail(n) : i + 1 \in DOMAIN n /\ Tail(n)[i] = n[i + 1]
  BY <1>1
<1>3. HoldsBottle(c) <=> Tail(n) # <<>>
  <2>1. Tail(n) = <<>> <=> Len(Tail(n)) = 0
    BY <1>2, EmptySeq
  <2>2. HoldsBottle(c) <=> HoldsBottle(n[1])
    BY <1>2 DEF HoldsBottle
  <2>3. HoldsBottle(n[1]) <=> 1 # Len(n)
    BY <1>2 DEF Holds
  <2> QED
    BY <1>1, <1>2, <2>1, <2>2, <2>3
<1>4. ASSUME NEW i \in DOMAIN Tail(n)
      PROVE  HoldsBottle(Tail(n)[i]) <=> i # Len(Tail(n))
  BY <1>2 DEF Holds
<1> QED
  BY <1>1, <1>2, <1>3, <1>4 DEF Holds

\* A call that fails keeps the invariant, whatever the step was.
LEMMA FailInv ==
    ASSUME IInv, NEW e \in Errors \ {"none"}, Fail(e)
    PROVE  IInv'
<1>1. /\ answer' = Failure(e) /\ pc' = "done"
      /\ UNCHANGED <<held, box, bottle, nested, turn, lastErr, key>>
      /\ UNCHANGED <<bottles, signatures, decryption>>
  BY DEF Fail, Return
<1>2. answer' \in Answers /\ answer'.error # "none"
  BY <1>1, FailureTyped
<1>3. TypeOK'
  BY <1>1, <1>2 DEF IInv, TypeOK, Steps
<1>4. OpenedIsAuthentic' /\ OnlyHoldersUnseal'
  BY <1>2 DEF OpenedIsAuthentic, OnlyHoldersUnseal
<1> QED
  BY <1>1, <1>3, <1>4
     DEF IInv, Started, AtLast, ProcessedVerified, OnlyLayersReported, LeftUnsealed,
         KeyFromSlot, AnswerGood, Holds

LEMMA InitInv == Init => IInv
<1> SUFFICES ASSUME Init
             PROVE  IInv
  OBVIOUS
<1>1. /\ held \in SUBSET PrivateKeys /\ box = NoBox /\ answer = Pending
      /\ pc = "idle" /\ bottle = box.bottle /\ nested = <<>> /\ bottles = <<>>
      /\ signatures = <<>> /\ decryption = 0 /\ turn = 0
      /\ lastErr = "NoAppropriateKey" /\ key = NoKey
  BY DEF Init
<1>2. /\ <<>> \in Seq(Layer) /\ <<>> \in Seq(Signature) /\ <<>> \in Seq(Slot)
      /\ DOMAIN <<>> = {}
  BY EmptySeq
<1>3. Plain(0, "raw") \in Message
  BY DEF Plain, Message, NoKey, Encodings
<1>4. bottle = Fresh(Plain(0, "raw"), "ClearText")
  BY <1>1 DEF NoBox
<1>5. bottle \in Layer
  <2>1. None \in OptionOf(Slot) /\ None \in OptionOf(Signature)
    BY <1>2 DEF None, OptionOf
  <2>2. NoHeader \in Header
    BY DEF NoHeader, Header
  <2> QED
    BY <1>3, <1>4, <2>1, <2>2 DEF Fresh, Layer, Formats
<1>6. Holds(bottle, nested)
  <2>1. bottle.message.enc = "raw"
    BY <1>4 DEF Fresh, Plain
  <2> QED
    BY <1>1, <1>2, <2>1 DEF Holds, HoldsBottle
<1>7. box \in Box
  BY <1>1, <1>2, <1>5, <1>6 DEF Box, NoBox
<1>8. answer \in Answers /\ answer.error = "pending"
  BY <1>1, FailureTyped DEF Pending, Errors
<1>9. TypeOK
  BY <1>1, <1>2, <1>5, <1>7, <1>8 DEF TypeOK, Steps, Errors, NoKey
<1>10. OpenedIsAuthentic /\ OnlyHoldersUnseal
  BY <1>8, NothingClaimed
<1> QED
  BY <1>1, <1>2, <1>6, <1>9, <1>10
     DEF IInv, Started, AtLast, ProcessedVerified, OnlyLayersReported, LeftUnsealed,
         KeyFromSlot, AnswerGood

-----------------------------------------------------------------------------
(* The invariant, one action at a time.                                     *)

\* Signatures that were reported stay reported when one more is.
LEMMA ReportedStays ==
    ASSUME signatures \in Seq(Signature), NEW s \in Signature,
           signatures' = Append(signatures, s)
    PROVE  /\ signatures' \in Seq(Signature)
           /\ DOMAIN signatures' = DOMAIN signatures \cup {Len(signatures) + 1}
           /\ signatures'[Len(signatures) + 1] = s
           /\ \A n \in DOMAIN signatures : signatures'[n] = signatures[n]
  OBVIOUS

LEMMA OpenInv ==
    ASSUME IInv, pc = "idle", NEW b \in Box, Open(b)
    PROVE  IInv'
<1>2. /\ box' = b /\ bottle' = b.bottle /\ nested' = b.nested /\ pc' = "layer"
      /\ UNCHANGED <<held, bottles, signatures, decryption, turn, lastErr, key, answer>>
  BY DEF Open
<1>3. b.bottle \in Layer /\ b.nested \in Seq(Layer) /\ Holds(b.bottle, b.nested)
  BY DEF Box
<1>4. bottles = <<>> /\ signatures = <<>> /\ DOMAIN bottles = {} /\ DOMAIN signatures = {}
  BY DEF IInv, Started
<1>5. TypeOK'
  BY <1>2, <1>3 DEF IInv, TypeOK, Steps
<1>6. Holds(bottle, nested)'
  BY <1>2, <1>3 DEF Holds, HoldsBottle
<1>7. answer.error # "none" /\ answer' = answer
  BY <1>2 DEF IInv, AnswerGood, Pending, Failure
<1>8. AnswerGood'
  BY <1>2, <1>7 DEF IInv, AnswerGood, OpenedIsAuthentic, OnlyHoldersUnseal
<1> QED
  BY <1>2, <1>4, <1>5, <1>6, <1>8
     DEF IInv, Started, AtLast, ProcessedVerified, OnlyLayersReported, LeftUnsealed,
         KeyFromSlot

LEMMA CallInv ==
    ASSUME IInv, Call
    PROVE  IInv'
  BY OpenInv, InboxAssumption DEF Call

LEMMA PushLayerInv ==
    ASSUME IInv, PushLayer
    PROVE  IInv'
<1>1. /\ pc = "layer" /\ bottles' = Append(bottles, bottle) /\ turn' = 0 /\ pc' = "verify"
      /\ UNCHANGED <<held, box, bottle, nested, signatures, decryption, lastErr, key, answer>>
  BY DEF PushLayer
<1>2. bottles \in Seq(Layer) /\ bottle \in Layer
  BY DEF IInv, TypeOK
<1>3. /\ bottles' \in Seq(Layer) /\ Len(bottles') = Len(bottles) + 1 /\ bottles' # <<>>
      /\ DOMAIN bottles' = DOMAIN bottles \cup {Len(bottles')}
      /\ DOMAIN bottles = 1 .. Len(bottles) /\ Len(bottles) \in Nat
      /\ bottles'[Len(bottles')] = bottle
      /\ \A j \in DOMAIN bottles : bottles'[j] = bottles[j]
  BY <1>1, <1>2
<1>4. TypeOK'
  BY <1>1, <1>3 DEF IInv, TypeOK, Steps
<1>5. Holds(bottle, nested)' /\ Started' /\ AtLast' /\ KeyFromSlot'
  BY <1>1, <1>3 DEF IInv, Holds, HoldsBottle, Started, AtLast, KeyFromSlot
<1>6. ProcessedVerified'
  <2> SUFFICES ASSUME NEW j \in DOMAIN bottles',
                      NEW i \in DOMAIN bottles'[j].signatures.list,
                      Processed(j, i)'
               PROVE  /\ Authentic(bottles'[j], i)
                      /\ Reported(bottles[j].signatures.list[i])'
    BY DEF ProcessedVerified, SignaturesOf
  <2>1. bottle.signatures.list \in Seq(Signature)
    BY <1>2, LayerFields
  <2>2. j \in DOMAIN bottles
    BY <1>1, <1>3, <2>1 DEF Processed
  <2>3. /\ i \in DOMAIN SignaturesOf(j)
        /\ bottles'[j] = bottles[j] /\ pc # "done" /\ Processed(j, i)
    BY <1>1, <1>3, <2>2 DEF SignaturesOf, Processed
  <2> QED
    BY <1>1, <2>2, <2>3 DEF IInv, ProcessedVerified, SignaturesOf, Reported
<1>7. OnlyLayersReported'
  <2> SUFFICES ASSUME NEW n \in DOMAIN signatures
               PROVE  \E j \in DOMAIN bottles' : \E i \in DOMAIN bottles'[j].signatures.list :
                         signatures[n] = bottles'[j].signatures.list[i]
    BY <1>1 DEF OnlyLayersReported, SignaturesOf
  <2>1. PICK j \in DOMAIN bottles : \E i \in DOMAIN SignaturesOf(j) :
           signatures[n] = SignaturesOf(j)[i]
    BY <1>1 DEF IInv, OnlyLayersReported
  <2> QED
    BY <1>3, <2>1 DEF SignaturesOf
<1>8. LeftUnsealed'
  <2> SUFFICES ASSUME NEW j \in DOMAIN bottles', j < Len(bottles'), bottles'[j].format = "Aes"
               PROVE  HolderCanUnseal(bottles[j])'
    BY <1>1 DEF LeftUnsealed
  <2>1. j \in DOMAIN bottles /\ bottles'[j] = bottles[j]
    BY <1>3
  <2> QED
    BY <1>1, <2>1 DEF IInv, LeftUnsealed, HolderCanUnseal
<1>9. AnswerGood'
  BY <1>1 DEF IInv, AnswerGood, OpenedIsAuthentic, OnlyHoldersUnseal, HolderCanUnseal
<1> QED
  BY <1>4, <1>5, <1>6, <1>7, <1>8, <1>9 DEF IInv

LEMMA VerifySignatureInv ==
    ASSUME IInv, VerifySignature
    PROVE  IInv'
<1> DEFINE list == bottle.signatures.list
           sig  == list[turn + 1]
           err  == VerifyError(sig.signer, bottle.message, sig.data)
<1>1. /\ pc = "verify" /\ turn < Len(list) /\ turn \in Nat /\ bottle \in Layer
      /\ list \in Seq(Signature) /\ sig \in Signature /\ turn + 1 \in DOMAIN list
      /\ signatures \in Seq(Signature) /\ bottles \in Seq(Layer)
  <2>1. bottle \in Layer /\ turn \in Nat /\ signatures \in Seq(Signature)
        /\ bottles \in Seq(Layer)
    BY DEF IInv, TypeOK
  <2>2. list \in Seq(Signature)
    BY <2>1, LayerFields
  <2> QED
    BY <2>1, <2>2 DEF VerifySignature
<1>2. CASE err # "none"
  <2>1. Fail(err)
    BY <1>2 DEF VerifySignature
  <2>2. err \in Errors \ {"none"}
    BY <1>2 DEF VerifyError, Errors
  <2> QED
    BY <2>1, <2>2, FailInv
<1>3. CASE err = "none"
  <2>1. /\ signatures' = Append(signatures, sig) /\ turn' = turn + 1
        /\ UNCHANGED <<held, box, pc, bottle, nested, bottles, decryption,
                       lastErr, key, answer>>
    BY <1>3 DEF VerifySignature
  <2> HIDE DEF err
  <2>2. /\ signatures' \in Seq(Signature)
        /\ DOMAIN signatures' = DOMAIN signatures \cup {Len(signatures) + 1}
        /\ signatures'[Len(signatures) + 1] = sig
        /\ \A n \in DOMAIN signatures : signatures'[n] = signatures[n]
    BY <1>1, <2>1, ReportedStays
  <2>3. TypeOK'
    BY <1>1, <2>1, <2>2 DEF IInv, TypeOK
  <2>4. Holds(bottle, nested)' /\ Started' /\ AtLast' /\ KeyFromSlot'
    BY <1>1, <2>1 DEF IInv, Holds, HoldsBottle, Started, AtLast, KeyFromSlot
  <2>5. /\ bottles # <<>> /\ bottles[Len(bottles)] = bottle
        /\ DOMAIN bottles = 1 .. Len(bottles) /\ Len(bottles) \in DOMAIN bottles
    BY <1>1 DEF IInv, AtLast
  <2>6. ProcessedVerified'
    <3> SUFFICES ASSUME NEW j \in DOMAIN bottles, NEW i \in DOMAIN SignaturesOf(j),
                        Processed(j, i)'
                 PROVE  /\ Authentic(bottles[j], i)
                        /\ Reported(SignaturesOf(j)[i])'
      BY <2>1 DEF ProcessedVerified, SignaturesOf
    <3>1. CASE Processed(j, i)
      <4>1. Authentic(bottles[j], i) /\ Reported(SignaturesOf(j)[i])
        BY <1>1, <3>1 DEF IInv, ProcessedVerified
      <4> QED
        BY <2>1, <2>2, <4>1 DEF Reported, SignaturesOf
    <3>2. CASE ~Processed(j, i)
      <4>0. SignaturesOf(j) \in Seq(Signature)
        BY <1>1, LayerFields DEF SignaturesOf
      <4>1. j = Len(bottles) /\ i = turn + 1
        BY <1>1, <2>1, <2>5, <3>2, <4>0 DEF Processed
      <4>2. bottles[j] = bottle /\ SignaturesOf(j)[i] = sig
        BY <2>5, <4>1 DEF SignaturesOf
      <4>3. Authentic(bottles[j], i)
        BY <1>3, <4>1, <4>2 DEF Authentic, Verifies, err
      <4> QED
        BY <2>1, <2>2, <4>2, <4>3 DEF Reported, SignaturesOf
    <3> QED
      BY <3>1, <3>2
  <2>7. OnlyLayersReported'
    <3> SUFFICES ASSUME NEW n \in DOMAIN signatures'
                 PROVE  \E j \in DOMAIN bottles : \E i \in DOMAIN SignaturesOf(j) :
                           signatures'[n] = SignaturesOf(j)[i]
      BY <2>1 DEF OnlyLayersReported, SignaturesOf
    <3>1. CASE n \in DOMAIN signatures
      BY <1>1, <2>2, <3>1 DEF IInv, OnlyLayersReported
    <3>2. CASE n \notin DOMAIN signatures
      <4>1. signatures'[n] = sig
        BY <2>2, <3>2
      <4>2. Len(bottles) \in DOMAIN bottles /\ SignaturesOf(Len(bottles)) = list
        BY <2>5 DEF SignaturesOf
      <4> QED
        BY <1>1, <4>1, <4>2
    <3> QED
      BY <3>1, <3>2
  <2>8. LeftUnsealed'
    BY <1>1, <2>1 DEF IInv, LeftUnsealed, HolderCanUnseal
  <2>9. AnswerGood'
    BY <1>1, <2>1 DEF IInv, AnswerGood, OpenedIsAuthentic, OnlyHoldersUnseal, HolderCanUnseal
  <2> QED
    BY <2>3, <2>4, <2>6, <2>7, <2>8, <2>9 DEF IInv
<1> QED
  BY <1>2, <1>3

LEMMA SignaturesVerifiedInv ==
    ASSUME IInv, SignaturesVerified
    PROVE  IInv'
<1>1. /\ pc = "verify" /\ turn = Len(bottle.signatures.list) /\ pc' = "format"
      /\ UNCHANGED <<held, box, bottle, nested, bottles, signatures, decryption,
                     turn, lastErr, key, answer>>
  BY DEF SignaturesVerified
<1>2. /\ bottles \in Seq(Layer) /\ bottles[Len(bottles)] = bottle
      /\ DOMAIN bottles = 1 .. Len(bottles) /\ Len(bottles) \in Nat
  BY <1>1 DEF IInv, TypeOK, AtLast
<1>3. TypeOK'
  BY <1>1 DEF IInv, TypeOK, Steps
<1>4. ProcessedVerified'
  <2> SUFFICES ASSUME NEW j \in DOMAIN bottles, NEW i \in DOMAIN SignaturesOf(j)
               PROVE  Authentic(bottles[j], i) /\ Reported(SignaturesOf(j)[i])
    BY <1>1 DEF ProcessedVerified, SignaturesOf, Reported
  <2>1. SignaturesOf(j) \in Seq(Signature)
    BY <1>2, LayerFields DEF SignaturesOf
  <2>2. Processed(j, i)
    BY <1>1, <1>2, <2>1 DEF Processed, SignaturesOf
  <2> QED
    BY <1>1, <2>2 DEF IInv, ProcessedVerified
<1> QED
  BY <1>1, <1>3, <1>4
     DEF IInv, Holds, HoldsBottle, Started, AtLast, OnlyLayersReported, SignaturesOf,
         LeftUnsealed, HolderCanUnseal, KeyFromSlot, AnswerGood, OpenedIsAuthentic,
         OnlyHoldersUnseal

\* The layers a call has been through once it reaches clear text.
LEMMA ReturnPayloadInv ==
    ASSUME IInv, ReturnPayload
    PROVE  IInv'
<1> DEFINE a == [error |-> "none", payload |-> bottle.message, decryption |-> decryption,
                 signatures |-> signatures, bottles |-> bottles]
<1>1. /\ pc = "format" /\ bottle.format = "ClearText" /\ answer' = a /\ pc' = "done"
      /\ UNCHANGED <<held, box, bottle, nested, turn, lastErr, key>>
      /\ UNCHANGED <<bottles, signatures, decryption>>
  BY DEF ReturnPayload, Return
<1>2. /\ bottle \in Layer /\ bottles \in Seq(Layer) /\ signatures \in Seq(Signature)
      /\ decryption \in Nat /\ bottles[Len(bottles)] = bottle
      /\ DOMAIN bottles = 1 .. Len(bottles) /\ Len(bottles) \in Nat
  BY <1>1 DEF IInv, TypeOK, AtLast
<1>3. /\ answer'.error = "none" /\ answer'.bottles = bottles
      /\ answer'.signatures = signatures /\ answer' \in Answers
  <2>1. bottle.message \in Message
    BY <1>2, LayerFields
  <2> QED
    BY <1>1, <1>2, <2>1 DEF Answers, Errors
<1>4. TypeOK'
  BY <1>1, <1>3 DEF IInv, TypeOK, Steps
<1>5. OpenedIsAuthentic'
  <2>1. ASSUME NEW j \in DOMAIN bottles, NEW i \in DOMAIN bottles[j].signatures.list
        PROVE  /\ Authentic(bottles[j], i)
               /\ \E n \in DOMAIN signatures : signatures[n] = bottles[j].signatures.list[i]
    <3>1. Processed(j, i)
      BY <1>1 DEF Processed
    <3> QED
      BY <1>1, <3>1 DEF IInv, ProcessedVerified, SignaturesOf, Reported
  <2>2. ASSUME NEW n \in DOMAIN signatures
        PROVE  \E j \in DOMAIN bottles : \E i \in DOMAIN bottles[j].signatures.list :
                  signatures[n] = bottles[j].signatures.list[i]
    BY <1>1 DEF IInv, OnlyLayersReported, SignaturesOf
  <2> QED
    BY <1>3, <2>1, <2>2 DEF OpenedIsAuthentic
<1>6. OnlyHoldersUnseal'
  <2>1. ASSUME NEW j \in DOMAIN bottles, bottles[j].format = "Aes"
        PROVE  HolderCanUnseal(bottles[j])
    <3>1. j < Len(bottles)
      BY <1>1, <1>2, <2>1
    <3> QED
      BY <1>1, <2>1, <3>1 DEF IInv, LeftUnsealed
  <2> QED
    BY <1>1, <1>3, <2>1 DEF OnlyHoldersUnseal, HolderCanUnseal
<1> QED
  BY <1>1, <1>4, <1>5, <1>6
     DEF IInv, Holds, HoldsBottle, Started, AtLast, ProcessedVerified, OnlyLayersReported,
         LeftUnsealed, KeyFromSlot, AnswerGood

\* Going on to the bottle inside the message, once the last layer pushed is
\* done with.
LEMMA DescendInv ==
    ASSUME IInv, pc \in {"format", "unseal"}, HoldsBottle(bottle),
           bottle.format = "Aes" => HolderCanUnseal(bottle),
           NEW c \in Layer, c.message = Head(nested).message, Descend(c),
           decryption' \in Nat,
           UNCHANGED <<held, box, bottles, signatures, turn, lastErr, key, answer>>
    PROVE  IInv'
<1>1. bottle' = c /\ nested' = Tail(nested) /\ pc' = "layer"
  BY DEF Descend
<1>2. /\ bottles \in Seq(Layer) /\ bottles[Len(bottles)] = bottle
      /\ DOMAIN bottles = 1 .. Len(bottles) /\ Len(bottles) \in Nat
      /\ nested \in Seq(Layer)
  BY DEF IInv, TypeOK, AtLast
<1>3. nested' \in Seq(Layer) /\ Holds(bottle', nested')
  BY <1>1, <1>2, InsideHolds DEF IInv
<1>4. TypeOK'
  BY <1>1, <1>3 DEF IInv, TypeOK, Steps
<1>5. ProcessedVerified'
  <2> SUFFICES ASSUME NEW j \in DOMAIN bottles, NEW i \in DOMAIN SignaturesOf(j)
               PROVE  Authentic(bottles[j], i) /\ Reported(SignaturesOf(j)[i])
    BY DEF ProcessedVerified, SignaturesOf, Reported
  <2>1. Processed(j, i)
    BY DEF Processed
  <2> QED
    BY <2>1 DEF IInv, ProcessedVerified
<1>6. LeftUnsealed'
  <2> SUFFICES ASSUME NEW j \in DOMAIN bottles, bottles[j].format = "Aes"
               PROVE  HolderCanUnseal(bottles[j])
    BY DEF LeftUnsealed, HolderCanUnseal
  <2>1. CASE j = Len(bottles)
    BY <1>2, <2>1
  <2>2. CASE j # Len(bottles)
    <3>1. j < Len(bottles)
      BY <1>2, <2>2
    <3> QED
      BY <3>1 DEF IInv, LeftUnsealed
  <2> QED
    BY <2>1, <2>2
<1>7. Holds(bottle, nested)'
  BY <1>3 DEF Holds, HoldsBottle
<1>8. Started' /\ AtLast' /\ KeyFromSlot'
  BY <1>1 DEF Started, AtLast, KeyFromSlot
<1>9. OnlyLayersReported' /\ AnswerGood'
  BY <1>1 DEF IInv, OnlyLayersReported, SignaturesOf, AnswerGood, OpenedIsAuthentic,
              OnlyHoldersUnseal, HolderCanUnseal
<1> QED
  BY <1>4, <1>5, <1>6, <1>7, <1>8, <1>9 DEF IInv

LEMMA DecodeNestedInv ==
    ASSUME IInv, DecodeNested
    PROVE  IInv'
<1> DEFINE enc   == NestedEncoding(bottle)
           child == DecodedFrom(enc, Head(nested))
<1>1. pc = "format" /\ bottle.format \in {"CborBottle", "JsonBottle"}
      /\ enc \in {"cbor", "json"}
  BY DEF DecodeNested, NestedEncoding
<1>2. CASE bottle.message.enc # enc \/ bottle.message.key # NoKey
  <2>1. Fail(IF enc = "cbor" THEN "Cbor" ELSE "Json")
    BY <1>2 DEF DecodeNested
  <2> QED
    BY <2>1, FailInv DEF Errors
<1>3. CASE bottle.message.enc = enc /\ bottle.message.key = NoKey
  <2>1. /\ Descend(child)
        /\ UNCHANGED <<held, box, bottles, signatures, decryption, turn,
                       lastErr, key, answer>>
    BY <1>3 DEF DecodeNested
  <2>2. HoldsBottle(bottle) /\ nested \in Seq(Layer) /\ Holds(bottle, nested)
    BY <1>1, <1>3 DEF HoldsBottle, IInv, TypeOK
  <2>3. Head(nested) \in Layer
    BY <2>2, InsideHolds
  <2>4. child \in Layer /\ child.message = Head(nested).message
    BY <2>3, DecodedFromFields
  <2>5. decryption' \in Nat
    BY <2>1 DEF IInv, TypeOK
  <2> HIDE DEF child, enc
  <2> QED
    BY <1>1, <2>1, <2>2, <2>4, <2>5, DescendInv
<1> QED
  BY <1>2, <1>3

LEMMA StartSlotsInv ==
    ASSUME IInv, StartSlots
    PROVE  IInv'
<1>1. /\ pc = "format" /\ pc' = "slots" /\ turn' = 0 /\ lastErr' = "NoAppropriateKey"
      /\ UNCHANGED <<held, box, bottle, nested, bottles, signatures, decryption, key, answer>>
  BY DEF StartSlots
<1>2. TypeOK'
  BY <1>1 DEF IInv, TypeOK, Steps, Errors
<1>3. ProcessedVerified'
  BY <1>1 DEF IInv, ProcessedVerified, SignaturesOf, Reported, Processed
<1> QED
  BY <1>1, <1>2, <1>3
     DEF IInv, Holds, HoldsBottle, Started, AtLast, OnlyLayersReported, SignaturesOf,
         LeftUnsealed, HolderCanUnseal, KeyFromSlot, AnswerGood, OpenedIsAuthentic,
         OnlyHoldersUnseal

LEMMA TrySlotInv ==
    ASSUME IInv, TrySlot
    PROVE  IInv'
<1> DEFINE list == bottle.recipients.list
           slot == list[turn + 1]
           err  == DecryptError(slot.data, slot.recipient)
<1>1. /\ pc = "slots" /\ turn < Len(list)
      /\ UNCHANGED <<held, box, bottle, nested, bottles, signatures, decryption, answer>>
  BY DEF TrySlot
<1>2. turn \in Nat /\ list \in Seq(Slot) /\ turn + 1 \in DOMAIN list /\ slot \in Slot
  <2>1. turn \in Nat /\ list \in Seq(Slot)
    BY LayerFields DEF IInv, TypeOK
  <2> QED
    BY <1>1, <2>1
<1>3. TypeOK' /\ KeyFromSlot' /\ pc' \in {"slots", "unseal"}
  <2>1. CASE slot.recipient \in held /\ err = "none" /\ slot.data.whole
    <3>1. key' = slot.data.holds /\ pc' = "unseal" /\ UNCHANGED <<turn, lastErr>>
      BY <2>1 DEF TrySlot
    <3>2. key' \in Nat
      BY <1>2, <3>1 DEF Slot, Envelope
    <3>3. SlotGaveKey(bottle, key)'
      BY <1>1, <1>2, <2>1, <3>1 DEF SlotGaveKey, Opens
    <3> QED
      BY <1>1, <3>1, <3>2, <3>3 DEF IInv, TypeOK, Steps, KeyFromSlot
  <2>2. CASE slot.recipient \in held /\ (err # "none" \/ ~slot.data.whole)
    <3>1. /\ lastErr' = IF err = "none" THEN "Crypto" ELSE err
          /\ turn' = turn + 1 /\ UNCHANGED <<pc, key>>
      BY <2>2 DEF TrySlot
    <3>2. lastErr' \in Errors \ {"none", "pending"}
      BY <3>1 DEF DecryptError, OaepError, KemError, HybridError, EcdhError,
                       TailError, Errors
    <3> HIDE DEF err
    <3> QED
      BY <1>1, <1>2, <3>1, <3>2 DEF IInv, TypeOK, KeyFromSlot
  <2>3. CASE slot.recipient \notin held
    <3>1. turn' = turn + 1 /\ UNCHANGED <<pc, key, lastErr>>
      BY <2>3 DEF TrySlot
    <3> QED
      BY <1>1, <1>2, <3>1 DEF IInv, TypeOK, KeyFromSlot
  <2> QED
    BY <2>1, <2>2, <2>3
<1>4. ProcessedVerified'
  BY <1>1, <1>3 DEF IInv, ProcessedVerified, SignaturesOf, Reported, Processed
<1> QED
  BY <1>1, <1>3, <1>4
     DEF IInv, Holds, HoldsBottle, Started, AtLast, OnlyLayersReported, SignaturesOf,
         LeftUnsealed, HolderCanUnseal, AnswerGood, OpenedIsAuthentic, OnlyHoldersUnseal

LEMMA UnsealInv ==
    ASSUME IInv, Unseal
    PROVE  IInv'
<1> DEFINE err == UnsealError(bottle, key)
<1>1. pc = "unseal"
  BY DEF Unseal
<1>2. CASE err # "none"
  <2>1. Fail(err)
    BY <1>2 DEF Unseal
  <2>2. err \in Errors \ {"none"}
    BY <1>2 DEF UnsealError, Errors
  <2> QED
    BY <2>1, <2>2, FailInv
<1>3. CASE err = "none"
  <2>1. /\ decryption' = decryption + 1 /\ Descend(Head(nested))
        /\ UNCHANGED <<held, box, bottles, signatures, turn, lastErr, key, answer>>
    BY <1>3 DEF Unseal
  <2>2. bottle.message.key = key /\ bottle.message.enc = "cbor"
    BY <1>3 DEF UnsealError
  <2>3. HoldsBottle(bottle) /\ nested \in Seq(Layer) /\ Holds(bottle, nested)
    BY <2>2 DEF HoldsBottle, IInv, TypeOK
  <2>4. Head(nested) \in Layer
    BY <2>3, InsideHolds
  <2>5. HolderCanUnseal(bottle)
    BY <1>1, <2>2 DEF IInv, KeyFromSlot, SlotGaveKey, HolderCanUnseal
  <2>6. decryption' \in Nat
    BY <2>1 DEF IInv, TypeOK
  <2> QED
    BY <1>1, <2>1, <2>3, <2>4, <2>5, <2>6, DescendInv
<1> QED
  BY <1>2, <1>3

-----------------------------------------------------------------------------
(* The theorems.                                                            *)

LEMMA StepInv == IInv /\ [Next]_vars => IInv'
<1> SUFFICES ASSUME IInv, [Next]_vars
             PROVE  IInv'
  OBVIOUS
<1>1. CASE Call
  BY <1>1, CallInv
<1>2. CASE PushLayer
  BY <1>2, PushLayerInv
<1>3. CASE VerifySignature
  BY <1>3, VerifySignatureInv
<1>4. CASE SignaturesVerified
  BY <1>4, SignaturesVerifiedInv
<1>5. CASE ReturnPayload
  BY <1>5, ReturnPayloadInv
<1>6. CASE DecodeNested
  BY <1>6, DecodeNestedInv
<1>7. CASE StartSlots
  BY <1>7, StartSlotsInv
<1>8. CASE TrySlot
  BY <1>8, TrySlotInv
<1>9. CASE SlotsExhausted
  <2>1. Fail(lastErr) /\ lastErr \in Errors \ {"none"}
    BY <1>9 DEF SlotsExhausted, IInv, TypeOK
  <2> QED
    BY <2>1, FailInv
<1>10. CASE Unseal
  BY <1>10, UnsealInv
<1>11. CASE UNCHANGED vars
  BY <1>11
     DEF vars, IInv, TypeOK, Holds, HoldsBottle, Started, AtLast, ProcessedVerified,
         Processed, Reported, OnlyLayersReported, SignaturesOf, LeftUnsealed,
         HolderCanUnseal, KeyFromSlot, SlotGaveKey, AnswerGood, OpenedIsAuthentic,
         OnlyHoldersUnseal
<1> QED
  BY <1>1, <1>2, <1>3, <1>4, <1>5, <1>6, <1>7, <1>8, <1>9, <1>10, <1>11 DEF Next, Step

\* The inductive invariant holds throughout every call.
THEOREM Invariance == Spec => []IInv
<1> QED
  BY InitInv, StepInv, PTL DEF Spec

\* Opener's variables and the answers it gives are of their types.
THEOREM TypeCorrect == Spec => []TypeOK
<1>1. IInv => TypeOK
  BY DEF IInv
<1> QED
  BY <1>1, Invariance, PTL

\* Whatever bottle is opened, a call that succeeds has verified every signature
\* of every layer it reports, and reports those signatures and no other.
THEOREM OpenedAlwaysAuthentic == Spec => []OpenedIsAuthentic
<1>1. IInv => OpenedIsAuthentic
  BY DEF IInv, AnswerGood
<1> QED
  BY <1>1, Invariance, PTL

\* Whatever bottle is opened, a call that succeeds went past its encrypted
\* layers with keys of the keychain that their slots were made for.
THEOREM OnlyHoldersEverUnseal == Spec => []OnlyHoldersUnseal
<1>1. IInv => OnlyHoldersUnseal
  BY DEF IInv, AnswerGood
<1> QED
  BY <1>1, Invariance, PTL

-----------------------------------------------------------------------------
(* The refinement.  How far a call has come determines the whole state of   *)
(* the loops, and the state at the end of them is the verdict.              *)

\* The layers inside the bottle of the call, as it decodes them, and the number
\* of the one under way.
Chain == Decoded(box)

Depth == IF pc = "layer" THEN Len(bottles) + 1 ELSE Len(bottles)

\* Where the call is: at layer n of the bottle, all those before it passed.
At(n) ==
    /\ n \in DOMAIN Chain
    /\ bottle = Chain[n]
    /\ Len(nested) + n = Len(Chain)
    /\ \A i \in DOMAIN nested : nested[i] = box.nested[n - 1 + i]
    /\ \A i \in DOMAIN bottles : bottles[i] = Chain[i]
    /\ \A m \in 1 .. n - 1 : ~Ends(Chain[m], held)
    /\ decryption = Cardinality(SealedLayers(Chain, n - 1))

\* The signatures of the layers passed are reported, and of those of this layer
\* the ones that have had their turn.
SignaturesSoFar ==
    /\ pc = "layer" => signatures = Joined(Chain)[Depth - 1]
    /\ pc = "verify" =>
          /\ turn <= Len(bottle.signatures.list)
          /\ signatures = Joined(Chain)[Depth - 1] \o SubSeq(bottle.signatures.list, 1, turn)
          /\ \A i \in Failing(bottle) : i > turn
    /\ pc \in {"format", "slots", "unseal"} =>
          signatures = Joined(Chain)[Depth] /\ Failing(bottle) = {}

\* The error a slot that was tried leaves behind.
SlotError(slot) ==
    IF Opens(slot.data, slot.recipient) THEN "Crypto" ELSE DecryptError(slot.data, slot.recipient)

\* No slot that has had its turn yields a key, and the last one tried left its error.
SlotsSoFar ==
    pc = "slots" =>
        LET list == bottle.recipients.list
            seen == {i \in Tried(bottle, held) : i <= turn}
        IN  /\ bottle.format = "Aes" /\ turn <= Len(list)
            /\ \A i \in Yielding(bottle, held) : i > turn
            /\ IF seen = {} THEN lastErr = "NoAppropriateKey"
               ELSE \E t \in seen : (\A j \in seen : j <= t) /\ lastErr = SlotError(list[t])

\* The content key is that of the first slot that yields one.
KeyIsFirst ==
    pc = "unseal" =>
        LET slots == Yielding(bottle, held)
        IN  /\ bottle.format = "Aes" /\ slots # {}
            /\ key = bottle.recipients.list[FirstOf(slots)].data.holds

\* Before the call there is nothing, and after it the verdict.
Idle     == pc = "idle" => box = NoBox /\ bottles = <<>> /\ signatures = <<>> /\ decryption = 0
Answered == pc = "done" => answer = Verdict(box, held)

SimInv ==
    /\ Idle
    /\ pc \notin {"idle", "done"} => At(Depth)
    /\ SignaturesSoFar
    /\ SlotsSoFar
    /\ KeyIsFirst
    /\ Answered

-----------------------------------------------------------------------------
(* The simulation, one action at a time.                                    *)

LEMMA ChainFacts ==
    ASSUME IInv
    PROVE  /\ box.nested \in Seq(Layer) /\ Len(box.nested) \in Nat
           /\ Chain \in Seq(Layer) /\ Len(Chain) = Len(box.nested) + 1
           /\ DOMAIN Chain = 1 .. Len(box.nested) + 1
           /\ Chain[1] = box.bottle
           /\ \A i \in 1 .. Len(box.nested) :
                 Chain[i + 1] = DecodedFrom(Chain[i].message.enc, box.nested[i])
<1>1. box \in Box
  BY DEF IInv, TypeOK
<1>2. /\ box.nested \in Seq(Layer) /\ Len(box.nested) \in Nat
      /\ Chain \in Seq(Layer) /\ Len(Chain) = Len(box.nested) + 1
      /\ Chain[1] = box.bottle
      /\ \A i \in 1 .. Len(box.nested) :
            Chain[i + 1] = DecodedFrom(Chain[i].message.enc, box.nested[i])
  BY <1>1, DecodedChain DEF Chain
<1> QED
  BY <1>2

\* When the layer under way ends the call, the answer is settled.
LEMMA VerdictHere ==
    ASSUME IInv, SimInv, pc \notin {"idle", "done"}, Ends(bottle, held)
    PROVE  Verdict(box, held) = AnswerAt(Chain, Depth, held) /\ Chain[Depth] = bottle
<1>1. Len(box.nested) \in Nat /\ DOMAIN Chain = 1 .. Len(box.nested) + 1
  BY ChainFacts
<1>2. /\ Depth \in 1 .. Len(box.nested) + 1 /\ bottle = Chain[Depth]
      /\ \A m \in 1 .. Depth - 1 : ~Ends(Chain[m], held)
  BY <1>1 DEF SimInv, At
<1>3. Ends(Chain[Depth], held)
  BY <1>2
<1> QED
  BY <1>1, <1>2, <1>3, VerdictIs DEF Chain

\* A step that fails gives the error of the layer under way.
LEMMA FailSim ==
    ASSUME IInv, SimInv, pc \notin {"idle", "done"},
           NEW e, e # "none", LayerError(bottle, held) = e, Fail(e)
    PROVE  SimInv'
<1>1. Ends(bottle, held)
  BY DEF Ends
<1>2. Verdict(box, held) = Failure(e)
  BY <1>1, VerdictHere DEF AnswerAt
<1>3. pc' = "done" /\ answer' = Failure(e) /\ box' = box /\ held' = held
  BY DEF Fail, Return
<1> QED
  BY <1>2, <1>3 DEF SimInv, Idle, SignaturesSoFar, SlotsSoFar, KeyIsFirst, Answered

LEMMA InitSim == Init => SimInv
  BY DEF Init, SimInv, Idle, SignaturesSoFar, SlotsSoFar, KeyIsFirst, Answered

LEMMA OpenSim ==
    ASSUME SimInv, pc = "idle", NEW b \in Box, Open(b)
    PROVE  SimInv'
<1>1. /\ box' = b /\ bottle' = b.bottle /\ nested' = b.nested /\ pc' = "layer"
      /\ bottles' = <<>> /\ signatures' = <<>> /\ decryption' = 0
  BY DEF Open, SimInv, Idle
<1>2. /\ Len(b.nested) \in Nat /\ Decoded(b) \in Seq(Layer)
      /\ Len(Decoded(b)) = Len(b.nested) + 1 /\ Decoded(b)[1] = b.bottle
  BY DecodedChain
<1>3. Chain' = Decoded(b) /\ Depth' = 1
  BY <1>1 DEF Chain, Depth
<1>4. Cardinality(SealedLayers(Decoded(b), 0)) = 0 /\ Joined(Decoded(b))[0] = <<>>
  <2>1. Len(Decoded(b)) \in Nat
    BY <1>2
  <2>2. Joined(Decoded(b))[0] = <<>>
    BY <2>1, JoinedStep
  <2> QED
    BY <2>2, SealedCount
<1>5. \A m \in 1 .. 1 - 1 : FALSE
  OBVIOUS
<1>6. At(1)'
  BY <1>1, <1>2, <1>3, <1>4, <1>5 DEF At
<1> QED
  BY <1>1, <1>3, <1>4, <1>6
     DEF SimInv, Idle, SignaturesSoFar, SlotsSoFar, KeyIsFirst, Answered

LEMMA PushLayerSim ==
    ASSUME IInv, SimInv, PushLayer
    PROVE  SimInv'
<1>1. /\ pc = "layer" /\ bottles' = Append(bottles, bottle) /\ turn' = 0 /\ pc' = "verify"
      /\ UNCHANGED <<held, box, bottle, nested, signatures, decryption>>
  BY DEF PushLayer
<1>2. bottles \in Seq(Layer) /\ bottle \in Layer /\ bottle.signatures.list \in Seq(Signature)
  BY LayerFields DEF IInv, TypeOK
<1>3. /\ Len(bottles') = Len(bottles) + 1 /\ Len(bottles) \in Nat
      /\ DOMAIN bottles' = 1 .. Len(bottles) + 1 /\ DOMAIN bottles = 1 .. Len(bottles)
      /\ bottles'[Len(bottles) + 1] = bottle
      /\ \A i \in DOMAIN bottles : bottles'[i] = bottles[i]
  BY <1>1, <1>2
<1>4. Chain' = Chain /\ Depth' = Depth /\ Depth = Len(bottles) + 1
  BY <1>1, <1>3 DEF Chain, Depth
<1>5. At(Depth) /\ signatures = Joined(Chain)[Depth - 1]
  BY <1>1 DEF SimInv, SignaturesSoFar
<1>6. \A i \in DOMAIN bottles' : bottles'[i] = Chain[i]
  BY <1>3, <1>4, <1>5 DEF At
<1>7. At(Depth)'
  BY <1>1, <1>4, <1>5, <1>6 DEF At
<1>8. signatures = Joined(Chain)[Depth - 1] \o SubSeq(bottle.signatures.list, 1, 0)
  <2>1. Joined(Chain)[Depth - 1] \in Seq(Signature)
    BY <1>5 DEF IInv, TypeOK
  <2> QED
    BY <1>2, <1>5, <2>1
<1>9. \A i \in Failing(bottle) : i > 0
  BY <1>2 DEF Failing
<1>10. Failing(bottle)' = Failing(bottle)
  BY <1>1 DEF Failing
<1>11. SignaturesSoFar'
  BY <1>1, <1>2, <1>4, <1>8, <1>9 DEF SignaturesSoFar
<1> QED
  BY <1>1, <1>7, <1>11 DEF SimInv, Idle, SlotsSoFar, KeyIsFirst, Answered

LEMMA VerifySignatureSim ==
    ASSUME IInv, SimInv, VerifySignature
    PROVE  SimInv'
<1> DEFINE list == bottle.signatures.list
           sig  == list[turn + 1]
           err  == VerifyError(sig.signer, bottle.message, sig.data)
<1>1. /\ pc = "verify" /\ turn < Len(list) /\ turn \in Nat
      /\ list \in Seq(Signature) /\ turn + 1 \in DOMAIN list /\ sig \in Signature
  <2>1. turn \in Nat /\ list \in Seq(Signature)
    BY LayerFields DEF IInv, TypeOK
  <2> QED
    BY <2>1 DEF VerifySignature
<1>2. \A i \in Failing(bottle) : i > turn /\ i \in Nat
  BY <1>1 DEF SimInv, SignaturesSoFar, Failing
<1>3. turn + 1 \in Failing(bottle) <=> err # "none"
  BY <1>1 DEF Failing, Verifies
<1>4. CASE err # "none"
  <2>1. Fail(err)
    BY <1>4 DEF VerifySignature
  <2>2. FirstOf(Failing(bottle)) = turn + 1
    <3>1. Failing(bottle) \in SUBSET Nat /\ turn + 1 \in Failing(bottle)
      BY <1>2, <1>3, <1>4
    <3>2. \A i \in Failing(bottle) : turn + 1 <= i
      BY <1>1, <1>2
    <3> QED
      BY <3>1, <3>2, FirstOfIs
  <2>3. SignaturesError(bottle) = err
    BY <1>3, <1>4, <2>2 DEF SignaturesError
  <2>4. LayerError(bottle, held) = err
    BY <1>4, <2>3 DEF LayerError
  <2> HIDE DEF err
  <2> QED
    BY <1>1, <1>4, <2>1, <2>4, FailSim
<1>5. CASE err = "none"
  <2>1. /\ signatures' = Append(signatures, sig) /\ turn' = turn + 1
        /\ UNCHANGED <<held, box, pc, bottle, nested, bottles, decryption>>
    BY <1>5 DEF VerifySignature
  <2>2. Chain' = Chain /\ Depth' = Depth /\ Failing(bottle)' = Failing(bottle)
    BY <2>1 DEF Chain, Depth, Failing
  <2>3. At(Depth)'
    BY <1>1, <2>1, <2>2 DEF SimInv, At
  <2>4. signatures = Joined(Chain)[Depth - 1] \o SubSeq(list, 1, turn)
    BY <1>1 DEF SimInv, SignaturesSoFar
  <2>5. Joined(Chain)[Depth - 1] \in Seq(Signature)
    <3>1. /\ Len(Chain) \in Nat /\ Depth - 1 \in 0 .. Len(Chain)
          /\ \A m \in 1 .. Len(Chain) : Chain[m].signatures.list \in Seq(Signature)
      BY <1>1, ChainFacts, LayerFields DEF SimInv, At
    <3> QED
      BY <3>1, JoinedRange
  <2>6. signatures' = Joined(Chain)[Depth - 1] \o SubSeq(list, 1, turn + 1)
    <3>1. \A f \in Seq(Signature), g \in Seq(Signature) : \A n \in Nat :
             n + 1 \in DOMAIN g =>
                Append(f \o SubSeq(g, 1, n), g[n + 1]) = f \o SubSeq(g, 1, n + 1)
      OBVIOUS
    <3> QED
      BY <1>1, <2>1, <2>4, <2>5, <3>1
  <2>7. \A i \in Failing(bottle) : i > turn + 1
    BY <1>1, <1>2, <1>3, <1>5
  <2>8. SignaturesSoFar'
    BY <1>1, <2>1, <2>2, <2>6, <2>7 DEF SignaturesSoFar
  <2> QED
    BY <1>1, <2>1, <2>3, <2>8 DEF SimInv, Idle, SlotsSoFar, KeyIsFirst, Answered
<1> QED
  BY <1>4, <1>5

LEMMA SignaturesVerifiedSim ==
    ASSUME IInv, SimInv, SignaturesVerified
    PROVE  SimInv'
<1> DEFINE list == bottle.signatures.list
<1>1. /\ pc = "verify" /\ turn = Len(list) /\ pc' = "format"
      /\ UNCHANGED <<held, box, bottle, nested, bottles, signatures, decryption, turn>>
  BY DEF SignaturesVerified
<1>2. list \in Seq(Signature)
  BY LayerFields DEF IInv, TypeOK
<1>3. Failing(bottle) = {}
  BY <1>1, <1>2 DEF SimInv, SignaturesSoFar, Failing
<1>4. /\ Chain' = Chain /\ Depth' = Depth /\ Failing(bottle)' = Failing(bottle)
      /\ Depth \in 1 .. Len(Chain) /\ Chain[Depth] = bottle /\ Len(Chain) \in Nat
  BY <1>1, ChainFacts DEF Chain, Depth, Failing, SimInv, At
<1>5. signatures = Joined(Chain)[Depth]
  <2>1. signatures = Joined(Chain)[Depth - 1] \o SubSeq(list, 1, Len(list))
    BY <1>1 DEF SimInv, SignaturesSoFar
  <2>2. SubSeq(list, 1, Len(list)) = list
    BY <1>2
  <2> QED
    BY <1>4, <2>1, <2>2, JoinedStep
<1>6. At(Depth)'
  BY <1>1, <1>4 DEF SimInv, At
<1>7. SignaturesSoFar'
  BY <1>1, <1>3, <1>4, <1>5 DEF SignaturesSoFar
<1> QED
  BY <1>1, <1>6, <1>7 DEF SimInv, Idle, SlotsSoFar, KeyIsFirst, Answered

LEMMA ReturnPayloadSim ==
    ASSUME IInv, SimInv, ReturnPayload
    PROVE  SimInv'
<1> DEFINE a == [error |-> "none", payload |-> bottle.message, decryption |-> decryption,
                 signatures |-> signatures, bottles |-> bottles]
<1>1. /\ pc = "format" /\ bottle.format = "ClearText" /\ answer' = a /\ pc' = "done"
      /\ held' = held /\ box' = box
  BY DEF ReturnPayload, Return
<1>2. Ends(bottle, held) /\ LayerError(bottle, held) = "none"
  BY <1>1, NoneFailingError DEF SimInv, SignaturesSoFar, Ends, LayerError
<1>3. /\ Verdict(box, held) = AnswerAt(Chain, Depth, held) /\ Chain[Depth] = bottle
  BY <1>1, <1>2, VerdictHere
<1>4. /\ Depth = Len(bottles) /\ Depth \in 1 .. Len(Chain) /\ Len(Chain) \in Nat
      /\ \A i \in DOMAIN bottles : bottles[i] = Chain[i]
      /\ signatures = Joined(Chain)[Depth]
      /\ decryption = Cardinality(SealedLayers(Chain, Depth - 1))
  BY <1>1, ChainFacts DEF SimInv, At, SignaturesSoFar, Depth
<1>5. bottles = SubSeq(Chain, 1, Depth)
  <2>1. bottles \in Seq(Layer) /\ Chain \in Seq(Layer)
    BY ChainFacts DEF IInv, TypeOK
  <2> QED
    BY <1>4, <2>1
<1>6. decryption = Cardinality(SealedLayers(Chain, Depth))
  <2>1. Depth \in Nat \ {0}
    BY <1>4
  <2>2. Cardinality(SealedLayers(Chain, Depth)) = Cardinality(SealedLayers(Chain, Depth - 1)) + 0
    BY <1>1, <1>3, <2>1, SealedCount
  <2>3. Cardinality(SealedLayers(Chain, Depth - 1)) \in Nat
    BY <2>1, SealedCount
  <2> QED
    BY <1>4, <2>2, <2>3
<1>7. answer' = AnswerAt(Chain, Depth, held)
  BY <1>1, <1>2, <1>3, <1>4, <1>5, <1>6 DEF AnswerAt
<1> QED
  BY <1>1, <1>3, <1>7 DEF SimInv, Idle, SignaturesSoFar, SlotsSoFar, KeyIsFirst, Answered

\* Going on to the layer inside: the one left did not end the call.
LEMMA DescendSim ==
    ASSUME IInv, SimInv, pc \in {"format", "unseal"}, HoldsBottle(bottle),
           ~Ends(bottle, held),
           Descend(DecodedFrom(bottle.message.enc, Head(nested))),
           decryption' = decryption + (IF bottle.format = "Aes" THEN 1 ELSE 0),
           UNCHANGED <<held, box, bottles, signatures>>
    PROVE  SimInv'
<1>1. /\ bottle' = DecodedFrom(bottle.message.enc, Head(nested))
      /\ nested' = Tail(nested) /\ pc' = "layer"
  BY DEF Descend
<1>2. nested # <<>> /\ nested \in Seq(Layer) /\ bottles \in Seq(Layer)
  BY DEF IInv, TypeOK, Holds
<1>3. /\ Len(nested) \in Nat \ {0} /\ Head(nested) = nested[1] /\ 1 \in DOMAIN nested
      /\ Len(Tail(nested)) = Len(nested) - 1
      /\ DOMAIN nested = 1 .. Len(nested) /\ DOMAIN Tail(nested) = 1 .. Len(nested) - 1
      /\ \A i \in DOMAIN Tail(nested) : Tail(nested)[i] = nested[i + 1]
  BY <1>2
<1> DEFINE n == Depth
<1>4. /\ Chain' = Chain /\ Depth' = n + 1 /\ n = Len(bottles) /\ n \in Nat
  BY <1>1, <1>2 DEF Chain, Depth
<1>5. /\ At(n) /\ signatures = Joined(Chain)[n]
  BY DEF SimInv, SignaturesSoFar
<1>6. /\ n \in 1 .. Len(box.nested) /\ Len(box.nested) \in Nat
      /\ DOMAIN Chain = 1 .. Len(box.nested) + 1 /\ Len(Chain) = Len(box.nested) + 1
      /\ Chain[n] = bottle
  BY <1>3, <1>5, ChainFacts DEF At
<1>7. Chain[n + 1] = bottle'
  <2>1. Chain[n + 1] = DecodedFrom(Chain[n].message.enc, box.nested[n])
    BY <1>6, ChainFacts
  <2>2. nested[1] = box.nested[n - 1 + 1]
    BY <1>3, <1>5 DEF At
  <2>3. n - 1 + 1 = n
    BY <1>6
  <2> QED
    BY <1>1, <1>3, <1>6, <2>1, <2>2, <2>3
<1>8. \A i \in DOMAIN nested' : nested'[i] = box.nested[(n + 1) - 1 + i]
  <2> TAKE i \in DOMAIN nested'
  <2>1. i \in Nat /\ i + 1 \in DOMAIN nested /\ nested'[i] = nested[i + 1]
    BY <1>1, <1>3
  <2>2. nested[i + 1] = box.nested[n - 1 + (i + 1)]
    BY <1>5, <2>1 DEF At
  <2>3. n - 1 + (i + 1) = (n + 1) - 1 + i
    BY <1>4, <2>1
  <2> QED
    BY <2>1, <2>2, <2>3
<1>9. \A m \in 1 .. (n + 1) - 1 : ~Ends(Chain[m], held)
  <2> TAKE m \in 1 .. (n + 1) - 1
  <2>1. m = n \/ m \in 1 .. n - 1
    BY <1>4
  <2> QED
    BY <1>5, <1>6, <2>1 DEF At
<1>10. decryption' = Cardinality(SealedLayers(Chain, (n + 1) - 1))
  <2>1. n \in Nat \ {0} /\ (n + 1) - 1 = n
    BY <1>6
  <2>2. Cardinality(SealedLayers(Chain, n)) = decryption'
    BY <1>5, <1>6, <2>1, SealedCount DEF At
  <2> QED
    BY <2>1, <2>2
<1>11. n + 1 \in DOMAIN Chain /\ Len(nested') + (n + 1) = Len(Chain)
  <2>1. Len(nested) + n = Len(Chain)
    BY <1>5 DEF At
  <2> QED
    BY <1>1, <1>3, <1>6, <2>1
<1>12. At(Depth)'
  BY <1>4, <1>5, <1>7, <1>8, <1>9, <1>10, <1>11 DEF At
<1>13. (n + 1) - 1 = n
  BY <1>4
<1>14. SignaturesSoFar'
  BY <1>1, <1>4, <1>5, <1>13 DEF SignaturesSoFar
<1> QED
  BY <1>1, <1>4, <1>12, <1>14 DEF SimInv, Idle, SlotsSoFar, KeyIsFirst, Answered

LEMMA DecodeNestedSim ==
    ASSUME IInv, SimInv, DecodeNested
    PROVE  SimInv'
<1> DEFINE enc == NestedEncoding(bottle)
<1>1. /\ pc = "format" /\ bottle.format \in {"CborBottle", "JsonBottle"}
      /\ enc = IF bottle.format = "CborBottle" THEN "cbor" ELSE "json"
  BY DEF DecodeNested, NestedEncoding
<1>2. SignaturesError(bottle) = "none"
  BY <1>1, NoneFailingError DEF SimInv, SignaturesSoFar
<1>3. CASE bottle.message.enc = enc /\ bottle.message.key = NoKey
  <2>1. /\ Descend(DecodedFrom(enc, Head(nested)))
        /\ UNCHANGED <<held, box, bottles, signatures, decryption>>
    BY <1>3 DEF DecodeNested
  <2>2. ~Ends(bottle, held)
    BY <1>1, <1>2, <1>3 DEF Ends, LayerError
  <2>3. HoldsBottle(bottle) /\ decryption \in Nat
    BY <1>1, <1>3 DEF HoldsBottle, IInv, TypeOK
  <2>4. decryption' = decryption + (IF bottle.format = "Aes" THEN 1 ELSE 0)
    BY <1>1, <2>1, <2>3
  <2> QED
    BY <1>1, <1>3, <2>1, <2>2, <2>3, <2>4, DescendSim
<1>4. CASE ~(bottle.message.enc = enc /\ bottle.message.key = NoKey)
  <2> DEFINE e == IF enc = "cbor" THEN "Cbor" ELSE "Json"
  <2>1. Fail(e)
    BY <1>4 DEF DecodeNested
  <2>2. LayerError(bottle, held) = e /\ e # "none"
    BY <1>1, <1>2, <1>4 DEF LayerError
  <2> HIDE DEF e
  <2> QED
    BY <1>1, <2>1, <2>2, FailSim
<1> QED
  BY <1>3, <1>4

LEMMA StartSlotsSim ==
    ASSUME IInv, SimInv, StartSlots
    PROVE  SimInv'
<1>1. /\ pc = "format" /\ bottle.format = "Aes" /\ pc' = "slots" /\ turn' = 0
      /\ lastErr' = "NoAppropriateKey"
      /\ UNCHANGED <<held, box, bottle, nested, bottles, signatures, decryption>>
  BY DEF StartSlots
<1>2. bottle.recipients.list \in Seq(Slot)
  BY LayerFields DEF IInv, TypeOK
<1>3. Chain' = Chain /\ Depth' = Depth /\ Failing(bottle)' = Failing(bottle)
  BY <1>1 DEF Chain, Depth, Failing
<1>4. At(Depth)'
  BY <1>1, <1>3 DEF SimInv, At
<1>5. SignaturesSoFar'
  BY <1>1, <1>3 DEF SimInv, SignaturesSoFar
<1>6. /\ Tried(bottle, held)' = Tried(bottle, held)
      /\ Yielding(bottle, held)' = Yielding(bottle, held)
  BY <1>1 DEF Tried, Yielding
<1>7. /\ {i \in Tried(bottle, held) : i <= 0} = {}
      /\ \A i \in Yielding(bottle, held) : i > 0
      /\ 0 <= Len(bottle.recipients.list)
  BY <1>2 DEF Tried, Yielding
<1>8. SlotsSoFar'
  BY <1>1, <1>6, <1>7 DEF SlotsSoFar
<1> QED
  BY <1>1, <1>4, <1>5, <1>8 DEF SimInv, Idle, KeyIsFirst, Answered

LEMMA TrySlotSim ==
    ASSUME IInv, SimInv, TrySlot
    PROVE  SimInv'
<1> DEFINE list  == bottle.recipients.list
           slot  == list[turn + 1]
           tried == Tried(bottle, held)
           slots == Yielding(bottle, held)
<1>1. /\ pc = "slots" /\ bottle.format = "Aes" /\ turn \in Nat
      /\ list \in Seq(Slot) /\ turn < Len(list) /\ turn + 1 \in DOMAIN list
  <2>1. list \in Seq(Slot) /\ turn \in Nat
    BY LayerFields DEF IInv, TypeOK
  <2> QED
    BY <2>1 DEF TrySlot, SimInv, SlotsSoFar
<1>2. /\ UNCHANGED <<held, box, bottle, nested, bottles, signatures, decryption, answer>>
      /\ tried' = tried /\ slots' = slots /\ list' = list
      /\ Chain' = Chain /\ Failing(bottle)' = Failing(bottle)
  BY DEF TrySlot, Tried, Yielding, Chain, Failing
<1>3. /\ tried \in SUBSET Nat /\ slots \in SUBSET tried
      /\ \A i \in slots : i > turn
  BY <1>1 DEF SimInv, SlotsSoFar, Tried, Yielding
<1>4. turn + 1 \in tried <=> slot.recipient \in held
  BY <1>1 DEF Tried
<1>5. turn + 1 \in slots <=>
         slot.recipient \in held /\ Opens(slot.data, slot.recipient) /\ slot.data.whole
  BY <1>1, <1>4 DEF Yielding
<1>6. CASE turn + 1 \in slots
  <2>1. pc' = "unseal" /\ key' = slot.data.holds
    BY <1>5, <1>6 DEF TrySlot, Opens
  <2>2. FirstOf(slots) = turn + 1
    <3>1. slots \in SUBSET Nat /\ \A i \in slots : turn + 1 <= i
      BY <1>1, <1>3
    <3> QED
      BY <1>6, <3>1, FirstOfIs
  <2>3. KeyIsFirst'
    BY <1>1, <1>2, <1>6, <2>1, <2>2 DEF KeyIsFirst
  <2>4. Depth' = Depth
    BY <1>1, <1>2, <2>1 DEF Depth
  <2>5. At(Depth)'
    BY <1>1, <1>2, <2>4 DEF SimInv, At
  <2>6. SignaturesSoFar'
    BY <1>1, <1>2, <2>1, <2>4 DEF SimInv, SignaturesSoFar
  <2> QED
    BY <2>1, <2>3, <2>5, <2>6 DEF SimInv, Idle, SlotsSoFar, Answered
<1>7. CASE turn + 1 \notin slots
  <2>1. pc' = "slots" /\ turn' = turn + 1
    BY <1>1, <1>5, <1>7 DEF TrySlot, Opens
  <2>2. Depth' = Depth
    BY <1>1, <1>2, <2>1 DEF Depth
  <2>3. At(Depth)'
    BY <1>1, <1>2, <2>2 DEF SimInv, At
  <2>4. SignaturesSoFar'
    BY <1>1, <1>2, <2>1, <2>2 DEF SimInv, SignaturesSoFar
  <2>5. \A i \in slots : i > turn + 1
    BY <1>1, <1>3, <1>7
  <2> DEFINE seen(t) == {i \in tried : i <= t}
  <2>6. IF seen(turn) = {} THEN lastErr = "NoAppropriateKey"
        ELSE \E t \in seen(turn) : (\A j \in seen(turn) : j <= t) /\ lastErr = SlotError(list[t])
    BY <1>1 DEF SimInv, SlotsSoFar
  <2>7. IF seen(turn + 1) = {} THEN lastErr' = "NoAppropriateKey"
        ELSE \E t \in seen(turn + 1) :
                (\A j \in seen(turn + 1) : j <= t) /\ lastErr' = SlotError(list[t])
    <3>1. CASE turn + 1 \in tried
      <4>1. turn + 1 \in seen(turn + 1) /\ \A j \in seen(turn + 1) : j <= turn + 1
        BY <3>1, <1>1
      <4>2. lastErr' = SlotError(slot)
        BY <1>4, <1>5, <1>7, <3>1 DEF TrySlot, Opens, SlotError
      <4> QED
        BY <4>1, <4>2
    <3>2. CASE turn + 1 \notin tried
      <4>1. seen(turn + 1) = seen(turn)
        BY <1>1, <1>3, <3>2
      <4>2. lastErr' = lastErr
        BY <1>4, <3>2 DEF TrySlot
      <4> QED
        BY <2>6, <4>1, <4>2
    <3> QED
      BY <3>1, <3>2
  <2>8. SlotsSoFar'
    <3>1. turn + 1 <= Len(list)
      BY <1>1
    <3>2. {i \in tried' : i <= turn'} = seen(turn + 1)
      BY <1>2, <2>1
    <3> QED
      BY <1>1, <1>2, <2>1, <2>5, <2>7, <3>1, <3>2 DEF SlotsSoFar, SlotError
  <2> QED
    BY <2>1, <2>3, <2>4, <2>8 DEF SimInv, Idle, KeyIsFirst, Answered
<1> QED
  BY <1>6, <1>7

LEMMA SlotsExhaustedSim ==
    ASSUME IInv, SimInv, SlotsExhausted
    PROVE  SimInv'
<1> DEFINE list  == bottle.recipients.list
           tried == Tried(bottle, held)
<1>1. /\ pc = "slots" /\ turn = Len(list) /\ Fail(lastErr) /\ bottle.format = "Aes"
      /\ list \in Seq(Slot) /\ lastErr # "none"
  BY LayerFields DEF SlotsExhausted, IInv, TypeOK, SimInv, SlotsSoFar
<1>2. /\ tried \in SUBSET Nat /\ {i \in tried : i <= turn} = tried
      /\ Yielding(bottle, held) = {}
  BY <1>1 DEF SimInv, SlotsSoFar, Tried, Yielding
<1>3. SlotsError(bottle, held) = lastErr
  <2>1. CASE tried = {}
    BY <1>1, <1>2, <2>1 DEF SimInv, SlotsSoFar, SlotsError
  <2>2. CASE tried # {}
    <3>1. PICK t \in tried : (\A j \in tried : j <= t) /\ lastErr = SlotError(list[t])
      BY <1>1, <1>2, <2>2 DEF SimInv, SlotsSoFar
    <3>2. LastOf(tried) = t
      BY <1>2, <3>1, LastOfIs
    <3> QED
      BY <1>2, <2>2, <3>1, <3>2 DEF SlotsError, SlotError
  <2> QED
    BY <2>1, <2>2
<1>4. SignaturesError(bottle) = "none"
  BY <1>1, NoneFailingError DEF SimInv, SignaturesSoFar
<1>5. LayerError(bottle, held) = lastErr
  BY <1>1, <1>3, <1>4 DEF LayerError, SealError
<1> QED
  BY <1>1, <1>5, FailSim

LEMMA UnsealSim ==
    ASSUME IInv, SimInv, Unseal
    PROVE  SimInv'
<1> DEFINE e == UnsealError(bottle, key)
<1>1. pc = "unseal" /\ bottle.format = "Aes"
  BY DEF Unseal, SimInv, KeyIsFirst
<1>2. SignaturesError(bottle) = "none"
  BY <1>1, NoneFailingError DEF SimInv, SignaturesSoFar
<1>3. LayerError(bottle, held) = e
  <2>1. SlotsError(bottle, held) = "none"
    BY <1>1 DEF SimInv, KeyIsFirst, SlotsError
  <2>2. SealError(bottle, held) = e
    BY <1>1, <2>1 DEF SimInv, KeyIsFirst, SealError, UnsealError
  <2> QED
    BY <1>1, <1>2, <2>2 DEF LayerError
<1>4. CASE e = "none"
  <2>1. /\ decryption' = decryption + 1 /\ Descend(Head(nested))
        /\ UNCHANGED <<held, box, bottles, signatures>>
    BY <1>4 DEF Unseal
  <2>2. bottle.message.enc = "cbor"
    BY <1>4 DEF UnsealError
  <2>3. /\ HoldsBottle(bottle)
        /\ DecodedFrom(bottle.message.enc, Head(nested)) = Head(nested)
        /\ ~Ends(bottle, held)
    BY <1>1, <1>3, <1>4, <2>2 DEF HoldsBottle, DecodedFrom, Ends
  <2> QED
    BY <1>1, <2>1, <2>3, DescendSim
<1>5. CASE e # "none"
  <2>1. Fail(e)
    BY <1>5 DEF Unseal
  <2> HIDE DEF e
  <2> QED
    BY <1>1, <1>3, <1>5, <2>1, FailSim
<1> QED
  BY <1>4, <1>5

-----------------------------------------------------------------------------
(* The promise speaks of layers, keys and verdicts in terms of its own.     *)

LEMMA SameVerdict ==
    /\ \A b, keys : Promise!Verdict(b, keys) = Verdict(b, keys)
    /\ Promise!Box = Box /\ Promise!NoBox = NoBox /\ Promise!Pending = Pending
    /\ Promise!PrivateKeys = PrivateKeys
<1>1. \A s, m, d : Promise!VerifyError(s, m, d) = VerifyError(s, m, d)
  BY DEF Promise!VerifyError, VerifyError, Promise!PublicKeys, PublicKeys,
         Promise!VerifySupported, VerifySupported, Promise!SignatureOver, SignatureOver
<1>2. \A S : Promise!FirstOf(S) = FirstOf(S) /\ Promise!LastOf(S) = LastOf(S)
  BY DEF Promise!FirstOf, FirstOf, Promise!LastOf, LastOf
<1>3. \A l : Promise!Failing(l) = Failing(l)
  BY <1>1 DEF Promise!Failing, Failing, Promise!Verifies, Verifies
<1>4. \A l : Promise!SignaturesError(l) = SignaturesError(l)
  BY <1>1, <1>2, <1>3 DEF Promise!SignaturesError, SignaturesError
<1>5. \A e, k : Promise!DecryptError(e, k) = DecryptError(e, k)
  BY DEF Promise!DecryptError, DecryptError, Promise!OaepError, OaepError,
         Promise!KemError, KemError, Promise!HybridError, HybridError,
         Promise!EcdhError, EcdhError, Promise!TailError, TailError,
         Promise!CurveOf, CurveOf, Promise!CiphertextOf, CiphertextOf,
         Promise!HybridKinds, HybridKinds, Promise!KemKinds, KemKinds
<1>6. \A l, keys : /\ Promise!Tried(l, keys) = Tried(l, keys)
                   /\ Promise!Yielding(l, keys) = Yielding(l, keys)
  BY <1>5 DEF Promise!Tried, Tried, Promise!Yielding, Yielding, Promise!Opens, Opens
<1>7. \A l, keys : Promise!SlotsError(l, keys) = SlotsError(l, keys)
  BY <1>2, <1>5, <1>6 DEF Promise!SlotsError, SlotsError, Promise!Opens, Opens
<1>8. \A l, keys : Promise!SealError(l, keys) = SealError(l, keys)
  BY <1>2, <1>6, <1>7 DEF Promise!SealError, SealError, Promise!NoKey, NoKey
<1>9. \A l, keys : Promise!LayerError(l, keys) = LayerError(l, keys)
  BY <1>4, <1>8 DEF Promise!LayerError, LayerError, Promise!NoKey, NoKey
<1>10. \A l, keys : Promise!Ends(l, keys) = Ends(l, keys)
  BY <1>9 DEF Promise!Ends, Ends
<1>11. \A enc, b : Promise!DecodedFrom(enc, b) = DecodedFrom(enc, b)
  BY DEF Promise!DecodedFrom, DecodedFrom, Promise!JsonTrip, JsonTrip,
         Promise!JsonKind, JsonKind, Promise!JsonOption, JsonOption, Promise!None, None
<1>12. \A b : Promise!Decoded(b) = Decoded(b)
  BY <1>11 DEF Promise!Decoded, Decoded
<1>13. \A L : Promise!Joined(L) = Joined(L)
  BY Zenon DEF Promise!Joined, Joined
<1>14. \A L, n : Promise!SealedLayers(L, n) = SealedLayers(L, n)
  BY DEF Promise!SealedLayers, SealedLayers
<1>15. \A S : Promise!Cardinality(S) = Cardinality(S)
  BY Zenon DEF Promise!Cardinality, Cardinality
<1>16. \A e : Promise!Failure(e) = Failure(e)
  BY DEF Promise!Failure, Failure, Promise!Plain, Plain, Promise!NoKey, NoKey
<1>17. \A L, n, keys : Promise!AnswerAt(L, n, keys) = AnswerAt(L, n, keys)
  BY <1>9, <1>13, <1>14, <1>15, <1>16 DEF Promise!AnswerAt, AnswerAt
<1>18. \A b, keys : Promise!Verdict(b, keys) = Verdict(b, keys)
  BY <1>2, <1>10, <1>12, <1>17 DEF Promise!Verdict, Verdict
<1>19. Promise!Layer = Layer
  BY DEF Promise!Layer, Layer, Promise!Header, Header, Promise!AllHeaderKinds,
         AllHeaderKinds, Promise!Message, Message, Promise!Encodings, Encodings,
         Promise!Formats, Formats, Promise!OptionOf, OptionOf, Promise!Slot, Slot,
         Promise!Signature, Signature, Promise!SignatureData, SignatureData,
         Promise!Envelope, Envelope, Promise!Versions, Versions,
         Promise!Cuts, Cuts, Promise!Ephemerals, Ephemerals, Promise!Ciphertexts, Ciphertexts
<1>20. Promise!Box = Box
  BY <1>19 DEF Promise!Box, Box, Promise!Holds, Holds, Promise!HoldsBottle, HoldsBottle
<1>21. Promise!NoBox = NoBox /\ Promise!Pending = Pending
  BY <1>16 DEF Promise!NoBox, NoBox, Promise!Pending, Pending, Promise!Plain, Plain,
               Promise!NoKey, NoKey, Promise!Fresh, Fresh, Promise!NoHeader, NoHeader,
               Promise!None, None
<1>22. Promise!PrivateKeys = PrivateKeys
  BY DEF Promise!PrivateKeys, PrivateKeys, Promise!PublicKeys, PublicKeys
<1> QED
  BY <1>18, <1>20, <1>21, <1>22

-----------------------------------------------------------------------------
(* The steps of the call: nothing is seen of them until it returns.         *)

\* The call is under way, and nothing has been returned yet.
Handed ==
    /\ pc # "idle" => box # NoBox
    /\ pc # "done" => answer = Pending

LEMMA SimStep ==
    ASSUME IInv, SimInv, [Next]_vars
    PROVE  SimInv'
<1>1. CASE Call
  <2>1. PICK b \in Box : pc = "idle" /\ Open(b)
    BY <1>1, InboxAssumption DEF Call
  <2> HIDE <1>1
  <2> QED
    BY <2>1, OpenSim
<1>2. CASE PushLayer
  BY <1>2, PushLayerSim
<1>3. CASE VerifySignature
  BY <1>3, VerifySignatureSim
<1>4. CASE SignaturesVerified
  BY <1>4, SignaturesVerifiedSim
<1>5. CASE ReturnPayload
  BY <1>5, ReturnPayloadSim
<1>6. CASE DecodeNested
  BY <1>6, DecodeNestedSim
<1>7. CASE StartSlots
  BY <1>7, StartSlotsSim
<1>8. CASE TrySlot
  BY <1>8, TrySlotSim
<1>9. CASE SlotsExhausted
  BY <1>9, SlotsExhaustedSim
<1>10. CASE Unseal
  BY <1>10, UnsealSim
<1>11. CASE UNCHANGED vars
  <2>1. Chain' = Chain /\ Depth' = Depth
    BY <1>11 DEF vars, Chain, Depth
  <2>2. pc \notin {"idle", "done"} => At(Depth)'
    BY <1>11, <2>1 DEF vars, SimInv, At
  <2>3. Idle' /\ Answered'
    BY <1>11 DEF vars, SimInv, Idle, Answered
  <2>4. SignaturesSoFar'
    BY <1>11, <2>1 DEF vars, SimInv, SignaturesSoFar, Failing
  <2>5. SlotsSoFar' /\ KeyIsFirst'
    BY <1>11 DEF vars, SimInv, SlotsSoFar, KeyIsFirst, Tried, Yielding
  <2> QED
    BY <1>11, <2>2, <2>3, <2>4, <2>5 DEF vars, SimInv
<1> QED
  BY <1>1, <1>2, <1>3, <1>4, <1>5, <1>6, <1>7, <1>8, <1>9, <1>10, <1>11 DEF Next, Step

LEMMA Moves ==
    ASSUME Step
    PROVE  /\ pc \notin {"idle", "done"} /\ pc' # "idle"
           /\ UNCHANGED <<held, box>>
           /\ pc' # "done" => answer' = answer
<1>1. CASE PushLayer \/ SignaturesVerified \/ StartSlots \/ TrySlot
  BY <1>1 DEF PushLayer, SignaturesVerified, StartSlots, TrySlot
<1>2. CASE VerifySignature
  BY <1>2 DEF VerifySignature, Fail, Return
<1>3. CASE ReturnPayload \/ SlotsExhausted
  BY <1>3 DEF ReturnPayload, SlotsExhausted, Fail, Return
<1>4. CASE DecodeNested
  BY <1>4 DEF DecodeNested, Descend, Fail, Return
<1>5. CASE Unseal
  BY <1>5 DEF Unseal, Descend, Fail, Return
<1> QED
  BY <1>1, <1>2, <1>3, <1>4, <1>5 DEF Step

\* A step of the loops is no step of the promise, or the one that answers.
LEMMA StepKeepsPromise ==
    ASSUME IInv, SimInv, Handed, [Next]_vars
    PROVE  Handed' /\ [Promise!PromiseNext]_<<held, box, answer>>
<1>1. CASE Call
  <2>1. PICK b \in Inbox : pc = "idle" /\ Open(b)
    BY <1>1 DEF Call
  <2>2. /\ box = NoBox /\ box' = b /\ b \in Box /\ b # NoBox
        /\ UNCHANGED <<held, answer>> /\ pc' = "layer" /\ answer = Pending
    BY <2>1, InboxAssumption DEF SimInv, Idle, Handed, Open
  <2>3. Promise!Hand
    BY <2>2, SameVerdict DEF Promise!Hand
  <2> QED
    BY <2>2, <2>3 DEF Handed, Promise!PromiseNext
<1>2. CASE Step
  <2>1. /\ pc \notin {"idle", "done"} /\ pc' # "idle" /\ UNCHANGED <<held, box>>
        /\ pc' # "done" => answer' = answer
        /\ box # NoBox /\ answer = Pending
    BY <1>2, Moves DEF Handed
  <2>2. pc' = "done" => answer' = Verdict(box, held)
    BY <2>1, SimStep DEF SimInv, Answered
  <2>3. pc' = "done" => Promise!Answer
    BY <2>1, <2>2, SameVerdict DEF Promise!Answer
  <2> QED
    BY <2>1, <2>3 DEF Handed, Promise!PromiseNext
<1>3. CASE UNCHANGED vars
  BY <1>3 DEF vars, Handed
<1> QED
  BY <1>1, <1>2, <1>3 DEF Next

\* Opener::open keeps its promise: whatever the bottle and the keychain, what
\* its loops come to is the verdict, the payload, the report or the error.
THEOREM Refinement == Spec => KeepsPromise
<1>1. Init => Promise!PromiseInit /\ SimInv /\ Handed
  BY InitSim, SameVerdict DEF Init, Promise!PromiseInit, Handed
<1>2. IInv /\ SimInv /\ Handed /\ [Next]_vars
         => SimInv' /\ Handed' /\ [Promise!PromiseNext]_<<held, box, answer>>
  BY SimStep, StepKeepsPromise
<1> QED
  BY <1>1, <1>2, Invariance, PTL DEF Spec, KeepsPromise, Promise!PromiseSpec
=============================================================================
