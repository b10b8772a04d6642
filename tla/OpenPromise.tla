---------------------------- MODULE OpenPromise -----------------------------
(***************************************************************************)
(* What Opener::open promises its caller, with none of its loops: it is    *)
(* handed a bottle, and one step gives the verdict of OpenVerdict.         *)
(***************************************************************************)
EXTENDS OpenVerdict

VARIABLES
    held,       \* the private keys of the opener's keychain
    box,        \* the bottle handed over and the layers inside its message
    answer      \* what the call returned

-----------------------------------------------------------------------------

PromiseInit ==
    /\ held \in SUBSET PrivateKeys
    /\ box = NoBox
    /\ answer = Pending

\* Opener::open is called with a bottle, whoever made it.
Hand ==
    /\ box = NoBox
    /\ box' \in Box
    /\ UNCHANGED <<held, answer>>

\* It returns, once.
Answer ==
    /\ box # NoBox
    /\ answer = Pending
    /\ answer' = Verdict(box, held)
    /\ UNCHANGED <<held, box>>

PromiseNext == Hand \/ Answer

\* That the answer does come is stated of the steps that compute it.
PromiseSpec == PromiseInit /\ [][PromiseNext]_<<held, box, answer>>
=============================================================================
