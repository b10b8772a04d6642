------------------------------- MODULE Grants -------------------------------
(***************************************************************************)
(* What an IDCard promises to be: a table that says of each key which      *)
(* purposes it serves and until when, and answers which keys serve a       *)
(* purpose at a time.  Keys are named by PKIX byte strings; the answer is  *)
(* made of keys, so that two encodings of one key are one answer.          *)
(***************************************************************************)
EXTENDS BottleKeys

CONSTANTS
    Canonical,      \* the encoding that each key is marshalled to
    Purposes,       \* names of purposes
    SignPurpose,    \* "sign" among them
    Times           \* points in time, in seconds

VARIABLES
    grants,     \* what each key is good for
    answer      \* the last question and its answer, if one was asked

\* Option<T>: nothing, or one value.
Absent     == <<>>
Present(x) == <<x>>
Option(S)  == {Absent} \cup {Present(x) : x \in S}

\* The keys that a private key is stored and presented under.
OwnKeys == {k \in PrivateKeys : Canonical[k] = k}

Expired(until, t) == until # Absent /\ until[1] <= t

NoGrant == [listed |-> FALSE, purposes |-> {}, until |-> Absent]

-----------------------------------------------------------------------------

GrantsInit ==
    /\ \E k \in OwnKeys :
          grants = [x \in Keys |->
                       IF x = k THEN [listed |-> TRUE, purposes |-> {SignPurpose},
                                      until |-> Absent]
                       ELSE NoGrant]
    /\ answer = Absent

\* A key gets exactly the purposes of S; how long it is good for is kept.
Assign(k, S) ==
    /\ grants' = [grants EXCEPT ![k] = [listed |-> TRUE, purposes |-> S, until |-> @.until]]
    /\ UNCHANGED answer

\* A key gets the purposes of S besides those it has.
Widen(k, S) ==
    /\ grants[k].listed
    /\ grants' = [grants EXCEPT ![k].purposes = @ \cup S]
    /\ UNCHANGED answer

\* A key is good until the time given, or for ever.
Limit(k, until) ==
    /\ grants[k].listed
    /\ grants' = [grants EXCEPT ![k].until = until]
    /\ UNCHANGED answer

FitFor(p, t) ==
    {Canonical[k] : k \in {x \in PublicKeys : /\ p \in grants[x].purposes
                                              /\ ~Expired(grants[x].until, t)}}

Ask(p, t) ==
    /\ answer' = Present([purpose |-> p, time |-> t, keys |-> FitFor(p, t)])
    /\ UNCHANGED grants

GrantsNext ==
    \/ \E k \in Keys, S \in SUBSET Purposes : Assign(k, S) \/ Widen(k, S)
    \/ \E k \in Keys, until \in Option(Times) : Limit(k, until)
    \/ \E p \in Purposes, t \in Times : Ask(p, t)

GrantsSpec == GrantsInit /\ [][GrantsNext]_<<grants, answer>>
=============================================================================
