------------------------------ MODULE MCGroup -------------------------------
(***************************************************************************)
(* Group for TLC: the group's key, a manager's key in two encodings and a  *)
(* key that cannot sign; cards with different grants, one of them made in  *)
(* the name of the group by its manager.                                   *)
(***************************************************************************)
EXTENDS Group

MCKeys == {"group", "manager", "manager_alias", "kem"}

MCAlgorithm == [k \in MCKeys |-> IF k = "kem" THEN "MlKem" ELSE "Ed25519"]
MCCanonical == [k \in MCKeys |-> IF k = "manager_alias" THEN "manager" ELSE k]

MCTimes == 0 .. 1

Listing(k, until) == [key |-> k, expires |-> until, purposes |-> OnlySign]

With(c, s) == [c EXCEPT !.subkeys = Append(@, s)]

Own == NewCard("group")

\* The group's first and second card, the manager's own, and one that the
\* manager made in the name of the group.
MCCards ==
    {With(With(Own, Listing("manager_alias", Present(1))), Listing("kem", Absent)),
     With(Own, Listing("manager", Present(0))),
     NewCard("manager"),
     [NewCard("manager") EXCEPT !.self_key = "group"]}
=============================================================================
