----------------------------- MODULE MCHaWrite -----------------------------
(* Instances of HaWrite: two backends that are each other's second master. *)
EXTENDS HaWrite, TLC

CONSTANTS p1, p2, k1

\* Both requests are written to the same two masters.
OneKey == k1 :> (1 :> p1 @@ 2 :> p2)

Empty == [p \in Peers |-> [k \in Keys |-> 0]]

\* No definition tells the requests apart, and the properties are safety.
Symmetry == Permutations(Requests)
=============================================================================
