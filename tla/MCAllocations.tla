---------------------------- MODULE MCAllocations ---------------------------
(* Instances of ArrivalAllocations for TLC. *)
EXTENDS ArrivalAllocations, TLC

CONSTANTS n1, n2, steel

\* All of one age, which leaves the order to chance; or those of n1 the younger.
OneAge == [l \in Lines |-> 0]
YoungerN1 == [l \in Lines |-> IF l[1] = n1 THEN 2 ELSE 1]
MCOrdered == [p \in OrderLines |-> 2]
Symmetry == Permutations(Notices) \cup Permutations(Workers)
=============================================================================
