-------------------------- MODULE MCBalanceRebuild --------------------------
(***************************************************************************)
(* Instances of BalanceRebuild for TLC.                                    *)
(***************************************************************************)
EXTENDS BalanceRebuild, TLC

CONSTANTS a, b, u, v, j1, j2, j3, q1, q2

\* A receipt into a, a transfer from a to b, a receipt into b in another unit.
Receipt == [source |-> None, destination |-> a, quantity |-> 1, unit |-> u]
Transfer == [source |-> a, destination |-> b, quantity |-> 1, unit |-> u]
OtherUnit == [source |-> None, destination |-> b, quantity |-> 1, unit |-> v]

AllLines == {Receipt, Transfer, OtherUnit}
OneUnit == {Receipt, Transfer}

FullRebuilds == [j \in Jobs |-> Positions]

\* One job is for the warehouse of position a alone.
OnePartial == [j \in Jobs |-> IF j = j1 THEN {a} ELSE Positions]

\* Partitions, and the jobs of full scope, are interchangeable.
Interchangeable == Permutations({q1, q2}) \cup Permutations({j2, j3})
=============================================================================
