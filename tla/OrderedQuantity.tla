-------------------------- MODULE OrderedQuantity --------------------------
(***************************************************************************)
(* What the allocations of the arrival notices promise to the purchase     *)
(* orders: each notice announces some quantity of each order line, and it  *)
(* announces more only while the sum over all notices stays within what    *)
(* was ordered.                                                            *)
(***************************************************************************)
EXTENDS Integers, FiniteSets

CONSTANTS
  Notices,
  OrderLines,
  Ordered,     \* Ordered[p]: the quantity of order line p
  Quantities   \* the quantities that are announced

VARIABLE announced  \* announced[n][p]: what notice n announces of line p

\* The units of order line p that the notices other than n announce.
OthersUnits(n, p) ==
  UNION {{m} \X (1 .. announced[m][p]) : m \in Notices \ {n}}

Init == announced = [n \in Notices |-> [p \in OrderLines |-> 0]]

Announce(n, p, q) ==
  /\ Cardinality(OthersUnits(n, p)) + q <= Ordered[p]
  /\ announced' = [announced EXCEPT ![n][p] = q]

\* Quantities come back, those of several notices at once.
Withdraw ==
  /\ announced' \in [Notices -> [OrderLines -> Nat]]
  /\ \A n \in Notices, p \in OrderLines : announced'[n][p] \in {0, announced[n][p]}

Next ==
  \/ \E n \in Notices, p \in OrderLines, q \in Quantities : Announce(n, p, q)
  \/ Withdraw

Spec == Init /\ [][Next]_announced

-----------------------------------------------------------------------------
\* The units of order line p that notices announce.
UnitsOf(p) == UNION {{m} \X (1 .. announced[m][p]) : m \in Notices}

\* What all notices announce of an order line together is within the order.
WithinOrder == \A p \in OrderLines : Cardinality(UnitsOf(p)) <= Ordered[p]
=============================================================================
