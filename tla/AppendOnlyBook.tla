--------------------------- MODULE AppendOnlyBook ---------------------------
(***************************************************************************)
(* What the inventory book promises (docs/architecture/phase_044, "append- *)
(* only absoluto", "secuencia transaccional"): each partition is a         *)
(* sequence of source events, and all that ever happens to it is that a    *)
(* transaction adds events at its end.                                     *)
(***************************************************************************)
EXTENDS Sequences, Naturals

CONSTANTS Partitions, Events

VARIABLE book  \* the events booked in each partition, first to last

TypeOK == book \in [Partitions -> Seq(Events)]

Init == book = [p \in Partitions |-> <<>>]

Extends(new, old) ==
  /\ Len(old) <= Len(new)
  /\ \A n \in 1..Len(old) : new[n] = old[n]

\* One commit: a batch may add to several partitions, and several events each.
BookEvents ==
  /\ TypeOK'
  /\ \A p \in Partitions : Extends(book'[p], book[p])

Spec == Init /\ [][BookEvents]_book
=============================================================================
