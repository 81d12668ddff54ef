---------------------------- MODULE StockReplay ----------------------------
(***************************************************************************)
(* What the movements of the ledger say about the stock of a position: the *)
(* sum that backend/.../balances/application/services/                     *)
(* rebuild_application_service.py computes by replay.                      *)
(*                                                                         *)
(* A book gives each partition its ledger numbers in order.  Under each    *)
(* number is the movement posted with it, or None for a number whose       *)
(* posting failed.  A movement is represented by one line.                 *)
(***************************************************************************)
EXTENDS Integers, Sequences, FiniteSetsExt

CONSTANTS
  Positions,   \* inventory positions of one organization
  Partitions,  \* its ledger partitions
  Units,       \* base units
  Quantities,  \* quantities of a line
  None         \* the null value

\* A null source or destination is a boundary of the warehouse, like a supplier.
Line == [source: Positions \cup {None}, destination: Positions \cup {None},
         quantity: Quantities, unit: Units]

ASSUME FiniteAssumption == IsFiniteSet(Positions) /\ IsFiniteSet(Partitions)

ASSUME QuantityAssumption == Quantities \subseteq Nat \ {0}

ASSUME NullAssumption ==
  None \notin Positions \cup Line \cup Int /\ None \notin [Partitions -> Nat]

Books == [Partitions -> Seq(Line \cup {None})]

Numbers(book) == UNION {{q} \X (1..Len(book[q])) : q \in Partitions}

At(book, i) == book[i[1]][i[2]]

Named(line) == {line.source, line.destination} \ {None}

\* The numbers whose movement names position p.
Mentions(book, p) ==
  {i \in Numbers(book) : At(book, i) # None /\ p \in Named(At(book, i))}

Touched(book) == {p \in Positions : Mentions(book, p) # {}}

Effect(line, p) ==
  (IF line.destination = p THEN line.quantity ELSE 0)
    - (IF line.source = p THEN line.quantity ELSE 0)

\* The stock of p after a replay of the whole book from zero.
Stock(book, p) ==
  MapThenSumSet(LAMBDA i : Effect(At(book, i), p), Mentions(book, p))

\* The formula service adds up the balances of the rows it is given: each metric
\* those of the positions whose states it asks for.
Total(balances, rows) == MapThenSumSet(LAMBDA p : balances[p], rows)

\* The stock of every position after a replay of the whole book.
Stocks(book) == [p \in Positions |-> Stock(book, p)]

\* validate_staging refuses a balance below zero.
Negative(book, p) == Stock(book, p) < 0

\* One book is another at a later moment.
Grows(book, later) ==
  \A q \in Partitions :
    /\ Len(book[q]) <= Len(later[q])
    /\ \A n \in 1..Len(book[q]) : later[q][n] = book[q][n]

\* How far a reader at some earlier moment saw each partition of the book, and
\* the book it saw.
Cuts(book) ==
  {cut \in [Partitions -> UNION {0..Len(book[q]) : q \in Partitions}] :
     \A q \in Partitions : cut[q] <= Len(book[q])}

Cut(book, cut) == [q \in Partitions |-> SubSeq(book[q], 1, cut[q])]

Whole(book) == [q \in Partitions |-> Len(book[q])]

NotBefore(cut, later) == \A q \in Partitions : cut[q] <= later[q]
=============================================================================
