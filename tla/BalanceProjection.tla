------------------------- MODULE BalanceProjection -------------------------
(***************************************************************************)
(* What the balance projection promises (docs/architecture/phase_045):     *)
(* the balances are derived from the ledger alone, by an ordered replay    *)
(* followed by an atomic swap, and none of them is negative.               *)
(*                                                                         *)
(* A rebuild replaces together the balances of its targets, at least all   *)
(* positions of its scope that had movements when it began, by the stock   *)
(* of one moment of the ledger since it began.  That need not be the       *)
(* present moment, nor later than that of the balances it replaces.        *)
(***************************************************************************)
EXTENDS StockReplay

CONSTANTS
  Jobs,    \* rebuilds
  ScopeOf  \* the positions a rebuild is asked for

VARIABLES
  book,     \* the ledger
  balance,  \* the active balance of each position, None without a row
  begun     \* where the ledger was when a rebuild began, None out of a rebuild

vars == <<book, balance, begun>>

Init ==
  /\ book = [q \in Partitions |-> <<>>]
  /\ balance = [p \in Positions |-> None]
  /\ begun = [j \in Jobs |-> None]

Post ==
  /\ book' \in Books
  /\ Grows(book, book')
  /\ UNCHANGED <<balance, begun>>

Begin(j) ==
  /\ begun[j] = None
  /\ begun' = [begun EXCEPT ![j] = Whole(book)]
  /\ UNCHANGED <<book, balance>>

Abandon(j) ==
  /\ begun' = [begun EXCEPT ![j] = None]
  /\ UNCHANGED <<book, balance>>

Rebuild(j) ==
  /\ begun[j] # None
  /\ \E replayed \in Cuts(book), targets \in SUBSET ScopeOf[j] :
       LET from == Cut(book, replayed)
       IN  /\ NotBefore(begun[j], replayed)
           /\ Touched(Cut(book, begun[j])) \cap ScopeOf[j] \subseteq targets
           /\ targets \subseteq Touched(from)
           /\ \A p \in targets : ~Negative(from, p)
           /\ balance' = [p \in Positions |->
                            IF p \in targets THEN Stock(from, p) ELSE balance[p]]
  /\ begun' = [begun EXCEPT ![j] = None]
  /\ UNCHANGED book

Next == Post \/ \E j \in Jobs : Begin(j) \/ Abandon(j) \/ Rebuild(j)

Spec == Init /\ [][Next]_vars
=============================================================================
