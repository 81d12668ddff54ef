--------------------------- MODULE BalanceRebuild ---------------------------
(***************************************************************************)
(* Rebuilds of the inventory balances                                      *)
(* (backend/app/modules/logistics/inventory/balances: router.py            *)
(* trigger_balance_rebuild, rebuild_application_service.py) while the      *)
(* ledger goes on growing and other rebuilds run.                          *)
(*                                                                         *)
(* Each rebuild is one request and one database transaction at READ        *)
(* COMMITTED: every statement sees what is committed when it starts.       *)
(* `tx[j]' is what rebuild j has read and written and not yet committed.   *)
(* Committed are the ledger and the active rows of the projection.         *)
(*                                                                         *)
(* Numbers of a partition only ever grow here: a chain that a late posting *)
(* forked (see Ledger), and the HASH_MISMATCH that its verification        *)
(* reports, are left out.                                                  *)
(***************************************************************************)
EXTENDS StockReplay

CONSTANTS
  Jobs,        \* requests for a rebuild
  ScopeOf,     \* the positions of a job's warehouse and product, or all
  Lines,       \* the lines that get posted
  MaxNumbers   \* bound on the ledger numbers of all partitions together

\* A balance row is identified by the job that staged it and its position.  Its
\* quantity and its last sequence are those of the ledger it was replayed from.
Row == [job: Jobs, from: Books]

ASSUME RowAssumption == None \notin Row

ASSUME ScopeAssumption == ScopeOf \in [Jobs -> SUBSET Positions]

ASSUME LinesAssumption == Lines \subseteq Line

VARIABLES
  book,       \* inventory_movements by partition and ledger number
  positions,  \* inventory_positions
  active,     \* the active row of each position (uq_ipb_active_position: one)
  answer,     \* the status each job's client was told
  tx          \* the transaction of each job

vars == <<book, positions, active, answer, tx>>

Transaction ==
  [pc: {"idle", "verify", "load", "list", "replay", "sweep", "swap"},
   since: [Partitions -> Nat],     \* where the ledger was at Start (history)
   unverified: SUBSET Partitions,
   targets: SUBSET Positions,      \* positions read; then, with a staging row
   from: Books,                    \* the ledger replayed into the staging rows
   doomed: SUBSET (Positions \X Jobs),  \* active rows the DELETE has picked
   gone: SUBSET Positions,         \* active rows it has deleted
   lit: SUBSET Positions]          \* staging rows made active

TypeOK ==
  /\ book \in Books
  /\ positions \subseteq Positions
  /\ active \in [Positions -> Row \cup {None}]
  /\ answer \in [Jobs -> {"none", "COMPLETED", "FAILED", "SWAPPING"}]
  /\ tx \in [Jobs -> Transaction]

EmptyBook == [q \in Partitions |-> <<>>]

Idle ==
  [pc |-> "idle", since |-> Whole(EmptyBook), unverified |-> {}, targets |-> {}, from |-> EmptyBook,
   doomed |-> {}, gone |-> {}, lit |-> {}]

-----------------------------------------------------------------------------
(* The ledger *)

Used == Cardinality(Numbers(book))

\* A job of the ledger resolves a position for the first time.
Resolve(p) ==
  /\ p \notin positions
  /\ positions' = positions \cup {p}
  /\ UNCHANGED <<book, active, answer, tx>>

\* A posting commits, of a line whose positions are there; it takes the next
\* number of its partition.
Post(q, line) ==
  /\ Used < MaxNumbers
  /\ Named(line) \subseteq positions
  /\ book' = [book EXCEPT ![q] = Append(@, line)]
  /\ UNCHANGED <<positions, active, answer, tx>>

\* A job swallowed the failure of one posting and made the next: the number of
\* the failed one stays empty.
PostAfterFailure(q, line) ==
  /\ Used + 1 < MaxNumbers
  /\ Named(line) \subseteq positions
  /\ book' = [book EXCEPT ![q] = @ \o <<None, line>>]
  /\ UNCHANGED <<positions, active, answer, tx>>

-----------------------------------------------------------------------------
(* A rebuild, statement by statement *)

\* Wrong variant: the route does not roll back, the session keeps its locks.
FailHolding(j, status) ==
  /\ tx' = [tx EXCEPT ![j].pc = "idle"]
  /\ answer' = [answer EXCEPT ![j] = status]
  /\ UNCHANGED <<book, positions, active>>

\* execute_rebuild_from_ledger raises; the route rolls the session back and
\* answers with the job's last status.  (Its second rollback_rebuild finds no
\* job: the row went with the transaction.)
Fail(j, status) ==
  /\ tx' = [tx EXCEPT ![j] = Idle]
  /\ answer' = [answer EXCEPT ![j] = status]
  /\ UNCHANGED <<book, positions, active>>

\* create_rebuild_job.
Start(j) ==
  /\ tx[j].pc = "idle"
  /\ answer[j] = "none"
  /\ tx' = [tx EXCEPT ![j] = [Idle EXCEPT !.pc = "verify",
                                          !.since = Whole(book),
                                          !.unverified = Partitions]]
  /\ UNCHANGED <<book, positions, active, answer>>

\* verify_partition: a number is missing between two movements.
HasGap(numbers) ==
  \E n \in DOMAIN numbers :
    /\ numbers[n] = None
    /\ \E m \in 1..(n - 1) : numbers[m] # None
    /\ \E m \in (n + 1)..Len(numbers) : numbers[m] # None

\* verify_ledger_integrity reads one partition after the other.
Verify(j) ==
  /\ tx[j].pc = "verify"
  /\ \E q \in tx[j].unverified :
       IF HasGap(book[q])
       THEN Fail(j, "FAILED")
       ELSE /\ tx' = [tx EXCEPT
                 ![j].unverified = @ \ {q},
                 ![j].pc = IF tx[j].unverified = {q} THEN "load" ELSE "verify"]
            /\ UNCHANGED <<book, positions, active, answer>>

\* Wrong variant: a position that has a balance keeps it.
LoadUnbalanced(j) ==
  /\ tx[j].pc = "load"
  /\ tx' = [tx EXCEPT ![j].pc = "list",
                      ![j].targets = {p \in positions \cap ScopeOf[j] : active[p] = None}]
  /\ UNCHANGED <<book, positions, active, answer>>

\* The positions of the job's warehouse and product.
Load(j) ==
  /\ tx[j].pc = "load"
  /\ tx' = [tx EXCEPT ![j].pc = "list", ![j].targets = positions \cap ScopeOf[j]]
  /\ UNCHANGED <<book, positions, active, answer>>

\* Two lines that name one position disagree on its base unit.
UnitConflict(b) ==
  \E p \in Positions : \E i, k \in Mentions(b, p) : At(b, i).unit # At(b, k).unit

\* The lines are read.  Those of the loaded positions that some line names get
\* a staging row; without any the job is done.
List(j) ==
  LET targets == Touched(book) \cap tx[j].targets
  IN  /\ tx[j].pc = "list"
      /\ \/ /\ UnitConflict(book)
            /\ Fail(j, "FAILED")
         \/ /\ ~UnitConflict(book)
            /\ targets = {}
            /\ Fail(j, "COMPLETED")
         \/ /\ ~UnitConflict(book)
            /\ targets # {}
            /\ tx' = [tx EXCEPT ![j].pc = "replay", ![j].targets = targets]
            /\ UNCHANGED <<book, positions, active, answer>>

\* validate_staging.
SomeNegative(b, targets) == \E p \in targets : Negative(b, p)

\* A second read of the ledger, replayed into the staging rows from zero.
Replay(j) ==
  /\ tx[j].pc = "replay"
  /\ IF SomeNegative(book, tx[j].targets)
     THEN Fail(j, "FAILED")
     ELSE /\ tx' = [tx EXCEPT ![j].pc = "sweep", ![j].from = book]
          /\ UNCHANGED <<book, positions, active, answer>>

\* The DELETE of execute_atomic_swap picks the rows that are active now ...
Sweep(j) ==
  /\ tx[j].pc = "sweep"
  /\ tx' = [tx EXCEPT
       ![j].pc = "swap",
       ![j].doomed = {<<p, active[p].job>> :
                        p \in {p \in tx[j].targets : active[p] # None}}]
  /\ UNCHANGED <<book, positions, active, answer>>

\* Wrong variant: no unique index, so nobody waits for an activation.
HoldersOfDeletes(p, j) ==
  {v \in Jobs \ {j} : active[p] # None /\ p \in tx[v].gone}

\* The rebuilds whose uncommitted DELETE or activation of p another one that
\* gets to p has to wait for.
Holders(p, j) ==
  {v \in Jobs \ {j} :
     p \in tx[v].lit \/ (active[p] # None /\ p \in tx[v].gone)}

\* ... and deletes them one by one.  One that another rebuild deleted and
\* committed meanwhile is skipped.
DeleteRow(j) ==
  /\ tx[j].pc = "swap"
  /\ \E d \in tx[j].doomed :
       /\ active[d[1]] # None /\ active[d[1]].job = d[2] => Holders(d[1], j) = {}
       /\ tx' = [tx EXCEPT
            ![j].doomed = @ \ {d},
            ![j].gone = IF active[d[1]] # None /\ active[d[1]].job = d[2]
                        THEN @ \cup {d[1]} ELSE @]
  /\ UNCHANGED <<book, positions, active, answer>>

\* Then the staging rows are made active.  The partial unique index makes an
\* activation wait for the others' uncommitted rows, and fail on a row that
\* another rebuild activated after this one's DELETE had started.
ActivateRow(j) ==
  /\ tx[j].pc = "swap"
  /\ tx[j].doomed = {}
  /\ \E p \in tx[j].targets \ tx[j].lit :
       /\ Holders(p, j) = {}
       /\ IF active[p] # None /\ p \notin tx[j].gone
          THEN Fail(j, "SWAPPING")
          ELSE /\ tx' = [tx EXCEPT ![j].lit = @ \cup {p}]
               /\ UNCHANGED <<book, positions, active, answer>>

\* Wrong variant: a commit between the DELETE and the activation.
HalfSwapped(j) == tx[j].doomed = {}

Swapped(j) == tx[j].doomed = {} /\ tx[j].lit = tx[j].targets

Commit(j) ==
  /\ tx[j].pc = "swap"
  /\ Swapped(j)
  /\ active' = [p \in Positions |->
                  IF p \in tx[j].lit
                  THEN [job |-> j, from |-> tx[j].from]
                  ELSE IF p \in tx[j].gone THEN None
                  ELSE active[p]]
  /\ answer' = [answer EXCEPT ![j] = "COMPLETED"]
  /\ tx' = [tx EXCEPT ![j] = Idle]
  /\ UNCHANGED <<book, positions>>

\* The rebuilds that j may be waiting for, in the order its statement takes.
WaitsFor(j) ==
  IF tx[j].pc # "swap" THEN {}
  ELSE IF tx[j].doomed # {}
  THEN UNION {Holders(d[1], j) : d \in tx[j].doomed}
  ELSE UNION {Holders(p, j) : p \in tx[j].targets \ tx[j].lit}

\* PostgreSQL cancels a rebuild of a cycle of waits.
DeadlockVictim(j) ==
  /\ tx[j].pc = "swap"
  /\ \E S \in SUBSET Jobs :
       /\ j \in S
       /\ \A v \in S : WaitsFor(v) \cap S # {}
       /\ \A v \in S : \E u \in S : v \in WaitsFor(u)
  /\ Fail(j, "SWAPPING")

-----------------------------------------------------------------------------
Init ==
  /\ book = EmptyBook
  /\ positions = {}
  /\ active = [p \in Positions |-> None]
  /\ answer = [j \in Jobs |-> "none"]
  /\ tx = [j \in Jobs |-> Idle]

Step(j) ==
  \/ Verify(j)
  \/ Load(j)
  \/ List(j)
  \/ Replay(j)
  \/ Sweep(j)
  \/ DeleteRow(j)
  \/ ActivateRow(j)
  \/ Commit(j)

Next ==
  \/ \E p \in Positions : Resolve(p)
  \/ \E q \in Partitions, line \in Lines : Post(q, line) \/ PostAfterFailure(q, line)
  \/ \E j \in Jobs : Start(j) \/ Step(j) \/ DeadlockVictim(j)

Spec == Init /\ [][Next]_vars

\* A request that runs goes on when it can, or is cancelled in a deadlock.
FairSpec ==
  /\ Spec
  /\ \A j \in Jobs : WF_vars(Step(j) \/ DeadlockVictim(j))
-----------------------------------------------------------------------------
(* Properties *)

\* inventory_position_balances: the quantity of each active row.
Balances ==
  [p \in Positions |->
     IF active[p] = None THEN None ELSE Stock(active[p].from, p)]

\* get_active_balances_summary: one metric, over the active rows of some positions.
Metric(W) == Total(Balances, {p \in W : active[p] # None})

Projection == INSTANCE BalanceProjection
                WITH balance <- Balances,
                     begun <- [j \in Jobs |->
                        IF tx[j].pc = "idle" THEN None ELSE tx[j].since]

\* However rebuilds overlap with postings and with each other, the active
\* balances only ever change by a whole rebuild: at once, by the stock of one
\* moment since the request, none negative, and no position left out that had
\* movements before the request.
ImplementsProjection == Projection!Spec

PositionsKnown == Touched(book) \subseteq positions

\* What a rebuild has read and staged is of the ledger since it began.
StagedFromBook(j) ==
  LET t == tx[j]
      due == Touched(Cut(book, t.since)) \cap ScopeOf[j]
  IN  /\ t.pc # "idle" => t.since \in Cuts(book)
      /\ t.targets \subseteq ScopeOf[j]
      /\ t.pc \in {"list", "replay", "sweep", "swap"} => due \subseteq t.targets
      /\ t.pc \in {"replay", "sweep", "swap"} => t.targets \subseteq Touched(book)
      /\ t.pc \in {"sweep", "swap"} =>
           /\ \E replayed \in Cuts(book) :
                NotBefore(t.since, replayed) /\ t.from = Cut(book, replayed)
           /\ t.targets \subseteq Touched(t.from)
           /\ \A p \in t.targets : ~Negative(t.from, p)

\* The rows a rebuild deletes or activates are of positions it staged; what it
\* has activated, it has deleted before and no other rebuild has activated.
SwapsItsOwn(j) ==
  /\ \A d \in tx[j].doomed : d[1] \in tx[j].targets
  /\ tx[j].lit \cup tx[j].gone \subseteq tx[j].targets
  /\ tx[j].pc # "swap" =>
       tx[j].lit = {} /\ tx[j].gone = {} /\ tx[j].doomed = {}
  /\ \A p \in tx[j].lit :
       /\ active[p] # None => p \in tx[j].gone
       /\ \A v \in Jobs \ {j} : p \notin tx[v].lit

\* The inductive invariant: overlapping rebuilds never bring rows of different
\* moments together and never write over a row that they did not delete.
RebuildInv ==
  /\ TypeOK
  /\ PositionsKnown
  /\ \A j \in Jobs : StagedFromBook(j) /\ SwapsItsOwn(j)

\* Every active balance is the stock of some moment of the ledger, not negative
\* then, of a position that had movements by then.
BalancesOfLedger ==
  \A p \in Positions :
    active[p] # None =>
      /\ \E cut \in Cuts(book) : active[p].from = Cut(book, cut)
      /\ p \in Touched(active[p].from)
      /\ ~Negative(active[p].from, p)

\* A rebuild that no posting overtook leaves every metric of the positions it
\* was asked for at what the ledger says, whatever other rebuilds did meanwhile.
FreshRebuildIsExact ==
  [][\A j \in Jobs :
       Commit(j) /\ tx[j].since = Whole(book) =>
         \A W \in SUBSET ScopeOf[j] : Metric(W)' = Total(Stocks(book), W)]_vars

\* A client that asks for a rebuild gets an answer, in spite of waits and
\* deadlocks between rebuilds.
EventuallyAnswered == \A j \in Jobs : tx[j].pc # "idle" ~> answer[j] # "none"

\* last_applied_ledger_sequence: the highest number, of any partition, among the
\* movements that name p.
LastSequence(b, p) ==
  IF Mentions(b, p) = {} THEN 0 ELSE Max({i[2] : i \in Mentions(b, p)})

\* "Strict sequence enforcement (ledger_sequence ASC)": the ledger sequence an
\* active balance has reached never goes back.
NeverRegresses ==
  [][\A p \in Positions :
       active[p] # None /\ active'[p] # None =>
         LastSequence(active[p].from, p) <= LastSequence(active'[p].from, p)]_vars
=============================================================================
