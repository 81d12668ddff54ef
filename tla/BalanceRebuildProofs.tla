------------------------ MODULE BalanceRebuildProofs ------------------------
(***************************************************************************)
(* Overlapping rebuilds keep RebuildInv, for any number of jobs, positions,*)
(* partitions and lines, and implement BalanceProjection; Stock stays      *)
(* folded there, as these rest on which book a rebuild replays.  What the  *)
(* sums come to (StockReplayProofs) then says how balances and metrics     *)
(* relate to the ledger.                                                   *)
(***************************************************************************)
EXTENDS BalanceRebuild, StockReplayProofs

-----------------------------------------------------------------------------
(* Books and cuts *)

\* A cut of a book names an earlier moment of every later book, too.
LEMMA CutLater ==
  ASSUME NEW b \in Books, NEW later \in Books, Grows(b, later), NEW cut \in Cuts(b)
  PROVE  cut \in Cuts(later) /\ Cut(later, cut) = Cut(b, cut)
<1>1. ASSUME NEW q \in Partitions
      PROVE  /\ cut[q] \in 0..Len(b[q])
             /\ cut[q] \in 0..Len(later[q])
  BY <1>1 DEF Cuts, Grows, Books
<1>2. cut \in Cuts(later)
  BY <1>1 DEF Cuts
<1>3. ASSUME NEW q \in Partitions
      PROVE  SubSeq(later[q], 1, cut[q]) = SubSeq(b[q], 1, cut[q])
  <2> DEFINE T == Line \cup {None}
  <2>1. b[q] \in Seq(T) /\ later[q] \in Seq(T)
    BY <1>3 DEF Books
  <2> HIDE DEF T
  <2>2. cut[q] \in 0..Len(b[q]) /\ cut[q] \in 0..Len(later[q])
    BY <1>1, <1>3
  <2>3. \A n \in 1..cut[q] : later[q][n] = b[q][n]
    BY <2>1, <2>2, <1>3, LenProperties DEF Grows
  <2> QED BY <2>1, <2>2, <2>3
<1> QED BY <1>2, <1>3 DEF Cut

LEMMA WholeCut ==
  ASSUME NEW b \in Books
  PROVE  /\ Whole(b) \in Cuts(b)
         /\ Cut(b, Whole(b)) = b
         /\ \A cut \in Cuts(b) : NotBefore(cut, Whole(b))
<1>1. \A q \in Partitions : b[q] \in Seq(Line \cup {None}) /\ Len(b[q]) \in Nat
  BY LenProperties DEF Books
<1>2. Whole(b) \in Cuts(b)
  <2>1. \A q \in Partitions : Len(b[q]) \in 0..Len(b[q])
    BY <1>1
  <2> QED BY <1>1, <2>1 DEF Cuts, Whole
<1>3. \A q \in Partitions : SubSeq(b[q], 1, Len(b[q])) = b[q]
  BY <1>1
<1>4. Cut(b, Whole(b)) = b
  BY <1>3 DEF Cut, Whole, Books
<1> QED BY <1>2, <1>4 DEF Cuts, Whole, NotBefore

\* A position keeps its movements.
LEMMA MentionsGrow ==
  ASSUME NEW b \in Books, NEW later \in Books, Grows(b, later), NEW p
  PROVE  /\ Mentions(b, p) \subseteq Mentions(later, p)
         /\ \A i \in Mentions(b, p) : At(later, i) = At(b, i)
<1>1. \A q \in Partitions : Len(b[q]) \in Nat /\ Len(later[q]) \in Nat
  BY LenProperties DEF Books
<1>2. ASSUME NEW i \in Numbers(b) PROVE i \in Numbers(later) /\ At(later, i) = At(b, i)
  <2>1. PICK q \in Partitions : i \in {q} \X (1..Len(b[q]))
    BY <1>2 DEF Numbers
  <2>2. Len(b[q]) <= Len(later[q]) /\ later[q][i[2]] = b[q][i[2]]
    BY <2>1 DEF Grows
  <2>3. i \in {q} \X (1..Len(later[q]))
    BY <1>1, <2>1, <2>2
  <2> QED BY <2>1, <2>2, <2>3 DEF Numbers, At
<1> QED BY <1>2 DEF Mentions

LEMMA TouchedGrows ==
  ASSUME NEW b \in Books, NEW later \in Books, Grows(b, later)
  PROVE  Touched(b) \subseteq Touched(later)
<1>1. \A p \in Positions : Mentions(b, p) \subseteq Mentions(later, p)
  BY MentionsGrow
<1> QED BY <1>1 DEF Touched

\* A book, and every moment of it before a given one.
LEMMA CutGrows ==
  ASSUME NEW b \in Books, NEW cut \in Cuts(b)
  PROVE  Cut(b, cut) \in Books /\ Grows(Cut(b, cut), b)
<1> DEFINE T == Line \cup {None}
<1>1. ASSUME NEW q \in Partitions
      PROVE  /\ SubSeq(b[q], 1, cut[q]) \in Seq(T)
             /\ Len(SubSeq(b[q], 1, cut[q])) = cut[q]
             /\ cut[q] <= Len(b[q])
             /\ \A n \in 1..cut[q] : b[q][n] = SubSeq(b[q], 1, cut[q])[n]
  <2>1. cut[q] \in 0..Len(b[q]) /\ b[q] \in Seq(T)
    BY <1>1 DEF Cuts, Books
  <2> HIDE DEF T
  <2> QED BY <2>1
<1> QED BY <1>1 DEF Cut, Books, Grows

\* A posting adds to the end of one partition, and names known positions.
LEMMA PostGrows ==
  ASSUME book \in Books, NEW q \in Partitions, NEW line \in Lines,
         Post(q, line) \/ PostAfterFailure(q, line)
  PROVE  /\ book' \in Books
         /\ Grows(book, book')
         /\ Touched(book') \subseteq Touched(book) \cup positions
<1> USE LinesAssumption
<1>1. PICK more \in Seq({line, None}) : book' = [book EXCEPT ![q] = @ \o more]
  <2>1. CASE Post(q, line)
    <3>1. <<line>> \in Seq({line, None}) /\ Append(book[q], line) = book[q] \o <<line>>
      BY DEF Books
    <3> QED BY <2>1, <3>1 DEF Post, Books
  <2>2. CASE PostAfterFailure(q, line)
    <3>1. <<None, line>> \in Seq({line, None})
      OBVIOUS
    <3> QED BY <2>2, <3>1 DEF PostAfterFailure
  <2> QED BY <2>1, <2>2
<1> DEFINE T == Line \cup {None}
<1>2. book \in [Partitions -> Seq(T)] /\ more \in Seq(T)
  <2>1. {line, None} \subseteq T
    OBVIOUS
  <2>2. more \in Seq(T)
    <3> HIDE DEF T
    <3> QED BY <1>1, <2>1
  <2> QED BY <2>2 DEF Books
<1> HIDE DEF T
<1>3. book[q] \o more \in Seq(T)
  BY <1>2
<1>4. \A r \in Partitions : book'[r] = IF r = q THEN book[q] \o more ELSE book[r]
  BY <1>1, <1>2
<1>5. book' \in [Partitions -> Seq(T)]
  BY <1>1, <1>2, <1>3
<1>6. ASSUME NEW r \in Partitions
      PROVE  /\ Len(book[r]) <= Len(book'[r])
             /\ \A n \in 1..Len(book[r]) : book'[r][n] = book[r][n]
             /\ \A n \in 1..Len(book'[r]) :
                  n \in 1..Len(book[r]) \/ book'[r][n] \in {line, None}
  <2>1. book[r] \in Seq(T) /\ book'[r] \in {book[r], book[r] \o more}
    BY <1>2, <1>4
  <2>2. /\ Len(book[r] \o more) = Len(book[r]) + Len(more)
        /\ \A n \in 1..Len(book[r]) + Len(more) :
             (book[r] \o more)[n] = IF n <= Len(book[r]) THEN book[r][n]
                                    ELSE more[n - Len(book[r])]
    BY <1>2, <2>1, ConcatProperties, LenProperties
  <2>3. Len(book[r]) \in Nat /\ Len(more) \in Nat
    BY <1>2, <2>1, LenProperties
  <2>4. \A n \in 1..Len(more) : more[n] \in {line, None}
    BY <1>1
  <2>5. CASE book'[r] = book[r]
    BY <2>3, <2>5
  <2>6. CASE book'[r] = book[r] \o more
    <3> DEFINE k == Len(book[r])
    <3>1. k \in Nat /\ Len(book'[r]) = k + Len(more)
      BY <2>2, <2>3, <2>6
    <3>2. \A n \in 1..k : book'[r][n] = book[r][n]
      BY <2>2, <2>3, <2>6
    <3>3. ASSUME NEW n \in 1..Len(book'[r]), n \notin 1..k
          PROVE  book'[r][n] \in {line, None}
      <4>1. n - k \in 1..Len(more) /\ n \in 1..(k + Len(more)) /\ ~(n <= k)
        BY <2>3, <3>1, <3>3
      <4>2. book'[r][n] = more[n - k]
        BY <2>2, <2>6, <4>1
      <4> QED BY <2>4, <4>1, <4>2
    <3> QED BY <2>3, <3>1, <3>2, <3>3
  <2> QED BY <2>1, <2>5, <2>6
<1>7. Named(line) \subseteq positions
  BY DEF Post, PostAfterFailure
<1>8. ASSUME NEW p \in Touched(book') PROVE p \in Touched(book) \cup positions
  <2>1. PICK i \in Numbers(book') :
          At(book', i) # None /\ p \in Named(At(book', i)) /\ p \in Positions
    BY DEF Touched, Mentions
  <2>2. PICK r \in Partitions : i \in {r} \X (1..Len(book'[r]))
    BY <2>1 DEF Numbers
  <2>3. CASE i[2] \in 1..Len(book[r])
    <3>1. i \in Numbers(book) /\ At(book, i) = At(book', i)
      BY <1>6, <2>2, <2>3 DEF Numbers, At
    <3> QED BY <2>1, <3>1 DEF Touched, Mentions
  <2>4. CASE i[2] \notin 1..Len(book[r])
    <3>1. i[1] = r /\ i[2] \in 1..Len(book'[r]) /\ At(book', i) = book'[r][i[2]]
      BY <2>2 DEF At
    <3>2. At(book', i) = line
      BY <1>6, <2>1, <2>4, <3>1
    <3> QED BY <1>7, <2>1, <3>2
  <2> QED BY <2>3, <2>4
<1> QED BY <1>5, <1>6, <1>8 DEF Books, Grows, T

-----------------------------------------------------------------------------
(* The invariant *)

\* What was staged from the ledger stays so while the ledger grows.
LEMMA StagedLater ==
  ASSUME NEW j \in Jobs, StagedFromBook(j), tx'[j] = tx[j],
         book \in Books, book' \in Books, Grows(book, book')
  PROVE  StagedFromBook(j)'
<1>1. \A cut \in Cuts(book) : cut \in Cuts(book') /\ Cut(book', cut) = Cut(book, cut)
  BY CutLater
<1>2. Touched(book) \subseteq Touched(book')
  BY TouchedGrows
<1>3. CASE tx[j].pc = "idle"
  BY <1>3 DEF StagedFromBook
<1>4. CASE tx[j].pc # "idle"
  <2>1. /\ tx[j].since \in Cuts(book')
        /\ Cut(book', tx[j].since) = Cut(book, tx[j].since)
    BY <1>1, <1>4 DEF StagedFromBook
  <2>2. ASSUME tx[j].pc \in {"sweep", "swap"}
        PROVE  \E replayed \in Cuts(book') :
                 /\ NotBefore(tx[j].since, replayed)
                 /\ tx[j].from = Cut(book', replayed)
    BY <1>1, <2>2 DEF StagedFromBook
  <2> QED BY <1>2, <1>4, <2>1, <2>2 DEF StagedFromBook
<1> QED BY <1>3, <1>4

LEMMA IdleTyped == Idle \in Transaction /\ EmptyBook \in Books
<1>1. EmptyBook \in Books /\ Whole(EmptyBook) \in [Partitions -> Nat]
  BY DEF EmptyBook, Books, Whole
<1> QED BY <1>1 DEF Idle, Transaction

\* A job that gives up leaves the others as they were.
LEMMA FailInvariant ==
  ASSUME RebuildInv, NEW j \in Jobs,
         NEW status \in {"COMPLETED", "FAILED", "SWAPPING"}, Fail(j, status)
  PROVE  RebuildInv'
<1>1. /\ tx \in [Jobs -> Transaction]
      /\ tx' = [tx EXCEPT ![j] = Idle]
      /\ book' = book /\ positions' = positions /\ active' = active
      /\ answer' = [answer EXCEPT ![j] = status]
  BY DEF RebuildInv, TypeOK, Fail
<1>2. Idle \in Transaction
  BY IdleTyped
<1>3. TypeOK'
  BY <1>1, <1>2 DEF RebuildInv, TypeOK
<1>4. tx'[j] = Idle /\ \A v \in Jobs \ {j} : tx'[v] = tx[v]
  BY <1>1
<1>5. ASSUME NEW v \in Jobs PROVE StagedFromBook(v)'
  BY <1>1, <1>4, <1>5 DEF RebuildInv, StagedFromBook, Idle
<1>6. ASSUME NEW v \in Jobs PROVE SwapsItsOwn(v)'
  <2>1. CASE v = j
    BY <1>4, <2>1 DEF SwapsItsOwn, Idle
  <2>2. CASE v # j
    <3>1. \A w \in Jobs : tx'[w].lit \subseteq tx[w].lit
      BY <1>4 DEF Idle
    <3> QED BY <1>1, <1>4, <2>2, <3>1 DEF RebuildInv, SwapsItsOwn
  <2> QED BY <2>1, <2>2
<1>7. PositionsKnown'
  BY <1>1 DEF RebuildInv, PositionsKnown
<1> QED BY <1>3, <1>5, <1>6, <1>7 DEF RebuildInv

LEMMA InitInvariant == Init => RebuildInv
<1> SUFFICES ASSUME Init PROVE RebuildInv
  OBVIOUS
<1>1. TypeOK
  BY IdleTyped DEF Init, TypeOK, EmptyBook
<1>2. \A j \in Jobs : StagedFromBook(j) /\ SwapsItsOwn(j)
  BY DEF Init, Idle, StagedFromBook, SwapsItsOwn
<1>3. Touched(EmptyBook) = {}
  <2>1. Numbers(EmptyBook) = {}
    BY DEF Numbers, EmptyBook
  <2> QED BY <2>1 DEF Touched, Mentions
<1> QED BY <1>1, <1>2, <1>3 DEF Init, RebuildInv, PositionsKnown

\* A step of j that changes neither the ledger nor the active rows, and of its
\* own transaction at most the place in the program, what is left to verify,
\* what is staged and from what, and what the DELETE has picked.
LEMMA QuietStep ==
  ASSUME RebuildInv, NEW j \in Jobs, NEW t \in Transaction,
         tx' = [tx EXCEPT ![j] = t],
         UNCHANGED <<book, positions, active, answer>>,
         t.lit = {}, t.gone = {}, \A d \in t.doomed : d[1] \in t.targets,
         t.pc # "swap" => t.doomed = {},
         StagedFromBook(j)'
  PROVE  RebuildInv'
<1>1. tx \in [Jobs -> Transaction]
  BY DEF RebuildInv, TypeOK
<1>2. TypeOK'
  BY <1>1 DEF RebuildInv, TypeOK
<1>3. tx'[j] = t /\ \A v \in Jobs \ {j} : tx'[v] = tx[v]
  BY <1>1
<1>4. ASSUME NEW v \in Jobs \ {j} PROVE StagedFromBook(v)'
  BY <1>3, <1>4 DEF RebuildInv, StagedFromBook
<1>5. ASSUME NEW v \in Jobs PROVE SwapsItsOwn(v)'
  <2>1. CASE v = j
    BY <1>3, <2>1 DEF SwapsItsOwn
  <2>2. CASE v # j
    <3>1. \A w \in Jobs : tx'[w].lit \subseteq tx[w].lit
      BY <1>3
    <3> QED BY <1>3, <2>2, <3>1 DEF RebuildInv, SwapsItsOwn
  <2> QED BY <2>1, <2>2
<1>6. PositionsKnown'
  BY DEF RebuildInv, PositionsKnown
<1> QED BY <1>2, <1>4, <1>5, <1>6 DEF RebuildInv

\* Every step keeps the invariant.
LEMMA StepInvariant ==
  ASSUME RebuildInv, Next
  PROVE  RebuildInv'
<1> USE DEF TypeOK
<1>0. /\ book \in Books /\ tx \in [Jobs -> Transaction]
      /\ active \in [Positions -> Row \cup {None}]
  BY DEF RebuildInv
<1>1. ASSUME NEW q \in Partitions, NEW line \in Lines,
             Post(q, line) \/ PostAfterFailure(q, line)
      PROVE  RebuildInv'
  <2>1. book' \in Books /\ Grows(book, book')
    BY <1>0, <1>1, PostGrows
  <2>2. UNCHANGED <<positions, active, answer, tx>>
    BY <1>1 DEF Post, PostAfterFailure
  <2>3. \A j \in Jobs : StagedFromBook(j)'
    BY <1>0, <2>1, <2>2, StagedLater DEF RebuildInv
  <2>4. \A j \in Jobs : SwapsItsOwn(j)'
    BY <2>2 DEF RebuildInv, SwapsItsOwn
  <2>5. PositionsKnown'
    BY <1>0, <1>1, <2>2, PostGrows DEF RebuildInv, PositionsKnown
  <2> QED BY <2>1, <2>2, <2>3, <2>4, <2>5 DEF RebuildInv
<1>2. ASSUME NEW j \in Jobs, Start(j) PROVE RebuildInv'
  <2> DEFINE t == [Idle EXCEPT !.pc = "verify", !.since = Whole(book),
                               !.unverified = Partitions]
  <2>0. Whole(book) \in Cuts(book) /\ Whole(book) \in [Partitions -> Nat]
    BY <1>0, WholeCut, LenProperties DEF Whole, Books
  <2>1. /\ t \in Transaction /\ t.lit = {} /\ t.gone = {} /\ t.doomed = {}
        /\ t.pc = "verify" /\ t.since = Whole(book) /\ t.targets = {}
    BY <2>0, IdleTyped DEF Idle, Transaction
  <2>2. tx' = [tx EXCEPT ![j] = t] /\ UNCHANGED <<book, positions, active, answer>>
    BY <1>2 DEF Start
  <2> HIDE DEF t
  <2>3. StagedFromBook(j)'
    BY <1>0, <2>0, <2>1, <2>2 DEF StagedFromBook
  <2> QED BY <2>1, <2>2, <2>3, QuietStep
<1>3. ASSUME NEW j \in Jobs, Verify(j) PROVE RebuildInv'
  <2>1. CASE Fail(j, "FAILED")
    BY <2>1, FailInvariant
  <2>2. CASE ~Fail(j, "FAILED")
    <3>1. PICK q \in tx[j].unverified :
            /\ tx' = [tx EXCEPT
                 ![j].unverified = @ \ {q},
                 ![j].pc = IF tx[j].unverified = {q} THEN "load" ELSE "verify"]
            /\ UNCHANGED <<book, positions, active, answer>>
      BY <1>3, <2>2 DEF Verify
    <3> DEFINE t == [tx[j] EXCEPT
                       !.unverified = @ \ {q},
                       !.pc = IF tx[j].unverified = {q} THEN "load" ELSE "verify"]
    <3>2. tx[j] \in Transaction /\ tx[j].lit = {} /\ tx[j].gone = {} /\ tx[j].doomed = {}
      BY <1>0, <1>3 DEF Verify, RebuildInv, SwapsItsOwn
    <3>3. /\ t \in Transaction /\ t.lit = {} /\ t.gone = {} /\ t.doomed = {}
          /\ t.pc \in {"verify", "load"} /\ t.since = tx[j].since
          /\ t.targets = tx[j].targets
      BY <3>2 DEF Transaction
    <3>4. tx' = [tx EXCEPT ![j] = t]
      BY <1>0, <3>1
    <3> HIDE DEF t
    <3>5. StagedFromBook(j)'
      BY <1>0, <1>3, <3>1, <3>3, <3>4 DEF Verify, RebuildInv, StagedFromBook
    <3> QED BY <3>1, <3>3, <3>4, <3>5, QuietStep
  <2> QED BY <2>1, <2>2
<1>4. ASSUME NEW j \in Jobs, Load(j) PROVE RebuildInv'
  <2> DEFINE t == [tx[j] EXCEPT !.pc = "list", !.targets = positions \cap ScopeOf[j]]
  <2>1. /\ tx' = [tx EXCEPT ![j] = t] /\ UNCHANGED <<book, positions, active, answer>>
        /\ tx[j].pc = "load" /\ positions \subseteq Positions
    BY <1>0, <1>4 DEF Load, RebuildInv
  <2>2. tx[j] \in Transaction /\ tx[j].lit = {} /\ tx[j].gone = {} /\ tx[j].doomed = {}
    BY <1>0, <2>1 DEF RebuildInv, SwapsItsOwn
  <2>3. /\ t \in Transaction /\ t.lit = {} /\ t.gone = {} /\ t.doomed = {}
        /\ t.pc = "list" /\ t.targets = positions \cap ScopeOf[j]
        /\ t.since = tx[j].since
    BY <2>1, <2>2 DEF Transaction
  <2> HIDE DEF t
  <2>4. tx'[j] = t /\ book' = book
    BY <1>0, <2>1
  <2>5. tx[j].since \in Cuts(book)
    BY <2>1 DEF RebuildInv, StagedFromBook
  <2>6. Touched(Cut(book, tx[j].since)) \subseteq positions
    BY <1>0, <2>5, CutGrows, TouchedGrows DEF RebuildInv, PositionsKnown
  <2>7. StagedFromBook(j)'
    BY <2>3, <2>4, <2>5, <2>6 DEF StagedFromBook
  <2> QED BY <2>1, <2>3, <2>7, QuietStep
<1>5. ASSUME NEW j \in Jobs, List(j) PROVE RebuildInv'
  <2>1. CASE \E status \in {"FAILED", "COMPLETED"} : Fail(j, status)
    BY <2>1, FailInvariant
  <2>2. CASE \A status \in {"FAILED", "COMPLETED"} : ~Fail(j, status)
    <3> DEFINE targets == Touched(book) \cap tx[j].targets
               t == [tx[j] EXCEPT !.pc = "replay", !.targets = targets]
    <3>1. /\ tx' = [tx EXCEPT ![j] = t] /\ UNCHANGED <<book, positions, active, answer>>
          /\ tx[j].pc = "list"
      BY <1>0, <1>5, <2>2 DEF List
    <3>2. tx[j] \in Transaction /\ tx[j].lit = {} /\ tx[j].gone = {} /\ tx[j].doomed = {}
      BY <1>0, <3>1 DEF RebuildInv, SwapsItsOwn
    <3>3. /\ t \in Transaction /\ t.lit = {} /\ t.gone = {} /\ t.doomed = {}
          /\ t.pc = "replay" /\ t.targets = targets /\ t.since = tx[j].since
      BY <3>2 DEF Transaction
    <3> HIDE DEF t
    <3>4. tx'[j] = t /\ book' = book
      BY <1>0, <3>1
    <3>5. /\ tx[j].since \in Cuts(book)
          /\ tx[j].targets \subseteq ScopeOf[j]
          /\ Touched(Cut(book, tx[j].since)) \cap ScopeOf[j] \subseteq tx[j].targets
      BY <3>1 DEF RebuildInv, StagedFromBook
    <3>6. Touched(Cut(book, tx[j].since)) \subseteq Touched(book)
      BY <1>0, <3>5, CutGrows, TouchedGrows
    <3>7. StagedFromBook(j)'
      BY <3>3, <3>4, <3>5, <3>6 DEF StagedFromBook
    <3> QED BY <3>1, <3>3, <3>7, QuietStep
  <2> QED BY <2>1, <2>2
<1>6. ASSUME NEW j \in Jobs, Replay(j) PROVE RebuildInv'
  <2>1. CASE Fail(j, "FAILED")
    BY <2>1, FailInvariant
  <2>2. CASE ~Fail(j, "FAILED")
    <3> DEFINE t == [tx[j] EXCEPT !.pc = "sweep", !.from = book]
    <3>1. /\ tx' = [tx EXCEPT ![j] = t] /\ UNCHANGED <<book, positions, active, answer>>
          /\ tx[j].pc = "replay"
          /\ ~SomeNegative(book, tx[j].targets)
      BY <1>0, <1>6, <2>2 DEF Replay
    <3>2. tx[j] \in Transaction /\ tx[j].lit = {} /\ tx[j].gone = {} /\ tx[j].doomed = {}
      BY <1>0, <3>1 DEF RebuildInv, SwapsItsOwn
    <3>3. /\ t \in Transaction /\ t.lit = {} /\ t.gone = {} /\ t.doomed = {}
          /\ t.pc = "sweep" /\ t.targets = tx[j].targets /\ t.from = book
          /\ t.since = tx[j].since
      BY <1>0, <3>2 DEF Transaction
    <3> HIDE DEF t
    <3>4. tx'[j] = t /\ book' = book
      BY <1>0, <3>1
    <3>5. /\ tx[j].since \in Cuts(book)
          /\ tx[j].targets \subseteq ScopeOf[j] \cap Touched(book)
          /\ Touched(Cut(book, tx[j].since)) \cap ScopeOf[j] \subseteq tx[j].targets
      BY <3>1 DEF RebuildInv, StagedFromBook
    <3>6. /\ Whole(book) \in Cuts(book) /\ Cut(book, Whole(book)) = book
          /\ NotBefore(tx[j].since, Whole(book))
      BY <1>0, <3>5, WholeCut
    <3>7. \A p \in tx[j].targets : ~Negative(book, p)
      BY <3>1 DEF SomeNegative
    <3>8. StagedFromBook(j)'
      BY <3>3, <3>4, <3>5, <3>6, <3>7 DEF StagedFromBook
    <3> QED BY <3>1, <3>3, <3>8, QuietStep
  <2> QED BY <2>1, <2>2
<1>7. ASSUME NEW j \in Jobs, Sweep(j) PROVE RebuildInv'
  <2> DEFINE rows == {<<p, active[p].job>> : p \in {p \in tx[j].targets : active[p] # None}}
             t == [tx[j] EXCEPT !.pc = "swap", !.doomed = rows]
  <2>1. /\ tx' = [tx EXCEPT ![j] = t] /\ UNCHANGED <<book, positions, active, answer>>
        /\ tx[j].pc = "sweep"
    BY <1>0, <1>7 DEF Sweep
  <2>2. rows \subseteq Positions \X Jobs /\ \A d \in rows : d[1] \in tx[j].targets
    BY <1>0 DEF Row, Transaction
  <2> HIDE DEF rows
  <2>3. tx[j] \in Transaction /\ tx[j].lit = {} /\ tx[j].gone = {}
    BY <1>0, <2>1 DEF RebuildInv, SwapsItsOwn
  <2>4. /\ t \in Transaction /\ t.lit = {} /\ t.gone = {} /\ t.doomed = rows
        /\ t.pc = "swap" /\ t.targets = tx[j].targets /\ t.from = tx[j].from
        /\ t.since = tx[j].since
    BY <2>2, <2>3 DEF Transaction
  <2> HIDE DEF t
  <2>5. tx'[j] = t /\ book' = book
    BY <1>0, <2>1
  <2>6. StagedFromBook(j)'
    BY <2>1, <2>4, <2>5 DEF RebuildInv, StagedFromBook
  <2> QED BY <2>1, <2>2, <2>4, <2>6, QuietStep
<1>8. ASSUME NEW j \in Jobs, DeleteRow(j) PROVE RebuildInv'
  <2>1. PICK d \in tx[j].doomed :
          tx' = [tx EXCEPT
                   ![j].doomed = @ \ {d},
                   ![j].gone = IF active[d[1]] # None /\ active[d[1]].job = d[2]
                               THEN @ \cup {d[1]} ELSE @]
    BY <1>8 DEF DeleteRow
  <2>2. tx[j].pc = "swap" /\ UNCHANGED <<book, positions, active, answer>>
    BY <1>8 DEF DeleteRow
  <2>3. d[1] \in tx[j].targets /\ tx[j] \in Transaction
    BY <1>0, <2>1 DEF RebuildInv, SwapsItsOwn
  <2>4. /\ tx'[j] \in Transaction
        /\ tx'[j].gone \in {tx[j].gone, tx[j].gone \cup {d[1]}}
        /\ tx'[j].doomed \subseteq tx[j].doomed
        /\ tx'[j].pc = "swap" /\ tx'[j].targets = tx[j].targets
        /\ tx'[j].from = tx[j].from /\ tx'[j].lit = tx[j].lit
        /\ tx'[j].since = tx[j].since
    BY <1>0, <2>1, <2>2, <2>3, ZenonT(30) DEF Transaction
  <2>5. \A v \in Jobs \ {j} : tx'[v] = tx[v]
    BY <1>0, <2>1
  <2>6. tx' \in [Jobs -> Transaction]
    BY <1>0, <2>1, <2>4
  <2>7. ASSUME NEW v \in Jobs PROVE StagedFromBook(v)'
    BY <2>2, <2>4, <2>5, <2>7 DEF RebuildInv, StagedFromBook
  <2>8. ASSUME NEW v \in Jobs PROVE SwapsItsOwn(v)'
    <3>1. \A w \in Jobs : tx'[w].lit = tx[w].lit
      BY <2>4, <2>5
    <3>2. CASE v = j
      BY <2>2, <2>3, <2>4, <3>1, <3>2 DEF RebuildInv, SwapsItsOwn
    <3>3. CASE v # j
      BY <2>2, <2>5, <3>1, <3>3 DEF RebuildInv, SwapsItsOwn
    <3> QED BY <3>2, <3>3
  <2> QED BY <2>2, <2>6, <2>7, <2>8 DEF RebuildInv, PositionsKnown
<1>9. ASSUME NEW j \in Jobs, ActivateRow(j) PROVE RebuildInv'
  <2>1. CASE Fail(j, "SWAPPING")
    BY <2>1, FailInvariant
  <2>2. CASE ~Fail(j, "SWAPPING")
    <3>1. PICK p \in tx[j].targets \ tx[j].lit :
            /\ Holders(p, j) = {}
            /\ active[p] = None \/ p \in tx[j].gone
            /\ tx' = [tx EXCEPT ![j].lit = @ \cup {p}]
      BY <1>9, <2>2 DEF ActivateRow
    <3>2. tx[j].pc = "swap" /\ UNCHANGED <<book, positions, active, answer>>
      BY <1>9, <2>2 DEF ActivateRow
    <3>3. /\ tx'[j] \in Transaction
          /\ tx'[j].lit = tx[j].lit \cup {p}
          /\ tx'[j].pc = "swap" /\ tx'[j].targets = tx[j].targets
          /\ tx'[j].from = tx[j].from /\ tx'[j].gone = tx[j].gone
          /\ tx'[j].doomed = tx[j].doomed /\ tx'[j].since = tx[j].since
      <4>1. tx[j] \in Transaction /\ p \in Positions
        BY <1>0, <3>1 DEF Transaction
      <4>2. tx'[j] = [tx[j] EXCEPT !.lit = @ \cup {p}]
        BY <1>0, <3>1
      <4>3. tx[j].lit \cup {p} \in SUBSET Positions
        BY <4>1 DEF Transaction
      <4> QED BY <3>2, <4>1, <4>2, <4>3 DEF Transaction
    <3>4. \A v \in Jobs \ {j} : tx'[v] = tx[v]
      BY <1>0, <3>1
    <3>5. tx' \in [Jobs -> Transaction]
      BY <1>0, <3>1, <3>3
    <3>6. ASSUME NEW v \in Jobs PROVE StagedFromBook(v)'
      BY <3>2, <3>3, <3>4, <3>6 DEF RebuildInv, StagedFromBook
    <3>7. \A v \in Jobs \ {j} : p \notin tx[v].lit
      BY <3>1 DEF Holders
    <3>8. ASSUME NEW v \in Jobs PROVE SwapsItsOwn(v)'
      <4>1. CASE v = j
        BY <3>1, <3>2, <3>3, <3>4, <3>7, <4>1 DEF RebuildInv, SwapsItsOwn
      <4>2. CASE v # j
        BY <3>2, <3>3, <3>4, <3>7, <4>2 DEF RebuildInv, SwapsItsOwn
      <4> QED BY <4>1, <4>2
    <3> QED BY <3>2, <3>5, <3>6, <3>8 DEF RebuildInv, PositionsKnown
  <2> QED BY <2>1, <2>2
<1>10. ASSUME NEW j \in Jobs, Commit(j) PROVE RebuildInv'
  <2>1. /\ tx' = [tx EXCEPT ![j] = Idle] /\ book' = book /\ positions' = positions
        /\ answer' = [answer EXCEPT ![j] = "COMPLETED"]
        /\ active' = [p \in Positions |->
                        IF p \in tx[j].lit
                        THEN [job |-> j, from |-> tx[j].from]
                        ELSE IF p \in tx[j].gone THEN None
                        ELSE active[p]]
    BY <1>10 DEF Commit
  <2>2. Idle \in Transaction
    BY IdleTyped
  <2>3. [job |-> j, from |-> tx[j].from] \in Row
    BY <1>0 DEF Row, Transaction
  <2>4. active' \in [Positions -> Row \cup {None}]
    BY <1>0, <2>1, <2>3
  <2>5. tx'[j] = Idle /\ \A v \in Jobs \ {j} : tx'[v] = tx[v]
    BY <1>0, <2>1
  <2>6. TypeOK'
    BY <1>0, <2>1, <2>2, <2>4 DEF RebuildInv
  <2>7. ASSUME NEW v \in Jobs PROVE StagedFromBook(v)'
    BY <2>1, <2>5, <2>7 DEF RebuildInv, StagedFromBook, Idle
  <2>8. ASSUME NEW v \in Jobs PROVE SwapsItsOwn(v)'
    <3>1. CASE v = j
      BY <2>5, <3>1 DEF SwapsItsOwn, Idle
    <3>2. CASE v # j
      <4>1. \A w \in Jobs : tx'[w].lit \subseteq tx[w].lit
        BY <2>5 DEF Idle
      <4>2. ASSUME NEW p \in tx[v].lit, active'[p] # None PROVE p \in tx[v].gone
        <5>1. p \in Positions
          BY <1>0 DEF Transaction
        <5>2. p \notin tx[j].lit
          BY <3>2 DEF RebuildInv, SwapsItsOwn
        <5>3. active[p] # None
          BY <2>1, <4>2, <5>1, <5>2
        <5> QED BY <5>3 DEF RebuildInv, SwapsItsOwn
      <4> QED BY <2>5, <3>2, <4>1, <4>2 DEF RebuildInv, SwapsItsOwn
    <3> QED BY <3>1, <3>2
  <2> QED BY <2>1, <2>6, <2>7, <2>8 DEF RebuildInv, PositionsKnown
<1>11. ASSUME NEW j \in Jobs, DeadlockVictim(j) PROVE RebuildInv'
  BY <1>11, FailInvariant DEF DeadlockVictim
<1>12. ASSUME NEW p \in Positions, Resolve(p) PROVE RebuildInv'
  <2>1. positions' = positions \cup {p} /\ UNCHANGED <<book, active, answer, tx>>
    BY <1>12 DEF Resolve
  <2> QED BY <2>1 DEF RebuildInv, PositionsKnown, StagedFromBook, SwapsItsOwn
<1> QED
  BY <1>1, <1>2, <1>3, <1>4, <1>5, <1>6, <1>7, <1>8, <1>9, <1>10, <1>11, <1>12 DEF Next, Step

\* Overlapping rebuilds never bring rows of different moments together, never
\* activate a row over one they did not delete, and never a negative balance.
THEOREM RebuildInvariant == Spec => []RebuildInv
<1>1. RebuildInv /\ [Next]_vars => RebuildInv'
  <2> SUFFICES ASSUME RebuildInv, [Next]_vars PROVE RebuildInv'
    OBVIOUS
  <2>1. CASE Next
    BY <2>1, StepInvariant
  <2>2. CASE UNCHANGED vars
    BY <2>2 DEF vars, RebuildInv, PositionsKnown, TypeOK, StagedFromBook, SwapsItsOwn
  <2> QED BY <2>1, <2>2
<1> QED BY InitInvariant, <1>1, PTL DEF Spec

-----------------------------------------------------------------------------
(* The balances and the ledger *)

LEMMA PostingPosts ==
  ASSUME book \in Books, NEW q \in Partitions, NEW line \in Lines,
         Post(q, line) \/ PostAfterFailure(q, line)
  PROVE  line \in Line /\ Posted(book, q, line, book')
<1>1. CASE Post(q, line)
  <2>1. Append(book[q], line) = book[q] \o <<line>>
    BY DEF Books
  <2> QED BY <1>1, <2>1, LinesAssumption DEF Post, Posted
<1>2. CASE PostAfterFailure(q, line)
  BY <1>2, LinesAssumption DEF PostAfterFailure, Posted
<1> QED BY <1>1, <1>2

\* The stock that a replay finds of a position moves by what the posted line
\* says, and that of a set of positions by what crosses its boundary; nothing
\* else moves it, whatever rebuilds are at work.
THEOREM PostingMovesStock ==
  Spec => [][/\ \A q \in Partitions, line \in Lines :
                  Post(q, line) \/ PostAfterFailure(q, line) =>
                    /\ \A p \in Positions :
                         Stock(book', p) = Stock(book, p) + Effect(line, p)
                    /\ \A W \in SUBSET Positions :
                         Total(Stocks(book'), W) =
                           Total(Stocks(book), W) + Crossing(line, W)
             /\ ~(\E q \in Partitions, line \in Lines :
                    Post(q, line) \/ PostAfterFailure(q, line)) => book' = book]_vars
<1> DEFINE Moves ==
      /\ \A q \in Partitions, line \in Lines :
           Post(q, line) \/ PostAfterFailure(q, line) =>
             /\ \A p \in Positions : Stock(book', p) = Stock(book, p) + Effect(line, p)
             /\ \A W \in SUBSET Positions :
                  Total(Stocks(book'), W) = Total(Stocks(book), W) + Crossing(line, W)
      /\ ~(\E q \in Partitions, line \in Lines :
             Post(q, line) \/ PostAfterFailure(q, line)) => book' = book
<1>1. ASSUME RebuildInv, Next PROVE Moves
  <2>1. book \in Books
    BY <1>1 DEF RebuildInv, TypeOK
  <2>2. ASSUME NEW q \in Partitions, NEW line \in Lines,
               Post(q, line) \/ PostAfterFailure(q, line)
        PROVE  /\ \A p \in Positions : Stock(book', p) = Stock(book, p) + Effect(line, p)
               /\ \A W \in SUBSET Positions :
                    Total(Stocks(book'), W) = Total(Stocks(book), W) + Crossing(line, W)
    <3>1. line \in Line /\ Posted(book, q, line, book')
      BY <2>1, <2>2, PostingPosts
    <3>2. ASSUME NEW p \in Positions
          PROVE  Stock(book', p) = Stock(book, p) + Effect(line, p)
      BY <2>1, <3>1, PostedStock
    <3>3. ASSUME NEW W \in SUBSET Positions
          PROVE  Total(Stocks(book'), W) = Total(Stocks(book), W) + Crossing(line, W)
      <4>1. IsFiniteSet(W)
        BY FiniteAssumption, FS_Subset, SMTT(30)
      <4> QED BY <2>1, <3>1, <4>1, PostedTotal
    <3> QED BY <3>2, <3>3
  <2>3. ASSUME ~(\E q \in Partitions, line \in Lines :
                   Post(q, line) \/ PostAfterFailure(q, line))
        PROVE  book' = book
    BY <1>1, <2>3, ZenonT(30) DEF Next, Resolve, Start, Step, Verify, Load, List, Replay, Sweep,
      DeleteRow, ActivateRow, Commit, DeadlockVictim, Fail
  <2> QED BY <2>2, <2>3
<1>2. RebuildInv /\ [Next]_vars => [Moves]_vars
  BY <1>1
<1> QED BY <1>2, RebuildInvariant, PTL DEF Spec

LEMMA BalancesStep ==
  ASSUME RebuildInv, BalancesOfLedger, [Next]_vars
  PROVE  BalancesOfLedger'
<1>0. book \in Books /\ active \in [Positions -> Row \cup {None}]
  BY DEF RebuildInv, TypeOK
<1>1. ASSUME book' \in Books, Grows(book, book'), active' = active
      PROVE  BalancesOfLedger'
  <2>1. \A cut \in Cuts(book) : cut \in Cuts(book') /\ Cut(book', cut) = Cut(book, cut)
    BY <1>0, <1>1, CutLater
  <2> QED BY <1>1, <2>1 DEF BalancesOfLedger
<1>2. ASSUME NEW j \in Jobs, Commit(j) PROVE BalancesOfLedger'
  <2>1. /\ tx[j].pc = "swap" /\ tx[j].lit = tx[j].targets /\ book' = book
        /\ active' = [p \in Positions |->
                        IF p \in tx[j].lit
                        THEN [job |-> j, from |-> tx[j].from]
                        ELSE IF p \in tx[j].gone THEN None
                        ELSE active[p]]
    BY <1>2 DEF Commit, Swapped
  <2>2. /\ \E cut \in Cuts(book) : tx[j].from = Cut(book, cut)
        /\ tx[j].targets \subseteq Touched(tx[j].from)
        /\ \A p \in tx[j].targets : ~Negative(tx[j].from, p)
    BY <2>1 DEF RebuildInv, StagedFromBook
  <2>3. ASSUME NEW p \in Positions, active'[p] # None
        PROVE  /\ \E cut \in Cuts(book) : active'[p].from = Cut(book, cut)
               /\ p \in Touched(active'[p].from)
               /\ ~Negative(active'[p].from, p)
    <3>1. CASE p \in tx[j].lit
      <4>1. active'[p].from = tx[j].from
        BY <2>1, <3>1
      <4> QED BY <2>1, <2>2, <3>1, <4>1
    <3>2. CASE p \notin tx[j].lit
      <4>1. active'[p] = active[p]
        BY <2>1, <2>3, <3>2
      <4> QED BY <2>3, <4>1 DEF BalancesOfLedger
    <3> QED BY <3>1, <3>2
  <2> QED BY <2>1, <2>3 DEF BalancesOfLedger
<1>3. ASSUME NEW q \in Partitions, NEW line \in Lines,
             Post(q, line) \/ PostAfterFailure(q, line)
      PROVE  BalancesOfLedger'
  <2>1. active' = active
    BY <1>3 DEF Post, PostAfterFailure
  <2> QED BY <1>0, <1>1, <1>3, <2>1, PostGrows
<1>4. CASE UNCHANGED <<book, active>>
  BY <1>4, SMTT(30) DEF BalancesOfLedger
<1>5. \/ UNCHANGED <<book, active>>
      \/ \E j \in Jobs : Commit(j)
      \/ \E q \in Partitions, line \in Lines : Post(q, line) \/ PostAfterFailure(q, line)
  BY ZenonT(30) DEF Next, vars, Resolve, Start, Step, Verify, Load, List, Replay, Sweep,
    DeleteRow, ActivateRow, DeadlockVictim, Fail
<1> QED BY <1>2, <1>3, <1>4, <1>5

\* Every active balance is the stock of some moment of the ledger, not negative
\* then, of a position that had movements by then, for any overlap of rebuilds.
THEOREM BalancesAreOfLedger == Spec => []BalancesOfLedger
<1>1. Init => BalancesOfLedger
  BY DEF Init, BalancesOfLedger
<1>2. RebuildInv /\ BalancesOfLedger /\ [Next]_vars => BalancesOfLedger'
  BY BalancesStep
<1> QED BY <1>1, <1>2, RebuildInvariant, PTL DEF Spec

\* A balance that differs from the stock of the ledger misses a movement that
\* names its position: quantities never go wrong in any other way.
THEOREM StaleBalanceMissesMovement ==
  Spec => [](\A p \in Positions :
               active[p] # None /\ Stock(active[p].from, p) # Stock(book, p) =>
                 \E i \in Mentions(book, p) : i \notin Mentions(active[p].from, p))
<1> DEFINE Missing ==
      \A p \in Positions :
        active[p] # None /\ Stock(active[p].from, p) # Stock(book, p) =>
          \E i \in Mentions(book, p) : i \notin Mentions(active[p].from, p)
<1>1. RebuildInv /\ BalancesOfLedger => Missing
  <2> SUFFICES ASSUME RebuildInv, BalancesOfLedger, NEW p \in Positions,
                      active[p] # None,
                      Mentions(book, p) \subseteq Mentions(active[p].from, p)
               PROVE  Stock(active[p].from, p) = Stock(book, p)
    OBVIOUS
  <2>1. book \in Books
    BY DEF RebuildInv, TypeOK
  <2>2. PICK cut \in Cuts(book) : active[p].from = Cut(book, cut)
    BY DEF BalancesOfLedger
  <2>3. active[p].from \in Books /\ Grows(active[p].from, book)
    BY <2>1, <2>2, CutGrows
  <2>4. /\ Mentions(active[p].from, p) \subseteq Mentions(book, p)
        /\ \A i \in Mentions(active[p].from, p) : At(book, i) = At(active[p].from, i)
    BY <2>1, <2>3, MentionsGrow
  <2> QED BY <2>1, <2>3, <2>4, StockSame
<1> QED BY <1>1, RebuildInvariant, BalancesAreOfLedger, PTL

\* The only cut of a book that is nowhere before its end is the whole book.
LEMMA NothingAfterWhole ==
  ASSUME NEW b \in Books, NEW cut \in Cuts(b), NotBefore(Whole(b), cut)
  PROVE  Cut(b, cut) = b
<1>1. \A q \in Partitions : cut[q] <= Len(b[q]) /\ Len(b[q]) <= cut[q]
  BY DEF Cuts, NotBefore, Whole
<1>2. ASSUME NEW q \in Partitions PROVE cut[q] = Len(b[q])
  <2>1. Len(b[q]) \in Nat /\ cut[q] \in UNION {0..Len(b[r]) : r \in Partitions}
    BY LenProperties DEF Books, Cuts
  <2>2. cut[q] \in Int
    BY <2>1
  <2> QED BY <1>1, <2>1, <2>2
<1>3. Cut(b, cut) = Cut(b, Whole(b))
  BY <1>2 DEF Cut, Whole
<1> QED BY <1>3, WholeCut

LEMMA FreshCommit ==
  ASSUME RebuildInv, BalancesOfLedger, NEW j \in Jobs, Commit(j),
         tx[j].since = Whole(book), NEW W \in SUBSET ScopeOf[j]
  PROVE  Metric(W)' = Total(Stocks(book), W)
<1> DEFINE V == {p \in W : active'[p] # None}
<1>1. /\ tx[j].pc = "swap" /\ tx[j].lit = tx[j].targets
      /\ active' = [p \in Positions |->
                      IF p \in tx[j].lit
                      THEN [job |-> j, from |-> tx[j].from]
                      ELSE IF p \in tx[j].gone THEN None
                      ELSE active[p]]
      /\ book \in Books /\ tx[j] \in Transaction
  BY DEF Commit, Swapped, RebuildInv, TypeOK
<1>2. W \in SUBSET Positions /\ IsFiniteSet(W)
  <2>1. W \in SUBSET Positions
    BY ScopeAssumption
  <2> QED BY <2>1, FiniteAssumption, FS_Subset
<1>3. tx[j].from = book
  <2>1. PICK replayed \in Cuts(book) :
          NotBefore(Whole(book), replayed) /\ tx[j].from = Cut(book, replayed)
    BY <1>1 DEF RebuildInv, StagedFromBook
  <2> QED BY <1>1, <2>1, NothingAfterWhole
<1>4. Touched(book) \cap ScopeOf[j] \subseteq tx[j].targets
  BY <1>1, WholeCut DEF RebuildInv, StagedFromBook
<1>5. ASSUME NEW p \in V PROVE active'[p] # None /\ active'[p].from = book
  <2>1. CASE p \in tx[j].lit
    BY <1>1, <1>2, <1>3, <2>1
  <2>2. CASE p \notin tx[j].lit
    <3>1. active[p] # None /\ p \in Positions
      BY <1>1, <1>2, <2>2
    <3>2. PICK cut \in Cuts(book) : active[p].from = Cut(book, cut)
      BY <3>1 DEF BalancesOfLedger
    <3>3. p \in Touched(Cut(book, cut))
      BY <3>1, <3>2 DEF BalancesOfLedger
    <3>4. p \in Touched(book)
      BY <1>1, <3>3, CutGrows, TouchedGrows
    <3> QED BY <1>1, <1>4, <2>2, <3>4
  <2> QED BY <2>1, <2>2
<1>6. ASSUME NEW p \in W \ V PROVE Stocks(book)[p] = 0
  <2>1. p \in Positions /\ active'[p] = None
    BY <1>2
  <2>2. p \notin tx[j].lit
    <3>1. [job |-> j, from |-> tx[j].from] \in Row
      BY <1>1 DEF Transaction, Row
    <3> QED BY <1>1, <2>1, <3>1, RowAssumption
  <2>3. Mentions(book, p) = {}
    BY <1>1, <1>4, <2>1, <2>2 DEF Touched
  <2> QED BY <1>1, <2>1, <2>3, StockTyped DEF Stocks
<1>7. \A p \in W : Stocks(book)[p] \in Int
  BY <1>1, <1>2, StockTyped DEF Stocks
<1>8. V \in SUBSET W
  OBVIOUS
<1>9. \A p \in V : Balances'[p] = Stocks(book)[p]
  <2> HIDE DEF V
  <2> QED BY <1>2, <1>5, <1>8 DEF Balances, Stocks
<1>10. Metric(W)' = Total(Balances', V)
  BY DEF Metric
<1> HIDE DEF V
<1>11. Total(Balances', V) = Total(Stocks(book), V)
  <2>1. IsFiniteSet(V) /\ \A p \in V : Stocks(book)[p] \in Int
    BY <1>2, <1>7, <1>8, FS_Subset
  <2> QED BY <1>9, <2>1, TotalAgree
<1>12. Total(Stocks(book), W) = Total(Stocks(book), V)
  BY <1>2, <1>6, <1>7, <1>8, TotalSupport
<1> QED BY <1>10, <1>11, <1>12

\* A rebuild that no posting overtook leaves every metric of the positions it
\* was asked for at what the ledger says.
THEOREM FreshRebuildsAreExact == Spec => FreshRebuildIsExact
<1>1. RebuildInv /\ BalancesOfLedger /\ [Next]_vars =>
        [\A j \in Jobs :
           Commit(j) /\ tx[j].since = Whole(book) =>
             \A W \in SUBSET ScopeOf[j] : Metric(W)' = Total(Stocks(book), W)]_vars
  BY FreshCommit
<1> QED BY <1>1, RebuildInvariant, BalancesAreOfLedger, PTL DEF Spec, FreshRebuildIsExact

-----------------------------------------------------------------------------
(* The refinement *)

\* BalanceProjection says of books and stocks what StockReplay says here.
LEMMA SameReplay ==
  ASSUME NEW b, NEW p
  PROVE  /\ Projection!Cuts(b) = Cuts(b)
         /\ Projection!Touched(b) = Touched(b)
         /\ Projection!Stock(b, p) = Stock(b, p)
         /\ Projection!Negative(b, p) <=> Negative(b, p)
         /\ Projection!Whole(b) = Whole(b)
         /\ \A cut : /\ Projection!Cut(b, cut) = Cut(b, cut)
                     /\ Projection!NotBefore(cut, p) <=> NotBefore(cut, p)
<1>1. \A x : Projection!Mentions(b, x) = Mentions(b, x)
  BY DEF Projection!Mentions, Mentions, Projection!Numbers, Numbers, Projection!At, At,
    Projection!Named, Named
<1>2. Projection!Stock(b, p) = Stock(b, p)
  <2>1. Projection!Mentions(b, p) = Mentions(b, p)
    BY <1>1
  <2> QED BY <2>1 DEF Projection!Stock, Stock, Projection!Effect, Effect,
    Projection!At, At, Projection!MapThenSumSet, MapThenSumSet,
    Projection!MapThenFoldSet, MapThenFoldSet
<1>3. Projection!Touched(b) = Touched(b)
  BY <1>1 DEF Projection!Touched, Touched
<1>4. Projection!Negative(b, p) <=> Negative(b, p)
  BY <1>2 DEF Projection!Negative, Negative
<1>5. /\ Projection!Cuts(b) = Cuts(b) /\ Projection!Whole(b) = Whole(b)
      /\ \A cut : /\ Projection!Cut(b, cut) = Cut(b, cut)
                  /\ Projection!NotBefore(cut, p) <=> NotBefore(cut, p)
  BY DEF Projection!Cuts, Cuts, Projection!Cut, Cut, Projection!Whole, Whole,
    Projection!NotBefore, NotBefore
<1> QED BY <1>2, <1>3, <1>4, <1>5

\* A rebuild that ends, committed or not, is out of the projection's sight.
LEMMA EndOfRebuild ==
  ASSUME RebuildInv, NEW j \in Jobs, tx' = [tx EXCEPT ![j] = Idle]
  PROVE  [v \in Jobs |-> IF tx'[v].pc = "idle" THEN None ELSE tx'[v].since] =
         [[v \in Jobs |-> IF tx[v].pc = "idle" THEN None ELSE tx[v].since]
            EXCEPT ![j] = None]
<1>1. tx'[j].pc = "idle" /\ \A v \in Jobs \ {j} : tx'[v] = tx[v]
  BY DEF RebuildInv, TypeOK, Idle
<1> DEFINE old == [v \in Jobs |-> IF tx[v].pc = "idle" THEN None ELSE tx[v].since]
           new == [v \in Jobs |-> IF tx'[v].pc = "idle" THEN None ELSE tx'[v].since]
<1>2. \A v \in Jobs : new[v] = IF v = j THEN None ELSE old[v]
  BY <1>1
<1>3. old = [v \in Jobs |-> old[v]] /\ new = [v \in Jobs |-> new[v]]
  OBVIOUS
<1>4. new = [old EXCEPT ![j] = None]
  <2> HIDE DEF old, new
  <2> QED BY <1>2, <1>3
<1> QED BY <1>4

\* The commit of a rebuild is a Rebuild of the projection.
LEMMA CommitIsRebuild ==
  ASSUME RebuildInv, NEW j \in Jobs, Commit(j)
  PROVE  Projection!Rebuild(j)
<1> DEFINE begun == [v \in Jobs |-> IF tx[v].pc = "idle" THEN None ELSE tx[v].since]
<1>1. /\ tx[j].pc = "swap" /\ tx[j].lit = tx[j].targets /\ book' = book
      /\ tx' = [tx EXCEPT ![j] = Idle]
      /\ active' = [p \in Positions |->
                      IF p \in tx[j].lit
                      THEN [job |-> j, from |-> tx[j].from]
                      ELSE IF p \in tx[j].gone THEN None
                      ELSE active[p]]
  BY DEF Commit, Swapped
<1>2. PICK replayed \in Cuts(book) :
        NotBefore(tx[j].since, replayed) /\ tx[j].from = Cut(book, replayed)
  BY <1>1 DEF RebuildInv, StagedFromBook
<1>3. /\ tx[j].targets \in SUBSET ScopeOf[j]
      /\ Touched(Cut(book, tx[j].since)) \cap ScopeOf[j] \subseteq tx[j].targets
      /\ tx[j].targets \subseteq Touched(Cut(book, replayed))
      /\ \A p \in tx[j].targets : ~Negative(Cut(book, replayed), p)
  BY <1>1, <1>2 DEF RebuildInv, StagedFromBook
<1>4. tx[j].gone \subseteq tx[j].targets /\ tx[j] \in Transaction
  BY DEF RebuildInv, SwapsItsOwn, TypeOK
<1>5. begun[j] = tx[j].since /\ begun[j] # None
  BY <1>1, <1>4, NullAssumption DEF Transaction
<1> DEFINE row == [job |-> j, from |-> tx[j].from]
<1>6. row # None /\ row.from = tx[j].from
  BY <1>4, RowAssumption DEF Row, Transaction
<1> HIDE DEF row
<1>7. \A p \in Positions :
        (IF active'[p] = None THEN None ELSE Stock(active'[p].from, p)) =
          IF p \in tx[j].targets
          THEN Stock(Cut(book, replayed), p)
          ELSE IF active[p] = None THEN None ELSE Stock(active[p].from, p)
  BY <1>1, <1>2, <1>4, <1>6 DEF row
<1>8. begun' = [begun EXCEPT ![j] = None]
  BY <1>1, EndOfRebuild
<1> DEFINE balance == [p \in Positions |->
                         IF active[p] = None THEN None ELSE Stock(active[p].from, p)]
<1>9. balance' = [p \in Positions |->
                    IF p \in tx[j].targets THEN Stock(Cut(book, replayed), p)
                    ELSE balance[p]]
  BY <1>7
<1>10. \E cut \in Projection!Cuts(book), targets \in SUBSET ScopeOf[j] :
         LET from == Projection!Cut(book, cut)
         IN  /\ Projection!NotBefore(begun[j], cut)
             /\ Projection!Touched(Projection!Cut(book, begun[j])) \cap ScopeOf[j]
                  \subseteq targets
             /\ targets \subseteq Projection!Touched(from)
             /\ \A p \in targets : ~Projection!Negative(from, p)
             /\ balance' = [p \in Positions |->
                              IF p \in targets THEN Projection!Stock(from, p)
                              ELSE balance[p]]
  <2> HIDE DEF begun, balance
  <2>1. replayed \in Projection!Cuts(book)
    BY SameReplay
  <2>2. /\ Projection!NotBefore(begun[j], replayed)
        /\ Projection!Touched(Projection!Cut(book, begun[j])) \cap ScopeOf[j]
             \subseteq tx[j].targets
        /\ tx[j].targets \subseteq Projection!Touched(Projection!Cut(book, replayed))
        /\ \A p \in tx[j].targets : ~Projection!Negative(Projection!Cut(book, replayed), p)
    <3>1. /\ Projection!Cut(book, begun[j]) = Cut(book, tx[j].since)
          /\ Projection!Cut(book, replayed) = Cut(book, replayed)
          /\ Projection!NotBefore(begun[j], replayed) <=> NotBefore(tx[j].since, replayed)
      BY <1>5, SameReplay
    <3>2. /\ \A b : Projection!Touched(b) = Touched(b)
          /\ \A b, p : Projection!Negative(b, p) <=> Negative(b, p)
      BY SameReplay
    <3> HIDE DEF begun
    <3> QED BY <1>2, <1>3, <3>1, <3>2
  <2>3. balance' = [p \in Positions |->
                      IF p \in tx[j].targets
                      THEN Projection!Stock(Projection!Cut(book, replayed), p)
                      ELSE balance[p]]
    BY <1>9, SameReplay
  <2> HIDE DEF begun, balance
  <2> QED BY <1>3, <2>1, <2>2, <2>3
<1> QED BY <1>1, <1>5, <1>8, <1>10 DEF Projection!Rebuild, Balances

\* A rebuild that gives up is an Abandon of the projection.
LEMMA FailIsAbandon ==
  ASSUME RebuildInv, NEW j \in Jobs, NEW status, Fail(j, status)
  PROVE  Projection!Abandon(j)
<1>1. tx' = [tx EXCEPT ![j] = Idle] /\ UNCHANGED <<book, active>>
  BY DEF Fail
<1> QED BY <1>1, EndOfRebuild DEF Projection!Abandon, Balances

\* A step of j within its transaction: the projection does not see it.
LEMMA WithinRebuild ==
  ASSUME RebuildInv, NEW j \in Jobs, NEW t, tx' = [tx EXCEPT ![j] = t],
         tx[j].pc # "idle", t.pc # "idle", t.since = tx[j].since,
         UNCHANGED <<book, active>>
  PROVE  UNCHANGED Projection!vars
<1>1. tx'[j] = t /\ \A v \in Jobs \ {j} : tx'[v] = tx[v]
  BY DEF RebuildInv, TypeOK
<1> QED BY <1>1 DEF Projection!vars, Balances

\* However rebuilds overlap with postings and with each other, the active
\* balances only ever change by a whole rebuild of the abstract projection.
THEOREM RebuildImplementsProjection == Spec => ImplementsProjection
<1>1. Init => Projection!Init
  BY DEF Init, Projection!Init, EmptyBook, Idle, Balances
<1>2. ASSUME RebuildInv, [Next]_vars
      PROVE  [Projection!Next]_(Projection!vars)
  <2>0. tx \in [Jobs -> Transaction] /\ book \in Books
    BY <1>2 DEF RebuildInv, TypeOK
  <2>1. ASSUME NEW q \in Partitions, NEW line \in Lines,
               Post(q, line) \/ PostAfterFailure(q, line)
        PROVE  Projection!Post
    <3>1. book' \in Books /\ Grows(book, book')
      BY <2>0, <2>1, PostGrows
    <3>2. active' = active /\ tx' = tx
      BY <2>1 DEF Post, PostAfterFailure
    <3> QED BY <3>1, <3>2 DEF Projection!Post, Projection!Books, Books, Projection!Line,
          Line, Projection!Grows, Grows, Balances
  <2>2. ASSUME NEW j \in Jobs, Start(j)
        PROVE  Projection!Begin(j)
    <3> DEFINE t == [Idle EXCEPT !.pc = "verify", !.since = Whole(book),
                                 !.unverified = Partitions]
    <3>1. t.pc = "verify" /\ t.since = Whole(book)
      BY DEF Idle
    <3>2. tx[j].pc = "idle" /\ tx' = [tx EXCEPT ![j] = t] /\ UNCHANGED <<book, active>>
      BY <2>2 DEF Start
    <3> HIDE DEF t
    <3>3. tx'[j] = t /\ \A v \in Jobs \ {j} : tx'[v] = tx[v]
      BY <2>0, <3>2
    <3> DEFINE begun == [v \in Jobs |-> IF tx[v].pc = "idle" THEN None ELSE tx[v].since]
    <3>4. /\ begun[j] = None
          /\ \A v \in Jobs : begun'[v] = IF v = j THEN Whole(book) ELSE begun[v]
      BY <3>1, <3>2, <3>3
    <3>5. begun = [v \in Jobs |-> begun[v]] /\ begun' = [v \in Jobs |-> begun'[v]]
      OBVIOUS
    <3>6. begun' = [begun EXCEPT ![j] = Whole(book)]
      <4> HIDE DEF begun
      <4> QED BY <3>4, <3>5
    <3> QED BY <3>2, <3>4, <3>6, SameReplay DEF Projection!Begin, Balances
  <2>3. ASSUME NEW j \in Jobs, Step(j), ~Commit(j), ~\E status : Fail(j, status)
        PROVE  UNCHANGED Projection!vars
    <3>1. tx[j] \in Transaction /\ UNCHANGED <<book, active>> /\ tx[j].pc # "idle"
      BY <2>0, <2>3 DEF Step, Verify, Load, List, Replay, Sweep, DeleteRow, ActivateRow
    <3>2. /\ tx' = [tx EXCEPT ![j] = tx'[j]]
          /\ tx'[j].pc # "idle" /\ tx'[j].since = tx[j].since
      <4>1. CASE Verify(j)
        BY <2>0, <2>3, <3>1, <4>1 DEF Verify, Transaction
      <4>2. CASE Load(j)
        BY <2>0, <3>1, <4>2 DEF Load, Transaction
      <4>3. CASE List(j)
        BY <2>0, <2>3, <3>1, <4>3 DEF List, Transaction
      <4>4. CASE Replay(j)
        BY <2>0, <2>3, <3>1, <4>4 DEF Replay, Transaction
      <4>5. CASE Sweep(j)
        BY <2>0, <3>1, <4>5 DEF Sweep, Transaction
      <4>6. CASE DeleteRow(j)
        <5>1. PICK d \in tx[j].doomed :
                tx' = [tx EXCEPT
                         ![j].doomed = @ \ {d},
                         ![j].gone = IF active[d[1]] # None /\ active[d[1]].job = d[2]
                                     THEN @ \cup {d[1]} ELSE @]
          BY <4>6 DEF DeleteRow
        <5> DEFINE gone == IF active[d[1]] # None /\ active[d[1]].job = d[2]
                           THEN tx[j].gone \cup {d[1]} ELSE tx[j].gone
        <5>2. tx' = [tx EXCEPT ![j] = [tx[j] EXCEPT !.doomed = @ \ {d}, !.gone = gone]]
          BY <2>0, <5>1
        <5> HIDE DEF gone
        <5> QED BY <2>0, <3>1, <5>2 DEF Transaction
      <4>7. CASE ActivateRow(j)
        BY <2>0, <2>3, <3>1, <4>7 DEF ActivateRow, Transaction
      <4> QED BY <2>3, <4>1, <4>2, <4>3, <4>4, <4>5, <4>6, <4>7 DEF Step
    <3> QED BY <1>2, <3>1, <3>2, WithinRebuild
  <2>4. ASSUME NEW p \in Positions, Resolve(p)
        PROVE  UNCHANGED Projection!vars
    BY <2>4 DEF Resolve, Projection!vars, Balances
  <2>5. CASE UNCHANGED vars
    BY <2>5 DEF vars, Projection!vars, Balances
  <2>6. ASSUME NEW j \in Jobs, DeadlockVictim(j) PROVE \E status : Fail(j, status)
    BY <2>6 DEF DeadlockVictim
  <2>7. ASSUME NEW j \in Jobs, Start(j) \/ Step(j) \/ DeadlockVictim(j)
        PROVE  [Projection!Next]_(Projection!vars)
    <3>1. CASE Commit(j)
      BY <1>2, <3>1, CommitIsRebuild DEF Projection!Next
    <3>2. CASE \E status : Fail(j, status)
      BY <1>2, <3>2, FailIsAbandon DEF Projection!Next
    <3> QED BY <2>2, <2>3, <2>6, <2>7, <3>1, <3>2 DEF Projection!Next
  <2>8. CASE \E q \in Partitions, line \in Lines : Post(q, line) \/ PostAfterFailure(q, line)
    BY <2>1, <2>8 DEF Projection!Next
  <2> QED BY <1>2, <2>4, <2>5, <2>7, <2>8 DEF Next
<1> QED BY <1>1, <1>2, RebuildInvariant, PTL DEF Spec, ImplementsProjection, Projection!Spec
=============================================================================
