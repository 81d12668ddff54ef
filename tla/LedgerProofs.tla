---------------------------- MODULE LedgerProofs ----------------------------
(***************************************************************************)
(* Proofs about Ledger for any number of events, partitions and sessions:  *)
(* types, the book is append only, Ledger implements AppendOnlyBook, and,  *)
(* for payloads that are clean, the book is gapless and hash chained.      *)
(* LedgerRecordProofs goes on with requests, events and idempotency        *)
(* records.                                                                *)
(***************************************************************************)
EXTENDS LedgerInvariant, Sequences, WellFoundedInduction, TLAPS

-----------------------------------------------------------------------------
(* Types *)

LEMMA NoSnapshotType == NoSnapshot \in Snapshot
BY BoundAssumption DEF NoSnapshot, Snapshot

LEMMA IdleType == Idle \in Transaction
<1>1. /\ [r \in Requests |-> None] \in [Requests -> RequestRow \cup {None}]
      /\ [k \in Keys |-> None] \in [Keys -> Requests \cup {None}]
      /\ [p \in Partitions |-> None] \in [Partitions -> PartitionRow \cup {None}]
  OBVIOUS
<1>2. QED
  BY <1>1, NoSnapshotType DEF Idle, Transaction

LEMMA ViewType ==
  ASSUME TypeOK, NEW w \in Workers, NEW p \in Partitions
  PROVE  View(w, p) \in PartitionRow
BY DEF TypeOK, View, Transaction

\* The row that the except clauses of `post' leave behind.
LEMMA FailedType ==
  ASSUME NEW t \in Transaction, t.cur \in Requests
  PROVE  LET f == [t EXCEPT !.rows[t.cur] = [status |-> "FAILED", result |-> None]]
         IN  f \in Transaction /\ f.parts = t.parts /\ f.pc = t.pc
BY DEF Transaction, RequestRow, Status

\* Every action keeps the types of all variables, and Reserved.
LEMMA TypeStep == TypeInv /\ [Next]_vars => TypeInv'
<1> USE PayloadAssumption, BoundAssumption
<1> SUFFICES ASSUME TypeInv, [Next]_vars PROVE TypeInv'
  OBVIOUS
<1> DEFINE Types(t) == /\ t \in Transaction
                       /\ t.pc \notin {"idle", "pick"} => t.cur \in Requests
                       /\ t.pc = "persist" =>
                            /\ t.snap.seq < MaxSeq
                            /\ t.parts[PartitionOf[t.cur]] # None
<1>0. ASSUME NEW w \in Workers, NEW t, Types(t),
             tx' = [tx EXCEPT ![w] = t],
             UNCHANGED <<request, idem, part, outbox, aborts>>
      PROVE  TypeInv'
  BY <1>0 DEF TypeInv, TypeOK, Reserved
<1>t. ASSUME NEW w \in Workers PROVE Types(tx[w])
  BY <1>t DEF TypeInv, TypeOK, Reserved
<1>o. TypeOK
  BY DEF TypeInv
<1>i. Types(Idle)
  BY IdleType DEF Idle
<1>1. ASSUME NEW r \in Requests, CreateRequest(r) PROVE TypeInv'
  BY <1>1 DEF TypeInv, TypeOK, Reserved, CreateRequest, RequestRow, Status
<1>2. ASSUME NEW w \in Workers, NEW r \in Requests, BeginApiPost(w, r)
      PROVE  TypeInv'
  <2> DEFINE first == IF request[r].status = "ABSENT"
                      THEN [status |-> "RECEIVED", result |-> None]
                      ELSE None
             new == [Idle EXCEPT !.pc = "pick", !.kind = "api", !.todo = {r},
                                 !.rows[r] = first]
  <2>1. first \in RequestRow \cup {None}
    BY DEF RequestRow, Status
  <2>2. new \in Transaction /\ new.pc = "pick"
    BY <2>1, IdleType DEF Transaction
  <2>3. tx' = [tx EXCEPT ![w] = new]
    BY <1>2 DEF BeginApiPost
  <2> QED BY <1>2, <2>2, <2>3, <1>0 DEF BeginApiPost
<1>3. ASSUME NEW w \in Workers, NEW r \in Requests, BeginRetry(w, r)
      PROVE  TypeInv'
  <2> DEFINE new == [Idle EXCEPT !.pc = "reopen", !.kind = "job", !.cur = r]
  <2>1. new \in Transaction /\ new.cur \in Requests /\ new.pc = "reopen"
    BY IdleType DEF Transaction
  <2> QED BY <1>3, <2>1, <1>0 DEF BeginRetry
<1>4. ASSUME NEW w \in Workers, BeginBatch(w) PROVE TypeInv'
  <2> DEFINE new == [Idle EXCEPT !.pc = "pick", !.kind = "job", !.todo = NextBatch]
  <2>1. new \in Transaction /\ new.pc = "pick"
    BY IdleType DEF Transaction, NextBatch, Pending
  <2> QED BY <1>4, <2>1, <1>0 DEF BeginBatch
<1>5. ASSUME NEW w \in Workers, Reopen(w) PROVE TypeInv'
  <2> DEFINE t == tx[w]
             fresh == [status |-> "RECEIVED", result |-> None]
             new == [t EXCEPT !.pc = "register", !.rows[t.cur] = fresh]
  <2>1. Types(t) /\ t.cur \in Requests
    BY <1>5, <1>t DEF Reopen, At
  <2>2. fresh \in RequestRow
    BY DEF RequestRow, Status
  <2>3. Types(new)
    BY <2>1, <2>2 DEF Transaction
  <2>4. tx' = [tx EXCEPT ![w] = new]
    BY <1>5, <1>o, <2>1 DEF Reopen, TypeOK, Transaction
  <2> QED BY <1>5, <2>3, <2>4, <1>0 DEF Reopen
<1>6. ASSUME NEW w \in Workers, Pick(w) PROVE TypeInv'
  BY <1>6, SMTT(30) DEF TypeInv, TypeOK, Reserved, Pick, Transaction
<1>r. ASSUME NEW w \in Workers, NEW t \in Transaction, Raise(w, t)
      PROVE  TypeInv'
  <2>1. Types([t EXCEPT !.pc = "pick"])
    BY <1>r DEF Transaction
  <2> QED BY <1>r, <2>1, <1>0, <1>i DEF Raise
<1>f. ASSUME NEW w \in Workers, NEW t \in Transaction, t.cur \in Requests,
             Fail(w, t)
      PROVE  TypeInv'
  <2>1. [t EXCEPT !.rows[t.cur] = [status |-> "FAILED", result |-> None]]
          \in Transaction
    BY <1>f, FailedType
  <2> QED BY <1>f, <2>1, <1>r DEF Fail
<1>7. ASSUME NEW w \in Workers, Register(w) PROVE TypeInv'
  <2> DEFINE t == tx[w]
  <2>1. Types(t) /\ t.cur \in Requests
    BY <1>7, <1>t, Zenon DEF Register, At
  <2>2. CASE tx' = [tx EXCEPT ![w].pc = "validate", ![w].keys[KeyOf[t.cur]] = t.cur]
             /\ UNCHANGED <<request, idem, part, outbox, aborts>>
    BY <2>1, <2>2 DEF TypeInv, TypeOK, Reserved, Transaction
  <2>3. CASE tx' = [tx EXCEPT ![w].pc = "validate"]
             /\ UNCHANGED <<request, idem, part, outbox, aborts>>
    BY <2>1, <2>3 DEF TypeInv, TypeOK, Reserved, Transaction
  <2>4. CASE Raise(w, t)
    BY <2>1, <2>4, <1>r
  <2> QED BY <1>7, <2>2, <2>3, <2>4, ZenonT(30) DEF Register
<1>8. ASSUME NEW w \in Workers, Validate(w) PROVE TypeInv'
  <2> DEFINE t == tx[w]
             open == [t EXCEPT !.pc = "read",
                        !.rows[t.cur] = [status |-> "VALIDATING", result |-> None]]
  <2>1. Types(t) /\ t.cur \in Requests
    BY <1>8, <1>t DEF Validate, At
  <2>2. Types(open)
    BY <2>1, Zenon DEF Transaction, RequestRow, Status
  <2>3. CASE Fail(w, t)
    BY <2>1, <2>3, <1>f, SMTT(30)
  <2> QED BY <1>8, <2>2, <2>3, <1>0 DEF Validate
<1>9. ASSUME NEW w \in Workers, ReadPartition(w) PROVE TypeInv'
  <2> DEFINE t == tx[w]
             p == PartitionOf[t.cur]
             row == View(w, p)
             new == [t EXCEPT
                       !.pc = "reserve",
                       !.snap = [seq |-> row.seq, last |-> row.last],
                       !.parts[p] = IF row.made THEN t.parts[p]
                                    ELSE [row EXCEPT !.made = TRUE]]
  <2>1. Types(t) /\ t.cur \in Requests
    BY <1>9, <1>t DEF ReadPartition, At
  <2>2. p \in Partitions /\ row \in PartitionRow
    BY <1>o, <2>1, ViewType
  <2>3. [row EXCEPT !.made = TRUE] \in PartitionRow
    BY <2>2 DEF PartitionRow
  <2>4. Types(new)
    BY <2>1, <2>2, <2>3, ZenonT(30) DEF Transaction, Snapshot, PartitionRow
  <2>5. tx' = [tx EXCEPT ![w] = new]
    BY <1>9, <1>o, <2>1 DEF ReadPartition, TypeOK, Transaction
  <2> QED BY <1>9, <2>4, <2>5, <1>0 DEF ReadPartition
<1>10. ASSUME NEW w \in Workers, Reserve(w) PROVE TypeInv'
  <2> DEFINE t == tx[w]
             p == PartitionOf[t.cur]
             new == [t EXCEPT
                       !.pc = "persist",
                       !.parts[p] = [View(w, p) EXCEPT !.seq = t.snap.seq + 1]]
  <2>1. Types(t) /\ t.cur \in Requests
    BY <1>10, <1>t DEF Reserve, At
  <2>2. p \in Partitions /\ View(w, p) \in PartitionRow
    BY <1>o, <2>1, ViewType
  <2>3. t.snap.seq + 1 \in 0..MaxSeq
    BY <1>10, <2>1 DEF Reserve, Transaction, Snapshot
  <2>4. [View(w, p) EXCEPT !.seq = t.snap.seq + 1] \in PartitionRow
    BY <2>2, <2>3, SMTT(30) DEF PartitionRow
  <2>5. Types(new)
    <3>1. t.snap.seq < MaxSeq
      BY <1>10 DEF Reserve
    <3>2. [View(w, p) EXCEPT !.seq = t.snap.seq + 1] # None
      BY <2>4, NoneAssumption
    <3> QED BY <2>1, <2>2, <2>4, <3>1, <3>2 DEF Transaction
  <2>6. tx' = [tx EXCEPT ![w] = new]
    BY <1>10, <1>o, <2>1 DEF Reserve, TypeOK, Transaction
  <2> QED BY <1>10, <2>5, <2>6, <1>0 DEF Reserve
<1>11. ASSUME NEW w \in Workers, Persist(w) PROVE TypeInv'
  <2> DEFINE t == tx[w]
             r == t.cur
             p == PartitionOf[r]
             n == t.snap.seq + 1
             row == t.parts[p]
             inserted == [row EXCEPT !.moves[n] = [req |-> r, prev |-> t.snap.last]]
             partial == [t EXCEPT !.parts[p] = inserted]
             new == [t EXCEPT
                       !.pc = "pick",
                       !.parts[p] = [inserted EXCEPT !.last = <<n, r>>],
                       !.rows[r] = [status |-> "POSTED", result |-> <<p, n>>],
                       !.events = t.events \cup {<<p, n>>}]
  <2>1. Types(t) /\ t.pc = "persist" /\ r \in Requests /\ p \in Partitions
    BY <1>11, <1>t, Zenon DEF Persist, At
  <2>6. row \in PartitionRow /\ n \in Seqs /\ t.snap.last \in Digest \cup {None}
    BY <2>1 DEF Transaction, Snapshot, Seqs
  <2>7. [req |-> r, prev |-> t.snap.last] \in Movement
    BY <2>1, <2>6 DEF Movement
  <2>8. inserted \in PartitionRow
    BY <2>6, <2>7, ZenonT(30) DEF PartitionRow
  <2>9. [inserted EXCEPT !.last = <<n, r>>] \in PartitionRow
    BY <2>1, <2>6, <2>8, Zenon DEF PartitionRow, Digest
  <2>2. CASE Fail(w, t)
    BY <2>1, <2>2, <1>f
  <2>3. CASE tx' = [tx EXCEPT ![w] = Idle]
             /\ UNCHANGED <<request, idem, part, outbox, aborts>>
    BY <2>3, <1>i, <1>0
  <2>4. CASE Fail(w, partial)
    <3>1. partial \in Transaction /\ partial.cur \in Requests
      BY <2>1, <2>8, Zenon DEF Transaction
    <3> QED BY <2>4, <3>1, <1>f, Zenon
  <2>5. CASE tx' = [tx EXCEPT ![w] = new]
             /\ UNCHANGED <<request, idem, part, outbox, aborts>>
    <3>1. [status |-> "POSTED", result |-> <<p, n>>] \in RequestRow
      BY <2>1, <2>6 DEF RequestRow, Status, MovementId
    <3>2. t.events \cup {<<p, n>>} \in SUBSET MovementId
      BY <2>1, <2>6 DEF Transaction, MovementId
    <3>3. new \in Transaction /\ new.pc = "pick"
      BY <2>1, <2>9, <3>1, <3>2, Zenon DEF Transaction
    <3> QED BY <2>5, <3>3, <1>0
  <2> QED BY <1>11, <2>2, <2>3, <2>4, <2>5, Zenon DEF Persist, Duplicate, BindLast, EmitOutbox
<1>12. ASSUME NEW w \in Workers, Commit(w) PROVE TypeInv'
  <2> DEFINE t == tx[w]
  <2>1. Types(t)
    BY <1>t
  <2>2. request' \in [Requests -> RequestRow]
    <3>1. ASSUME NEW r \in Requests PROVE Written(request[r], t.rows[r]) \in RequestRow
      BY <1>o, <2>1 DEF Written, TypeOK, Transaction, RequestRow
    <3> QED BY <1>12, <3>1 DEF Commit
  <2>3. idem' \in [Keys -> Requests \cup {None}]
    BY <1>12, <1>o, <2>1 DEF Commit, TypeOK, Transaction
  <2>4. part' \in [Partitions -> PartitionRow]
    BY <1>12, <1>o, ViewType DEF Commit
  <2>5. outbox' \subseteq [movement: MovementId, status: {"PENDING", "PUBLISHED"}]
    BY <1>12, <1>o, <2>1 DEF Commit, TypeOK, Transaction
  <2>6. PICK losers \in SUBSET Rivals(w) :
          tx' = [v \in Workers |-> IF v = w \/ v \in losers THEN Idle ELSE tx[v]]
    BY <1>12 DEF Commit
  <2>7. \A v \in Workers : Types(tx'[v])
    BY <2>6, <1>i, <1>t
  <2>8. aborts' \in 0..MaxAborts
    BY <1>12, <1>o DEF Commit, TypeOK
  <2> QED BY <2>2, <2>3, <2>4, <2>5, <2>6, <2>7, <2>8 DEF TypeInv, TypeOK, Reserved
<1>13. ASSUME NEW w \in Workers, DeadlockVictim(w) \/ Crash(w) PROVE TypeInv'
  <2>1. aborts' \in 0..MaxAborts
    BY <1>13 DEF DeadlockVictim, Crash, TypeInv, TypeOK, Reserved
  <2>2. tx' = [tx EXCEPT ![w] = Idle] /\ UNCHANGED <<request, idem, part, outbox>>
    BY <1>13 DEF DeadlockVictim, Crash, Rollback
  <2> QED BY <2>1, <2>2, <1>i DEF TypeInv, TypeOK, Reserved
<1>14. ASSUME ProcessOutbox PROVE TypeInv'
  BY <1>14 DEF TypeInv, TypeOK, Reserved, ProcessOutbox
<1>15. ASSUME UNCHANGED vars PROVE TypeInv'
  BY <1>15 DEF TypeInv, TypeOK, Reserved, vars
<1> QED BY <1>1, <1>2, <1>3, <1>4, <1>5, <1>6, <1>7, <1>8, <1>9, <1>10, <1>11,
           <1>12, <1>13, <1>14, <1>15 DEF Next, Step

LEMMA InitTypes == Init => TypeInv
<1> SUFFICES ASSUME Init PROVE TypeInv
  OBVIOUS
<1>1. request \in [Requests -> RequestRow]
  BY DEF Init, RequestRow, Status
<1>2. part \in [Partitions -> PartitionRow]
  BY BoundAssumption DEF Init, PartitionRow
<1>3. \A w \in Workers : tx[w] \in Transaction /\ tx[w].pc = "idle"
  BY IdleType DEF Init, Idle
<1>4. tx \in [Workers -> Transaction]
  BY <1>3 DEF Init
<1>5. /\ idem \in [Keys -> Requests \cup {None}]
      /\ outbox = {}
      /\ aborts \in 0..MaxAborts
  BY BoundAssumption DEF Init
<1>6. TypeOK
  BY <1>1, <1>2, <1>3, <1>4, <1>5 DEF TypeOK
<1>7. QED
  BY <1>3, <1>6 DEF TypeInv, Reserved

\* Type correctness of the ledger, for any number of sessions and events.
THEOREM TypeCorrect == Spec => []TypeOK
BY InitTypes, TypeStep, PTL DEF Spec, TypeInv
-----------------------------------------------------------------------------
(* The book is append only, for every payload and any number of sessions:  *)
(* at most one session holds an uncommitted version of a partition row,    *)
(* because a row is taken only when no other session has it, and that      *)
(* version keeps the committed movements, because a movement is only       *)
(* inserted where there is none.  A commit then replaces the committed row *)
(* by one that keeps all of it.                                            *)

\* What a step does to the committed rows.
BookKept == \A p \in Partitions : Keeps(part'[p], part[p])

\* Sessions that only drop uncommitted rows.
LEMMA DropsRows ==
  ASSUME AppendInv, part' = part,
         \A v \in Workers, p \in Partitions :
           tx'[v].parts[p] \in {None, tx[v].parts[p]}
  PROVE  (Exclusive /\ BuildsOnBook)' /\ BookKept
<1>1. \A v \in Workers, p \in Partitions :
        tx'[v].parts[p] # None => tx'[v].parts[p] = tx[v].parts[p]
  OBVIOUS
<1>2. Exclusive'
  BY <1>1 DEF AppendInv, Exclusive
<1>3. BuildsOnBook'
  BY <1>1 DEF AppendInv, BuildsOnBook
<1>4. BookKept
  BY DEF BookKept, Keeps
<1>5. QED
  BY <1>2, <1>3, <1>4

\* A session that writes a row no other session has.
LEMMA WritesRow ==
  ASSUME AppendInv, NEW w \in Workers, NEW p \in Partitions, part' = part,
         \A v \in Workers \ {w} : tx'[v] = tx[v] /\ tx[v].parts[p] = None,
         \A q \in Partitions \ {p} : tx'[w].parts[q] = tx[w].parts[q],
         Keeps(tx'[w].parts[p], part[p])
  PROVE  (Exclusive /\ BuildsOnBook)' /\ BookKept
<1>1. Exclusive'
  BY DEF AppendInv, Exclusive
<1>2. BuildsOnBook'
  BY DEF AppendInv, BuildsOnBook
<1>3. BookKept
  BY DEF BookKept, Keeps
<1>4. QED
  BY <1>1, <1>2, <1>3

\* What a session sees of a row keeps the committed movements.
LEMMA ViewKeeps ==
  ASSUME AppendInv, NEW w \in Workers, NEW p \in Partitions
  PROVE  Keeps(View(w, p), part[p])
BY DEF AppendInv, BuildsOnBook, View, Keeps

\* A step of w that neither writes nor reserves in a partition row.
Quiet(w) ==
  /\ part' = part
  /\ \E t : /\ tx' = [tx EXCEPT ![w] = t]
            /\ t.parts \in {tx[w].parts, Idle.parts}
            /\ t.pc \notin {"reserve", "persist"}

LEMMA QuietSteps ==
  ASSUME TypeOK, NEW w \in Workers
  PROVE  /\ Fail(w, tx[w]) /\ tx[w].cur \in Requests => Quiet(w)
         /\ \A r \in Requests : BeginApiPost(w, r) \/ BeginRetry(w, r) => Quiet(w)
         /\ BeginBatch(w) \/ Reopen(w) \/ Pick(w) \/ Register(w) => Quiet(w)
         /\ Validate(w) \/ DeadlockVictim(w) \/ Crash(w) => Quiet(w)
<1>w. tx \in [Workers -> Transaction] /\ tx[w] \in Transaction
  BY DEF TypeOK
<1>i. Idle.pc = "idle"
  BY DEF Idle
<1>0. ASSUME NEW t, tx' = [tx EXCEPT ![w] = t], part' = part,
             t.parts = tx[w].parts \/ t.parts = Idle.parts,
             t.pc \notin {"reserve", "persist"}
      PROVE  Quiet(w)
  BY <1>0 DEF Quiet
<1>1. ASSUME NEW t \in Transaction, t.parts = tx[w].parts,
             Raise(w, t)
      PROVE  Quiet(w)
  <2>1. [t EXCEPT !.pc = "pick"].parts = tx[w].parts /\ [t EXCEPT !.pc = "pick"].pc = "pick"
    BY <1>1 DEF Transaction
  <2>2. part' = part
    BY <1>1 DEF Raise
  <2>3. CASE tx' = [tx EXCEPT ![w] = Idle]
    BY <2>2, <2>3, <1>0, <1>i
  <2>4. CASE tx' = [tx EXCEPT ![w] = [t EXCEPT !.pc = "pick"]]
    BY <2>1, <2>2, <2>4, <1>0
  <2> QED BY <1>1, <2>3, <2>4 DEF Raise
<1>2. ASSUME tx[w].cur \in Requests, Fail(w, tx[w])
      PROVE  Quiet(w)
  <2> DEFINE t == [tx[w] EXCEPT !.rows[tx[w].cur] =
                     [status |-> "FAILED", result |-> None]]
  <2>1. t \in Transaction /\ t.parts = tx[w].parts
    BY <1>2, <1>w, FailedType
  <2> QED BY <1>2, <2>1, <1>1 DEF Fail
<1>3. ASSUME NEW r \in Requests, BeginApiPost(w, r)
      PROVE  Quiet(w)
  <2> DEFINE t == [Idle EXCEPT !.pc = "pick", !.kind = "api", !.todo = {r},
                     !.rows[r] = IF request[r].status = "ABSENT"
                                 THEN [status |-> "RECEIVED", result |-> None]
                                 ELSE None]
  <2>1. t.parts = Idle.parts /\ t.pc \notin {"reserve", "persist"}
    BY DEF Idle
  <2> QED BY <1>3, <2>1, <1>0 DEF BeginApiPost
<1>4. ASSUME NEW r \in Requests, BeginRetry(w, r)
      PROVE  Quiet(w)
  <2> DEFINE t == [Idle EXCEPT !.pc = "reopen", !.kind = "job", !.cur = r]
  <2>1. t.parts = Idle.parts /\ t.pc \notin {"reserve", "persist"}
    BY DEF Idle
  <2> QED BY <1>4, <2>1, <1>0 DEF BeginRetry
<1>5. ASSUME BeginBatch(w) PROVE Quiet(w)
  <2> DEFINE t == [Idle EXCEPT !.pc = "pick", !.kind = "job",
                     !.todo = NextBatch]
  <2>1. t.parts = Idle.parts /\ t.pc \notin {"reserve", "persist"}
    BY DEF Idle
  <2> QED BY <1>5, <2>1, <1>0 DEF BeginBatch
<1>6. ASSUME Reopen(w) PROVE Quiet(w)
  <2> DEFINE t == [tx[w] EXCEPT !.pc = "register",
                     !.rows[tx[w].cur] = [status |-> "RECEIVED", result |-> None]]
  <2>1. /\ t.parts = tx[w].parts /\ tx' = [tx EXCEPT ![w] = t]
        /\ t.pc = "register"
    BY <1>6, <1>w DEF Reopen, Transaction
  <2> QED BY <1>6, <2>1, <1>0 DEF Reopen
<1>7. ASSUME Pick(w) PROVE Quiet(w)
  <2>1. PICK r \in tx[w].todo :
          tx' = [tx EXCEPT ![w].pc = "register", ![w].cur = r,
                           ![w].todo = tx[w].todo \ {r}]
    BY <1>7 DEF Pick
  <2> DEFINE t == [tx[w] EXCEPT !.pc = "register", !.cur = r,
                                !.todo = tx[w].todo \ {r}]
  <2>2. /\ t.parts = tx[w].parts /\ tx' = [tx EXCEPT ![w] = t]
        /\ t.pc = "register"
    BY <2>1, <1>w, SMTT(30) DEF Transaction
  <2> QED BY <1>7, <2>2, <1>0 DEF Pick
<1>8. ASSUME Register(w) PROVE Quiet(w)
  <2> DEFINE key == KeyOf[tx[w].cur]
             known == [tx[w] EXCEPT !.pc = "validate"]
             new == [tx[w] EXCEPT !.pc = "validate", !.keys[key] = tx[w].cur]
  <2>1. /\ known.parts = tx[w].parts /\ known.pc = "validate"
        /\ new.parts = tx[w].parts /\ new.pc = "validate"
    BY <1>w DEF Transaction
  <2>2. CASE tx' = [tx EXCEPT ![w] = new] /\ part' = part
    BY <2>1, <2>2, <1>0
  <2>3. CASE tx' = [tx EXCEPT ![w] = known] /\ part' = part
    BY <2>1, <2>3, <1>0
  <2>4. CASE Raise(w, tx[w])
    BY <2>4, <1>1, <1>w
  <2> QED BY <1>8, <1>w, <2>2, <2>3, <2>4 DEF Register
<1>9. ASSUME Validate(w) PROVE Quiet(w)
  <2> DEFINE open == [tx[w] EXCEPT !.pc = "read",
                        !.rows[tx[w].cur] =
                           [status |-> "VALIDATING", result |-> None]]
  <2>1. /\ open.parts = tx[w].parts /\ open.pc = "read"
        /\ tx[w].cur \in Requests
    BY <1>9, <1>w DEF Transaction, Validate, At, TypeOK
  <2>2. CASE Fail(w, tx[w])
    BY <2>1, <2>2, <1>2
  <2> QED BY <1>9, <2>1, <2>2, <1>0 DEF Validate
<1>10. ASSUME DeadlockVictim(w) \/ Crash(w) PROVE Quiet(w)
  BY <1>10, <1>0, <1>i DEF DeadlockVictim, Crash, Rollback
<1>11. QED
  BY <1>2, <1>3, <1>4, <1>5, <1>6, <1>7, <1>8, <1>9, <1>10

LEMMA AppendStep ==
  ASSUME AppendInv, [Next]_vars
  PROVE  (Exclusive /\ BuildsOnBook)' /\ BookKept
<1> DEFINE Goal == (Exclusive /\ BuildsOnBook)' /\ BookKept
<1>t. TypeOK /\ Reserved
  BY DEF AppendInv, TypeInv
<1>w. /\ tx \in [Workers -> Transaction]
      /\ \A w \in Workers :
           tx[w].parts \in [Partitions -> PartitionRow \cup {None}]
  BY <1>t DEF TypeOK, Transaction
<1>i. \A p \in Partitions : Idle.parts[p] = None
  BY DEF Idle
<1>0. ASSUME UNCHANGED <<tx, part>> PROVE Goal
  BY <1>0 DEF AppendInv, Exclusive, BuildsOnBook, BookKept, Keeps
<1>1. ASSUME NEW w \in Workers, NEW t, tx' = [tx EXCEPT ![w] = t], part' = part,
             t.parts = tx[w].parts \/ t.parts = Idle.parts
      PROVE  Goal
  <2>1. ASSUME NEW v \in Workers, NEW p \in Partitions
        PROVE  tx'[v].parts[p] \in {None, tx[v].parts[p]}
    <3>1. CASE v = w
      BY <1>1, <1>i, <1>w, <3>1
    <3>2. CASE v # w
      BY <1>1, <1>w, <3>2
    <3> QED BY <3>1, <3>2
  <2> QED BY <1>1, <2>1, DropsRows
<1>2. ASSUME NEW w \in Workers, Quiet(w) PROVE Goal
  BY <1>2, <1>1 DEF Quiet
<1>3. ASSUME NEW w \in Workers, NEW p \in Partitions, NEW row, NEW t,
              tx' = [tx EXCEPT ![w] = t], part' = part,
              t.parts = [tx[w].parts EXCEPT ![p] = row],
              \A v \in Workers \ {w} : tx[v].parts[p] = None,
              Keeps(row, part[p])
       PROVE  Goal
  <2>1. tx'[w].parts[p] = row
    BY <1>3, <1>w
  <2>2. \A q \in Partitions \ {p} : tx'[w].parts[q] = tx[w].parts[q]
    BY <1>3, <1>w
  <2>3. \A v \in Workers \ {w} : tx'[v] = tx[v]
    BY <1>3, <1>w
  <2> QED BY <1>3, <2>1, <2>2, <2>3, WritesRow
<1>4. ASSUME NEW w \in Workers, ReadPartition(w) PROVE Goal
  <2> DEFINE t == tx[w]
             p == PartitionOf[t.cur]
             row == View(w, p)
             made == [row EXCEPT !.made = TRUE]
             snap == [seq |-> row.seq, last |-> row.last]
             read == [t EXCEPT !.pc = "reserve", !.snap = snap,
                               !.parts[p] = IF row.made THEN t.parts[p] ELSE made]
  <2>1. /\ t.pc = "read" /\ WaitsFor(w) = {} /\ part' = part
        /\ tx' = [tx EXCEPT ![w] = read]
    <3>1. t.pc = "read" /\ WaitsFor(w) = {} /\ part' = part
      BY <1>4 DEF ReadPartition, At
    <3>2. tx' = [tx EXCEPT ![w].pc = "reserve", ![w].snap = snap,
                           ![w].parts[p] = IF row.made THEN t.parts[p] ELSE made]
      BY <1>4 DEF ReadPartition
    <3>3. tx' = [tx EXCEPT ![w] = read]
      BY <3>2, <1>w, ZenonT(30)
    <3> QED BY <3>1, <3>3
  <2>2. p \in Partitions /\ row \in PartitionRow
    BY <2>1, <1>t, ViewType, PayloadAssumption DEF TypeOK
  <2>3. CASE row.made
    <3>1. read.parts = t.parts
      BY <2>2, <2>3, <1>w, SMTT(30) DEF Transaction
    <3> QED BY <2>1, <3>1, <1>1
  <2>4. CASE ~row.made
    <3>1. read.parts = [t.parts EXCEPT ![p] = made]
      BY <2>2, <2>4, <1>w DEF Transaction
    <3>2. \A v \in Workers \ {w} : tx[v].parts[p] = None
      BY <2>1, <2>4 DEF WaitsFor
    <3>3. Keeps(made, part[p])
      BY <2>2, ViewKeeps DEF Keeps, PartitionRow
    <3> QED BY <2>1, <2>2, <3>1, <3>2, <3>3, <1>3, Zenon
  <2> QED BY <2>3, <2>4
<1>5. ASSUME NEW w \in Workers, Reserve(w) PROVE Goal
  <2> DEFINE t == tx[w]
             p == PartitionOf[t.cur]
             row == [View(w, p) EXCEPT !.seq = t.snap.seq + 1]
             new == [t EXCEPT !.pc = "persist", !.parts[p] = row]
  <2>1. /\ t.pc = "reserve" /\ WaitsFor(w) = {} /\ part' = part
        /\ tx' = [tx EXCEPT ![w] = new]
    BY <1>5, <1>w DEF Reserve, At
  <2>2. p \in Partitions /\ View(w, p) \in PartitionRow
    BY <2>1, <1>t, ViewType, PayloadAssumption DEF TypeOK
  <2>3. new.parts = [t.parts EXCEPT ![p] = row]
    BY <1>w DEF Transaction
  <2>4. \A v \in Workers \ {w} : tx[v].parts[p] = None
    BY <2>1 DEF WaitsFor
  <2>5. Keeps(row, part[p])
    <3>1. row.moves = View(w, p).moves
      BY <2>2 DEF PartitionRow
    <3> QED BY <2>2, <3>1, ViewKeeps DEF Keeps
  <2> QED BY <2>1, <2>2, <2>3, <2>4, <2>5, <1>3
<1>6. ASSUME NEW w \in Workers, Persist(w) PROVE Goal
  <2> DEFINE t == tx[w]
             r == t.cur
             p == PartitionOf[r]
             n == t.snap.seq + 1
             row == t.parts[p]
             inserted == [row EXCEPT !.moves[n] = [req |-> r, prev |-> t.snap.last]]
             bound == [inserted EXCEPT !.last = <<n, r>>]
             partial == [t EXCEPT !.parts[p] = inserted]
             failed == [partial EXCEPT !.rows[r] =
                          [status |-> "FAILED", result |-> None]]
             new == [t EXCEPT
                       !.pc = "pick",
                       !.parts[p] = bound,
                       !.rows[r] = [status |-> "POSTED", result |-> <<p, n>>],
                       !.events = t.events \cup {<<p, n>>}]
  <2>1. /\ r \in Requests /\ p \in Partitions
        /\ row \in PartitionRow /\ row # None
        /\ n \in Seqs
    <3>1. t.pc = "persist" /\ t \in Transaction
      BY <1>6, <1>w DEF Persist, At
    <3>2. r \in Requests /\ p \in Partitions
      BY <3>1, <1>t, PayloadAssumption DEF TypeOK
    <3>3. row # None /\ t.snap.seq < MaxSeq
      BY <3>1, <1>t DEF Reserved
    <3>4. row \in PartitionRow
      BY <3>1, <3>2, <3>3 DEF Transaction
    <3>5. n \in Seqs
      BY <3>1, <3>3, BoundAssumption DEF Transaction, Snapshot, Seqs
    <3> QED BY <3>2, <3>3, <3>4, <3>5, SMTT(30)
  <2>2. \A v \in Workers \ {w} : tx[v].parts[p] = None
    BY <2>1, ZenonT(30) DEF AppendInv, Exclusive
  <2>3. ASSUME row.moves[n] = None
        PROVE  Keeps(inserted, part[p]) /\ Keeps(bound, part[p])
    <3>1. Keeps(row, part[p])
      BY <2>1 DEF AppendInv, BuildsOnBook
    <3>2. \A m \in Seqs : m # n => /\ inserted.moves[m] = row.moves[m]
                                  /\ bound.moves[m] = row.moves[m]
      BY <2>1 DEF PartitionRow
    <3> QED BY <2>3, <3>1, <3>2 DEF Keeps
  <2>4. CASE Fail(w, t)
    BY <2>1, <2>4, <1>t, <1>2, QuietSteps
  <2>5. CASE tx' = [tx EXCEPT ![w] = Idle] /\ part' = part
    BY <2>5, <1>1
  <2>6. CASE row.moves[n] = None /\ Fail(w, partial)
    <3>1. partial.parts = [t.parts EXCEPT ![p] = inserted] /\ partial.cur = r
      BY <1>w DEF Transaction
    <3>2. [failed EXCEPT !.pc = "pick"].parts = [t.parts EXCEPT ![p] = inserted]
      <4>1. t \in Transaction
        BY <1>w
      <4> HIDE DEF t, inserted
      <4> QED BY <4>1 DEF Transaction
    <3>3. CASE tx' = [tx EXCEPT ![w] = Idle] /\ part' = part
      BY <3>3, <1>1
    <3>4. CASE tx' = [tx EXCEPT ![w] = [failed EXCEPT !.pc = "pick"]] /\ part' = part
      <4> DEFINE next == [failed EXCEPT !.pc = "pick"]
      <4>1. /\ next.parts = [tx[w].parts EXCEPT ![p] = inserted]
            /\ tx' = [tx EXCEPT ![w] = next] /\ Keeps(inserted, part[p])
        BY <2>3, <2>6, <3>2, <3>4, Zenon
      <4> HIDE DEF next, inserted
      <4> QED BY <2>1, <2>2, <3>4, <4>1, <1>3, Zenon
    <3> QED BY <2>6, <3>1, <3>3, <3>4 DEF Fail, Raise
  <2>7. CASE row.moves[n] = None /\ tx' = [tx EXCEPT ![w] = new] /\ part' = part
    <3>1. new.parts = [t.parts EXCEPT ![p] = bound]
      <4>1. t \in Transaction
        BY <1>w
      <4> HIDE DEF t, r, p, n, bound
      <4> QED BY <4>1 DEF Transaction
    <3>2. Keeps(bound, part[p]) /\ tx' = [tx EXCEPT ![w] = new] /\ part' = part
      BY <2>3, <2>7, Zenon
    <3> HIDE DEF new, bound
    <3> QED BY <2>1, <2>2, <3>1, <3>2, <1>3, Zenon
  <2> QED BY <1>6, <2>4, <2>5, <2>6, <2>7, Zenon DEF Persist, Duplicate, BindLast, EmitOutbox
<1>7. ASSUME NEW w \in Workers, Commit(w) PROVE Goal
  <2>1. PICK losers \in SUBSET Rivals(w) :
          tx' = [v \in Workers |-> IF v = w \/ v \in losers THEN Idle ELSE tx[v]]
    BY <1>7 DEF Commit
  <2>2. part' = [p \in Partitions |-> View(w, p)]
    BY <1>7 DEF Commit
  <2>3. BookKept
    BY <2>2, ViewKeeps DEF BookKept
  <2>4. Exclusive'
    BY <2>1, <1>i DEF AppendInv, Exclusive
  <2>5. ASSUME NEW v \in Workers, NEW p \in Partitions, tx'[v].parts[p] # None
        PROVE  Keeps(tx'[v].parts[p], part'[p])
    <3>1. v # w /\ tx'[v] = tx[v]
      BY <2>1, <2>5, <1>i
    <3>2. tx[w].parts[p] = None
      BY <2>5, <3>1 DEF AppendInv, Exclusive
    <3>3. part'[p] = part[p]
      BY <2>2, <3>2 DEF View
    <3> QED BY <2>5, <3>1, <3>3 DEF AppendInv, BuildsOnBook
  <2> QED BY <2>3, <2>4, <2>5 DEF BuildsOnBook
<1>8. ASSUME NEW w \in Workers, Step(w) \/ BeginBatch(w) \/ DeadlockVictim(w) \/ Crash(w)
      PROVE  Goal
  BY <1>8, <1>t, <1>2, <1>4, <1>5, <1>6, <1>7, QuietSteps DEF Step
<1>9. ASSUME NEW w \in Workers, NEW r \in Requests, BeginApiPost(w, r) \/ BeginRetry(w, r)
      PROVE  Goal
  BY <1>9, <1>t, <1>2, QuietSteps
<1>10. CASE UNCHANGED vars \/ ProcessOutbox \/ \E r \in Requests : CreateRequest(r)
  BY <1>10, <1>0 DEF vars, ProcessOutbox, CreateRequest
<1>11. QED
  BY <1>8, <1>9, <1>10 DEF Next

\* Every reachable state satisfies the invariant.
THEOREM AppendInvariant == Spec => []AppendInv
<1>1. Init => AppendInv
  <2> SUFFICES ASSUME Init PROVE AppendInv
    OBVIOUS
  <2>1. \A w \in Workers, p \in Partitions : tx[w].parts[p] = None
    BY DEF Init, Idle
  <2> QED BY <2>1, InitTypes DEF AppendInv, Exclusive, BuildsOnBook
<1>2. AppendInv /\ [Next]_vars => AppendInv'
  BY TypeStep, AppendStep DEF AppendInv
<1>3. QED
  BY <1>1, <1>2, PTL DEF Spec

\* A movement in the book never changes and never goes away, whatever the
\* payloads are and however the transactions overlap, crash or deadlock.
THEOREM BookIsAppendOnly == Spec => AppendOnly
<1>1. AppendInv /\ [Next]_vars =>
        [\A p \in Partitions, n \in Seqs :
           part[p].moves[n] # None => part'[p].moves[n] = part[p].moves[n]]_vars
  BY AppendStep DEF BookKept, Keeps
<1>2. QED
  BY <1>1, AppendInvariant, PTL DEF Spec, AppendOnly

-----------------------------------------------------------------------------
(* Ledger implements AppendOnlyBook: the book that a reader of the         *)
(* movements sees, number by number up to the first hole, only ever grows  *)
(* at its end.                                                             *)

\* The first hole of a row exists: take the least number with none after it.
LEMMA TopExists ==
  ASSUME NEW row
  PROVE  /\ Top(row) \in 0..MaxSeq
         /\ \A m \in 1..Top(row) : row.moves[m] # None
         /\ Top(row) < MaxSeq => row.moves[Top(row) + 1] = None
<1> USE BoundAssumption
<1> DEFINE holes == {n \in 0..MaxSeq : n < MaxSeq => row.moves[n + 1] = None}
<1>1. holes \subseteq Nat /\ holes # {}
  <2>1. MaxSeq \in holes
    OBVIOUS
  <2> QED BY <2>1
<1>2. PICK n \in holes : \A m \in holes : ~(<<m, n>> \in OpToRel(<, Nat))
  <2> HIDE DEF holes
  <2> QED BY <1>1, NatLessThanWellFounded, WFMin
<1>3. \A m \in holes : ~(m < n)
  BY <1>1, <1>2 DEF OpToRel
<1>4. \A m \in 1..n : row.moves[m] # None
  <2> SUFFICES ASSUME NEW m \in 1..n, row.moves[m] = None PROVE FALSE
    OBVIOUS
  <2>1. m - 1 \in 0..MaxSeq /\ m - 1 < n /\ (m - 1) + 1 = m
    OBVIOUS
  <2>2. m - 1 \in holes
    BY <2>1
  <2> QED BY <2>1, <2>2, <1>3
<1>5. n \in 0..MaxSeq /\ (n < MaxSeq => row.moves[n + 1] = None)
  OBVIOUS
<1>6. QED
  BY <1>4, <1>5 DEF Top

LEMMA BookedType ==
  ASSUME NEW row \in PartitionRow
  PROVE  /\ Booked(row) \in Seq(Requests)
         /\ Len(Booked(row)) = Top(row)
         /\ \A n \in 1..Top(row) : Booked(row)[n] = row.moves[n].req
<1>1. Top(row) \in Nat /\ \A n \in 1..Top(row) : n \in Seqs /\ row.moves[n] # None
  BY TopExists, BoundAssumption DEF Seqs
<1>2. \A n \in 1..Top(row) : row.moves[n].req \in Requests
  BY <1>1 DEF PartitionRow, Movement
<1>3. QED
  BY <1>1, <1>2 DEF Booked

LEMMA BookedGrows ==
  ASSUME NEW old \in PartitionRow, NEW new \in PartitionRow, Keeps(new, old)
  PROVE  Book!Extends(Booked(new), Booked(old))
<1>1. /\ Top(old) \in 0..MaxSeq /\ Top(new) \in 0..MaxSeq
      /\ \A n \in 1..Top(old) : n \in Seqs /\ old.moves[n] # None
      /\ Top(new) < MaxSeq => new.moves[Top(new) + 1] = None
  BY TopExists, BoundAssumption DEF Seqs
<1>2. \A n \in 1..Top(old) : new.moves[n] = old.moves[n]
  BY <1>1 DEF Keeps
<1>3. Top(old) <= Top(new)
  <2> SUFFICES ASSUME Top(new) < Top(old) PROVE FALSE
    BY <1>1, BoundAssumption
  <2>1. Top(new) + 1 \in 1..Top(old) /\ Top(new) < MaxSeq
    BY <1>1, BoundAssumption
  <2> QED BY <1>1, <1>2, <2>1
<1>4. \A n \in 1..Top(old) : Booked(new)[n] = Booked(old)[n]
  BY <1>1, <1>2, <1>3, BookedType
<1>5. QED
  BY <1>3, <1>4, BookedType DEF Book!Extends

\* The postings implement the abstract book, for every payload and any number
\* of sessions: the initial book is empty, and a step of Ledger either leaves
\* every partition alone or adds events at the end.
THEOREM LedgerImplementsBook == Spec => ImplementsBook
<1> DEFINE book == [p \in Partitions |-> Booked(part[p])]
<1>1. Init => Book!Init
  <2> SUFFICES ASSUME Init PROVE Book!Init
    OBVIOUS
  <2>1. ASSUME NEW p \in Partitions PROVE Booked(part[p]) = <<>>
    <3>1. part[p] \in PartitionRow /\ \A n \in Seqs : part[p].moves[n] = None
      BY InitTypes DEF Init, TypeInv, TypeOK
    <3>2. Top(part[p]) = 0
      BY <3>1, TopExists, BoundAssumption DEF Seqs
    <3> QED BY <3>1, <3>2, BookedType
  <2> QED BY <2>1 DEF Book!Init
<1>2. TypeOK /\ TypeOK' /\ BookKept => Book!BookEvents
  <2> SUFFICES ASSUME TypeOK, TypeOK', BookKept PROVE Book!BookEvents
    OBVIOUS
  <2>1. \A p \in Partitions : part[p] \in PartitionRow /\ part'[p] \in PartitionRow
    BY DEF TypeOK
  <2>2. book' \in [Partitions -> Seq(Requests)]
    BY <2>1, BookedType
  <2>3. \A p \in Partitions : Book!Extends(book'[p], book[p])
    BY <2>1, BookedGrows DEF BookKept
  <2> QED BY <2>2, <2>3 DEF Book!BookEvents, Book!TypeOK
<1>3. AppendInv /\ AppendInv' /\ [Next]_vars => [Book!BookEvents]_book
  BY <1>2, AppendStep DEF AppendInv, TypeInv
<1>4. QED
  BY <1>1, <1>3, AppendInvariant, PTL DEF Spec, ImplementsBook, Book!Spec
-----------------------------------------------------------------------------
(* The committed book is gapless, hash chained and headed by its last        *)
(* movement, for any number of sessions, as long as payloads are clean:      *)
(* CleanPayloads says what the code does not check; MCLedgerFork.cfg,        *)
(* MCLedgerPartial.cfg and MCLedgerSharedSite.cfg show it is needed.         *)
(*                                                                           *)
(* A posting numbers its movement from a snapshot of the partition that may  *)
(* be stale.  The heart of the argument is Harmless: the slot after a stale  *)
(* snapshot is taken, and then the unique index stops the posting, or the    *)
(* snapshot's last hash still is the row's.                                  *)

-----------------------------------------------------------------------------
(* One partition row *)

LEMMA HeadLemma ==
  ASSUME NEW row \in PartitionRow, Linked(row), Counted(row)
  PROVE  Chained(row) /\ HeadAtTop(row)
<1>1. row.seq \in 0..MaxSeq /\ (row.seq # 0 => row.seq \in Seqs)
  BY BoundAssumption DEF PartitionRow, Seqs
<1>2. CASE row.last = None /\ \A n \in Seqs : row.moves[n] = None
  BY <1>1, <1>2 DEF Linked, Counted, HeadAtTop
<1>3. ASSUME NEW n \in Seqs, row.moves[n] # None,
             row.last = <<n, row.moves[n].req>>,
             \A m \in Seqs : m > n => row.moves[m] = None
      PROVE  HeadAtTop(row)
  <2>1. row.seq <= n
    BY <1>1, <1>3, BoundAssumption DEF Counted, Seqs
  <2> QED BY <1>3, <2>1 DEF HeadAtTop
<1>4. QED
  BY <1>2, <1>3 DEF Linked, Headed

\* Only counter and existence flag differ.
LEMMA SameChain ==
  ASSUME NEW old, NEW new, new.moves = old.moves, new.last = old.last
  PROVE  /\ Linked(old) => Linked(new)
         /\ \A p : Owned(p, old) => Owned(p, new)
         /\ \A snap : Harmless(snap, old) => Harmless(snap, new)
BY DEF Linked, Gapless, Chained, Headed, Owned, Harmless

\* A movement inserted at the slot after a harmless snapshot continues the
\* chain.
LEMMA InsertLemma ==
  ASSUME NEW row \in PartitionRow, Linked(row),
         NEW snap \in Snapshot, snap.seq < MaxSeq, Harmless(snap, row),
         NEW r \in Requests, row.moves[snap.seq + 1] = None,
         NEW new, new.last = <<snap.seq + 1, r>>,
         new.moves[snap.seq + 1] # None,
         new.moves[snap.seq + 1].req = r,
         new.moves[snap.seq + 1].prev = snap.last,
         \A m \in Seqs : m # snap.seq + 1 => new.moves[m] = row.moves[m]
  PROVE  /\ Linked(new)
         /\ Owned(PartitionOf[r], row) => Owned(PartitionOf[r], new)
<1> DEFINE n == snap.seq + 1
<1> USE BoundAssumption DEF Seqs
<1>1. n \in Seqs /\ snap.seq = n - 1 /\ n - 1 \in 0..MaxSeq
  BY DEF Snapshot
<1>2. /\ new.moves[n] # None /\ new.moves[n].req = r /\ new.moves[n].prev = snap.last
      /\ \A m \in Seqs : m # n => new.moves[m] = row.moves[m]
  OBVIOUS
<1>3. /\ \A m \in Seqs : m < n => row.moves[m] # None
      /\ \A m \in Seqs : m > n => row.moves[m] = None
  <2>1. ASSUME NEW m \in Seqs, m < n PROVE row.moves[m] # None
    <3>1. snap.seq \in Seqs /\ row.moves[snap.seq] # None
      BY <1>1, <2>1 DEF Harmless
    <3>2. m = snap.seq \/ m < snap.seq
      BY <1>1, <2>1
    <3> QED BY <3>1, <3>2 DEF Linked, Gapless
  <2>2. ASSUME NEW m \in Seqs, m > n PROVE row.moves[m] = None
    BY <1>1, <2>2 DEF Linked, Gapless
  <2> QED BY <2>1, <2>2
<1>4. snap.last = row.last
  BY DEF Harmless
<1>5. IF n = 1 THEN snap.last = None
      ELSE snap.last = <<n - 1, row.moves[n - 1].req>>
  <2>1. CASE n = 1
    <3>1. row.moves[1] = None /\ \A m \in Seqs : m = 1 \/ m > 1
      BY <2>1
    <3>2. \A m \in Seqs : row.moves[m] = None
      BY <1>3, <2>1, <3>1
    <3> QED BY <1>4, <2>1, <3>2 DEF Linked, Headed
  <2>2. CASE n # 1
    <3>1. n - 1 \in Seqs /\ row.moves[n - 1] # None
      BY <1>1, <1>3, <2>2
    <3>2. PICK k \in Seqs : /\ row.moves[k] # None
                            /\ row.last = <<k, row.moves[k].req>>
                            /\ \A m \in Seqs : m > k => row.moves[m] = None
      BY <3>1 DEF Linked, Headed
    <3>3. k = n - 1
      BY <1>1, <1>3, <3>1, <3>2
    <3> QED BY <1>4, <2>2, <3>2, <3>3
  <2> QED BY <2>1, <2>2
<1>6. Gapless(new)
  <2> SUFFICES ASSUME NEW k \in Seqs, NEW m \in Seqs, new.moves[k] # None, m < k
               PROVE  new.moves[m] # None
    BY DEF Gapless
  <2>1. k <= n
    BY <1>1, <1>2, <1>3
  <2>2. m < n
    BY <1>1, <2>1
  <2> QED BY <1>1, <1>2, <1>3, <2>2
<1>7. Chained(new)
  <2> SUFFICES ASSUME NEW m \in Seqs, new.moves[m] # None
               PROVE  IF m = 1 THEN new.moves[m].prev = None
                      ELSE /\ new.moves[m - 1] # None
                           /\ new.moves[m].prev = <<m - 1, new.moves[m - 1].req>>
    BY DEF Chained
  <2>1. CASE m = n
    <3>1. m # 1 => /\ m - 1 \in Seqs /\ m - 1 < n /\ m - 1 # n
                   /\ new.moves[m - 1] = row.moves[m - 1]
      BY <1>1, <1>2, <2>1
    <3> QED BY <1>2, <1>3, <1>5, <2>1, <3>1
  <2>2. CASE m # n
    <3>1. m < n /\ row.moves[m] # None /\ new.moves[m] = row.moves[m]
      BY <1>1, <1>2, <1>3, <2>2
    <3>2. m # 1 => m - 1 \in Seqs /\ m - 1 # n /\ new.moves[m - 1] = row.moves[m - 1]
      BY <1>1, <1>2, <3>1
    <3> QED BY <3>1, <3>2 DEF Linked, Chained
  <2> QED BY <2>1, <2>2
<1>8. Headed(new)
  BY <1>1, <1>2, <1>3 DEF Headed
<1>9. Owned(PartitionOf[r], row) => Owned(PartitionOf[r], new)
  BY <1>2 DEF Owned
<1>10. QED
  BY <1>1, <1>2, <1>6, <1>7, <1>8, <1>9 DEF Linked

\* A harmless snapshot stays harmless when the row grows.
LEMMA HarmlessGrows ==
  ASSUME NEW old \in PartitionRow, NEW new \in PartitionRow,
         Linked(old), Linked(new), Keeps(new, old),
         NEW snap \in Snapshot, Harmless(snap, old)
  PROVE  Harmless(snap, new)
<1> USE BoundAssumption DEF Seqs
<1>1. snap.seq \in 0..MaxSeq
  BY DEF Snapshot
<1>2. snap.seq = 0 \/ new.moves[snap.seq] # None
  BY <1>1 DEF Harmless, Keeps
<1>3. ASSUME snap.seq < MaxSeq, new.moves[snap.seq + 1] = None
      PROVE  snap.last = new.last
  <2>1. snap.seq + 1 \in Seqs /\ old.moves[snap.seq + 1] = None
    BY <1>1, <1>3 DEF Keeps
  <2>2. snap.last = old.last
    BY <1>3, <2>1 DEF Harmless
  <2>3. \A m \in Seqs : m > snap.seq => old.moves[m] = None /\ new.moves[m] = None
    BY <1>1, <1>3, <2>1 DEF Linked, Gapless
  <2>4. CASE snap.seq = 0
    <3>1. old.last = None /\ new.last = None
      BY <2>3, <2>4 DEF Linked, Headed
    <3> QED BY <2>2, <3>1
  <2>5. CASE snap.seq # 0
    <3> DEFINE k == snap.seq
    <3>1. k \in Seqs /\ old.moves[k] # None /\ new.moves[k] = old.moves[k]
      BY <1>1, <2>5 DEF Harmless, Keeps
    <3>2. old.last = <<k, old.moves[k].req>>
      BY <2>3, <3>1 DEF Linked, Headed
    <3>3. new.last = <<k, new.moves[k].req>>
      BY <2>3, <3>1 DEF Linked, Headed
    <3> QED BY <2>2, <3>1, <3>2, <3>3
  <2> QED BY <2>4, <2>5
<1>4. QED
  BY <1>2, <1>3 DEF Harmless

-----------------------------------------------------------------------------
(* One step *)

\* The uncommitted rows of a transaction that is not about to insert.
SoundRows(t) ==
  \A p \in Partitions :
    t.parts[p] # None =>
      Linked(t.parts[p]) /\ Owned(p, t.parts[p]) /\ Counted(t.parts[p])

Sound == (\A p \in Partitions : SoundPart(p)) /\ (\A w \in Workers : SoundTx(w))

\* What a session sees of a row.
LEMMA ViewSound ==
  ASSUME SoundInv, NEW w \in Workers, NEW p \in Partitions
  PROVE  /\ View(w, p) \in PartitionRow
         /\ Linked(View(w, p)) /\ Owned(p, View(w, p))
         /\ tx[w].pc # "persist" => Counted(View(w, p))
<1>1. View(w, p) \in PartitionRow
  BY ViewType DEF SoundInv, AppendInv, TypeInv
<1>2. QED
  BY <1>1 DEF SoundInv, SoundPart, SoundTx, View

\* A step of one session that leaves the committed rows alone.
LEMMA OneSession ==
  ASSUME SoundInv, NEW w \in Workers, NEW t, tx' = [tx EXCEPT ![w] = t],
         part' = part, SoundTx(w)'
  PROVE  Sound'
<1>1. \A v \in Workers \ {w} : tx'[v] = tx[v]
  BY DEF SoundInv, AppendInv, TypeInv, TypeOK
<1>2. \A v \in Workers \ {w} : SoundTx(v)'
  BY <1>1 DEF SoundInv, SoundTx, View
<1>3. \A p \in Partitions : SoundPart(p)'
  BY DEF SoundInv, SoundPart
<1>4. QED
  BY <1>2, <1>3 DEF Sound

LEMMA QuietSound ==
  ASSUME SoundInv, NEW w \in Workers, Quiet(w), SoundRows(tx[w])
  PROVE  Sound'
<1>1. PICK t : /\ tx' = [tx EXCEPT ![w] = t]
               /\ t.parts \in {tx[w].parts, Idle.parts}
               /\ t.pc \notin {"reserve", "persist"}
  BY DEF Quiet
<1>2. tx'[w] = t /\ part' = part
  BY <1>1 DEF Quiet, SoundInv, AppendInv, TypeInv, TypeOK
<1>3. SoundRows(t)
  BY <1>1 DEF SoundRows, Idle
<1>4. SoundTx(w)'
  BY <1>1, <1>2, <1>3 DEF SoundRows, SoundTx
<1>5. QED
  BY <1>1, <1>2, <1>4, OneSession

LEMMA ReadSound ==
  ASSUME SoundInv, NEW w \in Workers, ReadPartition(w),
         NEW p, p = PartitionOf[tx[w].cur]
  PROVE  Sound'
<1> DEFINE t == tx[w]
           row == View(w, p)
           made == [row EXCEPT !.made = TRUE]
           snap == [seq |-> row.seq, last |-> row.last]
           mine == IF row.made THEN t.parts[p] ELSE made
           read == [t EXCEPT !.pc = "reserve", !.snap = snap, !.parts[p] = mine]
<1>1. /\ tx \in [Workers -> Transaction] /\ t \in Transaction
      /\ t.pc = "read" /\ p \in Partitions
  BY PayloadAssumption
     DEF ReadPartition, At, SoundInv, AppendInv, TypeInv, TypeOK
<1>2. part' = part /\ tx' = [tx EXCEPT ![w] = read]
  BY <1>1 DEF ReadPartition, Transaction
<1>3. /\ tx'[w].pc = "reserve" /\ tx'[w].cur = t.cur /\ tx'[w].snap = snap
      /\ tx'[w].parts = [t.parts EXCEPT ![p] = mine]
      /\ t.parts \in [Partitions -> PartitionRow \cup {None}]
  BY <1>1, <1>2 DEF Transaction
<1>4. row \in PartitionRow /\ Linked(row) /\ Owned(p, row) /\ Counted(row)
  BY <1>1, ViewSound
<1>5. /\ made.moves = row.moves /\ made.last = row.last /\ made.seq = row.seq
      /\ made # None
  <2>1. made \in PartitionRow
    BY <1>4 DEF PartitionRow
  <2> QED BY <1>4, <2>1, NoneAssumption DEF PartitionRow
<1>6. Linked(made) /\ Owned(p, made) /\ Counted(made)
  <2>1. Linked(made) /\ Owned(p, made)
    BY <1>4, <1>5, SameChain, ZenonT(30)
  <2>2. Counted(made)
    BY <1>4, <1>5 DEF Counted
  <2> QED BY <2>1, <2>2
<1>7. Harmless(snap, row) /\ Harmless(snap, made)
  BY <1>4, <1>5 DEF Harmless, Counted
<1>8. View(w, p)' \in {row, made}
  <2>1. tx'[w].parts[p] = mine
    BY <1>1, <1>3
  <2>2. CASE row.made
    <3>1. View(w, p)' = View(w, p)
      BY <1>2, <2>1, <2>2 DEF View
    <3> QED BY <3>1, SMTT(30)
  <2>3. CASE ~row.made
    BY <1>5, <2>1, <2>3, ZenonT(30) DEF View
  <2> QED BY <2>2, <2>3
<1>9. SoundRows(t)
  BY <1>1 DEF SoundInv, SoundTx, SoundRows
<1>10. SoundTx(w)'
  <2>1. ASSUME NEW q \in Partitions, tx'[w].parts[q] # None
        PROVE  /\ Linked(tx'[w].parts[q]) /\ Owned(q, tx'[w].parts[q])
               /\ Counted(tx'[w].parts[q])
    <3>1. tx'[w].parts[q] = t.parts[q] \/ (q = p /\ tx'[w].parts[q] = made)
      BY <1>1, <1>3
    <3> QED BY <2>1, <3>1, <1>6, <1>9 DEF SoundRows
  <2> QED BY <2>1, <1>3, <1>7, <1>8, Zenon DEF SoundTx
<1>11. QED
  BY <1>2, <1>10, OneSession

LEMMA ReserveSound ==
  ASSUME SoundInv, NEW w \in Workers, Reserve(w),
         NEW p, p = PartitionOf[tx[w].cur]
  PROVE  Sound'
<1> DEFINE t == tx[w]
           row == View(w, p)
           mine == [row EXCEPT !.seq = t.snap.seq + 1]
           new == [t EXCEPT !.pc = "persist", !.parts[p] = mine]
<1>1. /\ tx \in [Workers -> Transaction] /\ t \in Transaction
      /\ t.pc = "reserve" /\ p \in Partitions
  BY PayloadAssumption
     DEF Reserve, At, SoundInv, AppendInv, TypeInv, TypeOK
<1>2. part' = part /\ tx' = [tx EXCEPT ![w] = new]
  BY <1>1 DEF Reserve
<1>3. /\ tx'[w].pc = "persist" /\ tx'[w].cur = t.cur /\ tx'[w].snap = t.snap
      /\ tx'[w].parts = [t.parts EXCEPT ![p] = mine]
      /\ t.parts \in [Partitions -> PartitionRow \cup {None}]
  BY <1>1, <1>2 DEF Transaction
<1>4. row \in PartitionRow /\ Linked(row) /\ Owned(p, row) /\ Harmless(t.snap, row)
  BY <1>1, ViewSound DEF SoundInv, SoundTx
<1>5. /\ mine.moves = row.moves /\ mine.last = row.last
      /\ mine.seq = t.snap.seq + 1 /\ mine # None
  <2>1. t.snap.seq + 1 \in 0..MaxSeq
    BY <1>1, BoundAssumption DEF Reserve, Transaction, Snapshot
  <2>2. mine \in PartitionRow
    BY <1>4, <2>1 DEF PartitionRow
  <2> QED BY <1>4, <2>2, NoneAssumption DEF PartitionRow
<1>6. Linked(mine) /\ Owned(p, mine) /\ Harmless(t.snap, mine)
  BY <1>4, <1>5, SameChain
<1>7. SoundRows(t)
  BY <1>1 DEF SoundInv, SoundTx, SoundRows
<1>8. SoundTx(w)'
  <2>1. tx'[w].parts[p] = mine /\ View(w, p)' = mine
    BY <1>1, <1>3, <1>5, Zenon DEF View
  <2>2. ASSUME NEW q \in Partitions, q # p, tx'[w].parts[q] # None
        PROVE  /\ Linked(tx'[w].parts[q]) /\ Owned(q, tx'[w].parts[q])
               /\ Counted(tx'[w].parts[q])
    <3>1. tx'[w].parts[q] = t.parts[q]
      BY <1>1, <1>3, <2>2
    <3> QED BY <2>2, <3>1, <1>7 DEF SoundRows
  <2>3. p = PartitionOf[tx'[w].cur]
    BY <1>3
  <2>4. Harmless(tx'[w].snap, View(w, PartitionOf[tx[w].cur])')
    BY <1>3, <1>6, <2>1, <2>3, SMTT(30)
  <2>5. \A q \in Partitions :
          tx'[w].parts[q] # None =>
            /\ Linked(tx'[w].parts[q]) /\ Owned(q, tx'[w].parts[q])
            /\ IF q = p THEN tx'[w].parts[q].seq = tx'[w].snap.seq + 1
                        ELSE Counted(tx'[w].parts[q])
    BY <1>3, <1>5, <1>6, <2>1, <2>2
  <2> QED BY <1>3, <2>3, <2>4, <2>5 DEF SoundTx
<1>9. QED
  BY <1>2, <1>8, OneSession

\* The code of a number that is free in the own partition is free everywhere.
LEMMA CodeTakenHere ==
  ASSUME SoundInv, CleanPayloads, NEW w \in Workers, NEW r \in Requests,
         NEW n \in Seqs, CodeTaken(w, r, n)
  PROVE  View(w, PartitionOf[r]).moves[n] # None
<1>1. PICK q \in Partitions :
        View(w, q).moves[n] # None /\ SiteOf[View(w, q).moves[n].req] = SiteOf[r]
  BY DEF CodeTaken, HasCode
<1>2. View(w, q).moves[n].req \in Requests /\ PartitionOf[View(w, q).moves[n].req] = q
  BY <1>1, ViewSound DEF Owned, PartitionRow, Movement
<1>3. QED
  BY <1>1, <1>2 DEF CleanPayloads

LEMMA RollbackSound ==
  ASSUME SoundInv, NEW w \in Workers, tx' = [tx EXCEPT ![w] = Idle], part' = part
  PROVE  Sound'
<1>1. tx'[w] = Idle
  BY DEF SoundInv, AppendInv, TypeInv, TypeOK
<1>2. SoundTx(w)'
  BY <1>1 DEF SoundTx, Idle
<1>3. QED
  BY <1>2, OneSession, Zenon

LEMMA PersistSound ==
  ASSUME SoundInv, CleanPayloads, NEW w \in Workers, Persist(w),
         NEW p, p = PartitionOf[tx[w].cur]
  PROVE  Sound'
<1> DEFINE t == tx[w]
           r == t.cur
           n == t.snap.seq + 1
           row == t.parts[p]
           move == [req |-> r, prev |-> t.snap.last]
           inserted == [row EXCEPT !.moves[n] = move]
           bound == [inserted EXCEPT !.last = <<n, r>>]
           new == [t EXCEPT
                     !.pc = "pick",
                     !.parts[p] = bound,
                     !.rows[r] = [status |-> "POSTED", result |-> <<p, n>>],
                     !.events = t.events \cup {<<p, n>>}]
<1>1. /\ TypeOK /\ tx \in [Workers -> Transaction] /\ t \in Transaction
      /\ t.pc = "persist" /\ r \in Requests /\ p \in Partitions
  BY PayloadAssumption
     DEF Persist, At, SoundInv, AppendInv, TypeInv, TypeOK
<1>2. /\ row \in PartitionRow /\ row # None /\ t.snap \in Snapshot
      /\ t.snap.seq < MaxSeq /\ n \in Seqs /\ View(w, p) = row
  <2>1. row # None /\ t.snap.seq < MaxSeq
    BY <1>1 DEF SoundInv, AppendInv, TypeInv, Reserved
  <2>2. row \in PartitionRow /\ t.snap \in Snapshot
    BY <1>1, <2>1 DEF Transaction
  <2>3. n \in Seqs
    BY <2>1, <2>2, BoundAssumption DEF Snapshot, Seqs
  <2> QED BY <2>1, <2>2, <2>3 DEF View
<1>3. Linked(row) /\ Owned(p, row) /\ row.seq = n /\ Harmless(t.snap, row)
  BY <1>1, <1>2 DEF SoundInv, SoundTx
<1>4. ASSUME NEW q \in Partitions, q # p, t.parts[q] # None
      PROVE  Linked(t.parts[q]) /\ Owned(q, t.parts[q]) /\ Counted(t.parts[q])
  BY <1>1, <1>4 DEF SoundInv, SoundTx
<1>5. CASE ~Inserts(w) /\ Fail(w, t)
  <2>1. row.moves[n] # None
    BY <1>1, <1>2, <1>5, CodeTakenHere DEF Inserts, CleanPayloads
  <2>2. SoundRows(t)
    BY <1>2, <1>3, <1>4, <2>1, Zenon DEF SoundRows, Counted
  <2> QED BY <1>1, <1>5, <2>2, QuietSteps, QuietSound
<1>6. CASE tx' = [tx EXCEPT ![w] = Idle] /\ part' = part
  BY <1>6, RollbackSound
<1>7. CASE row.moves[n] = None /\ tx' = [tx EXCEPT ![w] = new] /\ part' = part
  <2>1. /\ tx'[w].pc = "pick"
        /\ tx'[w].parts = [t.parts EXCEPT ![p] = bound]
        /\ t.parts \in [Partitions -> PartitionRow \cup {None}]
    BY <1>1, <1>7 DEF Transaction
  <2>2. /\ bound.last = <<n, r>> /\ bound.seq = n
        /\ bound.moves = [row.moves EXCEPT ![n] = move]
    BY <1>2, <1>3 DEF PartitionRow
  <2>3. Linked(bound) /\ Owned(p, bound) /\ Counted(bound)
    <3>1. move # None
      BY <1>1, <1>2, NoneAssumption DEF Movement, Snapshot
    <3>2. /\ bound.moves[n] = move
          /\ \A m \in Seqs : m # n => bound.moves[m] = row.moves[m]
      BY <1>2, <2>2, Zenon DEF PartitionRow
    <3>3. /\ bound.last = <<t.snap.seq + 1, r>>
          /\ bound.moves[t.snap.seq + 1] # None
          /\ bound.moves[t.snap.seq + 1].req = r
          /\ bound.moves[t.snap.seq + 1].prev = t.snap.last
          /\ \A m \in Seqs : m # t.snap.seq + 1 => bound.moves[m] = row.moves[m]
      <4>1. move.req = r /\ move.prev = t.snap.last
        BY SMTT(30)
      <4> HIDE DEF bound, row, move
      <4> QED BY <2>2, <3>1, <3>2, <4>1
    <3>4. r \in Requests /\ p = PartitionOf[r] /\ row.moves[t.snap.seq + 1] = None
      BY <1>1, <1>7
    <3>5. Linked(bound) /\ Owned(p, bound)
      <4> HIDE DEF bound, row, r, n
      <4>1. Linked(bound) /\ (Owned(PartitionOf[r], row) => Owned(PartitionOf[r], bound))
        BY <1>2, <1>3, <3>3, <3>4, InsertLemma
      <4> QED BY <1>3, <3>4, <4>1
    <3> QED BY <2>2, <3>1, <3>2, <3>5, Zenon DEF Counted
  <2>4. ASSUME NEW q \in Partitions, tx'[w].parts[q] # None
        PROVE  /\ Linked(tx'[w].parts[q]) /\ Owned(q, tx'[w].parts[q])
               /\ Counted(tx'[w].parts[q])
    <3>1. CASE q = p
      BY <1>1, <2>1, <2>3, <3>1, Zenon
    <3>2. CASE q # p
      BY <2>1, <2>4, <1>4, <3>2
    <3> QED BY <3>1, <3>2
  <2>5. SoundTx(w)'
    BY <2>1, <2>4, Zenon DEF SoundTx
  <2> QED BY <1>7, <2>5, OneSession
<1>8. DefectOf[r] # "badSource"
  BY <1>1 DEF CleanPayloads
<1>9. QED
  BY <1>5, <1>6, <1>7, <1>8, ZenonT(30) DEF Persist, Duplicate, BindLast, EmitOutbox

LEMMA CommitSound ==
  ASSUME SoundInv, AppendInv', BookKept, NEW w \in Workers, Commit(w)
  PROVE  Sound'
<1>1. PICK losers \in SUBSET Rivals(w) :
        tx' = [v \in Workers |-> IF v = w \/ v \in losers THEN Idle ELSE tx[v]]
  BY DEF Commit
<1>2. part' = [p \in Partitions |-> View(w, p)] /\ tx[w].pc = "pick"
  BY DEF Commit
<1>3. \A p \in Partitions : SoundPart(p)'
  BY <1>2, ViewSound DEF SoundPart
<1>4. ASSUME NEW v \in Workers PROVE SoundTx(v)'
  <2>1. CASE tx'[v] = Idle
    BY <2>1 DEF SoundTx, Idle
  <2>2. CASE tx'[v] = tx[v] /\ v # w
    <3>1. ASSUME NEW p \in Partitions, NEW snap \in Snapshot, Harmless(snap, View(v, p))
          PROVE  Harmless(snap, View(v, p)')
      <4>1. CASE tx[v].parts[p] # None
        BY <2>2, <3>1, <4>1 DEF View
      <4>2. CASE tx[v].parts[p] = None
        <5>1. /\ part[p] \in PartitionRow /\ part'[p] \in PartitionRow
              /\ Linked(part[p]) /\ Linked(part'[p]) /\ Keeps(part'[p], part[p])
          BY <1>3 DEF SoundInv, AppendInv, TypeInv, TypeOK, SoundPart, BookKept
        <5>2. View(v, p) = part[p] /\ View(v, p)' = part'[p]
          BY <2>2, <4>2 DEF View
        <5> QED BY <3>1, <5>1, <5>2, HarmlessGrows
      <4> QED BY <4>1, <4>2
    <3>2. tx[v].pc \in {"reserve", "persist"} =>
            PartitionOf[tx[v].cur] \in Partitions /\ tx[v].snap \in Snapshot
      BY PayloadAssumption DEF SoundInv, AppendInv, TypeInv, TypeOK, Transaction
    <3>3. tx[v].pc \in {"reserve", "persist"} =>
            Harmless(tx'[v].snap, View(v, PartitionOf[tx[v].cur])')
      <4> SUFFICES ASSUME tx[v].pc \in {"reserve", "persist"},
                          NEW p, p = PartitionOf[tx[v].cur]
                   PROVE  Harmless(tx[v].snap, View(v, p)')
        BY <2>2
      <4>1. Harmless(tx[v].snap, View(v, p))
        BY DEF SoundInv, SoundTx
      <4> QED BY <3>1, <3>2, <4>1
    <3> QED BY <2>2, <3>3 DEF SoundInv, SoundTx
  <2> QED BY <1>1, <2>1, <2>2
<1>5. QED
  BY <1>3, <1>4 DEF Sound

LEMMA SoundStep == CleanPayloads /\ SoundInv /\ [Next]_vars => SoundInv'
<1> SUFFICES ASSUME CleanPayloads, SoundInv, [Next]_vars PROVE SoundInv'
  OBVIOUS
<1>1. AppendInv' /\ BookKept
  BY TypeStep, AppendStep DEF SoundInv, AppendInv
<1>2. TypeOK /\ \A w \in Workers : tx[w].pc # "persist" => SoundRows(tx[w])
  BY DEF SoundInv, AppendInv, TypeInv, SoundTx, SoundRows
<1>3. ASSUME NEW w \in Workers, NEW r \in Requests,
             BeginApiPost(w, r) \/ BeginRetry(w, r)
      PROVE  Sound'
  BY <1>2, <1>3, QuietSteps, QuietSound, Zenon DEF BeginApiPost, BeginRetry
<1>4. ASSUME NEW w \in Workers,
             \/ BeginBatch(w) \/ Reopen(w) \/ Pick(w)
             \/ Register(w) \/ Validate(w)
      PROVE  Sound'
  <2>1. Quiet(w)
    BY <1>2, <1>4, QuietSteps
  <2>2. tx[w].pc # "persist"
    BY <1>4, Zenon DEF BeginBatch, Reopen, Pick, Register, Validate, At
  <2> QED BY <1>2, <2>1, <2>2, QuietSound
<1>5. ASSUME NEW w \in Workers,
             ReadPartition(w) \/ Reserve(w) \/ Persist(w) \/ Commit(w)
      PROVE  Sound'
  BY <1>1, <1>5, ReadSound, ReserveSound, PersistSound, CommitSound
<1>6. ASSUME NEW w \in Workers, DeadlockVictim(w) \/ Crash(w) PROVE Sound'
  BY <1>6, RollbackSound DEF DeadlockVictim, Crash, Rollback
<1>7. ASSUME UNCHANGED vars \/ ProcessOutbox \/ \E r \in Requests : CreateRequest(r)
      PROVE  Sound'
  <2>1. tx' = tx /\ part' = part
    BY <1>7 DEF vars, ProcessOutbox, CreateRequest
  <2> QED BY <2>1 DEF SoundInv, Sound, SoundPart, SoundTx, View
<1>8. Sound'
  BY <1>3, <1>4, <1>5, <1>6, <1>7 DEF Next, Step
<1>9. QED
  BY <1>1, <1>8 DEF SoundInv, Sound

LEMMA InitSound == Init => SoundInv
<1> SUFFICES ASSUME Init PROVE SoundInv
  OBVIOUS
<1>1. TypeInv
  BY InitTypes
<1>2. \A w \in Workers : tx[w] = Idle
  BY DEF Init
<1>3. AppendInv
  BY <1>1, <1>2 DEF AppendInv, Exclusive, BuildsOnBook, Idle
<1>4. ASSUME NEW p \in Partitions PROVE SoundPart(p)
  <2>1. part[p].seq = 0 /\ part[p].last = None /\ \A n \in Seqs : part[p].moves[n] = None
    BY DEF Init
  <2> QED BY <2>1 DEF SoundPart, Linked, Gapless, Chained, Headed, Owned, Counted
<1>5. \A w \in Workers : SoundTx(w)
  BY <1>2 DEF SoundTx, Idle
<1>6. QED
  BY <1>3, <1>4, <1>5 DEF SoundInv

\* Every version of a partition row is a sound chain, and what sessions read of
\* it earlier is harmless, in every reachable state.
THEOREM SoundInvariant == ASSUME CleanPayloads PROVE Spec => []SoundInv
<1>1. SoundInv /\ [Next]_vars => SoundInv'
  BY SoundStep
<1>2. QED
  BY InitSound, <1>1, PTL DEF Spec

\* The committed book is gapless and hash chained and its head is its last
\* movement in every reachable state, if validation lets only payloads through
\* that can be posted: stale snapshots, lost sessions, deadlocks and unique
\* violations do no harm to it.
THEOREM BookStaysSound == ASSUME CleanPayloads PROVE Spec => []BookSound
<1>1. SoundInv => BookSound
  BY HeadLemma DEF SoundInv, AppendInv, TypeInv, TypeOK, SoundPart, BookSound
<1>2. QED
  BY SoundInvariant, <1>1, PTL
=============================================================================
