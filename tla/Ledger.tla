------------------------------- MODULE Ledger -------------------------------
(***************************************************************************)
(* The append-only inventory book of                                       *)
(* backend/app/modules/logistics/inventory/ledger: posting requests, the   *)
(* transactions that turn them into movements, the per-partition sequence  *)
(* and hash chain, the idempotency records and the outbox.                 *)
(*                                                                         *)
(* Every request of the API and every run of a job is one database         *)
(* transaction at READ COMMITTED (database/session.py: autoflush off, one  *)
(* commit at the end, rollback on any exception).  `tx[w]' is the          *)
(* transaction that worker w runs.  A row it has written is a row it has   *)
(* locked: the fields `rows', `keys' and `parts' hold its uncommitted      *)
(* versions, invisible to the others until Commit, gone at Rollback.       *)
(***************************************************************************)
EXTENDS Integers, FiniteSets

CONSTANTS
  Requests,     \* source events; each has at most one posting request
  Partitions,   \* ledger partition keys, organization:warehouse:year
  Sites,        \* site code and year, the part of a MOV code before the number
  Keys,         \* request keys, for the idempotency records
  Payloads,     \* payload hashes
  Clients,      \* sessions that serve the API
  Runners,      \* sessions of the job runner (a process may be in both)
  PartitionOf,  \* the partition a request's payload resolves to
  SiteOf,       \* the site code its payload carries (default "GLB")
  KeyOf,        \* its request_key
  HashOf,       \* its payload_hash
  DefectOf,     \* what is wrong with its payload that validation does not see
  Rejectable,   \* requests whose validation may report a blocking error
  RequestedAt,  \* when it is requested: a request is inserted once
  BatchSize,    \* how many requests the job takes at a time (50)
  MaxSeq,       \* bound on a partition's sequence numbers
  MaxAborts,    \* bound on sessions lost to a crash or a dropped connection
  None          \* the null value

Workers == Clients \cup Runners

Defects == {"none", "noSources", "badSource"}

ASSUME PayloadAssumption ==
  /\ PartitionOf \in [Requests -> Partitions]
  /\ SiteOf \in [Requests -> Sites]
  /\ KeyOf \in [Requests -> Keys]
  /\ HashOf \in [Requests -> Payloads]
  /\ DefectOf \in [Requests -> Defects]
  /\ Rejectable \subseteq Requests
  /\ RequestedAt \in [Requests -> Nat]
  /\ \A r, s \in Requests : RequestedAt[r] = RequestedAt[s] => r = s

\* A deployment has finitely many sessions.
ASSUME SessionAssumption == IsFiniteSet(Workers)

ASSUME BoundAssumption ==
  MaxSeq \in Nat /\ MaxAborts \in Nat /\ BatchSize \in Nat \ {0}

VARIABLES
  request,  \* inventory_movement_posting_requests, one row per source event
  idem,     \* idempotency_records: the request that registered each key
  part,     \* inventory_ledger_partitions, with the movements of each
  outbox,   \* inventory_ledger_outbox_events
  tx,       \* the transaction of each worker
  aborts    \* sessions lost so far

vars == <<request, idem, part, outbox, tx, aborts>>

-----------------------------------------------------------------------------
(* Values *)

Seqs == 1..MaxSeq

\* A movement's hash covers its partition, number and source event, so within
\* a partition the last two stand for it (SHA-256 taken as collision free).
Digest == Seqs \X Requests

Movement == [req: Requests, prev: Digest \cup {None}]

MovementId == Partitions \X Seqs

\* VALIDATING, VALID and POSTING are only ever seen by their own transaction.
Status == {"ABSENT", "RECEIVED", "VALIDATING", "FAILED", "POSTED"}

RequestRow == [status: Status, result: MovementId \cup {None}]

PartitionRow ==
  [made: BOOLEAN, seq: 0..MaxSeq, last: Digest \cup {None},
   moves: [Seqs -> Movement \cup {None}]]

Snapshot == [seq: 0..MaxSeq, last: Digest \cup {None}]

ASSUME NoneAssumption ==
  /\ None \notin Digest \cup Movement \cup MovementId \cup Requests
  /\ None \notin RequestRow \cup PartitionRow

Transaction ==
  [pc: {"idle", "reopen", "pick", "register", "validate", "read", "reserve",
        "persist"},
   kind: {"api", "job"},
   todo: SUBSET Requests,
   cur: Requests \cup {None},
   snap: Snapshot,
   rows: [Requests -> RequestRow \cup {None}],
   keys: [Keys -> Requests \cup {None}],
   parts: [Partitions -> PartitionRow \cup {None}],
   events: SUBSET MovementId]

TypeOK ==
  /\ request \in [Requests -> RequestRow]
  /\ idem \in [Keys -> Requests \cup {None}]
  /\ part \in [Partitions -> PartitionRow]
  /\ outbox \subseteq [movement: MovementId, status: {"PENDING", "PUBLISHED"}]
  /\ tx \in [Workers -> Transaction]
  /\ \A w \in Workers :
       tx[w].pc \notin {"idle", "pick"} => tx[w].cur \in Requests
  /\ aborts \in 0..MaxAborts

-----------------------------------------------------------------------------
(* What a transaction sees and waits for *)

NoSnapshot == [seq |-> 0, last |-> None]

Idle ==
  [pc |-> "idle", kind |-> "api", todo |-> {}, cur |-> None,
   snap |-> NoSnapshot,
   rows |-> [r \in Requests |-> None],
   keys |-> [k \in Keys |-> None],
   parts |-> [p \in Partitions |-> None],
   events |-> {}]

\* The partition row as worker w's transaction sees it.
View(w, p) == IF tx[w].parts[p] = None THEN part[p] ELSE tx[w].parts[p]

\* The MOV code of request r at number n is in the partition row `row'.
HasCode(row, r, n) ==
  row.moves[n] # None /\ SiteOf[row.moves[n].req] = SiteOf[r]

CodeTaken(w, r, n) == \E p \in Partitions : HasCode(View(w, p), r, n)

\* Wrong variant: nothing looks up the MOV code, and no unique index on it.
InsertsUnchecked(w) == DefectOf[tx[w].cur] # "noSources"

\* At "persist": the posting passes the checks made before the INSERT.
Inserts(w) ==
  LET t == tx[w]
  IN  ~CodeTaken(w, t.cur, t.snap.seq + 1) /\ DefectOf[t.cur] # "noSources"

\* The workers whose uncommitted rows the next statement of w has to wait for:
\* a row lock, or an insert of the same value into a unique index.
WaitsFor(w) ==
  LET t == tx[w]
      p == PartitionOf[t.cur]
  IN  {v \in Workers \ {w} :
         \/ /\ t.pc \in {"reopen", "validate"}
            /\ tx[v].rows[t.cur] # None
         \/ /\ t.pc = "register"
            /\ tx[v].keys[KeyOf[t.cur]] # None
         \/ /\ t.pc \in {"read", "reserve"}
            /\ t.pc = "read" => ~View(w, p).made
            /\ tx[v].parts[p] # None
         \/ /\ t.pc = "persist"
            /\ Inserts(w)
            /\ \E q \in Partitions :
                 /\ tx[v].parts[q] # None
                 /\ HasCode(tx[v].parts[q], t.cur, t.snap.seq + 1)}

At(w, label) == tx[w].pc = label /\ WaitsFor(w) = {}

Rollback(w) ==
  /\ tx' = [tx EXCEPT ![w] = Idle]
  /\ UNCHANGED <<request, idem, part, outbox>>
-----------------------------------------------------------------------------
(* Starting a transaction *)

\* POST /ledger/posting-requests: register an event that has no request yet.
\* For one that has, the route returns it or refuses it and writes nothing.
CreateRequest(r) ==
  /\ request[r].status = "ABSENT"
  /\ \A w \in Workers : tx[w].rows[r] = None
  /\ request' = [request EXCEPT ![r].status = "RECEIVED"]
  /\ UNCHANGED <<idem, part, outbox, tx, aborts>>

\* POST /ledger/prepared-events/{id}/post: find the request or insert it, then
\* post it.  A request already POSTED is answered with its movement.
BeginApiPost(w, r) ==
  /\ w \in Clients
  /\ tx[w].pc = "idle"
  /\ request[r].status # "POSTED"
  /\ request[r].status = "ABSENT" => \A v \in Workers : tx[v].rows[r] = None
  /\ tx' = [tx EXCEPT ![w] =
       [Idle EXCEPT
          !.pc = "pick", !.kind = "api", !.todo = {r},
          !.rows[r] = IF request[r].status = "ABSENT"
                      THEN [status |-> "RECEIVED", result |-> None]
                      ELSE None]]
  /\ UNCHANGED <<request, idem, part, outbox, aborts>>

Pending == {r \in Requests : request[r].status = "RECEIVED"}

Older(S, r) == {s \in S : RequestedAt[s] < RequestedAt[r]}

\* process_pending_posting_requests loads the oldest open requests once.  Their
\* rows stay in the session's identity map, so `post' later tests the status
\* they had here.
NextBatch == {r \in Pending : Cardinality(Older(Pending, r)) < BatchSize}

BeginBatch(w) ==
  /\ w \in Runners
  /\ tx[w].pc = "idle"
  /\ Pending # {}
  /\ tx' = [tx EXCEPT ![w] =
       [Idle EXCEPT !.pc = "pick", !.kind = "job", !.todo = NextBatch]]
  /\ UNCHANGED <<request, idem, part, outbox, aborts>>

\* POST /ledger/retry-failed-posting/{id}: retry_failed_posting reads the
\* status without a lock ...
BeginRetry(w, r) ==
  /\ w \in Clients
  /\ tx[w].pc = "idle"
  /\ request[r].status = "FAILED"
  /\ tx' = [tx EXCEPT ![w] =
       [Idle EXCEPT !.pc = "reopen", !.kind = "job", !.cur = r]]
  /\ UNCHANGED <<request, idem, part, outbox, aborts>>

\* ... and writes RECEIVED over whatever the row holds by then.
Reopen(w) ==
  /\ At(w, "reopen")
  /\ tx' = [tx EXCEPT
       ![w].pc = "register",
       ![w].rows[tx[w].cur] = [status |-> "RECEIVED", result |-> None]]
  /\ UNCHANGED <<request, idem, part, outbox, aborts>>

-----------------------------------------------------------------------------
(* InventoryMovementPostingService.post, one request after the other *)

Pick(w) ==
  /\ tx[w].pc = "pick"
  /\ \E r \in tx[w].todo :
       /\ Older(tx[w].todo, r) = {}
       /\ tx' = [tx EXCEPT ![w].pc = "register", ![w].cur = r,
                           ![w].todo = tx[w].todo \ {r}]
  /\ UNCHANGED <<request, idem, part, outbox, aborts>>


\* Wrong variant: the session is returned to its pool without a rollback.
RaiseHolding(w, t) ==
  /\ tx' = [tx EXCEPT ![w] =
       [t EXCEPT !.pc = IF t.kind = "api" THEN "idle" ELSE "pick"]]
  /\ UNCHANGED <<request, idem, part, outbox, aborts>>

\* What an exception inside `post' leads to: the API route turns it into an
\* HTTP error and the session rolls back; a job swallows it and goes on, and
\* whatever was flushed before the exception stays.
Raise(w, t) ==
  /\ IF t.kind = "api" THEN tx' = [tx EXCEPT ![w] = Idle]
                       ELSE tx' = [tx EXCEPT ![w] = [t EXCEPT !.pc = "pick"]]
  /\ UNCHANGED <<request, idem, part, outbox, aborts>>

\* Wrong variants of the except clauses: a status outside the enumeration, the
\* status POSTED left in place, the event emitted before the movement is safe.
FailUnknown(w, t) ==
  Raise(w, [t EXCEPT !.rows[t.cur] = [status |-> "REJECTED", result |-> None]])

FailStaysPosted(w, t) ==
  Raise(w, [t EXCEPT !.rows[t.cur] =
              [status |-> "POSTED",
               result |-> <<PartitionOf[t.cur], t.snap.seq + 1>>]])

FailEmits(w, t) ==
  Raise(w, [t EXCEPT
              !.rows[t.cur] = [status |-> "FAILED", result |-> None],
              !.events = t.events \cup {<<PartitionOf[t.cur], t.snap.seq + 1>>}])

\* The except clauses of `post': status FAILED, flush, raise.
Fail(w, t) ==
  Raise(w, [t EXCEPT !.rows[t.cur] = [status |-> "FAILED", result |-> None]])

\* Wrong variant: no unique index on the key, so nobody waits.
RegisterRacing(w) ==
  LET t == tx[w]
      key == KeyOf[t.cur]
      known == CASE t.keys[key] # None -> t.keys[key]
                 [] t.keys[key] = None /\ idem[key] # None -> idem[key]
                 [] OTHER -> t.cur
  IN  /\ t.pc = "register"
      /\ HashOf[known] = HashOf[t.cur]
      /\ tx' = [tx EXCEPT ![w].pc = "validate", ![w].keys[key] = t.cur]
      /\ UNCHANGED <<request, idem, part, outbox, aborts>>

\* idempotency.register: the key is new, known with this payload, or known
\* with another one, which raises.
Register(w) ==
  LET t == tx[w]
      key == KeyOf[t.cur]
      known == IF t.keys[key] # None THEN t.keys[key] ELSE idem[key]
  IN  /\ At(w, "register")
      /\ \/ /\ known = None
            /\ tx' = [tx EXCEPT ![w].pc = "validate", ![w].keys[key] = t.cur]
            /\ UNCHANGED <<request, idem, part, outbox, aborts>>
         \/ /\ known # None
            /\ HashOf[known] = HashOf[t.cur]
            /\ tx' = [tx EXCEPT ![w].pc = "validate"]
            /\ UNCHANGED <<request, idem, part, outbox, aborts>>
         \/ /\ known # None
            /\ HashOf[known] # HashOf[t.cur]
            /\ Raise(w, t)

\* The UPDATE to VALIDATING locks the request row; then the payload is
\* validated, and a blocking error fails the request.
Validate(w) ==
  LET t == tx[w]
      open == [t EXCEPT !.pc = "read",
                 !.rows[t.cur] = [status |-> "VALIDATING", result |-> None]]
  IN  /\ At(w, "validate")
      /\ \/ /\ tx' = [tx EXCEPT ![w] = open]
            /\ UNCHANGED <<request, idem, part, outbox, aborts>>
         \/ /\ t.cur \in Rejectable
            /\ Fail(w, t)

\* Wrong variant: no unique index on the partition key, so nobody waits.
ReadPartitionRacing(w) ==
  LET t == tx[w]
      p == PartitionOf[t.cur]
      row == View(w, p)
  IN  /\ t.pc = "read"
      /\ tx' = [tx EXCEPT
           ![w].pc = "reserve",
           ![w].snap = [seq |-> row.seq, last |-> row.last],
           ![w].parts[p] = [row EXCEPT !.made = TRUE]]
      /\ UNCHANGED <<request, idem, part, outbox, aborts>>

\* get_or_create_partition: a plain SELECT, which loads counter and last hash
\* into the session; without a row, an INSERT that other creators wait for.
ReadPartition(w) ==
  LET t == tx[w]
      p == PartitionOf[t.cur]
      row == View(w, p)
  IN  /\ At(w, "read")
      /\ tx' = [tx EXCEPT
           ![w].pc = "reserve",
           ![w].snap = [seq |-> row.seq, last |-> row.last],
           ![w].parts[p] = IF row.made THEN t.parts[p]
                           ELSE [row EXCEPT !.made = TRUE]]
      /\ UNCHANGED <<request, idem, part, outbox, aborts>>

\* Wrong variants: no FOR UPDATE; the counter refreshed under the lock but not
\* the last hash.
ReserveUnlocked(w) ==
  LET t == tx[w]
      p == PartitionOf[t.cur]
  IN  /\ t.pc = "reserve"
      /\ t.snap.seq < MaxSeq
      /\ tx' = [tx EXCEPT
           ![w].pc = "persist",
           ![w].parts[p] = [View(w, p) EXCEPT !.seq = t.snap.seq + 1]]
      /\ UNCHANGED <<request, idem, part, outbox, aborts>>

ReserveHalfFresh(w) ==
  LET t == tx[w]
      p == PartitionOf[t.cur]
      row == View(w, p)
  IN  /\ At(w, "reserve")
      /\ row.seq < MaxSeq
      /\ tx' = [tx EXCEPT
           ![w].pc = "persist",
           ![w].snap.seq = row.seq,
           ![w].parts[p] = [row EXCEPT !.seq = row.seq + 1]]
      /\ UNCHANGED <<request, idem, part, outbox, aborts>>

\* reserve_next_sequence: SELECT ... FOR UPDATE takes the row lock, but the
\* row is already in the identity map and is not refreshed: the number comes
\* from the earlier plain SELECT, and the UPDATE writes it over the row.
Reserve(w) ==
  LET t == tx[w]
      p == PartitionOf[t.cur]
  IN  /\ At(w, "reserve")
      /\ t.snap.seq < MaxSeq
      /\ tx' = [tx EXCEPT
           ![w].pc = "persist",
           ![w].parts[p] = [View(w, p) EXCEPT !.seq = t.snap.seq + 1]]
      /\ UNCHANGED <<request, idem, part, outbox, aborts>>

\* Wrong variant: no unique index on the number.
NeverDuplicate(row, n) == FALSE

\* uq_inventory_movement_partition_sequence: the number is taken.
Duplicate(row, n) == row.moves[n] # None

\* Wrong variant: the partition is not told.
LeaveLast(row, n, r) == row

\* bind_last_movement.
BindLast(row, n, r) == [row EXCEPT !.last = <<n, r>>]

\* Wrong variant: the event is forgotten.
EmitNothing(t, m) == t.events

\* _emit_outbox: the event goes with the transaction.
EmitOutbox(t, m) == t.events \cup {m}

\* _persist_movement from the code check on: the MOV code must be free, the
\* payload needs source references, the movement is inserted and flushed, the
\* references follow (a malformed one raises here), and only then is the
\* movement bound as the partition's last, the request POSTED and the event
\* put in the outbox.  A failed flush invalidates the whole session.
Persist(w) ==
  LET t == tx[w]
      r == t.cur
      p == PartitionOf[r]
      n == t.snap.seq + 1
      row == t.parts[p]
      inserted == [row EXCEPT !.moves[n] = [req |-> r, prev |-> t.snap.last]]
  IN  /\ At(w, "persist")
      /\ \/ /\ ~Inserts(w)
            /\ Fail(w, t)
         \/ /\ Inserts(w)
            /\ Duplicate(row, n)
            /\ tx' = [tx EXCEPT ![w] = Idle]
            /\ UNCHANGED <<request, idem, part, outbox, aborts>>
         \/ /\ Inserts(w)
            /\ ~Duplicate(row, n)
            /\ DefectOf[r] = "badSource"
            /\ Fail(w, [t EXCEPT !.parts[p] = inserted])
         \/ /\ Inserts(w)
            /\ ~Duplicate(row, n)
            /\ DefectOf[r] = "none"
            /\ tx' = [tx EXCEPT ![w] =
                 [t EXCEPT
                    !.pc = "pick",
                    !.parts[p] = BindLast(inserted, n, r),
                    !.rows[r] = [status |-> "POSTED", result |-> <<p, n>>],
                    !.events = EmitOutbox(t, <<p, n>>)]]
            /\ UNCHANGED <<request, idem, part, outbox, aborts>>

\* Wrong variant: the UPDATE writes every column.
WrittenWhole(old, new) == IF new = None THEN old ELSE new

\* An UPDATE writes the columns its session changed: a row that was not posted
\* here keeps the resulting movement it had.
Written(old, new) ==
  IF new = None THEN old
  ELSE [status |-> new.status,
        result |-> IF new.result = None THEN old.result ELSE new.result]

\* Sessions whose next INSERT may already wait for a row that w has inserted
\* under the same unique key: w's commit makes that INSERT fail.  (One that had
\* not looked yet finds the row instead.)
Rivals(w) ==
  {v \in Workers :
     tx[v].pc \in {"register", "read", "persist"} /\ w \in WaitsFor(v)}

Commit(w) ==
  LET t == tx[w]
  IN  /\ t.pc = "pick"
      /\ t.todo = {}
      /\ request' = [r \in Requests |-> Written(request[r], t.rows[r])]
      /\ idem' = [k \in Keys |->
                   IF t.keys[k] = None THEN idem[k] ELSE t.keys[k]]
      /\ part' = [p \in Partitions |-> View(w, p)]
      /\ outbox' = outbox \cup
           {[movement |-> m, status |-> "PENDING"] : m \in t.events}
      /\ \E losers \in SUBSET Rivals(w) :
           tx' = [v \in Workers |-> IF v = w \/ v \in losers THEN Idle ELSE tx[v]]
      /\ UNCHANGED aborts

-----------------------------------------------------------------------------
(* Transactions the database or a crash ends, and the outbox job *)

\* A set of sessions that wait for each other in a cycle.
Deadlocked(S) ==
  \A v \in S : /\ WaitsFor(v) \cap S # {}
               /\ \E u \in S : v \in WaitsFor(u)

\* PostgreSQL cancels one of the sessions of a cycle of lock waits.
DeadlockVictim(w) ==
  /\ \E S \in SUBSET Workers : w \in S /\ Deadlocked(S)
  /\ Rollback(w)
  /\ UNCHANGED aborts

\* The process dies or loses its connection: the transaction is undone.
Crash(w) ==
  /\ tx[w].pc # "idle"
  /\ aborts < MaxAborts
  /\ Rollback(w)
  /\ aborts' = aborts + 1

\* Wrong variant: it only ever publishes once.
ProcessOutboxOnce ==
  /\ \A e \in outbox : e.status = "PENDING"
  /\ outbox # {}
  /\ outbox' = {[e EXCEPT !.status = "PUBLISHED"] : e \in outbox}
  /\ UNCHANGED <<request, idem, part, tx, aborts>>

\* process_outbox marks what it finds PENDING (its batch of 100 is above every
\* bound used here).
ProcessOutbox ==
  /\ \E e \in outbox : e.status = "PENDING"
  /\ outbox' = {[e EXCEPT !.status = "PUBLISHED"] : e \in outbox}
  /\ UNCHANGED <<request, idem, part, tx, aborts>>

-----------------------------------------------------------------------------
Init ==
  /\ request = [r \in Requests |-> [status |-> "ABSENT", result |-> None]]
  /\ idem = [k \in Keys |-> None]
  /\ part = [p \in Partitions |->
               [made |-> FALSE, seq |-> 0, last |-> None,
                moves |-> [n \in Seqs |-> None]]]
  /\ outbox = {}
  /\ tx = [w \in Workers |-> Idle]
  /\ aborts = 0

\* The steps a running transaction takes by itself.
Step(w) ==
  \/ Reopen(w)
  \/ Pick(w)
  \/ Register(w)
  \/ Validate(w)
  \/ ReadPartition(w)
  \/ Reserve(w)
  \/ Persist(w)
  \/ Commit(w)

Next ==
  \/ \E r \in Requests : CreateRequest(r)
  \/ \E w \in Workers, r \in Requests : BeginApiPost(w, r) \/ BeginRetry(w, r)
  \/ \E w \in Workers : BeginBatch(w)
  \/ \E w \in Workers : Step(w)
  \/ \E w \in Workers : DeadlockVictim(w) \/ Crash(w)
  \/ ProcessOutbox

Spec == Init /\ [][Next]_vars

\* A session that has rows already goes on at one of these places.
Holding(w) ==
  \/ tx[w].rows # Idle.rows
  \/ tx[w].keys # Idle.keys
  \/ tx[w].parts # Idle.parts

Turn(w, places) == Holding(w) /\ tx[w].pc \in places /\ Step(w)

PartitionPlaces == {"read", "reserve", "persist"}

\* A session goes on.  One that waits for a lock stands in PostgreSQL's
\* first-come queue: when the holder ends, also as the victim of a deadlock, the
\* lock is its own before a new transaction can ask for it.  So who waits and
\* is let through again and again takes that very turn: at a key, a request row
\* or a partition, each by itself, because a session that starts over passes the
\* earlier places again.  Of the API this is only needed at the partition.
\* Cycles are cut, no matter at which session; the runner keeps calling its
\* jobs; a crash need not happen.
FairSpec ==
  /\ Spec
  /\ \A w \in Workers :
       WF_vars(Step(w)) /\ SF_vars(Turn(w, PartitionPlaces))
  /\ \A w \in Runners :
       /\ SF_vars(Step(w))
       /\ SF_vars(Turn(w, {"register"}))
       /\ SF_vars(Turn(w, {"validate"}))
       /\ WF_vars(BeginBatch(w))
  /\ WF_vars(\E w \in Workers : DeadlockVictim(w))
  /\ WF_vars(ProcessOutbox)
-----------------------------------------------------------------------------
(* Properties *)

\* The movements of a partition row are numbered 1, 2, 3, ... without a hole,
\* and each carries the hash of the one numbered just before it.
Chained(row) ==
  \A n \in Seqs :
    row.moves[n] # None =>
      IF n = 1
      THEN row.moves[n].prev = None
      ELSE /\ row.moves[n - 1] # None
           /\ row.moves[n].prev = <<n - 1, row.moves[n - 1].req>>

\* Its last hash is that of the highest movement, and its counter never runs
\* ahead of the movements (a stale session may have written it back).
HeadAtTop(row) ==
  \/ /\ row.last = None
     /\ row.seq = 0
     /\ \A n \in Seqs : row.moves[n] = None
  \/ \E n \in Seqs :
       /\ row.moves[n] # None
       /\ row.last = <<n, row.moves[n].req>>
       /\ row.seq <= n
       /\ \A m \in Seqs : m > n => row.moves[m] = None

\* The committed book is gapless and hash chained and its head is the last
\* link, although every posting may number its movement from a stale read of
\* the partition (posting_service, sequence_service.reserve_next_sequence).
BookSound == \A p \in Partitions : Chained(part[p]) /\ HeadAtTop(part[p])

\* A movement in the book never changes and never goes away, whichever of two
\* overlapping transactions commits last (docs: "append-only absoluto").
AppendOnly ==
  [][\A p \in Partitions, n \in Seqs :
       part[p].moves[n] # None => part'[p].moves[n] = part[p].moves[n]]_vars

\* No two movements have the same MOV code, although a code is made of site and
\* number only, numbers are reserved per warehouse, and sessions of different
\* warehouses lock different rows: the lookup sees committed codes and an
\* INSERT waits for the uncommitted ones (posting_service._persist_movement).
CodesUnique ==
  \A p, q \in Partitions, n \in Seqs :
    /\ part[p].moves[n] # None
    /\ HasCode(part[q], part[p].moves[n].req, n)
    => p = q

\* Everyone never waits on everyone: while some transaction runs, one of them
\* can go on, or PostgreSQL finds a cycle of waits to cut.  A lock is never
\* left with a session that has ended, nor with one outside the cycle
\* (process_pending_posting_requests holds the rows of a whole batch).
NoStall ==
  (\E w \in Workers : tx[w].pc # "idle") =>
    \/ \E w \in Workers : tx[w].pc # "idle" /\ WaitsFor(w) = {}
    \/ \E S \in SUBSET Workers : S # {} /\ Deadlocked(S)

\* A request that says POSTED points at a movement in the book that was made
\* for it, also after a stale session rewrote the request row.
PostedIsBooked ==
  \A r \in Requests :
    request[r].status = "POSTED" =>
      \E p \in Partitions, n \in Seqs :
        /\ request[r].result = <<p, n>>
        /\ part[p].moves[n] # None
        /\ part[p].moves[n].req = r

\* All or nothing: a movement in the book has an outbox event, and its request
\* knows of a resulting movement (docs: "Todo o nada. Outbox transaccional").
AllOrNothing ==
  \A p \in Partitions, n \in Seqs :
    part[p].moves[n] # None =>
      /\ request[part[p].moves[n].req].result # None
      /\ \E e \in outbox : e.movement = <<p, n>>

\* Events speak of committed movements only, and a published one never goes
\* back to the queue, although posting and process_outbox overlap.
OutboxSafe ==
  [][\A e \in outbox' :
       /\ \E p \in Partitions, n \in Seqs :
            e.movement = <<p, n>> /\ part'[p].moves[n] # None
       /\ [movement |-> e.movement, status |-> "PUBLISHED"] \in outbox
            => e.status = "PUBLISHED"]_vars

\* Two requests that share a request key but not a payload never both reach
\* the book, even when their sessions register the key at the same time.
KeyConflictRefused ==
  \A r, s \in Requests :
    KeyOf[r] = KeyOf[s] /\ HashOf[r] # HashOf[s] =>
      ~ \E p, q \in Partitions, n, m \in Seqs :
          /\ part[p].moves[n] # None /\ part[p].moves[n].req = r
          /\ part[q].moves[m] # None /\ part[q].moves[m].req = s

\* The key of r is registered with another payload, for good: `register' raises
\* before r has any other status, and the job swallows it (jobs.py:580).
Refused(r) == idem[KeyOf[r]] # None /\ HashOf[idem[KeyOf[r]]] # HashOf[r]

\* The requests that stay in front of r in every batch.
StuckBefore(r) == {s \in Older(Pending, r) : Refused(s)}


\* Every movement's event is eventually handed to the transport.
EventuallyPublished ==
  \A p \in Partitions, n \in Seqs :
    part[p].moves[n] # None ~>
      [movement |-> <<p, n>>, status |-> "PUBLISHED"] \in outbox

\* The book as a sequence of source events per partition: the movements that
\* are numbered without a hole from 1.
Top(row) == CHOOSE n \in 0..MaxSeq :
              /\ \A m \in 1..n : row.moves[m] # None
              /\ n < MaxSeq => row.moves[n + 1] = None

Booked(row) == [n \in 1..Top(row) |-> row.moves[n].req]

Book == INSTANCE AppendOnlyBook
          WITH Events <- Requests,
               book <- [p \in Partitions |-> Booked(part[p])]

\* The postings, stale reads and all, implement the book the documentation
\* describes: numbers are handed out in order and history is never rewritten.
ImplementsBook == Book!Spec

-----------------------------------------------------------------------------
(* What the documentation says and the code does not keep *)

\* "Dos publicaciones del mismo source -> un solo MOV activo": a source event
\* has at most one movement.
OneMovementPerSource ==
  \A p, q \in Partitions, n, m \in Seqs :
    /\ part[p].moves[n] # None
    /\ part[q].moves[m] # None
    /\ part[p].moves[n].req = part[q].moves[m].req
    => p = q /\ n = m

\* "Dos codigos MOV concurrentes -> SELECT FOR UPDATE sobre particion": the
\* lock on the partition settles the codes, so a request with nothing wrong in
\* it is never failed for its code.
SoundRequestNeverFails ==
  \A r \in Requests :
    DefectOf[r] = "none" /\ r \notin Rejectable => request[r].status # "FAILED"

\* "process_posting_requests - procesa pendientes": the job brings every pending
\* request to an end, posted or failed, without exception.
AlwaysDecided ==
  \A r \in Requests :
    request[r].status = "RECEIVED" ~> request[r].status \in {"POSTED", "FAILED"}

\* "previous_movement_hash referencia al inmediato anterior": a movement
\* carries the hash of the movement numbered next below it, if there is one.
Predecessors(row, n) == {m \in 1..(n - 1) : row.moves[m] # None}

LinkedToPredecessor ==
  \A p \in Partitions, n \in Seqs :
    part[p].moves[n] # None =>
      \/ /\ Predecessors(part[p], n) = {}
         /\ part[p].moves[n].prev = None
      \/ \E m \in Predecessors(part[p], n) :
           /\ \A k \in Predecessors(part[p], n) : k <= m
           /\ part[p].moves[n].prev = <<m, part[p].moves[m].req>>
=============================================================================
