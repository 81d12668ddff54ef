------------------------- MODULE LedgerRecordProofs -------------------------
(***************************************************************************)
(* Requests, outbox events and idempotency records agree with the book,    *)
(* for every payload and any number of sessions; and a movement never      *)
(* lacks its event or its request's result, if source references parse.    *)
(* No MOV code is given twice, although partitions may share a site; and   *)
(* the sessions that run never all wait without a cycle to break.          *)
(*                                                                         *)
(* The steps of a session, but for its commit, only change its own         *)
(* transaction, in one of five ways: it starts or ends (Blank), goes on    *)
(* (Going), registers a key, writes a partition row without a movement     *)
(* (Touching), or inserts a movement.  What its commit then publishes, no  *)
(* other session has: partition rows are Exclusive, keys are KeysApart,    *)
(* codes are WrittenApart.                                                 *)
(***************************************************************************)
EXTENDS LedgerProofs, FiniteSetTheorems

-----------------------------------------------------------------------------
(* The steps *)

Private(w) ==
  /\ UNCHANGED <<request, idem, part, outbox>>
  /\ \A v \in Workers \ {w} : tx'[v] = tx[v]

\* A row that says nothing of a movement.
Plain(row) == row # None /\ row.status # "POSTED" /\ row.result = None

Blank(w) ==
  LET t == tx'[w] IN
  /\ \A p \in Partitions : t.parts[p] = None
  /\ \A k \in Keys : t.keys[k] = None
  /\ t.events = {}
  /\ \A r \in Requests : t.rows[r] = None \/ Plain(t.rows[r])
  /\ t.pc \in {"idle", "pick", "reopen"}
  /\ t.pc # "pick" => t.cur \notin t.todo
  /\ t.pc = "idle" => t = Idle

Posting == {"validate", "read", "reserve", "persist"}

Picks(s, t) ==
  /\ s.pc = "pick"
  /\ t.cur \in s.todo /\ t.todo = s.todo \ {t.cur} /\ t.rows = s.rows

SameTask(s, t) == s.pc # "pick" /\ t.cur = s.cur /\ t.todo = s.todo

Answered(s, t) ==
  \A r \in Requests : t.rows[r] = s.rows[r] \/ (r = s.cur /\ Plain(t.rows[r]))

Going(w) ==
  LET s == tx[w]  t == tx'[w] IN
  /\ t.parts = s.parts /\ t.keys = s.keys /\ t.events = s.events
  /\ t.pc # "idle"
  /\ t.pc \in Posting => (s.pc \in Posting /\ t.cur = s.cur) \/ Registered(w, t.cur)
  /\ Picks(s, t) \/ (SameTask(s, t) /\ Answered(s, t))

Registering(w) ==
  LET s == tx[w]  t == tx'[w]  key == KeyOf[s.cur] IN
  /\ t.parts = s.parts /\ t.events = s.events /\ t.rows = s.rows
  /\ t.pc # "idle" /\ SameTask(s, t) /\ s.cur \in Requests
  /\ t.keys = [s.keys EXCEPT ![key] = s.cur]
  /\ idem[key] = None /\ \A v \in Workers : tx[v].keys[key] = None

Touching(w) ==
  LET s == tx[w]  t == tx'[w] IN
  /\ t.keys = s.keys /\ t.events = s.events /\ t.rows = s.rows
  /\ t.pc # "idle" /\ SameTask(s, t) /\ (t.pc \in Posting => s.pc \in Posting)
  /\ \E p \in Partitions, row \in PartitionRow :
       /\ t.parts = [s.parts EXCEPT ![p] = row]
       /\ row.moves = View(w, p).moves
       /\ \A v \in Workers \ {w} : tx[v].parts[p] = None

\* No movement that w sees or that another session has written has the code of
\* request r at number n.
NewCode(w, r, n) ==
  /\ ~CodeTaken(w, r, n)
  /\ \A v \in Workers \ {w}, q \in Partitions :
       tx[v].parts[q] # None => ~HasCode(tx[v].parts[q], r, n)

Takes(s, t, p, n) ==
  /\ s.parts[p] # None /\ s.parts[p].moves[n] = None
  /\ \E row \in PartitionRow :
       /\ t.parts = [s.parts EXCEPT ![p] = row]
       /\ row.moves = [s.parts[p].moves EXCEPT ![n] = [req |-> s.cur, prev |-> s.snap.last]]

Inserting(w) ==
  LET s == tx[w]  t == tx'[w] IN
  /\ t.keys = s.keys /\ SameTask(s, t) /\ s.pc = "persist" /\ t.pc = "pick"
  /\ s.cur \in Requests
  /\ \E p \in Partitions, n \in Seqs :
       /\ Takes(s, t, p, n) /\ NewCode(w, s.cur, n)
       /\ \/ /\ DefectOf[s.cur] = "badSource"
             /\ t.events = s.events /\ Answered(s, t)
          \/ /\ t.events = s.events \cup {<<p, n>>}
             /\ t.rows = [s.rows EXCEPT ![s.cur] = [status |-> "POSTED", result |-> <<p, n>>]]

OwnStep(w) ==
  /\ Private(w)
  /\ Blank(w) \/ Going(w) \/ Registering(w) \/ Touching(w) \/ Inserting(w)

LEMMA Becomes ==
  ASSUME TypeOK, NEW w \in Workers, NEW t, tx' = [tx EXCEPT ![w] = t],
         UNCHANGED <<request, idem, part, outbox>>
  PROVE  tx'[w] = t /\ Private(w)
BY DEF TypeOK, Private

LEMMA Resets ==
  ASSUME TypeOK, NEW w \in Workers, tx' = [tx EXCEPT ![w] = Idle],
         UNCHANGED <<request, idem, part, outbox>>
  PROVE  OwnStep(w)
<1>1. tx'[w] = Idle /\ Private(w)
  BY Becomes
<1>2. Blank(w)
  BY <1>1 DEF Blank, Idle
<1> QED
  BY <1>1, <1>2 DEF OwnStep

LEMMA Begins ==
  ASSUME TypeOK, NEW w \in Workers
  PROVE  /\ BeginBatch(w) => OwnStep(w)
         /\ \A r \in Requests : BeginApiPost(w, r) \/ BeginRetry(w, r) => OwnStep(w)
<1>1. ASSUME BeginBatch(w) PROVE OwnStep(w)
  <2> DEFINE t == [Idle EXCEPT !.pc = "pick", !.kind = "job",
                     !.todo = NextBatch]
  <2>1. tx'[w] = t /\ Private(w)
    BY <1>1, Becomes DEF BeginBatch
  <2>2. Blank(w)
    BY <2>1 DEF Blank, Idle
  <2> QED BY <2>1, <2>2 DEF OwnStep
<1>2. ASSUME NEW r \in Requests, BeginApiPost(w, r) PROVE OwnStep(w)
  <2> DEFINE first == IF request[r].status = "ABSENT"
                      THEN [status |-> "RECEIVED", result |-> None] ELSE None
             t == [Idle EXCEPT !.pc = "pick", !.kind = "api", !.todo = {r},
                               !.rows[r] = first]
  <2>1. tx'[w] = t /\ Private(w)
    BY <1>2, Becomes DEF BeginApiPost
  <2>2. first = None \/ Plain(first)
    BY NoneAssumption DEF Plain, RequestRow, Status
  <2>3. t.pc = "pick" /\ t.parts = Idle.parts /\ t.keys = Idle.keys /\ t.events = {}
    BY DEF Idle
  <2>4. \A q \in Requests : t.rows[q] = None \/ Plain(t.rows[q])
    BY <2>2 DEF Idle
  <2>5. Blank(w)
    BY <2>1, <2>3, <2>4 DEF Blank, Idle
  <2> QED BY <2>1, <2>5 DEF OwnStep
<1>3. ASSUME NEW r \in Requests, BeginRetry(w, r) PROVE OwnStep(w)
  <2> DEFINE t == [Idle EXCEPT !.pc = "reopen", !.kind = "job", !.cur = r]
  <2>1. tx'[w] = t /\ Private(w)
    BY <1>3, Becomes DEF BeginRetry
  <2>2. Blank(w)
    BY <2>1 DEF Blank, Idle
  <2> QED BY <2>1, <2>2 DEF OwnStep
<1> QED
  BY <1>1, <1>2, <1>3

\* Whatever the posting did, the except clauses only add to it that the request
\* failed, or undo it all.
LEMMA Failing ==
  ASSUME TypeOK, NEW w \in Workers, NEW t \in Transaction, t.cur \in Requests,
         Fail(w, t)
  PROVE  \/ OwnStep(w)
         \/ /\ Private(w) /\ tx'[w].pc = "pick"
            /\ tx'[w].parts = t.parts /\ tx'[w].keys = t.keys
            /\ tx'[w].events = t.events
            /\ tx'[w].cur = t.cur /\ tx'[w].todo = t.todo /\ Answered(t, tx'[w])
<1> DEFINE row == [status |-> "FAILED", result |-> None]
           f == [t EXCEPT !.rows[t.cur] = row]
           new == [f EXCEPT !.pc = "pick"]
<1>1. CASE tx' = [tx EXCEPT ![w] = Idle] /\ UNCHANGED <<request, idem, part, outbox>>
  BY <1>1, Resets
<1>2. CASE tx' = [tx EXCEPT ![w] = new] /\ UNCHANGED <<request, idem, part, outbox>>
  <2>1. tx'[w] = new /\ Private(w)
    BY <1>2, Becomes
  <2>2. /\ new.pc = "pick" /\ new.parts = t.parts /\ new.keys = t.keys
        /\ new.events = t.events /\ new.cur = t.cur /\ new.todo = t.todo
        /\ new.rows = [t.rows EXCEPT ![t.cur] = row]
    <3> HIDE DEF row
    <3> QED BY DEF Transaction
  <2>3. Plain(row)
    BY NoneAssumption DEF Plain, RequestRow, Status
  <2>4. Answered(t, new)
    <3> HIDE DEF new, row
    <3> QED BY <2>2, <2>3 DEF Answered, Transaction
  <2> QED BY <2>1, <2>2, <2>4
<1> QED
  BY <1>1, <1>2 DEF Fail, Raise

LEMMA OwnSteps ==
  ASSUME TypeInv, NEW w \in Workers, Step(w), ~Commit(w)
  PROVE  OwnStep(w)
<1> DEFINE s == tx[w]  r == s.cur  p == PartitionOf[r]  key == KeyOf[r]
<1>s. s \in Transaction /\ (s.pc \notin {"idle", "pick"} => r \in Requests)
  BY DEF TypeInv, TypeOK
<1>r. ASSUME r \in Requests PROVE p \in Partitions /\ key \in Keys /\ r # None
  BY <1>r, PayloadAssumption, NoneAssumption
<1>t. TypeOK
  BY DEF TypeInv
<1>1. CASE Reopen(w)
  <2> DEFINE row == [status |-> "RECEIVED", result |-> None]
             t == [s EXCEPT !.pc = "register", !.rows[r] = row]
  <2>a. tx'[w] = t
    BY <1>1, <1>t DEF Reopen, TypeOK
  <2>b. Private(w)
    BY <1>1, <1>t DEF Reopen, TypeOK, Private
  <2>1. tx'[w] = t /\ Private(w) /\ s.pc = "reopen"
    BY <1>1, <2>a, <2>b DEF Reopen, At
  <2>2. Plain(row)
    BY NoneAssumption DEF Plain, RequestRow, Status
  <2>3. /\ t.parts = s.parts /\ t.keys = s.keys /\ t.events = s.events
        /\ t.pc = "register" /\ t.cur = s.cur /\ t.todo = s.todo
        /\ t.rows = [s.rows EXCEPT ![r] = row]
    <3> HIDE DEF row
    <3> QED BY <1>s DEF Transaction
  <2>4. Answered(s, t)
    <3> HIDE DEF row, t
    <3> QED BY <1>s, <2>2, <2>3 DEF Answered, Transaction
  <2>5. Going(w)
    <3> HIDE DEF t
    <3> QED BY <2>1, <2>3, <2>4 DEF Going, Posting, SameTask
  <2> QED BY <2>1, <2>5 DEF OwnStep
<1>2. CASE Pick(w)
  <2> PICK q \in s.todo :
        tx' = [tx EXCEPT ![w].pc = "register", ![w].cur = q,
                         ![w].todo = tx[w].todo \ {q}]
    BY <1>2 DEF Pick
  <2> DEFINE t == [s EXCEPT !.pc = "register", !.cur = q, !.todo = s.todo \ {q}]
  <2>a. tx'[w] = t
    BY <1>2, <1>t DEF Pick, TypeOK
  <2>b. Private(w)
    BY <1>2, <1>t DEF Pick, TypeOK, Private
  <2>1. tx'[w] = t /\ Private(w) /\ s.pc = "pick"
    BY <1>2, <2>a, <2>b DEF Pick
  <2>2. /\ t.parts = s.parts /\ t.keys = s.keys /\ t.events = s.events
        /\ t.pc = "register" /\ Picks(s, t)
    BY <1>s, <2>1 DEF Transaction, Picks
  <2>3. Going(w)
    BY <2>1, <2>2, Zenon DEF Going, Posting
  <2> QED BY <2>1, <2>3 DEF OwnStep
<1>3. CASE Register(w)
  <2> DEFINE known == IF s.keys[key] # None THEN s.keys[key] ELSE idem[key]
             passed == [s EXCEPT !.pc = "validate"]
  <2>0. s.pc = "register" /\ WaitsFor(w) = {} /\ r \in Requests
    BY <1>3, <1>s DEF Register, At
  <2>1. CASE /\ known = None
             /\ tx' = [tx EXCEPT ![w].pc = "validate", ![w].keys[key] = r]
             /\ UNCHANGED <<request, idem, part, outbox, aborts>>
    <3> DEFINE t == [s EXCEPT !.pc = "validate", !.keys[key] = r]
    <3>a. tx'[w] = t
      BY <2>1, <1>t DEF TypeOK
    <3>b. Private(w)
      BY <2>1, <1>t DEF TypeOK, Private
    <3>1. tx'[w] = t /\ Private(w)
      BY <3>a, <3>b
    <3>2. /\ t.parts = s.parts /\ t.events = s.events /\ t.rows = s.rows
          /\ t.cur = s.cur /\ t.todo = s.todo /\ t.pc = "validate"
          /\ t.keys = [s.keys EXCEPT ![key] = r]
      BY <1>s DEF Transaction
    <3>3. s.keys[key] = None /\ idem[key] = None
      BY <2>1
    <3>4. ASSUME NEW v \in Workers PROVE tx[v].keys[key] = None
      BY <2>0, <3>3 DEF WaitsFor
    <3>5. Registering(w)
      <4> HIDE DEF t
      <4> QED BY <2>0, <3>1, <3>2, <3>3, <3>4 DEF Registering, SameTask
    <3> QED BY <3>1, <3>5 DEF OwnStep
  <2>2. CASE /\ known # None
             /\ HashOf[known] = HashOf[r]
             /\ tx' = [tx EXCEPT ![w].pc = "validate"]
             /\ UNCHANGED <<request, idem, part, outbox, aborts>>
    <3>1. tx'[w] = passed /\ Private(w)
      BY <2>2, <1>t, Becomes
    <3>2. /\ passed.parts = s.parts /\ passed.keys = s.keys
          /\ passed.events = s.events /\ passed.rows = s.rows
          /\ passed.cur = s.cur /\ passed.todo = s.todo /\ passed.pc = "validate"
      BY <1>s DEF Transaction
    <3>3. Registered(w, r)
      BY <2>2 DEF Registered, Registrant, Matches
    <3>4. Going(w)
      <4> HIDE DEF passed
      <4> QED BY <2>0, <3>1, <3>2, <3>3 DEF Going, SameTask, Answered
    <3> QED BY <3>1, <3>4, SMTT(30) DEF OwnStep
  <2>3. CASE Raise(w, s)
    <3>1. CASE tx' = [tx EXCEPT ![w] = Idle]
      BY <2>3, <3>1, <1>t, Resets DEF Raise
    <3>2. CASE tx' = [tx EXCEPT ![w] = [s EXCEPT !.pc = "pick"]]
      <4> DEFINE t == [s EXCEPT !.pc = "pick"]
      <4>1. tx'[w] = t /\ Private(w)
        BY <2>3, <3>2, <1>t, Becomes DEF Raise
      <4>2. /\ t.parts = s.parts /\ t.keys = s.keys
            /\ t.events = s.events /\ t.rows = s.rows
            /\ t.cur = s.cur /\ t.todo = s.todo /\ t.pc = "pick"
        BY <1>s DEF Transaction
      <4>3. Going(w)
        <5> HIDE DEF t
        <5> QED BY <2>0, <4>1, <4>2 DEF Going, SameTask, Answered, Posting
      <4> QED BY <4>1, <4>3 DEF OwnStep
    <3> QED BY <2>3, <3>1, <3>2 DEF Raise
  <2> QED BY <1>3, <2>1, <2>2, <2>3, Zenon DEF Register
<1>f. ASSUME Fail(w, s), s.pc \in Posting PROVE OwnStep(w)
  <2>1. r \in Requests
    BY <1>f, <1>s DEF Posting
  <2>2. CASE /\ Private(w) /\ tx'[w].pc = "pick"
             /\ tx'[w].parts = s.parts /\ tx'[w].keys = s.keys
             /\ tx'[w].events = s.events
             /\ tx'[w].cur = s.cur /\ tx'[w].todo = s.todo /\ Answered(s, tx'[w])
    <3>1. Going(w)
      BY <1>f, <2>2 DEF Going, Posting, SameTask
    <3> QED BY <2>2, <3>1 DEF OwnStep
  <2> QED
    <3> HIDE DEF s, r
    <3> QED BY <1>f, <1>s, <1>t, <2>1, <2>2, Failing DEF s, r
<1>4. CASE Validate(w)
  <2>0. s.pc = "validate"
    BY <1>4 DEF Validate, At
  <2> DEFINE row == [status |-> "VALIDATING", result |-> None]
             t == [s EXCEPT !.pc = "read", !.rows[r] = row]
  <2>1. CASE tx' = [tx EXCEPT ![w] = t] /\ UNCHANGED <<request, idem, part, outbox>>
    <3>1. tx'[w] = t /\ Private(w)
      BY <2>1, <1>t, Becomes
    <3>2. Plain(row)
      BY NoneAssumption DEF Plain, RequestRow, Status
    <3>3. /\ t.parts = s.parts /\ t.keys = s.keys /\ t.events = s.events
          /\ t.cur = s.cur /\ t.todo = s.todo /\ t.pc = "read"
          /\ t.rows = [s.rows EXCEPT ![r] = row]
      <4> HIDE DEF row
      <4> QED BY <1>s DEF Transaction
    <3>4. Answered(s, t)
      <4> HIDE DEF row, t
      <4> QED BY <1>s, <3>2, <3>3 DEF Answered, Transaction
    <3>5. Going(w)
      <4> HIDE DEF t
      <4> QED BY <2>0, <3>1, <3>3, <3>4 DEF Going, SameTask, Posting
    <3> QED BY <3>1, <3>5 DEF OwnStep
  <2>2. CASE Fail(w, s)
    BY <2>0, <2>2, <1>f DEF Posting
  <2> QED BY <1>4, <2>1, <2>2 DEF Validate
<1>v. ASSUME r \in Requests PROVE View(w, p) \in PartitionRow
  BY <1>v, <1>t, <1>r, ViewType
<1>5. CASE ReadPartition(w)
  <2> DEFINE row == View(w, p)
             touched == IF row.made THEN s.parts[p] ELSE [row EXCEPT !.made = TRUE]
             t == [s EXCEPT !.pc = "reserve",
                            !.snap = [seq |-> row.seq, last |-> row.last],
                            !.parts[p] = touched]
  <2>0. s.pc = "read" /\ r \in Requests
    BY <1>5, <1>s DEF ReadPartition, At
  <2>a. tx'[w] = t
    BY <1>5, <1>t DEF ReadPartition, TypeOK
  <2>b. Private(w)
    BY <1>5, <1>t DEF ReadPartition, TypeOK, Private
  <2>1. tx'[w] = t /\ Private(w)
    BY <2>a, <2>b
  <2>2. /\ t.keys = s.keys /\ t.events = s.events /\ t.rows = s.rows
        /\ t.cur = s.cur /\ t.todo = s.todo /\ t.pc = "reserve"
        /\ t.parts = [s.parts EXCEPT ![p] = touched]
    <3> HIDE DEF touched, row
    <3> QED BY <1>s DEF Transaction
  <2>3. CASE row.made
    <3>1. t.parts = s.parts
      <4> HIDE DEF t
      <4> QED BY <1>s, <2>2, <2>3 DEF Transaction
    <3>2. Going(w)
      <4> HIDE DEF t
      <4> QED BY <2>0, <2>1, <2>2, <3>1 DEF Going, SameTask, Answered, Posting
    <3> QED BY <2>1, <3>2 DEF OwnStep
  <2>4. CASE ~row.made
    <3>1. touched \in PartitionRow /\ touched.moves = row.moves
      BY <1>v, <2>0, <2>4 DEF PartitionRow
    <3>a. \A v \in Workers \ {w} : tx[v].parts[p] = None
      BY <1>5, <2>0, <2>4 DEF ReadPartition, At, WaitsFor
    <3>2. Touching(w)
      <4> HIDE DEF t, touched
      <4> QED BY <2>0, <2>1, <2>2, <3>1, <3>a, <1>r DEF Touching, SameTask, Posting
    <3> QED BY <2>1, <3>2 DEF OwnStep
  <2> QED BY <2>3, <2>4
<1>6. CASE Reserve(w)
  <2> DEFINE row == [View(w, p) EXCEPT !.seq = s.snap.seq + 1]
             t == [s EXCEPT !.pc = "persist", !.parts[p] = row]
  <2>0. s.pc = "reserve" /\ r \in Requests /\ s.snap.seq < MaxSeq
    BY <1>6, <1>s DEF Reserve, At
  <2>a. tx'[w] = t
    BY <1>6, <1>t DEF Reserve, TypeOK
  <2>b. Private(w)
    BY <1>6, <1>t DEF Reserve, TypeOK, Private
  <2>1. tx'[w] = t /\ Private(w)
    BY <2>a, <2>b
  <2>2. /\ t.keys = s.keys /\ t.events = s.events /\ t.rows = s.rows
        /\ t.cur = s.cur /\ t.todo = s.todo /\ t.pc = "persist"
        /\ t.parts = [s.parts EXCEPT ![p] = row]
    <3> HIDE DEF row
    <3> QED BY <1>s DEF Transaction
  <2>3. row \in PartitionRow /\ row.moves = View(w, p).moves
    <3>1. s.snap.seq + 1 \in 0..MaxSeq
      BY <1>s, <2>0, BoundAssumption DEF Transaction, Snapshot
    <3> QED BY <1>v, <2>0, <3>1 DEF PartitionRow
  <2>c. \A v \in Workers \ {w} : tx[v].parts[p] = None
    BY <1>6, <2>0 DEF Reserve, At, WaitsFor
  <2>4. Touching(w)
    <3> HIDE DEF t, row
    <3>1. \E q \in Partitions, new \in PartitionRow :
            /\ t.parts = [s.parts EXCEPT ![q] = new]
            /\ new.moves = View(w, q).moves
            /\ \A v \in Workers \ {w} : tx[v].parts[q] = None
      BY <2>0, <2>2, <2>3, <2>c, <1>r, Zenon
    <3> QED BY <2>0, <2>1, <2>2, <3>1 DEF Touching, SameTask, Posting
  <2> QED BY <2>1, <2>4 DEF OwnStep
<1>7. CASE Persist(w)
  <2> DEFINE n == s.snap.seq + 1
             row == s.parts[p]
             move == [req |-> r, prev |-> s.snap.last]
             inserted == [row EXCEPT !.moves[n] = move]
             bound == [inserted EXCEPT !.last = <<n, r>>]
             posted == [status |-> "POSTED", result |-> <<p, n>>]
  <2>0. s.pc = "persist" /\ r \in Requests
    BY <1>7, <1>s, Zenon DEF Persist, At
  <2>1. /\ p \in Partitions /\ n \in Seqs /\ row \in PartitionRow
        /\ move \in Movement /\ <<n, r>> \in Digest
    <3>1. s.snap.seq \in 0..MaxSeq /\ s.snap.last \in Digest \cup {None}
      BY <1>s DEF Transaction, Snapshot
    <3>2. s.snap.seq < MaxSeq /\ s.parts[p] # None
      BY <2>0 DEF TypeInv, Reserved
    <3>3. n \in Seqs
      BY <3>1, <3>2, BoundAssumption DEF Seqs
    <3>4. row \in PartitionRow
      BY <1>s, <2>0, <1>r, <3>2 DEF Transaction
    <3> QED BY <1>r, <2>0, <3>1, <3>3, <3>4 DEF Movement, Digest
  <2>2. /\ inserted \in PartitionRow /\ bound \in PartitionRow
        /\ inserted.moves = [row.moves EXCEPT ![n] = move]
        /\ bound.moves = inserted.moves
    <3> HIDE DEF n, move, row
    <3> QED BY <2>1 DEF PartitionRow
  <2>3. row # None
    BY <2>1, NoneAssumption
  <2>4. CASE Fail(w, s)
    BY <2>0, <2>4, <1>f DEF Posting
  <2>5. CASE tx' = [tx EXCEPT ![w] = Idle] /\ UNCHANGED <<request, idem, part, outbox>>
    BY <2>5, <1>t, Resets
  <2>c. ASSUME Inserts(w) PROVE NewCode(w, r, n)
    <3>1. ~CodeTaken(w, r, n)
      BY <2>c DEF Inserts
    <3>2. WaitsFor(w) = {}
      BY <1>7, Zenon DEF Persist, At
    <3>3. ASSUME NEW v \in Workers \ {w}, NEW q \in Partitions,
                 tx[v].parts[q] # None, HasCode(tx[v].parts[q], r, n)
          PROVE  FALSE
      <4>1. v \in WaitsFor(w)
        BY <2>0, <2>c, <3>3, SMTT(30) DEF WaitsFor
      <4> QED BY <3>2, <4>1
    <3> QED BY <3>1, <3>3 DEF NewCode
  <2>6. ASSUME Inserts(w), row.moves[n] = None, DefectOf[r] = "badSource",
               Fail(w, [s EXCEPT !.parts[p] = inserted])
        PROVE  OwnStep(w)
    <3> DEFINE t == [s EXCEPT !.parts[p] = inserted]
    <3>1. /\ t \in Transaction /\ t.cur = s.cur /\ t.parts = [s.parts EXCEPT ![p] = inserted]
          /\ t.keys = s.keys /\ t.events = s.events /\ t.todo = s.todo /\ t.rows = s.rows
      <4> HIDE DEF inserted
      <4> QED BY <1>s, <2>1, <2>2, SMTT(30) DEF Transaction
    <3>2. CASE /\ Private(w) /\ tx'[w].pc = "pick"
               /\ tx'[w].parts = t.parts /\ tx'[w].keys = t.keys
               /\ tx'[w].events = t.events
               /\ tx'[w].cur = t.cur /\ tx'[w].todo = t.todo /\ Answered(t, tx'[w])
      <4>1. Takes(s, tx'[w], p, n)
        <5> HIDE DEF inserted, row, n, t
        <5> QED BY <2>2, <2>3, <2>6, <3>1, <3>2, ZenonT(30) DEF Takes, row
      <4>2. Answered(s, tx'[w])
        <5> HIDE DEF t
        <5> QED BY <3>1, <3>2, SMTT(30) DEF Answered
      <4>3. Inserting(w)
        <5> HIDE DEF t, n
        <5> QED BY <2>0, <2>1, <2>c, <2>6, <3>1, <3>2, <4>1, <4>2, Zenon DEF Inserting, SameTask
      <4> QED BY <3>2, <4>3, SMTT(30) DEF OwnStep
    <3> QED
      <4> HIDE DEF t
      <4>1. t.cur \in Requests /\ Fail(w, t)
        BY <2>0, <2>6, <3>1, ZenonT(30) DEF t
      <4> QED BY <1>t, <3>1, <3>2, <4>1, Failing, SMTT(30)
  <2>7. ASSUME Inserts(w), row.moves[n] = None,
               tx' = [tx EXCEPT ![w] =
                 [s EXCEPT !.pc = "pick", !.parts[p] = bound,
                           !.rows[r] = posted,
                           !.events = s.events \cup {<<p, n>>}]],
               UNCHANGED <<request, idem, part, outbox>>
        PROVE  OwnStep(w)
    <3> DEFINE t == [s EXCEPT !.pc = "pick", !.parts[p] = bound,
                              !.rows[r] = posted,
                              !.events = s.events \cup {<<p, n>>}]
    <3>1. tx'[w] = t /\ Private(w)
      <4> HIDE DEF t
      <4> QED BY <2>7, <1>t, Becomes, Zenon DEF t
    <3>2. /\ t.pc = "pick" /\ t.cur = s.cur /\ t.keys = s.keys /\ t.todo = s.todo
          /\ t.parts = [s.parts EXCEPT ![p] = bound]
          /\ t.rows = [s.rows EXCEPT ![r] = posted]
          /\ t.events = s.events \cup {<<p, n>>}
      <4> HIDE DEF bound, posted, n
      <4> QED BY <1>s DEF Transaction
    <3>3. Takes(s, t, p, n)
      <4> HIDE DEF bound, inserted, row, n, t
      <4> QED BY <2>2, <2>3, <2>7, <3>2, ZenonT(30) DEF Takes, row
    <3>4. Inserting(w)
      <4> HIDE DEF t, n
      <4> QED BY <2>0, <2>1, <2>c, <2>7, <3>1, <3>2, <3>3, Zenon DEF Inserting, SameTask
    <3> QED BY <3>1, <3>4, SMTT(30) DEF OwnStep
  <2>8. \/ Fail(w, s)
        \/ tx' = [tx EXCEPT ![w] = Idle] /\ UNCHANGED <<request, idem, part, outbox>>
        \/ /\ Inserts(w) /\ row.moves[n] = None /\ DefectOf[r] = "badSource"
           /\ Fail(w, [s EXCEPT !.parts[p] = inserted])
        \/ /\ Inserts(w) /\ row.moves[n] = None
           /\ tx' = [tx EXCEPT ![w] =
                [s EXCEPT !.pc = "pick", !.parts[p] = bound,
                          !.rows[r] = posted,
                          !.events = s.events \cup {<<p, n>>}]]
           /\ UNCHANGED <<request, idem, part, outbox>>
    BY <1>7, Zenon DEF Persist, Duplicate, BindLast, EmitOutbox
  <2> QED
    <3> HIDE DEF n, row, inserted, bound, posted
    <3> QED BY <2>4, <2>5, <2>6, <2>7, <2>8
<1> QED
  BY <1>1, <1>2, <1>3, <1>4, <1>5, <1>6, <1>7 DEF Step

-----------------------------------------------------------------------------
(* What a step of a session does to its own records *)

\* Outside its end, a session sees ever more movements.
SeesMore(w) ==
  \A p \in Partitions, n \in Seqs :
    View(w, p).moves[n] # None => View(w, p)'.moves[n] = View(w, p).moves[n]

LEMMA RowsSeen ==
  ASSUME TypeOK, NEW w \in Workers, NEW p \in Partitions
  PROVE  /\ View(w, p) \in PartitionRow
         /\ \A n \in Seqs :
              View(w, p).moves[n] # None =>
                /\ View(w, p).moves[n].req \in Requests
                /\ KeyOf[View(w, p).moves[n].req] \in Keys
<1>1. View(w, p) \in PartitionRow
  BY ViewType
<1>2. ASSUME NEW n \in Seqs, View(w, p).moves[n] # None
      PROVE  View(w, p).moves[n].req \in Requests
  BY <1>1, <1>2 DEF PartitionRow, Movement
<1> QED
  BY <1>1, <1>2, PayloadAssumption

LEMMA Seeing ==
  ASSUME AppendInv, NEW w \in Workers, Private(w),
         Going(w) \/ Registering(w) \/ Touching(w) \/ Inserting(w)
  PROVE  SeesMore(w)
<1>p. part' = part /\ tx[w].parts \in [Partitions -> PartitionRow \cup {None}]
  BY DEF Private, AppendInv, TypeInv, TypeOK, Transaction
<1>n. ASSUME NEW row \in PartitionRow PROVE row # None
  BY NoneAssumption
<1>1. CASE Going(w) \/ Registering(w)
  <2>1. tx'[w].parts = tx[w].parts
    BY <1>1 DEF Going, Registering
  <2> QED BY <1>p, <2>1, SMTT(30) DEF SeesMore, View
<1>2. CASE Touching(w)
  <2> PICK p \in Partitions, row \in PartitionRow :
        /\ tx'[w].parts = [tx[w].parts EXCEPT ![p] = row]
        /\ row.moves = View(w, p).moves
    BY <1>2 DEF Touching
  <2>1. View(w, p)' = row
    BY <1>p, <1>n DEF View
  <2>2. ASSUME NEW q \in Partitions \ {p} PROVE View(w, q)' = View(w, q)
    BY <1>p DEF View
  <2> QED BY <2>1, <2>2 DEF SeesMore
<1>3. CASE Inserting(w)
  <2> PICK p \in Partitions, m \in Seqs : Takes(tx[w], tx'[w], p, m)
    BY <1>3 DEF Inserting
  <2> PICK row \in PartitionRow :
        /\ tx'[w].parts = [tx[w].parts EXCEPT ![p] = row]
        /\ row.moves = [tx[w].parts[p].moves EXCEPT
                          ![m] = [req |-> tx[w].cur, prev |-> tx[w].snap.last]]
    BY DEF Takes
  <2>1. View(w, p)' = row
    BY <1>p, <1>n DEF View
  <2>2. View(w, p) = tx[w].parts[p] /\ View(w, p) \in PartitionRow
    BY <1>p DEF View, Takes
  <2>3. ASSUME NEW q \in Partitions \ {p} PROVE View(w, q)' = View(w, q)
    BY <1>p DEF View
  <2>4. ASSUME NEW n \in Seqs, View(w, p).moves[n] # None
        PROVE  View(w, p)'.moves[n] = View(w, p).moves[n]
    <3>1. n # m
      BY <2>2, <2>4 DEF Takes
    <3> QED BY <2>1, <2>2, <3>1 DEF PartitionRow
  <2> QED BY <2>3, <2>4 DEF SeesMore
<1> QED
  BY <1>1, <1>2, <1>3

LEMMA NothingIsNoRow == \A row \in Movement \cup RequestRow \cup MovementId : row # None
BY NoneAssumption

\* What Inserting says of the movement's place in the row.
Took(w, p, n) ==
  /\ part[p].moves[n] = None
  /\ \A q \in Partitions, m \in Seqs :
       /\ tx'[w].parts[q] # None <=> tx[w].parts[q] # None
       /\ (q # p \/ m # n) => tx'[w].parts[q].moves[m] = tx[w].parts[q].moves[m]
  /\ tx'[w].parts[p] # None
  /\ tx'[w].parts[p].moves[n] # None
  /\ tx'[w].parts[p].moves[n] = [req |-> tx[w].cur, prev |-> tx[w].snap.last]

LEMMA Taken ==
  ASSUME AppendInv, NEW w \in Workers, Private(w),
         NEW p \in Partitions, NEW n \in Seqs, Takes(tx[w], tx'[w], p, n),
         tx[w].cur \in Requests
  PROVE  Took(w, p, n)
<1>1. tx[w].parts \in [Partitions -> PartitionRow \cup {None}]
  BY DEF AppendInv, TypeInv, TypeOK, Transaction
<1>2. part[p].moves[n] = None
  BY DEF AppendInv, BuildsOnBook, Keeps, Takes
<1>3. PICK row \in PartitionRow :
        /\ tx'[w].parts = [tx[w].parts EXCEPT ![p] = row]
        /\ row.moves = [tx[w].parts[p].moves EXCEPT
                          ![n] = [req |-> tx[w].cur, prev |-> tx[w].snap.last]]
  BY DEF Takes
<1>4. tx[w].parts[p] \in PartitionRow /\ row # None /\ tx[w].parts[p] # None
  BY <1>1, NoneAssumption DEF Takes
<1>5. tx'[w].parts[p] = row /\ \A q \in Partitions \ {p} : tx'[w].parts[q] = tx[w].parts[q]
  BY <1>1, <1>3
<1>6. /\ row.moves[n] = [req |-> tx[w].cur, prev |-> tx[w].snap.last]
      /\ \A m \in Seqs \ {n} : row.moves[m] = tx[w].parts[p].moves[m]
  BY <1>3, <1>4 DEF PartitionRow
<1>7. row.moves[n] # None
  <2>1. [req |-> tx[w].cur, prev |-> tx[w].snap.last] \in Movement
    BY DEF AppendInv, TypeInv, TypeOK, Transaction, Snapshot, Movement
  <2> QED BY <1>6, <2>1, NothingIsNoRow
<1> QED
  BY <1>2, <1>4, <1>5, <1>6, <1>7 DEF Took

LEMMA OwnPosted ==
  ASSUME RecordInv, NEW w \in Workers, OwnStep(w)
  PROVE  PostedTx(w)'
<1>a. AppendInv /\ PostedTx(w) /\ Private(w)
  BY DEF RecordInv, RecordTx, OwnStep
<1>t. tx[w].rows \in [Requests -> RequestRow \cup {None}]
  BY <1>a DEF AppendInv, TypeInv, TypeOK, Transaction
<1> SUFFICES ASSUME NEW r \in Requests, tx'[w].rows[r] # None,
                    tx'[w].rows[r].status = "POSTED"
             PROVE  \E p \in Partitions, n \in Seqs :
                      /\ tx'[w].rows[r].result = <<p, n>>
                      /\ View(w, p)'.moves[n] # None
                      /\ View(w, p)'.moves[n].req = r
  BY DEF PostedTx, Answers
<1> DEFINE Named == \E p \in Partitions, n \in Seqs :
                      /\ tx'[w].rows[r].result = <<p, n>>
                      /\ View(w, p)'.moves[n] # None
                      /\ View(w, p)'.moves[n].req = r
<1>1. ASSUME SeesMore(w), tx'[w].rows[r] = tx[w].rows[r]
      PROVE  Named
  <2>1. Answers(w, r, tx[w].rows[r].result)
    BY <1>a, <1>1 DEF PostedTx
  <2> QED BY <1>1, <2>1 DEF SeesMore, Answers
<1>2. CASE Blank(w)
  BY <1>2 DEF Blank, Plain
<1>3. CASE Going(w) \/ Registering(w) \/ Touching(w)
  <2>1. tx'[w].rows[r] = tx[w].rows[r]
    BY <1>3 DEF Going, Registering, Touching, Picks, Answered, Plain
  <2> QED BY <1>1, <1>3, <1>a, <2>1, Seeing, SMTT(30)
<1>4. CASE Inserting(w)
  <2> PICK p \in Partitions, n \in Seqs :
       /\ Takes(tx[w], tx'[w], p, n)
       /\ \/ Answered(tx[w], tx'[w])
          \/ tx'[w].rows = [tx[w].rows EXCEPT ![tx[w].cur] =
                              [status |-> "POSTED", result |-> <<p, n>>]]
    BY <1>4 DEF Inserting
  <2>0. tx[w].cur \in Requests
    BY <1>4 DEF Inserting
  <2>1. CASE tx'[w].rows[r] = tx[w].rows[r]
    BY <1>1, <1>4, <1>a, <2>1, Seeing, SMTT(30)
  <2>2. CASE tx'[w].rows[r] # tx[w].rows[r]
    <3>1. r = tx[w].cur /\ tx'[w].rows[r].result = <<p, n>>
      BY <1>t, <2>2, SMTT(30) DEF Answered, Plain
    <3>2. /\ tx'[w].parts[p] # None
          /\ tx'[w].parts[p].moves[n] = [req |-> r, prev |-> tx[w].snap.last]
          /\ tx'[w].parts[p].moves[n] # None
      <4>1. Took(w, p, n)
        BY <1>a, <2>0, Taken
      <4> QED BY <3>1, <4>1 DEF Took
    <3>3. View(w, p)' = tx'[w].parts[p]
      BY <3>2 DEF View
    <3>4. View(w, p)'.moves[n] # None
      BY <3>2, <3>3
    <3> QED BY <3>1, <3>2, <3>3, <3>4
  <2> QED BY <2>1, <2>2
<1> QED
  BY <1>2, <1>3, <1>4 DEF OwnStep

LEMMA OwnEvents ==
  ASSUME RecordInv, NEW w \in Workers, OwnStep(w)
  PROVE  EventsTx(w)'
<1>a. AppendInv /\ EventsTx(w) /\ Private(w) /\ part' = part
  BY DEF RecordInv, RecordTx, OwnStep, Private
<1>t. /\ tx[w].parts \in [Partitions -> PartitionRow \cup {None}]
      /\ \A row \in PartitionRow : row # None
  BY <1>a, NoneAssumption DEF AppendInv, TypeInv, TypeOK, Transaction
<1> SUFFICES ASSUME NEW p \in Partitions, NEW n \in Seqs, <<p, n>> \in tx'[w].events
             PROVE  /\ tx'[w].parts[p] # None
                    /\ tx'[w].parts[p].moves[n] # None
                    /\ part[p].moves[n] = None
  BY <1>a DEF EventsTx
<1>o. <<p, n>> \in tx[w].events =>
        /\ tx[w].parts[p] # None
        /\ tx[w].parts[p].moves[n] # None
        /\ part[p].moves[n] = None
  BY <1>a DEF EventsTx
<1>1. CASE Blank(w)
  BY <1>1 DEF Blank
<1>2. CASE Going(w) \/ Registering(w)
  BY <1>2, <1>o DEF Going, Registering
<1>3. CASE Touching(w)
  <2>1. <<p, n>> \in tx[w].events
    BY <1>3 DEF Touching
  <2> PICK q \in Partitions, row \in PartitionRow :
        /\ tx'[w].parts = [tx[w].parts EXCEPT ![q] = row]
        /\ row.moves = View(w, q).moves
    BY <1>3 DEF Touching
  <2>2. View(w, p) = tx[w].parts[p]
    BY <1>o, <2>1 DEF View
  <2>3. CASE p = q
    <3>1. tx'[w].parts[p] = row
      BY <1>t, <2>3
    <3> QED BY <1>t, <1>o, <2>1, <2>2, <2>3, <3>1
  <2>4. CASE p # q
    <3>1. tx'[w].parts[p] = tx[w].parts[p]
      BY <1>t, <2>4
    <3> QED BY <1>o, <2>1, <3>1
  <2> QED BY <2>3, <2>4
<1>4. CASE Inserting(w)
  <2> PICK q \in Partitions, m \in Seqs :
        /\ Takes(tx[w], tx'[w], q, m)
        /\ \/ tx'[w].events = tx[w].events
           \/ tx'[w].events = tx[w].events \cup {<<q, m>>}
    BY <1>4 DEF Inserting
  <2>1. /\ part[q].moves[m] = None
        /\ tx'[w].parts[q] # None /\ tx'[w].parts[q].moves[m] # None
        /\ tx'[w].parts[p] # None <=> tx[w].parts[p] # None
        /\ (p # q \/ n # m) => tx'[w].parts[p].moves[n] = tx[w].parts[p].moves[n]
    <3>1. tx[w].cur \in Requests
      BY <1>4 DEF Inserting
    <3>2. Took(w, q, m)
      BY <1>a, <3>1, Taken
    <3> QED BY <3>2 DEF Took
  <2>2. CASE p = q /\ n = m
    BY <2>1, <2>2
  <2>3. CASE p # q \/ n # m
    <3>1. <<p, n>> \in tx[w].events
      BY <2>3
    <3> QED BY <1>o, <2>1, <2>3, <3>1
  <2> QED BY <2>2, <2>3
<1> QED
  BY <1>1, <1>2, <1>3, <1>4 DEF OwnStep

\* A key that is registered for a request stays so.
LEMMA StaysRegistered ==
  ASSUME AppendInv, NEW w \in Workers, Private(w),
         Going(w) \/ Registering(w) \/ Touching(w) \/ Inserting(w),
         NEW r \in Requests
  PROVE  /\ Registered(w, r) => Registered(w, r)'
         /\ Registering(w) => Registered(w, tx[w].cur)'
<1>1. idem' = idem /\ KeyOf[r] \in Keys
  BY PayloadAssumption DEF Private
<1>2. CASE tx'[w].keys = tx[w].keys
  <2>1. Registrant(w, KeyOf[r])' = Registrant(w, KeyOf[r])
    BY <1>1, <1>2, SMTT(30) DEF Registrant
  <2>2. Registering(w) => FALSE
    <3> SUFFICES ASSUME Registering(w) PROVE FALSE
      OBVIOUS
    <3>1. /\ tx[w].keys \in [Keys -> Requests \cup {None}]
          /\ KeyOf[tx[w].cur] \in Keys /\ tx[w].cur # None
      BY NoneAssumption, PayloadAssumption
         DEF AppendInv, TypeInv, TypeOK, Transaction, Registering
    <3>2. tx'[w].keys[KeyOf[tx[w].cur]] = tx[w].cur
      BY <3>1 DEF Registering
    <3> QED BY <1>2, <3>1, <3>2 DEF Registering
  <2> QED BY <2>1, <2>2 DEF Registered
<1>3. CASE Registering(w)
  <2> DEFINE s == tx[w]  key == KeyOf[s.cur]
  <2>1. /\ s.keys \in [Keys -> Requests \cup {None}]
        /\ key \in Keys /\ s.cur # None /\ s.cur \in Requests
    BY <1>3, NoneAssumption, PayloadAssumption
       DEF AppendInv, TypeInv, TypeOK, Transaction, Registering
  <2>2. /\ tx'[w].keys = [s.keys EXCEPT ![key] = s.cur]
        /\ s.keys[key] = None /\ idem[key] = None
    BY <1>3 DEF Registering
  <2>0. tx'[w].cur = s.cur
    BY <1>3 DEF Registering, SameTask
  <2>3. Registrant(w, key)' = s.cur /\ Registrant(w, key) = None
    BY <1>1, <2>0, <2>1, <2>2 DEF Registrant
  <2>4. Registered(w, s.cur)'
    <3>1. Matches(s.cur, s.cur)
      BY <2>1 DEF Matches
    <3> QED BY <2>0, <2>1, <2>3, <3>1 DEF Registered, Matches
  <2>5. Registered(w, r) => Registered(w, r)'
    <3>1. CASE KeyOf[r] = key
      BY <2>0, <2>3, <3>1 DEF Registered, Matches
    <3>2. CASE KeyOf[r] # key
      <4>1. Registrant(w, KeyOf[r])' = Registrant(w, KeyOf[r])
        BY <1>1, <2>1, <2>2, <3>2 DEF Registrant
      <4> QED BY <4>1 DEF Registered
    <3> QED BY <3>1, <3>2
  <2> QED BY <2>4, <2>5
<1> QED
  BY <1>2, <1>3 DEF Going, Touching, Inserting

\* Every movement a session sees is registered for it.
LEMMA SeenRegistered ==
  ASSUME RecordInv, NEW w \in Workers, NEW p \in Partitions, NEW n \in Seqs,
         View(w, p).moves[n] # None
  PROVE  Registered(w, View(w, p).moves[n].req)
<1>a. TypeOK /\ KeysTx(w) /\ KeysOfBook
  BY DEF RecordInv, RecordTx, AppendInv, TypeInv
<1>1. CASE tx[w].parts[p] # None
  BY <1>a, <1>1, SMTT(30) DEF View, KeysTx
<1>2. CASE tx[w].parts[p] = None
  <2> DEFINE r == part[p].moves[n].req
  <2>1. View(w, p) = part[p]
    BY <1>2 DEF View
  <2>2. Matches(idem[KeyOf[r]], r) /\ KeyOf[r] \in Keys
    BY <1>a, <2>1, RowsSeen, SMTT(30) DEF KeysOfBook
  <2>3. tx[w].keys[KeyOf[r]] = None
    BY <1>a, <2>2 DEF KeysTx, Matches
  <2> QED BY <2>1, <2>2, <2>3 DEF Registered, Registrant
<1> QED
  BY <1>1, <1>2

\* A movement that a session has after a step, it saw before, unless the step
\* inserted it.
LEMMA OwnMovements ==
  ASSUME AppendInv, NEW w \in Workers, Private(w),
         Going(w) \/ Registering(w) \/ Touching(w) \/ Inserting(w),
         NEW p \in Partitions, NEW n \in Seqs,
         tx'[w].parts[p] # None, tx'[w].parts[p].moves[n] # None
  PROVE  \/ /\ View(w, p).moves[n] # None
            /\ tx'[w].parts[p].moves[n] = View(w, p).moves[n]
         \/ /\ Inserting(w) /\ View(w, p).moves[n] = None
            /\ tx'[w].parts[p].moves[n].req = tx[w].cur
            /\ Takes(tx[w], tx'[w], p, n)
<1>t. /\ tx[w].parts \in [Partitions -> PartitionRow \cup {None}]
      /\ part' = part
  BY DEF AppendInv, TypeInv, TypeOK, Transaction, Private
<1>1. CASE View(w, p).moves[n] # None
  <2>1. View(w, p)'.moves[n] = View(w, p).moves[n]
    BY <1>1, Seeing DEF SeesMore
  <2>2. View(w, p)' = tx'[w].parts[p]
    BY DEF View
  <2> QED BY <1>1, <2>1, <2>2
<1>2. CASE View(w, p).moves[n] = None
  <2>1. CASE Going(w) \/ Registering(w)
    <3>1. tx'[w].parts = tx[w].parts
      BY <2>1 DEF Going, Registering
    <3> QED BY <1>2, <3>1, SMTT(30) DEF View
  <2>2. CASE Touching(w)
    <3> PICK q \in Partitions, row \in PartitionRow :
          /\ tx'[w].parts = [tx[w].parts EXCEPT ![q] = row]
          /\ row.moves = View(w, q).moves
      BY <2>2 DEF Touching
    <3>1. CASE p = q
      <4>1. tx'[w].parts[p] = row
        BY <1>t, <3>1
      <4> QED BY <1>2, <3>1, <4>1
    <3>2. CASE p # q
      <4>1. tx'[w].parts[p] = tx[w].parts[p]
        BY <1>t, <3>2
      <4> QED BY <1>2, <4>1 DEF View
    <3> QED BY <3>1, <3>2
  <2>3. CASE Inserting(w)
    <3> PICK q \in Partitions, m \in Seqs : Takes(tx[w], tx'[w], q, m)
      BY <2>3 DEF Inserting
    <3>1. tx[w].cur \in Requests
      BY <2>3 DEF Inserting
    <3>2. Took(w, q, m)
      BY <3>1, Taken
    <3>3. CASE p = q /\ n = m
      BY <1>2, <2>3, <3>2, <3>3 DEF Took
    <3>4. CASE p # q \/ n # m
      <4>1. tx[w].parts[p] # None /\ tx[w].parts[p].moves[n] # None
        BY <3>2, <3>4 DEF Took
      <4> QED BY <1>2, <4>1 DEF View
    <3> QED BY <3>3, <3>4
  <2> QED BY <2>1, <2>2, <2>3
<1> QED
  BY <1>1, <1>2

LEMMA OwnKeys ==
  ASSUME RecordInv, NEW w \in Workers, OwnStep(w)
  PROVE  KeysTx(w)'
<1> DEFINE s == tx[w]  t == tx'[w]
<1>a. AppendInv /\ KeysTx(w) /\ Private(w) /\ TypeOK /\ idem' = idem
  BY DEF RecordInv, RecordTx, OwnStep, Private, AppendInv, TypeInv
<1>t. /\ s.keys \in [Keys -> Requests \cup {None}]
      /\ s.pc \notin {"idle", "pick"} => s.cur \in Requests
  BY <1>a DEF TypeOK, Transaction
<1>1. CASE Blank(w)
  BY <1>1 DEF Blank, KeysTx
<1>2. ASSUME Going(w) \/ Registering(w) \/ Touching(w) \/ Inserting(w)
      PROVE  KeysTx(w)'
  <2>1. ASSUME t.pc \in Posting PROVE Registered(w, tx[w].cur)'
    <3>1. CASE Registering(w)
      <4>1. s.cur \in Requests
        BY <3>1, SMTT(30) DEF Registering
      <4> QED BY <1>a, <3>1, <4>1, StaysRegistered
    <3>2. CASE Going(w) \/ Touching(w)
      <4>1. s.pc \in Posting => Registered(w, s.cur)
        BY <1>a DEF KeysTx, Posting
      <4>2. Registered(w, t.cur) /\ t.keys = s.keys
        BY <2>1, <3>2, <4>1 DEF Going, Touching, SameTask
      <4> QED BY <1>a, <4>2 DEF Registered, Registrant
    <3>3. CASE Inserting(w)
      BY <2>1, <3>3 DEF Inserting, Posting
    <3> QED BY <1>2, <3>1, <3>2, <3>3
  <2>2. ASSUME NEW p \in Partitions, NEW n \in Seqs,
               t.parts[p] # None, t.parts[p].moves[n] # None
        PROVE  Registered(w, tx[w].parts[p].moves[n].req)'
    <3> DEFINE r == t.parts[p].moves[n].req
    <3>1. CASE View(w, p).moves[n] # None /\ t.parts[p].moves[n] = View(w, p).moves[n]
      <4>1. Registered(w, View(w, p).moves[n].req)
        BY <3>1, SeenRegistered
      <4>2. View(w, p).moves[n].req \in Requests
        BY <1>a, <3>1, RowsSeen
      <4>3. PICK q \in Requests : q = View(w, p).moves[n].req
        BY <4>2
      <4>4. Registered(w, q)'
        BY <1>a, <1>2, <4>1, <4>3, StaysRegistered
      <4> QED BY <3>1, <4>3, <4>4 DEF Registered
    <3>2. CASE Inserting(w) /\ r = s.cur
      <4>1. s.cur \in Requests /\ Registered(w, s.cur)
        BY <1>a, <3>2 DEF Inserting, KeysTx
      <4>2. PICK q \in Requests : q = s.cur
        BY <4>1
      <4>3. Registered(w, q)'
        BY <1>a, <1>2, <4>1, <4>2, StaysRegistered
      <4> QED BY <3>2, <4>2, <4>3 DEF Registered
    <3> QED BY <1>a, <1>2, <2>2, <3>1, <3>2, OwnMovements
  <2>3. ASSUME NEW k \in Keys, t.keys[k] # None PROVE idem[k] = None
    <3>1. CASE t.keys = s.keys
      BY <1>a, <2>3, <3>1 DEF KeysTx
    <3>2. CASE Registering(w)
      BY <1>a, <1>t, <2>3, <3>2 DEF Registering, KeysTx
    <3> QED BY <1>2, <3>1, <3>2 DEF Going, Touching, Inserting
  <2> QED BY <1>a, <2>1, <2>2, <2>3 DEF KeysTx, Posting
<1> QED
  BY <1>1, <1>2 DEF OwnStep

LEMMA OwnKeysApart ==
  ASSUME RecordInv, NEW w \in Workers, OwnStep(w)
  PROVE  KeysApart'
<1>a. KeysApart /\ Private(w) /\ tx[w].keys \in [Keys -> Requests \cup {None}]
  BY DEF RecordInv, OwnStep, AppendInv, TypeInv, TypeOK, Transaction
<1>1. ASSUME NEW k \in Keys, tx'[w].keys[k] # None, NEW v \in Workers \ {w}
      PROVE  tx'[v].keys[k] = None
  <2>1. tx'[v] = tx[v]
    BY <1>a DEF Private
  <2>2. CASE tx[w].keys[k] # None
    BY <1>a, <2>1, <2>2 DEF KeysApart
  <2>3. CASE tx[w].keys[k] = None
    <3>1. Registering(w)
      BY <1>1, <2>3 DEF OwnStep, Blank, Going, Touching, Inserting
    <3>2. k = KeyOf[tx[w].cur]
      BY <1>a, <1>1, <2>3, <3>1 DEF Registering
    <3> QED BY <2>1, <3>1, <3>2 DEF Registering
  <2> QED BY <2>2, <2>3
<1> QED
  BY <1>a, <1>1 DEF KeysApart, Private

LEMMA OwnWhole ==
  ASSUME WholeInv, SourcesParse, NEW w \in Workers, OwnStep(w)
  PROVE  WholeTx(w)'
<1> DEFINE s == tx[w]  t == tx'[w]
<1>a. AppendInv /\ WholeTx(w) /\ Private(w) /\ part' = part
  BY DEF WholeInv, OwnStep, Private
<1>t. /\ s.parts \in [Partitions -> PartitionRow \cup {None}]
      /\ s.rows \in [Requests -> RequestRow \cup {None}]
      /\ \A p \in Partitions, n \in Seqs :
           View(w, p).moves[n] # None => View(w, p).moves[n].req \in Requests
  BY <1>a, RowsSeen DEF AppendInv, TypeInv, TypeOK, Transaction
<1>1. CASE Blank(w)
  BY <1>1 DEF Blank, WholeTx, Resulted, Plain
<1>2. ASSUME Going(w) \/ Registering(w) \/ Touching(w) \/ Inserting(w)
      PROVE  WholeTx(w)'
  <2>1. ASSUME NEW r \in Requests, t.rows[r] # s.rows[r]
        PROVE  /\ r = s.cur /\ s.pc # "pick"
               /\ Plain(t.rows[r]) \/ (Inserting(w) /\ Resulted(w, r)')
    <3>1. CASE Answered(s, t) /\ s.pc # "pick"
      BY <2>1, <3>1 DEF Answered
    <3>2. CASE /\ Inserting(w)
               /\ \E p \in Partitions, n \in Seqs :
                    t.rows = [s.rows EXCEPT ![s.cur] =
                                [status |-> "POSTED", result |-> <<p, n>>]]
      <4> PICK p \in Partitions, n \in Seqs :
            t.rows = [s.rows EXCEPT ![s.cur] =
                        [status |-> "POSTED", result |-> <<p, n>>]]
        BY <3>2
      <4> DEFINE row == [status |-> "POSTED", result |-> <<p, n>>]
      <4>1. row # None /\ row.result # None
        <5>1. <<p, n>> \in MovementId /\ row \in RequestRow
          BY DEF MovementId, RequestRow, Status
        <5> QED BY <5>1, NothingIsNoRow
      <4>2. r = s.cur /\ t.rows[r] = row
        <5> HIDE DEF row
        <5> QED BY <1>t, <2>1 DEF row
      <4>3. s.pc = "persist"
        BY <3>2 DEF Inserting
      <4>4. Resulted(w, r)'
        BY <4>1, <4>2 DEF Resulted
      <4> QED BY <3>2, <4>2, <4>3, <4>4
    <3>3. CASE Inserting(w)
      <4>1. s.pc = "persist"
        BY <3>3 DEF Inserting
      <4> QED BY <3>1, <3>2, <3>3, <4>1 DEF Inserting
    <3> QED BY <1>2, <2>1, <3>1, <3>3 DEF Going, Registering, Touching, Picks, SameTask
  <2>2. ASSUME NEW r \in Requests, Resulted(w, r)
        PROVE  Resulted(w, r)'
    <3>1. s.pc # "pick" => s.cur # r
      BY <1>a, <2>2 DEF WholeTx
    <3>2. t.rows[r] = s.rows[r]
      BY <2>1, <3>1
    <3> QED BY <2>2, <3>2 DEF Resulted
  <2>3. ASSUME NEW p \in Partitions, NEW n \in Seqs,
               t.parts[p] # None, t.parts[p].moves[n] # None, part[p].moves[n] = None
        PROVE  <<p, n>> \in t.events /\ Resulted(w, tx[w].parts[p].moves[n].req)'
    <3> DEFINE r == t.parts[p].moves[n].req
    <3>1. CASE View(w, p).moves[n] # None /\ t.parts[p].moves[n] = View(w, p).moves[n]
      <4>1. s.parts[p] # None /\ View(w, p) = s.parts[p]
        BY <2>3, <3>1 DEF View
      <4>2. <<p, n>> \in s.events /\ Resulted(w, r)
        BY <1>a, <2>3, <3>1, <4>1, SMTT(30) DEF WholeTx
      <4>3. r \in Requests
        BY <1>t, <3>1, SMTT(30)
      <4>4. s.events \subseteq t.events
        BY <1>2 DEF Going, Registering, Touching, Inserting
      <4>5. PICK q \in Requests : q = r
        BY <4>3
      <4>6. Resulted(w, q)'
        BY <2>2, <4>2, <4>5
      <4> QED BY <4>2, <4>4, <4>5, <4>6, Zenon DEF Resulted
    <3>2. CASE Inserting(w) /\ r = s.cur /\ View(w, p).moves[n] = None
      <4> PICK q \in Partitions, m \in Seqs :
            /\ Takes(s, t, q, m)
            /\ t.events = s.events \cup {<<q, m>>}
            /\ t.rows = [s.rows EXCEPT ![s.cur] =
                           [status |-> "POSTED", result |-> <<q, m>>]]
        BY <3>2 DEF Inserting, SourcesParse
      <4>1. s.cur \in Requests
        BY <3>2 DEF Inserting
      <4>2. Took(w, q, m)
        BY <1>a, <4>1, Taken
      <4>3. q = p /\ m = n
        <5>1. ASSUME q # p \/ m # n PROVE FALSE
          <6>1. s.parts[p] # None /\ s.parts[p].moves[n] # None
            BY <2>3, <4>2, <5>1 DEF Took
          <6> QED BY <3>2, <6>1 DEF View
        <5> QED BY <5>1
      <4> DEFINE row == [status |-> "POSTED", result |-> <<q, m>>]
      <4>4. row # None /\ row.result # None
        <5>1. <<q, m>> \in MovementId /\ row \in RequestRow
          BY DEF MovementId, RequestRow, Status
        <5> QED BY <5>1, NothingIsNoRow
      <4>5. t.rows[r] = row
        <5> HIDE DEF row
        <5> QED BY <1>t, <3>2, <4>1 DEF row
      <4>6. Resulted(w, tx[w].parts[p].moves[n].req)'
        BY <4>4, <4>5 DEF Resulted
      <4> QED BY <4>3, <4>6
    <3> QED BY <1>a, <1>2, <2>3, <3>1, <3>2, OwnMovements, SMTT(30)
  <2>4. ASSUME NEW r \in Requests, Resulted(w, r)'
        PROVE  r \notin t.todo /\ (t.pc # "pick" => t.cur # r)
    <3>1. CASE Resulted(w, r)
      <4>1. r \notin s.todo /\ (s.pc # "pick" => s.cur # r)
        BY <1>a, <3>1 DEF WholeTx
      <4> QED BY <1>2, <4>1 DEF Going, Registering, Touching, Inserting, Picks, SameTask
    <3>2. CASE ~Resulted(w, r)
      <4>1. t.rows[r] # s.rows[r]
        BY <2>4, <3>2 DEF Resulted
      <4>2. r = s.cur /\ s.pc # "pick" /\ Inserting(w)
        BY <2>1, <2>4, <4>1 DEF Plain, Resulted
      <4>3. s.cur \notin s.todo
        BY <1>a, <4>2, SMTT(30) DEF WholeTx
      <4> QED BY <4>2, <4>3 DEF Inserting, SameTask
    <3> QED BY <3>1, <3>2, SMTT(30)
  <2>5. t.pc # "pick" => t.cur \notin t.todo
    BY <1>a, <1>2, Zenon DEF WholeTx, Going, Registering, Touching, Inserting, Picks, SameTask
  <2> QED BY <1>a, <2>3, <2>4, <2>5 DEF WholeTx
<1> QED
  BY <1>1, <1>2 DEF OwnStep

-----------------------------------------------------------------------------
(* What a step does to the records of the others *)

\* A session whose transaction a step leaves alone, and what must hold of what
\* the step commits.
LEMMA OthersRecords ==
  ASSUME TypeOK, NEW v \in Workers, RecordTx(v), tx'[v] = tx[v], BookKept,
         \A p \in Partitions : tx[v].parts[p] # None => part'[p] = part[p],
         \A k \in Keys :
           idem'[k] # idem[k] => idem[k] = None /\ tx[v].keys[k] = None
  PROVE  RecordTx(v)'
<1> DEFINE s == tx[v]
<1>1. PostedTx(v)'
  <2> SUFFICES ASSUME NEW r \in Requests, s.rows[r] # None,
                      s.rows[r].status = "POSTED"
               PROVE  \E p \in Partitions, n \in Seqs :
                        /\ s.rows[r].result = <<p, n>>
                        /\ View(v, p)'.moves[n] # None
                        /\ View(v, p)'.moves[n].req = r
    BY DEF PostedTx, Answers
  <2>1. PICK p \in Partitions, n \in Seqs :
          /\ s.rows[r].result = <<p, n>>
          /\ View(v, p).moves[n] # None
          /\ View(v, p).moves[n].req = r
    BY DEF RecordTx, PostedTx, Answers
  <2>2. View(v, p)'.moves[n] = View(v, p).moves[n]
    BY <2>1 DEF View, BookKept, Keeps
  <2> QED BY <2>1, <2>2
<1>2. EventsTx(v)'
  BY DEF RecordTx, EventsTx
<1>3. ASSUME NEW r, KeyOf[r] \in Keys, Registered(v, r)
      PROVE  Matches(IF s.keys[KeyOf[r]] # None THEN s.keys[KeyOf[r]]
                     ELSE idem'[KeyOf[r]], r)
  BY <1>3 DEF Registered, Registrant, Matches
<1>4. KeysTx(v)'
  <2>0. KeysTx(v)
    BY DEF RecordTx
  <2>1. ASSUME s.pc \in Posting PROVE Registered(v, tx[v].cur)'
    <3>1. KeyOf[s.cur] \in Keys /\ Registered(v, s.cur)
      BY <2>0, <2>1, PayloadAssumption, SMTT(30) DEF TypeOK, KeysTx, Posting
    <3> QED BY <1>3, <3>1 DEF Registered, Registrant
  <2>2. ASSUME NEW p \in Partitions, NEW n \in Seqs,
               s.parts[p] # None, s.parts[p].moves[n] # None
        PROVE  Registered(v, tx[v].parts[p].moves[n].req)'
    <3>1. View(v, p) = s.parts[p]
      BY <2>2 DEF View
    <3>2. KeyOf[s.parts[p].moves[n].req] \in Keys
      BY <2>2, <3>1, RowsSeen
    <3>3. Registered(v, s.parts[p].moves[n].req)
      BY <2>0, <2>2 DEF KeysTx
    <3> QED BY <1>3, <3>2, <3>3, Zenon DEF Registered, Registrant
  <2>3. \A k \in Keys : s.keys[k] # None => idem'[k] = None
    BY <2>0 DEF KeysTx
  <2> QED BY <2>1, <2>2, <2>3 DEF KeysTx, Posting
<1> QED
  BY <1>1, <1>2, <1>4 DEF RecordTx

LEMMA OthersWhole ==
  ASSUME NEW v \in Workers, WholeTx(v), tx'[v] = tx[v], BookKept
  PROVE  WholeTx(v)'
<1>1. \A p \in Partitions, n \in Seqs :
        part'[p].moves[n] = None => part[p].moves[n] = None
  BY DEF BookKept, Keeps
<1>2. \A r : Resulted(v, r)' <=> Resulted(v, r)
  BY DEF Resulted
<1> QED
  BY <1>1, <1>2 DEF WholeTx

\* A session that has no transaction has no records.
LEMMA NoRecords ==
  ASSUME NEW w \in Workers, tx'[w] = Idle
  PROVE  RecordTx(w)' /\ WholeTx(w)'
<1>1. /\ \A r \in Requests : tx'[w].rows[r] = None
      /\ \A p \in Partitions : tx'[w].parts[p] = None
      /\ \A k \in Keys : tx'[w].keys[k] = None
      /\ tx'[w].events = {} /\ tx'[w].todo = {} /\ tx'[w].pc = "idle"
  BY DEF Idle
<1> QED
  BY <1>1 DEF RecordTx, PostedTx, EventsTx, KeysTx, WholeTx, Resulted

\* Steps that touch neither the book nor any transaction.
LEMMA IdleSteps ==
  ASSUME BookKept, TypeOK, UNCHANGED <<part, tx>>
  PROVE  /\ (\A w \in Workers : RecordTx(w)) /\ idem' = idem
              => \A w \in Workers : RecordTx(w)'
         /\ (\A w \in Workers : WholeTx(w)) => \A w \in Workers : WholeTx(w)'
BY OthersRecords, OthersWhole

-----------------------------------------------------------------------------
(* The commit *)

LEMMA CommittedTx ==
  ASSUME AppendInv, NEW w \in Workers, Commit(w), BookKept
  PROVE  /\ \A v \in Workers : tx'[v] \in {Idle, tx[v]}
         /\ tx'[w] = Idle
         /\ \A p \in Partitions : part'[p] = View(w, p)
         /\ \A v \in Workers, p \in Partitions :
              v # w /\ tx[v].parts[p] # None => part'[p] = part[p]
<1> PICK losers \in SUBSET Rivals(w) :
      tx' = [v \in Workers |-> IF v = w \/ v \in losers THEN Idle ELSE tx[v]]
  BY DEF Commit
<1>1. part' = [p \in Partitions |-> View(w, p)]
  BY DEF Commit
<1>2. ASSUME NEW v \in Workers, NEW p \in Partitions, v # w, tx[v].parts[p] # None
      PROVE  part'[p] = part[p]
  <2>1. tx[w].parts[p] = None
    BY <1>2 DEF AppendInv, Exclusive
  <2> QED BY <1>1, <2>1 DEF View
<1> QED
  BY <1>1, <1>2

LEMMA CommitPosts ==
  ASSUME RecordInv, NEW w \in Workers, Commit(w), BookKept
  PROVE  PostedIsBooked'
<1> DEFINE t == tx[w]
<1>1. request' = [r \in Requests |-> Written(request[r], t.rows[r])]
  BY DEF Commit
<1>2. \A p \in Partitions : part'[p] = View(w, p)
  BY CommittedTx DEF RecordInv
<1> SUFFICES ASSUME NEW r \in Requests, request'[r].status = "POSTED"
             PROVE  \E p \in Partitions, n \in Seqs :
                      /\ request'[r].result = <<p, n>>
                      /\ part'[p].moves[n] # None
                      /\ part'[p].moves[n].req = r
  BY DEF PostedIsBooked
<1>3. request'[r] = Written(request[r], t.rows[r])
  BY <1>1
<1>4. CASE t.rows[r] = None
  <2>1. request'[r] = request[r]
    BY <1>3, <1>4 DEF Written
  <2> PICK p \in Partitions, n \in Seqs :
        /\ request[r].result = <<p, n>>
        /\ part[p].moves[n] # None
        /\ part[p].moves[n].req = r
    BY <2>1 DEF RecordInv, PostedIsBooked
  <2>2. part'[p].moves[n] = part[p].moves[n]
    BY DEF BookKept, Keeps
  <2> QED BY <2>1, <2>2
<1>5. CASE t.rows[r] # None
  <2>1. t.rows[r].status = "POSTED"
    BY <1>3, <1>5 DEF Written
  <2> PICK p \in Partitions, n \in Seqs :
        /\ t.rows[r].result = <<p, n>>
        /\ View(w, p).moves[n] # None
        /\ View(w, p).moves[n].req = r
    BY <1>5, <2>1 DEF RecordInv, RecordTx, PostedTx, Answers
  <2>2. t.rows[r].result # None
    <3>1. <<p, n>> \in MovementId
      BY DEF MovementId
    <3> QED BY <3>1, NothingIsNoRow
  <2>3. request'[r].result = <<p, n>>
    BY <1>3, <1>5, <2>2 DEF Written
  <2> QED BY <1>2, <2>3
<1> QED
  BY <1>4, <1>5

LEMMA CommitEmits ==
  ASSUME RecordInv, NEW w \in Workers, Commit(w), BookKept
  PROVE  OutboxOfBook' /\ outbox \subseteq outbox'
<1> DEFINE t == tx[w]
           new == {[movement |-> m, status |-> "PENDING"] : m \in t.events}
<1>1. outbox' = outbox \cup new
  BY DEF Commit
<1>2. \A p \in Partitions : part'[p] = View(w, p)
  BY CommittedTx DEF RecordInv
<1>3. ASSUME NEW e \in new
      PROVE  \E p \in Partitions, n \in Seqs :
               /\ e.movement = <<p, n>> /\ part'[p].moves[n] # None
               /\ part[p].moves[n] = None
  <2>1. PICK m \in t.events : e = [movement |-> m, status |-> "PENDING"]
    OBVIOUS
  <2>2. PICK p \in Partitions, n \in Seqs : m = <<p, n>>
    BY <2>1 DEF RecordInv, AppendInv, TypeInv, TypeOK, Transaction, MovementId
  <2>3. /\ t.parts[p] # None /\ t.parts[p].moves[n] # None
        /\ part[p].moves[n] = None
    BY <2>1, <2>2 DEF RecordInv, RecordTx, EventsTx
  <2>4. part'[p].moves[n] # None
    BY <1>2, <2>3 DEF View
  <2> QED BY <2>1, <2>2, <2>3, <2>4
<1>4. ASSUME NEW e \in outbox
      PROVE  \E p \in Partitions, n \in Seqs :
               /\ e.movement = <<p, n>> /\ part'[p].moves[n] # None
               /\ part[p].moves[n] # None
  <2>1. PICK p \in Partitions, n \in Seqs :
          e.movement = <<p, n>> /\ part[p].moves[n] # None
    BY DEF RecordInv, OutboxOfBook
  <2>2. part'[p].moves[n] = part[p].moves[n]
    BY <2>1 DEF BookKept, Keeps
  <2> QED BY <2>1, <2>2
<1>5. ASSUME NEW e \in outbox', NEW f \in outbox', e.movement = f.movement
      PROVE  e = f
  <2>1. CASE e \in outbox /\ f \in outbox
    BY <1>5, <2>1 DEF RecordInv, OutboxOfBook
  <2>2. CASE e \in new /\ f \in new
    BY <1>5, <2>2
  <2>3. CASE e \in outbox /\ f \in new
    <3> HIDE DEF new
    <3> QED BY <1>3, <1>4, <1>5, <2>3
  <2>4. CASE e \in new /\ f \in outbox
    <3> HIDE DEF new
    <3> QED BY <1>3, <1>4, <1>5, <2>4
  <2> QED BY <1>1, <2>1, <2>2, <2>3, <2>4
<1> QED
  <2> HIDE DEF new
  <2> QED BY <1>1, <1>3, <1>4, <1>5 DEF OutboxOfBook

LEMMA CommitKeys ==
  ASSUME RecordInv, NEW w \in Workers, Commit(w), BookKept
  PROVE  /\ \A k \in Keys : idem'[k] = Registrant(w, k)
         /\ \A v \in Workers, k \in Keys :
              v # w /\ idem'[k] # idem[k] => idem[k] = None /\ tx[v].keys[k] = None
         /\ KeysOfBook' /\ KeysApart'
<1>0. \A k \in Keys : tx[w].keys[k] # None => idem[k] = None
  BY DEF RecordInv, RecordTx, KeysTx
<1>1. \A k \in Keys : idem'[k] = Registrant(w, k)
  BY DEF Commit, Registrant
<1>2. ASSUME NEW v \in Workers, NEW k \in Keys, v # w, idem'[k] # idem[k]
      PROVE  idem[k] = None /\ tx[v].keys[k] = None
  <2>1. tx[w].keys[k] # None
    BY <1>1, <1>2 DEF Registrant
  <2> QED BY <1>0, <1>2, <2>1 DEF RecordInv, KeysApart
<1>3. ASSUME NEW p \in Partitions, NEW n \in Seqs, part'[p].moves[n] # None
      PROVE  Matches(idem'[KeyOf[part'[p].moves[n].req]], part'[p].moves[n].req)
  <2>1. part'[p] = View(w, p)
    BY CommittedTx DEF RecordInv
  <2>2. /\ Registered(w, View(w, p).moves[n].req)
        /\ KeyOf[View(w, p).moves[n].req] \in Keys
    BY <1>3, <2>1, SeenRegistered, RowsSeen DEF RecordInv, AppendInv, TypeInv
  <2> QED BY <1>1, <2>1, <2>2 DEF Registered
<1>4. KeysApart'
  <2>1. \A v \in Workers, k \in Keys :
          tx'[v].keys[k] # None => tx'[v].keys[k] = tx[v].keys[k]
    BY CommittedTx DEF RecordInv, Idle
  <2> QED BY <2>1 DEF RecordInv, KeysApart
<1> QED
  BY <1>1, <1>2, <1>3, <1>4 DEF KeysOfBook

LEMMA CommitRecords ==
  ASSUME RecordInv, NEW w \in Workers, Commit(w), BookKept
  PROVE  \A v \in Workers : RecordTx(v)'
<1> SUFFICES ASSUME NEW v \in Workers PROVE RecordTx(v)'
  OBVIOUS
<1>1. CASE tx'[v] = Idle
  BY <1>1, NoRecords
<1>2. CASE tx'[v] # Idle
  <2>1. v # w /\ tx'[v] = tx[v]
    BY <1>2, CommittedTx DEF RecordInv
  <2>2. \A p \in Partitions : tx[v].parts[p] # None => part'[p] = part[p]
    BY <2>1, CommittedTx DEF RecordInv
  <2>3. \A k \in Keys :
          idem'[k] # idem[k] => idem[k] = None /\ tx[v].keys[k] = None
    BY <2>1, CommitKeys
  <2> QED BY <2>1, <2>2, <2>3, OthersRecords DEF RecordInv, AppendInv, TypeInv
<1> QED
  BY <1>1, <1>2

LEMMA CommitWhole ==
  ASSUME WholeInv, NEW w \in Workers, Commit(w), BookKept
  PROVE  AllOrNothing' /\ \A v \in Workers : WholeTx(v)'
<1> DEFINE t == tx[w]
<1>a. AppendInv /\ TypeOK /\ WholeTx(w)
  BY DEF WholeInv, AppendInv, TypeInv
<1>1. /\ request' = [r \in Requests |-> Written(request[r], t.rows[r])]
      /\ outbox \subseteq outbox'
      /\ \A m \in t.events : [movement |-> m, status |-> "PENDING"] \in outbox'
  BY DEF Commit
<1>2. ASSUME NEW p \in Partitions, NEW n \in Seqs, part'[p].moves[n] # None
      PROVE  /\ request'[part'[p].moves[n].req].result # None
             /\ \E e \in outbox' : e.movement = <<p, n>>
  <2> DEFINE r == View(w, p).moves[n].req
  <2>1. part'[p] = View(w, p) /\ r \in Requests
    BY <1>a, <1>2, CommittedTx, RowsSeen, SMTT(30)
  <2>2. CASE part[p].moves[n] # None
    <3>1. part'[p].moves[n] = part[p].moves[n]
      BY <2>2 DEF BookKept, Keeps
    <3>2. /\ request[r].result # None
          /\ \E e \in outbox : e.movement = <<p, n>>
      BY <2>1, <2>2, <3>1, SMTT(30) DEF WholeInv, AllOrNothing
    <3>3. request'[r].result # None
      BY <1>1, <2>1, <3>2 DEF Written
    <3> QED BY <1>1, <2>1, <3>2, <3>3
  <2>3. CASE part[p].moves[n] = None
    <3>1. t.parts[p] # None /\ View(w, p) = t.parts[p]
      BY <1>2, <2>1, <2>3 DEF View
    <3>2. <<p, n>> \in t.events /\ Resulted(w, r)
      BY <1>a, <1>2, <2>1, <2>3, <3>1, SMTT(30) DEF WholeTx
    <3>3. request'[r].result # None
      BY <1>1, <2>1, <3>2 DEF Written, Resulted
    <3>4. [movement |-> <<p, n>>, status |-> "PENDING"] \in outbox'
      BY <1>1, <3>2
    <3>5. [movement |-> <<p, n>>, status |-> "PENDING"].movement = <<p, n>>
      OBVIOUS
    <3> QED BY <2>1, <3>3, <3>4, <3>5
  <2> QED BY <2>2, <2>3
<1>3. ASSUME NEW v \in Workers PROVE WholeTx(v)'
  <2>1. CASE tx'[v] = Idle
    BY <2>1, NoRecords
  <2>2. CASE tx'[v] = tx[v]
    BY <2>2, OthersWhole DEF WholeInv
  <2> QED BY <1>a, <2>1, <2>2, CommittedTx
<1> QED
  BY <1>2, <1>3 DEF AllOrNothing

-----------------------------------------------------------------------------
(* The invariants *)

\* The kinds of steps.
LEMMA StepKinds ==
  ASSUME TypeInv, [Next]_vars
  PROVE  \/ \E w \in Workers : OwnStep(w) \/ Commit(w)
         \/ \E r \in Requests : CreateRequest(r)
         \/ ProcessOutbox
         \/ UNCHANGED vars
<1>1. ASSUME NEW w \in Workers, NEW r \in Requests,
             BeginApiPost(w, r) \/ BeginRetry(w, r)
      PROVE  OwnStep(w)
  BY <1>1, Begins DEF TypeInv
<1>2. ASSUME NEW w \in Workers, BeginBatch(w) PROVE OwnStep(w)
  BY <1>2, Begins DEF TypeInv
<1>3. ASSUME NEW w \in Workers, Step(w) PROVE OwnStep(w) \/ Commit(w)
  BY <1>3, OwnSteps
<1>4. ASSUME NEW w \in Workers, DeadlockVictim(w) \/ Crash(w) PROVE OwnStep(w)
  BY <1>4, Resets DEF TypeInv, DeadlockVictim, Crash, Rollback
<1> QED
  BY <1>1, <1>2, <1>3, <1>4 DEF Next

LEMMA EventsMarked ==
  ASSUME RecordInv, ProcessOutbox
  PROVE  OutboxOfBook' /\ \A e \in outbox' : e.status = "PUBLISHED"
<1> DEFINE mark(e) == [e EXCEPT !.status = "PUBLISHED"]
<1>1. outbox' = {mark(e) : e \in outbox} /\ part' = part
  BY DEF ProcessOutbox
<1>2. ASSUME NEW e \in outbox
      PROVE  /\ mark(e).movement = e.movement
             /\ mark(e) = [movement |-> e.movement, status |-> "PUBLISHED"]
  <2>1. e \in [movement: MovementId, status: {"PENDING", "PUBLISHED"}]
    BY DEF RecordInv, AppendInv, TypeInv, TypeOK
  <2> QED BY <2>1
<1> HIDE DEF mark
<1>3. ASSUME NEW e \in outbox', NEW f \in outbox', e.movement = f.movement
      PROVE  e = f
  BY <1>1, <1>2, <1>3
<1>4. ASSUME NEW e \in outbox'
      PROVE  /\ e.status = "PUBLISHED"
             /\ \E p \in Partitions, n \in Seqs :
                  e.movement = <<p, n>> /\ part[p].moves[n] # None
  BY <1>1, <1>2 DEF RecordInv, OutboxOfBook
<1> QED
  BY <1>1, <1>3, <1>4 DEF OutboxOfBook

LEMMA RecordStep == RecordInv /\ [Next]_vars => RecordInv'
<1> SUFFICES ASSUME RecordInv, [Next]_vars PROVE RecordInv'
  OBVIOUS
<1>a. AppendInv /\ TypeInv /\ TypeOK
  BY DEF RecordInv, AppendInv, TypeInv
<1>b. AppendInv' /\ BookKept
  BY <1>a, TypeStep, AppendStep DEF AppendInv
<1>1. ASSUME NEW w \in Workers, OwnStep(w) PROVE RecordInv'
  <2>1. Private(w)
    BY <1>1 DEF OwnStep
  <2>2. RecordTx(w)'
    BY <1>1, OwnPosted, OwnEvents, OwnKeys DEF RecordTx
  <2>3. ASSUME NEW v \in Workers \ {w} PROVE RecordTx(v)'
    BY <1>a, <1>b, <2>1, OthersRecords DEF RecordInv, Private
  <2>4. (PostedIsBooked /\ OutboxOfBook /\ KeysOfBook)'
    BY <2>1 DEF RecordInv, Private, PostedIsBooked, OutboxOfBook, KeysOfBook
  <2> QED BY <1>b, <1>1, <2>2, <2>3, <2>4, OwnKeysApart DEF RecordInv
<1>2. ASSUME NEW w \in Workers, Commit(w) PROVE RecordInv'
  BY <1>b, <1>2, CommitPosts, CommitEmits, CommitKeys, CommitRecords DEF RecordInv
<1>3. ASSUME UNCHANGED <<part, tx, idem>>, PostedIsBooked', OutboxOfBook'
      PROVE  RecordInv'
  <2>1. \A w \in Workers : RecordTx(w)'
    BY <1>a, <1>b, <1>3, IdleSteps DEF RecordInv
  <2>2. KeysOfBook' /\ KeysApart'
    BY <1>3 DEF RecordInv, KeysOfBook, KeysApart
  <2> QED BY <1>b, <1>3, <2>1, <2>2 DEF RecordInv
<1>4. ASSUME NEW r \in Requests, CreateRequest(r) PROVE RecordInv'
  <2>1. PostedIsBooked'
    <3>1. \A q \in Requests :
            request'[q].status = "POSTED" => request'[q] = request[q]
      BY <1>4, <1>a DEF CreateRequest, TypeOK, RequestRow
    <3>2. part' = part
      BY <1>4 DEF CreateRequest
    <3> QED BY <3>1, <3>2 DEF RecordInv, PostedIsBooked
  <2>2. OutboxOfBook' /\ UNCHANGED <<part, tx, idem>>
    BY <1>4 DEF CreateRequest, RecordInv, OutboxOfBook
  <2> QED BY <1>3, <2>1, <2>2
<1>5. CASE ProcessOutbox
  <2>1. PostedIsBooked' /\ UNCHANGED <<part, tx, idem>>
    BY <1>5 DEF ProcessOutbox, RecordInv, PostedIsBooked
  <2> QED BY <1>3, <1>5, <2>1, EventsMarked
<1>6. CASE UNCHANGED vars
  <2>1. PostedIsBooked' /\ OutboxOfBook' /\ UNCHANGED <<part, tx, idem>>
    BY <1>6 DEF vars, RecordInv, PostedIsBooked, OutboxOfBook
  <2> QED BY <1>3, <2>1
<1> QED
  BY <1>a, <1>1, <1>2, <1>4, <1>5, <1>6, StepKinds

LEMMA WholeStep ==
  ASSUME SourcesParse
  PROVE  WholeInv /\ [Next]_vars => WholeInv'
<1> SUFFICES ASSUME WholeInv, [Next]_vars PROVE WholeInv'
  OBVIOUS
<1>a. AppendInv /\ TypeInv /\ TypeOK
  BY DEF WholeInv, AppendInv, TypeInv
<1>b. AppendInv' /\ BookKept
  BY <1>a, TypeStep, AppendStep DEF AppendInv
<1>1. ASSUME NEW w \in Workers, OwnStep(w) PROVE WholeInv'
  <2>1. Private(w)
    BY <1>1 DEF OwnStep
  <2>2. WholeTx(w)'
    BY <1>1, OwnWhole
  <2>3. ASSUME NEW v \in Workers \ {w} PROVE WholeTx(v)'
    BY <1>b, <2>1, OthersWhole DEF WholeInv, Private
  <2>4. AllOrNothing'
    BY <2>1 DEF WholeInv, Private, AllOrNothing
  <2> QED BY <1>b, <2>2, <2>3, <2>4 DEF WholeInv
<1>2. ASSUME NEW w \in Workers, Commit(w) PROVE WholeInv'
  BY <1>b, <1>2, CommitWhole DEF WholeInv
<1>3. ASSUME UNCHANGED <<part, tx>>, AllOrNothing' PROVE WholeInv'
  BY <1>a, <1>b, <1>3, IdleSteps DEF WholeInv
<1>4. ASSUME NEW r \in Requests, CreateRequest(r) PROVE WholeInv'
  <2>1. /\ \A q : request'[q].result = request[q].result
        /\ UNCHANGED <<part, tx, outbox>>
    BY <1>4, <1>a DEF CreateRequest, TypeOK, RequestRow
  <2>2. AllOrNothing'
    BY <2>1 DEF WholeInv, AllOrNothing
  <2> QED BY <1>3, <2>1, <2>2
<1>5. CASE ProcessOutbox
  <2>1. ASSUME NEW e \in outbox
        PROVE  [e EXCEPT !.status = "PUBLISHED"].movement = e.movement
    BY <1>a DEF TypeOK
  <2>2. /\ UNCHANGED <<part, tx, request>>
        /\ outbox' = {[e EXCEPT !.status = "PUBLISHED"] : e \in outbox}
    BY <1>5 DEF ProcessOutbox
  <2>3. AllOrNothing'
    BY <2>1, <2>2, ZenonT(30) DEF WholeInv, AllOrNothing
  <2> QED BY <1>3, <2>2, <2>3
<1>6. CASE UNCHANGED vars
  <2>1. AllOrNothing' /\ UNCHANGED <<part, tx>>
    BY <1>6 DEF vars, WholeInv, AllOrNothing
  <2> QED BY <1>3, <2>1
<1> QED
  BY <1>a, <1>1, <1>2, <1>4, <1>5, <1>6, StepKinds

LEMMA InitRecords == Init => RecordInv /\ WholeInv
<1> SUFFICES ASSUME Init PROVE RecordInv /\ WholeInv
  OBVIOUS
<1>1. AppendInv
  <2>1. \A w \in Workers, p \in Partitions : tx[w].parts[p] = None
    BY DEF Init, Idle
  <2> QED BY <2>1, InitTypes DEF AppendInv, Exclusive, BuildsOnBook
<1>2. \A p \in Partitions, n \in Seqs : part[p].moves[n] = None
  BY DEF Init
<1>3. ASSUME NEW w \in Workers PROVE RecordTx(w) /\ WholeTx(w)
  <2>1. /\ \A r \in Requests : tx[w].rows[r] = None
        /\ \A p \in Partitions : tx[w].parts[p] = None
        /\ \A k \in Keys : tx[w].keys[k] = None
        /\ tx[w].events = {} /\ tx[w].todo = {} /\ tx[w].pc = "idle"
    BY DEF Init, Idle
  <2> QED
    BY <2>1 DEF RecordTx, PostedTx, EventsTx, KeysTx, WholeTx, Resulted
<1>4. PostedIsBooked /\ OutboxOfBook
  BY DEF Init, PostedIsBooked, OutboxOfBook
<1>5. KeysOfBook /\ AllOrNothing
  BY <1>2 DEF KeysOfBook, AllOrNothing
<1>6. KeysApart
  BY DEF Init, Idle, KeysApart
<1> QED
  BY <1>1, <1>3, <1>4, <1>5, <1>6 DEF RecordInv, WholeInv

\* In every reachable state, for every payload: what requests, events and
\* idempotency records say of the movements is so, also in what the open
\* sessions are about to commit.
THEOREM RecordInvariant == Spec => []RecordInv
<1>1. Init => RecordInv
  BY InitRecords
<1> QED
  BY <1>1, RecordStep, PTL DEF Spec

\* A request that says POSTED points at a movement in the book that was made
\* for it, whatever stale sessions write over the request row.
THEOREM PostedRequestsAreBooked == Spec => []PostedIsBooked
<1>1. RecordInv => PostedIsBooked
  BY DEF RecordInv
<1> QED
  BY <1>1, RecordInvariant, PTL

\* Two requests with one key and two payloads never both reach the book,
\* although each session looks the key up before it registers it.
THEOREM KeyConflictsRefused == Spec => []KeyConflictRefused
<1>1. RecordInv => KeyConflictRefused
  <2> SUFFICES ASSUME RecordInv, NEW r \in Requests, NEW s \in Requests,
                      KeyOf[r] = KeyOf[s], HashOf[r] # HashOf[s],
                      NEW p \in Partitions, NEW q \in Partitions,
                      NEW n \in Seqs, NEW m \in Seqs,
                      part[p].moves[n] # None, part[p].moves[n].req = r,
                      part[q].moves[m] # None, part[q].moves[m].req = s
               PROVE  FALSE
    BY DEF KeyConflictRefused
  <2>1. Matches(idem[KeyOf[r]], r) /\ Matches(idem[KeyOf[s]], s)
    BY DEF RecordInv, KeysOfBook
  <2> QED BY <2>1 DEF Matches
<1> QED
  BY <1>1, RecordInvariant, PTL

\* Events speak of committed movements, and a published one never returns to
\* the queue: a commit only adds events of movements that are new to the book.
THEOREM OutboxStaysSafe == Spec => OutboxSafe
<1> DEFINE Safe ==
      \A e \in outbox' :
        /\ \E p \in Partitions, n \in Seqs :
             e.movement = <<p, n>> /\ part'[p].moves[n] # None
        /\ [movement |-> e.movement, status |-> "PUBLISHED"] \in outbox
             => e.status = "PUBLISHED"
<1>1. RecordInv /\ RecordInv' /\ [Next]_vars => [Safe]_vars
  <2> SUFFICES ASSUME RecordInv, RecordInv', [Next]_vars PROVE Safe
    OBVIOUS
  <2>a. AppendInv /\ TypeInv /\ BookKept
    BY AppendStep DEF RecordInv, AppendInv
  <2>1. \A e \in outbox' : \E p \in Partitions, n \in Seqs :
          e.movement = <<p, n>> /\ part'[p].moves[n] # None
    BY DEF RecordInv, OutboxOfBook
  <2>2. outbox \subseteq outbox' \/ \A e \in outbox' : e.status = "PUBLISHED"
    BY <2>a, StepKinds, CommitEmits, EventsMarked
       DEF OwnStep, Private, CreateRequest, vars
  <2>3. ASSUME NEW e \in outbox', outbox \subseteq outbox',
               [movement |-> e.movement, status |-> "PUBLISHED"] \in outbox
        PROVE  e.status = "PUBLISHED"
    <3> DEFINE f == [movement |-> e.movement, status |-> "PUBLISHED"]
    <3>1. f \in outbox' /\ f.movement = e.movement /\ f.status = "PUBLISHED"
      BY <2>3
    <3> HIDE DEF f
    <3>2. e = f
      BY <3>1 DEF RecordInv, OutboxOfBook
    <3> QED BY <3>1, <3>2
  <2> QED BY <2>1, <2>2, <2>3
<1> QED
  BY <1>1, RecordInvariant, PTL DEF Spec, OutboxSafe

\* In every reachable state, if source references parse: the movements of the
\* book and of every open session come with their event and their result.
THEOREM WholeInvariant == ASSUME SourcesParse PROVE Spec => []WholeInv
<1>1. Init => WholeInv
  BY InitRecords
<1>2. WholeInv /\ [Next]_vars => WholeInv'
  BY WholeStep
<1> QED
  BY <1>1, <1>2, PTL DEF Spec

\* A movement has its outbox event and its request knows of a result, for any
\* number of sessions, provided that source references parse: the one thing
\* that the posting does not test before it writes the movement.
THEOREM WholePostings == ASSUME SourcesParse PROVE Spec => []AllOrNothing
<1>1. WholeInv => AllOrNothing
  BY DEF WholeInv
<1> QED
  BY <1>1, WholeInvariant, PTL

-----------------------------------------------------------------------------
(* MOV codes *)

LEMMA ApartBothWays ==
  ASSUME NEW p, NEW q, NEW row, NEW other, CodesApart(p, row, q, other)
  PROVE  CodesApart(q, other, p, row)
BY DEF CodesApart, HasCode

LEMMA BookApart ==
  CodesUnique <=> \A p, q \in Partitions : CodesApart(p, part[p], q, part[q])
BY DEF CodesUnique, CodesApart

\* One movement more, with a code that the other row does not have.
LEMMA OneCodeMore ==
  ASSUME NEW p, NEW q, NEW row, NEW other, NEW row2, NEW n \in Seqs, NEW r,
         \A m \in Seqs : m # n => row2.moves[m] = row.moves[m],
         row2.moves[n].req = r,
         ~HasCode(other, r, n), CodesApart(p, row, q, other)
  PROVE  CodesApart(p, row2, q, other)
BY DEF CodesApart, HasCode

\* A step of w that leaves the book: what remains is to look at w.
LEMMA OwnCodes ==
  ASSUME CodesInv, NEW w \in Workers, Private(w), SeenApart(w)',
         \A v \in Workers \ {w} : WrittenApart(w, v)'
  PROVE  /\ CodesUnique'
         /\ \A v \in Workers : SeenApart(v)'
         /\ \A u, v \in Workers : WrittenApart(u, v)'
<1>p. part' = part /\ \A v \in Workers \ {w} : tx'[v] = tx[v]
  BY DEF Private
<1>1. CodesUnique'
  BY <1>p DEF CodesInv, CodesUnique, HasCode
<1>2. ASSUME NEW v \in Workers \ {w} PROVE SeenApart(v)'
  <2>1. \A p \in Partitions : View(v, p)' = View(v, p)
    BY <1>p DEF View
  <2>2. SeenApart(v)
    BY DEF CodesInv
  <2> QED BY <2>1, <2>2 DEF SeenApart, CodesApart, HasCode
<1>3. ASSUME NEW u \in Workers \ {w}, NEW v \in Workers \ {w} PROVE WrittenApart(u, v)'
  <2>1. tx'[u] = tx[u] /\ tx'[v] = tx[v] /\ WrittenApart(u, v)
    BY <1>p DEF CodesInv
  <2> QED BY <2>1, SMTT(30) DEF WrittenApart, CodesApart, HasCode
<1>4. ASSUME NEW v \in Workers \ {w} PROVE WrittenApart(v, w)'
  BY ApartBothWays, SMTT(30) DEF WrittenApart, CodesApart, HasCode
<1>5. WrittenApart(w, w)'
  BY DEF SeenApart, WrittenApart, View, CodesApart, HasCode
<1> QED
  BY <1>1, <1>2, <1>3, <1>4, <1>5

LEMMA OwnStepCodes ==
  ASSUME CodesInv, NEW w \in Workers, OwnStep(w)
  PROVE  SeenApart(w)' /\ \A v \in Workers \ {w} : WrittenApart(w, v)'
<1>a. AppendInv /\ Private(w) /\ CodesUnique
  BY DEF CodesInv, OwnStep
<1>p. part' = part /\ \A v \in Workers \ {w} : tx'[v] = tx[v]
  BY <1>a DEF Private
<1>t. tx[w].parts \in [Partitions -> PartitionRow \cup {None}]
  BY <1>a DEF AppendInv, TypeInv, TypeOK, Transaction
<1>n. ASSUME NEW row \in PartitionRow PROVE row # None
  BY NoneAssumption
<1>s. ASSUME NEW v \in Workers, NEW p \in Partitions, NEW q \in Partitions
      PROVE  /\ CodesApart(p, View(v, p), q, View(v, q))
             /\ tx[w].parts[p] # None /\ tx[v].parts[q] # None =>
                  CodesApart(p, tx[w].parts[p], q, tx[v].parts[q])
  BY DEF CodesInv, SeenApart, WrittenApart
<1>1. CASE Blank(w)
  <2>1. \A p \in Partitions : View(w, p)' = part[p]
    BY <1>p, <1>1 DEF Blank, View
  <2>2. SeenApart(w)'
    BY <1>a, <2>1, BookApart DEF SeenApart, CodesApart, HasCode
  <2> QED BY <1>1, <2>2 DEF Blank, WrittenApart
<1>2. CASE Going(w) \/ Registering(w)
  <2>1. tx'[w].parts = tx[w].parts
    BY <1>2 DEF Going, Registering
  <2>2. SeenApart(w)'
    <3>1. \A p \in Partitions : View(w, p)' = View(w, p)
      BY <1>p, <2>1, SMTT(30) DEF View
    <3> QED BY <1>s, <3>1 DEF SeenApart, CodesApart, HasCode
  <2>3. ASSUME NEW v \in Workers \ {w} PROVE WrittenApart(w, v)'
    BY <1>p, <1>s, <2>1 DEF WrittenApart, CodesApart, HasCode
  <2> QED BY <2>2, <2>3
<1>3. CASE Touching(w)
  <2> PICK p \in Partitions, row \in PartitionRow :
        /\ tx'[w].parts = [tx[w].parts EXCEPT ![p] = row]
        /\ row.moves = View(w, p).moves
        /\ \A v \in Workers \ {w} : tx[v].parts[p] = None
    BY <1>3 DEF Touching
  <2>1. /\ tx'[w].parts[p] = row /\ row # None
        /\ \A q \in Partitions \ {p} : tx'[w].parts[q] = tx[w].parts[q]
    BY <1>t, <1>n
  <2>2. \A q \in Partitions : View(w, q)'.moves = View(w, q).moves
    BY <1>p, <2>1, SMTT(30) DEF View
  <2>3. SeenApart(w)'
    BY <1>s, <2>2 DEF SeenApart, CodesApart, HasCode
  <2>4. ASSUME NEW v \in Workers \ {w}, NEW q \in Partitions, tx[v].parts[q] # None
        PROVE  CodesApart(p, View(w, p), q, tx[v].parts[q])
    <3>1. CASE tx[w].parts[p] # None
      BY <1>s, <2>4, <3>1 DEF View
    <3>2. CASE tx[w].parts[p] = None
      <4>1. View(w, p) = View(v, p) /\ View(v, q) = tx[v].parts[q]
        BY <2>4, <3>2 DEF View
      <4> QED BY <1>s, <4>1
    <3> QED BY <3>1, <3>2
  <2>5. ASSUME NEW v \in Workers \ {w}, NEW a \in Partitions, NEW q \in Partitions,
               tx'[w].parts[a] # None, tx[v].parts[q] # None
        PROVE  CodesApart(a, tx'[w].parts[a], q, tx[v].parts[q])
    <3>1. CASE a = p
      BY <2>1, <2>4, <2>5, <3>1 DEF CodesApart
    <3>2. CASE a # p
      BY <1>s, <2>1, <2>5, <3>2, SMTT(30)
    <3> QED BY <3>1, <3>2
  <2>6. ASSUME NEW v \in Workers \ {w} PROVE WrittenApart(w, v)'
    BY <1>p, <2>5 DEF WrittenApart, CodesApart, HasCode
  <2> QED BY <2>3, <2>6
<1>4. CASE Inserting(w)
  <2> DEFINE r == tx[w].cur
  <2> PICK p \in Partitions, n \in Seqs : Takes(tx[w], tx'[w], p, n) /\ NewCode(w, r, n)
    BY <1>4 DEF Inserting
  <2>0. r \in Requests
    BY <1>4 DEF Inserting
  <2>1. Took(w, p, n) /\ tx[w].parts[p] # None
    BY <1>a, <2>0, Taken DEF Takes
  <2>2. /\ tx'[w].parts[p].moves[n].req = r
        /\ \A m \in Seqs : m # n => tx'[w].parts[p].moves[m] = tx[w].parts[p].moves[m]
        /\ \A q \in Partitions, m \in Seqs : q # p => tx'[w].parts[q].moves[m] = tx[w].parts[q].moves[m]
        /\ \A q \in Partitions : tx'[w].parts[q] # None <=> tx[w].parts[q] # None
    BY <2>1 DEF Took
  <2>3. ASSUME NEW q \in Partitions, NEW other,
               CodesApart(p, tx[w].parts[p], q, other), ~HasCode(other, r, n)
        PROVE  CodesApart(p, tx'[w].parts[p], q, other)
    BY <2>2, <2>3, OneCodeMore
  <2>4. View(w, p)' = tx'[w].parts[p] /\ View(w, p) = tx[w].parts[p]
    BY <2>1 DEF View, Took
  <2>5. \A q \in Partitions, m \in Seqs :
          q # p => View(w, q)'.moves[m] = View(w, q).moves[m]
    BY <1>p, <2>2 DEF View
  <2>6. ASSUME NEW q \in Partitions, q # p
        PROVE  CodesApart(p, View(w, p)', q, View(w, q)')
    <3>1. ~HasCode(View(w, q), r, n)
      BY DEF NewCode, CodeTaken
    <3>2. CodesApart(p, tx'[w].parts[p], q, View(w, q))
      BY <1>s, <2>3, <2>4, <3>1
    <3> QED BY <2>4, <2>5, <2>6, <3>2 DEF CodesApart, HasCode
  <2>7. ASSUME NEW a \in Partitions, NEW q \in Partitions, a # p, q # p
        PROVE  CodesApart(a, View(w, a)', q, View(w, q)')
    BY <1>s, <2>5, <2>7 DEF CodesApart, HasCode
  <2>8. ASSUME NEW a \in Partitions, NEW q \in Partitions
        PROVE  CodesApart(a, View(w, a)', q, View(w, q)')
    <3>1. CASE a = q
      BY <3>1 DEF CodesApart
    <3>2. CASE a # q /\ a = p
      BY <2>6, <3>2
    <3>3. CASE a # q /\ q = p
      BY <2>6, <3>3, ApartBothWays
    <3> QED BY <2>7, <3>1, <3>2, <3>3
  <2>9. SeenApart(w)'
    BY <2>8 DEF SeenApart, CodesApart, HasCode
  <2>10. ASSUME NEW v \in Workers \ {w}, NEW a \in Partitions, NEW q \in Partitions,
                tx'[w].parts[a] # None, tx[v].parts[q] # None
         PROVE  CodesApart(a, tx'[w].parts[a], q, tx[v].parts[q])
    <3>1. CASE a = p
      <4>1. ~HasCode(tx[v].parts[q], r, n)
        BY <2>10, SMTT(30) DEF NewCode
      <4> QED BY <1>s, <2>1, <2>3, <2>10, <3>1, <4>1
    <3>2. CASE a # p
      <4>1. CodesApart(a, tx[w].parts[a], q, tx[v].parts[q])
        BY <1>s, <2>2, <2>10
      <4> QED BY <2>2, <3>2, <4>1 DEF CodesApart, HasCode
    <3> QED BY <3>1, <3>2
  <2>11. ASSUME NEW v \in Workers \ {w} PROVE WrittenApart(w, v)'
    BY <1>p, <2>10 DEF WrittenApart, CodesApart, HasCode
  <2> QED BY <2>9, <2>11
<1> QED
  BY <1>1, <1>2, <1>3, <1>4 DEF OwnStep

\* A commit turns what one session sees into what all see.
LEMMA CommitCodes ==
  ASSUME CodesInv, NEW w \in Workers, Commit(w), BookKept
  PROVE  /\ CodesUnique'
         /\ \A v \in Workers : SeenApart(v)'
         /\ \A u, v \in Workers : WrittenApart(u, v)'
<1>a. AppendInv
  BY DEF CodesInv
<1>1. /\ \A v \in Workers : tx'[v] \in {Idle, tx[v]}
      /\ tx'[w] = Idle
      /\ \A p \in Partitions : part'[p] = View(w, p)
  BY <1>a, CommittedTx
<1>i. \A p \in Partitions : Idle.parts[p] = None
  BY DEF Idle
<1>2. CodesUnique'
  <2>1. \A p, q \in Partitions : CodesApart(p, part'[p], q, part'[q])
    BY <1>1 DEF CodesInv, SeenApart
  <2> QED BY <2>1 DEF CodesUnique, CodesApart, HasCode
<1>3. ASSUME NEW u \in Workers, NEW v \in Workers PROVE WrittenApart(u, v)'
  <2>1. \A p \in Partitions : /\ tx'[u].parts[p] \in {None, tx[u].parts[p]}
                            /\ tx'[v].parts[p] \in {None, tx[v].parts[p]}
    BY <1>1, <1>i
  <2>2. WrittenApart(u, v)
    BY DEF CodesInv
  <2>3. \A p, q \in Partitions :
          tx'[u].parts[p] # None /\ tx'[v].parts[q] # None =>
            CodesApart(p, tx'[u].parts[p], q, tx'[v].parts[q])
    BY <2>1, <2>2 DEF WrittenApart
  <2> QED BY <2>3 DEF WrittenApart, CodesApart, HasCode
<1>4. ASSUME NEW v \in Workers, NEW p \in Partitions, NEW q \in Partitions
      PROVE  CodesApart(p, View(v, p)', q, View(v, q)')
  <2>s. \A u \in Workers, a, b \in Partitions :
          /\ CodesApart(a, View(u, a), b, View(u, b))
          /\ tx[v].parts[a] # None /\ tx[u].parts[b] # None =>
               CodesApart(a, tx[v].parts[a], b, tx[u].parts[b])
    BY DEF CodesInv, SeenApart, WrittenApart
  <2>1. CASE tx'[v] = Idle
    <3>1. \A a \in Partitions : View(v, a)' = View(w, a)
      BY <1>1, <1>i, <2>1 DEF View
    <3> QED BY <2>s, <3>1
  <2>2. CASE tx'[v] = tx[v]
    <3>1. \A a \in Partitions :
            View(v, a)' = IF tx[v].parts[a] = None THEN View(w, a) ELSE View(v, a)
      BY <1>1, <2>2 DEF View
    <3>2. ASSUME NEW a \in Partitions, NEW b \in Partitions,
                 tx[v].parts[a] # None, tx[v].parts[b] = None
          PROVE  CodesApart(a, View(v, a), b, View(w, b))
      <4>1. View(v, a) = tx[v].parts[a] /\ View(v, b) = part[b]
        BY <3>2 DEF View
      <4>2. CASE tx[w].parts[b] # None
        BY <2>s, <3>2, <4>1, <4>2 DEF View
      <4>3. CASE tx[w].parts[b] = None
        BY <2>s, <4>1, <4>3 DEF View
      <4> QED BY <4>2, <4>3
    <3>3. CASE tx[v].parts[p] # None /\ tx[v].parts[q] = None
      BY <3>1, <3>2, <3>3
    <3>4. CASE tx[v].parts[p] = None /\ tx[v].parts[q] # None
      BY <3>1, <3>2, <3>4, ApartBothWays
    <3>5. CASE tx[v].parts[p] = None <=> tx[v].parts[q] = None
      BY <2>s, <3>1, <3>5
    <3> QED BY <3>3, <3>4, <3>5
  <2> QED BY <1>1, <2>1, <2>2
<1>5. ASSUME NEW v \in Workers PROVE SeenApart(v)'
  BY <1>4 DEF SeenApart, CodesApart, HasCode
<1> QED
  BY <1>2, <1>3, <1>5

LEMMA CodesStep == CodesInv /\ [Next]_vars => CodesInv'
<1> SUFFICES ASSUME CodesInv, [Next]_vars PROVE CodesInv'
  OBVIOUS
<1>a. AppendInv /\ TypeInv
  BY DEF CodesInv, AppendInv
<1>b. AppendInv' /\ BookKept
  BY <1>a, TypeStep, AppendStep DEF AppendInv
<1>1. ASSUME NEW w \in Workers, OwnStep(w) PROVE CodesInv'
  <2>1. Private(w) /\ SeenApart(w)' /\ \A v \in Workers \ {w} : WrittenApart(w, v)'
    BY <1>1, OwnStepCodes DEF OwnStep
  <2> QED BY <1>b, <2>1, OwnCodes DEF CodesInv
<1>2. ASSUME NEW w \in Workers, Commit(w) PROVE CodesInv'
  BY <1>b, <1>2, CommitCodes DEF CodesInv
<1>3. ASSUME UNCHANGED <<part, tx>> PROVE CodesInv'
  <2>1. CodesUnique'
    BY <1>3, SMTT(30) DEF CodesInv, CodesUnique, HasCode
  <2>2. \A w \in Workers : SeenApart(w)'
    BY <1>3 DEF CodesInv, SeenApart, CodesApart, View, HasCode
  <2>3. \A v, w \in Workers : WrittenApart(v, w)'
    BY <1>3 DEF CodesInv, WrittenApart, CodesApart, HasCode
  <2> QED BY <1>b, <2>1, <2>2, <2>3 DEF CodesInv
<1>4. CASE UNCHANGED vars \/ ProcessOutbox \/ \E r \in Requests : CreateRequest(r)
  BY <1>3, <1>4 DEF vars, ProcessOutbox, CreateRequest
<1> QED
  BY <1>a, <1>1, <1>2, <1>4, StepKinds

\* In every reachable state, for every payload: codes differ in what any one
\* session sees and in what any two have written.
THEOREM CodesInvariant == Spec => []CodesInv
<1>1. Init => CodesInv
  <2> SUFFICES ASSUME Init PROVE CodesInv
    OBVIOUS
  <2>1. /\ \A w \in Workers, p \in Partitions : tx[w].parts[p] = None
        /\ \A p \in Partitions, n \in Seqs : part[p].moves[n] = None
    BY DEF Init, Idle
  <2>2. AppendInv
    BY <2>1, InitTypes DEF AppendInv, Exclusive, BuildsOnBook
  <2>3. CodesUnique
    BY <2>1 DEF CodesUnique
  <2>4. \A w \in Workers : SeenApart(w)
    BY <2>1 DEF SeenApart, View, CodesApart
  <2> QED BY <2>1, <2>2, <2>3, <2>4 DEF CodesInv, WrittenApart
<1> QED
  BY <1>1, CodesStep, PTL DEF Spec

\* No two movements of the book have the same MOV code, for any sites, any
\* warehouses and any number of sessions that lock different warehouses.
THEOREM CodesStayUnique == Spec => []CodesUnique
<1>1. CodesInv => CodesUnique
  BY DEF CodesInv
<1> QED
  BY <1>1, CodesInvariant, PTL

-----------------------------------------------------------------------------
(* Lock waits *)

\* A session leaves its transaction only by ending it.
LEMMA IdleStep == TypeInv /\ IdleHoldsNothing /\ [Next]_vars => IdleHoldsNothing'
<1> SUFFICES ASSUME TypeInv, IdleHoldsNothing, [Next]_vars,
                    NEW v \in Workers, tx'[v].pc = "idle"
             PROVE  tx'[v] = Idle
  BY DEF IdleHoldsNothing
<1>0. ASSUME tx'[v] = tx[v] PROVE tx'[v] = Idle
  BY <1>0 DEF IdleHoldsNothing
<1>1. ASSUME NEW w \in Workers, OwnStep(w) PROVE tx'[v] = Idle
  <2>1. v # w => tx'[v] = tx[v]
    BY <1>1, SMTT(30) DEF OwnStep, Private
  <2>2. v = w => tx'[v] = Idle
    BY <1>1 DEF OwnStep, Blank, Going, Registering, Touching, Inserting
  <2> QED BY <1>0, <2>1, <2>2
<1>2. ASSUME NEW w \in Workers, Commit(w) PROVE tx'[v] = Idle
  BY <1>0, <1>2 DEF Commit
<1>3. CASE UNCHANGED vars \/ ProcessOutbox \/ \E r \in Requests : CreateRequest(r)
  BY <1>0, <1>3 DEF vars, ProcessOutbox, CreateRequest
<1> QED
  BY <1>1, <1>2, <1>3, StepKinds

\* Among sets of subsets of a finite set there is a smallest one.
LEMMA SmallestSet ==
  ASSUME NEW S, IsFiniteSet(S), NEW B \in SUBSET SUBSET S, B # {}
  PROVE  \E T \in B : \A R \in B : Cardinality(T) <= Cardinality(R)
<1> DEFINE sizes == {n \in Nat : \E T \in B : n = Cardinality(T)}
<1>1. \A T \in B : Cardinality(T) \in Nat
  BY FS_Subset, FS_CardinalityType
<1>2. sizes # {} /\ sizes \subseteq Nat
  BY <1>1
<1> HIDE DEF sizes
<1>3. PICK n \in sizes : \A m \in sizes : ~(<<m, n>> \in OpToRel(<, Nat))
  BY <1>2, NatLessThanWellFounded, WFMin, ZenonT(30)
<1>4. \A m \in sizes : ~(m < n)
  BY <1>2, <1>3 DEF OpToRel
<1>5. \A m \in sizes : n <= m
  BY <1>2, <1>4
<1> QED BY <1>1, <1>5 DEF sizes

\* Who has to wait waits for a session in the middle of a transaction.
LEMMA WaitsForRunning ==
  ASSUME TypeOK, IdleHoldsNothing, NEW w \in Workers, NEW v \in WaitsFor(w)
  PROVE  v \in Workers /\ tx[v].pc # "idle"
<1> DEFINE r == tx[w].cur
<1>1. v \in Workers
  BY DEF WaitsFor
<1>2. tx[w].pc \notin {"idle", "pick"}
  BY DEF WaitsFor
<1>3. r \in Requests /\ KeyOf[r] \in Keys /\ PartitionOf[r] \in Partitions
  BY <1>2, PayloadAssumption DEF TypeOK
<1>4. /\ Idle.rows[r] = None /\ Idle.keys[KeyOf[r]] = None
      /\ \A p \in Partitions : Idle.parts[p] = None
  BY <1>3 DEF Idle
<1>5. tx[v] # Idle
  BY <1>3, <1>4 DEF WaitsFor
<1> QED
  BY <1>1, <1>5 DEF IdleHoldsNothing

\* If in a finite set of sessions each waits for one of them, some wait for
\* each other in a cycle: a smallest such set.
LEMMA WaitsClose ==
  ASSUME NEW A \in SUBSET Workers, A # {}, \A w \in A : WaitsFor(w) \cap A # {}
  PROVE  \E S \in SUBSET Workers : S # {} /\ Deadlocked(S)
<1> DEFINE Stuck(T) == T # {} /\ \A w \in T : WaitsFor(w) \cap T # {}
           B == {T \in SUBSET Workers : Stuck(T)}
<1>1. A \in B
  OBVIOUS
<1>2. PICK T \in B : \A R \in B : Cardinality(T) <= Cardinality(R)
  <2>1. B \in SUBSET SUBSET Workers /\ B # {}
    BY <1>1
  <2> HIDE DEF B
  <2> QED BY <2>1, SessionAssumption, SmallestSet
<1>3. T \in SUBSET Workers /\ Stuck(T)
  BY <1>2
<1> DEFINE R == {v \in T : \E u \in T : v \in WaitsFor(u)}
<1>4. R \in B
  BY <1>3
<1>5. R = T
  <2> SUFFICES ASSUME NEW v \in T, v \notin R PROVE FALSE
    OBVIOUS
  <2>1. IsFiniteSet(T) /\ R \subseteq T \ {v}
    BY <1>3, SessionAssumption, FS_Subset
  <2>2. IsFiniteSet(T \ {v}) /\ Cardinality(T) \in Nat
        /\ Cardinality(T \ {v}) = Cardinality(T) - 1
    BY <2>1, FS_RemoveElement, FS_CardinalityType
  <2>3. Cardinality(R) \in Nat /\ Cardinality(R) <= Cardinality(T \ {v})
    BY <2>1, <2>2, FS_Subset, FS_CardinalityType
  <2>4. Cardinality(T) <= Cardinality(R)
    BY <1>2, <1>4
  <2> QED BY <2>2, <2>3, <2>4
<1>6. \A v \in T : \E u \in T : v \in WaitsFor(u)
  BY <1>5
<1>7. Deadlocked(T)
  BY <1>3, <1>6 DEF Deadlocked
<1> QED
  BY <1>3, <1>7

\* As long as a transaction runs, one of them can go on or some wait in a
\* cycle, which PostgreSQL cuts: for any number of sessions, nobody waits for
\* a session that has ended or for ever along a chain.
THEOREM SessionsNeverStall == Spec => []NoStall
<1>1. Init => TypeInv /\ IdleHoldsNothing
  BY InitTypes DEF Init, IdleHoldsNothing
<1>2. TypeInv /\ IdleHoldsNothing => NoStall
  <2> SUFFICES ASSUME TypeInv, IdleHoldsNothing,
                      \E w \in Workers : tx[w].pc # "idle",
                      \A w \in Workers : tx[w].pc # "idle" => WaitsFor(w) # {}
               PROVE  \E S \in SUBSET Workers : S # {} /\ Deadlocked(S)
    BY DEF NoStall
  <2> DEFINE A == {w \in Workers : tx[w].pc # "idle"}
  <2>1. A \in SUBSET Workers /\ A # {}
    OBVIOUS
  <2>2. ASSUME NEW w \in A PROVE WaitsFor(w) \cap A # {}
    <3>1. PICK v \in WaitsFor(w) : TRUE
      OBVIOUS
    <3>2. v \in A
      BY <3>1, WaitsForRunning DEF TypeInv
    <3> QED BY <3>1, <3>2
  <2> HIDE DEF A
  <2> QED BY <2>1, <2>2, WaitsClose
<1> QED
  BY <1>1, <1>2, TypeStep, IdleStep, PTL DEF Spec
=============================================================================
