------------------------ MODULE ArrivalAllocations -------------------------
(***************************************************************************)
(* The quantities that arrival notices allocate of the purchase orders     *)
(* (inbound/arrival_notices): the lines of a notice, its revisions, the    *)
(* allocation behind each line, the job that reconciles them, and what the *)
(* reception calendar does to the notice meanwhile.                        *)
(*                                                                         *)
(* A request is one database transaction, a step for each row it waits     *)
(* for; what it writes is seen when it commits, with its last step.  The   *)
(* tests of a request are made on rows it holds by then.                   *)
(*                                                                         *)
(* Not kept: snapshots, units (a quantity is one of base units), transport *)
(* and documents, row versions, audit, the idempotency record, and the row *)
(* locks on a line, whose revision is always locked with it.               *)
(***************************************************************************)
EXTENDS Integers, FiniteSets

CONSTANTS
  Notices,
  OrderLines,    \* lines of the issued purchase orders
  Ordered,       \* Ordered[p]: their quantities
  Quantities,    \* the quantities a line is given
  Workers,       \* server threads, one request each
  Schedulable,   \* the notices for which the reception calendar has a slot
  CreatedAt,     \* CreatedAt[l]: created_at of the allocation of line l, made once
  BatchSize,     \* how many allocations the job takes at a time (500)
  MaxRevisions,  \* bound: revisions of a notice
  None

Revisions == 1 .. MaxRevisions

\* A revision has at most one line of an order line (a unique constraint,
\* which counts cancelled lines), and a line at most one allocation.
Lines == Notices \X Revisions \X OrderLines

VARIABLES
  notice,      \* notice[n]: status, active revision, whether the event of its
               \* cancellation is enqueued, and its place in the calendar
  revision,    \* revision[n][k]: the status of the k-th revision
  line,        \* line[l]: the expected lines
  allocation,  \* allocation[l]: the allocation of line l
  lock,        \* lock[r]: the worker whose transaction holds row r
  batch,       \* the allocations the reconciling job has locked
  txn          \* txn[w]: the request worker w serves

vars == <<notice, revision, line, allocation, lock, batch, txn>>

-----------------------------------------------------------------------------
NoticeStatuses ==
  {"DRAFT", "SUBMITTED", "UNDER_REVIEW", "REQUIRES_CHANGES",
   "READY_FOR_SCHEDULING", "SCHEDULED", "CONFIRMED", "CANCELLED"}

RevisionStatuses == {"EDITABLE", "SUBMITTED", "SUPERSEDED", "CONFIRMED"}

LineStatuses == {"EXPECTED", "CANCELLED"}

AllocationStatuses == {"HELD", "ACTIVE", "RELEASED"}

ActiveAllocationStatuses == {"HELD", "ACTIVE"}

\* The transitions that the routes ask for.
ReviewTransitions ==
  [SUBMITTED |-> {"UNDER_REVIEW", "REQUIRES_CHANGES", "READY_FOR_SCHEDULING"},
   UNDER_REVIEW |-> {"REQUIRES_CHANGES", "READY_FOR_SCHEDULING"}]

\* What the calendar has for a notice; it can be cancelled behind its back.
Bookings == {"none", "hold", "proposed", "confirmed"}

ASSUME AllocationConstants ==
  /\ IsFiniteSet(Notices) /\ IsFiniteSet(OrderLines)
  /\ Ordered \in [OrderLines -> Nat]
  /\ Quantities \subseteq Nat \ {0} /\ Schedulable \subseteq Notices
  /\ CreatedAt \in [Lines -> Nat]
  /\ BatchSize \in Nat \ {0} /\ MaxRevisions \in Nat \ {0}
  /\ None \notin Workers \cup Notices \cup Revisions \cup OrderLines \cup Quantities
  /\ None \notin RevisionStatuses \cup LineStatuses \cup AllocationStatuses

NoLine == [status |-> None, quantity |-> 0]

Rows ==
  ({"notice"} \X Notices) \cup ({"revision"} \X (Notices \X Revisions))
    \cup ({"order"} \X OrderLines)

Idle ==
  [op |-> "none", pc |-> "idle", notice |-> None, revision |-> None,
   order |-> None, quantity |-> None]

\* create_notice: a DRAFT with an editable revision and no lines yet.
Init ==
  /\ notice = [n \in Notices |->
                 [status |-> "DRAFT", current |-> 1, announced |-> FALSE, booking |-> "none"]]
  /\ revision = [n \in Notices |-> [k \in Revisions |-> IF k = 1 THEN "EDITABLE" ELSE None]]
  /\ line = [l \in Lines |-> NoLine]
  /\ allocation = [l \in Lines |-> NoLine]
  /\ lock = [r \in Rows |-> None]
  /\ batch = {}
  /\ txn = [w \in Workers |-> Idle]

-----------------------------------------------------------------------------
IsActive(l) == allocation[l].status \in ActiveAllocationStatuses

ActiveAllocations == {l \in Lines : IsActive(l)}

\* The expected lines of the revision of n that is active.
ExpectedLines(n) ==
  {l \in Lines :
     l[1] = n /\ l[2] = notice[n].current /\ line[l].status = "EXPECTED"}

\* The units allocated to the lines in L: their number is a sum of quantities.
Units(L) == UNION {{l} \X (1 .. allocation[l].quantity) : l \in L}

\* The active allocations of the order line of l, without that of l itself.
Rivals(l) == {m \in ActiveAllocations \ {l} : m[3] = l[3]}

\* Mutant: only what has been submitted counts.
FitsSubmitted(l, q) ==
  Cardinality(Units({m \in Rivals(l) : allocation[m].status = "ACTIVE"})) + q
    <= Ordered[l[3]]

\* The new quantity of line l fits within the order beside all the others.
Fits(l, q) == Cardinality(Units(Rivals(l))) + q <= Ordered[l[3]]

-----------------------------------------------------------------------------
(* Transactions and row locks. *)

Free(r) == lock[r] = None

At(w, op, pc) == txn[w].op = op /\ txn[w].pc = pc

LineOf(t) == <<t.notice, t.revision, t.order>>

\* The first lock of a request.
Start(w, r, t) ==
  /\ txn[w] = Idle /\ Free(r)
  /\ lock' = [lock EXCEPT ![r] = w]
  /\ txn' = [txn EXCEPT ![w] = t]
  /\ UNCHANGED <<notice, revision, line, allocation, batch>>

\* A further lock, and what the request goes on to wait for.
Take(w, r, pc) ==
  /\ lock' = [lock EXCEPT ![r] = w]
  /\ txn' = [txn EXCEPT ![w].pc = pc]
  /\ UNCHANGED <<notice, revision, line, allocation, batch>>

\* Mutant: the connection goes back to the pool with its locks.
EndHolding(w) == txn' = [txn EXCEPT ![w] = Idle] /\ UNCHANGED lock

\* The end of a transaction, committed or rolled back.
End(w) ==
  /\ lock' = [r \in Rows |-> IF lock[r] = w THEN None ELSE lock[r]]
  /\ txn' = [txn EXCEPT ![w] = Idle]

\* An exception rolls the transaction back.
Refuse(w) == End(w) /\ UNCHANGED <<notice, revision, line, allocation, batch>>

\* None of these allocations is locked by the job.
Unlocked(L) == L \cap batch = {}

-----------------------------------------------------------------------------
(* The lines of a revision: revision and notice are locked by one statement, *)
(* in this order; then the order line, and the allocation.                   *)

EditLine(w, op, n, k, p, q) ==
  /\ revision[n][k] # None
  /\ op # "add_line" => line[<<n, k, p>>].status # None
  /\ Start(w, <<"revision", <<n, k>>>>,
           [op |-> op, pc |-> "notice", notice |-> n, revision |-> k,
            order |-> p, quantity |-> q])

\* The status of the notice is not looked at.
EditLineNotice(w) ==
  LET t == txn[w] IN
  /\ t.op \in {"add_line", "update_line", "cancel_line"} /\ t.pc = "notice"
  /\ Free(<<"notice", t.notice>>)
  /\ IF revision[t.notice][t.revision] # "EDITABLE" THEN Refuse(w)
     ELSE Take(w, <<"notice", t.notice>>,
               IF t.op = "cancel_line" THEN "allocation" ELSE "order")

AddLine(w) ==
  LET t == txn[w]  l == LineOf(t) IN
  /\ At(w, "add_line", "order") /\ Free(<<"order", t.order>>)
  /\ IF line[l].status # None \/ ~Fits(l, t.quantity) THEN Refuse(w)
     ELSE /\ line' = [line EXCEPT ![l] = [status |-> "EXPECTED", quantity |-> t.quantity]]
          /\ allocation' =
               [allocation EXCEPT ![l] = [status |-> "HELD", quantity |-> t.quantity]]
          /\ End(w)
          /\ UNCHANGED <<notice, revision, batch>>

UpdateLineOrder(w) ==
  LET t == txn[w] IN
  /\ At(w, "update_line", "order") /\ Free(<<"order", t.order>>)
  /\ Take(w, <<"order", t.order>>, "allocation")

\* Neither the status of the line nor that of its allocation is looked at.
UpdateLine(w) ==
  LET t == txn[w]  l == LineOf(t) IN
  /\ At(w, "update_line", "allocation") /\ Unlocked({l})
  /\ IF allocation[l].status = None \/ ~Fits(l, t.quantity) THEN Refuse(w)
     ELSE /\ line' = [line EXCEPT ![l].quantity = t.quantity]
          /\ allocation' = [allocation EXCEPT ![l].quantity = t.quantity]
          /\ End(w)
          /\ UNCHANGED <<notice, revision, batch>>

\* Mutant: the allocation is left behind.
CancelLineOnly(w) ==
  LET t == txn[w]  l == LineOf(t) IN
  /\ At(w, "cancel_line", "allocation") /\ Unlocked({l})
  /\ line' = [line EXCEPT ![l].status = "CANCELLED"]
  /\ End(w)
  /\ UNCHANGED <<notice, revision, allocation, batch>>

\* Mutant: the allocation is given the status of the line.
CancelLineAlike(w) ==
  LET t == txn[w]  l == LineOf(t) IN
  /\ At(w, "cancel_line", "allocation") /\ Unlocked({l})
  /\ line' = [line EXCEPT ![l].status = "CANCELLED"]
  /\ allocation' = IF IsActive(l) THEN [allocation EXCEPT ![l].status = "CANCELLED"]
                   ELSE allocation
  /\ End(w)
  /\ UNCHANGED <<notice, revision, batch>>

CancelLine(w) ==
  LET t == txn[w]  l == LineOf(t) IN
  /\ At(w, "cancel_line", "allocation") /\ Unlocked({l})
  /\ line' = [line EXCEPT ![l].status = "CANCELLED"]
  /\ allocation' = IF IsActive(l) THEN [allocation EXCEPT ![l].status = "RELEASED"]
                   ELSE allocation
  /\ End(w)
  /\ UNCHANGED <<notice, revision, batch>>

-----------------------------------------------------------------------------
(* The notice: its row is locked first, then its active revision, then the   *)
(* allocations concerned.                                                    *)

OnNotice(w, op, n, pc) ==
  Start(w, <<"notice", n>>,
        [Idle EXCEPT !.op = op, !.pc = pc, !.notice = n, !.revision = notice[n].current])

\* The notice is validated before its revision is locked.
Submit(w, n) ==
  /\ notice[n].status \in {"DRAFT", "REQUIRES_CHANGES"}
  /\ ExpectedLines(n) # {}
  /\ OnNotice(w, "submit", n, "revision")

SubmitRevision(w) ==
  LET t == txn[w]  r == <<"revision", <<t.notice, t.revision>>>> IN
  /\ At(w, "submit", "revision") /\ Free(r)
  /\ IF revision[t.notice][t.revision] # "EDITABLE" THEN Refuse(w)
     ELSE Take(w, r, "allocations")

HeldOf(n, k) == {l \in Lines : l[1] = n /\ l[2] = k /\ allocation[l].status = "HELD"}

SubmitAllocations(w) ==
  LET t == txn[w]  L == HeldOf(t.notice, t.revision) IN
  /\ At(w, "submit", "allocations") /\ Unlocked(L)
  /\ notice' = [notice EXCEPT ![t.notice].status = "SUBMITTED"]
  /\ revision' = [revision EXCEPT ![t.notice][t.revision] = "SUBMITTED"]
  /\ allocation' = [l \in Lines |-> IF l \in L THEN [allocation[l] EXCEPT !.status = "ACTIVE"]
                                    ELSE allocation[l]]
  /\ End(w)
  /\ UNCHANGED <<line, batch>>

\* transition, asked for by the routes of the review.
Review(n, target) ==
  /\ Free(<<"notice", n>>)
  /\ notice[n].status \in DOMAIN ReviewTransitions
  /\ target \in ReviewTransitions[notice[n].status]
  /\ target = "READY_FOR_SCHEDULING" => ExpectedLines(n) # {}
  /\ notice' = [notice EXCEPT ![n].status = target]
  /\ UNCHANGED <<revision, line, allocation, lock, batch, txn>>

CreateRevision(w, n) ==
  /\ notice[n].status = "REQUIRES_CHANGES"
  /\ notice[n].current < MaxRevisions      \* the bound
  /\ OnNotice(w, "create_revision", n, "revision")

CreateRevisionOld(w) ==
  LET t == txn[w]  r == <<"revision", <<t.notice, t.revision>>>> IN
  /\ At(w, "create_revision", "revision") /\ Free(r)
  /\ Take(w, r, "allocations")

\* The line of the revision before.
Previous(l) == <<l[1], l[2] - 1, l[3]>>

\* Mutant: the allocations of the old revision are kept beside the new ones.
CloneLinesKeeping(n, k) ==
  LET Cloned(l) == l[1] = n /\ l[2] = k + 1 /\ line[Previous(l)].status = "EXPECTED" IN
  /\ line' = [l \in Lines |-> IF Cloned(l) THEN line[Previous(l)] ELSE line[l]]
  /\ allocation' = [l \in Lines |->
       IF Cloned(l) /\ IsActive(Previous(l))
       THEN [status |-> "HELD", quantity |-> line[Previous(l)].quantity]
       ELSE allocation[l]]

\* The expected lines are cloned; an active allocation is released and one of
\* the clone's quantity is held in its stead.  The order line is not locked.
CloneLines(n, k) ==
  LET Cloned(l) == l[1] = n /\ l[2] = k + 1 /\ line[Previous(l)].status = "EXPECTED" IN
  /\ line' = [l \in Lines |-> IF Cloned(l) THEN line[Previous(l)] ELSE line[l]]
  /\ allocation' = [l \in Lines |->
       IF Cloned(l) /\ IsActive(Previous(l))
       THEN [status |-> "HELD", quantity |-> line[Previous(l)].quantity]
       ELSE IF l[1] = n /\ l[2] = k /\ line[l].status = "EXPECTED" /\ IsActive(l)
            THEN [allocation[l] EXCEPT !.status = "RELEASED"]
            ELSE allocation[l]]

CreateRevisionAllocations(w) ==
  LET t == txn[w]  n == t.notice  k == t.revision IN
  /\ At(w, "create_revision", "allocations")
  /\ Unlocked({l \in ExpectedLines(n) : IsActive(l)})
  /\ notice' = [notice EXCEPT ![n].status = "DRAFT", ![n].current = k + 1]
  /\ revision' = [revision EXCEPT ![n][k] = "SUPERSEDED", ![n][k + 1] = "EDITABLE"]
  /\ CloneLines(n, k)
  /\ End(w)
  /\ UNCHANGED batch

\* The key of the event of a cancellation is unique: a second one of the same
\* notice fails, and is rolled back.
CancelNotice(w, n) ==
  /\ notice[n].status # "CANCELLED" /\ ~notice[n].announced
  /\ OnNotice(w, "cancel_notice", n, "allocations")

CancelNoticeAllocations(w) ==
  LET t == txn[w]  L == {l \in ActiveAllocations : l[1] = t.notice} IN
  /\ At(w, "cancel_notice", "allocations") /\ Unlocked(L)
  /\ notice' = [notice EXCEPT ![t.notice].status = "CANCELLED",
                              ![t.notice].announced = TRUE]
  /\ allocation' = [l \in Lines |-> IF l \in L THEN [allocation[l] EXCEPT !.status = "RELEASED"]
                                    ELSE allocation[l]]
  /\ End(w)
  /\ UNCHANGED <<revision, line, batch>>

-----------------------------------------------------------------------------
(* What the reception calendar does to the notice (see ReceptionCalendar);   *)
(* only create_hold tests its status.                                        *)

Book(n, from, to, status) ==
  /\ Free(<<"notice", n>>) /\ notice[n].booking \in from
  /\ notice' = [notice EXCEPT ![n].booking = to, ![n].status = status]
  /\ UNCHANGED <<revision, line, allocation, lock, batch, txn>>

PlaceHold(n) ==
  /\ notice[n].status = "READY_FOR_SCHEDULING"
  /\ Book(n, {"none"}, "hold", notice[n].status)

\* It expires or is cancelled, and the notice does not hear of it.
HoldEnds(n) ==
  /\ notice[n].booking = "hold"
  /\ notice' = [notice EXCEPT ![n].booking = "none"]
  /\ UNCHANGED <<revision, line, allocation, lock, batch, txn>>

CreateAppointment(n) == Book(n, {"hold"}, "proposed", "SCHEDULED")

CancelAppointment(n) == Book(n, {"proposed", "confirmed"}, "none", "READY_FOR_SCHEDULING")

Confirm(w, n) ==
  /\ notice[n].booking = "proposed"
  /\ OnNotice(w, "confirm", n, "revision")

ConfirmRevision(w) ==
  LET t == txn[w] IN
  /\ At(w, "confirm", "revision") /\ Free(<<"revision", <<t.notice, t.revision>>>>)
  /\ notice' = [notice EXCEPT ![t.notice].status = "CONFIRMED",
                              ![t.notice].booking = "confirmed"]
  /\ revision' = [revision EXCEPT ![t.notice][t.revision] = "CONFIRMED"]
  /\ End(w)
  /\ UNCHANGED <<line, allocation, batch>>

-----------------------------------------------------------------------------
(* reconcile_expected_quantity_allocations.  The notice and the line are     *)
(* read without a lock; whoever would change what the job asks of them waits *)
(* for the allocation, so one step reads them.                               *)

\* The job takes the oldest active allocations, the same ones every time as
\* long as they are active; those of one transaction are of one age, and come
\* in any order.
NextBatch(B) ==
  /\ Cardinality(B) <= BatchSize
  /\ Cardinality(B) < BatchSize => B = ActiveAllocations
  /\ \A l \in B, m \in ActiveAllocations \ B : CreatedAt[l] <= CreatedAt[m]

BeginReconcile ==
  /\ batch = {} /\ ActiveAllocations # {}
  /\ \E B \in SUBSET ActiveAllocations : NextBatch(B) /\ batch' = B
  /\ UNCHANGED <<notice, revision, line, allocation, lock, txn>>

\* Mutant: the job looks at the line only.
TargetByLine(l) ==
  IF line[l].status = "CANCELLED" THEN "RELEASED" ELSE allocation[l].status

Target(l) ==
  IF notice[l[1]].status = "CANCELLED" \/ line[l].status = "CANCELLED" THEN "RELEASED"
  ELSE IF allocation[l].status = "HELD" /\ notice[l[1]].status # "DRAFT" THEN "ACTIVE"
  ELSE allocation[l].status

Reconcile ==
  /\ batch # {}
  /\ allocation' = [l \in Lines |-> IF l \in batch THEN [allocation[l] EXCEPT !.status = Target(l)]
                                    ELSE allocation[l]]
  /\ batch' = {}
  /\ UNCHANGED <<notice, revision, line, lock, txn>>

JobCrashes ==
  /\ batch # {} /\ batch' = {}
  /\ UNCHANGED <<notice, revision, line, allocation, lock, txn>>

-----------------------------------------------------------------------------
(* Deadlocks and lost connections. *)

\* The row a transaction waits for; the job, which waits for nobody, holds
\* only allocations.
Wanted(w) ==
  CASE txn[w].pc = "notice"   -> <<"notice", txn[w].notice>>
    [] txn[w].pc = "revision" -> <<"revision", <<txn[w].notice, txn[w].revision>>>>
    [] txn[w].pc = "order"    -> <<"order", txn[w].order>>

Waiting == {w \in Workers : txn[w].pc \in {"notice", "revision", "order"}}

WaitsFor(w, v) == w \in Waiting /\ lock[Wanted(w)] = v

\* Sets of transactions each of which waits for another and is waited for.
Cyclic(C) ==
  /\ C # {}
  /\ \A w \in C : (\E v \in C : WaitsFor(w, v)) /\ (\E v \in C : WaitsFor(v, w))

\* The database rolls back one transaction of a cycle.
DeadlockVictim(w) ==
  /\ \E C \in SUBSET Workers : w \in C /\ Cyclic(C)
  /\ Refuse(w)

\* A worker dies or loses its connection, or its request is refused by a test
\* that is not modelled.
Crash(w) == txn[w] # Idle /\ Refuse(w)

-----------------------------------------------------------------------------
Serve(w) ==
  \/ \E n \in Notices, k \in Revisions, p \in OrderLines, q \in Quantities :
       EditLine(w, "add_line", n, k, p, q) \/ EditLine(w, "update_line", n, k, p, q)
  \/ \E n \in Notices, k \in Revisions, p \in OrderLines :
       EditLine(w, "cancel_line", n, k, p, None)
  \/ \E n \in Notices :
       Submit(w, n) \/ CreateRevision(w, n) \/ CancelNotice(w, n) \/ Confirm(w, n)

Advance(w) ==
  \/ EditLineNotice(w)
  \/ AddLine(w) \/ UpdateLineOrder(w) \/ UpdateLine(w) \/ CancelLine(w)
  \/ SubmitRevision(w) \/ SubmitAllocations(w)
  \/ CreateRevisionOld(w) \/ CreateRevisionAllocations(w)
  \/ CancelNoticeAllocations(w)
  \/ ConfirmRevision(w)
  \/ DeadlockVictim(w)

Next ==
  \/ \E w \in Workers : Serve(w) \/ Advance(w) \/ Crash(w)
  \/ \E n \in Notices, target \in NoticeStatuses : Review(n, target)
  \/ \E n \in Schedulable :
       PlaceHold(n) \/ HoldEnds(n) \/ CreateAppointment(n) \/ CancelAppointment(n)
  \/ BeginReconcile \/ Reconcile \/ JobCrashes

Spec == Init /\ [][Next]_vars

\* A lock queue serves the transactions that wait in turn, a request that has
\* its locks goes on, the database breaks cycles, and the job is run again and
\* again, also after it was lost.
Fairness ==
  /\ \A w \in Workers : SF_vars(Advance(w))
  /\ WF_vars(BeginReconcile) /\ SF_vars(Reconcile)

FairSpec == Spec /\ Fairness

-----------------------------------------------------------------------------
NoticeRow ==
  [status : NoticeStatuses, current : Revisions, announced : BOOLEAN, booking : Bookings]

LineRow(statuses) ==
  [status : statuses \cup {None}, quantity : Quantities \cup {0}]

Request ==
  [op : {"none", "add_line", "update_line", "cancel_line", "submit", "create_revision",
         "cancel_notice", "confirm"},
   pc : {"idle", "notice", "revision", "order", "allocation", "allocations"},
   notice : Notices \cup {None}, revision : Revisions \cup {None},
   order : OrderLines \cup {None}, quantity : Quantities \cup {None}]

TypeOK ==
  /\ notice \in [Notices -> NoticeRow]
  /\ revision \in [Notices -> [Revisions -> RevisionStatuses \cup {None}]]
  /\ line \in [Lines -> LineRow(LineStatuses)]
  /\ allocation \in [Lines -> LineRow(AllocationStatuses)]
  /\ lock \in [Rows -> Workers \cup {None}]
  /\ batch \in SUBSET Lines
  /\ txn \in [Workers -> Request]

\* Lines and allocations agree, through every edit, clone, submission and
\* cancellation, whatever the job does meanwhile: what is allocated belongs to
\* an expected line of the active revision and has its quantity, is HELD while
\* the revision is edited and ACTIVE once it is frozen; and a notice that was
\* never cancelled has its expected lines allocated
\* (arrival_notice_service.py:610, :903, :949, :1510).
AllocationsMatchLines ==
  /\ \A l \in ActiveAllocations :
       /\ line[l] = [status |-> "EXPECTED", quantity |-> allocation[l].quantity]
       /\ l[2] = notice[l[1]].current
       /\ allocation[l].status = "HELD" <=> revision[l[1]][l[2]] = "EDITABLE"
  /\ \A n \in Notices :
       ~notice[n].announced => ExpectedLines(n) \subseteq ActiveAllocations

\* The job never changes the allocations of a notice that is not cancelled:
\* what the handlers leave behind for it is only what was added to a notice
\* after its cancellation (jobs.py:486).
JobSparesLiveNotices ==
  [][Reconcile => \A l \in Lines :
       notice[l[1]].status # "CANCELLED" => allocation'[l] = allocation[l]]_vars

\* The active allocations that the job may take before l, and whether it takes
\* l all the same.
Before(l) == {m \in ActiveAllocations \ {l} : CreatedAt[m] <= CreatedAt[l]}

WithinReach(l) == Cardinality(Before(l)) < BatchSize

Overdue(l) == notice[l[1]].status = "CANCELLED" /\ IsActive(l)

\* Quantity allocated to a cancelled notice is given back (jobs.py:486), also
\* when lines are added after the cancellation, which the handlers allow; only
\* what the job does not reach stays, because its runs all begin with the oldest
\* active allocations (jobs.py:465).
CancelledLetsGo ==
  \A l \in Lines : Overdue(l) ~> (~IsActive(l) \/ []~WithinReach(l))

\* A request comes to its end, although line edits lock the revision before
\* the notice and the others the notice before the revision
\* (arrival_notice_service.py:107, :1501).
RequestEnds == \A w \in Workers : txn[w] # Idle ~> txn[w] = Idle

\* The notices that are to arrive expect no more of an order line than was
\* ordered.  A cancelled notice that the calendar brings back expects what it
\* no longer has allocated.
Arriving == {n \in Notices : notice[n].status \in {"SCHEDULED", "CONFIRMED"}}

ArrivingWithinOrder ==
  \A p \in OrderLines :
    Cardinality(UNION {{l} \X (1 .. line[l].quantity) :
      l \in {m \in UNION {ExpectedLines(n) : n \in Arriving} : m[3] = p}})
    <= Ordered[p]

\* "Cancelar libera la allocation": what a cancelled notice holds is given back,
\* whatever older allocations the job finds before it.
CancelledAlwaysLetsGo == \A l \in Lines : Overdue(l) ~> ~IsActive(l)

\* What the active allocations of an order line come to, over all notices and
\* revisions, is never more than was ordered, although an allocation is
\* exchanged for that of a new revision without locking the order line
\* (arrival_notice_service.py:617).
AllocatedWithinOrder ==
  \A p \in OrderLines :
    Cardinality(Units({l \in ActiveAllocations : l[3] = p})) <= Ordered[p]

-----------------------------------------------------------------------------
(* The allocations are a book of OrderedQuantity. *)

Announced(n, p) ==
  LET l == <<n, notice[n].current, p>> IN
  IF IsActive(l) THEN allocation[l].quantity ELSE 0

Pool == INSTANCE OrderedQuantity WITH
          announced <- [n \in Notices |-> [p \in OrderLines |-> Announced(n, p)]]

\* Adding and changing lines keeps the sum over all notices within the order,
\* although clones, cancellations and the job do not lock the order line.
ImplementsOrderedQuantity == Pool!Spec
=============================================================================
