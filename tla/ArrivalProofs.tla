--------------------------- MODULE ArrivalProofs ---------------------------
(***************************************************************************)
(* AllocationInv is an inductive invariant of ArrivalAllocations, and the  *)
(* allocations implement OrderedQuantity, for every number of notices,     *)
(* order lines, revisions and workers.                                     *)
(*                                                                         *)
(* A step changes what belongs to one notice, and its worker owns that     *)
(* notice or the notice is free.  So it is enough to show of each step     *)
(* that it keeps the order of the notice it works on.                      *)
(***************************************************************************)
EXTENDS ArrivalInvariant, FiniteSetTheorems, TLAPS

\* Nothing of notice n changes.
Untouched(n) ==
  /\ notice'[n] = notice[n] /\ revision'[n] = revision[n]
  /\ \A l \in Lines : l[1] = n => line'[l] = line[l] /\ allocation'[l] = allocation[l]

LEMMA RowMember ==
  /\ \A n \in Notices : <<"notice", n>> \in Rows
  /\ \A n \in Notices, k \in Revisions : <<"revision", <<n, k>>>> \in Rows
  /\ \A p \in OrderLines : <<"order", p>> \in Rows
  BY DEF Rows

LEMMA LineMember ==
  /\ \A l \in Lines : /\ l[1] \in Notices /\ l[2] \in Revisions /\ l[3] \in OrderLines
                      /\ l = <<l[1], l[2], l[3]>>
  /\ \A n \in Notices, k \in Revisions, p \in OrderLines : <<n, k, p>> \in Lines
  BY DEF Lines

LEMMA StatusesNotNone ==
  /\ \A s \in RevisionStatuses \cup LineStatuses \cup AllocationStatuses : s # None
  /\ None \notin {"EDITABLE", "SUBMITTED", "EXPECTED", "CANCELLED", "HELD", "ACTIVE", "RELEASED"}
  BY AllocationConstants DEF RevisionStatuses, LineStatuses, AllocationStatuses

LEMMA IdleRequest == Idle \in Request /\ Names(Idle)
  BY DEF Idle, Request, Names, LineOps, NoticeOps

LEMMA IdleRelies == \A w \in Workers : Relies(w, Idle)
  BY DEF Idle, Relies, OwnsNotice, LineOps, NoticeOps

LEMMA Typed ==
  ASSUME AllocationInv
  PROVE  /\ \A n \in Notices : /\ notice[n] \in NoticeRow
                               /\ notice[n].current \in Revisions
                               /\ notice[n].status \in NoticeStatuses
                               /\ revision[n] \in [Revisions -> RevisionStatuses \cup {None}]
         /\ \A l \in Lines : /\ line[l] \in LineRow(LineStatuses)
                             /\ allocation[l] \in LineRow(AllocationStatuses)
         /\ \A w \in Workers : txn[w] \in Request
  BY DEF AllocationInv, TypeOK, NoticeRow

-----------------------------------------------------------------------------
(* What a step leaves alone. *)

LEMMA UntouchedKept ==
  ASSUME NEW n \in Notices, RevisionsInOrder(n), LinesMatch(n), Untouched(n)
  PROVE  RevisionsInOrder(n)' /\ LinesMatch(n)'
<1>1. RevisionsInOrder(n)'
  BY DEF RevisionsInOrder, Untouched
<1>2. \A l \in Lines : l[1] = n => (IsActive(l)' <=> IsActive(l))
  BY DEF Untouched, IsActive
<1>3. ExpectedLines(n)' = ExpectedLines(n)
  BY DEF ExpectedLines, Untouched
<1>4. \A l \in ExpectedLines(n) : l \in Lines /\ l[1] = n
  BY DEF ExpectedLines
<1> QED
  BY <1>1, <1>2, <1>3, <1>4 DEF LinesMatch, Untouched, ActiveAllocations

LEMMA OneNotice ==
  ASSUME AllocationInv, NEW n \in Notices, RevisionsInOrder(n)' /\ LinesMatch(n)',
         \A m \in Notices \ {n} : Untouched(m)
  PROVE  NoticesInOrder'
  BY UntouchedKept DEF AllocationInv, NoticesInOrder

\* What the requests that own n rely on.
Stays(n) ==
  /\ revision'[n] = revision[n]
  /\ notice'[n].status = notice[n].status /\ notice'[n].current = notice[n].current
  /\ notice[n].booking = "proposed" => notice'[n].booking = "proposed"

LEMMA ReliesKept ==
  ASSUME NEW v \in Workers, NEW t \in Request, Names(t), Relies(v, t),
         OwnsNotice(t) => /\ lock'[<<"notice", t.notice>>] = lock[<<"notice", t.notice>>]
                          /\ Stays(t.notice)
  PROVE  Relies(v, t)'
<1>1. OwnsNotice(t)' <=> OwnsNotice(t)
  BY DEF OwnsNotice
<1> QED
  BY <1>1 DEF Relies, Found, Stays

LEMMA EqualRelies ==
  ASSUME NEW v, NEW t, t = txn'[v], Names(t), Relies(v, t)'
  PROVE  Names(txn[v])' /\ Relies(v, txn[v])'
  BY DEF Names, Relies, Found, OwnsNotice

\* The workers of V go on if their requests, locks and notices are left to them.
LEMMA RequestsKept ==
  ASSUME AllocationInv, NEW V \in SUBSET Workers,
         \A v \in V : txn'[v] = txn[v],
         \A n \in Notices : lock[<<"notice", n>>] \in V =>
           lock'[<<"notice", n>>] = lock[<<"notice", n>>] /\ Stays(n)
  PROVE  \A v \in V : Names(txn[v])' /\ Relies(v, txn[v])'
<1> SUFFICES ASSUME NEW v \in V
             PROVE  Names(txn[v])' /\ Relies(v, txn[v])'
  OBVIOUS
<1>1. PICK u \in Request : u = txn[v]
  BY Typed
<1>2. Names(u) /\ Relies(v, u)
  BY <1>1 DEF AllocationInv, RequestsRely, Names, Relies, OwnsNotice, Found
<1>3. u = txn'[v]
  BY <1>1
<1>4. ASSUME OwnsNotice(u)
      PROVE  /\ lock'[<<"notice", u.notice>>] = lock[<<"notice", u.notice>>]
             /\ Stays(u.notice)
  <2>1. u.notice \in Notices /\ lock[<<"notice", u.notice>>] = v
    BY <1>2, <1>4 DEF Names, Relies, OwnsNotice, LineOps, NoticeOps
  <2> QED
    BY <2>1
<1>5. Relies(v, u)'
  BY <1>2, <1>4, ReliesKept
<1> QED
  BY <1>2, <1>3, <1>5, EqualRelies

\* A step of worker w, which changes no notice that another worker owns.
LEMMA WorkerStep ==
  ASSUME AllocationInv, TypeOK', NoticesInOrder', BatchActive', NEW w \in Workers,
         NEW t \in Request, txn' = [txn EXCEPT ![w] = t], Names(t), Relies(w, t)',
         \A r \in Rows : lock[r] \in Workers \ {w} => lock'[r] = lock[r],
         \A n \in Notices : lock[<<"notice", n>>] \in Workers \ {w} => Stays(n)
  PROVE  AllocationInv'
<1>1. t = txn'[w] /\ \A v \in Workers \ {w} : txn'[v] = txn[v]
  BY DEF AllocationInv, TypeOK
<1>2. Names(txn[w])' /\ Relies(w, txn[w])'
  BY <1>1, EqualRelies
<1>3. \A v \in Workers \ {w} : Names(txn[v])' /\ Relies(v, txn[v])'
  BY <1>1, RowMember, RequestsKept
<1> QED
  BY <1>2, <1>3 DEF AllocationInv, RequestsRely

\* A step of the job, the calendar or the reviewer.
LEMMA ServerStep ==
  ASSUME AllocationInv, TypeOK', NoticesInOrder', BatchActive', UNCHANGED <<lock, txn>>,
         \A n \in Notices : lock[<<"notice", n>>] # None => Stays(n)
  PROVE  AllocationInv'
<1>1. \A v \in Workers : Names(txn[v])' /\ Relies(v, txn[v])'
  BY AllocationConstants, RequestsKept
<1> QED
  BY <1>1 DEF AllocationInv, RequestsRely

-----------------------------------------------------------------------------
(* Steps of a request that lock rows and write nothing. *)

LEMMA QuietStep ==
  ASSUME AllocationInv, NEW w \in Workers, NEW t \in Request,
         txn' = [txn EXCEPT ![w] = t], Names(t), Relies(w, t)',
         UNCHANGED <<notice, revision, line, allocation, batch>>,
         lock' \in [Rows -> Workers \cup {None}],
         \A r \in Rows : lock[r] \in Workers \ {w} => lock'[r] = lock[r]
  PROVE  AllocationInv'
<1>1. TypeOK'
  BY DEF AllocationInv, TypeOK
<1>2. \A n \in Notices : Untouched(n) /\ Stays(n)
  BY DEF Untouched, Stays
<1>3. NoticesInOrder'
  BY <1>2, UntouchedKept DEF AllocationInv, NoticesInOrder
<1>4. BatchActive'
  BY DEF AllocationInv, BatchActive, ActiveAllocations, IsActive
<1> QED
  BY <1>1, <1>2, <1>3, <1>4, WorkerStep

LEMMA EndLocks ==
  ASSUME AllocationInv, NEW w \in Workers, End(w)
  PROVE  /\ lock' \in [Rows -> Workers \cup {None}]
         /\ \A r \in Rows : lock[r] \in Workers \ {w} => lock'[r] = lock[r]
         /\ txn' = [txn EXCEPT ![w] = Idle] /\ txn' \in [Workers -> Request]
  BY IdleRequest DEF End, AllocationInv, TypeOK

LEMMA RefuseStep ==
  ASSUME AllocationInv, NEW w \in Workers, Refuse(w)
  PROVE  AllocationInv'
<1>1. Relies(w, Idle)'
  BY DEF Idle, Relies, OwnsNotice, LineOps, NoticeOps
<1> QED
  BY <1>1, EndLocks, IdleRequest, QuietStep DEF Refuse

LEMMA TakeLocks ==
  ASSUME AllocationInv, NEW w \in Workers, NEW r \in Rows, Free(r),
         lock' = [lock EXCEPT ![r] = w]
  PROVE  /\ lock' \in [Rows -> Workers \cup {None}] /\ lock'[r] = w
         /\ \A q \in Rows : lock[q] \in Workers => lock'[q] = lock[q]
  BY AllocationConstants DEF AllocationInv, TypeOK, Free

\* A lock that is not on a notice leaves the request what it relied on.
LEMMA TakeStep ==
  ASSUME AllocationInv, NEW w \in Workers, NEW r \in Rows, Free(r), NEW pc,
         Take(w, r, pc), NEW t \in Request, t = [txn[w] EXCEPT !.pc = pc], Names(t),
         Relies(w, t)'
  PROVE  AllocationInv'
<1>1. txn' = [txn EXCEPT ![w] = t]
  BY DEF Take
<1> QED
  BY <1>1, TakeLocks, QuietStep DEF Take

LEMMA StartStep ==
  ASSUME AllocationInv, NEW w \in Workers, NEW r \in Rows, NEW t \in Request,
         Start(w, r, t), Names(t), Relies(w, t)'
  PROVE  AllocationInv'
  BY TakeLocks, QuietStep DEF Start

LEMMA EditLineStep ==
  ASSUME AllocationInv, NEW w \in Workers, NEW op \in LineOps, NEW n \in Notices,
         NEW k \in Revisions, NEW p \in OrderLines, NEW q \in Quantities \cup {None},
         op # "cancel_line" => q \in Quantities,
         EditLine(w, op, n, k, p, q)
  PROVE  AllocationInv'
<1> DEFINE t == [op |-> op, pc |-> "notice", notice |-> n, revision |-> k,
                 order |-> p, quantity |-> q]
<1>1. /\ t \in Request /\ t.op = op /\ t.pc = "notice" /\ t.notice = n /\ t.revision = k
      /\ t.order = p /\ t.quantity = q
  BY DEF Request, LineOps
<1>2. Start(w, <<"revision", <<n, k>>>>, t)
  BY DEF EditLine
<1> HIDE DEF t
<1>3. Names(t)
  BY <1>1 DEF Names, LineOps, NoticeOps
<1>4. Relies(w, t)'
  BY <1>1 DEF Relies, OwnsNotice, LineOps, NoticeOps
<1> QED
  BY <1>1, <1>2, <1>3, <1>4, RowMember, StartStep

LEMMA OnNoticeStep ==
  ASSUME AllocationInv, NEW w \in Workers, NEW op \in NoticeOps, NEW n \in Notices,
         NEW pc \in {"revision", "allocations"}, OnNotice(w, op, n, pc),
         op = "submit" => pc = "revision",
         op = "create_revision" =>
           notice[n].status = "REQUIRES_CHANGES" /\ notice[n].current < MaxRevisions,
         op = "confirm" => notice[n].booking = "proposed"
  PROVE  AllocationInv'
<1>1. PICK k \in Revisions : k = notice[n].current
  BY Typed
<1> DEFINE t == [Idle EXCEPT !.op = op, !.pc = pc, !.notice = n, !.revision = k]
<1>2. t \in Request /\ t.op = op /\ t.pc = pc /\ t.notice = n /\ t.revision = k
  BY DEF Idle, Request, NoticeOps
<1>3. Start(w, <<"notice", n>>, t)
  BY <1>1 DEF OnNotice
<1> HIDE DEF t
<1>4. Names(t)
  BY <1>2 DEF Names, LineOps, NoticeOps
<1>5. lock'[<<"notice", n>>] = w /\ notice' = notice
  BY <1>3, RowMember, TakeLocks DEF Start
<1>6. Relies(w, t)'
  BY <1>1, <1>2, <1>5 DEF Relies, Found, OwnsNotice, LineOps, NoticeOps
<1> QED
  BY <1>2, <1>3, <1>4, <1>6, RowMember, StartStep

LEMMA ServeStep ==
  ASSUME AllocationInv, NEW w \in Workers, Serve(w)
  PROVE  AllocationInv'
<1>1. ASSUME NEW n \in Notices, NEW k \in Revisions, NEW p \in OrderLines,
             NEW q \in Quantities,
             EditLine(w, "add_line", n, k, p, q) \/ EditLine(w, "update_line", n, k, p, q)
      PROVE  AllocationInv'
  <2>1. {"add_line", "update_line"} \subseteq LineOps /\ q \in Quantities \cup {None}
    BY DEF LineOps
  <2> QED
    BY <1>1, <2>1, EditLineStep
<1>2. ASSUME NEW n \in Notices, NEW k \in Revisions, NEW p \in OrderLines,
             EditLine(w, "cancel_line", n, k, p, None)
      PROVE  AllocationInv'
  <2>1. "cancel_line" \in LineOps /\ None \in Quantities \cup {None}
    BY DEF LineOps
  <2> QED
    BY <1>2, <2>1, EditLineStep
<1>3. ASSUME NEW n \in Notices, Submit(w, n)
      PROVE  AllocationInv'
  BY <1>3, OnNoticeStep DEF Submit, NoticeOps
<1>4. ASSUME NEW n \in Notices, CreateRevision(w, n)
      PROVE  AllocationInv'
  BY <1>4, OnNoticeStep DEF CreateRevision, NoticeOps
<1>5. ASSUME NEW n \in Notices, CancelNotice(w, n)
      PROVE  AllocationInv'
  BY <1>5, OnNoticeStep DEF CancelNotice, NoticeOps
<1>6. ASSUME NEW n \in Notices, Confirm(w, n)
      PROVE  AllocationInv'
  BY <1>6, OnNoticeStep DEF Confirm, NoticeOps
<1> QED
  BY <1>1, <1>2, <1>3, <1>4, <1>5, <1>6 DEF Serve

\* What is known of a request that has come to a step.
LEMMA AtStep ==
  ASSUME AllocationInv, NEW w \in Workers
  PROVE  txn[w] \in Request /\ Names(txn[w]) /\ Relies(w, txn[w])
  BY Typed DEF AllocationInv, RequestsRely

LEMMA EditLineNoticeStep ==
  ASSUME AllocationInv, NEW w \in Workers, EditLineNotice(w)
  PROVE  AllocationInv'
<1>1. PICK t \in Request : t = txn[w]
  BY AtStep
<1>2. /\ Names(t) /\ t.op \in LineOps /\ t.pc = "notice"
      /\ t.notice \in Notices /\ t.revision \in Revisions
      /\ Free(<<"notice", t.notice>>)
  BY <1>1, AtStep DEF EditLineNotice, Names, LineOps
<1>3. CASE Refuse(w)
  BY <1>3, RefuseStep
<1>4. CASE /\ revision[t.notice][t.revision] = "EDITABLE"
           /\ Take(w, <<"notice", t.notice>>,
                   IF t.op = "cancel_line" THEN "allocation" ELSE "order")
  <2>1. PICK pc \in {"allocation", "order"} :
          pc = IF t.op = "cancel_line" THEN "allocation" ELSE "order"
    OBVIOUS
  <2> DEFINE u == [t EXCEPT !.pc = pc]
  <2>2. /\ u \in Request /\ u.op = t.op /\ u.pc = pc /\ u.notice = t.notice
        /\ u.revision = t.revision /\ u.order = t.order /\ u.quantity = t.quantity
    BY DEF Request
  <2>3. u = [txn[w] EXCEPT !.pc = pc]
    BY <1>1
  <2> HIDE DEF u
  <2>4. Names(u)
    BY <1>2, <2>2 DEF Names, LineOps, NoticeOps
  <2>5. lock'[<<"notice", t.notice>>] = w /\ revision' = revision
    BY <1>2, <1>4, RowMember, TakeLocks DEF Take
  <2>6. Relies(w, u)'
    BY <1>2, <1>4, <2>2, <2>5 DEF Relies, Found, LineOps, NoticeOps
  <2> QED
    BY <1>2, <1>4, <2>1, <2>2, <2>3, <2>4, <2>6, RowMember, TakeStep
<1> QED
  BY <1>1, <1>3, <1>4 DEF EditLineNotice

\* A further lock of a request that owns its notice.
LEMMA FurtherLock ==
  ASSUME AllocationInv, NEW w \in Workers, NEW r \in Rows, Free(r),
         NEW pc \in {"allocation", "allocations"}, Take(w, r, pc),
         OwnsNotice(txn[w]), txn[w].op \in LineOps <=> pc = "allocation",
         txn[w].op = "submit" =>
           revision[txn[w].notice][txn[w].revision] = "EDITABLE"
  PROVE  AllocationInv'
<1>1. PICK t \in Request : t = txn[w]
  BY AtStep
<1> DEFINE u == [t EXCEPT !.pc = pc]
<1>2. /\ u \in Request /\ u.op = t.op /\ u.pc = pc /\ u.notice = t.notice
      /\ u.revision = t.revision /\ u.order = t.order /\ u.quantity = t.quantity
  BY DEF Request
<1>3. u = [txn[w] EXCEPT !.pc = pc]
  BY <1>1
<1> HIDE DEF u
<1>4. Names(t) /\ OwnsNotice(t) /\ t.notice \in Notices
      /\ lock[<<"notice", t.notice>>] = w /\ Found(t)
  BY <1>1, AtStep DEF Names, Relies, OwnsNotice, LineOps, NoticeOps
<1>5. Names(u)
  BY <1>1, <1>2, <1>4 DEF Names, OwnsNotice, LineOps, NoticeOps
<1>6. lock'[<<"notice", t.notice>>] = w /\ revision' = revision /\ notice' = notice
  BY <1>4, RowMember, TakeLocks DEF Take
<1>7. Relies(w, u)'
  BY <1>1, <1>2, <1>4, <1>6 DEF Relies, Found
<1> QED
  BY <1>2, <1>3, <1>5, <1>7, TakeStep

LEMMA FurtherLocksStep ==
  ASSUME AllocationInv, NEW w \in Workers,
         UpdateLineOrder(w) \/ SubmitRevision(w) \/ CreateRevisionOld(w)
  PROVE  AllocationInv'
<1>1. PICK t \in Request : t = txn[w]
  BY AtStep
<1>2. Names(t)
  BY <1>1, AtStep
<1>3. CASE UpdateLineOrder(w)
  <2>1. t.op = "update_line" /\ t.order \in OrderLines /\ t.pc = "order"
    BY <1>1, <1>2, <1>3 DEF UpdateLineOrder, At, Names, LineOps
  <2>2. OwnsNotice(txn[w])
    BY <1>1, <2>1 DEF OwnsNotice, LineOps
  <2> QED
    BY <1>1, <1>3, <2>1, <2>2, RowMember, FurtherLock DEF UpdateLineOrder, LineOps
<1>4. CASE SubmitRevision(w)
  <2>1. t.op = "submit" /\ t.notice \in Notices /\ t.revision \in Revisions
    BY <1>1, <1>2, <1>4 DEF SubmitRevision, At, Names
  <2>2. OwnsNotice(txn[w]) /\ txn[w].op \notin LineOps
    BY <1>1, <2>1 DEF OwnsNotice, LineOps, NoticeOps
  <2> QED
    BY <1>1, <1>4, <2>1, <2>2, RowMember, FurtherLock, RefuseStep DEF SubmitRevision
<1>5. CASE CreateRevisionOld(w)
  <2>1. t.op = "create_revision" /\ t.notice \in Notices /\ t.revision \in Revisions
    BY <1>1, <1>2, <1>5 DEF CreateRevisionOld, At, Names
  <2>2. OwnsNotice(txn[w]) /\ txn[w].op \notin LineOps
    BY <1>1, <2>1 DEF OwnsNotice, LineOps, NoticeOps
  <2> QED
    BY <1>1, <1>5, <2>1, <2>2, RowMember, FurtherLock DEF CreateRevisionOld
<1> QED
  BY <1>3, <1>4, <1>5

-----------------------------------------------------------------------------
(* Steps that write lines, allocations or the notice, and end the request. *)

LEMMA Owner ==
  ASSUME AllocationInv, NEW w \in Workers, NEW t \in Request, t = txn[w], OwnsNotice(t)
  PROVE  /\ t.notice \in Notices /\ t.revision \in Revisions
         /\ lock[<<"notice", t.notice>>] = w /\ Names(t) /\ Found(t)
         /\ RevisionsInOrder(t.notice) /\ LinesMatch(t.notice)
<1>1. Names(t) /\ lock[<<"notice", t.notice>>] = w /\ Found(t)
  BY AtStep DEF Relies
<1>2. t.notice \in Notices /\ t.revision \in Revisions
  BY <1>1 DEF Names, OwnsNotice, LineOps, NoticeOps
<1> QED
  BY <1>1, <1>2 DEF AllocationInv, NoticesInOrder

LEMMA CommitStep ==
  ASSUME AllocationInv, NEW w \in Workers, End(w),
         NEW n \in Notices, lock[<<"notice", n>>] = w,
         notice' \in [Notices -> NoticeRow],
         revision' \in [Notices -> [Revisions -> RevisionStatuses \cup {None}]],
         line' \in [Lines -> LineRow(LineStatuses)],
         allocation' \in [Lines -> LineRow(AllocationStatuses)],
         batch' = batch, \A l \in batch : IsActive(l)',
         \A m \in Notices \ {n} : Untouched(m),
         RevisionsInOrder(n)' /\ LinesMatch(n)'
  PROVE  AllocationInv'
<1>1. TypeOK'
  BY EndLocks DEF AllocationInv, TypeOK
<1>2. BatchActive'
  BY DEF AllocationInv, TypeOK, BatchActive, ActiveAllocations
<1>3. NoticesInOrder'
  BY OneNotice
<1>4. \A m \in Notices : lock[<<"notice", m>>] \in Workers \ {w} => Stays(m)
  BY DEF Untouched, Stays
<1>5. Relies(w, Idle)'
  BY DEF Idle, Relies, OwnsNotice, LineOps, NoticeOps
<1> QED
  BY <1>1, <1>2, <1>3, <1>4, <1>5, EndLocks, IdleRequest, WorkerStep

LEMMA RowType ==
  \A S : \A s \in S, q \in Quantities \cup {0} : [status |-> s, quantity |-> q] \in LineRow(S)
  BY DEF LineRow

\* A line is edited in the active revision, and nothing is booked by then.
LEMMA Editing ==
  ASSUME AllocationInv, NEW w \in Workers, NEW t \in Request, t = txn[w],
         t.op \in LineOps, t.pc # "notice"
  PROVE  /\ t.notice \in Notices /\ t.revision \in Revisions /\ t.order \in OrderLines
         /\ LineOf(t) \in Lines /\ LineOf(t) = <<t.notice, t.revision, t.order>>
         /\ lock[<<"notice", t.notice>>] = w
         /\ revision[t.notice][t.revision] = "EDITABLE"
         /\ t.revision = notice[t.notice].current
         /\ RevisionsInOrder(t.notice) /\ LinesMatch(t.notice)
         /\ t.op # "cancel_line" => t.quantity \in Quantities
<1>1. OwnsNotice(t)
  BY DEF OwnsNotice
<1>2. /\ t.notice \in Notices /\ t.revision \in Revisions
      /\ lock[<<"notice", t.notice>>] = w /\ Names(t) /\ Found(t)
      /\ RevisionsInOrder(t.notice) /\ LinesMatch(t.notice)
  BY <1>1, Owner
<1>3. t.order \in OrderLines /\ (t.op # "cancel_line" => t.quantity \in Quantities)
  BY <1>2 DEF Names, LineOps
<1>4. revision[t.notice][t.revision] = "EDITABLE"
  BY <1>2 DEF Found
<1>5. t.revision = notice[t.notice].current
  BY <1>2, <1>4 DEF RevisionsInOrder
<1>6. LineOf(t) \in Lines /\ LineOf(t) = <<t.notice, t.revision, t.order>>
  BY <1>2, <1>3, LineMember DEF LineOf
<1> QED
  BY <1>2, <1>3, <1>4, <1>5, <1>6

\* The step changes line l of notice n and its allocation, nothing else.
LEMMA LineStep ==
  ASSUME AllocationInv, NEW w \in Workers, End(w), NEW l \in Lines,
         lock[<<"notice", l[1]>>] = w, revision[l[1]][l[2]] = "EDITABLE",
         NEW x \in LineRow(LineStatuses), NEW a \in LineRow(AllocationStatuses),
         line' = [line EXCEPT ![l] = x], allocation' = [allocation EXCEPT ![l] = a],
         UNCHANGED <<notice, revision, batch>>,
         l \in batch => a.status \in ActiveAllocationStatuses,
         a.status \in ActiveAllocationStatuses =>
           a.status = "HELD" /\ x.status = "EXPECTED" /\ x.quantity = a.quantity,
         x.status = "EXPECTED" /\ a.status \notin ActiveAllocationStatuses =>
           line[l].status = "EXPECTED" /\ ~IsActive(l)
  PROVE  AllocationInv'
<1> DEFINE n == l[1]
<1>1. n \in Notices /\ l[2] \in Revisions
  BY LineMember
<1>2. RevisionsInOrder(n) /\ LinesMatch(n)
  BY <1>1 DEF AllocationInv, NoticesInOrder
<1>3. l[2] = notice[n].current
  BY <1>1, <1>2 DEF RevisionsInOrder
<1>4. line'[l] = x /\ allocation'[l] = a
  BY DEF AllocationInv, TypeOK
<1>5. \A m \in Lines \ {l} : line'[m] = line[m] /\ allocation'[m] = allocation[m]
  BY DEF AllocationInv, TypeOK
<1>6. /\ line' \in [Lines -> LineRow(LineStatuses)]
      /\ allocation' \in [Lines -> LineRow(AllocationStatuses)]
  BY DEF AllocationInv, TypeOK
<1>7. \A m \in Notices \ {n} : Untouched(m)
  BY <1>5 DEF Untouched
<1>8. \A m \in batch : IsActive(m)'
  BY <1>4, <1>5 DEF IsActive, AllocationInv, BatchActive, ActiveAllocations
<1>9. RevisionsInOrder(n)'
  <2>1. notice[n].current \in Nat
    BY <1>1, Typed DEF Revisions
  <2> QED
    BY <1>2, <1>3, <1>5, <2>1 DEF RevisionsInOrder
<1>10. LinesMatch(n)'
  <2>1. ASSUME NEW m \in Lines, m[1] = n, IsActive(m)'
        PROVE  /\ line'[m].status = "EXPECTED" /\ line'[m].quantity = allocation'[m].quantity
               /\ m[2] = notice[n].current
               /\ allocation'[m].status = "HELD" <=> revision[n][notice[n].current] = "EDITABLE"
    BY <1>2, <1>3, <1>4, <1>5, <2>1 DEF LinesMatch, IsActive
  <2>2. ASSUME ~notice[n].announced, NEW m \in ExpectedLines(n)'
        PROVE  IsActive(m)'
    <3>1. m \in Lines /\ m[1] = n /\ m[2] = notice[n].current /\ line'[m].status = "EXPECTED"
      BY <2>2 DEF ExpectedLines
    <3>2. CASE m # l
      BY <1>2, <1>5, <2>2, <3>1, <3>2 DEF LinesMatch, ExpectedLines, ActiveAllocations, IsActive
    <3>3. CASE m = l
      <4>1. SUFFICES ASSUME a.status \notin ActiveAllocationStatuses
                     PROVE  FALSE
        BY <1>4, <3>3 DEF IsActive
      <4>2. line[l].status = "EXPECTED" /\ ~IsActive(l)
        BY <1>4, <3>1, <3>3, <4>1
      <4> QED
        BY <1>2, <1>3, <2>2, <4>2 DEF LinesMatch, ExpectedLines, ActiveAllocations
    <3> QED
      BY <3>2, <3>3
  <2>3. ExpectedLines(n)' \subseteq Lines
    BY DEF ExpectedLines
  <2> QED
    BY <2>1, <2>2, <2>3 DEF LinesMatch, ActiveAllocations
<1> QED
  BY <1>1, <1>6, <1>7, <1>8, <1>9, <1>10, CommitStep DEF AllocationInv, TypeOK

LEMMA AddLineStep ==
  ASSUME AllocationInv, NEW w \in Workers, AddLine(w)
  PROVE  AllocationInv'
<1>1. PICK t \in Request : t = txn[w]
  BY AtStep
<1>2. t.op = "add_line" /\ t.pc = "order"
  BY <1>1 DEF AddLine, At
<1>3. CASE Refuse(w)
  BY <1>3, RefuseStep
<1>4. CASE ~Refuse(w)
  <2>1. PICK l \in Lines : l = LineOf(t)
    BY <1>1, <1>2, Editing DEF LineOps
  <2> l[1] = t.notice /\ l[2] = t.revision
    BY <2>1 DEF LineOf
  <2>2. /\ t.quantity \in Quantities
        /\ lock[<<"notice", l[1]>>] = w /\ revision[l[1]][l[2]] = "EDITABLE"
    BY <1>1, <1>2, Editing DEF LineOps
  <2>3. PICK x \in LineRow(LineStatuses) : x = [status |-> "EXPECTED", quantity |-> t.quantity]
    BY <2>2, RowType DEF LineRow, LineStatuses
  <2>4. PICK a \in LineRow(AllocationStatuses) : a = [status |-> "HELD", quantity |-> t.quantity]
    BY <2>2, RowType DEF LineRow, AllocationStatuses
  <2>5. /\ line' = [line EXCEPT ![l] = x] /\ allocation' = [allocation EXCEPT ![l] = a]
        /\ End(w) /\ UNCHANGED <<notice, revision, batch>>
    BY <1>1, <1>4, <2>1, <2>3, <2>4 DEF AddLine
  <2>6. /\ x.status = "EXPECTED" /\ x.quantity = a.quantity
        /\ a.status = "HELD" /\ a.status \in ActiveAllocationStatuses
    BY <2>3, <2>4 DEF ActiveAllocationStatuses
  <2> QED
    BY <2>2, <2>5, <2>6, LineStep
<1> QED
  BY <1>3, <1>4

LEMMA UpdateLineStep ==
  ASSUME AllocationInv, NEW w \in Workers, UpdateLine(w)
  PROVE  AllocationInv'
<1>1. PICK t \in Request : t = txn[w]
  BY AtStep
<1>2. t.op = "update_line" /\ t.pc = "allocation"
  BY <1>1 DEF UpdateLine, At
<1>3. CASE Refuse(w)
  BY <1>3, RefuseStep
<1>4. CASE ~Refuse(w)
  <2>1. PICK l \in Lines : l = LineOf(t)
    BY <1>1, <1>2, Editing DEF LineOps
  <2> l[1] = t.notice /\ l[2] = t.revision
    BY <2>1 DEF LineOf
  <2>2. /\ t.quantity \in Quantities
        /\ lock[<<"notice", l[1]>>] = w /\ revision[l[1]][l[2]] = "EDITABLE"
        /\ l[2] = notice[l[1]].current /\ LinesMatch(l[1])
    BY <1>1, <1>2, Editing DEF LineOps
  <2>3. PICK q \in Quantities : q = t.quantity
    BY <2>2
  <2>4. line[l] \in LineRow(LineStatuses) /\ allocation[l] \in LineRow(AllocationStatuses)
    BY Typed
  <2>5. PICK x : x = [line[l] EXCEPT !.quantity = q]
    OBVIOUS
  <2>6. x \in LineRow(LineStatuses) /\ x.status = line[l].status /\ x.quantity = q
    BY <2>4, <2>5 DEF LineRow
  <2>7. PICK a : a = [allocation[l] EXCEPT !.quantity = q]
    OBVIOUS
  <2>8. a \in LineRow(AllocationStatuses) /\ a.status = allocation[l].status /\ a.quantity = q
    BY <2>4, <2>7 DEF LineRow
  <2>9. /\ line' = [line EXCEPT ![l] = x] /\ allocation' = [allocation EXCEPT ![l] = a]
        /\ End(w) /\ UNCHANGED <<notice, revision, batch>> /\ l \notin batch
    BY <1>1, <1>4, <2>1, <2>3, <2>5, <2>7 DEF UpdateLine, Unlocked
  <2>10. a.status \in ActiveAllocationStatuses => a.status = "HELD" /\ x.status = "EXPECTED"
    BY <2>2, <2>6, <2>8 DEF LinesMatch, IsActive
  <2> QED
    BY <2>2, <2>6, <2>8, <2>9, <2>10, LineStep DEF IsActive
<1> QED
  BY <1>3, <1>4

LEMMA CancelLineStep ==
  ASSUME AllocationInv, NEW w \in Workers, CancelLine(w)
  PROVE  AllocationInv'
<1>1. PICK t \in Request : t = txn[w]
  BY AtStep
<1>2. t.op = "cancel_line" /\ t.pc = "allocation"
  BY <1>1 DEF CancelLine, At
<1>3. PICK l \in Lines : l = LineOf(t)
  BY <1>1, <1>2, Editing DEF LineOps
<1> l[1] = t.notice /\ l[2] = t.revision
  BY <1>3 DEF LineOf
<1>4. lock[<<"notice", l[1]>>] = w /\ revision[l[1]][l[2]] = "EDITABLE"
  BY <1>1, <1>2, Editing DEF LineOps
<1>5. line[l] \in LineRow(LineStatuses) /\ allocation[l] \in LineRow(AllocationStatuses)
  BY Typed
<1>6. PICK x : x = [line[l] EXCEPT !.status = "CANCELLED"]
  OBVIOUS
<1>7. x \in LineRow(LineStatuses) /\ x.status = "CANCELLED"
  BY <1>5, <1>6 DEF LineRow, LineStatuses
<1>8. PICK a : a = IF IsActive(l) THEN [allocation[l] EXCEPT !.status = "RELEASED"]
                   ELSE allocation[l]
  OBVIOUS
<1>9. a \in LineRow(AllocationStatuses) /\ a.status \notin ActiveAllocationStatuses
  BY <1>5, <1>8 DEF LineRow, AllocationStatuses, IsActive, ActiveAllocationStatuses
<1>10. End(w) /\ UNCHANGED <<notice, revision, batch>> /\ l \notin batch
       /\ line' = [line EXCEPT ![l] = x]
  BY <1>1, <1>3, <1>6 DEF CancelLine, Unlocked
<1>11. allocation' = [allocation EXCEPT ![l] = a]
  <2>1. allocation = [allocation EXCEPT ![l] = allocation[l]]
    BY DEF AllocationInv, TypeOK
  <2> QED
    BY <1>1, <1>3, <1>8, <2>1 DEF CancelLine
<1> QED
  BY <1>4, <1>7, <1>9, <1>10, <1>11, LineStep

-----------------------------------------------------------------------------
LEMMA SubmitAllocationsStep ==
  ASSUME AllocationInv, NEW w \in Workers, SubmitAllocations(w)
  PROVE  AllocationInv'
<1>1. PICK t \in Request : t = txn[w]
  BY AtStep
<1>2. t.op = "submit" /\ t.pc = "allocations" /\ OwnsNotice(t)
  BY <1>1 DEF SubmitAllocations, At, OwnsNotice, NoticeOps
<1>3. PICK n \in Notices, k \in Revisions : n = t.notice /\ k = t.revision
  BY <1>1, <1>2, Owner
<1>4. /\ lock[<<"notice", n>>] = w /\ k = notice[n].current /\ revision[n][k] = "EDITABLE"
      /\ RevisionsInOrder(n) /\ LinesMatch(n)
  BY <1>1, <1>2, <1>3, Owner DEF Found, NoticeOps
<1>5. /\ notice' = [notice EXCEPT ![n].status = "SUBMITTED"]
      /\ revision' = [revision EXCEPT ![n][k] = "SUBMITTED"]
      /\ allocation' = [l \in Lines |-> IF l \in HeldOf(n, k)
                          THEN [allocation[l] EXCEPT !.status = "ACTIVE"] ELSE allocation[l]]
      /\ End(w) /\ UNCHANGED <<line, batch>>
  BY <1>1, <1>3 DEF SubmitAllocations
<1>6. /\ notice' \in [Notices -> NoticeRow]
      /\ notice'[n].status = "SUBMITTED" /\ notice'[n].current = k
      /\ notice'[n].booking = notice[n].booking /\ notice'[n].announced = notice[n].announced
      /\ \A m \in Notices \ {n} : notice'[m] = notice[m]
  BY <1>4, <1>5, Typed DEF AllocationInv, TypeOK, NoticeRow, NoticeStatuses
<1>7. /\ revision' \in [Notices -> [Revisions -> RevisionStatuses \cup {None}]]
      /\ revision'[n][k] = "SUBMITTED" /\ \A j \in Revisions \ {k} : revision'[n][j] = revision[n][j]
      /\ \A m \in Notices \ {n} : revision'[m] = revision[m]
  BY <1>5, Typed DEF AllocationInv, TypeOK, RevisionStatuses
<1>8. ASSUME NEW l \in Lines
      PROVE  /\ allocation'[l] \in LineRow(AllocationStatuses)
             /\ allocation'[l].quantity = allocation[l].quantity
             /\ allocation'[l].status =
                  IF l \in HeldOf(n, k) THEN "ACTIVE" ELSE allocation[l].status
             /\ l \notin HeldOf(n, k) => allocation'[l] = allocation[l]
  BY <1>5, Typed DEF LineRow, AllocationStatuses
<1>9. allocation' \in [Lines -> LineRow(AllocationStatuses)]
  BY <1>5, <1>8
<1>10. \A l \in Lines : IsActive(l)' <=> IsActive(l)
  BY <1>8 DEF IsActive, HeldOf, ActiveAllocationStatuses
<1>11. \A m \in Notices \ {n} : Untouched(m)
  BY <1>5, <1>6, <1>7, <1>8 DEF Untouched, HeldOf
<1>12. k \in Nat
  BY DEF Revisions
<1>13. RevisionsInOrder(n)'
  <2>1. notice[n].booking = "none"
    BY <1>4 DEF RevisionsInOrder
  <2>2. \A l \in Lines : l[1] = n /\ l[2] > k =>
          line'[l].status = None /\ allocation'[l].status = None
    BY <1>4, <1>5, <1>8, <1>12 DEF RevisionsInOrder, HeldOf
  <2>3. \A j \in Revisions : revision'[n][j] # "EDITABLE"
    BY <1>4, <1>7 DEF RevisionsInOrder
  <2>4. \A j \in Revisions : j > k => revision'[n][j] = None
    BY <1>4, <1>7, <1>12 DEF RevisionsInOrder
  <2> QED
    BY <1>6, <2>1, <2>2, <2>3, <2>4 DEF RevisionsInOrder
<1>14. LinesMatch(n)'
  <2>1. ExpectedLines(n)' = ExpectedLines(n)
    BY <1>4, <1>5, <1>6 DEF ExpectedLines
  <2>2. ASSUME NEW l \in Lines, l[1] = n, IsActive(l)'
        PROVE  /\ line'[l].status = "EXPECTED" /\ line'[l].quantity = allocation'[l].quantity
               /\ l[2] = k /\ allocation'[l].status # "HELD"
    <3>1. /\ line[l].status = "EXPECTED" /\ line[l].quantity = allocation[l].quantity
          /\ l[2] = k
      BY <1>4, <1>10, <2>2 DEF LinesMatch
    <3> QED
      BY <1>5, <1>8, <2>2, <3>1 DEF HeldOf
  <2>3. revision'[n][notice'[n].current] # "EDITABLE"
    BY <1>6, <1>7
  <2>4. ~notice'[n].announced => ExpectedLines(n)' \subseteq ActiveAllocations'
    BY <1>4, <1>6, <1>10, <2>1 DEF LinesMatch, ActiveAllocations
  <2> QED
    BY <1>6, <2>2, <2>3, <2>4 DEF LinesMatch
<1>15. \A l \in batch : IsActive(l)'
  BY <1>10 DEF AllocationInv, BatchActive, ActiveAllocations
<1> QED
  BY <1>4, <1>5, <1>6, <1>7, <1>9, <1>11, <1>13, <1>14, <1>15, CommitStep
  DEF AllocationInv, TypeOK

LEMMA CancelNoticeAllocationsStep ==
  ASSUME AllocationInv, NEW w \in Workers, CancelNoticeAllocations(w)
  PROVE  AllocationInv'
<1>1. PICK t \in Request : t = txn[w]
  BY AtStep
<1>2. t.op = "cancel_notice" /\ OwnsNotice(t)
  BY <1>1 DEF CancelNoticeAllocations, At, OwnsNotice, NoticeOps
<1>3. PICK n \in Notices : n = t.notice
  BY <1>1, <1>2, Owner
<1>4. lock[<<"notice", n>>] = w /\ RevisionsInOrder(n) /\ LinesMatch(n)
  BY <1>1, <1>2, <1>3, Owner
<1> DEFINE L == {l \in ActiveAllocations : l[1] = n}
<1>5. /\ notice' = [notice EXCEPT ![n].status = "CANCELLED", ![n].announced = TRUE]
      /\ allocation' = [l \in Lines |-> IF l \in L
                          THEN [allocation[l] EXCEPT !.status = "RELEASED"] ELSE allocation[l]]
      /\ L \cap batch = {} /\ End(w) /\ UNCHANGED <<revision, line, batch>>
  BY <1>1, <1>3 DEF CancelNoticeAllocations, Unlocked
<1>6. /\ notice' \in [Notices -> NoticeRow]
      /\ notice'[n].status = "CANCELLED" /\ notice'[n].announced
      /\ notice'[n].current = notice[n].current /\ notice'[n].booking = notice[n].booking
      /\ \A m \in Notices \ {n} : notice'[m] = notice[m]
  BY <1>4, <1>5, Typed DEF AllocationInv, TypeOK, NoticeRow, NoticeStatuses
<1>7. ASSUME NEW l \in Lines
      PROVE  /\ allocation'[l] \in LineRow(AllocationStatuses)
             /\ IsActive(l) /\ l[1] = n => allocation'[l].status = "RELEASED"
             /\ ~IsActive(l) \/ l[1] # n => allocation'[l] = allocation[l]
  BY <1>5, Typed DEF LineRow, AllocationStatuses, ActiveAllocations
<1>8. allocation' \in [Lines -> LineRow(AllocationStatuses)]
  BY <1>5, <1>7
<1>9. \A m \in Notices \ {n} : Untouched(m)
  BY <1>5, <1>6, <1>7 DEF Untouched
<1>10. \A l \in Lines : l[1] = n => ~IsActive(l)'
  BY <1>7 DEF IsActive, ActiveAllocationStatuses
<1>11. \A l \in batch : IsActive(l)'
  BY <1>5, <1>7 DEF AllocationInv, TypeOK, BatchActive, ActiveAllocations, IsActive
<1>12. RevisionsInOrder(n)'
  <2>1. \A l \in Lines : l[1] = n /\ allocation[l].status = None =>
          allocation'[l].status = None
    BY <1>7, StatusesNotNone DEF IsActive, ActiveAllocationStatuses
  <2> QED
    BY <1>4, <1>5, <1>6, <2>1 DEF RevisionsInOrder
<1>13. LinesMatch(n)'
  BY <1>6, <1>10 DEF LinesMatch
<1> QED
  BY <1>4, <1>5, <1>6, <1>8, <1>9, <1>11, <1>12, <1>13, CommitStep DEF AllocationInv, TypeOK

LEMMA ConfirmRevisionStep ==
  ASSUME AllocationInv, NEW w \in Workers, ConfirmRevision(w)
  PROVE  AllocationInv'
<1>1. PICK t \in Request : t = txn[w]
  BY AtStep
<1>2. t.op = "confirm" /\ OwnsNotice(t)
  BY <1>1 DEF ConfirmRevision, At, OwnsNotice, NoticeOps
<1>3. PICK n \in Notices, k \in Revisions : n = t.notice /\ k = t.revision
  BY <1>1, <1>2, Owner
<1>4. /\ lock[<<"notice", n>>] = w /\ k = notice[n].current
      /\ notice[n].booking = "proposed" /\ RevisionsInOrder(n) /\ LinesMatch(n)
  BY <1>1, <1>2, <1>3, Owner DEF Found, NoticeOps
<1>5. /\ notice' = [notice EXCEPT ![n].status = "CONFIRMED", ![n].booking = "confirmed"]
      /\ revision' = [revision EXCEPT ![n][k] = "CONFIRMED"]
      /\ End(w) /\ UNCHANGED <<line, allocation, batch>>
  BY <1>1, <1>3 DEF ConfirmRevision
<1>6. /\ notice' \in [Notices -> NoticeRow]
      /\ notice'[n].status = "CONFIRMED" /\ notice'[n].current = k
      /\ notice'[n].announced = notice[n].announced
      /\ \A m \in Notices \ {n} : notice'[m] = notice[m]
  BY <1>4, <1>5, Typed DEF AllocationInv, TypeOK, NoticeRow, NoticeStatuses, Bookings
<1>7. /\ revision' \in [Notices -> [Revisions -> RevisionStatuses \cup {None}]]
      /\ revision'[n][k] = "CONFIRMED" /\ \A j \in Revisions \ {k} : revision'[n][j] = revision[n][j]
      /\ \A m \in Notices \ {n} : revision'[m] = revision[m]
  BY <1>5, Typed DEF AllocationInv, TypeOK, RevisionStatuses
<1>8. \A m \in Notices \ {n} : Untouched(m)
  BY <1>5, <1>6, <1>7 DEF Untouched
<1>9. k \in Nat /\ revision[n][k] # "EDITABLE"
  BY <1>4 DEF Revisions, RevisionsInOrder
<1>10. RevisionsInOrder(n)'
  <2>1. \A j \in Revisions : revision'[n][j] # "EDITABLE"
    BY <1>4, <1>7, <1>9 DEF RevisionsInOrder
  <2>2. \A j \in Revisions : j > k => revision'[n][j] = None
    BY <1>4, <1>7, <1>9 DEF RevisionsInOrder
  <2> QED
    BY <1>4, <1>5, <1>6, <2>1, <2>2 DEF RevisionsInOrder
<1>11. LinesMatch(n)'
  <2>1. \A l \in Lines : IsActive(l)' <=> IsActive(l)
    BY <1>5 DEF IsActive
  <2>2. ExpectedLines(n)' = ExpectedLines(n)
    BY <1>4, <1>5, <1>6 DEF ExpectedLines
  <2>3. ASSUME NEW l \in Lines, l[1] = n, IsActive(l)'
        PROVE  /\ line'[l].status = "EXPECTED" /\ line'[l].quantity = allocation'[l].quantity
               /\ l[2] = notice'[n].current
               /\ allocation'[l].status # "HELD"
    BY <1>4, <1>5, <1>6, <1>9, <2>1, <2>3 DEF LinesMatch
  <2>4. revision'[n][notice'[n].current] # "EDITABLE"
    BY <1>6, <1>7
  <2>5. ~notice'[n].announced => ExpectedLines(n)' \subseteq ActiveAllocations'
    BY <1>4, <1>6, <2>1, <2>2 DEF LinesMatch, ActiveAllocations
  <2> QED
    BY <2>3, <2>4, <2>5 DEF LinesMatch
<1>12. \A l \in batch : IsActive(l)'
  BY <1>5 DEF AllocationInv, BatchActive, ActiveAllocations, IsActive
<1> QED
  BY <1>4, <1>5, <1>6, <1>7, <1>8, <1>10, <1>11, <1>12, CommitStep DEF AllocationInv, TypeOK

LEMMA CreateRevisionAllocationsStep ==
  ASSUME AllocationInv, NEW w \in Workers, CreateRevisionAllocations(w)
  PROVE  AllocationInv'
<1>1. PICK t \in Request : t = txn[w]
  BY AtStep
<1>2. t.op = "create_revision" /\ OwnsNotice(t)
  BY <1>1 DEF CreateRevisionAllocations, At, OwnsNotice, NoticeOps
<1>3. PICK n \in Notices, k \in Revisions : n = t.notice /\ k = t.revision
  BY <1>1, <1>2, Owner
<1>4. /\ lock[<<"notice", n>>] = w /\ k = notice[n].current /\ k < MaxRevisions
      /\ notice[n].status = "REQUIRES_CHANGES"
      /\ RevisionsInOrder(n) /\ LinesMatch(n)
  BY <1>1, <1>2, <1>3, Owner DEF Found, NoticeOps
<1>5. k \in Nat /\ k + 1 \in Revisions /\ k + 1 # k
  BY <1>4, AllocationConstants DEF Revisions
<1>6. /\ notice' = [notice EXCEPT ![n].status = "DRAFT", ![n].current = k + 1]
      /\ revision' = [revision EXCEPT ![n][k] = "SUPERSEDED", ![n][k + 1] = "EDITABLE"]
      /\ CloneLines(n, k) /\ End(w) /\ batch' = batch
      /\ {l \in ExpectedLines(n) : IsActive(l)} \cap batch = {}
  BY <1>1, <1>3 DEF CreateRevisionAllocations, Unlocked
<1>7. /\ notice' \in [Notices -> NoticeRow]
      /\ notice'[n].status = "DRAFT" /\ notice'[n].current = k + 1
      /\ notice'[n].announced = notice[n].announced
      /\ notice'[n].booking = notice[n].booking
      /\ \A m \in Notices \ {n} : notice'[m] = notice[m]
  BY <1>5, <1>6, Typed, ZenonT(30) DEF AllocationInv, TypeOK, NoticeRow, NoticeStatuses
<1>8. /\ revision' \in [Notices -> [Revisions -> RevisionStatuses \cup {None}]]
      /\ revision'[n][k] = "SUPERSEDED" /\ revision'[n][k + 1] = "EDITABLE"
      /\ \A j \in Revisions \ {k, k + 1} : revision'[n][j] = revision[n][j]
      /\ \A m \in Notices \ {n} : revision'[m] = revision[m]
  BY <1>5, <1>6, Typed DEF AllocationInv, TypeOK, RevisionStatuses
<1> DEFINE Cloned(l) == l[1] = n /\ l[2] = k + 1 /\ line[Previous(l)].status = "EXPECTED"
<1>9. ASSUME NEW l \in Lines, Cloned(l)
      PROVE  /\ Previous(l) \in Lines /\ Previous(l)[1] = n /\ Previous(l)[2] = k
             /\ Previous(l) = <<n, k, l[3]>>
  <2>1. l[3] \in OrderLines
    BY LineMember
  <2>2. Previous(l) = <<n, k, l[3]>>
    BY <1>5, <1>9 DEF Previous
  <2> QED
    BY <2>1, <2>2, LineMember
<1>10. ASSUME NEW l \in Lines
       PROVE  /\ line'[l] = IF Cloned(l) THEN line[Previous(l)] ELSE line[l]
              /\ line'[l] \in LineRow(LineStatuses)
  <2>1. line'[l] = IF Cloned(l) THEN line[Previous(l)] ELSE line[l]
    BY <1>6 DEF CloneLines
  <2> QED
    BY <1>9, <2>1, Typed
<1>11. \A l \in Lines : allocation'[l] =
         IF Cloned(l) /\ IsActive(Previous(l))
         THEN [status |-> "HELD", quantity |-> line[Previous(l)].quantity]
         ELSE IF l[1] = n /\ l[2] = k /\ line[l].status = "EXPECTED" /\ IsActive(l)
              THEN [allocation[l] EXCEPT !.status = "RELEASED"]
              ELSE allocation[l]
  BY <1>6 DEF CloneLines
<1> HIDE DEF Cloned
<1>12. ASSUME NEW l \in Lines
       PROVE  /\ Cloned(l) /\ IsActive(Previous(l)) =>
                   /\ allocation'[l].status = "HELD"
                   /\ allocation'[l].quantity = line[Previous(l)].quantity
              /\ ~(Cloned(l) /\ IsActive(Previous(l))) =>
                   /\ IsActive(l) /\ l[1] = n => allocation'[l].status = "RELEASED"
                   /\ ~IsActive(l) => allocation'[l] = allocation[l]
              /\ l[1] # n => allocation'[l] = allocation[l]
              /\ allocation'[l] \in LineRow(AllocationStatuses)
  <2>1. CASE Cloned(l) /\ IsActive(Previous(l))
    <3>1. allocation'[l] = [status |-> "HELD", quantity |-> line[Previous(l)].quantity]
      BY <1>11, <2>1
    <3>2. line[Previous(l)].quantity \in Quantities \cup {0}
      BY <1>9, <2>1, Typed DEF LineRow
    <3>3. allocation'[l] \in LineRow(AllocationStatuses)
      BY <3>1, <3>2 DEF LineRow, AllocationStatuses
    <3> QED
      BY <2>1, <3>1, <3>3 DEF Cloned
  <2>2. CASE ~(Cloned(l) /\ IsActive(Previous(l)))
    <3>1. allocation[l] \in LineRow(AllocationStatuses)
      BY Typed
    <3>2. IsActive(l) /\ l[1] = n => l[2] = k /\ line[l].status = "EXPECTED"
      BY <1>4 DEF LinesMatch
    <3> QED
      BY <1>11, <2>2, <3>1, <3>2 DEF LineRow, AllocationStatuses
  <2> QED
    BY <2>1, <2>2
<1>13. /\ line' \in [Lines -> LineRow(LineStatuses)]
       /\ allocation' \in [Lines -> LineRow(AllocationStatuses)]
  BY <1>6, <1>10, <1>12 DEF CloneLines
<1>14. \A m \in Notices \ {n} : Untouched(m)
  BY <1>7, <1>8, <1>10, <1>12 DEF Untouched, Cloned
<1>15. RevisionsInOrder(n)'
  <2>1. \A j \in Revisions : revision'[n][j] = "EDITABLE" => j = k + 1
    BY <1>4, <1>8 DEF RevisionsInOrder
  <2>2. \A j \in Revisions : j > k + 1 => revision'[n][j] = None
    BY <1>4, <1>5, <1>8 DEF RevisionsInOrder, Revisions
  <2>3. ASSUME NEW l \in Lines, l[1] = n, l[2] > k + 1
        PROVE  line'[l].status = None /\ allocation'[l].status = None
    <3>1. l[2] \in Nat
      BY LineMember DEF Revisions
    <3>2. ~Cloned(l) /\ l[2] > k
      BY <1>5, <2>3, <3>1 DEF Cloned
    <3>3. line[l].status = None /\ allocation[l].status = None
      BY <1>4, <2>3, <3>2 DEF RevisionsInOrder
    <3> QED
      BY <1>10, <1>12, <3>2, <3>3, StatusesNotNone DEF IsActive, ActiveAllocationStatuses
  <2>4. notice[n].booking = "none"
    BY <1>4 DEF RevisionsInOrder
  <2> QED
    BY <1>7, <2>1, <2>2, <2>3, <2>4 DEF RevisionsInOrder
<1>16. LinesMatch(n)'
  <2>1. ASSUME NEW l \in Lines, l[1] = n, IsActive(l)'
        PROVE  Cloned(l) /\ IsActive(Previous(l))
    BY <1>12, <2>1 DEF IsActive, ActiveAllocationStatuses
  <2>2. ASSUME NEW l \in Lines, l[1] = n, IsActive(l)'
        PROVE  /\ line'[l].status = "EXPECTED" /\ line'[l].quantity = allocation'[l].quantity
               /\ l[2] = k + 1 /\ allocation'[l].status = "HELD"
    BY <1>10, <1>12, <2>1, <2>2 DEF Cloned
  <2>3. ASSUME ~notice[n].announced, NEW l \in ExpectedLines(n)'
        PROVE  IsActive(l)'
    <3>1. l \in Lines /\ l[1] = n /\ l[2] = k + 1 /\ line'[l].status = "EXPECTED"
      BY <1>7, <2>3 DEF ExpectedLines
    <3>2. line[l].status = None
      BY <1>4, <1>5, <3>1 DEF RevisionsInOrder
    <3>3. Cloned(l)
      BY <1>10, <3>1, <3>2, StatusesNotNone
    <3>4. Previous(l) \in ExpectedLines(n)
      BY <1>4, <1>9, <3>1, <3>3 DEF ExpectedLines, Cloned
    <3>5. IsActive(Previous(l))
      BY <1>4, <2>3, <3>4 DEF LinesMatch, ActiveAllocations
    <3> QED
      BY <1>12, <3>1, <3>3, <3>5 DEF IsActive, ActiveAllocationStatuses
  <2>4. ExpectedLines(n)' \subseteq Lines
    BY DEF ExpectedLines
  <2> QED
    BY <1>7, <1>8, <2>2, <2>3, <2>4 DEF LinesMatch, ActiveAllocations
<1>17. \A l \in batch : IsActive(l)'
  <2>1. ASSUME NEW l \in batch
        PROVE  l \in Lines /\ IsActive(l) /\ l[1] # n
    <3>1. l \in Lines /\ IsActive(l)
      BY <2>1 DEF AllocationInv, BatchActive, ActiveAllocations
    <3>2. l[1] = n => l \in ExpectedLines(n)
      BY <1>4, <3>1 DEF LinesMatch, ExpectedLines
    <3> QED
      BY <1>6, <2>1, <3>1, <3>2
  <2> QED
    BY <1>12, <2>1 DEF IsActive
<1> QED
  BY <1>4, <1>6, <1>7, <1>8, <1>13, <1>14, <1>15, <1>16, <1>17, CommitStep

-----------------------------------------------------------------------------
(* The reviewer and the calendar. *)

\* Status and booking of a notice change that is not edited.
LEMMA StatusStep ==
  ASSUME AllocationInv, NEW n \in Notices,
         UNCHANGED <<revision, line, allocation, lock, batch, txn>>,
         notice' \in [Notices -> NoticeRow],
         \A m \in Notices \ {n} : notice'[m] = notice[m],
         notice'[n].current = notice[n].current,
         notice'[n].announced = notice[n].announced,
         notice'[n].status \in {notice[n].status} \cup (NoticeStatuses \ {"CANCELLED"}),
         notice'[n].booking # "none" => notice'[n].status \in
           {"READY_FOR_SCHEDULING", "SCHEDULED", "CONFIRMED", "CANCELLED"},
         revision[n][notice[n].current] # "EDITABLE",
         Free(<<"notice", n>>) \/ Stays(n)
  PROVE  AllocationInv'
<1>1. RevisionsInOrder(n) /\ LinesMatch(n)
  BY DEF AllocationInv, NoticesInOrder
<1>2. \A m \in Notices \ {n} : Untouched(m)
  BY DEF Untouched
<1>3. \A l \in Lines : IsActive(l)' <=> IsActive(l)
  BY DEF IsActive
<1>4. RevisionsInOrder(n)'
  <2>1. \A j \in Revisions : revision[n][j] # "EDITABLE"
    BY <1>1 DEF RevisionsInOrder
  <2> QED
    BY <1>1, <2>1 DEF RevisionsInOrder
<1>5. LinesMatch(n)'
  <2>1. ExpectedLines(n)' = ExpectedLines(n)
    BY DEF ExpectedLines
  <2>2. ActiveAllocations' = ActiveAllocations
    BY <1>3 DEF ActiveAllocations
  <2> QED
    BY <1>1, <1>3, <2>1, <2>2 DEF LinesMatch
<1>6. NoticesInOrder'
  BY <1>2, <1>4, <1>5, OneNotice
<1>7. BatchActive'
  BY <1>3 DEF AllocationInv, BatchActive, ActiveAllocations
<1>8. TypeOK'
  BY DEF AllocationInv, TypeOK
<1>9. \A m \in Notices : lock[<<"notice", m>>] # None => Stays(m)
  BY <1>2 DEF Free, Untouched, Stays
<1> QED
  BY <1>6, <1>7, <1>8, <1>9, ServerStep

LEMMA ReviewStep ==
  ASSUME AllocationInv, NEW n \in Notices, NEW target \in NoticeStatuses, Review(n, target)
  PROVE  AllocationInv'
<1>1. RevisionsInOrder(n) /\ notice[n] \in NoticeRow /\ notice[n].current \in Revisions
  BY Typed DEF AllocationInv, NoticesInOrder
<1>2. /\ notice[n].status \in {"SUBMITTED", "UNDER_REVIEW"}
      /\ target \in {"UNDER_REVIEW", "REQUIRES_CHANGES", "READY_FOR_SCHEDULING"}
  BY DEF Review, ReviewTransitions
<1>3. revision[n][notice[n].current] # "EDITABLE" /\ notice[n].booking = "none"
  BY <1>1, <1>2 DEF RevisionsInOrder
<1>4. notice' = [notice EXCEPT ![n].status = target] /\ Free(<<"notice", n>>)
      /\ UNCHANGED <<revision, line, allocation, lock, batch, txn>>
  BY DEF Review
<1>5. /\ notice' \in [Notices -> NoticeRow]
      /\ \A m \in Notices \ {n} : notice'[m] = notice[m]
      /\ notice'[n].current = notice[n].current /\ notice'[n].booking = "none"
      /\ notice'[n].announced = notice[n].announced /\ notice'[n].status = target
  BY <1>1, <1>3, <1>4 DEF AllocationInv, TypeOK, NoticeRow
<1> QED
  BY <1>2, <1>3, <1>4, <1>5, StatusStep

LEMMA BookStep ==
  ASSUME AllocationInv, NEW n \in Notices, NEW from \in SUBSET Bookings,
         NEW to \in Bookings, NEW status \in NoticeStatuses, Book(n, from, to, status),
         revision[n][notice[n].current] # "EDITABLE",
         status \in {"READY_FOR_SCHEDULING", "SCHEDULED"}
  PROVE  AllocationInv'
<1>1. notice[n] \in NoticeRow
  BY Typed
<1>2. /\ notice' = [notice EXCEPT ![n].booking = to, ![n].status = status]
      /\ Free(<<"notice", n>>) /\ UNCHANGED <<revision, line, allocation, lock, batch, txn>>
  BY DEF Book
<1>3. /\ notice' \in [Notices -> NoticeRow]
      /\ \A m \in Notices \ {n} : notice'[m] = notice[m]
      /\ notice'[n].current = notice[n].current
      /\ notice'[n].announced = notice[n].announced /\ notice'[n].status = status
  BY <1>1, <1>2 DEF AllocationInv, TypeOK, NoticeRow
<1> QED
  BY <1>2, <1>3, StatusStep

LEMMA CalendarSteps ==
  ASSUME AllocationInv, NEW n \in Notices,
         PlaceHold(n) \/ HoldEnds(n) \/ CreateAppointment(n) \/ CancelAppointment(n)
  PROVE  AllocationInv'
<1>1. RevisionsInOrder(n) /\ notice[n] \in NoticeRow /\ notice[n].current \in Revisions
  BY Typed DEF AllocationInv, NoticesInOrder
<1>2. notice[n].booking # "none" \/ notice[n].status = "READY_FOR_SCHEDULING" =>
        revision[n][notice[n].current] # "EDITABLE"
  BY <1>1 DEF RevisionsInOrder
<1>3. {"none", "hold", "proposed", "confirmed"} \subseteq Bookings
      /\ {"READY_FOR_SCHEDULING", "SCHEDULED"} \subseteq NoticeStatuses
  BY DEF Bookings, NoticeStatuses
<1>4. CASE PlaceHold(n)
  <2>1. notice[n].status = "READY_FOR_SCHEDULING"
    BY <1>4 DEF PlaceHold
  <2>2. Book(n, {"none"}, "hold", "READY_FOR_SCHEDULING")
    BY <1>4, <2>1 DEF PlaceHold
  <2> QED
    BY <1>2, <1>3, <2>1, <2>2, BookStep
<1>5. CASE HoldEnds(n)
  <2>1. /\ notice[n].booking = "hold" /\ notice' = [notice EXCEPT ![n].booking = "none"]
        /\ UNCHANGED <<revision, line, allocation, lock, batch, txn>>
    BY <1>5 DEF HoldEnds
  <2>2. /\ notice' \in [Notices -> NoticeRow]
        /\ \A m \in Notices \ {n} : notice'[m] = notice[m]
        /\ notice'[n].current = notice[n].current /\ notice'[n].booking = "none"
        /\ notice'[n].announced = notice[n].announced
        /\ notice'[n].status = notice[n].status
    BY <1>1, <2>1 DEF AllocationInv, TypeOK, NoticeRow, Bookings
  <2>3. Stays(n)
    BY <2>1, <2>2 DEF Stays
  <2> QED
    BY <1>2, <2>1, <2>2, <2>3, StatusStep
<1>6. CASE CreateAppointment(n)
  <2>1. Book(n, {"hold"}, "proposed", "SCHEDULED") /\ notice[n].booking = "hold"
    BY <1>6 DEF CreateAppointment, Book
  <2> QED
    BY <1>2, <1>3, <2>1, BookStep
<1>7. CASE CancelAppointment(n)
  <2>1. /\ Book(n, {"proposed", "confirmed"}, "none", "READY_FOR_SCHEDULING")
        /\ notice[n].booking \in {"proposed", "confirmed"}
    BY <1>7 DEF CancelAppointment, Book
  <2> QED
    BY <1>2, <1>3, <2>1, BookStep
<1> QED
  BY <1>4, <1>5, <1>6, <1>7

-----------------------------------------------------------------------------
(* The reconciling job. *)

\* What the job makes of the allocations it holds.
LEMMA Targets ==
  ASSUME AllocationInv, NEW l \in batch
  PROVE  /\ l \in Lines /\ IsActive(l)
         /\ notice[l[1]].status = "CANCELLED" =>
              Target(l) = "RELEASED" /\ notice[l[1]].announced
         /\ notice[l[1]].status # "CANCELLED" => Target(l) = allocation[l].status
<1>1. l \in Lines /\ IsActive(l)
  BY DEF AllocationInv, BatchActive, ActiveAllocations
<1>2. PICK n \in Notices : n = l[1]
  BY <1>1, LineMember
<1>3. RevisionsInOrder(n) /\ LinesMatch(n) /\ notice[n].current \in Revisions
  BY Typed DEF AllocationInv, NoticesInOrder
<1>4. /\ line[l].status = "EXPECTED"
      /\ allocation[l].status = "HELD" => revision[n][notice[n].current] = "EDITABLE"
  BY <1>1, <1>2, <1>3 DEF LinesMatch
<1>5. allocation[l].status = "HELD" => notice[n].status \in {"DRAFT", "CANCELLED"}
  BY <1>3, <1>4 DEF RevisionsInOrder
<1> QED
  BY <1>1, <1>2, <1>3, <1>4, <1>5 DEF Target, RevisionsInOrder

LEMMA ReconcileStep ==
  ASSUME AllocationInv, Reconcile
  PROVE  AllocationInv'
<1>1. /\ allocation' = [l \in Lines |-> IF l \in batch
                          THEN [allocation[l] EXCEPT !.status = Target(l)] ELSE allocation[l]]
      /\ batch' = {} /\ UNCHANGED <<notice, revision, line, lock, txn>>
  BY DEF Reconcile
<1>2. ASSUME NEW l \in Lines
      PROVE  /\ allocation'[l] \in LineRow(AllocationStatuses)
             /\ allocation'[l].quantity = allocation[l].quantity
             /\ \/ allocation'[l] = allocation[l]
                \/ IsActive(l) /\ ~IsActive(l)' /\ notice[l[1]].announced
  <2>1. allocation[l] \in LineRow(AllocationStatuses)
    BY Typed
  <2>2. CASE l \notin batch
    BY <1>1, <2>1, <2>2
  <2>3. CASE l \in batch /\ Target(l) = allocation[l].status
    <3>1. allocation'[l] = allocation[l]
      BY <1>1, <2>1, <2>3 DEF LineRow
    <3> QED
      BY <2>1, <3>1
  <2>4. CASE l \in batch /\ Target(l) = "RELEASED" /\ notice[l[1]].announced
    <3>1. /\ allocation'[l] \in LineRow(AllocationStatuses)
          /\ allocation'[l].quantity = allocation[l].quantity
          /\ allocation'[l].status = "RELEASED"
      BY <1>1, <2>1, <2>4 DEF LineRow, AllocationStatuses
    <3> QED
      BY <2>4, <3>1, Targets DEF IsActive, ActiveAllocationStatuses
  <2> QED
    BY <2>2, <2>3, <2>4, Targets
<1>3. allocation' \in [Lines -> LineRow(AllocationStatuses)]
  BY <1>1, <1>2
<1>4. TypeOK'
  BY <1>1, <1>3 DEF AllocationInv, TypeOK
<1>5. BatchActive'
  BY <1>1 DEF BatchActive
<1>6. \A n \in Notices : Stays(n)
  BY <1>1 DEF Stays
<1>7. ASSUME NEW n \in Notices
      PROVE  RevisionsInOrder(n)' /\ LinesMatch(n)'
  <2>1. RevisionsInOrder(n) /\ LinesMatch(n)
    BY DEF AllocationInv, NoticesInOrder
  <2>2. \A l \in Lines : allocation[l].status = None => allocation'[l] = allocation[l]
    BY <1>2, StatusesNotNone DEF IsActive, ActiveAllocationStatuses
  <2>3. RevisionsInOrder(n)'
    BY <1>1, <2>1, <2>2 DEF RevisionsInOrder
  <2>4. \A l \in Lines : IsActive(l)' => allocation'[l] = allocation[l] /\ IsActive(l)
    BY <1>2 DEF IsActive
  <2>5. ExpectedLines(n)' = ExpectedLines(n)
    BY <1>1 DEF ExpectedLines
  <2>6. ~notice[n].announced => ExpectedLines(n) \subseteq ActiveAllocations'
    BY <1>2, <2>1 DEF LinesMatch, ExpectedLines, ActiveAllocations, IsActive
  <2> QED
    BY <1>1, <2>1, <2>3, <2>4, <2>5, <2>6, ZenonT(30) DEF LinesMatch
<1>8. NoticesInOrder'
  BY <1>7 DEF NoticesInOrder
<1> QED
  BY <1>1, <1>4, <1>5, <1>6, <1>8, ServerStep

LEMMA BatchStep ==
  ASSUME AllocationInv, UNCHANGED <<notice, revision, line, allocation, lock, txn>>,
         batch' = batch \/ batch' \subseteq ActiveAllocations
  PROVE  AllocationInv'
<1>1. \A n \in Notices : Untouched(n) /\ Stays(n)
  BY DEF Untouched, Stays
<1>2. NoticesInOrder'
  BY <1>1, UntouchedKept DEF AllocationInv, NoticesInOrder
<1>3. ActiveAllocations' = ActiveAllocations
  BY DEF ActiveAllocations, IsActive
<1>4. BatchActive' /\ TypeOK'
  BY <1>3 DEF AllocationInv, TypeOK, BatchActive, ActiveAllocations
<1> QED
  BY <1>1, <1>2, <1>4, ServerStep

-----------------------------------------------------------------------------
LEMMA AllocationInit == Init => AllocationInv
<1> SUFFICES ASSUME Init
             PROVE  AllocationInv
  OBVIOUS
<1>1. 1 \in Revisions /\ 1 \in Nat
  BY AllocationConstants DEF Revisions
<1>2. TypeOK
  <2>1. notice \in [Notices -> NoticeRow]
    BY <1>1 DEF Init, NoticeRow, NoticeStatuses, Bookings
  <2>2. revision \in [Notices -> [Revisions -> RevisionStatuses \cup {None}]]
    BY DEF Init, RevisionStatuses
  <2>3. /\ line \in [Lines -> LineRow(LineStatuses)]
        /\ allocation \in [Lines -> LineRow(AllocationStatuses)]
    BY DEF Init, LineRow, NoLine
  <2>4. lock \in [Rows -> Workers \cup {None}] /\ txn \in [Workers -> Request]
        /\ batch \in SUBSET Lines
    BY IdleRequest DEF Init
  <2> QED
    BY <2>1, <2>2, <2>3, <2>4 DEF TypeOK
<1>3. RequestsRely
  BY IdleRequest, IdleRelies DEF Init, RequestsRely
<1>4. \A l \in Lines : line[l].status = None /\ allocation[l].status = None
  BY DEF Init, NoLine
<1>5. ASSUME NEW n \in Notices
      PROVE  RevisionsInOrder(n) /\ LinesMatch(n)
  <2>1. /\ notice[n].status = "DRAFT" /\ notice[n].current = 1 /\ notice[n].booking = "none"
        /\ \A k \in Revisions : revision[n][k] = IF k = 1 THEN "EDITABLE" ELSE None
    BY DEF Init
  <2>2. RevisionsInOrder(n)
    BY <1>1, <1>4, <2>1, StatusesNotNone DEF RevisionsInOrder
  <2>3. \A l \in Lines : ~IsActive(l) /\ line[l].status # "EXPECTED"
    BY <1>4, StatusesNotNone DEF IsActive, ActiveAllocationStatuses
  <2> QED
    BY <2>2, <2>3 DEF LinesMatch, ExpectedLines
<1>6. BatchActive
  BY DEF Init, BatchActive
<1> QED
  BY <1>2, <1>3, <1>5, <1>6 DEF AllocationInv, NoticesInOrder

LEMMA AdvanceStep ==
  ASSUME AllocationInv, NEW w \in Workers, Advance(w)
  PROVE  AllocationInv'
  BY EditLineNoticeStep, AddLineStep, UpdateLineStep, CancelLineStep, FurtherLocksStep,
     SubmitAllocationsStep, CreateRevisionAllocationsStep, CancelNoticeAllocationsStep,
     ConfirmRevisionStep, RefuseStep
  DEF Advance, DeadlockVictim

LEMMA AllocationNext == AllocationInv /\ [Next]_vars => AllocationInv'
<1> SUFFICES ASSUME AllocationInv, [Next]_vars
             PROVE  AllocationInv'
  OBVIOUS
<1>1. ASSUME NEW w \in Workers, Serve(w) \/ Advance(w) \/ Crash(w)
      PROVE  AllocationInv'
  BY <1>1, ServeStep, AdvanceStep, RefuseStep DEF Crash
<1>2. ASSUME NEW n \in Notices, NEW target \in NoticeStatuses, Review(n, target)
      PROVE  AllocationInv'
  BY <1>2, ReviewStep
<1>3. ASSUME NEW n \in Schedulable,
             PlaceHold(n) \/ HoldEnds(n) \/ CreateAppointment(n) \/ CancelAppointment(n)
      PROVE  AllocationInv'
  BY <1>3, CalendarSteps, AllocationConstants
<1>4. CASE Reconcile
  BY <1>4, ReconcileStep
<1>5. CASE BeginReconcile
  <2>1. batch' \subseteq ActiveAllocations
    BY <1>5 DEF BeginReconcile
  <2> QED
    BY <1>5, <2>1, BatchStep DEF BeginReconcile
<1>6. CASE JobCrashes \/ UNCHANGED vars
  BY <1>6, BatchStep DEF JobCrashes, vars
<1> QED
  BY <1>1, <1>2, <1>3, <1>4, <1>5, <1>6 DEF Next

\* AllocationInv holds for every number of notices, order lines, revisions
\* and workers.
THEOREM AllocationInvariance == Spec => []AllocationInv
  BY AllocationInit, AllocationNext, PTL DEF Spec

\* Every variable keeps its type.
THEOREM AllocationTypes == Spec => []TypeOK
<1>1. AllocationInv => TypeOK
  BY DEF AllocationInv
<1> QED
  BY <1>1, AllocationInvariance, PTL

LEMMA LinesOfAllNotices == AllocationInv => AllocationsMatchLines
<1> SUFFICES ASSUME AllocationInv
             PROVE  AllocationsMatchLines
  OBVIOUS
<1>1. \A n \in Notices : LinesMatch(n)
  BY DEF AllocationInv, NoticesInOrder
<1>2. ASSUME NEW l \in ActiveAllocations
      PROVE  /\ line[l] = [status |-> "EXPECTED", quantity |-> allocation[l].quantity]
             /\ l[2] = notice[l[1]].current
             /\ allocation[l].status = "HELD" <=> revision[l[1]][l[2]] = "EDITABLE"
  <2>1. l \in Lines /\ IsActive(l) /\ l[1] \in Notices
    BY LineMember DEF ActiveAllocations
  <2>2. /\ line[l].status = "EXPECTED" /\ line[l].quantity = allocation[l].quantity
        /\ l[2] = notice[l[1]].current
        /\ allocation[l].status = "HELD" <=> revision[l[1]][notice[l[1]].current] = "EDITABLE"
    BY <1>1, <2>1 DEF LinesMatch
  <2>3. line[l] \in LineRow(LineStatuses)
    BY <2>1, Typed
  <2> QED
    BY <2>2, <2>3 DEF LineRow
<1> QED
  BY <1>1, <1>2 DEF AllocationsMatchLines, LinesMatch

\* Lines and allocations agree in every reachable state.
THEOREM LinesAndAllocationsAgree == Spec => []AllocationsMatchLines
  BY LinesOfAllNotices, AllocationInvariance, PTL

\* The job never changes what a notice holds that is not cancelled.
THEOREM JobHarmless == Spec => JobSparesLiveNotices
<1>1. ASSUME AllocationInv, Reconcile, NEW l \in Lines, notice[l[1]].status # "CANCELLED"
      PROVE  allocation'[l] = allocation[l]
  <2>1. allocation[l] \in LineRow(AllocationStatuses)
    BY <1>1, Typed
  <2>2. l \in batch => Target(l) = allocation[l].status
    BY <1>1, Targets
  <2> QED
    BY <1>1, <2>1, <2>2 DEF Reconcile, LineRow
<1>2. AllocationInv /\ [Next]_vars =>
        [Reconcile => \A l \in Lines :
           notice[l[1]].status # "CANCELLED" => allocation'[l] = allocation[l]]_vars
  BY <1>1
<1> QED
  BY <1>2, AllocationInvariance, PTL DEF Spec, JobSparesLiveNotices

-----------------------------------------------------------------------------
(* The refinement: only AddLine and UpdateLine announce more. *)

LEMMA SameCardinality == \A S : Pool!Cardinality(S) = Cardinality(S)
  BY DEF Cardinality, Pool!Cardinality

LEMMA LinesFinite == IsFiniteSet(Lines)
<1>1. IsFiniteSet(Revisions)
  BY AllocationConstants, FS_Interval DEF Revisions
<1>2. IsFiniteSet(Notices \X (Revisions \X OrderLines))
  BY <1>1, AllocationConstants, FS_Product
<1> DEFINE f == [l \in Lines |-> <<l[1], <<l[2], l[3]>>>>]
<1>3. f \in Injection(Lines, Notices \X (Revisions \X OrderLines))
  BY LineMember DEF Injection, IsInjective
<1> QED
  BY <1>2, <1>3, FS_Injection

LEMMA RowQuantity ==
  ASSUME AllocationInv, NEW l \in Lines
  PROVE  allocation[l].quantity \in Nat
<1>1. PICK r \in LineRow(AllocationStatuses) : r = allocation[l]
  BY Typed
<1>2. r.quantity \in Quantities \cup {0}
  BY DEF LineRow
<1>3. \A q \in Quantities \cup {0} : q \in Nat
  BY AllocationConstants
<1> QED
  BY <1>1, <1>2, <1>3

LEMMA UnitsFinite ==
  ASSUME AllocationInv, NEW L \in SUBSET Lines
  PROVE  IsFiniteSet(Units(L))
<1> DEFINE T == {{l} \X (1 .. allocation[l].quantity) : l \in L}
           f == [l \in L |-> {l} \X (1 .. allocation[l].quantity)]
<1>1. IsFiniteSet(L)
  BY LinesFinite, FS_Subset
<1>2. f \in Surjection(L, T)
  BY DEF Surjection
<1>3. IsFiniteSet(T)
  BY <1>1, <1>2, FS_Surjection
<1>4. ASSUME NEW l \in L
      PROVE  IsFiniteSet({l} \X (1 .. allocation[l].quantity))
  <2>1. PICK i \in Nat : i = allocation[l].quantity
    BY RowQuantity
  <2>2. IsFiniteSet(1 .. i)
    BY FS_Interval
  <2>3. IsFiniteSet({l})
    BY FS_Singleton
  <2>4. IsFiniteSet({l} \X (1 .. i))
    BY <2>2, <2>3, FS_Product
  <2> QED
    BY <2>1, <2>4
<1>5. \A X \in T : IsFiniteSet(X)
  BY <1>4
<1>6. IsFiniteSet(UNION T)
  BY <1>3, <1>5, FS_UNION
<1> QED
  BY <1>6 DEF Units

LEMMA AnnouncedType ==
  ASSUME AllocationInv, NEW n \in Notices, NEW p \in OrderLines
  PROVE  /\ <<n, notice[n].current, p>> \in Lines
         /\ Announced(n, p) \in Nat
         /\ Announced(n, p) # 0 =>
              /\ IsActive(<<n, notice[n].current, p>>)
              /\ Announced(n, p) = allocation[<<n, notice[n].current, p>>].quantity
<1>1. <<n, notice[n].current, p>> \in Lines
  BY Typed, LineMember
<1>2. allocation[<<n, notice[n].current, p>>].quantity \in Nat
  BY <1>1, RowQuantity
<1> QED
  BY <1>1, <1>2 DEF Announced

\* The units that other notices announce are among those a line competes with.
LEMMA OthersAmongRivals ==
  ASSUME AllocationInv, NEW l \in Lines, NEW q \in Nat, Fits(l, q)
  PROVE  Cardinality(Pool!OthersUnits(l[1], l[3])) + q <= Ordered[l[3]]
<1>1. l[1] \in Notices /\ l[3] \in OrderLines
  BY LineMember
<1>2. PICK n \in Notices, p \in OrderLines : n = l[1] /\ p = l[3]
  BY <1>1
<1> DEFINE S == Pool!OthersUnits(n, p)
           T == Units(Rivals(l))
           LineAt(m) == <<m, notice[m].current, p>>
<1>3. ASSUME NEW u \in S
      PROVE  \E m \in Notices \ {n} : \E i \in 1 .. Announced(m, p) : u = <<m, i>>
  <2> DEFINE all == [m \in Notices |-> [r \in OrderLines |-> Announced(m, r)]]
  <2>1. PICK m \in Notices \ {n} : u \in {m} \X (1 .. all[m][p])
    BY <1>3 DEF Pool!OthersUnits
  <2>2. all[m][p] = Announced(m, p)
    OBVIOUS
  <2> HIDE DEF all
  <2> QED
    BY <2>1, <2>2
<1>4. ASSUME NEW m \in Notices \ {n}, NEW i \in 1 .. Announced(m, p)
      PROVE  <<LineAt(m), i>> \in T
  <2>1. Announced(m, p) # 0
    BY <1>4, AnnouncedType
  <2>2. /\ LineAt(m) \in Lines /\ IsActive(LineAt(m))
        /\ Announced(m, p) = allocation[LineAt(m)].quantity
    BY <2>1, AnnouncedType
  <2>3. LineAt(m) # l /\ LineAt(m)[3] = l[3]
    BY <1>2
  <2>4. LineAt(m) \in Rivals(l)
    BY <2>2, <2>3 DEF Rivals, ActiveAllocations
  <2> QED
    BY <2>2, <2>4 DEF Units
<1> DEFINE f == [u \in S |-> <<LineAt(u[1]), u[2]>>]
<1> HIDE DEF S, T
<1>5. f \in Injection(S, T)
  <2>1. ASSUME NEW u \in S
        PROVE  f[u] \in T
    BY <1>3, <1>4
  <2>2. ASSUME NEW u \in S, NEW v \in S, f[u] = f[v]
        PROVE  u = v
    <3>1. PICK m \in Notices \ {n} : \E i \in 1 .. Announced(m, p) : u = <<m, i>>
      BY <1>3
    <3>2. PICK r \in Notices \ {n} : \E j \in 1 .. Announced(r, p) : v = <<r, j>>
      BY <1>3
    <3>3. PICK i, j : u = <<m, i>> /\ v = <<r, j>>
      BY <3>1, <3>2
    <3>4. <<LineAt(m), i>> = <<LineAt(r), j>>
      BY <2>2, <3>3
    <3> QED
      BY <3>3, <3>4
  <2> QED
    BY <2>1, <2>2 DEF Injection, IsInjective
<1>6. Rivals(l) \in SUBSET Lines
  BY DEF Rivals, ActiveAllocations
<1>7. IsFiniteSet(T)
  BY <1>6, UnitsFinite DEF T
<1>8. IsFiniteSet(S) /\ Cardinality(S) <= Cardinality(T)
  BY <1>5, <1>7, FS_Injection
<1>9. Cardinality(S) \in Nat /\ Cardinality(T) \in Nat
  BY <1>7, <1>8, FS_CardinalityType
<1>10. Cardinality(T) + q <= Ordered[p] /\ Ordered[p] \in Nat
  BY <1>2, AllocationConstants DEF T, Fits
<1> QED
  BY <1>2, <1>8, <1>9, <1>10 DEF S

LEMMA Withdrawing ==
  ASSUME AllocationInv, AllocationInv',
         \A n \in Notices, p \in OrderLines : Announced(n, p)' \in {0, Announced(n, p)}
  PROVE  Pool!Next
<1> DEFINE old == [n \in Notices |-> [p \in OrderLines |-> Announced(n, p)]]
           new == [n \in Notices |-> [p \in OrderLines |-> Announced(n, p)']]
<1>1. \A n \in Notices, p \in OrderLines : Announced(n, p) \in Nat
  BY AnnouncedType
<1>2. new \in [Notices -> [OrderLines -> Nat]]
  BY <1>1
<1>3. \A n \in Notices, p \in OrderLines : new[n][p] \in {0, old[n][p]}
  OBVIOUS
<1>4. Pool!Withdraw
  BY <1>2, <1>3 DEF Pool!Withdraw
<1> QED
  BY <1>4 DEF Pool!Next

\* Steps that keep the active revisions and add nothing to what is allocated.
LEMMA NothingAdded ==
  ASSUME AllocationInv, AllocationInv',
         \A n \in Notices : notice'[n].current = notice[n].current,
         \A l \in Lines : IsActive(l)' =>
           IsActive(l) /\ allocation'[l].quantity = allocation[l].quantity
  PROVE  Pool!Next
<1>1. ASSUME NEW n \in Notices, NEW p \in OrderLines
      PROVE  Announced(n, p)' \in {0, Announced(n, p)}
  <2>1. <<n, notice[n].current, p>> \in Lines
    BY AnnouncedType
  <2> QED
    BY <2>1 DEF Announced, IsActive
<1> QED
  BY <1>1, Withdrawing

\* A line is given a quantity that fits.
LEMMA QuantitySet ==
  ASSUME AllocationInv, AllocationInv', NEW l \in Lines, NEW q \in Quantities, Fits(l, q),
         notice' = notice, l[2] = notice[l[1]].current,
         NEW a, a.quantity = q, allocation' = [allocation EXCEPT ![l] = a],
         a.status \in ActiveAllocationStatuses
  PROVE  Pool!Next
<1>1. l[1] \in Notices /\ l[3] \in OrderLines /\ l = <<l[1], l[2], l[3]>>
  BY LineMember
<1>2. PICK n \in Notices, p \in OrderLines : n = l[1] /\ p = l[3] /\ l = <<n, notice[n].current, p>>
  BY <1>1
<1>3. allocation'[l] = a /\ \A m \in Lines \ {l} : allocation'[m] = allocation[m]
  BY DEF AllocationInv, TypeOK
<1>4. Announced(n, p)' = q
  BY <1>2, <1>3 DEF Announced, IsActive
<1>5. ASSUME NEW m \in Notices, NEW r \in OrderLines, m # n \/ r # p
      PROVE  Announced(m, r)' = Announced(m, r)
  <2>1. <<m, notice[m].current, r>> \in Lines \ {l}
    BY <1>2, <1>5, AnnouncedType
  <2> QED
    BY <1>3, <2>1 DEF Announced, IsActive
<1> DEFINE old == [m \in Notices |-> [r \in OrderLines |-> Announced(m, r)]]
           new == [m \in Notices |-> [r \in OrderLines |-> Announced(m, r)']]
<1>6. new = [old EXCEPT ![n][p] = q]
  BY <1>4, <1>5
<1>7. Cardinality(Pool!OthersUnits(n, p)) + q <= Ordered[p]
  BY <1>2, OthersAmongRivals, AllocationConstants
<1>8. Pool!Announce(n, p, q)
  BY <1>6, <1>7, SameCardinality DEF Pool!Announce
<1> QED
  BY <1>8 DEF Pool!Next

LEMMA AddLineAnnounces ==
  ASSUME AllocationInv, AllocationInv', NEW w \in Workers, AddLine(w)
  PROVE  Pool!Next
<1>1. PICK t \in Request : t = txn[w]
  BY AtStep
<1>2. t.op = "add_line" /\ t.pc = "order"
  BY <1>1 DEF AddLine, At
<1>3. CASE Refuse(w)
  BY <1>3, NothingAdded DEF Refuse, IsActive
<1>4. CASE ~Refuse(w)
  <2>1. PICK l \in Lines, q \in Quantities : l = LineOf(t) /\ q = t.quantity
    BY <1>1, <1>2, Editing DEF LineOps
  <2> l[1] = t.notice /\ l[2] = t.revision
    BY <2>1 DEF LineOf
  <2>2. l[2] = notice[l[1]].current
    BY <1>1, <1>2, Editing, ZenonT(30) DEF LineOps
  <2>3. PICK a : a = [status |-> "HELD", quantity |-> q]
    OBVIOUS
  <2>4. a.quantity = q /\ a.status \in ActiveAllocationStatuses
    BY <2>3 DEF ActiveAllocationStatuses
  <2>5. Fits(l, q) /\ notice' = notice /\ allocation' = [allocation EXCEPT ![l] = a]
    BY <1>1, <1>4, <2>1, <2>3 DEF AddLine
  <2> QED
    BY <2>2, <2>4, <2>5, QuantitySet
<1> QED
  BY <1>3, <1>4

LEMMA UpdateLineAnnounces ==
  ASSUME AllocationInv, AllocationInv', NEW w \in Workers, UpdateLine(w)
  PROVE  Pool!Next
<1>1. PICK t \in Request : t = txn[w]
  BY AtStep
<1>2. t.op = "update_line" /\ t.pc = "allocation"
  BY <1>1 DEF UpdateLine, At
<1>3. CASE Refuse(w)
  BY <1>3, NothingAdded DEF Refuse, IsActive
<1>4. CASE ~Refuse(w)
  <2>1. PICK l \in Lines, q \in Quantities : l = LineOf(t) /\ q = t.quantity
    BY <1>1, <1>2, Editing DEF LineOps
  <2> l[1] = t.notice /\ l[2] = t.revision
    BY <2>1 DEF LineOf
  <2>2. l[2] = notice[l[1]].current
    BY <1>1, <1>2, Editing, ZenonT(30) DEF LineOps
  <2>3. PICK a : a = [allocation[l] EXCEPT !.quantity = q]
    OBVIOUS
  <2>4. a.quantity = q /\ a.status = allocation[l].status
    BY <2>3, Typed DEF LineRow
  <2>5. Fits(l, q) /\ notice' = notice /\ allocation' = [allocation EXCEPT ![l] = a]
    BY <1>1, <1>4, <2>1, <2>3 DEF UpdateLine
  <2>6. CASE IsActive(l)
    BY <2>2, <2>4, <2>5, <2>6, QuantitySet DEF IsActive
  <2>7. CASE ~IsActive(l)
    <3>1. allocation'[l] = a /\ \A m \in Lines \ {l} : allocation'[m] = allocation[m]
      BY <2>5 DEF AllocationInv, TypeOK
    <3>2. \A m \in Lines : IsActive(m)' => m # l
      BY <2>4, <2>7, <3>1 DEF IsActive
    <3> QED
      BY <2>5, <3>1, <3>2, NothingAdded DEF IsActive
  <2> QED
    BY <2>6, <2>7
<1> QED
  BY <1>3, <1>4

\* What is held for the new revision is what the old one had.
LEMMA RevisionWithdraws ==
  ASSUME AllocationInv, AllocationInv', NEW w \in Workers, CreateRevisionAllocations(w)
  PROVE  Pool!Next
<1>1. PICK t \in Request : t = txn[w]
  BY AtStep
<1>2. t.op = "create_revision" /\ OwnsNotice(t)
  BY <1>1 DEF CreateRevisionAllocations, At, OwnsNotice, NoticeOps
<1>3. PICK n \in Notices, k \in Revisions : n = t.notice /\ k = t.revision
  BY <1>1, <1>2, Owner
<1>4. k = notice[n].current /\ k < MaxRevisions /\ RevisionsInOrder(n) /\ LinesMatch(n)
  BY <1>1, <1>2, <1>3, Owner, ZenonT(30) DEF Found, NoticeOps
<1>5. k \in Nat /\ k + 1 \in Revisions /\ k + 1 # k /\ k + 1 > k /\ (k + 1) - 1 = k
  BY <1>4, AllocationConstants DEF Revisions
<1>6. /\ notice' = [notice EXCEPT ![n].status = "DRAFT", ![n].current = k + 1]
      /\ CloneLines(n, k)
  BY <1>1, <1>3 DEF CreateRevisionAllocations
<1>7. notice'[n].current = k + 1 /\ \A m \in Notices \ {n} : notice'[m] = notice[m]
  BY <1>5, <1>6, Typed DEF AllocationInv, TypeOK, NoticeRow
<1>8. ASSUME NEW p \in OrderLines
      PROVE  Announced(n, p)' \in {0, Announced(n, p)}
  <2>1. PICK l \in Lines, m \in Lines : l = <<n, k + 1, p>> /\ m = <<n, k, p>>
    BY <1>5, LineMember
  <2>2. Previous(l) = m
    BY <1>5, <2>1 DEF Previous
  <2>3. allocation[l].status = None
    BY <1>4, <1>5, <2>1 DEF RevisionsInOrder
  <2>4. ~IsActive(l)
    BY <2>3, StatusesNotNone DEF IsActive, ActiveAllocationStatuses
  <2>5. allocation'[l] = IF line[m].status = "EXPECTED" /\ IsActive(m)
                         THEN [status |-> "HELD", quantity |-> line[m].quantity]
                         ELSE allocation[l]
    BY <1>5, <1>6, <2>1, <2>2, <2>4 DEF CloneLines
  <2>6. IsActive(l)' => IsActive(m) /\ allocation'[l].quantity = line[m].quantity
    BY <2>4, <2>5 DEF IsActive
  <2>7. IsActive(m) => line[m].quantity = allocation[m].quantity
    BY <1>4, <2>1 DEF LinesMatch
  <2>8. Announced(n, p)' = IF IsActive(l)' THEN allocation'[l].quantity ELSE 0
    BY <1>7, <2>1 DEF Announced, IsActive
  <2>9. Announced(n, p) = IF IsActive(m) THEN allocation[m].quantity ELSE 0
    BY <1>4, <2>1 DEF Announced
  <2> QED
    BY <2>6, <2>7, <2>8, <2>9
<1>9. ASSUME NEW m \in Notices \ {n}, NEW p \in OrderLines
      PROVE  Announced(m, p)' = Announced(m, p)
  <2>1. PICK l \in Lines : l = <<m, notice[m].current, p>>
    BY AnnouncedType
  <2>2. allocation'[l] = allocation[l]
    BY <1>6, <1>9, <2>1 DEF CloneLines
  <2> QED
    BY <1>7, <2>1, <2>2 DEF Announced, IsActive
<1> QED
  BY <1>8, <1>9, Withdrawing

\* The other steps change the status of allocations, at most to release them.
LEMMA CancelLineWithdraws ==
  ASSUME AllocationInv, AllocationInv', NEW w \in Workers, CancelLine(w)
  PROVE  Pool!Next
<1>1. PICK t \in Request : t = txn[w]
  BY AtStep
<1>2. t.op = "cancel_line" /\ t.pc = "allocation"
  BY <1>1 DEF CancelLine, At
<1>3. PICK l \in Lines : l = LineOf(t)
  BY <1>1, <1>2, Editing DEF LineOps
<1>4. /\ notice' = notice
      /\ allocation' = IF IsActive(l) THEN [allocation EXCEPT ![l].status = "RELEASED"]
                       ELSE allocation
  BY <1>1, <1>3 DEF CancelLine
<1>5. \A m \in Lines : IsActive(m)' => allocation'[m] = allocation[m]
  BY <1>4, Typed DEF AllocationInv, TypeOK, LineRow, IsActive, ActiveAllocationStatuses
<1> QED
  BY <1>4, <1>5, NothingAdded DEF IsActive

LEMMA SubmissionWithdraws ==
  ASSUME AllocationInv, AllocationInv', NEW w \in Workers, SubmitAllocations(w)
  PROVE  Pool!Next
<1>1. PICK t \in Request : t = txn[w]
  BY AtStep
<1>2. PICK L : L = HeldOf(t.notice, t.revision)
  OBVIOUS
<1>3. /\ notice' = [notice EXCEPT ![t.notice].status = "SUBMITTED"]
      /\ allocation' = [l \in Lines |-> IF l \in L
                          THEN [allocation[l] EXCEPT !.status = "ACTIVE"] ELSE allocation[l]]
  BY <1>1, <1>2 DEF SubmitAllocations
<1>4. \A n \in Notices : notice'[n].current = notice[n].current
  BY <1>3, Typed DEF AllocationInv, TypeOK, NoticeRow
<1>5. ASSUME NEW l \in Lines
      PROVE  /\ allocation'[l].quantity = allocation[l].quantity
             /\ IsActive(l)' => IsActive(l)
  BY <1>2, <1>3, Typed DEF LineRow, HeldOf, IsActive, ActiveAllocationStatuses
<1> QED
  BY <1>4, <1>5, NothingAdded

LEMMA CancellationWithdraws ==
  ASSUME AllocationInv, AllocationInv', NEW w \in Workers, CancelNoticeAllocations(w)
  PROVE  Pool!Next
<1>1. PICK t \in Request : t = txn[w]
  BY AtStep
<1>2. PICK L : L = {l \in ActiveAllocations : l[1] = t.notice}
  OBVIOUS
<1>3. /\ notice' = [notice EXCEPT ![t.notice].status = "CANCELLED",
                                  ![t.notice].announced = TRUE]
      /\ allocation' = [l \in Lines |-> IF l \in L
                          THEN [allocation[l] EXCEPT !.status = "RELEASED"] ELSE allocation[l]]
  BY <1>1, <1>2 DEF CancelNoticeAllocations
<1>4. \A n \in Notices : notice'[n].current = notice[n].current
  BY <1>3, Typed DEF AllocationInv, TypeOK, NoticeRow
<1>5. ASSUME NEW l \in Lines
      PROVE  /\ allocation'[l].quantity = allocation[l].quantity
             /\ IsActive(l)' => IsActive(l)
  BY <1>3, Typed DEF LineRow, IsActive, ActiveAllocationStatuses
<1> QED
  BY <1>4, <1>5, NothingAdded

LEMMA ReconciliationWithdraws ==
  ASSUME AllocationInv, AllocationInv', Reconcile
  PROVE  Pool!Next
<1>1. ASSUME NEW l \in Lines
      PROVE  /\ allocation'[l].quantity = allocation[l].quantity
             /\ IsActive(l)' => IsActive(l)
  <2>1. allocation[l] \in LineRow(AllocationStatuses)
    BY Typed
  <2>2. allocation'[l] = IF l \in batch THEN [allocation[l] EXCEPT !.status = Target(l)]
                         ELSE allocation[l]
    BY DEF Reconcile
  <2>3. l \in batch => IsActive(l)
    BY DEF AllocationInv, BatchActive, ActiveAllocations
  <2> QED
    BY <2>1, <2>2, <2>3 DEF LineRow, IsActive
<1> QED
  BY <1>1, NothingAdded DEF Reconcile

\* Status and booking are all that the others write of a notice.
LEMMA NoticeWithdraws ==
  ASSUME AllocationInv, AllocationInv', allocation' = allocation,
         \A n \in Notices : notice'[n].current = notice[n].current
  PROVE  Pool!Next
  BY NothingAdded DEF IsActive

LEMMA ConfirmationWithdraws ==
  ASSUME AllocationInv, AllocationInv', NEW w \in Workers, ConfirmRevision(w)
  PROVE  Pool!Next
<1>1. PICK t \in Request : t = txn[w]
  BY AtStep
<1>2. /\ notice' = [notice EXCEPT ![t.notice].status = "CONFIRMED",
                                  ![t.notice].booking = "confirmed"]
      /\ allocation' = allocation
  BY <1>1 DEF ConfirmRevision
<1>3. \A n \in Notices : notice'[n].current = notice[n].current
  BY <1>2, Typed DEF AllocationInv, TypeOK, NoticeRow
<1> QED
  BY <1>2, <1>3, NoticeWithdraws

LEMMA CalendarWithdraws ==
  ASSUME AllocationInv, AllocationInv', NEW n \in Notices,
         \/ PlaceHold(n) \/ HoldEnds(n) \/ CreateAppointment(n) \/ CancelAppointment(n)
         \/ \E target \in NoticeStatuses : Review(n, target)
  PROVE  Pool!Next
<1>1. allocation' = allocation
  BY DEF PlaceHold, HoldEnds, CreateAppointment, CancelAppointment, Review, Book
<1>2. \A m \in Notices : notice'[m].current = notice[m].current
  BY Typed, SMTT(30) DEF PlaceHold, HoldEnds, CreateAppointment, CancelAppointment, Review, Book,
               AllocationInv, TypeOK, NoticeRow
<1> QED
  BY <1>1, <1>2, NoticeWithdraws

LEMMA ServerWithdraws ==
  ASSUME AllocationInv, AllocationInv', NEW w \in Workers, Serve(w) \/ Advance(w) \/ Crash(w)
  PROVE  Pool!Next
<1>1. CASE Serve(w)
  BY <1>1, NoticeWithdraws, ZenonT(30)
  DEF Serve, EditLine, Submit, CreateRevision, CancelNotice, Confirm, OnNotice, Start
<1>2. CASE Crash(w) \/ DeadlockVictim(w)
  BY <1>2, NoticeWithdraws DEF Crash, DeadlockVictim, Refuse
<1>3. CASE EditLineNotice(w) \/ UpdateLineOrder(w) \/ SubmitRevision(w) \/ CreateRevisionOld(w)
  BY <1>3, NoticeWithdraws
  DEF EditLineNotice, UpdateLineOrder, SubmitRevision, CreateRevisionOld, Refuse, Take
<1> QED
  BY <1>1, <1>2, <1>3, AddLineAnnounces, UpdateLineAnnounces, CancelLineWithdraws,
     SubmissionWithdraws, RevisionWithdraws, CancellationWithdraws, ConfirmationWithdraws
  DEF Advance

LEMMA PoolStep ==
  AllocationInv /\ AllocationInv' /\ [Next]_vars => Pool!Next
<1> SUFFICES ASSUME AllocationInv, AllocationInv', [Next]_vars
             PROVE  Pool!Next
  OBVIOUS
<1>1. CASE BeginReconcile \/ JobCrashes \/ UNCHANGED vars
  BY <1>1, NoticeWithdraws DEF BeginReconcile, JobCrashes, vars
<1> QED
  BY <1>1, ServerWithdraws, CalendarWithdraws, ReconciliationWithdraws, AllocationConstants
  DEF Next

LEMMA PoolInit == Init => Pool!Init
<1> SUFFICES ASSUME Init
             PROVE  Pool!Init
  OBVIOUS
<1>1. ASSUME NEW n \in Notices, NEW p \in OrderLines
      PROVE  Announced(n, p) = 0
  <2>1. PICK l \in Lines : l = <<n, notice[n].current, p>>
    BY AllocationInit, AnnouncedType
  <2>2. allocation[l].status = None
    BY DEF Init, NoLine
  <2> QED
    BY <2>1, <2>2, StatusesNotNone DEF Announced, IsActive, ActiveAllocationStatuses
<1> QED
  BY <1>1 DEF Pool!Init

\* Every step gives units of the order back, or adds some within the order.
THEOREM AllocationsKeepOrder == Spec => ImplementsOrderedQuantity
  BY PoolInit, PoolStep, AllocationInvariance, PTL DEF Spec, ImplementsOrderedQuantity, Pool!Spec
-----------------------------------------------------------------------------
(* The promise of OrderedQuantity, and what it says of the allocations. *)

\* The units of order line p, if notice m announces a[m].
UnitsIn(a) == UNION {{m} \X (1 .. a[m]) : m \in Notices}

LEMMA UnitMember ==
  ASSUME NEW a, NEW u
  PROVE  u \in UnitsIn(a) <=> \E m \in Notices : \E i \in 1 .. a[m] : u = <<m, i>>
  BY DEF UnitsIn

\* Fewer units in a subset.
LEMMA FewerUnits ==
  ASSUME NEW S, NEW T \in SUBSET S, IsFiniteSet(S), NEW k \in Nat, Cardinality(S) <= k
  PROVE  IsFiniteSet(T) /\ Cardinality(T) <= k
<1>1. Cardinality(S) \in Nat /\ IsFiniteSet(T) /\ Cardinality(T) <= Cardinality(S)
  BY FS_Subset, FS_CardinalityType
<1>2. Cardinality(T) \in Nat
  BY <1>1, FS_CardinalityType
<1> QED
  BY <1>1, <1>2

\* Withdrawing leaves no more units.
LEMMA UnitsWithdrawn ==
  ASSUME NEW a \in [Notices -> Nat], NEW b \in [Notices -> Nat],
         \A m \in Notices : b[m] \in {0, a[m]}
  PROVE  UnitsIn(b) \subseteq UnitsIn(a)
  BY UnitMember

\* The units of all are those of the others and those of one.
LEMMA UnitsOfOneMore ==
  ASSUME NEW a \in [Notices -> Nat], NEW n \in Notices, NEW q \in Nat,
         NEW b, b = [a EXCEPT ![n] = q], NEW k \in Nat,
         IsFiniteSet(UnitsIn(a)),
         Cardinality(UNION {{m} \X (1 .. a[m]) : m \in Notices \ {n}}) + q <= k
  PROVE  IsFiniteSet(UnitsIn(b)) /\ Cardinality(UnitsIn(b)) <= k
<1> DEFINE others == UNION {{m} \X (1 .. a[m]) : m \in Notices \ {n}}
           own == {n} \X (1 .. q)
<1>1. others \subseteq UnitsIn(a)
  BY DEF UnitsIn
<1>2. IsFiniteSet(others) /\ Cardinality(others) \in Nat
  BY <1>1, FS_Subset, FS_CardinalityType
<1>3. IsFiniteSet(own) /\ Cardinality(own) = q
  <2>1. IsFiniteSet(1 .. q) /\ Cardinality(1 .. q) = q
    BY FS_Interval
  <2>2. IsFiniteSet({n}) /\ Cardinality({n}) = 1
    BY FS_Singleton
  <2>3. IsFiniteSet(own) /\ Cardinality(own) = Cardinality({n}) * Cardinality(1 .. q)
    BY <2>1, <2>2, FS_Product
  <2> QED
    BY <2>1, <2>2, <2>3
<1>4. UnitsIn(b) = others \cup own
  <2>1. \A u : u \in others <=> \E m \in Notices \ {n} : \E i \in 1 .. a[m] : u = <<m, i>>
    OBVIOUS
  <2>2. \A u : u \in own <=> \E i \in 1 .. q : u = <<n, i>>
    OBVIOUS
  <2>3. b[n] = q /\ \A m \in Notices \ {n} : b[m] = a[m]
    OBVIOUS
  <2> HIDE DEF others, own
  <2>4. ASSUME NEW u \in UnitsIn(b)
        PROVE  u \in others \/ u \in own
    <3>1. PICK m \in Notices : \E i \in 1 .. b[m] : u = <<m, i>>
      BY UnitMember
    <3> QED
      BY <2>1, <2>2, <2>3, <3>1
  <2>5. ASSUME NEW u, u \in others \/ u \in own
        PROVE  u \in UnitsIn(b)
    <3>1. \E m \in Notices : \E i \in 1 .. b[m] : u = <<m, i>>
      BY <2>1, <2>2, <2>3, <2>5
    <3> QED
      BY <3>1, UnitMember
  <2> QED
    BY <2>4, <2>5
<1> HIDE DEF others, own
<1>5. /\ IsFiniteSet(others \cup own)
      /\ Cardinality(others \cup own)
           = Cardinality(others) + Cardinality(own) - Cardinality(others \cap own)
  BY <1>2, <1>3, FS_Union
<1>6. Cardinality(others \cap own) \in Nat
  BY <1>2, FS_Intersection, FS_CardinalityType
<1>7. Cardinality(others) + q <= k
  BY DEF others
<1>8. Cardinality(UnitsIn(b)) = Cardinality(others) + q - Cardinality(others \cap own)
  BY <1>3, <1>4, <1>5
<1>9. PICK i, j \in Nat : i = Cardinality(others) /\ j = Cardinality(others \cap own)
  BY <1>2, <1>6
<1>10. Cardinality(UnitsIn(b)) = i + q - j /\ i + q <= k
  BY <1>7, <1>8, <1>9
<1>11. Cardinality(UnitsIn(b)) <= k
  BY <1>10
<1> QED
  BY <1>4, <1>5, <1>11

\* What the notices announce of order line p.
Column(p) == [m \in Notices |-> Announced(m, p)]

LEMMA ColumnUnits ==
  ASSUME AllocationInv, NEW p \in OrderLines
  PROVE  /\ Column(p) \in [Notices -> Nat]
         /\ Pool!UnitsOf(p) = UnitsIn(Column(p))
         /\ \A n \in Notices :
              Pool!OthersUnits(n, p) = UNION {{m} \X (1 .. Column(p)[m]) : m \in Notices \ {n}}
<1>1. \A m \in Notices : [n \in Notices |-> [r \in OrderLines |-> Announced(n, r)]][m][p]
                           = Column(p)[m]
  BY DEF Column
<1>2. Column(p) \in [Notices -> Nat]
  BY AnnouncedType DEF Column
<1>3. Pool!UnitsOf(p) = UnitsIn(Column(p))
  BY <1>1 DEF Pool!UnitsOf, UnitsIn
<1>4. \A n \in Notices :
        Pool!OthersUnits(n, p) = UNION {{m} \X (1 .. Column(p)[m]) : m \in Notices \ {n}}
  BY <1>1 DEF Pool!OthersUnits
<1> QED
  BY <1>2, <1>3, <1>4

\* The active allocations of an order line.
AllocationsOf(p) == {l \in ActiveAllocations : l[3] = p}

\* The units allocated are the units announced.
LEMMA AllocatedIsAnnounced ==
  ASSUME AllocationInv, NEW p \in OrderLines
  PROVE  /\ IsFiniteSet(UnitsIn(Column(p)))
         /\ Cardinality(Units(AllocationsOf(p))) = Cardinality(UnitsIn(Column(p)))
<1> DEFINE S == UnitsIn(Column(p))
           T == Units(AllocationsOf(p))
           LineAt(m) == <<m, notice[m].current, p>>
<1>1. ASSUME NEW l \in AllocationsOf(p)
      PROVE  /\ l \in Lines /\ l[1] \in Notices /\ l = LineAt(l[1])
             /\ Column(p)[l[1]] = allocation[l].quantity
  <2>1. l \in Lines /\ IsActive(l) /\ l[3] = p
    BY DEF AllocationsOf, ActiveAllocations
  <2>2. l[1] \in Notices /\ l = <<l[1], l[2], l[3]>>
    BY <2>1, LineMember
  <2>3. l[2] = notice[l[1]].current
    BY <1>1, LinesOfAllNotices DEF AllocationsMatchLines, AllocationsOf
  <2>4. l = LineAt(l[1])
    BY <2>1, <2>2, <2>3
  <2>5. Announced(l[1], p) = allocation[l].quantity
    BY <2>1, <2>4 DEF Announced
  <2> QED
    BY <2>1, <2>2, <2>4, <2>5 DEF Column
<1>2. ASSUME NEW m \in Notices, NEW i \in 1 .. Column(p)[m]
      PROVE  <<LineAt(m), i>> \in T
  <2>1. Column(p)[m] = Announced(m, p)
    BY DEF Column
  <2>2. Announced(m, p) # 0
    BY <2>1, AnnouncedType
  <2>3. /\ LineAt(m) \in Lines /\ IsActive(LineAt(m))
        /\ Announced(m, p) = allocation[LineAt(m)].quantity
    BY <2>2, AnnouncedType
  <2>4. LineAt(m) \in AllocationsOf(p)
    BY <2>3 DEF AllocationsOf, ActiveAllocations
  <2> QED
    BY <2>1, <2>3, <2>4 DEF Units
<1>3. \A v \in T : \E l \in AllocationsOf(p) : \E i \in 1 .. allocation[l].quantity : v = <<l, i>>
  BY DEF Units
<1>4. IsFiniteSet(T)
  BY UnitsFinite DEF AllocationsOf, ActiveAllocations
<1> DEFINE f == [u \in S |-> <<LineAt(u[1]), u[2]>>]
<1> HIDE DEF S, T
<1>5. f \in Bijection(S, T)
  <2>1. ASSUME NEW u \in S
        PROVE  f[u] \in T
    BY <1>2, UnitMember DEF S
  <2>2. ASSUME NEW u \in S, NEW v \in S, f[u] = f[v]
        PROVE  u = v
    <3>1. PICK m, i : m \in Notices /\ u = <<m, i>>
      BY UnitMember DEF S
    <3>2. PICK r, j : r \in Notices /\ v = <<r, j>>
      BY UnitMember DEF S
    <3>3. <<LineAt(m), i>> = <<LineAt(r), j>>
      BY <2>2, <3>1, <3>2
    <3> QED
      BY <3>1, <3>2, <3>3
  <2>3. ASSUME NEW v \in T
        PROVE  \E u \in S : f[u] = v
    <3>1. PICK l \in AllocationsOf(p) : \E i \in 1 .. allocation[l].quantity : v = <<l, i>>
      BY <1>3
    <3>2. PICK i \in 1 .. allocation[l].quantity : v = <<l, i>>
      BY <3>1
    <3>3. <<l[1], i>> \in S
      BY <1>1, <3>2, UnitMember DEF S
    <3>4. f[<<l[1], i>>] = v
      BY <1>1, <3>2, <3>3
    <3> QED
      BY <3>3, <3>4
  <2> QED
    BY <2>1, <2>2, <2>3 DEF Bijection, Injection, Surjection, IsInjective
<1>6. f \in Injection(S, T) /\ f \in Surjection(S, T)
  BY <1>5 DEF Bijection
<1>7. IsFiniteSet(S) /\ (Cardinality(S) = Cardinality(T) <=> f \in Surjection(S, T))
  BY <1>4, <1>6, FS_Injection
<1> QED
  BY <1>6, <1>7 DEF S, T

LEMMA UnitsAgree ==
  AllocationInv =>
    \A p \in OrderLines :
      /\ Column(p) \in [Notices -> Nat]
      /\ Cardinality(Units(AllocationsOf(p))) = Cardinality(UnitsIn(Column(p)))
  BY AllocatedIsAnnounced, ColumnUnits

LEMMA UnitsAgreeNext ==
  AllocationInv' =>
    (\A p \in OrderLines :
       /\ Column(p) \in [Notices -> Nat]
       /\ Cardinality(Units(AllocationsOf(p))) = Cardinality(UnitsIn(Column(p))))'
  BY UnitsAgree, PTL

\* Announcing and withdrawing keep the sum over all notices within the order.
LEMMA WithinOrderStep ==
  ASSUME AllocationInv, AllocationInv', AllocatedWithinOrder, Pool!Next
  PROVE  AllocatedWithinOrder'
<1> SUFFICES ASSUME NEW p \in OrderLines
             PROVE  Cardinality(Units(AllocationsOf(p)))' <= Ordered[p]
  BY DEF AllocatedWithinOrder, AllocationsOf
<1>1. /\ IsFiniteSet(UnitsIn(Column(p))) /\ Column(p) \in [Notices -> Nat]
      /\ Cardinality(UnitsIn(Column(p))) <= Ordered[p] /\ Ordered[p] \in Nat
  BY AllocatedIsAnnounced, ColumnUnits, AllocationConstants DEF AllocatedWithinOrder, AllocationsOf
<1>2. Column(p)' \in [Notices -> Nat]
  BY UnitsAgreeNext
<1>3. Cardinality(Units(AllocationsOf(p)))' = Cardinality(UnitsIn(Column(p)'))
  BY UnitsAgreeNext DEF UnitsIn
<1>4. ASSUME Pool!Withdraw
      PROVE  Cardinality(UnitsIn(Column(p)')) <= Ordered[p]
  <2>1. \A m \in Notices : Column(p)'[m] \in {0, Column(p)[m]}
    BY <1>4 DEF Pool!Withdraw, Column
  <2>2. UnitsIn(Column(p)') \subseteq UnitsIn(Column(p))
    BY <1>1, <1>2, <2>1, UnitsWithdrawn
  <2> QED
    BY <1>1, <2>2, FewerUnits
<1>5. ASSUME NEW n \in Notices, NEW r \in OrderLines, NEW q \in Quantities, Pool!Announce(n, r, q)
      PROVE  Cardinality(UnitsIn(Column(p)')) <= Ordered[p]
  <2>1. \A m \in Notices :
          Column(p)'[m] = IF m = n /\ p = r THEN q ELSE Column(p)[m]
    <3> DEFINE old == [m \in Notices |-> [o \in OrderLines |-> Announced(m, o)]]
               new == [m \in Notices |-> [o \in OrderLines |-> Announced(m, o)']]
    <3>1. new = [old EXCEPT ![n][r] = q]
      BY <1>5 DEF Pool!Announce
    <3>2. \A m \in Notices : old[m][p] = Column(p)[m] /\ new[m][p] = Column(p)'[m]
      BY DEF Column
    <3>3. old = [m \in Notices |-> old[m]] /\ old[n] = [o \in OrderLines |-> old[n][o]]
      OBVIOUS
    <3> HIDE DEF old, new
    <3>4. \A m \in Notices : new[m][p] = IF m = n /\ p = r THEN q ELSE old[m][p]
      <4>1. new[n] = [old[n] EXCEPT ![r] = q] /\ \A m \in Notices \ {n} : new[m] = old[m]
        BY <3>1, <3>3
      <4>2. new[n][p] = IF p = r THEN q ELSE old[n][p]
        BY <4>1, <3>3
      <4> QED
        BY <4>1, <4>2
    <3> SUFFICES ASSUME NEW m \in Notices
                 PROVE  Column(p)'[m] = IF m = n /\ p = r THEN q ELSE Column(p)[m]
      OBVIOUS
    <3>5. old[m][p] = Column(p)[m] /\ new[m][p] = Column(p)'[m]
      BY <3>2
    <3>6. new[m][p] = IF m = n /\ p = r THEN q ELSE old[m][p]
      BY <3>4
    <3> QED
      BY <3>5, <3>6
  <2>2. CASE p # r
    <3>1. Column(p)' = Column(p)
      BY <1>1, <1>2, <2>1, <2>2
    <3> QED
      BY <1>1, <3>1
  <2>3. CASE p = r
    <3>1. Column(p)' = [Column(p) EXCEPT ![n] = q]
      BY <1>1, <1>2, <2>1, <2>3
    <3>2. Cardinality(UNION {{m} \X (1 .. Column(p)[m]) : m \in Notices \ {n}}) + q <= Ordered[p]
      BY <1>5, <2>3, ColumnUnits, SameCardinality DEF Pool!Announce
    <3>3. q \in Nat
      BY AllocationConstants
    <3> QED
      BY <1>1, <3>1, <3>2, <3>3, UnitsOfOneMore
  <2> QED
    BY <2>2, <2>3
<1> QED
  BY <1>3, <1>4, <1>5 DEF Pool!Next

LEMMA WithinOrderInit == Init => AllocatedWithinOrder
<1> SUFFICES ASSUME Init, NEW p \in OrderLines
             PROVE  Cardinality(Units({l \in ActiveAllocations : l[3] = p})) <= Ordered[p]
  BY DEF AllocatedWithinOrder
<1>1. ActiveAllocations = {}
  BY StatusesNotNone DEF Init, NoLine, ActiveAllocations, IsActive, ActiveAllocationStatuses
<1>2. Units({l \in ActiveAllocations : l[3] = p}) = {}
  BY <1>1 DEF Units
<1>3. Ordered[p] \in Nat /\ 0 <= Ordered[p]
  BY AllocationConstants
<1> QED
  BY <1>2, <1>3, FS_EmptySet

\* The allocations of an order line, of all notices and revisions, never come
\* to more than was ordered.
THEOREM OrderNeverExceeded == Spec => []AllocatedWithinOrder
  BY WithinOrderInit, WithinOrderStep, PoolStep, AllocationInvariance, PTL DEF Spec
=============================================================================
