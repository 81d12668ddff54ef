-------------------------- MODULE ArrivalInvariant --------------------------
(***************************************************************************)
(* The inductive invariant of ArrivalAllocations: what a notice keeps      *)
(* between the steps of requests, and what a request can rely on.          *)
(***************************************************************************)
EXTENDS ArrivalAllocations

LineOps == {"add_line", "update_line", "cancel_line"}

NoticeOps == {"submit", "create_revision", "cancel_notice", "confirm"}

\* The request has locked the row of its notice.
OwnsNotice(t) == t.op \in NoticeOps \/ (t.op \in LineOps /\ t.pc # "notice")

\* A request names what its operation works on.
Names(t) ==
  /\ t.op = "none" => t = Idle
  /\ t.op # "none" => t.notice \in Notices /\ t.revision \in Revisions
  /\ t.op \in LineOps =>
       t.order \in OrderLines /\ t.pc \in {"notice", "order", "allocation"}
  /\ t.op \in {"add_line", "update_line"} => t.quantity \in Quantities
  /\ t.op \in NoticeOps => t.pc \in {"revision", "allocations"}

\* What a request has found of its notice.
Found(t) ==
  LET n == t.notice IN
  /\ t.op \in LineOps => revision[n][t.revision] = "EDITABLE"
  /\ t.op \in NoticeOps => t.revision = notice[n].current
  /\ t.op = "submit" /\ t.pc = "allocations" => revision[n][t.revision] = "EDITABLE"
  /\ t.op = "create_revision" =>
       notice[n].status = "REQUIRES_CHANGES" /\ notice[n].current < MaxRevisions
  /\ t.op = "confirm" => notice[n].booking = "proposed"

\* It stays so while the request owns the notice.
Relies(w, t) ==
  OwnsNotice(t) => lock[<<"notice", t.notice>>] = w /\ Found(t)

RequestsRely == \A w \in Workers : Names(txn[w]) /\ Relies(w, txn[w])

\* Only the active revision is edited, and only before the notice is submitted
\* or behind its cancellation; nothing exists of the revisions to come.
RevisionsInOrder(n) ==
  /\ \A k \in Revisions : revision[n][k] = "EDITABLE" =>
       k = notice[n].current /\ notice[n].status \in {"DRAFT", "CANCELLED"}
  /\ \A k \in Revisions : k > notice[n].current => revision[n][k] = None
  /\ \A l \in Lines : l[1] = n /\ l[2] > notice[n].current =>
       line[l].status = None /\ allocation[l].status = None
  /\ notice[n].booking # "none" =>
       /\ revision[n][notice[n].current] # "EDITABLE"
       /\ notice[n].status \in {"READY_FOR_SCHEDULING", "SCHEDULED", "CONFIRMED", "CANCELLED"}
  /\ notice[n].status = "CANCELLED" => notice[n].announced

\* AllocationsMatchLines, of the lines of one notice.
LinesMatch(n) ==
  /\ \A l \in Lines : l[1] = n /\ IsActive(l) =>
       /\ line[l].status = "EXPECTED" /\ line[l].quantity = allocation[l].quantity
       /\ l[2] = notice[n].current
       /\ allocation[l].status = "HELD" <=> revision[n][notice[n].current] = "EDITABLE"
  /\ ~notice[n].announced => ExpectedLines(n) \subseteq ActiveAllocations

NoticesInOrder == \A n \in Notices : RevisionsInOrder(n) /\ LinesMatch(n)

\* The job only holds what is active.
BatchActive == batch \subseteq ActiveAllocations

AllocationInv ==
  /\ TypeOK
  /\ RequestsRely
  /\ NoticesInOrder
  /\ BatchActive
=============================================================================
