------------------------- MODULE ApprovalInvariant --------------------------
(***************************************************************************)
(* The inductive invariant of Approvals: how the rows of a request relate, *)
(* and what a transaction still knows of them when it comes to write.      *)
(***************************************************************************)
EXTENDS Approvals

VerdictOf(t) == Verdict(t.request, t.counted, t.step, t.vote)

\* The transaction names an assignment of a request that exists.
Names(t) ==
  /\ t.request \in Requests /\ request[t.request].status # None
  /\ t.step \in Steps(t.request)
  /\ t.place \in 1 .. Len(Approvers(t.request, t.step))
  /\ t.vote \in Votes

\* What it has read can be old, but nothing of it is undone: decisions are only
\* added, and a step never goes back to PENDING.
Knows(t) ==
  /\ t.pc \in {"duties", "votes", "next", "seal", "commit"} => t.step \in Opened(t.request)
  /\ t.pc \in {"next", "seal", "commit"} => t.counted <= Recorded(t.request)
  /\ t.pc = "next" => Opening(t, VerdictOf(t))
  /\ t.pc = "seal" => Settling(t, VerdictOf(t))
  /\ t.pc = "commit" /\ Opening(t, VerdictOf(t)) =>
       t.next = "PENDING" \/ t.step + 1 \in Opened(t.request)
  /\ t.pc = "commit" /\ Settling(t, VerdictOf(t)) =>
       t.counted <= t.sealed /\ t.sealed <= Recorded(t.request)

Reliable(t) == t.pc \in {"idle", "insert"} \/ (Names(t) /\ Knows(t))

\* The last step that is open is active while the request is in progress.
LastOpenIsActive(r) ==
  request[r].status = "IN_PROGRESS" =>
    \E k \in Steps(r) : step[r][k] = "ACTIVE" /\ \A j \in Opened(r) : j <= k

RefusalSettlesIn(r) ==
  \A i \in 1 .. Recorded(r) :
    decision[r][i].vote \in Refusals => request[r].status # "IN_PROGRESS"

SealInOrder(r) ==
  LET seal == request[r].seal IN
  seal # None =>
    /\ seal.status = request[r].status
    /\ \E i \in seal.covers + 1 .. Recorded(r) : Decides(r, seal, i)

DecisionsInOrder(r) ==
  /\ request[r].status = None => decision[r] = <<>>
  /\ \A i \in 1 .. Recorded(r) : decision[r][i].step \in Steps(r)

RequestInOrder(r) ==
  /\ DecisionsInOrder(r)
  /\ OutcomeEarnedBy(r)
  /\ RefusalSettlesIn(r)
  /\ LastOpenIsActive(r)
  /\ SealInOrder(r)

ApprovalInv ==
  /\ TypeOK
  /\ \A r \in Requests : RequestInOrder(r)
  /\ \A w \in Workers : Reliable(txn[w])
=============================================================================
