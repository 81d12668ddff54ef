--------------------------- MODULE ApprovalProofs ---------------------------
(***************************************************************************)
(* ApprovalInv is an inductive invariant of Approvals, and the requests    *)
(* implement ApprovalRule, for every number of requests, steps, approvers  *)
(* and workers.                                                            *)
(*                                                                         *)
(* A transaction counts the first decisions of its request; they stay the  *)
(* first, so that its verdict stays what it was, and a count of some of    *)
(* the decisions is no more than the count of all of them.                 *)
(***************************************************************************)
EXTENDS ApprovalInvariant, FiniteSetTheorems, SequenceTheorems, TLAPS

-----------------------------------------------------------------------------
(* Counting. *)

LEMMA VotesFinite ==
  ASSUME NEW r, NEW n \in Nat, NEW k, NEW v
  PROVE  /\ IsFiniteSet(VotesFor(r, n, k, v))
         /\ Cardinality(VotesFor(r, n, k, v)) \in Nat
<1>1. IsFiniteSet(1 .. n)
  BY FS_Interval
<1>2. VotesFor(r, n, k, v) \in SUBSET (1 .. n)
  BY DEF VotesFor
<1>3. IsFiniteSet(VotesFor(r, n, k, v))
  BY <1>1, <1>2, FS_Subset
<1> QED
  BY <1>3, FS_CardinalityType

LEMMA NeededType ==
  ASSUME TypeOK, NEW r \in Requests, request[r].status # None, NEW k \in Steps(r)
  PROVE  /\ request[r].chain \in Chains
         /\ request[r].chain[k] \in StepDefinition
         /\ Needed(request[r].chain[k]) \in Nat
<1>1. request[r] \in RequestRow
  BY DEF TypeOK, NoRequest
<1>2. request[r].chain \in Chains
  BY <1>1 DEF RequestRow
<1>3. request[r].chain[k] \in StepDefinition
  BY <1>2, ApprovalConstants DEF Steps
<1>4. PICK s \in StepDefinition : s = request[r].chain[k]
  BY <1>3
<1>5. Needed(s) \in Nat
  BY DEF Needed, StepDefinition, Smaller, Modes
<1> QED
  BY <1>2, <1>3, <1>4, <1>5

LEMMA RowTypes ==
  ASSUME TypeOK, NEW r \in Requests
  PROVE  /\ decision[r] \in Seq(DecisionRow) /\ Recorded(r) \in Nat
         /\ step[r] \in Seq(StepStatuses) /\ Len(request[r].chain) \in Nat
         /\ \A k \in Steps(r) : step[r][k] \in StepStatuses
         /\ Steps(r) = 1 .. Len(step[r])
         /\ request[r].status = None => request[r] = NoRequest
         /\ request[r].status # None => request[r] \in RequestRow
<1>1. decision[r] \in Seq(DecisionRow) /\ step[r] \in Seq(StepStatuses)
  BY DEF TypeOK
<1>2. Len(request[r].chain) = Len(step[r])
  BY DEF TypeOK
<1>3. request[r].status = None => request[r] = NoRequest
  <2>1. ASSUME request[r] \in RequestRow
        PROVE  request[r].status # None
    BY <2>1, ApprovalConstants DEF RequestRow
  <2> QED
    BY <2>1 DEF TypeOK
<1>4. request[r].status # None => request[r] \in RequestRow
  BY DEF TypeOK, NoRequest
<1> QED
  BY <1>1, <1>2, <1>3, <1>4 DEF Steps, Recorded

-----------------------------------------------------------------------------
(* What no step takes from a request that exists. *)

Kept(r) ==
  /\ request'[r].chain = request[r].chain /\ request'[r].status # None
  /\ Recorded(r) <= Recorded(r)'
  /\ \A i \in 1 .. Recorded(r) : decision'[r][i] = decision[r][i]
  /\ Opened(r) \subseteq Opened(r)'

LEMMA VotesKept ==
  ASSUME TypeOK, NEW r \in Requests, Kept(r), NEW n \in Nat, n <= Recorded(r),
         NEW k, NEW v
  PROVE  VotesFor(r, n, k, v)' = VotesFor(r, n, k, v)
<1>1. \A i \in 1 .. n : decision'[r][i] = decision[r][i]
  BY RowTypes DEF Kept
<1> QED
  BY <1>1 DEF VotesFor

\* The first m decisions are among the first n of the next state.
LEMMA VotesMonotone ==
  ASSUME TypeOK, NEW r \in Requests, Kept(r), NEW m \in Nat, m <= Recorded(r),
         NEW n \in Nat, m <= n, NEW k, NEW v
  PROVE  /\ VotesFor(r, m, k, v) \subseteq VotesFor(r, n, k, v)'
         /\ Cardinality(VotesFor(r, m, k, v)) <= Cardinality(VotesFor(r, n, k, v)')
<1>1. IsFiniteSet(1 .. n)
  BY FS_Interval
<1>2. VotesFor(r, n, k, v)' \in SUBSET (1 .. n)
  BY DEF VotesFor
<1>3. IsFiniteSet(VotesFor(r, n, k, v)')
  BY <1>1, <1>2, FS_Subset
<1>4. VotesFor(r, m, k, v)' \in SUBSET VotesFor(r, n, k, v)'
  BY DEF VotesFor
<1>5. VotesFor(r, m, k, v)' = VotesFor(r, m, k, v)
  BY VotesKept
<1> QED
  BY <1>3, <1>4, <1>5, FS_Subset

\* One more decision for v.
LEMMA OneMoreVote ==
  ASSUME TypeOK, NEW r \in Requests, Kept(r), NEW m \in Nat, m <= Recorded(r),
         NEW n \in Nat, m <= n, NEW k, NEW v,
         decision'[r][n + 1].step = k, decision'[r][n + 1].vote = v
  PROVE  /\ n + 1 \in VotesFor(r, n + 1, k, v)'
         /\ Cardinality(VotesFor(r, m, k, v)) + 1 <= Cardinality(VotesFor(r, n + 1, k, v)')
<1> DEFINE old == VotesFor(r, m, k, v)
           new == VotesFor(r, n + 1, k, v)'
<1>1. n + 1 \in new /\ n + 1 \notin old
  BY DEF VotesFor
<1>2. IsFiniteSet(old)
  BY VotesFinite
<1>3. IsFiniteSet(new)
  <2>1. IsFiniteSet(1 .. n + 1)
    BY FS_Interval
  <2>2. new \in SUBSET (1 .. n + 1)
    BY DEF VotesFor
  <2> QED
    BY <2>1, <2>2, FS_Subset
<1>4. old \subseteq new
  BY VotesMonotone
<1> HIDE DEF old, new
<1>5. old \cup {n + 1} \in SUBSET new
  BY <1>1, <1>4
<1>6. Cardinality(old \cup {n + 1}) = Cardinality(old) + 1
  BY <1>1, <1>2, FS_AddElement
<1>7. Cardinality(old \cup {n + 1}) <= Cardinality(new)
  BY <1>3, <1>5, FS_Subset
<1> QED
  BY <1>1, <1>6, <1>7 DEF old, new

LEMMA StepsKept ==
  ASSUME NEW r, Kept(r)
  PROVE  Steps(r)' = Steps(r) /\ \A k : Approvers(r, k)' = Approvers(r, k)
  BY DEF Kept, Steps, Approvers

LEMMA VerdictKept ==
  ASSUME TypeOK, NEW r \in Requests, Kept(r), NEW n \in Nat, n <= Recorded(r),
         NEW k \in Steps(r), NEW v
  PROVE  /\ Approvals(r, n, k, v)' = Approvals(r, n, k, v)
         /\ Stands(r, n, k, v, "REJECT")' <=> Stands(r, n, k, v, "REJECT")
         /\ Stands(r, n, k, v, "RETURN_FOR_CHANGES")'
              <=> Stands(r, n, k, v, "RETURN_FOR_CHANGES")
         /\ Verdict(r, n, k, v)' = Verdict(r, n, k, v)
<1>1. /\ VotesFor(r, n, k, "APPROVE")' = VotesFor(r, n, k, "APPROVE")
      /\ VotesFor(r, n, k, "REJECT")' = VotesFor(r, n, k, "REJECT")
      /\ VotesFor(r, n, k, "RETURN_FOR_CHANGES")' = VotesFor(r, n, k, "RETURN_FOR_CHANGES")
  BY VotesKept
<1>2. Approvals(r, n, k, v)' = Approvals(r, n, k, v)
  BY <1>1 DEF Approvals
<1>3. /\ Stands(r, n, k, v, "REJECT")' <=> Stands(r, n, k, v, "REJECT")
      /\ Stands(r, n, k, v, "RETURN_FOR_CHANGES")' <=> Stands(r, n, k, v, "RETURN_FOR_CHANGES")
  BY <1>1 DEF Stands
<1>4. Needed(request[r].chain[k])' = Needed(request[r].chain[k])
  BY DEF Kept, Needed
<1> QED
  BY <1>2, <1>3, <1>4 DEF Verdict

LEMMA ReliableKept ==
  ASSUME TypeOK, TypeOK', NEW t \in Transaction, Reliable(t),
         t.pc \notin {"idle", "insert"} => Kept(t.request)
  PROVE  Reliable(t)'
<1> SUFFICES ASSUME t.pc \notin {"idle", "insert"}
             PROVE  Names(t)' /\ Knows(t)'
  BY DEF Reliable
<1> DEFINE r == t.request
<1>1. Names(t) /\ Knows(t) /\ Kept(r) /\ r \in Requests /\ t.step \in Steps(r)
  BY DEF Reliable, Names
<1>2. Names(t)'
  BY <1>1, StepsKept DEF Names, Kept
<1>3. /\ t.counted \in Nat /\ t.sealed \in Nat /\ t.pc # "idle"
      /\ Recorded(r) \in Nat /\ Recorded(r)' \in Nat /\ Recorded(r) <= Recorded(r)'
  <2>1. Recorded(r) \in Nat /\ Recorded(r)' \in Nat
    BY <1>1 DEF Recorded, TypeOK
  <2> QED
    BY <1>1, <2>1 DEF Transaction, Kept
<1>4. t.counted <= Recorded(r) => VerdictOf(t)' = VerdictOf(t)
  BY <1>1, <1>3, VerdictKept DEF VerdictOf
<1>5. \A x : (Opening(t, x)' <=> Opening(t, x)) /\ (Settling(t, x)' <=> Settling(t, x))
  BY <1>1, StepsKept DEF Opening, Settling
<1>6. Opened(r) \subseteq Opened(r)'
  BY <1>1 DEF Kept
<1>7. Knows(t)'
  BY <1>1, <1>3, <1>4, <1>5, <1>6 DEF Knows
<1> QED
  BY <1>2, <1>7
-----------------------------------------------------------------------------
(* The rows of a request that a step leaves alone. *)

LEMMA RowsSame ==
  ASSUME NEW r, request'[r] = request[r], step'[r] = step[r],
         decision'[r] = decision[r], RequestInOrder(r)
  PROVE  RequestInOrder(r)'
<1>1. /\ Steps(r)' = Steps(r) /\ Opened(r)' = Opened(r) /\ Recorded(r)' = Recorded(r)
      /\ \A n, k, v : VotesFor(r, n, k, v)' = VotesFor(r, n, k, v)
  BY DEF Steps, Opened, Recorded, VotesFor
<1>2. \A n, k : Earned(r, n, k)' <=> Earned(r, n, k)
  BY <1>1 DEF Earned, Needed
<1>3. OutcomeEarnedBy(r)'
  BY <1>1, <1>2 DEF RequestInOrder, OutcomeEarnedBy
<1>4. /\ \A n, k, v : Approvals(r, n, k, v)' = Approvals(r, n, k, v)
      /\ \A n, k, v, u : Stands(r, n, k, v, u)' <=> Stands(r, n, k, v, u)
  BY <1>1 DEF Approvals, Stands
<1>5. ASSUME NEW seal, NEW i
      PROVE  Decides(r, seal, i)' <=> Decides(r, seal, i)
  <2>1. \A k : Needed(request[r].chain[k])' = Needed(request[r].chain[k])
    BY DEF Needed
  <2> QED
    BY <1>4, <2>1 DEF Decides
<1>6. SealInOrder(r)'
  BY <1>1, <1>5 DEF RequestInOrder, SealInOrder
<1>7. DecisionsInOrder(r)' /\ RefusalSettlesIn(r)' /\ LastOpenIsActive(r)'
  BY <1>1 DEF RequestInOrder, DecisionsInOrder, RefusalSettlesIn, LastOpenIsActive
<1> QED
  BY <1>3, <1>6, <1>7 DEF RequestInOrder

LEMMA RowsSameKept ==
  ASSUME TypeOK, NEW r \in Requests, request[r].status # None,
         request'[r] = request[r], step'[r] = step[r], decision'[r] = decision[r]
  PROVE  Kept(r)
<1>1. Opened(r)' = Opened(r) /\ Recorded(r)' = Recorded(r)
  BY DEF Steps, Opened, Recorded
<1> QED
  BY <1>1, RowTypes DEF Kept

LEMMA EqualReliable ==
  ASSUME NEW v, NEW t, t = txn'[v], Reliable(t)'
  PROVE  Reliable(txn[v])'
  BY DEF Reliable, Names, Knows, VerdictOf, Opening, Settling

\* A step of worker w in which its transaction becomes t.
LEMMA ReliableTxns ==
  ASSUME ApprovalInv, TypeOK', NEW w \in Workers, NEW t \in Transaction,
         txn' = [txn EXCEPT ![w] = t], Reliable(t),
         \A r \in Requests : request[r].status # None => Kept(r)
  PROVE  \A v \in Workers : Reliable(txn[v])'
<1> SUFFICES ASSUME NEW v \in Workers
             PROVE  Reliable(txn[v])'
  OBVIOUS
<1>1. PICK u \in Transaction : u = txn'[v] /\ Reliable(u)
  <2>1. txn[v] \in Transaction /\ Reliable(txn[v])
    BY DEF ApprovalInv, TypeOK
  <2>2. txn'[v] = IF v = w THEN t ELSE txn[v]
    BY DEF ApprovalInv, TypeOK
  <2>3. CASE v = w
    BY <2>2, <2>3
  <2>4. CASE v # w
    BY <2>1, <2>2, <2>4
  <2> QED
    BY <2>3, <2>4
<1>2. u.pc \notin {"idle", "insert"} => Kept(u.request)
  BY <1>1 DEF Reliable, Names
<1>3. Reliable(u)'
  BY <1>1, <1>2, ReliableKept DEF ApprovalInv
<1> QED
  BY <1>1, <1>3, EqualReliable

LEMMA GoKeeps ==
  ASSUME ApprovalInv, NEW w \in Workers, NEW t \in Transaction, Reliable(t), Go(w, t)
  PROVE  ApprovalInv'
<1>1. TypeOK'
  BY DEF ApprovalInv, TypeOK, Go
<1>2. \A r \in Requests : RequestInOrder(r)'
  BY RowsSame DEF ApprovalInv, Go
<1>3. \A r \in Requests : request[r].status # None => Kept(r)
  BY RowsSameKept DEF ApprovalInv, Go
<1>4. \A v \in Workers : Reliable(txn[v])'
  BY <1>1, <1>3, ReliableTxns DEF Go
<1> QED
  BY <1>1, <1>2, <1>4 DEF ApprovalInv

LEMMA RefuseKeeps ==
  ASSUME ApprovalInv, NEW w \in Workers, Refuse(w)
  PROVE  ApprovalInv'
<1>1. Idle \in Transaction /\ Reliable(Idle)
  BY DEF Idle, Transaction, Reliable
<1>2. Go(w, Idle)
  BY DEF Refuse, Go
<1> QED
  BY <1>1, <1>2, GoKeeps
-----------------------------------------------------------------------------
(* The submission. *)

LEMMA SubmitKeeps ==
  ASSUME ApprovalInv, NEW w \in Workers, NEW v \in Revisions, Submit(w, v)
  PROVE  ApprovalInv'
<1> DEFINE t == [Idle EXCEPT !.pc = "insert", !.revision = v]
<1>1. t \in Transaction /\ t.pc = "insert"
  BY DEF Idle, Transaction
<1>2. Reliable(t)
  BY <1>1 DEF Reliable
<1>3. Go(w, t)
  BY DEF Submit
<1> HIDE DEF t
<1> QED
  BY <1>1, <1>2, <1>3, GoKeeps

LEMMA InsertRequestKeeps ==
  ASSUME ApprovalInv, NEW w \in Workers, NEW r \in Requests, NEW chain \in Chains,
         NEW creator \in Creators, InsertRequest(w, r, chain, creator)
  PROVE  ApprovalInv'
<1> DEFINE row == [status |-> "IN_PROGRESS", revision |-> txn[w].revision,
                   creator |-> creator, chain |-> chain, seal |-> None]
           opening == [k \in 1 .. Len(chain) |-> IF k = 1 THEN "ACTIVE" ELSE "PENDING"]
<1>1. /\ request' = [request EXCEPT ![r] = row] /\ step' = [step EXCEPT ![r] = opening]
      /\ txn' = [txn EXCEPT ![w] = Idle] /\ acted' = acted /\ decision' = decision
      /\ request[r].status = None /\ TypeOK
  BY DEF InsertRequest, ApprovalInv
<1>2. chain \in Seq(StepDefinition) /\ Len(chain) \in Nat /\ Len(chain) >= 1
  BY ApprovalConstants
<1>3. row \in RequestRow
  <2>1. txn[w].revision \in Revisions \cup {None}
    BY <1>1 DEF TypeOK, Transaction
  <2> QED
    BY <2>1 DEF RequestRow, Statuses
<1>4. opening \in Seq(StepStatuses) /\ Len(opening) = Len(chain)
  BY <1>2 DEF StepStatuses
<1>5. Idle \in Transaction /\ Reliable(Idle)
  BY DEF Idle, Transaction, Reliable
<1>6. /\ request' \in [Requests -> RequestRow \cup {NoRequest}]
      /\ step' \in [Requests -> Seq(StepStatuses)]
      /\ \A q \in Requests : request'[q] = IF q = r THEN row ELSE request[q]
      /\ \A q \in Requests : step'[q] = IF q = r THEN opening ELSE step[q]
  BY <1>1, <1>3, <1>4 DEF TypeOK
<1>7. TypeOK'
  <2>1. \A q \in Requests : Len(step'[q]) = Len(request'[q].chain)
    BY <1>1, <1>4, <1>6 DEF TypeOK
  <2>2. txn' \in [Workers -> Transaction]
    BY <1>1, <1>5 DEF TypeOK
  <2> QED
    BY <1>1, <1>6, <2>1, <2>2 DEF TypeOK
<1>8. RequestInOrder(r)'
  <2>1. decision'[r] = <<>>
    BY <1>1 DEF ApprovalInv, RequestInOrder, DecisionsInOrder
  <2>2. /\ request'[r] = row /\ step'[r] = opening
        /\ Steps(r)' = 1 .. Len(chain) /\ Recorded(r)' = 0
    BY <1>6, <2>1 DEF Steps, Recorded
  <2>3. \A k \in 1 .. Len(chain) : opening[k] = IF k = 1 THEN "ACTIVE" ELSE "PENDING"
    OBVIOUS
  <2>4. Opened(r)' = {1}
    BY <1>2, <2>2, <2>3 DEF Opened
  <2>5. row.status = "IN_PROGRESS" /\ row.seal = None
    OBVIOUS
  <2> HIDE DEF row, opening
  <2>6. DecisionsInOrder(r)' /\ RefusalSettlesIn(r)'
    BY <2>1, <2>2 DEF DecisionsInOrder, RefusalSettlesIn
  <2>7. OutcomeEarnedBy(r)'
    BY <2>2, <2>4, <2>5 DEF OutcomeEarnedBy
  <2>8. LastOpenIsActive(r)'
    BY <1>2, <2>2, <2>3, <2>4 DEF LastOpenIsActive
  <2>9. SealInOrder(r)'
    BY <2>2, <2>5 DEF SealInOrder
  <2> QED
    BY <2>6, <2>7, <2>8, <2>9 DEF RequestInOrder
<1> HIDE DEF row, opening
<1>9. ASSUME NEW q \in Requests
      PROVE  RequestInOrder(q)'
  <2>1. CASE q # r
    BY <1>1, <1>6, <2>1, RowsSame DEF ApprovalInv
  <2> QED
    BY <1>8, <2>1
<1>10. ASSUME NEW q \in Requests, request[q].status # None
       PROVE  Kept(q)
  BY <1>1, <1>6, <1>10, RowsSameKept
<1>11. \A v \in Workers : Reliable(txn[v])'
  BY <1>1, <1>5, <1>7, <1>10, ReliableTxns
<1> QED
  BY <1>7, <1>9, <1>11 DEF ApprovalInv

-----------------------------------------------------------------------------
(* A decision, up to its commit. *)

LEMMA DecideKeeps ==
  ASSUME ApprovalInv, NEW w \in Workers, NEW r \in Requests, NEW k \in Steps(r),
         NEW i \in 1 .. Len(Approvers(r, k)), NEW v \in Votes, Decide(w, r, k, i, v)
  PROVE  ApprovalInv'
<1> DEFINE t == [Idle EXCEPT !.pc = "request", !.request = r, !.step = k, !.place = i, !.vote = v]
<1>1. k \in Nat /\ i \in Nat
  BY DEF Steps
<1>2. t \in Transaction
  BY <1>1 DEF Idle, Transaction
<1>3. t.pc = "request" /\ t.request = r /\ t.step = k /\ t.place = i /\ t.vote = v
  BY DEF Idle
<1>4. Go(w, t) /\ request[r].status # None
  BY DEF Decide
<1> HIDE DEF t
<1>5. Reliable(t)
  BY <1>3, <1>4 DEF Reliable, Names, Knows
<1> QED
  BY <1>2, <1>4, <1>5, GoKeeps

LEMMA ReadRequestKeeps ==
  ASSUME ApprovalInv, NEW w \in Workers, ReadRequest(w)
  PROVE  ApprovalInv'
<1>1. PICK t \in Transaction : t = txn[w] /\ Reliable(t)
  BY DEF ApprovalInv, TypeOK
<1> DEFINE u == [t EXCEPT !.pc = "step"]
<1>2. CASE Go(w, u)
  <2>1. u \in Transaction /\ u.pc = "step"
    BY DEF Transaction
  <2>2. Names(u)
    BY <1>1 DEF ReadRequest, Reliable, Names, Transaction
  <2>3. Reliable(u)
    BY <2>1, <2>2 DEF Reliable, Knows
  <2> QED
    BY <1>2, <2>1, <2>3, GoKeeps
<1> QED
  BY <1>1, <1>2, RefuseKeeps DEF ReadRequest

LEMMA ReadStepKeeps ==
  ASSUME ApprovalInv, NEW w \in Workers, ReadStep(w)
  PROVE  ApprovalInv'
<1>1. PICK t \in Transaction : t = txn[w] /\ Reliable(t)
  BY DEF ApprovalInv, TypeOK
<1> DEFINE u == [t EXCEPT !.pc = "duties"]
<1>2. CASE Go(w, u) /\ step[t.request][t.step] = "ACTIVE"
  <2>1. u \in Transaction /\ u.pc = "duties"
    BY DEF Transaction
  <2>2. Names(u) /\ u.request = t.request /\ u.step = t.step
    BY <1>1 DEF ReadStep, Reliable, Names, Transaction
  <2>3. u.step \in Opened(u.request)
    BY <1>2, <2>2 DEF Names, Opened
  <2>4. Reliable(u)
    BY <2>1, <2>2, <2>3 DEF Reliable, Knows
  <2> QED
    BY <1>2, <2>1, <2>4, GoKeeps
<1> QED
  BY <1>1, <1>2, RefuseKeeps DEF ReadStep

LEMMA CheckDutiesKeeps ==
  ASSUME ApprovalInv, NEW w \in Workers, CheckDuties(w)
  PROVE  ApprovalInv'
<1>1. PICK t \in Transaction : t = txn[w] /\ Reliable(t)
  BY DEF ApprovalInv, TypeOK
<1> DEFINE u == [t EXCEPT !.pc = "votes"]
<1>2. CASE Go(w, u) /\ t.pc = "duties"
  <2>1. u \in Transaction /\ u.pc = "votes"
    BY DEF Transaction
  <2>2. Names(u) /\ u.step \in Opened(u.request)
    BY <1>1, <1>2 DEF Reliable, Names, Knows, Transaction
  <2>3. Reliable(u)
    BY <2>1, <2>2 DEF Reliable, Knows
  <2> QED
    BY <1>2, <2>1, <2>3, GoKeeps
<1> QED
  BY <1>1, <1>2, RefuseKeeps DEF CheckDuties

LEMMA CountVotesKeeps ==
  ASSUME ApprovalInv, NEW w \in Workers, CountVotes(w)
  PROVE  ApprovalInv'
<1>1. PICK t \in Transaction : t = txn[w] /\ Reliable(t)
  BY DEF ApprovalInv, TypeOK
<1> DEFINE n == Len(decision[t.request])
           verdict == Verdict(t.request, n, t.step, t.vote)
           pc == IF Opening(t, verdict) THEN "next"
                 ELSE IF Settling(t, verdict) THEN "seal" ELSE "commit"
           u == [t EXCEPT !.counted = n, !.pc = pc]
<1>2. Go(w, u) /\ t.pc = "votes"
  BY <1>1 DEF CountVotes
<1>3. Names(t) /\ t.step \in Opened(t.request) /\ n \in Nat /\ n = Recorded(t.request)
  <2>1. Names(t) /\ t.step \in Opened(t.request)
    BY <1>1, <1>2 DEF Reliable, Knows
  <2> QED
    BY <2>1, RowTypes DEF Names, ApprovalInv, Recorded
<1>4. /\ u \in Transaction /\ u.pc = pc /\ u.counted = n /\ u.request = t.request
      /\ u.step = t.step /\ u.place = t.place /\ u.vote = t.vote
  <2> pc \in {"next", "seal", "commit"}
    OBVIOUS
  <2> HIDE DEF n, verdict, pc
  <2> QED
    BY <1>3 DEF Transaction
<1>5. Names(u) /\ VerdictOf(u) = verdict
  BY <1>3, <1>4 DEF Names, VerdictOf
<1>6. Opening(u, verdict) <=> Opening(t, verdict)
  BY <1>4 DEF Opening
<1>7. Settling(u, verdict) <=> Settling(t, verdict)
  BY <1>6 DEF Settling
<1>8. Reliable(u)
  <2>1. u.counted <= Recorded(u.request) /\ u.step \in Opened(u.request)
    BY <1>3, <1>4
  <2> HIDE DEF u, verdict, n
  <2> QED
    BY <1>4, <1>5, <1>6, <1>7, <2>1 DEF Reliable, Knows
<1> QED
  BY <1>2, <1>4, <1>8, GoKeeps

LEMMA ReadNextKeeps ==
  ASSUME ApprovalInv, NEW w \in Workers, ReadNext(w)
  PROVE  ApprovalInv'
<1>1. PICK t \in Transaction : t = txn[w] /\ Reliable(t)
  BY DEF ApprovalInv, TypeOK
<1> DEFINE next == step[t.request][t.step + 1]
           u == [t EXCEPT !.pc = "commit", !.next = next]
<1>2. Go(w, u) /\ t.pc = "next"
  BY <1>1 DEF ReadNext
<1>3. Names(t) /\ Knows(t) /\ Opening(t, VerdictOf(t))
  BY <1>1, <1>2 DEF Reliable, Knows
<1>4. t.step + 1 \in Steps(t.request) /\ next \in StepStatuses
  <2>1. t.step + 1 \in Steps(t.request)
    BY <1>3 DEF Opening
  <2> QED
    BY <1>3, <2>1, RowTypes DEF Names, ApprovalInv
<1>5. /\ u \in Transaction /\ u.pc = "commit" /\ u.next = next /\ u.request = t.request
      /\ u.counted = t.counted /\ u.step = t.step /\ u.place = t.place /\ u.vote = t.vote
  <2> HIDE DEF next
  <2> QED
    BY <1>4 DEF Transaction
<1>6. Names(u) /\ VerdictOf(u) = VerdictOf(t)
  BY <1>3, <1>5 DEF Names, VerdictOf
<1>7. ~Settling(u, VerdictOf(u))
  BY <1>3, <1>5, <1>6 DEF Settling, Opening
<1>8. next = "PENDING" \/ u.step + 1 \in Opened(u.request)
  BY <1>4, <1>5 DEF Opened
<1>9. u.counted <= Recorded(u.request) /\ u.step \in Opened(u.request)
  BY <1>2, <1>3, <1>5 DEF Knows
<1>10. Reliable(u)
  <2> HIDE DEF u, next
  <2> QED
    BY <1>5, <1>6, <1>7, <1>8, <1>9 DEF Reliable, Knows
<1> QED
  BY <1>2, <1>5, <1>10, GoKeeps

LEMMA SealKeeps ==
  ASSUME ApprovalInv, NEW w \in Workers, Seal(w)
  PROVE  ApprovalInv'
<1>1. PICK t \in Transaction : t = txn[w] /\ Reliable(t)
  BY DEF ApprovalInv, TypeOK
<1> DEFINE n == Len(decision[t.request])
           u == [t EXCEPT !.pc = "commit", !.sealed = n]
<1>2. Go(w, u) /\ t.pc = "seal"
  BY <1>1 DEF Seal
<1>3. /\ Names(t) /\ Knows(t) /\ Settling(t, VerdictOf(t))
      /\ n \in Nat /\ n = Recorded(t.request)
  <2>1. Names(t) /\ Knows(t) /\ Settling(t, VerdictOf(t))
    BY <1>1, <1>2 DEF Reliable, Knows
  <2> QED
    BY <2>1, RowTypes DEF Names, ApprovalInv, Recorded
<1>4. /\ u \in Transaction /\ u.pc = "commit" /\ u.sealed = n /\ u.request = t.request
      /\ u.counted = t.counted /\ u.step = t.step /\ u.place = t.place /\ u.vote = t.vote
  <2> HIDE DEF n
  <2> QED
    BY <1>3 DEF Transaction
<1>5. Names(u) /\ VerdictOf(u) = VerdictOf(t)
  BY <1>3, <1>4 DEF Names, VerdictOf
<1>6. ~Opening(u, VerdictOf(u))
  BY <1>3, <1>4, <1>5 DEF Settling, Opening
<1>7. u.counted <= Recorded(u.request) /\ u.step \in Opened(u.request)
  BY <1>2, <1>3, <1>4 DEF Knows
<1>8. Reliable(u)
  <2> HIDE DEF u
  <2>1. u.counted <= u.sealed /\ u.sealed <= Recorded(u.request)
    BY <1>3, <1>4, <1>7
  <2> HIDE DEF n
  <2> QED
    BY <1>4, <1>5, <1>6, <1>7, <2>1 DEF Reliable, Knows
<1> QED
  BY <1>2, <1>4, <1>8, GoKeeps
-----------------------------------------------------------------------------
(* The commit of a decision. *)

\* What the commit of transaction t makes of its request.
Committed(t) ==
  LET r == t.request  verdict == VerdictOf(t) IN
  /\ Names(t) /\ Knows(t) /\ t.pc = "commit"
  /\ decision'[r] = Append(decision[r], [step |-> t.step, by |-> By(t), vote |-> t.vote])
  /\ step'[r] = NewStep(t, verdict)
  /\ request'[r] = IF Settling(t, verdict) THEN Settle(t, verdict) ELSE request[r]

LEMMA VerdictCases ==
  ASSUME NEW r, NEW n, NEW k, NEW v
  PROVE  Verdict(r, n, k, v) \in {"APPROVED", "REJECTED", "RETURNED", "IN_PROGRESS"}
  BY DEF Verdict

LEMMA CommitDecides ==
  ASSUME TypeOK, NEW t \in Transaction, Committed(t)
  PROVE  LET r == t.request  n == Recorded(r) IN
         /\ decision'[r] \in Seq(DecisionRow) /\ Recorded(r)' = n + 1
         /\ \A i \in 1 .. n : decision'[r][i] = decision[r][i]
         /\ decision'[r][n + 1].step = t.step /\ decision'[r][n + 1].vote = t.vote
<1> DEFINE r == t.request
           d == [step |-> t.step, by |-> By(t), vote |-> t.vote]
<1>1. r \in Requests /\ t.vote \in Votes /\ t.step \in Steps(r)
  BY DEF Committed, Names
<1>2. By(t) \in Users
  <2>1. request[r].chain[t.step] \in StepDefinition
    BY <1>1, NeededType DEF Committed, Names
  <2>2. Approvers(r, t.step) \in Seq(Users)
    BY <2>1 DEF Approvers, StepDefinition
  <2> QED
    BY <2>2 DEF By, Committed, Names
<1>3. d \in DecisionRow
  BY <1>1, <1>2 DEF DecisionRow, Steps
<1>4. decision[r] \in Seq(DecisionRow) /\ decision'[r] = Append(decision[r], d)
  BY <1>1, RowTypes DEF Committed
<1>5. d.step = t.step /\ d.vote = t.vote
  OBVIOUS
<1> HIDE DEF d
<1> QED
  BY <1>3, <1>4, <1>5 DEF Recorded

LEMMA CommitSteps ==
  ASSUME TypeOK, NEW t \in Transaction, Committed(t)
  PROVE  LET r == t.request  verdict == VerdictOf(t) IN
         /\ step'[r] \in Seq(StepStatuses) /\ Len(step'[r]) = Len(request[r].chain)
         /\ \A k \in Steps(r) : step'[r][k] =
              IF k = t.step /\ verdict # "IN_PROGRESS" THEN verdict
              ELSE IF k = t.step + 1 /\ verdict = "APPROVED" /\ t.next # "ACTIVE" THEN "ACTIVE"
              ELSE step[r][k]
<1> DEFINE r == t.request
           verdict == VerdictOf(t)
<1>1. r \in Requests
  BY DEF Committed, Names
<1>2. verdict \in StepStatuses \cup {"IN_PROGRESS"}
  BY VerdictCases DEF VerdictOf, StepStatuses
<1>3. /\ Len(request[r].chain) \in Nat /\ Steps(r) = 1 .. Len(request[r].chain)
      /\ \A k \in Steps(r) : step[r][k] \in StepStatuses
  BY <1>1, RowTypes DEF Steps
<1>4. step'[r] = NewStep(t, verdict)
  BY DEF Committed
<1> HIDE DEF verdict
<1>5. /\ step'[r] \in [1 .. Len(request[r].chain) -> StepStatuses]
      /\ \A k \in Steps(r) : step'[r][k] =
              IF k = t.step /\ verdict # "IN_PROGRESS" THEN verdict
              ELSE IF k = t.step + 1 /\ verdict = "APPROVED" /\ t.next # "ACTIVE" THEN "ACTIVE"
              ELSE step[r][k]
  BY <1>2, <1>3, <1>4 DEF NewStep, StepStatuses
<1>6. step'[r] \in Seq(StepStatuses) /\ Len(step'[r]) = Len(request[r].chain)
  BY <1>3, <1>5
<1> QED
  BY <1>5, <1>6 DEF verdict

LEMMA CommitRequest ==
  ASSUME TypeOK, NEW t \in Transaction, Committed(t)
  PROVE  LET r == t.request  verdict == VerdictOf(t) IN
         /\ request'[r] \in RequestRow /\ request'[r].chain = request[r].chain
         /\ ~Settling(t, verdict) => request'[r] = request[r]
         /\ Settling(t, verdict) =>
              /\ request'[r].status = IF verdict = "APPROVED" THEN "APPROVED" ELSE OutcomeOf[verdict]
              /\ request'[r].seal = [status |-> request'[r].status, covers |-> t.sealed]
<1> DEFINE r == t.request
           verdict == VerdictOf(t)
           status == IF verdict = "APPROVED" THEN "APPROVED" ELSE OutcomeOf[verdict]
           seal == [status |-> status, covers |-> t.sealed]
<1>1. r \in Requests /\ request[r] \in RequestRow
  BY RowTypes DEF Committed, Names
<1>2. CASE ~Settling(t, verdict)
  BY <1>1, <1>2 DEF Committed
<1>3. CASE Settling(t, verdict)
  <2>1. verdict \in {"APPROVED", "REJECTED", "RETURNED"}
    BY <1>3, VerdictCases DEF VerdictOf, Settling
  <2>2. status \in Statuses
    <3> HIDE DEF verdict
    <3> QED
      BY <2>1 DEF Statuses, OutcomeOf
  <2>3. seal \in SealRow
    BY <2>2 DEF SealRow, Transaction
  <2>4. request'[r] = [request[r] EXCEPT !.status = status, !.seal = seal]
    BY <1>3 DEF Committed, Settle
  <2> HIDE DEF status, seal
  <2>5. /\ request'[r] \in RequestRow /\ request'[r].chain = request[r].chain
        /\ request'[r].status = status /\ request'[r].seal = seal
    BY <1>1, <2>2, <2>3, <2>4 DEF RequestRow
  <2> QED
    BY <1>3, <2>5 DEF status, seal
<1> QED
  BY <1>2, <1>3

\* The steps it opens: the next one, or none.
LEMMA CommitOpens ==
  ASSUME TypeOK, NEW t \in Transaction, Committed(t)
  PROVE  LET r == t.request IN
         /\ Opened(r)' =
              Opened(r) \cup (IF Opening(t, VerdictOf(t)) THEN {t.step + 1} ELSE {})
         /\ Steps(r)' = Steps(r) /\ t.step \in Opened(r) /\ t.step \in Steps(r)
         /\ Steps(r) \subseteq Nat
<1> DEFINE r == t.request
           verdict == VerdictOf(t)
<1>1. Steps(r)' = Steps(r)
  BY CommitRequest DEF Steps
<1>2. t.step \in Opened(r) /\ t.step \in Steps(r) /\ Steps(r) \subseteq Nat
  BY DEF Committed, Names, Knows, Opened, Steps
<1>3. Opening(t, verdict) <=> verdict = "APPROVED" /\ t.step + 1 \in Steps(r)
  BY DEF Opening
<1>4. Opening(t, verdict) => t.next = "PENDING" \/ t.step + 1 \in Opened(r)
  BY DEF Committed, Knows
<1>5. verdict # "PENDING"
  BY VerdictCases DEF VerdictOf
<1>6. \A k \in Steps(r) : step'[r][k] =
              IF k = t.step /\ verdict # "IN_PROGRESS" THEN verdict
              ELSE IF k = t.step + 1 /\ verdict = "APPROVED" /\ t.next # "ACTIVE" THEN "ACTIVE"
              ELSE step[r][k]
  BY CommitSteps
<1> HIDE DEF verdict
<1>7. ASSUME NEW k \in Steps(r)
      PROVE  step'[r][k] # "PENDING" <=>
               step[r][k] # "PENDING" \/ (Opening(t, verdict) /\ k = t.step + 1)
  <2>1. k \in Nat /\ t.step \in Nat
    BY <1>2
  <2>2. step[r][t.step] # "PENDING"
    BY <1>2 DEF Opened
  <2>3. CASE k = t.step
    BY <1>5, <1>6, <2>1, <2>2, <2>3
  <2>4. CASE k = t.step + 1 /\ verdict = "APPROVED"
    <3>1. t.next = "PENDING" \/ step[r][k] # "PENDING"
      BY <1>3, <1>4, <2>4 DEF Opened
    <3> QED
      BY <1>3, <1>6, <2>1, <2>4, <3>1
  <2>5. CASE k # t.step /\ ~(k = t.step + 1 /\ verdict = "APPROVED")
    BY <1>3, <1>6, <2>5
  <2> QED
    BY <2>3, <2>4, <2>5
<1>8. Opened(r)' = {k \in Steps(r) : step'[r][k] # "PENDING"}
  BY <1>1 DEF Opened
<1>9. Opened(r)' = Opened(r) \cup (IF Opening(t, verdict) THEN {t.step + 1} ELSE {})
  BY <1>3, <1>7, <1>8 DEF Opened
<1> QED
  BY <1>1, <1>2, <1>9 DEF verdict

LEMMA CommitKept ==
  ASSUME TypeOK, NEW t \in Transaction, Committed(t)
  PROVE  Kept(t.request) /\ t.request \in Requests
<1>1. t.request \in Requests /\ request[t.request].status # None
  BY DEF Committed, Names
<1>2. request'[t.request].status # None
  <2>1. request'[t.request] \in RequestRow
    BY CommitRequest
  <2> QED
    BY <2>1, ApprovalConstants DEF RequestRow
<1>3. /\ Recorded(t.request) \in Nat /\ Recorded(t.request)' = Recorded(t.request) + 1
      /\ \A i \in 1 .. Recorded(t.request) : decision'[t.request][i] = decision[t.request][i]
  BY <1>1, RowTypes, CommitDecides
<1>4. request'[t.request].chain = request[t.request].chain
  BY CommitRequest
<1>5. Opened(t.request) \subseteq Opened(t.request)'
  BY CommitOpens
<1> QED
  BY <1>1, <1>2, <1>3, <1>4, <1>5 DEF Kept
\* What was earned stays earned, and so is what the verdict says.
LEMMA CommitEarns ==
  ASSUME TypeOK, NEW t \in Transaction, Committed(t)
  PROVE  LET r == t.request IN
         /\ \A k \in Steps(r) : Earned(r, Recorded(r), k) => Earned(r, Recorded(r), k)'
         /\ VerdictOf(t) = "APPROVED" => Earned(r, Recorded(r), t.step)'
         /\ VerdictOf(t) = "REJECTED" => VotesFor(r, Recorded(r), t.step, "REJECT")' # {}
         /\ VerdictOf(t) = "RETURNED" =>
              VotesFor(r, Recorded(r), t.step, "RETURN_FOR_CHANGES")' # {}
<1> DEFINE r == t.request
           m == t.counted
<1>0. PICK n \in Nat : n = Recorded(r)
  BY CommitKept, RowTypes
<1>1. /\ r \in Requests /\ Kept(r) /\ n \in Nat /\ n = Recorded(r) /\ Recorded(r)' = n + 1
      /\ decision'[r][n + 1].step = t.step /\ decision'[r][n + 1].vote = t.vote
      /\ t.step \in Steps(r) /\ request[r].status # None
  BY <1>0, CommitKept, CommitDecides DEF Committed, Names
<1> n \in Nat /\ n + 1 \in Nat /\ n <= n /\ n <= n + 1
  BY <1>0
<1>2. m \in Nat /\ m <= n
  BY <1>0 DEF Committed, Knows, Transaction
<1>3. ASSUME NEW k \in Steps(r)
      PROVE  /\ Needed(request'[r].chain[k]) = Needed(request[r].chain[k])
             /\ Needed(request[r].chain[k]) \in Nat
  BY <1>1, NeededType, CommitRequest
<1>4. ASSUME NEW k \in Steps(r), Earned(r, n, k)
      PROVE  Earned(r, Recorded(r), k)'
  <2> DEFINE old == Cardinality(VotesFor(r, n, k, "APPROVE"))
             new == Cardinality(VotesFor(r, n + 1, k, "APPROVE")')
  <2>1. old <= new
    BY <1>1, VotesMonotone
  <2>2. old \in Nat /\ new \in Nat
    <3>1. old \in Nat
      BY <1>1, VotesFinite
    <3>2. new \in Nat
      <4>1. IsFiniteSet(1 .. n + 1)
        BY FS_Interval
      <4>2. VotesFor(r, n + 1, k, "APPROVE")' \in SUBSET (1 .. n + 1)
        BY DEF VotesFor
      <4>3. IsFiniteSet(VotesFor(r, n + 1, k, "APPROVE")')
        BY <4>1, <4>2, FS_Subset
      <4> QED
        BY <4>3, FS_CardinalityType
    <3> QED
      BY <3>1, <3>2
  <2>3. old >= Needed(request[r].chain[k])
    BY <1>4 DEF Earned
  <2>4. new >= Needed(request'[r].chain[k])
    <3> HIDE DEF old, new
    <3> QED
      BY <1>3, <2>1, <2>2, <2>3
  <2> QED
    BY <1>1, <2>4 DEF Earned
<1>5. CASE VerdictOf(t) = "APPROVED"
  <2> DEFINE old == Cardinality(VotesFor(r, m, t.step, "APPROVE"))
             new == Cardinality(VotesFor(r, n + 1, t.step, "APPROVE")')
  <2>1. old + (IF t.vote = "APPROVE" THEN 1 ELSE 0) >= Needed(request[r].chain[t.step])
    BY <1>5 DEF VerdictOf, Verdict, Approvals
  <2>2. t.vote = "APPROVE" => old + 1 <= new
    BY <1>1, <1>2, OneMoreVote
  <2>3. old <= new
    BY <1>1, <1>2, VotesMonotone
  <2>4. old \in Nat /\ new \in Nat
    <3>1. old \in Nat
      BY <1>2, VotesFinite
    <3>2. new \in Nat
      <4>1. IsFiniteSet(1 .. n + 1)
        BY FS_Interval
      <4>2. VotesFor(r, n + 1, t.step, "APPROVE")' \in SUBSET (1 .. n + 1)
        BY DEF VotesFor
      <4>3. IsFiniteSet(VotesFor(r, n + 1, t.step, "APPROVE")')
        BY <4>1, <4>2, FS_Subset
      <4> QED
        BY <4>3, FS_CardinalityType
    <3> QED
      BY <3>1, <3>2
  <2>5. new >= Needed(request'[r].chain[t.step])
    <3> HIDE DEF old, new
    <3> QED
      BY <1>1, <1>3, <2>1, <2>2, <2>3, <2>4
  <2>6. Earned(r, Recorded(r), t.step)'
    BY <1>1, <2>5 DEF Earned
  <2> QED
    BY <1>0, <1>4, <1>5, <2>6
<1>6. ASSUME NEW u \in Refusals, Stands(r, m, t.step, t.vote, u)
      PROVE  VotesFor(r, Recorded(r), t.step, u)' # {}
  <2>1. CASE t.vote = u
    BY <1>1, <1>2, <2>1, OneMoreVote
  <2>2. CASE VotesFor(r, m, t.step, u) # {}
    <3>1. VotesFor(r, m, t.step, u) \subseteq VotesFor(r, n + 1, t.step, u)'
      BY <1>1, <1>2, VotesMonotone
    <3> QED
      BY <1>1, <2>2, <3>1
  <2> QED
    BY <1>6, <2>1, <2>2 DEF Stands
<1>7. CASE VerdictOf(t) = "REJECTED"
  <2>1. Stands(r, m, t.step, t.vote, "REJECT")
    BY <1>7 DEF VerdictOf, Verdict
  <2> QED
    BY <1>0, <1>4, <1>6, <1>7, <2>1 DEF Refusals
<1>8. CASE VerdictOf(t) = "RETURNED"
  <2>1. Stands(r, m, t.step, t.vote, "RETURN_FOR_CHANGES")
    BY <1>8 DEF VerdictOf, Verdict
  <2> QED
    BY <1>0, <1>4, <1>6, <1>8, <2>1 DEF Refusals
<1> QED
  BY <1>0, <1>4, <1>5, <1>7, <1>8

LEMMA CommitOutcome ==
  ASSUME TypeOK, NEW t \in Transaction, Committed(t), OutcomeEarnedBy(t.request)
  PROVE  OutcomeEarnedBy(t.request)'
<1> DEFINE r == t.request
           verdict == VerdictOf(t)
<1>1. Steps(r)' = Steps(r) /\ Steps(r) \subseteq Nat /\ t.step \in Steps(r)
  BY CommitOpens
<1>2. \A k \in Steps(r) : Earned(r, Recorded(r), k) => Earned(r, Recorded(r), k)'
  BY CommitEarns
<1>3. \A k \in Opened(r) : \A j \in 1 .. k - 1 : Earned(r, Recorded(r), j)
  BY DEF OutcomeEarnedBy
<1>4. \A k \in Opened(r) : k \in Steps(r) /\ \A j \in 1 .. k - 1 : j \in Steps(r)
  BY <1>1 DEF Opened, Steps
<1>5. \A j \in 1 .. t.step - 1 : j \in Steps(r) /\ Earned(r, Recorded(r), j)'
  BY <1>2, <1>3, <1>4, CommitOpens
<1>6. \A k \in Opened(r)' : \A j \in 1 .. k - 1 : Earned(r, Recorded(r), j)'
  <2> SUFFICES ASSUME NEW k \in Opened(r)', NEW j \in 1 .. k - 1
               PROVE  Earned(r, Recorded(r), j)'
    OBVIOUS
  <2>1. CASE k \in Opened(r)
    BY <1>2, <1>3, <1>4, <2>1
  <2>2. CASE Opening(t, verdict) /\ k = t.step + 1
    <3>1. Earned(r, Recorded(r), t.step)'
      BY <2>2, CommitEarns DEF Opening
    <3>2. j = t.step \/ j \in 1 .. t.step - 1
      BY <1>1, <2>2
    <3> QED
      BY <1>5, <3>1, <3>2
  <2> QED
    BY <2>1, <2>2, CommitOpens
<1>7. CASE ~Settling(t, verdict)
  <2>1. request'[r].status = request[r].status
    BY <1>7, CommitRequest
  <2>2. /\ r \in Requests /\ Kept(r)
        /\ Recorded(r) \in Nat /\ Recorded(r)' = Recorded(r) + 1
    BY CommitKept, RowTypes, CommitDecides
  <2>3. \A k, v : VotesFor(r, Recorded(r), k, v) # {} => VotesFor(r, Recorded(r), k, v)' # {}
    <3> SUFFICES ASSUME NEW k, NEW v, VotesFor(r, Recorded(r), k, v) # {}
                 PROVE  VotesFor(r, Recorded(r), k, v)' # {}
      OBVIOUS
    <3>1. VotesFor(r, Recorded(r), k, v) \subseteq VotesFor(r, Recorded(r) + 1, k, v)'
      BY <2>2, VotesMonotone
    <3> QED
      BY <2>2, <3>1 DEF VotesFor
  <2> QED
    BY <1>1, <1>2, <1>6, <2>1, <2>3 DEF OutcomeEarnedBy
<1>8. CASE Settling(t, verdict)
  <2>1. verdict \in {"APPROVED", "REJECTED", "RETURNED"}
    BY <1>8, VerdictCases DEF VerdictOf, Settling
  <2>2. request'[r].status = IF verdict = "APPROVED" THEN "APPROVED" ELSE OutcomeOf[verdict]
    BY <1>8, CommitRequest
  <2>3. CASE verdict = "APPROVED"
    <3>1. t.step + 1 \notin Steps(r)
      BY <1>8, <2>3 DEF Settling, Opening
    <3>2. \A k \in Steps(r) : k = t.step \/ k \in 1 .. t.step - 1
      BY <1>1, <3>1, RowTypes, SMTT(30) DEF Steps, Committed, Names
    <3>3. Earned(r, Recorded(r), t.step)'
      BY <2>3, CommitEarns
    <3> QED
      BY <1>1, <1>5, <1>6, <2>2, <2>3, <3>2, <3>3 DEF OutcomeEarnedBy
  <2>4. CASE verdict = "REJECTED"
    <3>1. request'[r].status = "REJECTED"
      BY <2>2, <2>4 DEF OutcomeOf
    <3> QED
      BY <1>1, <1>6, <2>4, <3>1, CommitEarns DEF OutcomeEarnedBy
  <2>5. CASE verdict = "RETURNED"
    <3>1. request'[r].status = "RETURNED_FOR_CHANGES"
      BY <2>2, <2>5 DEF OutcomeOf
    <3> QED
      BY <1>1, <1>6, <2>5, <3>1, CommitEarns DEF OutcomeEarnedBy
  <2> QED
    BY <2>1, <2>3, <2>4, <2>5
<1> QED
  BY <1>7, <1>8
LEMMA CommitRefusals ==
  ASSUME TypeOK, NEW t \in Transaction, Committed(t), RefusalSettlesIn(t.request),
         DecisionsInOrder(t.request)
  PROVE  RefusalSettlesIn(t.request)' /\ DecisionsInOrder(t.request)'
<1> DEFINE r == t.request
           verdict == VerdictOf(t)
<1>1. PICK n \in Nat : n = Recorded(r)
  BY CommitKept, RowTypes
<1>2. /\ Recorded(r)' = n + 1 /\ \A i \in 1 .. n : decision'[r][i] = decision[r][i]
      /\ decision'[r][n + 1].step = t.step /\ decision'[r][n + 1].vote = t.vote
  BY <1>1, CommitDecides
<1>3. \A i \in 1 .. n + 1 : i \in 1 .. n \/ i = n + 1
  OBVIOUS
<1>4. DecisionsInOrder(r)'
  <2>1. \A i \in 1 .. n + 1 : decision'[r][i].step \in Steps(r)
    BY <1>1, <1>2, <1>3, CommitOpens DEF DecisionsInOrder
  <2>2. request'[r].status # None
    BY CommitKept DEF Kept
  <2> QED
    BY <1>2, <2>1, <2>2, CommitOpens DEF DecisionsInOrder
<1>5. Settling(t, verdict) => request'[r].status # "IN_PROGRESS"
  <2>1. verdict \in {"APPROVED", "REJECTED", "RETURNED", "IN_PROGRESS"}
    BY VerdictCases DEF VerdictOf
  <2>2. Settling(t, verdict) => request'[r].status =
          IF verdict = "APPROVED" THEN "APPROVED" ELSE OutcomeOf[verdict]
    BY CommitRequest
  <2>3. Settling(t, verdict) => verdict # "IN_PROGRESS"
    BY DEF Settling
  <2> HIDE DEF verdict
  <2> QED
    BY <2>1, <2>2, <2>3 DEF OutcomeOf
<1>6. t.vote \in Refusals => Settling(t, verdict)
  <2>1. t.vote \in Refusals => verdict \in {"REJECTED", "RETURNED"}
    BY DEF VerdictOf, Verdict, Stands, Refusals
  <2> QED
    BY <2>1 DEF Settling, Opening
<1>7. ASSUME NEW i \in 1 .. n + 1, decision'[r][i].vote \in Refusals
      PROVE  request'[r].status # "IN_PROGRESS"
  <2>1. CASE i = n + 1
    BY <1>2, <1>5, <1>6, <1>7, <2>1
  <2>2. CASE i \in 1 .. n
    <3>1. request[r].status # "IN_PROGRESS"
      BY <1>1, <1>2, <1>7, <2>2 DEF RefusalSettlesIn
    <3> QED
      BY <1>5, <3>1, CommitRequest
  <2> QED
    BY <1>3, <2>1, <2>2
<1>8. RefusalSettlesIn(r)'
  BY <1>2, <1>7 DEF RefusalSettlesIn
<1> QED
  BY <1>4, <1>8

\* The last open step stays active, or hands over to the step that is opened
\* behind it; a step opened by a stale verdict is not behind it.
LEMMA CommitLastOpen ==
  ASSUME TypeOK, NEW t \in Transaction, Committed(t), LastOpenIsActive(t.request),
         RefusalSettlesIn(t.request)'
  PROVE  LastOpenIsActive(t.request)'
<1> DEFINE r == t.request
           verdict == VerdictOf(t)
<1> SUFFICES ASSUME request'[r].status = "IN_PROGRESS"
             PROVE  \E k \in Steps(r)' : step'[r][k] = "ACTIVE" /\ \A j \in Opened(r)' : j <= k
  BY DEF LastOpenIsActive
<1>1. ~Settling(t, verdict)
  <2> SUFFICES ASSUME Settling(t, verdict)
               PROVE  FALSE
    OBVIOUS
  <2>1. verdict \in {"APPROVED", "REJECTED", "RETURNED", "IN_PROGRESS"} /\ verdict # "IN_PROGRESS"
    BY VerdictCases DEF VerdictOf, Settling
  <2>2. request'[r].status = IF verdict = "APPROVED" THEN "APPROVED" ELSE OutcomeOf[verdict]
    BY CommitRequest
  <2> HIDE DEF verdict
  <2> QED
    BY <2>1, <2>2 DEF OutcomeOf
<1>2. PICK k \in Steps(r) : step[r][k] = "ACTIVE" /\ \A j \in Opened(r) : j <= k
  BY <1>1, CommitRequest DEF LastOpenIsActive
<1>3. /\ Steps(r)' = Steps(r) /\ t.step \in Nat /\ k \in Nat /\ t.step <= k
      /\ Steps(r) \subseteq Nat
  BY <1>2, CommitOpens
<1>4. \A i \in Steps(r) : step'[r][i] =
              IF i = t.step /\ verdict # "IN_PROGRESS" THEN verdict
              ELSE IF i = t.step + 1 /\ verdict = "APPROVED" /\ t.next # "ACTIVE" THEN "ACTIVE"
              ELSE step[r][i]
  BY CommitSteps
<1>5. Opened(r)' = Opened(r) \cup (IF Opening(t, verdict) THEN {t.step + 1} ELSE {})
  BY CommitOpens
<1>6. Opening(t, verdict) => verdict = "APPROVED" /\ t.step + 1 \in Steps(r)
  BY DEF Opening
<1>7. ~Opening(t, verdict) => verdict = "IN_PROGRESS"
  BY <1>1 DEF Settling
<1>8. Opening(t, verdict) /\ t.step = k => t.next = "PENDING"
  <2>1. Opening(t, verdict) => t.next = "PENDING" \/ t.step + 1 \in Opened(r)
    BY DEF Committed, Knows
  <2> QED
    BY <1>2, <1>3, <2>1
<1> HIDE DEF verdict
<1>9. CASE ~Opening(t, verdict)
  BY <1>2, <1>3, <1>4, <1>5, <1>7, <1>9
<1>10. CASE Opening(t, verdict) /\ t.step = k
  <2>1. k + 1 \in Steps(r) /\ step'[r][k + 1] = "ACTIVE"
    BY <1>3, <1>4, <1>6, <1>8, <1>10
  <2>2. \A j \in Opened(r)' : j <= k + 1
    BY <1>2, <1>3, <1>5, <1>10 DEF Opened
  <2> QED
    BY <1>3, <2>1, <2>2
<1>11. CASE Opening(t, verdict) /\ t.step # k
  <2>1. step'[r][k] = "ACTIVE"
    BY <1>2, <1>4, <1>11
  <2>2. \A j \in Opened(r)' : j <= k
    BY <1>2, <1>3, <1>5, <1>11
  <2> QED
    BY <1>2, <1>3, <2>1, <2>2
<1> QED
  BY <1>9, <1>10, <1>11

\* The decision that settles the request is the one its seal misses; a later
\* decision that settles nothing leaves the seal and its decision alone.
LEMMA CommitSeal ==
  ASSUME TypeOK, NEW t \in Transaction, Committed(t), SealInOrder(t.request),
         DecisionsInOrder(t.request)
  PROVE  SealInOrder(t.request)'
<1> DEFINE r == t.request
           verdict == VerdictOf(t)
<1>1. PICK n \in Nat : n = Recorded(r)
  BY CommitKept, RowTypes
<1>2. /\ r \in Requests /\ Kept(r) /\ request[r].status # None
      /\ Recorded(r)' = n + 1 /\ \A i \in 1 .. n : decision'[r][i] = decision[r][i]
      /\ decision'[r][n + 1].step = t.step /\ decision'[r][n + 1].vote = t.vote
      /\ t.step \in Steps(r)
  BY <1>1, CommitDecides, CommitKept DEF Committed, Names
<1>3. \A k : Needed(request'[r].chain[k]) = Needed(request[r].chain[k])
  BY CommitRequest
<1>4. CASE ~Settling(t, verdict)
  <2>1. request'[r] = request[r]
    BY <1>4, CommitRequest
  <2> DEFINE seal == request[r].seal
  <2> SUFFICES ASSUME seal # None
               PROVE  /\ seal.status = request'[r].status
                      /\ \E i \in seal.covers + 1 .. n + 1 : Decides(r, seal, i)'
    BY <1>2, <2>1 DEF SealInOrder
  <2>2. PICK s \in SealRow : s = seal
    BY <1>2, RowTypes DEF RequestRow
  <2>3. PICK i \in s.covers + 1 .. n : Decides(r, s, i)
    BY <1>1, <2>2 DEF SealInOrder
  <2>4. s.covers \in Nat /\ s.covers <= n /\ i \in 1 .. n /\ i \in s.covers + 1 .. n + 1
    BY <2>3 DEF SealRow
  <2>5. decision[r][i].step \in Steps(r) /\ decision'[r][i] = decision[r][i]
    BY <1>1, <1>2, <2>4, SMTT(30) DEF DecisionsInOrder
  <2> DEFINE k == decision[r][i].step
             v == decision[r][i].vote
  <2>6. /\ Approvals(r, s.covers, k, v)' = Approvals(r, s.covers, k, v)
        /\ Stands(r, s.covers, k, v, "REJECT")' <=> Stands(r, s.covers, k, v, "REJECT")
        /\ Stands(r, s.covers, k, v, "RETURN_FOR_CHANGES")'
             <=> Stands(r, s.covers, k, v, "RETURN_FOR_CHANGES")
    <3>1. v \in Votes
      <4>1. decision[r] \in Seq(DecisionRow) /\ i \in 1 .. Len(decision[r])
        BY <1>1, <1>2, <2>4, RowTypes DEF Recorded
      <4>2. decision[r][i] \in DecisionRow
        BY <4>1
      <4> QED
        BY <4>2 DEF DecisionRow
    <3>2. PICK kk \in Steps(r), vv \in Votes : kk = k /\ vv = v
      BY <2>5, <3>1
    <3>3. kk = k' /\ vv = v'
      BY <2>5, <3>2
    <3>4. /\ Approvals(r, s.covers, kk, vv)' = Approvals(r, s.covers, kk, vv)
          /\ Stands(r, s.covers, kk, vv, "REJECT")' <=> Stands(r, s.covers, kk, vv, "REJECT")
          /\ Stands(r, s.covers, kk, vv, "RETURN_FOR_CHANGES")'
               <=> Stands(r, s.covers, kk, vv, "RETURN_FOR_CHANGES")
      BY <1>1, <1>2, <2>4, VerdictKept
    <3> QED
      BY <3>2, <3>3, <3>4 DEF Approvals, Stands, VotesFor
  <2>7. Decides(r, s, i)'
    BY <1>3, <2>3, <2>5, <2>6 DEF Decides
  <2> QED
    BY <1>2, <2>1, <2>2, <2>4, <2>7 DEF SealInOrder
<1>5. CASE Settling(t, verdict)
  <2>1. /\ verdict \in {"APPROVED", "REJECTED", "RETURNED"}
        /\ request'[r].status = IF verdict = "APPROVED" THEN "APPROVED" ELSE OutcomeOf[verdict]
        /\ request'[r].seal = [status |-> request'[r].status, covers |-> t.sealed]
    BY <1>5, VerdictCases, CommitRequest DEF VerdictOf, Settling
  <2>2. /\ t.counted \in Nat /\ t.sealed \in Nat
        /\ t.counted <= t.sealed /\ t.sealed <= n /\ t.counted <= n
    <3>1. t.counted \in Nat /\ t.sealed \in Nat
      BY DEF Transaction
    <3>2. t.counted <= t.sealed /\ t.sealed <= Recorded(r)
      BY <1>5 DEF Committed, Knows
    <3> QED
      BY <1>1, <3>1, <3>2
  <2>3. ASSUME NEW v
        PROVE  /\ VotesFor(r, t.counted, t.step, v) \subseteq VotesFor(r, t.sealed, t.step, v)'
               /\ Cardinality(VotesFor(r, t.counted, t.step, v))
                    <= Cardinality(VotesFor(r, t.sealed, t.step, v)')
               /\ Cardinality(VotesFor(r, t.counted, t.step, v)) \in Nat
               /\ Cardinality(VotesFor(r, t.sealed, t.step, v)') \in Nat
    <3>1. VotesFor(r, t.sealed, t.step, v)' = VotesFor(r, t.sealed, t.step, v)
      BY <1>1, <1>2, <2>2, VotesKept
    <3> QED
      BY <1>1, <1>2, <2>2, <3>1, VotesMonotone, VotesFinite
  <2>4. verdict = "APPROVED" =>
          Approvals(r, t.sealed, t.step, t.vote)' >= Needed(request'[r].chain[t.step])
    <3> DEFINE old == Cardinality(VotesFor(r, t.counted, t.step, "APPROVE"))
               new == Cardinality(VotesFor(r, t.sealed, t.step, "APPROVE")')
               one == IF t.vote = "APPROVE" THEN 1 ELSE 0
               need == Needed(request[r].chain[t.step])
    <3>1. verdict = "APPROVED" => old + one >= need
      BY DEF VerdictOf, Verdict, Approvals
    <3>2. old \in Nat /\ new \in Nat /\ old <= new /\ need \in Nat /\ one \in Nat
      BY <1>2, <2>3, NeededType
    <3>3. Approvals(r, t.sealed, t.step, t.vote)' = new + one
      BY DEF Approvals
    <3>4. Needed(request'[r].chain[t.step]) = need
      BY <1>3
    <3> HIDE DEF old, new, one, need, verdict
    <3> QED
      BY <3>1, <3>2, <3>3, <3>4
  <2>5. /\ verdict = "REJECTED" => Stands(r, t.sealed, t.step, t.vote, "REJECT")'
        /\ verdict = "RETURNED" => Stands(r, t.sealed, t.step, t.vote, "RETURN_FOR_CHANGES")'
    <3>1. /\ verdict = "REJECTED" => Stands(r, t.counted, t.step, t.vote, "REJECT")
          /\ verdict = "RETURNED" => Stands(r, t.counted, t.step, t.vote, "RETURN_FOR_CHANGES")
      BY DEF VerdictOf, Verdict
    <3>2. \A u : Stands(r, t.counted, t.step, t.vote, u) => Stands(r, t.sealed, t.step, t.vote, u)'
      BY <2>3 DEF Stands
    <3> HIDE DEF verdict
    <3> QED
      BY <3>1, <3>2
  <2> DEFINE seal == [status |-> request'[r].status, covers |-> t.sealed]
  <2>6. PICK s : s = seal
    OBVIOUS
  <2>7. s.status = request'[r].status /\ s.covers = t.sealed
    BY <2>6
  <2>8. Decides(r, s, n + 1)'
    <3>1. /\ s.status = "APPROVED" => verdict = "APPROVED"
          /\ s.status = "REJECTED" => verdict = "REJECTED"
          /\ s.status = "RETURNED_FOR_CHANGES" => verdict = "RETURNED"
      <4> HIDE DEF verdict
      <4> QED
        BY <2>1, <2>7 DEF OutcomeOf
    <3>2. /\ s.status = "APPROVED" =>
               Approvals(r, s.covers, t.step, t.vote)' >= Needed(request'[r].chain[t.step])
          /\ s.status = "REJECTED" => Stands(r, s.covers, t.step, t.vote, "REJECT")'
          /\ s.status = "RETURNED_FOR_CHANGES" =>
               Stands(r, s.covers, t.step, t.vote, "RETURN_FOR_CHANGES")'
      <4> HIDE DEF verdict, seal
      <4> QED
        BY <2>4, <2>5, <2>7, <3>1
    <3> HIDE DEF verdict, seal
    <3> QED
      BY <1>2, <3>2 DEF Decides, Approvals, Stands, VotesFor
  <2>9. n + 1 \in s.covers + 1 .. n + 1
    BY <2>2, <2>7
  <2>10. request'[r].seal = s
    BY <2>1, <2>6
  <2> HIDE DEF seal, verdict
  <2> QED
    BY <1>2, <2>7, <2>8, <2>9, <2>10 DEF SealInOrder
<1> QED
  BY <1>4, <1>5
LEMMA CommitKeeps ==
  ASSUME ApprovalInv, NEW w \in Workers, Commit(w)
  PROVE  ApprovalInv'
<1>1. PICK t \in Transaction : t = txn[w] /\ Reliable(t)
  BY DEF ApprovalInv, TypeOK
<1> DEFINE r == t.request
<1>2. TypeOK /\ t.pc = "commit" /\ Names(t) /\ Knows(t)
  BY <1>1 DEF Commit, Reliable, ApprovalInv
<1>3. r \in Requests /\ request[r].status # None
  BY <1>2 DEF Names
<1>4. /\ txn' = [txn EXCEPT ![w] = Idle]
      /\ decision' = [decision EXCEPT ![r] =
           Append(@, [step |-> t.step, by |-> By(t), vote |-> t.vote])]
      /\ acted' = [acted EXCEPT ![r] = @ \cup {<<t.step, t.place>>}]
      /\ step' = [step EXCEPT ![r] = NewStep(t, VerdictOf(t))]
      /\ request' = IF Settling(t, VerdictOf(t))
                    THEN [request EXCEPT ![r] = Settle(t, VerdictOf(t))] ELSE request
  BY <1>1 DEF Commit, VerdictOf
<1>5. /\ \A q \in Requests \ {r} :
           request'[q] = request[q] /\ step'[q] = step[q] /\ decision'[q] = decision[q]
      /\ DOMAIN request' = Requests /\ DOMAIN step' = Requests /\ DOMAIN decision' = Requests
      /\ request' = [q \in Requests |-> request'[q]] /\ step' = [q \in Requests |-> step'[q]]
      /\ decision' = [q \in Requests |-> decision'[q]]
  BY <1>2, <1>3, <1>4 DEF TypeOK
<1>6. Committed(t)
  BY <1>2, <1>3, <1>4 DEF Committed, TypeOK
<1>7. TypeOK'
  <2>1. /\ request'[r] \in RequestRow /\ step'[r] \in Seq(StepStatuses)
        /\ decision'[r] \in Seq(DecisionRow) /\ Len(step'[r]) = Len(request'[r].chain)
    BY <1>2, <1>6, CommitRequest, CommitSteps, CommitDecides
  <2>2. \A q \in Requests :
          /\ request'[q] \in RequestRow \cup {NoRequest} /\ step'[q] \in Seq(StepStatuses)
          /\ decision'[q] \in Seq(DecisionRow) /\ Len(step'[q]) = Len(request'[q].chain)
    BY <1>2, <1>5, <2>1 DEF TypeOK
  <2>3. /\ request' \in [Requests -> RequestRow \cup {NoRequest}]
        /\ step' \in [Requests -> Seq(StepStatuses)]
        /\ decision' \in [Requests -> Seq(DecisionRow)]
    BY <1>5, <2>2
  <2>4. acted' \in [Requests -> SUBSET (Nat \X Nat)]
    <3>1. <<t.step, t.place>> \in Nat \X Nat
      BY DEF Transaction
    <3> QED
      BY <1>2, <1>4, <3>1 DEF TypeOK
  <2>5. txn' \in [Workers -> Transaction]
    <3>1. Idle \in Transaction
      BY DEF Idle, Transaction
    <3> QED
      BY <1>2, <1>4, <3>1 DEF TypeOK
  <2> QED
    BY <2>2, <2>3, <2>4, <2>5 DEF TypeOK
<1>8. RequestInOrder(r)'
  <2>1. RequestInOrder(r)
    BY <1>3 DEF ApprovalInv
  <2>2. OutcomeEarnedBy(r)'
    BY <1>2, <1>6, <2>1, CommitOutcome DEF RequestInOrder
  <2>3. RefusalSettlesIn(r)' /\ DecisionsInOrder(r)'
    BY <1>2, <1>6, <2>1, CommitRefusals DEF RequestInOrder
  <2>4. LastOpenIsActive(r)'
    BY <1>2, <1>6, <2>1, <2>3, CommitLastOpen DEF RequestInOrder
  <2>5. SealInOrder(r)'
    BY <1>2, <1>6, <2>1, CommitSeal DEF RequestInOrder
  <2> QED
    BY <2>2, <2>3, <2>4, <2>5 DEF RequestInOrder
<1>9. ASSUME NEW q \in Requests
      PROVE  RequestInOrder(q)'
  <2>1. CASE q # r
    <3>1. request'[q] = request[q] /\ step'[q] = step[q] /\ decision'[q] = decision[q]
      BY <1>5, <2>1
    <3> QED
      BY <3>1, RowsSame DEF ApprovalInv
  <2> QED
    BY <1>8, <2>1
<1>10. ASSUME NEW q \in Requests, request[q].status # None
       PROVE  Kept(q)
  <2>1. CASE q # r
    <3>1. request'[q] = request[q] /\ step'[q] = step[q] /\ decision'[q] = decision[q]
      BY <1>5, <2>1
    <3> QED
      BY <1>2, <1>10, <3>1, RowsSameKept
  <2>2. CASE q = r
    BY <1>2, <1>6, <2>2, CommitKept
  <2> QED
    BY <2>1, <2>2
<1>11. \A v \in Workers : Reliable(txn[v])'
  <2>1. Idle \in Transaction /\ Reliable(Idle)
    BY DEF Idle, Transaction, Reliable
  <2> QED
    BY <1>4, <1>7, <1>10, <2>1, ReliableTxns
<1> QED
  BY <1>7, <1>9, <1>11 DEF ApprovalInv

-----------------------------------------------------------------------------
(* The theorems. *)

LEMMA ApprovalInit ==
  Init => ApprovalInv
<1> SUFFICES ASSUME Init
             PROVE  ApprovalInv
  OBVIOUS
<1>1. TypeOK
  BY DEF Init, TypeOK, NoRequest, Idle, Transaction
<1>2. ASSUME NEW r \in Requests
      PROVE  RequestInOrder(r)
  <2>1. request[r] = NoRequest /\ step[r] = <<>> /\ decision[r] = <<>>
    BY DEF Init
  <2>2. Recorded(r) = 0 /\ Steps(r) = {} /\ Opened(r) = {}
    BY <2>1 DEF NoRequest, Recorded, Steps, Opened
  <2>3. None \notin {"IN_PROGRESS", "APPROVED", "REJECTED", "RETURNED_FOR_CHANGES"}
    BY ApprovalConstants DEF Statuses
  <2>4. request[r].status = None /\ request[r].seal = None
    BY <2>1 DEF NoRequest
  <2>5. DecisionsInOrder(r) /\ RefusalSettlesIn(r)
    BY <2>1, <2>2 DEF DecisionsInOrder, RefusalSettlesIn
  <2>6. OutcomeEarnedBy(r)
    BY <2>2, <2>3, <2>4 DEF OutcomeEarnedBy
  <2>7. LastOpenIsActive(r) /\ SealInOrder(r)
    BY <2>3, <2>4 DEF LastOpenIsActive, SealInOrder
  <2> QED
    BY <2>5, <2>6, <2>7 DEF RequestInOrder
<1>3. \A w \in Workers : Reliable(txn[w])
  BY DEF Init, Reliable, Idle
<1> QED
  BY <1>1, <1>2, <1>3 DEF ApprovalInv

LEMMA ApprovalNext ==
  ApprovalInv /\ [Next]_vars => ApprovalInv'
<1> SUFFICES ASSUME ApprovalInv, [Next]_vars
             PROVE  ApprovalInv'
  OBVIOUS
<1>1. ASSUME NEW w \in Workers, NEW v \in Revisions, Submit(w, v)
      PROVE  ApprovalInv'
  BY <1>1, SubmitKeeps
<1>2. ASSUME NEW w \in Workers, NEW r \in Requests, NEW c \in Chains, NEW u \in Creators,
             InsertRequest(w, r, c, u)
      PROVE  ApprovalInv'
  BY <1>2, InsertRequestKeeps
<1>3. ASSUME NEW w \in Workers, NEW r \in Requests, NEW k \in Steps(r),
             NEW i \in 1 .. Len(Approvers(r, k)), NEW v \in Ballot[Approvers(r, k)[i]],
             Decide(w, r, k, i, v)
      PROVE  ApprovalInv'
  <2>1. request[r].chain[k] \in StepDefinition
    BY <1>3, NeededType DEF ApprovalInv, Decide
  <2>2. Approvers(r, k) \in Seq(Users)
    BY <2>1 DEF Approvers, StepDefinition
  <2>3. Approvers(r, k)[i] \in Users
    BY <1>3, <2>2
  <2>4. v \in Votes
    BY <1>3, <2>3, ApprovalConstants
  <2> QED
    BY <1>3, <2>4, DecideKeeps
<1>4. ASSUME NEW w \in Workers, ReadRequest(w) \/ ReadStep(w) \/ CheckDuties(w)
      PROVE  ApprovalInv'
  BY <1>4, ReadRequestKeeps, ReadStepKeeps, CheckDutiesKeeps
<1>5. ASSUME NEW w \in Workers, CountVotes(w) \/ ReadNext(w) \/ Seal(w)
      PROVE  ApprovalInv'
  BY <1>5, CountVotesKeeps, ReadNextKeeps, SealKeeps
<1>6. ASSUME NEW w \in Workers, Commit(w)
      PROVE  ApprovalInv'
  BY <1>6, CommitKeeps
<1>7. ASSUME NEW w \in Workers, Crash(w)
      PROVE  ApprovalInv'
  BY <1>7, RefuseKeeps DEF Crash
<1>8. CASE UNCHANGED vars
  <2>1. TypeOK'
    BY <1>8 DEF ApprovalInv, TypeOK, vars
  <2>2. \A r \in Requests : RequestInOrder(r)'
    BY <1>8, RowsSame DEF ApprovalInv, vars
  <2>3. ASSUME NEW w \in Workers
        PROVE  Reliable(txn[w])'
    <3>1. PICK t \in Transaction : t = txn[w] /\ Reliable(t)
      BY DEF ApprovalInv, TypeOK
    <3>2. t.pc \notin {"idle", "insert"} => Kept(t.request)
      BY <1>8, <3>1, RowsSameKept DEF vars, Reliable, Names, ApprovalInv
    <3> QED
      BY <1>8, <2>1, <3>1, <3>2, ReliableKept, EqualReliable DEF ApprovalInv, vars
  <2> QED
    BY <2>1, <2>2, <2>3 DEF ApprovalInv
<1> QED
  BY <1>1, <1>2, <1>3, <1>4, <1>5, <1>6, <1>7, <1>8 DEF Next

\* ApprovalInv holds in every reachable state: a transaction that comes to
\* write knows enough of the rows, whatever was committed since it read them.
THEOREM ApprovalInvariance == Spec => []ApprovalInv
  BY ApprovalInit, ApprovalNext, PTL DEF Spec

\* The rows keep their types, so that the outcome of a request is always one of
\* the statuses of a request.
THEOREM ApprovalTypes == Spec => []TypeOK
<1>1. ApprovalInv => TypeOK
  BY DEF ApprovalInv
<1> QED
  BY <1>1, ApprovalInvariance, PTL

\* Whatever overlaps, no step opens before the steps before it have the
\* approvals they need, and no request is approved, rejected or returned
\* without the votes for it on record.
THEOREM OutcomeIsEarned == Spec => []OutcomeEarned
<1>1. ApprovalInv => OutcomeEarned
  BY DEF ApprovalInv, RequestInOrder, OutcomeEarned
<1> QED
  BY <1>1, ApprovalInvariance, PTL

\* No request with a refusal on record is still in progress.
THEOREM RefusalIsFinal == Spec => []RefusalSettles
<1>1. ApprovalInv => RefusalSettles
  BY DEF ApprovalInv, RequestInOrder, RefusalSettlesIn, RefusalSettles
<1> QED
  BY <1>1, ApprovalInvariance, PTL

\* A request in progress always has an active step: the last one opened.
THEOREM SomeStepIsActive == Spec => []InProgressHasActiveStep
<1>1. ApprovalInv => InProgressHasActiveStep
  BY DEF ApprovalInv, RequestInOrder, LastOpenIsActive, InProgressHasActiveStep
<1> QED
  BY <1>1, ApprovalInvariance, PTL

\* The seal of a settled request states its outcome, and lacks the decision
\* that led to it.
THEOREM SealMissesTheDecision == Spec => []SealLacksOneDecision
<1>1. ApprovalInv => SealLacksOneDecision
  BY DEF ApprovalInv, RequestInOrder, SealInOrder, SealLacksOneDecision
<1> QED
  BY <1>1, ApprovalInvariance, PTL
-----------------------------------------------------------------------------
(* The requests keep the rule. *)

LEMMA SameCardinality == \A S : Rule!Cardinality(S) = Cardinality(S)
  BY DEF Cardinality, Rule!Cardinality

LEMMA MatterSame ==
  ASSUME NEW r, request'[r] = request[r], step'[r] = step[r], decision'[r] = decision[r]
  PROVE  Matter(r)' = Matter(r)
<1>1. Opened(r)' = Opened(r) /\ Recorded(r)' = Recorded(r)
  BY DEF Steps, Opened, Recorded
<1>2. NeedsOf(request[r].chain)' = NeedsOf(request[r].chain)
  BY DEF NeedsOf
<1> QED
  BY <1>1, <1>2 DEF Matter

LEMMA MattersUnchanged ==
  ASSUME request' = request, step' = step, decision' = decision
  PROVE  [r \in Requests |-> Matter(r)]' = [r \in Requests |-> Matter(r)]
  BY MatterSame

LEMMA RuleVotes ==
  ASSUME NEW r, NEW n \in Nat, n = Recorded(r)', NEW m, m = Matter(r)',
         NEW k, NEW v
  PROVE  Rule!VotesFor(m, k, v) = VotesFor(r, n, k, v)'
<1>1. m.votes = [i \in 1 .. n |-> [step |-> decision'[r][i].step, vote |-> decision'[r][i].vote]]
  BY DEF Matter
<1>2. Len(m.votes) = n
  BY <1>1
<1>3. \A i \in 1 .. n :
        m.votes[i].step = decision'[r][i].step /\ m.votes[i].vote = decision'[r][i].vote
  BY <1>1
<1> QED
  BY <1>2, <1>3 DEF Rule!VotesFor, VotesFor

LEMMA InsertSubmits ==
  ASSUME ApprovalInv, NEW w \in Workers, NEW r \in Requests, NEW chain \in Chains,
         NEW creator \in Creators, InsertRequest(w, r, chain, creator)
  PROVE  Rule!Submit(r, NeedsOf(chain))
<1> DEFINE old == [q \in Requests |-> Matter(q)]
           new == [q \in Requests |-> Matter(q)']
           first == [needs |-> NeedsOf(chain), votes |-> <<>>, opened |-> {1},
                     status |-> "IN_PROGRESS"]
<1>1. TypeOK /\ request[r].status = None /\ decision[r] = <<>>
  BY DEF InsertRequest, ApprovalInv, RequestInOrder, DecisionsInOrder
<1>2. /\ request'[r].status = "IN_PROGRESS" /\ request'[r].chain = chain
      /\ step'[r] = [k \in 1 .. Len(chain) |-> IF k = 1 THEN "ACTIVE" ELSE "PENDING"]
      /\ decision'[r] = <<>>
      /\ \A q \in Requests \ {r} :
           request'[q] = request[q] /\ step'[q] = step[q] /\ decision'[q] = decision[q]
  BY <1>1 DEF InsertRequest, TypeOK
<1>3. Len(chain) \in Nat /\ Len(chain) >= 1
  BY ApprovalConstants
<1>4. Opened(r)' = {1}
  BY <1>2, <1>3 DEF Opened, Steps
<1>5. Matter(r)' = first
  <2>1. Recorded(r)' = 0
    BY <1>2 DEF Recorded
  <2>2. [i \in 1 .. Recorded(r)' |->
           [step |-> decision'[r][i].step, vote |-> decision'[r][i].vote]] = <<>>
    BY <2>1
  <2> QED
    BY <1>2, <1>4, <2>2 DEF Matter
<1>6. Matter(r).status = None
  BY <1>1 DEF Matter
<1>7. \A q \in Requests \ {r} : Matter(q)' = Matter(q)
  BY <1>2, MatterSame
<1> HIDE DEF first
<1>8. new = [old EXCEPT ![r] = first]
  BY <1>5, <1>7
<1> QED
  BY <1>6, <1>8 DEF Rule!Submit, first

LEMMA AppendIsFunction ==
  ASSUME NEW S, NEW n \in Nat, NEW s \in [1 .. n -> S], NEW e \in S
  PROVE  Append(s, e) = [i \in 1 .. n + 1 |-> IF i = n + 1 THEN e ELSE s[i]]
<1>1. s \in Seq(S) /\ Len(s) = n
  OBVIOUS
<1>2. Append(s, e) \in Seq(S) /\ Len(Append(s, e)) = n + 1
  BY <1>1
<1>3. \A i \in 1 .. n + 1 : Append(s, e)[i] = IF i = n + 1 THEN e ELSE s[i]
  BY <1>1
<1>4. Append(s, e) \in [1 .. n + 1 -> S]
  BY <1>2, LenProperties
<1> QED
  BY <1>3, <1>4

\* A vote, in terms of what it makes of the matter.
LEMMA VoteBetween ==
  ASSUME NEW r \in Requests, NEW old, old = Matter(r), NEW new, new = Matter(r)',
         NEW k \in old.opened, NEW v,
         [q \in Requests |-> Matter(q)'] = [[q \in Requests |-> Matter(q)] EXCEPT ![r] = new],
         new = [needs |-> old.needs, votes |-> Append(old.votes, [step |-> k, vote |-> v]),
                opened |-> new.opened, status |-> new.status],
         \/ /\ v \notin Refusals
            /\ Rule!Undecided(old, new) \/ Rule!OpensNext(old, new, k) \/ Rule!Approves(old, new, k)
         \/ Rule!Refuses(old, new, k)
  PROVE  Rule!Vote(r, k, v)
<1> DEFINE matter == [q \in Requests |-> Matter(q)]
           after == [q \in Requests |-> Matter(q)']
<1>1. matter[r] = old /\ after[r] = new
  OBVIOUS
<1>2. Refusals = Rule!Refusals
  BY DEF Refusals, Rule!Refusals
<1> QED
  BY <1>1, <1>2 DEF Rule!Vote

LEMMA CommitVotes ==
  ASSUME ApprovalInv, NEW w \in Workers, Commit(w), NEW t \in Transaction, t = txn[w]
  PROVE  /\ t.request \in Requests /\ t.step \in Opened(t.request) /\ t.vote \in Votes
         /\ Rule!Vote(t.request, t.step, t.vote)
<1> DEFINE r == t.request
           verdict == VerdictOf(t)
           vote == [step |-> t.step, vote |-> t.vote]
<1>1. /\ TypeOK /\ t.pc = "commit" /\ Names(t) /\ Knows(t) /\ r \in Requests
      /\ request[r].status # None /\ t.vote \in Votes
  BY DEF Commit, Reliable, ApprovalInv, Names
<1>2. Committed(t)
  BY <1>1 DEF Commit, Committed, TypeOK, VerdictOf
<1>3. \A q \in Requests \ {r} :
        request'[q] = request[q] /\ step'[q] = step[q] /\ decision'[q] = decision[q]
  BY <1>1 DEF Commit, TypeOK
<1>4. PICK n \in Nat : n = Recorded(r)
  BY <1>1, RowTypes
<1>5. /\ Recorded(r)' = n + 1 /\ \A i \in 1 .. n : decision'[r][i] = decision[r][i]
      /\ decision'[r][n + 1].step = t.step /\ decision'[r][n + 1].vote = t.vote
  BY <1>1, <1>2, <1>4, CommitDecides
<1>6. /\ request'[r].status # None /\ request'[r].chain = request[r].chain
      /\ Steps(r)' = Steps(r) /\ t.step \in Opened(r) /\ t.step \in Steps(r)
      /\ Opened(r)' =
           Opened(r) \cup (IF Opening(t, verdict) THEN {t.step + 1} ELSE {})
  BY <1>1, <1>2, CommitKept, CommitOpens, CommitRequest DEF Kept
<1>7. PICK old : old = Matter(r)
  OBVIOUS
<1>8. PICK new : new = Matter(r)'
  OBVIOUS
<1>9. /\ old.needs = NeedsOf(request[r].chain) /\ new.needs = old.needs
      /\ old.opened = Opened(r) /\ new.opened = Opened(r)'
      /\ old.status = request[r].status /\ new.status = request'[r].status
  BY <1>1, <1>6, <1>7, <1>8 DEF Matter
<1>10. new.votes = Append(old.votes, vote)
  <2>1. old.votes = [i \in 1 .. n |-> [step |-> decision[r][i].step, vote |-> decision[r][i].vote]]
    BY <1>1, <1>4, <1>7 DEF Matter
  <2>2. new.votes = [i \in 1 .. n + 1 |->
                       [step |-> decision'[r][i].step, vote |-> decision'[r][i].vote]]
    BY <1>5, <1>6, <1>8 DEF Matter
  <2>3. old.votes \in [1 .. n -> [step : Nat, vote : Votes]]
    <3>0. \A i \in 1 .. n : decision[r][i] \in DecisionRow
      <4>1. decision[r] \in Seq(DecisionRow) /\ Len(decision[r]) = n
        BY <1>1, <1>4 DEF TypeOK, Recorded
      <4> QED
        BY <4>1
    <3>1. \A i \in 1 .. n : decision[r][i].step \in Nat /\ decision[r][i].vote \in Votes
      BY <3>0 DEF DecisionRow
    <3>2. \A i \in 1 .. n :
            [step |-> decision[r][i].step, vote |-> decision[r][i].vote] \in [step : Nat, vote : Votes]
      BY <3>1
    <3> QED
      BY <2>1, <3>2
  <2>4. Append(old.votes, vote) = [i \in 1 .. n + 1 |-> IF i = n + 1 THEN vote ELSE old.votes[i]]
    <3>1. vote \in [step : Nat, vote : Votes]
      BY <1>1, SMTT(30) DEF Transaction
    <3> HIDE DEF vote
    <3> QED
      BY <2>3, <3>1, AppendIsFunction, SMTT(30)
  <2>5. \A i \in 1 .. n + 1 : new.votes[i] = IF i = n + 1 THEN vote ELSE old.votes[i]
    BY <1>5, <2>1, <2>2
  <2> HIDE DEF vote
  <2> QED
    BY <2>2, <2>4, <2>5
<1>11. new = [needs |-> old.needs, votes |-> Append(old.votes, vote),
              opened |-> new.opened, status |-> new.status]
  <2>1. new = [needs |-> new.needs, votes |-> new.votes, opened |-> new.opened, status |-> new.status]
    BY <1>6, <1>8 DEF Matter
  <2> QED
    BY <1>9, <1>10, <2>1
<1>12. [q \in Requests |-> Matter(q)'] = [[q \in Requests |-> Matter(q)] EXCEPT ![r] = new]
  BY <1>3, <1>8, MatterSame
<1>13. \A k, v : Rule!VotesFor(new, k, v) = VotesFor(r, Recorded(r), k, v)'
  <2>1. \A k, v : Rule!VotesFor(new, k, v) = VotesFor(r, n + 1, k, v)'
    <3> n + 1 \in Nat
      OBVIOUS
    <3> QED
      BY <1>5, <1>6, <1>8, RuleVotes
  <2> QED
    BY <1>5, <2>1 DEF VotesFor
<1>14. Len(new.needs) = Len(request[r].chain) /\ Steps(r) = 1 .. Len(request[r].chain)
  BY <1>1, <1>9, RowTypes DEF NeedsOf, Steps
<1>15. ASSUME verdict = "APPROVED"
       PROVE  Rule!Earned(new, t.step)
  <2>1. Earned(r, Recorded(r), t.step)'
    BY <1>1, <1>2, <1>15, CommitEarns, SMTT(30)
  <2>2. new.needs[t.step] = Needed(request[r].chain[t.step])
    BY <1>6, <1>9, <1>14 DEF NeedsOf
  <2>3. Needed(request'[r].chain[t.step]) = Needed(request[r].chain[t.step])
    BY <1>6
  <2> QED
    BY <1>13, <2>1, <2>2, <2>3, SameCardinality DEF Rule!Earned, Earned
<1>16. t.vote \in Refusals => verdict \in {"REJECTED", "RETURNED"}
  BY DEF VerdictOf, Verdict, Stands, Refusals
<1>17. verdict \in {"APPROVED", "REJECTED", "RETURNED", "IN_PROGRESS"}
  BY VerdictCases DEF VerdictOf
<1>18. /\ ~Settling(t, verdict) => request'[r].status = request[r].status
       /\ Settling(t, verdict) => request'[r].status =
            IF verdict = "APPROVED" THEN "APPROVED" ELSE OutcomeOf[verdict]
  BY <1>1, <1>2, CommitRequest
<1>19. /\ verdict = "REJECTED" => VotesFor(r, Recorded(r), t.step, "REJECT")' # {}
       /\ verdict = "RETURNED" => VotesFor(r, Recorded(r), t.step, "RETURN_FOR_CHANGES")' # {}
  BY <1>1, <1>2, CommitEarns
<1>20. /\ Opening(t, verdict) <=> verdict = "APPROVED" /\ t.step + 1 \in Steps(r)
       /\ Settling(t, verdict) <=> verdict # "IN_PROGRESS" /\ ~Opening(t, verdict)
  BY DEF Opening, Settling
<1>21. \/ /\ t.vote \notin Refusals
          /\ \/ Rule!Undecided(old, new) \/ Rule!OpensNext(old, new, t.step)
             \/ Rule!Approves(old, new, t.step)
       \/ Rule!Refuses(old, new, t.step)
  <2> HIDE DEF verdict
  <2>1. verdict = "IN_PROGRESS" => Rule!Undecided(old, new)
    BY <1>6, <1>9, <1>18, <1>20 DEF Rule!Undecided
  <2>2. verdict = "APPROVED" /\ t.step + 1 \in Steps(r) => Rule!OpensNext(old, new, t.step)
    BY <1>6, <1>9, <1>14, <1>15, <1>18, <1>20 DEF Rule!OpensNext
  <2>3. verdict = "APPROVED" /\ t.step + 1 \notin Steps(r) => Rule!Approves(old, new, t.step)
    <3>1. t.step + 1 \notin Steps(r) => t.step = Len(new.needs)
      BY <1>1, <1>6, <1>14, RowTypes
    <3> QED
      BY <1>6, <1>9, <1>15, <1>18, <1>20, <3>1 DEF Rule!Approves
  <2>4. verdict \in {"REJECTED", "RETURNED"} => Rule!Refuses(old, new, t.step)
    BY <1>6, <1>9, <1>13, <1>18, <1>19, <1>20, SMTT(30)
       DEF Rule!Refuses, Rule!Refusals, Rule!OutcomeOf, OutcomeOf
  <2> QED
    BY <1>16, <1>17, <2>1, <2>2, <2>3, <2>4
<1>22. Rule!Vote(r, t.step, t.vote)
  BY <1>1, <1>6, <1>7, <1>8, <1>9, <1>11, <1>12, <1>21, VoteBetween, SMTT(30)
<1> QED
  BY <1>1, <1>6, <1>22
LEMMA RuleInit == Init => Rule!Init
<1> SUFFICES ASSUME Init
             PROVE  Rule!Init
  OBVIOUS
<1>1. ASSUME NEW r \in Requests
      PROVE  Matter(r) = Rule!NotSubmitted
  <2>1. /\ request[r].chain = <<>> /\ request[r].status = None
        /\ Recorded(r) = 0 /\ Opened(r) = {}
    BY DEF Init, NoRequest, Recorded, Opened, Steps
  <2>2. NeedsOf(<<>>) = <<>>
    BY DEF NeedsOf
  <2>3. [i \in 1 .. 0 |-> [step |-> decision[r][i].step, vote |-> decision[r][i].vote]] = <<>>
    OBVIOUS
  <2> QED
    BY <2>1, <2>2, <2>3 DEF Matter, Rule!NotSubmitted
<1> QED
  BY <1>1 DEF Rule!Init

LEMMA RuleNext ==
  ApprovalInv /\ [Next]_vars =>
    Rule!Next \/ UNCHANGED [r \in Requests |-> Matter(r)]
<1> SUFFICES ASSUME ApprovalInv, [Next]_vars
             PROVE  Rule!Next \/ UNCHANGED [r \in Requests |-> Matter(r)]
  OBVIOUS
<1>1. ASSUME NEW w \in Workers, NEW r \in Requests, NEW c \in Chains, NEW u \in Creators,
             InsertRequest(w, r, c, u)
      PROVE  Rule!Next
  BY <1>1, InsertSubmits DEF Rule!Next
<1>2. ASSUME NEW w \in Workers, Commit(w)
      PROVE  Rule!Next
  <2>1. PICK t \in Transaction : t = txn[w]
    BY DEF ApprovalInv, TypeOK
  <2>2. /\ t.request \in Requests /\ t.step \in Opened(t.request) /\ t.vote \in Votes
        /\ Rule!Vote(t.request, t.step, t.vote)
    BY <1>2, <2>1, CommitVotes
  <2>3. Votes = Rule!Votes
    BY DEF Votes, Refusals, Rule!Votes, Rule!Refusals
  <2>4. [r \in Requests |-> Matter(r)][t.request].opened = Opened(t.request)
    BY <2>2 DEF Matter
  <2> QED
    BY <2>2, <2>3, <2>4 DEF Rule!Next
<1>3. ASSUME request' = request, step' = step, decision' = decision
      PROVE  UNCHANGED [r \in Requests |-> Matter(r)]
  BY <1>3, MattersUnchanged
<1>4. ASSUME NEW w \in Workers,
             \/ \E v \in Revisions : Submit(w, v)
             \/ \E r \in Requests : \E k \in Steps(r) : \E i \in 1 .. Len(Approvers(r, k)) :
                  \E v \in Ballot[Approvers(r, k)[i]] : Decide(w, r, k, i, v)
      PROVE  request' = request /\ step' = step /\ decision' = decision
  BY <1>4 DEF Submit, Decide, Go
<1>5. ASSUME NEW w \in Workers,
             \/ ReadRequest(w) \/ ReadStep(w) \/ CheckDuties(w) \/ CountVotes(w)
             \/ ReadNext(w) \/ Seal(w) \/ Crash(w)
      PROVE  request' = request /\ step' = step /\ decision' = decision
  BY <1>5 DEF ReadRequest, ReadStep, CheckDuties, CountVotes, ReadNext, Seal, Crash, Refuse, Go
<1>6. ASSUME UNCHANGED vars
      PROVE  request' = request /\ step' = step /\ decision' = decision
  BY <1>6 DEF vars
<1>7. CASE UNCHANGED vars
  BY <1>3, <1>6, <1>7
<1>8. CASE Next
  <2>1. PICK w \in Workers :
          \/ \/ \E v \in Revisions : Submit(w, v)
             \/ \E r \in Requests : \E k \in Steps(r) : \E i \in 1 .. Len(Approvers(r, k)) :
                  \E v \in Ballot[Approvers(r, k)[i]] : Decide(w, r, k, i, v)
          \/ \E r \in Requests, c \in Chains, u \in Creators : InsertRequest(w, r, c, u)
          \/ \/ ReadRequest(w) \/ ReadStep(w) \/ CheckDuties(w) \/ CountVotes(w)
             \/ ReadNext(w) \/ Seal(w) \/ Crash(w)
          \/ Commit(w)
    BY <1>8, Zenon DEF Next
  <2> QED
    BY <1>1, <1>2, <1>3, <1>4, <1>5, <2>1
<1> QED
  BY <1>7, <1>8

\* The requests implement ApprovalRule: an insert submits a matter, a commit is
\* one vote in an open step that leaves it undecided, opens the next step,
\* approves the matter or refuses it, and no other step is seen.
THEOREM ApprovalsImplementRule == Spec => ImplementsApprovalRule
<1>1. ApprovalInv /\ [Next]_vars => [Rule!Next]_([r \in Requests |-> Matter(r)])
  BY RuleNext
<1> QED
  BY <1>1, RuleInit, ApprovalInvariance, PTL DEF Spec, ImplementsApprovalRule, Rule!Spec
=============================================================================
