----------------------------- MODULE Approvals ------------------------------
(***************************************************************************)
(* The approval engine of the procurement (procurement/approvals): a       *)
(* revision of a document is submitted with a chain of steps, the          *)
(* approvers assigned to the active step decide, and a decision may        *)
(* complete its step, open the next one or settle the request.             *)
(*                                                                         *)
(* A handler is one database transaction of READ COMMITTED with autoflush  *)
(* off.  It takes no locks and tests no versions: there is a step for each *)
(* of its statements, and what it writes goes out, with the decision, in a *)
(* single flush before the commit, whatever others have written meanwhile. *)
(*                                                                         *)
(* Not kept: policies, which only yield the chain of a submission (any of  *)
(* Chains), snapshots, hashes, the log of events, reasons and conditions.  *)
(***************************************************************************)
EXTENDS Integers, Sequences, FiniteSets

CONSTANTS
  Requests,    \* bound: requests ever created
  Revisions,   \* what is submitted; None for a subject without revisions
  Users,
  Ballot,      \* Ballot[u]: the votes that user u casts
  Creators,    \* those of them that write the documents
  Chains,      \* the chains that the active policies compile to
  Workers,     \* server threads, one transaction each
  None

VARIABLES
  request,     \* request[r]: the request rows, with their chain
  step,        \* step[r][k]: the status of the k-th step
  acted,       \* acted[r]: its assignments <<step, place>> that were decided
  decision,    \* decision[r]: its decisions, in the order of their commits
  txn          \* txn[w]: the transaction of worker w

vars == <<request, step, acted, decision, txn>>

-----------------------------------------------------------------------------
Refusals == {"REJECT", "RETURN_FOR_CHANGES"}

Votes == Refusals \cup {"APPROVE", "ABSTAIN"}

StepStatuses == {"PENDING", "ACTIVE", "APPROVED", "REJECTED", "RETURNED"}

\* What the request becomes when a step is refused.
OutcomeOf == [REJECTED |-> "REJECTED", RETURNED |-> "RETURNED_FOR_CHANGES"]

Statuses == {"IN_PROGRESS", "APPROVED", "REJECTED", "RETURNED_FOR_CHANGES"}

Modes == {"ALL", "UNANIMOUS", "ANY_ONE", "QUORUM"}

StepDefinition ==
  [mode : Modes, minimum : Nat, required : Nat, approvers : Seq(Users)]

ASSUME ApprovalConstants ==
  /\ Creators \subseteq Users /\ Ballot \in [Users -> SUBSET Votes]
  /\ \A c \in Chains :
       /\ c \in Seq(StepDefinition) /\ Len(c) >= 1
       /\ \A k \in 1 .. Len(c) : Len(c[k].approvers) >= 1
  /\ None \notin Statuses \cup Workers \cup Requests

NoRequest ==
  [status |-> None, revision |-> None, creator |-> None, chain |-> <<>>, seal |-> None]

Idle ==
  [pc |-> "idle", request |-> None, revision |-> None, step |-> 0, place |-> 0,
   vote |-> None, counted |-> 0, next |-> None, sealed |-> 0]

Init ==
  /\ request = [r \in Requests |-> NoRequest]
  /\ step = [r \in Requests |-> <<>>]
  /\ acted = [r \in Requests |-> {}]
  /\ decision = [r \in Requests |-> <<>>]
  /\ txn = [w \in Workers |-> Idle]

-----------------------------------------------------------------------------
Steps(r) == 1 .. Len(request[r].chain)

Approvers(r, k) == request[r].chain[k].approvers

\* The decisions of step k among the first n that are v.
VotesFor(r, n, k, v) ==
  {i \in 1 .. n : decision[r][i].step = k /\ decision[r][i].vote = v}

Smaller(m, n) == IF m <= n THEN m ELSE n

\* The approvals that complete a step.  There is always somebody assigned.
Needed(s) ==
  CASE s.mode = "ANY_ONE" -> 1
    [] s.mode \in {"ALL", "UNANIMOUS"} -> Smaller(s.required, Len(s.approvers))
    [] s.mode = "QUORUM" -> s.minimum

\* Mutant: the vote has been flushed, and is counted twice.
ApprovalsFlushed(r, n, k, v) ==
  Cardinality(VotesFor(r, n, k, "APPROVE")) + (IF v = "APPROVE" THEN 2 ELSE 0)

\* The approvals of step k: those among the first n decisions, and the vote v
\* that is not written yet.
Approvals(r, n, k, v) ==
  Cardinality(VotesFor(r, n, k, "APPROVE")) + (IF v = "APPROVE" THEN 1 ELSE 0)

Stands(r, n, k, v, u) == v = u \/ VotesFor(r, n, k, u) # {}

\* Mutant: enough approvals complete a step whatever else was said.
VerdictByCount(r, n, k, v) ==
  IF Approvals(r, n, k, v) >= Needed(request[r].chain[k]) THEN "APPROVED"
  ELSE IF Stands(r, n, k, v, "REJECT") THEN "REJECTED"
  ELSE IF Stands(r, n, k, v, "RETURN_FOR_CHANGES") THEN "RETURNED"
  ELSE "IN_PROGRESS"

\* evaluate_step_completion.
Verdict(r, n, k, v) ==
  IF Stands(r, n, k, v, "REJECT") THEN "REJECTED"
  ELSE IF Stands(r, n, k, v, "RETURN_FOR_CHANGES") THEN "RETURNED"
  ELSE IF Approvals(r, n, k, v) >= Needed(request[r].chain[k]) THEN "APPROVED"
  ELSE "IN_PROGRESS"

\* The separation of duties, with the first n decisions: the creator does not
\* decide alone, and who has decided before does so again only in the first
\* step, since every earlier decision is taken for one of that step.
Barred(r, k, u, n) ==
  IF Len(request[r].chain) = 1 THEN u = request[r].creator
  ELSE k # 1 /\ \E i \in 1 .. n : decision[r][i].by = u

\* What the verdict on the step of transaction t is for its request.
Opening(t, verdict) == verdict = "APPROVED" /\ t.step + 1 \in Steps(t.request)

Settling(t, verdict) == verdict # "IN_PROGRESS" /\ ~Opening(t, verdict)

-----------------------------------------------------------------------------
\* An exception rolls back, and nothing has been written by then.
Refuse(w) ==
  /\ txn' = [txn EXCEPT ![w] = Idle]
  /\ UNCHANGED <<request, step, acted, decision>>

Go(w, t) ==
  /\ txn' = [txn EXCEPT ![w] = t]
  /\ UNCHANGED <<request, step, acted, decision>>

-----------------------------------------------------------------------------
(* submit_for_approval. *)

InProgress(v) ==
  {r \in Requests : request[r].status = "IN_PROGRESS" /\ request[r].revision = v}

\* A subject without revisions is not looked for.
Submit(w, v) ==
  /\ txn[w] = Idle
  /\ \E r \in Requests : request[r].status = None    \* the bound
  /\ v # None => InProgress(v) = {}
  /\ Go(w, [Idle EXCEPT !.pc = "insert", !.revision = v])

InsertRequest(w, r, chain, creator) ==
  /\ txn[w].pc = "insert" /\ request[r].status = None
  /\ request' = [request EXCEPT ![r] =
       [status |-> "IN_PROGRESS", revision |-> txn[w].revision, creator |-> creator,
        chain |-> chain, seal |-> None]]
  /\ step' = [step EXCEPT ![r] =
       [k \in 1 .. Len(chain) |-> IF k = 1 THEN "ACTIVE" ELSE "PENDING"]]
  /\ txn' = [txn EXCEPT ![w] = Idle]
  /\ UNCHANGED <<acted, decision>>

-----------------------------------------------------------------------------
(* record_decision, statement by statement. *)

\* The i-th assignment of step k, by the user it is assigned to.
Decide(w, r, k, i, v) ==
  /\ txn[w] = Idle /\ request[r].status # None
  /\ k \in Steps(r) /\ i \in 1 .. Len(Approvers(r, k)) /\ <<k, i>> \notin acted[r]
  /\ Go(w, [Idle EXCEPT !.pc = "request", !.request = r, !.step = k, !.place = i, !.vote = v])

ReadRequest(w) ==
  /\ txn[w].pc = "request"
  /\ IF request[txn[w].request].status # "IN_PROGRESS" THEN Refuse(w)
     ELSE Go(w, [txn[w] EXCEPT !.pc = "step"])

ReadStep(w) ==
  LET t == txn[w] IN
  /\ t.pc = "step"
  /\ IF step[t.request][t.step] # "ACTIVE" THEN Refuse(w)
     ELSE Go(w, [t EXCEPT !.pc = "duties"])

By(t) == Approvers(t.request, t.step)[t.place]

CheckDuties(w) ==
  LET t == txn[w]  n == Len(decision[t.request]) IN
  /\ t.pc = "duties"
  /\ IF Barred(t.request, t.step, By(t), n) THEN Refuse(w)
     ELSE Go(w, [t EXCEPT !.pc = "votes"])

\* The decision is not flushed when those of the step are counted.
CountVotes(w) ==
  LET t == txn[w]
      n == Len(decision[t.request])
      verdict == Verdict(t.request, n, t.step, t.vote)
  IN
  /\ t.pc = "votes"
  /\ Go(w, [t EXCEPT !.counted = n,
                     !.pc = IF Opening(t, verdict) THEN "next"
                            ELSE IF Settling(t, verdict) THEN "seal" ELSE "commit"])

ReadNext(w) ==
  LET t == txn[w] IN
  /\ t.pc = "next"
  /\ Go(w, [t EXCEPT !.pc = "commit", !.next = step[t.request][t.step + 1]])

\* _create_audit_seal reads the decisions; the deciding one is not among them.
Seal(w) ==
  /\ txn[w].pc = "seal"
  /\ Go(w, [txn[w] EXCEPT !.pc = "commit", !.sealed = Len(decision[txn[w].request])])

\* Mutant: the next step is opened by every decision.
NewStepAlways(t, verdict) ==
  [k \in Steps(t.request) |->
     IF k = t.step /\ verdict # "IN_PROGRESS" THEN verdict
     ELSE IF k = t.step + 1 /\ t.next # "ACTIVE" THEN "ACTIVE"
     ELSE step[t.request][k]]

\* Mutant: the next step is left as it was.
NewStepUnopened(t, verdict) ==
  [k \in Steps(t.request) |->
     IF k = t.step /\ verdict # "IN_PROGRESS" THEN verdict ELSE step[t.request][k]]

\* The columns that differ from what was read are written.  The next step was
\* read: if it was ACTIVE then, its status stays what it is by now.
NewStep(t, verdict) ==
  [k \in Steps(t.request) |->
     IF k = t.step /\ verdict # "IN_PROGRESS" THEN verdict
     ELSE IF k = t.step + 1 /\ verdict = "APPROVED" /\ t.next # "ACTIVE" THEN "ACTIVE"
     ELSE step[t.request][k]]

\* Mutant: the outcome of the step becomes that of the request.
SettleAlike(t, verdict) ==
  [request[t.request] EXCEPT !.status = verdict, !.seal = [status |-> verdict, covers |-> t.sealed]]

\* Mutant: a request that has a seal keeps it.
SettleSealingOnce(t, verdict) ==
  LET status == IF verdict = "APPROVED" THEN "APPROVED" ELSE OutcomeOf[verdict]
      old == request[t.request].seal IN
  [request[t.request] EXCEPT !.status = status,
     !.seal = IF old = None THEN [status |-> status, covers |-> t.sealed] ELSE old]

\* The request with its outcome and the seal of the transaction.
Settle(t, verdict) ==
  LET status == IF verdict = "APPROVED" THEN "APPROVED" ELSE OutcomeOf[verdict] IN
  [request[t.request] EXCEPT !.status = status,
                             !.seal = [status |-> status, covers |-> t.sealed]]

Commit(w) ==
  LET t == txn[w]
      r == t.request
      verdict == Verdict(r, t.counted, t.step, t.vote)
  IN
  /\ t.pc = "commit"
  /\ decision' = [decision EXCEPT ![r] = Append(@, [step |-> t.step, by |-> By(t), vote |-> t.vote])]
  /\ acted' = [acted EXCEPT ![r] = @ \cup {<<t.step, t.place>>}]
  /\ step' = [step EXCEPT ![r] = NewStep(t, verdict)]
  /\ request' = IF Settling(t, verdict) THEN [request EXCEPT ![r] = Settle(t, verdict)]
                ELSE request
  /\ txn' = [txn EXCEPT ![w] = Idle]

\* A worker dies or loses its connection.
Crash(w) == txn[w] # Idle /\ Refuse(w)

-----------------------------------------------------------------------------
Next ==
  \E w \in Workers :
    \/ \E v \in Revisions : Submit(w, v)
    \/ \E r \in Requests, c \in Chains, u \in Creators : InsertRequest(w, r, c, u)
    \/ \E r \in Requests : \E k \in Steps(r) : \E i \in 1 .. Len(Approvers(r, k)) :
         \E v \in Ballot[Approvers(r, k)[i]] : Decide(w, r, k, i, v)
    \/ ReadRequest(w) \/ ReadStep(w) \/ CheckDuties(w) \/ CountVotes(w)
    \/ ReadNext(w) \/ Seal(w) \/ Commit(w)
    \/ Crash(w)

Spec == Init /\ [][Next]_vars

-----------------------------------------------------------------------------
SealRow == [status : Statuses, covers : Nat]

RequestRow ==
  [status : Statuses, revision : Revisions \cup {None}, creator : Creators,
   chain : Chains, seal : SealRow \cup {None}]

DecisionRow == [step : Nat \ {0}, by : Users, vote : Votes]

Transaction ==
  [pc : {"idle", "insert", "request", "step", "duties", "votes", "next", "seal", "commit"},
   request : Requests \cup {None}, revision : Revisions \cup {None}, step : Nat, place : Nat,
   vote : Votes \cup {None}, counted : Nat,
   next : StepStatuses \cup {None}, sealed : Nat]

TypeOK ==
  /\ request \in [Requests -> RequestRow \cup {NoRequest}]
  /\ step \in [Requests -> Seq(StepStatuses)]
  /\ \A r \in Requests : Len(step[r]) = Len(request[r].chain)
  /\ acted \in [Requests -> SUBSET (Nat \X Nat)]
  /\ decision \in [Requests -> Seq(DecisionRow)]
  /\ txn \in [Workers -> Transaction]

Recorded(r) == Len(decision[r])

Opened(r) == {k \in Steps(r) : step[r][k] # "PENDING"}

Earned(r, n, k) == Cardinality(VotesFor(r, n, k, "APPROVE")) >= Needed(request[r].chain[k])

OutcomeEarnedBy(r) ==
  /\ \A k \in Opened(r) : \A j \in 1 .. k - 1 : Earned(r, Recorded(r), j)
  /\ request[r].status = "APPROVED" => \A k \in Steps(r) : Earned(r, Recorded(r), k)
  /\ request[r].status = "REJECTED" =>
       \E k \in Steps(r) : VotesFor(r, Recorded(r), k, "REJECT") # {}
  /\ request[r].status = "RETURNED_FOR_CHANGES" =>
       \E k \in Steps(r) : VotesFor(r, Recorded(r), k, "RETURN_FOR_CHANGES") # {}

\* A step is open only when every step before it has the approvals it needs on
\* record, and an approved request has those of all its steps, although each
\* decision counts what it read before it was written and writes over what
\* others have written since (approval_engine.py:562, :591).
OutcomeEarned == \A r \in Requests : OutcomeEarnedBy(r)

\* A refusal on record has settled its request, however many approvals were
\* under way (step_completion.py:39).
RefusalSettles ==
  \A r \in Requests : \A i \in 1 .. Recorded(r) :
    decision[r][i].vote \in Refusals => request[r].status # "IN_PROGRESS"

\* A request in progress has a step that can be decided: completing a step and
\* opening the next one are one commit, which a stale one does not undo.
InProgressHasActiveStep ==
  \A r \in Requests :
    request[r].status = "IN_PROGRESS" => \E k \in Steps(r) : step[r][k] = "ACTIVE"

\* The i-th decision leads from those the seal covers to its status.
Decides(r, seal, i) ==
  LET k == decision[r][i].step  v == decision[r][i].vote IN
  /\ seal.status = "APPROVED" =>
       Approvals(r, seal.covers, k, v) >= Needed(request[r].chain[k])
  /\ seal.status = "REJECTED" => Stands(r, seal.covers, k, v, "REJECT")
  /\ seal.status = "RETURNED_FOR_CHANGES" =>
       Stands(r, seal.covers, k, v, "RETURN_FOR_CHANGES")

\* The seal of a request states its outcome, and what it covers leads to that
\* outcome with one more decision: the deciding one, which the seal misses
\* (approval_engine.py:621).
SealLacksOneDecision ==
  \A r \in Requests :
    LET seal == request[r].seal IN
    seal # None =>
      /\ seal.status = request[r].status
      /\ \E i \in seal.covers + 1 .. Recorded(r) : Decides(r, seal, i)

-----------------------------------------------------------------------------
(* The requests keep the rule of approvals. *)

NeedsOf(chain) == [k \in 1 .. Len(chain) |-> Needed(chain[k])]

Matter(r) ==
  [needs  |-> NeedsOf(request[r].chain),
   votes  |-> [i \in 1 .. Recorded(r) |->
                 [step |-> decision[r][i].step, vote |-> decision[r][i].vote]],
   opened |-> Opened(r),
   status |-> request[r].status]

Rule == INSTANCE ApprovalRule WITH
          Needs <- {NeedsOf(c) : c \in Chains},
          matter <- [r \in Requests |-> Matter(r)]

\* Overlapping decisions, each with its own reading of the votes, open steps and
\* settle requests as the rule has it.
ImplementsApprovalRule == Rule!Spec

-----------------------------------------------------------------------------
(* What the code does not keep. *)

\* Once all its approvers have approved a step, it is complete
\* (step_completion.py:12).
NobodyLeftWaits ==
  \A r \in Requests : \A k \in Steps(r) :
    /\ request[r].status = "IN_PROGRESS" /\ step[r][k] = "ACTIVE"
    /\ \A w \in Workers : txn[w].request # r
    => ~Earned(r, Recorded(r), k)

\* A refusal is not overruled (step_completion.py:39).
RefusalStands ==
  \A r \in Requests :
    (\E i \in 1 .. Recorded(r) : decision[r][i].vote \in Refusals)
      => request[r].status # "APPROVED"

\* One request in progress for each revision (approval_engine.py:299).
OneRequestPerRevision ==
  \A v \in Revisions \ {None} : Cardinality(InProgress(v)) <= 1
=============================================================================
