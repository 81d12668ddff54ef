---------------------------- MODULE ApprovalRule ----------------------------
(***************************************************************************)
(* What an approval request promises, however the decisions of its         *)
(* approvers overlap: votes are only added; a step is opened when the step *)
(* before it has the approvals it needs; the request is settled by a vote  *)
(* that completes the last step or that a refusal stands beside.  A        *)
(* refusal always settles it.  A later vote may settle it differently.     *)
(***************************************************************************)
EXTENDS Integers, Sequences, FiniteSets

CONSTANTS
  Requests,
  Needs,       \* the approvals needed step by step, of each possible chain
  None

VARIABLE matter  \* matter[r]: what request r needs and how it stands

Refusals == {"REJECT", "RETURN_FOR_CHANGES"}

Votes == Refusals \cup {"APPROVE", "ABSTAIN"}

OutcomeOf == [REJECT |-> "REJECTED", RETURN_FOR_CHANGES |-> "RETURNED_FOR_CHANGES"]

VotesFor(m, k, v) ==
  {i \in 1 .. Len(m.votes) : m.votes[i].step = k /\ m.votes[i].vote = v}

Earned(m, k) == Cardinality(VotesFor(m, k, "APPROVE")) >= m.needs[k]

NotSubmitted == [needs |-> <<>>, votes |-> <<>>, opened |-> {}, status |-> None]

Init == matter = [r \in Requests |-> NotSubmitted]

Submit(r, needs) ==
  /\ matter[r].status = None
  /\ matter' = [matter EXCEPT ![r] =
       [needs |-> needs, votes |-> <<>>, opened |-> {1}, status |-> "IN_PROGRESS"]]

\* What a vote in step k makes of m: it is n from then on.
Undecided(m, n) == n.opened = m.opened /\ n.status = m.status

OpensNext(m, n, k) ==
  /\ k < Len(n.needs) /\ Earned(n, k)
  /\ n.opened = m.opened \cup {k + 1} /\ n.status = m.status

Approves(m, n, k) ==
  /\ k = Len(n.needs) /\ Earned(n, k)
  /\ n.opened = m.opened /\ n.status = "APPROVED"

Refuses(m, n, k) ==
  /\ n.opened = m.opened
  /\ \E v \in Refusals : VotesFor(n, k, v) # {} /\ n.status = OutcomeOf[v]

Vote(r, k, v) ==
  LET m == matter[r]  n == matter'[r] IN
  /\ k \in m.opened
  /\ matter' = [matter EXCEPT ![r] =
       [needs  |-> m.needs,
        votes  |-> Append(m.votes, [step |-> k, vote |-> v]),
        opened |-> n.opened, status |-> n.status]]
  /\ \/ v \notin Refusals /\ (Undecided(m, n) \/ OpensNext(m, n, k) \/ Approves(m, n, k))
     \/ Refuses(m, n, k)

Next ==
  \E r \in Requests :
    \/ \E needs \in Needs : Submit(r, needs)
    \/ \E k \in matter[r].opened, v \in Votes : Vote(r, k, v)

Spec == Init /\ [][Next]_matter
=============================================================================
