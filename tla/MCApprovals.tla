----------------------------- MODULE MCApprovals ----------------------------
EXTENDS ApprovalInvariant, TLC
CONSTANTS ana, ben, cora
MCStep(mode, minimum, required, approvers) ==
  [mode |-> mode, minimum |-> minimum, required |-> required, approvers |-> approvers]
MCChains ==
  {<<MCStep("ALL", 1, 2, <<ana, ben>>), MCStep("ANY_ONE", 1, 1, <<ben, cora>>)>>,
   <<MCStep("ANY_ONE", 1, 1, <<ana, ben>>), MCStep("UNANIMOUS", 1, 3, <<cora>>)>>,
   <<MCStep("QUORUM", 2, 1, <<ana, ben>>)>>}
MCBallot ==
  (ana :> {"APPROVE", "ABSTAIN"}) @@ (ben :> {"APPROVE", "REJECT"})
    @@ (cora :> {"APPROVE", "RETURN_FOR_CHANGES"})
Symmetry == Permutations(Workers)
=============================================================================
