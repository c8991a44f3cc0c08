-------------------------------- MODULE Views --------------------------------
(***************************************************************************)
(* What leader rotation promises the rest of the consensus package: every  *)
(* node has a leader of its own, gives it up only for the next validator   *)
(* in the list, and takes another one only when a certificate of that one  *)
(* shows it leads.  When any of this happens is left open; module Rotator  *)
(* (consensus/rotator.go) adds the timers and implements this one.         *)
(***************************************************************************)
EXTENDS Naturals

CONSTANT ValidatorCount   \* VldStore.ValidatorCount()

ASSUME CountAssumption == ValidatorCount \in Nat \ {0}

\* Validators are named by their index in the list every node is given.
Validator == 0 .. (ValidatorCount - 1)

\* core.MajorityCount: ceil((2n+1)/3).
Majority(n) == (2 * n + 3) \div 3

getFaultyCount == ValidatorCount - Majority(ValidatorCount)

VARIABLES
  leader,   \* state.leaderIndex, per node
  pending   \* rotator.pendingViewChange, per node

viewvars == <<leader, pending>>

nextLeader(l) == IF l + 1 >= ValidatorCount THEN 0 ELSE l + 1

\* rotator.isNewViewApproval for a certificate of a block of p.
isNewViewApproval(n, p) ==
  \/ ~pending[n] /\ p # leader[n]
  \/ pending[n] /\ p = leader[n]

\* rotator.changeView; the caller may take pendingViewChange back.
ChangeView(n, isPending) ==
  /\ leader' = [leader EXCEPT ![n] = nextLeader(@)]
  /\ pending' = [pending EXCEPT ![n] = isPending]

\* rotator.approveViewLeader.
approveViewLeader(n, p) ==
  /\ leader' = [leader EXCEPT ![n] = p]
  /\ pending' = [pending EXCEPT ![n] = FALSE]

\* rotator.onNewQCHigh, as far as the leader goes.
ApproveOnQC(n, p) ==
  IF isNewViewApproval(n, p) THEN approveViewLeader(n, p) ELSE UNCHANGED viewvars

\* consensus.setupState: the proposer of the block the node starts from leads.
ViewInit(first) ==
  /\ leader = [n \in Validator |-> first]
  /\ pending = [n \in Validator |-> FALSE]

ViewNext ==
  \E n \in Validator :
    \/ \E isPending \in BOOLEAN : ChangeView(n, isPending)
    \/ \E p \in Validator : isNewViewApproval(n, p) /\ approveViewLeader(n, p)

\* A node's leader changes as promised above.
ViewSpec == (\E first \in Validator : ViewInit(first)) /\ [][ViewNext]_viewvars

=============================================================================
