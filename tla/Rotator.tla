------------------------------- MODULE Rotator -------------------------------
(***************************************************************************)
(* Leader rotation with its timers: consensus/rotator.go on every node.    *)
(*                                                                         *)
(* The rest of the system is reduced to the certificates it makes.  A      *)
(* certificate has the rank of the block it is for and the validator that  *)
(* proposed the block; a validator gets one for its proposal when it and a *)
(* majority take it for the leader (validator.verifyProposalToVote rejects *)
(* the proposals of anyone else), and the others learn of it in any order, *)
(* late or never.                                                          *)
(***************************************************************************)
EXTENDS Views, FiniteSets

CONSTANT MaxRank   \* bound: no certificate above this rank is made

ASSUME RankAssumption == MaxRank \in Nat

VARIABLES
  viewTimer, leaderTimer, \* is the timer running, per node
  leaderTimeoutCount,     \* per node; counted up to getFaultyCount + 1, above
                          \* which the code does not tell values apart
  qcHigh,                 \* the highest certificate each node has
  qcs                     \* the certificates made so far

rotvars == <<leader, pending, viewTimer, leaderTimer, leaderTimeoutCount, qcHigh, qcs>>

QC == [rank : 0 .. MaxRank, maker : Validator]

-----------------------------------------------------------------------------
\* Mutant: the leader timer is not restarted while leaders are still tried.
onLeaderTimeoutNoReset(n) ==
  LET count == IF leaderTimeoutCount[n] > getFaultyCount
               THEN leaderTimeoutCount[n] ELSE leaderTimeoutCount[n] + 1
      giveUp == count > getFaultyCount
  IN /\ leaderTimer[n]
     /\ leaderTimeoutCount' = [leaderTimeoutCount EXCEPT ![n] = count]
     /\ ChangeView(n, ~giveUp)
     /\ viewTimer' = [viewTimer EXCEPT ![n] = FALSE]
     /\ leaderTimer' = [leaderTimer EXCEPT ![n] = FALSE]
     /\ UNCHANGED <<qcHigh, qcs>>

\* Mutant: the count is compared one too low.
onLeaderTimeoutEarly(n) ==
  LET count == IF leaderTimeoutCount[n] > getFaultyCount
               THEN leaderTimeoutCount[n] ELSE leaderTimeoutCount[n] + 1
      giveUp == count >= getFaultyCount
  IN /\ leaderTimer[n]
     /\ leaderTimeoutCount' = [leaderTimeoutCount EXCEPT ![n] = count]
     /\ ChangeView(n, ~giveUp)
     /\ viewTimer' = [viewTimer EXCEPT ![n] = FALSE]
     /\ leaderTimer' = [leaderTimer EXCEPT ![n] = ~giveUp]
     /\ UNCHANGED <<qcHigh, qcs>>

\* Mutant: the timeouts are not counted.
onLeaderTimeoutUncounted(n) ==
  /\ leaderTimer[n]
  /\ ChangeView(n, TRUE)
  /\ viewTimer' = [viewTimer EXCEPT ![n] = FALSE]
  /\ leaderTimer' = [leaderTimer EXCEPT ![n] = TRUE]
  /\ UNCHANGED <<leaderTimeoutCount, qcHigh, qcs>>

\* The leader made no certificate in time.  After one timeout more than there
\* may be faulty validators both timers stay off and the leader is kept.
onLeaderTimeout(n) ==
  LET count == IF leaderTimeoutCount[n] > getFaultyCount
               THEN leaderTimeoutCount[n] ELSE leaderTimeoutCount[n] + 1
      giveUp == count > getFaultyCount
  IN /\ leaderTimer[n]
     /\ leaderTimeoutCount' = [leaderTimeoutCount EXCEPT ![n] = count]
     /\ ChangeView(n, ~giveUp)
     /\ viewTimer' = [viewTimer EXCEPT ![n] = FALSE]
     /\ leaderTimer' = [leaderTimer EXCEPT ![n] = ~giveUp]
     /\ UNCHANGED <<qcHigh, qcs>>

\* The view is over.  A fired timer is off until it is reset.
onViewTimeout(n) ==
  /\ viewTimer[n]
  /\ ChangeView(n, TRUE)
  /\ viewTimer' = [viewTimer EXCEPT ![n] = FALSE]
  /\ leaderTimer' = [leaderTimer EXCEPT ![n] = TRUE]
  /\ UNCHANGED <<leaderTimeoutCount, qcHigh, qcs>>

\* Mutant: whoever has a certificate is approved.
onNewQCHighAnyone(n, p) ==
  /\ approveViewLeader(n, p)
  /\ leaderTimeoutCount' = [leaderTimeoutCount EXCEPT ![n] = 0]
  /\ leaderTimer' = [leaderTimer EXCEPT ![n] = TRUE]
  /\ viewTimer' = [viewTimer EXCEPT ![n] = TRUE]

\* qcHigh of n became a certificate for a block of p.
onNewQCHigh(n, p) ==
  LET approved == isNewViewApproval(n, p)
  IN /\ ApproveOnQC(n, p)
     /\ leaderTimeoutCount' = [leaderTimeoutCount EXCEPT ![n] = IF approved THEN 0 ELSE @]
     /\ leaderTimer' = [leaderTimer EXCEPT ![n] = @ \/ approved \/ p = leader[n]]
     /\ viewTimer' = [viewTimer EXCEPT ![n] = @ \/ approved]

-----------------------------------------------------------------------------
(* The certificates. *)

\* p leads, in its own eyes and in those of a majority.
Supported(p) ==
  leader[p] = p /\ Cardinality({n \in Validator : leader[n] = p}) >= Majority(ValidatorCount)

MakeQC(p) ==
  LET q == [rank |-> qcHigh[p].rank + 1, maker |-> p]
  IN /\ Supported(p)
     /\ q.rank <= MaxRank
     /\ qcs' = qcs \cup {q}
     /\ qcHigh' = [qcHigh EXCEPT ![p] = q]
     /\ onNewQCHigh(p, p)

\* n meets q in a proposal, in a fetched block or in a new view message.
LearnQC(n, q) ==
  /\ q.rank > qcHigh[n].rank
  /\ qcHigh' = [qcHigh EXCEPT ![n] = q]
  /\ onNewQCHigh(n, q.maker)
  /\ UNCHANGED qcs

-----------------------------------------------------------------------------
First == [rank |-> 0, maker |-> 0]

Init ==
  /\ ViewInit(0)
  /\ viewTimer = [n \in Validator |-> TRUE]
  /\ leaderTimer = [n \in Validator |-> TRUE]
  /\ leaderTimeoutCount = [n \in Validator |-> 0]
  /\ qcHigh = [n \in Validator |-> First]
  /\ qcs = {First}

Next ==
  \E n \in Validator :
    \/ onLeaderTimeout(n)
    \/ onViewTimeout(n)
    \/ MakeQC(n)
    \/ \E q \in qcs : LearnQC(n, q)

\* A running timer fires unless it is reset; a leader that has the votes makes
\* its certificate; a certificate that a node lacks reaches it in the end.
Fairness ==
  \A n \in Validator :
    /\ WF_rotvars(onLeaderTimeout(n))
    /\ WF_rotvars(onViewTimeout(n))
    /\ WF_rotvars(MakeQC(n))
    /\ WF_rotvars(\E q \in qcs : LearnQC(n, q))

Spec == Init /\ [][Next]_rotvars
FairSpec == Spec /\ Fairness

-----------------------------------------------------------------------------
\* Every variable has its type.
TypeOK ==
  /\ leader \in [Validator -> Validator]
  /\ pending \in [Validator -> BOOLEAN]
  /\ viewTimer \in [Validator -> BOOLEAN]
  /\ leaderTimer \in [Validator -> BOOLEAN]
  /\ leaderTimeoutCount \in [Validator -> 0 .. getFaultyCount + 1]
  /\ qcs \subseteq QC
  /\ qcHigh \in [Validator -> qcs]

\* A node that waits for its next leader to show itself has a timer running that
\* ends the wait: the resets in onLeaderTimeout, onViewTimeout and onNewQCHigh
\* leave no gap.
PendingIsTimed == \A n \in Validator : pending[n] => leaderTimer[n]

\* A node lets both timers rest only when more leaders in a row failed than there
\* may be faulty validators.
QuietAfterFaults ==
  \A n \in Validator : ~leaderTimer[n] => leaderTimeoutCount[n] > getFaultyCount

\* No node waits for a leader forever, whatever certificates are lost: it sees one
\* of that leader, or runs out of leaders to try.
PendingEnds == \A n \in Validator : pending[n] ~> ~pending[n]

\* docs/key-concepts/consensus.md: "Each node holds a timer for the current view."
\* A node whose leader is not in doubt and is being watched has the timer that
\* ends the view running.
ViewIsTimed == \A n \in Validator : ~pending[n] /\ leaderTimer[n] => viewTimer[n]

\* docs/cluster-tests/index.md, Liveness: the system must commit blocks.  Once the
\* network delivers and timers fire, certificates are made up to the bound.
Progress == <>(\E q \in qcs : q.rank = MaxRank)

=============================================================================
