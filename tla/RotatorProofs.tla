---------------------------- MODULE RotatorProofs ----------------------------
(***************************************************************************)
(* Leader rotation for every number of validators: the timers leave no gap *)
(* while a node waits for a leader, and what they do is what module Views  *)
(* promises.                                                               *)
(***************************************************************************)
EXTENDS Rotator, TLAPS

\* ceil((2n+1)/3) is a majority of n and never more than n.
LEMMA MajorityBounds ==
  ASSUME NEW n \in Nat \ {0}
  PROVE  /\ Majority(n) \in 1 .. n
         /\ 2 * Majority(n) > n
  BY DEF Majority

\* Fewer validators may be faulty than there are.
LEMMA FaultyCount == getFaultyCount \in Nat
  BY MajorityBounds, CountAssumption DEF getFaultyCount

\* The next leader is a validator.
LEMMA NextLeaderType ==
  ASSUME NEW l \in Validator
  PROVE  nextLeader(l) \in Validator
  BY CountAssumption DEF Validator, nextLeader

-----------------------------------------------------------------------------
\* The initial states satisfy the three invariants.
LEMMA InitRot == Init => TypeOK /\ PendingIsTimed /\ QuietAfterFaults
<1> SUFFICES ASSUME Init PROVE TypeOK /\ PendingIsTimed /\ QuietAfterFaults
  OBVIOUS
<1>1. 0 \in Validator
  BY CountAssumption DEF Validator
<1>2. First \in QC
  BY <1>1, RankAssumption DEF First, QC
<1> QED
  BY <1>1, <1>2, FaultyCount DEF Init, ViewInit, TypeOK, PendingIsTimed, QuietAfterFaults

\* What a certificate of p does on node n: the types stay, a node that still waits
\* keeps its leader timer, and the count restarts only with the timer running.
LEMMA OnQCStep ==
  ASSUME TypeOK, PendingIsTimed, QuietAfterFaults,
         NEW n \in Validator, NEW p \in Validator, onNewQCHigh(n, p)
  PROVE  /\ leader' \in [Validator -> Validator]
         /\ pending' \in [Validator -> BOOLEAN]
         /\ viewTimer' \in [Validator -> BOOLEAN]
         /\ leaderTimer' \in [Validator -> BOOLEAN]
         /\ leaderTimeoutCount' \in [Validator -> 0 .. getFaultyCount + 1]
         /\ PendingIsTimed' /\ QuietAfterFaults'
         /\ ViewNext \/ UNCHANGED viewvars
<1>1. /\ leaderTimeoutCount' \in [Validator -> 0 .. getFaultyCount + 1]
      /\ leaderTimer' \in [Validator -> BOOLEAN]
      /\ viewTimer' \in [Validator -> BOOLEAN]
  BY FaultyCount DEF TypeOK, onNewQCHigh
<1>2. CASE isNewViewApproval(n, p)
  <2>1. approveViewLeader(n, p)
    BY <1>2 DEF onNewQCHigh, ApproveOnQC
  <2>2. /\ leader' \in [Validator -> Validator]
        /\ pending' \in [Validator -> BOOLEAN]
    BY <2>1 DEF TypeOK, approveViewLeader
  <2>3. /\ leaderTimer'[n]
        /\ \A m \in Validator \ {n} : /\ leaderTimer'[m] = leaderTimer[m]
                                      /\ pending'[m] = pending[m]
                                      /\ leaderTimeoutCount'[m] = leaderTimeoutCount[m]
    BY <1>2, <2>1 DEF TypeOK, onNewQCHigh, approveViewLeader
  <2>4. PendingIsTimed' /\ QuietAfterFaults'
    BY <2>3 DEF PendingIsTimed, QuietAfterFaults
  <2>5. ViewNext
    BY <1>2, <2>1 DEF ViewNext
  <2> QED BY <1>1, <2>2, <2>4, <2>5
<1>3. CASE ~isNewViewApproval(n, p)
  <2>1. UNCHANGED viewvars
    BY <1>3 DEF onNewQCHigh, ApproveOnQC
  <2>2. \A m \in Validator : /\ leaderTimer[m] => leaderTimer'[m]
                             /\ leaderTimeoutCount'[m] = leaderTimeoutCount[m]
    BY <1>3 DEF TypeOK, onNewQCHigh
  <2>3. PendingIsTimed' /\ QuietAfterFaults'
    BY <2>1, <2>2 DEF PendingIsTimed, QuietAfterFaults, viewvars
  <2> QED BY <1>1, <2>1, <2>3 DEF TypeOK, viewvars
<1> QED BY <1>2, <1>3

\* Every step keeps the three invariants and is one that Views allows.
LEMMA NextRot ==
  TypeOK /\ PendingIsTimed /\ QuietAfterFaults /\ [Next]_rotvars
    => TypeOK' /\ PendingIsTimed' /\ QuietAfterFaults' /\ [ViewNext]_viewvars
<1> SUFFICES ASSUME TypeOK, PendingIsTimed, QuietAfterFaults, [Next]_rotvars
             PROVE  TypeOK' /\ PendingIsTimed' /\ QuietAfterFaults' /\ [ViewNext]_viewvars
  OBVIOUS
<1>1. CASE UNCHANGED rotvars
  BY <1>1 DEF rotvars, viewvars, TypeOK, PendingIsTimed, QuietAfterFaults
<1>2. ASSUME NEW n \in Validator, onLeaderTimeout(n)
      PROVE  TypeOK' /\ PendingIsTimed' /\ QuietAfterFaults' /\ ViewNext
  <2> DEFINE count == IF leaderTimeoutCount[n] > getFaultyCount
                      THEN leaderTimeoutCount[n] ELSE leaderTimeoutCount[n] + 1
             giveUp == count > getFaultyCount
  <2>1. count \in 0 .. getFaultyCount + 1 /\ giveUp \in BOOLEAN
    BY FaultyCount DEF TypeOK
  <2>2. /\ ChangeView(n, ~giveUp)
        /\ leaderTimeoutCount' = [leaderTimeoutCount EXCEPT ![n] = count]
        /\ viewTimer' = [viewTimer EXCEPT ![n] = FALSE]
        /\ leaderTimer' = [leaderTimer EXCEPT ![n] = ~giveUp]
        /\ UNCHANGED <<qcHigh, qcs>>
    BY <1>2 DEF onLeaderTimeout
  <2> HIDE DEF count, giveUp
  <2>3. nextLeader(leader[n]) \in Validator
    BY NextLeaderType DEF TypeOK
  <2>4. TypeOK'
    BY <2>1, <2>2, <2>3 DEF TypeOK, ChangeView
  <2>5. PendingIsTimed'
    BY <2>1, <2>2 DEF TypeOK, PendingIsTimed, ChangeView
  <2>6. ~giveUp \/ count > getFaultyCount
    BY DEF giveUp
  <2>7. QuietAfterFaults'
    BY <2>1, <2>2, <2>6 DEF TypeOK, QuietAfterFaults
  <2>8. ViewNext
    BY <2>1, <2>2 DEF ViewNext
  <2> QED BY <2>4, <2>5, <2>7, <2>8
<1>3. ASSUME NEW n \in Validator, onViewTimeout(n)
      PROVE  TypeOK' /\ PendingIsTimed' /\ QuietAfterFaults' /\ ViewNext
  <2>1. nextLeader(leader[n]) \in Validator
    BY NextLeaderType DEF TypeOK
  <2>2. TypeOK'
    BY <1>3, <2>1 DEF TypeOK, onViewTimeout, ChangeView
  <2>3. PendingIsTimed' /\ QuietAfterFaults'
    BY <1>3 DEF TypeOK, PendingIsTimed, QuietAfterFaults, onViewTimeout, ChangeView
  <2>4. ViewNext
    BY <1>3 DEF ViewNext, onViewTimeout
  <2> QED BY <2>2, <2>3, <2>4
<1>4. ASSUME NEW n \in Validator, MakeQC(n)
      PROVE  TypeOK' /\ PendingIsTimed' /\ QuietAfterFaults' /\ [ViewNext]_viewvars
  <2>1. onNewQCHigh(n, n)
    BY <1>4 DEF MakeQC
  <2>2. PICK q \in QC : /\ qcs' = qcs \cup {q}
                        /\ qcHigh' = [qcHigh EXCEPT ![n] = q]
    <3>1. qcHigh[n] \in QC
      BY DEF TypeOK
    <3>2. [rank |-> qcHigh[n].rank + 1, maker |-> n] \in QC
      BY <1>4, <3>1, RankAssumption DEF MakeQC, QC
    <3> QED BY <1>4, <3>2 DEF MakeQC
  <2>3. qcs' \subseteq QC /\ qcHigh' \in [Validator -> qcs']
    BY <2>2 DEF TypeOK
  <2> QED BY <2>1, <2>3, OnQCStep DEF TypeOK
<1>5. ASSUME NEW n \in Validator, NEW q \in qcs, LearnQC(n, q)
      PROVE  TypeOK' /\ PendingIsTimed' /\ QuietAfterFaults' /\ [ViewNext]_viewvars
  <2>1. q.maker \in Validator
    BY DEF TypeOK, QC
  <2>2. onNewQCHigh(n, q.maker)
    BY <1>5 DEF LearnQC
  <2>3. qcs' \subseteq QC /\ qcHigh' \in [Validator -> qcs']
    BY <1>5 DEF LearnQC, TypeOK
  <2> QED BY <2>1, <2>2, <2>3, OnQCStep DEF TypeOK
<1> QED BY <1>1, <1>2, <1>3, <1>4, <1>5 DEF Next

\* No reset in rotator.go leaves a node waiting for a leader without the timer
\* that ends the wait, whatever the number of validators.
THEOREM PendingTimed == Spec => []PendingIsTimed
<1>1. TypeOK /\ PendingIsTimed /\ QuietAfterFaults /\ [Next]_rotvars
        => (TypeOK /\ PendingIsTimed /\ QuietAfterFaults)'
  BY NextRot
<1> QED BY <1>1, InitRot, PTL DEF Spec

\* A node rests both timers only after more leader timeouts in a row than there
\* may be faulty validators.
THEOREM QuietOnlyAfterFaults == Spec => []QuietAfterFaults
<1>1. TypeOK /\ PendingIsTimed /\ QuietAfterFaults /\ [Next]_rotvars
        => (TypeOK /\ PendingIsTimed /\ QuietAfterFaults)'
  BY NextRot
<1> QED BY <1>1, InitRot, PTL DEF Spec

\* rotator.go, timers and counts included, changes leaders as Views promises.
THEOREM RotatorImplementsViews == Spec => ViewSpec
<1>1. Init => \E first \in Validator : ViewInit(first)
  BY CountAssumption DEF Init, Validator
<1>2. TypeOK /\ PendingIsTimed /\ QuietAfterFaults /\ [Next]_rotvars
        => (TypeOK /\ PendingIsTimed /\ QuietAfterFaults)' /\ [ViewNext]_viewvars
  BY NextRot
<1> QED BY <1>1, <1>2, InitRot, PTL DEF Spec, ViewSpec

=============================================================================
