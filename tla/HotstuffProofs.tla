--------------------------- MODULE HotstuffProofs ---------------------------
(***************************************************************************)
(* Proofs that the HotStuff core keeps the invariants of module Hotstuff   *)
(* for every set of nodes, every majority, every number of blocks and      *)
(* every order in which blocks, votes and certificates are handed to the   *)
(* nodes, and that all nodes commit one history as long as few of them     *)
(* signed backwards or were started again: two majorities then share a     *)
(* node that did neither.                                                  *)
(*                                                                         *)
(* Module Consensus puts the network, leader rotation and the block store  *)
(* around the core.  Its steps are steps of the core, so all of this holds *)
(* of it too, and no node drops a block that it still needs.               *)
(***************************************************************************)
EXTENDS Consensus, TLAPS

-----------------------------------------------------------------------------
(* Facts about heights. *)

\* Blocks have natural heights.
LEMMA Heights ==
  ASSUME TypeOK
  PROVE  \A b \in Blocks : b.height \in Nat
  BY Zenon DEF TypeOK, Block

\* Only genesis has height 0, and parents and certificates are lower.
LEMMA TreeHeights ==
  ASSUME TypeOK, TreeInv
  PROVE  \A b \in Blocks \ {Genesis} :
           /\ b.height \in Nat /\ b.height > 0
           /\ Parent(b) \in Blocks /\ b.height = Parent(b).height + 1
           /\ Justify(b) \in Blocks /\ Justify(b).height < b.height
           /\ Justify(b) \in Ancestry(b)
<1> TAKE b \in Blocks \ {Genesis}
<1>1. Parent(b) \in Blocks /\ Justify(b) \in Blocks
  BY Zenon DEF TypeOK, Parent, Justify
<1>2. b.height \in Nat /\ Parent(b).height \in Nat /\ Justify(b).height \in Nat
  BY <1>1, Heights, Zenon
<1>3. b.height = Parent(b).height + 1 /\ Justify(b) \in Ancestry(Parent(b)) /\ Parent(b) \in Ancestry(b)
  BY Zenon DEF TreeInv
<1>4. Justify(b).height <= Parent(b).height /\ Justify(b) \in Ancestry(b)
  BY <1>1, <1>3, Zenon DEF TreeInv
<1> QED BY <1>1, <1>2, <1>3, <1>4

\* What is said of the blocks stays true while no block and no certificate is made.
LEMMA SameTree ==
  ASSUME tree' = tree, cert' = cert
  PROVE  /\ Blocks' = Blocks
         /\ \A b : /\ Parent(b)' = Parent(b) /\ Justify(b)' = Justify(b)
                   /\ Ancestry(b)' = Ancestry(b)
                   /\ (Certified(b)' <=> Certified(b)) /\ (Decided(b)' <=> Decided(b))
<1>1. Blocks' = Blocks /\ \A b : Parent(b)' = Parent(b) /\ Justify(b)' = Justify(b)
                                /\ Ancestry(b)' = Ancestry(b) /\ (Certified(b)' <=> Certified(b))
  BY Zenon DEF Blocks, Parent, Justify, Ancestry, Certified
<1>2. \A b : Decided(b)' <=> Decided(b)
  BY Zenon DEF Decided, IsThreeChain, Blocks, Parent, Justify, Certified
<1> QED BY <1>1, <1>2, Zenon

-----------------------------------------------------------------------------
(* What the phases of Update do to the node that runs it. *)

\* UpdateQCHigh moves qcHigh and bLeaf together, and qcHigh only up.
LEMMA QCStep ==
  ASSUME TypeOK, TreeInv, NEW n \in Node, NEW q \in Blocks, UpdateQCHigh(n, q),
         qcHigh[n] \in Ancestry(bLeaf[n])
  PROVE  /\ qcHigh' \in [Node -> Blocks] /\ bLeaf' \in [Node -> Blocks]
         /\ \A m \in Node \ {n} : qcHigh'[m] = qcHigh[m] /\ bLeaf'[m] = bLeaf[m]
         /\ qcHigh'[n] \in {qcHigh[n], q}
         /\ qcHigh'[n].height >= q.height /\ qcHigh'[n].height >= qcHigh[n].height
         /\ qcHigh'[n] \in Ancestry(bLeaf'[n])
<1>1. qcHigh[n] \in Blocks /\ q.height \in Nat /\ qcHigh[n].height \in Nat
  BY Heights, Zenon DEF TypeOK
<1>2. CASE q.height > qcHigh[n].height
  <2>1. qcHigh' = [qcHigh EXCEPT ![n] = q] /\ bLeaf' = [bLeaf EXCEPT ![n] = q]
    BY <1>2, Zenon DEF UpdateQCHigh
  <2>2. q \in Ancestry(q)
    BY Zenon DEF TreeInv
  <2> QED BY <1>1, <1>2, <2>1, <2>2 DEF TypeOK
<1>3. CASE ~(q.height > qcHigh[n].height)
  BY <1>1, <1>3 DEF UpdateQCHigh, TypeOK
<1> QED BY <1>2, <1>3, Zenon

\* The lock only moves up, to a certified block; what is committed stays one
\* branch, and ends in a decided block.
LEMMA LockStep ==
  ASSUME TypeOK, TreeInv, ReplicaInv, NEW n \in Node, NEW q \in Blocks, Certified(q),
         LockAndCommit(n, q)
  PROVE  /\ bLock' \in [Node -> Blocks] /\ bExec' \in [Node -> Blocks]
         /\ committed' \in [Node -> SUBSET Blocks] /\ halted' \subseteq Node
         /\ \A m \in Node \ {n} : /\ bLock'[m] = bLock[m] /\ bExec'[m] = bExec[m]
                                  /\ committed'[m] = committed[m]
         /\ bLock'[n] \in {bLock[n], Justify(q)} /\ Certified(bLock'[n])
         /\ bLock'[n].height >= bLock[n].height
         /\ bLock'[n].height >= Justify(q).height
         /\ committed'[n] = Ancestry(bExec'[n])
         /\ bExec'[n] = Genesis \/ Decided(bExec'[n])
<1> DEFINE b1 == Justify(q)
           b  == Justify(b1)
<1>1. b1 \in Blocks /\ b \in Blocks /\ bLock[n] \in Blocks /\ bExec[n] \in Blocks
  BY Zenon DEF TypeOK, Justify
<1>2. b1.height \in Nat /\ b.height \in Nat /\ bLock[n].height \in Nat
  BY <1>1, Heights, Zenon
<1>3. Certified(bLock[n]) /\ committed[n] = Ancestry(bExec[n])
      /\ (bExec[n] = Genesis \/ Decided(bExec[n]))
  BY Zenon DEF ReplicaInv
<1>4. CASE ~(b1.height > bLock[n].height)
  BY <1>1, <1>2, <1>3, <1>4 DEF LockAndCommit, TypeOK
<1>5. CASE b1.height > bLock[n].height
  <2>1. bLock' = [bLock EXCEPT ![n] = b1]
    BY <1>5, Zenon DEF LockAndCommit
  <2>2. b1 # Genesis /\ q # Genesis
    BY <1>2, <1>5 DEF Genesis, TreeInv
  <2>3. Certified(b1) /\ Certified(b)
    BY <1>1, <2>2, Zenon DEF TreeInv
  <2>4. bLock' \in [Node -> Blocks] /\ bLock'[n] = b1 /\ \A m \in Node \ {n} : bLock'[m] = bLock[m]
    BY <1>1, <2>1, Zenon DEF TypeOK
  <2>5. CASE ~IsThreeChain(b, b1, q)
    BY <1>1, <1>2, <1>3, <1>5, <2>3, <2>4, <2>5 DEF LockAndCommit, TypeOK
  <2>6. CASE IsThreeChain(b, b1, q)
    <3>1. onCommit(n, b)
      BY <1>5, <2>6, Zenon DEF LockAndCommit
    <3>2. Decided(b)
      BY <1>1, <2>2, <2>3, <2>6, Zenon DEF Decided
    <3>3. CASE bExec[n] \in Ancestry(b)
      <4>1. committed' = [committed EXCEPT ![n] = @ \cup Ancestry(b)]
            /\ bExec' = [bExec EXCEPT ![n] = b] /\ halted' = halted
        BY <3>1, <3>3, Zenon DEF onCommit
      <4>2. Ancestry(bExec[n]) \subseteq Ancestry(b) /\ Ancestry(b) \subseteq Blocks
        BY <1>1, <3>3, Zenon DEF TreeInv, TypeOK, Ancestry
      <4>3. committed' \in [Node -> SUBSET Blocks] /\ bExec' \in [Node -> Blocks]
        BY <1>1, <4>1, <4>2, Zenon DEF TypeOK
      <4>4. committed'[n] = Ancestry(b) /\ bExec'[n] = b
        BY <1>3, <4>1, <4>2 DEF TypeOK
      <4>5. \A m \in Node \ {n} : bExec'[m] = bExec[m] /\ committed'[m] = committed[m]
        BY <4>1, Zenon DEF TypeOK
      <4> QED BY <1>2, <1>5, <2>3, <2>4, <3>2, <4>1, <4>3, <4>4, <4>5 DEF TypeOK
    <3>4. CASE bExec[n] \notin Ancestry(b)
      BY <1>2, <1>3, <1>5, <2>3, <2>4, <3>1, <3>4 DEF onCommit, TypeOK
    <3> QED BY <3>3, <3>4, Zenon
  <2> QED BY <2>5, <2>6, Zenon
<1> QED BY <1>4, <1>5, Zenon

-----------------------------------------------------------------------------
(* The inductive invariant. *)

\* The initial states satisfy the invariant: genesis is the whole tree.
LEMMA InitInv == Init => IInv
<1> SUFFICES ASSUME Init PROVE IInv
  BY Zenon
<1>1. /\ Blocks = {Genesis} /\ Genesis \in Block
      /\ Parent(Genesis) = Genesis /\ Justify(Genesis) = Genesis
      /\ Ancestry(Genesis) = {Genesis} /\ cert[Genesis] = {} /\ Genesis.height = 0
  BY BoundAssumption DEF Init, Blocks, Parent, Justify, Ancestry, Genesis, Block, Stamp
<1>2. TypeOK
  BY <1>1, Zenon DEF Init, TypeOK, Blocks
<1>3. TreeInv
  BY <1>1 DEF TreeInv, Certified
<1>4. ReplicaInv
  BY <1>1, Zenon DEF Init, ReplicaInv, Certified
<1>5. SignInv
  BY <1>1, Zenon DEF Init, SignInv
<1> QED BY <1>2, <1>3, <1>4, <1>5, Zenon DEF IInv

\* Update keeps the tree and the replica invariants, whatever else the handler
\* that calls it has signed.
LEMMA UpdateStep ==
  ASSUME IInv, NEW n \in Node, NEW b \in Blocks \ {Genesis}, Update(n, b),
         UNCHANGED <<tree, proposal, votes, restarted, cert>>,
         \A m \in Node : signed[m] \subseteq signed'[m]
  PROVE  /\ TreeInv' /\ ReplicaInv'
         /\ bLock' \in [Node -> Blocks] /\ bExec' \in [Node -> Blocks]
         /\ qcHigh' \in [Node -> Blocks] /\ bLeaf' \in [Node -> Blocks]
         /\ committed' \in [Node -> SUBSET Blocks] /\ halted' \subseteq Node
         /\ \A m \in Node : bLock'[m].height >= bLock[m].height
         /\ bLock'[n].height >= Justify(Justify(b)).height
<1> DEFINE q == Justify(b)
<1>1. q \in Blocks /\ Certified(q) /\ UpdateQCHigh(n, q) /\ LockAndCommit(n, q)
  BY Zenon DEF IInv, TypeOK, TreeInv, Justify, Update
<1>2. qcHigh[n] \in Ancestry(bLeaf[n])
  BY Zenon DEF IInv, ReplicaInv
<1> HIDE DEF q
<1>3. /\ qcHigh' \in [Node -> Blocks] /\ bLeaf' \in [Node -> Blocks]
      /\ \A m \in Node \ {n} : qcHigh'[m] = qcHigh[m] /\ bLeaf'[m] = bLeaf[m]
      /\ qcHigh'[n] \in {qcHigh[n], q}
      /\ qcHigh'[n].height >= q.height /\ qcHigh'[n].height >= qcHigh[n].height
      /\ qcHigh'[n] \in Ancestry(bLeaf'[n])
  BY <1>1, <1>2, QCStep, Zenon DEF IInv
<1>4. /\ bLock' \in [Node -> Blocks] /\ bExec' \in [Node -> Blocks]
      /\ committed' \in [Node -> SUBSET Blocks] /\ halted' \subseteq Node
      /\ \A m \in Node \ {n} : /\ bLock'[m] = bLock[m] /\ bExec'[m] = bExec[m]
                               /\ committed'[m] = committed[m]
      /\ bLock'[n] \in {bLock[n], Justify(q)} /\ Certified(bLock'[n])
      /\ bLock'[n].height >= bLock[n].height
      /\ bLock'[n].height >= Justify(q).height
      /\ committed'[n] = Ancestry(bExec'[n])
      /\ bExec'[n] = Genesis \/ Decided(bExec'[n])
  BY <1>1, LockStep, Zenon DEF IInv
<1>5. n \notin restarted => bLock'[n] = Genesis \/ qcHigh'[n].height > bLock'[n].height
  <2>1. /\ qcHigh'[n].height \in Nat /\ q.height \in Nat /\ qcHigh[n].height \in Nat
        /\ bLock[n].height \in Nat /\ Justify(q).height \in Nat
    BY <1>1, <1>3, Heights, Zenon DEF IInv, TypeOK, Justify
  <2>2. n \notin restarted => bLock[n] = Genesis \/ qcHigh[n].height > bLock[n].height
    BY Zenon DEF IInv, ReplicaInv
  <2>3. Justify(q) = Genesis \/ q.height > Justify(q).height
    BY <1>1, TreeHeights, Zenon DEF IInv, TreeInv
  <2> QED BY <1>3, <1>4, <2>1, <2>2, <2>3
<1>6. TreeInv'
  BY ZenonT(60) DEF IInv, TreeInv, Blocks, Parent, Justify, Ancestry, Certified
<1>7. ReplicaInv'
  <2> SUFFICES ASSUME NEW m \in Node
               PROVE  /\ Certified(qcHigh'[m])
                      /\ Certified(bLock'[m])
                      /\ m \notin restarted => bLock'[m] = Genesis \/ qcHigh'[m].height > bLock'[m].height
                      /\ qcHigh'[m] \in Ancestry(bLeaf'[m])
                      /\ committed'[m] = Ancestry(bExec'[m])
                      /\ bExec'[m] = Genesis \/ Decided(bExec'[m])
                      /\ \A c \in proposal[m] : /\ c # Genesis /\ c.proposer = m /\ cert[c] = {} /\ proposal[m] = {c}
                                                /\ \A v \in votes[m] : c \in signed'[v]
    BY DEF ReplicaInv, Certified, Decided, IsThreeChain, Blocks, Parent, Justify, Ancestry
  <2>1. /\ Certified(qcHigh[m]) /\ Certified(bLock[m])
        /\ m \notin restarted => bLock[m] = Genesis \/ qcHigh[m].height > bLock[m].height
        /\ qcHigh[m] \in Ancestry(bLeaf[m])
        /\ committed[m] = Ancestry(bExec[m])
        /\ bExec[m] = Genesis \/ Decided(bExec[m])
        /\ votes[m] \subseteq Node
        /\ \A c \in proposal[m] : /\ c # Genesis /\ c.proposer = m /\ cert[c] = {} /\ proposal[m] = {c}
                                  /\ \A v \in votes[m] : c \in signed[v]
    BY DEF IInv, ReplicaInv, TypeOK
  <2>2. CASE m = n
    BY <2>1, <2>2, <1>1, <1>3, <1>4, <1>5, ZenonT(60)
  <2>3. CASE m # n
    BY <2>1, <2>3, <1>3, <1>4, Zenon
  <2> QED BY <2>2, <2>3, Zenon
<1>8. \A m \in Node : bLock'[m].height >= bLock[m].height
  <2> TAKE m \in Node
  <2>1. bLock[m].height \in Nat
    BY Heights, Zenon DEF IInv, TypeOK
  <2> QED BY <1>4, <2>1
<1> QED BY <1>3, <1>4, <1>6, <1>7, <1>8, Zenon DEF q

\* A block that is not voted (OnReceiveBlock) keeps the invariant.
LEMMA BlockStep ==
  ASSUME IInv, NEW n \in Node, NEW b \in Blocks \ {Genesis}, OnReceiveBlock(n, b)
  PROVE  IInv'
<1>1. /\ Update(n, b)
      /\ UNCHANGED <<tree, proposal, votes, restarted, cert>> /\ UNCHANGED <<bVote, signed, backward>>
  BY Zenon DEF OnReceiveBlock
<1>2. /\ TreeInv' /\ ReplicaInv'
      /\ bLock' \in [Node -> Blocks] /\ bExec' \in [Node -> Blocks]
      /\ qcHigh' \in [Node -> Blocks] /\ bLeaf' \in [Node -> Blocks]
      /\ committed' \in [Node -> SUBSET Blocks] /\ halted' \subseteq Node
      /\ \A m \in Node : bLock'[m].height >= bLock[m].height
  BY <1>1, UpdateStep, Zenon
<1>3. TypeOK'
  BY <1>1, <1>2, Zenon DEF IInv, TypeOK, Blocks
<1>4. \A m \in Node \ restarted : \A x \in signed[m] :
        Justify(Justify(x)).height <= bLock'[m].height
  <2> TAKE m \in Node \ restarted
  <2> TAKE x \in signed[m]
  <2>1. /\ Justify(Justify(x)).height \in Nat
        /\ bLock[m].height \in Nat /\ bLock'[m].height \in Nat
    BY <1>2, Heights, Zenon DEF IInv, TypeOK, Justify
  <2>2. Justify(Justify(x)).height <= bLock[m].height
    BY Zenon DEF IInv, SignInv
  <2> QED BY <1>2, <2>1, <2>2
<1>5. SignInv'
  BY <1>1, <1>4 DEF IInv, SignInv, KeepsLock, Certified, Blocks, Justify, Ancestry
<1> QED BY <1>2, <1>3, <1>5, Zenon DEF IInv

\* A signature raises backward exactly when an earlier one was as high.
LEMMA SignStep ==
  ASSUME TypeOK, NEW n \in Node, NEW b, Sign(n, b)
  PROVE  /\ signed'[n] = signed[n] \cup {b}
         /\ \A m \in Node \ {n} : signed'[m] = signed[m]
         /\ \A m \in Node : signed[m] \subseteq signed'[m]
         /\ signed' \in [Node -> SUBSET (Blocks \cup {b})]
         /\ backward' \subseteq Node
         /\ \A m \in Node : m \notin backward' => m \notin backward
         /\ n \notin backward' => \A x \in signed[n] : ~(x.height >= b.height)
  BY Zenon DEF TypeOK, Sign

\* A vote for the proposal of another node keeps the invariant: CanVote looks
\* at the lock before Update raises it.
LEMMA ProposalStep ==
  ASSUME IInv, NEW n \in Node, NEW b \in Blocks \ {Genesis}, OnReceiveProposal(n, b)
  PROVE  IInv'
<1>1. /\ CanVote(n, b) /\ Sign(n, b) /\ bVote' = [bVote EXCEPT ![n] = b]
      /\ Update(n, b) /\ UNCHANGED <<tree, proposal, votes, restarted, cert>>
  BY Zenon DEF OnReceiveProposal
<1>2. /\ signed'[n] = signed[n] \cup {b}
      /\ \A m \in Node \ {n} : signed'[m] = signed[m]
      /\ \A m \in Node : signed[m] \subseteq signed'[m]
      /\ signed' \in [Node -> SUBSET Blocks]
      /\ backward' \subseteq Node
      /\ \A m \in Node : m \notin backward' => m \notin backward
      /\ n \notin backward' => \A x \in signed[n] : ~(x.height >= b.height)
  <2>1. Blocks \cup {b} = Blocks
    BY Zenon
  <2> QED BY <1>1, <2>1, SignStep, Zenon DEF IInv
<1>3. /\ TreeInv' /\ ReplicaInv'
      /\ bLock' \in [Node -> Blocks] /\ bExec' \in [Node -> Blocks]
      /\ qcHigh' \in [Node -> Blocks] /\ bLeaf' \in [Node -> Blocks]
      /\ committed' \in [Node -> SUBSET Blocks] /\ halted' \subseteq Node
      /\ \A m \in Node : bLock'[m].height >= bLock[m].height
      /\ bLock'[n].height >= Justify(Justify(b)).height
  BY <1>1, <1>2, UpdateStep, Zenon
<1>4. TypeOK'
  BY <1>1, <1>2, <1>3, Zenon DEF IInv, TypeOK, Blocks
<1>5. /\ \A x \in Blocks : x.height \in Nat /\ Justify(Justify(x)).height \in Nat
      /\ \A m \in Node : /\ bLock[m].height \in Nat /\ bLock'[m].height \in Nat
                         /\ bVote[m].height \in Nat
      /\ \A m \in Node : signed[m] \subseteq Blocks
  BY <1>3, Heights, Zenon DEF IInv, TypeOK, Justify
<1>6. b.height > bVote[n].height
  BY <1>1, Zenon DEF CanVote
<1>7. \A m \in Node \ restarted : \A x \in signed'[m] :
        /\ Justify(Justify(x)).height <= bLock'[m].height
        /\ x.proposer = m \/ x.height <= bVote'[m].height
  <2> TAKE m \in Node \ restarted
  <2> TAKE x \in signed'[m]
  <2>1. CASE m = n /\ x = b
    BY <1>1, <1>3, <1>5, <2>1 DEF IInv, TypeOK
  <2>2. CASE x \in signed[m]
    <3>1. /\ Justify(Justify(x)).height <= bLock[m].height
          /\ x.proposer = m \/ x.height <= bVote[m].height
      BY <2>2, Zenon DEF IInv, SignInv
    <3>2. bVote[m].height <= bVote'[m].height
      BY <1>1, <1>5, <1>6 DEF IInv, TypeOK
    <3>3. bVote'[m].height \in Nat
      BY <1>1, <1>5, Zenon DEF IInv, TypeOK
    <3> QED BY <1>3, <1>5, <2>2, <3>1, <3>2, <3>3
  <2> QED BY <1>2, <2>1, <2>2, Zenon
<1>8. \A m \in Node \ restarted : \A x, y \in signed'[m] :
        x.height = y.height /\ x # y => m \in {x.proposer, y.proposer}
  <2> TAKE m \in Node \ restarted
  <2> TAKE x, y \in signed'[m]
  <2>1. CASE x \in signed[m] /\ y \in signed[m]
    BY <2>1, Zenon DEF IInv, SignInv
  <2>2. ASSUME m = n, NEW z \in signed[n], z.height = b.height PROVE z.proposer = n
    BY <1>5, <1>6, <2>2 DEF IInv, SignInv
  <2> QED BY <1>2, <2>1, <2>2
<1>9. ASSUME n \notin restarted, n \notin backward', NEW x \in signed[n] PROVE KeepsLock(n, x, b)
  <2>1. Justify(Justify(x)).height <= bLock[n].height
    BY <1>9, Zenon DEF IInv, SignInv
  <2>2. /\ bLock[n] \in Blocks /\ Certified(bLock[n])
        /\ Justify(Justify(x)).height \in Nat /\ bLock[n].height \in Nat
        /\ Justify(b).height \in Nat
    BY <1>5, Heights, ZenonT(60) DEF IInv, TypeOK, ReplicaInv, Justify
  <2>3. CASE CheckLivenessRule(n, b)
    BY <2>1, <2>2, <2>3 DEF CheckLivenessRule, KeepsLock
  <2>4. CASE CheckSafetyRule(n, b) /\ bLock[n] # b
    BY <2>1, <2>2, <2>4, Zenon DEF CheckSafetyRule, KeepsLock
  <2>5. CASE bLock[n] = b
    <3>1. cert[b] # {}
      BY <2>2, <2>5, Zenon DEF Certified
    <3>2. n \notin cert[b]
      <4> SUFFICES ASSUME n \in cert[b] PROVE FALSE
        BY Zenon
      <4>1. b \in signed[n]
        BY Zenon DEF IInv, SignInv
      <4> QED BY <1>2, <1>5, <1>9, <4>1
    <3> QED BY <3>1, <3>2, Zenon DEF KeepsLock
  <2> QED BY <1>1, <2>3, <2>4, <2>5, Zenon DEF CanVote
<1>10. \A m \in Node \ restarted : m \notin backward' =>
         \A x, w \in signed'[m] : /\ x.height = w.height => x = w
                                  /\ x.height < w.height => KeepsLock(m, x, w)
  <2> TAKE m \in Node \ restarted
  <2> HAVE m \notin backward'
  <2> TAKE x, w \in signed'[m]
  <2>1. CASE x \in signed[m] /\ w \in signed[m]
    BY <1>2, <2>1, Zenon DEF IInv, SignInv
  <2>2. CASE m = n /\ x \in signed[n] /\ w = b
    BY <1>2, <1>5, <1>9, <2>2
  <2>3. CASE m = n /\ x = b
    BY <1>2, <1>5, <2>3
  <2> QED BY <1>2, <2>1, <2>2, <2>3, Zenon
<1>11. SignInv'
  <2>1. \A c \in Blocks : \A m \in cert[c] : c \in signed'[m]
    BY <1>2, Zenon DEF IInv, SignInv, TypeOK
  <2>2. \A m \in Node : Genesis \notin signed'[m]
    BY <1>2, ZenonT(60) DEF IInv, SignInv
  <2> QED BY <1>1, <1>7, <1>8, <1>10, <2>1, <2>2
          DEF SignInv, KeepsLock, Certified, Blocks, Justify, Ancestry
<1> QED BY <1>3, <1>4, <1>11, Zenon DEF IInv

\* A certificate out of a new view message keeps the invariant.
LEMMA NewViewStep ==
  ASSUME IInv, NEW n \in Node, NEW q \in Blocks, OnReceiveNewView(n, q)
  PROVE  IInv'
<1>1. /\ Certified(q) /\ UpdateQCHigh(n, q)
      /\ UNCHANGED <<tree, bVote, bLock, bExec, proposal, votes, committed, halted,
                     signed, backward, restarted, cert>>
  BY Zenon DEF OnReceiveNewView
<1>2. /\ qcHigh' \in [Node -> Blocks] /\ bLeaf' \in [Node -> Blocks]
      /\ \A m \in Node \ {n} : qcHigh'[m] = qcHigh[m] /\ bLeaf'[m] = bLeaf[m]
      /\ qcHigh'[n] \in {qcHigh[n], q}
      /\ qcHigh'[n].height >= qcHigh[n].height
      /\ qcHigh'[n] \in Ancestry(bLeaf'[n])
  BY <1>1, QCStep, Zenon DEF IInv, ReplicaInv
<1>3. TypeOK'
  BY <1>1, <1>2, Zenon DEF IInv, TypeOK, Blocks
<1>4. TreeInv'
  BY <1>1, ZenonT(60) DEF IInv, TreeInv, Blocks, Parent, Justify, Ancestry, Certified
<1>5. \A m \in Node :
        /\ Certified(qcHigh'[m])
        /\ m \notin restarted => bLock[m] = Genesis \/ qcHigh'[m].height > bLock[m].height
        /\ qcHigh'[m] \in Ancestry(bLeaf'[m])
  <2> TAKE m \in Node
  <2>1. /\ Certified(qcHigh[m]) /\ qcHigh[m] \in Ancestry(bLeaf[m])
        /\ m \notin restarted => bLock[m] = Genesis \/ qcHigh[m].height > bLock[m].height
    BY Zenon DEF IInv, ReplicaInv
  <2>2. bLock[m].height \in Nat /\ qcHigh[m].height \in Nat /\ qcHigh'[m].height \in Nat
    BY <1>2, Heights, Zenon DEF IInv, TypeOK
  <2> QED BY <1>1, <1>2, <2>1, <2>2
<1>6. ReplicaInv'
  BY <1>1, <1>5, SameTree DEF IInv, ReplicaInv
<1>7. SignInv'
  BY <1>1 DEF IInv, SignInv, KeepsLock, Certified, Blocks, Justify, Ancestry
<1> QED BY <1>3, <1>4, <1>6, <1>7, Zenon DEF IInv

\* Building a certificate keeps everything: the votes in it are signatures of
\* its block, and no other proposal is the same block.
LEMMA VoteStep ==
  ASSUME IInv, NEW n \in Node, NEW v \in Node, OnReceiveVote(n, v)
  PROVE  IInv'
<1> USE DEF IInv
<1>1. PICK b \in proposal[n] :
        /\ b \in signed[v]
        /\ LET all == votes[n] \cup {v}
           IN IF Cardinality(all) >= MajorityCount
              THEN /\ cert' = [cert EXCEPT ![b] = all]
                   /\ proposal' = [proposal EXCEPT ![n] = {}]
                   /\ votes' = [votes EXCEPT ![n] = {}]
                   /\ UpdateQCHigh(n, b)
              ELSE /\ votes' = [votes EXCEPT ![n] = all]
                   /\ UNCHANGED <<cert, proposal, qcHigh, bLeaf>>
        /\ UNCHANGED <<tree, bVote, bLock, bExec, committed, halted, signed, backward,
                       restarted>>
  BY Zenon DEF OnReceiveVote
<1> DEFINE all == votes[n] \cup {v}
<1>2. /\ b \in Blocks /\ b # Genesis /\ b.proposer = n /\ cert[b] = {}
      /\ all \in SUBSET Node /\ \A m \in all : b \in signed[m]
  <2>1. b \in proposal[n] /\ b \in signed[v]
    BY <1>1, Zenon
  <2>2. b \in Blocks /\ votes[n] \in SUBSET Node
    BY <2>1, Zenon DEF TypeOK
  <2>3. \A c \in proposal[n] : /\ c # Genesis /\ c.proposer = n /\ cert[c] = {}
                              /\ \A m \in votes[n] : c \in signed[m]
    BY Zenon DEF ReplicaInv
  <2> QED BY <2>1, <2>2, <2>3, Zenon
<1>3. CASE ~(Cardinality(all) >= MajorityCount)
  <2>1. /\ votes' = [votes EXCEPT ![n] = all]
        /\ UNCHANGED <<cert, proposal, qcHigh, bLeaf>>
    BY <1>1, <1>3, Zenon
  <2> HIDE DEF all
  <2>2. \A m \in Node : \A c \in proposal[m] :
          c # Genesis /\ c.proposer = m /\ cert[c] = {} /\ proposal[m] = {c} /\ \A u \in votes'[m] : c \in signed[u]
    <3> TAKE m \in Node
    <3> TAKE c \in proposal[m]
    <3>1. CASE m = n
      <4>1. \A u \in all : c \in signed[u] \/ c # b
        BY <1>2, Zenon
      <4>2. c # Genesis /\ c.proposer = m /\ cert[c] = {} /\ proposal[m] = {c} /\ \A u \in votes[m] : c \in signed[u]
        BY Zenon DEF ReplicaInv
      <4>3. c = b
        BY <1>1, <3>1 DEF ReplicaInv
      <4> QED BY <2>1, <3>1, <4>1, <4>2, <4>3, Zenon DEF TypeOK
    <3>2. CASE m # n
      BY <2>1, <3>2 DEF ReplicaInv, TypeOK
    <3> QED BY <3>1, <3>2, Zenon
  <2>3. TypeOK'
    BY <1>1, <1>2, <2>1, Zenon DEF TypeOK, Blocks
  <2>4. TreeInv'
    BY <1>1, <2>1, ZenonT(60) DEF TreeInv, Blocks, Parent, Justify, Ancestry, Certified
  <2>5. ReplicaInv'
    BY <1>1, <2>1, <2>2, SameTree DEF ReplicaInv
  <2>6. SignInv'
    BY <1>1, <2>1 DEF SignInv, KeepsLock, Certified, Blocks, Justify, Ancestry
  <2> QED BY <2>3, <2>4, <2>5, <2>6, Zenon
<1>4. CASE Cardinality(all) >= MajorityCount
  <2>1. /\ cert' = [cert EXCEPT ![b] = all]
        /\ proposal' = [proposal EXCEPT ![n] = {}]
        /\ votes' = [votes EXCEPT ![n] = {}]
        /\ UpdateQCHigh(n, b)
    BY <1>1, <1>4, Zenon
  <2>2. /\ qcHigh' \in [Node -> Blocks] /\ bLeaf' \in [Node -> Blocks]
        /\ \A m \in Node \ {n} : qcHigh'[m] = qcHigh[m] /\ bLeaf'[m] = bLeaf[m]
        /\ qcHigh'[n] \in {qcHigh[n], b}
        /\ qcHigh'[n].height >= qcHigh[n].height
        /\ qcHigh'[n] \in Ancestry(bLeaf'[n])
    BY <1>2, <2>1, QCStep, ZenonT(60) DEF ReplicaInv
  <2>3. all # {}
    BY Zenon
  <2>4. Cardinality(all) >= MajorityCount
    BY <1>4, Zenon
  <2> HIDE DEF all
  <2>5. cert'[b] = all /\ \A c \in Blocks \ {b} : cert'[c] = cert[c]
    BY <1>2, <2>1, Zenon DEF TypeOK
  <2>6. TypeOK'
    BY <1>1, <1>2, <2>1, <2>2, <2>4, <2>5, Zenon DEF TypeOK, Blocks
  <2>7. \A c \in Blocks : Certified(c) => Certified(c)'
    BY <2>3, <2>5, Zenon DEF Certified
  <2>8. Certified(b)'
    BY <2>3, <2>5, Zenon DEF Certified
  <2>9. Blocks' = Blocks /\ \A c : Parent(c)' = Parent(c) /\ Justify(c)' = Justify(c)
                                   /\ Ancestry(c)' = Ancestry(c)
    BY <1>1, Zenon DEF Blocks, Parent, Justify, Ancestry
  <2>10. TreeInv'
    <3>1. \A c \in Blocks : Justify(c) \in Blocks
      BY Zenon DEF TypeOK, Justify
    <3> QED BY <2>7, <2>9, <3>1, Zenon DEF TreeInv
  <2>11. \A c \in Blocks : Decided(c) => Decided(c)'
    BY <2>7, <2>9, Zenon DEF Decided, IsThreeChain
  <2>12. ReplicaInv'
    <3> SUFFICES ASSUME NEW m \in Node
                 PROVE  /\ Certified(qcHigh[m])'
                        /\ Certified(bLock[m])'
                        /\ m \notin restarted => bLock[m] = Genesis \/ qcHigh'[m].height > bLock[m].height
                        /\ qcHigh'[m] \in Ancestry(bLeaf'[m])
                        /\ committed[m] = Ancestry(bExec[m])
                        /\ bExec[m] = Genesis \/ Decided(bExec[m])'
                        /\ \A c \in proposal'[m] :
                             /\ c # Genesis /\ c.proposer = m /\ cert'[c] = {} /\ proposal'[m] = {c}
                             /\ \A u \in votes'[m] : c \in signed[u]
      BY <1>1, <2>9 DEF ReplicaInv, Ancestry
    <3>1. /\ Certified(qcHigh[m]) /\ Certified(bLock[m])
          /\ m \notin restarted => bLock[m] = Genesis \/ qcHigh[m].height > bLock[m].height
          /\ qcHigh[m] \in Ancestry(bLeaf[m])
          /\ committed[m] = Ancestry(bExec[m])
          /\ bExec[m] = Genesis \/ Decided(bExec[m])
          /\ \A c \in proposal[m] : /\ c # Genesis /\ c.proposer = m /\ cert[c] = {} /\ proposal[m] = {c}
                                    /\ \A u \in votes[m] : c \in signed[u]
          /\ qcHigh[m] \in Blocks /\ bLock[m] \in Blocks /\ bExec[m] \in Blocks
          /\ proposal[m] \subseteq Blocks
      BY DEF ReplicaInv, TypeOK
    <3>2. bLock[m].height \in Nat /\ qcHigh[m].height \in Nat /\ qcHigh'[m].height \in Nat
      BY <2>2, <3>1, Heights, Zenon
    <3>3. Certified(qcHigh[m])' /\ Certified(bLock[m])'
      <4>1. qcHigh'[m] \in {qcHigh[m], b} /\ bLock'[m] = bLock[m]
        BY <1>1, <2>2, Zenon
      <4> QED BY <2>5, <2>7, <2>8, <3>1, <4>1, Zenon DEF Certified
    <3>4. bExec[m] = Genesis \/ Decided(bExec[m])'
      <4>1. bExec'[m] = bExec[m]
        BY <1>1, Zenon
      <4> QED BY <2>11, <3>1, <4>1, Zenon DEF Decided, IsThreeChain
    <3>5. m \notin restarted => bLock[m] = Genesis \/ qcHigh'[m].height > bLock[m].height
      BY <2>2, <3>1, <3>2
    <3>6. qcHigh'[m] \in Ancestry(bLeaf'[m])
      BY <2>2, <3>1, Zenon
    <3>7. \A c \in proposal'[m] : /\ c # Genesis /\ c.proposer = m /\ cert'[c] = {} /\ proposal'[m] = {c}
                                  /\ \A u \in votes'[m] : c \in signed[u]
      <4>1. CASE m = n
        BY <2>1, <4>1, Zenon DEF TypeOK
      <4>2. CASE m # n
        BY <1>2, <2>1, <2>5, <3>1, <4>2 DEF TypeOK
      <4> QED BY <4>1, <4>2, Zenon
    <3> QED BY <3>1, <3>3, <3>4, <3>5, <3>6, <3>7, Zenon
  <2>13. SignInv'
    <3>1. \A c \in Blocks : \A m \in cert'[c] : c \in signed[m]
      BY <1>2, <2>5 DEF SignInv
    <3>2. \A m \in Node : \A x \in signed[m] : \A w \in signed[m] :
            KeepsLock(m, x, w) => KeepsLock(m, x, w)'
      <4> TAKE m \in Node
      <4> TAKE x \in signed[m]
      <4> TAKE w \in signed[m]
      <4> HAVE KeepsLock(m, x, w)
      <4>1. w \in Blocks /\ Ancestry(w) \subseteq Blocks
        BY Zenon DEF TypeOK, Ancestry
      <4>2. CASE cert[w] # {} /\ m \notin cert[w]
        BY <1>2, <2>5, <4>1, <4>2, Zenon DEF KeepsLock
      <4>3. CASE Justify(w).height > Justify(Justify(x)).height
        BY <1>1, <4>3, Zenon DEF KeepsLock, Justify
      <4>4. CASE \E l \in Ancestry(w) \ {w} :
                   Certified(l) /\ l.height >= Justify(Justify(x)).height
        <5>1. PICK l \in Ancestry(w) \ {w} :
                Certified(l) /\ l.height >= Justify(Justify(x)).height
          BY <4>4, Zenon
        <5>2. Certified(l)'
          BY <2>7, <4>1, <5>1, Zenon
        <5> QED BY <1>1, <5>1, <5>2, Zenon DEF KeepsLock, Justify, Ancestry
      <4> QED BY <4>2, <4>3, <4>4, Zenon DEF KeepsLock
    <3>3. \A m \in Node \ restarted :
            /\ \A x \in signed[m] : /\ Justify(Justify(x)).height <= bLock[m].height
                                    /\ x.proposer = m \/ x.height <= bVote[m].height
            /\ \A x, y \in signed[m] :
                 x.height = y.height /\ x # y => m \in {x.proposer, y.proposer}
            /\ m \notin backward =>
                 \A x, w \in signed[m] : /\ x.height = w.height => x = w
                                         /\ x.height < w.height => KeepsLock(m, x, w)'
      BY <3>2, Zenon DEF SignInv
    <3>4. \A m \in Node : Genesis \notin signed[m]
      BY Zenon DEF SignInv
    <3> QED BY <1>1, <2>9, <3>1, <3>3, <3>4, Zenon DEF SignInv, Justify
  <2> QED BY <2>6, <2>10, <2>12, <2>13, Zenon
<1> QED BY <1>3, <1>4, Zenon

\* What OnPropose adds to the tree, and that it leaves the rest of it alone.
LEMMA ProposeTree ==
  ASSUME IInv, NEW n \in Proposer, NEW st \in Stamp, OnPropose(n, st),
         NEW bNew, bNew = NewBlock(n, st)
  PROVE  /\ bNew \in Block /\ bNew \notin Blocks /\ bNew # Genesis
         /\ bNew.height = bLeaf[n].height + 1 /\ bNew.proposer = n
         /\ Blocks' = Blocks \cup {bNew}
         /\ \A x \in Blocks : /\ tree'[x] = tree[x]
                              /\ Parent(x)' = Parent(x) /\ Justify(x)' = Justify(x)
                              /\ Ancestry(x)' = Ancestry(x) /\ cert'[x] = cert[x]
                              /\ Certified(x)' <=> Certified(x)
         /\ Parent(bNew)' = bLeaf[n] /\ Justify(bNew)' = qcHigh[n]
         /\ Ancestry(bNew)' = Ancestry(bLeaf[n]) \cup {bNew} /\ cert'[bNew] = {}
<1> DEFINE node == [parent   |-> bLeaf[n], justify |-> qcHigh[n],
                    ancestry |-> Ancestry(bLeaf[n]) \cup {bNew}]
<1>1. /\ bNew \notin Blocks
      /\ tree' = [x \in Blocks \cup {bNew} |-> IF x = bNew THEN node ELSE tree[x]]
      /\ cert' = [x \in Blocks \cup {bNew} |-> IF x = bNew THEN {} ELSE cert[x]]
  BY Zenon DEF OnPropose
<1>2. n \in Node /\ bLeaf[n].height \in Nat
  BY NodeAssumption, Heights, Zenon DEF IInv, TypeOK
<1>3. bNew \in Block /\ bNew.height = bLeaf[n].height + 1 /\ bNew.proposer = n
  BY <1>2 DEF Block, NewBlock
<1>4. bNew # Genesis
  BY <1>1, Zenon DEF IInv, TypeOK
<1>5. Blocks' = Blocks \cup {bNew} /\ tree'[bNew] = node /\ cert'[bNew] = {}
      /\ \A x \in Blocks : tree'[x] = tree[x] /\ cert'[x] = cert[x]
  BY <1>1, Zenon DEF Blocks
<1> HIDE DEF node
<1>6. \A x \in Blocks : /\ Parent(x)' = Parent(x) /\ Justify(x)' = Justify(x)
                        /\ Ancestry(x)' = Ancestry(x) /\ (Certified(x)' <=> Certified(x))
  BY <1>5, Zenon DEF Parent, Justify, Ancestry, Certified
<1>7. Parent(bNew)' = bLeaf[n] /\ Justify(bNew)' = qcHigh[n]
      /\ Ancestry(bNew)' = Ancestry(bLeaf[n]) \cup {bNew}
  BY <1>5 DEF Parent, Justify, Ancestry, node
<1> QED BY <1>1, <1>3, <1>4, <1>5, <1>6, <1>7, Zenon

\* OnPropose keeps the types of the tree and of the certificates.
LEMMA ProposeTypes ==
  ASSUME IInv, NEW n \in Proposer, NEW st \in Stamp, OnPropose(n, st)
  PROVE  /\ Blocks' \subseteq Block /\ Genesis \in Blocks'
         /\ \A b \in Blocks' :
              tree'[b] \in [parent : Blocks', justify : Blocks', ancestry : SUBSET Blocks']
         /\ cert' \in [Blocks' -> SUBSET Node]
         /\ \A b \in Blocks' : cert'[b] = {} \/ Cardinality(cert'[b]) >= MajorityCount
<1> DEFINE bNew == NewBlock(n, st)
           node == [parent   |-> bLeaf[n], justify |-> qcHigh[n],
                    ancestry |-> Ancestry(bLeaf[n]) \cup {bNew}]
<1>1. /\ tree' = [x \in Blocks \cup {bNew} |-> IF x = bNew THEN node ELSE tree[x]]
      /\ cert' = [x \in Blocks \cup {bNew} |-> IF x = bNew THEN {} ELSE cert[x]]
  BY Zenon DEF OnPropose
<1>2. bNew \in Block
  BY ProposeTree, Zenon
<1>3. /\ Blocks \subseteq Block /\ Genesis \in Blocks /\ cert \in [Blocks -> SUBSET Node]
      /\ \A b \in Blocks : /\ tree[b] \in [parent : Blocks, justify : Blocks, ancestry : SUBSET Blocks]
                           /\ cert[b] = {} \/ Cardinality(cert[b]) >= MajorityCount
      /\ bLeaf[n] \in Blocks /\ qcHigh[n] \in Blocks /\ Ancestry(bLeaf[n]) \subseteq Blocks
  BY NodeAssumption, Zenon DEF IInv, TypeOK, Ancestry
<1> HIDE DEF bNew
<1>4. Blocks' = Blocks \cup {bNew}
  BY <1>1, Zenon DEF Blocks
<1>5. node \in [parent : Blocks', justify : Blocks', ancestry : SUBSET Blocks']
  BY <1>3, <1>4, Zenon
<1>6. ASSUME NEW b \in Blocks
      PROVE  tree[b] \in [parent : Blocks', justify : Blocks', ancestry : SUBSET Blocks']
  BY <1>3, <1>4, Zenon
<1> HIDE DEF node
<1>7. \A b \in Blocks' :
        tree'[b] \in [parent : Blocks', justify : Blocks', ancestry : SUBSET Blocks']
  BY <1>1, <1>4, <1>5, <1>6, Zenon
<1>8. /\ cert' \in [Blocks' -> SUBSET Node]
      /\ \A b \in Blocks' : cert'[b] = {} \/ Cardinality(cert'[b]) >= MajorityCount
  BY <1>1, <1>3, <1>4, Zenon
<1> QED BY <1>2, <1>3, <1>4, <1>7, <1>8, Zenon

\* A proposal keeps the invariant: the signature on a node's own block says as
\* much about its lock as a vote that CanVote let through.
LEMMA ProposeStep ==
  ASSUME IInv, NEW n \in Proposer, NEW st \in Stamp, OnPropose(n, st)
  PROVE  IInv'
<1>0. PICK bNew : bNew = NewBlock(n, st)
  BY Zenon
<1>1. /\ bNew \in Block /\ bNew \notin Blocks /\ bNew # Genesis
      /\ bNew.height = bLeaf[n].height + 1 /\ bNew.proposer = n
      /\ Blocks' = Blocks \cup {bNew}
      /\ \A x \in Blocks : /\ tree'[x] = tree[x]
                           /\ Parent(x)' = Parent(x) /\ Justify(x)' = Justify(x)
                           /\ Ancestry(x)' = Ancestry(x) /\ cert'[x] = cert[x]
                           /\ Certified(x)' <=> Certified(x)
      /\ Parent(bNew)' = bLeaf[n] /\ Justify(bNew)' = qcHigh[n]
      /\ Ancestry(bNew)' = Ancestry(bLeaf[n]) \cup {bNew} /\ cert'[bNew] = {}
  BY <1>0, ProposeTree
<1>2. /\ bLeaf' = [bLeaf EXCEPT ![n] = bNew]
      /\ proposal' = [proposal EXCEPT ![n] = {bNew}]
      /\ votes' = [votes EXCEPT ![n] = {n}]
      /\ Sign(n, bNew) /\ LockAndCommit(n, qcHigh[n])
      /\ UNCHANGED <<bVote, qcHigh, restarted>>
  BY <1>0, Zenon DEF OnPropose
<1>3. /\ n \in Node /\ bLeaf[n] \in Blocks /\ qcHigh[n] \in Blocks /\ Certified(qcHigh[n])
      /\ qcHigh[n] \in Ancestry(bLeaf[n]) /\ Ancestry(bLeaf[n]) \subseteq Blocks
      /\ \A x \in Blocks : Parent(x) \in Blocks /\ Justify(x) \in Blocks /\ Ancestry(x) \subseteq Blocks
      /\ \A m \in Node : signed[m] \subseteq Blocks
      /\ Genesis \in Blocks
  BY NodeAssumption, ZenonT(60) DEF IInv, TypeOK, ReplicaInv, Ancestry, Parent, Justify
<1>4. /\ signed'[n] = signed[n] \cup {bNew}
      /\ \A m \in Node \ {n} : signed'[m] = signed[m]
      /\ \A m \in Node : signed[m] \subseteq signed'[m]
      /\ signed' \in [Node -> SUBSET (Blocks \cup {bNew})]
      /\ backward' \subseteq Node
      /\ \A m \in Node : m \notin backward' => m \notin backward
      /\ n \notin backward' => \A x \in signed[n] : ~(x.height >= bNew.height)
  BY <1>2, <1>3, SignStep, Zenon DEF IInv
<1>5. /\ bLock' \in [Node -> Blocks] /\ bExec' \in [Node -> Blocks]
      /\ committed' \in [Node -> SUBSET Blocks] /\ halted' \subseteq Node
      /\ \A m \in Node \ {n} : /\ bLock'[m] = bLock[m] /\ bExec'[m] = bExec[m]
                               /\ committed'[m] = committed[m]
      /\ bLock'[n] \in {bLock[n], Justify(qcHigh[n])} /\ Certified(bLock'[n])
      /\ bLock'[n].height >= bLock[n].height
      /\ bLock'[n].height >= Justify(qcHigh[n]).height
      /\ committed'[n] = Ancestry(bExec'[n])
      /\ bExec'[n] = Genesis \/ Decided(bExec'[n])
  BY <1>2, <1>3, LockStep, Zenon DEF IInv
<1>6. /\ \A x \in Blocks \cup {bNew} : x.height \in Nat
      /\ \A m \in Node : bLock[m].height \in Nat /\ bLock'[m].height \in Nat
  <2>1. /\ \A x \in Blocks : x.height \in Nat
        /\ \A m \in Node : bLock[m] \in Blocks
    BY Heights, Zenon DEF IInv, TypeOK
  <2>2. \A m \in Node : bLock'[m] \in Blocks
    BY <1>5, Zenon
  <2>3. bNew.height \in Nat
    BY <1>1, <1>3, <2>1
  <2> QED BY <2>1, <2>2, <2>3, Zenon
<1>7. TypeOK'
  <2>1. /\ Blocks' \subseteq Block /\ Genesis \in Blocks'
        /\ \A b \in Blocks' :
             tree'[b] \in [parent : Blocks', justify : Blocks', ancestry : SUBSET Blocks']
        /\ cert' \in [Blocks' -> SUBSET Node]
        /\ \A b \in Blocks' : cert'[b] = {} \/ Cardinality(cert'[b]) >= MajorityCount
    BY ProposeTypes, Zenon
  <2>2. /\ bVote' \in [Node -> Blocks'] /\ bLock' \in [Node -> Blocks']
        /\ bExec' \in [Node -> Blocks'] /\ qcHigh' \in [Node -> Blocks']
        /\ bLeaf' \in [Node -> Blocks'] /\ proposal' \in [Node -> SUBSET Blocks']
    <3>1. /\ bVote \in [Node -> Blocks] /\ qcHigh \in [Node -> Blocks]
          /\ bLeaf \in [Node -> Blocks] /\ proposal \in [Node -> SUBSET Blocks]
      BY Zenon DEF IInv, TypeOK
    <3>2. Blocks \subseteq Blocks' /\ bNew \in Blocks'
      BY <1>1, Zenon
    <3>3. bLeaf' \in [Node -> Blocks'] /\ proposal' \in [Node -> SUBSET Blocks']
      BY <1>2, <3>1, <3>2, Zenon
    <3>4. bVote' \in [Node -> Blocks'] /\ qcHigh' \in [Node -> Blocks']
      BY <1>2, <3>1, <3>2, Zenon
    <3>5. bLock' \in [Node -> Blocks'] /\ bExec' \in [Node -> Blocks']
      BY <1>5, <3>2, Zenon
    <3> QED BY <3>3, <3>4, <3>5, Zenon
  <2>3. /\ votes' \in [Node -> SUBSET Node] /\ committed' \in [Node -> SUBSET Blocks']
        /\ halted' \subseteq Node /\ signed' \in [Node -> SUBSET Blocks']
        /\ backward' \subseteq Node /\ restarted' \subseteq Node
    <3>1. votes' \in [Node -> SUBSET Node]
      BY <1>2, <1>3, Zenon DEF IInv, TypeOK
    <3>2. committed' \in [Node -> SUBSET Blocks'] /\ signed' \in [Node -> SUBSET Blocks']
      BY <1>1, <1>4, <1>5, Zenon
    <3>3. restarted' \subseteq Node
      BY <1>2, Zenon DEF IInv, TypeOK
    <3> QED BY <1>4, <1>5, <3>1, <3>2, <3>3, Zenon
  <2> QED BY <2>1, <2>2, <2>3, Zenon DEF TypeOK
<1>8. TreeInv'
  <2>1. /\ Parent(Genesis)' = Genesis /\ Justify(Genesis)' = Genesis
        /\ Ancestry(Genesis)' = {Genesis}
    BY <1>1, <1>3, Zenon DEF IInv, TreeInv
  <2>2. ASSUME NEW b \in Blocks
        PROVE  /\ {b, Genesis, Parent(b)'} \subseteq Ancestry(b)'
               /\ \A a \in Ancestry(b)' : Ancestry(a)' \subseteq Ancestry(b)'
               /\ \A a, c \in Ancestry(b)' : a.height = c.height => a = c
               /\ \A a \in Ancestry(b)' : a.height <= b.height
               /\ b # Genesis => /\ b.height = (Parent(b)').height + 1
                                 /\ Justify(b)' \in Ancestry(Parent(b))'
                                 /\ Certified(Justify(b))'
    <3>1. /\ Parent(b)' = Parent(b) /\ Justify(b)' = Justify(b) /\ Ancestry(b)' = Ancestry(b)
          /\ Parent(b) \in Blocks /\ Justify(b) \in Blocks /\ Ancestry(b) \subseteq Blocks
      BY <1>1, <1>3, Zenon
    <3>2. \A a \in Ancestry(b) : Ancestry(a)' = Ancestry(a)
      BY <1>1, <3>1, Zenon
    <3>3. Ancestry(Parent(b))' = Ancestry(Parent(b)) /\ (Certified(Justify(b))' <=> Certified(Justify(b)))
      <4>1. tree'[Parent(b)] = tree[Parent(b)] /\ cert'[Justify(b)] = cert[Justify(b)]
        BY <1>1, <3>1, Zenon
      <4> QED BY <3>1, <4>1, Zenon DEF Parent, Justify, Ancestry, Certified
    <3> QED BY <3>1, <3>2, <3>3 DEF IInv, TreeInv
  <2>3. /\ {bNew, Genesis, Parent(bNew)'} \subseteq Ancestry(bNew)'
        /\ \A a \in Ancestry(bNew)' : Ancestry(a)' \subseteq Ancestry(bNew)'
        /\ \A a \in Ancestry(bLeaf[n]) : a.height < bNew.height
        /\ bNew.height = (Parent(bNew)').height + 1
    <3>1. {bLeaf[n], Genesis} \subseteq Ancestry(bLeaf[n])
      <4>1. bLeaf[n] \in Blocks
        BY <1>3, Zenon
      <4>2. \A c \in Blocks : {c, Genesis, Parent(c)} \subseteq Ancestry(c)
        BY Zenon DEF IInv, TreeInv
      <4> QED BY <4>1, <4>2, Zenon
    <3>2. \A a \in Ancestry(bLeaf[n]) : Ancestry(a)' = Ancestry(a) /\ Ancestry(a) \subseteq Ancestry(bLeaf[n])
                                        /\ a.height <= bLeaf[n].height
      <4>1. \A a \in Ancestry(bLeaf[n]) : a \in Blocks /\ Ancestry(a)' = Ancestry(a)
        BY <1>1, <1>3, Zenon
      <4> QED BY <1>3, <4>1, Zenon DEF IInv, TreeInv
    <3> QED BY <1>1, <1>3, <1>6, <3>1, <3>2
  <2>4. /\ \A a, c \in Ancestry(bNew)' : a.height = c.height => a = c
        /\ \A a \in Ancestry(bNew)' : a.height <= bNew.height
    <3>1. \A a, c \in Ancestry(bLeaf[n]) : a.height = c.height => a = c
      BY <1>3, Zenon DEF IInv, TreeInv
    <3> QED BY <1>1, <1>3, <1>6, <2>3, <3>1
  <2>5. Justify(bNew)' \in Ancestry(Parent(bNew))' /\ Certified(Justify(bNew))'
    <3>1. Ancestry(Parent(bNew))' = Ancestry(bLeaf[n])
      BY <1>1, <1>3, ZenonT(60) DEF Parent, Ancestry
    <3>2. Certified(Justify(bNew))' <=> Certified(qcHigh[n])
      BY <1>1, <1>3, Zenon DEF Justify, Certified
    <3> QED BY <1>1, <1>3, <3>1, <3>2, Zenon
  <2>6. ASSUME NEW b \in Blocks'
        PROVE  /\ {b, Genesis, Parent(b)'} \subseteq Ancestry(b)'
               /\ \A a \in Ancestry(b)' : Ancestry(a)' \subseteq Ancestry(b)'
               /\ \A a, c \in Ancestry(b)' : a.height = c.height => a = c
               /\ \A a \in Ancestry(b)' : a.height <= b.height
               /\ b # Genesis => /\ b.height = (Parent(b)').height + 1
                                 /\ Justify(b)' \in Ancestry(Parent(b))'
                                 /\ Certified(Justify(b))'
    <3>1. CASE b \in Blocks
      BY <2>2, <3>1, Zenon
    <3>2. CASE b = bNew
      BY <2>3, <2>4, <2>5, <3>2, Zenon
    <3> QED BY <1>1, <3>1, <3>2, Zenon
  <2> QED BY <2>1, <2>6, Zenon DEF TreeInv
<1>9. ReplicaInv'
  <2> SUFFICES ASSUME NEW m \in Node
               PROVE  /\ Certified(qcHigh[m])'
                      /\ Certified(bLock[m])'
                      /\ m \notin restarted' => bLock'[m] = Genesis \/ qcHigh[m].height > bLock'[m].height
                      /\ qcHigh[m] \in Ancestry(bLeaf[m])'
                      /\ committed'[m] = Ancestry(bExec[m])'
                      /\ bExec'[m] = Genesis \/ Decided(bExec[m])'
                      /\ \A c \in proposal'[m] :
                           /\ c # Genesis /\ c.proposer = m /\ cert'[c] = {} /\ proposal'[m] = {c}
                           /\ \A u \in votes'[m] : c \in signed'[u]
    BY <1>2 DEF ReplicaInv
  <2>1. /\ Certified(qcHigh[m]) /\ Certified(bLock[m])
        /\ m \notin restarted => bLock[m] = Genesis \/ qcHigh[m].height > bLock[m].height
        /\ qcHigh[m] \in Ancestry(bLeaf[m])
        /\ committed[m] = Ancestry(bExec[m])
        /\ bExec[m] = Genesis \/ Decided(bExec[m])
        /\ \A c \in proposal[m] : /\ c # Genesis /\ c.proposer = m /\ cert[c] = {} /\ proposal[m] = {c}
                                  /\ \A u \in votes[m] : c \in signed[u]
        /\ qcHigh[m] \in Blocks /\ bLock[m] \in Blocks /\ bExec[m] \in Blocks
        /\ bLeaf[m] \in Blocks /\ proposal[m] \subseteq Blocks /\ votes[m] \subseteq Node
    BY DEF IInv, ReplicaInv, TypeOK
  <2>2. \A c \in Blocks : Decided(c) => Decided(c)'
    BY <1>1, Zenon DEF Decided, IsThreeChain
  <2>3. Certified(qcHigh[m])' /\ Certified(bLock[m])'
    <3>1. qcHigh'[m] = qcHigh[m] /\ bLock'[m] \in Blocks /\ Certified(bLock'[m])
      BY <1>2, <1>5, <2>1, Zenon
    <3> QED BY <1>1, <2>1, <3>1, Zenon DEF Certified
  <2>4. m \notin restarted => bLock'[m] = Genesis \/ qcHigh[m].height > bLock'[m].height
    <3>1. CASE m # n
      BY <1>5, <2>1, <3>1, Zenon
    <3>2. CASE m = n
      <4>1. Justify(qcHigh[n]) = Genesis \/ qcHigh[n].height > Justify(qcHigh[n]).height
        BY <1>3, TreeHeights, Heights, Zenon DEF IInv, TreeInv
      <4> QED BY <1>5, <2>1, <3>2, <4>1, Zenon
    <3> QED BY <3>1, <3>2, Zenon
  <2>5. qcHigh[m] \in Ancestry(bLeaf[m])'
    <3>1. CASE m # n
      <4>1. bLeaf'[m] = bLeaf[m] /\ tree'[bLeaf[m]] = tree[bLeaf[m]]
        BY <1>1, <1>2, <2>1, <3>1, Zenon DEF IInv, TypeOK
      <4> QED BY <2>1, <4>1, Zenon DEF Ancestry
    <3>2. CASE m = n
      <4>1. bLeaf'[m] = bNew
        BY <1>2, <1>3, <3>2, Zenon DEF IInv, TypeOK
      <4>2. Ancestry(bLeaf[m])' = Ancestry(bNew)'
        BY <4>1, Zenon DEF Ancestry
      <4> QED BY <1>1, <2>1, <3>2, <4>2, Zenon
    <3> QED BY <3>1, <3>2, Zenon
  <2>6. committed'[m] = Ancestry(bExec[m])'
    <3>1. bExec'[m] \in Blocks /\ committed'[m] = Ancestry(bExec'[m])
      BY <1>5, <2>1, Zenon
    <3>2. tree'[bExec'[m]] = tree[bExec'[m]]
      BY <1>1, <3>1, Zenon
    <3> QED BY <3>1, <3>2, Zenon DEF Ancestry
  <2>7. bExec'[m] = Genesis \/ Decided(bExec[m])'
    <3>1. bExec'[m] \in Blocks /\ (bExec'[m] = Genesis \/ Decided(bExec'[m]))
      BY <1>5, <2>1, Zenon
    <3>2. Decided(bExec'[m]) => Decided(bExec[m])'
      <4> SUFFICES ASSUME Decided(bExec'[m]) PROVE Decided(bExec[m])'
        BY Zenon
      <4>1. PICK b1 \in Blocks, b2 \in Blocks :
              /\ IsThreeChain(bExec'[m], b1, b2)
              /\ Justify(b1) = bExec'[m] /\ Justify(b2) = b1
              /\ Certified(bExec'[m]) /\ Certified(b1) /\ Certified(b2)
              /\ b1 # Genesis /\ b2 # Genesis
        BY Zenon DEF Decided
      <4>2. /\ b1 \in Blocks' /\ b2 \in Blocks'
            /\ IsThreeChain(bExec[m], b1, b2)'
            /\ Justify(b1)' = bExec'[m] /\ Justify(b2)' = b1
            /\ Certified(bExec[m])' /\ Certified(b1)' /\ Certified(b2)'
        BY <1>1, <3>1, <4>1, Zenon DEF IsThreeChain, Certified
      <4> QED BY <4>1, <4>2, Zenon DEF Decided
    <3> QED BY <3>1, <3>2, Zenon
  <2>8. \A c \in proposal'[m] :
          /\ c # Genesis /\ c.proposer = m /\ cert'[c] = {} /\ proposal'[m] = {c}
          /\ \A u \in votes'[m] : c \in signed'[u]
    <3>1. CASE m # n
      <4>1. proposal'[m] = proposal[m] /\ votes'[m] = votes[m]
        BY <1>2, <3>1, Zenon DEF IInv, TypeOK
      <4>2. /\ \A u \in Node : signed[u] \subseteq signed'[u]
            /\ \A c \in Blocks : cert'[c] = cert[c]
        BY <1>1, <1>4, Zenon
      <4> QED BY <2>1, <4>1, <4>2, Zenon
    <3>2. CASE m = n
      <4>1. proposal'[m] = {bNew} /\ votes'[m] = {n}
        BY <1>2, <1>3, <3>2, Zenon DEF IInv, TypeOK
      <4> QED BY <1>1, <1>4, <3>2, <4>1, Zenon
    <3> QED BY <3>1, <3>2, Zenon
  <2> QED BY <1>2, <2>3, <2>4, <2>5, <2>6, <2>7, <2>8, Zenon
<1>10. \A x \in Blocks : /\ Justify(Justify(x))' = Justify(Justify(x))
                         /\ Justify(Justify(x)).height \in Nat
  BY <1>1, <1>3, <1>6, ZenonT(60) DEF Justify
<1>11. Justify(Justify(bNew))' = Justify(qcHigh[n]) /\ Justify(qcHigh[n]).height \in Nat
  BY <1>1, <1>3, <1>6, Zenon DEF Justify
<1>12. \A m \in Node \ restarted : \A x \in signed'[m] :
         /\ (Justify(Justify(x))').height <= bLock'[m].height
         /\ x.proposer = m \/ x.height <= bVote[m].height
  <2> TAKE m \in Node \ restarted
  <2> TAKE x \in signed'[m]
  <2>1. CASE m = n /\ x = bNew
    BY <1>1, <1>5, <1>6, <1>11, <2>1, Zenon
  <2>2. CASE x \in signed[m]
    <3>1. /\ Justify(Justify(x)).height <= bLock[m].height
          /\ x.proposer = m \/ x.height <= bVote[m].height
      BY <2>2, Zenon DEF IInv, SignInv
    <3>2. bLock[m].height <= bLock'[m].height
      BY <1>3, <1>5, <1>6
    <3>3. (Justify(Justify(x))').height = Justify(Justify(x)).height
          /\ Justify(Justify(x)).height \in Nat
      BY <1>3, <1>10, <2>2, Zenon
    <3>4. bLock[m].height \in Nat /\ bLock'[m].height \in Nat
      BY <1>6, Zenon
    <3> QED BY <3>1, <3>2, <3>3, <3>4
  <2> QED BY <1>4, <2>1, <2>2, Zenon
<1>13. \A m \in Node \ restarted : \A x, y \in signed'[m] :
         x.height = y.height /\ x # y => m \in {x.proposer, y.proposer}
  <2> TAKE m \in Node \ restarted
  <2> TAKE x, y \in signed'[m]
  <2>1. CASE x \in signed[m] /\ y \in signed[m]
    BY <2>1, Zenon DEF IInv, SignInv
  <2>2. CASE m = n /\ bNew \in {x, y}
    BY <1>1, <2>2, Zenon
  <2> QED BY <1>4, <2>1, <2>2, Zenon
<1>14. \A m \in Node : \A x, w \in signed[m] : KeepsLock(m, x, w) => KeepsLock(m, x, w)'
  <2> TAKE m \in Node
  <2> TAKE x, w \in signed[m]
  <2>1. /\ x \in Blocks /\ w \in Blocks /\ Ancestry(w)' = Ancestry(w) /\ Ancestry(w) \subseteq Blocks
        /\ Justify(w)' = Justify(w) /\ cert'[w] = cert[w]
        /\ Justify(Justify(x))' = Justify(Justify(x))
    BY <1>1, <1>3, <1>10, Zenon
  <2>2. \A l \in Ancestry(w) : Certified(l)' <=> Certified(l)
    BY <1>1, <2>1, Zenon
  <2> QED BY <2>1, <2>2, Zenon DEF KeepsLock
<1>15. ASSUME n \notin restarted, NEW x \in signed[n] PROVE KeepsLock(n, x, bNew)'
  <2>1. /\ qcHigh[n] \in Ancestry(bNew)' /\ qcHigh[n] # bNew /\ Certified(qcHigh[n])
        /\ x \in Blocks /\ Justify(Justify(x)).height <= bLock[n].height
        /\ bLock[n] = Genesis \/ qcHigh[n].height > bLock[n].height
    BY <1>1, <1>3, <1>15, ZenonT(60) DEF IInv, SignInv, ReplicaInv
  <2>2. qcHigh[n].height >= Justify(Justify(x)).height
    <3>1. /\ bLock[n].height \in Nat /\ qcHigh[n].height \in Nat
          /\ Justify(Justify(x)).height \in Nat
      BY <1>3, <1>6, <1>10, <2>1, Zenon
    <3>2. Genesis.height = 0
      BY Zenon DEF Genesis
    <3> QED BY <2>1, <3>1, <3>2
  <2>3. cert'[qcHigh[n]] = cert[qcHigh[n]]
    BY <1>1, <1>3, Zenon
  <2>4. /\ qcHigh[n] \in Ancestry(bNew)' \ {bNew}
        /\ qcHigh[n] = Genesis \/ cert'[qcHigh[n]] # {}
        /\ qcHigh[n].height >= (Justify(Justify(x))').height
    BY <1>10, <2>1, <2>2, <2>3, Zenon DEF Certified
  <2> QED BY <2>4, Zenon DEF KeepsLock, Certified
<1>16. \A m \in Node \ restarted : m \notin backward' =>
         \A x, w \in signed'[m] : /\ x.height = w.height => x = w
                                  /\ x.height < w.height => KeepsLock(m, x, w)'
  <2> TAKE m \in Node \ restarted
  <2> HAVE m \notin backward'
  <2> TAKE x, w \in signed'[m]
  <2>1. CASE x \in signed[m] /\ w \in signed[m]
    BY <1>4, <1>14, <2>1 DEF IInv, SignInv
  <2>2. CASE m = n /\ x \in signed[n] /\ w = bNew
    BY <1>3, <1>4, <1>6, <1>15, <2>2
  <2>3. CASE m = n /\ x = bNew
    BY <1>3, <1>4, <1>6, <2>3
  <2> QED BY <1>4, <2>1, <2>2, <2>3, Zenon
<1>17. SignInv'
  <2>1. \A c \in Blocks' : \A m \in cert'[c] : c \in signed'[m]
    BY <1>1, <1>4, Zenon DEF IInv, SignInv, TypeOK
  <2>2. \A m \in Node : Genesis \notin signed'[m]
    <3>1. \A m \in Node : signed'[m] \subseteq signed[m] \cup {bNew}
      BY <1>4, Zenon
    <3> QED BY <1>1, <3>1, ZenonT(60) DEF IInv, SignInv
  <2>3. Node \ restarted' = Node \ restarted /\ bVote' = bVote
    BY <1>2, Zenon
  <2>4. \A m \in Node \ restarted' :
          /\ \A x \in signed'[m] : /\ (Justify(Justify(x))').height <= bLock'[m].height
                                   /\ x.proposer = m \/ x.height <= bVote'[m].height
          /\ \A x, y \in signed'[m] :
               x.height = y.height /\ x # y => m \in {x.proposer, y.proposer}
          /\ m \notin backward' =>
               \A x, w \in signed'[m] : /\ x.height = w.height => x = w
                                        /\ x.height < w.height => KeepsLock(m, x, w)'
    <3> TAKE m \in Node \ restarted'
    <3>1. m \in Node \ restarted
      BY <2>3, Zenon
    <3> QED BY <1>12, <1>13, <1>16, <2>3, <3>1, Zenon
  <2> QED BY <2>1, <2>2, <2>4, Zenon DEF SignInv
<1> QED BY <1>7, <1>8, <1>9, <1>17, Zenon DEF IInv

\* A restart keeps the invariant: the block the node starts from is decided, so
\* it is certified, and of its signatures nothing is said any more.
LEMMA RestartStep ==
  ASSUME IInv, NEW n \in Node, NEW q0 \in Blocks, Restart(n, q0)
  PROVE  IInv'
<1> USE DEF IInv
<1>1. /\ q0 \in Ancestry(bExec[n]) /\ Certified(q0)
      /\ bVote' = [bVote EXCEPT ![n] = bExec[n]]
      /\ bLock' = [bLock EXCEPT ![n] = bExec[n]]
      /\ bLeaf' = [bLeaf EXCEPT ![n] = bExec[n]]
      /\ qcHigh' = [qcHigh EXCEPT ![n] = q0]
      /\ proposal' = [proposal EXCEPT ![n] = {}]
      /\ votes' = [votes EXCEPT ![n] = {}]
      /\ halted' = halted \ {n}
      /\ restarted' = restarted \cup {n}
      /\ UNCHANGED <<tree, bExec, committed, signed, backward, cert>>
  BY Zenon DEF Restart
<1>2. bExec[n] \in Blocks /\ Certified(bExec[n])
  BY ZenonT(60) DEF TypeOK, ReplicaInv, Decided, Certified
<1>3. TypeOK'
  BY <1>1, <1>2, Zenon DEF TypeOK, Blocks
<1>4. TreeInv'
  BY <1>1, ZenonT(60) DEF TreeInv, Blocks, Parent, Justify, Ancestry, Certified
<1>5. \A m \in Node :
        /\ Certified(qcHigh'[m]) /\ Certified(bLock'[m])
        /\ m \notin restarted' => bLock'[m] = Genesis \/ qcHigh'[m].height > bLock'[m].height
        /\ qcHigh'[m] \in Ancestry(bLeaf'[m])
        /\ \A b \in proposal'[m] : /\ proposal'[m] = {b}
                                   /\ b # Genesis /\ b.proposer = m /\ cert[b] = {}
                                   /\ \A v \in votes'[m] : b \in signed[v]
  <2> TAKE m \in Node
  <2>1. CASE m = n
    BY <1>1, <1>2, <2>1, Zenon DEF TypeOK
  <2>2. CASE m # n
    <3>1. /\ qcHigh'[m] = qcHigh[m] /\ bLock'[m] = bLock[m] /\ bLeaf'[m] = bLeaf[m]
          /\ proposal'[m] = proposal[m] /\ votes'[m] = votes[m]
          /\ m \notin restarted' => m \notin restarted
      BY <1>1, <2>2, Zenon DEF TypeOK
    <3> QED BY <3>1 DEF ReplicaInv
  <2> QED BY <2>1, <2>2, Zenon
<1>6. ReplicaInv'
  <2>1. \A b : Certified(b)' = Certified(b) /\ Ancestry(b)' = Ancestry(b)
    BY <1>1, Zenon DEF Certified, Ancestry
  <2>2. \A b : Decided(b) => Decided(b)'
    BY <1>1, <2>1, Zenon DEF Decided, IsThreeChain, Blocks, Parent, Justify
  <2>3. \A m \in Node : (bExec[m] = Genesis \/ Decided(bExec[m]))'
    BY <1>1, <2>2, Zenon DEF ReplicaInv
  <2>4. \A m \in Node : (committed[m] = Ancestry(bExec[m]))'
    BY <1>1, Zenon DEF ReplicaInv, Ancestry
  <2>5. \A m \in Node : (Certified(qcHigh[m]) /\ Certified(bLock[m])
                         /\ qcHigh[m] \in Ancestry(bLeaf[m]))'
    BY <1>1, <1>5, Zenon DEF Certified, Ancestry
  <2>6. cert' = cert /\ signed' = signed
    BY <1>1, Zenon
  <2> QED BY <1>5, <2>3, <2>4, <2>5, <2>6 DEF ReplicaInv
<1>7. SignInv'
  <2>1. \A m \in Node \ restarted' : m \in Node \ restarted /\ bLock'[m] = bLock[m]
                                      /\ bVote'[m] = bVote[m]
    BY <1>1, Zenon DEF TypeOK
  <2>2. \A b : Justify(b)' = Justify(b)
    BY <1>1, Zenon DEF Justify
  <2>3. \A m, x, w : KeepsLock(m, x, w) => KeepsLock(m, x, w)'
    BY <1>1, <2>2, Zenon DEF KeepsLock, Certified, Ancestry
  <2>4. UNCHANGED <<signed, cert, backward>> /\ Blocks' = Blocks
    BY <1>1, Zenon DEF Blocks
  <2>5. \A m \in Node \ restarted' :
          /\ \A x \in signed'[m] : /\ (Justify(Justify(x)).height <= bLock[m].height)'
                                   /\ x.proposer = m \/ x.height <= bVote'[m].height
          /\ \A x, y \in signed'[m] :
               x.height = y.height /\ x # y => m \in {x.proposer, y.proposer}
          /\ m \notin backward' =>
               \A x, w \in signed'[m] : /\ x.height = w.height => x = w
                                        /\ x.height < w.height => KeepsLock(m, x, w)'
    <3> TAKE m \in Node \ restarted'
    <3>1. m \in Node \ restarted /\ bLock'[m] = bLock[m] /\ bVote'[m] = bVote[m]
      BY <2>1, Zenon
    <3>2. \A x : (Justify(Justify(x)).height)' = Justify(Justify(x)).height
      BY <2>2, Zenon
    <3>3. /\ \A x \in signed[m] : /\ Justify(Justify(x)).height <= bLock[m].height
                                  /\ x.proposer = m \/ x.height <= bVote[m].height
          /\ \A x, y \in signed[m] :
               x.height = y.height /\ x # y => m \in {x.proposer, y.proposer}
          /\ m \notin backward =>
               \A x, w \in signed[m] : /\ x.height = w.height => x = w
                                       /\ x.height < w.height => KeepsLock(m, x, w)
      BY <3>1, Zenon DEF SignInv
    <3>4. signed'[m] = signed[m] /\ (m \notin backward' => m \notin backward)
      BY <2>4, Zenon
    <3>5. \A x \in signed'[m] : /\ (Justify(Justify(x)).height <= bLock[m].height)'
                                /\ x.proposer = m \/ x.height <= bVote'[m].height
      BY <3>1, <3>2, <3>3, <3>4, Zenon
    <3> QED BY <2>3, <3>3, <3>4, <3>5, Zenon
  <2>6. /\ \A b \in Blocks' : \A m \in cert'[b] : b \in signed'[m]
        /\ \A m \in Node : Genesis \notin signed'[m]
    BY <2>4, Zenon DEF SignInv
  <2> QED BY <2>5, <2>6, Zenon DEF SignInv
<1> QED BY <1>3, <1>4, <1>6, <1>7, Zenon

\* Every step keeps the invariant.
LEMMA NextInv == IInv /\ [Next]_hsvars => IInv'
<1> SUFFICES ASSUME IInv, [Next]_hsvars PROVE IInv'
  BY Zenon
<1>1. ASSUME NEW n \in Proposer, NEW st \in Stamp, OnPropose(n, st) PROVE IInv'
  BY <1>1, ProposeStep, Zenon
<1>2. ASSUME NEW n \in Node, NEW b \in Blocks \ {Genesis}, OnReceiveProposal(n, b) PROVE IInv'
  BY <1>2, ProposalStep, Zenon
<1>3. ASSUME NEW n \in Node, NEW b \in Blocks \ {Genesis}, OnReceiveBlock(n, b) PROVE IInv'
  BY <1>3, BlockStep, Zenon
<1>4. ASSUME NEW n \in Proposer, NEW v \in Node, OnReceiveVote(n, v) PROVE IInv'
  BY <1>4, VoteStep, NodeAssumption, Zenon
<1>5. ASSUME NEW n \in Node, NEW q \in Blocks, OnReceiveNewView(n, q) PROVE IInv'
  BY <1>5, NewViewStep, Zenon
<1>6. ASSUME NEW n \in Node, NEW q \in Blocks, Restart(n, q) PROVE IInv'
  BY <1>6, RestartStep, Zenon
<1>7. CASE UNCHANGED hsvars
  <2>1. TypeOK'
    BY <1>7, Zenon DEF hsvars, IInv, TypeOK, Blocks
  <2>2. TreeInv'
    BY <1>7, ZenonT(60) DEF hsvars, IInv, TreeInv, Certified, Blocks, Parent, Justify, Ancestry
  <2>3. ReplicaInv'
    <3>1. \A b : Certified(b)' = Certified(b) /\ Ancestry(b)' = Ancestry(b)
      BY <1>7, Zenon DEF hsvars, Certified, Ancestry
    <3>2. \A b : Decided(b) => Decided(b)'
      BY <1>7, <3>1, Zenon DEF hsvars, Decided, IsThreeChain, Blocks, Parent, Justify
    <3> QED BY <1>7, <3>1, <3>2, ZenonT(60) DEF hsvars, IInv, ReplicaInv
  <2>4. SignInv'
    <3>1. \A n \in Node : \A x, w \in signed[n] : KeepsLock(n, x, w) => KeepsLock(n, x, w)'
      BY <1>7, Zenon DEF hsvars, KeepsLock, Certified, Justify, Ancestry
    <3>2. \A b : Justify(b)' = Justify(b)
      BY <1>7, Zenon DEF hsvars, Justify
    <3> QED BY <1>7, <3>1, <3>2 DEF hsvars, IInv, SignInv, Blocks
  <2> QED BY <2>1, <2>2, <2>3, <2>4, Zenon DEF IInv
<1> QED BY <1>1, <1>2, <1>3, <1>4, <1>5, <1>6, <1>7, Zenon DEF Next

-----------------------------------------------------------------------------
(* The theorems. *)

\* Every reachable state of the HotStuff core satisfies the inductive invariant:
\* the tree, what each replica holds, and what each signature says about the
\* lock of the node that gave it.
THEOREM Inductive == Spec => []IInv
<1>1. Init => IInv
  BY InitInv, Zenon
<1>2. IInv /\ [Next]_hsvars => IInv'
  BY NextInv, Zenon
<1> QED BY <1>1, <1>2, PTL DEF Spec

\* Every variable keeps its type, and every certificate that OnReceiveVote builds
\* holds the signatures of a majority.
THEOREM TypeCorrect == Spec => []TypeOK
<1>1. IInv => TypeOK
  BY Zenon DEF IInv
<1> QED BY <1>1, Inductive, PTL

\* Of two blocks of one height signed by one node, the node proposed one: the
\* votes cast by OnReceiveProposal never conflict with one another.
THEOREM NoConflictingVotes == Spec => []DoubleVoteIsOwnProposal
<1>1. IInv => DoubleVoteIsOwnProposal
  BY Zenon DEF IInv, SignInv, DoubleVoteIsOwnProposal
<1> QED BY <1>1, Inductive, PTL

\* OnPropose never builds on less than the lock of the node that proposes,
\* although pacemaker.propose does not evaluate CanVote.
THEOREM ProposalKeepsLock == Spec => []OwnProposalKeepsLock
<1>1. IInv => OwnProposalKeepsLock
  BY Zenon DEF IInv, ReplicaInv, OwnProposalKeepsLock
<1> QED BY <1>1, Inductive, PTL

\* The certificate in every block is for an ancestor of the block.
THEOREM CertificateOnBranch == Spec => []JustifyIsAncestor
<1>1. IInv => JustifyIsAncestor
  BY Zenon DEF IInv, TreeInv, JustifyIsAncestor
<1> QED BY <1>1, Inductive, PTL

\* What a node commits is always one branch of the tree, from genesis to bExec.
THEOREM OneBranch == Spec => []CommittedBranch
<1>1. IInv => CommittedBranch
  BY Zenon DEF IInv, ReplicaInv, CommittedBranch
<1> QED BY <1>1, Inductive, PTL

-----------------------------------------------------------------------------
(* Module Consensus: what the lock and commit phases do to the blocks a node *)
(* holds.                                                                    *)

\* A node commits a block only when it locks on the next one, and what it commits
\* extends what it had committed.
LEMMA CommitMoves ==
  ASSUME IInv, NEW n \in Node, NEW q \in Blocks, LockAndCommit(n, q)
  PROVE  /\ bLock'[n] = bLock[n] \/ (bLock'[n] = Justify(q) /\ Justify(q).height > bLock[n].height)
         /\ \/ bExec'[n] = bExec[n] /\ committed'[n] = committed[n]
            \/ /\ bLock'[n] = Justify(q) /\ Justify(q).height > bLock[n].height
               /\ bExec'[n] = Justify(Justify(q)) /\ bExec[n] \in Ancestry(bExec'[n])
               /\ committed[n] \subseteq committed'[n] /\ halted' = halted
         /\ halted \subseteq halted'
         /\ \A m \in Node \ {n} : m \notin halted => m \notin halted'
<1> DEFINE b1 == Justify(q)
           b  == Justify(b1)
<1>1. CASE ~(b1.height > bLock[n].height)
  BY <1>1, Zenon DEF LockAndCommit
<1>2. CASE b1.height > bLock[n].height
  <2>1. bLock' = [bLock EXCEPT ![n] = b1] /\ bLock'[n] = b1
    BY <1>2, Zenon DEF LockAndCommit, IInv, TypeOK
  <2>2. CASE ~IsThreeChain(b, b1, q)
    BY <1>2, <2>1, <2>2, Zenon DEF LockAndCommit
  <2>3. CASE IsThreeChain(b, b1, q) /\ bExec[n] \in Ancestry(b)
    <3>1. committed' = [committed EXCEPT ![n] = @ \cup Ancestry(b)]
          /\ bExec' = [bExec EXCEPT ![n] = b] /\ halted' = halted
      BY <1>2, <2>3, Zenon DEF LockAndCommit, onCommit
    <3>2. committed'[n] = committed[n] \cup Ancestry(b) /\ bExec'[n] = b
      BY <3>1, Zenon DEF IInv, TypeOK
    <3> QED
      BY <1>2, <2>1, <2>3, <3>1, <3>2, Zenon
  <2>4. CASE IsThreeChain(b, b1, q) /\ bExec[n] \notin Ancestry(b)
    BY <1>2, <2>1, <2>4, Zenon DEF LockAndCommit, onCommit
  <2> QED
    BY <2>2, <2>3, <2>4, Zenon
<1> QED
  BY <1>1, <1>2, Zenon

\* Block b is fit to be taken up: of its ancestors only some are missing that Update
\* may do without.
Attached(n, b) == \A a \in Ancestry(b)' : a = b \/ a \in Has(n) \/ Unmissed(n, a)

\* A node takes up block b, moves its certificate to q or leaves it, and runs the
\* lock and commit phases on q.
TakesUp(n, b, q) ==
  /\ Attached(n, b) /\ q \in Ancestry(b)'
  /\ \A x \in Blocks : x \in Blocks' /\ tree'[x] = tree[x]
  /\ LockAndCommit(n, q)
  /\ qcHigh'[n] = qcHigh[n] \/ (qcHigh'[n] = q /\ q.height > qcHigh[n].height)
  /\ qcHigh'[n].height >= q.height
  /\ bLeaf'[n] \in {bLeaf[n], b, qcHigh'[n]}
  /\ known'[n] = Kept(n, known[n] \cup {b})

\* The blocks of such a step, and the order of their heights.
LEMMA TakeUpHeights ==
  ASSUME IInv, IInv', NetTypeOK, NEW n \in Node, NodeHolds(n),
         NEW b \in Blocks', NEW q \in Blocks, TakesUp(n, b, q)
  PROVE  /\ \A x \in Blocks' : x.height \in Nat
         /\ qcHigh'[n] \in Blocks' /\ bLock'[n] \in Blocks' /\ bLeaf'[n] \in Blocks' /\ bExec'[n] \in Blocks'
         /\ qcHigh[n] \in Blocks' /\ bLock[n] \in Blocks' /\ bExec[n] \in Blocks'
         /\ q \in Blocks' /\ Justify(q) \in Blocks' /\ Justify(q) \in Ancestry(b)'
         /\ bExec[n].height <= bExec'[n].height /\ bExec'[n].height <= bLock'[n].height
         /\ qcHigh[n].height <= qcHigh'[n].height
         /\ qcHigh'[n].height <= bLeaf'[n].height
         /\ bExec'[n] # bExec[n] => bExec'[n].height <= qcHigh'[n].height
<1>1. LockAndCommit(n, q) /\ \A x \in Blocks : x \in Blocks' /\ Ancestry(x)' = Ancestry(x)
  BY Zenon DEF TakesUp, Ancestry
<1>2. /\ bLock'[n] = bLock[n] \/ (bLock'[n] = Justify(q) /\ Justify(q).height > bLock[n].height)
      /\ \/ bExec'[n] = bExec[n]
         \/ /\ bLock'[n] = Justify(q) /\ bExec'[n] = Justify(Justify(q))
            /\ bExec[n] \in Ancestry(bExec'[n])
  BY <1>1, CommitMoves, Zenon
<1>3. /\ qcHigh[n] \in Blocks /\ bLock[n] \in Blocks /\ bExec[n] \in Blocks
      /\ \A x \in Blocks : Justify(x) \in Blocks
  BY Zenon DEF IInv, TypeOK, Justify
<1>4. (qcHigh[n] \in Blocks /\ bLock[n] \in Blocks /\ bLeaf[n] \in Blocks /\ bExec[n] \in Blocks)'
  BY Zenon DEF IInv, TypeOK
<1>5. \A x \in Blocks' : x.height \in Nat
  BY Zenon DEF IInv, TypeOK, Block
<1>6. \A x \in Blocks : \A a \in Ancestry(x) : a.height <= x.height /\ Ancestry(a) \subseteq Ancestry(x)
  BY Zenon DEF IInv, TreeInv
<1>7. \A x \in Blocks : Justify(x) \in Ancestry(x)
  <2>1. Justify(Genesis) = Genesis /\ Genesis \in Ancestry(Genesis) /\ Genesis \in Blocks
    BY Zenon DEF IInv, TypeOK, TreeInv
  <2> QED
    BY <2>1, TreeHeights, Zenon DEF IInv
<1>8. Justify(q).height <= q.height /\ Justify(Justify(q)).height <= Justify(q).height
  BY <1>3, <1>6, <1>7, Zenon
<1>9. bExec[n] \in Ancestry(bExec'[n]) /\ bExec'[n] \in Blocks => bExec[n].height <= bExec'[n].height
  BY <1>6, Zenon
<1>10. bExec[n].height <= bLock[n].height
  BY Zenon DEF NodeHolds
<1>11. /\ qcHigh'[n] = qcHigh[n] \/ (qcHigh'[n] = q /\ q.height > qcHigh[n].height)
       /\ qcHigh'[n].height >= q.height
  BY Zenon DEF TakesUp
<1>12. q \in Blocks' /\ qcHigh[n] \in Blocks' /\ bLock[n] \in Blocks' /\ bExec[n] \in Blocks'
       /\ Justify(q) \in Blocks' /\ Justify(Justify(q)) \in Blocks' /\ Justify(Justify(q)) \in Blocks
  BY <1>1, <1>3, Zenon
<1>13. /\ bExec[n].height <= bExec'[n].height /\ bExec'[n].height <= bLock'[n].height
       /\ bExec'[n] # bExec[n] => bExec'[n].height <= q.height
  <2>1. /\ q.height \in Nat /\ bLock[n].height \in Nat /\ bExec[n].height \in Nat
        /\ Justify(q).height \in Nat /\ Justify(Justify(q)).height \in Nat
    BY <1>5, <1>12, Zenon
  <2> QED
    BY <1>2, <1>8, <1>9, <1>10, <1>12, <2>1
<1>14. /\ qcHigh[n].height <= qcHigh'[n].height
       /\ bExec'[n] # bExec[n] => bExec'[n].height <= qcHigh'[n].height
  <2>1. q.height \in Nat /\ qcHigh[n].height \in Nat /\ qcHigh'[n].height \in Nat /\ bExec'[n].height \in Nat
    BY <1>4, <1>5, <1>12, Zenon
  <2> QED
    BY <1>11, <1>13, <2>1
<1>15. qcHigh'[n].height <= bLeaf'[n].height
  <2>1. (qcHigh[n] \in Ancestry(bLeaf[n]))'
    BY Zenon DEF IInv, ReplicaInv
  <2>2. (\A x \in Blocks : \A a \in Ancestry(x) : a.height <= x.height)'
    BY Zenon DEF IInv, TreeInv
  <2> QED
    BY <1>4, <2>1, <2>2, Zenon
<1>16. Justify(q) \in Ancestry(b)'
  <2>1. (\A x \in Blocks : \A a \in Ancestry(x) : Ancestry(a) \subseteq Ancestry(x))'
    BY Zenon DEF IInv, TreeInv
  <2>2. Ancestry(q)' \subseteq Ancestry(b)'
    BY <2>1, Zenon DEF TakesUp
  <2> QED
    BY <1>1, <1>7, <2>2, Zenon
<1> QED
  BY <1>4, <1>5, <1>12, <1>13, <1>14, <1>15, <1>16, Zenon

\* A block that a node may do without stays so.
LEMMA StaysUnmissed ==
  ASSUME NEW n \in Node, NEW a, a.height \in Nat,
         bExec[n].height \in Nat, bExec'[n].height \in Nat,
         qcHigh[n].height \in Nat, qcHigh'[n].height \in Nat,
         bExec[n].height <= bExec'[n].height, qcHigh[n].height <= qcHigh'[n].height
  PROVE  /\ Unmissed(n, a) => Unmissed(n, a)'
         /\ bExec'[n].height <= qcHigh'[n].height /\ ~(a.height >= bExec'[n].height) => Unmissed(n, a)'
         /\ a.height > qcHigh[n].height => ~Unmissed(n, a)
         /\ a.height > bExec[n].height => ~Unmissed(n, a)
BY DEF Unmissed

\* A node that takes up a block goes on to hold what it needs, also when it commits
\* and drops blocks.
LEMMA TakeUp ==
  ASSUME IInv, IInv', NetTypeOK, NEW n \in Node \ halted, NodeHolds(n),
         NEW b \in Blocks', NEW q \in Blocks, TakesUp(n, b, q)
  PROVE  NodeHolds(n)'
<1> DEFINE H == Has(n) \cup {b}
<1>1. /\ \A x \in Blocks' : x.height \in Nat
      /\ qcHigh'[n] \in Blocks' /\ bLock'[n] \in Blocks' /\ bLeaf'[n] \in Blocks' /\ bExec'[n] \in Blocks'
      /\ qcHigh[n] \in Blocks' /\ bLock[n] \in Blocks' /\ bExec[n] \in Blocks'
      /\ q \in Blocks' /\ Justify(q) \in Blocks' /\ Justify(q) \in Ancestry(b)'
      /\ bExec[n].height <= bExec'[n].height /\ bExec'[n].height <= bLock'[n].height
      /\ qcHigh[n].height <= qcHigh'[n].height
      /\ qcHigh'[n].height <= bLeaf'[n].height
      /\ bExec'[n] # bExec[n] => bExec'[n].height <= qcHigh'[n].height
  BY TakeUpHeights, ZenonT(60)
<1>2. \A a \in Blocks' :
        /\ Unmissed(n, a) => Unmissed(n, a)'
        /\ bExec'[n].height <= qcHigh'[n].height /\ ~(a.height >= bExec'[n].height) => Unmissed(n, a)'
        /\ a.height > qcHigh[n].height => ~Unmissed(n, a)
        /\ a.height > bExec[n].height => ~Unmissed(n, a)
  BY <1>1, StaysUnmissed, Zenon
<1>3. /\ bLock'[n] = bLock[n] \/ (bLock'[n] = Justify(q) /\ Justify(q).height > bLock[n].height)
      /\ committed[n] \subseteq committed'[n]
  BY CommitMoves, Zenon DEF TakesUp
<1>4. /\ bExec[n].height <= bLock[n].height /\ HoldsBranches(n)
      /\ {qcHigh[n], bLock[n], bLeaf[n]} \subseteq Has(n)
  BY Zenon DEF NodeHolds
\* No block of H is lost that is as high as what is committed.
<1>5. ASSUME NEW x \in H, bExec'[n] = bExec[n] \/ x.height >= bExec'[n].height
      PROVE  x \in Has(n)'
  <2>1. x \in committed'[n] \/ x \in Kept(n, known[n] \cup {b})
    BY <1>3, <1>5 DEF Kept, Has
  <2> QED
    BY <2>1, Zenon DEF Has, TakesUp
<1>6. HoldsBranches(n)'
  <2> SUFFICES ASSUME NEW x \in known'[n], NEW a \in Ancestry(x)'
               PROVE  a \in Has(n)' \/ Unmissed(n, a)'
    BY Zenon DEF HoldsBranches
  <2>1. x = b \/ x \in known[n]
    BY DEF Kept, TakesUp
  <2>2. known[n] \subseteq Blocks /\ \A y \in Blocks : y \in Blocks' /\ Ancestry(y)' = Ancestry(y)
    BY Zenon DEF NetTypeOK, TakesUp, Ancestry
  <2>3. a \in H \/ Unmissed(n, a)
    <3>1. CASE x = b
      BY <3>1, Zenon DEF Attached, TakesUp
    <3>2. CASE x \in known[n]
      BY <1>4, <2>2, <3>2, Zenon DEF HoldsBranches
    <3> QED
      BY <2>1, <3>1, <3>2, Zenon
  <2>4. a \in Blocks'
    <3>1. x \in Blocks'
      BY <2>1, <2>2, Zenon
    <3> QED
      BY <3>1, Zenon DEF IInv, TypeOK, Ancestry
  <2> QED
    BY <1>1, <1>2, <1>5, <2>3, <2>4, Zenon
<1>7. qcHigh'[n] \in H /\ bLock'[n] \in H /\ bLeaf'[n] \in H
  <2>1. q.height > qcHigh[n].height => q \in H
    BY <1>1, <1>2, Zenon DEF Attached, TakesUp
  <2>2. Justify(q).height > bLock[n].height => Justify(q) \in H
    <3>1. Justify(q).height > bLock[n].height => Justify(q).height > bExec[n].height
      <4>1. Justify(q).height \in Nat /\ bLock[n].height \in Nat /\ bExec[n].height \in Nat
        BY <1>1, Zenon
      <4> QED
        BY <1>4, <4>1
    <3> QED
      BY <1>1, <1>2, <3>1, Zenon DEF Attached, TakesUp
  <2> QED
    BY <1>3, <1>4, <2>1, <2>2, Zenon DEF TakesUp
<1>8. bExec'[n] # bExec[n] =>
         /\ qcHigh'[n].height >= bExec'[n].height /\ bLock'[n].height >= bExec'[n].height
         /\ bLeaf'[n].height >= bExec'[n].height
  <2>1. /\ qcHigh'[n].height \in Nat /\ bLock'[n].height \in Nat
        /\ bLeaf'[n].height \in Nat /\ bExec'[n].height \in Nat
    BY <1>1, Zenon
  <2> QED
    BY <1>1, <2>1
<1> QED
  BY <1>1, <1>5, <1>6, <1>7, <1>8, Zenon DEF NodeHolds

\* A node whose own state does not change holds what it held, while the tree grows.
LEMMA OtherHolds ==
  ASSUME IInv, NetTypeOK, NEW m \in Node, NodeHolds(m), known'[m] = known[m],
         committed'[m] = committed[m], bExec'[m] = bExec[m], bLock'[m] = bLock[m],
         qcHigh'[m] = qcHigh[m], bLeaf'[m] = bLeaf[m], m \notin halted' => m \notin halted,
         \A x \in Blocks : tree'[x] = tree[x]
  PROVE  NodeHolds(m)'
<1>1. \A b \in known[m] : Ancestry(b)' = Ancestry(b)
  BY Zenon DEF NetTypeOK, Ancestry
<1>2. Has(m)' = Has(m)
  BY Zenon DEF Has
<1>3. \A a : Unmissed(m, a) => Unmissed(m, a)'
  BY Zenon DEF Unmissed
<1>4. HoldsBranches(m)'
  BY <1>1, <1>2, <1>3, Zenon DEF HoldsBranches, NodeHolds
<1> QED
  BY <1>2, <1>4, Zenon DEF NodeHolds

\* Of the ancestors of a block that a node holds only some are missing that Update
\* may do without.
LEMMA BranchHeld ==
  ASSUME IInv, ConsInv, NEW n \in Node, NEW b \in Has(n)
  PROVE  \A a \in Ancestry(b) : a \in Has(n) \/ Unmissed(n, a)
<1> TAKE a \in Ancestry(b)
<1>1. CASE b \in known[n]
  BY <1>1, Zenon DEF ConsInv, NodeHolds, HoldsBranches
<1>2. CASE b \in committed[n]
  <2>1. committed[n] = Ancestry(bExec[n]) /\ bExec[n] \in Blocks
    BY Zenon DEF IInv, TypeOK, ReplicaInv
  <2>2. \A c \in Ancestry(bExec[n]) : Ancestry(c) \subseteq Ancestry(bExec[n])
    BY <2>1, Zenon DEF IInv, TreeInv
  <2> QED
    BY <1>2, <2>1, <2>2 DEF Has
<1> QED
  BY <1>1, <1>2, Zenon DEF Has

\* A block whose parent a node holds is fit to be taken up.
LEMMA ParentHeld ==
  ASSUME IInv, ConsInv, NEW n \in Node, NEW b \in Blocks \ {Genesis}, Parent(b) \in Has(n),
         Ancestry(b)' = Ancestry(b)
  PROVE  Attached(n, b)
<1>1. Ancestry(b) = Ancestry(Parent(b)) \cup {b}
  BY Zenon DEF ConsInv, GrownTree
<1>2. \A a \in Ancestry(Parent(b)) : a \in Has(n) \/ Unmissed(n, a)
  BY BranchHeld, Zenon
<1> QED
  BY <1>1, <1>2, Zenon DEF Attached

\* Update on a received block, whether it is voted for or not.
LEMMA UpdateHolds ==
  ASSUME IInv, IInv', ConsInv, NEW n \in Node \ halted, NEW b \in Blocks \ {Genesis},
         Parent(b) \in Has(n), Update(n, b), tree' = tree, SetBlocks(n, {b})
  PROVE  /\ \A m \in Node : NodeHolds(m)'
         /\ known' \in [Node -> SUBSET Blocks] /\ GrownTree'
<1> DEFINE q == Justify(b)
<1>1. q \in Blocks /\ q \in Ancestry(b) /\ Certified(q) /\ b \in Blocks'
      /\ UpdateQCHigh(n, q) /\ LockAndCommit(n, q) /\ qcHigh[n] \in Ancestry(bLeaf[n])
  <2>1. q \in Blocks /\ q \in Ancestry(b)
    BY TreeHeights, Zenon DEF IInv
  <2>2. Certified(q) /\ qcHigh[n] \in Ancestry(bLeaf[n])
    BY Zenon DEF IInv, TreeInv, ReplicaInv
  <2> QED
    BY <2>1, <2>2, Zenon DEF Update, Blocks
<1> HIDE DEF q
<1>2. /\ \A m \in Node \ {n} : qcHigh'[m] = qcHigh[m] /\ bLeaf'[m] = bLeaf[m]
      /\ qcHigh'[n].height >= q.height
  BY <1>1, QCStep, Zenon DEF IInv
<1>3. \A m \in Node \ {n} : bLock'[m] = bLock[m] /\ bExec'[m] = bExec[m] /\ committed'[m] = committed[m]
  BY <1>1, LockStep, Zenon DEF IInv
<1>4. /\ \A x \in Blocks : x \in Blocks' /\ tree'[x] = tree[x] /\ Ancestry(x)' = Ancestry(x)
      /\ \A x \in Blocks : Parent(x)' = Parent(x)
  BY Zenon DEF Blocks, Ancestry, Parent
<1>5. /\ known'[n] = Kept(n, known[n] \cup {b})
      /\ \A m \in Node \ {n} : known'[m] = known[m]
      /\ known' \in [Node -> SUBSET Blocks]
  <2>1. Kept(n, known[n] \cup {b}) \subseteq Blocks
    BY DEF Kept, ConsInv, NetTypeOK
  <2>2. known' = [known EXCEPT ![n] = Kept(n, known[n] \cup {b})]
    BY Zenon DEF SetBlocks
  <2> QED
    BY <2>1, <2>2, Zenon DEF ConsInv, NetTypeOK
<1>6. /\ qcHigh'[n] = qcHigh[n] \/ (qcHigh'[n] = q /\ q.height > qcHigh[n].height)
      /\ bLeaf'[n] \in {bLeaf[n], b, qcHigh'[n]}
  <2>1. CASE q.height > qcHigh[n].height
    <3>1. qcHigh' = [qcHigh EXCEPT ![n] = q] /\ bLeaf' = [bLeaf EXCEPT ![n] = q]
      BY <1>1, <2>1, Zenon DEF UpdateQCHigh
    <3>2. qcHigh'[n] = q /\ bLeaf'[n] = q
      BY <3>1, Zenon DEF IInv, TypeOK
    <3> QED
      BY <2>1, <3>2, Zenon
  <2>2. CASE ~(q.height > qcHigh[n].height)
    BY <1>1, <2>2, Zenon DEF UpdateQCHigh
  <2> QED
    BY <2>1, <2>2, Zenon
<1>7. NodeHolds(n)'
  <2>1. Attached(n, b)
    BY <1>4, ParentHeld, Zenon
  <2>2. q \in Ancestry(b)' /\ NetTypeOK /\ NodeHolds(n)
    BY <1>1, <1>4, Zenon DEF ConsInv
  <2>3. TakesUp(n, b, q)
    BY <1>1, <1>2, <1>4, <1>5, <1>6, <2>1, <2>2, Zenon DEF TakesUp
  <2> QED
    BY <1>1, <2>2, <2>3, TakeUp, Zenon
<1>8. ASSUME NEW m \in Node \ {n}
      PROVE  NodeHolds(m)'
  <2>1. m \notin halted' => m \notin halted
    BY <1>1, CommitMoves, Zenon
  <2>2. NetTypeOK /\ NodeHolds(m)
    BY Zenon DEF ConsInv
  <2> QED
    BY <1>2, <1>3, <1>4, <1>5, <2>1, <2>2, OtherHolds, Zenon
<1>9. GrownTree'
  BY Zenon DEF ConsInv, GrownTree, Blocks, Ancestry, Parent
<1> QED
  BY <1>5, <1>7, <1>8, <1>9, Zenon

\* UpdateOnly runs Update on the block, also when that changes nothing.
LEMMA UpdateOnlyUpdates ==
  ASSUME IInv, NEW n \in Node, NEW b \in Blocks, UpdateOnly(n, b)
  PROVE  /\ n \notin halted /\ Update(n, b)
         /\ UNCHANGED <<tree, bVote, proposal, votes, signed, backward, restarted, cert>>
<1>1. CASE OnReceiveBlock(n, b)
  BY <1>1, Zenon DEF OnReceiveBlock
<1>2. CASE n \notin halted /\ ~Advances(n, b) /\ UNCHANGED hsvars
  <2>1. UpdateQCHigh(n, Justify(b))
    BY <1>2, Zenon DEF UpdateQCHigh, Advances, hsvars
  <2>2. LockAndCommit(n, Justify(b))
    BY <1>2, Zenon DEF LockAndCommit, Advances, hsvars
  <2> QED
    BY <1>2, <2>1, <2>2, Zenon DEF Update, hsvars
<1> QED
  BY <1>1, <1>2, Zenon DEF UpdateOnly

\* ApplyProposal runs Update on the block too.
LEMMA ApplyUpdates ==
  ASSUME IInv, NEW n \in Node, NEW b \in Blocks, ApplyProposal(n, b)
  PROVE  n \notin halted /\ Update(n, b) /\ tree' = tree
<1>1. CASE VerifyProposalToVote(n, b) /\ OnReceiveProposal(n, b)
  BY <1>1, Zenon DEF OnReceiveProposal
<1>2. CASE UpdateOnly(n, b)
  BY <1>2, UpdateOnlyUpdates, Zenon
<1> QED
  BY <1>1, <1>2, Zenon DEF ApplyProposal

-----------------------------------------------------------------------------
(* Every step of the composed system is a step of the core or leaves it alone. *)

\* A block that is handed to Update without a vote.
LEMMA UpdateOnlyIsNext ==
  ASSUME NEW n \in Node, NEW b \in Blocks \ {Genesis}, UpdateOnly(n, b)
  PROVE  [Next]_hsvars
BY Zenon DEF UpdateOnly, Next

\* A proposal that is applied, with or without a vote.
LEMMA ApplyIsNext ==
  ASSUME NEW n \in Node, NEW b \in Blocks \ {Genesis}, ApplyProposal(n, b)
  PROVE  [Next]_hsvars
<1>1. CASE OnReceiveProposal(n, b)
  BY <1>1, Zenon DEF Next
<1>2. CASE UpdateOnly(n, b)
  BY <1>2, UpdateOnlyIsNext, Zenon
<1> QED
  BY <1>1, <1>2, Zenon DEF ApplyProposal

\* The handlers of validator.go, pacemaker.go and rotator.go and a restart.
LEMMA ConsIsNext ==
  ASSUME IInv, ConsInv, [ConsNext]_consvars
  PROVE  [Next]_hsvars
<1>1. CASE \E n \in Proposer, s \in Stamp : OnBeat(n, s)
  BY <1>1, Zenon DEF OnBeat, Next
<1>2. CASE \E n \in Node, b \in Blocks \ {Genesis} : ReceiveProposal(n, b)
  <2>1. PICK n \in Node, b \in Blocks \ {Genesis} : ReceiveProposal(n, b)
    BY <1>2, Zenon
  <2>2. ApplyProposal(n, b) \/ UNCHANGED hsvars
    BY <2>1, Zenon DEF ReceiveProposal
  <2> QED
    BY <2>2, ApplyIsNext, Zenon
<1>3. CASE \E n \in Node, b \in Blocks \ {Genesis} : FetchBlock(n, b)
  <2>1. PICK n \in Node, b \in Blocks \ {Genesis} : UpdateOnly(n, b)
    BY <1>3, Zenon DEF FetchBlock
  <2> QED
    BY <2>1, UpdateOnlyIsNext, Zenon
<1>4. CASE \E n \in Node, b \in Blocks \ {Genesis} : ReceiveNewView(n, b)
  BY <1>4, Zenon DEF ReceiveNewView, Next
<1>5. CASE \E n \in Proposer, v \in Node : ReceiveVote(n, v)
  BY <1>5, Zenon DEF ReceiveVote, Next
<1>6. CASE \E n \in Node : FinishProposal(n)
  <2>1. PICK n \in Node : \E p \in handling[n] : ApplyProposal(n, p)
    BY <1>6, Zenon DEF FinishProposal
  <2>2. handling[n] \subseteq Blocks \ {Genesis}
    BY Zenon DEF ConsInv, NetTypeOK
  <2> QED
    BY <2>1, <2>2, ApplyIsNext, Zenon
<1>7. CASE \E n \in Node : AbandonProposal(n) \/ TimeOut(n) \/ HandleQCEvent(n)
  BY <1>7, Zenon DEF AbandonProposal, TimeOut, HandleQCEvent
<1>8. CASE \E n \in Node : RestartNode(n)
  <2>1. PICK n \in Node : \E q \in Ancestry(bExec[n]) : Restart(n, q)
    BY <1>8, Zenon DEF RestartNode
  <2>2. Ancestry(bExec[n]) \subseteq Blocks
    BY Zenon DEF IInv, TypeOK, Ancestry
  <2> QED
    BY <2>1, <2>2, Zenon DEF Next
<1>9. CASE UNCHANGED consvars
  BY <1>9, Zenon DEF consvars
<1> QED
  BY <1>1, <1>2, <1>3, <1>4, <1>5, <1>6, <1>7, <1>8, <1>9, Zenon DEF ConsNext

-----------------------------------------------------------------------------
(* Every step keeps the blocks that are needed. *)

\* A proposal that is applied, at once or after its ancestors were fetched.
LEMMA ApplyStep ==
  ASSUME IInv, IInv', ConsInv, NEW n \in Node, NEW b \in Blocks \ {Genesis},
         Parent(b) \in Has(n), ApplyProposal(n, b),
         inbox' \in [Node -> SUBSET (Blocks \ {Genesis})],
         handling' \in [Node -> SUBSET (Blocks \ {Genesis})]
  PROVE  ConsInv'
<1>1. n \in Node \ halted /\ Update(n, b) /\ tree' = tree /\ SetBlocks(n, {b})
  BY ApplyUpdates, Zenon DEF ApplyProposal
<1>2. /\ \A m \in Node : NodeHolds(m)'
      /\ known' \in [Node -> SUBSET Blocks] /\ GrownTree'
  BY <1>1, UpdateHolds, Zenon
<1> QED
  BY <1>1, <1>2, Zenon DEF ConsInv, NetTypeOK, Blocks

\* A proposal arrives.
LEMMA ReceiveStep ==
  ASSUME IInv, IInv', ConsInv, NEW n \in Node, NEW b \in Blocks \ {Genesis},
         ReceiveProposal(n, b)
  PROVE  ConsInv'
<1>1. inbox' \in [Node -> SUBSET (Blocks \ {Genesis})]
  <2>1. inbox' = [inbox EXCEPT ![n] = @ \ {b}] /\ inbox \in [Node -> SUBSET (Blocks \ {Genesis})]
    BY Zenon DEF ReceiveProposal, ConsInv, NetTypeOK
  <2>2. inbox[n] \ {b} \in SUBSET (Blocks \ {Genesis})
    BY <2>1, Zenon
  <2> QED
    BY <2>1, <2>2, Zenon
<1>2. CASE Parent(b) \in Has(n)
  <2>1. ApplyProposal(n, b) /\ handling' = handling
    BY <1>2, Zenon DEF ReceiveProposal
  <2>2. handling' \in [Node -> SUBSET (Blocks \ {Genesis})]
    BY <2>1, Zenon DEF ConsInv, NetTypeOK
  <2> QED
    BY <1>1, <1>2, <2>1, <2>2, ApplyStep, Zenon
<1>3. CASE Parent(b) \notin Has(n)
  <2>1. handling' = [handling EXCEPT ![n] = {b}] /\ UNCHANGED <<hsvars, known>>
    BY <1>3, Zenon DEF ReceiveProposal
  <2>2. handling' \in [Node -> SUBSET (Blocks \ {Genesis})]
    BY <2>1, Zenon DEF ConsInv, NetTypeOK
  <2>3. \A m \in Node : NodeHolds(m)'
    BY <2>1, OtherHolds, Zenon DEF ConsInv, hsvars
  <2>4. GrownTree' /\ Blocks' = Blocks
    BY <2>1, Zenon DEF hsvars, ConsInv, GrownTree, Blocks, Ancestry, Parent
  <2> QED
    BY <1>1, <2>1, <2>2, <2>3, <2>4, Zenon DEF ConsInv, NetTypeOK
<1> QED
  BY <1>2, <1>3, Zenon

\* An ancestor is fetched.
LEMMA FetchStep ==
  ASSUME IInv, IInv', ConsInv, NEW n \in Node, NEW a \in Blocks \ {Genesis}, FetchBlock(n, a)
  PROVE  ConsInv'
<1>1. /\ Parent(a) \in Has(n) /\ UpdateOnly(n, a) /\ SetBlocks(n, {a})
      /\ UNCHANGED <<inbox, handling>>
  BY Zenon DEF FetchBlock
<1>2. n \in Node \ halted /\ Update(n, a) /\ tree' = tree
  BY <1>1, UpdateOnlyUpdates, Zenon
<1>3. /\ \A m \in Node : NodeHolds(m)'
      /\ known' \in [Node -> SUBSET Blocks] /\ GrownTree'
  BY <1>1, <1>2, UpdateHolds, Zenon
<1> QED
  BY <1>1, <1>2, <1>3, Zenon DEF ConsInv, NetTypeOK, Blocks

\* A certificate of a block that the node holds, from its own votes or from a new
\* view message.
LEMMA CertificateStep ==
  ASSUME IInv, ConsInv, NEW n \in Node, NEW q \in Has(n), q \in Blocks,
         UpdateQCHigh(n, q) \/ UNCHANGED <<qcHigh, bLeaf>>,
         UNCHANGED <<tree, bLock, bExec, committed, halted, known, inbox, handling>>
  PROVE  ConsInv'
<1>1. ASSUME NEW m \in Node
      PROVE  NodeHolds(m)'
  <2>1. NodeHolds(m) /\ NetTypeOK
    BY Zenon DEF ConsInv
  <2>2. CASE qcHigh'[m] = qcHigh[m] /\ bLeaf'[m] = bLeaf[m]
    BY <2>1, <2>2, OtherHolds, Zenon
  <2>3. CASE m = n /\ qcHigh'[n] = q /\ bLeaf'[n] = q /\ q.height > qcHigh[n].height
    <3>1. q.height \in Nat /\ qcHigh[n].height \in Nat /\ \A x \in Blocks : x.height \in Nat
      BY Heights, Zenon DEF IInv, TypeOK
    <3>2. ASSUME NEW a \in Blocks, Unmissed(n, a)
          PROVE  Unmissed(n, a)'
      BY <2>3, <3>1, <3>2 DEF Unmissed
    <3>3. \A b \in known[n] : b \in Blocks /\ Ancestry(b)' = Ancestry(b) /\ Ancestry(b) \subseteq Blocks
      BY <2>1, Zenon DEF NetTypeOK, Ancestry, IInv, TypeOK
    <3>4. Has(n)' = Has(n)
      BY Zenon DEF Has
    <3>5. HoldsBranches(n)'
      BY <2>1, <2>3, <3>2, <3>3, <3>4, Zenon DEF HoldsBranches, NodeHolds
    <3> QED
      BY <2>1, <2>3, <3>4, <3>5, Zenon DEF NodeHolds
  <2>4. \/ qcHigh'[m] = qcHigh[m] /\ bLeaf'[m] = bLeaf[m]
        \/ m = n /\ qcHigh'[n] = q /\ bLeaf'[n] = q /\ q.height > qcHigh[n].height
    <3>1. CASE UpdateQCHigh(n, q) /\ q.height > qcHigh[n].height
      <4>1. qcHigh' = [qcHigh EXCEPT ![n] = q] /\ bLeaf' = [bLeaf EXCEPT ![n] = q]
        BY <3>1, Zenon DEF UpdateQCHigh
      <4> QED
        BY <3>1, <4>1, Zenon DEF IInv, TypeOK
    <3>2. CASE UNCHANGED <<qcHigh, bLeaf>>
      BY <3>2, Zenon
    <3> QED
      BY <3>1, <3>2, Zenon DEF UpdateQCHigh
  <2> QED
    BY <2>2, <2>3, <2>4, Zenon
<1>2. GrownTree' /\ Blocks' = Blocks
  BY Zenon DEF ConsInv, GrownTree, Blocks, Ancestry, Parent
<1> QED
  BY <1>1, <1>2, Zenon DEF ConsInv, NetTypeOK

\* A vote arrives at the proposer.
LEMMA ReceiveVoteStep ==
  ASSUME IInv, ConsInv, NEW n \in Node, NEW v \in Node, ReceiveVote(n, v)
  PROVE  ConsInv'
<1>1. proposal[n] \subseteq Has(n) /\ OnReceiveVote(n, v) /\ UNCHANGED <<known, inbox, handling>>
  BY Zenon DEF ReceiveVote
<1>2. PICK b \in proposal[n] :
        /\ UpdateQCHigh(n, b) \/ UNCHANGED <<qcHigh, bLeaf>>
        /\ UNCHANGED <<tree, bLock, bExec, committed, halted>>
  BY <1>1, Zenon DEF OnReceiveVote
<1>3. b \in Has(n) /\ b \in Blocks
  BY <1>1, Zenon DEF IInv, TypeOK
<1> QED
  BY <1>1, <1>2, <1>3, CertificateStep, Zenon

\* A new view message arrives.
LEMMA ReceiveNewViewStep ==
  ASSUME IInv, ConsInv, NEW n \in Node, NEW q \in Blocks, ReceiveNewView(n, q)
  PROVE  ConsInv'
BY CertificateStep, Zenon DEF ReceiveNewView, OnReceiveNewView

\* The leader proposes, and may commit while it does.
LEMMA BeatStep ==
  ASSUME IInv, IInv', ConsInv, NEW n \in Proposer, NEW s \in Stamp, OnBeat(n, s)
  PROVE  ConsInv'
<1>0. PICK b : b = NewBlock(n, s)
  BY Zenon
<1>1. /\ OnPropose(n, s) /\ SetBlocks(n, {b}) /\ n \in Node \ halted
      /\ inbox' = [m \in Node |-> IF m = n THEN inbox[m] ELSE inbox[m] \cup {b}]
      /\ handling' = handling
      /\ bLeaf' = [bLeaf EXCEPT ![n] = b] /\ qcHigh' = qcHigh /\ LockAndCommit(n, qcHigh[n])
  <2>1. /\ OnPropose(n, s) /\ SetBlocks(n, {b}) /\ n \in Node
        /\ inbox' = [m \in Node |-> IF m = n THEN inbox[m] ELSE inbox[m] \cup {b}]
        /\ handling' = handling
    BY <1>0, NodeAssumption, Zenon DEF OnBeat
  <2>2. /\ n \notin halted
        /\ bLeaf' = [bLeaf EXCEPT ![n] = b] /\ qcHigh' = qcHigh /\ LockAndCommit(n, qcHigh[n])
    BY <1>0, <2>1, Zenon DEF OnPropose
  <2> QED
    BY <2>1, <2>2, Zenon
<1>2. /\ b # Genesis
      /\ Blocks' = Blocks \cup {b}
      /\ \A x \in Blocks : /\ tree'[x] = tree[x] /\ Parent(x)' = Parent(x)
                           /\ Ancestry(x)' = Ancestry(x)
      /\ Parent(b)' = bLeaf[n]
      /\ Ancestry(b)' = Ancestry(bLeaf[n]) \cup {b}
  BY <1>0, <1>1, ProposeTree, ZenonT(60)
<1>3. /\ qcHigh[n] \in Blocks /\ bLeaf[n] \in Blocks /\ Certified(qcHigh[n])
      /\ qcHigh[n] \in Ancestry(bLeaf[n]) /\ qcHigh[n].height \in Nat
      /\ bLeaf'[n] = b /\ \A m \in Node \ {n} : bLeaf'[m] = bLeaf[m]
  <2>1. qcHigh[n] \in Blocks /\ bLeaf[n] \in Blocks
    BY <1>1, Zenon DEF IInv, TypeOK
  <2>2. Certified(qcHigh[n]) /\ qcHigh[n] \in Ancestry(bLeaf[n])
    BY <1>1, Zenon DEF IInv, ReplicaInv
  <2>3. bLeaf'[n] = b /\ \A m \in Node \ {n} : bLeaf'[m] = bLeaf[m]
    BY <1>1, Zenon DEF IInv, TypeOK
  <2> QED
    BY <2>1, <2>2, <2>3, Heights, Zenon DEF IInv
<1>4. /\ known'[n] = Kept(n, known[n] \cup {b})
      /\ \A m \in Node \ {n} : known'[m] = known[m]
      /\ known' \in [Node -> SUBSET Blocks']
  <2>1. Kept(n, known[n] \cup {b}) \subseteq Blocks'
    BY <1>1, <1>2 DEF Kept, ConsInv, NetTypeOK
  <2>2. known' = [known EXCEPT ![n] = Kept(n, known[n] \cup {b})] /\ known \in [Node -> SUBSET Blocks']
    BY <1>1, <1>2, Zenon DEF SetBlocks, ConsInv, NetTypeOK
  <2> QED
    BY <1>1, <2>1, <2>2, Zenon
<1>5. Attached(n, b)
  <2>1. \A a \in Ancestry(bLeaf[n]) : a \in Has(n) \/ Unmissed(n, a)
    <3>1. bLeaf[n] \in Has(n)
      BY <1>1, Zenon DEF ConsInv, NodeHolds
    <3> QED
      BY <1>1, <3>1, BranchHeld, Zenon
  <2> QED
    BY <1>2, <2>1, Zenon DEF Attached
<1>6. NodeHolds(n)'
  <2>1. qcHigh[n] \in Ancestry(b)' /\ b \in Blocks' /\ NetTypeOK /\ NodeHolds(n)
    BY <1>1, <1>2, <1>3, Zenon DEF ConsInv
  <2>2. qcHigh'[n].height >= qcHigh[n].height
    BY <1>1, <1>3
  <2>3. \A x \in Blocks : x \in Blocks' /\ tree'[x] = tree[x]
    BY <1>2, Zenon
  <2>4. TakesUp(n, b, qcHigh[n])
    BY <1>1, <1>3, <1>4, <1>5, <2>1, <2>2, <2>3, Zenon DEF TakesUp
  <2> QED
    BY <1>1, <1>3, <2>1, <2>4, TakeUp, Zenon
<1>7. ASSUME NEW m \in Node \ {n}
      PROVE  NodeHolds(m)'
  <2>1. /\ m \notin halted' => m \notin halted
        /\ bLock'[m] = bLock[m] /\ bExec'[m] = bExec[m] /\ committed'[m] = committed[m]
    BY <1>1, <1>3, CommitMoves, LockStep, Zenon DEF IInv
  <2>2. NetTypeOK /\ NodeHolds(m)
    BY Zenon DEF ConsInv
  <2> QED
    BY <1>1, <1>2, <1>3, <1>4, <2>1, <2>2, OtherHolds, Zenon
<1>8. GrownTree'
  <2> SUFFICES ASSUME NEW x \in Blocks' \ {Genesis}
               PROVE  (Ancestry(x) = Ancestry(Parent(x)) \cup {x})'
    BY Zenon DEF GrownTree
  <2>1. CASE x = b
    BY <1>2, <1>3, <2>1, Zenon DEF Ancestry
  <2>2. CASE x \in Blocks
    <3>1. Parent(x) \in Blocks /\ Ancestry(x) = Ancestry(Parent(x)) \cup {x}
      BY <2>2, Zenon DEF ConsInv, GrownTree, IInv, TypeOK, Parent
    <3> QED
      BY <1>2, <2>2, <3>1, Zenon DEF Ancestry
  <2> QED
    BY <1>2, <2>1, <2>2, Zenon
<1>9. inbox' \in [Node -> SUBSET (Blocks' \ {Genesis})] /\ handling' \in [Node -> SUBSET (Blocks' \ {Genesis})]
  BY <1>1, <1>2, Zenon DEF ConsInv, NetTypeOK
<1> QED
  BY <1>4, <1>6, <1>7, <1>8, <1>9, Zenon DEF ConsInv, NetTypeOK

\* A node is started again: it holds the blocks it has committed.
LEMMA RestartNodeStep ==
  ASSUME IInv, IInv', ConsInv, NEW n \in Node, RestartNode(n)
  PROVE  ConsInv'
<1>1. PICK q \in Ancestry(bExec[n]) : Restart(n, q)
  BY Zenon DEF RestartNode
<1>2. /\ known' = [known EXCEPT ![n] = {}] /\ handling' = [handling EXCEPT ![n] = {}]
      /\ inbox' = inbox
  BY Zenon DEF RestartNode
<1>3. /\ UNCHANGED <<tree, bExec, committed>> /\ halted' = halted \ {n}
      /\ bLock' = [bLock EXCEPT ![n] = bExec[n]] /\ bLeaf' = [bLeaf EXCEPT ![n] = bExec[n]]
      /\ qcHigh' = [qcHigh EXCEPT ![n] = q]
  BY <1>1, Zenon DEF Restart
<1>4. NodeHolds(n)'
  <2>1. known'[n] = {} /\ bLock'[n] = bExec[n] /\ bLeaf'[n] = bExec[n] /\ qcHigh'[n] = q
    BY <1>2, <1>3, Zenon DEF ConsInv, NetTypeOK, IInv, TypeOK
  <2>2. committed[n] = Ancestry(bExec[n]) /\ bExec[n] \in Blocks /\ bExec[n] \in Ancestry(bExec[n])
    BY Zenon DEF IInv, TypeOK, ReplicaInv, TreeInv
  <2>3. bExec[n].height \in Nat
    BY <2>2, Heights, Zenon DEF IInv
  <2>4. HoldsBranches(n)'
    BY <2>1, Zenon DEF HoldsBranches
  <2>5. {qcHigh'[n], bLock'[n], bLeaf'[n]} \subseteq Has(n)'
    BY <1>3, <2>1, <2>2, Zenon DEF Has
  <2>6. bExec'[n].height <= bLock'[n].height
    BY <1>3, <2>1, <2>3
  <2> QED
    BY <2>4, <2>5, <2>6, Zenon DEF NodeHolds
<1>5. ASSUME NEW m \in Node \ {n}
      PROVE  NodeHolds(m)'
  <2>1. /\ NodeHolds(m) /\ NetTypeOK /\ known'[m] = known[m] /\ bLock'[m] = bLock[m]
        /\ bLeaf'[m] = bLeaf[m] /\ qcHigh'[m] = qcHigh[m] /\ (m \notin halted' => m \notin halted)
    BY <1>2, <1>3, Zenon DEF ConsInv, NetTypeOK, IInv, TypeOK
  <2> QED
    BY <1>3, <2>1, OtherHolds, Zenon
<1>6. NetTypeOK' /\ GrownTree'
  <2>1. known' \in [Node -> SUBSET Blocks] /\ handling' \in [Node -> SUBSET (Blocks \ {Genesis})]
    BY <1>2, Zenon DEF ConsInv, NetTypeOK
  <2> QED
    BY <1>2, <1>3, <2>1, Zenon DEF ConsInv, NetTypeOK, GrownTree, Blocks, Ancestry, Parent
<1> QED
  BY <1>4, <1>5, <1>6, Zenon DEF ConsInv

\* The other steps leave the core and the store alone.
LEMMA QuietStep ==
  ASSUME IInv, ConsInv, UNCHANGED <<hsvars, known, inbox>>,
         handling' \in [Node -> SUBSET (Blocks \ {Genesis})]
  PROVE  ConsInv'
<1>1. UNCHANGED <<tree, bLock, bExec, qcHigh, bLeaf, committed, halted, known, inbox>>
  BY Zenon DEF hsvars
<1>2. \A m \in Node : NodeHolds(m)'
  BY <1>1, OtherHolds, Zenon DEF ConsInv
<1>3. NetTypeOK' /\ GrownTree'
  BY <1>1, Zenon DEF ConsInv, NetTypeOK, GrownTree, Blocks, Ancestry, Parent
<1> QED
  BY <1>2, <1>3, Zenon DEF ConsInv

\* All steps together.
LEMMA ConsStep ==
  ASSUME IInv, IInv', ConsInv, [ConsNext]_consvars
  PROVE  ConsInv'
<1>0. handling \in [Node -> SUBSET (Blocks \ {Genesis})]
  BY Zenon DEF ConsInv, NetTypeOK
<1>1. CASE \E n \in Proposer, s \in Stamp : OnBeat(n, s)
  BY <1>1, BeatStep, Zenon
<1>2. CASE \E n \in Node, b \in Blocks \ {Genesis} :
             ReceiveProposal(n, b) \/ FetchBlock(n, b) \/ ReceiveNewView(n, b)
  BY <1>2, ReceiveStep, FetchStep, ReceiveNewViewStep, Zenon
<1>3. CASE \E n \in Proposer, v \in Node : ReceiveVote(n, v)
  BY <1>3, NodeAssumption, ReceiveVoteStep, Zenon
<1>4. CASE \E n \in Node : FinishProposal(n)
  <2>0. PICK n \in Node : FinishProposal(n)
    BY <1>4, Zenon
  <2>1. PICK p \in handling[n] :
          /\ Parent(p) \in Has(n) /\ ApplyProposal(n, p)
          /\ handling' = [handling EXCEPT ![n] = {}] /\ inbox' = inbox
    BY <2>0, Zenon DEF FinishProposal
  <2>2. p \in Blocks \ {Genesis} /\ handling' \in [Node -> SUBSET (Blocks \ {Genesis})]
    BY <1>0, <2>1, Zenon
  <2>3. inbox' \in [Node -> SUBSET (Blocks \ {Genesis})]
    BY <2>1, Zenon DEF ConsInv, NetTypeOK
  <2> QED
    BY <2>1, <2>2, <2>3, ApplyStep, Zenon
<1>5. CASE \E n \in Node : AbandonProposal(n)
  <2>1. PICK n \in Node : handling' = [handling EXCEPT ![n] = {}] /\ UNCHANGED <<hsvars, known, inbox>>
    BY <1>5, Zenon DEF AbandonProposal
  <2>2. handling' \in [Node -> SUBSET (Blocks \ {Genesis})]
    BY <1>0, <2>1, Zenon
  <2> QED
    BY <2>1, <2>2, QuietStep, Zenon
<1>6. CASE (\E n \in Node : TimeOut(n) \/ HandleQCEvent(n)) \/ UNCHANGED consvars
  <2>1. UNCHANGED <<hsvars, known, inbox, handling>>
    BY <1>6, Zenon DEF TimeOut, HandleQCEvent, consvars, netvars
  <2> QED
    BY <1>0, <2>1, QuietStep, Zenon
<1>7. CASE \E n \in Node : RestartNode(n)
  BY <1>7, RestartNodeStep, Zenon
<1> QED
  BY <1>1, <1>2, <1>3, <1>4, <1>5, <1>6, <1>7, Zenon DEF ConsNext

\* On a fresh chain every node holds genesis (consensus.start).
LEMMA InitCons == ConsInit => IInv /\ ConsInv
<1> SUFFICES ASSUME ConsInit
             PROVE  IInv /\ ConsInv
  OBVIOUS
<1>1. IInv
  BY InitInv, Zenon DEF ConsInit
<1>2. /\ known = [n \in Node |-> {}] /\ inbox = [n \in Node |-> {}]
      /\ handling = [n \in Node |-> {}] /\ Blocks = {Genesis}
      /\ bExec = [n \in Node |-> Genesis] /\ bLock = [n \in Node |-> Genesis]
      /\ qcHigh = [n \in Node |-> Genesis] /\ bLeaf = [n \in Node |-> Genesis]
      /\ committed = [n \in Node |-> {Genesis}]
  BY Zenon DEF ConsInit, Init, Blocks
<1>3. NetTypeOK /\ GrownTree
  BY <1>2, Zenon DEF NetTypeOK, GrownTree
<1>4. Genesis.height <= Genesis.height
  BY DEF Genesis
<1>5. \A n \in Node : NodeHolds(n)
  BY <1>2, <1>4, Zenon DEF NodeHolds, HoldsBranches, Has
<1> QED
  BY <1>1, <1>3, <1>5, Zenon DEF ConsInv

\* The inductive invariant of the consensus package: the one of the core, and that
\* every node holds the blocks that Update compares, whatever it drops in Commit.
THEOREM ConsInvariant == ConsSpec => [](IInv /\ ConsInv)
<1>1. IInv /\ ConsInv /\ [ConsNext]_consvars => (IInv /\ ConsInv)'
  <2> SUFFICES ASSUME IInv, ConsInv, [ConsNext]_consvars
               PROVE  IInv' /\ ConsInv'
    OBVIOUS
  <2>1. [Next]_hsvars
    BY ConsIsNext, Zenon
  <2>2. IInv'
    BY <2>1, NextInv, Zenon
  <2> QED
    BY <2>2, ConsStep, Zenon
<1> QED
  BY <1>1, InitCons, PTL DEF ConsSpec

\* The consensus package implements the HotStuff core: whatever the leaders, the
\* network, fetches, view changes and restarts do, each handler of validator.go,
\* pacemaker.go and rotator.go is a step of the core or leaves it alone.
THEOREM ConsImplementsHotstuff == ConsSpec => Spec
<1>1. ConsInit => Init
  BY Zenon DEF ConsInit
<1>2. (IInv /\ ConsInv) /\ [ConsNext]_consvars => [Next]_hsvars
  BY ConsIsNext, Zenon
<1> QED
  BY <1>1, <1>2, ConsInvariant, PTL DEF ConsSpec, Spec

\* qcHigh, bLock and bLeaf never point at a block that driver.Commit deleted from
\* the state.
THEOREM StoreHoldsHeads == ConsSpec => []HeadsHeld
<1>1. ConsInv => HeadsHeld
  BY Zenon DEF ConsInv, NodeHolds, HeadsHeld
<1> QED
  BY <1>1, ConsInvariant, PTL

\* The parent and the certified block of every block in memory are there, or lie
\* where a comparison with nil comes out the same (state.getBlock, Commit).
THEOREM NothingMissed == ConsSpec => []DroppedUnmissed
<1>1. IInv /\ ConsInv => DroppedUnmissed
  <2> SUFFICES ASSUME IInv, ConsInv, NEW n \in Node, NEW b \in known[n],
                      NEW a \in {Parent(b), Justify(b)}, a \notin Has(n)
               PROVE  a.height < bExec[n].height /\ a.height <= qcHigh[n].height
    BY Zenon DEF DroppedUnmissed
  <2>1. b \in Blocks
    BY Zenon DEF ConsInv, NetTypeOK
  <2>2. a \in Ancestry(b)
    <3>1. CASE b = Genesis
      BY <3>1, Zenon DEF IInv, TreeInv, TypeOK
    <3>2. CASE b # Genesis
      <4>1. Parent(b) \in Ancestry(b)
        BY <2>1, Zenon DEF IInv, TreeInv
      <4>2. Justify(b) \in Ancestry(b)
        BY <2>1, <3>2, TreeHeights, Zenon DEF IInv
      <4> QED
        BY <4>1, <4>2, Zenon
    <3> QED
      BY <3>1, <3>2, Zenon
  <2>3. Unmissed(n, a)
    BY <2>2, Zenon DEF ConsInv, NodeHolds, HoldsBranches
  <2> QED
    BY <2>3, Zenon DEF Unmissed
<1> QED
  BY <1>1, ConsInvariant, PTL

-----------------------------------------------------------------------------
(* Facts about numbers, quorums and certificates. *)

INSTANCE FiniteSetTheorems

\* A nonempty set of naturals has a least element (used to pick the lowest
\* certified block off a decided branch).
LEMMA LeastNatural ==
  ASSUME NEW T \in SUBSET Nat, T # {}
  PROVE  \E x \in T : \A y \in T : x <= y
<1> DEFINE R == {ss \in Nat \X Nat : ss[1] < ss[2]}
<1>1. IsWellFoundedOn(R, Nat)
  BY NatLessThanWellFounded, Zenon DEF OpToRel
<1> HIDE DEF R
<1>2. PICK x \in T : \A y \in T : ~(<<y, x>> \in R)
  BY <1>1, WFMin, Zenon
<1>3. \A y \in T : x <= y
  <2> TAKE y \in T
  <2>1. x \in Nat /\ y \in Nat
    BY Zenon
  <2>2. y < x => <<y, x>> \in R
    BY <2>1, Zenon DEF R
  <2> QED BY <1>2, <2>1, <2>2
<1> QED BY <1>3, Zenon

\* Two certificates share a signer that is not among few others: the majorities
\* count the nodes in both of them twice.
LEMMA SharedSigner ==
  ASSUME NEW S \in SUBSET Node, NEW T \in SUBSET Node, NEW F \in SUBSET Node,
         Cardinality(S) >= MajorityCount, Cardinality(T) >= MajorityCount,
         Cardinality(F) + Cardinality(Node) < 2 * MajorityCount
  PROVE  \E n \in S : n \in T /\ n \notin F
<1>1. IsFiniteSet(S) /\ IsFiniteSet(T) /\ IsFiniteSet(F) /\ IsFiniteSet(S \cap T)
      /\ IsFiniteSet(S \cup T)
  BY NodeAssumption, FS_Subset, Zenon
<1>2. /\ Cardinality(S) \in Nat /\ Cardinality(T) \in Nat /\ Cardinality(Node) \in Nat
      /\ Cardinality(F) \in Nat /\ Cardinality(S \cap T) \in Nat /\ Cardinality(S \cup T) \in Nat
  BY <1>1, NodeAssumption, FS_CardinalityType, Zenon
<1>3. Cardinality(S \cup T) <= Cardinality(Node)
  BY NodeAssumption, FS_Subset, Zenon
<1>4. Cardinality(S \cup T) = Cardinality(S) + Cardinality(T) - Cardinality(S \cap T)
  BY <1>1, FS_Union, Zenon
<1>5. Cardinality(S \cap T) > Cardinality(F)
  BY <1>2, <1>3, <1>4, MajorityAssumption
<1>6. ~(S \cap T \subseteq F)
  BY <1>1, <1>2, <1>5, FS_Subset
<1> QED BY <1>6, Zenon

\* A certificate of a block other than genesis has a majority of signers, and
\* every signer in it signed the block.
LEMMA CertSigners ==
  ASSUME TypeOK, SignInv, NEW b \in Blocks, Certified(b), b # Genesis
  PROVE  /\ cert[b] \in SUBSET Node
         /\ Cardinality(cert[b]) >= MajorityCount
         /\ \A n \in cert[b] : b \in signed[n]
  BY Zenon DEF TypeOK, SignInv, Certified

-----------------------------------------------------------------------------
(* Why the three-chain rule is safe while few nodes are unsteady. *)

\* Two certificates share a steady node, one that signed upwards from the start.
LEMMA SteadySigner ==
  ASSUME IInv, Tolerated, NEW b \in Blocks, NEW c \in Blocks,
         Certified(b), Certified(c), b # Genesis, c # Genesis
  PROVE  \E n \in Node \ restarted : n \notin backward /\ n \in cert[b] /\ n \in cert[c]
<1>1. Unsteady \in SUBSET Node
  BY Zenon DEF IInv, TypeOK, Unsteady
<1>2. \E n \in cert[b] : n \in cert[c] /\ n \notin Unsteady
  BY <1>1, CertSigners, SharedSigner, Zenon DEF IInv, Tolerated
<1>3. cert[b] \subseteq Node
  BY Zenon DEF IInv, TypeOK
<1> QED BY <1>2, <1>3, Zenon DEF Unsteady

\* One height has one certified block.
LEMMA OneCertPerHeight ==
  ASSUME IInv, Tolerated, NEW b \in Blocks, NEW c \in Blocks,
         Certified(b), Certified(c), b.height = c.height
  PROVE  b = c
<1>1. CASE b = Genesis \/ c = Genesis
  BY <1>1, TreeHeights DEF IInv, Genesis
<1>2. CASE b # Genesis /\ c # Genesis
  <2>1. PICK n \in Node \ restarted : n \notin backward /\ n \in cert[b] /\ n \in cert[c]
    BY <1>2, SteadySigner, Zenon
  <2>2. b \in signed[n] /\ c \in signed[n]
    BY <1>2, <2>1, CertSigners, Zenon DEF IInv
  <2> QED BY <2>1, <2>2, Zenon DEF IInv, SignInv
<1> QED BY <1>1, <1>2, Zenon

\* Every certified block at or above the height of a decided block extends it.
LEMMA DecidedBranch ==
  ASSUME IInv, Tolerated, NEW b \in Blocks, Decided(b),
         NEW w0 \in Blocks, Certified(w0), w0.height >= b.height
  PROVE  b \in Ancestry(w0)
<1> DEFINE Off == {w \in Blocks : Certified(w) /\ w.height >= b.height /\ b \notin Ancestry(w)}
<1> SUFFICES ASSUME Off # {} PROVE FALSE
  BY Zenon
<1> USE DEF IInv
<1>1. PICK w \in Off : \A y \in Off : w.height <= y.height
  <2> DEFINE T == {w.height : w \in Off}
  <2>1. T \in SUBSET Nat /\ T # {}
    BY Heights, Zenon
  <2>2. PICK x \in T : \A y \in T : x <= y
    <3> HIDE DEF T
    <3> QED BY <2>1, LeastNatural, Zenon
  <2> QED BY <2>2, Zenon
<1>2. PICK b1 \in Blocks, b2 \in Blocks :
         /\ IsThreeChain(b, b1, b2)
         /\ Justify(b1) = b /\ Justify(b2) = b1
         /\ Certified(b) /\ Certified(b1) /\ Certified(b2)
         /\ b1 # Genesis /\ b2 # Genesis
  BY Zenon DEF Decided
<1>3. b.height \in Nat /\ b1.height = b.height + 1 /\ b2.height = b.height + 2
  BY <1>2, TreeHeights, Heights DEF IsThreeChain
<1>4. b \in Ancestry(b) /\ b \in Ancestry(b1) /\ b \in Ancestry(b2)
  <2>1. b1 \in Ancestry(b2) /\ b \in Ancestry(b1) /\ b \in Ancestry(b)
    BY <1>2, TreeHeights, Zenon DEF TreeInv
  <2> QED BY <2>1, Zenon DEF TreeInv
<1>5. w \in Blocks /\ Certified(w) /\ w.height \in Nat /\ w.height >= b.height /\ b \notin Ancestry(w)
  BY <1>1, Heights, Zenon
<1>6. w.height > b2.height
  <2>1. w.height # b.height /\ w.height # b1.height /\ w.height # b2.height
    BY <1>2, <1>4, <1>5, OneCertPerHeight, Zenon
  <2> QED BY <2>1, <1>3, <1>5
<1>7. w # Genesis
  BY <1>3, <1>6 DEF Genesis
<1>8. PICK n \in Node \ restarted : n \notin backward /\ n \in cert[b2] /\ n \in cert[w]
  BY <1>2, <1>5, <1>7, SteadySigner, Zenon
<1>9. b2 \in signed[n] /\ w \in signed[n]
  BY <1>2, <1>5, <1>7, <1>8, CertSigners, Zenon
<1>10. KeepsLock(n, b2, w)
  BY <1>6, <1>8, <1>9, Zenon DEF SignInv
<1>11. \A a \in Ancestry(w) \ {w} : Certified(a) /\ a.height >= b.height => FALSE
  <2> TAKE a \in Ancestry(w) \ {w}
  <2> HAVE Certified(a) /\ a.height >= b.height
  <2>1. a \in Blocks /\ Ancestry(a) \subseteq Ancestry(w) /\ a.height <= w.height
    BY <1>5, Zenon DEF TreeInv, TypeOK, Ancestry
  <2>2. a.height < w.height
    <3>1. w \in Ancestry(w) /\ a.height # w.height
      BY <1>5, Zenon DEF TreeInv
    <3> QED BY <2>1, <3>1, <1>5, Heights
  <2>3. b \notin Ancestry(a)
    BY <2>1, <1>5, Zenon
  <2>4. a \in Off
    BY <2>1, <2>3, Zenon
  <2> QED BY <1>1, <2>1, <2>2, <2>4, <1>5, Heights
<1>12. CASE Justify(w).height > Justify(Justify(b2)).height
  <2>1. Justify(w) \in Ancestry(w) /\ Justify(w) # w /\ Justify(w).height > b.height
    BY <1>2, <1>5, <1>7, <1>12, TreeHeights
  <2>2. Certified(Justify(w)) /\ Justify(w).height >= b.height
    <3>1. Certified(Justify(w)) /\ Justify(w).height \in Nat
      BY <1>5, <1>7, TreeHeights, Heights, Zenon DEF TreeInv
    <3> QED BY <1>3, <2>1, <3>1
  <2> QED BY <1>11, <2>1, <2>2, Zenon
<1>13. CASE \E l \in Ancestry(w) \ {w} :
              Certified(l) /\ l.height >= Justify(Justify(b2)).height
  BY <1>2, <1>11, <1>13, Zenon
<1> QED BY <1>8, <1>10, <1>12, <1>13, Zenon DEF KeepsLock

\* The inductive invariant gives agreement.
LEMMA InvGivesAgreement == IInv => AgreeWhileTolerated
<1> SUFFICES ASSUME IInv, Tolerated,
                    NEW m \in Node, NEW n \in Node,
                    NEW b \in committed[m], NEW c \in committed[n], b.height = c.height
             PROVE  b = c
  BY Zenon DEF AgreeWhileTolerated, SameHistory
<1>1. /\ committed[m] = Ancestry(bExec[m]) /\ committed[n] = Ancestry(bExec[n])
      /\ bExec[m] \in Blocks /\ bExec[n] \in Blocks
  BY ZenonT(60) DEF IInv, TypeOK, ReplicaInv
<1>2. ASSUME NEW x \in Blocks, NEW y \in Blocks, x.height <= y.height,
             x = Genesis \/ Decided(x), y = Genesis \/ Decided(y)
      PROVE  x \in Ancestry(y)
  <2>1. CASE x = Genesis
    BY <2>1, Zenon DEF IInv, TreeInv
  <2>2. CASE x # Genesis
    <3>1. y # Genesis
      BY <1>2, <2>2, TreeHeights, Heights DEF IInv, Genesis
    <3>2. Decided(x) /\ Certified(y) /\ y.height >= x.height
      BY <1>2, <2>2, <3>1, Heights, Zenon DEF Decided, IInv
    <3> QED BY <3>2, DecidedBranch, Zenon
  <2> QED BY <2>1, <2>2, Zenon
<1>3. bExec[m].height \in Nat /\ bExec[n].height \in Nat
  BY <1>1, Heights, Zenon DEF IInv
<1>4. \/ bExec[m] \in Ancestry(bExec[n])
      \/ bExec[n] \in Ancestry(bExec[m])
  <2>1. /\ bExec[m] = Genesis \/ Decided(bExec[m])
        /\ bExec[n] = Genesis \/ Decided(bExec[n])
    BY Zenon DEF IInv, ReplicaInv
  <2> QED BY <1>1, <1>2, <1>3, <2>1
<1> QED BY <1>1, <1>4 DEF IInv, TreeInv

-----------------------------------------------------------------------------
(* The theorem. *)

\* The three-chain commit rule of Update with the rules of CanVote commits the
\* same block at each height on all nodes, in every run in which the nodes that
\* sign a block not above all they signed before, or that are started again from
\* their storage, are fewer than the overlap of two majorities.
THEOREM Agreement == Spec => []AgreeWhileTolerated
<1>1. IInv => AgreeWhileTolerated
  BY InvGivesAgreement, Zenon
<1> QED BY <1>1, Inductive, PTL

\* So agreement carries over to the composed system, with its leader rotation, its
\* undelivered messages and the blocks its nodes drop.
THEOREM ConsAgreement == ConsSpec => []AgreeWhileTolerated
BY ConsImplementsHotstuff, Agreement, PTL

=============================================================================
