------------------------------ MODULE Hotstuff ------------------------------
(***************************************************************************)
(* The HotStuff core of every validator: hotstuff/hotstuff.go and          *)
(* hotstuff/state.go, together with the calls that consensus/pacemaker.go  *)
(* and consensus/validator.go make into it while they hold mtxUpdate.      *)
(*                                                                         *)
(* A block is what its hash identifies: its height, its proposer and a     *)
(* stamp that stands for the timestamp, which tells two proposals of one   *)
(* leader at one height apart.  A quorum certificate is named by the block *)
(* it refers to: only the proposer of a block collects its votes, and it   *)
(* builds at most one certificate for it.                                  *)
(*                                                                         *)
(* Who is leader, which messages arrive and which blocks a node has stored *)
(* is left to module Consensus: here any block may be handed to any node,  *)
(* so what holds here holds for every network and every leader rotation.   *)
(***************************************************************************)
EXTENDS Naturals, FiniteSets

CONSTANTS
  Node,          \* the validators
  Proposer,      \* the validators that get to lead in this instance
  MajorityCount, \* driver.MajorityCount()
  Leader0,       \* the proposer of the genesis block
  MaxHeight,     \* bound: no block above this height is proposed
  Retries        \* bound: further proposals of one leader at one height

ASSUME NodeAssumption == IsFiniteSet(Node) /\ Proposer \subseteq Node
ASSUME MajorityAssumption == /\ MajorityCount \in Nat \ {0, 1}
                             /\ 2 * MajorityCount > Cardinality(Node)
ASSUME BoundAssumption == MaxHeight \in Nat /\ Retries \in Nat

Stamp == 0 .. Retries
Block == [height : Nat, proposer : Node \cup {Leader0}, stamp : Stamp]

\* consensus/genesis.go createGenesisBlock: height 0, no certificate.
Genesis == [height |-> 0, proposer |-> Leader0, stamp |-> 0]

VARIABLES
  tree,      \* the blocks created so far, with parent, certificate and ancestry
  bVote, bLock, bExec, qcHigh, bLeaf, \* hotstuff.state, per node
  proposal,  \* state.proposal: the set of at most one block being voted
  votes,     \* state.votes: who voted for it
  committed, \* the blocks the driver has committed
  halted,    \* nodes that ended in log.Fatalf "hotstuff safety breached"
  signed,    \* history: the blocks each node put its signature on
  backward,  \* history: nodes that signed a block no higher than an earlier one
  restarted, \* history: nodes that started again from their storage
  cert       \* history: the signers in the certificate of each block

hsvars == <<tree, bVote, bLock, bExec, qcHigh, bLeaf, proposal, votes,
            committed, halted, signed, backward, restarted, cert>>

Blocks == DOMAIN tree

Parent(b) == tree[b].parent

\* The block a certificate in b refers to.  Genesis has none (nil in the code);
\* pointing it at itself compares like nil, which is below every height.
Justify(b) == tree[b].justify

\* b and its ancestors: following hsBlock.Parent() from b meets exactly these.
Ancestry(b) == tree[b].ancestry

\* A certificate that passes QuorumCert.Validate exists for b.
Certified(b) == b = Genesis \/ cert[b] # {}

-----------------------------------------------------------------------------
(* The voting rules. *)

\* Walk the parents of b down to the height of bLock, looking for bLock.
CheckSafetyRule(n, b) == bLock[n] \in Ancestry(b)

CheckLivenessRule(n, b) == Justify(b).height > bLock[n].height

\* Mutant: a second vote at the height of the last one is let through.
CanVoteSameHeight(n, b) ==
  /\ b.height >= bVote[n].height
  /\ CheckSafetyRule(n, b) \/ CheckLivenessRule(n, b)

CanVote(n, b) ==
  /\ b.height > bVote[n].height
  /\ CheckSafetyRule(n, b) \/ CheckLivenessRule(n, b)

\* A node puts its signature on a block: block.Vote(signer), or signing its
\* own proposal, whose signature is also its vote (block.ProposerVote).
Sign(n, b) ==
  /\ signed' = [signed EXCEPT ![n] = @ \cup {b}]
  /\ backward' = IF \E x \in signed[n] : x.height >= b.height
                 THEN backward \cup {n} ELSE backward

-----------------------------------------------------------------------------
(* Update, from UpdateQCHigh to onCommit. *)

\* Mutant: qcHigh moves without bLeaf.
UpdateQCHighOnly(n, q) ==
  IF q.height > qcHigh[n].height
  THEN qcHigh' = [qcHigh EXCEPT ![n] = q] /\ UNCHANGED bLeaf
  ELSE UNCHANGED <<qcHigh, bLeaf>>

\* UpdateQCHigh(qc) with the certificate of q.
UpdateQCHigh(n, q) ==
  IF q.height > qcHigh[n].height
  THEN /\ qcHigh' = [qcHigh EXCEPT ![n] = q]
       /\ bLeaf' = [bLeaf EXCEPT ![n] = q]
  ELSE UNCHANGED <<qcHigh, bLeaf>>

IsThreeChain(b, b1, b2) == b1 = Parent(b2) /\ b = Parent(b1)

\* Mutant: the parents of the block are not committed first.
onCommitAlone(n, b) ==
  IF bExec[n] \in Ancestry(b)
  THEN /\ committed' = [committed EXCEPT ![n] = @ \cup {b}]
       /\ bExec' = [bExec EXCEPT ![n] = b]
       /\ UNCHANGED halted
  ELSE /\ halted' = halted \cup {n}
       /\ UNCHANGED <<committed, bExec>>

\* onCommit(b); setBExec(b).  The recursion reaches the block of b's branch at
\* the height of bExec before anything is committed: if that is not bExec the
\* process exits, otherwise the blocks above bExec are committed in order.
onCommit(n, b) ==
  IF bExec[n] \in Ancestry(b)
  THEN /\ committed' = [committed EXCEPT ![n] = @ \cup Ancestry(b)]
       /\ bExec' = [bExec EXCEPT ![n] = b]
       /\ UNCHANGED halted
  ELSE /\ halted' = halted \cup {n}
       /\ UNCHANGED <<committed, bExec>>

\* Mutant: a block is committed as soon as it has a certificate.
LockAndCommitEarly(n, b2) ==
  /\ bLock' = [bLock EXCEPT ![n] = IF Justify(b2).height > @.height THEN Justify(b2) ELSE @]
  /\ IF b2.height > bExec[n].height THEN onCommit(n, b2)
     ELSE UNCHANGED <<bExec, committed, halted>>

\* The commit and decide phases of Update for a block whose certificate is b2's.
LockAndCommit(n, b2) ==
  LET b1 == Justify(b2)
      b  == Justify(b1)
  IN IF b1.height > bLock[n].height
     THEN /\ bLock' = [bLock EXCEPT ![n] = b1]
          /\ IF IsThreeChain(b, b1, b2) THEN onCommit(n, b)
             ELSE UNCHANGED <<bExec, committed, halted>>
     ELSE UNCHANGED <<bLock, bExec, committed, halted>>

Update(n, b) == UpdateQCHigh(n, Justify(b)) /\ LockAndCommit(n, Justify(b))

-----------------------------------------------------------------------------
(* The handlers. *)

\* driver.CreateLeaf(bLeaf, qcHigh, bLeaf.Height()+1).
NewBlock(n, s) == [height |-> bLeaf[n].height + 1, proposer |-> n, stamp |-> s]

\* pacemaker.propose: OnPropose, the proposer's own vote, Update.  Neither
\* CanVote nor bVote is involved.  In Update the certificate is qcHigh itself,
\* so only the lock and commit phases can change anything.
OnPropose(n, s) ==
  LET bNew == NewBlock(n, s)
      node == [parent   |-> bLeaf[n],
               justify  |-> qcHigh[n],
               ancestry |-> Ancestry(bLeaf[n]) \cup {bNew}]
  IN /\ n \notin halted
     /\ bLeaf[n].height < MaxHeight
     /\ bNew \notin Blocks
     /\ \A t \in Stamp : t < s => [bNew EXCEPT !.stamp = t] \in Blocks  \* time goes on
     /\ tree' = [x \in Blocks \cup {bNew} |-> IF x = bNew THEN node ELSE tree[x]]
     /\ cert' = [x \in Blocks \cup {bNew} |-> IF x = bNew THEN {} ELSE cert[x]]
     /\ bLeaf' = [bLeaf EXCEPT ![n] = bNew]
     /\ proposal' = [proposal EXCEPT ![n] = {bNew}]
     /\ votes' = [votes EXCEPT ![n] = {n}]
     /\ Sign(n, bNew)
     /\ LockAndCommit(n, qcHigh[n])
     /\ UNCHANGED <<bVote, qcHigh, restarted>>

\* validator.updateHotstuff for a proposal that passed verifyProposalToVote and
\* that CanVote accepts.
OnReceiveProposal(n, b) ==
  /\ n \notin halted
  /\ b.proposer # n
  /\ CanVote(n, b)
  /\ Sign(n, b)
  /\ bVote' = [bVote EXCEPT ![n] = b]
  /\ Update(n, b)
  /\ UNCHANGED <<tree, proposal, votes, restarted, cert>>

\* Update on b gets past one of the two height comparisons it starts with.
Advances(n, b) ==
  \/ Justify(b).height > qcHigh[n].height
  \/ Justify(Justify(b)).height > bLock[n].height

\* validator.updateHotstuff for a block that is not voted: fetched while catching
\* up, or a proposal that verifyProposalToVote or CanVote rejected.
OnReceiveBlock(n, b) ==
  /\ n \notin halted
  /\ Advances(n, b)
  /\ Update(n, b)
  /\ UNCHANGED <<tree, bVote, proposal, votes, signed, backward, restarted, cert>>

\* Mutant: the certificate is built from the votes read before addVote.
OnReceiveVoteStale(n, v) ==
  \E b \in proposal[n] :
    /\ n \notin halted
    /\ b \in signed[v]
    /\ v \notin votes[n]
    /\ LET all == votes[n] \cup {v}
       IN IF Cardinality(all) >= MajorityCount
          THEN /\ cert' = [cert EXCEPT ![b] = votes[n]]
               /\ proposal' = [proposal EXCEPT ![n] = {}]
               /\ votes' = [votes EXCEPT ![n] = {}]
               /\ UpdateQCHigh(n, b)
          ELSE /\ votes' = [votes EXCEPT ![n] = all]
               /\ UNCHANGED <<cert, proposal, qcHigh, bLeaf>>
    /\ UNCHANGED <<tree, bVote, bLock, bExec, committed, halted, signed, backward,
                   restarted>>

\* OnReceiveVote: addVote, and the certificate once the majority is reached.
OnReceiveVote(n, v) ==
  \E b \in proposal[n] :
    /\ n \notin halted
    /\ b \in signed[v]
    /\ v \notin votes[n]
    /\ LET all == votes[n] \cup {v}
       IN IF Cardinality(all) >= MajorityCount
          THEN /\ cert' = [cert EXCEPT ![b] = all]
               /\ proposal' = [proposal EXCEPT ![n] = {}]
               /\ votes' = [votes EXCEPT ![n] = {}]
               /\ UpdateQCHigh(n, b)
          ELSE /\ votes' = [votes EXCEPT ![n] = all]
               /\ UNCHANGED <<cert, proposal, qcHigh, bLeaf>>
    /\ UNCHANGED <<tree, bVote, bLock, bExec, committed, halted, signed, backward,
                   restarted>>

\* Mutant: the certificate is not validated.
OnReceiveNewViewUnchecked(n, q) ==
  /\ n \notin halted
  /\ q.height > qcHigh[n].height
  /\ UpdateQCHigh(n, q)
  /\ UNCHANGED <<tree, bVote, bLock, bExec, proposal, votes, committed, halted,
                 signed, backward, restarted, cert>>

\* validator.onReceiveNewView: a certificate sent by a node that changed view.
OnReceiveNewView(n, q) ==
  /\ n \notin halted
  /\ Certified(q)
  /\ q.height > qcHigh[n].height
  /\ UpdateQCHigh(n, q)
  /\ UNCHANGED <<tree, bVote, bLock, bExec, proposal, votes, committed, halted,
                 signed, backward, restarted, cert>>

\* The process ends and consensus.start sets up a new core: the last committed
\* block is the only one it knows of, and what was voted, locked and proposed is
\* forgotten.  The stored certificate q0 is that of the last committed block for
\* which the rotator had recorded one in time.
Restart(n, q0) ==
  /\ q0 \in Ancestry(bExec[n]) /\ Certified(q0)
  /\ bVote' = [bVote EXCEPT ![n] = bExec[n]]
  /\ bLock' = [bLock EXCEPT ![n] = bExec[n]]
  /\ bLeaf' = [bLeaf EXCEPT ![n] = bExec[n]]
  /\ qcHigh' = [qcHigh EXCEPT ![n] = q0]
  /\ proposal' = [proposal EXCEPT ![n] = {}]
  /\ votes' = [votes EXCEPT ![n] = {}]
  /\ halted' = halted \ {n}
  /\ restarted' = restarted \cup {n}
  /\ UNCHANGED <<tree, bExec, committed, signed, backward, cert>>

-----------------------------------------------------------------------------
Init ==
  /\ tree = [x \in {Genesis} |-> [parent   |-> Genesis,
                                  justify  |-> Genesis,
                                  ancestry |-> {Genesis}]]
  /\ bVote  = [n \in Node |-> Genesis]
  /\ bLock  = [n \in Node |-> Genesis]
  /\ bExec  = [n \in Node |-> Genesis]
  /\ qcHigh = [n \in Node |-> Genesis]
  /\ bLeaf  = [n \in Node |-> Genesis]
  /\ proposal = [n \in Node |-> {}]
  /\ votes = [n \in Node |-> {}]
  /\ committed = [n \in Node |-> {Genesis}]
  /\ halted = {}
  /\ signed = [n \in Node |-> {}]
  /\ backward = {}
  /\ restarted = {}
  /\ cert = [x \in {Genesis} |-> {}]

Next ==
  \/ \E n \in Proposer, s \in Stamp : OnPropose(n, s)
  \/ \E n \in Node, b \in Blocks \ {Genesis} :
       OnReceiveProposal(n, b) \/ OnReceiveBlock(n, b)
  \/ \E n \in Proposer, v \in Node : OnReceiveVote(n, v)
  \/ \E n \in Node, q \in Blocks : OnReceiveNewView(n, q) \/ Restart(n, q)

Spec == Init /\ [][Next]_hsvars

-----------------------------------------------------------------------------
(* Properties. *)

\* Every variable has its type; a certificate is empty (none was built) or holds
\* the signatures of a majority, as QuorumCert.Validate asks of it.
TypeOK ==
  /\ Blocks \subseteq Block /\ Genesis \in Blocks
  /\ \A b \in Blocks : tree[b] \in [parent : Blocks, justify : Blocks, ancestry : SUBSET Blocks]
  /\ bVote \in [Node -> Blocks]
  /\ bLock \in [Node -> Blocks]
  /\ bExec \in [Node -> Blocks]
  /\ qcHigh \in [Node -> Blocks]
  /\ bLeaf \in [Node -> Blocks]
  /\ proposal \in [Node -> SUBSET Blocks]
  /\ votes \in [Node -> SUBSET Node]
  /\ committed \in [Node -> SUBSET Blocks]
  /\ halted \subseteq Node
  /\ signed \in [Node -> SUBSET Blocks]
  /\ backward \subseteq Node /\ restarted \subseteq Node
  /\ cert \in [Blocks -> SUBSET Node]
  /\ \A b \in Blocks : cert[b] = {} \/ Cardinality(cert[b]) >= MajorityCount

\* README.md: the same history of blocks is committed on all nodes.
SameHistory ==
  \A m, n \in Node : \A b \in committed[m], c \in committed[n] :
    b.height = c.height => b = c

\* The nodes whose signatures may break the rules of CanVote taken together: a
\* leader's own proposals are signed unseen (pacemaker.propose), and a node that
\* started again has forgotten what it voted for and was locked on (newState).
Unsteady == backward \cup restarted

\* So few are unsteady that any two majorities share a node that is not.
Tolerated == Cardinality(Unsteady) + Cardinality(Node) < 2 * MajorityCount

\* The three-chain rule with the vote and lock rules of CanVote keeps the
\* histories of all nodes the same, those of unsteady nodes included, as long as
\* the unsteady ones are so few.  With 3f+1 validators they may be f.
AgreeWhileTolerated == Tolerated => SameHistory

\* A node that signed two blocks of one height proposed one of them, or it was
\* started again: the votes that OnReceiveProposal casts never contradict each
\* other.
DoubleVoteIsOwnProposal ==
  \A n \in Node \ restarted : \A x, y \in signed[n] :
    x.height = y.height /\ x # y => n \in {x.proposer, y.proposer}

\* A leader that proposes on its highest certificate keeps its own lock rule
\* although pacemaker.propose never evaluates it: the certificate is above the
\* lock, and the new block extends the certified block.  A node that was started
\* again may have its lock above its certificate.
OwnProposalKeepsLock ==
  \A n \in Node :
    /\ n \notin restarted => bLock[n] = Genesis \/ qcHigh[n].height > bLock[n].height
    /\ qcHigh[n] \in Ancestry(bLeaf[n])

\* The certificate in a block is for one of its ancestors.  No validation of a
\* received block checks this; OnPropose must never build another one.
JustifyIsAncestor ==
  \A b \in Blocks \ {Genesis} : Justify(b) \in Ancestry(Parent(b)) /\ Certified(Justify(b))

\* What a node has committed is one branch from genesis to bExec, even when
\* Update is handed certificates of conflicting branches: onCommit exits before
\* it commits a block off the branch.
CommittedBranch ==
  \A n \in Node : committed[n] = Ancestry(bExec[n])

-----------------------------------------------------------------------------
(* The inductive invariant behind the properties above. *)

\* The ancestries make the blocks a tree, and certificates point up it.
TreeInv ==
  /\ Parent(Genesis) = Genesis /\ Justify(Genesis) = Genesis
  /\ Ancestry(Genesis) = {Genesis}
  /\ \A b \in Blocks :
       /\ {b, Genesis, Parent(b)} \subseteq Ancestry(b)
       /\ \A a \in Ancestry(b) : Ancestry(a) \subseteq Ancestry(b)
       /\ \A a, c \in Ancestry(b) : a.height = c.height => a = c
       /\ \A a \in Ancestry(b) : a.height <= b.height
       /\ b # Genesis => /\ b.height = Parent(b).height + 1
                         /\ Justify(b) \in Ancestry(Parent(b))
                         /\ Certified(Justify(b))

\* b heads three blocks, each the parent of the next and its certificate, all
\* three certified: what Update needs to commit b.
Decided(b) ==
  \E b1, b2 \in Blocks :
    /\ IsThreeChain(b, b1, b2)
    /\ Justify(b1) = b /\ Justify(b2) = b1
    /\ Certified(b) /\ Certified(b1) /\ Certified(b2)
    /\ b1 # Genesis /\ b2 # Genesis

ReplicaInv ==
  \A n \in Node :
    /\ Certified(qcHigh[n])
    /\ Certified(bLock[n])
    /\ n \notin restarted => bLock[n] = Genesis \/ qcHigh[n].height > bLock[n].height
    /\ qcHigh[n] \in Ancestry(bLeaf[n])
    /\ committed[n] = Ancestry(bExec[n])
    /\ bExec[n] = Genesis \/ Decided(bExec[n])
    /\ \A b \in proposal[n] : /\ proposal[n] = {b}
                              /\ b # Genesis /\ b.proposer = n /\ cert[b] = {}
                              /\ \A v \in votes[n] : b \in signed[v]

\* What a signature on w by n says about an earlier signature on x: w's
\* certificate, or a certified proper ancestor of w, is as high as the lock that
\* x brought.  Signatures given after w was certified say nothing.
KeepsLock(n, x, w) ==
  \/ cert[w] # {} /\ n \notin cert[w]
  \/ Justify(w).height > Justify(Justify(x)).height
  \/ \E l \in Ancestry(w) \ {w} :
       Certified(l) /\ l.height >= Justify(Justify(x)).height

SignInv ==
  /\ \A b \in Blocks : \A n \in cert[b] : b \in signed[n]
  /\ \A n \in Node : Genesis \notin signed[n]
  /\ \A n \in Node \ restarted :
       /\ \A x \in signed[n] : /\ Justify(Justify(x)).height <= bLock[n].height
                               /\ x.proposer = n \/ x.height <= bVote[n].height
       /\ \A x, y \in signed[n] :
            x.height = y.height /\ x # y => n \in {x.proposer, y.proposer}
       /\ n \notin backward =>
            \A x, w \in signed[n] :
              /\ x.height = w.height => x = w
              /\ x.height < w.height => KeepsLock(n, x, w)

IInv == TypeOK /\ TreeInv /\ ReplicaInv /\ SignInv

=============================================================================
