---------------------------- MODULE GenesisProofs ----------------------------
(* Proofs about module Genesis, for any validators and any number of restarts. *)
EXTENDS Genesis, FiniteSetTheorems, TLAPS

USE DEF None

\* A majority is more than one validator (core.MajorityCount).
LEMMA MajorityIsMore == MajorityCount \in Nat /\ MajorityCount > 1
<1>1. Cardinality(Node) \in Nat
  BY NodeAssumption, FS_CardinalityType
<1> QED
  BY <1>1, NodeAssumption DEF MajorityCount

\* So it has a member, ...
LEMMA MajorityIsSome ==
  ASSUME NEW S \in SUBSET Node, Cardinality(S) >= MajorityCount
  PROVE  \E n \in Node : n \in S
<1>1. S = {} => Cardinality(S) = 0
  BY FS_EmptySet, Zenon
<1>2. S # {}
  BY <1>1, MajorityIsMore
<1> QED
  BY <1>2, Zenon

\* ... and no votes are none.
LEMMA TooFew == ~Full(NoVotes)
<1>1. Voters(NoVotes) = {}
  BY DEF Voters, NoVotes
<1>2. Cardinality({}) = 0
  BY FS_EmptySet, Zenon
<1>3. ~(0 >= MajorityCount)
  BY MajorityIsMore
<1> QED
  BY <1>1, <1>2, <1>3, Zenon DEF Full

\* The value of a missing block is none.
LEMMA NoneIsNoBlock == None \notin Block
BY RestartAssumption DEF Block

\* The three kinds of messages are told apart by their fields.
LEMMA Messages ==
  ASSUME TypeOK, NEW n \in Node, NEW b
  PROVE  /\ ProposalTo(n, b) \in inbox => n # Leader /\ b \in Block /\ b \in 1 .. created
         /\ VoteOf(n, b) \in inbox => b \in Block /\ b \in 1 .. created
         /\ NewViewTo(n, b) \in inbox => b \in Block /\ b \in 1 .. created
BY DEF TypeOK, Message, Follower, ProposalTo, VoteOf, NewViewTo

\* A message in the inbox is of one of the kinds.
LEMMA Sendable ==
  ASSUME TypeOK, NEW n \in Node, NEW b \in 1 .. created
  PROVE  /\ n # Leader => ProposalTo(n, b) \in Message
         /\ VoteOf(n, b) \in Message /\ NewViewTo(n, b) \in Message
         /\ ProposalTo(n, b).block = b /\ VoteOf(n, b).block = b /\ NewViewTo(n, b).block = b
<1>1. b \in Block
  BY RestartAssumption DEF TypeOK, Block
<1> QED
  BY <1>1, NodeAssumption DEF Message, Follower, ProposalTo, VoteOf, NewViewTo

\* No node has a block at the start.
LEMMA InitGenesis == Init => GenesisInv
<1> SUFFICES ASSUME Init
             PROVE  GenesisInv
  OBVIOUS
<1>1. TypeOK
  BY RestartAssumption DEF Init, TypeOK, NoVotes
<1>2. OrderInv
  BY NodeAssumption, TooFew DEF Init, OrderInv, NoVotes
<1>3. StartInv
  BY DEF Init, StartInv
<1>4. CertInv
  BY NodeAssumption, RestartAssumption DEF Init, CertInv, Certified, Decided, Block
<1> QED
  BY <1>1, <1>2, <1>3, <1>4 DEF GenesisInv

\* A step that leaves the leader's votes and certificate alone keeps CertInv if it
\* certifies no other block, and a node that has decided has the leader's block.
LEMMA CertKept ==
  ASSUME CertInv, q0' = q0, votes' = votes, created' = created,
         \A b \in Block : Certified(b)' => q0 = b \/ Certified(b),
         \A n \in Node : n \notin overtaken' /\ Decided(n)' => q0 \in Block /\ b0'[n] = q0
  PROVE  CertInv'
<1>1. (q0 # None => Full(votes))' /\ (q0 \in Block => q0 = created)'
  BY DEF CertInv, Full, Voters, Block
<1>2. ASSUME NEW b \in Block, Certified(b)'
      PROVE  q0' = b
  BY <1>2, Zenon DEF CertInv
<1>3. ASSUME NEW n \in Node, n \notin overtaken', Decided(n)'
      PROVE  q0' \in Block /\ b0'[n] = q0'
  BY <1>3, Zenon DEF CertInv
<1> QED
  BY <1>1, <1>2, <1>3, Zenon DEF CertInv, Block, MajorityCount, Full, Voters

\* propose: the leader had no certificate, so nobody has decided.
LEMMA ProposeStep ==
  ASSUME GenesisInv, Propose
  PROVE  GenesisInv'
<1> USE DEF Propose, loops, results, history
<1>0. created + 1 \in Block /\ Leader \in Node /\ created \in Nat
  BY NodeAssumption, RestartAssumption DEF GenesisInv, TypeOK, Block
<1>1. ASSUME NEW m \in inbox', m \notin inbox
      PROVE  m = VoteOf(Leader, created + 1)
  BY <1>1
<1>2. TypeOK'
  <2>1. VoteOf(Leader, created + 1) \in Message /\ VoteOf(Leader, created + 1).block = created + 1
    BY <1>0 DEF VoteOf, Message
  <2>2. \A m \in inbox' : m \in Message /\ m.block \in 1 .. created + 1
    BY <1>0, <1>1, <2>1 DEF GenesisInv, TypeOK
  <2> QED
    BY <1>0, <2>2, RestartAssumption DEF GenesisInv, TypeOK
<1>3. ~Full(votes) /\ ~Full(votes)'
  <2>1. votes = NoVotes /\ votes' = votes
    BY DEF GenesisInv, OrderInv
  <2> QED
    BY <2>1, TooFew, Zenon DEF Full, Voters, MajorityCount
<1>4. OrderInv'
  <2>1. b0'[Leader] = created + 1
    BY <1>0 DEF GenesisInv, TypeOK
  <2>2. ASSUME NEW n \in Node \ fetched', NEW c \in Block, ProposalTo(n, c) \in inbox'
        PROVE  b0'[n] <= c
    <3>1. ProposalTo(n, c) # VoteOf(Leader, created + 1)
      BY DEF ProposalTo, VoteOf
    <3>2. ProposalTo(n, c) \in inbox
      BY <2>2, <3>1, <1>1
    <3>3. n # Leader
      BY <3>2, Messages, Zenon DEF GenesisInv
    <3> QED
      BY <2>2, <3>2, <3>3, <1>0 DEF GenesisInv, TypeOK, OrderInv
  <2> QED
    BY <1>0, <1>3, <2>1, <2>2 DEF OrderInv
<1>5. StartInv'
  BY DEF GenesisInv, StartInv
<1>6. ASSUME CertInv
      PROVE  CertInv'
  <2>1. q0 = None /\ q0' = None /\ ~(q0 \in Block)
    BY <1>3, <1>6, RestartAssumption DEF CertInv, Block
  <2>2. ASSUME NEW n \in Node, NEW c \in Block, NewViewTo(n, c) \in inbox'
        PROVE  NewViewTo(n, c) \in inbox
    <3>1. NewViewTo(n, c) # VoteOf(Leader, created + 1)
      BY DEF NewViewTo, VoteOf
    <3> QED
      BY <2>2, <3>1, <1>1
  <2>3. \A c \in Block : Certified(c)' => Certified(c)
    BY <2>2, Zenon DEF Certified, NewViewTo
  <2>4. \A n \in Node : Decided(n)' => Decided(n)
    BY Zenon DEF Decided
  <2>5. \A c \in Block : ~Certified(c)'
    BY <1>6, <2>1, <2>3, Zenon DEF CertInv
  <2>6. \A n \in Node \ overtaken' : ~Decided(n)'
    BY <1>6, <2>1, <2>4, Zenon DEF CertInv
  <2>7. ~(q0' \in Block)
    BY <2>1, RestartAssumption DEF Block
  <2> QED
    BY <2>1, <2>5, <2>6, <2>7, Zenon DEF CertInv, Block
<1> QED
  BY <1>2, <1>4, <1>5, <1>6, Zenon DEF GenesisInv

\* broadcastProposalLoop sends the leader's last block.
LEMMA BroadcastProposalStep ==
  ASSUME GenesisInv, BroadcastProposal
  PROVE  GenesisInv'
<1> USE DEF BroadcastProposal, loops, results, bounds, history
<1>0. b0[Leader] = created /\ created \in 1 .. created
  BY NodeAssumption DEF GenesisInv, OrderInv, TypeOK
<1>1. ASSUME NEW m \in inbox', m \notin inbox
      PROVE  \E n \in Node \ {Leader} : m = ProposalTo(n, created)
  BY <1>0, <1>1
<1>2. TypeOK'
  <2>1. \A m \in inbox' : m \in Message /\ m.block \in 1 .. created
    BY <1>0, <1>1, Sendable DEF GenesisInv, TypeOK
  <2> QED
    BY <2>1 DEF GenesisInv, TypeOK
<1>3. OrderInv'
  <2>1. ASSUME NEW n \in Node \ fetched', NEW c \in Block, ProposalTo(n, c) \in inbox'
        PROVE  b0'[n] <= c
    <3>1. CASE ProposalTo(n, c) \in inbox
      BY <2>1, <3>1 DEF GenesisInv, OrderInv
    <3>2. CASE ProposalTo(n, c) \notin inbox
      <4>1. PICK k \in Node : ProposalTo(n, c) = ProposalTo(k, created)
        BY <2>1, <3>2, <1>1
      <4>2. c = created
        BY <4>1 DEF ProposalTo
      <4> QED
        BY <4>2, <2>1 DEF GenesisInv, TypeOK
    <3> QED
      BY <3>1, <3>2
  <2> QED
    BY <2>1 DEF GenesisInv, OrderInv, Full, Voters, NoVotes
<1>4. StartInv'
  BY DEF GenesisInv, StartInv
<1>5. ASSUME CertInv
      PROVE  CertInv'
  <2>1. ASSUME NEW n \in Node, NEW b \in Block, NewViewTo(n, b) \in inbox'
        PROVE  NewViewTo(n, b) \in inbox
    <3>1. ASSUME NEW k \in Node
          PROVE  NewViewTo(n, b) # ProposalTo(k, created)
      BY DEF NewViewTo, ProposalTo
    <3> QED
      BY <2>1, <3>1, <1>1
  <2>2. \A b \in Block : Certified(b)' => Certified(b)
    BY <2>1, Zenon DEF Certified, NewViewTo
  <2>3. ASSUME NEW n \in Node, n \notin overtaken', Decided(n)'
        PROVE  q0 \in Block /\ b0'[n] = q0
    BY <1>5, <2>3, Zenon DEF CertInv, Decided
  <2>4. q0' = q0 /\ votes' = votes /\ created' = created
    OBVIOUS
  <2> HIDE DEF BroadcastProposal, BroadcastQC
  <2> QED
    BY <1>5, <2>2, <2>3, <2>4, CertKept, Zenon
<1> QED
  BY <1>2, <1>3, <1>4, <1>5, Zenon DEF GenesisInv

\* broadcastQC sends the leader's certificate.
LEMMA BroadcastQCStep ==
  ASSUME GenesisInv, BroadcastQC
  PROVE  GenesisInv'
<1> USE DEF BroadcastQC, loops, results, bounds, history
<1>0. q0 \in 1 .. created /\ q0 \in Block
  BY RestartAssumption DEF GenesisInv, OrderInv, TypeOK, Block
<1>1. ASSUME NEW m \in inbox', m \notin inbox
      PROVE  \E n \in Node : m = NewViewTo(n, q0)
  BY <1>1
<1>2. TypeOK'
  <2>1. \A m \in inbox' : m \in Message /\ m.block \in 1 .. created
    BY <1>0, <1>1, Sendable DEF GenesisInv, TypeOK
  <2> QED
    BY <2>1 DEF GenesisInv, TypeOK
<1>3. OrderInv'
  <2>1. ASSUME NEW n \in Node \ fetched', NEW c \in Block, ProposalTo(n, c) \in inbox'
        PROVE  ProposalTo(n, c) \in inbox
    <3>1. ASSUME NEW k \in Node
          PROVE  ProposalTo(n, c) # NewViewTo(k, q0)
      BY DEF NewViewTo, ProposalTo
    <3> QED
      BY <2>1, <3>1, <1>1
  <2> QED
    BY <2>1 DEF GenesisInv, OrderInv, Full, Voters, NoVotes
<1>4. StartInv'
  BY DEF GenesisInv, StartInv
<1>5. ASSUME CertInv
      PROVE  CertInv'
  <2>1. ASSUME NEW n \in Node, NEW b \in Block, NewViewTo(n, b) \in inbox'
        PROVE  NewViewTo(n, b) \in inbox \/ q0 = b
    <3>1. ASSUME NEW k \in Node, NewViewTo(n, b) = NewViewTo(k, q0)
          PROVE  q0 = b
      BY <3>1 DEF NewViewTo
    <3> QED
      BY <2>1, <3>1, <1>1
  <2>2. \A b \in Block : Certified(b)' => q0 = b \/ Certified(b)
    BY <2>1, Zenon DEF Certified, NewViewTo
  <2>3. ASSUME NEW n \in Node, n \notin overtaken', Decided(n)'
        PROVE  q0 \in Block /\ b0'[n] = q0
    BY <1>5, <2>3, Zenon DEF CertInv, Decided
  <2>4. q0' = q0 /\ votes' = votes /\ created' = created
    OBVIOUS
  <2> HIDE DEF BroadcastProposal, BroadcastQC
  <2> QED
    BY <1>5, <2>2, <2>3, <2>4, CertKept, Zenon
<1> QED
  BY <1>2, <1>3, <1>4, <1>5, Zenon DEF GenesisInv

\* onReceiveProposal: who has decided has the leader's last block, and gets no other
\* one, unless it fetched the block and is overtaken.
LEMMA ReceiveProposalStep ==
  ASSUME GenesisInv, NEW n \in Node, NEW b \in Block, OnReceiveProposal(n, b)
  PROVE  GenesisInv'
<1> USE DEF OnReceiveProposal, loops, results, bounds
<1>0. n # Leader /\ b \in 1 .. created /\ b \in Nat
  BY Messages DEF GenesisInv
<1>1. ASSUME NEW m \in inbox', m \notin inbox
      PROVE  m = VoteOf(n, b)
  BY <1>1
<1>2. TypeOK'
  <2>1. \A m \in inbox' : m \in Message /\ m.block \in 1 .. created
    BY <1>0, <1>1, Sendable DEF GenesisInv, TypeOK
  <2> QED
    BY <1>0, <2>1 DEF GenesisInv, TypeOK
<1>3. OrderInv'
  <2>1. ASSUME NEW k \in Node \ fetched', NEW c \in Block, ProposalTo(k, c) \in inbox'
        PROVE  b0'[k] <= c
    <3>1. ProposalTo(k, c) # VoteOf(n, b)
      BY DEF ProposalTo, VoteOf
    <3>2. ProposalTo(k, c) \in inbox /\ c \in Nat
      BY <2>1, <1>1, <3>1, RestartAssumption DEF Block
    <3>3. CASE k = n
      <4>1. c \notin 1 .. b
        BY <2>1, <3>1, <3>3
      <4> QED
        BY <1>0, <3>2, <3>3, <4>1, RestartAssumption DEF Block, GenesisInv, TypeOK
    <3>4. CASE k # n
      BY <2>1, <3>2, <3>4 DEF GenesisInv, OrderInv, TypeOK
    <3> QED
      BY <3>3, <3>4
  <2>2. b0'[Leader] = b0[Leader]
    BY <1>0, NodeAssumption DEF GenesisInv, TypeOK
  <2> QED
    BY <2>1, <2>2 DEF GenesisInv, OrderInv, Full, Voters, NoVotes
<1>4. StartInv'
  BY DEF GenesisInv, StartInv
<1>5. ASSUME CertInv
      PROVE  CertInv'
  <2>1. ASSUME NEW k \in Node, NEW c \in Block, NewViewTo(k, c) \in inbox'
        PROVE  NewViewTo(k, c) \in inbox
    <3>1. NewViewTo(k, c) # VoteOf(n, b)
      BY DEF NewViewTo, VoteOf
    <3> QED
      BY <2>1, <3>1, <1>1
  <2>2. overtaken \subseteq overtaken'
    OBVIOUS
  <2>3. \A c \in Block : Certified(c)' => Certified(c)
    BY <2>1, <2>2, Zenon DEF Certified, NewViewTo
  <2>4. ASSUME NEW k \in Node, k \notin overtaken', Decided(k)'
        PROVE  q0 \in Block /\ b0'[k] = q0
    <3>1. k \notin overtaken /\ Decided(k)
      BY <2>2, <2>4, Zenon DEF Decided
    <3>2. q0 \in Block /\ b0[k] = q0 /\ q0 = created
      BY <1>5, <3>1, Zenon DEF CertInv
    <3>3. CASE k = n
      <4>1. n \in fetched => b = b0[n]
        BY <2>4, <3>3
      <4>2. n \notin fetched => b0[n] <= b
        BY DEF GenesisInv, OrderInv
      <4>3. b = b0[n]
        BY <1>0, <3>2, <3>3, <4>1, <4>2 DEF GenesisInv, TypeOK
      <4> QED
        BY <3>2, <3>3, <4>3 DEF GenesisInv, TypeOK
    <3>4. CASE k # n
      BY <3>2, <3>4 DEF GenesisInv, TypeOK
    <3> QED
      BY <3>3, <3>4
  <2>5. q0' = q0 /\ votes' = votes /\ created' = created
    OBVIOUS
  <2> HIDE DEF OnReceiveProposal
  <2> QED
    BY <1>5, <2>3, <2>4, <2>5, CertKept, Zenon
<1> QED
  BY <1>2, <1>3, <1>4, <1>5, Zenon DEF GenesisInv

\* acceptVote: a valid certificate that is not late is of the leader's own block, and
\* is the first one.
LEMMA AcceptVoteStep ==
  ASSUME GenesisInv, NEW n \in Node, NEW b \in Block, AcceptVote(n, b)
  PROVE  GenesisInv'
<1> DEFINE all == [votes EXCEPT ![n] = b]
           valid == Full(all) /\ \A v \in Voters(all) : all[v] = b
<1>0. b \in 1 .. created /\ b \in Nat /\ b # None
  BY Messages DEF AcceptVote, GenesisInv
<1>1. /\ q0' = IF valid THEN b ELSE IF Full(all) THEN Mixed ELSE q0
      /\ late' = (late \/ (valid /\ b # b0[Leader]))
      /\ votes' = all /\ inbox' \subseteq inbox /\ open /\ open' = open
  BY DEF AcceptVote
<1>2. UNCHANGED <<b0, fetching, accepting, closing, done, stored, root, dead, started,
                  created, restarts, fetched, overtaken>> /\ ~Full(votes)
  BY DEF AcceptVote, loops, results
<1>3. Full(votes)' <=> Full(all)
  BY <1>1 DEF Full, Voters
<1>4. Mixed \in Nat /\ Mixed # None /\ Mixed \notin Block
  BY RestartAssumption DEF Mixed, Block
<1>5. all \in [Node -> 0 .. created]
  BY <1>0 DEF GenesisInv, TypeOK
<1>6. valid => Full(all)
  OBVIOUS
<1> HIDE DEF all, valid
<1>7. TypeOK'
  BY <1>0, <1>1, <1>2, <1>5 DEF GenesisInv, TypeOK
<1>8. OrderInv'
  <2>1. Full(votes)' => q0' # None
    BY <1>0, <1>1, <1>3, <1>4
  <2>2. q0' = None => q0 = None
    BY <1>0, <1>1, <1>4
  <2> QED
    BY <1>1, <1>2, <2>1, <2>2 DEF GenesisInv, OrderInv
<1>9. StartInv'
  BY <1>2 DEF GenesisInv, StartInv
<1>10. ASSUME CertInv, ~late'
       PROVE  CertInv'
  <2>1. q0 = None /\ q0 \notin Block
    BY <1>10, <1>2, RestartAssumption DEF CertInv, Block
  <2>2. valid => b = created
    <3>1. valid => b = b0[Leader]
      BY <1>1, <1>10, Zenon
    <3> QED
      BY <1>1, <2>1, <3>1 DEF GenesisInv, OrderInv
  <2>3. \A c \in Block : Certified(c)' => Certified(c)
    BY <1>1, <1>2, Zenon DEF Certified, NewViewTo
  <2>4. \A c \in Block : ~Certified(c)'
    BY <1>10, <2>1, <2>3, Zenon DEF CertInv
  <2>5. \A k \in Node \ overtaken' : ~Decided(k)'
    BY <1>10, <1>2, <2>1, Zenon DEF CertInv, Decided
  <2>6. (q0 # None => Full(votes))' /\ (q0 \in Block => q0 = created)'
    BY <1>1, <1>2, <1>3, <1>4, <1>6, <2>1, <2>2 DEF Block
  <2> QED
    BY <2>4, <2>5, <2>6, Zenon DEF CertInv, Block
<1>11. late => late'
  BY <1>1
<1> QED
  BY <1>7, <1>8, <1>9, <1>10, <1>11, Zenon DEF GenesisInv

\* onReceiveNewView: who compares its block with a certificate finds the leader's.
LEMMA ReceiveNewViewStep ==
  ASSUME GenesisInv, NEW n \in Node, NEW b \in Block, OnReceiveNewView(n, b)
  PROVE  GenesisInv'
<1> USE DEF OnReceiveNewView, results, bounds, history
<1>0. b \in 1 .. created
  BY Messages DEF GenesisInv
<1>1. TypeOK'
  BY <1>0 DEF GenesisInv, TypeOK
<1>2. OrderInv'
  BY DEF GenesisInv, OrderInv, Full, Voters, NoVotes
<1>3. StartInv'
  BY DEF GenesisInv, StartInv
<1>4. ASSUME CertInv
      PROVE  CertInv'
  <2>0. Certified(b)
    BY Zenon DEF Certified
  <2>1. q0 = b
    BY <1>4, <2>0, Zenon DEF CertInv
  <2>2. \A k \in Node : accepting'[k] # None => accepting'[k] = accepting[k] \/ (k = n /\ accepting'[k] = b /\ b0[k] = b)
    BY DEF GenesisInv, TypeOK
  <2>3. ASSUME NEW c \in Block, Certified(c)'
        PROVE  q0 = c \/ Certified(c)
    <3>1. c # None
      BY NoneIsNoBlock, Zenon
    <3>2. \A k \in Node : accepting'[k] = c => accepting[k] = c \/ c = b
      BY <2>2, <3>1
    <3>3. inbox' \subseteq inbox
      OBVIOUS
    <3> QED
      BY <2>1, <2>3, <3>2, <3>3, Zenon DEF Certified, NewViewTo
  <2>4. ASSUME NEW k \in Node, k \notin overtaken', Decided(k)'
        PROVE  q0 \in Block /\ b0'[k] = q0
    <3>1. Decided(k) \/ b0[k] = b
      BY <2>2, <2>4 DEF Decided
    <3> QED
      BY <1>4, <2>1, <2>4, <3>1, Zenon DEF CertInv
  <2>5. q0' = q0 /\ votes' = votes /\ created' = created
    OBVIOUS
  <2> HIDE DEF OnReceiveNewView
  <2> QED
    BY <1>4, <2>3, <2>4, <2>5, CertKept, Zenon
<1> QED
  BY <1>1, <1>2, <1>3, <1>4, Zenon DEF GenesisInv

\* acceptQC: the certificate that a node sets and sends is the leader's.
LEMMA AcceptQCStep ==
  ASSUME GenesisInv, NEW n \in Node, AcceptQC(n)
  PROVE  GenesisInv'
<1> USE DEF AcceptQC, SetAndSend, results, bounds, history
<1> DEFINE b == accepting[n]
<1>0. b \in 1 .. created /\ b \in Block /\ b # None /\ Leader \in Node
  BY NodeAssumption, RestartAssumption DEF GenesisInv, TypeOK, Block
<1>1. ASSUME NEW m \in inbox', m \notin inbox
      PROVE  m = NewViewTo(Leader, b)
  BY <1>1
<1>2. /\ q0' = q0 \/ q0' = b
      /\ \A k \in Node : accepting'[k] # None => accepting'[k] = accepting[k]
      /\ \A k \in Node, loop \in Loops :
           <<k, loop>> \in closing' => <<k, loop>> \in closing \/ k = n
  BY DEF GenesisInv, TypeOK
<1> HIDE DEF b
<1>3. TypeOK'
  <2>1. \A m \in inbox' : m \in Message /\ m.block \in 1 .. created
    BY <1>0, <1>1, Sendable DEF GenesisInv, TypeOK
  <2> QED
    BY <1>0, <1>2, <2>1 DEF GenesisInv, TypeOK
<1>4. OrderInv'
  <2>1. ASSUME NEW k \in Node \ fetched', NEW c \in Block, ProposalTo(k, c) \in inbox'
        PROVE  ProposalTo(k, c) \in inbox
    <3>1. ProposalTo(k, c) # NewViewTo(Leader, b)
      BY DEF ProposalTo, NewViewTo
    <3> QED
      BY <2>1, <3>1, <1>1
  <2>2. q0' = None => q0 = None
    BY <1>0, <1>2
  <2> QED
    BY <2>1, <2>2 DEF GenesisInv, OrderInv, Full, Voters, NoVotes
<1>5. StartInv'
  BY DEF GenesisInv, StartInv
<1>6. ASSUME CertInv
      PROVE  CertInv'
  <2>0. Certified(b)
    BY Zenon DEF Certified, b
  <2>1. q0 = b
    BY <1>0, <1>6, <2>0, Zenon DEF CertInv
  <2>2. ASSUME NEW k \in Node, NEW c \in Block, NewViewTo(k, c) \in inbox'
        PROVE  NewViewTo(k, c) \in inbox \/ q0 = c
    <3>1. NewViewTo(k, c) = NewViewTo(Leader, b) => c = b
      BY DEF NewViewTo
    <3> QED
      BY <2>1, <2>2, <3>1, <1>1
  <2>3. ASSUME NEW c \in Block, Certified(c)'
        PROVE  q0 = c \/ Certified(c)
    <3>1. c # None
      BY NoneIsNoBlock, Zenon
    <3>2. \A k \in Node : accepting'[k] = c => accepting[k] = c
      BY <1>2, <3>1
    <3> QED
      BY <2>2, <2>3, <3>2, Zenon DEF Certified, NewViewTo
  <2>4. ASSUME NEW k \in Node, k \notin overtaken', Decided(k)'
        PROVE  q0 \in Block /\ b0'[k] = q0
    <3>1. Decided(n)
      BY <1>0 DEF Decided, b
    <3>2. Decided(k)
      BY <1>2, <2>4, <3>1 DEF Decided
    <3> QED
      BY <1>6, <2>4, <3>2, Zenon DEF CertInv
  <2>5. q0' = q0 /\ votes' = votes /\ created' = created
    BY <1>2, <2>1
  <2> HIDE DEF AcceptQC
  <2> QED
    BY <1>6, <2>3, <2>4, <2>5, CertKept, Zenon
<1> QED
  BY <1>3, <1>4, <1>5, <1>6, Zenon DEF GenesisInv

\* close(done), by whom has decided.
LEMMA CloseStep ==
  ASSUME GenesisInv, NEW n \in Node, NEW loop \in Loops, Close(n, loop)
  PROVE  GenesisInv'
<1> USE DEF Close, bounds, history
<1>1. inbox' \subseteq inbox
  OBVIOUS
<1>2. TypeOK'
  BY <1>1 DEF GenesisInv, TypeOK
<1>3. OrderInv'
  BY <1>1 DEF GenesisInv, OrderInv, Full, Voters, NoVotes
<1>4. StartInv'
  BY DEF GenesisInv, StartInv
<1>5. ASSUME CertInv
      PROVE  CertInv'
  <2>1. \A c \in Block : Certified(c)' => Certified(c)
    BY <1>1, Zenon DEF Certified, NewViewTo
  <2>2. ASSUME NEW k \in Node, k \notin overtaken', Decided(k)'
        PROVE  q0 \in Block /\ b0'[k] = q0
    <3>1. Decided(k)
      BY <2>2 DEF Decided
    <3> QED
      BY <1>5, <2>2, <3>1, Zenon DEF CertInv
  <2>3. q0' = q0 /\ votes' = votes /\ created' = created
    OBVIOUS
  <2> HIDE DEF Close
  <2> QED
    BY <1>5, <2>1, <2>2, <2>3, CertKept, Zenon
<1> QED
  BY <1>2, <1>3, <1>4, <1>5, Zenon DEF GenesisInv

\* commit and the return of run: a node that is done, and not overtaken, has the
\* leader's block.
LEMMA RunStep ==
  ASSUME GenesisInv, NEW n \in Node, Commit(n) \/ Return(n)
  PROVE  GenesisInv'
<1> USE DEF Commit, Return, loops, bounds, history
<1>0. n \in done
  BY DEF GenesisInv, StartInv
<1>1. TypeOK'
  BY DEF GenesisInv, TypeOK
<1>2. OrderInv'
  BY DEF GenesisInv, OrderInv, Full, Voters, NoVotes
<1>3. StartInv'
  <2>1. \A k \in Node \ {n} : stored'[k] = stored[k] /\ root'[k] = root[k]
    BY DEF GenesisInv, TypeOK
  <2>2. root'[n] # None => stored'[n] # None
    BY DEF GenesisInv, TypeOK, StartInv
  <2> QED
    BY <1>0, <2>1, <2>2 DEF GenesisInv, StartInv
<1>4. ASSUME CertInv
      PROVE  CertInv'
  <2>1. n \notin overtaken => b0[n] = q0
    BY <1>0, <1>4, Zenon DEF CertInv, Decided
  <2>2. ASSUME NEW k \in Node
        PROVE  /\ stored'[k] = stored[k] \/ (k = n /\ stored'[k] = b0[n])
               /\ root'[k] = root[k] \/ (k = n /\ root'[k] = b0[n])
    BY DEF GenesisInv, TypeOK
  <2>3. ASSUME NEW c \in Block, Certified(c)'
        PROVE  q0 = c \/ Certified(c)
    BY <2>1, <2>2, <2>3, Zenon DEF Certified, NewViewTo
  <2>4. ASSUME NEW k \in Node, k \notin overtaken', Decided(k)'
        PROVE  q0 \in Block /\ b0'[k] = q0
    BY <1>4, <2>4, Zenon DEF CertInv, Decided
  <2>5. q0' = q0 /\ votes' = votes /\ created' = created
    OBVIOUS
  <2> HIDE DEF Commit, Return
  <2> QED
    BY <1>4, <2>3, <2>4, <2>5, CertKept, Zenon
<1> QED
  BY <1>1, <1>2, <1>3, <1>4, Zenon DEF GenesisInv

\* Block 1 is committed on the leader's block: nobody has fetched before, so nobody is
\* overtaken.
LEMMA CommitBlock1Step ==
  ASSUME GenesisInv, CommitBlock1
  PROVE  GenesisInv'
<1> USE DEF CommitBlock1, loops, results, bounds, history
<1>1. PICK b \in Block : Cardinality(GoOn(b)) >= MajorityCount /\ started' = b
  OBVIOUS
<1>2. PICK n \in Node : root[n] = b
  <2>1. GoOn(b) \in SUBSET Node /\ \A n \in GoOn(b) : root[n] = b
    BY DEF GoOn
  <2> QED
    BY <1>1, <2>1, MajorityIsSome
<1>3. overtaken = {} /\ b # None
  BY RestartAssumption DEF GenesisInv, StartInv, Block
<1>4. TypeOK'
  BY <1>1, <1>2 DEF GenesisInv, TypeOK
<1>5. OrderInv'
  BY DEF GenesisInv, OrderInv, Full, Voters, NoVotes
<1>6. StartInv'
  BY <1>1, <1>3 DEF GenesisInv, StartInv
<1>7. ASSUME CertInv
      PROVE  CertInv'
  <2>1. Certified(b)
    BY <1>2, <1>3 DEF Certified
  <2>2. ASSUME NEW c \in Block, Certified(c)'
        PROVE  q0 = c \/ Certified(c)
    BY <1>1, <2>1, <2>2, Zenon DEF Certified, NewViewTo
  <2>3. ASSUME NEW k \in Node, k \notin overtaken', Decided(k)'
        PROVE  q0 \in Block /\ b0'[k] = q0
    BY <1>7, <2>3, Zenon DEF CertInv, Decided
  <2>4. q0' = q0 /\ votes' = votes /\ created' = created
    OBVIOUS
  <2> HIDE DEF CommitBlock1
  <2> QED
    BY <1>7, <2>2, <2>3, <2>4, CertKept, Zenon
<1> QED
  BY <1>4, <1>5, <1>6, <1>7, Zenon DEF GenesisInv

\* fetchGenesisBlockAndQC is entered, or fails: nothing of the agreement changes.
LEMMA FetchStep ==
  ASSUME GenesisInv, NEW n \in Node, FetchGenesis(n) \/ FetchFails(n)
  PROVE  GenesisInv'
<1> USE DEF FetchGenesis, FetchFails, results, bounds, history
<1>1. TypeOK' /\ OrderInv'
  <2>1. TypeOK'
    BY DEF GenesisInv, TypeOK
  <2>2. OrderInv'
    BY DEF GenesisInv, OrderInv, Full, Voters, NoVotes
  <2> QED
    BY <2>1, <2>2
<1>2. StartInv'
  BY DEF GenesisInv, StartInv
<1>3. ASSUME CertInv
      PROVE  CertInv'
  <2>1. \A c \in Block : Certified(c)' => Certified(c)
    BY Zenon DEF Certified, NewViewTo
  <2>2. ASSUME NEW k \in Node, k \notin overtaken', Decided(k)'
        PROVE  q0 \in Block /\ b0'[k] = q0
    BY <1>3, <2>2, Zenon DEF CertInv, Decided
  <2>3. q0' = q0 /\ votes' = votes /\ created' = created
    OBVIOUS
  <2> HIDE DEF FetchGenesis, FetchFails
  <2> QED
    BY <1>3, <2>1, <2>2, <2>3, CertKept, Zenon
<1> QED
  BY <1>1, <1>2, <1>3, Zenon DEF GenesisInv

\* fetchGenesisBlockAndQC: the block that a node fetches is the leader's.
LEMMA FetchEndsStep ==
  ASSUME GenesisInv, NEW n \in Node, FetchEnds(n)
  PROVE  GenesisInv'
<1> USE DEF FetchEnds, results, bounds
<1>0. started # None /\ started \in Block /\ started \in 1 .. created
  BY RestartAssumption DEF GenesisInv, StartInv, TypeOK, Block
<1>1. TypeOK'
  BY <1>0 DEF GenesisInv, TypeOK
<1>2. OrderInv'
  <2>1. q0' = None => q0 = None /\ n # Leader
    BY <1>0
  <2>2. \A k \in Node \ {n} : b0'[k] = b0[k]
    BY DEF GenesisInv, TypeOK
  <2> QED
    BY <2>1, <2>2, NodeAssumption DEF GenesisInv, OrderInv, Full, Voters, NoVotes
<1>3. StartInv'
  BY <1>0 DEF GenesisInv, StartInv
<1>4. ASSUME CertInv
      PROVE  CertInv'
  <2>1. q0 = started
    BY <1>0, <1>4, Zenon DEF CertInv, Certified
  <2>2. \A c \in Block : Certified(c)' => Certified(c)
    BY Zenon DEF Certified, NewViewTo
  <2>3. ASSUME NEW k \in Node, k \notin overtaken', Decided(k)'
        PROVE  q0 \in Block /\ b0'[k] = q0
    <3>1. CASE k = n
      BY <1>0, <2>1, <3>1 DEF GenesisInv, TypeOK
    <3>2. CASE k # n
      <4>1. Decided(k) /\ b0'[k] = b0[k]
        BY <2>3, <3>2 DEF Decided, GenesisInv, TypeOK
      <4> QED
        BY <1>4, <2>3, <4>1, Zenon DEF CertInv
    <3> QED
      BY <3>1, <3>2
  <2>4. q0' = q0 /\ votes' = votes /\ created' = created
    BY <2>1
  <2> HIDE DEF FetchEnds
  <2> QED
    BY <1>4, <2>2, <2>3, <2>4, CertKept, Zenon
<1> QED
  BY <1>1, <1>2, <1>3, <1>4, Zenon DEF GenesisInv

\* A process that has not committed restarts: a follower takes nothing with it, and if
\* the leader had a certificate, that is late.
LEMMA RestartStep ==
  ASSUME GenesisInv, NEW n \in Node, Restart(n)
  PROVE  GenesisInv'
<1> USE DEF Restart
<1>0. inbox' \subseteq inbox /\ \A m \in inbox' : m.to # n
  OBVIOUS
<1>1. TypeOK'
  BY <1>0 DEF GenesisInv, TypeOK, NoVotes
<1>2. OrderInv'
  <2>1. n = Leader => votes' = NoVotes /\ ~open' /\ ~Full(votes)'
    <3>1. n = Leader => votes' = NoVotes /\ ~open'
      OBVIOUS
    <3>2. votes' = NoVotes => (Full(votes)' <=> Full(NoVotes))
      BY DEF Full, Voters
    <3> QED
      BY <3>1, <3>2, TooFew, Zenon
  <2>2. ASSUME NEW k \in Node \ fetched', NEW c \in Block, ProposalTo(k, c) \in inbox'
        PROVE  b0'[k] <= c
    <3>1. k # n
      BY <1>0, <2>2 DEF ProposalTo
    <3> QED
      BY <1>0, <2>2, <3>1 DEF GenesisInv, OrderInv, TypeOK
  <2>3. n # Leader => votes' = votes /\ q0' = q0 /\ b0'[Leader] = b0[Leader]
    BY NodeAssumption DEF GenesisInv, TypeOK
  <2>o. n # Leader => (open' <=> open)
    BY Zenon
  <2>4. n # Leader => (Full(votes)' => q0' # None)
    BY <2>3 DEF GenesisInv, OrderInv, Full, Voters
  <2>5. created' = created /\ NoVotes' = NoVotes
    BY DEF NoVotes
  <2> QED
    BY <2>1, <2>2, <2>3, <2>o, <2>4, <2>5 DEF GenesisInv, OrderInv
<1>3. StartInv'
  BY DEF GenesisInv, StartInv
<1>4. ASSUME CertInv, ~late'
      PROVE  CertInv'
  <2>1. ASSUME NEW c \in Block, Certified(c)'
        PROVE  Certified(c)
    <3>1. c # None
      BY NoneIsNoBlock, Zenon
    <3>2. /\ stored[n] = None /\ root[n] = None
          /\ \A k \in Node : accepting'[k] = c => accepting[k] = c
          /\ \A k \in Node \ {n} : k \in overtaken => k \in overtaken'
      BY <3>1 DEF GenesisInv, StartInv, TypeOK
    <3>3. UNCHANGED <<started, stored, root>>
      OBVIOUS
    <3> QED
      BY <2>1, <1>0, <3>1, <3>2, <3>3, Zenon DEF Certified, NewViewTo
  <2>2. ASSUME NEW k \in Node, k \notin overtaken', Decided(k)'
        PROVE  q0 \in Block /\ b0'[k] = q0
    <3>1. k # n
      BY <2>2 DEF Decided, GenesisInv, TypeOK
    <3>2. Decided(k) /\ k \notin overtaken /\ b0'[k] = b0[k]
      BY <2>2, <3>1 DEF Decided, GenesisInv, TypeOK
    <3> QED
      BY <1>4, <3>2, Zenon DEF CertInv
  <2>3. CASE n = Leader
    <3>1. q0 \notin Block /\ q0' = None /\ q0' \notin Block
      <4>1. ~(n = Leader /\ q0 \in Block)
        BY <1>4, Zenon
      <4>2. q0' = None
        BY <2>3, Zenon
      <4> QED BY <2>3, <4>1, <4>2, NoneIsNoBlock, Zenon
    <3>2. \A c \in Block : ~Certified(c)'
      BY <1>4, <2>1, <3>1, Zenon DEF CertInv
    <3>3. \A k \in Node \ overtaken' : ~Decided(k)'
      BY <2>2, <3>1, Zenon
    <3> QED
      BY <3>1, <3>2, <3>3, Zenon DEF CertInv, Block
  <2>4. CASE n # Leader
    <3>1. q0' = q0 /\ votes' = votes /\ created' = created
      BY <2>4
    <3> HIDE DEF Restart
    <3> QED
      BY <1>4, <2>1, <2>2, <3>1, CertKept, Zenon
  <2> QED
    BY <2>3, <2>4
<1>5. late => late'
  OBVIOUS
<1> QED
  BY <1>1, <1>2, <1>3, <1>4, <1>5, Zenon DEF GenesisInv

\* The inductive invariant of the agreement on the genesis block, whatever the order
\* in which messages are handled, whichever goroutine goes first when done is closed,
\* and whichever processes restart (consensus/genesis.go).
THEOREM GenesisInvariant == Spec => []GenesisInv
<1>1. GenesisInv /\ [Next]_vars => GenesisInv'
  <2> SUFFICES ASSUME GenesisInv, [Next]_vars
               PROVE  GenesisInv'
    OBVIOUS
  <2>1. CASE Propose \/ BroadcastProposal \/ BroadcastQC \/ CommitBlock1
    BY <2>1, ProposeStep, BroadcastProposalStep, BroadcastQCStep, CommitBlock1Step, Zenon
  <2>2. CASE \E n \in Node, b \in Block :
               OnReceiveProposal(n, b) \/ AcceptVote(n, b) \/ OnReceiveNewView(n, b)
    BY <2>2, ReceiveProposalStep, AcceptVoteStep, ReceiveNewViewStep, Zenon
  <2>3. CASE \E n \in Node : AcceptQC(n) \/ Commit(n) \/ Return(n)
    BY <2>3, AcceptQCStep, RunStep, Zenon
  <2>4. CASE \E n \in Node : FetchGenesis(n) \/ FetchFails(n) \/ FetchEnds(n) \/ Restart(n)
    BY <2>4, FetchStep, FetchEndsStep, RestartStep, Zenon
  <2>5. CASE \E n \in Node, loop \in Loops : Close(n, loop)
    BY <2>5, CloseStep, Zenon
  <2>6. CASE UNCHANGED vars
    <3> USE <2>6 DEF vars, loops, results, bounds, history
    <3>1. TypeOK' /\ OrderInv' /\ StartInv'
      BY DEF GenesisInv, TypeOK, OrderInv, StartInv, Full, Voters, NoVotes
    <3>2. CertInv => CertInv'
      BY Zenon DEF CertInv, Certified, Decided, NewViewTo, Full, Voters, MajorityCount, Block
    <3> QED
      BY <3>1, <3>2, Zenon DEF GenesisInv
  <2> QED
    BY <2>1, <2>2, <2>3, <2>4, <2>5, <2>6, Zenon DEF Next
<1> QED
  BY <1>1, InitGenesis, PTL DEF Spec

\* Unless a certificate of a former block of the leader is out, or an older proposal overtakes
\* a node that fetched its block, all nodes commit the same genesis block and go on from
\* it, for any number of validators and restarts (acceptVote, onReceiveNewView,
\* acceptQC, fetchGenesisBlockAndQC, commit).
THEOREM SameGenesis == Spec => []AgreedUnlessLate
<1>1. GenesisInv => AgreedUnlessLate
  <2> SUFFICES ASSUME GenesisInv, ~late, NEW n \in Node \ overtaken, NEW m \in Node \ overtaken,
                      stored[n] # None, stored[m] # None
               PROVE  stored[n] = stored[m] /\ root[n] \in {None, stored[m]}
    BY DEF AgreedUnlessLate
  <2>1. stored[n] \in Block /\ stored[m] \in Block /\ (root[n] # None => root[n] \in Block)
    BY RestartAssumption DEF GenesisInv, TypeOK, Block
  <2>2. Certified(stored[n]) /\ Certified(stored[m]) /\ Certified(root[n])
    BY DEF Certified
  <2> QED
    BY <2>1, <2>2 DEF GenesisInv, CertInv
<1> QED
  BY <1>1, GenesisInvariant, PTL

\* Whatever the interleaving of proposalLoop and newViewLoop, only a node that fetched its
\* genesis block closes done twice (acceptQC, fetchGenesisBlockAndQC).
THEOREM OnlyFetchersPanic == Spec => []PanicsFetched
<1>1. Init => PanicInv
  BY DEF Init, PanicInv, PanicsFetched
<1>2. PanicInv /\ [Next]_vars => PanicInv'
  <2> SUFFICES ASSUME PanicInv, [Next]_vars
               PROVE  PanicInv'
    OBVIOUS
  <2> USE DEF PanicInv, PanicsFetched, loops, results, bounds, history
  <2>1. CASE Propose \/ BroadcastProposal \/ BroadcastQC \/ CommitBlock1
    BY <2>1 DEF Propose, BroadcastProposal, BroadcastQC, CommitBlock1
  <2>2. ASSUME NEW n \in Node, NEW b \in Block,
               OnReceiveProposal(n, b) \/ AcceptVote(n, b) \/ OnReceiveNewView(n, b)
        PROVE  PanicInv'
    <3>1. UNCHANGED <<dead, closing, done, fetched>>
      BY <2>2 DEF OnReceiveProposal, AcceptVote, OnReceiveNewView
    <3> QED
      BY <3>1
  <2>3. ASSUME NEW n \in Node, AcceptQC(n)
        PROVE  PanicInv'
    BY <2>3 DEF AcceptQC, SetAndSend
  <2>4. ASSUME NEW n \in Node, \/ Commit(n) \/ Return(n)
                               \/ FetchGenesis(n) \/ FetchFails(n)
        PROVE  PanicInv'
    BY <2>4 DEF Commit, Return, FetchGenesis, FetchFails
  <2>5. ASSUME NEW n \in Node, FetchEnds(n)
        PROVE  PanicInv'
    BY <2>5 DEF FetchEnds
  <2>6. ASSUME NEW n \in Node, Restart(n)
        PROVE  PanicInv'
    BY <2>6 DEF Restart, Loops
  <2>7. ASSUME NEW n \in Node, NEW loop \in Loops, Close(n, loop)
        PROVE  PanicInv'
    <3> USE <2>7 DEF Close
    <3>1. n \in done => n \in fetched
      BY DEF Loops
    <3>2. PanicsFetched'
      BY <3>1
    <3>3. n \notin fetched => loop = "newView"
      BY DEF Loops
    <3>4. ASSUME NEW k \in Node \ fetched'
          PROVE  (<<k, "proposal">> \notin closing /\ (k \in done => <<k, "newView">> \notin closing))'
      BY <3>3
    <3> QED
      BY <3>2, <3>4
  <2>8. CASE UNCHANGED vars
    BY <2>8 DEF vars
  <2> HIDE DEF PanicInv, PanicsFetched
  <2> QED
    BY <2>1, <2>2, <2>3, <2>4, <2>5, <2>6, <2>7, <2>8, Zenon DEF Next
<1>3. PanicInv => PanicsFetched
  BY DEF PanicInv
<1> QED
  BY <1>1, <1>2, <1>3, PTL DEF Spec
=============================================================================
