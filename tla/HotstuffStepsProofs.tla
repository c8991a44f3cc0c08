------------------------ MODULE HotstuffStepsProofs -------------------------
(***************************************************************************)
(* Proofs about the goroutines of module HotstuffSteps: what pMtx keeps    *)
(* together in every interleaving, and what holds until two calls overlap. *)
(***************************************************************************)
EXTENDS HotstuffSteps, FiniteSetTheorems, TLAPS

BaseInv == TypeOK /\ NamesInv /\ VotesInv

-----------------------------------------------------------------------------
(* Facts about the tree, the locals of a thread and the votes. *)

\* Appending a block leaves the others where they are.
LEMMA TreeGrows ==
  ASSUME TypeOK, NEW r \in Block, tree' = Append(tree, r)
  PROVE  /\ tree' \in Seq(Block) /\ Len(tree') = Len(tree) + 1 /\ Len(tree) \in Nat
         /\ \A b \in Blocks : tree'[b] = tree[b]
         /\ tree'[Len(tree) + 1] = r
         /\ Blocks \subseteq Blocks' /\ Blocks' = Blocks \cup {Len(tree) + 1}
  BY DEF TypeOK, Blocks

\* A leaf is a block.
LEMMA LeafIsBlock ==
  ASSUME TypeOK, NEW p \in Blocks, NEW q \in QC, NEW u \in Voter
  PROVE  /\ Leaf(p, q, u) \in Block
         /\ Leaf(p, q, u).qc = q /\ Leaf(p, q, u).parent = p /\ Leaf(p, q, u).proposer = u
         /\ Leaf(p, q, u).height = tree[p].height + 1
         /\ Leaf(p, q, u).branch = tree[p].branch \cup {Len(tree) + 1}
<1>1. tree[p] \in Block /\ Len(tree) \in Nat
  BY DEF TypeOK, Blocks
<1> QED BY <1>1 DEF Leaf, Block, Blocks

\* A block of the tree.
LEMMA Known ==
  ASSUME TypeOK, NEW b \in Blocks
  PROVE  tree[b] \in Block /\ tree[b].qc \in QC /\ tree[b].height \in Nat /\ b \in Nat \ {0}
<1>1. Len(tree) \in Nat /\ tree[b] \in Block
  BY DEF TypeOK, Blocks
<1>2. b \in Nat \ {0}
  BY <1>1 DEF Blocks
<1> QED BY <1>1, <1>2, Zenon DEF Block

\* One more vote of a voter that has not voted for the same block.
LEMMA OneMoreVote ==
  ASSUME VotesInv, NEW v \in Vote, v.block = proposal, \A w \in votes : w.voter # v.voter
  PROVE  /\ IsFiniteSet(votes \cup {v}) /\ OneBlock(votes \cup {v})
         /\ \A w \in votes \cup {v} : w.block = proposal
         /\ Cardinality(votes) \in Nat
         /\ Cardinality(votes \cup {v}) = Cardinality(votes) + 1
<1>1. v \notin votes
  BY Zenon
<1>2. IsFiniteSet(votes \cup {v}) /\ Cardinality(votes \cup {v}) = Cardinality(votes) + 1
  BY <1>1, FS_AddElement, Zenon DEF VotesInv
<1>3. Cardinality(votes) \in Nat
  BY FS_CardinalityType, Zenon DEF VotesInv
<1> QED BY <1>2, <1>3, Zenon DEF VotesInv, OneBlock

\* A thread that goes on keeps its locals.
LEMMA GoesOn ==
  ASSUME TypeOK, NEW t \in Thread, NEW x \in PC, Goto(t, x)
  PROVE  /\ thread' \in [Thread -> Local]
         /\ \A u \in Thread : /\ thread'[u].pc = IF u = t THEN x ELSE thread[u].pc
                              /\ thread'[u].block = thread[u].block
                              /\ thread'[u].qc = thread[u].qc
                              /\ thread'[u].votes = thread[u].votes
  BY Zenon DEF TypeOK, Goto, Local

\* A thread that returns is idle, or compares the certificate of the proposal.
LEMMA Returns ==
  ASSUME TypeOK, NamesInv, NEW t \in Thread, Return(t)
  PROVE  /\ thread' \in [Thread -> Local]
         /\ \A u \in Thread \ {t} : thread'[u] = thread[u]
         /\ thread'[t].pc = (IF thread[t].block = 0 THEN "idle" ELSE "compare")
         /\ thread'[t].qc = (IF thread[t].block = 0 THEN NilQC ELSE tree[thread[t].block].qc)
         /\ thread'[t].block = 0 /\ thread'[t].votes = {}
<1>1. thread[t] \in Local /\ NilQC \in QC
  BY Zenon DEF TypeOK, NilQC, QC
<1>2. thread[t].block # 0 => tree[thread[t].block].qc \in QC
  BY Known, Zenon DEF NamesInv, ThreadNames
<1> QED BY <1>1, <1>2, Zenon DEF Return, Idle, TypeOK, Local, PC

-----------------------------------------------------------------------------
(* What holds in every interleaving: one step per action. *)

\* The initial state.
LEMMA InitBase == Init => BaseInv
<1> SUFFICES ASSUME Init PROVE BaseInv
  BY Zenon
<1>1. PICK p \in Voter :
        tree = <<[height |-> 0, parent |-> 0, branch |-> {1}, qc |-> NilQC, proposer |-> p]>>
  BY Zenon DEF Init
<1>2. NilQC \in QC /\ NilQC.block = 0 /\ Idle \in Local
  BY Zenon DEF NilQC, QC, Idle, Local, PC
<1>3. /\ tree \in Seq(Block) /\ Len(tree) = 1 /\ Blocks = {1}
      /\ tree[1].branch = {1} /\ tree[1].qc = NilQC
  BY <1>1, <1>2 DEF Block, Blocks
<1>4. TypeOK
  <2>1. thread \in [Thread -> Local] /\ qcHigh \in QC
    BY <1>2, StepsAssumption, Zenon DEF Init, QC
  <2>2. overlapped \in BOOLEAN
    BY Zenon DEF Init
  <2> QED BY <1>3, <2>1, <2>2 DEF Init, TypeOK
<1>5. NamesInv
  BY <1>2, <1>3, Zenon DEF Init, NamesInv, TreeNames, ThreadNames, Idle, Thread, Proposing
<1>6. VotesInv
  BY FS_EmptySet, Zenon DEF Init, VotesInv, OneBlock, Idle
<1> QED BY <1>4, <1>5, <1>6, Zenon DEF BaseInv

\* A step of a thread that changes nothing but where it is.
LEMMA GotoBase ==
  ASSUME BaseInv, NEW t \in Thread, NEW x \in PC, Goto(t, x), overlapped' \in BOOLEAN,
         UNCHANGED <<tree, shared>>,
         x \in Proposing => thread[t].block # 0,
         x \in {"setQCHigh", "setBLeaf"} => thread[t].qc.block # 0,
         t = "newView" => x \in {"idle", "compare", "setQCHigh", "setBLeaf"}
  PROVE  BaseInv'
<1>1. TypeOK /\ NamesInv /\ VotesInv /\ Blocks' = Blocks
  BY Zenon DEF BaseInv, Blocks
<1>2. TypeOK'
  BY <1>1, GoesOn, Zenon DEF TypeOK, shared
<1>3. NamesInv'
  <2>1. TreeNames'
    BY <1>1, Zenon DEF NamesInv, TreeNames, shared
  <2>2. ASSUME NEW u \in Thread PROVE ThreadNames(u)'
    BY <1>1, GoesOn DEF NamesInv, ThreadNames
  <2> QED BY <2>1, <2>2, Zenon DEF NamesInv
<1>4. VotesInv'
  BY <1>1, GoesOn DEF VotesInv, shared, OneBlock
<1> QED BY <1>2, <1>3, <1>4, Zenon DEF BaseInv

\* A step with which a thread returns.
LEMMA ReturnBase ==
  ASSUME BaseInv, NEW t \in Thread, Return(t), overlapped' \in BOOLEAN,
         UNCHANGED <<tree, shared>>
  PROVE  BaseInv'
<1>1. TypeOK /\ NamesInv /\ VotesInv /\ Blocks' = Blocks
  BY Zenon DEF BaseInv, Blocks
<1>2. TypeOK'
  BY <1>1, Returns, Zenon DEF TypeOK, shared
<1>3. NamesInv'
  <2>1. TreeNames'
    BY <1>1, Zenon DEF NamesInv, TreeNames, shared
  <2>2. ASSUME NEW u \in Thread PROVE ThreadNames(u)'
    <3>1. CASE u # t
      BY <1>1, <3>1, Returns, SMTT(60) DEF NamesInv, ThreadNames
    <3>2. CASE u = t
      BY <1>1, <3>2, Returns DEF NamesInv, ThreadNames, TreeNames, NilQC, Proposing
    <3> QED BY <3>1, <3>2, Zenon
  <2> QED BY <2>1, <2>2, Zenon DEF NamesInv
<1>4. VotesInv'
  BY <1>1, Returns, FS_EmptySet DEF VotesInv, shared, OneBlock
<1> QED BY <1>2, <1>3, <1>4, Zenon DEF BaseInv

\* The locals of one thread are replaced by ones that name blocks of the tree.
LEMMA LocalBase ==
  ASSUME BaseInv, NEW t \in Thread, NEW l \in Local, thread' = [thread EXCEPT ![t] = l],
         \A b \in Blocks : b \in Blocks',
         l.block \in Blocks' \cup {0}, l.qc.block \in Blocks' \cup {0},
         \A v \in l.votes : v.block \in Blocks',
         l.pc \in {"setQCHigh", "setBLeaf"} => l.qc.block # 0,
         l.pc \in Proposing => l.block # 0,
         l.block # 0 => t = "update",
         t = "newView" => l.pc \in {"idle", "compare", "setQCHigh", "setBLeaf"},
         IsFiniteSet(l.votes), OneBlock(l.votes)
  PROVE  /\ thread' \in [Thread -> Local]
         /\ \A u \in Thread : ThreadNames(u)'
         /\ \A u \in Thread : IsFiniteSet(thread'[u].votes) /\ OneBlock(thread'[u].votes)
<1>1. thread' \in [Thread -> Local] /\ thread'[t] = l /\ \A u \in Thread \ {t} : thread'[u] = thread[u]
  BY Zenon DEF BaseInv, TypeOK
<1>2. ASSUME NEW u \in Thread
      PROVE  ThreadNames(u)' /\ IsFiniteSet(thread'[u].votes) /\ OneBlock(thread'[u].votes)
  <2>1. CASE u = t
    BY <1>1, <2>1, Zenon DEF ThreadNames
  <2>2. CASE u # t
    BY <1>1, <2>2, Zenon DEF BaseInv, NamesInv, ThreadNames, VotesInv
  <2> QED BY <2>1, <2>2, Zenon
<1> QED BY <1>1, <1>2, Zenon

\* A new block, on a known parent and with a known certificate.
LEMMA AppendBase ==
  ASSUME BaseInv, NEW p \in Blocks, NEW q \in QC, q.block \in Blocks \cup {0}, NEW u \in Voter,
         tree' = Append(tree, Leaf(p, q, u)), UNCHANGED shared
  PROVE  /\ tree' \in Seq(Block) /\ Len(tree') >= 1
         /\ \A b \in Blocks : b \in Blocks'
         /\ Len(tree) + 1 \in Blocks' /\ Len(tree) + 1 \in Nat \ {0}
         /\ TreeNames'
<1>1. TypeOK /\ TreeNames /\ Len(tree) \in Nat /\ Len(tree) >= 1
  BY DEF BaseInv, NamesInv, TypeOK
<1> DEFINE r == Leaf(p, q, u)
<1>2. /\ r \in Block /\ r.qc = q /\ r.parent = p /\ r.branch = tree[p].branch \cup {Len(tree) + 1}
  BY <1>1, LeafIsBlock
<1> HIDE DEF r
<1>3. tree' = Append(tree, r)
  BY Zenon DEF r
<1>4. /\ tree' \in Seq(Block) /\ Len(tree') = Len(tree) + 1
      /\ \A b \in Blocks : tree'[b] = tree[b]
      /\ tree'[Len(tree) + 1] = r
      /\ Blocks' = Blocks \cup {Len(tree) + 1}
  BY <1>1, <1>2, <1>3, TreeGrows, Zenon
<1>5. ASSUME NEW b \in Blocks'
      PROVE  /\ b \in tree'[b].branch /\ tree'[b].qc.block \in Blocks' \cup {0}
             /\ b # 1 => tree'[b].parent \in Blocks'
  <2>1. CASE b \in Blocks
    BY <1>1, <1>4, <2>1, Zenon DEF TreeNames
  <2>2. CASE b = Len(tree) + 1
    BY <1>2, <1>4, <2>2, Zenon
  <2> QED BY <1>4, <2>1, <2>2, Zenon
<1>6. TreeNames'
  BY <1>1, <1>4, <1>5, Zenon DEF TreeNames, shared
<1> QED BY <1>1, <1>4, <1>6

\* addVote, by either thread.
LEMMA AddVoteBase ==
  ASSUME BaseInv, NEW t \in Thread, NEW v \in Vote, v.block \in Blocks, AddVote(t, v),
         t # "newView", overlapped' \in BOOLEAN
  PROVE  BaseInv'
<1>1. TypeOK /\ NamesInv /\ VotesInv /\ Blocks' = Blocks
  BY Zenon DEF BaseInv, Blocks, AddVote
<1>2. CASE proposal = v.block /\ \A w \in votes : w.voter # v.voter
  <2>1. votes' = votes \cup {v} /\ Goto(t, "count") /\ UNCHANGED <<tree, qcHigh, bLeaf, proposal>>
    BY <1>2, Zenon DEF AddVote
  <2>2. "count" \in PC /\ "count" \notin Proposing
    BY Zenon DEF PC, Proposing
  <2>3. TypeOK'
    BY <1>1, <2>1, <2>2, GoesOn, Zenon DEF TypeOK
  <2>4. TreeNames'
    BY <1>1, <2>1, Zenon DEF NamesInv, TreeNames
  <2>5. ASSUME NEW u \in Thread PROVE ThreadNames(u)'
    BY <1>1, <2>1, <2>2, GoesOn DEF NamesInv, ThreadNames
  <2>6. IsFiniteSet(votes') /\ OneBlock(votes') /\ \A w \in votes' : w.block = proposal'
    BY <1>1, <1>2, <2>1, OneMoreVote, Zenon
  <2>7. VotesInv'
    BY <1>1, <2>1, <2>2, <2>6, GoesOn DEF VotesInv, OneBlock
  <2> QED BY <2>3, <2>4, <2>5, <2>7, Zenon DEF BaseInv, NamesInv
<1>3. CASE ~(proposal = v.block /\ \A w \in votes : w.voter # v.voter)
  <2>1. Return(t) /\ UNCHANGED <<tree, shared>>
    BY <1>3, Zenon DEF AddVote, shared
  <2> QED BY <2>1, ReturnBase, Zenon
<1> QED BY <1>2, <1>3, Zenon

\* The steps of the proposer.
LEMMA ProposeBase ==
  ASSUME BaseInv, Beat \/ CreateLeaf \/ SetBLeafNew \/ StartProposal, overlapped' \in BOOLEAN
  PROVE  BaseInv'
<1> DEFINE l == thread["update"]
<1>1. TypeOK /\ NamesInv /\ TreeNames /\ VotesInv /\ ThreadNames("update") /\ "update" \in Thread
  BY Zenon DEF BaseInv, NamesInv, Thread
<1>2. /\ l \in Local /\ l.pc \in PC /\ l.block \in Nat /\ l.qc \in QC /\ l.votes \in SUBSET Vote
      /\ l.pc \in Proposing => l.block \in Blocks
  BY <1>1, Zenon DEF TypeOK, Local, ThreadNames
<1>3. /\ Idle \in Local /\ Idle.qc = NilQC /\ NilQC \in QC /\ NilQC.block = 0
      /\ Idle.votes = {} /\ Idle.block = 0
  BY Zenon DEF Idle, NilQC, QC, Local, PC
<1>4. IsFiniteSet({}) /\ OneBlock({})
  BY FS_EmptySet, Zenon DEF OneBlock
<1>5. CASE Beat
  <2> DEFINE m == [Idle EXCEPT !.pc = "createLeaf", !.block = bLeaf]
  <2>1. thread' = [thread EXCEPT !["update"] = m] /\ UNCHANGED <<tree, shared>> /\ Blocks' = Blocks
    BY <1>5, Zenon DEF Beat, Blocks
  <2>2. m \in Local /\ m.pc = "createLeaf" /\ m.block = bLeaf /\ m.qc = NilQC /\ m.votes = {}
    BY <1>1, <1>3, Zenon DEF Local, PC, TypeOK, Idle
  <2>3. bLeaf \in Blocks /\ bLeaf # 0
    BY <1>1, Known, Zenon DEF TreeNames
  <2> HIDE DEF m
  <2>4. /\ thread' \in [Thread -> Local] /\ \A u \in Thread : ThreadNames(u)'
        /\ \A u \in Thread : IsFiniteSet(thread'[u].votes) /\ OneBlock(thread'[u].votes)
    BY <1>1, <1>3, <1>4, <2>1, <2>2, <2>3, LocalBase, Zenon DEF Proposing
  <2>5. TypeOK'
    BY <1>1, <2>1, <2>4, Zenon DEF TypeOK, shared
  <2>6. TreeNames' /\ VotesInv'
    BY <1>1, <2>1, <2>4, Zenon DEF TreeNames, VotesInv, shared
  <2> QED BY <2>4, <2>5, <2>6, Zenon DEF BaseInv, NamesInv
<1>6. CASE CreateLeaf
  <2> DEFINE m == [l EXCEPT !.pc = "setBLeafNew", !.block = Len(tree) + 1]
  <2>1. /\ l.pc = "createLeaf" /\ l.block \in Blocks
        /\ tree' = Append(tree, Leaf(l.block, qcHigh, Me)) /\ UNCHANGED shared
    BY <1>2, <1>6, Zenon DEF CreateLeaf, At, Proposing
  <2>2. qcHigh \in QC /\ qcHigh.block \in Blocks /\ Me \in Voter
    BY <1>1, StepsAssumption, Zenon DEF TypeOK, TreeNames
  <2>3. /\ tree' \in Seq(Block) /\ Len(tree') >= 1
        /\ \A b \in Blocks : b \in Blocks'
        /\ Len(tree) + 1 \in Blocks' /\ Len(tree) + 1 \in Nat \ {0}
        /\ TreeNames'
    BY <2>1, <2>2, AppendBase, Zenon
  <2>4. thread' = [thread EXCEPT !["update"] = m]
    BY <1>1, <1>6, Zenon DEF CreateLeaf, TypeOK, Local
  <2>5. /\ m \in Local /\ m.pc = "setBLeafNew" /\ m.block = Len(tree) + 1
        /\ m.qc = l.qc /\ m.votes = l.votes
    BY <1>2, <2>3, Zenon DEF Local, PC
  <2> HIDE DEF m
  <2>6. /\ l.qc.block \in Blocks \cup {0} /\ \A v \in l.votes : v.block \in Blocks
        /\ IsFiniteSet(l.votes) /\ OneBlock(l.votes)
    BY <1>1, Zenon DEF ThreadNames, VotesInv
  <2>7. /\ thread' \in [Thread -> Local] /\ \A u \in Thread : ThreadNames(u)'
        /\ \A u \in Thread : IsFiniteSet(thread'[u].votes) /\ OneBlock(thread'[u].votes)
    BY <1>1, <2>3, <2>4, <2>5, <2>6, LocalBase, Zenon DEF Proposing
  <2>8. TypeOK' /\ VotesInv'
    BY <1>1, <2>1, <2>3, <2>7, Zenon DEF TypeOK, VotesInv, shared
  <2> QED BY <2>3, <2>7, <2>8, Zenon DEF BaseInv, NamesInv
<1>7. CASE SetBLeafNew \/ StartProposal
  <2>1. PICK x \in {"startProposal", "addVote"} :
          /\ Goto("update", x) /\ l.pc \in Proposing
          /\ UNCHANGED <<tree, qcHigh>>
          /\ bLeaf' = bLeaf \/ bLeaf' = l.block
          /\ \/ UNCHANGED <<proposal, votes>>
             \/ proposal' = l.block /\ votes' = {}
    BY <1>7, Zenon DEF SetBLeafNew, StartProposal, At, Proposing
  <2>2. l.block \in Blocks /\ x \in PC /\ Blocks' = Blocks
    BY <1>2, <2>1, Zenon DEF PC, Blocks
  <2>3. TypeOK'
    BY <1>1, <1>2, <2>1, <2>2, GoesOn, Zenon DEF TypeOK
  <2>4. TreeNames'
    BY <1>1, <2>1, <2>2, Zenon DEF TreeNames
  <2>5. ASSUME NEW u \in Thread PROVE ThreadNames(u)'
    BY <1>1, <2>1, <2>2, GoesOn DEF NamesInv, ThreadNames
  <2>6. VotesInv'
    <3>1. IsFiniteSet(votes') /\ OneBlock(votes') /\ \A v \in votes' : v.block = proposal'
      BY <1>1, <1>4, <2>1, Zenon DEF VotesInv
    <3>2. \A u \in Thread : thread'[u].votes = thread[u].votes
      BY <1>1, <2>1, <2>2, GoesOn, Zenon
    <3> QED BY <1>1, <3>1, <3>2 DEF VotesInv, OneBlock
  <2> QED BY <2>3, <2>4, <2>5, <2>6, Zenon DEF BaseInv, NamesInv
<1> QED BY <1>5, <1>6, <1>7, Zenon

\* The steps of OnReceiveVote after the vote was added.
LEMMA CertifyBase ==
  ASSUME BaseInv, NEW t \in Thread, Count(t) \/ GetVotes(t) \/ EndProposal(t),
         overlapped' \in BOOLEAN
  PROVE  BaseInv'
<1> DEFINE l == thread[t]
<1>1. TypeOK /\ NamesInv /\ TreeNames /\ VotesInv /\ ThreadNames(t)
  BY Zenon DEF BaseInv, NamesInv
<1>2. /\ l \in Local /\ l.pc \in PC /\ l.block \in Nat /\ l.qc \in QC /\ l.votes \in SUBSET Vote
      /\ IsFiniteSet(l.votes) /\ OneBlock(l.votes)
  BY <1>1, Zenon DEF TypeOK, Local, VotesInv
<1>3. t # "newView"
  BY <1>1, Zenon DEF Count, GetVotes, EndProposal, At, ThreadNames
<1>4. CASE Count(t)
  <2>1. "getVotes" \in PC /\ "getVotes" \notin Proposing
    BY Zenon DEF PC, Proposing
  <2> QED BY <1>3, <1>4, <2>1, GotoBase, ReturnBase, Zenon DEF Count
<1>5. CASE GetVotes(t)
  <2> DEFINE m == [l EXCEPT !.pc = "endProposal", !.votes = votes]
  <2>1. thread' = [thread EXCEPT ![t] = m] /\ UNCHANGED <<tree, shared>> /\ Blocks' = Blocks
    BY <1>1, <1>5, Zenon DEF GetVotes, TypeOK, Local, Blocks
  <2>2. m \in Local /\ m.pc = "endProposal" /\ m.block = l.block /\ m.qc = l.qc /\ m.votes = votes
    BY <1>1, <1>2, Zenon DEF Local, PC, TypeOK
  <2> HIDE DEF m
  <2>3. /\ l.block \in Blocks \cup {0} /\ l.qc.block \in Blocks \cup {0}
        /\ l.block # 0 => t = "update"
        /\ \A v \in votes : v.block \in Blocks
        /\ IsFiniteSet(votes) /\ OneBlock(votes)
    BY <1>1, Zenon DEF ThreadNames, TreeNames, VotesInv
  <2>4. /\ thread' \in [Thread -> Local] /\ \A u \in Thread : ThreadNames(u)'
        /\ \A u \in Thread : IsFiniteSet(thread'[u].votes) /\ OneBlock(thread'[u].votes)
    BY <1>3, <2>1, <2>2, <2>3, LocalBase, Zenon DEF Proposing
  <2>5. TypeOK' /\ TreeNames' /\ VotesInv'
    BY <1>1, <2>1, <2>4, Zenon DEF TypeOK, TreeNames, VotesInv, shared
  <2> QED BY <2>4, <2>5, Zenon DEF BaseInv, NamesInv
<1>6. CASE EndProposal(t)
  <2>1. PICK b \in {v.block : v \in l.votes} \cup (IF l.votes = {} THEN {0} ELSE {}) :
          thread' = [thread EXCEPT ![t].pc = "compare",
                                   ![t].qc = [block |-> b, sigs |-> Cardinality(l.votes)]]
    BY <1>6, Zenon DEF EndProposal
  <2>2. /\ proposal' = 0 /\ votes' = {} /\ UNCHANGED <<tree, qcHigh, bLeaf>> /\ Blocks' = Blocks
    BY <1>6, Zenon DEF EndProposal, Blocks
  <2>3. b \in Blocks \cup {0} /\ b \in Nat /\ Cardinality(l.votes) \in Nat
    BY <1>1, <1>2, <2>1, Known, FS_CardinalityType DEF ThreadNames
  <2> DEFINE q == [block |-> b, sigs |-> Cardinality(l.votes)]
             m == [l EXCEPT !.pc = "compare", !.qc = q]
  <2>4. thread' = [thread EXCEPT ![t] = m]
    BY <1>1, <2>1, Zenon DEF TypeOK, Local
  <2>5. q \in QC /\ q.block = b
    BY <2>3, Zenon DEF QC
  <2>6. m \in Local /\ m.pc = "compare" /\ m.block = l.block /\ m.qc = q /\ m.votes = l.votes
    BY <1>2, <2>5, Zenon DEF Local, PC
  <2> HIDE DEF m, q
  <2>7. /\ m.block \in Blocks' \cup {0} /\ m.qc.block \in Blocks' \cup {0}
        /\ m.block # 0 => t = "update"
        /\ \A v \in m.votes : v.block \in Blocks'
        /\ m.pc \notin Proposing /\ m.pc \notin {"setQCHigh", "setBLeaf"}
        /\ IsFiniteSet(m.votes) /\ OneBlock(m.votes)
    BY <1>1, <1>2, <2>2, <2>3, <2>5, <2>6, Zenon DEF ThreadNames, Proposing
  <2>8. /\ thread' \in [Thread -> Local] /\ \A u \in Thread : ThreadNames(u)'
        /\ \A u \in Thread : IsFiniteSet(thread'[u].votes) /\ OneBlock(thread'[u].votes)
    BY <1>3, <2>2, <2>4, <2>6, <2>7, LocalBase, Zenon
  <2>9. TypeOK' /\ TreeNames' /\ VotesInv'
    BY <1>1, <2>2, <2>8, FS_EmptySet, Zenon DEF TypeOK, TreeNames, VotesInv, OneBlock
  <2> QED BY <2>8, <2>9, Zenon DEF BaseInv, NamesInv
<1> QED BY <1>4, <1>5, <1>6, Zenon

\* The steps of UpdateQCHigh.
LEMMA UpdateQCHighBase ==
  ASSUME BaseInv, NEW t \in Thread, Compare(t) \/ SetQCHigh(t) \/ SetBLeaf(t),
         overlapped' \in BOOLEAN
  PROVE  BaseInv'
<1> DEFINE l == thread[t]
<1>1. TypeOK /\ NamesInv /\ TreeNames /\ VotesInv /\ ThreadNames(t)
  BY Zenon DEF BaseInv, NamesInv
<1>2. l \in Local /\ l.qc \in QC /\ l.qc.block \in Nat
  BY <1>1, Zenon DEF TypeOK, Local, QC
<1>3. /\ "setQCHigh" \in PC /\ "setBLeaf" \in PC
      /\ "setQCHigh" \notin Proposing /\ "setBLeaf" \notin Proposing
  BY Zenon DEF PC, Proposing
<1>4. CASE Compare(t)
  <2>1. Higher(l.qc, qcHigh) => l.qc.block # 0
    BY Zenon DEF Higher
  <2> QED BY <1>3, <1>4, <2>1, GotoBase, ReturnBase, Zenon DEF Compare
<1>5. CASE SetQCHigh(t)
  <2>1. /\ qcHigh' = l.qc /\ Goto(t, "setBLeaf") /\ UNCHANGED <<tree, bLeaf, proposal, votes>>
        /\ l.qc.block \in Blocks /\ l.qc.block # 0 /\ Blocks' = Blocks
    BY <1>1, <1>5, Zenon DEF SetQCHigh, At, ThreadNames, Blocks
  <2>2. TypeOK'
    BY <1>1, <1>2, <1>3, <2>1, GoesOn, Zenon DEF TypeOK
  <2>3. TreeNames'
    BY <1>1, <2>1, Zenon DEF TreeNames
  <2>4. ASSUME NEW u \in Thread PROVE ThreadNames(u)'
    BY <1>1, <1>3, <2>1, GoesOn, SMTT(60) DEF NamesInv, ThreadNames
  <2>5. \A u \in Thread : thread'[u].votes = thread[u].votes
    BY <1>1, <1>3, <2>1, GoesOn, Zenon
  <2>6. VotesInv'
    BY <1>1, <2>1, <2>5 DEF VotesInv, OneBlock
  <2> QED BY <2>2, <2>3, <2>4, <2>6, Zenon DEF BaseInv, NamesInv
<1>6. CASE SetBLeaf(t)
  <2>1. /\ bLeaf' = l.qc.block /\ Return(t) /\ UNCHANGED <<tree, qcHigh, proposal, votes>>
        /\ l.qc.block \in Blocks /\ Blocks' = Blocks
    BY <1>1, <1>6, Zenon DEF SetBLeaf, At, ThreadNames, Blocks
  <2>2. TypeOK'
    BY <1>1, <1>2, <2>1, Returns, Zenon DEF TypeOK
  <2>3. TreeNames'
    BY <1>1, <2>1, Zenon DEF TreeNames
  <2>4. ASSUME NEW u \in Thread PROVE ThreadNames(u)'
    <3>1. CASE u # t
      BY <1>1, <2>1, <3>1, Returns, SMTT(60) DEF NamesInv, ThreadNames
    <3>2. CASE u = t
      BY <1>1, <2>1, <3>2, Returns, SMTT(60) DEF NamesInv, ThreadNames, TreeNames, NilQC, Proposing
    <3> QED BY <3>1, <3>2, Zenon
  <2>5. VotesInv'
    <3>1. \A u \in Thread : thread'[u].votes = {} \/ thread'[u].votes = thread[u].votes
      BY <1>1, <2>1, Returns, Zenon
    <3>2. IsFiniteSet({}) /\ OneBlock({})
      BY FS_EmptySet, Zenon DEF OneBlock
    <3>3. \A u \in Thread : IsFiniteSet(thread'[u].votes) /\ OneBlock(thread'[u].votes)
      BY <1>1, <3>1, <3>2, Zenon DEF VotesInv
    <3> QED BY <1>1, <2>1, <3>3, Zenon DEF VotesInv
  <2> QED BY <2>2, <2>3, <2>4, <2>5, Zenon DEF BaseInv, NamesInv
<1> QED BY <1>4, <1>5, <1>6, Zenon

\* A certificate that passes Validate names a block.
LEMMA ValidNames ==
  ASSUME BaseInv, NEW q \in ValidQC
  PROVE  q \in QC /\ q.block \in Blocks \cup {0} /\ q.sigs >= MajorityCount
<1>1. TypeOK /\ TreeNames /\ Len(tree) \in Nat
  BY DEF BaseInv, NamesInv, TypeOK
<1>2. CASE \E b \in Blocks : q = [block |-> b, sigs |-> MajorityCount]
  BY <1>1, <1>2, StepsAssumption, Known DEF QC
<1>3. CASE \E b \in Blocks : q = tree[b].qc /\ q.sigs >= MajorityCount
  BY <1>1, <1>3, Known, Zenon DEF TreeNames
<1> QED BY <1>2, <1>3, Zenon DEF ValidQC, Blocks

\* A new view, and a proposal of another node.
LEMMA ReceiveBase ==
  ASSUME BaseInv, overlapped' \in BOOLEAN, NEW q \in ValidQC,
         ReceiveNewView(q) \/ \E u \in Voter, p \in Blocks : ReceiveProposal(u, p, q)
  PROVE  BaseInv'
<1> DEFINE m == [Idle EXCEPT !.pc = "compare", !.qc = q]
<1>1. TypeOK /\ NamesInv /\ TreeNames /\ VotesInv /\ q \in QC /\ q.block \in Blocks \cup {0}
  BY ValidNames, Zenon DEF BaseInv, NamesInv
<1>2. /\ m \in Local /\ m.pc = "compare" /\ m.qc = q /\ m.block = 0 /\ m.votes = {}
      /\ m.pc \notin Proposing /\ m.pc \notin {"setQCHigh", "setBLeaf"}
  BY <1>1, Zenon DEF Idle, Local, PC, Proposing
<1>3. IsFiniteSet({}) /\ OneBlock({})
  BY FS_EmptySet, Zenon DEF OneBlock
<1>4. PICK t \in Thread : thread' = [thread EXCEPT ![t] = m] /\ UNCHANGED shared
  BY Zenon DEF ReceiveNewView, ReceiveProposal, Thread
<1>5. /\ tree' \in Seq(Block) /\ Len(tree') >= 1
      /\ \A b \in Blocks : b \in Blocks'
      /\ TreeNames'
  <2>1. CASE UNCHANGED tree
    BY <1>1, <1>4, <2>1, Zenon DEF TypeOK, TreeNames, Blocks, shared
  <2>2. CASE \E u \in Voter, p \in Blocks : tree' = Append(tree, Leaf(p, q, u))
    BY <1>1, <1>4, <2>2, AppendBase, Zenon
  <2> QED BY <2>1, <2>2, Zenon DEF ReceiveNewView, ReceiveProposal
<1> HIDE DEF m
<1>6. /\ thread' \in [Thread -> Local] /\ \A u \in Thread : ThreadNames(u)'
      /\ \A u \in Thread : IsFiniteSet(thread'[u].votes) /\ OneBlock(thread'[u].votes)
  BY <1>1, <1>2, <1>3, <1>4, <1>5, LocalBase, Zenon
<1>7. TypeOK' /\ VotesInv'
  BY <1>1, <1>4, <1>5, <1>6, Zenon DEF TypeOK, VotesInv, shared
<1> QED BY <1>5, <1>6, <1>7, Zenon DEF BaseInv, NamesInv

\* Every step keeps it.
LEMMA BaseStep == BaseInv /\ [Next]_vars => BaseInv'
<1> SUFFICES ASSUME BaseInv, [Next]_vars PROVE BaseInv'
  BY Zenon
<1>1. CASE UNCHANGED vars
  BY <1>1, ZenonT(60) DEF BaseInv, TypeOK, NamesInv, TreeNames, ThreadNames, VotesInv, OneBlock, Blocks,
     vars, shared
<1>2. CASE Next
  <2>1. overlapped' \in BOOLEAN
    BY <1>2, Zenon DEF Next
  <2>2. CASE Beat \/ CreateLeaf \/ SetBLeafNew \/ StartProposal
    BY <2>1, <2>2, ProposeBase, Zenon
  <2>3. CASE OwnVote
    <3>1. thread["update"].block \in Blocks /\ "update" \in Thread /\ Me \in Voter
      BY <2>3, StepsAssumption, Zenon
         DEF OwnVote, At, BaseInv, NamesInv, ThreadNames, Thread, Proposing
    <3>2. [voter |-> Me, block |-> thread["update"].block] \in Vote
      BY <3>1, Known, Zenon DEF BaseInv, Vote
    <3> QED BY <2>1, <2>3, <3>1, <3>2, AddVoteBase, Zenon DEF OwnVote
  <2>4. CASE \E u \in Voter \ {Me}, b \in 1 .. Len(tree) : ReceiveVote(u, b)
    <3>1. PICK u \in Voter, b \in Blocks : AddVote("vote", [voter |-> u, block |-> b])
      BY <2>4, Zenon DEF ReceiveVote, Blocks
    <3>2. [voter |-> u, block |-> b] \in Vote /\ "vote" \in Thread
      BY <3>1, Known, Zenon DEF BaseInv, Vote, Thread
    <3> QED BY <2>1, <3>1, <3>2, AddVoteBase, Zenon
  <2>5. CASE \E t \in Thread : Count(t) \/ GetVotes(t) \/ EndProposal(t)
    BY <2>1, <2>5, CertifyBase, Zenon
  <2>6. CASE \E t \in Thread : Compare(t) \/ SetQCHigh(t) \/ SetBLeaf(t)
    BY <2>1, <2>6, UpdateQCHighBase, Zenon
  <2>7. CASE \/ \E q \in ValidQC : ReceiveNewView(q)
             \/ \E u \in Voter \ {Me}, p \in 1 .. Len(tree), q \in ValidQC : ReceiveProposal(u, p, q)
    BY <2>1, <2>7, ReceiveBase, Zenon DEF Blocks
  <2> QED BY <1>2, <2>2, <2>3, <2>4, <2>5, <2>6, <2>7, Zenon DEF Next, Step
<1> QED BY <1>1, <1>2, Zenon

\* In every interleaving.
LEMMA AlwaysBase == Spec => []BaseInv
  BY InitBase, BaseStep, PTL DEF Spec

\* However the goroutines interleave, what OnReceiveVote gives to CreateQC are
\* votes of different validators for one block: addVote refuses the others and
\* startProposal clears the votes, both under pMtx.
THEOREM CertifiesOneBlock == Spec => []VotesOfOneBlock
<1>1. BaseInv => VotesOfOneBlock
  BY Zenon DEF BaseInv, VotesInv, OneBlock, VotesOfOneBlock
<1> QED BY <1>1, AlwaysBase, PTL

-----------------------------------------------------------------------------
(* What holds until two calls overlap. *)

\* A block once in the tree stays as it is, so heights compare as before.
LEMMA SameTree ==
  ASSUME BaseInv, \A b \in Blocks : b \in Blocks' /\ tree'[b] = tree[b],
         NEW q \in QC, NEW r \in QC, q.block \in Blocks \cup {0}, r.block \in Blocks \cup {0}
  PROVE  Higher(q, r)' = Higher(q, r)
  BY Zenon DEF Higher

\* A certificate that a thread or the tree holds names a block or none.
LEMMA QCsKnown ==
  ASSUME BaseInv
  PROVE  /\ qcHigh \in QC /\ qcHigh.block \in Blocks
         /\ \A t \in Thread : thread[t].qc \in QC /\ thread[t].qc.block \in Blocks \cup {0}
<1>1. TypeOK /\ TreeNames /\ \A t \in Thread : ThreadNames(t)
  BY Zenon DEF BaseInv, NamesInv
<1>2. \A t \in Thread : thread[t].qc \in QC
  BY <1>1, Zenon DEF TypeOK, Local
<1> QED BY <1>1, <1>2, Zenon DEF TypeOK, TreeNames, ThreadNames

\* A step of thread t that leaves the tree and the shared values alone.
LEMMA LocalApart ==
  ASSUME BaseInv, CertsInv, HighInv, BranchInv, NEW t \in Thread,
         \A u \in Thread \ {t} : thread'[u] = thread[u],
         UNCHANGED <<tree, shared>>,
         ~At(t, "setBLeaf"),
         CertsOf(t)', HighOf(t)',
         t = "update" /\ (At(t, "createLeaf") \/ At(t, "setBLeafNew"))'
           => qcHigh.block \in tree[thread'[t].block].branch
  PROVE  CertsInv' /\ HighInv' /\ BranchInv'
<1>1. CertsInv'
  <2>1. \A u \in Thread : CertsOf(u)'
    BY Zenon DEF CertsInv, CertsOf, At, Major, shared
  <2> QED BY <2>1, Zenon DEF CertsInv, QCIsMajority, Blocks, Major, shared
<1>2. HighInv'
  BY Zenon DEF HighInv, HighOf, At, Higher, shared
<1>3. BranchInv'
  <2>1. JustifyOnBranch'
    BY Zenon DEF BranchInv, JustifyOnBranch, Own
  <2>2. (\A u \in Thread : ~At(u, "setBLeaf"))' => qcHigh.block \in tree[bLeaf].branch
    BY Zenon DEF BranchInv, At
  <2>3. (At("update", "createLeaf") \/ At("update", "setBLeafNew"))'
          => qcHigh.block \in tree[thread'["update"].block].branch
    <3>1. CASE t = "update"
      BY <3>1, Zenon
    <3>2. CASE t # "update"
      BY <3>2, Zenon DEF BranchInv, At, Thread
    <3> QED BY <3>1, <3>2, Zenon
  <2> QED BY <2>1, <2>2, <2>3, Zenon DEF BranchInv, shared
<1> QED BY <1>1, <1>2, <1>3, Zenon

\* A thread that returns holds the certificate of a block or none.
LEMMA ReturnOf ==
  ASSUME BaseInv, CertsInv, NEW t \in Thread, Return(t)
  PROVE  /\ Major(thread'[t].qc)
         /\ thread'[t].pc \in {"idle", "compare"}
         /\ CertsOf(t)' /\ HighOf(t)'
         /\ ~At(t, "createLeaf")' /\ ~At(t, "setBLeafNew")' /\ ~At(t, "setBLeaf")'
         /\ \A u \in Thread \ {t} : thread'[u] = thread[u]
<1>1. TypeOK /\ NamesInv /\ ThreadNames(t)
  BY Zenon DEF BaseInv, NamesInv
<1>2. /\ thread'[t].pc \in {"idle", "compare"}
      /\ thread'[t].qc = (IF thread[t].block = 0 THEN NilQC ELSE tree[thread[t].block].qc)
      /\ \A u \in Thread \ {t} : thread'[u] = thread[u]
  BY <1>1, Returns, Zenon
<1>3. Major(thread'[t].qc)
  BY <1>1, <1>2, SMTT(60) DEF CertsInv, ThreadNames, Major, NilQC
<1> QED BY <1>2, <1>3, Zenon DEF CertsOf, HighOf, At, Major

\* A return that leaves the shared values alone.
LEMMA ReturnApart ==
  ASSUME BaseInv, CertsInv, HighInv, BranchInv, NEW t \in Thread, Return(t),
         UNCHANGED <<tree, shared>>, ~At(t, "setBLeaf")
  PROVE  CertsInv' /\ HighInv' /\ BranchInv'
  BY ReturnOf, LocalApart, Zenon

\* Beat, Count, GetVotes, Compare and ReceiveNewView only change their thread.
LEMMA QuietApart ==
  ASSUME BaseInv, ~Overlap', CertsInv, HighInv, BranchInv, NEW t \in Thread,
         \/ t = "update" /\ Beat
         \/ Count(t) \/ GetVotes(t) \/ Compare(t)
         \/ t = "newView" /\ \E q \in ValidQC : ReceiveNewView(q)
  PROVE  CertsInv' /\ HighInv' /\ BranchInv'
<1>1. TypeOK /\ CertsOf(t) /\ thread[t] \in Local
  BY Zenon DEF BaseInv, CertsInv, TypeOK
<1>2. CASE Beat /\ t = "update"
  <2>1. /\ \A u \in Thread \ {t} : thread'[u] = thread[u]
        /\ thread'[t].pc = "createLeaf" /\ thread'[t].block = bLeaf /\ thread'[t].qc = NilQC
        /\ UNCHANGED <<tree, shared>> /\ At(t, "idle")
    BY <1>1, <1>2, Zenon DEF Beat, TypeOK, Idle, At
  <2>2. CertsOf(t)' /\ HighOf(t)' /\ ~At(t, "setBLeaf")
    BY <2>1 DEF CertsOf, HighOf, At, Major, NilQC
  <2>3. \A u \in Thread : ~At(u, "setBLeaf")
    BY <1>2, <2>1, <2>2, Zenon DEF Overlap, Moving, At
  <2>4. qcHigh.block \in tree[thread'[t].block].branch
    BY <2>1, <2>3, Zenon DEF BranchInv
  <2> QED BY <2>1, <2>2, <2>4, LocalApart, Zenon
<1>3. CASE Count(t) /\ Cardinality(votes) >= MajorityCount
  <2>1. Goto(t, "getVotes") /\ "getVotes" \in PC /\ UNCHANGED <<tree, shared>> /\ At(t, "count")
    BY <1>3, Zenon DEF Count, PC
  <2>2. /\ \A u \in Thread \ {t} : thread'[u] = thread[u]
        /\ thread'[t].pc = "getVotes" /\ thread'[t].qc = thread[t].qc
    BY <1>1, <2>1, Zenon DEF Goto, TypeOK, Local
  <2>3. CertsOf(t)' /\ HighOf(t)' /\ ~At(t, "setBLeaf")
    BY <1>1, <1>3, <2>1, <2>2, Zenon DEF CertsOf, HighOf, At, Major, shared
  <2>4. ~At(t, "createLeaf")' /\ ~At(t, "setBLeafNew")'
    BY <2>2, Zenon DEF At
  <2> QED BY <2>1, <2>2, <2>3, <2>4, LocalApart, Zenon
<1>4. CASE Count(t) /\ ~(Cardinality(votes) >= MajorityCount)
  BY <1>4, ReturnApart, Zenon DEF Count, At
<1>5. CASE GetVotes(t)
  <2>1. UNCHANGED <<tree, shared>> /\ At(t, "getVotes")
    BY <1>5, Zenon DEF GetVotes
  <2>2. /\ \A u \in Thread \ {t} : thread'[u] = thread[u]
        /\ thread'[t].pc = "endProposal" /\ thread'[t].qc = thread[t].qc /\ thread'[t].votes = votes
    BY <1>1, <1>5, Zenon DEF GetVotes, TypeOK, Local
  <2>3. votes = {} \/ Cardinality(votes) >= MajorityCount
    <3>1. \A v \in votes : v.block # 0 /\ v.block = proposal
      BY Zenon DEF BaseInv, TypeOK, Vote, VotesInv
    <3> QED BY <1>1, <2>1, <3>1, Zenon DEF CertsOf
  <2>4. CertsOf(t)' /\ HighOf(t)' /\ ~At(t, "setBLeaf")
    BY <1>1, <2>1, <2>2, <2>3, Zenon DEF CertsOf, HighOf, At, Major
  <2>5. ~At(t, "createLeaf")' /\ ~At(t, "setBLeafNew")'
    BY <2>2, Zenon DEF At
  <2> QED BY <2>1, <2>2, <2>4, <2>5, LocalApart, Zenon
<1>6. CASE Compare(t) /\ Higher(thread[t].qc, qcHigh)
  <2>1. Goto(t, "setQCHigh") /\ UNCHANGED <<tree, shared>> /\ At(t, "compare")
    BY <1>6, Zenon DEF Compare
  <2>2. /\ \A u \in Thread \ {t} : thread'[u] = thread[u]
        /\ thread'[t].pc = "setQCHigh" /\ thread'[t].qc = thread[t].qc
    BY <1>1, <2>1, Zenon DEF Goto, TypeOK, Local
  <2>3. CertsOf(t)' /\ HighOf(t)' /\ ~At(t, "setBLeaf")
    BY <1>1, <1>6, <2>1, <2>2, Zenon DEF CertsOf, HighOf, At, Major, shared, Higher
  <2>4. ~At(t, "createLeaf")' /\ ~At(t, "setBLeafNew")'
    BY <2>2, Zenon DEF At
  <2> QED BY <2>1, <2>2, <2>3, <2>4, LocalApart, Zenon
<1>7. CASE Compare(t) /\ ~Higher(thread[t].qc, qcHigh)
  BY <1>7, ReturnApart, Zenon DEF Compare, At
<1>8. CASE t = "newView" /\ \E q \in ValidQC : ReceiveNewView(q)
  <2>1. PICK q \in ValidQC : ReceiveNewView(q)
    BY <1>8, Zenon
  <2>2. /\ \A u \in Thread \ {t} : thread'[u] = thread[u]
        /\ thread'[t].pc = "compare" /\ thread'[t].qc = q
        /\ UNCHANGED <<tree, shared>> /\ At(t, "idle")
    BY <1>1, <1>8, <2>1, Zenon DEF ReceiveNewView, TypeOK, Idle, At
  <2>3. CertsOf(t)' /\ HighOf(t)' /\ ~At(t, "setBLeaf")
    BY <2>2, ValidNames, Zenon DEF CertsOf, HighOf, At, Major
  <2> QED BY <1>8, <2>2, <2>3, LocalApart, Zenon
<1> QED BY <1>2, <1>3, <1>4, <1>5, <1>6, <1>7, <1>8, Zenon

\* A new block: the proposer's, on the branch of qcHigh, or another node's.
LEMMA AppendApart ==
  ASSUME BaseInv, CertsInv, HighInv, BranchInv,
         NEW p \in Blocks, NEW q \in QC, q.block \in Blocks \cup {0}, NEW u \in Voter, Major(q),
         tree' = Append(tree, Leaf(p, q, u)), UNCHANGED shared,
         u = Me => q.block \in tree[p].branch,
         \A t \in Thread \ {"update"} : thread'[t] = thread[t],
         Major(thread'["update"].qc), thread'["update"].pc \in {"setBLeafNew", "compare"},
         At("update", "setBLeafNew")'
           => thread'["update"].block = Len(tree) + 1 /\ qcHigh.block \in tree[p].branch,
         ~At("update", "setBLeaf")
  PROVE  CertsInv' /\ HighInv' /\ BranchInv'
<1> DEFINE r == Leaf(p, q, u)
<1>1. /\ TypeOK /\ "update" \in Thread /\ Len(tree) \in Nat
  BY SMTT(60) DEF BaseInv, TypeOK, Thread
<1>2. /\ r \in Block /\ r.qc = q /\ r.parent = p /\ r.proposer = u
      /\ r.branch = tree[p].branch \cup {Len(tree) + 1}
  BY <1>1, LeafIsBlock
<1> HIDE DEF r
<1>3. tree' = Append(tree, r)
  BY Zenon DEF r
<1>4. /\ Len(tree') = Len(tree) + 1
      /\ \A b \in Blocks : tree'[b] = tree[b]
      /\ tree'[Len(tree) + 1] = r
      /\ Blocks \subseteq Blocks' /\ Blocks' = Blocks \cup {Len(tree) + 1}
  BY <1>1, <1>2, <1>3, TreeGrows, Zenon
<1>5. qcHigh \in QC /\ qcHigh.block \in Blocks /\ bLeaf \in Blocks
  BY QCsKnown, Zenon DEF BaseInv, NamesInv, TreeNames
<1>6. CertsInv'
  <2>1. QCIsMajority'
    BY Zenon DEF CertsInv, QCIsMajority, shared
  <2>2. \A b \in Blocks' : Major(tree'[b].qc)
    BY <1>2, <1>4, Zenon DEF CertsInv
  <2>3. \A t \in Thread : CertsOf(t)'
    BY <1>1, Zenon DEF CertsInv, CertsOf, At, Major, shared
  <2> QED BY <2>1, <2>2, <2>3, Zenon DEF CertsInv, Major
<1>7. HighInv'
  <2> SUFFICES ASSUME NEW t \in Thread PROVE HighOf(t)'
    BY Zenon DEF HighInv
  <2>1. CASE t = "update"
    BY <2>1, Zenon DEF HighOf, At
  <2>2. CASE t # "update"
    <3>1. Higher(thread[t].qc, qcHigh)' = Higher(thread[t].qc, qcHigh)
      <4>1. thread'[t].qc = thread[t].qc /\ qcHigh' = qcHigh
        BY <2>2, Zenon DEF shared
      <4>2. thread[t].qc \in QC /\ thread[t].qc.block \in Blocks \cup {0}
        BY QCsKnown, Zenon
      <4> QED BY <1>4, <1>5, <4>1, <4>2, ZenonT(60) DEF Higher
    <3> QED BY <2>2, <3>1, Zenon DEF HighInv, HighOf, At, shared
  <2> QED BY <2>1, <2>2, Zenon
<1>8. BranchInv'
  <2>1. JustifyOnBranch'
    <3> SUFFICES ASSUME NEW b \in 2 .. Len(tree'), tree'[b].proposer = Me
                 PROVE  tree'[b].qc.block \in tree'[tree'[b].parent].branch
      BY Zenon DEF JustifyOnBranch, Own
    <3>1. b \in Blocks'
      BY <1>1, <1>4 DEF Blocks
    <3>2. CASE b \in Blocks
      <4>1. b \in 2 .. Len(tree) /\ tree'[b] = tree[b] /\ tree[b].parent \in Blocks
        BY <1>1, <1>4, <3>2, SMTT(60) DEF Blocks, BaseInv, NamesInv, TreeNames
      <4> QED BY <1>4, <4>1, ZenonT(60) DEF BranchInv, JustifyOnBranch, Own
    <3>3. CASE b = Len(tree) + 1
      <4>1. tree'[b] = r /\ tree'[p] = tree[p]
        BY <1>4, <3>3, Zenon
      <4> QED BY <1>2, <4>1, Zenon
    <3> QED BY <1>4, <3>1, <3>2, <3>3, Zenon
  <2>2. (\A t \in Thread : ~At(t, "setBLeaf"))' => qcHigh.block \in tree'[bLeaf].branch
    BY <1>4, <1>5, Zenon DEF BranchInv, At
  <2>3. (At("update", "createLeaf") \/ At("update", "setBLeafNew"))'
          => qcHigh.block \in tree'[thread'["update"].block].branch
    BY <1>2, <1>4, ZenonT(60) DEF At
  <2> QED BY <2>1, <2>2, <2>3, Zenon DEF BranchInv, shared
<1> QED BY <1>6, <1>7, <1>8, Zenon

\* CreateLeaf and a proposal of another node.
LEMMA TreeApart ==
  ASSUME BaseInv, CertsInv, HighInv, BranchInv,
         \/ CreateLeaf
         \/ \E u \in Voter \ {Me}, p \in Blocks, q \in ValidQC : ReceiveProposal(u, p, q)
  PROVE  CertsInv' /\ HighInv' /\ BranchInv'
<1>1. /\ TypeOK /\ "update" \in Thread /\ thread["update"] \in Local
      /\ Me \in Voter /\ CertsOf("update") /\ ThreadNames("update")
  BY StepsAssumption, Zenon DEF BaseInv, TypeOK, Thread, CertsInv, NamesInv
<1>2. CASE CreateLeaf
  <2>1. /\ At("update", "createLeaf") /\ UNCHANGED shared
        /\ tree' = Append(tree, Leaf(thread["update"].block, qcHigh, Me))
        /\ \A t \in Thread \ {"update"} : thread'[t] = thread[t]
        /\ thread'["update"].pc = "setBLeafNew" /\ thread'["update"].block = Len(tree) + 1
        /\ thread'["update"].qc = thread["update"].qc
    BY <1>1, <1>2, Zenon DEF CreateLeaf, TypeOK, Local
  <2>2. /\ thread["update"].block \in Blocks /\ qcHigh.block \in tree[thread["update"].block].branch
        /\ ~At("update", "setBLeaf") /\ Major(qcHigh) /\ Major(thread'["update"].qc)
    BY <1>1, <2>1, Zenon
       DEF At, ThreadNames, Proposing, BranchInv, CertsInv, CertsOf, QCIsMajority, Major
  <2> QED BY <1>1, <2>1, <2>2, QCsKnown, AppendApart, Zenon
<1>3. CASE \E u \in Voter \ {Me}, p \in Blocks, q \in ValidQC : ReceiveProposal(u, p, q)
  <2>1. PICK u \in Voter \ {Me}, p \in Blocks, q \in ValidQC : ReceiveProposal(u, p, q)
    BY <1>3, Zenon
  <2>2. /\ At("update", "idle") /\ UNCHANGED shared /\ tree' = Append(tree, Leaf(p, q, u))
        /\ \A t \in Thread \ {"update"} : thread'[t] = thread[t]
        /\ thread'["update"].pc = "compare" /\ thread'["update"].qc = q
    BY <1>1, <2>1, Zenon DEF ReceiveProposal, TypeOK, Idle
  <2>3. q \in QC /\ q.block \in Blocks \cup {0} /\ Major(q)
    BY ValidNames, Zenon DEF Major
  <2>4. ~At("update", "setBLeaf") /\ ~At("update", "setBLeafNew")'
    BY <2>2, Zenon DEF At
  <2> QED BY <2>2, <2>3, <2>4, AppendApart, Zenon
<1> QED BY <1>2, <1>3, Zenon

\* The proposer's steps: nobody is taking votes while the next proposal starts.
LEMMA ProposeApart ==
  ASSUME BaseInv, ~Overlap, CertsInv, HighInv, BranchInv, SetBLeafNew \/ StartProposal
  PROVE  CertsInv' /\ HighInv' /\ BranchInv'
<1>1. TypeOK /\ "update" \in Thread /\ NamesInv
  BY Zenon DEF BaseInv, Thread
<1>2. PICK x \in {"startProposal", "addVote"} : Goto("update", x)
  BY Zenon DEF SetBLeafNew, StartProposal
<1>3. /\ \A t \in Thread \ {"update"} : thread'[t] = thread[t]
      /\ thread'["update"].pc = x /\ thread'["update"].qc = thread["update"].qc
      /\ UNCHANGED <<tree, qcHigh>> /\ Blocks' = Blocks
  BY <1>1, <1>2, ZenonT(60) DEF Goto, TypeOK, Local, SetBLeafNew, StartProposal, Blocks
<1>4. At("update", "setBLeafNew") \/ At("update", "startProposal")
  BY Zenon DEF SetBLeafNew, StartProposal
<1>5. CertsInv'
  <2>1. \A t \in Thread : At(t, "getVotes")' \/ At(t, "endProposal")' => UNCHANGED <<proposal, votes>>
    <3>1. CASE SetBLeafNew
      BY <3>1, Zenon DEF SetBLeafNew
    <3>2. CASE StartProposal
      <4>1. At("update", "startProposal")
        BY <3>2, Zenon DEF StartProposal
      <4>2. ~At("vote", "getVotes") /\ ~At("vote", "endProposal")
        BY <4>1, Zenon DEF Overlap
      <4>3. ~At("newView", "getVotes") /\ ~At("newView", "endProposal")
        BY <1>1, Zenon DEF NamesInv, ThreadNames, At, Thread
      <4> QED BY <1>3, <4>2, <4>3, Zenon DEF At, Thread
    <3> QED BY <3>1, <3>2, Zenon
  <2>2. ASSUME NEW t \in Thread PROVE CertsOf(t)'
    BY <1>3, <2>1, Zenon DEF CertsInv, CertsOf, At, Major
  <2> QED BY <1>3, <2>2, Zenon DEF CertsInv, QCIsMajority, Major
<1>6. HighInv'
  BY <1>3, Zenon DEF HighInv, HighOf, At, Higher
<1>7. BranchInv'
  <2>1. JustifyOnBranch'
    BY <1>3, Zenon DEF BranchInv, JustifyOnBranch, Own
  <2>2. ~At("update", "createLeaf")' /\ ~At("update", "setBLeafNew")'
    BY <1>3, Zenon DEF At
  <2>3. (\A t \in Thread : ~At(t, "setBLeaf"))' => (qcHigh.block \in tree[bLeaf].branch)'
    <3>1. CASE SetBLeafNew
      BY <1>3, <3>1, Zenon DEF SetBLeafNew, BranchInv
    <3>2. CASE StartProposal
      BY <1>3, <1>4, <3>2, Zenon DEF StartProposal, BranchInv, At
    <3> QED BY <3>1, <3>2, Zenon
  <2> QED BY <2>1, <2>2, <2>3, Zenon DEF BranchInv
<1> QED BY <1>5, <1>6, <1>7, Zenon

\* A vote is added or refused.
LEMMA AddVoteApart ==
  ASSUME BaseInv, CertsInv, HighInv, BranchInv, NEW t \in Thread, NEW v \in Vote,
         AddVote(t, v), ~At(t, "setBLeaf")
  PROVE  CertsInv' /\ HighInv' /\ BranchInv'
<1>1. TypeOK /\ VotesInv
  BY Zenon DEF BaseInv
<1>2. CASE proposal = v.block /\ \A w \in votes : w.voter # v.voter
  <2>1. votes' = votes \cup {v} /\ Goto(t, "count") /\ UNCHANGED <<tree, qcHigh, bLeaf, proposal>>
    BY <1>2, Zenon DEF AddVote
  <2>2. /\ \A u \in Thread \ {t} : thread'[u] = thread[u]
        /\ thread'[t].pc = "count" /\ thread'[t].qc = thread[t].qc /\ Blocks' = Blocks
    BY <1>1, <2>1, Zenon DEF Goto, TypeOK, Local, Blocks
  <2>3. Cardinality(votes) >= MajorityCount => Cardinality(votes') >= MajorityCount
    <3>1. Cardinality(votes) \in Nat /\ Cardinality(votes') = Cardinality(votes) + 1
      BY <1>1, <1>2, <2>1, OneMoreVote, Zenon
    <3> QED BY <3>1, StepsAssumption
  <2>4. CertsInv'
    <3>1. ASSUME NEW u \in Thread PROVE CertsOf(u)'
      BY <2>1, <2>2, <2>3, Zenon DEF CertsInv, CertsOf, At, Major
    <3> QED BY <2>1, <2>2, <3>1, Zenon DEF CertsInv, QCIsMajority, Major
  <2>5. HighInv'
    BY <2>1, <2>2, Zenon DEF HighInv, HighOf, At, Higher
  <2>6. BranchInv'
    <3>1. JustifyOnBranch'
      BY <2>1, Zenon DEF BranchInv, JustifyOnBranch, Own
    <3>2. (\A u \in Thread : ~At(u, "setBLeaf"))' => qcHigh.block \in tree[bLeaf].branch
      BY <2>2, Zenon DEF BranchInv, At
    <3>3. (At("update", "createLeaf") \/ At("update", "setBLeafNew"))'
            => qcHigh.block \in tree[thread'["update"].block].branch
      BY <2>2, Zenon DEF BranchInv, At, Thread
    <3> QED BY <2>1, <3>1, <3>2, <3>3, Zenon DEF BranchInv
  <2> QED BY <2>4, <2>5, <2>6, Zenon
<1>3. CASE ~(proposal = v.block /\ \A w \in votes : w.voter # v.voter)
  <2>1. Return(t) /\ UNCHANGED <<tree, shared>>
    BY <1>3, Zenon DEF AddVote, shared
  <2> QED BY <2>1, ReturnApart, Zenon
<1> QED BY <1>2, <1>3, Zenon

\* The certificate is built from the votes that were taken.
LEMMA EndProposalApart ==
  ASSUME BaseInv, CertsInv, HighInv, BranchInv, NEW t \in Thread, EndProposal(t)
  PROVE  CertsInv' /\ HighInv' /\ BranchInv'
<1> DEFINE l == thread[t]
<1>1. TypeOK /\ l \in Local /\ CertsOf(t) /\ At(t, "endProposal")
  BY Zenon DEF BaseInv, TypeOK, CertsInv, EndProposal
<1>2. PICK b \in {v.block : v \in l.votes} \cup (IF l.votes = {} THEN {0} ELSE {}) :
        thread' = [thread EXCEPT ![t].pc = "compare",
                                 ![t].qc = [block |-> b, sigs |-> Cardinality(l.votes)]]
  BY Zenon DEF EndProposal
<1>3. /\ \A u \in Thread \ {t} : thread'[u] = thread[u]
      /\ thread'[t].pc = "compare"
      /\ thread'[t].qc = [block |-> b, sigs |-> Cardinality(l.votes)]
      /\ proposal' = 0 /\ UNCHANGED <<tree, qcHigh, bLeaf>> /\ Blocks' = Blocks
  BY <1>1, <1>2, Zenon DEF TypeOK, Local, EndProposal, Blocks
<1>4. Major(thread'[t].qc)
  BY <1>1, <1>2, <1>3 DEF CertsOf, Major
<1>5. CertsInv'
  <2>1. ASSUME NEW u \in Thread PROVE CertsOf(u)'
    BY <1>3, <1>4, Zenon DEF CertsInv, CertsOf, At, Major
  <2> QED BY <1>3, <2>1, Zenon DEF CertsInv, QCIsMajority, Major
<1>6. HighInv'
  BY <1>3, Zenon DEF HighInv, HighOf, At, Higher
<1>7. BranchInv'
  <2>1. JustifyOnBranch'
    BY <1>3, Zenon DEF BranchInv, JustifyOnBranch, Own
  <2>2. (\A u \in Thread : ~At(u, "setBLeaf"))' => qcHigh.block \in tree[bLeaf].branch
    BY <1>1, <1>3, Zenon DEF BranchInv, At
  <2>3. (At("update", "createLeaf") \/ At("update", "setBLeafNew"))'
          => qcHigh.block \in tree[thread'["update"].block].branch
    BY <1>3, Zenon DEF BranchInv, At, Thread
  <2> QED BY <1>3, <2>1, <2>2, <2>3, Zenon DEF BranchInv
<1> QED BY <1>5, <1>6, <1>7, Zenon

\* UpdateQCHigh sets qcHigh and then bLeaf, while no other thread works on them.
LEMMA UpdateQCHighApart ==
  ASSUME BaseInv, ~Overlap, CertsInv, HighInv, BranchInv, NEW t \in Thread,
         SetQCHigh(t) \/ SetBLeaf(t)
  PROVE  CertsInv' /\ HighInv' /\ BranchInv'
<1>1. TypeOK /\ NamesInv /\ ThreadNames(t) /\ CertsOf(t) /\ HighOf(t)
  BY Zenon DEF BaseInv, NamesInv, CertsInv, HighInv
<1>2. Moving(t)
  BY Zenon DEF SetQCHigh, SetBLeaf, At, Moving
<1>3. \A u \in Thread \ {t} :
        ~At(u, "setQCHigh") /\ ~At(u, "setBLeaf") /\ ~At(u, "createLeaf") /\ ~At(u, "setBLeafNew")
  BY <1>2, Zenon DEF Overlap, Moving, At
<1>4. CASE SetQCHigh(t)
  <2>1. /\ At(t, "setQCHigh") /\ qcHigh' = thread[t].qc
        /\ UNCHANGED <<tree, bLeaf, proposal, votes>> /\ Blocks' = Blocks
        /\ \A u \in Thread \ {t} : thread'[u] = thread[u]
        /\ thread'[t].pc = "setBLeaf" /\ thread'[t].qc = thread[t].qc
    BY <1>1, <1>4, Zenon DEF SetQCHigh, Goto, TypeOK, Local, Blocks
  <2>2. CertsInv'
    <3>1. ASSUME NEW u \in Thread PROVE CertsOf(u)'
      BY <2>1, Zenon DEF CertsInv, CertsOf, At, Major
    <3>2. QCIsMajority'
      BY <1>1, <2>1, Zenon DEF QCIsMajority, CertsOf, Major, ThreadNames, At
    <3> QED BY <2>1, <3>1, <3>2, Zenon DEF CertsInv, Major
  <2>3. HighInv'
    BY <1>3, <2>1, Zenon DEF HighInv, HighOf, At
  <2>4. BranchInv'
    <3>1. JustifyOnBranch'
      BY <2>1, Zenon DEF BranchInv, JustifyOnBranch, Own
    <3>2. At(t, "setBLeaf")' /\ ~At("update", "createLeaf")' /\ ~At("update", "setBLeafNew")'
      BY <1>3, <2>1, Zenon DEF At, Thread
    <3> QED BY <3>1, <3>2, Zenon DEF BranchInv
  <2> QED BY <2>2, <2>3, <2>4, Zenon
<1>5. CASE SetBLeaf(t)
  <2>1. /\ At(t, "setBLeaf") /\ bLeaf' = thread[t].qc.block /\ Return(t)
        /\ UNCHANGED <<tree, qcHigh, proposal, votes>> /\ Blocks' = Blocks
    BY <1>5, Zenon DEF SetBLeaf, Blocks
  <2>2. /\ CertsOf(t)' /\ HighOf(t)' /\ ~At(t, "createLeaf")' /\ ~At(t, "setBLeafNew")'
        /\ \A u \in Thread \ {t} : thread'[u] = thread[u]
    BY <2>1, ReturnOf, Zenon
  <2>3. CertsInv'
    <3>1. ASSUME NEW u \in Thread PROVE CertsOf(u)'
      BY <2>1, <2>2, Zenon DEF CertsInv, CertsOf, At, Major
    <3> QED BY <2>1, <3>1, Zenon DEF CertsInv, QCIsMajority, Major
  <2>4. HighInv'
    BY <1>3, <2>2, Zenon DEF HighInv, HighOf, At
  <2>5. BranchInv'
    <3>1. JustifyOnBranch'
      BY <2>1, Zenon DEF BranchInv, JustifyOnBranch, Own
    <3>2. qcHigh.block \in tree[thread[t].qc.block].branch
      <4>1. thread[t].qc = qcHigh /\ qcHigh.block \in Blocks
        BY <1>1, <2>1, QCsKnown, Zenon DEF HighOf
      <4> QED BY <4>1, Zenon DEF BaseInv, NamesInv, TreeNames
    <3>3. ~At("update", "createLeaf")' /\ ~At("update", "setBLeafNew")'
      BY <1>3, <2>2, Zenon DEF At, Thread
    <3> QED BY <2>1, <3>1, <3>2, <3>3, Zenon DEF BranchInv
  <2> QED BY <2>3, <2>4, <2>5, Zenon
<1> QED BY <1>4, <1>5, Zenon

\* The initial state.
LEMMA InitApart == Init => ApartInv
<1> SUFFICES ASSUME Init PROVE ApartInv
  BY Zenon
<1>1. PICK p \in Voter :
        tree = <<[height |-> 0, parent |-> 0, branch |-> {1}, qc |-> NilQC, proposer |-> p]>>
  BY Zenon DEF Init
<1>2. Len(tree) = 1 /\ Blocks = {1} /\ tree[1].branch = {1} /\ tree[1].qc = NilQC
  BY <1>1, SMTT(60) DEF Blocks
<1>3. \A t \in Thread : thread[t].pc = "idle" /\ thread[t].qc = NilQC
  BY Zenon DEF Init, Idle
<1>4. ~Overlap
  BY <1>3, Zenon DEF Overlap, Moving, At, Thread
<1>5. CertsInv
  BY <1>2, <1>3, StepsAssumption DEF CertsInv, CertsOf, QCIsMajority, Major, At, NilQC, Init
<1>6. HighInv
  BY <1>3, Zenon DEF HighInv, HighOf, At
<1>7. BranchInv
  BY <1>2, <1>3 DEF BranchInv, JustifyOnBranch, At, Init, Thread
<1> QED BY <1>4, <1>5, <1>6, <1>7, Zenon DEF ApartInv

\* Every step after which nothing has overlapped keeps it.
LEMMA ApartStep ==
  ASSUME BaseInv, ApartInv, Step, ~Overlap'
  PROVE  ApartInv'
<1>1. ~Overlap /\ CertsInv /\ HighInv /\ BranchInv
  BY Zenon DEF ApartInv
<1> SUFFICES CertsInv' /\ HighInv' /\ BranchInv'
  BY Zenon DEF ApartInv
<1>2. CASE Beat \/ \E q \in ValidQC : ReceiveNewView(q)
  BY <1>1, <1>2, QuietApart, Zenon DEF Thread
<1>3. CASE \E t \in Thread : Count(t) \/ GetVotes(t) \/ Compare(t)
  BY <1>1, <1>3, QuietApart, Zenon
<1>4. CASE \/ CreateLeaf
           \/ \E u \in Voter \ {Me}, p \in 1 .. Len(tree), q \in ValidQC : ReceiveProposal(u, p, q)
  BY <1>1, <1>4, TreeApart, Zenon DEF Blocks
<1>5. CASE SetBLeafNew \/ StartProposal
  BY <1>1, <1>5, ProposeApart, Zenon
<1>6. CASE OwnVote
  <2>1. thread["update"].block \in Blocks /\ "update" \in Thread /\ ~At("update", "setBLeaf")
    BY <1>6, Zenon DEF OwnVote, At, BaseInv, NamesInv, ThreadNames, Thread, Proposing
  <2>2. [voter |-> Me, block |-> thread["update"].block] \in Vote
    BY <2>1, Known, StepsAssumption, Zenon DEF BaseInv, Vote
  <2> QED BY <1>1, <1>6, <2>1, <2>2, AddVoteApart, Zenon DEF OwnVote
<1>7. CASE \E u \in Voter \ {Me}, b \in 1 .. Len(tree) : ReceiveVote(u, b)
  <2>1. PICK u \in Voter, b \in Blocks : ReceiveVote(u, b)
    BY <1>7, Zenon DEF Blocks
  <2>2. [voter |-> u, block |-> b] \in Vote /\ "vote" \in Thread /\ ~At("vote", "setBLeaf")
    BY <2>1, Known, Zenon DEF BaseInv, Vote, Thread, ReceiveVote, At
  <2> QED BY <1>1, <2>1, <2>2, AddVoteApart, Zenon DEF ReceiveVote
<1>8. CASE \E t \in Thread : EndProposal(t)
  BY <1>1, <1>8, EndProposalApart, Zenon
<1>9. CASE \E t \in Thread : SetQCHigh(t) \/ SetBLeaf(t)
  BY <1>1, <1>9, UpdateQCHighApart, Zenon
<1> QED BY <1>2, <1>3, <1>4, <1>5, <1>6, <1>7, <1>8, <1>9, Zenon DEF Step

\* A step without overlap never lowers qcHigh.
LEMMA NeverLower ==
  ASSUME BaseInv, ApartInv, Step
  PROVE  ~Higher(qcHigh, qcHigh')
<1>1. /\ qcHigh.block \in Blocks /\ tree[qcHigh.block].height \in Nat
  BY QCsKnown, Known, Zenon DEF BaseInv
<1>2. CASE \E t \in Thread : SetQCHigh(t)
  <2>1. PICK t \in Thread : SetQCHigh(t)
    BY <1>2, Zenon
  <2>2. qcHigh' = thread[t].qc /\ Higher(thread[t].qc, qcHigh)
    BY <2>1, Zenon DEF SetQCHigh, ApartInv, HighInv, HighOf
  <2>3. thread[t].qc.block \in Blocks /\ tree[thread[t].qc.block].height \in Nat
    BY <2>2, QCsKnown, Known, Zenon DEF BaseInv, Higher
  <2> QED BY <1>1, <2>2, <2>3 DEF Higher
<1>3. CASE UNCHANGED qcHigh
  BY <1>1, <1>3, Known DEF Higher, BaseInv
<1> QED
  BY <1>2, <1>3, Zenon DEF Step, Beat, CreateLeaf, SetBLeafNew, StartProposal, OwnVote, ReceiveVote,
     AddVote, Count, GetVotes, EndProposal, Compare, SetBLeaf, ReceiveNewView, ReceiveProposal, shared

-----------------------------------------------------------------------------
(* The theorems about overlaps. *)

\* The invariant is inductive.
LEMMA AlwaysApart == Spec => [](BaseInv /\ (overlapped \/ ApartInv))
<1>1. Init => BaseInv /\ (overlapped \/ ApartInv)
  BY InitBase, InitApart, Zenon
<1>2. BaseInv /\ (overlapped \/ ApartInv) /\ [Next]_vars => (overlapped \/ ApartInv)'
  <2> SUFFICES ASSUME BaseInv, overlapped \/ ApartInv, [Next]_vars PROVE (overlapped \/ ApartInv)'
    BY Zenon
  <2>1. CASE UNCHANGED vars
    BY <2>1, Zenon
       DEF vars, shared, ApartInv, Overlap, Moving, At, CertsInv, CertsOf, Major, HighInv,
       HighOf, Higher, BranchInv, JustifyOnBranch, QCIsMajority, Own, Blocks
  <2>2. CASE Next
    <3>1. Step /\ (overlapped' \/ (~overlapped /\ ~Overlap'))
      BY <2>2, Zenon DEF Next
    <3> QED BY <3>1, ApartStep, Zenon
  <2> QED BY <2>1, <2>2, Zenon
<1> QED BY <1>1, <1>2, BaseStep, PTL DEF Spec

\* As long as no two calls into the HotStuff state have overlapped, qcHigh has the
\* signatures of a majority and every proposal of the node carries the certificate
\* of one of its ancestors, although OnReceiveVote and UpdateQCHigh do not take
\* mtxUpdate.
THEOREM SoundApart == Spec => []SoundUnlessOverlapped
<1>1. BaseInv /\ (overlapped \/ ApartInv) => SoundUnlessOverlapped
  BY Zenon DEF ApartInv, CertsInv, BranchInv, SoundUnlessOverlapped
<1> QED BY <1>1, AlwaysApart, PTL

\* Only an overlap can make UpdateQCHigh put a lower certificate in the place of a
\* higher one: the comparison and the assignment are two steps.
THEOREM RisesApart == Spec => LowerOnlyOverlapped
<1>1. BaseInv /\ (overlapped \/ ApartInv) /\ [Next]_vars
        => [overlapped' \/ ~Higher(qcHigh, qcHigh')]_vars
  <2> SUFFICES ASSUME BaseInv, overlapped \/ ApartInv, Next
               PROVE  overlapped' \/ ~Higher(qcHigh, qcHigh')
    BY Zenon
  <2>1. Step /\ (overlapped' \/ ~overlapped)
    BY Zenon DEF Next
  <2> QED BY <2>1, NeverLower, Zenon
<1> QED BY <1>1, AlwaysApart, PTL DEF Spec, LowerOnlyOverlapped

=============================================================================
