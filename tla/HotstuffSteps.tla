--------------------------- MODULE HotstuffSteps ----------------------------
(***************************************************************************)
(* The HotStuff state of one node between its goroutines.  Module Hotstuff *)
(* takes every call into hotstuff/hotstuff.go as one step; only the calls  *)
(* made under mtxUpdate are.  The vote loop and the new-view loop of       *)
(* consensus/validator.go call OnReceiveVote and UpdateQCHigh without it,  *)
(* so here every access to what they share with the others is a step:      *)
(* qcHigh and bLeaf (atomic values), proposal and votes (under pMtx).      *)
(* What only the holder of mtxUpdate touches (bVote, bLock, bExec) is left *)
(* to module Hotstuff.                                                     *)
(***************************************************************************)
EXTENDS Naturals, Sequences, FiniteSets

CONSTANTS
  Voter,         \* the validators
  Me,            \* the one whose state this is
  MajorityCount,
  MaxBlocks      \* bounds the blocks

ASSUME StepsAssumption == /\ Me \in Voter /\ IsFiniteSet(Voter)
                          /\ MajorityCount \in Nat \ {0} /\ MaxBlocks \in Nat

Thread == {"update", "vote", "newView"}   \* the holder of mtxUpdate; two loops

VARIABLES
  tree,          \* the blocks, named by their place here; the first is genesis
  qcHigh, bLeaf,
  proposal,      \* the block being voted, 0 for nil
  votes,
  thread,        \* of each goroutine: the next step and its local variables
  overlapped     \* history: two calls have worked on the same values at once

shared == <<qcHigh, bLeaf, proposal, votes>>
vars == <<tree, shared, thread, overlapped>>

\* A certificate: the block it names, 0 when it was built from no vote, and how
\* many signatures it has.
NilQC == [block |-> 0, sigs |-> 0]

\* CmpBlockHeight: nil is below every block.
Higher(qc, qc2) ==
  qc.block # 0 /\ (qc2.block = 0 \/ tree[qc.block].height > tree[qc2.block].height)

Own(b) == tree[b].proposer = Me

\* A new block on p; its branch is what its parents lead to.
Leaf(p, qc, proposer) ==
  [height |-> tree[p].height + 1, parent |-> p, branch |-> tree[p].branch \cup {Len(tree) + 1},
   qc |-> qc, proposer |-> proposer]

Idle == [pc |-> "idle", block |-> 0, qc |-> NilQC, votes |-> {}]

Init ==
  /\ \E p \in Voter :
       tree = <<[height |-> 0, parent |-> 0, branch |-> {1}, qc |-> NilQC, proposer |-> p]>>
  /\ qcHigh = [block |-> 1, sigs |-> MajorityCount] /\ bLeaf = 1
  /\ proposal = 0 /\ votes = {}
  /\ thread = [t \in Thread |-> Idle]
  /\ overlapped = FALSE

-----------------------------------------------------------------------------
(* Thread t goes on at pc, or returns. *)

Goto(t, pc) == thread' = [thread EXCEPT ![t].pc = pc]

\* After the vote for its own proposal the pacemaker calls Update, whose first
\* access to the shared values is UpdateQCHigh with the proposal's certificate.
Return(t) ==
  thread' = [thread EXCEPT ![t] =
               IF thread[t].block = 0 THEN Idle
               ELSE [Idle EXCEPT !.pc = "compare", !.qc = tree[thread[t].block].qc]]

At(t, pc) == thread[t].pc = pc

-----------------------------------------------------------------------------
(* pacemaker.onBeat and OnPropose, which hold mtxUpdate. *)

\* GetBLeaf.
Beat ==
  /\ At("update", "idle") /\ Len(tree) < MaxBlocks
  /\ thread' = [thread EXCEPT !["update"] = [Idle EXCEPT !.pc = "createLeaf", !.block = bLeaf]]
  /\ UNCHANGED <<tree, shared>>

\* GetQCHigh and CreateLeaf.
CreateLeaf ==
  /\ At("update", "createLeaf")
  /\ tree' = Append(tree, Leaf(thread["update"].block, qcHigh, Me))
  /\ thread' = [thread EXCEPT !["update"].pc = "setBLeafNew", !["update"].block = Len(tree) + 1]
  /\ UNCHANGED shared

SetBLeafNew ==
  /\ At("update", "setBLeafNew")
  /\ bLeaf' = thread["update"].block
  /\ Goto("update", "startProposal")
  /\ UNCHANGED <<tree, qcHigh, proposal, votes>>

\* A mutant: the votes for the last proposal are kept.
StartProposalKeepsVotes ==
  /\ At("update", "startProposal")
  /\ proposal' = thread["update"].block
  /\ Goto("update", "addVote")
  /\ UNCHANGED <<tree, qcHigh, bLeaf, votes>>

\* startProposal and BroadcastProposal; the proposer's own vote comes next.
StartProposal ==
  /\ At("update", "startProposal")
  /\ proposal' = thread["update"].block /\ votes' = {}
  /\ Goto("update", "addVote")
  /\ UNCHANGED <<tree, qcHigh, bLeaf>>

-----------------------------------------------------------------------------
(* OnReceiveVote. *)

\* addVote, under pMtx: another block than the proposal and a voter that has voted
\* are refused.
AddVote(t, v) ==
  /\ IF proposal = v.block /\ \A w \in votes : w.voter # v.voter
     THEN votes' = votes \cup {v} /\ Goto(t, "count")
     ELSE UNCHANGED votes /\ Return(t)
  /\ UNCHANGED <<tree, qcHigh, bLeaf, proposal>>

OwnVote ==
  /\ At("update", "addVote")
  /\ AddVote("update", [voter |-> Me, block |-> thread["update"].block])

\* The blocks of this node that have been broadcast.
Broadcast == {b \in 1 .. Len(tree) :
                Own(b) /\ (b = thread["update"].block =>
                             ~At("update", "setBLeafNew") /\ ~At("update", "startProposal"))}

\* validator.onReceiveVote; a vote may come late and more than once.
ReceiveVote(u, b) ==
  /\ At("vote", "idle") /\ b \in Broadcast
  /\ AddVote("vote", [voter |-> u, block |-> b])

\* A mutant: one vote too few is enough.
CountOneLess(t) ==
  /\ At(t, "count")
  /\ IF Cardinality(votes) >= MajorityCount - 1 THEN Goto(t, "getVotes") ELSE Return(t)
  /\ UNCHANGED <<tree, shared>>

\* GetVoteCount.
Count(t) ==
  /\ At(t, "count")
  /\ IF Cardinality(votes) >= MajorityCount THEN Goto(t, "getVotes") ELSE Return(t)
  /\ UNCHANGED <<tree, shared>>

GetVotes(t) ==
  /\ At(t, "getVotes")
  /\ thread' = [thread EXCEPT ![t].pc = "endProposal", ![t].votes = votes]
  /\ UNCHANGED <<tree, shared>>

\* endProposal, then CreateQC: Build takes the block of the first vote.
EndProposal(t) ==
  /\ At(t, "endProposal")
  /\ proposal' = 0 /\ votes' = {}
  /\ \E b \in {v.block : v \in thread[t].votes} \cup (IF thread[t].votes = {} THEN {0} ELSE {}) :
       thread' = [thread EXCEPT ![t].pc = "compare",
                                ![t].qc = [block |-> b, sigs |-> Cardinality(thread[t].votes)]]
  /\ UNCHANGED <<tree, qcHigh, bLeaf>>

-----------------------------------------------------------------------------
(* UpdateQCHigh. *)

\* A mutant: the certificate is taken without comparing.
CompareNot(t) ==
  /\ At(t, "compare")
  /\ IF thread[t].qc.block # 0 THEN Goto(t, "setQCHigh") ELSE Return(t)
  /\ UNCHANGED <<tree, shared>>

\* The thread's block, if any, has been handed to Update by the time it returns.
Compare(t) ==
  /\ At(t, "compare")
  /\ IF Higher(thread[t].qc, qcHigh) THEN Goto(t, "setQCHigh") ELSE Return(t)
  /\ UNCHANGED <<tree, shared>>

SetQCHigh(t) ==
  /\ At(t, "setQCHigh")
  /\ qcHigh' = thread[t].qc
  /\ Goto(t, "setBLeaf")
  /\ UNCHANGED <<tree, bLeaf, proposal, votes>>

\* The event that follows wakes the pacemaker, which beats at any time anyway.
SetBLeaf(t) ==
  /\ At(t, "setBLeaf")
  /\ bLeaf' = thread[t].qc.block
  /\ Return(t)
  /\ UNCHANGED <<tree, qcHigh, proposal, votes>>

-----------------------------------------------------------------------------
(* The other nodes. *)

\* Certificates that pass Validate: of blocks of others, and the ones that
\* proposals have carried.
ValidQC == {[block |-> b, sigs |-> MajorityCount] : b \in {x \in 1 .. Len(tree) : ~Own(x)}}
           \cup {q \in {tree[b].qc : b \in 1 .. Len(tree)} : q.sigs >= MajorityCount}

\* validator.onReceiveNewView.
ReceiveNewView(q) ==
  /\ At("newView", "idle")
  /\ thread' = [thread EXCEPT !["newView"] = [Idle EXCEPT !.pc = "compare", !.qc = q]]
  /\ UNCHANGED <<tree, shared>>

\* updateHotstuff with the block of another node on a known parent.
ReceiveProposal(u, p, q) ==
  /\ At("update", "idle") /\ Len(tree) < MaxBlocks
  /\ tree' = Append(tree, Leaf(p, q, u))
  /\ thread' = [thread EXCEPT !["update"] = [Idle EXCEPT !.pc = "compare", !.qc = q]]
  /\ UNCHANGED shared

-----------------------------------------------------------------------------
\* Two threads are between reading qcHigh or bLeaf and writing them, or a proposal
\* is about to start while the votes for the last one are taken.
Moving(t) == thread[t].pc \in {"createLeaf", "setBLeafNew", "setQCHigh", "setBLeaf"}
Overlap ==
  \/ \E t, u \in Thread : t # u /\ Moving(t) /\ Moving(u)
  \/ At("update", "startProposal") /\ (At("vote", "getVotes") \/ At("vote", "endProposal"))

Step ==
  \/ Beat \/ CreateLeaf \/ SetBLeafNew \/ StartProposal \/ OwnVote
  \/ \E u \in Voter \ {Me}, b \in 1 .. Len(tree) : ReceiveVote(u, b)
  \/ \E t \in Thread : \/ Count(t) \/ GetVotes(t) \/ EndProposal(t)
                       \/ Compare(t) \/ SetQCHigh(t) \/ SetBLeaf(t)
  \/ \E q \in ValidQC : ReceiveNewView(q)
  \/ \E u \in Voter \ {Me}, p \in 1 .. Len(tree), q \in ValidQC : ReceiveProposal(u, p, q)

Next == Step /\ overlapped' = (overlapped \/ Overlap')

Spec == Init /\ [][Next]_vars

-----------------------------------------------------------------------------
\* The votes that CreateQC is given are for one block, of different voters,
\* whatever the pacemaker starts meanwhile (addVote, startProposal and GetVotes
\* under pMtx): a certificate's signatures are all of its block.
VotesOfOneBlock ==
  \A t \in Thread : \A v, w \in thread[t].votes :
    v.block = w.block /\ (v.voter = w.voter => v = w)

\* Every certificate that the node works with has the signatures of a majority
\* ("A Quorum Certificate (QC) is the combination of signatures from majority
\* nodes", docs/key-concepts/consensus.md).
QCIsMajority == qcHigh.sigs >= MajorityCount

\* A proposal of this node carries the certificate of a block below it.
JustifyOnBranch ==
  \A b \in 2 .. Len(tree) : Own(b) => tree[b].qc.block \in tree[tree[b].parent].branch

\* As long as no two calls overlap, the goroutines do what the single steps of
\* module Hotstuff do: certificates are of majorities, proposals carry the
\* certificate of an ancestor.  Without mtxUpdate nothing keeps them apart.
SoundUnlessOverlapped == overlapped \/ (QCIsMajority /\ JustifyOnBranch)

\* Only an overlap can put a lower certificate in the place of a higher one
\* (UpdateQCHigh compares and sets in two steps).
LowerOnlyOverlapped ==
  [][overlapped' \/ ~Higher(qcHigh, qcHigh')]_vars

-----------------------------------------------------------------------------
(* The inductive invariant behind them. *)

QC == [block : Nat, sigs : Nat]
Vote == [voter : Voter, block : Nat \ {0}]
Block == [height : Nat, parent : Nat, branch : SUBSET Nat, qc : QC, proposer : Voter]
Blocks == 1 .. Len(tree)

PC == {"idle", "createLeaf", "setBLeafNew", "startProposal", "addVote", "count",
       "getVotes", "endProposal", "compare", "setQCHigh", "setBLeaf"}

Local == [pc : PC, block : Nat, qc : QC, votes : SUBSET Vote]

\* Every variable has its type.
TypeOK ==
  /\ tree \in Seq(Block)
  /\ Len(tree) >= 1
  /\ qcHigh \in QC /\ bLeaf \in Nat /\ proposal \in Nat
  /\ votes \in SUBSET Vote
  /\ thread \in [Thread -> Local]
  /\ overlapped \in BOOLEAN

\* What is named is a block of the tree, and only the holder of mtxUpdate proposes.
TreeNames ==
  /\ qcHigh.block \in Blocks /\ bLeaf \in Blocks
  /\ \A v \in votes : v.block \in Blocks
  /\ \A b \in Blocks : /\ b \in tree[b].branch
                       /\ tree[b].qc.block \in Blocks \cup {0}
                       /\ b # 1 => tree[b].parent \in Blocks

Proposing == {"createLeaf", "setBLeafNew", "startProposal", "addVote"}

ThreadNames(t) ==
  /\ thread[t].block \in Blocks \cup {0}
  /\ thread[t].qc.block \in Blocks \cup {0}
  /\ \A v \in thread[t].votes : v.block \in Blocks
  /\ thread[t].pc \in {"setQCHigh", "setBLeaf"} => thread[t].qc.block # 0
  /\ thread[t].pc \in Proposing => thread[t].block # 0
  /\ thread[t].block # 0 => t = "update"
  /\ t = "newView" => thread[t].pc \in {"idle", "compare", "setQCHigh", "setBLeaf"}

NamesInv == TreeNames /\ \A t \in Thread : ThreadNames(t)

\* Votes are collected for one block.
OneBlock(vs) == \A v, w \in vs : v.block = w.block /\ (v.voter = w.voter => v = w)

VotesInv ==
  /\ IsFiniteSet(votes) /\ OneBlock(votes) /\ \A v \in votes : v.block = proposal
  /\ \A t \in Thread : IsFiniteSet(thread[t].votes) /\ OneBlock(thread[t].votes)

\* What holds until calls overlap: enough votes stay there for the one who counted
\* them, a certificate found higher stays higher, bLeaf is above qcHigh.
Major(qc) == qc.block = 0 \/ qc.sigs >= MajorityCount

CertsOf(t) ==
  /\ Major(thread[t].qc)
  /\ At(t, "getVotes") => proposal = 0 \/ Cardinality(votes) >= MajorityCount
  /\ At(t, "endProposal") => thread[t].votes = {} \/ Cardinality(thread[t].votes) >= MajorityCount

CertsInv ==
  /\ QCIsMajority
  /\ \A b \in Blocks : Major(tree[b].qc)
  /\ \A t \in Thread : CertsOf(t)

HighOf(t) ==
  /\ At(t, "setQCHigh") => Higher(thread[t].qc, qcHigh)
  /\ At(t, "setBLeaf") => thread[t].qc = qcHigh

HighInv == \A t \in Thread : HighOf(t)

BranchInv ==
  /\ JustifyOnBranch
  /\ (\A t \in Thread : ~At(t, "setBLeaf")) => qcHigh.block \in tree[bLeaf].branch
  /\ At("update", "createLeaf") \/ At("update", "setBLeafNew")
       => qcHigh.block \in tree[thread["update"].block].branch

ApartInv == ~Overlap /\ CertsInv /\ HighInv /\ BranchInv

StepsInv == TypeOK /\ NamesInv /\ VotesInv /\ (overlapped \/ ApartInv)

=============================================================================
