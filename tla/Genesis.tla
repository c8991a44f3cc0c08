------------------------------ MODULE Genesis ------------------------------
(***************************************************************************)
(* How the validators agree on the genesis block: consensus/genesis.go on  *)
(* every node, until the block is committed, with processes that restart   *)
(* before that.  The first validator leads.  A genesis block is named by   *)
(* the number of its creation, which stands for its timestamp.             *)
(*                                                                         *)
(* proposalLoop, voteLoop and newViewLoop are goroutines of their own, and *)
(* so is run, which waits for done and commits.  Their selects may pick an *)
(* event when done is closed already, so that a proposal can be handled up *)
(* to the commit and after it.  What voteLoop does then is left out: it    *)
(* changes votes that nobody counts any more.                              *)
(*                                                                         *)
(* Messages of different kinds and senders overtake each other.  Genesis   *)
(* proposals have one sender: a peer's messages are read by one listen at  *)
(* a time, which ends before the next stream is set up (p2p/peer.go), and  *)
(* go through channels, so these come in order, or not at all.             *)
(***************************************************************************)
EXTENDS Naturals, FiniteSets

CONSTANTS
  Node,         \* the validators
  Leader,       \* the one with index 0
  LeaderRestarts, FollowerRestarts   \* bounds: restarts before the genesis commit

ASSUME NodeAssumption == IsFiniteSet(Node) /\ Leader \in Node /\ Cardinality(Node) > 1
ASSUME RestartAssumption == LeaderRestarts \in Nat /\ FollowerRestarts \in Nat

MajorityCount == (2 * Cardinality(Node) + 3) \div 3

None == 0
Block == 1 .. LeaderRestarts + 1
Mixed == LeaderRestarts + 2    \* a certificate of votes for different blocks

VARIABLES
  b0,           \* genesis.b0 of each node
  open,         \* the leader has made the map genesis.votes
  votes,        \* genesis.votes of the leader: a block per voter, or None
  q0,           \* genesis.q0 of the leader: the block it certifies, None or Mixed
  inbox,        \* messages sent and not handled
  fetching,     \* nodes whose proposalLoop is in fetchGenesisBlockAndQC
  accepting,    \* the certificate newViewLoop has compared with b0, or None
  closing,      \* goroutines about to close done: the node and the loop
  done,         \* nodes whose done channel is closed
  stored,       \* the block each node commited to its storage, or None
  root,         \* the block run returned, from which the node goes on, or None
  dead,         \* nodes whose process ended in a panic
  started,      \* the genesis block on which block 1 is committed, or None
  created,      \* history: genesis blocks created
  restarts,     \* followers that restarted
  late,         \* history: a valid certificate of a former block of the leader is out
  fetched,      \* history: nodes that got b0 from a peer
  overtaken,    \* history: those that took an older proposal after that
  signers       \* history: whose votes are in a valid certificate

loops == <<fetching, accepting, closing>>
results == <<stored, root, dead>>
bounds == <<created, restarts, late>>
history == <<fetched, overtaken, signers>>
vars == <<b0, open, votes, q0, inbox, loops, done, results, started, bounds, history>>

NoVotes == [n \in Node |-> None]
ProposalTo(n, b) == [type |-> "proposal", to |-> n, block |-> b]
VoteOf(n, b) == [type |-> "vote", to |-> Leader, from |-> n, block |-> b]
NewViewTo(n, b) == [type |-> "newView", to |-> n, block |-> b]

Voters(v) == {n \in Node : v[n] # None}

\* voteLoop has a majority of votes, and is in broadcastQC.
Full(v) == Cardinality(Voters(v)) >= MajorityCount

Loops == {"proposal", "newView"}

\* The loop of the node is back at its select.
ProposalLoopIdle(n) == n \notin dead \cup fetching /\ <<n, "proposal">> \notin closing
NewViewLoopIdle(n) == n \notin dead /\ accepting[n] = None /\ <<n, "newView">> \notin closing

-----------------------------------------------------------------------------
\* genesis.propose: the leader makes the map of votes, creates a block and goes on to
\* count its own vote, which does not have to be the first one.
Propose ==
  /\ Leader \notin dead /\ ~open /\ created < LeaderRestarts + 1
  /\ open' = TRUE
  /\ created' = created + 1
  /\ b0' = [b0 EXCEPT ![Leader] = created + 1]
  /\ inbox' = inbox \cup {VoteOf(Leader, created + 1)}
  /\ UNCHANGED <<votes, q0, loops, done, results, started, restarts, late, history>>

\* broadcastProposalLoop, every 2 seconds until there is a certificate.  A node that has
\* the block would only vote again, and is left out.
BroadcastProposal ==
  /\ Leader \notin dead \cup done /\ open /\ q0 = None
  /\ inbox' = inbox \cup {ProposalTo(n, b0[Leader]) : n \in {m \in Node : b0[m] # b0[Leader]}}
  /\ UNCHANGED <<b0, open, votes, q0, loops, done, results, started, bounds, history>>

\* onReceiveProposal of a genesis block: take it, whatever b0 was, and vote.  The
\* older ones that did not arrive never will.
OnReceiveProposal(n, b) ==
  /\ ProposalTo(n, b) \in inbox /\ ProposalLoopIdle(n)
  /\ b0' = [b0 EXCEPT ![n] = b]
  /\ inbox' = (inbox \ {ProposalTo(n, c) : c \in 1 .. b})
              \cup (IF Full(votes) THEN {} ELSE {VoteOf(n, b)})
  /\ overtaken' = IF n \in fetched /\ b # b0[n] THEN overtaken \cup {n} ELSE overtaken
  /\ UNCHANGED <<open, votes, q0, loops, done, results, started, bounds, fetched, signers>>

\* acceptVote: the block of a vote is not compared with b0.  With a majority of
\* votes the certificate is built, and voteLoop goes no further.
AcceptVote(n, b) ==
  LET all == [votes EXCEPT ![n] = b]
      valid == Full(all) /\ \A v \in Voters(all) : all[v] = b
  IN /\ VoteOf(n, b) \in inbox /\ Leader \notin dead \cup done
     /\ open /\ ~Full(votes)
     /\ inbox' = {m \in inbox : m.type = "vote" => m # VoteOf(n, b) /\ ~Full(all)}
     /\ votes' = all
     /\ q0' = IF valid THEN b ELSE IF Full(all) THEN Mixed ELSE q0
     /\ signers' = IF valid THEN Voters(all) ELSE signers
     /\ late' = (late \/ (valid /\ b # b0[Leader]))
     /\ UNCHANGED <<b0, open, loops, done, results, started, created, restarts, fetched, overtaken>>

\* broadcastQC, every second until done.  The others reject a mixed certificate
\* (QuorumCert.Validate), and one that is done drops any, so these are not sent here.
BroadcastQC ==
  /\ Leader \notin dead \cup done /\ Full(votes) /\ q0 # Mixed
  /\ inbox' = inbox \cup {NewViewTo(n, q0) : n \in Node \ (done \cup {Leader})}
  /\ UNCHANGED <<b0, open, votes, q0, loops, done, results, started, bounds, history>>

\* Mutant: the certificate is not compared with b0.
OnReceiveNewViewAny(n, b) ==
  /\ NewViewTo(n, b) \in inbox /\ NewViewLoopIdle(n)
  /\ inbox' = inbox \ {NewViewTo(n, b)}
  /\ accepting' = [accepting EXCEPT ![n] = IF b0[n] # None THEN b ELSE None]
  /\ UNCHANGED <<b0, open, votes, q0, fetching, closing, done, results, started, bounds, history>>

\* onReceiveNewView: a certificate that is not of b0 is dropped.
OnReceiveNewView(n, b) ==
  /\ NewViewTo(n, b) \in inbox /\ NewViewLoopIdle(n)
  /\ inbox' = inbox \ {NewViewTo(n, b)}
  /\ accepting' = [accepting EXCEPT ![n] = IF b0[n] = b THEN b ELSE None]
  /\ UNCHANGED <<b0, open, votes, q0, fetching, closing, done, results, started, bounds, history>>

\* What acceptQC does up to the close: the certificate is set, and a follower sends
\* it back to the leader.
SetAndSend(n) ==
  /\ q0' = IF n = Leader THEN accepting[n] ELSE q0
  /\ inbox' = IF n = Leader THEN inbox ELSE inbox \cup {NewViewTo(Leader, accepting[n])}
  /\ closing' = closing \cup {<<n, "newView">>}

\* Mutant: acceptQC does not look at done.
AcceptQCAgain(n) ==
  /\ n \notin dead /\ accepting[n] # None
  /\ SetAndSend(n)
  /\ accepting' = [accepting EXCEPT ![n] = None]
  /\ UNCHANGED <<b0, open, votes, fetching, done, results, started, bounds, history>>

\* acceptQC: "already done genesis", or else the certificate ends it.
AcceptQC(n) ==
  /\ n \notin dead /\ accepting[n] # None
  /\ IF n \in done THEN UNCHANGED <<q0, inbox, closing>> ELSE SetAndSend(n)
  /\ accepting' = [accepting EXCEPT ![n] = None]
  /\ UNCHANGED <<b0, open, votes, fetching, done, results, started, bounds, history>>

\* close(done), in acceptQC or in fetchGenesisBlockAndQC.  The second one is a panic,
\* which ends the process, and with it its connections.
Close(n, loop) ==
  /\ n \notin dead /\ <<n, loop>> \in closing
  /\ closing' = closing \ {<<n, loop>>}
  /\ done' = done \cup {n}
  /\ IF n \in done
     THEN dead' = dead \cup {n} /\ inbox' = {m \in inbox : m.to # n}
     ELSE UNCHANGED <<dead, inbox>>
  /\ UNCHANGED <<b0, open, votes, q0, fetching, accepting, stored, root, started, bounds, history>>

\* run: commit, ...
Commit(n) ==
  /\ n \in done \ dead /\ stored[n] = None
  /\ stored' = [stored EXCEPT ![n] = b0[n]]
  /\ UNCHANGED <<b0, open, votes, q0, inbox, loops, done, root, dead, started, bounds, history>>

\* ... then return b0, which is read again, to the consensus proper.
Return(n) ==
  /\ n \notin dead /\ stored[n] # None /\ root[n] = None
  /\ root' = [root EXCEPT ![n] = b0[n]]
  /\ UNCHANGED <<b0, open, votes, q0, inbox, loops, done, stored, dead, started, bounds, history>>

\* Nodes that go on from block b.
GoOn(b) == {n \in Node \ dead : root[n] = b}

\* Of the rest of the system: a majority that goes on from one block commits the
\* next one.
CommitBlock1 ==
  /\ started = None
  /\ \E b \in Block : Cardinality(GoOn(b)) >= MajorityCount /\ started' = b
  /\ UNCHANGED <<b0, open, votes, q0, inbox, loops, done, results, bounds, history>>

\* Mutant: a node that has a genesis block does not fetch.
FetchGenesisIfNone(n) ==
  /\ started # None /\ GoOn(started) \ {n} # {} /\ ProposalLoopIdle(n) /\ b0[n] = None
  /\ fetching' = fetching \cup {n}
  /\ UNCHANGED <<b0, open, votes, q0, inbox, accepting, closing, done, results, started, bounds, history>>

\* onReceiveProposal of a later block, which one of those that went on has proposed:
\* "left behind".
FetchGenesis(n) ==
  /\ started # None /\ GoOn(started) \ {n} # {} /\ ProposalLoopIdle(n)
  /\ fetching' = fetching \cup {n}
  /\ UNCHANGED <<b0, open, votes, q0, inbox, accepting, closing, done, results, started, bounds, history>>

\* A request of fetchGenesisBlockAndQC fails.
FetchFails(n) ==
  /\ n \in fetching \ dead
  /\ fetching' = fetching \ {n}
  /\ UNCHANGED <<b0, open, votes, q0, inbox, accepting, closing, done, results, started, bounds, history>>

\* fetchGenesisBlockAndQC has the blocks: b0 and q0 are set, whether done is closed or
\* not, and it is closed next.
FetchEnds(n) ==
  /\ n \in fetching \ dead
  /\ fetching' = fetching \ {n}
  /\ b0' = [b0 EXCEPT ![n] = started]
  /\ q0' = IF n = Leader THEN started ELSE q0
  /\ closing' = closing \cup {<<n, "proposal">>}
  /\ fetched' = fetched \cup {n}
  /\ UNCHANGED <<open, votes, inbox, accepting, done, results, started, bounds, overtaken, signers>>

\* A process that has not committed restarts, with nothing left of what it knew; the
\* messages on its connections are lost.
Restart(n) ==
  /\ stored[n] = None
  /\ IF n = Leader THEN open /\ created < LeaderRestarts + 1 /\ UNCHANGED restarts
     ELSE restarts < FollowerRestarts /\ restarts' = restarts + 1
  /\ b0' = [b0 EXCEPT ![n] = None]
  /\ open' = (open /\ n # Leader)
  /\ votes' = IF n = Leader THEN NoVotes ELSE votes
  /\ q0' = IF n = Leader THEN None ELSE q0
  /\ inbox' = {m \in inbox : m.to # n}
  /\ fetching' = fetching \ {n}
  /\ accepting' = [accepting EXCEPT ![n] = None]
  /\ closing' = closing \ {<<n, loop>> : loop \in Loops}
  /\ done' = done \ {n} /\ dead' = dead \ {n}
  /\ late' = (late \/ (n = Leader /\ q0 \in Block))
  /\ fetched' = fetched \ {n} /\ overtaken' = overtaken \ {n}
  /\ UNCHANGED <<stored, root, started, created, signers>>

-----------------------------------------------------------------------------
Init ==
  /\ b0 = [n \in Node |-> None]
  /\ open = FALSE /\ votes = NoVotes /\ q0 = None
  /\ inbox = {} /\ fetching = {} /\ accepting = [n \in Node |-> None] /\ closing = {}
  /\ done = {} /\ dead = {}
  /\ stored = [n \in Node |-> None] /\ root = [n \in Node |-> None] /\ started = None
  /\ created = 0 /\ restarts = 0 /\ late = FALSE
  /\ fetched = {} /\ overtaken = {} /\ signers = {}

Next ==
  \/ Propose \/ BroadcastProposal \/ BroadcastQC \/ CommitBlock1
  \/ \E n \in Node, b \in Block :
       OnReceiveProposal(n, b) \/ AcceptVote(n, b) \/ OnReceiveNewView(n, b)
  \/ \E n \in Node : \/ AcceptQC(n) \/ Commit(n) \/ Return(n)
                     \/ FetchGenesis(n) \/ FetchFails(n) \/ FetchEnds(n) \/ Restart(n)
  \/ \E n \in Node, loop \in Loops : Close(n, loop)

Spec == Init /\ [][Next]_vars

\* A goroutine that can go on does, but does not have to fetch when it is done, and not
\* all requests fail.
Fairness ==
  /\ WF_vars(Propose) /\ WF_vars(BroadcastProposal) /\ WF_vars(BroadcastQC)
  /\ WF_vars(\E n \in Node, b \in Block : AcceptVote(n, b)) /\ WF_vars(CommitBlock1)
  /\ \A n \in Node :
       /\ WF_vars(\/ \E b \in Block : OnReceiveProposal(n, b)
                  \/ n \notin done /\ FetchGenesis(n)
                  \/ Close(n, "proposal"))
       /\ SF_vars(FetchEnds(n))
       /\ WF_vars(\/ \E b \in Block : OnReceiveNewView(n, b)
                  \/ AcceptQC(n) \/ Close(n, "newView"))
       /\ WF_vars(Commit(n) \/ Return(n))

FairSpec == Spec /\ Fairness

-----------------------------------------------------------------------------
\* README.md: "the same history of blocks is committed on all nodes despite network
\* and machine failures".  It starts with the same genesis block.
GenesisAgreed ==
  \A n, m \in Node : stored[n] # None /\ stored[m] # None => stored[n] = stored[m]

\* Two nodes commit different genesis blocks, or a node goes on from another one than
\* it committed, only when a certificate of a former block of the leader is out (it
\* restarted after it was built, or built it before it counted its own vote), or a node
\* that fetched the block took an older proposal before it was through.  Else votes for
\* the block of an earlier run and proposals that arrive between the look at b0 and the
\* commit never certify or commit that block (acceptVote, onReceiveNewView, acceptQC,
\* commit).
AgreedUnlessLate ==
  ~late => \A n, m \in Node \ overtaken :
             stored[n] # None /\ stored[m] # None =>
               stored[n] = stored[m] /\ root[n] \in {None, stored[m]}

\* A node closes done twice, and dies of it, only if it has fetched the block from a
\* peer: the certificates that the leader sends again and again do not harm it
\* (the look at done in acceptQC).
PanicsFetched == dead \subseteq fetched

\* A certificate is the work of all validators, as the comment on genesis.votes
\* says: "collect votes from all validators instead of majority for genesis block".
AllVoted == signers # {} => signers = Node

\* If no process restarts, every node goes on from a genesis block, also one that drops
\* the certificate because it comes before the block (the broadcast loops, the
\* answer of acceptQC to the leader and fetchGenesisBlockAndQC).  It does not if it dies
\* of a panic, or if all that could send it the block have.
AllStart ==
  [](created <= 1 /\ restarts = 0)
    => <>[](\A n \in Node \ dead : root[n] # None \/ (started # None /\ GoOn(started) = {}))

-----------------------------------------------------------------------------
(* The inductive invariants behind AgreedUnlessLate and PanicsFetched. *)

Follower == Node \ {Leader}

Message ==
  [type : {"proposal"}, to : Follower, block : Block]
    \cup [type : {"vote"}, to : {Leader}, from : Node, block : Block]
    \cup [type : {"newView"}, to : Node, block : Block]

\* Nodes and messages hold blocks that were created; only followers get proposals.
TypeOK ==
  /\ created \in 0 .. LeaderRestarts + 1
  /\ b0 \in [Node -> 0 .. created] /\ votes \in [Node -> 0 .. created]
  /\ q0 \in (0 .. created) \cup {Mixed}
  /\ inbox \subseteq Message /\ \A m \in inbox : m.block \in 1 .. created
  /\ accepting \in [Node -> 0 .. created]
  /\ stored \in [Node -> 0 .. created] /\ root \in [Node -> 0 .. created]
  /\ started \in 0 .. created

\* A certificate of block b is under way, or a node has acted on one.
Certified(b) ==
  \/ started = b
  \/ \E n \in Node :
       \/ NewViewTo(n, b) \in inbox \/ accepting[n] = b
       \/ n \notin overtaken /\ (stored[n] = b \/ root[n] = b)

\* The node will go on from its b0, or has.
Decided(n) == accepting[n] # None \/ n \in done \/ \E loop \in Loops : <<n, loop>> \in closing

\* The leader counts no votes before it proposes, and a majority is a certificate.  It
\* broadcasts its last block, and the proposals that a node has not seen are
\* not older than its own block, unless it fetched that.
OrderInv ==
  /\ ~open => votes = NoVotes
  /\ Full(votes) => q0 # None
  /\ open /\ q0 = None => b0[Leader] = created /\ created # 0
  /\ \A n \in Node \ fetched : \A c \in Block : ProposalTo(n, c) \in inbox => b0[n] <= c

\* Who fetches finds a block, and nobody does before there is one; run commits after
\* done and returns after the commit.
StartInv ==
  /\ fetching \cup fetched # {} => started # None
  /\ overtaken \subseteq fetched
  /\ \A n \in Node : stored[n] # None => n \in done
  /\ \A n \in Node : root[n] # None => stored[n] # None

\* No block but the leader's last one has a certificate, and those that have compared
\* their block with it still have that one.
CertInv ==
  /\ q0 # None => Full(votes)
  /\ q0 \in Block => q0 = created
  /\ \A b \in Block : Certified(b) => q0 = b
  /\ \A n \in Node \ overtaken : Decided(n) => q0 \in Block /\ b0[n] = q0

GenesisInv == TypeOK /\ OrderInv /\ StartInv /\ (late \/ CertInv)

\* Before a node is done, at most newViewLoop is about to close without a fetch.
PanicInv ==
  /\ PanicsFetched
  /\ \A n \in Node \ fetched :
       <<n, "proposal">> \notin closing /\ (n \in done => <<n, "newView">> \notin closing)
=============================================================================
