------------------------------ MODULE Consensus ------------------------------
(***************************************************************************)
(* The consensus package around the HotStuff core: who leads on each node, *)
(* which blocks a node holds, and the messages between nodes.  Every step  *)
(* of a node is a step of Hotstuff together with what pacemaker.go,        *)
(* validator.go, hs_driver.go, state.go and rotator.go do around it.       *)
(*                                                                         *)
(* A message may stay undelivered forever and may overtake others.  A vote *)
(* needs no message of its own: OnReceiveVote ignores a repeated vote, and *)
(* a vote that VoteBlock drops because the view changed while it waited is *)
(* a vote that never arrives.                                              *)
(***************************************************************************)
EXTENDS Hotstuff, Views, Sequences

CONSTANTS
  MaxChanges,   \* bound: view changes of all nodes together
  MaxRestarts,  \* bound: restarts of all nodes together
  EventBuffer   \* capacity of the channel SubscribeNewQCHigh returns

ASSUME ConsensusAssumption ==
  /\ Node = Validator /\ Leader0 \in Node
  /\ MajorityCount = Majority(ValidatorCount)
  /\ MaxChanges \in Nat /\ MaxRestarts \in Nat /\ EventBuffer \in Nat

VARIABLES
  known,     \* state.blocks: the uncommitted blocks each node holds
  inbox,     \* proposals sent to each node and not handled
  handling,  \* the proposal (at most one, mtxProposal) waiting for its ancestors
  newViews,  \* new view messages sent: a certificate and its addressee
  qcEvents,  \* certificates emitted to the rotator of each node
  fresh,     \* nodes with commitedHeight 0: nothing committed since they started
  exec,      \* ExecHeight of each block
  changes,   \* how often a node changed its view
  restarts   \* how often a node was restarted

counters == <<changes, restarts>>
netvars == <<known, inbox, handling, newViews, qcEvents, fresh, exec, counters>>
consvars == <<hsvars, viewvars, netvars>>

\* state.getBlock: from memory or from storage.
Has(n) == known[n] \cup committed[n]

\* Mutant: blocks at the height of the committed one are dropped too.
KeptAbove(n, S) ==
  {b \in S \ committed'[n] : bExec'[n] # bExec[n] => b.height > bExec'[n].height}

\* Mutant: a commit drops every block in memory.
KeptNone(n, S) == {b \in S \ committed'[n] : bExec'[n] = bExec[n]}

\* The blocks left in memory when S was there before the step: driver.Commit
\* deletes the uncommitted ones below the block it committed last.
Kept(n, S) ==
  {b \in S \ committed'[n] : bExec'[n] # bExec[n] => b.height >= bExec'[n].height}

\* state.setBlock for the blocks of S, and what driver.Commit does to the store.
SetBlocks(n, S) ==
  /\ known' = [known EXCEPT ![n] = Kept(n, @ \cup S)]
  /\ fresh' = IF bExec'[n] = bExec[n] THEN fresh ELSE fresh \ {n}

\* qcHighEmitter.Emit, when UpdateQCHigh replaced qcHigh; a full channel drops it.
EmitQC(n) ==
  qcEvents' = IF qcHigh'[n] # qcHigh[n] /\ Len(qcEvents[n]) < EventBuffer
              THEN [qcEvents EXCEPT ![n] = Append(@, qcHigh'[n])] ELSE qcEvents

-----------------------------------------------------------------------------
(* Proposing. *)

\* pacemaker.onBeat.
OnBeat(n, s) ==
  LET b == NewBlock(n, s)
  IN /\ leader[n] = n
     /\ OnPropose(n, s)
     /\ SetBlocks(n, {b})
     /\ inbox' = [m \in Node |-> IF m = n THEN inbox[m] ELSE inbox[m] \cup {b}]
     /\ exec' = [x \in Blocks \cup {b} |-> IF x = b THEN bExec[n].height ELSE exec[x]]
     /\ UNCHANGED <<viewvars, handling, newViews, qcEvents, counters>>

-----------------------------------------------------------------------------
(* Receiving a proposal and the blocks it needs. *)

\* hotstuff.Update under mtxUpdate; a step of the core if it changes anything.
UpdateOnly(n, b) ==
  \/ OnReceiveBlock(n, b)
  \/ n \notin halted /\ ~Advances(n, b) /\ UNCHANGED hsvars

\* verifyProposalToVote, but for the check of the transactions.
VerifyProposalToVote(n, b) ==
  /\ leader[n] = b.proposer
  /\ n \notin fresh => exec[b] = bExec[n].height

\* Mutant: the vote is cast without CanVote.
ApplyProposalUnchecked(n, b) ==
  /\ \/ /\ VerifyProposalToVote(n, b)
        /\ n \notin halted
        /\ Sign(n, b)
        /\ bVote' = [bVote EXCEPT ![n] = b]
        /\ Update(n, b)
        /\ UNCHANGED <<tree, proposal, votes, restarted, cert>>
     \/ UpdateOnly(n, b)
  /\ SetBlocks(n, {b})
  /\ EmitQC(n)
  /\ UNCHANGED <<viewvars, newViews, exec, counters>>

\* verifyWithParentAndUpdateHotstuff for a proposal.  Any proposal may turn out
\* to hold a transaction that verifyProposalTxs rejects.
ApplyProposal(n, b) ==
  /\ \/ VerifyProposalToVote(n, b) /\ OnReceiveProposal(n, b)
     \/ UpdateOnly(n, b)
  /\ SetBlocks(n, {b})
  /\ EmitQC(n)
  /\ UNCHANGED <<viewvars, newViews, exec, counters>>

\* validator.onReceiveProposal: applied at once when the parent is there, else
\* getParentBlock starts to fetch.
ReceiveProposal(n, b) ==
  /\ n \notin halted
  /\ b \in inbox[n]
  /\ handling[n] = {}
  /\ inbox' = [inbox EXCEPT ![n] = @ \ {b}]
  /\ IF Parent(b) \in Has(n)
     THEN ApplyProposal(n, b) /\ UNCHANGED handling
     ELSE /\ handling' = [handling EXCEPT ![n] = {b}]
          /\ UNCHANGED <<hsvars, viewvars, known, newViews, qcEvents, fresh, exec, counters>>

\* One block of syncForwardCommitedBlocks (the proposer's committed blocks below
\* the height it executed) or of syncMissingParentBlocksRecursive (the missing
\* ancestors, lowest first).  mtxUpdate is free between two of them.
FetchBlock(n, a) ==
  /\ \E p \in handling[n] :
       /\ \/ a \in Ancestry(p) \ {p}
          \/ a \in committed[p.proposer] /\ bExec[n].height < a.height /\ a.height < exec[p]
       /\ a \in Has(p.proposer)
  /\ a \notin Has(n)
  /\ Parent(a) \in Has(n)
  /\ UpdateOnly(n, a)
  /\ SetBlocks(n, {a})
  /\ EmitQC(n)
  /\ UNCHANGED <<viewvars, inbox, handling, newViews, exec, counters>>

\* All ancestors are there: the proposal itself.
FinishProposal(n) ==
  \E p \in handling[n] :
    /\ Parent(p) \in Has(n)
    /\ ApplyProposal(n, p)
    /\ handling' = [handling EXCEPT ![n] = {}]
    /\ UNCHANGED inbox

\* A request for a block or for transactions failed.
AbandonProposal(n) ==
  /\ handling[n] # {} /\ n \notin halted
  /\ handling' = [handling EXCEPT ![n] = {}]
  /\ UNCHANGED <<hsvars, viewvars, known, inbox, newViews, qcEvents, fresh, exec, counters>>

-----------------------------------------------------------------------------
(* Votes, view changes and the certificates that drive them. *)

\* validator.onReceiveVote: the block of the vote is looked up in the store.
ReceiveVote(n, v) ==
  /\ proposal[n] \subseteq Has(n)
  /\ OnReceiveVote(n, v)
  /\ EmitQC(n)
  /\ UNCHANGED <<viewvars, known, inbox, handling, newViews, fresh, exec, counters>>

\* validator.onReceiveNewView: a certificate of a block that is not there is below
\* every other.
ReceiveNewView(n, q) ==
  /\ [to |-> n, qc |-> q] \in newViews
  /\ q \in Has(n)
  /\ OnReceiveNewView(n, q)
  /\ EmitQC(n)
  /\ UNCHANGED <<viewvars, known, inbox, handling, newViews, fresh, exec, counters>>

\* rotator.changeView on a view or leader timeout (module Rotator has the timers).
TimeOut(n) ==
  /\ n \notin halted
  /\ changes < MaxChanges
  /\ changes' = changes + 1
  /\ \E isPending \in BOOLEAN : ChangeView(n, isPending)
  /\ newViews' = newViews \cup {[to |-> leader'[n], qc |-> qcHigh[n]]}
  /\ UNCHANGED <<hsvars, known, inbox, handling, qcEvents, fresh, exec, restarts>>

\* rotator.onNewQCHigh.
HandleQCEvent(n) ==
  /\ n \notin halted
  /\ qcEvents[n] # << >>
  /\ ApproveOnQC(n, Head(qcEvents[n]).proposer)
  /\ qcEvents' = [qcEvents EXCEPT ![n] = Tail(@)]
  /\ UNCHANGED <<hsvars, known, inbox, handling, newViews, fresh, exec, counters>>

-----------------------------------------------------------------------------
\* The process ends between two handlers and consensus.start sets everything up
\* from the storage: blocks not committed, the fetch that was going on and the
\* view are gone, messages under way are not.
RestartNode(n) ==
  /\ restarts < MaxRestarts
  /\ restarts' = restarts + 1
  /\ \E q \in Ancestry(bExec[n]) : Restart(n, q)
  /\ known' = [known EXCEPT ![n] = {}]
  /\ handling' = [handling EXCEPT ![n] = {}]
  /\ qcEvents' = [qcEvents EXCEPT ![n] = << >>]
  /\ fresh' = fresh \cup {n}
  /\ leader' = [leader EXCEPT ![n] = bExec[n].proposer]
  /\ pending' = [pending EXCEPT ![n] = FALSE]
  /\ UNCHANGED <<inbox, newViews, exec, changes>>

-----------------------------------------------------------------------------
\* consensus.start on a fresh chain: genesis is committed everywhere.
ConsInit ==
  /\ Init /\ ViewInit(Leader0)
  /\ known = [n \in Node |-> {}]
  /\ inbox = [n \in Node |-> {}]
  /\ handling = [n \in Node |-> {}]
  /\ newViews = {}
  /\ qcEvents = [n \in Node |-> << >>]
  /\ fresh = Node
  /\ exec = [x \in {Genesis} |-> 0]
  /\ changes = 0
  /\ restarts = 0

ConsNext ==
  \/ \E n \in Proposer, s \in Stamp : OnBeat(n, s)
  \/ \E n \in Node, b \in Blocks \ {Genesis} :
       \/ ReceiveProposal(n, b)
       \/ FetchBlock(n, b)
       \/ ReceiveNewView(n, b)
  \/ \E n \in Proposer, v \in Node : ReceiveVote(n, v)
  \/ \E n \in Node :
       \/ FinishProposal(n)
       \/ AbandonProposal(n)
       \/ TimeOut(n)
       \/ HandleQCEvent(n)
       \/ RestartNode(n)

ConsSpec == ConsInit /\ [][ConsNext]_consvars

-----------------------------------------------------------------------------
\* The blocks a node drops from memory when it commits are never missed: the
\* parent and the certified block of every block it holds are there or lie below
\* bExec, where a comparison with nil comes out the same.
DroppedUnmissed ==
  \A n \in Node : \A b \in known[n] : \A a \in {Parent(b), Justify(b)} :
    a \notin Has(n) => a.height < bExec[n].height /\ a.height <= qcHigh[n].height

\* The blocks that CmpBlockHeight reads through the store are there: qcHigh and
\* bLock never point at a block that a commit dropped.
HeadsHeld ==
  \A n \in Node \ halted : {qcHigh[n], bLock[n], bLeaf[n]} \subseteq Has(n)

-----------------------------------------------------------------------------
(* The inductive invariant behind the properties above; it takes IInv of the *)
(* core along.                                                               *)

\* A node knows of no block that was not proposed.
NetTypeOK ==
  /\ known \in [Node -> SUBSET Blocks]
  /\ inbox \in [Node -> SUBSET (Blocks \ {Genesis})]
  /\ handling \in [Node -> SUBSET (Blocks \ {Genesis})]

\* Update may do without block a: it is below bExec, and no certificate of a is news.
Unmissed(n, a) == a.height < bExec[n].height /\ a.height <= qcHigh[n].height

\* A node holds all ancestors of the blocks in its memory, but for some that it
\* dropped when it committed.
HoldsBranches(n) ==
  \A b \in known[n] : \A a \in Ancestry(b) : a \in Has(n) \/ Unmissed(n, a)

\* What a node is locked on is not below what it committed, and it holds the blocks
\* its state refers to.
NodeHolds(n) ==
  /\ bExec[n].height <= bLock[n].height
  /\ HoldsBranches(n)
  /\ n \notin halted => {qcHigh[n], bLock[n], bLeaf[n]} \subseteq Has(n)

\* A block has its own ancestors and those of its parent.
GrownTree == \A b \in Blocks \ {Genesis} : Ancestry(b) = Ancestry(Parent(b)) \cup {b}

ConsInv == NetTypeOK /\ GrownTree /\ \A n \in Node : NodeHolds(n)

=============================================================================
