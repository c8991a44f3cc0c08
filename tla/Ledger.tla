------------------------------- MODULE Ledger -------------------------------
(***************************************************************************)
(* How one node writes the decided blocks to disk: hsDriver.Commit, the    *)
(* four badger transactions of Storage.writeCommitData, and a crash        *)
(* between any two of them, after which the node restarts from the disk    *)
(* (consensus.getInitialBlockAndQC) and commits again every block above    *)
(* its last height.                                                        *)
(***************************************************************************)
EXTENDS Naturals, Sequences, FiniteSets

CONSTANTS
  Tx,
  MaxHeight,     \* bounds the chain
  MaxCrashes     \* bounds the crashes

ASSUME BoundAssumption == MaxHeight \in Nat /\ MaxCrashes \in Nat

VARIABLES
  chain,         \* the transactions of the decided block at each height
  \* On disk:
  blocks,        \* heights whose block is stored
  commits,       \* heights whose BlockCommit is stored
  txs,           \* stored transactions
  txCommits,     \* transactions whose TxCommit is stored
  lastQC,        \* height of the block that the stored QC certifies
  state,         \* the sets of transactions whose changes the state has, in order
  height,        \* colBlockHeight
  \* In memory:
  pc,            \* the next write of Commit, or "idle"
  toExecute,     \* transactions of the block being committed that are executed
  \* Of the environment:
  crashes,
  torn           \* a crash came after the transactions were stored, before
                 \* their changes were

chainStore == <<blocks, commits, txs, txCommits, lastQC, height>>
vars == <<chain, chainStore, state, pc, toExecute, crashes, torn>>

Heights == 0 .. MaxHeight

-----------------------------------------------------------------------------
(* chainStore: the updates that Storage puts together, and the look-ups.  A *)
(* block is named by its height: only decided blocks are stored, and a     *)
(* height has one.                                                         *)

setBlock(h) == blocks' = blocks \union {h}

\* Some blocks have no QC in the memory of the node.
setLastQC(h) == lastQC' \in {lastQC, h}

setTxs(T) == txs' = txs \union T

setTxCommits(T) == txCommits' = txCommits \union T

setBlockCommit(h) == commits' = commits \union {h}

setBlockHeight(h) == height' = h

\* The look-ups answer, or end in "key not found".
getBlockByHeight(h) == h \in blocks
getBlockCommit(h) == h \in commits
getLastBlock == getBlockByHeight(height)
getLastQC == getBlockByHeight(lastQC)
hasTx(t) == t \in txs
getTxCommit(t) == t \in txCommits
-----------------------------------------------------------------------------

\* The genesis block holds no transactions; genesis.commit has stored it.
Init ==
  /\ chain \in [1 .. MaxHeight -> SUBSET Tx]
  /\ blocks = {0} /\ commits = {0} /\ lastQC = 0
  /\ txs = {} /\ txCommits = {}
  /\ state = <<>> /\ height = 0
  /\ pc = "idle" /\ toExecute = {}
  /\ crashes = 0 /\ torn = FALSE

\* A mutant: every transaction of the block is executed, stored or not.
GetTxsToExecuteAll ==
  /\ pc = "idle" /\ height < MaxHeight
  /\ toExecute' = chain[height + 1]
  /\ pc' = "chainData"
  /\ UNCHANGED <<chain, chainStore, state, crashes, torn>>

\* A mutant: a block with a transaction that is stored counts as executed.
GetTxsToExecuteUnlessOld ==
  /\ pc = "idle" /\ height < MaxHeight
  /\ toExecute' = IF \E t \in chain[height + 1] : hasTx(t) THEN {} ELSE chain[height + 1]
  /\ pc' = "chainData"
  /\ UNCHANGED <<chain, chainStore, state, crashes, torn>>

\* Commit of the next decided block: the transactions that are not stored yet are
\* executed, the others are old.
GetTxsToExecute ==
  /\ pc = "idle" /\ height < MaxHeight
  /\ toExecute' = {t \in chain[height + 1] : ~hasTx(t)}
  /\ pc' = "chainData"
  /\ UNCHANGED <<chain, chainStore, state, crashes, torn>>

\* A mutant: what is executed is stored without its results.
WriteChainDataNoResults ==
  /\ pc = "chainData"
  /\ setBlock(height + 1) /\ setLastQC(height + 1) /\ setTxs(toExecute)
  /\ pc' = "blockCommit"
  /\ UNCHANGED <<chain, commits, txCommits, height, state, toExecute, crashes, torn>>

\* One badger transaction: the block, its QC, what is executed and the results.
WriteChainData ==
  /\ pc = "chainData"
  /\ setBlock(height + 1) /\ setLastQC(height + 1)
  /\ setTxs(toExecute) /\ setTxCommits(toExecute)
  /\ pc' = "blockCommit"
  /\ UNCHANGED <<chain, commits, height, state, toExecute, crashes, torn>>

WriteBlockCommit ==
  /\ pc = "blockCommit"
  /\ setBlockCommit(height + 1)
  /\ pc' = "stateMerkleTree"
  /\ UNCHANGED <<chain, blocks, txs, txCommits, lastQC, height, state, toExecute, crashes, torn>>

\* State values and merkle tree in one transaction; none without changes.
WriteStateMerkleTree ==
  /\ pc = "stateMerkleTree"
  /\ state' = IF toExecute = {} THEN state ELSE Append(state, toExecute)
  /\ pc' = "blockHeight"
  /\ UNCHANGED <<chain, chainStore, toExecute, crashes, torn>>

\* A mutant: the height runs ahead of the blocks.
SetCommitedBlockHeightEarly ==
  /\ pc \in {"chainData", "blockHeight"}
  /\ setBlockHeight(height + 1)
  /\ pc' = "idle" /\ toExecute' = {}
  /\ UNCHANGED <<chain, blocks, commits, txs, txCommits, lastQC, state, crashes, torn>>

SetCommitedBlockHeight ==
  /\ pc = "blockHeight"
  /\ setBlockHeight(height + 1)
  /\ pc' = "idle" /\ toExecute' = {}
  /\ UNCHANGED <<chain, blocks, commits, txs, txCommits, lastQC, state, crashes, torn>>

\* The disk survives; the restarted node starts from GetLastBlock and GetLastQC.
CrashAndRestart ==
  /\ crashes < MaxCrashes
  /\ crashes' = crashes + 1
  /\ torn' = (torn \/ (pc \in {"blockCommit", "stateMerkleTree"} /\ toExecute # {}))
  /\ pc' = "idle" /\ toExecute' = {}
  /\ UNCHANGED <<chain, chainStore, state>>

Next ==
  \/ GetTxsToExecute \/ WriteChainData \/ WriteBlockCommit
  \/ WriteStateMerkleTree \/ SetCommitedBlockHeight
  \/ CrashAndRestart

Spec == Init /\ [][Next]_vars

-----------------------------------------------------------------------------
\* Types.
TypeOK ==
  /\ chain \in [1 .. MaxHeight -> SUBSET Tx]
  /\ blocks \subseteq Heights /\ commits \subseteq Heights
  /\ txs \subseteq Tx /\ txCommits \subseteq Tx /\ toExecute \subseteq Tx
  /\ lastQC \in Heights /\ height \in Heights
  /\ state \in Seq(SUBSET Tx)
  /\ pc \in {"idle", "chainData", "blockCommit", "stateMerkleTree", "blockHeight"}
  /\ crashes \in 0 .. MaxCrashes /\ torn \in BOOLEAN

\* Whenever the node stops, what it needs to start again is on disk: every block
\* up to the stored height with its BlockCommit, and the block of the stored QC,
\* which is at most one above that height (getInitialBlockAndQC, getLastBlock).
Restartable ==
  /\ \A h \in 0 .. height : getBlockByHeight(h) /\ getBlockCommit(h)
  /\ getLastBlock /\ getLastQC
  /\ blocks \subseteq 0 .. height + 1

\* Whoever learned a height from this node, from its proposals (ExecHeight) or its
\* API, finds every block up to it with all its transactions and their results,
\* also after restarts, when the pool no longer has them (GetTxList, the handlers
\* of node/api.go, syncForwardCommitedBlocks of a peer).
Servable ==
  \A h \in 1 .. height : /\ getBlockByHeight(h)
                        /\ \A t \in chain[h] : hasTx(t) /\ getTxCommit(t)

\* However often the node crashes and commits a block again, no transaction is
\* applied to the state twice (HasTx in getTxsToExecute).
AppliedOnce ==
  \A i, j \in DOMAIN state : i # j => state[i] \intersect state[j] = {}

\* The transactions of the blocks up to a height, and those of the block at a height
\* that no block below it holds.
UpTo(h) == UNION {chain[g] : g \in 1 .. h}
New(h) == chain[h] \ UpTo(h - 1)

\* What executing the chain up to each height without a crash gives.
Replay[h \in Heights] ==
  IF h = 0 THEN << >>
  ELSE IF New(h) = {} THEN Replay[h - 1] ELSE Append(Replay[h - 1], New(h))

\* The state of a node that is not in the middle of a commit is that of its
\* height, or of the next one when it crashed before the height was written.
StateIsReplay ==
  pc = "idle" => state \in {Replay[h] : h \in {height, height + 1} \intersect Heights}

\* Only a crash between the write of a block's transactions and the write of
\* their changes can make the state differ from the replay of the chain
\* (writeCommitData's order).
ReplayUnlessTorn == ~torn => StateIsReplay

\* The inductive invariant: what is applied is stored, and what is being committed
\* is not applied yet.
LedgerInv ==
  /\ TypeOK
  /\ Restartable
  /\ Servable
  /\ AppliedOnce
  /\ txs = txCommits
  /\ \A i \in DOMAIN state : state[i] \subseteq txs
  /\ pc # "idle" => height < MaxHeight
  /\ pc = "chainData" => toExecute = chain[height + 1] \ txs
  /\ pc \in {"blockCommit", "stateMerkleTree"} =>
       /\ toExecute \subseteq txs
       /\ \A i \in DOMAIN state : state[i] \intersect toExecute = {}
  /\ pc \in {"blockCommit", "stateMerkleTree", "blockHeight"} =>
       height + 1 \in blocks /\ chain[height + 1] \subseteq txs
  /\ pc \in {"stateMerkleTree", "blockHeight"} => height + 1 \in commits

\* The stored transactions and the state are those of the same height: the stored
\* one, or the next when the node crashed before it wrote the height.
AtHeight(h) == txs = UpTo(h) /\ state = Replay[h]

\* The invariant behind ReplayUnlessTorn: where the state is during a commit.
ReplayInv ==
  ~torn =>
    /\ pc \in {"idle", "chainData"} => \E h \in {height, height + 1} \intersect Heights : AtHeight(h)
    /\ pc \in {"blockCommit", "stateMerkleTree"} =>
         \/ toExecute = {} /\ AtHeight(height + 1)
         \/ /\ toExecute = New(height + 1) /\ toExecute # {}
            /\ txs = UpTo(height + 1) /\ state = Replay[height]
    /\ pc = "blockHeight" => AtHeight(height + 1)
=============================================================================
