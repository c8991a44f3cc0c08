------------------------------- MODULE TxPool -------------------------------
(***************************************************************************)
(* The transaction pool of one node (txpool/txpool.go, txpool/txstore.go)  *)
(* between the three kinds of threads that use it: the ones that add       *)
(* transactions (the API, gossip and the sync of a proposal), the proposal *)
(* thread, and whoever holds mtxUpdate, which makes leaves, votes and      *)
(* commits (consensus/hs_driver.go).  Every operation of txStore holds     *)
(* store.mtx and is one step; an operation of TxPool is several.           *)
(***************************************************************************)
EXTENDS Naturals, Sequences, FiniteSets

CONSTANTS
  Tx,
  BlockTxLimit,
  MaxHeight          \* bounds the blocks

ASSUME LimitAssumption == BlockTxLimit \in Nat \ {0} /\ MaxHeight \in Nat

Source == {"gossip", "sync"}
Block == [height : 1 .. MaxHeight, txs : SUBSET Tx]
NoBlock == [height |-> 0, txs |-> {}]

VARIABLES
  items, queue,      \* txStore: txItems, and the ones of them in the heap
  stored,            \* Storage: HasTx
  chain,             \* Storage: the transactions of each committed block
  live,              \* state.blocks that are not committed
  adding,            \* addNewTx past its HasTx check: who adds which transaction
  proposal,          \* the block that the proposal thread syncs, or NoBlock
  unread,            \* of its transactions: not looked up yet
  absent,            \* not in the storage when looked up, not yet in the pool
  missing,           \* in neither: to be requested from the peer
  pc,                \* the next step of Commit, or "idle"
  bexec, toExecute   \* the block being committed, its txs to execute

pool == <<items, queue>>
storage == <<stored, chain>>
sync == <<proposal, unread, absent, missing>>
commit == <<pc, bexec, toExecute>>
vars == <<pool, storage, live, adding, sync, commit>>

CommitHeight == Len(chain)

Init ==
  /\ items = {} /\ queue = {} /\ stored = {} /\ chain = <<>>
  /\ live = {} /\ adding = {}
  /\ proposal = NoBlock /\ unread = {} /\ absent = {} /\ missing = {}
  /\ pc = "idle" /\ bexec = NoBlock /\ toExecute = {}

-----------------------------------------------------------------------------
\* addNewTx: a stored transaction is skipped.  A sync adds what it was sent.
HasTx(s, t) ==
  /\ s = "sync" => t \in missing
  /\ t \notin stored
  /\ adding' = adding \union {<<s, t>>}
  /\ UNCHANGED <<pool, storage, live, sync, commit>>

\* addNewTx, when VerifyTx accepts the transaction.
AddNewTx(s, t) ==
  /\ <<s, t>> \in adding
  /\ adding' = adding \ {<<s, t>>}
  /\ items' = items \union {t}
  /\ queue' = IF t \in items THEN queue ELSE queue \union {t}
  /\ missing' = IF s = "sync" THEN missing \ {t} ELSE missing
  /\ UNCHANGED <<storage, live, proposal, unread, absent, commit>>

\* addNewTx, when VerifyTx rejects it.
RejectTx(t) ==
  /\ <<"gossip", t>> \in adding
  /\ adding' = adding \ {<<"gossip", t>>}
  /\ UNCHANGED <<pool, storage, live, sync, commit>>

\* onReceiveProposal, or the sync of a block below one: syncTxs starts.
ReceiveBlock(b) ==
  /\ proposal = NoBlock
  /\ proposal' = b /\ unread' = b.txs
  /\ UNCHANGED <<pool, storage, live, adding, absent, missing, commit>>

\* syncTxs looks a transaction up in the storage, then in the pool.
SyncHasTx(t) ==
  /\ t \in unread /\ absent = {}
  /\ unread' = unread \ {t}
  /\ absent' = IF t \in stored THEN {} ELSE {t}
  /\ UNCHANGED <<pool, storage, live, adding, proposal, missing, commit>>

SyncGetTx(t) ==
  /\ t \in absent
  /\ absent' = absent \ {t}
  /\ missing' = IF t \in items THEN missing ELSE missing \union {t}
  /\ UNCHANGED <<pool, storage, live, adding, proposal, unread, commit>>

\* addTxList of what the peer sent: a transaction stored by now is skipped.
SyncStored(t) ==
  /\ t \in missing /\ t \in stored /\ <<"sync", t>> \notin adding
  /\ missing' = missing \ {t}
  /\ UNCHANGED <<pool, storage, live, adding, proposal, unread, absent, commit>>

\* The request or the verification of a transaction fails: the block is dropped.
\* Workers that run on finish like those of gossip.
SyncFails ==
  /\ proposal # NoBlock /\ missing # {}
  /\ proposal' = NoBlock /\ unread' = {} /\ absent' = {} /\ missing' = {}
  /\ adding' = {a \in adding : a[1] = "gossip"}
               \union {<<"gossip", a[2]>> : a \in {x \in adding : x[1] = "sync"}}
  /\ UNCHANGED <<pool, storage, live, commit>>

\* A mutant: the block is kept while some of its transactions are to be added.
SetBlockUnsynced ==
  /\ proposal # NoBlock /\ unread = {} /\ absent = {}
  /\ live' = live \union {proposal}
  /\ proposal' = NoBlock /\ missing' = {}
  /\ adding' = {a \in adding : a[1] = "gossip"}
  /\ UNCHANGED <<pool, storage, unread, absent, commit>>

\* verifyWithParentAndUpdateHotstuff: state.setBlock once syncTxs returned.
SetBlock ==
  /\ proposal # NoBlock /\ unread = {} /\ absent = {} /\ missing = {}
  /\ live' = live \union {proposal}
  /\ proposal' = NoBlock
  /\ UNCHANGED <<pool, storage, adding, unread, absent, missing, commit>>

\* state.getBlock finds a committed block in the storage and caches it.
GetBlock(h) ==
  /\ h \in DOMAIN chain
  /\ live' = live \union {[height |-> h, txs |-> chain[h]]}
  /\ UNCHANGED <<pool, storage, adding, sync, commit>>

-----------------------------------------------------------------------------
\* The steps below hold mtxUpdate; they start when pc is "idle".

\* CreateLeaf: up to BlockTxLimit of the queue leave it (popTxsFromQueue) for a new
\* block.  The heap's order is left out: any of them may be the oldest.
CreateLeaf(h, T) ==
  /\ pc = "idle" /\ h > CommitHeight
  /\ T \subseteq queue
  /\ Cardinality(T) =
       IF Cardinality(queue) < BlockTxLimit THEN Cardinality(queue) ELSE BlockTxLimit
  /\ queue' = queue \ T
  /\ live' = live \union {[height |-> h, txs |-> T]}
  /\ UNCHANGED <<items, storage, adding, sync, commit>>

\* VoteBlock: setTxsPending.  verifyProposalTxs has found none of them committed
\* and all in the pool; CanVote refuses a block that is not above the lock.
VoteBlock(b) ==
  /\ pc = "idle" /\ b \in live /\ b.height > CommitHeight
  /\ b.txs \intersect stored = {} /\ b.txs \subseteq items
  /\ queue' = queue \ b.txs
  /\ UNCHANGED <<items, storage, live, adding, sync, commit>>

\* Commit: getTxsToExecute splits the block's transactions and sets them pending.
GetTxsToExecute(b) ==
  /\ pc = "idle" /\ b \in live /\ b.height = CommitHeight + 1
  /\ bexec' = b
  /\ toExecute' = b.txs \ stored
  /\ queue' = queue \ b.txs
  /\ pc' = "store"
  /\ UNCHANGED <<items, storage, live, adding, sync>>

\* Storage.Commit: HasTx sees the transactions from here on.
StorageCommit ==
  /\ pc = "store"
  /\ stored' = stored \union toExecute
  /\ chain' = Append(chain, bexec.txs)
  /\ pc' = "remove"
  /\ UNCHANGED <<pool, live, adding, sync, bexec, toExecute>>

\* A mutant: what was added while the block was committed stays in the heap.
RemoveTxsItemsOnly ==
  /\ pc = "remove"
  /\ items' = items \ bexec.txs
  /\ pc' = "clean"
  /\ UNCHANGED <<queue, storage, live, adding, sync, bexec, toExecute>>

\* cleanStateOnCommited: removeTxs.
RemoveTxs ==
  /\ pc = "remove"
  /\ items' = items \ bexec.txs
  /\ queue' = queue \ bexec.txs
  /\ pc' = "clean"
  /\ UNCHANGED <<storage, live, adding, sync, bexec, toExecute>>

\* getUncommitedOlderBlocks.
Forks == {b \in live : b.height < bexec.height}

\* A mutant: the transactions of a fork stay pending.
CleanForksKeepPending ==
  /\ pc = "clean"
  /\ live' = live \ (Forks \union {bexec})
  /\ pc' = "idle" /\ bexec' = NoBlock /\ toExecute' = {}
  /\ UNCHANGED <<pool, storage, adding, sync>>

\* A mutant: the transactions of a fork are dropped with it.
CleanForksAndTxs ==
  /\ pc = "clean"
  /\ items' = items \ UNION {b.txs : b \in Forks}
  /\ queue' = queue \ UNION {b.txs : b \in Forks}
  /\ live' = live \ (Forks \union {bexec})
  /\ pc' = "idle" /\ bexec' = NoBlock /\ toExecute' = {}
  /\ UNCHANGED <<storage, adding, sync>>

\* cleanStateOnCommited: the forks' transactions that are still in the pool go back
\* to the queue (putTxsToQueue), and the forks are deleted.
CleanForks ==
  /\ pc = "clean"
  /\ queue' = queue \union (items \intersect UNION {b.txs : b \in Forks})
  /\ live' = live \ (Forks \union {bexec})
  /\ pc' = "idle" /\ bexec' = NoBlock /\ toExecute' = {}
  /\ UNCHANGED <<items, storage, adding, sync>>

Next ==
  \/ \E s \in Source, t \in Tx : HasTx(s, t) \/ AddNewTx(s, t)
  \/ \E t \in Tx : RejectTx(t) \/ SyncHasTx(t) \/ SyncGetTx(t) \/ SyncStored(t)
  \/ \E b \in Block : ReceiveBlock(b)
  \/ SyncFails \/ SetBlock
  \/ \E h \in DOMAIN chain : GetBlock(h)
  \/ \E h \in 1 .. MaxHeight, T \in SUBSET Tx : CreateLeaf(h, T)
  \/ \E b \in live : VoteBlock(b) \/ GetTxsToExecute(b)
  \/ StorageCommit \/ RemoveTxs \/ CleanForks

Spec == Init /\ [][Next]_vars

-----------------------------------------------------------------------------
\* Types.
TypeOK ==
  /\ items \subseteq Tx /\ queue \subseteq items
  /\ stored \subseteq Tx /\ chain \in Seq(SUBSET Tx) /\ Len(chain) <= MaxHeight
  /\ live \subseteq Block
  /\ adding \subseteq Source \X Tx
  /\ proposal \in Block \union {NoBlock}
  /\ unread \subseteq Tx /\ absent \subseteq Tx /\ missing \subseteq Tx
  /\ pc \in {"idle", "store", "remove", "clean"}
  /\ bexec \in Block \union {NoBlock} /\ toExecute \subseteq Tx

\* Every transaction of a block that the node keeps is stored or in the pool, so
\* that Commit finds it: "all txs from accepted blocks should be sync"
\* (getTxsToExecute ends the process otherwise).
NothingMissing == \A b \in live : b.txs \subseteq stored \union items

\* A transaction of the pool that is out of the queue is in a block that the node
\* keeps, whose commit removes it or whose pruning queues it again; none is left
\* pending for ever (cleanStateOnCommited).
NoOrphan == items \ queue \subseteq UNION {b.txs : b \in live}

\* A transaction leaves the pool only when it is stored: between the two no one can
\* take it for a new one (the order of Storage.Commit and RemoveTxs in Commit).
KeptUntilStored == [][items \ items' \subseteq stored]_vars

\* The inductive invariant: where the transactions of a block are while it is
\* synced and while it is committed.
PoolInv ==
  /\ TypeOK /\ NothingMissing /\ NoOrphan
  /\ \A h \in DOMAIN chain : chain[h] \subseteq stored
  /\ proposal.txs \subseteq stored \union items \union unread \union absent \union missing
  /\ pc # "idle" => bexec \in live
  /\ pc = "store" => /\ bexec.height = CommitHeight + 1
                     /\ toExecute = bexec.txs \ stored
  /\ pc \in {"remove", "clean"} => bexec.txs \subseteq stored
  /\ pc = "clean" => items \intersect bexec.txs \subseteq queue
=============================================================================
