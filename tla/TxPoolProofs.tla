---------------------------- MODULE TxPoolProofs ----------------------------
(***************************************************************************)
(* Proofs about TxPool for every set of transactions and every block       *)
(* limit.                                                                  *)
(***************************************************************************)
EXTENDS TxPool, TLAPS

\* The empty pool satisfies the invariant.
LEMMA InitPool == Init => PoolInv
<1> SUFFICES ASSUME Init PROVE PoolInv
  OBVIOUS
<1>1. chain \in Seq(SUBSET Tx) /\ Len(chain) <= MaxHeight
  BY LimitAssumption DEF Init
<1>2. TypeOK
  BY <1>1 DEF Init, TypeOK
<1> QED
  BY <1>2 DEF Init, PoolInv, NothingMissing, NoOrphan, NoBlock

\* Threads that add transactions preserve the invariant (addNewTx).
LEMMA AddStep ==
  ASSUME PoolInv, NEW s \in Source, NEW t \in Tx,
         HasTx(s, t) \/ AddNewTx(s, t) \/ RejectTx(t)
  PROVE  PoolInv'
<1>1. CASE HasTx(s, t)
  <2>1. TypeOK'
    BY <1>1 DEF HasTx, PoolInv, TypeOK, pool, storage, sync, commit
  <2> QED
    BY <1>1, <2>1 DEF HasTx, PoolInv, NothingMissing, NoOrphan, CommitHeight,
                      pool, storage, sync, commit
<1>2. CASE AddNewTx(s, t)
  <2>1. TypeOK'
    BY <1>2 DEF AddNewTx, PoolInv, TypeOK, storage, commit
  <2>2. NothingMissing'
    BY <1>2 DEF AddNewTx, PoolInv, NothingMissing, storage
  <2>3. NoOrphan'
    <3>1. items' \ queue' \subseteq items \ queue
      BY <1>2 DEF AddNewTx
    <3> QED
      BY <1>2, <3>1 DEF AddNewTx, PoolInv, NoOrphan
  <2>4. proposal'.txs \subseteq
          stored' \union items' \union unread' \union absent' \union missing'
    BY <1>2 DEF AddNewTx, PoolInv, storage
  <2>5. pc = "clean" => items' \intersect bexec.txs \subseteq queue'
    BY <1>2 DEF AddNewTx, PoolInv
  <2> QED
    BY <1>2, <2>1, <2>2, <2>3, <2>4, <2>5 DEF AddNewTx, PoolInv, CommitHeight, storage, commit
<1>3. CASE RejectTx(t)
  <2>1. TypeOK'
    BY <1>3 DEF RejectTx, PoolInv, TypeOK, pool, storage, sync, commit
  <2> QED
    BY <1>3, <2>1 DEF RejectTx, PoolInv, NothingMissing, NoOrphan, CommitHeight,
                      pool, storage, sync, commit
<1> QED
  BY <1>1, <1>2, <1>3

\* The look-ups of syncTxs preserve the invariant.
LEMMA SyncStep ==
  ASSUME PoolInv, NEW t \in Tx, SyncHasTx(t) \/ SyncGetTx(t) \/ SyncStored(t)
  PROVE  PoolInv'
<1>1. CASE SyncHasTx(t)
  <2>1. TypeOK'
    BY <1>1 DEF SyncHasTx, PoolInv, TypeOK, pool, storage, commit
  <2>2. proposal'.txs \subseteq
          stored' \union items' \union unread' \union absent' \union missing'
    BY <1>1 DEF SyncHasTx, PoolInv, pool, storage
  <2> QED
    BY <1>1, <2>1, <2>2 DEF SyncHasTx, PoolInv, NothingMissing, NoOrphan, CommitHeight,
                            pool, storage, commit
<1>2. CASE SyncGetTx(t)
  <2>1. TypeOK'
    BY <1>2 DEF SyncGetTx, PoolInv, TypeOK, pool, storage, commit
  <2>2. proposal'.txs \subseteq
          stored' \union items' \union unread' \union absent' \union missing'
    BY <1>2 DEF SyncGetTx, PoolInv, pool, storage
  <2> QED
    BY <1>2, <2>1, <2>2 DEF SyncGetTx, PoolInv, NothingMissing, NoOrphan, CommitHeight,
                            pool, storage, commit
<1>3. CASE SyncStored(t)
  <2>1. TypeOK'
    BY <1>3 DEF SyncStored, PoolInv, TypeOK, pool, storage, commit
  <2>2. proposal'.txs \subseteq
          stored' \union items' \union unread' \union absent' \union missing'
    BY <1>3 DEF SyncStored, PoolInv, pool, storage
  <2> QED
    BY <1>3, <2>1, <2>2 DEF SyncStored, PoolInv, NothingMissing, NoOrphan, CommitHeight,
                            pool, storage, commit
<1> QED
  BY <1>1, <1>2, <1>3

\* Receiving a block, keeping it or giving it up preserves the invariant: a block
\* is kept once all its transactions are in the pool or stored.
LEMMA BlockStep ==
  ASSUME PoolInv,
         \/ \E b \in Block : ReceiveBlock(b)
         \/ SyncFails \/ SetBlock
         \/ \E h \in DOMAIN chain : GetBlock(h)
  PROVE  PoolInv'
<1>1. CASE \E b \in Block : ReceiveBlock(b)
  <2> PICK b \in Block : ReceiveBlock(b)
    BY <1>1
  <2>1. TypeOK'
    BY DEF ReceiveBlock, PoolInv, TypeOK, Block, pool, storage, commit
  <2> QED
    BY <2>1 DEF ReceiveBlock, PoolInv, NothingMissing, NoOrphan, CommitHeight,
                pool, storage, commit
<1>2. CASE SyncFails
  <2>1. adding' \subseteq Source \X Tx
    BY <1>2 DEF SyncFails, PoolInv, TypeOK, Source
  <2>2. TypeOK'
    BY <1>2, <2>1 DEF SyncFails, PoolInv, TypeOK, pool, storage, commit
  <2> QED
    BY <1>2, <2>2 DEF SyncFails, PoolInv, NothingMissing, NoOrphan, CommitHeight, NoBlock,
                      pool, storage, commit
<1>3. CASE SetBlock
  <2>1. TypeOK'
    BY <1>3 DEF SetBlock, PoolInv, TypeOK, pool, storage, commit
  <2>2. NothingMissing'
    BY <1>3 DEF SetBlock, PoolInv, NothingMissing, pool, storage
  <2>3. NoOrphan'
    BY <1>3 DEF SetBlock, PoolInv, NoOrphan, pool
  <2> QED
    BY <1>3, <2>1, <2>2, <2>3 DEF SetBlock, PoolInv, CommitHeight, NoBlock,
                                  pool, storage, commit
<1>4. CASE \E h \in DOMAIN chain : GetBlock(h)
  <2> PICK h \in DOMAIN chain : GetBlock(h)
    BY <1>4
  <2> DEFINE b == [height |-> h, txs |-> chain[h]]
  <2>1. b \in Block
    BY LimitAssumption DEF PoolInv, TypeOK, Block
  <2>2. TypeOK'
    BY <2>1 DEF GetBlock, PoolInv, TypeOK, pool, storage, sync, commit
  <2>3. NothingMissing'
    BY DEF GetBlock, PoolInv, NothingMissing, pool, storage
  <2>4. NoOrphan'
    BY DEF GetBlock, PoolInv, NoOrphan, pool
  <2> QED
    BY <2>2, <2>3, <2>4 DEF GetBlock, PoolInv, CommitHeight, pool, storage, sync, commit
<1> QED
  BY <1>1, <1>2, <1>3, <1>4

\* Leaves and votes take transactions out of the queue only for a block that the
\* node keeps.
LEMMA LeafStep ==
  ASSUME PoolInv,
         \/ \E h \in 1 .. MaxHeight, T \in SUBSET Tx : CreateLeaf(h, T)
         \/ \E b \in live : VoteBlock(b) \/ GetTxsToExecute(b)
  PROVE  PoolInv'
<1>1. CASE \E h \in 1 .. MaxHeight, T \in SUBSET Tx : CreateLeaf(h, T)
  <2> PICK h \in 1 .. MaxHeight, T \in SUBSET Tx : CreateLeaf(h, T)
    BY <1>1
  <2>1. TypeOK'
    BY DEF CreateLeaf, PoolInv, TypeOK, Block, storage, sync, commit
  <2>2. NothingMissing'
    BY DEF CreateLeaf, PoolInv, TypeOK, NothingMissing, storage
  <2>3. NoOrphan'
    BY ZenonT(60) DEF CreateLeaf, PoolInv, NoOrphan
  <2> QED
    BY <2>1, <2>2, <2>3 DEF CreateLeaf, PoolInv, CommitHeight, storage, sync, commit
<1>2. CASE \E b \in live : VoteBlock(b)
  <2> PICK b \in live : VoteBlock(b)
    BY <1>2
  <2>1. TypeOK'
    BY DEF VoteBlock, PoolInv, TypeOK, storage, sync, commit
  <2>2. NoOrphan'
    BY DEF VoteBlock, PoolInv, NoOrphan
  <2> QED
    BY <2>1, <2>2 DEF VoteBlock, PoolInv, NothingMissing, CommitHeight, storage, sync, commit
<1>3. CASE \E b \in live : GetTxsToExecute(b)
  <2> PICK b \in live : GetTxsToExecute(b)
    BY <1>3
  <2>1. TypeOK'
    BY DEF GetTxsToExecute, PoolInv, TypeOK, Block, storage, sync
  <2>2. NoOrphan'
    BY DEF GetTxsToExecute, PoolInv, NoOrphan
  <2> QED
    BY <2>1, <2>2 DEF GetTxsToExecute, PoolInv, NothingMissing, CommitHeight, storage, sync
<1> QED
  BY <1>1, <1>2, <1>3

\* The steps of Commit: the transactions leave the pool when they are stored, and
\* what a fork held goes back to the queue.
LEMMA CommitStep ==
  ASSUME PoolInv, StorageCommit \/ RemoveTxs \/ CleanForks
  PROVE  PoolInv'
<1>1. CASE StorageCommit
  <2>1. bexec \in Block /\ bexec \in live /\ bexec.txs \in SUBSET Tx
        /\ bexec.height = Len(chain) + 1 /\ bexec.height <= MaxHeight
    BY <1>1, LimitAssumption DEF StorageCommit, PoolInv, TypeOK, Block, CommitHeight
  <2>2. bexec.txs \subseteq stored'
    BY <1>1 DEF StorageCommit, PoolInv
  <2>3. /\ chain' \in Seq(SUBSET Tx) /\ Len(chain') = Len(chain) + 1
        /\ \A h \in DOMAIN chain' : chain'[h] \subseteq stored'
    <3>1. chain \in Seq(SUBSET Tx) /\ chain' = Append(chain, bexec.txs)
      BY <1>1 DEF StorageCommit, PoolInv, TypeOK
    <3>2. /\ chain' \in Seq(SUBSET Tx) /\ Len(chain') = Len(chain) + 1
          /\ DOMAIN chain' = 1 .. Len(chain) + 1 /\ DOMAIN chain = 1 .. Len(chain)
          /\ Len(chain) \in Nat
          /\ chain'[Len(chain) + 1] = bexec.txs
          /\ \A h \in 1 .. Len(chain) : chain'[h] = chain[h]
      BY <3>1, <2>1
    <3>3. \A h \in 1 .. Len(chain) : chain[h] \subseteq stored'
      BY <1>1, <3>2 DEF StorageCommit, PoolInv
    <3> QED
      BY <3>2, <3>3, <2>2
  <2>4. TypeOK'
    BY <1>1, <2>1, <2>3 DEF StorageCommit, PoolInv, TypeOK, pool, sync
  <2>5. NothingMissing'
    BY <1>1 DEF StorageCommit, PoolInv, NothingMissing, pool
  <2>6. NoOrphan'
    BY <1>1 DEF StorageCommit, PoolInv, NoOrphan, pool
  <2> QED
    BY <1>1, <2>2, <2>3, <2>4, <2>5, <2>6 DEF StorageCommit, PoolInv, pool, sync
<1>2. CASE RemoveTxs
  <2>1. bexec.txs \subseteq stored
    BY <1>2 DEF RemoveTxs, PoolInv
  <2>2. TypeOK'
    BY <1>2 DEF RemoveTxs, PoolInv, TypeOK, storage, sync
  <2>3. NothingMissing'
    BY <1>2, <2>1 DEF RemoveTxs, PoolInv, NothingMissing, storage
  <2>4. NoOrphan'
    BY <1>2 DEF RemoveTxs, PoolInv, NoOrphan
  <2>5. proposal'.txs \subseteq
          stored' \union items' \union unread' \union absent' \union missing'
    BY <1>2, <2>1 DEF RemoveTxs, PoolInv, storage, sync
  <2> QED
    BY <1>2, <2>1, <2>2, <2>3, <2>4, <2>5 DEF RemoveTxs, PoolInv, storage, sync
<1>3. CASE CleanForks
  <2>1. TypeOK'
    BY <1>3 DEF CleanForks, PoolInv, TypeOK, storage, sync
  <2>2. NothingMissing'
    BY <1>3 DEF CleanForks, PoolInv, NothingMissing, storage
  <2>3. NoOrphan'
    <3> SUFFICES ASSUME NEW t \in items', t \notin queue'
                 PROVE  \E b \in live' : t \in b.txs
      BY DEF NoOrphan
    <3>1. t \in items /\ t \notin queue /\ \A b \in Forks : t \notin b.txs
      BY <1>3 DEF CleanForks
    <3>2. PICK b \in live : t \in b.txs
      BY <3>1 DEF PoolInv, NoOrphan
    <3>3. b # bexec
      BY <1>3, <3>1, <3>2 DEF CleanForks, PoolInv
    <3> QED
      BY <1>3, <3>1, <3>2, <3>3 DEF CleanForks
  <2> QED
    BY <1>3, <2>1, <2>2, <2>3 DEF CleanForks, PoolInv, storage, sync
<1> QED
  BY <1>1, <1>2, <1>3

\* Every step preserves the invariant.
LEMMA NextPool == PoolInv /\ [Next]_vars => PoolInv'
<1> SUFFICES ASSUME PoolInv, [Next]_vars PROVE PoolInv'
  OBVIOUS
<1>1. CASE UNCHANGED vars
  BY <1>1 DEF vars, pool, storage, sync, commit, PoolInv, TypeOK, NothingMissing, NoOrphan,
              CommitHeight
<1>2. CASE Next
  BY <1>2, AddStep, SyncStep, BlockStep, LeafStep, CommitStep DEF Next, Source
<1> QED
  BY <1>1, <1>2

\* The inductive invariant holds in every reachable state.
THEOREM PoolInvariant == Spec => []PoolInv
<1> QED
  BY InitPool, NextPool, PTL DEF Spec

\* What is queued is in the pool, and what is being added, synced, proposed and
\* committed are transactions and blocks of the node (txStore, SyncTxs, Commit).
THEOREM PoolTypes == Spec => []TypeOK
<1>1. PoolInv => TypeOK
  BY DEF PoolInv
<1> QED
  BY <1>1, PoolInvariant, PTL

\* Commit never finds a transaction of a kept block missing (getTxsToExecute).
THEOREM CommitFindsTxs == Spec => []NothingMissing
<1>1. PoolInv => NothingMissing
  BY DEF PoolInv
<1> QED
  BY <1>1, PoolInvariant, PTL

\* No transaction is left pending outside the blocks that the node keeps
\* (cleanStateOnCommited).
THEOREM NothingOrphaned == Spec => []NoOrphan
<1>1. PoolInv => NoOrphan
  BY DEF PoolInv
<1> QED
  BY <1>1, PoolInvariant, PTL

\* A transaction leaves the pool only when it is stored (Commit).
THEOREM LeavesWhenStored == Spec => KeptUntilStored
<1>1. PoolInv /\ [Next]_vars => [items \ items' \subseteq stored]_vars
  <2> SUFFICES ASSUME PoolInv, Next PROVE items \ items' \subseteq stored
    OBVIOUS
  <2>1. CASE RemoveTxs
    BY <2>1 DEF RemoveTxs, PoolInv
  <2>2. CASE \E s \in Source, t \in Tx : AddNewTx(s, t)
    BY <2>2 DEF AddNewTx
  <2>3. CASE UNCHANGED items
    BY <2>3
  <2> QED
    BY <2>1, <2>2, <2>3
    DEF Next, pool, HasTx, RejectTx, SyncHasTx, SyncGetTx, SyncStored, ReceiveBlock,
        SyncFails, SetBlock, GetBlock, CreateLeaf, VoteBlock, GetTxsToExecute,
        StorageCommit, CleanForks
<1> QED
  BY <1>1, PoolInvariant, PTL DEF Spec, KeptUntilStored
=============================================================================
