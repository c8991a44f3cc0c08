------------------------------ MODULE Storage -------------------------------
(***************************************************************************)
(* The storage of one node as a whole: the writes of a commit and the      *)
(* crashes between them (module Ledger), the state with its Merkle tree    *)
(* that one of these writes changes (module StateTree), and the queries of *)
(* the API that verify values against the tree meanwhile.                  *)
(***************************************************************************)
EXTENDS Ledger, StateTree

CONSTANT
  Sets               \* the keys that each transaction sets; transactions are
                     \* numbers, and the value is the number of the last one

VARIABLE
  commitedHeight     \* consensus state: 0 after a start

storageVars == <<vars, treeVars, commitedHeight>>

ASSUME SetsAssumption == Tx \subseteq Nat /\ Sets \in [Tx -> SUBSET Key]

\* BlockCommit.StateChanges of a block that executes T, in the order of the numbers.
StateChanges(T) ==
  [k \in UNION {Sets[t] : t \in T} |->
     CHOOSE t \in T : k \in Sets[t] /\ \A u \in T : k \in Sets[u] => u <= t]

StorageInit == Init /\ TreeInit /\ commitedHeight = 0

\* The steps of Commit that do not touch the state.
CommitChain ==
  /\ GetTxsToExecute \/ WriteChainData \/ WriteBlockCommit
  /\ UNCHANGED <<treeVars, commitedHeight>>

\* Mutant: the changes of a block with an old transaction are not written.
CommitStateUnlessOld ==
  /\ WriteStateMerkleTree
  /\ LET new == StateChanges(toExecute)
     IN IF DOMAIN new = {} \/ toExecute # chain[height + 1] THEN UNCHANGED treeVars
        ELSE \E list \in Bijection(1 .. Cardinality(DOMAIN new), DOMAIN new) : Commit(list, new)
  /\ UNCHANGED commitedHeight

\* commitStateChanges and commitUpdate, unless there are no changes; they come from a
\* map, in any order.
CommitState ==
  /\ WriteStateMerkleTree
  /\ LET new == StateChanges(toExecute)
     IN IF DOMAIN new = {} THEN UNCHANGED treeVars
        ELSE \E list \in Bijection(1 .. Cardinality(DOMAIN new), DOMAIN new) : Commit(list, new)
  /\ UNCHANGED commitedHeight

\* The last write, and setCommitedBlock in cleanStateOnCommited.
CommitHeight ==
  /\ SetCommitedBlockHeight
  /\ commitedHeight' = height + 1
  /\ UNCHANGED treeVars

\* Mutant: a started node takes its last height for committed since the start.
CrashKeepsCommited ==
  /\ CrashAndRestart
  /\ qpc' = "idle" /\ query' = Nil
  /\ commitedHeight' = height
  /\ UNCHANGED <<treeDisk, writes, first>>

Crash ==
  /\ CrashAndRestart
  /\ qpc' = "idle" /\ query' = Nil
  /\ commitedHeight' = 0
  /\ UNCHANGED <<treeDisk, writes, first>>

Query ==
  /\ (\E k \in Key : ReadValue(k)) \/ ReadIndex \/ VerifyState
  /\ UNCHANGED <<vars, commitedHeight>>

StorageNext == CommitChain \/ CommitState \/ CommitHeight \/ Crash \/ Query

StorageSpec == StorageInit /\ [][StorageNext]_storageVars

-----------------------------------------------------------------------------
\* The state has what applying the executed blocks in order gives, and its tree is
\* over exactly that: a crash never leaves the one without the other, because
\* they are written together (writeStateMerkleTree).
StateOfApplied ==
  \A k \in Key :
    \/ /\ k \notin DOMAIN values
       /\ \A i \in DOMAIN state : k \notin DOMAIN StateChanges(state[i])
    \/ \E i \in DOMAIN state :
         /\ k \in DOMAIN StateChanges(state[i])
         /\ \A j \in DOMAIN state : j > i => k \notin DOMAIN StateChanges(state[j])
         /\ k \in DOMAIN values /\ values[k] = StateChanges(state[i])[k]

\* verifyMerkleRoot compares roots as soon as a block was committed since the
\* start ("on node restart, not commited any blocks yet, don't check merkle
\* root"): from then on the height and the root that the node compares, and
\* that CreateLeaf puts in its proposals, belong together.
ComparesRootOfHeight ==
  commitedHeight # 0 /\ pc = "idle" /\ ~torn => state = Replay[height]

\* The same before the next commit has written anything.
ComparesInv ==
  commitedHeight # 0 /\ pc \in {"idle", "chainData"} /\ ~torn => state = Replay[height]

=============================================================================
