------------------------------ MODULE StateTree ------------------------------
(***************************************************************************)
(* The state of one node with the Merkle tree over it: storage/storage.go, *)
(* storage/state_store.go, storage/merkle_store.go and package merkle.     *)
(* The commit of a block updates the nodes above the changed leaves, while *)
(* queries verify single values against the root.                          *)
(*                                                                         *)
(* A hash is kept as what it is a hash of: that of a value as the sequence *)
(* of the value, that of a group of nodes as the sequence of their hashes. *)
(* Keys are numbers in the order of their bytes.                           *)
(***************************************************************************)
EXTENDS Naturals, Sequences, FiniteSets, Functions

CONSTANTS
  Key,
  BranchFactor

VARIABLES
  values,      \* colStateValueByKey
  index,       \* colMerkleIndexByStateKey
  leafCount,   \* colMerkleLeafCount
  treeHeight,  \* colMerkleTreeHeight; a uint8, 0 when there is none
  nodes,       \* colMerkleNodeByPosition: hashes by level and index
  writes,      \* history: how many blocks changed the state
  first,       \* history: the block that first set each key
  qpc,         \* where VerifyState is, or "idle"
  query        \* what it has read

tree == <<leafCount, treeHeight, nodes>>
treeDisk == <<values, index, tree>>
treeVars == <<treeDisk, writes, first, qpc, query>>

Nil == << >>
Put(f, g) == [x \in DOMAIN f \union DOMAIN g |-> IF x \in DOMAIN g THEN g[x] ELSE f[x]]

-----------------------------------------------------------------------------
(* Package merkle. *)

GroupCount(n) == (n + BranchFactor - 1) \div BranchFactor

\* Mutant: nodes are counted from one.
GroupOfNodeFromOne(i) == (i + 1) \div BranchFactor

GroupOfNode(i) == i \div BranchFactor
FirstNodeOfGroup(g) == g * BranchFactor

\* TreeCalc.Height: the levels of a tree with n leaves.
Height[n \in 0 .. Cardinality(Key)] == IF n <= 1 THEN 1 ELSE 1 + Height[GroupCount(n)]

\* NewTree sees to the branching; the height is a uint8, enough for more leaves than
\* there can be.
ASSUME TreeAssumption ==
  /\ Key \subseteq Nat /\ IsFiniteSet(Key)
  /\ BranchFactor \in Nat \ {0, 1}
  /\ \A n \in 0 .. Cardinality(Key) : Height[n] < 256

\* The stored hash, or Nil.
GetNode(level, i) == IF <<level, i>> \in DOMAIN nodes THEN nodes[<<level, i>>] ELSE Nil

\* Group.Load: the nodes of group g, updated ones, and stored ones for the rest of
\* the row.
Load(updated, level, g, rowSize) ==
  [j \in 1 .. BranchFactor |->
     LET i == FirstNodeOfGroup(g) + j - 1
     IN IF i \in DOMAIN updated THEN updated[i]
        ELSE IF i < rowSize THEN GetNode(level, i) ELSE Nil]

\* Group.Sum: the hash of the nodes that are there, one after the other.
Sum(group) ==
  LET written[j \in 0 .. BranchFactor] ==
        IF j = 0 THEN << >>
        ELSE IF group[j] = Nil THEN written[j - 1] ELSE Append(written[j - 1], group[j])
  IN written[BranchFactor]

\* Tree.groupNodesByParent.
groupNodesByParent(updated) == {GroupOfNode(i) : i \in DOMAIN updated}

\* Tree.updateOneLevel: the parents of the updated nodes of a level.
updateOneLevel(updated, level, rowSize) ==
  [g \in groupNodesByParent(updated) |-> Sum(Load(updated, level, g, rowSize))]

\* Tree.Update: the updated nodes of every level, from the leaves to the root.
Update(leaves, newLeafCount) ==
  LET row[level \in 0 .. Height[newLeafCount] - 1] ==
        IF level = 0 THEN [size |-> newLeafCount, updated |-> leaves]
        ELSE [size    |-> GroupCount(row[level - 1].size),
              updated |-> updateOneLevel(row[level - 1].updated, level - 1, row[level - 1].size)]
  IN row

\* Tree.Root: level height - 1 in a uint8; an empty store has no node there.
Root == GetNode((treeHeight + 255) % 256, 0)

\* Tree.Verify for one leaf.
Verify(i, hash) ==
  /\ Root # Nil
  /\ i < leafCount
  /\ Update([x \in {i} |-> hash], leafCount)[Height[leafCount] - 1].updated[0] = Root

-----------------------------------------------------------------------------
(* The commit of a block. *)

\* Mutant: new keys get their leaves in the order of the list.
setNewTreeIndexesUnsorted(list) ==
  [k \in Range(list) |->
     IF k \in DOMAIN index THEN index[k]
     ELSE LET at(j) == CHOOSE i \in DOMAIN list : list[i] = j
          IN leafCount + Cardinality({j \in Range(list) \ DOMAIN index : at(j) < at(k)})]

\* stateStore.setNewTreeIndexes for the keys of the list: a key keeps its leaf, new
\* keys get the next ones in the order of the keys.
setNewTreeIndexes(list) ==
  [k \in Range(list) |->
     IF k \in DOMAIN index THEN index[k]
     ELSE leafCount + Cardinality({j \in Range(list) \ DOMAIN index : j < k})]

\* The updated nodes of all levels, by position.
Positions(row) ==
  [p \in UNION {{level} \X DOMAIN row[level].updated : level \in DOMAIN row}
     |-> row[p[1]].updated[p[2]]]

\* computeMerkleUpdate and the updates of writeStateMerkleTree for a block that sets
\* the keys of the list, which comes from a Go map in any order, to new values.
Write(list, new) ==
  LET indexes == setNewTreeIndexes(list)
      count   == leafCount + Cardinality(Range(list) \ DOMAIN index)
      leaves  == [i \in Range(indexes) |-> <<new[CHOOSE k \in Range(list) : indexes[k] = i]>>]
  IN /\ values' = Put(values, new)
     /\ index' = Put(index, indexes)
     /\ leafCount' = count
     /\ treeHeight' = Height[count]
     /\ nodes' = Put(nodes, Positions(Update(leaves, count)))
     /\ writes' = writes + 1
     /\ first' = Put([k \in Range(list) |-> writes + 1], first)
     /\ UNCHANGED <<qpc, query>>

\* Mutant: written while a query is at work.
CommitUnlocked(list, new) == Write(list, new)

\* The write is one database transaction under mtxWriteState, and nobody else
\* changes what it is computed from.
Commit(list, new) == qpc = "idle" /\ Write(list, new)

-----------------------------------------------------------------------------
(* Storage.VerifyState, which holds mtxWriteState for reading. *)

ReadValue(k) ==
  /\ qpc = "idle" /\ k \in DOMAIN values
  /\ qpc' = "value" /\ query' = [key |-> k, hash |-> <<values[k]>>, index |-> 0]
  /\ UNCHANGED <<treeDisk, writes, first>>

ReadIndex ==
  /\ qpc = "value"
  /\ IF query.key \in DOMAIN index
     THEN qpc' = "index" /\ query' = [query EXCEPT !.index = index[query.key]]
     ELSE qpc' = "panic" /\ UNCHANGED query
  /\ UNCHANGED <<treeDisk, writes, first>>

VerifyState ==
  /\ qpc = "index"
  /\ IF Verify(query.index, query.hash)
     THEN qpc' = "idle" /\ query' = Nil
     ELSE qpc' = "panic" /\ UNCHANGED query
  /\ UNCHANGED <<treeDisk, writes, first>>

TreeInit ==
  /\ values = Nil /\ index = Nil /\ first = Nil
  /\ leafCount = 0 /\ treeHeight = 0 /\ nodes = Nil
  /\ writes = 0
  /\ qpc = "idle" /\ query = Nil

-----------------------------------------------------------------------------
\* Where a key's leaf is depends on nothing but the blocks: on the first one that
\* set the key, and on the order of the keys that are new in it.  Nodes that walk
\* their maps in different orders get the same tree (setNewTreeIndexes).
IndexByFirstWrite ==
  /\ leafCount = Cardinality(DOMAIN index) /\ DOMAIN index = DOMAIN values
  /\ \A k \in DOMAIN index :
       index[k] = Cardinality({j \in DOMAIN index :
                                 first[j] < first[k] \/ (first[j] = first[k] /\ j < k)})

\* Level l of a tree over n leaves, counted without the levels below.
Power[l \in 0 .. Cardinality(Key)] == IF l = 0 THEN 1 ELSE BranchFactor * Power[l - 1]
Width(n, l) == (n + Power[l] - 1) \div Power[l]

\* The nodes of a tree over n leaves, when every hash is that of the hashes below it.
IsTree(n, height, node) ==
  /\ DOMAIN node = UNION {{l} \X (0 .. Width(n, l) - 1) : l \in 0 .. height - 1}
  /\ \A p \in DOMAIN node :
       p[1] > 0 => LET from == FirstNodeOfGroup(p[2])
                       size == Width(n, p[1] - 1) - from
                   IN node[p] = [j \in 1 .. (IF size < BranchFactor THEN size ELSE BranchFactor)
                                   |-> node[<<p[1] - 1, from + j - 1>>]]
  /\ n > 0 => Width(n, height - 1) = 1
  /\ \A l \in 0 .. height - 2 : Width(n, l) > 1

\* The tree that Tree.Update keeps, touching only what is above a change, is the
\* one built anew from all values: every level is complete, every hash is that of
\* the current hashes below it, and there is one root.
TreeIsRecomputed ==
  /\ IsTree(leafCount, treeHeight, nodes)
  /\ \A k \in DOMAIN values : nodes[<<0, index[k]>>] = <<values[k]>>

\* A query never fails its verification, whatever is committed meanwhile and
\* whatever crash came before (mtxWriteState in VerifyState, writeStateMerkleTree).
QueriesVerify == qpc # "panic"

-----------------------------------------------------------------------------
(* The inductive invariant behind them. *)

IndexInv ==
  /\ IndexByFirstWrite
  /\ DOMAIN index \subseteq Key /\ DOMAIN first = DOMAIN index
  /\ writes \in Nat /\ \A k \in DOMAIN index : first[k] \in 1 .. writes

TreeInv ==
  /\ IndexInv
  /\ TreeIsRecomputed
  /\ treeHeight = (IF leafCount = 0 THEN 0 ELSE Height[leafCount])
  /\ \A p \in DOMAIN nodes : nodes[p] # Nil
  /\ qpc \in {"idle", "value", "index"}
  /\ qpc # "idle" => query.key \in DOMAIN values /\ query.hash = <<values[query.key]>>
  /\ qpc = "index" => query.index = index[query.key]

=============================================================================
