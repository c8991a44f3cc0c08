--------------------------- MODULE StorageProofs ---------------------------
(***************************************************************************)
(* Proofs about modules Ledger, StateTree and Storage for every chain,     *)
(* every number of crashes and every place where they fall, every set of   *)
(* keys and every branch factor.                                           *)
(***************************************************************************)
EXTENDS Storage, FiniteSetTheorems, NaturalsInduction, WellFoundedInduction, TLAPS

-----------------------------------------------------------------------------
(* Module Ledger. *)

\* The disk after genesis satisfies the invariant.
LEMMA InitLedger == Init => LedgerInv
<1> SUFFICES ASSUME Init PROVE LedgerInv
  BY Zenon
<1> USE BoundAssumption
<1>1. TypeOK
  <2>1. MaxHeight \in Nat /\ MaxCrashes \in Nat
    BY BoundAssumption, Zenon
  <2>2. torn \in BOOLEAN
    BY Zenon DEF Init
  <2>3. 0 \in Heights /\ 0 \in 0 .. MaxCrashes
    BY <2>1 DEF Heights
  <2>4. state \in Seq(SUBSET Tx)
    BY DEF Init
  <2> QED
    BY <2>2, <2>3, <2>4, Zenon DEF Init, TypeOK
<1>2. Restartable
  BY DEF Init, Restartable, getBlockByHeight, getBlockCommit, getLastBlock, getLastQC
<1>3. Servable
  BY DEF Init, Servable
<1> QED
  BY <1>1, <1>2, <1>3 DEF Init, LedgerInv, AppliedOnce

\* Writing the changes of transactions that are not applied keeps every two
\* entries of the state disjoint (writeStateMerkleTree).
LEMMA WriteStateStep == LedgerInv /\ WriteStateMerkleTree => LedgerInv'
<1> SUFFICES ASSUME LedgerInv, WriteStateMerkleTree PROVE LedgerInv'
  BY Zenon
<1>1. CASE toExecute = {}
  <2>1. state' = state
    BY <1>1, Zenon DEF WriteStateMerkleTree
  <2>2. TypeOK' /\ Restartable' /\ Servable' /\ AppliedOnce'
    BY <2>1, Zenon DEF WriteStateMerkleTree, chainStore, LedgerInv, TypeOK, Restartable, Servable,
                AppliedOnce, getBlockByHeight, getBlockCommit, getLastBlock, getLastQC, hasTx, getTxCommit
  <2> QED
    BY <2>1, <2>2, Zenon DEF WriteStateMerkleTree, chainStore, LedgerInv
<1>2. CASE toExecute # {}
  <2>1. state' = Append(state, toExecute) /\ state \in Seq(SUBSET Tx)
        /\ toExecute \in SUBSET Tx
    BY <1>2, Zenon DEF WriteStateMerkleTree, LedgerInv, TypeOK
  <2>2. /\ state' \in Seq(SUBSET Tx)
        /\ Len(state) \in Nat
        /\ DOMAIN state' = 1 .. Len(state) + 1 /\ DOMAIN state = 1 .. Len(state)
        /\ state'[Len(state) + 1] = toExecute
        /\ \A i \in 1 .. Len(state) : state'[i] = state[i]
    BY <2>1
  <2>3. \A i \in DOMAIN state : state[i] \intersect toExecute = {}
    BY Zenon DEF WriteStateMerkleTree, LedgerInv
  <2>4. AppliedOnce'
    <3> SUFFICES ASSUME NEW i \in DOMAIN state', NEW j \in DOMAIN state', i # j
                 PROVE  state'[i] \intersect state'[j] = {}
      BY Zenon DEF AppliedOnce
    <3>1. CASE i \in DOMAIN state /\ j \in DOMAIN state
      BY <3>1, <2>2, Zenon DEF LedgerInv, AppliedOnce
    <3>2. CASE i = Len(state) + 1 /\ j \in DOMAIN state
      BY <3>2, <2>2, <2>3, Zenon
    <3>3. CASE j = Len(state) + 1 /\ i \in DOMAIN state
      BY <3>3, <2>2, <2>3, Zenon
    <3> QED
      BY <3>1, <3>2, <3>3, <2>2
  <2>5. \A i \in DOMAIN state' : state'[i] \subseteq txs'
    BY <2>2 DEF WriteStateMerkleTree, chainStore, LedgerInv
  <2>6. TypeOK' /\ Restartable' /\ Servable'
    BY <2>2, Zenon DEF WriteStateMerkleTree, chainStore, LedgerInv, TypeOK, Restartable, Servable,
                getBlockByHeight, getBlockCommit, getLastBlock, getLastQC, hasTx, getTxCommit
  <2> QED
    BY <2>4, <2>5, <2>6, Zenon DEF WriteStateMerkleTree, chainStore, LedgerInv
<1> QED
  BY <1>1, <1>2, Zenon

\* Every write of Commit, and a crash before or after any of them, preserves the
\* invariant.
LEMMA NextLedger == LedgerInv /\ [Next]_vars => LedgerInv'
<1> SUFFICES ASSUME LedgerInv, [Next]_vars PROVE LedgerInv'
  BY Zenon
<1> USE BoundAssumption
<1>1. CASE GetTxsToExecute
  <2>1. TypeOK'
    BY <1>1 DEF GetTxsToExecute, chainStore, LedgerInv, TypeOK, Heights
  <2>2. toExecute' = chain[height + 1] \ txs
    BY <1>1, Zenon DEF GetTxsToExecute, hasTx
  <2> QED
    BY <1>1, <2>1, <2>2, Zenon DEF GetTxsToExecute, chainStore, LedgerInv, Restartable, Servable,
                            AppliedOnce, getBlockByHeight, getBlockCommit, getLastBlock, getLastQC, hasTx, getTxCommit
<1>2. CASE WriteChainData
  <2>1. /\ height + 1 \in Heights /\ blocks' = blocks \union {height + 1}
        /\ lastQC' \in {lastQC, height + 1}
        /\ txs' = txs \union toExecute /\ txCommits' = txCommits \union toExecute
    BY <1>2
       DEF WriteChainData, setBlock, setLastQC, setTxs, setTxCommits, LedgerInv, TypeOK, Heights
  <2>2. TypeOK'
    BY <1>2, <2>1, Zenon DEF WriteChainData, LedgerInv, TypeOK
  <2>3. Restartable'
    BY <1>2, <2>1 DEF WriteChainData, LedgerInv, TypeOK, Restartable, Heights, getBlockByHeight,
       getBlockCommit, getLastBlock, getLastQC
  <2>4. Servable'
    BY <1>2, <2>1, Zenon
       DEF WriteChainData, LedgerInv, Servable, getBlockByHeight, hasTx, getTxCommit
  <2>5. \A i \in DOMAIN state : state[i] \intersect toExecute = {}
    BY <1>2, Zenon DEF WriteChainData, LedgerInv
  <2> QED
    BY <1>2, <2>1, <2>2, <2>3, <2>4, <2>5, Zenon DEF WriteChainData, LedgerInv, AppliedOnce
<1>3. CASE WriteBlockCommit
  <2>1. height + 1 \in Heights /\ commits' = commits \union {height + 1}
    BY <1>3, Zenon DEF WriteBlockCommit, setBlockCommit, LedgerInv, TypeOK, Heights
  <2>2. TypeOK' /\ Restartable' /\ Servable'
    BY <1>3, <2>1, Zenon DEF WriteBlockCommit, LedgerInv, TypeOK, Restartable, Servable,
       getBlockByHeight, getBlockCommit, getLastBlock, getLastQC,
                      hasTx, getTxCommit
  <2> QED
    BY <1>3, <2>1, <2>2, Zenon DEF WriteBlockCommit, LedgerInv, AppliedOnce
<1>4. CASE WriteStateMerkleTree
  BY <1>4, WriteStateStep, Zenon
<1>5. CASE SetCommitedBlockHeight
  <2>1. height' = height + 1
    BY <1>5, Zenon DEF SetCommitedBlockHeight, setBlockHeight
  <2>2. TypeOK'
    BY <1>5, <2>1, Zenon DEF SetCommitedBlockHeight, LedgerInv, TypeOK, Heights
  <2>3. Restartable'
    BY <1>5, <2>1 DEF SetCommitedBlockHeight, LedgerInv, TypeOK, Restartable, Heights,
       getBlockByHeight, getBlockCommit, getLastBlock, getLastQC
  <2>4. Servable'
    <3>1. \A h \in 1 .. height + 1 : h \in 1 .. height \/ h = height + 1
      BY DEF LedgerInv, TypeOK, Heights
    <3> QED
      BY <1>5, <2>1, <3>1, Zenon DEF SetCommitedBlockHeight, LedgerInv, Servable, getBlockByHeight,
                              hasTx, getTxCommit
  <2> QED
    BY <1>5, <2>1, <2>2, <2>3, <2>4, Zenon DEF SetCommitedBlockHeight, LedgerInv, AppliedOnce
<1>6. CASE CrashAndRestart
  <2>1. TypeOK'
    <3>1. torn' \in BOOLEAN
      BY <1>6, Zenon DEF CrashAndRestart
    <3>2. crashes' \in 0 .. MaxCrashes
      BY <1>6 DEF CrashAndRestart, LedgerInv, TypeOK
    <3> QED
      BY <1>6, <3>1, <3>2, Zenon DEF CrashAndRestart, chainStore, LedgerInv, TypeOK
  <2> QED
    BY <1>6, <2>1, Zenon
       DEF CrashAndRestart, chainStore, LedgerInv, Restartable, Servable, AppliedOnce,
                      getBlockByHeight, getBlockCommit, getLastBlock, getLastQC, hasTx, getTxCommit
<1>7. CASE UNCHANGED vars
  BY <1>7, Zenon DEF vars, chainStore, LedgerInv, TypeOK, Restartable, Servable, AppliedOnce,
              getBlockByHeight, getBlockCommit, getLastBlock, getLastQC, hasTx, getTxCommit
<1> QED
  BY <1>1, <1>2, <1>3, <1>4, <1>5, <1>6, <1>7, Zenon DEF Next

\* The inductive invariant holds in every reachable state.
THEOREM LedgerInvariant == Spec => []LedgerInv
<1> QED
  BY InitLedger, NextLedger, PTL DEF Spec

\* A node that stops anywhere in Commit finds on disk what it needs to start again
\* (getInitialBlockAndQC).
THEOREM RestartsFromDisk == Spec => []Restartable
<1>1. LedgerInv => Restartable
  BY Zenon DEF LedgerInv
<1> QED
  BY <1>1, LedgerInvariant, PTL

\* Every block up to the stored height is served with its transactions and their
\* results (GetTxList, node/api.go).
THEOREM ServesCommitted == Spec => []Servable
<1>1. LedgerInv => Servable
  BY Zenon DEF LedgerInv
<1> QED
  BY <1>1, LedgerInvariant, PTL

\* No transaction is applied to the state twice, however often its block, or
\* another that holds it, is committed again (getTxsToExecute).
THEOREM NoDoubleApply == Spec => []AppliedOnce
<1>1. LedgerInv => AppliedOnce
  BY Zenon DEF LedgerInv
<1> QED
  BY <1>1, LedgerInvariant, PTL

-----------------------------------------------------------------------------
(* Induction.  The library's theorems take an operator as a parameter; here *)
(* it is a set.                                                             *)

\* A nonempty set of naturals has a least element.
LEMMA LeastNatural ==
  ASSUME NEW T \in SUBSET Nat, T # {}
  PROVE  \E x \in T : \A y \in T : x <= y
<1> DEFINE R == {ss \in Nat \X Nat : ss[1] < ss[2]}
<1>1. IsWellFoundedOn(R, Nat)
  BY NatLessThanWellFounded, Zenon DEF OpToRel
<1> HIDE DEF R
<1>2. PICK x \in T : \A y \in T : ~(<<y, x>> \in R)
  BY <1>1, WFMin, Zenon
<1>3. \A y \in T : x <= y
  <2> TAKE y \in T
  <2>1. x \in Nat /\ y \in Nat
    BY Zenon
  <2>2. y < x => <<y, x>> \in R
    BY <2>1, Zenon DEF R
  <2> QED BY <1>2, <2>1, <2>2
<1> QED BY <1>3, Zenon

\* Induction over the naturals, for a set of them.
LEMMA Induction ==
  ASSUME NEW S, 0 \in S, \A n \in Nat : n \in S => n + 1 \in S
  PROVE  Nat \subseteq S
<1> SUFFICES ASSUME Nat \ S # {} PROVE FALSE
  BY Zenon
<1>1. PICK n \in Nat \ S : \A m \in Nat \ S : n <= m
  BY LeastNatural, Zenon
<1>2. n - 1 \in Nat /\ n - 1 \notin Nat \ S
  BY <1>1
<1> QED BY <1>1, <1>2

-----------------------------------------------------------------------------
(* What the state of a node is a replay of. *)

Grown(r, h) == IF New(h) = {} THEN r ELSE Append(r, New(h))

Replays(n, f) == f = [h \in 0 .. n |-> IF h = 0 THEN << >> ELSE Grown(f[h - 1], h)]

\* The replay of a chain up to a height exists.
LEMMA ReplayExists ==
  ASSUME NEW n \in Nat
  PROVE  \E f : Replays(n, f)
<1> DEFINE S == {m \in Nat : \E f : Replays(m, f)}
<1>1. 0 \in S
  <2>1. Replays(0, [h \in 0 .. 0 |-> << >>])
    BY DEF Replays
  <2> QED BY <2>1, Zenon
<1>2. ASSUME NEW m \in Nat, m \in S PROVE m + 1 \in S
  <2>1. PICK f : Replays(m, f)
    BY <1>2, Zenon
  <2> DEFINE g == [h \in 0 .. m + 1 |-> IF h = m + 1 THEN Grown(f[m], m + 1) ELSE f[h]]
  <2>2. \A h \in 0 .. m + 1 : g[h] = IF h = 0 THEN << >> ELSE Grown(g[h - 1], h)
    <3> SUFFICES ASSUME NEW h \in 0 .. m + 1
                 PROVE  g[h] = IF h = 0 THEN << >> ELSE Grown(g[h - 1], h)
      BY Zenon
    <3>1. CASE h = m + 1
      <4>1. g[h - 1] = f[m] /\ h # 0
        BY <3>1
      <4> QED BY <3>1, <4>1, Zenon
    <3>2. CASE h # m + 1
      <4>1. h \in 0 .. m /\ (h # 0 => h - 1 \in 0 .. m)
        BY <3>2
      <4>2. g[h] = f[h] /\ (h # 0 => g[h - 1] = f[h - 1])
        BY <3>2, <4>1
      <4>3. f[h] = IF h = 0 THEN << >> ELSE Grown(f[h - 1], h)
        BY <2>1, <4>1, Zenon DEF Replays
      <4> QED BY <4>2, <4>3, Zenon
    <3> QED BY <3>1, <3>2, Zenon
  <2>3. g = [h \in 0 .. m + 1 |-> g[h]]
    BY Zenon
  <2> HIDE DEF g
  <2>4. Replays(m + 1, g)
    BY <2>2, <2>3, Zenon DEF Replays
  <2> QED BY <2>4
<1> HIDE DEF S
<1>3. n \in S
  BY <1>1, <1>2, Induction, Zenon
<1> QED BY <1>3, Zenon DEF S

\* So the replay of a height is the one below with the new transactions.
LEMMA ReplayUnfolds ==
  \A h \in Heights : Replay[h] = IF h = 0 THEN << >> ELSE Grown(Replay[h - 1], h)
<1>1. \E f : Replays(MaxHeight, f)
  BY ReplayExists, BoundAssumption, Zenon
<1>2. Replays(MaxHeight, Replay)
  BY <1>1, Zenon DEF Replay, Replays, Heights, Grown, New
<1> QED BY <1>2, Zenon DEF Replays, Heights

\* The chain does not change, and neither does what it is replayed to.
LEMMA SameReplay ==
  ASSUME chain' = chain
  PROVE  Replay' = Replay /\ \A h : UpTo(h)' = UpTo(h) /\ New(h)' = New(h)
<1> DEFINE Of(c) == CHOOSE f : f = [h \in Heights |->
             IF h = 0 THEN << >>
             ELSE IF c[h] \ UNION {c[g] : g \in 1 .. h - 1} = {} THEN f[h - 1]
                  ELSE Append(f[h - 1], c[h] \ UNION {c[g] : g \in 1 .. h - 1})]
<1>1. Replay = Of(chain) /\ Replay' = Of(chain')
  BY Zenon DEF Replay, New, UpTo, Heights
<1> HIDE DEF Of
<1> QED BY <1>1, Zenon DEF UpTo, New

\* The blocks up to the next height.
LEMMA UpToNext ==
  ASSUME NEW h \in Nat
  PROVE  UpTo(h + 1) = UpTo(h) \union chain[h + 1] /\ New(h + 1) = chain[h + 1] \ UpTo(h)
<1>1. 1 .. h + 1 = (1 .. h) \union {h + 1} /\ (h + 1) - 1 = h
  OBVIOUS
<1> QED BY <1>1, Zenon DEF UpTo, New

\* Where the state is during Commit, and after a crash, until one tears it
\* (writeCommitData).
LEMMA ReplayStep == LedgerInv /\ ReplayInv /\ [Next]_vars => ReplayInv'
<1> SUFFICES ASSUME LedgerInv, ReplayInv, [Next]_vars, ~torn' PROVE ReplayInv'
  BY Zenon DEF ReplayInv
<1>1. /\ height \in Nat /\ MaxHeight \in Nat /\ height \in Heights
      /\ pc # "idle" => height + 1 \in Heights /\ height + 1 \in Nat
      /\ pc \in {"idle", "chainData", "blockCommit", "stateMerkleTree", "blockHeight"}
  BY BoundAssumption DEF LedgerInv, TypeOK, Heights
<1>2. chain' = chain /\ ~torn
  <2>1. chain' = chain /\ (torn' = torn \/ CrashAndRestart)
    BY Zenon DEF Next, vars, GetTxsToExecute, WriteChainData, WriteBlockCommit,
       WriteStateMerkleTree, SetCommitedBlockHeight, CrashAndRestart
  <2>2. CrashAndRestart => ~torn
    BY Zenon DEF CrashAndRestart
  <2>3. torn' = torn => ~torn
    BY SMT, Zenon
  <2> QED BY <2>1, <2>2, <2>3, Zenon
<1>3. Replay' = Replay /\ \A h : UpTo(h)' = UpTo(h) /\ New(h)' = New(h)
  BY <1>2, SameReplay, Zenon
<1>4. height + 1 \in Heights => Replay[height + 1] = Grown(Replay[height], height + 1)
  <2>1. (height + 1) - 1 = height /\ height + 1 # 0
    BY <1>1
  <2> QED BY <2>1, ReplayUnfolds, Zenon
<1>5. /\ UpTo(height + 1) = UpTo(height) \union chain[height + 1]
      /\ New(height + 1) = chain[height + 1] \ UpTo(height)
  BY <1>1, UpToNext, Zenon
<1>6. CASE GetTxsToExecute
  BY <1>2, <1>3, <1>6, Zenon DEF ReplayInv, AtHeight, GetTxsToExecute, chainStore
<1>7. CASE WriteChainData
  <2>1. /\ pc = "chainData" /\ pc' = "blockCommit" /\ toExecute' = toExecute
        /\ toExecute = chain[height + 1] \ txs /\ txs' = txs \union toExecute
        /\ state' = state /\ height' = height
    BY <1>7, Zenon DEF WriteChainData, setTxs, LedgerInv
  <2>2. PICK h \in {height, height + 1} \intersect Heights : AtHeight(h)
    BY <1>2, <2>1, Zenon DEF ReplayInv
  <2>3. height + 1 \in Heights
    BY <1>1, <2>1, Zenon
  <2>4. CASE h = height
    <3>1. toExecute = New(height + 1) /\ txs' = UpTo(height + 1) /\ state = Replay[height]
      BY <1>5, <2>1, <2>2, <2>4, Zenon DEF AtHeight
    <3>2. CASE toExecute = {}
      <4>1. AtHeight(height + 1)'
        BY <1>3, <1>4, <2>1, <2>3, <3>1, <3>2, Zenon DEF AtHeight, Grown
      <4> QED BY <2>1, <3>2, <4>1, Zenon DEF ReplayInv
    <3>3. CASE toExecute # {}
      BY <1>3, <2>1, <3>1, <3>3, Zenon DEF ReplayInv
    <3> QED BY <3>2, <3>3, Zenon
  <2>5. CASE h = height + 1
    <3>1. toExecute = {} /\ txs' = UpTo(height + 1) /\ state = Replay[height + 1]
      BY <1>5, <2>1, <2>2, <2>5, Zenon DEF AtHeight
    <3>2. AtHeight(height + 1)'
      BY <1>3, <2>1, <3>1, Zenon DEF AtHeight
    <3> QED BY <2>1, <3>1, <3>2, Zenon DEF ReplayInv
  <2> QED BY <2>4, <2>5, Zenon
<1>8. CASE WriteBlockCommit
  BY <1>2, <1>3, <1>8, Zenon DEF ReplayInv, AtHeight, WriteBlockCommit
<1>9. CASE WriteStateMerkleTree
  <2>1. /\ pc = "stateMerkleTree" /\ pc' = "blockHeight" /\ txs' = txs /\ height' = height
        /\ state' = IF toExecute = {} THEN state ELSE Append(state, toExecute)
    BY <1>9, Zenon DEF WriteStateMerkleTree, chainStore
  <2>2. AtHeight(height + 1)'
    <3>1. CASE toExecute = {} /\ AtHeight(height + 1)
      BY <1>3, <2>1, <3>1, Zenon DEF AtHeight
    <3>2. CASE /\ toExecute = New(height + 1) /\ toExecute # {}
               /\ txs = UpTo(height + 1) /\ state = Replay[height]
      <4>1. height + 1 \in Heights
        BY <1>1, <2>1, Zenon
      <4> QED BY <1>3, <1>4, <2>1, <3>2, <4>1, Zenon DEF AtHeight, Grown
    <3> QED BY <1>2, <2>1, <3>1, <3>2, Zenon DEF ReplayInv
  <2> QED BY <2>1, <2>2, Zenon DEF ReplayInv
<1>10. CASE SetCommitedBlockHeight
  <2>1. /\ pc = "blockHeight" /\ pc' = "idle" /\ txs' = txs /\ height' = height + 1
        /\ state' = state
    BY <1>10, Zenon DEF SetCommitedBlockHeight, setBlockHeight
  <2>2. height' \in Heights /\ AtHeight(height')
    BY <1>1, <1>2, <2>1, Zenon DEF ReplayInv
  <2>3. \E h \in ({height, height + 1} \intersect Heights)' : AtHeight(h)'
    BY <1>3, <2>1, <2>2, Zenon DEF AtHeight, Heights
  <2> QED BY <2>1, <2>3, Zenon DEF ReplayInv
<1>11. CASE CrashAndRestart
  <2>1. /\ pc' = "idle" /\ UNCHANGED <<txs, height, state>>
        /\ ~(pc \in {"blockCommit", "stateMerkleTree"} /\ toExecute # {})
    BY <1>11, Zenon DEF CrashAndRestart, chainStore
  <2>2. \E h \in {height, height + 1} \intersect Heights : AtHeight(h)
    <3>1. CASE pc \in {"idle", "chainData"}
      BY <1>2, <3>1, Zenon DEF ReplayInv
    <3>2. CASE pc \in {"blockCommit", "stateMerkleTree", "blockHeight"}
      <4>1. AtHeight(height + 1) /\ height + 1 \in Heights
        BY <1>1, <1>2, <2>1, <3>2, Zenon DEF ReplayInv
      <4> QED BY <4>1, Zenon
    <3> QED BY <1>1, <3>1, <3>2, Zenon
  <2>3. (\E h \in {height, height + 1} \intersect Heights : AtHeight(h))'
    BY <1>3, <2>1, <2>2, Zenon DEF AtHeight, Heights
  <2> QED BY <2>1, <2>3, Zenon DEF ReplayInv
<1>12. CASE UNCHANGED vars
  BY <1>2, <1>3, <1>12, Zenon DEF ReplayInv, AtHeight, vars, chainStore
<1> QED
  BY <1>6, <1>7, <1>8, <1>9, <1>10, <1>11, <1>12, Zenon DEF Next

\* A node on a fresh chain has replayed nothing.
LEMMA InitReplay == Init => ReplayInv
<1> SUFFICES ASSUME Init PROVE ReplayInv
  BY Zenon
<1>1. 0 \in Heights /\ Replay[0] = << >>
  BY ReplayUnfolds, BoundAssumption DEF Heights
<1>2. UpTo(0) = {}
  BY DEF UpTo
<1>3. AtHeight(0) /\ height = 0 /\ pc = "idle"
  BY <1>1, <1>2, Zenon DEF Init, AtHeight
<1> QED BY <1>1, <1>3, Zenon DEF ReplayInv

\* Where the state is during a commit, in every run.
LEMMA AlwaysReplay == Spec => [](LedgerInv /\ ReplayInv)
<1> QED BY InitLedger, NextLedger, InitReplay, ReplayStep, PTL DEF Spec

\* Unless a crash falls between the write of a block's transactions and the write of
\* their changes, the state is the replay of the chain, for every other crash and
\* every repetition of a transaction in the chain (writeCommitData).
THEOREM ReplayUntilTorn == Spec => []ReplayUnlessTorn
<1>1. ReplayInv => ReplayUnlessTorn
  BY Zenon DEF ReplayInv, ReplayUnlessTorn, StateIsReplay, AtHeight
<1> QED BY <1>1, AlwaysReplay, PTL

-----------------------------------------------------------------------------
(* Module Storage: the chain, the state and the tree together. *)

\* The state and its tree are written in a step of module Ledger, and queries are no
\* steps of it.
LEMMA StorageIsNext ==
  ASSUME [StorageNext]_storageVars
  PROVE  [Next]_vars
BY Zenon DEF StorageNext, storageVars, CommitChain, CommitState, CommitHeight, Crash, Query, Next

\* The storage as a whole writes the chain as module Ledger says, so what is proved
\* there holds of it.
THEOREM StorageImplementsLedger == StorageSpec => Spec
<1>1. StorageInit => Init
  BY Zenon DEF StorageInit
<1>2. [StorageNext]_storageVars => [Next]_vars
  BY StorageIsNext, Zenon
<1> QED BY <1>1, <1>2, PTL DEF StorageSpec, Spec

\* A node that committed a block since its start has the state of its height, until
\* the next commit writes.
LEMMA ComparesStep ==
  ASSUME ReplayInv, LedgerInv, ComparesInv, [StorageNext]_storageVars
  PROVE  ComparesInv'
<1> SUFFICES ASSUME commitedHeight' # 0, pc' \in {"idle", "chainData"}, ~torn'
             PROVE  (state = Replay[height])'
  BY Zenon DEF ComparesInv
<1>1. chain' = chain
  BY Zenon DEF StorageNext, storageVars, vars, CommitChain, CommitState, CommitHeight, Crash,
     Query, GetTxsToExecute, WriteChainData, WriteBlockCommit, WriteStateMerkleTree,
     SetCommitedBlockHeight, CrashAndRestart
<1>2. Replay' = Replay
  BY <1>1, SameReplay, Zenon
<1>3. CASE CommitHeight
  <2>1. pc = "blockHeight" /\ torn' = torn /\ state' = state /\ height' = height + 1
    BY <1>3, Zenon DEF CommitHeight, SetCommitedBlockHeight, setBlockHeight
  <2>2. ~torn
    BY <2>1, Zenon
  <2> QED BY <1>2, <2>1, <2>2, Zenon DEF ReplayInv, AtHeight
<1>4. CASE Crash
  BY <1>4, Zenon DEF Crash
<1>5. CASE /\ CommitChain /\ GetTxsToExecute
  <2>1. /\ pc = "idle" /\ torn' = torn /\ state' = state /\ height' = height
        /\ commitedHeight' = commitedHeight
    BY <1>5, Zenon DEF CommitChain, GetTxsToExecute, chainStore
  <2>2. ~torn
    BY <2>1, Zenon
  <2> QED BY <1>2, <2>1, <2>2, Zenon DEF ComparesInv
<1>6. CASE Query \/ UNCHANGED storageVars
  <2>1. /\ pc' = pc /\ torn' = torn /\ state' = state /\ height' = height
        /\ commitedHeight' = commitedHeight
    BY <1>6, Zenon DEF Query, storageVars, vars, chainStore
  <2>2. ~torn
    BY <2>1, Zenon
  <2> QED BY <1>2, <2>1, <2>2, Zenon DEF ComparesInv
<1>7. CASE WriteChainData \/ WriteBlockCommit \/ WriteStateMerkleTree
  <2>1. pc' \in {"blockCommit", "stateMerkleTree", "blockHeight"}
    BY <1>7, Zenon DEF WriteChainData, WriteBlockCommit, WriteStateMerkleTree
  <2> QED BY <2>1, Zenon
<1> QED
  BY <1>3, <1>4, <1>5, <1>6, <1>7, Zenon DEF StorageNext, CommitChain, CommitState

\* The height and the root that a node compares, and that it proposes, belong together
\* from its first commit after a start, however often it crashed before, unless a
\* crash tore the state (verifyMerkleRoot, CreateLeaf).
THEOREM RootOfHeight == StorageSpec => []ComparesRootOfHeight
<1>1. StorageInit => ComparesInv
  BY Zenon DEF StorageInit, ComparesInv
<1>2. ReplayInv /\ LedgerInv /\ ComparesInv /\ [StorageNext]_storageVars => ComparesInv'
  BY ComparesStep, Zenon
<1>3. ComparesInv => ComparesRootOfHeight
  BY Zenon DEF ComparesInv, ComparesRootOfHeight
<1> QED
  BY <1>1, <1>2, <1>3, AlwaysReplay, StorageImplementsLedger, PTL DEF StorageSpec

\* What CommitState writes: nothing, or the changes with the tree.
LEMMA StateIsWritten ==
  ASSUME [StorageNext]_storageVars
  PROVE  \/ state' = state /\ values' = values
         \/ /\ toExecute # {} /\ state' = Append(state, toExecute)
            /\ values' = Put(values, StateChanges(toExecute))
         \/ /\ toExecute # {} /\ state' = Append(state, toExecute)
            /\ DOMAIN StateChanges(toExecute) = {} /\ values' = values
<1>1. CASE CommitState
  <2>1. state' = IF toExecute = {} THEN state ELSE Append(state, toExecute)
    BY <1>1, Zenon DEF CommitState, WriteStateMerkleTree
  <2>2. \/ DOMAIN StateChanges(toExecute) = {} /\ values' = values
        \/ /\ DOMAIN StateChanges(toExecute) # {}
           /\ values' = Put(values, StateChanges(toExecute))
    BY <1>1, Zenon DEF CommitState, treeVars, treeDisk, Commit, Write
  <2>3. toExecute = {} => DOMAIN StateChanges(toExecute) = {}
    BY Zenon DEF StateChanges
  <2> QED BY <2>1, <2>2, <2>3, Zenon
<1>2. CASE ~CommitState
  BY <1>2, Zenon
     DEF StorageNext, storageVars, vars, chainStore, treeVars, treeDisk, CommitChain, CommitHeight,
     Crash, Query, GetTxsToExecute, WriteChainData, WriteBlockCommit, SetCommitedBlockHeight,
     CrashAndRestart, ReadValue, ReadIndex, VerifyState
<1> QED BY <1>1, <1>2, Zenon

\* The last block that sets a key is the one that counts.
LEMMA AppliedStep ==
  ASSUME LedgerInv, StateOfApplied, [StorageNext]_storageVars
  PROVE  StateOfApplied'
<1> DEFINE new == StateChanges(toExecute)
           n == Len(state) + 1
<1>1. CASE state' = state /\ values' = values
  BY <1>1, Zenon DEF StateOfApplied
<1>2. CASE /\ state' = Append(state, toExecute)
           /\ \/ values' = Put(values, new)
              \/ DOMAIN new = {} /\ values' = values
  <2>1. state \in Seq(SUBSET Tx) /\ toExecute \in SUBSET Tx
    BY Zenon DEF LedgerInv, TypeOK
  <2>2. /\ Len(state) \in Nat /\ n = Len(state) + 1
        /\ DOMAIN state' = (DOMAIN state) \union {n} /\ n \notin DOMAIN state
        /\ state'[n] = toExecute
        /\ \A i \in DOMAIN state : state'[i] = state[i] /\ n > i /\ ~(i > n)
        /\ ~(n > n)
    BY <1>2, <2>1
  <2>3. /\ DOMAIN values' = DOMAIN values \union DOMAIN new
        /\ \A k \in DOMAIN new : values'[k] = new[k]
        /\ \A k \in DOMAIN values \ DOMAIN new : values'[k] = values[k]
    BY <1>2, Zenon DEF Put
  <2> HIDE DEF n
  <2> SUFFICES ASSUME NEW k \in Key
               PROVE  \/ /\ k \notin DOMAIN values'
                         /\ \A i \in DOMAIN state' : k \notin DOMAIN StateChanges(state'[i])
                      \/ \E i \in DOMAIN state' :
                           /\ k \in DOMAIN StateChanges(state'[i])
                           /\ \A j \in DOMAIN state' : j > i => k \notin DOMAIN StateChanges(state'[j])
                           /\ k \in DOMAIN values' /\ values'[k] = StateChanges(state'[i])[k]
    BY Zenon DEF StateOfApplied, StateChanges
  <2>4. CASE k \in DOMAIN new
    BY <2>2, <2>3, <2>4, Zenon
  <2>5. CASE k \notin DOMAIN new
    <3> HIDE DEF new
    <3>1. CASE /\ k \notin DOMAIN values
               /\ \A i \in DOMAIN state : k \notin DOMAIN StateChanges(state[i])
      BY <2>2, <2>3, <2>5, <3>1, Zenon DEF new
    <3>2. CASE \E i \in DOMAIN state :
                 /\ k \in DOMAIN StateChanges(state[i])
                 /\ \A j \in DOMAIN state : j > i => k \notin DOMAIN StateChanges(state[j])
                 /\ k \in DOMAIN values /\ values[k] = StateChanges(state[i])[k]
      BY <2>2, <2>3, <2>5, <3>2, Zenon DEF new
    <3> QED BY <3>1, <3>2, Zenon DEF StateOfApplied
  <2> QED BY <2>4, <2>5, Zenon
<1> QED BY <1>1, <1>2, StateIsWritten, Zenon

\* The state of a node is what the executed blocks give in their order, whatever
\* crashes fall between the writes (commitStateChanges, writeStateMerkleTree).
THEOREM StateFollowsBlocks == StorageSpec => []StateOfApplied
<1>1. StorageInit => StateOfApplied
  BY DEF StorageInit, Init, TreeInit, Nil, StateOfApplied
<1>2. LedgerInv /\ StateOfApplied /\ [StorageNext]_storageVars => StateOfApplied'
  BY AppliedStep, Zenon
<1> QED
  BY <1>1, <1>2, AlwaysReplay, StorageImplementsLedger, PTL DEF StorageSpec

-----------------------------------------------------------------------------
(* Module StateTree: the leaves. *)

\* Two finite sets without a common element.
LEMMA CardDisjoint ==
  ASSUME NEW S, NEW T, IsFiniteSet(S), IsFiniteSet(T), S \intersect T = {}
  PROVE  IsFiniteSet(S \union T) /\ Cardinality(S \union T) = Cardinality(S) + Cardinality(T)
<1>1. Cardinality(S \intersect T) = 0 /\ Cardinality(S) \in Nat /\ Cardinality(T) \in Nat
  BY FS_EmptySet, FS_CardinalityType, Zenon
<1>2. /\ IsFiniteSet(S \union T)
      /\ Cardinality(S \union T) = Cardinality(S) + Cardinality(T) - Cardinality(S \intersect T)
  BY FS_Union, Zenon
<1> QED BY <1>1, <1>2

\* The keys of D whose leaves come before that of k.
Before(D, since, k) == {j \in D : since[j] < since[k] \/ (since[j] = since[k] /\ j < k)}

\* Places by the first write and the order of the keys are the numbers from 0 on,
\* one for each key (setNewTreeIndexes).
LEMMA PlacesBijective ==
  ASSUME NEW D \in SUBSET Nat, IsFiniteSet(D), NEW since, NEW place,
         \A k \in D : since[k] \in Nat,
         \A k \in D : place[k] = Cardinality(Before(D, since, k))
  PROVE  /\ Cardinality(D) \in Nat
         /\ \A k \in D : place[k] \in 0 .. Cardinality(D) - 1
         /\ \A j, k \in D : place[j] = place[k] => j = k
         /\ \A i \in 0 .. Cardinality(D) - 1 : \E k \in D : place[k] = i
<1> DEFINE n == Cardinality(D)
           r == [k \in D |-> place[k]]
<1>a. n \in Nat
  BY FS_CardinalityType, Zenon
<1>b. \A k \in D : Before(D, since, k) \in SUBSET D
  BY Zenon DEF Before
<1>c. \A k \in D : IsFiniteSet(Before(D, since, k))
  BY <1>b, FS_Subset, Zenon
<1>d. \A k \in D : Cardinality(Before(D, since, k)) \in Nat
  BY <1>c, FS_CardinalityType, Zenon
<1>1. \A k \in D : place[k] \in 0 .. n - 1
  <2> TAKE k \in D
  <2>1. Before(D, since, k) \in SUBSET D /\ k \notin Before(D, since, k)
    BY DEF Before
  <2>2. Cardinality(Before(D, since, k)) <= n /\ n # Cardinality(Before(D, since, k))
    BY <2>1, FS_Subset, Zenon
  <2> QED BY <1>a, <1>d, <2>2
<1>2. ASSUME NEW j \in D, NEW k \in D, j \in Before(D, since, k)
      PROVE  place[j] # place[k]
  <2>1. j \notin Before(D, since, j)
    BY DEF Before
  <2>2. since[j] < since[k] \/ (since[j] = since[k] /\ j < k)
    BY <1>2, Zenon DEF Before
  <2>3. ASSUME NEW i \in Before(D, since, j) PROVE i \in Before(D, since, k)
    <3>1. i \in D /\ (since[i] < since[j] \/ (since[i] = since[j] /\ i < j))
      BY Zenon DEF Before
    <3>2. /\ i \in Nat /\ j \in Nat /\ k \in Nat
          /\ since[i] \in Nat /\ since[j] \in Nat /\ since[k] \in Nat
      BY <3>1, Zenon
    <3>3. since[i] < since[k] \/ (since[i] = since[k] /\ i < k)
      BY <2>2, <3>1, <3>2
    <3> QED BY <3>1, <3>3, Zenon DEF Before
  <2>4. Before(D, since, j) \in SUBSET Before(D, since, k)
    BY <2>3, Zenon
  <2>5. Cardinality(Before(D, since, k)) # Cardinality(Before(D, since, j))
    BY <1>c, <1>2, <2>1, <2>4, FS_Subset, Zenon
  <2> QED BY <2>5, Zenon
<1>3. \A j, k \in D : j = k \/ j \in Before(D, since, k) \/ k \in Before(D, since, j)
  BY DEF Before
<1>4. \A j, k \in D : place[j] = place[k] => j = k
  BY <1>2, <1>3, Zenon
<1>5. r \in Injection(D, 0 .. n - 1)
  BY <1>1, <1>4, Zenon DEF Injection, IsInjective
<1>6. IsFiniteSet(0 .. n - 1) /\ Cardinality(0 .. n - 1) = n
  <2>1. 0 \in Int /\ n - 1 \in Int
    BY <1>a
  <2>2. /\ IsFiniteSet(0 .. n - 1)
        /\ Cardinality(0 .. n - 1) = IF 0 > n - 1 THEN 0 ELSE (n - 1) - 0 + 1
    BY <2>1, FS_Interval, Zenon
  <2> QED BY <1>a, <2>2
<1>7. r \in Surjection(D, 0 .. n - 1)
  BY <1>5, <1>6, FS_Injection, Zenon
<1>8. \A i \in 0 .. n - 1 : \E k \in D : place[k] = i
  BY <1>7, Zenon DEF Surjection
<1> QED BY <1>a, <1>1, <1>4, <1>8, Zenon

\* A commit gives the new keys the places after all others, in their own order.
LEMMA WriteKeepsIndex ==
  ASSUME IndexInv, NEW list, NEW new,
         Range(list) = DOMAIN new, DOMAIN new \subseteq Key, Write(list, new)
  PROVE  IndexInv'
<1> DEFINE D == DOMAIN index
           K == Range(list)
           F == K \ D
           set == setNewTreeIndexes(list)
<1>1. /\ D \subseteq Nat /\ K \subseteq Nat /\ D \subseteq Key /\ K \subseteq Key
      /\ IsFiniteSet(D) /\ IsFiniteSet(F) /\ Cardinality(D) \in Nat
  <2>1. Key \subseteq Nat /\ IsFiniteSet(Key)
    BY TreeAssumption, Zenon
  <2>2. D \subseteq Key /\ K \subseteq Key /\ F \subseteq Key
    BY Zenon DEF IndexInv
  <2>3. IsFiniteSet(D) /\ IsFiniteSet(F)
    BY <2>1, <2>2, FS_Subset, Zenon
  <2> QED BY <2>1, <2>2, <2>3, FS_CardinalityType, Zenon
<1>2. /\ DOMAIN index' = D \union F /\ DOMAIN values' = DOMAIN values \union K
      /\ DOMAIN first' = DOMAIN first \union K
      /\ leafCount' = leafCount + Cardinality(F) /\ writes' = writes + 1
  BY Zenon DEF Write, Put, setNewTreeIndexes
<1>3. /\ DOMAIN values = D /\ DOMAIN first = D /\ leafCount = Cardinality(D) /\ writes \in Nat
      /\ \A k \in D : first[k] \in 1 .. writes
      /\ \A k \in D : index[k] = Cardinality(Before(D, first, k))
  BY Zenon DEF IndexInv, IndexByFirstWrite, Before
<1>4. /\ \A k \in D : index'[k] = index[k] /\ first'[k] = first[k]
      /\ \A k \in F : /\ index'[k] = leafCount + Cardinality({j \in F : j < k})
                      /\ first'[k] = writes + 1
  <2>1. /\ DOMAIN set = K
        /\ \A k \in K : set[k] = IF k \in D THEN index[k]
                                  ELSE leafCount + Cardinality({j \in F : j < k})
    BY Zenon DEF setNewTreeIndexes
  <2>2. index' = Put(index, set) /\ first' = Put([k \in K |-> writes + 1], first)
    BY Zenon DEF Write
  <2>3. \A k \in D \union F : index'[k] = IF k \in K THEN set[k] ELSE index[k]
    BY <2>1, <2>2, Zenon DEF Put
  <2>4. \A k \in D \union F : first'[k] = IF k \in D THEN first[k] ELSE writes + 1
    BY <1>3, <2>2, Zenon DEF Put
  <2> QED BY <2>1, <2>3, <2>4, Zenon
<1>f. writes \in Nat /\ \A k \in F : first'[k] = writes + 1
  BY <1>3, <1>4, Zenon
<1>5. \A k \in DOMAIN index' : index'[k] = Cardinality(Before(DOMAIN index', first', k))
  <2>0. \A k \in D : first'[k] = first[k] /\ first[k] \in Nat /\ first[k] < writes + 1
    BY <1>3, <1>4
  <2>1. ASSUME NEW k \in D PROVE Before(D \union F, first', k) = Before(D, first, k)
    <3>1. \A j \in F : ~(first'[j] < first'[k]) /\ first'[j] # first'[k]
      BY <1>f, <2>0
    <3> QED BY <2>0, <3>1, Zenon DEF Before
  <2>2. ASSUME NEW k \in F
        PROVE  Cardinality(Before(D \union F, first', k))
                 = Cardinality(D) + Cardinality({j \in F : j < k})
    <3>1. Before(D \union F, first', k) = D \union {j \in F : j < k}
      <4>1. \A j \in D : first'[j] < first'[k]
        BY <1>4, <2>0, Zenon
      <4>2. \A j \in F : ~(first'[j] < first'[k]) /\ first'[j] = first'[k]
        BY <1>f
      <4> QED BY <4>1, <4>2, Zenon DEF Before
    <3>2. D \intersect {j \in F : j < k} = {} /\ {j \in F : j < k} \subseteq F
      BY Zenon
    <3>3. IsFiniteSet({j \in F : j < k})
      BY <1>1, <3>2, FS_Subset, Zenon
    <3> QED BY <1>1, <3>1, <3>2, <3>3, CardDisjoint, Zenon
  <2> QED BY <1>2, <1>3, <1>4, <2>1, <2>2, Zenon
<1>6. leafCount' = Cardinality(DOMAIN index')
  <2>1. D \intersect F = {}
    BY Zenon
  <2> QED BY <1>1, <1>2, <1>3, <2>1, CardDisjoint, Zenon
<1>7. IndexByFirstWrite'
  BY <1>2, <1>3, <1>5, <1>6, Zenon DEF IndexByFirstWrite, Before
<1>8. \A k \in DOMAIN index' : first'[k] \in 1 .. writes'
  <2>1. \A k \in D : first'[k] \in 1 .. writes + 1
    BY <1>3, <1>4
  <2>2. \A k \in F : first'[k] \in 1 .. writes + 1
    BY <1>f
  <2> QED BY <1>2, <2>1, <2>2, Zenon
<1> QED BY <1>1, <1>2, <1>3, <1>7, <1>8 DEF IndexInv

-----------------------------------------------------------------------------
(* Module StateTree: arithmetic. *)

\* What a rounded-up division is.
LEMMA RoundedUp ==
  ASSUME NEW n \in Nat, NEW p \in Nat \ {0}, NEW q \in Nat
  PROVE  (n + p - 1) \div p = q <=> (n <= q * p /\ q * p < n + p)
<1> DEFINE d == (n + p - 1) \div p
<1>1. n + p - 1 \in Nat /\ d \in Nat
  OBVIOUS
<1>2. d * p <= n + p - 1 /\ n + p - 1 < d * p + p
  OBVIOUS
<1>3. ASSUME n <= q * p, q * p < n + p PROVE d = q
  <2>1. d * p < q * p + p /\ q * p < d * p + p
    BY <1>1, <1>2, <1>3
  <2>2. d * p < (q + 1) * p /\ q * p < (d + 1) * p
    BY <1>1, <2>1
  <2>3. d < q + 1 /\ q < d + 1
    BY <1>1, <2>2
  <2> QED BY <1>1, <2>3
<1>4. ASSUME d = q PROVE n <= q * p /\ q * p < n + p
  BY <1>1, <1>2, <1>4
<1> QED BY <1>3, <1>4, Zenon

\* merkle.groupCount: fewer groups than nodes, and at least one.
LEMMA Grouped ==
  ASSUME NEW n \in Nat
  PROVE  /\ GroupCount(n) \in Nat
         /\ n <= GroupCount(n) * BranchFactor /\ GroupCount(n) * BranchFactor < n + BranchFactor
         /\ n = 0 => GroupCount(n) = 0
         /\ n > 0 => GroupCount(n) > 0
         /\ n > 1 => GroupCount(n) < n
<1> DEFINE b == BranchFactor
           g == GroupCount(n)
<1>0. b \in Nat /\ b > 1
  BY TreeAssumption
<1>1. g \in Nat
  BY <1>0 DEF GroupCount
<1>2. n <= g * b /\ g * b < n + b
  BY <1>0, <1>1, RoundedUp DEF GroupCount
<1> HIDE DEF b, g
<1>3. n = 0 => g = 0
  BY <1>0, <1>1, <1>2
<1>4. n > 0 => g > 0
  BY <1>0, <1>1, <1>2
<1>5. n > 1 => g < n
  <2> SUFFICES ASSUME n > 1, g >= n PROVE FALSE
    BY <1>1
  <2>1. n * b <= g * b
    BY <1>0, <1>1
  <2>2. n * b < n + b
    BY <1>0, <1>1, <1>2, <2>1
  <2>3. (n - 1) * (b - 1) >= 1 /\ (n - 1) * (b - 1) = n * b - n - b + 1
    BY <1>0
  <2> QED BY <1>0, <2>2, <2>3
<1> QED BY <1>1, <1>2, <1>3, <1>4, <1>5, Zenon DEF b, g

Powers(n, f) == f = [l \in 0 .. n |-> IF l = 0 THEN 1 ELSE BranchFactor * f[l - 1]]

\* The powers of the branch factor.
LEMMA PowersExist ==
  ASSUME NEW n \in Nat
  PROVE  \E f : Powers(n, f)
<1> DEFINE S == {m \in Nat : \E f : Powers(m, f)}
<1>1. 0 \in S
  <2>1. Powers(0, [l \in 0 .. 0 |-> 1])
    BY DEF Powers
  <2> QED BY <2>1, Zenon
<1>2. ASSUME NEW m \in Nat, m \in S PROVE m + 1 \in S
  <2>1. PICK f : Powers(m, f)
    BY <1>2, Zenon
  <2> DEFINE g == [l \in 0 .. m + 1 |-> IF l = m + 1 THEN BranchFactor * f[m] ELSE f[l]]
  <2>2. \A l \in 0 .. m + 1 : g[l] = IF l = 0 THEN 1 ELSE BranchFactor * g[l - 1]
    <3> SUFFICES ASSUME NEW l \in 0 .. m + 1
                 PROVE  g[l] = IF l = 0 THEN 1 ELSE BranchFactor * g[l - 1]
      BY Zenon
    <3>1. CASE l = m + 1
      <4>1. g[l - 1] = f[m] /\ l # 0
        BY <3>1
      <4> QED BY <3>1, <4>1, Zenon
    <3>2. CASE l # m + 1
      <4>1. l \in 0 .. m /\ (l # 0 => l - 1 \in 0 .. m)
        BY <3>2
      <4>2. g[l] = f[l] /\ (l # 0 => g[l - 1] = f[l - 1])
        BY <3>2, <4>1
      <4>3. f[l] = IF l = 0 THEN 1 ELSE BranchFactor * f[l - 1]
        BY <2>1, <4>1, Zenon DEF Powers
      <4> QED BY <4>2, <4>3, Zenon
    <3> QED BY <3>1, <3>2, Zenon
  <2>3. g = [l \in 0 .. m + 1 |-> g[l]]
    BY Zenon
  <2> HIDE DEF g
  <2>4. Powers(m + 1, g)
    BY <2>2, <2>3, Zenon DEF Powers
  <2> QED BY <2>4
<1> HIDE DEF S
<1>3. n \in S
  BY <1>1, <1>2, Induction, Zenon
<1> QED BY <1>3, Zenon DEF S

\* The number of keys is a natural, and a bound of the levels.
LEMMA KeyCount == Cardinality(Key) \in Nat
BY TreeAssumption, FS_CardinalityType, Zenon

\* Every power is the branch factor times the one below: groups of groups
\* (merkle.groupCount, level after level).
LEMMA PowerUnfolds ==
  \A l \in 0 .. Cardinality(Key) :
    /\ Power[l] = IF l = 0 THEN 1 ELSE BranchFactor * Power[l - 1]
    /\ Power[l] \in Nat \ {0}
<1> DEFINE C == Cardinality(Key)
<1>0. C \in Nat /\ BranchFactor \in Nat \ {0}
  BY KeyCount, TreeAssumption, Zenon
<1>1. \E f : Powers(C, f)
  BY <1>0, PowersExist, Zenon
<1>2. Powers(C, Power)
  BY <1>1, Zenon DEF Power, Powers
<1>3. \A l \in 0 .. C : Power[l] = IF l = 0 THEN 1 ELSE BranchFactor * Power[l - 1]
  BY <1>2, Zenon DEF Powers
<1> HIDE DEF C
<1> DEFINE S == {l \in Nat : l <= C => Power[l] \in Nat \ {0}}
<1>4. 0 \in S
  BY <1>0, <1>3
<1>5. ASSUME NEW l \in Nat, l \in S PROVE l + 1 \in S
  <2> SUFFICES ASSUME l + 1 <= C PROVE Power[l + 1] \in Nat \ {0}
    OBVIOUS
  <2>1. l \in 0 .. C /\ l + 1 \in 0 .. C /\ Power[l] \in Nat \ {0}
    BY <1>0, <1>5
  <2>2. Power[l + 1] = BranchFactor * Power[l]
    BY <1>3, <2>1
  <2>3. \A x, y \in Nat \ {0} : x * y \in Nat \ {0}
    OBVIOUS
  <2> QED BY <1>0, <2>1, <2>2, <2>3, Zenon
<1> HIDE DEF S
<1>6. Nat \subseteq S
  BY <1>4, <1>5, Induction, Zenon
<1>7. \A l \in 0 .. C : Power[l] \in Nat \ {0}
  BY <1>0, <1>6 DEF S
<1> QED BY <1>3, <1>7, Zenon DEF C

\* A number n of leaves, the height of the tree over them.
HeightOf(f, n) == IF n <= 1 THEN 1 ELSE 1 + f[GroupCount(n)]
HeightsUpTo(n, f) == f = [m \in 0 .. n |-> HeightOf(f, m)]

\* TreeCalc.Height ends: there are fewer groups than nodes.
LEMMA HeightsExist ==
  ASSUME NEW n \in Nat
  PROVE  \E f : HeightsUpTo(n, f)
<1> DEFINE S == {m \in Nat : \E f : HeightsUpTo(m, f)}
<1>1. 0 \in S
  <2>1. HeightsUpTo(0, [m \in 0 .. 0 |-> 1])
    BY DEF HeightsUpTo, HeightOf
  <2> QED BY <2>1, Zenon
<1>2. ASSUME NEW m \in Nat, m \in S PROVE m + 1 \in S
  <2>1. PICK f : HeightsUpTo(m, f)
    BY <1>2, Zenon
  <2> DEFINE g == [k \in 0 .. m + 1 |-> IF k = m + 1 THEN HeightOf(f, m + 1) ELSE f[k]]
  <2>2. \A k \in 0 .. m + 1 : g[k] = HeightOf(g, k)
    <3> SUFFICES ASSUME NEW k \in 0 .. m + 1
                 PROVE  g[k] = HeightOf(g, k)
      BY Zenon
    <3>1. k > 1 => GroupCount(k) \in 0 .. m /\ GroupCount(k) < k
      BY Grouped
    <3>2. k > 1 => g[GroupCount(k)] = f[GroupCount(k)]
      BY <3>1
    <3>3. HeightOf(g, k) = HeightOf(f, k)
      <4>1. ~(k <= 1) => k > 1
        OBVIOUS
      <4>2. ~(k <= 1) => g[GroupCount(k)] = f[GroupCount(k)]
        BY <3>2, <4>1, Zenon
      <4> HIDE DEF g
      <4> QED BY <4>2, Zenon DEF HeightOf
    <3>4. k # m + 1 => f[k] = HeightOf(f, k)
      <4>1. k # m + 1 => k \in 0 .. m
        OBVIOUS
      <4> QED BY <2>1, <4>1, Zenon DEF HeightsUpTo
    <3>5. g[k] = IF k = m + 1 THEN HeightOf(f, m + 1) ELSE f[k]
      BY Zenon
    <3> QED BY <3>3, <3>4, <3>5, Zenon
  <2>3. g = [k \in 0 .. m + 1 |-> g[k]]
    BY Zenon
  <2> HIDE DEF g
  <2>4. HeightsUpTo(m + 1, g)
    BY <2>2, <2>3, Zenon DEF HeightsUpTo
  <2> QED BY <2>4
<1> HIDE DEF S
<1>3. n \in S
  BY <1>1, <1>2, Induction, Zenon
<1> QED BY <1>3, Zenon DEF S

\* The height of a tree is one more than that of the tree over its groups, and at
\* most the number of leaves.
LEMMA HeightUnfolds ==
  \A n \in 0 .. Cardinality(Key) :
    /\ n <= 1 => Height[n] = 1
    /\ n > 1 => Height[n] = 1 + Height[GroupCount(n)]
    /\ Height[n] \in Nat \ {0} /\ (n > 0 => Height[n] <= n)
    /\ n > 1 => Height[n] > 1
<1> DEFINE C == Cardinality(Key)
<1>0. C \in Nat
  BY KeyCount, Zenon
<1>1. \E f : HeightsUpTo(C, f)
  BY <1>0, HeightsExist, Zenon
<1>2. HeightsUpTo(C, Height)
  BY <1>1, Zenon DEF Height, HeightsUpTo, HeightOf
<1>3. \A n \in 0 .. C : Height[n] = IF n <= 1 THEN 1 ELSE 1 + Height[GroupCount(n)]
  BY <1>2, Zenon DEF HeightsUpTo, HeightOf
<1> HIDE DEF C
<1> DEFINE Good(m) == \A n \in 0 .. m : n <= C => Height[n] \in Nat \ {0} /\ (n > 0 => Height[n] <= n)
           S == {m \in Nat : Good(m)}
<1>4. 0 \in S
  BY <1>0, <1>3
<1>5. ASSUME NEW m \in Nat, m \in S PROVE m + 1 \in S
  <2>0. Good(m)
    BY <1>5, Zenon
  <2>1. ASSUME NEW n \in 0 .. m + 1, n <= C
        PROVE  Height[n] \in Nat \ {0} /\ (n > 0 => Height[n] <= n)
    <3>0. n \in 0 .. C
      BY <1>0, <2>1
    <3>1. CASE n <= 1
      BY <1>3, <3>0, <3>1
    <3>2. CASE n > 1
      <4>1. GroupCount(n) \in 1 .. m /\ GroupCount(n) < n
        BY <3>2, Grouped
      <4>2. Height[GroupCount(n)] \in Nat \ {0} /\ Height[GroupCount(n)] <= GroupCount(n)
        BY <1>0, <2>0, <2>1, <4>1
      <4>3. Height[n] = 1 + Height[GroupCount(n)]
        BY <1>3, <3>0, <3>2
      <4> QED BY <4>1, <4>2, <4>3
    <3> QED BY <3>1, <3>2
  <2> QED BY <2>1
<1> HIDE DEF S
<1>6. Nat \subseteq S
  BY <1>4, <1>5, Induction, Zenon
<1>7. \A n \in 0 .. C : Height[n] \in Nat \ {0} /\ (n > 0 => Height[n] <= n)
  BY <1>0, <1>6 DEF S
<1>8. ASSUME NEW n \in 0 .. C, n > 1 PROVE Height[n] > 1
  <2>1. GroupCount(n) \in 0 .. C
    BY <1>0, <1>8, Grouped
  <2> QED BY <1>3, <1>7, <1>8, <2>1
<1>9. ASSUME NEW n \in 0 .. C, n > 1 PROVE Height[n] = 1 + Height[GroupCount(n)]
  BY <1>3, <1>9
<1>10. ASSUME NEW n \in 0 .. C, n <= 1 PROVE Height[n] = 1
  BY <1>3, <1>10, Zenon
<1> QED BY <1>7, <1>8, <1>9, <1>10, Zenon DEF C

\* What the width of a level is: the leaves, rounded up.
LEMMA WidthIs ==
  ASSUME NEW n \in Nat, NEW l \in 0 .. Cardinality(Key)
  PROVE  /\ Width(n, l) \in Nat
         /\ \A q \in Nat : Width(n, l) = q <=> (n <= q * Power[l] /\ q * Power[l] < n + Power[l])
<1>0. Power[l] \in Nat \ {0}
  BY PowerUnfolds, Zenon
<1>1. Width(n, l) \in Nat
  BY <1>0 DEF Width
<1> QED BY <1>0, <1>1, RoundedUp, Zenon DEF Width

\* More leaves, wider levels.
LEMMA WidthMonotone ==
  ASSUME NEW n \in Nat, NEW c \in Nat, n <= c, NEW l \in 0 .. Cardinality(Key)
  PROVE  Width(n, l) <= Width(c, l)
<1> DEFINE p == Power[l]
           v == Width(n, l)
           w == Width(c, l)
<1>0. p \in Nat \ {0} /\ v \in Nat /\ w \in Nat
  BY PowerUnfolds, WidthIs, Zenon
<1>1. v * p < n + p /\ c <= w * p
  BY WidthIs, Zenon
<1> HIDE DEF p, v, w
<1>2. v * p < (w + 1) * p
  BY <1>0, <1>1
<1>3. v < w + 1
  BY <1>0, <1>2
<1> QED BY <1>0, <1>3 DEF v, w

\* The width of a level is the number of groups of the one below (Tree.Update).
LEMMA WidthNext ==
  ASSUME NEW n \in Nat, NEW l \in Nat, l + 1 <= Cardinality(Key)
  PROVE  Width(n, l + 1) = GroupCount(Width(n, l))
<1> DEFINE b == BranchFactor
           p == Power[l]
           q == Width(n, l)
           r == GroupCount(q)
<1>0. l \in 0 .. Cardinality(Key) /\ l + 1 \in 0 .. Cardinality(Key)
  BY KeyCount
<1>1. b \in Nat \ {0} /\ p \in Nat \ {0} /\ q \in Nat
  BY <1>0, TreeAssumption, PowerUnfolds, WidthIs, Zenon
<1>2. n <= q * p /\ q * p < n + p
  BY <1>0, <1>1, WidthIs, Zenon
<1>3. r \in Nat /\ q <= r * b /\ r * b < q + b
  BY <1>1, Grouped, Zenon
<1>4. Power[l + 1] = b * p
  BY <1>0, PowerUnfolds
<1> HIDE DEF b, p, q, r
<1>5. n <= r * (b * p)
  <2>1. q * p <= (r * b) * p
    BY <1>1, <1>3
  <2>2. (r * b) * p = r * (b * p)
    BY <1>1, <1>3
  <2> QED BY <1>1, <1>2, <1>3, <2>1, <2>2
<1>6. r * (b * p) < n + b * p
  <2>1. r * b <= q + b - 1 /\ r * b \in Nat /\ q + b - 1 \in Nat
    BY <1>1, <1>3
  <2>2. (r * b) * p <= (q + b - 1) * p
    BY <1>1, <2>1
  <2>3. (r * b) * p = r * (b * p) /\ (q + b - 1) * p = q * p + b * p - p
    BY <1>1, <1>3
  <2> QED BY <1>1, <1>2, <1>3, <2>2, <2>3
<1>7. r * Power[l + 1] < n + Power[l + 1] /\ n <= r * Power[l + 1]
  BY <1>4, <1>5, <1>6, Zenon
<1> QED BY <1>0, <1>3, <1>7, WidthIs, Zenon DEF q, r

\* A tree over n leaves has one root, and nothing above it.
LEMMA HeightIsOfWidth ==
  ASSUME NEW n \in 1 .. Cardinality(Key)
  PROVE  /\ Width(n, 0) = n
         /\ Width(n, Height[n] - 1) = 1
         /\ \A l \in 0 .. Height[n] - 2 : Width(n, l) > 1
<1> DEFINE C == Cardinality(Key)
           H == Height[n]
<1>0. C \in Nat /\ n \in 0 .. C /\ H \in Nat \ {0} /\ H <= n
  BY KeyCount, HeightUnfolds
<1> DEFINE S == {l \in Nat : l < H => Width(n, l) \in 1 .. n /\ H = l + Height[Width(n, l)]}
<1>1. Width(n, 0) = n
  <2>1. Power[0] = 1 /\ 0 \in 0 .. C
    BY <1>0, PowerUnfolds
  <2>2. n \in Nat /\ n <= n * 1 /\ n * 1 < n + 1
    OBVIOUS
  <2> QED BY <2>1, <2>2, WidthIs, Zenon
<1>2. 0 \in S
  BY <1>0, <1>1
<1>3. ASSUME NEW l \in Nat, l \in S PROVE l + 1 \in S
  <2> SUFFICES ASSUME l + 1 < H
               PROVE  Width(n, l + 1) \in 1 .. n /\ H = (l + 1) + Height[Width(n, l + 1)]
    OBVIOUS
  <2> DEFINE w == Width(n, l)
  <2>1. w \in 1 .. n /\ H = l + Height[w]
    BY <1>0, <1>3
  <2>2. w \in 0 .. C /\ Height[w] # 1
    BY <1>0, <2>1
  <2>3. w > 1
    BY <2>2, HeightUnfolds
  <2>4. Height[w] = 1 + Height[GroupCount(w)] /\ GroupCount(w) \in 1 .. w
    BY <2>2, <2>3, HeightUnfolds, Grouped
  <2>5. Width(n, l + 1) = GroupCount(w)
    BY <1>0, WidthNext
  <2>6. Height[GroupCount(w)] \in Nat
    BY <1>0, <2>1, <2>4, HeightUnfolds
  <2> HIDE DEF w, H
  <2> QED BY <1>0, <2>1, <2>4, <2>5, <2>6
<1> HIDE DEF S
<1>4. Nat \subseteq S
  BY <1>2, <1>3, Induction, Zenon
<1>5. ASSUME NEW l \in Nat, l < H
      PROVE  Width(n, l) \in 0 .. C /\ Width(n, l) # 0 /\ H = l + Height[Width(n, l)]
  BY <1>0, <1>4, <1>5 DEF S
<1>6. Width(n, H - 1) = 1
  <2>1. H - 1 \in Nat /\ H - 1 < H
    BY <1>0
  <2>2. /\ Width(n, H - 1) \in 0 .. C /\ Width(n, H - 1) # 0
        /\ Height[Width(n, H - 1)] \in Nat /\ H = (H - 1) + Height[Width(n, H - 1)]
    BY <1>5, <2>1, HeightUnfolds, Zenon
  <2>3. Height[Width(n, H - 1)] = 1
    BY <1>0, <2>2
  <2> QED BY <2>2, <2>3, HeightUnfolds
<1>7. ASSUME NEW l \in 0 .. H - 2 PROVE Width(n, l) > 1
  <2>1. l \in Nat /\ l < H
    BY <1>0
  <2>2. /\ Width(n, l) \in 0 .. C /\ Width(n, l) # 0
        /\ Height[Width(n, l)] \in Nat /\ H = l + Height[Width(n, l)]
    BY <1>5, <2>1, HeightUnfolds, Zenon
  <2>3. Height[Width(n, l)] # 1
    BY <1>0, <2>1, <2>2
  <2> QED BY <2>2, <2>3, HeightUnfolds
<1> QED BY <1>1, <1>6, <1>7, Zenon

\* The nodes of a group.
LEMMA GroupIs ==
  ASSUME NEW i \in Nat, NEW g \in Nat
  PROVE  /\ GroupOfNode(i) \in Nat
         /\ GroupOfNode(i) = g <=> FirstNodeOfGroup(g) <= i /\ i < FirstNodeOfGroup(g) + BranchFactor
         /\ FirstNodeOfGroup(g) \in Nat
<1> DEFINE b == BranchFactor
           d == i \div b
<1>0. b \in Nat \ {0}
  BY TreeAssumption, Zenon
<1>1. d \in Nat /\ d * b <= i /\ i < d * b + b
  BY <1>0
<1>2. g * b \in Nat
  BY <1>0
<1>3. ASSUME g * b <= i, i < g * b + b PROVE d = g
  <2>1. d * b < (g + 1) * b /\ g * b < (d + 1) * b
    BY <1>0, <1>1, <1>3
  <2>2. d < g + 1 /\ g < d + 1
    BY <1>0, <1>1, <2>1
  <2> QED BY <1>1, <2>2
<1> QED BY <1>1, <1>2, <1>3, Zenon DEF GroupOfNode, FirstNodeOfGroup

-----------------------------------------------------------------------------
(* Module StateTree: the hash of a group. *)

Extended(group, w, j) == IF group[j] = Nil THEN w ELSE Append(w, group[j])
Writes(group, n, f) == f = [j \in 0 .. n |-> IF j = 0 THEN << >> ELSE Extended(group, f[j - 1], j)]

\* What Group.Sum has written after each node.
LEMMA WritesExist ==
  ASSUME NEW group, NEW n \in Nat
  PROVE  \E f : Writes(group, n, f)
<1> DEFINE S == {m \in Nat : \E f : Writes(group, m, f)}
<1>1. 0 \in S
  <2>1. Writes(group, 0, [j \in 0 .. 0 |-> << >>])
    BY DEF Writes
  <2> QED BY <2>1, Zenon
<1>2. ASSUME NEW m \in Nat, m \in S PROVE m + 1 \in S
  <2>1. PICK f : Writes(group, m, f)
    BY <1>2, Zenon
  <2> DEFINE g == [j \in 0 .. m + 1 |-> IF j = m + 1 THEN Extended(group, f[m], m + 1) ELSE f[j]]
  <2>2. \A j \in 0 .. m + 1 : g[j] = IF j = 0 THEN << >> ELSE Extended(group, g[j - 1], j)
    <3> SUFFICES ASSUME NEW j \in 0 .. m + 1
                 PROVE  g[j] = IF j = 0 THEN << >> ELSE Extended(group, g[j - 1], j)
      BY Zenon
    <3>1. CASE j = m + 1
      <4>1. g[j - 1] = f[m] /\ j # 0
        BY <3>1
      <4> QED BY <3>1, <4>1, Zenon
    <3>2. CASE j # m + 1
      <4>1. j \in 0 .. m /\ (j # 0 => j - 1 \in 0 .. m)
        BY <3>2
      <4>2. g[j] = f[j] /\ (j # 0 => g[j - 1] = f[j - 1])
        BY <3>2, <4>1
      <4>3. f[j] = IF j = 0 THEN << >> ELSE Extended(group, f[j - 1], j)
        BY <2>1, <4>1, Zenon DEF Writes
      <4> QED BY <4>2, <4>3, Zenon
    <3> QED BY <3>1, <3>2, Zenon
  <2>3. g = [j \in 0 .. m + 1 |-> g[j]]
    BY Zenon
  <2> HIDE DEF g
  <2>4. Writes(group, m + 1, g)
    BY <2>2, <2>3, Zenon DEF Writes
  <2> QED BY <2>4
<1> HIDE DEF S
<1>3. n \in S
  BY <1>1, <1>2, Induction, Zenon
<1> QED BY <1>3, Zenon DEF S

\* The hash of a group is over what was written after its last node.
LEMMA SumUnfolds ==
  ASSUME NEW group
  PROVE  \E f : Writes(group, BranchFactor, f) /\ Sum(group) = f[BranchFactor]
<1> DEFINE w == CHOOSE f : Writes(group, BranchFactor, f)
<1>1. \E f : Writes(group, BranchFactor, f)
  BY WritesExist, TreeAssumption, Zenon
<1>2. Writes(group, BranchFactor, w)
  BY <1>1, Zenon
<1>3. Sum(group) = w[BranchFactor]
  BY Zenon DEF Sum, Writes, Extended
<1> QED BY <1>2, <1>3, Zenon

\* The hash of a group whose first m nodes are there is over these.
LEMMA SumOfFirst ==
  ASSUME NEW group, NEW m \in 0 .. BranchFactor,
         \A j \in 1 .. m : group[j] # Nil,
         \A j \in m + 1 .. BranchFactor : group[j] = Nil
  PROVE  Sum(group) = [j \in 1 .. m |-> group[j]]
<1> DEFINE T(j) == [i \in 1 .. j |-> group[i]]
<1>0. BranchFactor \in Nat /\ m \in Nat
  BY TreeAssumption
<1>1. PICK f : Writes(group, BranchFactor, f) /\ Sum(group) = f[BranchFactor]
  BY SumUnfolds, Zenon
<1>2. \A j \in 0 .. BranchFactor : f[j] = IF j = 0 THEN << >> ELSE Extended(group, f[j - 1], j)
  BY <1>1, Zenon DEF Writes
<1> DEFINE S == {j \in Nat : (j <= m => f[j] = T(j)) /\ (j > m /\ j <= BranchFactor => f[j] = T(m))}
<1>3. 0 \in S
  <2>1. f[0] = << >> /\ T(0) = << >>
    BY <1>0, <1>2
  <2> QED BY <1>0, <2>1
<1>4. ASSUME NEW j \in Nat, j \in S PROVE j + 1 \in S
  <2>1. CASE j + 1 <= m
    <3>1. f[j] = T(j) /\ group[j + 1] # Nil
      BY <1>0, <1>4, <2>1
    <3>2. f[j + 1] = Append(T(j), group[j + 1])
      <4>1. j + 1 \in 0 .. BranchFactor /\ j + 1 # 0 /\ (j + 1) - 1 = j
        BY <1>0, <2>1
      <4>2. f[j + 1] = Extended(group, f[j], j + 1)
        BY <1>2, <4>1, Zenon
      <4> QED BY <3>1, <4>2, Zenon DEF Extended
    <3>3. Append(T(j), group[j + 1]) = T(j + 1)
      <4> DEFINE V == {group[i] : i \in 1 .. j + 1}
      <4>1. T(j) \in Seq(V) /\ Len(T(j)) = j /\ group[j + 1] \in V
        OBVIOUS
      <4>2. T(j + 1) \in Seq(V) /\ Len(T(j + 1)) = j + 1
        OBVIOUS
      <4> QED BY <4>1, <4>2
    <3> HIDE DEF T
    <3> QED BY <1>0, <2>1, <3>2, <3>3
  <2>2. CASE ~(j + 1 <= m) /\ j + 1 <= BranchFactor
    <3>1. f[j] = T(m) /\ group[j + 1] = Nil
      BY <1>0, <1>4, <2>2
    <3>2. f[j + 1] = f[j]
      BY <1>0, <1>2, <2>2, <3>1 DEF Extended
    <3> QED BY <1>0, <2>2, <3>1, <3>2
  <2>3. CASE ~(j + 1 <= BranchFactor)
    BY <1>0, <2>3
  <2> QED BY <2>1, <2>2, <2>3, Zenon
<1> HIDE DEF S
<1>5. BranchFactor \in S
  BY <1>0, <1>3, <1>4, Induction, Zenon
<1>6. f[BranchFactor] = T(m)
  BY <1>0, <1>5 DEF S
<1> QED BY <1>1, <1>6, Zenon

-----------------------------------------------------------------------------
(* Module StateTree: the rows of an update. *)

Leaves(leaves, c) == [size |-> c, updated |-> leaves]
Above(r, level) ==
  [size |-> GroupCount(r.size), updated |-> updateOneLevel(r.updated, level, r.size)]
Rows(leaves, c, n, f) ==
  f = [level \in 0 .. n |-> IF level = 0 THEN Leaves(leaves, c) ELSE Above(f[level - 1], level - 1)]

\* The rows that Tree.Update goes through.
LEMMA RowsExist ==
  ASSUME NEW leaves, NEW c, NEW n \in Nat
  PROVE  \E f : Rows(leaves, c, n, f)
<1> DEFINE S == {m \in Nat : \E f : Rows(leaves, c, m, f)}
<1>1. 0 \in S
  <2>1. Rows(leaves, c, 0, [l \in 0 .. 0 |-> Leaves(leaves, c)])
    BY DEF Rows
  <2> QED BY <2>1, Zenon
<1>2. ASSUME NEW m \in Nat, m \in S PROVE m + 1 \in S
  <2>1. PICK f : Rows(leaves, c, m, f)
    BY <1>2, Zenon
  <2> DEFINE g == [l \in 0 .. m + 1 |-> IF l = m + 1 THEN Above(f[m], m) ELSE f[l]]
  <2>2. \A l \in 0 .. m + 1 : g[l] = IF l = 0 THEN Leaves(leaves, c) ELSE Above(g[l - 1], l - 1)
    <3> SUFFICES ASSUME NEW l \in 0 .. m + 1
                 PROVE  g[l] = IF l = 0 THEN Leaves(leaves, c) ELSE Above(g[l - 1], l - 1)
      BY Zenon
    <3>1. CASE l = m + 1
      <4>1. g[l - 1] = f[m] /\ l # 0 /\ l - 1 = m
        BY <3>1
      <4> QED BY <3>1, <4>1, Zenon
    <3>2. CASE l # m + 1
      <4>1. l \in 0 .. m /\ (l # 0 => l - 1 \in 0 .. m)
        BY <3>2
      <4>2. g[l] = f[l] /\ (l # 0 => g[l - 1] = f[l - 1])
        BY <3>2, <4>1
      <4>3. f[l] = IF l = 0 THEN Leaves(leaves, c) ELSE Above(f[l - 1], l - 1)
        BY <2>1, <4>1, Zenon DEF Rows
      <4> QED BY <4>2, <4>3, Zenon
    <3> QED BY <3>1, <3>2, Zenon
  <2>3. g = [l \in 0 .. m + 1 |-> g[l]]
    BY Zenon
  <2> HIDE DEF g
  <2>4. Rows(leaves, c, m + 1, g)
    BY <2>2, <2>3, Zenon DEF Rows
  <2> QED BY <2>4
<1> HIDE DEF S
<1>3. n \in S
  BY <1>1, <1>2, Induction, Zenon
<1> QED BY <1>3, Zenon DEF S

\* Every row of an update is made from the one below.
LEMMA UpdateUnfolds ==
  ASSUME NEW leaves, NEW c \in 1 .. Cardinality(Key)
  PROVE  /\ DOMAIN Update(leaves, c) = 0 .. Height[c] - 1
         /\ Update(leaves, c)[0].size = c
         /\ Update(leaves, c)[0].updated = leaves
         /\ \A l \in Nat : l + 1 < Height[c] =>
              /\ Update(leaves, c)[l + 1].size = GroupCount(Update(leaves, c)[l].size)
              /\ Update(leaves, c)[l + 1].updated
                   = updateOneLevel(Update(leaves, c)[l].updated, l, Update(leaves, c)[l].size)
<1> DEFINE H == Height[c]
           R == Update(leaves, c)
<1>0. H \in Nat \ {0} /\ H - 1 \in Nat
  BY HeightUnfolds, KeyCount
<1>1. \E f : Rows(leaves, c, H - 1, f)
  BY <1>0, RowsExist, Zenon
<1>2. Rows(leaves, c, H - 1, R)
  BY <1>1, Zenon DEF Rows, Update, Above, Leaves
<1> HIDE DEF R, H
<1>3. /\ DOMAIN R = 0 .. H - 1
      /\ \A l \in 0 .. H - 1 : R[l] = IF l = 0 THEN Leaves(leaves, c) ELSE Above(R[l - 1], l - 1)
  BY <1>2, Zenon DEF Rows
<1>4. R[0] = Leaves(leaves, c)
  BY <1>0, <1>3
<1>5. ASSUME NEW l \in Nat, l + 1 < H PROVE R[l + 1] = Above(R[l], l)
  <2>1. l + 1 \in 0 .. H - 1 /\ l + 1 # 0 /\ (l + 1) - 1 = l
    BY <1>0, <1>5
  <2> QED BY <1>3, <2>1, Zenon
<1>6. \A l \in Nat : l + 1 < H =>
        /\ R[l + 1].size = GroupCount(R[l].size)
        /\ R[l + 1].updated = updateOneLevel(R[l].updated, l, R[l].size)
  <2>1. \A r, l : /\ Above(r, l).size = GroupCount(r.size)
                 /\ Above(r, l).updated = updateOneLevel(r.updated, l, r.size)
    BY Zenon DEF Above
  <2> QED BY <1>5, <2>1, Zenon
<1> QED BY <1>3, <1>4, <1>6 DEF R, H, Leaves

GroupSize(g, w) ==
  IF w - FirstNodeOfGroup(g) < BranchFactor THEN w - FirstNodeOfGroup(g) ELSE BranchFactor

\* The groups of a level of w nodes.
LEMMA GroupsOfRow ==
  ASSUME NEW w \in Nat
  PROVE  /\ \A i \in 0 .. w - 1 : GroupOfNode(i) \in 0 .. GroupCount(w) - 1
         /\ \A g \in Nat : g < GroupCount(w) <=> FirstNodeOfGroup(g) < w
         /\ \A g \in 0 .. GroupCount(w) - 1 :
              /\ FirstNodeOfGroup(g) \in Nat
              /\ GroupSize(g, w) \in 1 .. BranchFactor
              /\ \A j \in 1 .. BranchFactor :
                   /\ FirstNodeOfGroup(g) + j - 1 < w <=> j <= GroupSize(g, w)
                   /\ FirstNodeOfGroup(g) + j - 1 \in Nat
                   /\ GroupOfNode(FirstNodeOfGroup(g) + j - 1) = g
<1> DEFINE b == BranchFactor
           q == GroupCount(w)
<1>0. b \in Nat \ {0} /\ q \in Nat /\ w <= q * b /\ q * b < w + b
  BY TreeAssumption, Grouped, Zenon
<1>1. ASSUME NEW g \in Nat
      PROVE  g * b \in Nat /\ (g < q <=> g * b < w)
  <2>1. g * b \in Nat /\ (g + 1) * b = g * b + b
    BY <1>0
  <2>2. g < q => (g + 1) * b <= q * b
    BY <1>0
  <2>3. g >= q => g * b >= q * b
    BY <1>0
  <2> QED BY <1>0, <2>1, <2>2, <2>3
<1>2. \A g \in Nat : FirstNodeOfGroup(g) \in Nat /\ (g < q <=> FirstNodeOfGroup(g) < w)
  BY <1>1, Zenon DEF FirstNodeOfGroup
<1> HIDE DEF q
<1>3. ASSUME NEW i \in 0 .. w - 1 PROVE GroupOfNode(i) \in 0 .. q - 1
  <2>1. i \in Nat /\ i < w
    OBVIOUS
  <2>2. GroupOfNode(i) \in Nat
    BY <2>1, GroupIs, Zenon
  <2>3. FirstNodeOfGroup(GroupOfNode(i)) <= i
    BY <2>1, <2>2, GroupIs, Zenon
  <2>4. GroupOfNode(i) < q
    BY <1>2, <2>1, <2>2, <2>3
  <2> QED BY <1>0, <2>2, <2>4
<1>4. ASSUME NEW g \in 0 .. q - 1
      PROVE  /\ FirstNodeOfGroup(g) \in Nat
             /\ GroupSize(g, w) \in 1 .. BranchFactor
             /\ \A j \in 1 .. BranchFactor :
                  /\ FirstNodeOfGroup(g) + j - 1 < w <=> j <= GroupSize(g, w)
                  /\ FirstNodeOfGroup(g) + j - 1 \in Nat
                  /\ GroupOfNode(FirstNodeOfGroup(g) + j - 1) = g
  <2>1. g \in Nat /\ g < q
    BY <1>0
  <2>2. FirstNodeOfGroup(g) \in Nat /\ FirstNodeOfGroup(g) < w
    BY <1>2, <2>1, Zenon
  <2>3. GroupSize(g, w) \in 1 .. BranchFactor
    BY <1>0, <2>2 DEF GroupSize
  <2>4. ASSUME NEW j \in 1 .. BranchFactor
        PROVE  /\ FirstNodeOfGroup(g) + j - 1 < w <=> j <= GroupSize(g, w)
               /\ FirstNodeOfGroup(g) + j - 1 \in Nat
               /\ GroupOfNode(FirstNodeOfGroup(g) + j - 1) = g
    <3>1. FirstNodeOfGroup(g) + j - 1 \in Nat
      BY <1>0, <2>2
    <3>2. FirstNodeOfGroup(g) + j - 1 < w <=> j <= GroupSize(g, w)
      BY <1>0, <2>2 DEF GroupSize
    <3>3. /\ FirstNodeOfGroup(g) <= FirstNodeOfGroup(g) + j - 1
          /\ FirstNodeOfGroup(g) + j - 1 < FirstNodeOfGroup(g) + BranchFactor
      BY <1>0, <2>2
    <3> QED BY <2>1, <3>1, <3>2, <3>3, GroupIs, Zenon
  <2> QED BY <2>2, <2>3, <2>4, Zenon
<1> QED BY <1>2, <1>3, <1>4, Zenon DEF q

-----------------------------------------------------------------------------
(* Module StateTree: one update of the tree. *)

Hashes(node, l, g, w) ==
  [j \in 1 .. GroupSize(g, w) |-> node[<<l, FirstNodeOfGroup(g) + j - 1>>]]

\* What the nodes of a tree are, level by level.
LEMMA TreeIs ==
  ASSUME NEW n, NEW h \in Nat, NEW node
  PROVE  IsTree(n, h, node) <=>
           /\ DOMAIN node = UNION {{l} \X (0 .. Width(n, l) - 1) : l \in 0 .. h - 1}
           /\ \A l \in Nat : \A g \in 0 .. Width(n, l + 1) - 1 :
                l + 1 < h => node[<<l + 1, g>>] = Hashes(node, l, g, Width(n, l))
           /\ n > 0 => Width(n, h - 1) = 1
           /\ \A l \in 0 .. h - 2 : Width(n, l) > 1
<1> DEFINE D == UNION {{l} \X (0 .. Width(n, l) - 1) : l \in 0 .. h - 1}
           PerNode == \A p \in DOMAIN node :
                    p[1] > 0 => node[p] = Hashes(node, p[1] - 1, p[2], Width(n, p[1] - 1))
           PerLevel == \A l \in Nat : \A g \in 0 .. Width(n, l + 1) - 1 :
                l + 1 < h => node[<<l + 1, g>>] = Hashes(node, l, g, Width(n, l))
<1>1. IsTree(n, h, node) <=>
           /\ DOMAIN node = D
           /\ PerNode
           /\ n > 0 => Width(n, h - 1) = 1
           /\ \A l \in 0 .. h - 2 : Width(n, l) > 1
  BY Zenon DEF IsTree, Hashes, GroupSize
<1>2. ASSUME DOMAIN node = D PROVE PerNode <=> PerLevel
  <2>1. ASSUME PerNode, NEW l \in Nat, NEW g \in 0 .. Width(n, l + 1) - 1, l + 1 < h
        PROVE  node[<<l + 1, g>>] = Hashes(node, l, g, Width(n, l))
    <3>1. <<l + 1, g>> \in D
      <4>1. l + 1 \in 0 .. h - 1
        BY <2>1
      <4> QED BY <4>1
    <3>2. <<l + 1, g>>[1] = l + 1 /\ <<l + 1, g>>[2] = g /\ l + 1 > 0 /\ (l + 1) - 1 = l
      OBVIOUS
    <3> HIDE DEF D
    <3> QED BY <1>2, <2>1, <3>1, <3>2, Zenon
  <2>2. ASSUME PerLevel, NEW p \in DOMAIN node, p[1] > 0
        PROVE  node[p] = Hashes(node, p[1] - 1, p[2], Width(n, p[1] - 1))
    <3>1. PICK k \in 0 .. h - 1 : p \in {k} \X (0 .. Width(n, k) - 1)
      BY <1>2, Zenon
    <3>2. p = <<k, p[2]>> /\ p[1] = k /\ p[2] \in 0 .. Width(n, k) - 1
      BY <3>1
    <3>3. k - 1 \in Nat /\ (k - 1) + 1 = k /\ (k - 1) + 1 < h
      BY <2>2, <3>1, <3>2
    <3> QED BY <2>2, <3>2, <3>3
  <2> QED BY <2>1, <2>2, Zenon
<1> QED BY <1>1, <1>2, Zenon

\* The positions of the nodes of a tree.
LEMMA TreePositions ==
  ASSUME NEW n, NEW h \in Nat, NEW node, IsTree(n, h, node), NEW l, NEW i
  PROVE  <<l, i>> \in DOMAIN node <=> l \in 0 .. h - 1 /\ i \in 0 .. Width(n, l) - 1
<1>1. DOMAIN node = UNION {{m} \X (0 .. Width(n, m) - 1) : m \in 0 .. h - 1}
  BY TreeIs, Zenon
<1> QED BY <1>1

\* The hash of a node that is not a leaf.
LEMMA TreeNode ==
  ASSUME NEW n, NEW h \in Nat, NEW node, IsTree(n, h, node),
         NEW l \in Nat, l + 1 < h, NEW g \in 0 .. Width(n, l + 1) - 1
  PROVE  node[<<l + 1, g>>] = Hashes(node, l, g, Width(n, l))
BY TreeIs, Zenon

HeightIn(n) == IF n = 0 THEN 0 ELSE Height[n]

\* The stored tree over n leaves.
Stored(n) ==
  /\ n \in 0 .. Cardinality(Key)
  /\ IsTree(n, HeightIn(n), nodes)
  /\ \A p \in DOMAIN nodes : nodes[p] # Nil

\* The updated nodes of a level of w nodes, with the stored ones, are all of them.
Complete(U, l, w) ==
  /\ DOMAIN U # {} /\ DOMAIN U \subseteq 0 .. w - 1
  /\ \A i \in DOMAIN U : U[i] # Nil
  /\ \A i \in 0 .. w - 1 : i \notin DOMAIN U => <<l, i>> \in DOMAIN nodes

Mixed(U, l, i) == IF i \in DOMAIN U THEN U[i] ELSE nodes[<<l, i>>]
MixedHashes(U, l, g, w) ==
  [j \in 1 .. GroupSize(g, w) |-> Mixed(U, l, FirstNodeOfGroup(g) + j - 1)]

\* The height of a stored tree is a number of levels.
LEMMA HeightInIs ==
  ASSUME NEW n \in 0 .. Cardinality(Key)
  PROVE  HeightIn(n) \in Nat /\ HeightIn(n) <= Cardinality(Key)
<1>1. Cardinality(Key) \in Nat
  BY KeyCount, Zenon
<1>2. n # 0 => Height[n] \in Nat /\ Height[n] <= n
  BY HeightUnfolds
<1> QED BY <1>1, <1>2 DEF HeightIn

\* A group with an updated node is hashed from its updated and its stored nodes
\* (Group.Load, Group.Sum).
LEMMA GroupIsSummed ==
  ASSUME NEW n, Stored(n), NEW w \in Nat, NEW l \in Nat, NEW U, Complete(U, l, w),
         NEW g \in 0 .. GroupCount(w) - 1
  PROVE  /\ Sum(Load(U, l, g, w)) = MixedHashes(U, l, g, w)
         /\ MixedHashes(U, l, g, w) # Nil
<1> DEFINE m == GroupSize(g, w)
           F == FirstNodeOfGroup(g)
           G == Load(U, l, g, w)
<1>1. /\ F \in Nat /\ m \in 1 .. BranchFactor /\ BranchFactor \in Nat
      /\ \A j \in 1 .. BranchFactor : (F + j - 1 < w <=> j <= m) /\ F + j - 1 \in Nat
  BY GroupsOfRow, TreeAssumption, Zenon
<1>2. \A j \in 1 .. BranchFactor :
        G[j] = IF F + j - 1 \in DOMAIN U THEN U[F + j - 1]
               ELSE IF F + j - 1 < w THEN GetNode(l, F + j - 1) ELSE Nil
  BY Zenon DEF Load
<1> HIDE DEF m, F, G
<1>3. ASSUME NEW j \in 1 .. m
      PROVE  G[j] = Mixed(U, l, F + j - 1) /\ G[j] # Nil
  <2>1. j \in 1 .. BranchFactor /\ F + j - 1 < w /\ F + j - 1 \in 0 .. w - 1
    BY <1>1
  <2>2. CASE F + j - 1 \in DOMAIN U
    BY <1>2, <2>1, <2>2, Zenon DEF Mixed, Complete
  <2>3. CASE F + j - 1 \notin DOMAIN U
    <3>1. <<l, F + j - 1>> \in DOMAIN nodes
      BY <2>1, <2>3, Zenon DEF Complete
    <3>2. G[j] = nodes[<<l, F + j - 1>>]
      BY <1>2, <2>1, <2>3, <3>1, Zenon DEF GetNode
    <3> QED BY <2>3, <3>1, <3>2, Zenon DEF Mixed, Stored
  <2> QED BY <2>2, <2>3, Zenon
<1>4. ASSUME NEW j \in m + 1 .. BranchFactor PROVE G[j] = Nil
  <2>1. j \in 1 .. BranchFactor /\ ~(F + j - 1 < w) /\ F + j - 1 \notin 0 .. w - 1
    BY <1>1
  <2>2. F + j - 1 \notin DOMAIN U
    BY <2>1, Zenon DEF Complete
  <2> QED BY <1>2, <2>1, <2>2, Zenon
<1>5. Sum(G) = [j \in 1 .. m |-> G[j]]
  <2>1. m \in 0 .. BranchFactor
    BY <1>1
  <2> QED BY <1>3, <1>4, <2>1, SumOfFirst, Zenon
<1>6. MixedHashes(U, l, g, w) = [j \in 1 .. m |-> Mixed(U, l, F + j - 1)]
  BY Zenon DEF MixedHashes, m, F
<1>7. [j \in 1 .. m |-> G[j]] = [j \in 1 .. m |-> Mixed(U, l, F + j - 1)]
  BY <1>3, Zenon
<1>8. [j \in 1 .. m |-> Mixed(U, l, F + j - 1)] # Nil
  <2>1. 1 \in 1 .. m /\ Nil = << >>
    BY <1>1 DEF Nil
  <2> QED BY <2>1
<1> QED BY <1>5, <1>6, <1>7, <1>8, Zenon DEF G

\* A group without an updated node is stored, and so are all its nodes: the hash
\* that the tree has for it is still right (Tree.updateOneLevel leaves it alone).
LEMMA GroupIsKept ==
  ASSUME NEW n, Stored(n), NEW c \in 1 .. Cardinality(Key), n <= c,
         NEW l \in Nat, l + 1 < Height[c],
         NEW U, Complete(U, l, Width(c, l)),
         NEW g \in 0 .. GroupCount(Width(c, l)) - 1, g \notin groupNodesByParent(U)
  PROVE  /\ <<l + 1, g>> \in DOMAIN nodes
         /\ nodes[<<l + 1, g>>] = MixedHashes(U, l, g, Width(c, l))
<1> DEFINE w == Width(c, l)
           v == Width(n, l)
           m == GroupSize(g, w)
           F == FirstNodeOfGroup(g)
           h == HeightIn(n)
<1>0. /\ n \in Nat /\ n \in 0 .. Cardinality(Key) /\ c \in Nat /\ Cardinality(Key) \in Nat
      /\ Height[c] \in Nat /\ Height[c] <= Cardinality(Key)
      /\ h \in Nat /\ BranchFactor \in Nat /\ BranchFactor > 1
  BY KeyCount, HeightUnfolds, HeightInIs, TreeAssumption DEF Stored
<1>1. l \in 0 .. Cardinality(Key) /\ l + 1 <= Cardinality(Key) /\ w \in Nat /\ v \in Nat /\ v <= w
  <2>1. l \in 0 .. Cardinality(Key) /\ l + 1 <= Cardinality(Key)
    BY <1>0
  <2> QED BY <1>0, <2>1, WidthIs, WidthMonotone, Zenon
<1>2. /\ F \in Nat /\ m \in 1 .. BranchFactor
      /\ \A j \in 1 .. BranchFactor :
           (F + j - 1 < w <=> j <= m) /\ F + j - 1 \in Nat /\ GroupOfNode(F + j - 1) = g
  BY <1>1, GroupsOfRow, Zenon
<1>3. /\ w > 1 /\ Width(n, l + 1) = GroupCount(v)
      /\ \A i \in Nat : i < GroupCount(v) <=> FirstNodeOfGroup(i) < v
  <2>1. l \in 0 .. Height[c] - 2
    BY <1>0
  <2> QED BY <1>0, <1>1, <2>1, HeightIsOfWidth, WidthNext, GroupsOfRow, Zenon
<1> HIDE DEF w, v, m, F, h
<1>4. ASSUME NEW j \in 1 .. m
      PROVE  F + j - 1 \notin DOMAIN U /\ l \in 0 .. h - 1 /\ F + j - 1 < v
  <2>0. j \in 1 .. BranchFactor /\ j <= m
    BY <1>0, <1>2
  <2>1. j \in 1 .. BranchFactor /\ F + j - 1 \in 0 .. w - 1 /\ GroupOfNode(F + j - 1) = g
    BY <1>1, <1>2, <2>0
  <2>2. F + j - 1 \notin DOMAIN U
    BY <2>1, Zenon DEF groupNodesByParent
  <2>3. <<l, F + j - 1>> \in DOMAIN nodes
    BY <2>1, <2>2, Zenon DEF Complete, w
  <2>4. l \in 0 .. h - 1 /\ F + j - 1 \in 0 .. v - 1
    BY <1>0, <2>3, TreePositions DEF Stored, h, v
  <2> QED BY <1>1, <2>2, <2>4
<1>5. F < v /\ F + m - 1 < v /\ l < h
  <2>1. 1 \in 1 .. m /\ m \in 1 .. m /\ m \in Nat
    BY <1>0, <1>2
  <2>2. F + 1 - 1 < v /\ F + m - 1 < v /\ l \in 0 .. h - 1
    BY <1>4, <2>1, Zenon
  <2> QED BY <1>0, <1>2, <2>2
<1>6. n > 0 => Width(n, h - 1) = 1
  BY <1>0, TreeIs, Zenon DEF Stored, h
<1>7. n > 0
  <2>1. n = 0 => h = 0
    BY Zenon DEF HeightIn, h
  <2> QED BY <1>0, <1>5, <2>1
<1>8. l + 1 < h
  <2> SUFFICES ASSUME l = h - 1 PROVE FALSE
    BY <1>0, <1>5
  <2>1. v = 1
    BY <1>6, <1>7, Zenon DEF v
  <2>2. F = 0 /\ m = 1
    BY <1>0, <1>2, <1>5, <2>1
  <2>3. 2 \in 1 .. BranchFactor /\ F + 2 - 1 < w
    BY <1>0, <1>1, <1>3, <2>2
  <2> QED BY <1>2, <2>2, <2>3
<1>9. g \in 0 .. Width(n, l + 1) - 1
  <2>1. GroupCount(v) \in Nat /\ g \in Nat
    BY <1>1, Grouped
  <2>2. g < GroupCount(v)
    BY <1>3, <1>5, <2>1, Zenon DEF F
  <2> QED BY <1>3, <2>1, <2>2
<1>10. <<l + 1, g>> \in DOMAIN nodes
  <2>1. l + 1 \in 0 .. h - 1
    BY <1>0, <1>8
  <2> QED BY <1>0, <1>9, <2>1, TreePositions, Zenon DEF Stored, h
<1>11. nodes[<<l + 1, g>>] = Hashes(nodes, l, g, v)
  <2>1. IsTree(n, h, nodes)
    BY Zenon DEF Stored, h
  <2>2. h \in Nat
    BY <1>0, Zenon
  <2> QED BY <1>8, <1>9, <2>1, <2>2, TreeNode, Zenon DEF v
<1>12. GroupSize(g, v) = m
  <2>1. m = IF w - F < BranchFactor THEN w - F ELSE BranchFactor
    BY Zenon DEF m, F, GroupSize
  <2>2. GroupSize(g, v) = IF v - F < BranchFactor THEN v - F ELSE BranchFactor
    BY Zenon DEF F, GroupSize
  <2> QED BY <1>0, <1>1, <1>2, <1>5, <2>1, <2>2
<1>13. Hashes(nodes, l, g, v) = [j \in 1 .. m |-> nodes[<<l, F + j - 1>>]]
  BY <1>12, Zenon DEF Hashes, F
<1>14. MixedHashes(U, l, g, w) = [j \in 1 .. m |-> Mixed(U, l, F + j - 1)]
  BY Zenon DEF MixedHashes, m, F
<1>15. [j \in 1 .. m |-> nodes[<<l, F + j - 1>>]] = [j \in 1 .. m |-> Mixed(U, l, F + j - 1)]
  BY <1>4, Zenon DEF Mixed
<1> QED BY <1>10, <1>11, <1>13, <1>14, <1>15, Zenon DEF w

\* One level of an update: the next level is complete as well, and every node of it
\* is the hash of the nodes below, updated or stored.
LEMMA LevelIsHashed ==
  ASSUME NEW n, Stored(n), NEW c \in 1 .. Cardinality(Key), n <= c,
         NEW l \in Nat, l + 1 < Height[c],
         NEW U, Complete(U, l, Width(c, l))
  PROVE  LET V == updateOneLevel(U, l, Width(c, l)) IN
         /\ Complete(V, l + 1, Width(c, l + 1))
         /\ \A g \in 0 .. Width(c, l + 1) - 1 : Mixed(V, l + 1, g) = MixedHashes(U, l, g, Width(c, l))
<1> DEFINE w == Width(c, l)
           P == groupNodesByParent(U)
           V == updateOneLevel(U, l, w)
<1>1. w \in Nat /\ Width(c, l + 1) = GroupCount(w)
  <2>1. Cardinality(Key) \in Nat /\ Height[c] \in Nat /\ Height[c] <= c /\ c \in Nat
    BY KeyCount, HeightUnfolds
  <2>2. l \in 0 .. Cardinality(Key) /\ l + 1 <= Cardinality(Key)
    BY <2>1
  <2> QED BY <2>1, <2>2, WidthIs, WidthNext, Zenon
<1>2. DOMAIN V = P /\ \A g \in P : V[g] = Sum(Load(U, l, g, w))
  BY Zenon DEF updateOneLevel
<1>3. P # {} /\ P \subseteq 0 .. GroupCount(w) - 1
  <2>1. \A i \in 0 .. w - 1 : GroupOfNode(i) \in 0 .. GroupCount(w) - 1
    BY <1>1, GroupsOfRow, Zenon
  <2>2. DOMAIN U # {} /\ DOMAIN U \subseteq 0 .. w - 1
    BY Zenon DEF Complete
  <2> QED BY <2>1, <2>2, Zenon DEF groupNodesByParent
<1> HIDE DEF w, P, V
<1>4. ASSUME NEW g \in P
      PROVE  V[g] = MixedHashes(U, l, g, w) /\ V[g] # Nil
  <2>1. g \in 0 .. GroupCount(w) - 1
    BY <1>3, Zenon
  <2>2. Complete(U, l, w)
    BY Zenon DEF w
  <2> QED BY <1>1, <1>2, <2>1, <2>2, GroupIsSummed, Zenon
<1>5. ASSUME NEW g \in 0 .. GroupCount(w) - 1, g \notin P
      PROVE  <<l + 1, g>> \in DOMAIN nodes /\ nodes[<<l + 1, g>>] = MixedHashes(U, l, g, w)
  BY <1>5, GroupIsKept, Zenon DEF w, P
<1>6. Complete(V, l + 1, GroupCount(w))
  BY <1>2, <1>3, <1>4, <1>5, Zenon DEF Complete
<1>7. \A g \in 0 .. GroupCount(w) - 1 : Mixed(V, l + 1, g) = MixedHashes(U, l, g, w)
  BY <1>2, <1>4, <1>5, Zenon DEF Mixed
<1> QED BY <1>1, <1>6, <1>7, Zenon DEF w, V

\* So every level of an update is complete, and hashed from the one below.
LEMMA UpdateIsComplete ==
  ASSUME NEW n, Stored(n), NEW c \in 1 .. Cardinality(Key), n <= c,
         NEW leaves, Complete(leaves, 0, c)
  PROVE  LET R == Update(leaves, c) IN
         /\ \A l \in 0 .. Height[c] - 1 : Complete(R[l].updated, l, Width(c, l))
         /\ \A l \in Nat : \A g \in 0 .. Width(c, l + 1) - 1 :
              l + 1 < Height[c] => Mixed(R[l + 1].updated, l + 1, g)
                                     = MixedHashes(R[l].updated, l, g, Width(c, l))
<1> DEFINE R == Update(leaves, c)
           H == Height[c]
           Good(l) == R[l].size = Width(c, l) /\ Complete(R[l].updated, l, Width(c, l))
           S == {l \in Nat : l < H => Good(l)}
<1>0. H \in Nat
  BY KeyCount, HeightUnfolds
<1>1. /\ R[0].size = c /\ R[0].updated = leaves /\ Width(c, 0) = c
      /\ \A l \in Nat : l + 1 < H =>
           /\ R[l + 1].size = GroupCount(R[l].size)
           /\ R[l + 1].updated = updateOneLevel(R[l].updated, l, R[l].size)
  BY UpdateUnfolds, HeightIsOfWidth
<1>2. ASSUME NEW l \in Nat, l + 1 < H PROVE Width(c, l + 1) = GroupCount(Width(c, l))
  <2>1. Cardinality(Key) \in Nat /\ Height[c] \in Nat /\ Height[c] <= c /\ c \in Nat
    BY KeyCount, HeightUnfolds
  <2>2. l + 1 <= Cardinality(Key)
    BY <1>2, <2>1
  <2> QED BY <2>1, <2>2, WidthNext, Zenon
<1> HIDE DEF R, H
<1>3. ASSUME NEW l \in Nat, l + 1 < H, Good(l)
      PROVE  /\ Good(l + 1)
             /\ \A g \in 0 .. Width(c, l + 1) - 1 :
                  Mixed(R[l + 1].updated, l + 1, g) = MixedHashes(R[l].updated, l, g, Width(c, l))
  <2> DEFINE U == R[l].updated
             V == updateOneLevel(U, l, Width(c, l))
  <2>1. /\ R[l + 1].size = Width(c, l + 1)
        /\ R[l + 1].updated = V
    BY <1>1, <1>2, <1>3, Zenon
  <2> HIDE DEF U
  <2>2. Complete(U, l, Width(c, l)) /\ l + 1 < Height[c]
    BY <1>3, Zenon DEF U, H
  <2>3. /\ Complete(V, l + 1, Width(c, l + 1))
        /\ \A g \in 0 .. Width(c, l + 1) - 1 : Mixed(V, l + 1, g) = MixedHashes(U, l, g, Width(c, l))
    BY <2>2, LevelIsHashed, Zenon
  <2> QED BY <2>1, <2>3, Zenon DEF U
<1>4. 0 \in S
  BY <1>1, Zenon
<1>5. ASSUME NEW l \in Nat, l \in S PROVE l + 1 \in S
  <2>1. l + 1 < H => l < H
    BY <1>0
  <2> QED BY <1>3, <1>5, <2>1
<1> HIDE DEF S
<1>6. Nat \subseteq S
  BY <1>4, <1>5, Induction, Zenon
<1>7. \A l \in Nat : l < H => Good(l)
  BY <1>6, Zenon DEF S
<1>8. ASSUME NEW l \in 0 .. H - 1 PROVE Complete(R[l].updated, l, Width(c, l))
  BY <1>0, <1>7
<1>9. ASSUME NEW l \in Nat, NEW g \in 0 .. Width(c, l + 1) - 1, l + 1 < H
      PROVE  Mixed(R[l + 1].updated, l + 1, g) = MixedHashes(R[l].updated, l, g, Width(c, l))
  <2>1. Good(l)
    BY <1>0, <1>7, <1>9
  <2> QED BY <1>3, <1>9, <2>1, Zenon
<1> QED BY <1>8, <1>9, Zenon DEF R, H

\* More leaves, a tree at least as high.
LEMMA HeightMonotone ==
  ASSUME NEW n \in 0 .. Cardinality(Key), NEW c \in 1 .. Cardinality(Key), n <= c
  PROVE  HeightIn(n) <= Height[c]
<1>0. /\ Cardinality(Key) \in Nat /\ n \in Nat /\ c \in Nat /\ HeightIn(n) \in Nat
      /\ Height[c] \in Nat \ {0} /\ Height[c] <= Cardinality(Key)
  BY KeyCount, HeightInIs, HeightUnfolds
<1> SUFFICES ASSUME HeightIn(n) > Height[c] PROVE FALSE
  BY <1>0
<1>1. n # 0 /\ HeightIn(n) = Height[n]
  BY <1>0 DEF HeightIn
<1> DEFINE l == Height[c] - 1
<1>2. l \in 0 .. Height[n] - 2 /\ l \in 0 .. Cardinality(Key)
  BY <1>0, <1>1
<1>3. Width(n, l) > 1
  BY <1>0, <1>1, <1>2, HeightIsOfWidth
<1>4. Width(c, l) = 1
  BY HeightIsOfWidth, Zenon
<1> HIDE DEF l
<1>5. Width(n, l) <= Width(c, l) /\ Width(n, l) \in Nat
  BY <1>0, <1>2, WidthMonotone, WidthIs, Zenon
<1> QED BY <1>3, <1>4, <1>5

\* The nodes after an update: at every position the updated or the stored one.
LEMMA NodesAfter ==
  ASSUME NEW n, Stored(n), NEW c \in 1 .. Cardinality(Key), n <= c,
         NEW leaves, Complete(leaves, 0, c)
  PROVE  LET R == Update(leaves, c)
             N == Put(nodes, Positions(R))
         IN /\ DOMAIN N = UNION {{l} \X (0 .. Width(c, l) - 1) : l \in 0 .. Height[c] - 1}
            /\ \A l \in 0 .. Height[c] - 1 : \A i \in 0 .. Width(c, l) - 1 :
                 N[<<l, i>>] = Mixed(R[l].updated, l, i) /\ N[<<l, i>>] # Nil
<1> DEFINE R == Update(leaves, c)
           H == Height[c]
           N == Put(nodes, Positions(R))
           Q == UNION {{l} \X DOMAIN R[l].updated : l \in 0 .. H - 1}
           D == UNION {{l} \X (0 .. Width(c, l) - 1) : l \in 0 .. H - 1}
<1>0. /\ Cardinality(Key) \in Nat /\ n \in 0 .. Cardinality(Key) /\ n \in Nat /\ c \in Nat
      /\ H \in Nat /\ H <= Cardinality(Key) /\ HeightIn(n) \in Nat /\ HeightIn(n) <= H
  BY KeyCount, HeightUnfolds, HeightInIs, HeightMonotone DEF Stored
<1>1. \A l \in 0 .. H - 1 : Complete(R[l].updated, l, Width(c, l))
  BY UpdateIsComplete, Zenon
<1>2. DOMAIN R = 0 .. H - 1
  BY UpdateUnfolds, Zenon
<1>3. Positions(R) = [p \in Q |-> R[p[1]].updated[p[2]]]
  BY <1>2, Zenon DEF Positions
<1> HIDE DEF R, H
<1>4. /\ DOMAIN N = DOMAIN nodes \union Q
      /\ \A p \in DOMAIN N : N[p] = IF p \in Q THEN R[p[1]].updated[p[2]] ELSE nodes[p]
  <2> HIDE DEF Q
  <2> QED BY <1>3, Zenon DEF Put
<1>5. \A l, i : <<l, i>> \in DOMAIN nodes => l \in 0 .. H - 1 /\ i \in 0 .. Width(c, l) - 1
  <2> TAKE l, i
  <2> HAVE <<l, i>> \in DOMAIN nodes
  <2>1. IsTree(n, HeightIn(n), nodes) /\ HeightIn(n) \in Nat
    BY <1>0, Zenon DEF Stored
  <2>2. l \in 0 .. HeightIn(n) - 1 /\ i \in 0 .. Width(n, l) - 1
    BY <2>1, TreePositions, Zenon
  <2>3. l \in 0 .. H - 1 /\ l \in 0 .. Cardinality(Key)
    BY <1>0, <2>2
  <2>4. Width(n, l) <= Width(c, l) /\ Width(n, l) \in Nat /\ Width(c, l) \in Nat
    BY <1>0, <2>3, WidthMonotone, WidthIs, Zenon
  <2> QED BY <2>2, <2>3, <2>4
<1>6. \A p \in DOMAIN nodes : p \in D
  <2>1. DOMAIN nodes = UNION {{l} \X (0 .. Width(n, l) - 1) : l \in 0 .. HeightIn(n) - 1}
    BY <1>0, TreeIs, Zenon DEF Stored
  <2>2. \A p \in DOMAIN nodes : p = <<p[1], p[2]>>
    BY <2>1
  <2> QED BY <1>5, <2>2
<1>7. Q \subseteq D
  <2>1. \A l \in 0 .. H - 1 : DOMAIN R[l].updated \subseteq 0 .. Width(c, l) - 1
    BY <1>1, Zenon DEF Complete
  <2> QED BY <2>1
<1>8. ASSUME NEW l \in 0 .. H - 1, NEW i \in 0 .. Width(c, l) - 1
      PROVE  <<l, i>> \in DOMAIN N /\ N[<<l, i>>] = Mixed(R[l].updated, l, i) /\ N[<<l, i>>] # Nil
  <2> DEFINE U == R[l].updated
  <2>1. <<l, i>> \in Q <=> i \in DOMAIN U
    OBVIOUS
  <2>2. /\ \A x \in DOMAIN U : U[x] # Nil
        /\ i \notin DOMAIN U => <<l, i>> \in DOMAIN nodes
    BY <1>1, Zenon DEF Complete
  <2>3. <<l, i>>[1] = l /\ <<l, i>>[2] = i
    BY Zenon
  <2>4. \A p \in DOMAIN nodes : nodes[p] # Nil
    BY Zenon DEF Stored
  <2> HIDE DEF Q, N
  <2>5. CASE i \in DOMAIN U
    <3>1. <<l, i>> \in DOMAIN N /\ N[<<l, i>>] = U[i]
      BY <1>4, <2>1, <2>3, <2>5, Zenon
    <3> QED BY <2>2, <2>5, <3>1, Zenon DEF Mixed
  <2>6. CASE i \notin DOMAIN U
    <3>1. <<l, i>> \in DOMAIN N /\ N[<<l, i>>] = nodes[<<l, i>>]
      BY <1>4, <2>1, <2>2, <2>6, Zenon
    <3> QED BY <2>2, <2>4, <2>6, <3>1, Zenon DEF Mixed
  <2> QED BY <2>5, <2>6, Zenon
<1>9. DOMAIN N = D
  <2>1. DOMAIN N \subseteq D
    <3> HIDE DEF Q, N, D
    <3> QED BY <1>4, <1>6, <1>7, Zenon
  <2>2. D \subseteq DOMAIN N
    <3> HIDE DEF N
    <3> QED BY <1>8
  <2> QED BY <2>1, <2>2, Zenon
<1> QED BY <1>8, <1>9, Zenon DEF R, H

\* An update of a stored tree gives the stored tree over all leaves (Tree.Update).
LEMMA TreeAfter ==
  ASSUME NEW n, Stored(n), NEW c \in 1 .. Cardinality(Key), n <= c,
         NEW leaves, Complete(leaves, 0, c)
  PROVE  LET N == Put(nodes, Positions(Update(leaves, c)))
         IN IsTree(c, Height[c], N)
<1> DEFINE R == Update(leaves, c)
           H == Height[c]
           N == Put(nodes, Positions(R))
<1>0. /\ Cardinality(Key) \in Nat /\ c \in Nat /\ H \in Nat /\ H <= Cardinality(Key)
  BY KeyCount, HeightUnfolds
<1>1. /\ DOMAIN N = UNION {{l} \X (0 .. Width(c, l) - 1) : l \in 0 .. H - 1}
      /\ \A l \in 0 .. H - 1 : \A i \in 0 .. Width(c, l) - 1 : N[<<l, i>>] = Mixed(R[l].updated, l, i)
  BY NodesAfter, Zenon
<1>2. \A l \in Nat : \A g \in 0 .. Width(c, l + 1) - 1 :
         l + 1 < H => Mixed(R[l + 1].updated, l + 1, g) = MixedHashes(R[l].updated, l, g, Width(c, l))
  BY UpdateIsComplete, Zenon
<1>3. Width(c, H - 1) = 1 /\ \A l \in 0 .. H - 2 : Width(c, l) > 1
  BY HeightIsOfWidth, Zenon
<1>4. ASSUME NEW l \in Nat, l + 1 < H
      PROVE  /\ l \in 0 .. Cardinality(Key) /\ Width(c, l) \in Nat
             /\ Width(c, l + 1) = GroupCount(Width(c, l))
  <2>1. l + 1 <= Cardinality(Key) /\ l \in 0 .. Cardinality(Key)
    BY <1>0, <1>4
  <2> QED BY <1>0, <2>1, WidthIs, WidthNext, Zenon
<1> HIDE DEF R, H, N
<1>5. ASSUME NEW l \in Nat, NEW g \in 0 .. Width(c, l + 1) - 1, l + 1 < H
      PROVE  N[<<l + 1, g>>] = Hashes(N, l, g, Width(c, l))
  <2> DEFINE w == Width(c, l)
             m == GroupSize(g, w)
             F == FirstNodeOfGroup(g)
  <2>1. w \in Nat /\ g \in 0 .. GroupCount(w) - 1 /\ l \in 0 .. H - 1 /\ l + 1 \in 0 .. H - 1
    BY <1>0, <1>4, <1>5
  <2>2. /\ m \in 1 .. BranchFactor /\ BranchFactor \in Nat
        /\ \A j \in 1 .. BranchFactor : (F + j - 1 < w <=> j <= m) /\ F + j - 1 \in Nat
    BY <2>1, GroupsOfRow, TreeAssumption, Zenon
  <2>3. N[<<l + 1, g>>] = MixedHashes(R[l].updated, l, g, w)
    BY <1>1, <1>2, <1>5, <2>1, Zenon
  <2>4. MixedHashes(R[l].updated, l, g, w) = [j \in 1 .. m |-> Mixed(R[l].updated, l, F + j - 1)]
    BY Zenon DEF MixedHashes
  <2>5. Hashes(N, l, g, w) = [j \in 1 .. m |-> N[<<l, F + j - 1>>]]
    BY Zenon DEF Hashes
  <2> HIDE DEF w, m, F
  <2>6. ASSUME NEW j \in 1 .. m PROVE N[<<l, F + j - 1>>] = Mixed(R[l].updated, l, F + j - 1)
    <3>1. j \in 1 .. BranchFactor /\ j <= m
      BY <2>2
    <3>2. F + j - 1 \in 0 .. w - 1
      BY <2>1, <2>2, <3>1
    <3> QED BY <1>1, <2>1, <3>2, Zenon DEF w
  <2>7. [j \in 1 .. m |-> Mixed(R[l].updated, l, F + j - 1)] = [j \in 1 .. m |-> N[<<l, F + j - 1>>]]
    BY <2>6, Zenon
  <2> QED BY <2>3, <2>4, <2>5, <2>7, Zenon DEF w
<1>6. IsTree(c, H, N)
  BY <1>0, <1>1, <1>3, <1>5, TreeIs, Zenon
<1> QED BY <1>6, Zenon DEF N, R, H

\* Two trees over the same leaves are the same.
LEMMA SameTree ==
  ASSUME NEW n \in 1 .. Cardinality(Key), NEW a, NEW b,
         IsTree(n, Height[n], a), IsTree(n, Height[n], b),
         \A i \in 0 .. n - 1 : a[<<0, i>>] = b[<<0, i>>]
  PROVE  \A l \in 0 .. Height[n] - 1 : \A i \in 0 .. Width(n, l) - 1 : a[<<l, i>>] = b[<<l, i>>]
<1> DEFINE H == Height[n]
           Same(l) == \A i \in 0 .. Width(n, l) - 1 : a[<<l, i>>] = b[<<l, i>>]
           S == {l \in Nat : l < H => Same(l)}
<1>0. Cardinality(Key) \in Nat /\ n \in Nat /\ H \in Nat /\ H <= Cardinality(Key)
  BY KeyCount, HeightUnfolds
<1>1. 0 \in S
  <2>1. Width(n, 0) = n
    BY HeightIsOfWidth, Zenon
  <2> QED BY <2>1, Zenon
<1>2. ASSUME NEW l \in Nat, l \in S PROVE l + 1 \in S
  <2> SUFFICES ASSUME l + 1 < H, NEW g \in 0 .. Width(n, l + 1) - 1
               PROVE  a[<<l + 1, g>>] = b[<<l + 1, g>>]
    OBVIOUS
  <2> DEFINE w == Width(n, l)
             m == GroupSize(g, w)
             F == FirstNodeOfGroup(g)
  <2>0. Same(l)
    BY <1>0, <1>2
  <2>1. w \in Nat /\ g \in 0 .. GroupCount(w) - 1
    <3>1. l \in 0 .. Cardinality(Key) /\ l + 1 <= Cardinality(Key)
      BY <1>0
    <3> QED BY <1>0, <3>1, WidthIs, WidthNext, Zenon
  <2>2. /\ m \in 1 .. BranchFactor /\ BranchFactor \in Nat
        /\ \A j \in 1 .. BranchFactor : (F + j - 1 < w <=> j <= m) /\ F + j - 1 \in Nat
    BY <2>1, GroupsOfRow, TreeAssumption, Zenon
  <2>3. a[<<l + 1, g>>] = Hashes(a, l, g, w) /\ b[<<l + 1, g>>] = Hashes(b, l, g, w)
    BY <1>0, TreeNode, ZenonT(60)
  <2>4. /\ Hashes(a, l, g, w) = [j \in 1 .. m |-> a[<<l, F + j - 1>>]]
        /\ Hashes(b, l, g, w) = [j \in 1 .. m |-> b[<<l, F + j - 1>>]]
    BY Zenon DEF Hashes
  <2> HIDE DEF w, m, F
  <2>5. ASSUME NEW j \in 1 .. m PROVE a[<<l, F + j - 1>>] = b[<<l, F + j - 1>>]
    <3>1. j \in 1 .. BranchFactor /\ j <= m
      BY <2>2
    <3>2. F + j - 1 \in 0 .. w - 1
      BY <2>1, <2>2, <3>1
    <3> QED BY <2>0, <3>2, Zenon DEF w
  <2>6. [j \in 1 .. m |-> a[<<l, F + j - 1>>]] = [j \in 1 .. m |-> b[<<l, F + j - 1>>]]
    BY <2>5, Zenon
  <2> QED BY <2>3, <2>4, <2>6, Zenon
<1> HIDE DEF S
<1>3. Nat \subseteq S
  BY <1>1, <1>2, Induction, Zenon
<1>4. ASSUME NEW l \in 0 .. H - 1 PROVE Same(l)
  <2>1. l \in Nat /\ l < H
    BY <1>0
  <2> QED BY <1>3, <2>1, Zenon DEF S
<1> QED BY <1>4, Zenon

\* The tree that a commit finds is stored.
LEMMA TreeIsStored ==
  ASSUME TreeInv
  PROVE  /\ Stored(leafCount) /\ treeHeight = HeightIn(leafCount)
         /\ leafCount = Cardinality(DOMAIN index) /\ IsFiniteSet(DOMAIN index) /\ leafCount \in Nat
         /\ DOMAIN index = DOMAIN values /\ DOMAIN index \subseteq Nat
         /\ \A k \in DOMAIN index : index[k] \in 0 .. leafCount - 1
         /\ \A k \in DOMAIN values : nodes[<<0, index[k]>>] = <<values[k]>>
<1>1. IsFiniteSet(Key) /\ Key \subseteq Nat /\ DOMAIN index \subseteq Key
  BY TreeAssumption, Zenon DEF TreeInv, IndexInv
<1>2. IsFiniteSet(DOMAIN index) /\ Cardinality(DOMAIN index) <= Cardinality(Key)
  BY <1>1, FS_Subset, Zenon
<1>3. leafCount = Cardinality(DOMAIN index) /\ DOMAIN index = DOMAIN values
  BY Zenon DEF TreeInv, IndexInv, IndexByFirstWrite
<1>4. leafCount \in 0 .. Cardinality(Key)
  BY <1>2, <1>3, KeyCount, FS_CardinalityType
<1>5. \A k \in DOMAIN index : index[k] \in 0 .. leafCount - 1
  <2>1. \A k \in DOMAIN index : first[k] \in Nat
    BY DEF TreeInv, IndexInv
  <2>2. \A k \in DOMAIN index : index[k] = Cardinality(Before(DOMAIN index, first, k))
    BY Zenon DEF TreeInv, IndexInv, IndexByFirstWrite, Before
  <2>3. DOMAIN index \in SUBSET Nat
    BY <1>1, Zenon
  <2> QED BY <1>2, <1>3, <2>1, <2>2, <2>3, PlacesBijective
<1>6. treeHeight = HeightIn(leafCount)
  BY Zenon DEF TreeInv, HeightIn
<1>7. Stored(leafCount)
  BY <1>4, <1>6, Zenon DEF Stored, TreeInv, TreeIsRecomputed
<1>8. leafCount \in Nat /\ DOMAIN index \subseteq Nat
  <2>1. DOMAIN index \subseteq Nat
    BY <1>1, Zenon
  <2>2. leafCount \in Nat
    BY <1>4, KeyCount
  <2> QED BY <2>1, <2>2, Zenon
<1>9. \A k \in DOMAIN values : nodes[<<0, index[k]>>] = <<values[k]>>
  BY Zenon DEF TreeInv, TreeIsRecomputed
<1> QED BY <1>2, <1>3, <1>5, <1>6, <1>7, <1>8, <1>9, Zenon

\* The leaves of a commit, with the stored ones, are all leaves of the new tree, and
\* each is its key's (computeMerkleUpdate).
LEMMA LeavesOfWrite ==
  ASSUME TreeInv, NEW list, NEW new,
         Range(list) = DOMAIN new, DOMAIN new \subseteq Key, DOMAIN new # {}, Write(list, new)
  PROVE  \E leaves :
           /\ leafCount' \in 1 .. Cardinality(Key) /\ leafCount <= leafCount'
           /\ nodes' = Put(nodes, Positions(Update(leaves, leafCount')))
           /\ Complete(leaves, 0, leafCount')
           /\ \A k \in DOMAIN values' : /\ index'[k] \in 0 .. leafCount' - 1
                                        /\ Mixed(leaves, 0, index'[k]) = <<values'[k]>>
<1> DEFINE K == Range(list)
           D == DOMAIN index
           E == DOMAIN index'
           set == setNewTreeIndexes(list)
           leaves == [i \in Range(set) |-> <<new[CHOOSE k \in K : set[k] = i]>>]
<1>0. IndexInv'
  BY WriteKeepsIndex, Zenon DEF TreeInv
<1>1. /\ Stored(leafCount) /\ leafCount = Cardinality(D) /\ IsFiniteSet(D) /\ leafCount \in Nat
      /\ D = DOMAIN values
      /\ \A k \in D : index[k] \in 0 .. leafCount - 1
      /\ \A k \in D : nodes[<<0, index[k]>>] = <<values[k]>>
  BY TreeIsStored, Zenon
<1>2. /\ E = D \union K /\ DOMAIN set = K
      /\ \A k \in K : index'[k] = set[k]
      /\ \A k \in E : k \notin K => index'[k] = index[k]
  <2>1. DOMAIN set = K /\ index' = Put(index, set)
    BY Zenon DEF Write, setNewTreeIndexes
  <2> HIDE DEF set, K
  <2> QED BY <2>1, Zenon DEF Put
<1>3. /\ DOMAIN values' = E
      /\ \A k \in K : values'[k] = new[k]
      /\ \A k \in E : k \notin K => values'[k] = values[k]
  BY <1>1, <1>2, Zenon DEF Write, Put
<1>4. /\ leafCount' = leafCount + Cardinality(K \ D)
      /\ nodes' = Put(nodes, Positions(Update(leaves, leafCount')))
  BY Zenon DEF Write
<1> HIDE DEF set
<1>5. /\ E \in SUBSET Nat /\ IsFiniteSet(E) /\ leafCount' = Cardinality(E)
      /\ Cardinality(E) <= Cardinality(Key) /\ Cardinality(E) \in Nat
  <2>1. E \subseteq Key /\ Key \subseteq Nat /\ IsFiniteSet(Key) /\ leafCount' = Cardinality(E)
    BY <1>0, TreeAssumption, Zenon DEF IndexInv, IndexByFirstWrite
  <2>2. IsFiniteSet(E) /\ Cardinality(E) <= Cardinality(Key)
    BY <2>1, FS_Subset, Zenon
  <2> QED BY <2>1, <2>2, FS_CardinalityType, Zenon
<1>6. /\ \A k \in E : index'[k] \in 0 .. leafCount' - 1
      /\ \A j, k \in E : index'[j] = index'[k] => j = k
      /\ \A i \in 0 .. leafCount' - 1 : \E k \in E : index'[k] = i
  <2>1. \A k \in E : first'[k] \in Nat
    BY <1>0 DEF IndexInv
  <2>2. \A k \in E : index'[k] = Cardinality(Before(E, first', k))
    BY <1>0, Zenon DEF IndexInv, IndexByFirstWrite, Before
  <2> HIDE DEF E
  <2>3. /\ \A k \in E : index'[k] \in 0 .. Cardinality(E) - 1
        /\ \A j, k \in E : index'[j] = index'[k] => j = k
        /\ \A i \in 0 .. Cardinality(E) - 1 : \E k \in E : index'[k] = i
    BY <1>5, <2>1, <2>2, PlacesBijective
  <2> QED BY <1>5, <2>3, Zenon
<1>7. leafCount' \in 1 .. Cardinality(Key) /\ leafCount <= leafCount'
  <2>1. E # {}
    BY <1>2, Zenon
  <2>2. Cardinality(E) # 0
    BY <1>5, <2>1, FS_EmptySet, Zenon
  <2>3. D \in SUBSET E
    BY <1>2, Zenon
  <2>4. leafCount <= leafCount'
    BY <1>1, <1>5, <2>3, FS_Subset, Zenon
  <2> QED BY <1>5, <2>2, <2>4, KeyCount
<1>8. /\ DOMAIN leaves = {set[k] : k \in K}
      /\ \A k \in K : leaves[set[k]] = <<new[k]>>
  <2>1. DOMAIN leaves = {set[k] : k \in K}
    BY <1>2, Zenon DEF Range
  <2>2. ASSUME NEW k \in K PROVE leaves[set[k]] = <<new[k]>>
    <3>1. \A j \in K : set[j] = set[k] => j = k
      BY <1>2, <1>6, Zenon
    <3>2. (CHOOSE j \in K : set[j] = set[k]) = k
      BY <3>1, Zenon
    <3>3. set[k] \in DOMAIN leaves
      BY <2>1, Zenon
    <3> QED BY <3>2, <3>3, Zenon
  <2> QED BY <2>1, <2>2, Zenon
<1> HIDE DEF leaves, K, E, D
<1>9. Complete(leaves, 0, leafCount')
  <2>1. DOMAIN leaves # {}
    BY <1>8, Zenon DEF K
  <2>2. DOMAIN leaves \subseteq 0 .. leafCount' - 1
    BY <1>2, <1>6, <1>8
  <2>3. \A i \in DOMAIN leaves : leaves[i] # Nil
    BY <1>8 DEF Nil
  <2>4. ASSUME NEW i \in 0 .. leafCount' - 1, i \notin DOMAIN leaves
        PROVE  <<0, i>> \in DOMAIN nodes
    <3>1. PICK k \in E : index'[k] = i
      BY <1>6, Zenon
    <3>2. k \notin K /\ k \in D /\ index[k] = i /\ i \in 0 .. leafCount - 1
      BY <1>1, <1>2, <1>8, <2>4, <3>1, Zenon
    <3>3. leafCount \in 1 .. Cardinality(Key)
      BY <1>1, <1>7, <3>2, KeyCount
    <3>4. Width(leafCount, 0) = leafCount /\ HeightIn(leafCount) \in Nat \ {0}
      BY <3>3, HeightIsOfWidth, HeightUnfolds DEF HeightIn
    <3>5. IsTree(leafCount, HeightIn(leafCount), nodes) /\ 0 \in 0 .. HeightIn(leafCount) - 1
      BY <1>1, <3>4 DEF Stored
    <3> QED BY <3>2, <3>4, <3>5, TreePositions, Zenon
  <2> QED BY <2>1, <2>2, <2>3, <2>4, Zenon DEF Complete
<1>10. ASSUME NEW k \in E PROVE Mixed(leaves, 0, index'[k]) = <<values'[k]>>
  <2>1. CASE k \in K
    <3>1. index'[k] \in DOMAIN leaves /\ leaves[index'[k]] = <<new[k]>>
      BY <1>2, <1>8, <2>1, Zenon
    <3> QED BY <1>3, <2>1, <3>1, Zenon DEF Mixed
  <2>2. CASE k \notin K
    <3>0. K \subseteq E
      BY <1>2, Zenon
    <3>1. index'[k] \notin DOMAIN leaves
      <4> SUFFICES ASSUME NEW j \in K, index'[k] = set[j] PROVE FALSE
        BY <1>8, Zenon
      <4>1. index'[j] = index'[k] /\ j \in E
        BY <1>2, <3>0, Zenon
      <4>2. j = k
        BY <1>6, <4>1, Zenon
      <4> QED BY <2>2, <4>2, Zenon
    <3>2. k \in D /\ index'[k] = index[k] /\ values'[k] = values[k]
      BY <1>2, <1>3, <2>2, Zenon
    <3> QED BY <1>1, <3>1, <3>2, Zenon DEF Mixed
  <2> QED BY <2>1, <2>2, Zenon
<1> QED BY <1>3, <1>4, <1>6, <1>7, <1>9, <1>10, Zenon

\* A commit leaves the tree over all values (writeStateMerkleTree).
LEMMA WriteKeepsTree ==
  ASSUME TreeInv, qpc = "idle", NEW list, NEW new,
         Range(list) = DOMAIN new, DOMAIN new \subseteq Key, DOMAIN new # {}, Write(list, new)
  PROVE  TreeInv'
<1> DEFINE c == leafCount'
           N == nodes'
<1>0. IndexInv' /\ qpc' = "idle" /\ treeHeight' = Height[c]
  BY WriteKeepsIndex, Zenon DEF TreeInv, Write
<1>1. Stored(leafCount)
  BY TreeIsStored, Zenon
<1>2. PICK leaves :
        /\ c \in 1 .. Cardinality(Key) /\ leafCount <= c
        /\ N = Put(nodes, Positions(Update(leaves, c)))
        /\ Complete(leaves, 0, c)
        /\ \A k \in DOMAIN values' : /\ index'[k] \in 0 .. c - 1
                                     /\ Mixed(leaves, 0, index'[k]) = <<values'[k]>>
  BY LeavesOfWrite, Zenon
<1> HIDE DEF c, N
<1>3. IsTree(c, Height[c], N)
  BY <1>1, <1>2, TreeAfter, Zenon
<1>4. /\ DOMAIN N = UNION {{l} \X (0 .. Width(c, l) - 1) : l \in 0 .. Height[c] - 1}
      /\ \A l \in 0 .. Height[c] - 1 : \A i \in 0 .. Width(c, l) - 1 :
           N[<<l, i>>] = Mixed(Update(leaves, c)[l].updated, l, i) /\ N[<<l, i>>] # Nil
  BY <1>1, <1>2, NodesAfter, ZenonT(60)
<1>5. \A p \in DOMAIN N : N[p] # Nil
  BY <1>4
<1>6. /\ Update(leaves, c)[0].updated = leaves /\ Width(c, 0) = c
      /\ 0 \in 0 .. Height[c] - 1 /\ c # 0
  <2>0. c \in 1 .. Cardinality(Key)
    BY <1>2, Zenon
  <2>1. c \in 0 .. Cardinality(Key) /\ c # 0
    BY <2>0, KeyCount
  <2>2. Height[c] \in Nat \ {0}
    BY <2>1, HeightUnfolds, Zenon
  <2>3. Update(leaves, c)[0].updated = leaves /\ Width(c, 0) = c
    BY <2>0, UpdateUnfolds, HeightIsOfWidth, Zenon
  <2>4. 0 \in 0 .. Height[c] - 1
    BY <2>2
  <2> QED BY <2>1, <2>3, <2>4, Zenon
<1>7. \A k \in DOMAIN values' : N[<<0, index'[k]>>] = <<values'[k]>>
  BY <1>2, <1>4, <1>6, Zenon
<1>8. TreeIsRecomputed'
  BY <1>0, <1>3, <1>7, Zenon DEF TreeIsRecomputed, c, N
<1> QED BY <1>0, <1>5, <1>6, <1>8, Zenon DEF TreeInv, c, N

\* A key's value verifies at the key's leaf (Tree.Verify, Tree.Root).
LEMMA StoredVerifies ==
  ASSUME TreeInv, NEW k \in DOMAIN values
  PROVE  Verify(index[k], <<values[k]>>)
<1> DEFINE c == leafCount
           H == Height[c]
           leaves == [x \in {index[k]} |-> <<values[k]>>]
           R == Update(leaves, c)
           N == Put(nodes, Positions(R))
<1>0. Stored(c) /\ c \in Nat /\ index[k] \in 0 .. c - 1 /\ nodes[<<0, index[k]>>] = <<values[k]>>
  BY TreeIsStored, Zenon
<1>1. /\ Cardinality(Key) \in Nat /\ c \in 1 .. Cardinality(Key) /\ c \in 0 .. Cardinality(Key)
      /\ c # 0 /\ index[k] \in Nat /\ index[k] < c
  BY <1>0, KeyCount DEF Stored
<1>2. H \in Nat \ {0} /\ H < 256
  BY <1>1, HeightUnfolds, TreeAssumption, Zenon
<1>3. HeightIn(c) = H /\ treeHeight = H
  BY <1>1, Zenon DEF HeightIn, TreeInv
<1>4. IsTree(c, H, nodes) /\ \A p \in DOMAIN nodes : nodes[p] # Nil
  BY <1>0, <1>3, Zenon DEF Stored
<1>5. Width(c, 0) = c /\ Width(c, H - 1) = 1
  BY <1>1, HeightIsOfWidth, Zenon
<1>6. \A i \in 0 .. c - 1 : <<0, i>> \in DOMAIN nodes
  <2>1. 0 \in 0 .. H - 1
    BY <1>2
  <2> QED BY <1>2, <1>4, <1>5, <2>1, TreePositions, Zenon
<1>7. Complete(leaves, 0, c)
  BY <1>0, <1>6, Zenon DEF Complete, Nil
<1>8. R[0].updated = leaves
  BY <1>1, UpdateUnfolds, Zenon
<1> HIDE DEF c, H, leaves, R, N
<1>9. IsTree(c, H, N)
  BY <1>0, <1>1, <1>7, TreeAfter DEF H, R, N
<1>10. /\ \A l \in 0 .. H - 1 : \A i \in 0 .. Width(c, l) - 1 : N[<<l, i>>] = Mixed(R[l].updated, l, i)
       /\ \A l \in 0 .. H - 1 : Complete(R[l].updated, l, Width(c, l))
  <2>1. c <= c
    BY <1>1
  <2>2. \A l \in 0 .. H - 1 : \A i \in 0 .. Width(c, l) - 1 : N[<<l, i>>] = Mixed(R[l].updated, l, i)
    BY <1>0, <1>1, <1>7, <2>1, NodesAfter, Zenon DEF H, R, N
  <2>3. \A l \in 0 .. H - 1 : Complete(R[l].updated, l, Width(c, l))
    BY <1>0, <1>1, <1>7, <2>1, UpdateIsComplete, Zenon DEF H, R
  <2> QED BY <2>2, <2>3, Zenon
<1>11. ASSUME NEW i \in 0 .. c - 1 PROVE N[<<0, i>>] = nodes[<<0, i>>]
  <2>1. 0 \in 0 .. H - 1
    BY <1>2
  <2>2. N[<<0, i>>] = Mixed(leaves, 0, i)
    BY <1>5, <1>8, <1>10, <2>1, Zenon
  <2> QED BY <1>0, <2>2, Zenon DEF Mixed, leaves
<1>12. \A l \in 0 .. H - 1 : \A i \in 0 .. Width(c, l) - 1 : N[<<l, i>>] = nodes[<<l, i>>]
  BY <1>1, <1>4, <1>9, <1>11, SameTree, Zenon DEF H
<1>13. H - 1 \in 0 .. H - 1 /\ 0 \in 0 .. Width(c, H - 1) - 1
  BY <1>2, <1>5
<1>14. R[H - 1].updated[0] = nodes[<<H - 1, 0>>]
  <2> DEFINE U == R[H - 1].updated
  <2>1. DOMAIN U # {} /\ DOMAIN U \subseteq 0 .. 1 - 1
    BY <1>5, <1>10, <1>13, Zenon DEF Complete
  <2>2. 0 \in DOMAIN U
    BY <2>1
  <2>3. N[<<H - 1, 0>>] = Mixed(U, H - 1, 0)
    BY <1>10, <1>13, Zenon
  <2> QED BY <1>12, <1>13, <2>2, <2>3, Zenon DEF Mixed
<1>15. Root = nodes[<<H - 1, 0>>] /\ Root # Nil
  <2>1. (H + 255) % 256 = H - 1
    BY <1>2
  <2>2. <<H - 1, 0>> \in DOMAIN nodes
    BY <1>2, <1>4, <1>13, TreePositions, Zenon
  <2> QED BY <1>3, <1>4, <2>1, <2>2, ZenonT(60) DEF Root, GetNode
<1> QED BY <1>1, <1>14, <1>15, Zenon DEF Verify, R, H, c, leaves

-----------------------------------------------------------------------------
(* Module Storage: the tree. *)

\* A started node has no tree.
LEMMA InitTree == StorageInit => TreeInv
<1> SUFFICES ASSUME TreeInit PROVE TreeInv
  BY Zenon DEF StorageInit
<1> USE DEF TreeInit, Nil
<1>1. DOMAIN index = {} /\ DOMAIN values = {} /\ DOMAIN first = {} /\ DOMAIN nodes = {}
  OBVIOUS
<1>2. IndexInv
  BY <1>1, FS_EmptySet, Zenon DEF IndexInv, IndexByFirstWrite
<1>3. IsTree(0, 0, nodes)
  <2>1. 0 .. 0 - 1 = {} /\ 0 .. 0 - 2 = {} /\ ~(0 > 0) /\ 0 \in Nat
    OBVIOUS
  <2>2. UNION {{l} \X (0 .. Width(0, l) - 1) : l \in 0 .. 0 - 1} = {}
    BY <2>1, Zenon
  <2>3. \A l \in Nat : ~(l + 1 < 0)
    OBVIOUS
  <2> QED BY <1>1, <2>1, <2>2, <2>3, TreeIs, Zenon
<1>4. TreeIsRecomputed
  BY <1>1, <1>3, Zenon DEF TreeIsRecomputed
<1> QED BY <1>1, <1>2, <1>4, Zenon DEF TreeInv

\* The commit of the changes of a block, from a map in any order (commitStateChanges).
LEMMA CommitStateKeepsTree ==
  ASSUME LedgerInv, TreeInv, CommitState
  PROVE  TreeInv'
<1> DEFINE new == StateChanges(toExecute)
<1>1. toExecute \subseteq Tx /\ DOMAIN new = UNION {Sets[t] : t \in toExecute}
  BY Zenon DEF LedgerInv, TypeOK, StateChanges
<1>2. DOMAIN new \subseteq Key
  BY <1>1, SetsAssumption, Zenon
<1> HIDE DEF new
<1>3. CASE UNCHANGED treeVars
  BY <1>3, Zenon
     DEF treeVars, treeDisk, tree, TreeInv, IndexInv, IndexByFirstWrite, TreeIsRecomputed
<1>4. CASE /\ DOMAIN new # {}
           /\ \E list \in Bijection(1 .. Cardinality(DOMAIN new), DOMAIN new) : Commit(list, new)
  <2>1. PICK list \in Bijection(1 .. Cardinality(DOMAIN new), DOMAIN new) : Commit(list, new)
    BY <1>4, Zenon
  <2>2. Range(list) = DOMAIN new
    BY Zenon DEF Bijection, Surjection, Range
  <2> QED BY <1>2, <1>4, <2>1, <2>2, WriteKeepsTree, Zenon DEF Commit
<1> QED BY <1>3, <1>4, Zenon DEF CommitState, new

\* A query reads a value and an index that belong to the tree it verifies against:
\* mtxWriteState keeps commits out from the first read to the last.
LEMMA QueryKeepsTree ==
  ASSUME TreeInv, Query
  PROVE  TreeInv'
<1>1. UNCHANGED <<treeDisk, writes, first>>
  BY Zenon DEF Query, ReadValue, ReadIndex, VerifyState
<1>2. /\ IndexInv' /\ TreeIsRecomputed'
      /\ treeHeight' = (IF leafCount' = 0 THEN 0 ELSE Height[leafCount'])
      /\ \A p \in DOMAIN nodes' : nodes'[p] # Nil
  BY <1>1, Zenon DEF treeDisk, tree, TreeInv, IndexInv, IndexByFirstWrite, TreeIsRecomputed
<1>3. UNCHANGED <<values, index>>
  BY <1>1, Zenon DEF treeDisk
<1> SUFFICES /\ qpc' \in {"idle", "value", "index"}
             /\ qpc' # "idle" => query'.key \in DOMAIN values /\ query'.hash = <<values[query'.key]>>
             /\ qpc' = "index" => query'.index = index[query'.key]
  BY <1>2, <1>3, Zenon DEF TreeInv
<1>4. CASE \E k \in Key : ReadValue(k)
  BY <1>4 DEF ReadValue
<1>5. CASE ReadIndex
  <2>1. /\ query.key \in DOMAIN values /\ query.hash = <<values[query.key]>>
        /\ DOMAIN index = DOMAIN values
    BY <1>5, Zenon DEF ReadIndex, TreeInv, IndexInv, IndexByFirstWrite
  <2>2. qpc' = "index" /\ query' = [query EXCEPT !.index = index[query.key]]
    BY <1>5, <2>1, Zenon DEF ReadIndex
  <2> QED BY <2>1, <2>2
<1>6. CASE VerifyState
  <2>1. /\ query.key \in DOMAIN values /\ query.hash = <<values[query.key]>>
        /\ query.index = index[query.key]
    BY <1>6, Zenon DEF VerifyState, TreeInv
  <2>2. Verify(query.index, query.hash)
    BY <2>1, StoredVerifies, Zenon
  <2> QED BY <1>6, <2>2, Zenon DEF VerifyState
<1> QED BY <1>4, <1>5, <1>6, Zenon DEF Query

\* Every step of the storage keeps the tree.
LEMMA TreeStep == LedgerInv /\ TreeInv /\ [StorageNext]_storageVars => TreeInv'
<1> SUFFICES ASSUME LedgerInv, TreeInv, [StorageNext]_storageVars PROVE TreeInv'
  BY Zenon
<1>1. CASE UNCHANGED treeVars
  BY <1>1, Zenon
     DEF treeVars, treeDisk, tree, TreeInv, IndexInv, IndexByFirstWrite, TreeIsRecomputed
<1>2. CASE CommitState
  BY <1>2, CommitStateKeepsTree, Zenon
<1>3. CASE Crash
  <2>1. UNCHANGED <<treeDisk, writes, first>> /\ qpc' = "idle"
    BY <1>3, Zenon DEF Crash
  <2> QED BY <2>1, Zenon DEF treeDisk, tree, TreeInv, IndexInv, IndexByFirstWrite, TreeIsRecomputed
<1>4. CASE Query
  BY <1>4, QueryKeepsTree, Zenon
<1> QED
  BY <1>1, <1>2, <1>3, <1>4, Zenon DEF StorageNext, storageVars, CommitChain, CommitHeight

\* The invariant of the tree holds through commits, crashes and queries.
THEOREM TreeInvariant == StorageSpec => []TreeInv
<1>1. StorageInit => TreeInv
  BY InitTree, Zenon
<1>2. LedgerInv /\ TreeInv /\ [StorageNext]_storageVars => TreeInv'
  BY TreeStep, Zenon
<1> QED
  BY <1>1, <1>2, AlwaysReplay, StorageImplementsLedger, PTL DEF StorageSpec

\* A key's leaf is where the blocks put it, in whatever order a node walks its maps
\* (setNewTreeIndexes).
THEOREM IndexFollowsBlocks == StorageSpec => []IndexByFirstWrite
<1>1. TreeInv => IndexByFirstWrite
  BY Zenon DEF TreeInv, IndexInv
<1> QED BY <1>1, TreeInvariant, PTL

\* The tree that updates keep is the one built anew from all values, for every branch
\* factor and every set of keys (Tree.Update, writeStateMerkleTree).
THEOREM TreeIsOfState == StorageSpec => []TreeIsRecomputed
<1>1. TreeInv => TreeIsRecomputed
  BY Zenon DEF TreeInv
<1> QED BY <1>1, TreeInvariant, PTL

\* No query fails its verification (VerifyState).
THEOREM NoQueryFails == StorageSpec => []QueriesVerify
<1>1. TreeInv => QueriesVerify
  BY Zenon DEF TreeInv, QueriesVerify
<1> QED BY <1>1, TreeInvariant, PTL

=============================================================================
