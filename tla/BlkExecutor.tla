----------------------------- MODULE BlkExecutor -----------------------------
(***************************************************************************)
(* Concurrent execution of a block: execution/blk_executer.go with the     *)
(* state trackers of execution/state_tracker.go, the timeout of            *)
(* execution/tx_executer.go and the emitter the workers wait on.           *)
(*                                                                         *)
(* Transactions are counted from 1, so transaction t is the one the code   *)
(* calls t - 1, and may merge when mergeIdx is t - 1.  A transaction reads *)
(* the tracker of the block key by key, while others merge into it.        *)
(***************************************************************************)
EXTENDS Chaincode, Sequences, FiniteSets

CONSTANTS
  Limit,    \* concurrentLimit
  Buffer,   \* capacity of the channel waitToMerge subscribes with
  Initial   \* the states a block is executed on in this instance

ASSUME LimitAssumption ==
  /\ Limit \in Nat \ {0}
  /\ Buffer \in Nat /\ Buffer + 1 >= Limit  \* 20 and 20 by default
  /\ Initial \subseteq State

VARIABLES
  base,      \* the state before the block
  changes,   \* rootTrk.changes
  errors,    \* the merged transactions whose TxCommit holds an error
  mergeIdx,
  pc,        \* where the worker of each transaction is
  view,      \* txTrk.dependencies, and what the reads returned
  result,    \* the TxCommit and the txTrk.changes of the first execution
  events     \* the channel of each waiter

blkvars == <<base, changes, errors, mergeIdx, pc, view, result, events>>

\* rootTrk.GetState of every key.
current == Over(changes, base)

InProgress == {t \in Tx : pc[t] \notin {"queued", "done"}}

-----------------------------------------------------------------------------
\* A worker takes the next transaction from jobCh.
TakeJob(t) ==
  /\ pc[t] = "queued"
  /\ \A u \in Tx : u < t => pc[u] # "queued"
  /\ Cardinality(InProgress) < Limit
  /\ pc' = [pc EXCEPT ![t] = "running"]
  /\ UNCHANGED <<base, changes, errors, mergeIdx, view, result, events>>

\* txTrk.GetState: the key becomes a dependency, then the tracker of the block is
\* asked for it.
GetState(t, k) ==
  /\ pc[t] = "running"
  /\ k \in Asks(t, view[t])
  /\ view' = [view EXCEPT ![t] = [j \in DOMAIN @ \cup {k} |-> IF j = k THEN current[k] ELSE @[j]]]
  /\ UNCHANGED <<base, changes, errors, mergeIdx, pc, result, events>>

\* A transaction that timed out runs on in its goroutine: the keys it still reads
\* become dependencies; what it sets is not merged.
LateGetState(t, k) ==
  /\ pc[t] \in {"executed", "subscribed", "waiting", "merging"}
  /\ t \in Slow /\ result[t] = TimedOut
  /\ k \in Asks(t, view[t])
  /\ view' = [view EXCEPT ![t] = [j \in DOMAIN @ \cup {k} |-> IF j = k THEN current[k] ELSE @[j]]]
  /\ UNCHANGED <<base, changes, errors, mergeIdx, pc, result, events>>

\* executeWithTimeout returns: t has read all it needs, or took too long.
EndExecution(t) ==
  /\ pc[t] = "running"
  /\ \/ Asks(t, view[t]) = {} /\ result' = [result EXCEPT ![t] = Outcome(t, view[t])]
     \/ t \in Slow /\ result' = [result EXCEPT ![t] = TimedOut]
  /\ pc' = [pc EXCEPT ![t] = "executed"]
  /\ UNCHANGED <<base, changes, errors, mergeIdx, view, events>>

\* waitToMerge: first subscribe, ...
Subscribe(t) ==
  /\ pc[t] = "executed"
  /\ pc' = [pc EXCEPT ![t] = "subscribed"]
  /\ UNCHANGED <<base, changes, errors, mergeIdx, view, result, events>>

\* Mutant: the worker waits for the event without looking at mergeIdx.
CheckMergeIdxSkipped(t) ==
  /\ pc[t] = "subscribed"
  /\ pc' = [pc EXCEPT ![t] = "waiting"]
  /\ UNCHANGED <<base, changes, errors, mergeIdx, view, result, events>>

\* ... then look at mergeIdx, ...
CheckMergeIdx(t) ==
  /\ pc[t] = "subscribed"
  /\ pc' = [pc EXCEPT ![t] = IF mergeIdx = t - 1 THEN "merging" ELSE "waiting"]
  /\ UNCHANGED <<base, changes, errors, mergeIdx, view, result, events>>

\* ... then wait for the event of the transaction before.
ReceiveEvent(t) ==
  /\ pc[t] = "waiting"
  /\ events[t] # << >>
  /\ events' = [events EXCEPT ![t] = Tail(@)]
  /\ pc' = [pc EXCEPT ![t] = IF Head(events[t]) = t - 1 THEN "merging" ELSE @]
  /\ UNCHANGED <<base, changes, errors, mergeIdx, view, result>>

\* rootTrk.merge, then AddInt32 on mergeIdx.
Merge(t, r) ==
  /\ errors' = IF r.error THEN errors \cup {t} ELSE errors
  /\ changes' = IF r.error THEN changes
                ELSE [k \in DOMAIN changes \cup DOMAIN r.changes |->
                        IF k \in DOMAIN r.changes THEN r.changes[k] ELSE changes[k]]
  /\ mergeIdx' = mergeIdx + 1
  /\ pc' = [pc EXCEPT ![t] = "emitting"]

\* Mutant: the transaction is never executed again.
mergeTxStateChangesOnce(t) ==
  /\ pc[t] = "merging"
  /\ Merge(t, result[t])
  /\ UNCHANGED <<base, view, result, events>>

\* mergeTxStateChanges.  Nobody else merges while t executes again, so this
\* second execution reads one state.
mergeTxStateChanges(t) ==
  /\ pc[t] = "merging"
  /\ IF DOMAIN view[t] \cap DOMAIN changes # {}
     THEN \E r \in Results(t, current) : Merge(t, r)
     ELSE Merge(t, result[t])
  /\ UNCHANGED <<base, view, result, events>>

\* mergeEmitter.Emit: a full channel loses the event.  The block is executed when
\* the event of the last transaction was emitted.
Emit(t) ==
  /\ pc[t] = "emitting"
  /\ events' = [u \in Tx |-> IF pc[u] \in {"subscribed", "waiting"} /\ Len(events[u]) < Buffer
                             THEN Append(events[u], t) ELSE events[u]]
  /\ pc' = [pc EXCEPT ![t] = "done"]
  /\ UNCHANGED <<base, changes, errors, mergeIdx, view, result>>

-----------------------------------------------------------------------------
Init ==
  /\ base \in Initial
  /\ changes = NoKeys
  /\ errors = {}
  /\ mergeIdx = 0
  /\ pc = [t \in Tx |-> "queued"]
  /\ view = [t \in Tx |-> NoKeys]
  /\ result = [t \in Tx |-> TimedOut]
  /\ events = [t \in Tx |-> << >>]

Step(t) ==
  \/ TakeJob(t)
  \/ \E k \in Key : GetState(t, k) \/ LateGetState(t, k)
  \/ EndExecution(t)
  \/ Subscribe(t)
  \/ CheckMergeIdx(t)
  \/ ReceiveEvent(t)
  \/ mergeTxStateChanges(t)
  \/ Emit(t)

Next == \E t \in Tx : Step(t)

Spec == Init /\ [][Next]_blkvars

\* A goroutine that can go on does.
FairSpec == Spec /\ \A t \in Tx : WF_blkvars(Step(t))

-----------------------------------------------------------------------------
\* Every variable has its type.
TypeOK ==
  /\ base \in State
  /\ changes \in Partial
  /\ errors \subseteq Tx
  /\ mergeIdx \in 0 .. TxCount
  /\ pc \in [Tx -> {"queued", "running", "executed", "subscribed", "waiting",
                    "merging", "emitting", "done"}]
  /\ view \in [Tx -> Partial]
  /\ result \in [Tx -> Result]
  /\ events \in [Tx -> Seq(Tx)]
  /\ \A t \in Tx : Len(events[t]) <= Buffer

\* The invariant behind ExecutesSerially.  Transactions merge in order: an event
\* announces a merge that happened, so the one that sets a waiter going is the
\* last one so far.  And a transaction whose reads no merge has touched ended as
\* it would have on the state of now.
ExecInv ==
  /\ TypeOK
  /\ \A t \in Tx :
       /\ t <= mergeIdx <=> pc[t] \in {"emitting", "done"}
       /\ pc[t] = "merging" => mergeIdx = t - 1
       /\ \A i \in DOMAIN events[t] : events[t][i] <= mergeIdx
       /\ \A k \in DOMAIN view[t] \ DOMAIN changes : view[t][k] = base[k]
       /\ pc[t] \in {"executed", "subscribed", "waiting", "merging"} =>
            \/ t \in Slow /\ result[t] = TimedOut
            \/ Asks(t, view[t]) = {} /\ result[t] = Outcome(t, view[t])

\* The comment on execute(): the changes of a transaction are merged only after
\* those of its predecessor, and only if what it read is still what a serial
\* execution reads; otherwise it is executed again.
Serial == INSTANCE SerialExec WITH state <- current, count <- mergeIdx
ExecutesSerially == Serial!SerialSpec

\* docs/cluster-tests/index.md, Safety: nodes must have the same state at a certain
\* block height.  So the state after a block depends on nothing but the state
\* before it and the block; not, in particular, on how long an execution took.
SameStateOnAllNodes ==
  LET serial[i \in 0 .. TxCount] ==
        IF i = 0 THEN base
        ELSE LET r == Outcome(i, serial[i - 1])
             IN IF r.error THEN serial[i - 1] ELSE Over(r.changes, serial[i - 1])
  IN (\A t \in Tx : pc[t] = "done") => current = serial[TxCount]

\* No worker waits for an event that was lost: the block is executed in the end.
AllMerge == <>(\A t \in Tx : pc[t] = "done")

=============================================================================
