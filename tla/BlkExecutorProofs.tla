-------------------------- MODULE BlkExecutorProofs --------------------------
(***************************************************************************)
(* Concurrent execution of a block is serial, for every block, every       *)
(* number of workers and every deterministic chaincode; and JuriaCoin is   *)
(* one, whose calls keep the balances and the total together.              *)
(***************************************************************************)
EXTENDS CoinBlock, SequenceTheorems, FiniteSetTheorems, NaturalsInduction, WellFoundedInduction,
        TLAPS

\* The state a tracker shows is a state.
LEMMA OverType ==
  ASSUME NEW c \in Partial, NEW s \in State
  PROVE  Over(c, s) \in State
  BY Zenon DEF Partial, State, Over

\* An execution that has read all it needs ends as it would on any state that
\* agrees with what it read.
LEMMA OutcomeOfReads ==
  ASSUME NEW t \in Tx, NEW v \in Partial, NEW s \in State,
         \A k \in DOMAIN v : v[k] = s[k],
         Asks(t, v) = {}
  PROVE  Outcome(t, v) = Outcome(t, s) /\ Outcome(t, v) \in Result
<1>1. PICK K \in SUBSET Key : v \in [K -> Value]
  BY Zenon DEF Partial
<1>2. v = ReadOf(s, K)
  BY <1>1, Zenon DEF ReadOf
<1> QED BY <1>1, <1>2, ChaincodeAssumption, Zenon

\* TimedOut is a result, and so is all that an execution returns.
LEMMA ResultsType ==
  ASSUME NEW t \in Tx, NEW s \in State
  PROVE  TimedOut \in Result /\ Results(t, s) \subseteq Result
<1>1. NoKeys \in [{} -> Value]
  BY Zenon DEF NoKeys
<1>2. NoKeys \in Partial
  BY <1>1, Zenon DEF Partial
<1>3. TimedOut \in Result
  BY <1>2, Zenon DEF TimedOut, Result
<1> QED BY <1>3, ChaincodeAssumption, Zenon DEF Results

-----------------------------------------------------------------------------
\* The initial states satisfy the invariant: nothing is merged.
LEMMA InitExec == Init => ExecInv
<1> SUFFICES ASSUME Init PROVE ExecInv
  BY Zenon
<1>1. NoKeys \in Partial /\ DOMAIN NoKeys = {}
  BY Zenon DEF NoKeys, Partial
<1>2. TimedOut \in Result
  BY <1>1, Zenon DEF TimedOut, Result
<1>3. \A t \in Tx : << >> \in Seq(Tx) /\ Len(<< >>) = 0 /\ DOMAIN << >> = {}
  OBVIOUS
<1>4. TypeOK
  BY <1>1, <1>2, <1>3, CountAssumption, LimitAssumption DEF Init, TypeOK
<1>5. \A t \in Tx : ~(t <= 0)
  BY CountAssumption DEF Tx
<1> QED BY <1>1, <1>3, <1>4, <1>5, Zenon DEF Init, ExecInv

\* A merge of what the transaction returns on the state of now is a step of
\* SerialExec and keeps the invariant.
LEMMA MergeStep ==
  ASSUME ExecInv, NEW t \in Tx, pc[t] = "merging",
         NEW r \in Results(t, current), Merge(t, r), UNCHANGED <<base, view, result, events>>
  PROVE  ExecInv' /\ Serial!SerialNext
<1>1. mergeIdx = t - 1 /\ t \in 1 .. TxCount /\ TxCount \in Nat
  BY CountAssumption, Zenon DEF ExecInv, Tx
<1>2. current \in State
  BY OverType, Zenon DEF ExecInv, TypeOK, current
<1>3. r \in Result
  BY <1>2, ResultsType, Zenon
<1>4. PICK C \in SUBSET Key : changes \in [C -> Value]
  BY Zenon DEF ExecInv, TypeOK, Partial
<1>5. PICK R \in SUBSET Key : r.changes \in [R -> Value]
  BY <1>3, Zenon DEF Result, Partial
<1>6. /\ DOMAIN changes \subseteq DOMAIN changes'
      /\ changes' \in Partial
      /\ current' = IF r.error THEN current ELSE Over(r.changes, current)
  <2>1. CASE r.error
    <3>1. changes' = changes /\ base' = base
      BY <2>1, Zenon DEF Merge
    <3> QED BY <2>1, <3>1, Zenon DEF ExecInv, TypeOK, current
  <2>2. CASE ~r.error
    <3>1. /\ changes' = [k \in C \cup R |-> IF k \in R THEN r.changes[k] ELSE changes[k]]
          /\ base' = base
      BY <2>2, <1>4, <1>5, Zenon DEF Merge
    <3>2. changes' \in [C \cup R -> Value]
      BY <3>1, <1>4, <1>5, Zenon
    <3>3. changes' \in Partial /\ DOMAIN changes \subseteq DOMAIN changes'
      BY <3>2, <1>4, Zenon DEF Partial
    <3>4. DOMAIN base = Key /\ DOMAIN current = Key
      BY <1>2, Zenon DEF ExecInv, TypeOK, State
    <3>5. current' = [k \in Key |-> IF k \in C \cup R THEN changes'[k] ELSE base[k]]
      BY <3>1, <3>2, <3>4, Zenon DEF current, Over
    <3>6. current = [k \in Key |-> IF k \in C THEN changes[k] ELSE base[k]]
      BY <3>4, <1>4, Zenon DEF current, Over
    <3>7. Over(r.changes, current) = [k \in Key |-> IF k \in R THEN r.changes[k] ELSE current[k]]
      BY <3>4, <1>5, Zenon DEF Over
    <3>8. \A k \in Key : current'[k] = Over(r.changes, current)[k]
      BY <3>1, <3>5, <3>6, <3>7, Zenon
    <3>9. current' = Over(r.changes, current)
      BY <3>5, <3>7, <3>8, Zenon
    <3> QED BY <2>2, <3>3, <3>9, Zenon
  <2> QED BY <2>1, <2>2, <1>3, Zenon DEF Result
<1>7. errors' = IF r.error THEN errors \cup {t} ELSE errors
  BY Zenon DEF Merge
<1>8. mergeIdx' = t /\ mergeIdx' = mergeIdx + 1
  BY <1>1 DEF Merge
<1>9. Serial!SerialNext
  <2>1. mergeIdx < TxCount /\ mergeIdx + 1 = t
    BY <1>1
  <2>2. Serial!ExecuteTx(r)
    BY <1>6, <1>7, <1>8, <2>1, Zenon DEF Serial!ExecuteTx, Serial!Over, Over
  <2>3. r \in Serial!Results(mergeIdx + 1, current)
    BY <2>1, Zenon DEF Serial!Results, Serial!TimedOut, Serial!NoKeys, Results, TimedOut, NoKeys
  <2> QED BY <2>1, <2>2, <2>3, Zenon DEF Serial!SerialNext
<1>10. pc' = [pc EXCEPT ![t] = "emitting"]
  BY Zenon DEF Merge
<1>11. TypeOK'
  <2>1. errors' \subseteq Tx /\ changes' \in Partial
    BY <1>6, <1>7, Zenon DEF ExecInv, TypeOK
  <2>2. mergeIdx' \in 0 .. TxCount
    BY <1>1, <1>8
  <2>3. pc' \in [Tx -> {"queued", "running", "executed", "subscribed", "waiting",
                       "merging", "emitting", "done"}]
    BY <1>10, Zenon DEF ExecInv, TypeOK
  <2> QED BY <2>1, <2>2, <2>3, Zenon DEF ExecInv, TypeOK
<1>12. ASSUME NEW u \in Tx
       PROVE  /\ u <= mergeIdx' <=> pc'[u] \in {"emitting", "done"}
              /\ pc'[u] = "merging" => mergeIdx' = u - 1
  <2>1. u \in Nat /\ (u <= mergeIdx <=> pc[u] \in {"emitting", "done"})
    BY CountAssumption DEF ExecInv, Tx
  <2>2. pc[u] = "merging" => u = t
    BY <1>1, <2>1 DEF ExecInv
  <2>3. CASE u = t
    BY <2>3, <1>1, <1>8, <1>10 DEF ExecInv, TypeOK
  <2>4. CASE u # t
    BY <2>4, <2>1, <2>2, <1>1, <1>8, <1>10 DEF ExecInv, TypeOK
  <2> QED BY <2>3, <2>4, Zenon
<1>13. ASSUME NEW u \in Tx
       PROVE  /\ \A i \in DOMAIN events'[u] : events'[u][i] <= mergeIdx'
              /\ \A k \in DOMAIN view'[u] \ DOMAIN changes' : view'[u][k] = base'[k]
  <2>1. \A i \in DOMAIN events[u] : events[u][i] <= mergeIdx /\ events[u][i] \in Nat
    BY CountAssumption, SMTT(30) DEF ExecInv, TypeOK, Tx
  <2> QED BY <2>1, <1>1, <1>6, <1>8 DEF ExecInv
<1>14. ASSUME NEW u \in Tx, pc'[u] \in {"executed", "subscribed", "waiting", "merging"}
       PROVE  \/ u \in Slow /\ result'[u] = TimedOut
              \/ Asks(u, view'[u]) = {} /\ result'[u] = Outcome(u, view'[u])
  BY <1>10, <1>14, Zenon DEF ExecInv, TypeOK
<1> QED BY <1>9, <1>11, <1>12, <1>13, <1>14, Zenon DEF ExecInv

\* mergeTxStateChanges merges what the transaction returns on the state of now,
\* executed again or not.
LEMMA MergeTxStep ==
  ASSUME ExecInv, NEW t \in Tx, mergeTxStateChanges(t)
  PROVE  ExecInv' /\ Serial!SerialNext
<1>1. CASE DOMAIN view[t] \cap DOMAIN changes # {}
  <2>1. PICK r \in Results(t, current) : Merge(t, r)
    BY <1>1, Zenon DEF mergeTxStateChanges
  <2> QED BY <2>1, MergeStep, Zenon DEF mergeTxStateChanges
<1>2. CASE DOMAIN view[t] \cap DOMAIN changes = {}
  <2>1. Merge(t, result[t]) /\ pc[t] = "merging"
    BY <1>2, Zenon DEF mergeTxStateChanges
  <2>2. PICK K \in SUBSET Key : view[t] \in [K -> Value]
    BY DEF ExecInv, TypeOK, Partial
  <2>3. view[t] \in Partial /\ current \in State
    BY OverType, Zenon DEF ExecInv, TypeOK, current
  <2>4. \A k \in DOMAIN view[t] : view[t][k] = current[k]
    BY <1>2, <2>2, Zenon DEF ExecInv, TypeOK, State, current, Over
  <2>5. result[t] \in Results(t, current)
    <3>1. CASE t \in Slow /\ result[t] = TimedOut
      BY <3>1, Zenon DEF Results
    <3>2. CASE Asks(t, view[t]) = {} /\ result[t] = Outcome(t, view[t])
      BY <3>2, <2>3, <2>4, OutcomeOfReads, Zenon DEF Results
    <3> QED BY <2>1, <3>1, <3>2, Zenon DEF ExecInv
  <2> QED BY <2>1, <2>5, MergeStep, Zenon DEF mergeTxStateChanges
<1> QED BY <1>1, <1>2, Zenon

\* Every step keeps the invariant and is a step of SerialExec or leaves its
\* variables alone.
LEMMA NextExec ==
  ExecInv /\ [Next]_blkvars => ExecInv' /\ [Serial!SerialNext]_Serial!serialvars
<1> SUFFICES ASSUME ExecInv, [Next]_blkvars
             PROVE  ExecInv' /\ [Serial!SerialNext]_Serial!serialvars
  BY Zenon
<1> USE DEF Serial!serialvars
<1>1. ASSUME UNCHANGED <<base, changes, errors, mergeIdx>>
      PROVE  UNCHANGED Serial!serialvars
  BY <1>1, Zenon DEF current
<1>2. CASE UNCHANGED blkvars
  <2>1. ExecInv'
    BY <1>2, Zenon DEF blkvars, ExecInv, TypeOK
  <2> QED BY <1>1, <1>2, <2>1, Zenon DEF blkvars
<1>3. ASSUME NEW t \in Tx, TakeJob(t) \/ Subscribe(t)
      PROVE  ExecInv' /\ UNCHANGED Serial!serialvars
  <2>1. /\ UNCHANGED <<base, changes, errors, mergeIdx, view, result, events>>
        /\ \/ pc[t] = "queued" /\ pc' = [pc EXCEPT ![t] = "running"]
           \/ pc[t] = "executed" /\ pc' = [pc EXCEPT ![t] = "subscribed"]
    BY <1>3, Zenon DEF TakeJob, Subscribe
  <2>2. TypeOK'
    BY <2>1, Zenon DEF ExecInv, TypeOK
  <2>3. ASSUME NEW u \in Tx
        PROVE  /\ pc'[u] \in {"emitting", "done"} <=> pc[u] \in {"emitting", "done"}
               /\ pc'[u] = "merging" <=> pc[u] = "merging"
               /\ pc'[u] \in {"executed", "subscribed", "waiting", "merging"} =>
                    pc[u] \in {"executed", "subscribed", "waiting", "merging"}
    BY <2>1, Zenon DEF ExecInv, TypeOK
  <2>4. ExecInv'
    BY <2>1, <2>2, <2>3, Zenon DEF ExecInv
  <2> QED BY <1>1, <2>1, <2>4, Zenon
<1>4. ASSUME NEW t \in Tx, NEW k \in Key, GetState(t, k) \/ LateGetState(t, k)
      PROVE  ExecInv' /\ UNCHANGED Serial!serialvars
  <2>1. PICK K \in SUBSET Key : view[t] \in [K -> Value]
    BY DEF ExecInv, TypeOK, Partial
  <2> DEFINE seen == [j \in K \cup {k} |-> IF j = k THEN current[k] ELSE view[t][j]]
  <2>2. /\ UNCHANGED <<base, changes, errors, mergeIdx, pc, result, events>>
        /\ pc[t] = "running" \/ (t \in Slow /\ result[t] = TimedOut)
        /\ view' = [view EXCEPT ![t] = seen]
    BY <1>4, <2>1, Zenon DEF GetState, LateGetState, ExecInv, TypeOK
  <2>3. current \in State
    BY OverType, Zenon DEF ExecInv, TypeOK, current
  <2>4. seen \in [K \cup {k} -> Value]
    BY <2>1, <2>3, Zenon DEF State
  <2>5. seen \in Partial
    BY <2>4, Zenon DEF Partial
  <2>6. \A j \in (K \cup {k}) \ DOMAIN changes : seen[j] = base[j]
    BY <2>1, Zenon DEF ExecInv, TypeOK, State, current, Over
  <2> HIDE DEF seen
  <2>7. TypeOK'
    BY <2>2, <2>5, Zenon DEF ExecInv, TypeOK
  <2>8. \A u \in Tx : \A j \in DOMAIN view'[u] \ DOMAIN changes : view'[u][j] = base[j]
    BY <2>2, <2>4, <2>6, Zenon DEF ExecInv, TypeOK
  <2>9. \A u \in Tx : u # t => view'[u] = view[u]
    BY <2>2, Zenon DEF ExecInv, TypeOK
  <2>10. ExecInv'
    BY <2>2, <2>7, <2>8, <2>9 DEF ExecInv
  <2> QED BY <1>1, <2>2, <2>10, Zenon
<1>5. ASSUME NEW t \in Tx, EndExecution(t)
      PROVE  ExecInv' /\ UNCHANGED Serial!serialvars
  <2>1. PICK r : /\ result' = [result EXCEPT ![t] = r]
                 /\ \/ Asks(t, view[t]) = {} /\ r = Outcome(t, view[t])
                    \/ t \in Slow /\ r = TimedOut
    BY <1>5, Zenon DEF EndExecution
  <2>2. r \in Result
    <3>1. CASE Asks(t, view[t]) = {} /\ r = Outcome(t, view[t])
      <4>1. view[t] \in Partial /\ Over(view[t], base) \in State
        BY OverType, Zenon DEF ExecInv, TypeOK
      <4>2. \A k \in DOMAIN view[t] : view[t][k] = Over(view[t], base)[k]
        BY DEF ExecInv, TypeOK, Partial, State, Over
      <4> QED BY <3>1, <4>1, <4>2, OutcomeOfReads, Zenon
    <3>2. CASE r = TimedOut
      BY <3>2, ResultsType, Zenon DEF ExecInv, TypeOK
    <3> QED BY <2>1, <3>1, <3>2, Zenon
  <2>3. /\ UNCHANGED <<base, changes, errors, mergeIdx, view, events>>
        /\ pc[t] = "running"
        /\ pc' = [pc EXCEPT ![t] = "executed"]
    BY <1>5, Zenon DEF EndExecution
  <2>4. TypeOK'
    BY <2>1, <2>2, <2>3, Zenon DEF ExecInv, TypeOK
  <2>5. ExecInv'
    BY <2>1, <2>3, <2>4, Zenon DEF ExecInv, TypeOK
  <2> QED BY <1>1, <2>3, <2>5, Zenon
<1>6. ASSUME NEW t \in Tx, CheckMergeIdx(t)
      PROVE  ExecInv' /\ UNCHANGED Serial!serialvars
  <2>1. /\ UNCHANGED <<base, changes, errors, mergeIdx, view, result, events>>
        /\ pc[t] = "subscribed"
        /\ pc' = [pc EXCEPT ![t] = IF mergeIdx = t - 1 THEN "merging" ELSE "waiting"]
    BY <1>6, Zenon DEF CheckMergeIdx
  <2>2. ExecInv'
    BY <2>1 DEF ExecInv, TypeOK
  <2> QED BY <1>1, <2>1, <2>2, Zenon
<1>7. ASSUME NEW t \in Tx, ReceiveEvent(t)
      PROVE  ExecInv' /\ UNCHANGED Serial!serialvars
  <2>1. /\ UNCHANGED <<base, changes, errors, mergeIdx, view, result>>
        /\ pc[t] = "waiting" /\ events[t] # << >>
        /\ events' = [events EXCEPT ![t] = Tail(@)]
        /\ pc' = [pc EXCEPT ![t] = IF Head(events[t]) = t - 1 THEN "merging" ELSE @]
    BY <1>7, Zenon DEF ReceiveEvent
  <2>2. events[t] \in Seq(Tx) /\ Len(events[t]) \in Nat /\ Len(events[t]) <= Buffer
    BY DEF ExecInv, TypeOK
  <2>3. /\ Head(events[t]) = events[t][1] /\ 1 \in DOMAIN events[t]
        /\ Tail(events[t]) \in Seq(Tx)
        /\ Len(Tail(events[t])) = Len(events[t]) - 1
        /\ \A i \in DOMAIN Tail(events[t]) : /\ i + 1 \in DOMAIN events[t]
                                             /\ Tail(events[t])[i] = events[t][i + 1]
    BY <2>1, <2>2, HeadTailProperties
  <2>4. Head(events[t]) <= mergeIdx /\ ~(t <= mergeIdx)
    BY <2>1, <2>3, Zenon DEF ExecInv
  <2>5. TypeOK'
    BY <2>1, <2>2, <2>3, LimitAssumption DEF ExecInv, TypeOK
  <2>6. Head(events[t]) = t - 1 => mergeIdx = t - 1
    BY <2>4, CountAssumption DEF ExecInv, TypeOK, Tx
  <2>7. \A u \in Tx : \A i \in DOMAIN events'[u] : events'[u][i] <= mergeIdx
    BY <2>1, <2>3 DEF ExecInv, TypeOK
  <2>8. ExecInv'
    BY <2>1, <2>5, <2>6, <2>7 DEF ExecInv, TypeOK
  <2> QED BY <1>1, <2>1, <2>8, Zenon
<1>8. ASSUME NEW t \in Tx, Emit(t)
      PROVE  ExecInv' /\ UNCHANGED Serial!serialvars
  <2>1. /\ UNCHANGED <<base, changes, errors, mergeIdx, view, result>>
        /\ pc[t] = "emitting"
        /\ pc' = [pc EXCEPT ![t] = "done"]
    BY <1>8, Zenon DEF Emit
  <2>2. t <= mergeIdx
    BY <2>1, Zenon DEF ExecInv
  <2>3. ASSUME NEW u \in Tx
        PROVE  /\ events'[u] \in Seq(Tx) /\ Len(events'[u]) <= Buffer
               /\ \A i \in DOMAIN events'[u] : events'[u][i] <= mergeIdx
    <3>1. /\ events[u] \in Seq(Tx) /\ Len(events[u]) \in Nat /\ Len(events[u]) <= Buffer
          /\ \A i \in DOMAIN events[u] : events[u][i] <= mergeIdx
      BY DEF ExecInv, TypeOK
    <3>2. CASE events'[u] = events[u]
      BY <3>1, <3>2, Zenon
    <3>3. CASE events'[u] = Append(events[u], t) /\ Len(events[u]) < Buffer
      <4>1. /\ Append(events[u], t) \in Seq(Tx)
            /\ Len(Append(events[u], t)) = Len(events[u]) + 1
            /\ \A i \in DOMAIN Append(events[u], t) :
                 Append(events[u], t)[i] = t \/ (i \in DOMAIN events[u]
                                                 /\ Append(events[u], t)[i] = events[u][i])
        BY <3>1, AppendProperties
      <4> QED BY <3>1, <3>3, <4>1, <2>2, LimitAssumption
    <3> QED BY <3>2, <3>3, <1>8, Zenon DEF Emit
  <2>4. events' \in [Tx -> Seq(Tx)]
    BY <2>3, <1>8, Zenon DEF Emit
  <2>5. TypeOK'
    BY <2>1, <2>3, <2>4, Zenon DEF ExecInv, TypeOK
  <2>6. ExecInv'
    BY <2>1, <2>3, <2>5, ZenonT(40) DEF ExecInv, TypeOK
  <2> QED BY <1>1, <2>1, <2>6, Zenon
<1> QED BY <1>2, <1>3, <1>4, <1>5, <1>6, <1>7, <1>8, MergeTxStep, Zenon DEF Next, Step

\* The invariant holds of every block execution.
THEOREM ExecInvariant == Spec => []ExecInv
<1>1. ExecInv /\ [Next]_blkvars => ExecInv'
  BY NextExec, Zenon
<1> QED BY <1>1, InitExec, PTL DEF Spec

\* blkExecutor implements serial execution: whatever the workers interleave, each
\* transaction takes effect, or fails, as if executed after all before it.
THEOREM ConcurrentIsSerial == Spec => ExecutesSerially
<1>1. Init => Serial!SerialInit
  <2> SUFFICES ASSUME Init PROVE Serial!SerialInit
    BY Zenon
  <2>1. NoKeys \in Partial
    BY Zenon DEF NoKeys, Partial
  <2>2. current \in State
    BY <2>1, OverType, LimitAssumption, Zenon DEF Init, current
  <2> QED BY <2>2, Zenon DEF Init, Serial!SerialInit, Serial!State, State
<1>2. ExecInv /\ [Next]_blkvars => ExecInv' /\ [Serial!SerialNext]_Serial!serialvars
  BY NextExec, Zenon
<1> QED BY <1>1, <1>2, InitExec, PTL DEF Spec, ExecutesSerially, Serial!SerialSpec

-----------------------------------------------------------------------------
(* Induction.  The library's theorems take an operator as a parameter; here *)
(* it is a set.                                                             *)

\* A nonempty set of naturals has a least element.
LEMMA LeastNatural ==
  ASSUME NEW T \in SUBSET Nat, T # {}
  PROVE  \E x \in T : \A y \in T : x <= y
<1> DEFINE R == {ss \in Nat \X Nat : ss[1] < ss[2]}
<1>1. IsWellFoundedOn(R, Nat)
  BY NatLessThanWellFounded, Zenon DEF OpToRel
<1> HIDE DEF R
<1>2. PICK x \in T : \A y \in T : ~(<<y, x>> \in R)
  BY <1>1, WFMin, Zenon
<1>3. \A y \in T : x <= y
  <2> TAKE y \in T
  <2>1. x \in Nat /\ y \in Nat
    BY Zenon
  <2>2. y < x => <<y, x>> \in R
    BY <2>1, Zenon DEF R
  <2> QED BY <1>2, <2>1, <2>2
<1> QED BY <1>3, Zenon

\* Induction over the naturals, for a set of them.
LEMMA Induction ==
  ASSUME NEW S, 0 \in S, \A n \in Nat : n \in S => n + 1 \in S
  PROVE  Nat \subseteq S
<1> SUFFICES ASSUME Nat \ S # {} PROVE FALSE
  BY Zenon
<1>1. PICK n \in Nat \ S : \A m \in Nat \ S : n <= m
  BY LeastNatural, Zenon
<1>2. n - 1 \in Nat /\ n - 1 \notin Nat \ S
  BY <1>1
<1> QED BY <1>1, <1>2
-----------------------------------------------------------------------------
(* Sums over finite sets. *)

Pick(s) == CHOOSE x \in s : TRUE
Added(fun, f, s) == IF s = {} THEN 0 ELSE fun[Pick(s)] + f[s \ {Pick(s)}]
Small(S, n) == {s \in SUBSET S : Cardinality(s) <= n}
Sums(fun, D, f) == f = [s \in D |-> Added(fun, f, s)]
SumsOf(fun, S, f) == Sums(fun, SUBSET S, f)

\* A set without one of its elements.
LEMMA Without ==
  ASSUME NEW s, IsFiniteSet(s), NEW x \in s
  PROVE  /\ IsFiniteSet(s \ {x}) /\ Cardinality(s \ {x}) \in Nat
         /\ Cardinality(s) = Cardinality(s \ {x}) + 1
<1>1. IsFiniteSet(s \ {x}) /\ Cardinality(s \ {x}) = Cardinality(s) - 1
  BY FS_RemoveElement, Zenon
<1>2. Cardinality(s) \in Nat /\ Cardinality(s \ {x}) \in Nat
  BY <1>1, FS_CardinalityType, Zenon
<1> QED BY <1>1, <1>2

\* The sums over all subsets of a finite set.
LEMMA SumsExist ==
  ASSUME NEW fun, NEW S, IsFiniteSet(S), NEW n \in Nat
  PROVE  \E f : Sums(fun, Small(S, n), f)
<1> DEFINE M == {m \in Nat : \E f : Sums(fun, Small(S, m), f)}
<1>0. \A s \in SUBSET S : IsFiniteSet(s) /\ Cardinality(s) \in Nat
  BY FS_Subset, FS_CardinalityType, Zenon
<1>1. 0 \in M
  <2>1. \A s \in Small(S, 0) : s = {}
    BY <1>0, FS_EmptySet DEF Small
  <2>2. Sums(fun, Small(S, 0), [s \in Small(S, 0) |-> 0])
    BY <2>1, Zenon DEF Sums, Added
  <2> QED BY <2>2, Zenon
<1>2. ASSUME NEW m \in Nat, m \in M PROVE m + 1 \in M
  <2>1. PICK f : Sums(fun, Small(S, m), f)
    BY <1>2, Zenon
  <2> DEFINE D == Small(S, m + 1)
             g == [s \in D |-> IF s \in Small(S, m) THEN f[s] ELSE Added(fun, f, s)]
  <2>2. ASSUME NEW s \in D PROVE g[s] = Added(fun, g, s)
    <3>1. ASSUME s # {} PROVE s \ {Pick(s)} \in D /\ s \ {Pick(s)} \in Small(S, m)
      <4>1. Pick(s) \in s
        BY <3>1, Zenon DEF Pick
      <4>2. s \in SUBSET S /\ IsFiniteSet(s) /\ Cardinality(s) \in Nat /\ Cardinality(s) <= m + 1
        BY <1>0, Zenon DEF Small
      <4>3. Cardinality(s \ {Pick(s)}) \in Nat /\ Cardinality(s) = Cardinality(s \ {Pick(s)}) + 1
        BY <4>1, <4>2, Without, Zenon
      <4>4. Cardinality(s \ {Pick(s)}) <= m /\ Cardinality(s \ {Pick(s)}) <= m + 1
        BY <4>2, <4>3
      <4> QED BY <4>2, <4>4, Zenon DEF Small
    <3>2. s # {} => g[s \ {Pick(s)}] = f[s \ {Pick(s)}]
      BY <3>1, Zenon
    <3>3. g[s] = IF s \in Small(S, m) THEN f[s] ELSE Added(fun, f, s)
      BY Zenon
    <3>4. s \in Small(S, m) => f[s] = Added(fun, f, s)
      BY <2>1, Zenon DEF Sums
    <3> HIDE DEF g
    <3>5. Added(fun, g, s) = Added(fun, f, s)
      BY <3>2, Zenon DEF Added
    <3> QED BY <3>3, <3>4, <3>5, Zenon
  <2>3. g = [s \in D |-> g[s]]
    BY Zenon
  <2> HIDE DEF g
  <2>4. Sums(fun, D, g)
    BY <2>2, <2>3, Zenon DEF Sums
  <2> QED BY <2>4
<1> HIDE DEF M
<1>3. n \in M
  BY <1>1, <1>2, Induction, Zenon
<1> QED BY <1>3, Zenon DEF M

\* SumFunctionOnSet adds one element after the other.
LEMMA SumUnfolds ==
  ASSUME NEW fun, NEW S, IsFiniteSet(S)
  PROVE  \E f : SumsOf(fun, S, f) /\ SumFunctionOnSet(fun, S) = f[S]
<1>1. \A s \in SUBSET S : Cardinality(s) <= Cardinality(S)
  BY FS_Subset, Zenon
<1>2. SUBSET S = Small(S, Cardinality(S)) /\ Cardinality(S) \in Nat
  BY <1>1, FS_CardinalityType, Zenon DEF Small
<1>3. \E f : SumsOf(fun, S, f)
  <2>1. \E f : Sums(fun, Small(S, Cardinality(S)), f)
    BY <1>2, SumsExist, Zenon
  <2> QED BY <1>2, <2>1, Zenon DEF SumsOf
<1> DEFINE w == CHOOSE f : SumsOf(fun, S, f)
<1>4. SumsOf(fun, S, w)
  BY <1>3, Zenon
<1>5. SumFunctionOnSet(fun, S) = w[S]
  BY Zenon DEF SumFunctionOnSet, FoldFunctionOnSet, MapThenFoldSet, SumsOf, Sums, Added, Pick
<1> QED BY <1>4, <1>5, Zenon

\* Sums of the same numbers are the same.
LEMMA SumsSame ==
  ASSUME NEW fun, NEW gun, NEW S, NEW T, NEW f, NEW g, IsFiniteSet(S),
         T \subseteq S, SumsOf(fun, S, f), SumsOf(gun, T, g), \A x \in T : fun[x] = gun[x]
  PROVE  f[T] = g[T]
<1> DEFINE M == {m \in Nat : \A s \in SUBSET T : Cardinality(s) = m => f[s] = g[s]}
<1>0. \A s \in SUBSET T : /\ IsFiniteSet(s) /\ Cardinality(s) \in Nat
                                   /\ s \in SUBSET S /\ s \in SUBSET T
  BY FS_Subset, FS_CardinalityType, Zenon
<1>1. \A s \in SUBSET T : f[s] = Added(fun, f, s) /\ g[s] = Added(gun, g, s)
  BY <1>0, Zenon DEF SumsOf, Sums
<1>2. 0 \in M
  <2>1. \A s \in SUBSET T : Cardinality(s) = 0 => s = {}
    BY <1>0, FS_EmptySet, Zenon
  <2>2. \A s \in SUBSET T : s = {} => f[s] = g[s]
    BY <1>1, Zenon DEF Added
  <2> QED BY <2>1, <2>2, Zenon
<1>3. ASSUME NEW m \in Nat, m \in M PROVE m + 1 \in M
  <2> SUFFICES ASSUME NEW s \in SUBSET T, Cardinality(s) = m + 1 PROVE f[s] = g[s]
    OBVIOUS
  <2> DEFINE x == Pick(s)
             r == s \ {x}
  <2>1. s # {}
    BY FS_EmptySet
  <2>2. x \in s
    BY <2>1, Zenon DEF Pick
  <2>3. r \in SUBSET T /\ Cardinality(r) = m
    BY <1>0, <2>2, Without
  <2>4. f[r] = g[r] /\ fun[x] = gun[x]
    BY <1>3, <2>2, <2>3, Zenon
  <2>5. f[s] = fun[x] + f[r] /\ g[s] = gun[x] + g[r]
    BY <1>1, <2>1, Zenon DEF Added
  <2> QED BY <2>4, <2>5, Zenon
<1> HIDE DEF M
<1>4. Nat \subseteq M
  BY <1>2, <1>3, Induction, Zenon
<1> QED BY <1>0, <1>4, Zenon DEF M

\* The order of adding does not matter.
LEMMA SumsAny ==
  ASSUME NEW fun, NEW S, NEW f, IsFiniteSet(S), SumsOf(fun, S, f), \A x \in S : fun[x] \in Int
  PROVE  f[S] \in Int /\ \A x \in S : f[S] = fun[x] + f[S \ {x}]
<1> DEFINE Any(s) == f[s] \in Int /\ \A x \in s : f[s] = fun[x] + f[s \ {x}]
           M == {m \in Nat : \A s \in SUBSET S : Cardinality(s) <= m => Any(s)}
<1>0. \A s \in SUBSET S : IsFiniteSet(s) /\ Cardinality(s) \in Nat
  BY FS_Subset, FS_CardinalityType, Zenon
<1>1. \A s \in SUBSET S : f[s] = Added(fun, f, s)
  BY Zenon DEF SumsOf, Sums
<1>2. 0 \in M
  <2>1. \A s \in SUBSET S : Cardinality(s) <= 0 => s = {}
    BY <1>0, FS_EmptySet
  <2>2. \A s \in SUBSET S : s = {} => f[s] = 0
    BY <1>1, Zenon DEF Added
  <2> QED BY <2>1, <2>2
<1>3. ASSUME NEW m \in Nat, m \in M PROVE m + 1 \in M
  <2>0. \A r \in SUBSET S : Cardinality(r) <= m => Any(r)
    BY <1>3, Zenon
  <2> SUFFICES ASSUME NEW s \in SUBSET S, Cardinality(s) = m + 1 PROVE Any(s)
    BY <1>0, <2>0
  <2> DEFINE y == Pick(s)
  <2>1. s # {}
    BY FS_EmptySet
  <2>2. y \in s
    BY <2>1, Zenon DEF Pick
  <2>3. f[s] = fun[y] + f[s \ {y}]
    BY <1>1, <2>1, Zenon DEF Added
  <2> HIDE DEF y
  <2>4. ASSUME NEW x \in s PROVE s \ {x} \in SUBSET S /\ Any(s \ {x}) /\ fun[x] \in Int
    <3>1. s \ {x} \in SUBSET S /\ Cardinality(s \ {x}) <= m
      BY <1>0, Without
    <3> QED BY <2>0, <3>1, Zenon
  <2>5. f[s] \in Int
    <3>1. fun[y] \in Int /\ f[s \ {y}] \in Int
      BY <2>2, <2>4, Zenon
    <3> QED BY <2>3, <3>1
  <2>6. ASSUME NEW x \in s PROVE f[s] = fun[x] + f[s \ {x}]
    <3>1. CASE x = y
      BY <2>3, <3>1, Zenon
    <3>2. CASE x # y
      <4>1. x \in s \ {y} /\ y \in s \ {x}
        BY <2>2, <3>2, Zenon
      <4>2. f[s \ {y}] = fun[x] + f[(s \ {y}) \ {x}] /\ f[s \ {x}] = fun[y] + f[(s \ {x}) \ {y}]
        BY <2>2, <2>4, <4>1, Zenon
      <4>3. (s \ {y}) \ {x} = (s \ {x}) \ {y} /\ (s \ {x}) \ {y} \in SUBSET S
        BY Zenon
      <4>4. f[(s \ {x}) \ {y}] \in Int
        <5>1. IsFiniteSet(s \ {x}) /\ Cardinality(s \ {x}) = m
          BY <1>0, Without
        <5>2. /\ Cardinality((s \ {x}) \ {y}) \in Nat
              /\ Cardinality(s \ {x}) = Cardinality((s \ {x}) \ {y}) + 1
          BY <4>1, <5>1, Without, Zenon
        <5>3. Cardinality((s \ {x}) \ {y}) <= m
          BY <5>1, <5>2
        <5> QED BY <2>0, <4>3, <5>3, Zenon
      <4>5. fun[x] \in Int /\ fun[y] \in Int
        BY <2>2, <2>4, Zenon
      <4> DEFINE z == f[(s \ {x}) \ {y}]
      <4>6. z \in Int /\ f[s \ {y}] = fun[x] + z /\ f[s \ {x}] = fun[y] + z
        BY <4>2, <4>3, <4>4, Zenon
      <4> HIDE DEF z
      <4> QED BY <2>3, <4>5, <4>6
    <3> QED BY <3>1, <3>2, Zenon
  <2> QED BY <2>5, <2>6, Zenon
<1> HIDE DEF M
<1>4. Nat \subseteq M
  BY <1>2, <1>3, Induction, Zenon
<1> QED BY <1>0, <1>4 DEF M

\* A sum of integers is an integer.
LEMMA SumType ==
  ASSUME NEW fun, NEW S, IsFiniteSet(S), \A x \in S : fun[x] \in Int
  PROVE  SumFunctionOnSet(fun, S) \in Int
<1>1. PICK f : SumsOf(fun, S, f) /\ SumFunctionOnSet(fun, S) = f[S]
  BY SumUnfolds, Zenon
<1>2. f[S] \in Int
  BY <1>1, SumsAny, Zenon
<1> QED BY <1>1, <1>2, Zenon

\* Functions that agree on a set have the same sum over it.
LEMMA SumSame ==
  ASSUME NEW fun, NEW gun, NEW S, IsFiniteSet(S), \A x \in S : fun[x] = gun[x]
  PROVE  SumFunctionOnSet(fun, S) = SumFunctionOnSet(gun, S)
<1>1. PICK f : SumsOf(fun, S, f) /\ SumFunctionOnSet(fun, S) = f[S]
  BY SumUnfolds, Zenon
<1>2. PICK g : SumsOf(gun, S, g) /\ SumFunctionOnSet(gun, S) = g[S]
  BY SumUnfolds, Zenon
<1>3. f[S] = g[S]
  BY <1>1, <1>2, SumsSame
<1> QED BY <1>1, <1>2, <1>3, Zenon

\* The sum over a set is what one element adds to the sum over the others.
LEMMA SumWithout ==
  ASSUME NEW fun, NEW S, IsFiniteSet(S), \A x \in S : fun[x] \in Int, NEW x \in S
  PROVE  SumFunctionOnSet(fun, S) = fun[x] + SumFunctionOnSet(fun, S \ {x})
<1> DEFINE T == S \ {x}
<1>1. PICK f : SumsOf(fun, S, f) /\ SumFunctionOnSet(fun, S) = f[S]
  BY SumUnfolds, Zenon
<1>2. IsFiniteSet(T)
  BY FS_RemoveElement, Zenon
<1>3. PICK g : SumsOf(fun, T, g) /\ SumFunctionOnSet(fun, T) = g[T]
  BY <1>2, SumUnfolds, Zenon
<1>4. f[T] = g[T]
  BY <1>1, <1>3, SumsSame
<1>5. f[S] = fun[x] + f[T]
  BY <1>1, SumsAny
<1> QED BY <1>1, <1>3, <1>4, <1>5, Zenon

\* Changing one number changes the sum by the difference.
LEMMA SumChange ==
  ASSUME NEW fun, NEW gun, NEW S, IsFiniteSet(S), NEW x \in S,
         \A e \in S : fun[e] \in Int /\ gun[e] \in Int, \A e \in S \ {x} : fun[e] = gun[e]
  PROVE  SumFunctionOnSet(gun, S) = SumFunctionOnSet(fun, S) - fun[x] + gun[x]
<1> DEFINE T == S \ {x}
           rest == SumFunctionOnSet(fun, T)
<1>1. IsFiniteSet(T)
  BY FS_RemoveElement, Zenon
<1>2. SumFunctionOnSet(gun, T) = rest
  <2>1. \A e \in T : gun[e] = fun[e]
    BY Zenon
  <2> QED BY <1>1, <2>1, SumSame, Zenon
<1>3. SumFunctionOnSet(fun, S) = fun[x] + rest
  BY SumWithout
<1>4. SumFunctionOnSet(gun, S) = gun[x] + SumFunctionOnSet(gun, T)
  BY SumWithout
<1>5. rest \in Int
  <2>1. \A e \in T : fun[e] \in Int
    BY Zenon
  <2> QED BY <1>1, <2>1, SumType, Zenon
<1>6. fun[x] \in Int /\ gun[x] \in Int
  BY Zenon
<1> HIDE DEF rest
<1> QED BY <1>2, <1>3, <1>4, <1>5, <1>6

-----------------------------------------------------------------------------
(* JuriaCoin: what a call does to the balances and to the total. *)

Congruent(x, y) == \E k \in Int : x = y + k * Modulus

\* Congruent numbers are equal modulo the width.
LEMMA CongruentIsEqual ==
  ASSUME NEW x \in Int, NEW y \in Int, Congruent(x, y)
  PROVE  x % Modulus = y % Modulus
<1>1. Modulus \in Nat /\ Modulus > 0
  BY CoinAssumption
<1>2. PICK k \in Int : x = y + k * Modulus
  BY Zenon DEF Congruent
<1> DEFINE a == x % Modulus
           b == y % Modulus
           q == k + (y \div Modulus) - (x \div Modulus)
<1>3. /\ x = (x \div Modulus) * Modulus + a /\ a \in 0 .. Modulus - 1
      /\ y = (y \div Modulus) * Modulus + b /\ b \in 0 .. Modulus - 1
      /\ x \div Modulus \in Int /\ y \div Modulus \in Int
  BY <1>1
<1>4. q \in Int
  BY <1>3
<1> HIDE DEF a, b
<1>5. a = b + q * Modulus
  BY <1>1, <1>2, <1>3
<1> HIDE DEF q
<1>6. ~(q >= 1) /\ ~(q <= -1)
  <2>1. ASSUME q >= 1 PROVE q * Modulus >= Modulus
    BY <1>1, <1>4, <2>1
  <2>2. ASSUME q <= -1 PROVE q * Modulus <= 0 - Modulus
    BY <1>1, <1>4, <2>2
  <2>3. q * Modulus \in Int
    BY <1>1, <1>4
  <2> QED BY <1>1, <1>3, <1>5, <2>1, <2>2, <2>3
<1>7. q = 0
  BY <1>4, <1>6
<1>8. a = b
  BY <1>1, <1>3, <1>5, <1>7
<1> QED BY <1>8, Zenon DEF a, b

\* encodeBalance keeps a number modulo the width.
LEMMA EncodeIsCongruent ==
  ASSUME NEW x \in Int
  PROVE  encodeBalance(x) \in Values /\ \E k \in Int : encodeBalance(x) = x + k * Modulus
<1>1. Modulus \in Nat /\ Modulus > 0
  BY CoinAssumption
<1>2. x % Modulus \in Values
  BY <1>1 DEF Values
<1>3. x % Modulus = x + (0 - (x \div Modulus)) * Modulus /\ 0 - (x \div Modulus) \in Int
  BY <1>1
<1> QED BY <1>2, <1>3, Zenon DEF encodeBalance

Balances(s) == SumFunctionOnSet(s, Account)
Held == [RegistryKeys -> Stored]

\* What is stored are numbers, and what a call sets can be stored.
LEMMA StoredTypes ==
  /\ Modulus \in Nat /\ Modulus > 2
  /\ \A x \in Stored : x \in Int
  /\ Values \subseteq Stored /\ \A k \in Keys : Id(k) \in Stored
<1>1. Modulus \in Nat /\ Modulus > 2 /\ \A k \in Keys : Id(k) \in Int
  BY CoinAssumption, Zenon
<1>2. \A x \in Values : x \in Int
  BY <1>1 DEF Values
<1>3. \A x \in Stored : x \in Int
  BY <1>1, <1>2, Zenon DEF Stored
<1> QED BY <1>1, <1>3, Zenon DEF Stored

\* The balances and the total are numbers.
LEMMA BalanceTypes ==
  ASSUME NEW s \in Held
  PROVE  /\ Balances(s) \in Int /\ s["total"] \in Int
         /\ \A a \in Account : s[a] \in Int
<1>1. IsFiniteSet(Account)
  BY CoinAssumption, Zenon
<1>2. \A k \in RegistryKeys : s[k] \in Int
  BY StoredTypes, Zenon DEF Held
<1>3. Account \subseteq RegistryKeys /\ "total" \in RegistryKeys
  BY Zenon DEF RegistryKeys, Keys
<1>4. \A a \in Account : s[a] \in Int
  BY <1>2, <1>3, Zenon
<1>5. Balances(s) \in Int
  BY <1>1, <1>4, SumType, Zenon DEF Balances
<1> QED BY <1>2, <1>3, <1>4, <1>5, Zenon

\* The same balances have the same sum.
LEMMA BalancesKept ==
  ASSUME NEW s \in Held, NEW w \in Held, \A a \in Account : w[a] = s[a]
  PROVE  Congruent(Balances(w), Balances(s) + 0)
<1>1. IsFiniteSet(Account) /\ Modulus \in Nat
  BY CoinAssumption, Zenon
<1>2. Balances(w) = Balances(s)
  BY <1>1, SumSame, Zenon DEF Balances
<1>3. Balances(w) = Balances(s) + 0 + 0 * Modulus
  BY <1>1, <1>2, BalanceTypes
<1> QED BY <1>3 DEF Congruent

\* So has the same total.
LEMMA TotalKept ==
  ASSUME NEW s \in Held, NEW w \in Held, w["total"] = s["total"]
  PROVE  Congruent(w["total"], s["total"] + 0)
<1>1. Modulus \in Nat
  BY CoinAssumption, Zenon
<1>2. w["total"] = s["total"] + 0 + 0 * Modulus
  BY <1>1, BalanceTypes
<1> QED BY <1>2 DEF Congruent

\* Setting one balance.
LEMMA BalancesChanged ==
  ASSUME NEW s \in Held, NEW w \in Held, NEW d \in Account, \A a \in Account \ {d} : w[a] = s[a]
  PROVE  Balances(w) = Balances(s) - s[d] + w[d]
<1>1. IsFiniteSet(Account)
  BY CoinAssumption, Zenon
<1>2. \A a \in Account : s[a] \in Int /\ w[a] \in Int
  BY BalanceTypes, Zenon
<1>3. \A a \in Account \ {d} : s[a] = w[a]
  BY Zenon
<1>4. SumFunctionOnSet(w, Account) = SumFunctionOnSet(s, Account) - s[d] + w[d]
  BY <1>1, <1>2, <1>3, SumChange
<1> QED BY <1>4, Zenon DEF Balances

\* A total that is raised.
LEMMA TotalRaised ==
  ASSUME NEW s \in Held, NEW w \in Held, NEW x \in Int, w["total"] = encodeBalance(s["total"] + x)
  PROVE  Congruent(w["total"], s["total"] + x)
<1>1. s["total"] + x \in Int
  BY BalanceTypes
<1>2. PICK k \in Int : encodeBalance(s["total"] + x) = s["total"] + x + k * Modulus
  BY <1>1, EncodeIsCongruent, Zenon
<1> QED BY <1>2, Zenon DEF Congruent

\* A balance that is raised, or lowered by a negative value.
LEMMA BalanceRaised ==
  ASSUME NEW s \in Held, NEW w \in Held, NEW d \in Account, NEW x \in Int,
         \A a \in Account \ {d} : w[a] = s[a],
         w[d] = encodeBalance(s[d] + x)
  PROVE  Congruent(Balances(w), Balances(s) + x)
<1>1. Modulus \in Int
  BY CoinAssumption
<1>2. Balances(w) = Balances(s) - s[d] + w[d]
  BY BalancesChanged, Zenon
<1>3. Balances(s) \in Int /\ s[d] \in Int /\ w[d] \in Int
  BY BalanceTypes, Zenon
<1>4. PICK k \in Int : w[d] = s[d] + x + k * Modulus
  BY <1>3, EncodeIsCongruent
<1>5. k * Modulus \in Int
  BY <1>1
<1>6. Balances(w) = Balances(s) + x + k * Modulus
  BY <1>2, <1>3, <1>4, <1>5
<1> QED BY <1>6, Zenon DEF Congruent

\* A transfer to another account takes from one balance what it adds to the other.
LEMMA BalanceMoved ==
  ASSUME NEW s \in Held, NEW w \in Held, NEW d \in Account, NEW e \in Account, d # e, NEW x \in Int,
         \A a \in Account \ {d, e} : w[a] = s[a],
         w[d] = encodeBalance(s[d] + x), w[e] = encodeBalance(s[e] - x)
  PROVE  Congruent(Balances(w), Balances(s) + 0)
<1>1. Modulus \in Int
  BY CoinAssumption
<1> DEFINE m == [s EXCEPT ![e] = w[e]]
<1>2. e \in RegistryKeys
  BY Zenon DEF RegistryKeys, Keys
<1>3. m \in Held /\ m[e] = w[e] /\ m[d] = s[d]
  <2>1. d \in RegistryKeys
    BY Zenon DEF RegistryKeys, Keys
  <2> QED BY <1>2, <2>1, Zenon DEF Held
<1>4. \A a \in Account \ {e} : m[a] = s[a]
  <2>1. Account \subseteq RegistryKeys
    BY Zenon DEF RegistryKeys, Keys
  <2> QED BY <2>1, Zenon DEF Held
<1>5. \A a \in Account \ {d} : w[a] = m[a]
  BY <1>3, <1>4, Zenon
<1> HIDE DEF m
<1>6. Balances(m) = Balances(s) - s[e] + w[e]
  BY <1>3, <1>4, BalancesChanged, Zenon
<1>7. Balances(w) = Balances(m) - s[d] + w[d]
  BY <1>3, <1>5, BalancesChanged, Zenon
<1>8. /\ Balances(s) \in Int /\ s[d] \in Int /\ s[e] \in Int
      /\ w[d] \in Int /\ w[e] \in Int
  BY BalanceTypes, Zenon
<1>9. PICK k \in Int : w[d] = s[d] + x + k * Modulus
  BY <1>8, EncodeIsCongruent
<1>10. PICK j \in Int : w[e] = s[e] - x + j * Modulus
  BY <1>8, EncodeIsCongruent
<1>11. k + j \in Int /\ (k + j) * Modulus = k * Modulus + j * Modulus
       /\ k * Modulus \in Int /\ j * Modulus \in Int
  BY <1>1
<1>12. Balances(w) = Balances(s) + 0 + (k + j) * Modulus
  BY <1>6, <1>7, <1>8, <1>9, <1>10, <1>11
<1> QED BY <1>11, <1>12, Zenon DEF Congruent

\* What the balances and the total grow by makes the difference.
LEMMA SupplyGrows ==
  ASSUME NEW s \in Held, NEW w \in Held, NEW p \in Int, NEW q \in Int,
         Congruent(Balances(w), Balances(s) + p), Congruent(w["total"], s["total"] + q)
  PROVE  Congruent(Balances(w) + s["total"], Balances(s) + w["total"] + (p - q))
<1>1. Modulus \in Int
  BY CoinAssumption
<1>2. /\ Balances(s) \in Int /\ Balances(w) \in Int
      /\ s["total"] \in Int /\ w["total"] \in Int
  BY BalanceTypes, Zenon
<1>3. PICK k \in Int : Balances(w) = Balances(s) + p + k * Modulus
  BY Zenon DEF Congruent
<1>4. PICK j \in Int : w["total"] = s["total"] + q + j * Modulus
  BY Zenon DEF Congruent
<1>5. k - j \in Int /\ (k - j) * Modulus = k * Modulus - j * Modulus
      /\ k * Modulus \in Int /\ j * Modulus \in Int
  BY <1>1
<1>6. Balances(w) + s["total"] = Balances(s) + w["total"] + (p - q) + (k - j) * Modulus
  BY <1>2, <1>3, <1>4, <1>5
<1> QED BY <1>5, <1>6, Zenon DEF Congruent

AllCalls == Calls \cup Deployments
Tracked == UNION {[K -> Stored] : K \in SUBSET RegistryKeys}

\* What a call that fails, or sets one or two keys, returns.
LEMMA ResultOfCall ==
  ASSUME NEW c \in AllCalls, NEW s \in Held
  PROVE  /\ executeChaincode(c, s).error \in BOOLEAN
         /\ executeChaincode(c, s).changes \in Tracked
<1> DEFINE r == executeChaincode(c, s)
<1>1. Modulus \in Nat /\ Modulus > 2 /\ Values \subseteq Stored /\ \A k \in Keys : Id(k) \in Stored
  BY StoredTypes, Zenon
<1>2. c.sender \in Account /\ (c \in Calls => c.dest \in Keys /\ c.value \in Int)
  BY <1>1 DEF AllCalls, Calls, Deployments, Values
<1>3. \A k \in RegistryKeys : s[k] \in Int
  BY StoredTypes, Zenon DEF Held
<1>4. Account \cup {"minter", "total", "code"} = RegistryKeys
  BY Zenon DEF RegistryKeys, Keys
<1>5. Failed.error \in BOOLEAN /\ Failed.changes \in Tracked
  <2>1. [k \in {} |-> 0] \in [{} -> Stored]
    BY Zenon
  <2>2. {} \in SUBSET RegistryKeys
    BY Zenon
  <2> QED BY <2>1, <2>2, Zenon DEF Failed, Tracked
<1>6. ASSUME NEW K \in SUBSET RegistryKeys, NEW g \in [K -> Stored]
      PROVE  Sets(g).error \in BOOLEAN /\ Sets(g).changes \in Tracked
  BY Zenon DEF Sets, Tracked
<1>7. CASE c.method = "deploy"
  <2>1. c \in Deployments
    BY <1>7, Zenon DEF AllCalls, Calls
  <2>2. c.code \in Stored /\ Id(c.sender) \in Stored
    <3>1. c.code \in Values
      BY <1>1, <2>1 DEF Deployments, JuriaCoinCode, UnknownCode, Values
    <3> QED BY <1>1, <1>2, <3>1, Zenon DEF Keys
  <2> DEFINE g == [k \in {"code", "minter"} |->
                     IF k = "code" THEN c.code ELSE InitCoin(c).changes[k]]
  <2>3. g \in [{"code", "minter"} -> Stored] /\ {"code", "minter"} \in SUBSET RegistryKeys
    BY <1>4, <2>2, Zenon DEF InitCoin, Sets
  <2>4. r \in {Failed, Sets(g)}
    BY <1>7, Zenon DEF executeChaincode, executeDeployment
  <2> HIDE DEF g, r
  <2>5. r.error \in BOOLEAN /\ r.changes \in Tracked
    BY <1>5, <1>6, <2>3, <2>4, Zenon
  <2> QED BY <2>5, Zenon DEF r
<1>8. CASE c.method = "setMinter"
  <2>1. c \in Calls /\ Id(c.dest) \in Stored
    BY <1>1, <1>2, <1>8, Zenon DEF AllCalls, Deployments
  <2> DEFINE g == [k \in {"minter"} |-> Id(c.dest)]
  <2>3. g \in [{"minter"} -> Stored] /\ {"minter"} \in SUBSET RegistryKeys
    BY <1>4, <2>1, Zenon
  <2>4. r \in {Failed, Sets(g)}
    BY <1>8, Zenon DEF executeChaincode, executeInvoke, CoinOutcome, invokeSetMinter
  <2> HIDE DEF g, r
  <2>5. r.error \in BOOLEAN /\ r.changes \in Tracked
    BY <1>5, <1>6, <2>3, <2>4, Zenon
  <2> QED BY <2>5, Zenon DEF r
<1>9. CASE c.method = "mint"
  <2>1. c \in Calls /\ c.dest \in Keys /\ c.value \in Int
    BY <1>2, <1>9, Zenon DEF AllCalls, Deployments
  <2> DEFINE g == [k \in {"total", c.dest} |-> encodeBalance(s[k] + c.value)]
  <2>2. \A k \in RegistryKeys : encodeBalance(s[k] + c.value) \in Values
    BY <1>3, <2>1, EncodeIsCongruent
  <2>3. g \in [{"total", c.dest} -> Stored] /\ {"total", c.dest} \in SUBSET RegistryKeys
    BY <1>1, <1>4, <2>1, <2>2, Zenon DEF Keys
  <2>4. r \in {Failed, Sets(g)}
    BY <1>9, Zenon DEF executeChaincode, executeInvoke, CoinOutcome, invokeMint
  <2> HIDE DEF g, r
  <2>5. r.error \in BOOLEAN /\ r.changes \in Tracked
    BY <1>5, <1>6, <2>3, <2>4, Zenon
  <2> QED BY <2>5, Zenon DEF r
<1>10. CASE c.method = "transfer"
  <2>1. c \in Calls /\ c.dest \in Keys /\ c.value \in Int /\ c.sender \in Account
    BY <1>2, <1>10, Zenon DEF AllCalls, Deployments
  <2> DEFINE g == [k \in {c.sender, c.dest} |->
                     IF k = c.dest THEN encodeBalance(s[k] + c.value)
                     ELSE encodeBalance(s[k] - c.value)]
  <2>2. \A k \in RegistryKeys : /\ encodeBalance(s[k] + c.value) \in Values
                                /\ encodeBalance(s[k] - c.value) \in Values
    BY <1>3, <2>1, EncodeIsCongruent
  <2>3. g \in [{c.sender, c.dest} -> Stored] /\ {c.sender, c.dest} \in SUBSET RegistryKeys
    BY <1>1, <1>4, <2>1, <2>2, Zenon DEF Keys
  <2>4. r \in {Failed, Sets(g)}
    BY <1>10, Zenon DEF executeChaincode, executeInvoke, CoinOutcome, invokeTransfer
  <2> HIDE DEF g, r
  <2>5. r.error \in BOOLEAN /\ r.changes \in Tracked
    BY <1>5, <1>6, <2>3, <2>4, Zenon
  <2> QED BY <2>5, Zenon DEF r
<1> QED BY <1>7, <1>8, <1>9, <1>10, Zenon DEF AllCalls, Calls, Deployments

\* The drift of a call is a number.
LEMMA DriftType ==
  ASSUME NEW c \in AllCalls
  PROVE  Drift(c) \in Int
<1>1. c.method \in {"mint", "transfer"} => c.value \in Int
  BY StoredTypes DEF AllCalls, Calls, Deployments, Values
<1>2. CASE c.method \in {"mint", "transfer"}
  BY <1>1, <1>2 DEF Drift
<1>3. CASE c.method \notin {"mint", "transfer"}
  <2>1. c.method # "mint" /\ c.method # "transfer"
    BY <1>3, Zenon
  <2> QED BY <2>1 DEF Drift
<1> QED BY <1>2, <1>3, Zenon

\* A call that does not fail moves the balances and the total apart by its drift.
LEMMA SupplyOfCall ==
  ASSUME NEW c \in AllCalls, NEW s \in Held, ~executeChaincode(c, s).error,
         NEW w \in Held, w = Over(executeChaincode(c, s).changes, s)
  PROVE  Congruent(Balances(w) + s["total"], Balances(s) + w["total"] + Drift(c))
<1> DEFINE r == executeChaincode(c, s)
<1>1. Account \cap {"minter", "total", "code"} = {}
  BY CoinAssumption, Zenon
<1>2. Modulus \in Nat
  BY CoinAssumption, Zenon
<1>3. c \in Calls => c.dest \in Keys /\ c.sender \in Account /\ c.value \in Int
  BY <1>2 DEF Calls, Values
<1>4. Account \cup {"minter", "total", "code"} = RegistryKeys /\ DOMAIN s = RegistryKeys
  BY Zenon DEF RegistryKeys, Keys, Held
<1>5. \A k \in RegistryKeys : w[k] = IF k \in DOMAIN r.changes THEN r.changes[k] ELSE s[k]
  BY <1>4, Zenon DEF Over
<1>6. Failed.error
  BY Zenon DEF Failed
<1>7. ASSUME c.method \in {"deploy", "setMinter"}
      PROVE  Congruent(Balances(w) + s["total"], Balances(s) + w["total"] + Drift(c))
  <2>1. c.method = "deploy" => DOMAIN r.changes = {"code", "minter"}
    BY <1>6, Zenon DEF executeChaincode, executeDeployment, Sets
  <2>2. c.method = "setMinter" => DOMAIN r.changes = {"minter"}
    BY <1>6, Zenon DEF executeChaincode, executeInvoke, CoinOutcome, invokeSetMinter, Sets
  <2>3. (\A a \in Account : w[a] = s[a]) /\ w["total"] = s["total"]
    BY <1>1, <1>4, <1>5, <1>7, <2>1, <2>2, Zenon
  <2>4. Congruent(Balances(w), Balances(s) + 0) /\ Congruent(w["total"], s["total"] + 0)
    BY <2>3, BalancesKept, TotalKept, Zenon
  <2>5. Drift(c) = 0 - 0
    BY <1>7 DEF Drift
  <2> QED BY <2>4, <2>5, SupplyGrows
<1>8. ASSUME c.method = "mint"
      PROVE  Congruent(Balances(w) + s["total"], Balances(s) + w["total"] + Drift(c))
  <2>1. c.dest \in Keys /\ c.value \in Int
    BY <1>3, <1>8, Zenon DEF AllCalls, Deployments
  <2>2. r.changes = [k \in {"total", c.dest} |-> encodeBalance(s[k] + c.value)]
    BY <1>6, <1>8, Zenon DEF executeChaincode, executeInvoke, CoinOutcome, invokeMint, Sets
  <2>3. Congruent(w["total"], s["total"] + c.value)
    <3>1. w["total"] = encodeBalance(s["total"] + c.value)
      BY <1>4, <1>5, <2>2, Zenon
    <3> QED BY <2>1, <3>1, TotalRaised, Zenon
  <2>4. CASE c.dest \in Account
    <3>1. /\ \A a \in Account \ {c.dest} : w[a] = s[a]
          /\ w[c.dest] = encodeBalance(s[c.dest] + c.value)
      BY <1>1, <1>4, <1>5, <2>2, <2>4, Zenon
    <3>2. Congruent(Balances(w), Balances(s) + c.value)
      BY <2>1, <2>4, <3>1, BalanceRaised, Zenon
    <3>3. c.dest # "minter" /\ c.dest # "total"
      BY <1>1, <2>4, Zenon
    <3>4. Drift(c) = c.value - c.value
      BY <1>8, <2>1, <3>3 DEF Drift
    <3> QED BY <2>1, <2>3, <3>2, <3>4, SupplyGrows
  <2>5. CASE c.dest \in {"minter", "total"}
    <3>1. \A a \in Account : w[a] = s[a]
      BY <1>1, <1>4, <1>5, <2>2, <2>5, Zenon
    <3>2. Congruent(Balances(w), Balances(s) + 0)
      BY <3>1, BalancesKept, Zenon
    <3>3. Drift(c) = 0 - c.value
      BY <1>8, <2>5 DEF Drift
    <3> QED BY <2>1, <2>3, <3>2, <3>3, SupplyGrows
  <2> QED BY <2>1, <2>4, <2>5, Zenon DEF Keys
<1>9. ASSUME c.method = "transfer"
      PROVE  Congruent(Balances(w) + s["total"], Balances(s) + w["total"] + Drift(c))
  <2>1. c.dest \in Keys /\ c.sender \in Account /\ c.value \in Int
    BY <1>3, <1>9, Zenon DEF AllCalls, Deployments
  <2>2. r.changes = [k \in {c.sender, c.dest} |->
                       IF k = c.dest THEN encodeBalance(s[k] + c.value)
                       ELSE encodeBalance(s[k] - c.value)]
    BY <1>6, <1>9, Zenon DEF executeChaincode, executeInvoke, CoinOutcome, invokeTransfer, Sets
  <2>3. /\ \A a \in Account \ {c.dest, c.sender} : w[a] = s[a]
        /\ w[c.dest] = encodeBalance(s[c.dest] + c.value)
        /\ c.sender # c.dest => w[c.sender] = encodeBalance(s[c.sender] - c.value)
        /\ c.dest # "total" => w["total"] = s["total"]
    BY <1>1, <1>4, <1>5, <2>1, <2>2, Zenon DEF Keys
  <2>4. c.dest # "total" => Congruent(w["total"], s["total"] + 0)
    BY <2>3, TotalKept, Zenon
  <2>5. CASE c.sender = c.dest
    <3>1. c.dest \in Account /\ c.dest # "total" /\ \A a \in Account \ {c.dest} : w[a] = s[a]
      BY <1>1, <2>1, <2>3, <2>5, Zenon
    <3>2. Congruent(Balances(w), Balances(s) + c.value)
      BY <2>1, <2>3, <3>1, BalanceRaised, Zenon
    <3>3. Drift(c) = c.value - 0
      <4>1. c.dest # "minter" /\ c.dest # "total" /\ c.dest = c.sender
        BY <1>1, <2>5, <3>1, Zenon
      <4> QED BY <1>9, <2>1, <4>1 DEF Drift
    <3> QED BY <2>1, <2>4, <3>1, <3>2, <3>3, SupplyGrows
  <2>6. CASE c.sender # c.dest /\ c.dest \in Account
    <3>1. /\ \A a \in Account \ {c.dest, c.sender} : w[a] = s[a]
          /\ w[c.dest] = encodeBalance(s[c.dest] + c.value)
          /\ w[c.sender] = encodeBalance(s[c.sender] - c.value)
          /\ c.dest # c.sender
      BY <2>3, <2>6, Zenon
    <3>2. Congruent(Balances(w), Balances(s) + 0)
      BY <2>1, <2>6, <3>1, BalanceMoved
    <3>3. c.dest # "minter" /\ c.dest # "total"
      BY <1>1, <2>6, Zenon
    <3>4. Drift(c) = 0 - 0
      BY <1>9, <2>6, <3>3 DEF Drift
    <3> QED BY <2>4, <3>2, <3>3, <3>4, SupplyGrows
  <2>7. CASE c.dest \in {"minter", "total"}
    <3>1. c.sender # c.dest /\ \A a \in Account \ {c.sender} : w[a] = s[a]
      BY <1>1, <2>1, <2>3, <2>7, Zenon
    <3>2. Congruent(Balances(w), Balances(s) + (0 - c.value))
      <4>1. s[c.sender] - c.value = s[c.sender] + (0 - c.value) /\ 0 - c.value \in Int
        BY <2>1, BalanceTypes
      <4>2. w[c.sender] = encodeBalance(s[c.sender] + (0 - c.value))
        BY <2>3, <3>1, <4>1, Zenon
      <4> QED BY <2>1, <3>1, <4>1, <4>2, BalanceRaised, Zenon
    <3>3. CASE c.dest = "minter"
      <4>1. Drift(c) = (0 - c.value) - 0 /\ c.dest # "total"
        BY <1>9, <2>1, <3>1, <3>3 DEF Drift
      <4> QED BY <2>1, <2>4, <3>2, <4>1, SupplyGrows
    <3>4. CASE c.dest = "total"
      <4>1. Congruent(w["total"], s["total"] + c.value)
        BY <2>1, <2>3, <3>4, TotalRaised
      <4>2. Drift(c) = (0 - c.value) - c.value
        BY <1>9, <2>1, <3>1, <3>4 DEF Drift
      <4> QED BY <2>1, <3>2, <4>1, <4>2, SupplyGrows
    <3> QED BY <2>7, <3>3, <3>4, Zenon
  <2> QED BY <2>1, <2>5, <2>6, <2>7, Zenon DEF Keys
<1> QED BY <1>7, <1>8, <1>9, Zenon DEF AllCalls, Calls, Deployments

\* What a chaincode has to be for module Chaincode to be about it: it fails or sets
\* keys of the state, and having nothing left to read it ends as on the whole state.
Deterministic(c, s) ==
  /\ executeChaincode(c, s).error \in BOOLEAN
  /\ executeChaincode(c, s).changes \in Tracked
  /\ \A K \in SUBSET RegistryKeys :
       TxAsks(c, ReadOf(s, K)) = {} => executeChaincode(c, ReadOf(s, K)) = executeChaincode(c, s)

\* Deploying JuriaCoin and calling it, in whichever order the reads of a call find
\* each other, is what ChaincodeAssumption asks of a chaincode.
THEOREM CoinIsDeterministic == \A c \in AllCalls, s \in Held : Deterministic(c, s)
<1> SUFFICES ASSUME NEW c \in AllCalls, NEW s \in Held, NEW K \in SUBSET RegistryKeys,
                    TxAsks(c, ReadOf(s, K)) = {}
             PROVE  executeChaincode(c, ReadOf(s, K)) = executeChaincode(c, s)
  BY ResultOfCall, Zenon DEF Deterministic
<1> DEFINE v == ReadOf(s, K)
<1>1. DOMAIN v = K /\ \A k \in K : v[k] = s[k]
  BY Zenon DEF ReadOf
<1> HIDE DEF v
<1>2. TxAsks(c, v) = {}
  BY Zenon DEF v
<1>3. CASE c.method = "deploy"
  BY <1>3, Zenon DEF executeChaincode, v
<1>4. CASE c.method # "deploy" /\ ~GetInstance(s["code"])
  <2>1. "code" \in K
    BY <1>1, <1>2, <1>4, Zenon DEF TxAsks
  <2>2. v["code"] = s["code"]
    BY <1>1, <2>1, Zenon
  <2> QED BY <1>4, <2>2, Zenon DEF executeChaincode, executeInvoke, v
<1>5. CASE c.method # "deploy" /\ GetInstance(s["code"])
  <2>1. "code" \in K
    BY <1>1, <1>2, <1>5, Zenon DEF TxAsks
  <2>2. v["code"] = s["code"]
    BY <1>1, <2>1, Zenon
  <2>3. CoinAsks(c, v) = {}
    BY <1>1, <1>2, <1>5, <2>1, <2>2, Zenon DEF TxAsks
  <2>4. CoinOutcome(c, v) = CoinOutcome(c, s)
    <3>1. CASE c.method = "setMinter"
      <4>1. "minter" \in K
        BY <1>1, <2>3, <3>1, Zenon DEF CoinAsks
      <4>2. v["minter"] = s["minter"]
        BY <1>1, <4>1, Zenon
      <4> QED BY <3>1, <4>2, Zenon DEF CoinOutcome, invokeSetMinter, IsMinter
    <3>2. CASE c.method = "mint"
      <4>1. "minter" \in K
        BY <1>1, <2>3, <3>2, Zenon DEF CoinAsks
      <4>2. v["minter"] = s["minter"]
        BY <1>1, <4>1, Zenon
      <4>3. IsMinter(c, s) => "total" \in K /\ c.dest \in K
        BY <1>1, <2>3, <3>2, <4>1, <4>2, Zenon DEF CoinAsks, FirstUnread, IsMinter
      <4>4. IsMinter(c, s) => [k \in {"total", c.dest} |-> encodeBalance(v[k] + c.value)]
                                = [k \in {"total", c.dest} |-> encodeBalance(s[k] + c.value)]
        BY <1>1, <4>3, Zenon
      <4>5. invokeMint(c, v) = invokeMint(c, s)
        <5>1. IsMinter(c, s) => v[c.dest] = s[c.dest]
          BY <1>1, <4>3, Zenon
        <5> QED BY <4>2, <4>4, <5>1, Zenon DEF invokeMint, IsMinter
      <4> QED BY <3>2, <4>5, Zenon DEF CoinOutcome
    <3>3. CASE c.method = "transfer"
      <4>1. c.sender \in K
        BY <1>1, <2>3, <3>3, Zenon DEF CoinAsks, FirstUnread
      <4>2. v[c.sender] = s[c.sender]
        BY <1>1, <4>1, Zenon
      <4>3. Covered(c, s) => c.dest \in K
        BY <1>1, <2>3, <3>3, <4>1, <4>2, Zenon DEF CoinAsks, FirstUnread, Covered
      <4> DEFINE g(u) == [k \in {c.sender, c.dest} |->
                            IF k = c.dest THEN encodeBalance(u[k] + c.value)
                            ELSE encodeBalance(u[k] - c.value)]
      <4>4. Covered(c, s) => g(v) = g(s)
        BY <1>1, <4>1, <4>3, Zenon
      <4>5. invokeTransfer(c, v) = invokeTransfer(c, s)
        <5>1. Covered(c, s) => v[c.dest] = s[c.dest]
          BY <1>1, <4>3, Zenon
        <5> QED BY <4>2, <4>4, <5>1, Zenon DEF invokeTransfer, Covered
      <4> QED BY <3>3, <4>5, Zenon DEF CoinOutcome
    <3> QED BY <1>5, <3>1, <3>2, <3>3, Zenon DEF AllCalls, Calls, Deployments
  <2> QED BY <1>5, <2>2, <2>4, Zenon DEF executeChaincode, executeInvoke, v
<1> QED BY <1>3, <1>4, <1>5, Zenon

-----------------------------------------------------------------------------
(* The supply. *)

Drifted == SumFunction([t \in Merged |-> Drift(Block[t])])
SupplyInv ==
  /\ errors \subseteq 1 .. mergeIdx
  /\ Congruent(Balances(current) + base["total"], Balances(base) + current["total"] + Drifted)

\* The states are JuriaCoin's, and the merged transactions are finitely many calls.
LEMMA SupplyTypes ==
  ASSUME ExecInv
  PROVE  /\ State = Held /\ base \in Held /\ current \in Held
         /\ IsFiniteSet(Merged) /\ Merged \subseteq Tx
         /\ \A t \in Merged : Drift(Block[t]) \in Int
         /\ Drifted \in Int
<1>1. State = Held
  BY BlockAssumption, Zenon DEF State, Held
<1>2. base \in State /\ changes \in Partial /\ mergeIdx \in 0 .. TxCount
  BY Zenon DEF ExecInv, TypeOK
<1>3. current \in State
  BY <1>2, OverType, Zenon DEF current
<1>4. TxCount \in Nat
  BY CountAssumption, Zenon
<1>5. Merged \subseteq Tx
  BY <1>2, <1>4 DEF Merged, Tx
<1>6. IsFiniteSet(Tx)
  BY <1>4, FS_Interval DEF Tx
<1>7. IsFiniteSet(Merged)
  BY <1>5, <1>6, FS_Subset, Zenon
<1>8. \A t \in Merged : Drift(Block[t]) \in Int
  <2> SUFFICES ASSUME NEW t \in Merged PROVE Drift(Block[t]) \in Int
    BY Zenon
  <2>1. Block[t] \in AllCalls
    BY <1>5, BlockAssumption, Zenon DEF AllCalls
  <2> QED BY <2>1, DriftType, Zenon
<1>9. Drifted \in Int
  <2> DEFINE b == [t \in Merged |-> Drift(Block[t])]
  <2>1. DOMAIN b = Merged /\ \A t \in Merged : b[t] \in Int
    BY <1>8, Zenon
  <2> HIDE DEF b
  <2>2. SumFunctionOnSet(b, Merged) \in Int
    BY <1>7, <2>1, SumType, Zenon
  <2>3. SumFunction(b) \in Int
    BY <2>1, <2>2, Zenon DEF SumFunction
  <2> QED BY <2>3, Zenon DEF Drifted, b
<1> QED BY <1>1, <1>2, <1>3, <1>5, <1>7, <1>8, <1>9, Zenon

\* Nothing but Init sets the state before the block.
LEMMA BaseStays == [Next]_blkvars => base' = base
<1> SUFFICES ASSUME [Next]_blkvars PROVE base' = base
  BY Zenon
<1>1. CASE UNCHANGED blkvars
  BY <1>1 DEF blkvars
<1>2. CASE Next
  <2>1. PICK t \in Tx : Step(t)
    BY <1>2, Zenon DEF Next
  <2> QED BY <2>1, Zenon
             DEF Step, TakeJob, GetState, LateGetState, EndExecution, Subscribe, CheckMergeIdx,
                      ReceiveEvent, mergeTxStateChanges, Emit
<1> QED BY <1>1, <1>2, Zenon

\* One more transaction adds its drift.
LEMMA DriftedGrows ==
  ASSUME NEW S, IsFiniteSet(S), NEW t, t \notin S, \A u \in S \cup {t} : Drift(Block[u]) \in Int
  PROVE  SumFunction([u \in S \cup {t} |-> Drift(Block[u])])
           = Drift(Block[t]) + SumFunction([u \in S |-> Drift(Block[u])])
<1> DEFINE T == S \cup {t}
           a == [u \in S |-> Drift(Block[u])]
           b == [u \in T |-> Drift(Block[u])]
<1>1. /\ DOMAIN a = S /\ DOMAIN b = T /\ b[t] = Drift(Block[t])
      /\ \A u \in S : b[u] = a[u]
      /\ \A u \in T : b[u] \in Int
  BY Zenon
<1>2. IsFiniteSet(T) /\ t \in T /\ T \ {t} = S
  BY FS_AddElement, Zenon
<1> HIDE DEF a, b, T
<1>3. SumFunctionOnSet(b, T) = b[t] + SumFunctionOnSet(b, T \ {t})
  BY <1>1, <1>2, SumWithout
<1>4. SumFunctionOnSet(b, S) = SumFunctionOnSet(a, S)
  BY <1>1, SumSame, Zenon
<1>5. SumFunction(b) = Drift(Block[t]) + SumFunction(a)
  BY <1>1, <1>2, <1>3, <1>4, Zenon DEF SumFunction
<1> QED BY <1>5, Zenon DEF a, b, T

\* Merging a transaction keeps the supply.
LEMMA SupplyStep ==
  ASSUME ExecInv, ExecInv', SupplyInv, base' = base, Serial!SerialNext
  PROVE  SupplyInv'
<1> DEFINE t == mergeIdx + 1
<1>1. PICK r \in Results(t, current) :
        /\ mergeIdx' = t
        /\ errors' = IF r.error THEN errors \cup {t} ELSE errors
        /\ current' = IF r.error THEN current ELSE Over(r.changes, current)
  BY Zenon
     DEF Serial!SerialNext, Serial!ExecuteTx, Serial!Results, Results, Serial!TimedOut, TimedOut,
         Serial!NoKeys, NoKeys, Serial!Over, Over
<1>2. mergeIdx \in Nat /\ mergeIdx < TxCount /\ TxCount \in Nat /\ t \in Tx
  BY CountAssumption DEF ExecInv, TypeOK, Tx, Serial!SerialNext
<1>3. /\ base \in Held /\ current \in Held /\ current' \in Held
      /\ IsFiniteSet(Merged) /\ Merged \subseteq Tx
      /\ \A u \in Merged : Drift(Block[u]) \in Int
      /\ Drifted \in Int
  <2>1. current' \in Held
    <3>1. State = Held
      BY SupplyTypes, Zenon
    <3>2. base' \in State /\ changes' \in Partial
      BY Zenon DEF ExecInv, TypeOK
    <3> QED BY <3>1, <3>2, OverType, Zenon DEF current
  <2> QED BY <2>1, SupplyTypes, Zenon
<1>4. t \notin 1 .. mergeIdx /\ 1 .. t = (1 .. mergeIdx) \cup {t}
  BY <1>2
<1>5. errors \subseteq 1 .. mergeIdx
  BY Zenon DEF SupplyInv
<1>6. errors' \subseteq 1 .. mergeIdx'
  BY <1>1, <1>4, <1>5, Zenon
<1>7. CASE r.error
  <2>1. Merged' = Merged
    <3>1. (1 .. mergeIdx') \ errors' = (1 .. mergeIdx) \ errors
      BY <1>1, <1>4, <1>5, <1>7, Zenon
    <3> QED BY <3>1, Zenon DEF Merged
  <2>2. Drifted' = Drifted
    BY <2>1, Zenon DEF Drifted
  <2>3. current' = current
    BY <1>1, <1>7, Zenon
  <2> QED BY <1>6, <2>2, <2>3, Zenon DEF SupplyInv, Congruent, Balances
<1>8. CASE ~r.error
  <2> DEFINE c == Block[t]
             d == Drift(c)
  <2>1. c \in AllCalls
    BY <1>2, BlockAssumption, Zenon DEF AllCalls
  <2>2. r = executeChaincode(c, current)
    <3>1. r = Outcome(t, current)
      BY <1>8 DEF Results, TimedOut
    <3>2. current \in State
      BY <1>3, SupplyTypes, Zenon
    <3> QED BY <1>2, <3>1, <3>2, BlockAssumption, Zenon
  <2>3. current' = Over(executeChaincode(c, current).changes, current)
    BY <1>1, <1>8, <2>2, Zenon
  <2>4. Congruent(Balances(current') + current["total"], Balances(current) + current'["total"] + d)
    BY <1>3, <1>8, <2>1, <2>2, <2>3, SupplyOfCall, Zenon
  <2>5. d \in Int
    BY <2>1, DriftType, Zenon
  <2>6. Drifted' = Drifted + d
    <3>1. Merged' = Merged \cup {t}
      BY <1>1, <1>4, <1>5, <1>8, Zenon DEF Merged
    <3>2. t \notin Merged
      BY <1>4, Zenon DEF Merged
    <3>3. \A u \in Merged \cup {t} : Drift(Block[u]) \in Int
      BY <1>3, <2>5, Zenon
    <3>4. SumFunction([u \in Merged \cup {t} |-> Drift(Block[u])])
            = Drift(Block[t]) + SumFunction([u \in Merged |-> Drift(Block[u])])
      BY <1>3, <3>2, <3>3, DriftedGrows, Zenon
    <3>5. Drifted' = d + Drifted
      BY <3>1, <3>4, Zenon DEF Drifted
    <3> QED BY <1>3, <2>5, <3>5
  <2> HIDE DEF c, d
  <2>7. /\ Balances(base) \in Int /\ Balances(current) \in Int /\ Balances(current') \in Int
        /\ base["total"] \in Int /\ current["total"] \in Int /\ current'["total"] \in Int
        /\ Modulus \in Int
    BY <1>3, BalanceTypes, CoinAssumption
  <2>8. PICK k \in Int : Balances(current) + base["total"]
                           = Balances(base) + current["total"] + Drifted + k * Modulus
    BY Zenon DEF SupplyInv, Congruent
  <2>9. PICK j \in Int : Balances(current') + current["total"]
                           = Balances(current) + current'["total"] + d + j * Modulus
    BY <2>4, Zenon DEF Congruent
  <2>10. k + j \in Int /\ (k + j) * Modulus = k * Modulus + j * Modulus
         /\ k * Modulus \in Int /\ j * Modulus \in Int
    BY <2>7
  <2>11. Balances(current') + base["total"]
           = Balances(base) + current'["total"] + (Drifted + d) + (k + j) * Modulus
    <3> DEFINE bal == Balances(current)
               bal2 == Balances(current')
               bal0 == Balances(base)
               tot == current["total"]
               tot2 == current'["total"]
               tot0 == base["total"]
               made == Drifted
               x == k * Modulus
               y == j * Modulus
    <3>1. /\ bal \in Int /\ bal2 \in Int /\ bal0 \in Int
          /\ tot \in Int /\ tot2 \in Int /\ tot0 \in Int
          /\ made \in Int /\ x \in Int /\ y \in Int
          /\ bal + tot0 = bal0 + tot + made + x /\ bal2 + tot = bal + tot2 + d + y
      BY <1>3, <2>7, <2>8, <2>9, <2>10, Zenon
    <3> HIDE DEF bal, bal2, bal0, tot, tot2, tot0, made, x, y
    <3>2. bal2 + tot0 = bal0 + tot2 + (made + d) + (x + y)
      BY <2>5, <3>1
    <3> QED BY <2>10, <3>2, Zenon DEF bal, bal2, bal0, tot, tot2, tot0, made, x, y
  <2>12. Congruent(Balances(current') + base["total"],
                   Balances(base) + current'["total"] + Drifted')
    BY <2>6, <2>10, <2>11, Zenon DEF Congruent
  <2>13. Congruent(Balances(current) + base["total"],
                   Balances(base) + current["total"] + Drifted)'
    BY <2>12, Zenon DEF Congruent, Balances
  <2> QED BY <1>6, <2>13, Zenon DEF SupplyInv
<1> QED BY <1>7, <1>8, Zenon

\* A block adds to the balances what it adds to the total, but for the drift of its
\* calls: for every block of JuriaCoin's transactions with any destinations, any
\* accounts and any width (invokeMint, invokeTransfer).
THEOREM SupplyFollowsTotal == Spec => []SupplyIsTotal
<1>1. Init => SupplyInv
  <2> SUFFICES ASSUME Init PROVE SupplyInv
    BY Zenon
  <2>1. ExecInv
    BY InitExec, Zenon
  <2>2. Merged = {} /\ errors = {}
    BY DEF Merged, Init
  <2>3. Drifted = 0
    <3>1. PICK f : SumsOf([t \in {} |-> Drift(Block[t])], {}, f)
                   /\ SumFunctionOnSet([t \in {} |-> Drift(Block[t])], {}) = f[{}]
      BY FS_EmptySet, SumUnfolds, Zenon
    <3>2. f[{}] = 0
      BY <3>1, Zenon DEF SumsOf, Sums, Added
    <3> QED BY <2>2, <3>1, <3>2, Zenon DEF Drifted, SumFunction
  <2>4. current = base
    BY <2>1, Zenon DEF Init, current, Over, NoKeys, ExecInv, TypeOK, State
  <2>5. Balances(base) \in Int /\ base["total"] \in Int /\ Modulus \in Int
    BY <2>1, SupplyTypes, BalanceTypes, CoinAssumption
  <2>6. Balances(current) + base["total"]
          = Balances(base) + current["total"] + Drifted + 0 * Modulus
    BY <2>3, <2>4, <2>5
  <2> QED BY <2>2, <2>6 DEF SupplyInv, Congruent
<1>2. ExecInv /\ ExecInv' /\ SupplyInv /\ [Next]_blkvars => SupplyInv'
  <2> SUFFICES ASSUME ExecInv, ExecInv', SupplyInv, [Next]_blkvars PROVE SupplyInv'
    BY Zenon
  <2>1. base' = base /\ [Serial!SerialNext]_Serial!serialvars
    BY BaseStays, NextExec, Zenon
  <2>2. CASE Serial!SerialNext
    BY <2>1, <2>2, SupplyStep, Zenon
  <2>3. CASE UNCHANGED Serial!serialvars
    <3>1. current' = current /\ errors' = errors /\ mergeIdx' = mergeIdx
      BY <2>3, Zenon DEF Serial!serialvars
    <3>2. Merged' = Merged
      BY <3>1, Zenon DEF Merged
    <3>3. Drifted' = Drifted
      BY <3>2, Zenon DEF Drifted
    <3> QED BY <2>1, <3>1, <3>3, Zenon DEF SupplyInv, Congruent, Balances
  <2> QED BY <2>1, <2>2, <2>3, Zenon
<1>3. ExecInv /\ SupplyInv => SupplyIsTotal
  <2> SUFFICES ASSUME ExecInv, SupplyInv PROVE SupplyIsTotal
    BY Zenon
  <2>1. /\ Balances(base) \in Int /\ Balances(current) \in Int /\ Drifted \in Int
        /\ base["total"] \in Int /\ current["total"] \in Int
    BY SupplyTypes, BalanceTypes, Zenon
  <2>2. (Balances(current) + base["total"]) % Modulus
          = (Balances(base) + current["total"] + Drifted) % Modulus
    BY <2>1, CongruentIsEqual DEF SupplyInv
  <2> QED BY <2>2, Zenon DEF SupplyIsTotal, Balances, Drifted
<1> QED BY <1>1, <1>2, <1>3, ExecInvariant, PTL DEF Spec

=============================================================================
