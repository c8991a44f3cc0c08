------------------------------ MODULE Chaincode ------------------------------
(***************************************************************************)
(* The transactions of one block as the executor sees them: programs that  *)
(* read keys of the state one after the other, then fail or set some keys  *)
(* (execution/chaincode, execution/tx_executer.go).                        *)
(***************************************************************************)
EXTENDS Naturals

CONSTANTS
  Key, Value,      \* of the state
  TxCount,         \* transactions in the block, counted from 1
  Slow,            \* the ones that may run into TxExecTimeout
  Asks(_, _),      \* Asks(t, v): the keys t may read next, having read v
  Outcome(_, _)    \* Outcome(t, v): how t ends when it has read all it needs

Tx == 1 .. TxCount
State == [Key -> Value]

\* Values of some of the keys: what a transaction has read, or what it sets.
Partial == UNION {[K -> Value] : K \in SUBSET Key}

Result == [error : BOOLEAN, changes : Partial]

ReadOf(s, K) == [k \in K |-> s[k]]

ASSUME CountAssumption == TxCount \in Nat /\ Slow \subseteq Tx

\* A chaincode is deterministic: what it does next depends on nothing but what it
\* has read.
ASSUME ChaincodeAssumption ==
  \A t \in Tx, s \in State :
    /\ Outcome(t, s) \in Result
    /\ \A K \in SUBSET Key :
         Asks(t, ReadOf(s, K)) = {} => Outcome(t, ReadOf(s, K)) = Outcome(t, s)

NoKeys == [k \in {} |-> 0]

\* executeWithTimeout: "tx execution timeout".
TimedOut == [error |-> TRUE, changes |-> NoKeys]

\* What executing t on state s may return.
Results(t, s) == {Outcome(t, s)} \cup (IF t \in Slow THEN {TimedOut} ELSE {})

\* stateTracker.getState: the changes c on top of the state below.
Over(c, s) == [k \in DOMAIN s |-> IF k \in DOMAIN c THEN c[k] ELSE s[k]]

=============================================================================
