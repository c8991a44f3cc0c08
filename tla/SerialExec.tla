----------------------------- MODULE SerialExec -----------------------------
(***************************************************************************)
(* What executing a block promises: its transactions take effect one after *)
(* the other, in the order of the block, each on the state its predecessor *)
(* left, and a transaction that fails changes nothing.  Module BlkExecutor *)
(* (execution/blk_executer.go) runs them concurrently and implements this. *)
(***************************************************************************)
EXTENDS Chaincode

VARIABLES
  state,   \* the state after the transactions executed so far
  errors,  \* the ones that failed
  count    \* how many were executed

serialvars == <<state, errors, count>>

ExecuteTx(r) ==
  /\ count' = count + 1
  /\ errors' = IF r.error THEN errors \cup {count + 1} ELSE errors
  /\ state' = IF r.error THEN state ELSE Over(r.changes, state)

SerialInit == state \in State /\ errors = {} /\ count = 0
SerialNext == count < TxCount /\ \E r \in Results(count + 1, state) : ExecuteTx(r)
SerialSpec == SerialInit /\ [][SerialNext]_serialvars

=============================================================================
