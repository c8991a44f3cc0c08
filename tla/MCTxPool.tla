------------------------------ MODULE MCTxPool ------------------------------
EXTENDS TxPool, TLC

Sym == Permutations(Tx)
=============================================================================
