--------------------------- MODULE MCBlkExecutor ---------------------------
(* Module CoinBlock on a block of five transactions, for TLC. *)
EXTENDS CoinBlock

\* The keys of the code are shorter than a balance.
MCId(k) == IF k = "a" THEN 5 ELSE IF k = "b" THEN 6 ELSE -1

\* A chain of which each depends on the ones before: the code is deployed, its
\* minter mints, the owner of the coin sends it to themselves and one of the two it is
\* now to the total, and somebody else becomes the minter.
MCBlock ==
  << [method |-> "deploy", sender |-> "a", code |-> JuriaCoinCode],
     [method |-> "mint", sender |-> "a", dest |-> "b", value |-> 1],
     [method |-> "transfer", sender |-> "b", dest |-> "b", value |-> 1],
     [method |-> "transfer", sender |-> "b", dest |-> "total", value |-> 1],
     [method |-> "setMinter", sender |-> "a", dest |-> "b", value |-> 0] >>

MCKey == RegistryKeys
MCValue == Stored
MCAsks(t, v) == TxAsks(Block[t], v)
MCOutcome(t, v) == executeChaincode(Block[t], v)

\* Nothing is deployed yet.
MCInitial == {[k \in Key |-> 0]}

=============================================================================
