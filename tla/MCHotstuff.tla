----------------------------- MODULE MCHotstuff -----------------------------
(***************************************************************************)
(* Instances of Hotstuff for TLC.  Nodes are model values; the nodes that  *)
(* may lead are interchangeable.                                           *)
(***************************************************************************)
EXTENDS Hotstuff, TLC

CONSTANT MaxBlocks   \* bound: blocks created, genesis included

Sym == Permutations(Proposer)

Small == Tolerated /\ Cardinality(Blocks) <= MaxBlocks

=============================================================================
