----------------------------- MODULE MCGenesis -----------------------------
(* Module Genesis for TLC. *)
EXTENDS Genesis, TLC

CONSTANTS
  LeftOut,      \* the follower whose vote is not needed; followers are alike
  MaxFetches    \* bound: nodes that fetch the block and genesis blocks, together

Sym == Permutations(Node \ {Leader})

\* Nothing is claimed of a behaviour with a late certificate, and what the nodes do is
\* the same whoever's vote another certificate leaves out.
OnTime == ~late /\ (Full(votes) => votes[LeftOut] = None)

Small == Cardinality(fetching \cup fetched) + created <= MaxFetches
=============================================================================
