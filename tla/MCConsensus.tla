---------------------------- MODULE MCConsensus ----------------------------
(* Module Consensus on two validators, for TLC. *)
EXTENDS Consensus

CONSTANTS
  MaxBlocks,      \* bound: blocks created, genesis included
  MaxUndelivered  \* bound: proposals waiting in one inbox

\* One schedule that goes on when there are MaxBlocks: node 1 led, proposed two blocks and
\* restarted, and node 0, which holds these, leads again and commits a branch of its own.
Detour ==
  LET Of(p) == {b \in Blocks \ {Genesis} : b.proposer = p}
  IN /\ changes = 1 /\ restarts = 1 /\ leader = [n \in Node |-> 0]
     /\ {b.height : b \in Of(1)} = {1, 2} /\ Cardinality(Of(1)) = 2
     /\ \A a, b \in Of(0) : a.height = b.height => a = b
     /\ bExec[0] = Genesis => Of(1) \subseteq known[0]
     /\ newViews = {[to |-> 1, qc |-> Genesis]} /\ inbox[0] = {}
     /\ \A n \in Node : handling[n] = {}

Small ==
  /\ Cardinality(Blocks) <= MaxBlocks \/ Detour
  /\ \A n \in Node : Cardinality(inbox[n]) <= MaxUndelivered

-----------------------------------------------------------------------------
(* One schedule of leaders out of the many, which keeps the search for a fork *)
(* short: the lead goes to and fro three times, and each leader goes on from  *)
(* the highest certificate of its own blocks.                                 *)

\* The blocks in the order of their creation: height and proposer.
Schedule == << <<1, 0>>, <<1, 1>>, <<2, 1>>, <<2, 0>>, <<3, 0>>, <<3, 1>>, <<4, 1>>, <<4, 0>> >>

\* How many view changes there may have been when so many blocks are there.
ChangesAt == << {0}, 0 .. 2, {2}, 2 .. 4, {4}, 4 .. 6, {6}, {6}, {6} >>

Created(k) == \E b \in Blocks : <<b.height, b.proposer>> = Schedule[k]

Guide ==
  /\ \A k \in DOMAIN Schedule \ {1} : Created(k) => Created(k - 1)
  /\ \A n \in Node : handling[n] = {}
  /\ \A n \in Node : qcHigh[n] # Genesis => qcHigh[n].proposer = n
  /\ changes \in ChangesAt[Cardinality(Blocks)]

=============================================================================
