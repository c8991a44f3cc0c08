----------------------------- MODULE MCStorage ------------------------------
EXTENDS Storage

\* One transaction sets a key of each of the others, and the tree grows by one
\* leaf, by two and by three.
MCSets == [t \in Tx |-> IF t = 1 THEN {2} ELSE IF t = 2 THEN {1, 3} ELSE {2, 4}]
=============================================================================
