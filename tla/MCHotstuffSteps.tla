-------------------------- MODULE MCHotstuffSteps ---------------------------
EXTENDS HotstuffSteps, TLC

Sym == Permutations(Voter \ {Me})
=============================================================================
