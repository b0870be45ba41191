--------------------------- MODULE MCCommandOutbox ---------------------------
EXTENDS CommandOutbox, TLC

\* Opportunities are interchangeable; commands are ordered and are not.
Symmetry == Permutations(Opportunities)
=============================================================================
