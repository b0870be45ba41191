----------------------------- MODULE MCSyncFeed -----------------------------
EXTENDS SyncFeed, TLC

\* Transactions are interchangeable; aggregates are ordered and are not.
Symmetry == Permutations(Writers)
=============================================================================
