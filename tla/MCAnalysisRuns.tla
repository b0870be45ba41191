--------------------------- MODULE MCAnalysisRuns ---------------------------
EXTENDS AnalysisRuns, TLC

\* Messages, runs and processes are interchangeable.
Symmetry == Permutations(Messages) \cup Permutations(Runs) \cup Permutations(Procs)
=============================================================================
