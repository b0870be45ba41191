-------------------------- MODULE MCOutboundReplies --------------------------
EXTENDS OutboundReplies, TLC

\* Processes are interchangeable, and so are keys.
Symmetry == Permutations(Procs) \cup Permutations(Keys)
=============================================================================
