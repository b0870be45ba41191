-------------------------- MODULE MCDeviceSessions --------------------------
EXTENDS DeviceSessions, TLC

\* Tasks are interchangeable.
Symmetry == Permutations(Tasks)
=============================================================================
