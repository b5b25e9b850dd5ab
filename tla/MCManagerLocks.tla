---------------------------- MODULE MCManagerLocks ----------------------------
EXTENDS ManagerLocks, TLC

\* Callers are interchangeable, and so are instances with their workers.
Symmetry == Permutations(Caller) \cup Permutations(Worker)
=============================================================================
