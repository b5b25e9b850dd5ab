---------------------------- MODULE MCWorkerLease ----------------------------
EXTENDS WorkerLease, TLC

\* Process runs are interchangeable, and so are instances.
Symmetry == Permutations(Worker) \cup Permutations(Instance)
=============================================================================
