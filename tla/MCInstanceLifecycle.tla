------------------------- MODULE MCInstanceLifecycle -------------------------
EXTENDS InstanceLifecycle, TLC

\* Callers are interchangeable, and so are instances and engine objects.
Symmetry == Permutations(Caller) \cup Permutations(Instance) \cup Permutations(Engine)
=============================================================================
