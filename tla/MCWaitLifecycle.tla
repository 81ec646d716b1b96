-------------------------- MODULE MCWaitLifecycle ---------------------------
EXTENDS WaitLifecycle, TLC

Symmetry == Permutations(Requests) \cup Permutations(Callers) \cup Permutations(Sweepers)
=============================================================================
