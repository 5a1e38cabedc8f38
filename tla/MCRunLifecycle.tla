--------------------------- MODULE MCRunLifecycle ---------------------------
EXTENDS RunLifecycle, TLC

Symmetry == Permutations(Callers) \cup Permutations(Args)
=============================================================================
