-------------------------- MODULE MCStreamConsumer --------------------------
EXTENDS StreamConsumer, TLC

SessionSymmetry == Permutations(Sessions)
=============================================================================
