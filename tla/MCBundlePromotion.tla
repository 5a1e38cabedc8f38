-------------------------- MODULE MCBundlePromotion --------------------------
EXTENDS BundlePromotion, TLC

CONSTANT ch1

OneChannel == [b \in Bundles |-> ch1]

\* All bundles of the channel are alike.
FullSymmetry == Permutations(Attempts) \cup Permutations(Bundles)
=============================================================================
