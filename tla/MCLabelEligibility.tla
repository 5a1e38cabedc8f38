------------------------- MODULE MCLabelEligibility -------------------------
EXTENDS LabelEligibility, TLC

AllFraud == [a \in Alerts |-> "RESOLVED_FRAUD"]

RunSymmetry  == Permutations(Runs)
FullSymmetry == Permutations(Runs) \cup Permutations(Tickets)
=============================================================================
