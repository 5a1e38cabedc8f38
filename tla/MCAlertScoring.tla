--------------------------- MODULE MCAlertScoring ---------------------------
EXTENDS AlertScoring, TLC

CONSTANTS b1, v1, v2

\* b1 pins the first policy version, every other bundle the second.
PinsDiffer == [b \in Bundles |-> IF b = b1 THEN v1 ELSE v2]

\* Only the first alert is ever disposed of, and only it is ever scored High:
\* the others fill the list of a run, and are scored Low or not at all.
OnlyFirstVaries ==
    /\ \A s \in SourceAlerts \ {1} : alert[s].status \in {"ABSENT", "OPEN"}
    /\ \A e \in evidence : e.alert = 1 \/ e.band # High

RunSymmetry == Permutations(Runs)
=============================================================================
