--------------------------- MODULE MCSuspendTracker ---------------------------
(* Instances of SuspendTracker: one package and two operations on it.      *)
EXTENDS SuspendTracker

CONSTANTS j1, j2, p1, c1, c2

MCJobs == {j1, j2}
OnePackage == [j \in MCJobs |-> p1]

\* The package has a card in each of two groups.
TwoCards == [j \in MCJobs |-> IF j = j1 THEN c1 ELSE c2]

\* Both operations are on one card.
OneCard == [j \in MCJobs |-> c1]
==============================================================================
