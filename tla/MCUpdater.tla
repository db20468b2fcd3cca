----------------------------- MODULE MCUpdater -----------------------------
(* Instances of Updater for TLC: the releases and what they need.          *)
EXTENDS Updater

v1 == [version |-> 1, rc |-> 0]
v2rc == [version |-> 2, rc |-> 1]
v2 == [version |-> 2, rc |-> 0]

ThreeReleases == {v1, v2rc, v2}
JustV2 == {v2}
TwoReleases == {v1, v2}
NoReleases == {}

\* The unit changes with the candidate and the dependencies with the final release.
NewUnit == [r \in ThreeReleases |-> IF r = v1 THEN "unit1" ELSE "unit2"]
NewRequirements == [r \in ThreeReleases |-> IF r = v2 THEN "new" ELSE "old"]
OneRequirements == [r \in ThreeReleases |-> "old"]
=============================================================================
