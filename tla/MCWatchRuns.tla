----------------------------- MODULE MCWatchRuns -----------------------------
(* Instances of WatchRuns for TLC. *)
EXTENDS WatchRuns

CONSTANTS r1, r2, h1, e1, e2
TwoRuns == {r1, r2}
OneHub == {h1}
TwoEditors == {e1, e2}
TwoRevisions == {1, 2}
TwoFields == {"rev", "enabled"}
Created == {TRUE}
=============================================================================
