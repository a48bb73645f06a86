---------------------------- MODULE MCWorkerLoop ----------------------------
(* The instance of WorkerLoop that TLC checks: one file, which the worker    *)
(* creates and anybody may rewrite, so it has up to three contents.          *)
EXTENDS WorkerLoop

OneFile == {"src"}
OneText == {1}
OneProfile == {"debug"}
\* "fix-test" differs from "change" only as "fix-build" does.
MostModes == AllModes \ {"fix-test"}
=============================================================================
