----------------------------- MODULE MCHubView -----------------------------
(* A candidate that is prepared, reviewed or applied, and acted on again,   *)
(* or undone and applied a second time; a check that is repeated and        *)
(* superseded, or followed by another; a watch beside a task of the user;   *)
(* and two faults.                                                          *)
EXTENDS HubView
MCSessions ==
  {<<"fix", a, b>> : a \in {"diff", "apply"}, b \in Actions}
    \cup {<<"fix", "apply", "undo", "apply">>}
    \cup {<<"run-tests", "run-tests">>, <<"run-tests", "run-build">>, <<"watch", "run-build">>,
          <<"ask", "run-build">>}
MCChecks == {<<"run-build">>, <<"run-tests", "run-tests">>}
=============================================================================
