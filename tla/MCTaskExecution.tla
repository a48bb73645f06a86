-------------------------- MODULE MCTaskExecution --------------------------
(* Instances of TaskExecution for TLC: x1 submits a request and x2 submits the *)
(* same request again, with the same payload.                                 *)
EXTENDS TaskExecution

CONSTANTS t1, x1, x2, build, read

OneTask == {t1}
Retry == {x1, x2}
BuildTools == {build}
ReadTools == {read}

AllTaskOf == [x \in Execs |-> t1]
AllPayloadOf == [x \in Execs |-> "same"]

============================================================================
