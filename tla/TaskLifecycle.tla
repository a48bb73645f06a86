--------------------------- MODULE TaskLifecycle ---------------------------
(***************************************************************************)
(* What durable task execution promises about one conversation's tasks,    *)
(* whatever threads, timeouts and restarts happen underneath: a task is    *)
(* admitted once, begins at most once, is closed at most once and stays as *)
(* it was closed; and once a Stop is recorded the task never completes.    *)
(***************************************************************************)
CONSTANT Tasks

VARIABLES
  life,     \* "absent", "admitted", "running" or how the task was closed
  stopped   \* a Stop of the task is on record

Closed == {"completed", "failed", "unknown"}

Init ==
  /\ life = [t \in Tasks |-> "absent"]
  /\ stopped = [t \in Tasks |-> FALSE]

Admit(t) ==
  /\ life[t] = "absent"
  /\ life' = [life EXCEPT ![t] = "admitted"]
  /\ UNCHANGED stopped

Begin(t) ==
  /\ life[t] = "admitted"
  /\ life' = [life EXCEPT ![t] = "running"]
  /\ UNCHANGED stopped

Stop(t) ==
  /\ life[t] \in {"admitted", "running"}
  /\ stopped' = [stopped EXCEPT ![t] = TRUE]
  /\ UNCHANGED life

Close(t, status) ==
  /\ life[t] \in {"admitted", "running"}
  /\ status \in {"completed", "failed"} => life[t] = "running" /\ ~stopped[t]
  /\ life' = [life EXCEPT ![t] = status]
  /\ UNCHANGED stopped

Next ==
  \E t \in Tasks :
    \/ Admit(t)
    \/ Begin(t)
    \/ Stop(t)
    \/ \E status \in Closed : Close(t, status)

Spec == Init /\ [][Next]_<<life, stopped>>

============================================================================
