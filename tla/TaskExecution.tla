--------------------------- MODULE TaskExecution ---------------------------
(***************************************************************************)
(* Durable execution of the tasks of one Session Hub conversation          *)
(* (session/cancellable_task_executor.py, cancellation_runtime.py,         *)
(* session_event_service.py, session_store.py, terminal_truth.py,          *)
(* durable_activity.py, durable_tool_registry.py).                         *)
(*                                                                         *)
(* Actors: the worker thread of each submit call, the UI thread that asks  *)
(* for Stop, the start-up code that recovers old tasks, and the single     *)
(* writer thread that applies queued commands to the SQLite store in FIFO  *)
(* order.  A caller waits for the receipt of its command; a wait that      *)
(* times out leaves the command in the queue.  A crash keeps the store and *)
(* the processes that tools started, and loses everything else.            *)
(*                                                                         *)
(* Every admission carries execution epoch 0, so a fence is 0 or, once     *)
(* Stop advanced it, 1.  The store's reads are taken not to fail.          *)
(***************************************************************************)
EXTENDS Naturals, Sequences, FiniteSets

CONSTANTS
  Tasks,          \* task ids (one per request id)
  Execs,          \* submit calls, each with the thread it starts
  TaskOf,         \* Execs -> Tasks
  PayloadOf,      \* Execs -> the payload digests submitted
  SpawningTools,  \* tools that run configured commands
  QuietTools,     \* tools that start no process
  MaxCalls,       \* tool calls one controller run attempts
  QueueLimit,     \* command_capacity
  MaxFaults,      \* failed or timed-out writes per behaviour
  MaxStops,       \* Stop requests per behaviour
  MaxOpens,       \* times the conversation is opened again
  SerialTurns,    \* submit only after the previous handle is done
  Stopper, Recovery, \* the UI thread and the start-up code as callers
  None

Tools == SpawningTools \cup QuietTools
Callers == Execs \cup {Stopper, Recovery}
Calls == Tasks \X (0 .. MaxCalls) \X Tools
Epoch == 0

ASSUME ConstantsAssumption ==
  /\ TaskOf \in [Execs -> Tasks]
  /\ DOMAIN PayloadOf = Execs
  /\ MaxCalls \in Nat
  /\ QueueLimit \in Nat \ {0}
  /\ MaxFaults \in Nat
  /\ MaxStops \in Nat
  /\ MaxOpens \in Nat
  /\ SerialTurns \in BOOLEAN
  /\ Stopper \notin Execs
  /\ Recovery \notin Execs \cup {Stopper}
  /\ None \notin Execs \cup {Stopper} \cup Calls
  /\ SpawningTools \cap QuietTools = {}

VARIABLES
  \* SQLiteSessionStore: survives a crash
  state,     \* tasks.state: "absent" when there is no row
  digest,    \* tasks.payload_sha256, as the execution it was admitted for
  log,       \* events of the task, in commit order
  \* DurableSessionService
  queue,     \* _commands
  receipt,   \* the WriteReceipt each caller last waited for
  phase,     \* "open", "recovering", "closing" or "down"
  todo,      \* tasks recover_unknown_tasks has still to close
  \* CancellationRuntime and the executor
  registered, \* _registered_tasks, also the keys of CancellationRuntime._tasks
  fence,      \* EpochFence of the registered task
  lock,       \* holder of _authority_lock
  \* worker threads
  pc,        \* where the thread of the execution is
  owns,      \* owns_registration
  result,    \* what controller.run returned
  via,       \* which handler is finalizing
  handle,    \* TaskHandle: how the submit call is answered
  call,      \* the tool call the controller is making
  ordinal,   \* DurableToolActivity._ordinal
  open,      \* DurableToolActivity._open is set
  \* outside the program, and bounds
  live,      \* tool calls that have a process running
  entered,   \* executions that called controller.run
  attempts, faults, stops, opens

store   == <<state, digest, log>>
service == <<queue, receipt, phase, todo>>
authority == <<registered, fence, lock>>
thread  == <<pc, owns, result, via, handle>>
activity == <<call, ordinal, open>>
bounds  == <<attempts, faults, stops, opens>>
vars == <<store, service, authority, thread, activity, live, entered, bounds>>

-----------------------------------------------------------------------------
(* Vocabulary.                                                             *)

Results  == {"completed", "failed"}
Terminal == Results \cup {"unknown"}
Cleanups == {"not_needed", "confirmed", "attempted", "unknown"}

\* How a tool call ended.  "ok": executed; "not_started": a failure record with
\* process_started False; "timeout": the runner gave up on the command;
\* "stopped" and "unsettled": interrupted by Stop, with and without the
\* runner's confirmation that the process tree is gone; "broke": any other
\* failure.
Ends == {"ok", "not_started", "timeout", "stopped", "unsettled", "broke"}

Reasons == {"worker", "cleanup_unknown", "controller_fault", "cancelled",
            "cancel_unreconciled", "controller_restarted"}

\* Program points at which a thread has no more to do, or has not started.
Idle == {"new", "done", "lost"}

\* Program points at which the thread waits for a receipt.
Waits == {"admission", "start_wait", "tool_start", "tool_finish", "tool_last",
          "final"}

PCs == Idle \cup Waits \cup
  {"register", "start", "enter", "controller", "tool", "tool_run", "returned",
   "commit", "fault", "stale", "failing", "fault_release", "stale_release"}

Event(kind) ==
  [kind |-> kind, call |-> None, end |-> "none", status |-> "none",
   cleanup |-> "none", reason |-> "none"]

StartedEvent(c) == [Event("started") EXCEPT !.call = c]

FinishedEvent(c, e) == [Event("finished") EXCEPT !.call = c, !.end = e]

ClosedEvent(status, cleanup, reason) ==
  [Event("closed") EXCEPT !.status = status, !.cleanup = cleanup,
                          !.reason = reason]

Has(t, kind) == \E i \in DOMAIN log[t] : log[t][i].kind = kind

Unterminated == {t \in Tasks : state[t] \notin {"absent"} \cup Terminal}

-----------------------------------------------------------------------------
(* Terminal truth: cleanup as the committed tool events show it.           *)

StartedCalls(t) ==
  {log[t][i].call : i \in {j \in DOMAIN log[t] : log[t][j].kind = "started"}}

\* Ends recorded for c after its last start: the last of them counts.
LastEnd(t, c) ==
  LET marks == {i \in DOMAIN log[t] : log[t][i].call = c}
      last  == CHOOSE i \in marks : \A j \in marks : j <= i
  IN  log[t][last].end

OpenCalls(t) == {c \in StartedCalls(t) : LastEnd(t, c) = "none"}

\* Calls that may have left a process: those of spawning tools without a
\* record that nothing was started.
ProcessCalls(t) ==
  {c \in StartedCalls(t) : /\ c[3] \in SpawningTools
                           /\ LastEnd(t, c) # "not_started"}

ProcessEnds(t) == {LastEnd(t, c) : c \in ProcessCalls(t)}

\* Mutant: a command that timed out counts as confirmed gone.
CleanupTrustsTimeout(t) ==
  LET ends == ProcessEnds(t)
  IN  IF "none" \in ends THEN "unknown"
      ELSE IF ends \subseteq {"ok"} THEN "not_needed"
      ELSE IF ends \subseteq {"ok", "stopped", "timeout"} THEN "confirmed"
      ELSE "attempted"

Cleanup(t) ==
  LET ends == ProcessEnds(t)
  IN  IF "none" \in ends THEN "unknown"
      ELSE IF ends \subseteq {"ok"} THEN "not_needed"
      ELSE IF ends \subseteq {"ok", "stopped"} THEN "confirmed"
      ELSE IF ends \cap {"timeout", "stopped", "unsettled"} # {} THEN "attempted"
      ELSE "unknown"

-----------------------------------------------------------------------------
(* Small steps the handlers are made of.                                   *)

Init ==
  /\ state = [t \in Tasks |-> "absent"]
  /\ digest = [t \in Tasks |-> None]
  /\ log = [t \in Tasks |-> <<>>]
  /\ queue = <<>>
  /\ receipt = [a \in Callers |-> "none"]
  /\ phase = "open"
  /\ todo = {}
  /\ registered = {}
  /\ fence = [t \in Tasks |-> Epoch]
  /\ lock = None
  /\ pc = [x \in Execs |-> "new"]
  /\ owns = [x \in Execs |-> FALSE]
  /\ result = [x \in Execs |-> "none"]
  /\ via = [x \in Execs |-> "none"]
  /\ handle = [x \in Execs |-> "none"]
  /\ call = [x \in Execs |-> None]
  /\ ordinal = [x \in Execs |-> 0]
  /\ open = [x \in Execs |-> FALSE]
  /\ live = {}
  /\ entered = {}
  /\ attempts = [x \in Execs |-> 0]
  /\ faults = 0
  /\ stops = 0
  /\ opens = 0

Go(x, p) == pc' = [pc EXCEPT ![x] = p]

\* Queue a command and wait for its receipt.  A put refused by a full queue
\* raises where the wait would have raised a failed write.
Put(a, t, ev) ==
  IF Len(queue) < QueueLimit
  THEN /\ queue' = Append(queue, [task |-> t, ev |-> ev, by |-> a, waited |-> TRUE])
       /\ receipt' = [receipt EXCEPT ![a] = "pending"]
  ELSE /\ receipt' = [receipt EXCEPT ![a] = "error"]
       /\ UNCHANGED queue

Stopped(t) == fence[t] # Epoch

\* require_dispatch_authority: refused for an unregistered task, stale after Stop.
Registered(x) == TaskOf[x] \in registered
HasAuthority(x) == Registered(x) /\ ~Stopped(TaskOf[x])

\* _release_registration(task, epoch) raises StaleExecutionEpoch after Stop.
ReleaseIsStale(x) == owns[x] /\ Registered(x) /\ Stopped(TaskOf[x])

Release(x) == registered' = IF owns[x] THEN registered \ {TaskOf[x]} ELSE registered

\* A thread that lost its authority: unregistered ends in error, stale is
\* finalized by the StaleExecutionEpoch handler.
Refused(x) ==
  /\ ~HasAuthority(x)
  /\ Go(x, IF Registered(x) THEN "stale" ELSE "failing")
  /\ handle' = [handle EXCEPT ![x] = IF Registered(x) THEN @ ELSE "error"]

-----------------------------------------------------------------------------
(* Submission and start.                                                   *)

TurnFree(x) == \A y \in Execs : pc[y] \in Idle

\* submit: queue the admission.  A full queue raises in the submit call itself.
Submit(x) ==
  /\ phase = "open"
  /\ pc[x] = "new"
  /\ SerialTurns => TurnFree(x)
  /\ Put(x, TaskOf[x], Event("admitted"))
  /\ IF Len(queue) < QueueLimit
     THEN Go(x, "register") /\ UNCHANGED handle
     ELSE Go(x, "done") /\ handle' = [handle EXCEPT ![x] = "error"]
  /\ UNCHANGED <<store, phase, todo, authority, owns, result, via, activity,
                 live, entered, bounds>>

\* submit, after the put: _register_once, then the thread starts.
RegisterOnce(x) ==
  LET t == TaskOf[x]
  IN  /\ pc[x] = "register"
      /\ owns' = [owns EXCEPT ![x] = t \notin registered]
      /\ registered' = registered \cup {t}
      /\ fence' = IF t \in registered THEN fence ELSE [fence EXCEPT ![t] = Epoch]
      /\ Go(x, "admission")
      /\ UNCHANGED <<store, service, lock, result, via, handle,
                     activity, live, entered, bounds>>

AdmissionWaited(x) ==
  /\ pc[x] = "admission"
  /\ \/ /\ receipt[x] = "ok"
        /\ Go(x, "start")
        /\ UNCHANGED <<handle, registered>>
     \/ /\ receipt[x] = "duplicate"
        /\ handle' = [handle EXCEPT ![x] = "duplicate"]
        /\ IF ReleaseIsStale(x)
           THEN Go(x, "stale") /\ UNCHANGED registered
           ELSE Go(x, "done") /\ Release(x)
     \/ /\ receipt[x] = "error"
        /\ handle' = [handle EXCEPT ![x] = "error"]
        /\ Go(x, "failing")
        /\ UNCHANGED registered
  /\ UNCHANGED <<store, service, fence, lock, owns, result, via,
                 activity, live, entered, bounds>>

\* The authority lock, a check, and the append of task.state_changed.
Start(x) ==
  /\ pc[x] = "start"
  /\ lock = None
  /\ \/ /\ Refused(x)
        /\ UNCHANGED <<queue, receipt, lock>>
     \/ /\ HasAuthority(x)
        /\ lock' = x
        /\ Put(x, TaskOf[x], Event("running"))
        /\ Go(x, "start_wait")
        /\ UNCHANGED handle
  /\ UNCHANGED <<store, phase, todo, registered, fence, owns, result,
                 via, activity, live, entered, bounds>>

\* set_site needs the registration; Stop cannot have intervened under the lock.
StartWaited(x) ==
  /\ pc[x] = "start_wait"
  /\ receipt[x] # "pending"
  /\ lock' = None
  /\ IF receipt[x] = "ok" /\ Registered(x)
     THEN Go(x, "enter") /\ UNCHANGED handle
     ELSE Go(x, "failing") /\ handle' = [handle EXCEPT ![x] = "error"]
  /\ UNCHANGED <<store, service, registered, fence, owns, result,
                 via, activity, live, entered, bounds>>

\* controller.run looks its cancellation token up before any work.
EnterController(x) ==
  /\ pc[x] = "enter"
  /\ entered' = entered \cup {x}
  /\ Go(x, IF Registered(x) THEN "controller" ELSE "fault")
  /\ UNCHANGED <<store, service, authority, owns, result, via, handle, activity,
                 live, bounds>>

-----------------------------------------------------------------------------
(* The controller: tool calls bracketed by durable events.                 *)

\* start_tool: refused while an earlier call is open; the call id is made of
\* the ordinal, which only a committed start advances.
StartTool(x, k) ==
  LET c == <<TaskOf[x], ordinal[x], k>>
  IN  /\ pc[x] = "controller"
      /\ attempts[x] < MaxCalls
      /\ ~open[x]
      /\ attempts' = [attempts EXCEPT ![x] = @ + 1]
      /\ call' = [call EXCEPT ![x] = c]
      /\ Put(x, TaskOf[x], StartedEvent(c))
      /\ Go(x, "tool_start")
      /\ UNCHANGED <<store, phase, todo, authority, owns, result, via, handle,
                     ordinal, open, live, entered, faults, stops, opens>>

\* Mutant: the handler runs although its start was not recorded.
ToolStartIgnored(x) ==
  /\ pc[x] = "tool_start"
  /\ receipt[x] # "pending"
  /\ open' = [open EXCEPT ![x] = TRUE]
  /\ ordinal' = [ordinal EXCEPT ![x] = @ + 1]
  /\ Go(x, "tool")
  /\ UNCHANGED <<store, service, authority, owns, result, via, handle, call,
                 live, entered, bounds>>

\* The orchestrator turns a failed start into a tool error and goes on.
ToolStartWaited(x) ==
  /\ pc[x] = "tool_start"
  /\ \/ /\ receipt[x] = "ok"
        /\ open' = [open EXCEPT ![x] = TRUE]
        /\ ordinal' = [ordinal EXCEPT ![x] = @ + 1]
        /\ Go(x, "tool")
     \/ /\ receipt[x] = "error"
        /\ Go(x, "controller")
        /\ UNCHANGED <<open, ordinal>>
  /\ UNCHANGED <<store, service, authority, owns, result, via, handle, call,
                 live, entered, bounds>>

\* run_configured: a command is spawned unless Stop was requested first.
Spawn(x) ==
  /\ pc[x] = "tool"
  /\ call[x][3] \in SpawningTools
  /\ ~Stopped(TaskOf[x])
  /\ live' = live \cup {call[x]}
  /\ Go(x, "tool_run")
  /\ UNCHANGED <<store, service, authority, owns, result, via, handle, activity,
                 entered, bounds>>

\* finish_tool queues tool.finished and waits.  A finish that cannot be recorded
\* is tried once more, as an internal error, when the handler had returned a
\* result ("tool_finish"); not when it raised ("tool_last").
Finish(x, end, p) ==
  /\ Put(x, TaskOf[x], FinishedEvent(call[x], end))
  /\ Go(x, p)
  /\ UNCHANGED <<store, phase, todo, authority, owns, result, via, handle,
                 activity, entered, bounds>>

\* A handler that starts nothing: a quiet tool, or a command refused by
\* validation, by policy or by a Stop seen before the spawn.
HandlerWithoutProcess(x) ==
  /\ pc[x] = "tool"
  /\ \/ call[x][3] \in QuietTools /\ Finish(x, "ok", "tool_finish")
     \/ call[x][3] \in SpawningTools /\ Finish(x, "not_started", "tool_last")
  /\ UNCHANGED live

\* The command runner answers: its tree is gone after "ok" and "stopped" only.
CommandReturns(x, end) ==
  /\ pc[x] = "tool_run"
  /\ live' = IF end = "ok" THEN live \ {call[x]} ELSE live
  /\ Finish(x, end, "tool_finish")

CommandRaises(x, end) ==
  /\ pc[x] = "tool_run"
  /\ end # "broke" => Stopped(TaskOf[x])
  /\ live' = IF end = "stopped" THEN live \ {call[x]} ELSE live
  /\ Finish(x, end, "tool_last")

FinishWaited(x) ==
  /\ pc[x] = "tool_finish"
  /\ \/ /\ receipt[x] = "ok"
        /\ open' = [open EXCEPT ![x] = FALSE]
        /\ Go(x, "controller")
        /\ UNCHANGED <<queue, receipt>>
     \/ /\ receipt[x] = "error"
        /\ Put(x, TaskOf[x], FinishedEvent(call[x], "broke"))
        /\ Go(x, "tool_last")
        /\ UNCHANGED open
  /\ UNCHANGED <<store, phase, todo, authority, owns, result, via, handle, call,
                 ordinal, live, entered, bounds>>

LastFinishWaited(x) ==
  /\ pc[x] = "tool_last"
  /\ receipt[x] # "pending"
  /\ open' = [open EXCEPT ![x] = receipt[x] # "ok"]
  /\ Go(x, "controller")
  /\ UNCHANGED <<store, service, authority, owns, result, via, handle, call,
                 ordinal, live, entered, bounds>>

ControllerReturns(x, r) ==
  /\ pc[x] = "controller"
  /\ result' = [result EXCEPT ![x] = r]
  /\ Go(x, "returned")
  /\ UNCHANGED <<store, service, authority, owns, via, handle, activity, live,
                 entered, bounds>>

\* A programmer error escapes controller.run.
ControllerRaises(x) ==
  /\ pc[x] = "controller"
  /\ Go(x, "fault")
  /\ UNCHANGED <<store, service, authority, owns, result, via, handle, activity,
                 live, entered, bounds>>

\* The first authority check after the controller, without the lock.
CheckReturned(x) ==
  /\ pc[x] = "returned"
  /\ \/ Refused(x)
     \/ HasAuthority(x) /\ Go(x, "commit") /\ UNCHANGED handle
  /\ UNCHANGED <<store, service, authority, owns, result, via, activity, live,
                 entered, bounds>>

-----------------------------------------------------------------------------
(* Finalization.                                                           *)

\* _finalize_result: cleanup is read from the store, a completed result whose
\* cleanup is not reconciled is closed as unknown, and the terminal is queued.
FinalizeResult(x, status, reason, handler) ==
  LET cleanup == Cleanup(TaskOf[x])
      trusted == status # "completed" \/ cleanup \in {"not_needed", "confirmed"}
  IN  /\ Put(x, TaskOf[x],
             ClosedEvent(IF trusted THEN status ELSE "unknown", cleanup,
                         IF trusted THEN reason ELSE "cleanup_unknown"))
      /\ via' = [via EXCEPT ![x] = handler]
      /\ Go(x, "final")
      /\ UNCHANGED <<store, phase, todo, registered, fence, owns,
                     result, activity, live, entered, bounds>>

\* Mutant: authority is not checked again under the lock.
CommitUnchecked(x) ==
  /\ pc[x] = "commit"
  /\ lock = None
  /\ lock' = x
  /\ FinalizeResult(x, result[x], "worker", "result")
  /\ UNCHANGED handle

\* The authority lock and the second check.  A completed result with an open
\* call is refused and closed as a controller fault, still under the lock.
Commit(x) ==
  /\ pc[x] = "commit"
  /\ lock = None
  /\ \/ /\ Refused(x)
        /\ UNCHANGED <<store, service, authority, owns, result, via, activity,
                       live, entered, bounds>>
     \/ /\ HasAuthority(x)
        /\ lock' = x
        /\ IF result[x] = "completed" /\ OpenCalls(TaskOf[x]) # {}
           THEN FinalizeResult(x, "unknown", "controller_fault", "open_call")
           ELSE FinalizeResult(x, result[x], "worker", "result")
        /\ UNCHANGED handle

\* _finalize_controller_fault after controller.run raised: neither lock nor check.
FinalizeControllerFault(x) ==
  /\ pc[x] = "fault"
  /\ FinalizeResult(x, "unknown", "controller_fault", "fault")
  /\ UNCHANGED <<lock, handle>>

\* _finalize_cancel_unreconciled.
FinalizeCancelUnreconciled(x) ==
  LET t == TaskOf[x]
  IN  /\ pc[x] = "stale"
      /\ FinalizeResult(x, "unknown",
           IF Cleanup(t) = "confirmed" /\ OpenCalls(t) = {}
           THEN "cancelled" ELSE "cancel_unreconciled", "stale")
      /\ UNCHANGED <<lock, handle>>

\* The terminal of a result, or of its open call, is settled under the lock.
ResultCommitted(x) ==
  /\ pc[x] = "final"
  /\ via[x] \in {"result", "open_call"}
  /\ receipt[x] # "pending"
  /\ lock' = None
  /\ IF receipt[x] = "ok"
     THEN /\ handle' = [handle EXCEPT ![x] =
                          IF via[x] = "result" THEN "result" ELSE "fault"]
          /\ Release(x)
          /\ Go(x, "done")
     ELSE /\ handle' = [handle EXCEPT ![x] = "write_failed"]
          /\ Go(x, "failing")
          /\ UNCHANGED registered
  /\ UNCHANGED <<store, service, fence, owns, result, via, activity,
                 live, entered, bounds>>

FaultCommitted(x) ==
  /\ pc[x] = "final"
  /\ via[x] = "fault"
  /\ receipt[x] # "pending"
  /\ IF receipt[x] = "ok"
     THEN handle' = [handle EXCEPT ![x] = "fault"] /\ Go(x, "fault_release")
     ELSE handle' = [handle EXCEPT ![x] = "write_failed"] /\ Go(x, "failing")
  /\ UNCHANGED <<store, service, authority, owns, result, via, activity, live,
                 entered, bounds>>

\* Releasing after a Stop raises StaleExecutionEpoch, whose handler finalizes.
FaultRelease(x) ==
  /\ pc[x] = "fault_release"
  /\ IF ReleaseIsStale(x)
     THEN Go(x, "stale") /\ UNCHANGED registered
     ELSE Go(x, "done") /\ Release(x)
  /\ UNCHANGED <<store, service, fence, lock, owns, result, via,
                 handle, activity, live, entered, bounds>>

StaleCommitted(x) ==
  /\ pc[x] = "final"
  /\ via[x] = "stale"
  /\ receipt[x] # "pending"
  /\ handle' = [handle EXCEPT ![x] =
                  IF receipt[x] = "ok" THEN "cancelled" ELSE "write_failed"]
  /\ Go(x, "stale_release")
  /\ UNCHANGED <<store, service, authority, owns, result, via, activity, live,
                 entered, bounds>>

\* The stale handler releases whatever epoch is current.
StaleRelease(x) ==
  /\ pc[x] = "stale_release"
  /\ Release(x)
  /\ Go(x, "done")
  /\ UNCHANGED <<store, service, fence, lock, owns, result, via,
                 handle, activity, live, entered, bounds>>

\* The other handlers release the epoch they ran and ignore a stale one, which
\* leaves the registration behind.
FailRelease(x) ==
  /\ pc[x] = "failing"
  /\ IF ReleaseIsStale(x) THEN UNCHANGED registered ELSE Release(x)
  /\ Go(x, "done")
  /\ UNCHANGED <<store, service, fence, lock, owns, result, via,
                 handle, activity, live, entered, bounds>>

-----------------------------------------------------------------------------
(* The writer thread and the store.                                        *)

\* What the store answers to a command: "ok", "duplicate" or "error".
Answer(c) ==
  LET old == state[c.task]
  IN  CASE c.ev.kind = "admitted" ->
             IF old = "absent" THEN "ok"
             ELSE IF PayloadOf[digest[c.task]] = PayloadOf[c.by] THEN "duplicate"
             ELSE "error"
        [] c.ev.kind = "running" -> IF old = "admitted" THEN "ok" ELSE "error"
        [] OTHER -> IF old \in {"absent"} \cup Terminal THEN "error" ELSE "ok"

\* tasks.state after a command that was accepted.
NewState(c) ==
  CASE c.ev.kind = "admitted" -> "admitted"
    [] c.ev.kind = "running" -> "running"
    [] c.ev.kind = "closed" -> c.ev.status
    [] OTHER -> state[c.task]

Receive(c, answer) ==
  receipt' = IF c.waited THEN [receipt EXCEPT ![c.by] = answer] ELSE receipt

\* One command of _writer_main: the whole transaction, then the receipt.
Write ==
  LET c == Head(queue)
      t == c.task
      answer == Answer(c)
  IN  /\ phase # "down"
      /\ queue # <<>>
      /\ queue' = Tail(queue)
      /\ Receive(c, answer)
      /\ IF answer = "ok"
         THEN /\ state' = [state EXCEPT ![t] = NewState(c)]
              /\ digest' = IF c.ev.kind = "admitted"
                           THEN [digest EXCEPT ![t] = c.by] ELSE digest
              /\ log' = [log EXCEPT ![t] = Append(@, c.ev)]
         ELSE UNCHANGED store
      /\ UNCHANGED <<phase, todo, authority, thread, activity, live, entered,
                     bounds>>

\* SQLite refuses the transaction: rolled back, and the waiter is told.
WriteFails ==
  /\ phase # "down"
  /\ queue # <<>>
  /\ faults < MaxFaults
  /\ faults' = faults + 1
  /\ queue' = Tail(queue)
  /\ Receive(Head(queue), "error")
  /\ UNCHANGED <<store, phase, todo, authority, thread, activity, live, entered,
                 attempts, stops, opens>>

\* WriteReceipt.wait gives up; the command stays queued and may still commit.
WaitTimesOut(a) ==
  /\ receipt[a] = "pending"
  /\ a \in Execs => pc[a] \in Waits
  /\ faults < MaxFaults
  /\ faults' = faults + 1
  /\ receipt' = [receipt EXCEPT ![a] = "error"]
  /\ queue' = [i \in DOMAIN queue |->
                 [queue[i] EXCEPT !.waited = @ /\ queue[i].by # a]]
  /\ UNCHANGED <<store, phase, todo, authority, thread, activity, live, entered,
                 attempts, stops, opens>>

-----------------------------------------------------------------------------
(* Stop.                                                                   *)

\* request_cancel for a task the user sees.  The fence moves before the intent
\* is queued; a repeated request appends again.  An unregistered task is
\* refused and changes nothing.
RequestCancel(t) ==
  /\ phase = "open"
  /\ state[t] # "absent"
  /\ stops < MaxStops
  /\ lock = None
  /\ t \in registered
  /\ stops' = stops + 1
  /\ fence' = [fence EXCEPT ![t] = Epoch + 1]
  /\ lock' = Stopper
  /\ Put(Stopper, t, Event("cancel_requested"))
  /\ UNCHANGED <<store, phase, todo, registered, thread, activity, live, entered,
                 attempts, faults, opens>>

\* Mutant: the lock is released only when the intent was committed.
CancelKeepsLock ==
  /\ lock = Stopper
  /\ receipt[Stopper] = "ok"
  /\ lock' = None
  /\ UNCHANGED <<store, service, registered, fence, thread, activity, live,
                 entered, bounds>>

\* The receipt, then (when it committed) the endpoint's own cancellation.
CancelWaited ==
  /\ lock = Stopper
  /\ receipt[Stopper] # "pending"
  /\ lock' = None
  /\ UNCHANGED <<store, service, registered, fence, thread, activity, live,
                 entered, bounds>>

-----------------------------------------------------------------------------
(* Process lifetime.                                                       *)

\* Everything but the store and the tools' processes is lost.
LoseMemory ==
  /\ queue' = <<>>
  /\ receipt' = [a \in Callers |-> "none"]
  /\ phase' = "down"
  /\ todo' = {}
  /\ registered' = {}
  /\ fence' = [t \in Tasks |-> Epoch]
  /\ lock' = None
  /\ pc' = [x \in Execs |-> IF pc[x] \in Idle THEN pc[x] ELSE "lost"]
  /\ open' = [x \in Execs |-> FALSE]
  /\ UNCHANGED <<store, owns, result, via, handle, call, ordinal, live, entered,
                 bounds>>

Crash == phase # "down" /\ LoseMemory

\* close() after the last turn: what is queued is still written.
Quit ==
  /\ phase = "open"
  /\ \A x \in Execs : pc[x] \in Idle
  /\ phase' = "closing"
  /\ UNCHANGED <<store, queue, receipt, todo, authority, thread, activity, live,
                 entered, bounds>>

Exit == phase = "closing" /\ queue = <<>> /\ LoseMemory

\* Mutant: only tasks that had begun are recovered.
OpenRecoversRunning ==
  /\ phase = "down"
  /\ opens < MaxOpens
  /\ opens' = opens + 1
  /\ todo' = {t \in Tasks : state[t] = "running"}
  /\ phase' = "recovering"
  /\ UNCHANGED <<store, queue, receipt, authority, thread, activity, live,
                 entered, attempts, faults, stops>>

\* Opening the conversation: recover_unknown_tasks lists what is unterminated.
Open ==
  /\ phase = "down"
  /\ opens < MaxOpens
  /\ opens' = opens + 1
  /\ todo' = Unterminated
  /\ phase' = "recovering"
  /\ UNCHANGED <<store, queue, receipt, authority, thread, activity, live,
                 entered, attempts, faults, stops>>

\* Each of them is closed as unknown; a failed write aborts the opening.
RecoverTask(t) ==
  /\ phase = "recovering"
  /\ receipt[Recovery] \in {"none", "ok"}
  /\ t \in todo
  /\ todo' = todo \ {t}
  /\ Put(Recovery, t, ClosedEvent("unknown", "unknown", "controller_restarted"))
  /\ UNCHANGED <<store, phase, authority, thread, activity, live, entered,
                 bounds>>

RecoveryFails ==
  /\ phase = "recovering"
  /\ receipt[Recovery] = "error"
  /\ phase' = "closing"
  /\ UNCHANGED <<store, queue, receipt, todo, authority, thread, activity, live,
                 entered, bounds>>

Recovered ==
  /\ phase = "recovering"
  /\ receipt[Recovery] \in {"none", "ok"}
  /\ todo = {}
  /\ phase' = "open"
  /\ UNCHANGED <<store, queue, receipt, todo, authority, thread, activity, live,
                 entered, bounds>>

\* A process that was left behind ends by itself.
ProcessExits(c) ==
  /\ live' = live \ {c}
  /\ \A x \in Execs : pc[x] = "tool_run" => call[x] # c
  /\ UNCHANGED <<store, service, authority, thread, activity, entered, bounds>>

-----------------------------------------------------------------------------
(* The specification.                                                      *)

ToolStep(x) ==
  \/ \E k \in Tools : StartTool(x, k)
  \/ ToolStartWaited(x)
  \/ Spawn(x)
  \/ HandlerWithoutProcess(x)
  \/ \E end \in {"ok", "timeout", "broke"} : CommandReturns(x, end)
  \/ \E end \in {"stopped", "unsettled", "broke"} : CommandRaises(x, end)
  \/ FinishWaited(x)
  \/ LastFinishWaited(x)

ThreadStep(x) ==
  \/ RegisterOnce(x) \/ AdmissionWaited(x) \/ Start(x) \/ StartWaited(x)
  \/ EnterController(x) \/ ToolStep(x)
  \/ \E r \in Results : ControllerReturns(x, r)
  \/ ControllerRaises(x) \/ CheckReturned(x) \/ Commit(x)
  \/ FinalizeControllerFault(x) \/ FinalizeCancelUnreconciled(x)
  \/ ResultCommitted(x) \/ FaultCommitted(x) \/ FaultRelease(x)
  \/ StaleCommitted(x) \/ StaleRelease(x) \/ FailRelease(x)

RecoveryStep ==
  \/ \E t \in Tasks : RecoverTask(t)
  \/ RecoveryFails \/ Recovered

Next ==
  \/ \E x \in Execs : Submit(x) \/ ThreadStep(x)
  \/ Write \/ WriteFails \/ \E a \in Callers : WaitTimesOut(a)
  \/ \E t \in Tasks : RequestCancel(t)
  \/ CancelWaited
  \/ Crash \/ Quit \/ Exit \/ Open \/ RecoveryStep
  \/ \E c \in live : ProcessExits(c)

Spec == Init /\ [][Next]_vars

\* Threads run, the writer drains its queue, and the controller and the commands
\* it runs are bounded by their own budgets and timeouts.
Fairness ==
  /\ \A x \in Execs : WF_vars(ThreadStep(x))
  /\ WF_vars(Write)
  /\ WF_vars(CancelWaited)
  /\ WF_vars(RecoveryStep)
  /\ WF_vars(Exit)

FairSpec == Spec /\ Fairness

-----------------------------------------------------------------------------
(* Properties.                                                             *)

Kinds == {"admitted", "running", "cancel_requested", "started", "finished", "closed"}

Events ==
  [kind : Kinds, call : Calls \cup {None}, end : Ends \cup {"none"},
   status : Terminal \cup {"none"}, cleanup : Cleanups \cup {"none"},
   reason : Reasons \cup {"none"}]

Commands == [task : Tasks, ev : Events, by : Callers, waited : BOOLEAN]

\* Every variable of the model has the values the code can give it.
TypeOK ==
  /\ state \in [Tasks -> {"absent", "admitted", "running"} \cup Terminal]
  /\ digest \in [Tasks -> Execs \cup {None}]
  /\ log \in [Tasks -> Seq(Events)]
  /\ queue \in Seq(Commands)
  /\ Len(queue) <= QueueLimit
  /\ receipt \in [Callers -> {"none", "pending", "ok", "duplicate", "error"}]
  /\ phase \in {"open", "recovering", "closing", "down"}
  /\ todo \subseteq Tasks
  /\ registered \subseteq Tasks
  /\ fence \in [Tasks -> {Epoch, Epoch + 1}]
  /\ lock \in Execs \cup {Stopper, None}
  /\ pc \in [Execs -> PCs]
  /\ owns \in [Execs -> BOOLEAN]
  /\ result \in [Execs -> Results \cup {"none"}]
  /\ via \in [Execs -> {"none", "result", "open_call", "fault", "stale"}]
  /\ handle \in [Execs -> {"none", "result", "fault", "cancelled", "duplicate",
                           "error", "write_failed"}]
  /\ call \in [Execs -> Calls \cup {None}]
  /\ ordinal \in [Execs -> 0 .. MaxCalls]
  /\ open \in [Execs -> BOOLEAN]
  /\ live \subseteq Calls
  /\ entered \subseteq Execs
  /\ attempts \in [Execs -> 0 .. MaxCalls]
  /\ faults \in 0 .. MaxFaults
  /\ stops \in 0 .. MaxStops
  /\ opens \in 0 .. MaxOpens

\* The abstract view: what the store says of each task.
StopRecorded == [t \in Tasks |-> Has(t, "cancel_requested")]
Lifecycle == INSTANCE TaskLifecycle WITH life <- state, stopped <- StopRecorded

\* The store never shows a task admitted, begun or closed twice, a closed task
\* never changes, and a task whose Stop is on record is never closed with the
\* worker's own result, whatever write was late, lost or retried.
LifecycleSpec == Lifecycle!Spec

\* A task's effects begin at most once: a request submitted again, in this
\* process or after a restart, never reaches the controller a second time.
ControllerOnce ==
  \A x, y \in entered : TaskOf[x] = TaskOf[y] => x = y

\* A task closed with cleanup not_needed or confirmed has no process left.
CleanupIsTrue ==
  \A t \in Tasks :
    (\E i \in DOMAIN log[t] : /\ log[t][i].kind = "closed"
                              /\ log[t][i].cleanup \in {"not_needed", "confirmed"})
      => \A c \in live : c[1] # t

\* Every process a tool started has its tool.started on record, so that a
\* restart can tell that something may be left.
ProcessesOnRecord == \A c \in live : c \in StartedCalls(c[1])

\* An open session has no unterminated task of an earlier process: every one of
\* them was submitted in this one.
RestartClosesOldTasks ==
  phase = "open" =>
    \A t \in Unterminated :
      \E x \in Execs : TaskOf[x] = t /\ pc[x] \notin {"new", "lost"}

\* Without failed or late writes, an unterminated task of an open session has a
\* thread at work on it.
NoStrandedTask ==
  (phase = "open" /\ faults = 0) =>
    \A t \in Unterminated : \E x \in Execs : TaskOf[x] = t /\ pc[x] \notin Idle

\* Without failed or late writes, no registration outlives its thread, so a
\* later request for the task is not refused by an old fence.  The exception is
\* a submission with another payload than the admitted one, stopped before the
\* store refused it.
NoLeakedRegistration ==
  faults = 0 =>
    \A t \in registered :
      \E x \in Execs :
        /\ TaskOf[x] = t
        /\ pc[x] \notin Idle \/ (digest[t] # None /\ PayloadOf[x] # PayloadOf[digest[t]])

\* What a task does is on record: its controller is entered at most once
\* (submit, begin) and each process it starts has its tool.started.
EffectsOnRecord == ControllerOnce /\ ProcessesOnRecord

\* Nothing of a task outlives the thread that runs it: no unterminated task of
\* an earlier process (recover_unterminated), none without a thread, and no
\* registration of the cancellation runtime.
NothingLeftBehind ==
  /\ RestartClosesOldTasks
  /\ NoStrandedTask
  /\ NoLeakedRegistration

\* Every submitted request is answered, unless the process ends.
HandleAnswered ==
  \A x \in Execs : pc[x] = "register" ~> pc[x] \in {"done", "lost"}

\* An admitted task is closed, unless the process ends or a write of the
\* behaviour failed or was late.
TaskCloses ==
  \A t \in Tasks :
    state[t] = "admitted" ~> (state[t] \in Terminal \/ phase = "down" \/ faults > 0)

\* Every request is answered and every admitted task closed: no thread, writer
\* or Stop waits for another forever.
RequestsClose == HandleAnswered /\ TaskCloses

\* cancellable_task_executor.py:3-5 says that a revoked execution can no longer
\* commit a late terminal result: after a recorded Stop the terminal is the
\* stale handler's or the recovery's, never the controller's.
LateTerminalRefused ==
  \A t \in Tasks : \A i, j \in DOMAIN log[t] :
    (i < j /\ log[t][i].kind = "cancel_requested" /\ log[t][j].kind = "closed")
      => log[t][j].reason \in {"cancelled", "cancel_unreconciled",
                               "controller_restarted"}

\* cancellable_task_executor.py:206-207 says that the durable terminal is the
\* answer the user is owed: a handle that answers with the worker's result
\* answers what the store says.
AnswerIsDurable ==
  \A x \in Execs : handle[x] = "result" => state[TaskOf[x]] = result[x]

\* terminal_truth.py:5-7 says that a success-shaped result is not returned
\* while its durable tool activity is open: a completed task has no open call.
CompletedHasNoOpenCall ==
  \A t \in Tasks : state[t] = "completed" => OpenCalls(t) = {}

============================================================================
