# TLA+ verification of the Local Code Agent

The Local Code Agent is a repository assistant that runs against a local model
server. A terminal hub accepts turns, admits tasks into a durable session store,
runs each task in a worker thread that calls the model and tools, and lets the
user stop a task at any moment. This directory models the parts of it whose
correctness depends on the order of steps taken by several threads, processes or
restarts. Paths below are relative to `internal/local_agent/` unless they start
with `internal/` or `native_endpoint/`.

## Inventory

| Component | State | Operations | Hard behaviour | What makes it correct |
|---|---|---|---|---|
| Endpoint arbiter and runtime (`session/endpoint_lease.py`, `endpoint_runtime.py`) | two deques, the active lease, a quarantine reason, pending grants, cancelled requests, fenced executions, stop signals | acquire, release, quarantine, reconcile, cancel | callers, Stop and a failing server interleave; an exception is not proof that an inference stopped | one inference at a time; no lost wakeup; no ghost lease; a stopped execution is never dispatched; a waiter is served |
| Managed model call (`endpoint_call.py`, `endpoint_client.py`, `endpoint_stop_proof.py`, `llm/client.py`) | call and lease state, stream interrupt, watcher thread | invoke, cut, await idle, close | a cut racing the normal end of a stream; pooled connections | a cut only reaches its own call; quarantine ends only when the server is proved idle; every call ends |
| Durable session service (`session_event_service.py`, `session_store.py`) | command queue, SQLite task rows and events, receipts, subscriptions | admit, append, finalize, recover, subscribe | a caller that gives up on a write that commits later; crash and recovery | each task is closed once; a restart closes what the old process left open |
| Cancellable executor (`cancellable_task_executor.py`, `cancellation*.py`, `terminal_truth.py`, `durable_activity.py`) | registered tasks, epoch fences, task threads | submit, run, finalize, request_cancel | Stop against finalization; failures between a commit and its acknowledgement | the controller runs once; no process off the record; no false cleanup claim; no task stranded |
| Session feed (`textual_feed.py`, `event_buffer.py`) | applied cursor, subscription queue | replay, drain, recover from a gap | replay and live delivery overlap; queue overflow | every event once and in order; nothing lost without a known gap; the feed catches up |
| Native inference server (`native_endpoint/`) | request queue, running request, event channels | submit, cancel, generate, shutdown | cancel against start; shutdown against submit | one conclusion per request; never a short answer passed off as complete; stop returns and destroys nothing in use |
| Candidate workspaces (`workspaces.py`, `candidate_change.py`, `commit_index_hook.py`) | git worktree and lease, retained record, preimages, applied record, commit mark, index | create, settle, apply, undo, discard, commit, reap | the user edits, stages and switches branches in the same checkout; Git fails or the hub dies between any two steps | the user's work is never written over; reports are true; a commit is exactly the applied change |
| Watches (`watch/`, `session/watch_*`, `durable_watch.py`) | versioned job rows, attempt ledger, one in-process claim a job, a stream a hub | configure, claim, admit, run, store, close, record, project | concurrent configuration calls, lost and late writes, a hub that dies in a run | no edit is lost; nothing runs outside its fence; the stream says what happened; a claim is released |
| Process supervision (`tools/process_runner.py`, `posix_supervisor.py`, `windows_job.py`) | process tree, owner, gate, pipes, deadline | spawn, adopt, release, wait, stop, account | timeout against exit, orphaned descendants, a killed supervisor | "settled" is said only of a tree that is gone; nothing runs before it is recorded; the runner returns |
| Repository tools (`tools/patch.py`, `build.py`, `testing_tools.py`) | pending patches, mutation journal, build directory with its marker and stamp | propose, apply, revert, configure, build, test | edits by others during a build | a proof is of the tree it names |
| Worker loop (`agent/orchestrator.py`, `contracts.py`, `policy.py`, `verification.py`, `session/task_controller.py`) | budgets, evidence, verification debt, tier | model turn, tool call, escalate, judge | a claim that outlives its evidence | success is claimed only after the check that covers the last edit; every task ends |
| Conversation (`conversation_store.py`, `conversation_gateway.py`, `intents.py`, `durable_routes.py`, `task_admission.py`, `textual_dispatch.py`, `textual_session_app.py`) | turns, one in flight; routes that wait for an answer | submit, route, propose, resolve, admit, save, poll, close | two stores written one after the other, writes that time out, crashes | work only starts after the user's recorded acceptance; no dangling reference; turns are serial and end |
| Read models and Hub (`task_read_model.py`, `task_history.py`, `attention.py`, `textual_feed.py`, `textual_hub.py`, `results.py`, `terminal_completion.py`) | the events and retained results of all tasks | project, hydrate, offer actions, route a fix | three readers of one stream, each with its own rules | the stream always projects; the readers agree |
| Serving (`serving/serve.py`, `managed_runtime.py`) | `process.json`, profile lock, server process, port | ensure, start, stop, status | commands meet while a server loads; pids are reused; a command is killed | no server is lost; no other program is touched; every command ends |
| Result wording, model protocol, configuration, evaluation, scripts | - | - | sequential | unit tests reach them |

How they interact: a turn of the conversation is handed to the executor, which
admits a task through the session service, registers a cancellation fence and
starts a task thread. That thread runs the controller: it calls the model
through the endpoint runtime and tools through the durable activity bracket,
which appends events by the same service. The service's writer thread commits
and publishes; the feed reads what it published. Stop comes from the interface
thread: it revokes the fence, stops the processes and cancels the execution at
the endpoint. A task that edits does so in a candidate worktree, and what it
leaves there the user applies, undoes, discards or commits from the interface.
What the interface offers is computed from the stored events alone, as is what the
router makes of the next text. A watch runs beside the turns, with a task of its own
in the same stream. The model server is shared by all commands of a machine.

`PROJECT.json` lists all parts (the unmodelled ones with the reason), the
hazards of this code at their lines with the properties that cover them, and the
source lines each definition stands for.

## Modules

| Module | Models | Extended by |
|---|---|---|
| `EndpointRuntime` | arbiter, runtime, managed call, watcher, the server as the hub sees it | `EndpointRuntimeProofs`, `MCEndpointRuntime` |
| `SerialEndpoint` | what the runtime promises: one inference at a time, each request dispatched at most once unless the endpoint refused it unserved | instanced by `EndpointRuntime` |
| `TaskExecution` | executor, fences, service with its writer, store, tool activity, terminal truth, recovery, closing | `TaskExecutionProofs`, `MCTaskExecution` |
| `TaskLifecycle` | what the executor promises of a task: admitted, run, closed once | instanced by `TaskExecution` |
| `SessionFeed` | commit and publication, a subscription, replay, poll, gap recovery | `SessionProofs`, `MCSessionFeed` |
| `InferenceScheduler` | scheduler, worker, chat handlers, load and stop of the native server | `InferenceSchedulerProofs`, `MCInferenceScheduler` |
| `CandidateChange` | one candidate from its lease to its commit, against a user, failing Git and crashes | `CandidateChangeProofs`, `MCCandidateChange` |
| `WatchRuns` | watch configuration, runs, the attempt ledger, the stream a hub keeps of them and its projection | `WatchRunsProofs`, `MCWatchRuns` |
| `ProcessTree` | one command as an owned process tree on each platform, with its runner and supervisor | `ProcessTreeProofs`, `MCProcessTree` |
| `RepositoryTools` | patches and their journal, configure, build and test over one tree and one build directory | `WorkerLoop` |
| `WorkerLoop` | the turn loop, verification debt, escalation, the controller's check and verdict; composes `RepositoryTools` | `WorkerProofs`, `MCWorkerLoop` |
| `TurnDispatch` | a turn from the composer to the stored answer: interface, dispatcher, gateway, router, conversation file, durable routes, admission | `SessionProofs`, `MCTurnDispatch` |
| `HubView` | the events and results of all tasks of a stream, and what cards, buttons, Attention and router make of them | `SessionProofs`, `MCHubView` |
| `ManagedRuntime` | the commands that share a model server: record, lock, processes | `WorkerProofs`, `MCManagedRuntime` |

`SessionProofs` holds the proofs of the three components around one stream, `WorkerProofs`
those of the worker and of the servers it calls. For that the specifications of
`TurnDispatch`, `WorkerLoop` and `HubView` carry names of their own: `TurnSpec`, `LoopSpec`,
`HubSpec`, and so do their initial states, steps and type invariants.

The MC modules only define the sets and functions the configurations give to the
constants. Definitions named as mutants are defective variants of the one below
them; nothing refers to them, and `PROJECT.json` says which property each breaks.

### EndpointRuntime

`pc[r]` is where the thread of request `r` stands in acquire, `_managed_call`
and close; `srv[r]` is what the server does with it; `active`, `quarantine`,
`granted`, `cancelled`, `fenced` and `signal` are the fields of the same names. A
method that holds the runtime's condition is one action, `PumpLocked` included.
The watcher thread of a call is separate, so the cut of a stream is two steps: the
decision under the interrupt's lock and the shutdown of the socket.

- The worker calls of one execution are sequential (`CallerFree`), as the
  controller makes them. Chat calls are those of a session.
- `cancel_execution` returns early when it finds the execution's own lease
  active; a Stop after a call of its own that failed raises
  `EndpointLeaseConflict`, but the execution is fenced by then, and the model
  keeps that order.
- The server is external: it accepts, refuses, answers, fails or drops a request, and
  with a stop proof it can be asked whether it is idle.
- A request refused for a field the server does not know is sent once more without it
  (`Resend`), also after a Stop in between: the fence keeps an execution from being
  handed the endpoint, not a call that holds it from sending.

### TaskExecution

`state`, `digest` and `log` are the committed task rows and events, which survive
a crash; `queue` is the service's command queue and `receipt` what each caller
last waited for: a caller whose wait times out leaves its command queued and goes
on as the code does.
Every thread of a submission `x` has its own step `ThreadStep(x)`: submit,
registration, worker start, controller, tool activity, finalization and the
handlers around each. `Stop` revokes the fence under the authority lock and
waits for its own durable record; `Crash` and `Open` end a process and start
the next one with its recovery.

- The epoch is always 0 in the product (`task_admission.py:247`), so a fence is
  open or revoked. The `site`, cancellation plans, `reconcile` and
  `attach_process` have no caller in the product and are not modelled.
- "Registered" stands for `_registered_tasks` and `CancellationRuntime._tasks`,
  which are written together. A put refused by a full queue is a failed receipt.
  Reads of the store are assumed not to fail.
- `SerialTurns` is what `HubTurnDispatcher` guarantees: one turn at a time. Three
  claims (`NoStrandedTask`, `LifecycleSpec`, `CleanupIsTrue`) are made for serial
  turns only: two submissions of one request id at the same time can strand a
  task, which the executor alone does not prevent.
- Recovery closes one task after another and raises out of its loop at the first
  close that is not acknowledged: `RecoverTask` goes on only after a committed one,
  so that a session never opens over a task it could not close.

### SessionFeed

An event is its sequence number. The writer's commit and its publication are
two steps, as they are in the code; subscribing and replaying are several steps
of the feed's thread, between which the writer goes on. "escaped" is the state
after an exception that no caller of `poll` catches, which ends the application.
A failed commit changes nothing. `close()` is part of `TaskExecution`. The feed is
the only subscriber in the product.

### InferenceScheduler

Every section under the scheduler's mutex is one step; between them the worker,
the handlers and `stop` interleave. Text is reduced to pieces that were sent or
held back; the counters to how often a request was counted; request ids are
unique. The streamed response's completion callback calls `cancel()` again, which
changes nothing then and is left out, as are the 400, 401 and 404 answers. That
the HTTP library waits for its handlers when it stops is taken from the library.

### CandidateChange

A file's content is one of `old` (as the candidate found it), `user`, `post` (the
candidate's), `merged` (a three-way result that holds both) and `torn` (a write
that stopped halfway). Reading all candidate paths is one step, writing is
one step a file, so the user may edit between any two writes. The refusals of
readiness, filters, modes and hashes are one nondeterministic refusal where
the code makes them. `GitFails` is a Git command that raises, at each place the
code calls one. The index is reconciled in one step because `index.lock` is held.

- The hook is assumed to run when Git commits; a commit without its mark
  is `GitFails` at that step.
- Between the comparison of a file and its write there is a window in which an
  edit of the user is overwritten. The code cannot close it; `KeepsUserWork` excepts
  exactly the paths edited in it (`late`).
- Accepted by the code and kept in the model: a crash between publication and its
  mark leaves `/undo` possible; a `git apply` that times out raises past the
  rollback and is reported as an error; the cleanup of orphans may remove the
  worktree of a retained candidate, which is still applicable from its record.

### WatchRuns

One job; every table is keyed by its identity. `job` and `versions` are the job
store, `attempts` the ledger, `task` and `stream` what a hub's session store holds of
its runs, `active` the in-process claim. A durable write that is not acknowledged in
time raises and may commit all the same, which the model keeps as two outcomes of
one step. A configuration call reads, then writes with its expected version. The
projection (`Projects`) is the fold of `watch_read_model.py` over the stream.

### ProcessTree

`proc` is the state of each process of the command, `owner` what accounts for them
(Job Object, subreaper, process group, or only the visible tree), `gated` and
`recorded` the gate before the first effect. A process forks, leaves its session,
ignores the kill or exits whenever it likes. The runner's poll loop, the supervisor
and its signal handler are separate. The deadline is a step that is always
possible; `RunEnds` needs it to be taken.

### RepositoryTools and WorkerLoop

A text is a number, a tree a function from files to texts. Builds and tests are
several steps with a snapshot before and after, so somebody else may edit in between.
`dir.bin` records what the binaries really are of, `dir.stamp` what the tools believe.
What a replacement writes is any other text: how `find` is matched decides whether
there is one, not what the checks say of it. A model reply is any tool call or prose;
the history of calls is folded to what the code reads back. The orchestrator is
the one the product runs (`agent/contracts.py` over `agent/orchestrator.py`): its
citations are reported and never decide `verified`.

### TurnDispatch

A text is one of the kinds the router tells apart; whether a path lies inside
the repository is decided each time it is asked. A turn reference is the index of
a turn of the append-only file. `queue` holds writes not yet committed: a caller
whose wait times out leaves its write there and its turn fails. Both readers of the
routes are modelled: the gateway's recovery (`PendingAcceptance`, `RecoverRaises`)
as sets over the stream, the Hub's `project_routes` event by event.
"Fix" counts a failed change too, because the build of its candidate is a failing step like a
check's (`failure_kind`, `task_history.py:207-224`); a change that failed without such a step
("unproven") leaves nothing to repair and the router asks. A task or a route that raises
before its admission (`resolve_skill`, `task_admission.py:200-211`) ends the turn with an
error and no task.

### HubView

The stream is the sequence of events; a sequence number is an index of it. Each
closed task has a retained result. A card is the fold of `task_read_model.py` over the
stream with the result hydrated into it. Fencing and recovery are abstracted to what
they write (their detail is `TaskExecution`'s); the actions on a candidate to the
results they return and what they leave on disk. The steps of the card fold
(`ProjectTask`) and of recovery (`Recovered`) are recursive functions, one event and one
task at a time.

- `OffersAgree` has four parts. `ReadyIsOffered` and `AppliedIsOffered` say what must not be
  taken away, the latter until a later action on the candidate is VERIFIED, or another
  apply, of what the first left of the candidate, is refused by the checkout: such a refusal
  becomes the latest the Hub knows of the candidate, and Undo goes with it. `UndoneIsSpent`
  and `GoneIsSpent` say what must not be offered. The last has an exception the code cannot
  avoid: when an apply or a discard succeeded and its result never reached the stream (a crash,
  a Stop, a failed write), the Hub still offers Apply, and the controller refuses it.

### ManagedRuntime

Processes are pids with a creation time; `record` is `process.json`, `lock` the
profile lock, which is tried and never waited for. Every command is a sequence of
steps between which others run, and is killed at any of them. A foreign program may
get a pid the record still names. A server loads, becomes healthy, hangs or dies
by itself, and while it is being ended it may still answer. psutil may deny a
command every look at a process and every signal, and may find a process gone just
before the kill: the command then ends in a refusal and leaves the record as it was.

## Runs

Deadlock is checked where the system must always go on (`process_tree`,
`worker_loop`: a finished run stutters explicitly). Elsewhere a hub whose requests
ended, whose bounds are used up or which is closed may stop.

| Run | Instance | Shows |
|---|---|---|
| `endpoint_calls` | a chat request and two worker requests of two executions, one waiting place a class, acquire timeouts, a stop proof | `LeaseSound` (`NoIdleEndpoint`, `NoGhostLease`, `NoLeaseConflict`, `CutHitsOwnCall`), `DispatchSound` (`FencedNeverDispatched`, `FenceOutlivesInference`, `ClassesAlternate`); the runtime implements `SerialEndpoint`; `CallerAnswered` |
| `task_turns` | a request submitted twice, one after the other, a spawning and a quiet tool, one write fault, one Stop, one crash and reopening | `EffectsOnRecord` (`ControllerOnce`, `ProcessesOnRecord`), `CleanupIsTrue`, `NothingLeftBehind`; the executor implements `TaskLifecycle`; `RequestsClose` |
| `feed_handoff` | nine events, queue, page and drain of two, a view of eight | `FeedIsWhole` (contiguous, nothing lost), `FeedCatchesUp` |
| `native_requests` | a streamed and a unary request, one queue place, two HTTP threads, one piece | `OneTrueEnding`, `NothingUsesTheDestroyed`, `EveryoneEnds` |
| `candidate_life` | a candidate of two files in a checkout of three, three actions, two steps of the user, one crash | `ReportsAreTrue`, `UserStateKept`, `WorktreesOwned` |
| `watch_runs` | two runs, two concurrent configuration calls, two revisions, one crash | `NoLostEdit`, `EffectsFenced`, `RecordedIsTrue`, `ClaimReleased` |
| `process_tree` | three processes on each platform | `SettledIsGone`, `OkRanToItsEnd`, `GateHolds`, `RunEnds` |
| `worker_loop` | one file, three tool calls, one on the retry, one edit by somebody else | `VerifiedIsCurrent`, `VerifiedResultIsBound`, `EscalationRestores`, `TaskEnds` |
| `turn_dispatch` | three submitted turns, five stored ones, every kind of text, one crash, timed-out write or failed save | `AuthorityFirst`, `RoutesAgree`, `ActiveIsTheTurn`, `TurnObserved` |
| `hub_view` | three tasks, or four with a second apply, two Stops, faults, lost writes or crashes | `StreamReadable`, `FixIsHonoured`, `OffersAgree` |
| `managed_runtime` | two commands of two plans, two launches, two pids, one foreign program, one killed command | `ServersAccounted`, `TimingIsOfItsProcess`, `ForeignUntouched`, `CommandEnds` |
| `tests_not_run` | one or two configured checks, no faults | a finding: `VerifiedChecksRan` is violated |

Why the bounds are enough to be interesting:

- `endpoint_calls`: with one place a class the deques fill and refuse; three
  requests let a class switch, a grant race a timeout, an execution be stopped
  while its call waits or runs, and the cut of one call meet the start of another.
- `task_turns`: the second submission replays, or finds what a crash left; a failed
  or late write happens at every one of the commands, one at a time, so each
  handler's reaction to its own fault is reached. A queue of three refuses
  when a late command is still queued. Simultaneous submissions are left to the
  proof of `EffectsOnRecord`, which does not need serial turns.
- `feed_handoff`: nine events against a queue of two overflow several times, once
  during a recovery, and exceed the view's eight.
- `native_requests`: with one queue place the second request is refused, queued or
  running beside the first; every pair of cancel, shutdown, take and finish occurs.
- `candidate_life`: one crash and two user steps fall between any two steps of
  three successive actions, which is enough for apply, commit and undo after each
  other; two files make a half-done write visible and the third is unrelated.
  The two files are interchangeable, hence the symmetry (no liveness is checked).
- `watch_runs`: two runs meet at the claim and as each other's previous attempt;
  two editors race for one version.
- `process_tree`: leader, child and grandchild are the smallest tree in which a
  descendant leaves the group after its parent died.
- `worker_loop`: three calls are propose, apply and build, or build and test after
  an edit; with one more, the exception named in `VerifiedIsCurrent` is reached.
  `fix-test` differs from `change` as `fix-build` does and is left out.
- `turn_dispatch`: the third turn comes after a proposal and an answer whose write
  timed out, which is where a route is resolved or admitted a second time. "yes"
  is left out: "work" and "create it" take its two parts.
- `hub_view`: a candidate is prepared, reviewed or applied, and acted on once more;
  a check is repeated, superseded or followed by another; a watch runs beside.
- `managed_runtime`: the second launch may reuse the first one's pid, and the two
  plans make a server somebody else's.

Every component also defines a type invariant (`TypeOK`, `TurnTypeOK`, `LoopTypeOK`,
`HubTypeOK`), which is a theorem for each of them.

### Fairness

Fairness is weak everywhere, and only for a thread that the code lets run:

- endpoint: a caller's own steps, its watcher, the server's progress on an
  accepted request, and the error of a connection the server dropped (the socket
  timeout of the client). Not Stop, not an acquire, not an acquire timeout: a
  waiter may be without one.
- task execution: each thread's step, the writer, Stop's wait, recovery and the
  exit of a process. Not Stop, crashes, openings or faults. `TaskCloses` is
  claimed while the process is up and no write failed; with a failed write
  the next opening closes the task (`RestartClosesOldTasks`).
- feed: the writer's publication and the polled feed (the interface polls on a
  timer).
- native server: loading, the stopping thread, the worker (a generation is
  bounded by `max_new_tokens`) and each handler (its pop has a timeout).
- candidate, hub view: none; everything claimed there is safety.
- watch: each run's own steps. Not configuration calls, not crashes.
- process tree: the runner, the supervisor and the passing of the deadline. Not the
  command's processes: they may hang.
- worker loop: its own steps; a model reply is one (the client has a timeout).
- turn dispatch: the worker thread, the writer, the interface's timer. Not the user.
- managed runtime: each running command. Nothing is assumed of the servers.

## Findings

One is a run: `tests_not_run`. When the build of a test request passes and its
test step gives no verdict (no test ran, or the tool failed before a process was
started), the standing proof of the build makes the worker's outcome a pass, and the
request to run the tests is closed VERIFIED. A step the policy refuses closes it
REFUSED, and one whose processes are not shown to have ended closes it NO_VERDICT
(`session/task_controller.py`, `agent/orchestrator.py`), although
`session/configured_checks.py` says of a check that could not be run "no verdict".

The others are definitions in the modules that state what a comment or a document
says, and that TLC refutes when the definition is checked in place of the properties
of the module's run (with the same constants, unless said otherwise):

| Definition | What the code does | What is said |
|---|---|---|
| `TaskExecution!LateTerminalRefused` | a controller that raises after Stop still commits its terminal (`cancellable_task_executor.py:325`) | lines 3-5: a revoked execution can no longer commit a late terminal |
| `TaskExecution!AnswerIsDurable` | a completed result with unreconciled cleanup is stored unknown but answered as it was (`:351`) | lines 206-207 and 402 |
| `TaskExecution!CompletedHasNoOpenCall` | a `tool.started` whose wait timed out commits after the terminal truth was read (`terminal_truth.py:47`) | lines 5-7 |
| `SessionFeed!OverflowIsRecovered` | a second overflow during a recovery makes `poll` raise `SubscriptionGap`, which no caller catches (`textual_feed.py:166`) | lines 45-46 promise a replay |
| `CandidateChange!DiscardIsFinal` | `/discard` suppresses a failed removal and the record stays applicable (`candidate_change.py:509`) | line 507 |
| `WatchRuns!StreamProjects` | `record_run` takes the previous attempt from the ledger without asking the stream, which then no longer projects (`durable_watch.py:151`) | `durable_watch.py:4-5`, `watch_read_model.py:158-161` |
| `ProcessTree!ConfirmedIsGone` | the confirmation for an unadopted tree is kept for the second, visible one (`process_runner.py:573`) | lines 107-108 |
| `ProcessTree!CallbackBeforeEffect` | on the visible-tree fallback `on_spawn` runs after the command does | `process_runner.py:36-37` |
| `WorkerLoop!VerifiedIsOfWholeBuild` (four tool calls) | a targeted build leaves an older full stamp in place, and the suite is then counted as of the whole tree (`testing_tools.py:314`) | lines 182-187 |
| `WorkerLoop!RefusedIsForeign` | a directory a build configured without claiming is refused later as not Local Code Agent's (`build.py:221-225`) | lines 108-114 |
| `TurnDispatch!PendingCanBeDecided` | after a proposal whose write timed out a second one is made; with two waiting, neither answer decides (`conversation_gateway.py:152-155`) | the prompt offers `work` and `chat` |
| `HubView!ReturnedIsClosed` | a commit whose index could not be reconciled returns a reason its verdict does not allow, `ValueError` ends the thread, and the task stays running until a restart although the commit is made (`candidate_change.py:606-612`) | `cancellable_task_executor.py:167-168` |
| `ManagedRuntime!ReadyAsPlanned` | a command may report ready a server that another plan launched meanwhile (`serve.py:470-477`) | `docs/serving.md:26,28`, `managed_runtime.py:4-7` |

Further observations met while modelling, visible in the models:

- A route whose resolution timed out can be resolved again; from then on the gateway
  refuses every turn (`durable_routes.py:204`) and, by `RoutesAgree`, the Hub's
  projection of the stream raises too.
- A Stop after settlement's last Git call leaves a retained candidate no task shows,
  although `task_controller.py:758` says a stopped task leaves no reviewable change.
- A check whose first step errs closes FAILED without having run: the Hub enables Fix,
  the router answers that the task is superseded (`FixIsHonoured` is claimed of checks
  that ran). `/diff` or `/discard` after an apply whose own discard failed hides Undo
  and Commit; a crash between an apply's effect and its close leaves Apply offered.
- A configure step that timed out is reported as an observed build failure
  (`build.py:246-254`). A second hub runs the same watch job at the same time.
- A command that meets a server still loading takes it for unhealthy and replaces it;
  after its pid was reused, start, stop and status all refuse.
- The exception of a failed turn is not shown when the next text comes before the
  50 ms poll. A timed-out proposal can be accepted though it was never shown.
- Without a caller in the product: `process_stop.py`, `approvals.py`,
  `CancellationRuntime.reconcile`, the base executor's `submit`, the events
  `endpoint.state_changed` and `fault.reported`, `explicit_mode` of the gateway.

## Proofs

Checked by TLAPS for every value of the constants that satisfies the named
assumptions of the component's module. Each invariant proof is: `IInv` holds
initially, every action preserves it (one step per action), it implies the
property; a last step combines them temporally.

| Module | Theorems | Inductive invariant, and why it is needed |
|---|---|---|
| `EndpointRuntimeProofs` | `TypeCorrect`, `OneInferenceHolds`, `NoIdleEndpointHolds`, `NoGhostLeaseHolds`, `NoLeaseConflictHolds`, `CutHitsOwnCallHolds`, `FencedNeverDispatchedHolds`, `FenceOutlivesInferenceHolds`, `ClassesAlternateHolds`, and from them `LeaseSoundHolds` and `DispatchSoundHolds`; `ImplementsSerialEndpoint` | `TypeOK`, `WaitingInv` (a waiter is queued, granted or cancelled), `LeaseInv` (who may hold the active lease), `ServerInv` (a request at the server has the lease or a quarantine), `FenceInv`, `WatcherInv`. One inference follows only because a request that ended without proof keeps the lease through its quarantine |
| `TaskExecutionProofs` | `TypeCorrect`, `ControllerRunsOnce`, `NoUnrecordedProcess`, and from them `EffectsAreOnRecord`; with serial turns `CleanupIsTrueHolds`, `NothingLeftBehindHolds` and `ImplementsTaskLifecycle` | `TypeOK`, `CallInv` (a call belongs to its thread's task and its ordinal is not yet used up), `QueueInv` (a queued command is complete and its caller waits where the code waits for it), `SingleInv` (no caller waits for two commands), `CreatorInv` (the row names the submission that created it, and only that one gets past its admission), `RecordInv` (a handler that runs has its start committed), `LockInv`. The creator has to be followed through the queue, because its admission may commit long after others replayed it. For serial turns three more layers, below |
| `SessionProofs` (feed) | `TypeCorrect`, `Contiguous`, `NoEventLost`, and from them `WholeFeed` | `TypeOK`, `OutboxInv`, `LiveInv`, `FeedIsContiguous`: batch, subscription queue and what the writer has yet to offer form one run of numbers that starts at or before the feed's cursor. Filtering a run by the cursor gives the run that continues it (`AcceptedRun`) |
| `CandidateChangeProofs` | `TypeCorrect`, `TrueReports`, `LeaseOutlivesWorktree`, `UserWorkKept`, `ExactPublication`, `UserStagingKept`, `ReapOnlyTheDead`, and from them `UserStateIsKept` and `WorktreesHaveOwners` | `TypeOK`, `LeaseInv` (worktree, record and lease), `CommitInv` (the private commit and the tip it was built on), `BytesInv` (the bytes an import or undo goes back to), `FilesInv` (what the files hold while an action is under way, where the user has not changed them), `PendingInv` (what a closing action is going to report), `ReportsAreTrue`. Reports are about files read several steps earlier, hence the bookkeeping of what the user changed since |
| `InferenceSchedulerProofs` | `TypeCorrect`, `OneTrueEndingHolds`, `NothingUsesTheDestroyedHolds`, `ActiveWhileRunningHolds` | `TypeOK`, `WorkerInv` (the worker's request is the active one), `OnceInv` (no request is queued or abandoned twice), `PlaceInv` (a request is in one place, the queue, the worker, the abandoned list or its own handler, and concluded as far as that place has got), `AnswerInv` (a cut generation belongs to a cancelled request), `StopInv`. One ending follows only because who takes a request out of a place under the mutex is the only one left to conclude it |
| `WatchRunsProofs` | `TypeCorrect`, `NoLostEditHolds`, `EffectsFencedHolds`, `RecordedIsTrueHolds` | `TypeOK`, `EditInv` (a configuration call that may still succeed differs from the row in its one field), `ClaimInv` (one call of a hub holds its claim), `CallInv` (what `run_job` has done by each program point), `RecordInv` (what a run event says, by then, of ledger, task and earlier events). Ledger and streams only grow and a closed task stays, hence what was true when it was recorded remains so |
| `ProcessTreeProofs` | `TypeCorrect`, `SettledIsGoneHolds`, `OkRanToItsEndHolds`, `GateHoldsAlways` | `TypeOK`, `StartInv` (the command is started once, by its owner), `GateInv`, `ReportInv` (the supervisor reports only a tree that is gone), `SettleInv` (a confirmation means that nothing lives and nobody is left to start anything), `ExitInv`. A tree stays gone only if nobody can still start it, which is what ties the gate and the supervisor's state to the account |
| `WorkerProofs` (runtime) | `TypeCorrect`, `ServersAccountedHolds`, `TimingIsOfItsProcessHolds`, `ForeignUntouchedHolds` (an action property) | `TypeOK`, `OsInv` (a creation time belongs to one process and never comes back), `RecordInv` (`process.json` names a server or nobody), `LockInv`, `CommandInv` (under the lock the record is what the command found). A pid may be taken by another program at any moment; the creation time cannot |
| `WorkerProofs` (loop) | `LoopInvariant`, `LoopTypeCorrect`, `VerifiedIsCurrentHolds`, `VerifiedResultIsBoundHolds`, `EscalationRestoresHolds` (an action property) | `LoopTypeOK`, `OpInv` (a call is under way only in its handler), `BuildInv` (what a stamp names is what was compiled), `MarkInv` (a mark stands for a full proof, a result for a mark), `CandidateInv`, `JournalInv` (each entry of a file found what the entry before it wrote, or a text of somebody else). A proof is of the tree only because the stamp is dropped before a full build compiles, set again only if the tree did not move meanwhile, and compared with the tree by the test that reads it |
| `SessionProofs` (turn) | `TurnInvariant`, `TurnTypeCorrect`, `ActiveIsTheTurnHolds`, `AuthorityFirstHolds`, `RoutesAgreeHolds` | `TurnTypeOK`, `ThreadInv`, `SpaceInv` (a turn has room for what it has yet to store), `RefInv`, `LogInv` and `QueueInv` (a decision follows its proposal, an acceptance the user's answer, an admission of prose its acceptance), `WorkInv`, `StartedInv`, `ProposedOnce`, `DecidedInOrder`, `ViewInv` (the Hub's projection says of every route what the stream does). Writes that timed out commit later, hence each claim is made of the queue as well as of the stream |
| `SessionProofs` (readers) | `HubInvariant`, `HubTypeCorrect`, `StreamReadableHolds`, `FixIsHonouredHolds`, `OffersAgreeHolds` | `HubTypeOK`, `StepInv` (which steps a thread has behind it, and what it may return), `StreamInv` (what the events of every task add up to: its card, its last event, the step it failed in, its one verdict right before the closure, and the result retained with it), `OneTurn` (a task of the user begins after the one before it ended). On top of it, `SpentInv`: a retained candidate that is no longer on disk was ended by a task that passed, and nothing read its record later; `GoneIsSpent` needs it, because the stream itself may not tell of that task. The two sequence numbers by which Hub and router order the checks differ, by one: they agree because verdict and closure are written together |

For serial turns, `TaskExecutionProofs` builds on `IInv`:

- `CleanupIsTrueHolds` uses `CInv`: at most one thread is at work (`TurnInv`); a row and
  its creator name each other (`RowInv`); an ordinal is used once, so no later call
  has the id of a finished one (`OrdinalInv`); and every event on record or still in
  the queue is true of the processes (`SaidInv`), where a reconciled close also says
  that the creator of the row starts nothing more. Events have to be followed from the
  moment they are queued: a late write commits long after it was formed.
- `ImplementsTaskLifecycle` adds `LInv`: a thread whose Stop is on record or queued is
  fenced (`StopInv`), a thread past its start has a row that says so (`BegunInv`), and
  a queued result has no Stop of its task before it (`ResultInv`). Then each write is a
  step of `TaskLifecycle` and every other step a stutter.
- `NothingLeftBehindHolds` adds `NInv`: who queues what in which phase (`PhaseInv`); what
  recovery has still to close (`RestartInv`); and, as long as no write failed or was
  late, that program point, receipt and row of each thread agree and every
  registration has an owner (`FaultlessInv`). It is stated for a command queue of at
  least two places (the code's has 256). With one place it is false, as TLC shows: the
  terminal of a controller fault is refused by a queue that holds the intent of a Stop,
  and the task stays open. Two are enough because a thread that does not wait can
  find nothing but one Stop in the queue (lemma `Room`).

The invariants `CInv`, `LInv` and `NInv` were checked by TLC, on instances of two tools,
two and three submissions with equal and different payloads, before they were proved. The
proof of `CleanupIsTrueHolds` found an error of the model: `RecoverTask` went on after a
close that failed, which the code does not.

What each theorem assumes is the named assumption of the component's module (the
constants' types, bounds in `Nat`, callers with different names); what it adds is in
its statement. `SerialTurns` is the only assumption about behaviour.

The library's induction theorems take the predicate as an operator, which the provers
cannot instantiate. Where an induction over the natural numbers is needed anyway, it is
made of a set: the numbers that lack the property have a minimal one, by the well-founded
induction theorems (`LastPlace`, `AllNumbers`, `EveryNumber`). So the folds of `TurnDispatch` and
`HubView`, written as recursive functions, could be followed step by step: one event more
changes the card of its own task only (`ProjectTask`), and recovery appends the closures of
the tasks left open, in order, and nothing else (`Recovered`).

Model-checked only: all liveness (`CallerAnswered`, `RequestsClose`, `FeedCatchesUp`,
`EveryoneEnds`, `ClaimReleased`, `RunEnds`, `TaskEnds`, `TurnObserved`, `CommandEnds`),
because fairness and `ENABLED` are outside the prover. Every invariant and action
property and both refinements of the passing runs are theorems.

## Not modelled

- Tools that only read (files, search, log parsing, Git queries), request building and
  response parsing of the model client, failure texts, file modes and Git filters:
  data the modelled control depends on only by succeeding or being refused.
- Result wording, layout, key bindings and rendering of the terminal interface.
- Prompts, skills, citations and the evidence packet of an escalation: they
  change what the model is told, and the model may answer anything.
- Model protocol and static configuration, the command line and the stdio adapter.
- Download, hashing and preflight checks of model files; the backends and JSON
  conversion of the native server.
- Evaluation, performance harness, acceptance scripts and developer tools: programs
  around the product.

## Plan

Done, in this order: `EndpointRuntime` with `SerialEndpoint`, `TaskExecution` with
`TaskLifecycle`, `SessionFeed`, `InferenceScheduler`, `CandidateChange`, `WatchRuns`,
`ProcessTree`, `RepositoryTools` and `WorkerLoop`, `TurnDispatch`, `HubView`,
`ManagedRuntime`.

Proofs: all invariants, action properties and refinements of all components. What could
still be added: the two hazards of `PROJECT.json` that no property covers, and the
components listed as not modelled.
