------------------------------- MODULE HubView -------------------------------
(***************************************************************************)
(* What the readers make of one durable stream.  A task is admitted, runs  *)
(* its steps, and is closed by one bundle: the retained result, the        *)
(* verdict and the closure (session/results.py, terminal_completion.py,    *)
(* session_store.py).  Three readers project that stream on their own: the *)
(* Hub's task cards and buttons (task_read_model.py, textual_feed.py,      *)
(* textual_hub.py), Attention (attention.py) and the router's task history *)
(* (task_history.py, conversation_gateway.py).                             *)
(*                                                                         *)
(* Tasks are numbered in the order of their admission; a sequence number   *)
(* is an index of `stream'.  An execution has one epoch, so that of an     *)
(* event is left out.  Every task belongs to the one repository and the    *)
(* one conversation the stream belongs to.  How a task is fenced, written  *)
(* and recovered is TaskExecution's subject, what the candidate actions do *)
(* to the checkout CandidateChange's: here they only return a result.      *)
(***************************************************************************)
EXTENDS Naturals, Sequences, FiniteSets, SequencesExt

CONSTANTS Sessions,   \* bound: what the user and the watches may ask for, in order
          MaxMishaps  \* bound: crashes, faults, failed writes and Stops together

ASSUME HubAssumption == MaxMishaps \in Nat

VARIABLES
  stream,  \* the committed events of the stream
  row,     \* the store's task index, in the order of admission
  res,     \* the retained result of every closed task
  thread,  \* the executor's thread of every task
  disk,    \* what is on disk of every prepared candidate
  mishaps  \* crashes, faults, failed writes and Stops so far

hubVars == <<stream, row, res, thread, disk, mishaps>>

-----------------------------------------------------------------------------
(* Kinds of task.                                                          *)

Checks == {"run-build", "run-tests"}
Actions == {"diff", "apply", "undo", "commit", "discard"}
AllKinds == Checks \cup Actions \cup {"fix", "ask", "watch"}

Tasks == 1 .. Len(row)
Open(t) == thread[t].pc # "done"

(* The fixed steps of a configured check; the worker of a change runs the  *)
(* build of its candidate.                                                 *)
Steps(kind) ==
  CASE kind = "run-build" -> <<"build_target">>
    [] kind = "run-tests" -> <<"build_target", "run_test">>
    [] kind = "fix"       -> <<"build_target">>
    [] OTHER              -> <<>>

(* How a step ends: it ran and passed, failed or showed nothing; policy    *)
(* refused it; it erred without a process; it timed out; its process tree  *)
(* could not be shown ended; or a Stop ended that tree.                    *)
Outs == {"pass", "fail", "unknown", "refused", "error", "timeout", "adrift", "cut"}

StepOuts(done) == {done[i].out : i \in 1 .. Len(done)}
LastOut(done) == IF done = <<>> THEN "none" ELSE Last(done).out

(* ConfiguredCheckPlan.chat: the next step, while every earlier one passed. *)
NextStep(kind, done) ==
  IF Len(done) < Len(Steps(kind)) /\ StepOuts(done) \subseteq {"pass"}
    THEN Steps(kind)[Len(done) + 1]
    ELSE "none"

-----------------------------------------------------------------------------
(* Results.                                                                *)

NoCandidate == [role |-> "none", id |-> 0, retained |-> FALSE]

Projection(outcome) ==
  CASE outcome = "pass"       -> [state |-> "completed", verdict |-> "VERIFIED"]
    [] outcome = "answered"   -> [state |-> "completed", verdict |-> "NOT_REQUIRED"]
    [] outcome = "fail"       -> [state |-> "failed",    verdict |-> "FAILED"]
    [] outcome = "blocked"    -> [state |-> "blocked",   verdict |-> "REFUSED"]
    [] outcome = "no_verdict" -> [state |-> "unknown",   verdict |-> "NO_VERDICT"]

Result(outcome, ran, reason, cand, facts) ==
  [outcome |-> outcome, ran |-> ran, verified |-> outcome = "pass",
   reason |-> reason, cand |-> cand, facts |-> facts]

AllowedReasons(verdict) ==
  CASE verdict = "VERIFIED"   -> {"verification_passed"}
    [] verdict = "NOT_REQUIRED" -> {"verification_not_required"}
    [] verdict = "FAILED"     -> {"verification_failed", "missing_evidence", "stale_evidence",
                                  "protocol_mismatch", "scope_changed"}
    [] verdict = "REFUSED"    -> {"policy_denied", "invalid_input", "cancelled"}
    [] verdict = "NO_VERDICT" -> {"cleanup_unknown", "controller_fault", "cancelled",
                                  "cancel_unreconciled", "controller_restarted",
                                  "missing_evidence", "protocol_mismatch"}

(* verdict_block_from_task_result raises for a reason its verdict does not *)
(* allow.                                                                  *)
Renders(r) == r.reason \in AllowedReasons(Projection(r.outcome).verdict)

(* verification_attempted and verified of the worker's own history.        *)
Attempted(done) == StepOuts(done) \cap {"pass", "fail"} # {}
Verified(done) == "pass" \in StepOuts(done) /\ LastOut(done) # "fail"

(* The worker's outcome, projected by the controller: a refused step of    *)
(* the plan refuses the check, a process tree not shown ended leaves no    *)
(* verdict, a check without one observed step fails, and otherwise the     *)
(* standing proof of the tree decides.                                     *)
CheckOutcome(done) ==
  IF "refused" \in StepOuts(done) THEN "blocked"
  ELSE IF "adrift" \in StepOuts(done) THEN "no_verdict"
  ELSE IF ~Attempted(done) THEN "fail"
  ELSE IF Verified(done) THEN "pass"
  ELSE IF LastOut(done) = "fail" THEN "fail"
  ELSE "no_verdict"

ReasonCode(outcome, done) ==
  CASE outcome = "pass"       -> "verification_passed"
    [] outcome = "fail"       -> IF Attempted(done) THEN "verification_failed"
                                                    ELSE "missing_evidence"
    [] outcome = "blocked"    -> "policy_denied"
    [] outcome = "no_verdict" -> IF Attempted(done) \/ "adrift" \in StepOuts(done)
                                 THEN "cleanup_unknown" ELSE "missing_evidence"

(* check_failure_facts: the failing step of a failed check, when its       *)
(* report says enough.                                                     *)
FailingStep(done) ==
  IF LastOut(done) # "fail" THEN "none"
  ELSE IF Last(done).tool = "build_target" THEN "build" ELSE "tests"
CheckFacts(outcome, done) ==
  IF outcome = "fail" THEN {"none", FailingStep(done)} ELSE {"none"}

CheckResults(done) ==
  LET outcome == CheckOutcome(done) IN
    {Result(outcome, Attempted(done), ReasonCode(outcome, done), NoCandidate, facts) :
       facts \in CheckFacts(outcome, done)}

(* project_candidate of the controller's metrics.                          *)
Prepared(t, retained) == [role |-> "prepared", id |-> t, retained |-> retained]

\* A plausible bug: the facts of an action that did not succeed are kept.
ActedAnyway(role, c, succeeded) == [role |-> role, id |-> c, retained |-> FALSE]

Acted(role, c, succeeded) ==
  IF succeeded THEN [role |-> role, id |-> c, retained |-> FALSE] ELSE NoCandidate

(* validate_candidate: what a reader of the candidate facts accepts.       *)
Roles == {"none", "prepared", "reviewed", "applied", "apply_refused", "undone", "committed",
          "discarded"}
CandidateOk(cand) ==
  /\ cand.role \in Roles
  /\ cand.retained => cand.role = "prepared"

(* require_action_owner: a success without its receipt is no success.      *)
Owned(r, role) ==
  IF r.outcome = "pass" /\ r.cand.role # role
    THEN Result("no_verdict", r.ran, "protocol_mismatch", NoCandidate, "none")
    ELSE r

(* What each controller action returns, with what it leaves on disk.       *)
Nothing == [record |-> FALSE, applied |-> "no"]
Retain == [record |-> TRUE, applied |-> "no"]
Loads(c) == disk[c].record
Returns(r, d) == [r |-> r, disk |-> d]
Denied(c) == {Returns(Result("blocked", FALSE, "invalid_input", NoCandidate, "none"), disk[c])}
Done(role, c, d) ==
  Returns(Owned(Result("pass", TRUE, "verification_passed", Acted(role, c, TRUE), "none"), role), d)
NotDone(role, c, outcome, reason) ==
  Returns(Result(outcome, FALSE, reason, Acted(role, c, FALSE), "none"), disk[c])
ImportRefused(c, outcome, reason) ==
  Returns(Result(outcome, FALSE, reason, Acted("apply_refused", c, TRUE), "none"), disk[c])

DiffCandidate(c) ==
  IF Loads(c) THEN {Done("reviewed", c, disk[c])}
  ELSE {NotDone("reviewed", c, "blocked", "invalid_input")}

(* A successful import leaves the undo record, unless writing it fails,    *)
(* and removes the candidate's record, unless the discard fails.           *)
ApplyCandidate(c) ==
  IF ~Loads(c) THEN Denied(c)
  ELSE {Done("applied", c, d) : d \in [record : BOOLEAN, applied : {"yes", "no"}]}
       \cup {ImportRefused(c, "fail", "scope_changed"),
             ImportRefused(c, "fail", "verification_failed"),
             ImportRefused(c, "no_verdict", "cleanup_unknown")}

UndoCandidate(c) ==
  IF disk[c].applied # "yes" THEN {NotDone("undone", c, "blocked", "invalid_input")}
  ELSE {Done("undone", c, [disk[c] EXCEPT !.applied = "no"]),
        NotDone("undone", c, "fail", "scope_changed"),
        NotDone("undone", c, "no_verdict", "cleanup_unknown")}

(* A commit whose index could not be reconciled is made, and returned as   *)
(* no verdict.                                                             *)
CommitCandidate(c) ==
  IF disk[c].applied # "yes" THEN {NotDone("committed", c, "blocked", "invalid_input")}
  ELSE LET made == [disk[c] EXCEPT !.applied = "committed"] IN
       {Done("committed", c, made),
        Returns(Result("no_verdict", TRUE, "verification_failed", NoCandidate, "none"), made),
        NotDone("committed", c, "fail", "scope_changed")}

DiscardCandidate(c) ==
  IF ~Loads(c) THEN Denied(c)
  ELSE {Done("discarded", c, [disk[c] EXCEPT !.record = left]) : left \in BOOLEAN}

ActionReturns(kind, c) ==
  CASE kind = "diff"    -> DiffCandidate(c)
    [] kind = "apply"   -> ApplyCandidate(c)
    [] kind = "undo"    -> UndoCandidate(c)
    [] kind = "commit"  -> CommitCandidate(c)
    [] kind = "discard" -> DiscardCandidate(c)

(* A change is proven by the build of its candidate; one proven by the     *)
(* wrong kind of check has no verdict.  A candidate with changes is        *)
(* retained, proven or not; an empty or refused one, and that of a stopped *)
(* task, is discarded.                                                     *)
ChangeProofs(done) ==
  LET outcome == CheckOutcome(done)
      worker == {[outcome |-> outcome, reason |-> ReasonCode(outcome, done)]}
  IN IF outcome = "pass"
       THEN worker \cup {[outcome |-> "no_verdict", reason |-> "missing_evidence"]}
       ELSE worker
ChangeReturn(t, done, p, kept) ==
  Returns(Result(p.outcome, Attempted(done), p.reason, Prepared(t, kept), "none"),
          IF kept THEN Retain ELSE Nothing)
ChangeReturns(t, done) ==
  {ChangeReturn(t, done, x[1], x[2]) : x \in ChangeProofs(done) \X BOOLEAN}
  \cup {Returns(Result("blocked", Attempted(done), "policy_denied", Prepared(t, FALSE), "none"),
               Nothing)}
NoChangePrepared ==
  {Returns(Result("blocked", FALSE, "policy_denied", NoCandidate, "none"), Nothing)}
StoppedChange ==
  {Returns(Result("blocked", FALSE, "cancelled", NoCandidate, "none"), Nothing),
   Returns(Result("no_verdict", FALSE, "cleanup_unknown", NoCandidate, "none"),
           Retain)}

(* A question is answered from what was read, or it is not.                *)
AnswerReturns(t) ==
  {Returns(Result("answered", FALSE, "verification_not_required", NoCandidate, "none"), disk[t]),
   Returns(Result("no_verdict", FALSE, "missing_evidence", NoCandidate, "none"), disk[t])}

(* A watch runs one step of its own and reports how it ended.              *)
WatchReturns(t) ==
  {Returns(Result(outcome, outcome # "no_verdict",
                      ReasonCode(outcome, <<[tool |-> "watch", out |-> "pass"]>>), NoCandidate, "none"),
           disk[t]) : outcome \in {"pass", "fail", "no_verdict"}}

CheckReturns(t) == {Returns(r, disk[t]) : r \in CheckResults(thread[t].done)}

ControllerReturns(t) ==
  LET w == thread[t] IN
    CASE w.kind \in Checks  -> CheckReturns(t)
      [] w.kind = "fix"     -> IF w.stop THEN StoppedChange
                               ELSE IF w.done = <<>> THEN NoChangePrepared
                               ELSE ChangeReturns(t, w.done)
      [] w.kind = "ask"     -> AnswerReturns(t)
      [] w.kind = "watch"   -> WatchReturns(t)
      [] OTHER              -> ActionReturns(w.kind, w.ref)

-----------------------------------------------------------------------------
(* The bundle that closes a task.                                          *)

(* derive_terminal_activity_truth.                                         *)
Cleanup(w) ==
  IF w.call # "none" \/ "adrift" \in StepOuts(w.done) THEN "unknown"
  ELSE IF "timeout" \in StepOuts(w.done) THEN "attempted"
  ELSE IF "cut" \in StepOuts(w.done) THEN "confirmed"
  ELSE "not_needed"

(* _with_reconciled_cleanup: a completed task whose processes are not      *)
(* accounted for has no verdict.                                           *)
Reconciled(r, cleanup) ==
  IF Projection(r.outcome).state # "completed" \/ cleanup \in {"not_needed", "confirmed"} THEN r
  ELSE Result("no_verdict", r.ran, "cleanup_unknown", r.cand, r.facts)

Cancelled(cleanup) ==
  Result("no_verdict", FALSE,
             IF cleanup = "confirmed" THEN "cancelled" ELSE "cancel_unreconciled",
             NoCandidate, "none")
Plain(reason) == Result("no_verdict", FALSE, reason, NoCandidate, "none")

Artifact(t, r) ==
  [task |-> t, outcome |-> r.outcome, state |-> Projection(r.outcome).state,
   verdict |-> Projection(r.outcome).verdict, ran |-> r.ran, verified |-> r.verified,
   cand |-> r.cand, facts |-> r.facts]
VerdictEvent(t, r) ==
  [kind |-> "task.verdict", task |-> t, status |-> Projection(r.outcome).state,
   verdict |-> Projection(r.outcome).verdict, reason |-> r.reason]
ClosedEvent(t, r, cleanup) ==
  [kind |-> "task.closed", task |-> t, status |-> Projection(r.outcome).state, cleanup |-> cleanup]

(* _retained_result and validate_terminal_completion: the retained result, *)
(* the verdict and the closure say the same.                               *)
RetainedOk(t, a) ==
  /\ a.task = t
  /\ CandidateOk(a.cand)
  /\ (a.outcome = "pass") = a.verified
  /\ a.verified => a.ran
  /\ [state |-> a.state, verdict |-> a.verdict] = Projection(a.outcome)
BundleOk(t, a, v, c) ==
  /\ RetainedOk(t, a)
  /\ v.status = a.state /\ c.status = a.state
  /\ v.verdict = a.verdict
  /\ c.cleanup \in {"confirmed", "not_needed", "attempted", "unknown"}
  /\ c.status = "completed" => c.cleanup \in {"not_needed", "confirmed"}

-----------------------------------------------------------------------------
(* The store and its writers.                                              *)

HubInit ==
  /\ stream = <<>>
  /\ row = <<>>
  /\ res = [t \in {} |-> 0]
  /\ thread = <<>>
  /\ disk = <<>>
  /\ mishaps = 0

(* append refuses an event of a task that is already terminal.             *)
AcceptsEvent(t) == ~row[t].terminal

Wrote(event) == stream' = Append(stream, event)
At(t, w) == thread' = [thread EXCEPT ![t] = w]
Ended(t, how) == [thread[t] EXCEPT !.pc = "done", !.end = how]
Mishap == mishaps < MaxMishaps /\ mishaps' = mishaps + 1

(* admit.  The dispatcher runs one turn at a time and a turn waits for its *)
(* task; a watch runs beside it.                                           *)
UserBusy == \E t \in Tasks : thread[t].kind # "watch" /\ Open(t)
WatchBusy == \E t \in Tasks : thread[t].kind = "watch" /\ Open(t)
Asked == [t \in Tasks |-> thread[t].kind]
Requests == UNION {{SubSeq(s, 1, n) : n \in 1 .. Len(s)} : s \in Sessions}
Candidates == {t \in Tasks : thread[t].kind = "fix"}

Admit(kind, c) ==
  /\ Append(Asked, kind) \in Requests
  /\ IF kind = "watch" THEN ~WatchBusy ELSE ~UserBusy
  /\ Wrote([kind |-> "task.admitted", task |-> Len(row) + 1, what |-> kind])
  /\ row' = Append(row, [state |-> "admitted", terminal |-> FALSE])
  /\ thread' = Append(thread, [kind |-> kind, ref |-> c, pc |-> "admitted", done |-> <<>>,
                           call |-> "none", stop |-> FALSE, r |-> Plain("none"), end |-> "-"])
  /\ disk' = Append(disk, Nothing)
  /\ UNCHANGED <<res, mishaps>>

AdmitTask == \E kind \in AllKinds \ Actions : Admit(kind, 0)
AdmitAction == \E kind \in Actions, c \in Candidates : Admit(kind, c)

(* task.state_changed from admitted to running; a stopped task has lost    *)
(* its authority and is closed instead.                                    *)
StartTask(t) ==
  /\ thread[t].pc = "admitted" /\ ~thread[t].stop /\ AcceptsEvent(t) /\ row[t].state = "admitted"
  /\ Wrote([kind |-> "task.state_changed", task |-> t, previous |-> "admitted", current |-> "running"])
  /\ row' = [row EXCEPT ![t].state = "running"]
  /\ At(t, [thread[t] EXCEPT !.pc = "running"])
  /\ UNCHANGED <<res, disk, mishaps>>

(* tool.started and tool.finished bracket the handler of a step.           *)
StartTool(t) ==
  LET tool == NextStep(thread[t].kind, thread[t].done) IN
  /\ thread[t].pc = "running" /\ tool # "none" /\ ~thread[t].stop /\ AcceptsEvent(t)
  /\ Wrote([kind |-> "tool.started", task |-> t, call |-> Len(thread[t].done) + 1, tool |-> tool])
  /\ At(t, [thread[t] EXCEPT !.pc = "tool", !.call = tool])
  /\ UNCHANGED <<row, res, disk, mishaps>>

FinishTool(t, out) ==
  /\ thread[t].pc = "tool" /\ AcceptsEvent(t)
  /\ out = "cut" => thread[t].stop
  /\ Wrote([kind |-> "tool.finished", task |-> t, call |-> Len(thread[t].done) + 1,
            tool |-> thread[t].call, out |-> out])
  /\ At(t, [thread[t] EXCEPT !.pc = "running", !.call = "none",
                           !.done = Append(thread[t].done, [tool |-> thread[t].call, out |-> out])])
  /\ UNCHANGED <<row, res, disk, mishaps>>

(* The controller returns: the effects of the task are made.  A change may *)
(* be refused before its candidate exists.                                 *)
Return(t) ==
  /\ thread[t].pc = "running"
  /\ \/ NextStep(thread[t].kind, thread[t].done) = "none" \/ thread[t].stop
     \/ thread[t].kind = "fix" /\ thread[t].done = <<>>
  /\ \E back \in ControllerReturns(t) :
       /\ At(t, [thread[t] EXCEPT !.pc = "returned", !.r = back.r])
       /\ disk' = [disk EXCEPT ![IF thread[t].kind \in Actions THEN thread[t].ref ELSE t] = back.disk]
  /\ UNCHANGED <<stream, row, res, mishaps>>

InsertArtifact(t, a) == [u \in DOMAIN res \cup {t} |-> IF u = t THEN a ELSE res[u]]

(* finalize_task: the retained result, the verdict and the closure in one  *)
(* transaction.                                                            *)
Finalize(t, r, cleanup) ==
  /\ stream' = stream \o <<VerdictEvent(t, r), ClosedEvent(t, r, cleanup)>>
  /\ row' = [row EXCEPT ![t] = [state |-> Projection(r.outcome).state, terminal |-> TRUE]]
  /\ res' = InsertArtifact(t, Artifact(t, r))

(* _finalize_result: a result that cannot be rendered raises and nothing   *)
(* is written; a bundle the writer refuses is a failed write.              *)
CloseTask(t, result) ==
  LET cleanup == Cleanup(thread[t])
      r == Reconciled(result, cleanup)
      fits == /\ AcceptsEvent(t)
              /\ BundleOk(t, Artifact(t, r), VerdictEvent(t, r), ClosedEvent(t, r, cleanup))
  IN
  /\ IF Renders(r) /\ fits THEN Finalize(t, r, cleanup) ELSE UNCHANGED <<stream, row, res>>
  /\ At(t, Ended(t, IF ~Renders(r) THEN "raised" ELSE IF fits THEN "closed" ELSE "lost"))
  /\ UNCHANGED disk

CommitResult(t) ==
  /\ thread[t].pc = "returned" /\ ~thread[t].stop
  /\ CloseTask(t, thread[t].r)
  /\ UNCHANGED mishaps

(* A revoked execution is closed without its result.                       *)
CloseStopped(t) ==
  /\ thread[t].stop /\ thread[t].pc \in {"admitted", "returned"}
  /\ CloseTask(t, Cancelled(Cleanup(thread[t])))
  /\ UNCHANGED mishaps

(* A fault of the controller closes the task outside the authority lock:   *)
(* it is still registered when its terminal is already written.            *)
Fault(t) ==
  LET cleanup == Cleanup(thread[t]) IN
  /\ thread[t].pc \in {"running", "tool"} /\ thread[t].kind # "watch" /\ AcceptsEvent(t) /\ Mishap
  /\ Finalize(t, Plain("controller_fault"), cleanup)
  /\ At(t, [thread[t] EXCEPT !.pc = "closing"])
  /\ UNCHANGED disk

Release(t) ==
  /\ thread[t].pc = "closing"
  /\ At(t, Ended(t, "closed"))
  /\ UNCHANGED <<stream, row, res, disk, mishaps>>

(* The write of the terminal fails.                                        *)
LoseWrite(t) ==
  /\ thread[t].pc = "returned" /\ Mishap
  /\ At(t, Ended(t, "lost"))
  /\ UNCHANGED <<stream, row, res, disk>>

(* request_cancel of a registered task: the epoch is revoked, and the      *)
(* intent written if the store takes it.                                   *)
Revoked(w) == [w EXCEPT !.stop = TRUE]
CancelEvent(t) == [kind |-> "task.cancel_requested", task |-> t]
RequestCancel(t) ==
  /\ Open(t) /\ thread[t].kind # "watch" /\ ~thread[t].stop /\ Mishap
  /\ At(t, Revoked(thread[t]))
  /\ IF AcceptsEvent(t) THEN Wrote(CancelEvent(t)) ELSE UNCHANGED stream
  /\ UNCHANGED <<row, res, disk>>

\* A plausible bug: recovery closes every task of the index.
EveryTask == Tasks

(* The process dies and the Hub is opened again: recover_unknown_tasks     *)
(* closes what was left open, in the order of admission.                   *)
LeftOpen == {t \in Tasks : ~row[t].terminal}
Closures(n) == <<VerdictEvent(n, Plain("controller_restarted")),
                 ClosedEvent(n, Plain("controller_restarted"), "unknown")>>
Recovered ==
  LET upTo[n \in 0 .. Len(row)] ==
        IF n = 0 THEN stream
                 ELSE IF n \in LeftOpen THEN upTo[n - 1] \o Closures(n) ELSE upTo[n - 1]
  IN  upTo[Len(row)]
Reopen ==
  /\ LeftOpen # {} /\ Mishap
  /\ stream' = Recovered
  /\ row' = [t \in Tasks |-> IF row[t].terminal THEN row[t]
                             ELSE [state |-> "unknown", terminal |-> TRUE]]
  /\ res' = [t \in Tasks |-> IF t \in DOMAIN res THEN res[t]
                             ELSE Artifact(t, Plain("controller_restarted"))]
  /\ thread' = [t \in Tasks |-> IF Open(t) THEN Ended(t, "closed") ELSE thread[t]]
  /\ UNCHANGED disk

HubNext ==
  \/ AdmitTask
  \/ AdmitAction
  \/ Reopen
  \/ \E t \in Tasks :
       \/ StartTask(t)
       \/ StartTool(t)
       \/ \E out \in Outs : FinishTool(t, out)
       \/ Return(t)
       \/ CommitResult(t)
       \/ CloseStopped(t)
       \/ Fault(t)
       \/ Release(t)
       \/ LoseWrite(t)
       \/ RequestCancel(t)

HubSpec == HubInit /\ [][HubNext]_hubVars

-----------------------------------------------------------------------------
(* The Hub's projection of the tasks: a fold of each task's own events in  *)
(* the order of their sequence numbers.  `bad' is TaskReadModelError.      *)

NoCard == [seen |-> FALSE, bad |-> FALSE, check |-> "none", state |-> "-", open |-> {},
           verdict |-> "none", reason |-> "none", cleanup |-> "none", cancel |-> FALSE,
           closed |-> 0, last |-> 0, ran |-> FALSE, verified |-> FALSE, cand |-> NoCandidate]

OnAdmitted(s, e) ==
  [s EXCEPT !.bad = s.bad \/ s.seen, !.seen = TRUE, !.state = "admitted",
            !.check = IF e.what \in Checks THEN e.what ELSE "none"]
OnStateChanged(s, e) ==
  [s EXCEPT !.bad = s.bad \/ e.previous # s.state, !.state = e.current]
OnToolStarted(s, e) ==
  [s EXCEPT !.bad = s.bad \/ \E o \in s.open : o[1] = e.call,
            !.open = s.open \cup {<<e.call, e.tool>>}]
OnToolFinished(s, e) ==
  [s EXCEPT !.bad = s.bad \/ <<e.call, e.tool>> \notin s.open,
            !.open = s.open \ {<<e.call, e.tool>>}]
OnCancelRequested(s) == [s EXCEPT !.cancel = TRUE]
OnVerdict(s, e) == [s EXCEPT !.verdict = e.verdict, !.reason = e.reason]
OnClosed(s, e, n) ==
  [s EXCEPT !.bad = s.bad \/ s.verdict = "none", !.state = e.status, !.cleanup = e.cleanup,
            !.closed = n]
OnEvent(s, e, n) ==
  CASE e.kind = "task.admitted"         -> OnAdmitted(s, e)
    [] e.kind = "task.state_changed"    -> OnStateChanged(s, e)
    [] e.kind = "tool.started"          -> OnToolStarted(s, e)
    [] e.kind = "tool.finished"         -> OnToolFinished(s, e)
    [] e.kind = "task.cancel_requested" -> OnCancelRequested(s)
    [] e.kind = "task.verdict"          -> OnVerdict(s, e)
    [] e.kind = "task.closed"           -> OnClosed(s, e, n)

(* The first event must be the admission, and none may follow the closure. *)
Misplaced(s, e) == s.closed # 0 \/ (~s.seen /\ e.kind # "task.admitted")
ProjectRelevant(s, e, n) ==
  LET after == OnEvent(s, e, n) IN
    [after EXCEPT !.last = n, !.bad = after.bad \/ Misplaced(s, e)]

IfOwn(s, e, n, t) == IF e.task = t THEN ProjectRelevant(s, e, n) ELSE s
ProjectTask(events, t) ==
  LET card[n \in 0 .. Len(events)] ==
        IF n = 0 THEN NoCard ELSE IfOwn(card[n - 1], events[n], n, t)
  IN  card[Len(events)]

\* A list of what there is of every task, in the order of admission.
Listed(f) == SubSeq(f, 1, Len(row))
ProjectTasks == Listed([t \in Tasks |-> ProjectTask(stream, t)])

-----------------------------------------------------------------------------
(* The retained results, read back.                                        *)

(* _parse_result and _result_from_record: the artifact names its task and  *)
(* agrees with the store's index.                                          *)
ArtifactBytes(t) == t \in DOMAIN res
ParseResult(t) == res[t].task = t /\ CandidateOk(res[t].cand)
ResultForTask(t) ==
  row[t].terminal /\ ArtifactBytes(t) /\ ParseResult(t) /\ res[t].state = row[t].state

(* _hydrate_retained_results: a card whose result cannot be read keeps its *)
(* verdict and loses its proof and its candidate.                          *)
HydrateResult(t, s) ==
  IF s.closed # 0 /\ ResultForTask(t) /\ res[t].state = s.state /\ res[t].verdict = s.verdict
    THEN [s EXCEPT !.ran = res[t].ran, !.verified = res[t].verified, !.cand = res[t].cand]
    ELSE s

Cards == LET projected == ProjectTasks IN Listed([t \in Tasks |-> HydrateResult(t, projected[t])])

-----------------------------------------------------------------------------
(* When a run of a configured check replaces an older one: the one policy  *)
(* of the Hub and of the router.                                           *)

CheckRunIsSuperseded(runs, target) ==
  \E other \in runs : other.sequence > target.sequence /\ other.check = target.check

-----------------------------------------------------------------------------
(* The Hub: task selector, buttons and Attention.                          *)

ExecutedCheck(card) ==
  card.check # "none" /\ card.closed # 0 /\ card.verdict \in {"VERIFIED", "FAILED"} /\ card.ran
CheckRun(card) == [check |-> card.check, sequence |-> card.last]
SupersededCheck(cards, t) ==
  /\ ExecutedCheck(cards[t])
  /\ CheckRunIsSuperseded({CheckRun(cards[u]) : u \in {v \in Tasks : ExecutedCheck(cards[v])}},
                          CheckRun(cards[t]))

(* _candidate_tasks: the latest task of every candidate.                   *)
WithCandidate(cards, c) == {t \in Tasks : cards[t].cand.role # "none" /\ cards[t].cand.id = c}
Newest(cards, ts) == CHOOSE t \in ts : \A u \in ts : cards[u].last <= cards[t].last
CandidateTask(cards, c) == Newest(cards, WithCandidate(cards, c))

CheckFailure(card) ==
  card.closed # 0 /\ card.verdict = "FAILED" /\ card.check # "none" /\ card.cand.role = "none"
FixEnabled(cards, t) == CheckFailure(cards[t]) /\ ~SupersededCheck(cards, t)

RetainedResultVerified(card) == card.verdict = "VERIFIED" /\ card.verified
CandidateNotApplied(card) == card.cand.role = "prepared" /\ card.cand.retained

(* The Review and Apply buttons, and the Undo and Commit buttons, of the   *)
(* selected candidate.                                                     *)
ApplyEnabled(cards, c) ==
  /\ WithCandidate(cards, c) # {}
  /\ cards[CandidateTask(cards, c)].cand.role \in {"prepared", "reviewed", "apply_refused"}
  /\ \E t \in WithCandidate(cards, c) : CandidateNotApplied(cards[t]) /\ RetainedResultVerified(cards[t])
UndoEnabled(cards, c) ==
  /\ WithCandidate(cards, c) # {}
  /\ LET card == cards[CandidateTask(cards, c)] IN
       card.cand.role = "applied" /\ RetainedResultVerified(card)

(* on_button_pressed: the commands the enabled buttons post.               *)
Offers(cards, c) ==
  (IF ApplyEnabled(cards, c) THEN {"diff", "apply"} ELSE {})
    \cup (IF UndoEnabled(cards, c) THEN {"undo", "commit"} ELSE {})

(* render_attention: what each task asks of the user, newest first, three  *)
(* at most.  A review is not a state of its candidate.                     *)
StateTasks(cards, c) == {t \in WithCandidate(cards, c) : cards[t].cand.role # "reviewed"}
Hidden(cards, t) ==
  LET card == cards[t] IN
    \/ /\ card.cand.role # "none"
       /\ t \notin {Newest(cards, ts) : ts \in {StateTasks(cards, card.cand.id)} \ {{}}}
    \/ SupersededCheck(cards, t)
AttentionItem(cards, t) ==
  LET card == cards[t] IN
    CASE Hidden(cards, t) -> "none"
      [] ~Hidden(cards, t) /\ CandidateNotApplied(card) /\ RetainedResultVerified(card) -> "ready"
      [] OTHER -> IF card.verdict \in {"FAILED", "NO_VERDICT"} /\ card.closed # 0
                     /\ ~(card.reason = "cancelled" /\ card.cleanup = "confirmed")
                  THEN "trouble" ELSE "none"
RenderAttention(cards) ==
  LET items == {t \in Tasks : AttentionItem(cards, t) # "none"} IN
    {t \in items : Cardinality({u \in items : cards[u].last > cards[t].last}) < 3}

-----------------------------------------------------------------------------
(* The router: the task history behind `Fix task'.                         *)

Events(t, kind) == {n \in 1 .. Len(stream) : stream[n].task = t /\ stream[n].kind = kind}

(* failure_kind: the last step of the task that ran and failed.            *)
FailureKind(t) ==
  LET failed == {n \in Events(t, "tool.finished") : stream[n].out = "fail"} IN
    IF failed = {} THEN "none"
    ELSE LET n == CHOOSE n \in failed : \A k \in failed : k <= n IN
           IF stream[n].tool = "build_target" THEN "build" ELSE "test"

AdmittedAs(t) == stream[CHOOSE n \in Events(t, "task.admitted") : TRUE].what
FailureCandidates ==
  {t \in Tasks : /\ AdmittedAs(t) # "watch"
                 /\ \E n \in Events(t, "task.verdict") : stream[n].verdict = "FAILED"}

(* _failure_observations: one result that cannot be read hides every       *)
(* failure.                                                                *)
FailureObservations ==
  IF \A t \in FailureCandidates : row[t].terminal /\ ResultForTask(t)
    THEN FailureCandidates ELSE {}

\* A plausible bug: a run that closed at all counts as one that executed.
ClosedCheckRuns == {t \in Tasks : AdmittedAs(t) \in Checks /\ row[t].terminal}

ExecutedCheckRun(t, n) == [check |-> AdmittedAs(t), sequence |-> n]
ExecutedCheckRuns ==
  {t \in Tasks : /\ AdmittedAs(t) \in Checks
                 /\ Events(t, "task.verdict") # {}
                 /\ ResultForTask(t)
                 /\ res[t].ran /\ res[t].verdict \in {"VERIFIED", "FAILED"}}
VerdictSequence(t) == CHOOSE n \in Events(t, "task.verdict") : \A k \in Events(t, "task.verdict") : k <= n

(* fixable_failure_task_ids: a check without proof that it ran fails       *)
(* closed, one that a later run replaced has nothing left to fix, and any  *)
(* other failure stays eligible.                                           *)
FixableFailures ==
  LET runs == {ExecutedCheckRun(u, VerdictSequence(u)) : u \in ExecutedCheckRuns} IN
    {t \in FailureCandidates :
       IF t \in ExecutedCheckRuns
         THEN ~CheckRunIsSuperseded(runs, ExecutedCheckRun(t, VerdictSequence(t)))
         ELSE AdmittedAs(t) \notin Checks}

(* decide_route for `Fix task <id>': the failure is known, current, and of *)
(* a kind some repair exists for.                                          *)
RouterFixes(t) ==
  t \in FailureObservations /\ t \in FixableFailures /\ FailureKind(t) # "none"

-----------------------------------------------------------------------------
(* Properties.                                                             *)

Outcomes == {"pass", "answered", "fail", "blocked", "no_verdict"}
Verdicts == {"VERIFIED", "NOT_REQUIRED", "FAILED", "REFUSED", "NO_VERDICT"}
States == {"admitted", "running", "completed", "failed", "blocked", "unknown"}
Reasons == {"none"} \cup UNION {AllowedReasons(v) : v \in Verdicts}
Tools == {"build_target", "run_test"}
Cleanups == {"not_needed", "confirmed", "attempted", "unknown"}
CandidateFacts == [role : Roles, id : Nat, retained : BOOLEAN]
Results == [outcome : Outcomes, ran : BOOLEAN, verified : BOOLEAN, reason : Reasons,
            cand : CandidateFacts, facts : {"none", "build", "tests"}]
Artifacts == [task : Nat, outcome : Outcomes, state : States, verdict : Verdicts, ran : BOOLEAN,
              verified : BOOLEAN, cand : CandidateFacts, facts : {"none", "build", "tests"}]
Rows == [state : States, terminal : BOOLEAN]
Disks == [record : BOOLEAN, applied : {"no", "yes", "committed"}]
Threads == [kind : AllKinds, ref : Nat, done : Seq([tool : Tools, out : Outs]),
            pc : {"admitted", "running", "tool", "returned", "closing", "done"},
            call : Tools \cup {"none"}, stop : BOOLEAN, r : Results,
            end : {"-", "closed", "lost", "raised"}]
StreamEvents ==
  [kind : {"task.admitted"}, task : Nat, what : AllKinds]
    \cup [kind : {"task.state_changed"}, task : Nat, previous : States, current : States]
    \cup [kind : {"tool.started"}, task : Nat, call : Nat, tool : Tools]
    \cup [kind : {"tool.finished"}, task : Nat, call : Nat, tool : Tools, out : Outs]
    \cup [kind : {"task.cancel_requested"}, task : Nat]
    \cup [kind : {"task.verdict"}, task : Nat, status : States, verdict : Verdicts, reason : Reasons]
    \cup [kind : {"task.closed"}, task : Nat, status : States, cleanup : Cleanups]
HubTypeOK ==
  /\ stream \in Seq(StreamEvents)
  /\ row \in Seq(Rows)
  /\ thread \in Seq(Threads) /\ Len(thread) = Len(row)
  /\ \A t \in Tasks : thread[t].kind \in Actions => thread[t].ref \in Candidates
  /\ disk \in Seq(Disks) /\ Len(disk) = Len(row)
  /\ DOMAIN res = {t \in Tasks : row[t].terminal} /\ res \in [DOMAIN res -> Artifacts]
  /\ mishaps \in 0 .. MaxMishaps

(* Every task of the stream projects without an error and every closed     *)
(* task's retained result is read back and agrees with its card, whatever  *)
(* Stops, faults, failed writes and crashes came between: one bad task     *)
(* would take the whole Hub with it (project_tasks raises for the stream)  *)
(* and hide every failure from the router (_failure_observations).         *)
StreamReadable ==
  LET cards == Cards IN
    \A t \in Tasks :
      /\ cards[t].seen /\ ~cards[t].bad
      /\ (cards[t].closed # 0) = row[t].terminal
      /\ row[t].terminal => /\ ResultForTask(t)
                            /\ res[t].state = cards[t].state /\ res[t].verdict = cards[t].verdict

(* The Hub's Fix button and the router's `Fix task <id>', two projections  *)
(* of the same stream by two sequence numbers, agree: for a check that ran *)
(* the button is enabled exactly when the router would start the repair,   *)
(* the router never starts one the Hub does not offer, and the retained    *)
(* failing step names the kind of repair the router chooses.               *)
FixIsHonoured ==
  LET cards == Cards IN
    \A t \in Tasks : thread[t].kind \in Checks =>
      /\ RouterFixes(t) => FixEnabled(cards, t)
      /\ FixEnabled(cards, t) /\ cards[t].ran => RouterFixes(t)
      /\ RouterFixes(t) /\ res[t].facts # "none" =>
           (res[t].facts = "build") = (FailureKind(t) = "build")

(* Attention and the buttons agree: an action that did not succeed takes   *)
(* no offer away, and none is offered of what was used up.  A candidate    *)
(* Attention calls ready can be applied with the button.                   *)
ReadyIsOffered(cards) ==
  \A t \in RenderAttention(cards) :
    AttentionItem(cards, t) = "ready" => "apply" \in Offers(cards, cards[t].cand.id)

(* A change whose apply was reported VERIFIED, and which can still be      *)
(* undone, keeps its Undo and Commit buttons until another action on it is *)
(* VERIFIED, or another apply of what the first one left of the candidate  *)
(* is refused by the checkout.                                             *)
AppliedIsOffered(cards) ==
  \A t \in Tasks :
    /\ thread[t].kind = "apply" /\ cards[t].verdict = "VERIFIED"
    /\ disk[thread[t].ref].applied = "yes"
    /\ \A u \in Tasks : u > t /\ thread[u].ref = thread[t].ref =>
         cards[u].verdict # "VERIFIED" /\ cards[u].cand.role # "apply_refused"
    => {"undo", "commit"} \subseteq Offers(cards, thread[t].ref)

(* A change undone or committed is not offered for it again, unless it was *)
(* applied again.                                                          *)
UndoneIsSpent(cards) ==
  \A t \in Tasks :
    /\ thread[t].kind \in {"undo", "commit"} /\ cards[t].verdict = "VERIFIED"
    /\ \A u \in Tasks : u > t /\ thread[u].kind = "apply" /\ thread[u].ref = thread[t].ref =>
         cards[u].verdict # "VERIFIED"
    => Offers(cards, thread[t].ref) \cap {"undo", "commit"} = {}

(* Review and Apply of a candidate whose record is gone are offered only   *)
(* after an apply or a discard whose own success was lost on the way to    *)
(* the stream.                                                             *)
GoneIsSpent(cards) ==
  \A c \in Candidates : "apply" \in Offers(cards, c) /\ ~disk[c].record =>
    \E u \in Tasks : /\ thread[u].kind \in {"apply", "discard"} /\ thread[u].ref = c
                     /\ thread[u].r.outcome = "pass" /\ cards[u].verdict # "VERIFIED"

OffersAgree ==
  LET cards == Cards IN
    /\ ReadyIsOffered(cards)
    /\ AppliedIsOffered(cards)
    /\ UndoneIsSpent(cards)
    /\ GoneIsSpent(cards)

(* `The check could not be run (blocked, errored, timed out): no verdict.' *)
(* (configured_checks.py): a configured check that closed VERIFIED passed  *)
(* every one of its steps.                                                 *)
VerifiedChecksRan ==
  \A t \in Tasks : thread[t].kind \in Checks /\ t \in DOMAIN res /\ res[t].verdict = "VERIFIED" =>
    [i \in 1 .. Len(thread[t].done) |-> thread[t].done[i].tool] = Steps(thread[t].kind)
      /\ StepOuts(thread[t].done) = {"pass"}

(* `leaving the admitted task non-terminal forever is also false'          *)
(* (cancellable_task_executor.py): a task whose thread ended is terminal,  *)
(* unless the store itself refused the write.                              *)
ReturnedIsClosed ==
  \A t \in Tasks : ~Open(t) /\ ~row[t].terminal => thread[t].end = "lost"
=============================================================================
