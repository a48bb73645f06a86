------------------------------ MODULE WorkerLoop ------------------------------
(***************************************************************************)
(* One task carried out by the worker loop (agent/orchestrator.py) and      *)
(* judged by the task controller (session/task_controller.py): model turns, *)
(* guarded tool calls, the verification state that only tool results move,  *)
(* the escalation from the cheap to the strong tier with the journal's      *)
(* revert, the controller's own check of a candidate and the result with    *)
(* its proof binding.                                                       *)
(*                                                                         *)
(* What the model answers is arbitrary.  The history of tool calls is kept  *)
(* folded to what the code reads back from it.                              *)
(***************************************************************************)
EXTENDS RepositoryTools

CONSTANTS
    Modes,        \* the ways a task is run, a subset of AllModes
    MaxCalls,     \* policy.max_tool_calls
    MaxRetry,     \* the same for the run on the strong tier (a smaller instance)
    MaxRepeats,   \* policy.max_repeat_calls
    MaxUnknown,   \* calls of tools the worker cannot use before it is halted
    MaxOver,      \* bound: calls of one reply past the budget, which is only
                  \* compared between replies
    MaxPatches,   \* bound: proposals in one task
    Default       \* the profile a configured check runs

AllModes == {"cli", "check", "fix-build", "fix-test", "change"}

ASSUME LoopAssumption ==
    /\ Modes \subseteq AllModes
    /\ {MaxCalls, MaxRetry, MaxRepeats, MaxUnknown} \subseteq Nat \ {0}
    /\ {MaxPatches, MaxOver} \subseteq Nat
    /\ Default \in Profiles

VARIABLES
    mode,     \* how the task is run
    stop,     \* the user asked for Stop
    pc,       \* where the run is
    phase,    \* "first" run, "retry" on the strong tier, controller "check"
    st,       \* AgentState of the current run
    worker,   \* the verdict on the worker's run while the check runs
    proof,    \* the tree the last current-tree proof was about
    result    \* the TaskResult

loopVars == <<toolVars, mode, stop, pc, phase, st, worker, proof, result>>

-----------------------------------------------------------------------------
(* The ways a task is run *)

\* "cli" is the command line's tiered run with escalation; "check" a configured
\* check on the user's checkout, driven by a fixed plan; the others are the
\* source-changing skills, in a candidate worktree nobody else edits.  Every
\* one of these requires verification.
Candidate == mode \in {"fix-build", "fix-test", "change"}
Planned == mode = "check" \/ phase = "check"
Budget == IF phase = "retry" THEN MaxRetry ELSE MaxCalls
Speculative == mode = "cli" /\ phase = "first"

\* policy.check and the approval function of each mode: what a tool call meets
\* before its handler runs.
PolicyVerdicts(tool) ==
    IF tool = "git_commit" THEN
        IF mode = "cli" /\ ~Speculative THEN {"allow", "decline"} ELSE {"deny"}
    ELSE IF tool = "apply_patch" THEN
        IF mode = "cli" THEN {"allow", "decline", "deny"}
        ELSE IF Candidate THEN {"allow"} ELSE {"deny"}
    ELSE IF tool \in {"build_target", "configure_project", "run_test"} /\ ~Candidate
        THEN {"allow", "deny"}
    ELSE {"allow"}

-----------------------------------------------------------------------------
(* AgentState *)

\* The calls a worker can only repeat word for word.  The others carry a path,
\* a target, a filter, a text or a patch id that it may vary.
Signatures == {"build all", "test all"}

FreshState ==
    [calls |-> 0, unknown |-> 0, epoch |-> 0, verified |-> FALSE, attempted |-> FALSE,
     claim |-> "none", answered |-> FALSE, halt |-> "none",
     nudged |-> FALSE, reminded |-> FALSE,
     proposal |-> 0, blocked |-> FALSE, cleanup |-> FALSE,
     repeats |-> [g \in Signatures |-> 0],
     last |-> "none", full |-> "none", tests |-> FALSE, builds |-> FALSE,
     steps |-> 0, passed |-> TRUE]

Signature(o) == IF o.tool = "build_target" THEN "build all" ELSE "test all"
Counted(o) == o.tool \in {"build_target", "run_test"} /\ o.all

\* classify_proof, of one finished call.
ClassifyProof(o) ==
    IF o.tool \notin {"build_target", "run_test"} \/ o.result.exec # "ok"
       \/ o.result.domain = "unknown" THEN "none"
    ELSE IF o.tool = "build_target" THEN
        IF o.result.domain = "fail" THEN "observed_build_fail"
        ELSE IF o.all THEN "full_build_pass" ELSE "targeted_build_pass"
    ELSE IF o.result.domain = "fail" THEN "observed_test_fail"
    ELSE IF o.all THEN "full_test_pass" ELSE "targeted_test_pass"

CurrentTreeProofs == {"full_build_pass", "full_test_pass"}
Contradicts == {"observed_build_fail", "observed_test_fail"}

Repeats(s, o) ==
    IF Counted(o) THEN [s.repeats EXCEPT ![Signature(o)] = @ + 1] ELSE s.repeats

\* state.record and what the rest of the code reads back from the history:
\* the last proof of the current epoch (_current_tree_observed_failure), the
\* last full one (binding_from_run), the required ones since the last
\* contradiction (candidate_proof_satisfied), the first blocked call, and the
\* unapplied proposal (_unapplied_proposal).
Recorded(s, o) ==
    LET p == ClassifyProof(o)
        contra == p \in Contradicts
    IN [s EXCEPT
        !.calls = @ + 1,
        !.repeats = Repeats(s, o),
        !.blocked = @ \/ o.result.exec = "blocked",
        !.cleanup = @ \/ o.result.reason = "cleanup_unknown",
        !.last = IF p = "none" THEN @ ELSE p,
        !.full = IF p \in CurrentTreeProofs THEN p ELSE @,
        !.tests = ~contra /\ (@ \/ p = "full_test_pass"),
        !.builds = ~contra /\ (@ \/ p \in CurrentTreeProofs),
        !.steps = IF Planned THEN @ + 1 ELSE @,
        !.passed = @ /\ (Planned => o.result.exec = "ok" /\ o.result.domain = "pass")]

\* Mutant: an edit that leaves the verification mark standing.
JudgedKeepsMark(s, o) ==
    LET p == ClassifyProof(o)
    IN  [s EXCEPT !.attempted = @ \/ p # "none",
                  !.verified = (@ \/ p \in CurrentTreeProofs) /\ p \notin Contradicts,
                  !.epoch = IF o.result.ok /\ o.tool = "apply_patch" THEN 1 ELSE @]

\* The tail of _execute: verified, attempted and the mutation epoch.  A new
\* epoch forgets what was recorded in the old one.
Judged(s, o) ==
    LET p == ClassifyProof(o)
        observed == o.result.exec = "ok" /\ o.result.domain # "unknown"
        mutated == o.result.ok /\ o.tool \in {"apply_patch", "git_commit"}
        verified == IF p \in Contradicts THEN FALSE
                    ELSE s.verified \/ p \in CurrentTreeProofs
        t == [s EXCEPT
                !.attempted = @ \/ (observed /\ o.tool \in {"build_target", "run_test"}),
                !.verified = verified]
    IN IF mutated
       THEN [t EXCEPT !.epoch = 1, !.verified = FALSE, !.last = "none", !.full = "none",
                      !.tests = FALSE, !.builds = FALSE,
                      !.repeats = [g \in Signatures |-> 0]]
       ELSE t

EditingToolset == mode = "cli" \/ Candidate

\* _edit_reminder: a proposal left unapplied, or nothing changed at all.
EditReminder(s, claim) ==
    /\ EditingToolset /\ phase # "check"
    /\ s.proposal # 0 \/ (s.epoch = 0 /\ claim # "failure")

NoResult == [outcome |-> "none", verified |-> FALSE, scope |-> "none", tree |-> NoTree,
             reason |-> "none"]

-----------------------------------------------------------------------------
LoopInit ==
    /\ ToolsInit
    /\ mode \in Modes
    /\ (Candidate => dir = NoDir)
    /\ stop = FALSE
    /\ pc = "turn"
    /\ phase = "first"
    /\ st = FreshState
    /\ worker = NoResult
    /\ proof = NoTree
    /\ result = NoResult

Halt(cause) ==
    /\ st' = [st EXCEPT !.halt = cause]
    /\ pc' = "ended"

LoopUnchanged == UNCHANGED <<mode, phase, worker, proof, result>>

\* The user presses Stop; only a task of the session hub has a Stop token.
PressStop ==
    /\ ~stop /\ mode # "cli" /\ pc # "done"
    /\ stop' = TRUE
    /\ UNCHANGED <<toolVars, pc, st>> /\ LoopUnchanged

-----------------------------------------------------------------------------
(* A turn of _run_once *)

TurnBudget ==
    /\ pc = "turn" /\ st.calls >= Budget
    /\ Halt("budget_exhausted")
    /\ UNCHANGED <<toolVars, stop>> /\ LoopUnchanged

\* The request does not fit, the server is away or stalls, or Stop cuts the
\* call.  A fixed plan makes no inference call.
TurnFails(cause) ==
    /\ pc = "turn" /\ st.calls < Budget /\ ~Planned
    /\ cause = "stopped" => stop
    /\ Halt(cause)
    /\ UNCHANGED <<toolVars, stop>> /\ LoopUnchanged

\* Mutant: only the last prompt sent is remembered, not each of the two.
TurnProseForgets(shaped) ==
    /\ pc = "turn" /\ st.calls < Budget /\ ~Planned
    /\ st' = IF st.reminded THEN [st EXCEPT !.nudged = TRUE, !.reminded = FALSE]
             ELSE [st EXCEPT !.reminded = TRUE, !.nudged = FALSE]
    /\ UNCHANGED <<pc, toolVars, stop>> /\ LoopUnchanged

\* A reply without tool calls: one nudge for a claim written as prose, one
\* reminder of the missing edit, one nudge to submit, then the run ends.
TurnProse(shaped) ==
    /\ pc = "turn" /\ st.calls < Budget /\ ~Planned
    /\ \/ /\ st.claim = "none" /\ shaped /\ ~st.nudged
          /\ st' = [st EXCEPT !.nudged = TRUE] /\ pc' = "turn"
       \/ /\ ~(st.claim = "none" /\ shaped /\ ~st.nudged)
          /\ IF ~st.reminded /\ EditReminder(st, st.claim)
             THEN st' = [st EXCEPT !.reminded = TRUE] /\ pc' = "turn"
             ELSE IF st.claim = "none" /\ ~st.nudged
             THEN st' = [st EXCEPT !.nudged = TRUE] /\ pc' = "turn"
             ELSE /\ \E empty \in BOOLEAN : st' = [st EXCEPT !.answered = ~empty]
                  /\ pc' = "ended"
    /\ UNCHANGED <<toolVars, stop>> /\ LoopUnchanged

\* A reply with tool calls: the first call, or the next one of the same reply.
Calling == pc = "call" \/ (pc = "turn" /\ st.calls < Budget)

\* ConfiguredCheckPlan: the build, then (for tests) the suite, while every
\* step passed; then the answer.
PlanSteps == IF mode = "fix-build" /\ phase = "check" THEN 1 ELSE 2
PlanNext ==
    IF st.passed /\ st.steps = 0 THEN "build_target"
    ELSE IF st.passed /\ st.steps = 1 /\ PlanSteps = 2 THEN "run_test" ELSE "submit"
PlanClaim == IF st.passed THEN "success" ELSE "failure"

\* Mutant: any full proof satisfies every skill.
AnyProofSatisfies(s) == s.verified

\* candidate_proof_satisfied: the proof the skill requires, since the last
\* contradiction.
ProofSatisfied(s) == s.verified /\ (IF mode = "fix-build" THEN s.builds ELSE s.tests)

\* _repair_completion: a repair may end without another model turn.
RepairComplete(s) ==
    /\ mode \in {"fix-build", "fix-test"} /\ phase = "first"
    /\ ~EditReminder(s, s.claim)
    /\ s.epoch > 0 /\ s.claim \in {"none", "success"} /\ ~s.cleanup
    /\ ProofSatisfied(s)

\* After a call: more calls of the same reply, or the end of the batch, where a
\* repair may be complete and otherwise the next turn begins.  One more call of
\* the reply differs from the first call of the next reply only where the end
\* of the batch would be noticed.
Continue(s) ==
    \/ /\ ~Planned /\ (RepairComplete(s) \/ s.calls >= Budget)
       /\ s.calls < Budget + MaxOver
       /\ st' = s /\ pc' = "call"
    \/ IF RepairComplete(s)
       THEN st' = [s EXCEPT !.answered = TRUE] /\ pc' = "ended"
       ELSE st' = s /\ pc' = "turn"

\* The claim is recorded; what it cites is reported and never decides `verified'.
AcceptAnswer(s, claim) == [s EXCEPT !.claim = claim]

\* submit_answer ends the batch and the run, unless it is the last call of the
\* batch and the edit reminder is still due; the claim is recorded either way.
CallSubmit(claim, lastCall) ==
    /\ Calling
    /\ Planned => PlanNext = "submit" /\ claim = PlanClaim /\ lastCall
    /\ IF lastCall /\ ~st.reminded /\ EditReminder(st, claim)
       THEN st' = [AcceptAnswer(st, claim) EXCEPT !.reminded = TRUE] /\ pc' = "turn"
       ELSE st' = [AcceptAnswer(st, claim) EXCEPT !.answered = TRUE] /\ pc' = "ended"
    /\ UNCHANGED <<toolVars, stop>> /\ LoopUnchanged

\* A name nobody registers, or a tool the skill does not offer.
CallUnknown ==
    /\ Calling /\ ~Planned
    /\ LET s == [st EXCEPT !.calls = @ + 1, !.unknown = @ + 1]
       IN  IF s.unknown >= MaxUnknown
           THEN st' = [s EXCEPT !.halt = "unknown_tools"] /\ pc' = "ended"
           ELSE Continue(s)
    /\ UNCHANGED <<toolVars, stop>> /\ LoopUnchanged

CallTools ==
    {[NoOp EXCEPT !.tool = t, !.step = "start"] :
        t \in {"read", "propose_patch", "apply_patch", "git_commit"}} \cup
    {[NoOp EXCEPT !.tool = "configure_project", !.profile = p, !.step = "start"] :
        p \in Profiles} \cup
    {[NoOp EXCEPT !.tool = c[1], !.all = c[2], !.profile = c[3], !.step = "start"] :
        c \in {"build_target", "run_test"} \X BOOLEAN \X Profiles}

\* What the skill offers and the plan asks for.
Offered(o) ==
    /\ Planned => o.tool = PlanNext /\ o.all /\ o.profile = Default
    /\ o.tool = "propose_patch" => EditingToolset /\ patches.used < MaxPatches

\* The repeat guard of _execute, inside the current epoch.
CallRepeated(o) ==
    /\ Calling /\ Offered(o)
    /\ Counted(o) /\ st.repeats[Signature(o)] >= MaxRepeats
    /\ st' = [st EXCEPT !.calls = @ + 1, !.halt = "repeat_loop"]
    /\ pc' = "ended"
    /\ UNCHANGED <<toolVars, stop>> /\ LoopUnchanged

\* Denied by policy or declined by the operator: recorded as blocked.
CallRefused(o, verdict) ==
    /\ Calling /\ Offered(o)
    /\ Counted(o) => st.repeats[Signature(o)] < MaxRepeats
    /\ verdict \in PolicyVerdicts(o.tool) \ {"allow"}
    /\ LET reason == IF verdict = "deny" THEN "policy_denied" ELSE "approval_declined"
       IN  Continue(Recorded(st, [o EXCEPT !.result = BlockedBy(reason)]))
    /\ UNCHANGED <<toolVars, stop>> /\ LoopUnchanged

\* The call passes the guards of _execute and its handler is entered.
Allowed(o) ==
    /\ Calling /\ Offered(o)
    /\ Counted(o) => st.repeats[Signature(o)] < MaxRepeats
    /\ "allow" \in PolicyVerdicts(o.tool)

\* What _execute leaves of a call that returned with this result.
After(o, res) == LET done == [o EXCEPT !.result = res] IN Judged(Recorded(st, done), done)

\* Handlers that are one step: reads, a commit, and every tool that raises a
\* ToolError (bad path, text not found or not unique, a patch id unknown,
\* superseded or already taken).
CallQuick(o, res) ==
    /\ Allowed(o)
    /\ \/ o.tool \in {"read", "git_commit"}
       \/ o.tool \in {"propose_patch", "apply_patch"} /\ ~res.ok
    /\ Continue(After(o, res))
    /\ UNCHANGED <<toolVars, stop>> /\ LoopUnchanged

CallProposes(o, f, text) ==
    /\ Allowed(o) /\ o.tool = "propose_patch"
    /\ ProposePatch(f, text) \/ ProposeFile(f, text)
    /\ Continue([After(o, Passed) EXCEPT !.proposal = patches.used + 1])
    /\ UNCHANGED stop /\ LoopUnchanged

CallApplies(o, p) ==
    /\ Allowed(o) /\ o.tool = "apply_patch"
    /\ ApplyPatch(p)
    /\ Continue(IF Applies(p)
                THEN [After(o, Passed) EXCEPT !.proposal = IF @ = p.id THEN 0 ELSE @]
                ELSE After(o, Errored("arguments")))
    /\ UNCHANGED stop /\ LoopUnchanged

\* A configured command is several steps.
CallStarts(o) ==
    /\ Allowed(o) /\ o.tool \in {"configure_project", "build_target", "run_test"}
    /\ op' = o
    /\ pc' = "tool"
    /\ UNCHANGED <<tree, outside, dir, patches, journal, stop, st>> /\ LoopUnchanged

CommandOutcomes == {"ok", "fail", "timeout"}

ToolSteps ==
    /\ pc = "tool"
    /\ \/ BuildStart \/ BuildEnd \/ TestStart
       \/ \E outcome \in CommandOutcomes :
             \/ ConfigureProject(outcome)
             \/ BuildConfigure(outcome)
             \/ BuildCompile(outcome)
       \/ \E outcome \in CommandOutcomes \cup {"nothing"} : TestEnd(outcome)
       \/ CommandRaises("missing_executable")
       \/ CommandRaises("cleanup_unknown")
       \/ stop /\ CommandRaises("command_cancelled")
       \/ stop /\ CommandRefused
    /\ UNCHANGED <<pc, st, stop>> /\ LoopUnchanged

\* The handler of a command returned: the record, the verdict, the epoch.
CallEnds ==
    /\ pc = "tool" /\ op.step = "done"
    /\ Continue(Judged(Recorded(st, op), op))
    /\ proof' = IF ClassifyProof(op) \in CurrentTreeProofs THEN dir.bin.tree ELSE proof
    /\ op' = NoOp
    /\ UNCHANGED <<tree, outside, dir, patches, journal, mode, stop, phase, worker, result>>

-----------------------------------------------------------------------------
(* Orchestrator.run after _run_once: blocked, escalated, classified *)

\* _blocked_reason
RunBlocked(s) ==
    \/ s.halt \in {"server_unavailable", "inference_stalled", "stopped"}
    \/ s.blocked /\ ~s.attempted

\* _escalation_reason is not None
RunFailed(s) ==
    \/ s.halt # "none" \/ ~s.answered
    \/ s.claim = "success" /\ ~s.verified
    \/ ~s.attempted

\* outcome.classify
Outcome(s) ==
    IF RunBlocked(s) THEN "blocked"
    ELSE IF phase = "retry" THEN IF RunFailed(s) THEN "escalated_fail" ELSE "escalated_pass"
    ELSE IF RunFailed(s) THEN "fail" ELSE "pass"

\* The cheap tier failed: its own edits are undone and the strong tier starts
\* with a fresh state over the same patch store and build directory.
Escalate ==
    /\ pc = "ended" /\ Speculative
    /\ ~RunBlocked(st) /\ RunFailed(st)
    /\ RevertJournal
    /\ phase' = "retry" /\ st' = FreshState /\ proof' = NoTree
    /\ pc' = "turn"
    /\ UNCHANGED <<mode, stop, worker, result>>

\* The outcome with the proof binding of the run it rests on: the last full
\* proof of the current epoch when the run is verified, else the last proof of
\* any kind, and the tree as it is now.
TaskResult(outcome, verified, reason, s) ==
    [outcome |-> outcome, verified |-> verified, reason |-> reason,
     scope |-> IF s.verified THEN s.full ELSE s.last, tree |-> tree]

\* The command line reports the run's own outcome.
ConcludeCli ==
    /\ pc = "ended" /\ mode = "cli"
    /\ ~Speculative \/ RunBlocked(st) \/ ~RunFailed(st)
    /\ result' = TaskResult(Outcome(st), st.verified, "none", st)
    /\ pc' = "done"
    /\ UNCHANGED <<toolVars, mode, stop, phase, st, worker, proof>>

-----------------------------------------------------------------------------
(* TaskController *)

Succeeded(outcome) == outcome \in {"pass", "escalated_pass"}
ObservedFailure(s) == s.last \in Contradicts

\* _product_outcome, without the read-only answers
ProductOutcome(s) ==
    IF s.halt \in {"server_unavailable", "inference_stalled", "stopped"} THEN "no_verdict"
    ELSE IF s.halt = "context_exhausted" THEN "blocked"
    ELSE IF s.cleanup THEN "no_verdict"
    ELSE IF Succeeded(Outcome(s)) /\ ~s.verified
         THEN IF ObservedFailure(s) THEN "fail" ELSE "no_verdict"
    ELSE Outcome(s)

\* _reason_code
ReasonCode(s, outcome) ==
    IF s.halt = "server_unavailable" THEN "endpoint_unavailable"
    ELSE IF s.halt = "inference_stalled" THEN "inference_timeout"
    ELSE IF s.halt = "context_exhausted" THEN "unavailable_capability"
    ELSE IF s.halt = "stopped" THEN "cancel_unreconciled"
    ELSE IF outcome = "no_verdict" /\ s.cleanup THEN "cleanup_unknown"
    ELSE IF Succeeded(outcome) THEN "verification_passed"
    ELSE IF outcome = "fail"
         THEN IF s.attempted THEN "verification_failed" ELSE "missing_evidence"
    ELSE IF outcome = "blocked" THEN "blocked_call"
    ELSE IF s.attempted THEN "cleanup_unknown" ELSE "missing_evidence"

\* _run_worker of a configured check: a refused step is never a pass.
ConcludeCheck ==
    /\ pc = "ended" /\ mode = "check"
    /\ LET outcome == IF st.blocked THEN "blocked" ELSE ProductOutcome(st)
       IN  result' = TaskResult(outcome, Succeeded(outcome) /\ st.verified, ReasonCode(st, outcome), st)
    /\ pc' = "done"
    /\ UNCHANGED <<toolVars, mode, stop, phase, st, worker, proof>>

\* _needs_controller_check
NeedsCheck(s) ==
    /\ s.epoch > 0 /\ s.halt = "none" /\ s.claim \in {"none", "success"}
    /\ ~ObservedFailure(s)

WorkerVerified(s) == Succeeded(ProductOutcome(s)) /\ s.verified /\ ProofSatisfied(s)
WorkerOutcome(s) ==
    IF Succeeded(ProductOutcome(s)) /\ s.verified /\ ~ProofSatisfied(s)
    THEN "no_verdict" ELSE ProductOutcome(s)
WorkerReason(s) ==
    IF Succeeded(ProductOutcome(s)) /\ s.verified /\ ~ProofSatisfied(s)
    THEN "missing_evidence" ELSE ReasonCode(s, ProductOutcome(s))

WorkerResult == TaskResult(WorkerOutcome(st), WorkerVerified(st), WorkerReason(st), st)

\* A stopped task leaves no candidate; what could not be removed is not a
\* clean cancellation.
CandidateStopped ==
    /\ Candidate /\ pc \in {"ended", "settle"} /\ stop
    /\ \E discarded \in BOOLEAN :
          result' = [outcome |-> IF discarded THEN "blocked" ELSE "no_verdict",
                     verified |-> FALSE, scope |-> "none", tree |-> tree,
                     reason |-> IF discarded THEN "cancelled" ELSE "cleanup_unknown"]
    /\ pc' = "done"
    /\ UNCHANGED <<toolVars, mode, stop, phase, st, worker, proof>>

\* _prove_candidate: the worker's own proof decides, or there is nothing the
\* controller may check.
CandidateJudged ==
    /\ Candidate /\ pc = "ended" /\ phase = "first" /\ ~stop
    /\ WorkerVerified(st) \/ ~NeedsCheck(st)
    /\ result' = WorkerResult
    /\ pc' = "settle"
    /\ UNCHANGED <<toolVars, mode, stop, phase, st, worker, proof>>

\* _controller_check: the configured check runs on the candidate.
CandidateCheckStarts ==
    /\ Candidate /\ pc = "ended" /\ phase = "first" /\ ~stop
    /\ ~WorkerVerified(st) /\ NeedsCheck(st)
    /\ worker' = WorkerResult /\ st' = FreshState
    /\ phase' = "check" /\ pc' = "turn" /\ proof' = NoTree
    /\ UNCHANGED <<toolVars, mode, stop, result>>

CandidateChecked ==
    /\ Candidate /\ pc = "ended" /\ phase = "check" /\ ~stop
    /\ result' = IF st.cleanup THEN TaskResult("no_verdict", FALSE, "cleanup_unknown", st)
                 ELSE IF ProofSatisfied(st)
                      THEN TaskResult("pass", TRUE, "verification_passed", st)
                 ELSE IF st.attempted /\ ObservedFailure(st)
                      THEN TaskResult("fail", FALSE, "verification_failed", st)
                 ELSE worker
    /\ pc' = "settle"
    /\ UNCHANGED <<toolVars, mode, stop, phase, st, worker, proof>>

\* settle_candidate: retained, discarded as empty, or refused.
CandidateSettled(refused) ==
    /\ pc = "settle" /\ ~stop
    /\ result' = IF refused
                 THEN [result EXCEPT !.outcome = "blocked", !.verified = FALSE,
                                     !.reason = "policy_denied"]
                 ELSE result
    /\ pc' = "done"
    /\ UNCHANGED <<toolVars, mode, stop, phase, st, worker, proof>>

-----------------------------------------------------------------------------
\* What submit_answer may claim.  The code treats "failure", "diagnosis" and
\* "needs_action" alike; "failure" stands for the three.
Claims == {"success", "failure"}
Outages == {"context_exhausted", "server_unavailable", "inference_stalled", "stopped"}

Turn ==
    \/ TurnBudget
    \/ \E cause \in Outages : TurnFails(cause)
    \/ \E shaped \in BOOLEAN : TurnProse(shaped)

Call ==
    \/ \E claim \in Claims, lastCall \in BOOLEAN : CallSubmit(claim, lastCall)
    \/ CallUnknown
    \/ \E o \in CallTools :
          \/ CallRepeated(o)
          \/ CallStarts(o)
          \/ \E verdict \in {"deny", "decline"} : CallRefused(o, verdict)
          \/ \E res \in {Passed, Errored("arguments")} : CallQuick(o, res)
          \/ \E f \in Files, text \in Texts : CallProposes(o, f, text)
          \/ \E p \in patches.pending : CallApplies(o, p)
    \/ CallEnds

Controller ==
    \/ Escalate \/ ConcludeCli \/ ConcludeCheck
    \/ CandidateStopped \/ CandidateJudged \/ CandidateCheckStarts \/ CandidateChecked
    \/ \E refused \in BOOLEAN : CandidateSettled(refused)

Outsider ==
    /\ ~Candidate /\ pc # "done"
    /\ \E f \in Files : OutsideEdit(f)
    /\ UNCHANGED <<pc, st, stop>> /\ LoopUnchanged

Work == Turn \/ Call \/ ToolSteps \/ Controller
Done == pc = "done" /\ UNCHANGED loopVars
LoopNext == Work \/ PressStop \/ Outsider \/ Done

\* The loop is one thread; commands end by themselves or at their timeout and
\* the model's call returns or raises.
LoopSpec == LoopInit /\ [][LoopNext]_loopVars /\ WF_loopVars(Work)

-----------------------------------------------------------------------------
(* Properties *)

Proofs == {"none", "targeted_build_pass", "targeted_test_pass"} \cup CurrentTreeProofs
          \cup Contradicts
Halts == Outages \cup {"none", "budget_exhausted", "unknown_tools", "repeat_loop"}
AgentState ==
    [calls : Nat, unknown : Nat, epoch : {0, 1}, verified : BOOLEAN, attempted : BOOLEAN,
     claim : {"none"} \cup Claims, answered : BOOLEAN, halt : Halts,
     nudged : BOOLEAN, reminded : BOOLEAN, proposal : Nat, blocked : BOOLEAN,
     cleanup : BOOLEAN, repeats : [Signatures -> 0..MaxRepeats], last : Proofs,
     full : {"none"} \cup CurrentTreeProofs, tests : BOOLEAN, builds : BOOLEAN, steps : Nat,
     passed : BOOLEAN]
RunResult ==
    [outcome : {"none", "pass", "fail", "escalated_pass", "escalated_fail", "blocked",
                "no_verdict"},
     verified : BOOLEAN, scope : Proofs, tree : Snapshot,
     reason : {"none", "endpoint_unavailable", "inference_timeout", "unavailable_capability",
               "cancel_unreconciled", "cleanup_unknown", "verification_passed",
               "verification_failed", "missing_evidence", "blocked_call", "cancelled",
               "policy_denied"}]
LoopTypeOK ==
    /\ ToolsTypeOK
    /\ mode \in AllModes /\ stop \in BOOLEAN
    /\ pc \in {"turn", "call", "tool", "ended", "settle", "done"}
    /\ phase \in {"first", "retry", "check"}
    /\ st \in AgentState
    /\ worker \in RunResult /\ result \in RunResult
    /\ proof \in Snapshot

OutsideText(t) == t > Largest

\* Apart from files somebody else rewrote since, t and u are the same tree.
SameButOutside(t, u) == \A f \in Files : t[f] = u[f] \/ OutsideText(t[f])

\* A worker that holds the tree verified has seen a full build or a full test
\* run of exactly the tree on disk (apart from somebody else's later edits):
\* no edit, rebuild, profile switch, revert or escalation leaves the mark of an
\* older proof standing.  The one exception the code has is a suite run over
\* the leftovers of a targeted build (proof = NoTree).
VerifiedIsCurrent ==
    st.verified => proof = NoTree \/ SameButOutside(tree, proof)

\* The same without the exception: what testing_tools.py says of the stamp.
VerifiedIsOfWholeBuild == st.verified => SameButOutside(tree, proof)

\* A result reported verified carries a full proof of the kind its skill asks
\* for, of the tree it is bound to.
VerifiedResultIsBound ==
    result.verified =>
        /\ result.scope \in CurrentTreeProofs
        /\ mode \in {"fix-test", "change"} => result.scope = "full_test_pass"
                                              \/ st.tests
        /\ Candidate => result.tree = tree /\ (proof = NoTree \/ proof = result.tree)

\* Escalation gives the strong tier the files as they were: what only the
\* worker wrote is original again, what somebody else wrote is left as it is.
Original(f) == IF f \in NewFiles THEN Missing ELSE 1
OutsideTextsOf(f) ==
    {t \in {tree[f]} \cup {journal[i].before : i \in {k \in 1..Len(journal) : journal[k].file = f}} :
        OutsideText(t)}
EscalationRestores ==
    [][phase = "first" /\ phase' = "retry" =>
          \A f \in Files :
              IF OutsideTextsOf(f) = {} THEN tree'[f] = Original(f)
              ELSE OutsideText(tree'[f])]_loopVars

\* Whatever the model answers, the task comes to its end: the tool budget, the
\* repeat guard, the unknown-tool guard and the once-only nudges bound it.
TaskEnds == <>(pc = "done")

\* A build directory the tools refuse is one Local Code Agent did not make.
RefusedIsForeign == dir.owner # "unclaimed"
=============================================================================
