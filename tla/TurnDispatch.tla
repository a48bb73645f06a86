----------------------------- MODULE TurnDispatch -----------------------------
(***************************************************************************)
(* One conversation turn of the Session Hub, from the composer to the      *)
(* stored answer: the Textual application and its dispatcher               *)
(* (session/textual_session_app.py, textual_dispatch.py), the gateways     *)
(* (conversation_gateway.py, runtime_facts_gateway.py), the deterministic  *)
(* router (intents.py, change_requests.py), the conversation file          *)
(* (conversation_store.py), the durable routes (durable_routes.py) and the *)
(* admission of a task for a saved turn (task_admission.py).               *)
(*                                                                         *)
(* A text is one of a few kinds the code tells apart.  A turn reference is *)
(* the index of a turn of the append-only conversation: the hash the code  *)
(* adds to it covers the content and the time of that same turn.  The      *)
(* durable stream is the sequence of route and admission events the writer *)
(* thread committed, `queue' what it has not committed yet; a caller whose *)
(* wait times out leaves its entry in the queue.                           *)
(***************************************************************************)
EXTENDS Naturals, FiniteSets, Sequences, SequencesExt

CONSTANTS Texts,       \* the kinds of text the user types
          MaxTurns,    \* bound: turns of the conversation file
          MaxSubmits,  \* bound: turns submitted to the dispatcher
          MaxCrash,    \* bound: process crashes
          MaxTimeout,  \* bound: durable writes that time out
          MaxFault,    \* bound: conversation saves that fail
          MaxFaults    \* bound: crashes, timeouts and failed saves together

-----------------------------------------------------------------------------
(* What the router tells apart.                                            *)

\* Questions the runtime-facts gateway answers itself.
FactTexts == {"help"}

\* The answers to a pending route, and the words that resume a file request
\* ("yes", "do it" and "go ahead" are both).
WorkAnswers == {"work", "yes"}
ChatAnswers == {"chat"}
Followups == {"yes", "create it"}

\* A request outside the product's authority; a request to change one named file;
\* a looser change request that only mentions a path.  Whether the paths of the
\* last two lie inside the repository, the file system says each time it is asked.
OutOfAuthority == {"push"}
ChangeTexts == {"create"}
PathTexts == {"path"}
BoundaryTexts == ChangeTexts \cup PathTexts
CheckTexts == {"build"}

AllTexts == FactTexts \cup WorkAnswers \cup ChatAnswers \cup Followups
            \cup OutOfAuthority \cup PathTexts \cup ChangeTexts \cup CheckTexts
            \cup {"why", "fix", "open"}

ASSUME TextsAreKinds == Texts \subseteq AllTexts

ASSUME TurnBounds ==
  {MaxTurns, MaxSubmits, MaxCrash, MaxTimeout, MaxFault, MaxFaults} \subseteq Nat

NoRoute == 0   \* also: no submitted turn
NoText == "none"
Idle == [pc |-> "idle", f |-> NoRoute, said |-> NoText, route |-> NoRoute]

VARIABLES
  hub,       \* the process: "up", "closing" or "down"
  turns,     \* the conversation file
  log,       \* the committed events of the durable stream
  queue,     \* events handed to the writer thread
  outcome,   \* what became of the task admitted for each turn
  fut,       \* the state of each submitted turn's future
  said,      \* the text of the submitted turn the worker has not begun
  active,    \* HubTurnDispatcher._active
  callbacks, \* futures whose done-callback waits for them
  ui,        \* the UI thread: [pc, new, future]
  work,      \* the dispatcher's worker thread: [pc, f, said, route]
  faults     \* how many crashes, timeouts and save faults have happened

turnVars == <<hub, turns, log, queue, outcome, fut, said, active, callbacks, ui, work, faults>>

Submits == 1..MaxSubmits
Finished(f) == fut[f] = "done"   \* with a result or with an exception
Unfinished(f) == fut[f] \in {"queued", "running"}

FaultsLeft == faults.crash + faults.timeout + faults.save < MaxFaults

TurnInit ==
  /\ hub = "up"
  /\ turns = <<>> /\ log = <<>> /\ queue = <<>>
  /\ outcome = [t \in 1..MaxTurns |-> "none"]
  /\ fut = [f \in Submits |-> "none"]
  /\ said = NoText
  /\ active = NoRoute /\ callbacks = {}
  /\ ui = [pc |-> "idle", new |-> NoRoute, future |-> NoRoute]
  /\ work = Idle
  /\ faults = [crash |-> 0, timeout |-> 0, save |-> 0]

-----------------------------------------------------------------------------
(* The durable stream: what a replay of it recovers.                       *)

Event(kind, ref, text) == [kind |-> kind, ref |-> ref, text |-> text, by |-> work.f]

LogSet == {log[i] : i \in 1..Len(log)}
QueueSet == {queue[i] : i \in 1..Len(queue)}
Resolutions == {"accepted", "corrected"}

Proposed == {e.ref : e \in {x \in LogSet : x.kind = "proposed"}}
ResolvedAs(kind) == {e.ref : e \in {x \in LogSet : x.kind = kind}}
Admitted == {e.ref : e \in {x \in LogSet : x.kind = "admitted"}}

\* _recover_history refuses a stream in which a route was resolved twice.
RecoverRaises ==
  \E i \in 1..Len(log), j \in 1..Len(log) :
    /\ i # j /\ log[i].ref = log[j].ref
    /\ log[i].kind \in Resolutions /\ log[j].kind \in Resolutions

PendingAcceptance == Proposed \ (ResolvedAs("accepted") \cup ResolvedAs("corrected"))
AcceptedUnadmitted == ResolvedAs("accepted") \ Admitted

\* The reference check before accepted work runs.
ModelRouteTask(r) == r \in 1..Len(turns) /\ turns[r].role = "user"

-----------------------------------------------------------------------------
(* What the Hub makes of the same stream: project_routes, event by event,  *)
(* and the status line that asks for a decision on the latest route.       *)

NoRoutes == [order |-> <<>>, how |-> [r \in 1..MaxTurns |-> "none"], bad |-> FALSE]

ProjectRoute(view, e) ==
  CASE view.bad \/ e.kind = "admitted" -> view
    [] ~view.bad /\ e.kind = "proposed" ->
         IF view.how[e.ref] = "none"
           THEN [view EXCEPT !.order = Append(@, e.ref), !.how[e.ref] = "pending"]
           ELSE [view EXCEPT !.bad = view.how[e.ref] # "pending"]
    [] ~view.bad /\ e.kind \in Resolutions ->
         IF view.how[e.ref] = "pending"
           THEN [view EXCEPT !.how[e.ref] = e.kind]
           ELSE [view EXCEPT !.bad = TRUE]

ProjectLog(events) ==
  LET view[n \in 0 .. Len(events)] ==
        IF n = 0 THEN NoRoutes ELSE ProjectRoute(view[n - 1], events[n])
  IN  view[Len(events)]

ProjectRoutes == ProjectLog(log)
DecisionShown(view) == view.order # <<>> /\ view.how[Last(view.order)] = "pending"

-----------------------------------------------------------------------------
(* The writer thread.  An admission whose request is known is not recorded *)
(* again: its receipt says it was not created.                             *)

CommitEvent ==
  /\ hub # "down" /\ queue # <<>>
  /\ queue' = Tail(queue)
  /\ log' = IF Head(queue).kind = "admitted" /\ Head(queue).ref \in Admitted
              THEN log ELSE Append(log, Head(queue))
  /\ UNCHANGED <<hub, turns, outcome, fut, said, active, callbacks, ui, work, faults>>

-----------------------------------------------------------------------------
(* The UI thread.  A message is refused, and its text restored to the      *)
(* composer, while a turn runs; otherwise it is submitted.                 *)

UnfinishedTurns == {f \in Submits : Unfinished(f)}
UiFree == ui.pc = "idle" /\ ui.future \notin UnfinishedTurns

\* HubTurnDispatcher.submit under its lock: one unfinished turn at a time.
Submit(text) ==
  /\ hub = "up" /\ UiFree
  /\ active \notin UnfinishedTurns
  /\ Len(turns) + 2 <= MaxTurns
  /\ \E f \in Submits :
       /\ fut[f] = "none" /\ \A g \in Submits : g < f => fut[g] # "none"
       /\ fut' = [fut EXCEPT ![f] = "queued"]
       /\ active' = f
       /\ ui' = [ui EXCEPT !.pc = "register", !.new = f]
  /\ said' = text
  /\ UNCHANGED <<hub, turns, log, queue, outcome, callbacks, work, faults>>

\* Mutant: the callback clears whatever turn is active.
ClearActiveAny(f) == active' = NoRoute

\* _clear_active: the callback of a turn clears the dispatcher only of itself.
ClearActive(f) == active' = IF active = f THEN NoRoute ELSE active

\* add_done_callback, outside the lock: a finished turn's callback runs here.
Register ==
  /\ ui.pc = "register"
  /\ ui' = [pc |-> "idle", new |-> NoRoute, future |-> ui.new]
  /\ IF Finished(ui.new)
       THEN ClearActive(ui.new) /\ UNCHANGED callbacks
       ELSE callbacks' = callbacks \cup {ui.new} /\ UNCHANGED active
  /\ UNCHANGED <<hub, turns, log, queue, outcome, fut, said, work, faults>>

\* _poll_turn_completion: the finished turn is observed and the view refreshed.
PollTurnCompletion ==
  /\ hub = "up" /\ ui.pc = "idle"
  /\ ui.future # NoRoute /\ Finished(ui.future)
  /\ ui' = [ui EXCEPT !.future = NoRoute]
  /\ UNCHANGED <<hub, turns, log, queue, outcome, fut, said, active, callbacks, work, faults>>

\* /quit: refused while a turn runs; then the dispatcher closes and waits for
\* its worker, and the service closes after the writer has drained its queue.
Quit ==
  /\ hub = "up" /\ UiFree
  /\ hub' = "closing"
  /\ UNCHANGED <<turns, log, queue, outcome, fut, said, active, callbacks, ui, work, faults>>

Reset ==
  /\ hub' = "down" /\ queue' = <<>>
  /\ fut' = [f \in Submits |-> IF Unfinished(f) THEN "done" ELSE fut[f]]
  /\ active' = NoRoute /\ callbacks' = {}
  /\ ui' = [pc |-> "idle", new |-> NoRoute, future |-> NoRoute]
  /\ work' = Idle
  /\ said' = NoText
  /\ UNCHANGED <<turns, log, outcome>>

Close ==
  /\ hub = "closing" /\ work.pc = "idle" /\ queue = <<>>
  /\ Reset /\ UNCHANGED faults

Crash ==
  /\ hub # "down" /\ FaultsLeft /\ faults.crash < MaxCrash
  /\ Reset /\ faults' = [faults EXCEPT !.crash = @ + 1]

\* The conversation is read back under its lock and the stream replayed.
Restart ==
  /\ hub = "down"
  /\ hub' = "up"
  /\ UNCHANGED <<turns, log, queue, outcome, fut, said, active, callbacks, ui, work, faults>>

-----------------------------------------------------------------------------
(* The worker thread.                                                      *)

Working(pc) == hub # "down" /\ work.pc = pc
Goto(pc, r) == work' = [work EXCEPT !.pc = pc, !.route = r] /\ UNCHANGED fut

Finish ==
  /\ fut' = [fut EXCEPT ![work.f] = "done"]
  /\ work' = [Idle EXCEPT !.pc = "callback", !.f = work.f]

\* append_turn and save: temporary file and rename.  When the append would not
\* fit or the save fails, memory is cut back and the turn fails.
User(text) == [role |-> "user", text |-> text]
Answer(text) ==   \* of an answer, later turns only ask whether it was conversation-only
  [role |-> "assistant",
   text |-> IF text = "conversation only" THEN text ELSE "controller answer"]

SaveFails ==
  /\ FaultsLeft /\ faults.save < MaxFault
  /\ faults' = [faults EXCEPT !.save = @ + 1]
  /\ Finish
  /\ UNCHANGED <<turns, queue>>

Saved(new) == turns' = turns \o new /\ UNCHANGED faults

\* _record_exchange and the answer: the turn is over.
Exchange(answer) ==
  \/ Saved(<<User(work.said), Answer(answer)>>) /\ Finish /\ UNCHANGED queue
  \/ SaveFails

\* _record_assistant closing a turn whose user half is already saved.
Reply(answer) ==
  \/ Saved(<<Answer(answer)>>) /\ Finish /\ UNCHANGED queue
  \/ SaveFails

\* _record_user, then on to pc.
RecordUser(pc, r) ==
  \/ Saved(<<User(work.said)>>) /\ Goto(pc, r) /\ UNCHANGED queue
  \/ SaveFails

\* Mutant: the event is handed over before the user turn is saved.
AppendThenRecordUser(kind, ref, text, pc) ==
  /\ queue' = Append(queue, Event(kind, ref, text))
  /\ \/ Saved(<<User(work.said)>>) /\ Goto(pc, ref)
     \/ /\ FaultsLeft /\ faults.save < MaxFault
        /\ faults' = [faults EXCEPT !.save = @ + 1]
        /\ Finish /\ UNCHANGED turns

\* _record_user, then an event is handed to the writer and waited for.
RecordUserAndAppend(kind, ref, text, pc) ==
  \/ /\ Saved(<<User(work.said)>>)
     /\ queue' = Append(queue, Event(kind, ref, text))
     /\ Goto(pc, ref)
  \/ SaveFails

\* DurableRouteEvents.resolve and .propose: the event names the route by the turn
\* that asked for the work.
Resolve(resolution, r, pc) == RecordUserAndAppend(resolution, r, turns[r].text, pc)
Propose(pc) == RecordUserAndAppend("proposed", Len(turns) + 1, work.said, pc)

Raise == Finish /\ UNCHANGED <<turns, queue, faults>>

Step == UNCHANGED <<hub, log, outcome, said, active, callbacks, ui>>

Start ==
  /\ hub # "down" /\ work.pc = "idle"
  /\ \E f \in Submits :
       /\ fut[f] = "queued"
       /\ fut' = [fut EXCEPT ![f] = "running"]
       /\ work' = [pc |-> "turn", f |-> f, said |-> said, route |-> NoRoute]
  /\ said' = NoText
  /\ UNCHANGED <<hub, turns, log, queue, outcome, active, callbacks, ui, faults>>

\* RuntimeFactsGateway.turn: facts first, even while a route is pending.
DeterministicAnswer ==
  /\ Working("turn")
  /\ IF work.said \in FactTexts
       THEN Exchange("fact")
       ELSE Goto("accepted", NoRoute) /\ UNCHANGED <<turns, queue, faults>>
  /\ Step

\* _handle_durable_route_decision, first half: accepted work not yet admitted
\* is resumed by `work' before anything else.
HandleAccepted ==
  /\ Working("accepted")
  /\ IF RecoverRaises \/ Cardinality(AcceptedUnadmitted) > 1
       THEN Raise
       ELSE IF AcceptedUnadmitted = {}
         THEN Goto("pending", NoRoute) /\ UNCHANGED <<turns, queue, faults>>
         ELSE \E r \in AcceptedUnadmitted :
                IF ~ ModelRouteTask(r) THEN Raise
                ELSE IF work.said # "work" THEN Exchange("accepted recovery")
                ELSE RecordUser("route run", r)
  /\ Step

\* Second half, after a second replay: `work' or `chat' decides the one
\* pending route; with several of them nothing does.
HandlePending ==
  /\ Working("pending")
  /\ LET pending == PendingAcceptance IN
     IF RecoverRaises THEN Raise
     ELSE IF pending = {}
       THEN Goto("decide", NoRoute) /\ UNCHANGED <<turns, queue, faults>>
     ELSE IF work.said \notin WorkAnswers \cup ChatAnswers THEN Exchange("pending decision")
     ELSE IF Cardinality(pending) > 1 THEN Exchange("ambiguous")
     ELSE \E r \in pending :
       IF work.said \in ChatAnswers
         THEN Resolve("corrected", r, "corrected")
       ELSE IF ~ ModelRouteTask(r) THEN Raise
       ELSE \/ Resolve("accepted", r, "resolved")
            \/ /\ turns[r].text \in PathTexts
               /\ RecordUser("refused", r)
  /\ Step

\* receipt.wait: the entry is committed, or the wait times out and the turn
\* fails while the entry stays in the writer's queue.
InLog(kind, r) == \E e \in LogSet : e.kind = kind /\ e.ref = r /\ e.by = work.f
InQueue(kind, r) == \E e \in QueueSet : e.kind = kind /\ e.ref = r /\ e.by = work.f

TimesOut(kind, r) ==
  /\ InQueue(kind, r)
  /\ FaultsLeft /\ faults.timeout < MaxTimeout
  /\ faults' = [faults EXCEPT !.timeout = @ + 1]
  /\ Finish
  /\ UNCHANGED <<turns, queue>>

AwaitResolved ==
  /\ Working("resolved")
  /\ \/ /\ InLog("accepted", work.route)
        /\ Goto("route run", work.route) /\ UNCHANGED <<turns, queue, faults>>
     \/ TimesOut("accepted", work.route)
  /\ Step

AwaitCorrected ==
  /\ Working("corrected")
  /\ \/ InLog("corrected", work.route) /\ Reply("kept as conversation")
     \/ TimesOut("corrected", work.route)
  /\ Step

AwaitProposed ==
  /\ Working("proposed")
  /\ \/ InLog("proposed", work.route) /\ Reply("proposal")
     \/ TimesOut("proposed", work.route)
  /\ Step

\* The boundary refused accepted or pending work: its user turn is saved.
Refused ==
  /\ Working("refused")
  /\ Reply("refusal")
  /\ Step

\* _run_model_route: the stored request is checked again, then admitted, unless
\* the runner raises before it queues anything (resolve_skill).
SubmitTask(r) ==
  /\ queue' = Append(queue, Event("admitted", r, turns[r].text))
  /\ Goto("admitted", r)
  /\ UNCHANGED <<turns, faults>>

RunModelRoute ==
  /\ Working("route run")
  /\ \/ SubmitTask(work.route) \/ Raise
     \/ turns[work.route].text \in PathTexts /\ Reply("refusal")
  /\ Step

\* _run_task for the user turn that was just saved.
RunTask ==
  /\ Working("run")
  /\ SubmitTask(Len(turns)) \/ Raise
  /\ Step

\* Mutant: nobody answers the handle of a request that was already admitted.
AwaitAdmittedNoReplay ==
  /\ Working("admitted")
  /\ \/ /\ InLog("admitted", work.route)
        /\ outcome' = [outcome EXCEPT ![work.route] = "running"]
        /\ Goto("result", work.route) /\ UNCHANGED <<turns, queue, faults>>
     \/ TimesOut("admitted", work.route) /\ UNCHANGED outcome
  /\ UNCHANGED <<hub, log, said, active, callbacks, ui>>

\* DurableTaskAdmissionRunner.run and the task thread: only a newly created
\* admission is executed; a known one refuses to replay its effects.
AwaitAdmitted ==
  /\ Working("admitted")
  /\ \/ /\ InLog("admitted", work.route)
        /\ outcome' = [outcome EXCEPT ![work.route] = "running"]
        /\ Goto("result", work.route) /\ UNCHANGED <<turns, queue, faults>>
     \/ /\ ~ InLog("admitted", work.route) /\ ~ InQueue("admitted", work.route)
        /\ Raise /\ UNCHANGED outcome
     \/ TimesOut("admitted", work.route) /\ UNCHANGED outcome
  /\ UNCHANGED <<hub, log, said, active, callbacks, ui>>

\* _return_task_result: a short answer is stored only for a change the
\* repository's policy does not admit; a task error leaves the turn failed.
TaskResult ==
  /\ Working("result")
  /\ \E how \in {"ok", "failed", "unproven", "denied", "error"} :
       /\ outcome' = [outcome EXCEPT ![work.route] =
                                IF how \in {"denied", "error"} THEN "closed" ELSE how]
       /\ CASE how = "denied" -> Reply("denied")
            [] how = "error" -> Raise
            [] OTHER -> Finish /\ UNCHANGED <<turns, queue, faults>>
  /\ UNCHANGED <<hub, log, said, active, callbacks, ui>>

-----------------------------------------------------------------------------
(* Routing a text when no route is waiting.                                *)

\* The failed tasks of this conversation.  "failed" is one whose record holds a
\* failing build or test step, a candidate's included (failure_kind), "unproven"
\* one without.
Eligible == {t \in 1..Len(turns) : outcome[t] \in {"failed", "unproven"}}

\* A check that did not run is not fixable, nor one that a later run of the same
\* check has replaced.
Superseded(t) ==
  \E u \in 1..Len(turns) :
    u > t /\ turns[u].text = turns[t].text /\ outcome[u] \in {"ok", "failed"}
Fixable ==
  {t \in Eligible : turns[t].text \in CheckTexts => outcome[t] = "failed" /\ ~ Superseded(t)}

\* Only the immediately preceding conversation-only file request is resumed.
UnexecutedChange ==
  /\ Len(turns) >= 2
  /\ turns[Len(turns)] = Answer("conversation only")
  /\ turns[Len(turns) - 1].role = "user"
  /\ turns[Len(turns) - 1].text \in ChangeTexts

\* decide_route: the action, in the order the rules are tried.
UniqueReferent(tasks) == Cardinality(tasks) = 1
DiagnosticRoute == IF UniqueReferent(Eligible) THEN "work" ELSE "clarify"
FixRoute ==
  IF UniqueReferent(Fixable) /\ \A t \in Fixable : outcome[t] = "failed"
    THEN "work" ELSE "clarify"
CheckRoute == "work"
ChangeRoute == "work"

DecideRoute(text) ==
  CASE text \in CheckTexts     -> CheckRoute
    [] text = "why"            -> DiagnosticRoute
    [] text \in ChangeTexts    -> ChangeRoute
    [] text = "fix"            -> FixRoute
    [] text \in OutOfAuthority -> "refuse"
    [] OTHER                   -> "model"

\* "why" about a configured check is answered from its recorded result.
RecordedDiagnosis == work.said = "why" /\ \A t \in Eligible : turns[t].text \in CheckTexts

Decide ==
  /\ Working("decide")
  /\ \/ work.said \in BoundaryTexts /\ Exchange("refusal")
     \/ IF DecideRoute(work.said) = "refuse" THEN Exchange("refusal")
        ELSE IF work.said \in Followups
          THEN \/ ~ UnexecutedChange /\ Exchange("no referent")
               \/ UnexecutedChange /\ RecordUser("run", NoRoute)
               \/ UnexecutedChange /\ Exchange("refusal")
        ELSE IF DecideRoute(work.said) = "clarify" THEN Exchange("clarification")
        ELSE IF DecideRoute(work.said) = "work"
          THEN IF RecordedDiagnosis THEN Exchange("recorded diagnosis")
               ELSE RecordUser("run", NoRoute)
        ELSE Goto("model", NoRoute) /\ UNCHANGED <<turns, queue, faults>>
  /\ Step

\* _messages: trimming the history to its budget drops a user turn with its
\* answer, and raises when what is left begins with an answer.
TrimRaises ==
  \E i \in 1..Len(turns) :
    turns[i].role = "assistant" /\ (i = 1 \/ turns[i - 1].role = "assistant")

\* Mutant: proposed work runs at once, as it does without durable routes.
ModelProposalRuns ==
  /\ Working("model")
  /\ \/ Exchange("no proposal")
     \/ Exchange("conversation only")
     \/ RecordUser("run", NoRoute)
  /\ Step

\* _model_proposal: no valid proposal, a conversation-only reply, or a proposal
\* of repository work, which is saved, recorded as a route and never run.
ModelProposal ==
  /\ Working("model")
  /\ \/ Exchange("no proposal")
     \/ Exchange("conversation only")
     \/ Propose("proposed")
     \/ TrimRaises /\ Raise
  /\ Step

\* The callback of the finished turn, when it was registered in time.
DoneCallback ==
  /\ work.pc = "callback"
  /\ IF work.f \in callbacks
       THEN ClearActive(work.f) /\ callbacks' = callbacks \ {work.f}
       ELSE UNCHANGED <<active, callbacks>>
  /\ work' = Idle
  /\ UNCHANGED <<hub, turns, log, queue, outcome, fut, said, ui, faults>>

Worker == \/ Start \/ DeterministicAnswer \/ HandleAccepted \/ HandlePending
          \/ AwaitResolved \/ AwaitCorrected \/ AwaitProposed \/ Refused
          \/ RunModelRoute \/ RunTask \/ AwaitAdmitted \/ TaskResult
          \/ Decide \/ ModelProposal \/ DoneCallback

TurnNext == \/ \E text \in Texts : Submit(text)
        \/ Register \/ PollTurnCompletion \/ Quit \/ Close \/ Crash \/ Restart
        \/ CommitEvent \/ Worker

TurnSpec == /\ TurnInit /\ [][TurnNext]_turnVars
        /\ WF_turnVars(Worker) /\ WF_turnVars(CommitEvent)
        /\ WF_turnVars(Register) /\ WF_turnVars(PollTurnCompletion)

-----------------------------------------------------------------------------
(* Properties.                                                             *)

TurnRecord ==
  [role : {"user"}, text : AllTexts] \cup
  [role : {"assistant"}, text : {"conversation only", "controller answer"}]
StreamEvent ==
  [kind : {"proposed", "admitted"} \cup Resolutions, ref : 1 .. MaxTurns,
   text : AllTexts, by : Submits]

TurnTypeOK ==
  /\ hub \in {"up", "closing", "down"}
  /\ turns \in Seq(TurnRecord) /\ Len(turns) <= MaxTurns
  /\ log \in Seq(StreamEvent) /\ queue \in Seq(StreamEvent)
  /\ outcome \in [1 .. MaxTurns ->
                   {"none", "running", "ok", "failed", "unproven", "closed"}]
  /\ fut \in [Submits -> {"none", "queued", "running", "done"}]
  /\ said \in AllTexts \cup {NoText}
  /\ active \in Submits \cup {NoRoute} /\ callbacks \subseteq Submits
  /\ ui \in [pc : {"idle", "register"}, new : Submits \cup {NoRoute},
             future : Submits \cup {NoRoute}]
  /\ work \in [pc : {"idle", "turn", "accepted", "pending", "decide", "model", "resolved",
                     "corrected", "proposed", "refused", "route run", "run", "admitted",
                     "result", "callback"},
               f : Submits \cup {NoRoute}, said : AllTexts \cup {NoText},
               route : 0 .. MaxTurns]
  /\ faults \in [crash : Nat, timeout : Nat, save : Nat]

Before(kind1, kind2, r) ==
  \E i \in 1..Len(log), j \in 1..Len(log) :
    i < j /\ log[i].kind = kind1 /\ log[j].kind = kind2 /\ log[i].ref = r /\ log[j].ref = r

\* Model prose grants nothing: a task that has started was admitted in the durable
\* stream, and if its request went through the model, the stream also holds the
\* proposal, then the acceptance, then the admission, and the conversation file
\* holds a later turn in which the user said so - whatever crashed or timed out
\* in between (_handle_durable_route_decision and _run_model_route).
AuthorityFirst ==
  \A t \in 1..Len(turns) : outcome[t] # "none" =>
    /\ t \in Admitted
    /\ DecideRoute(turns[t].text) = "model" /\ turns[t].text \notin Followups =>
         /\ Before("proposed", "accepted", t) /\ Before("accepted", "admitted", t)
         /\ \E u \in 1..Len(turns) :
              u > t /\ turns[u].role = "user" /\ turns[u].text \in WorkAnswers

\* Every turn reference in the durable stream names a user turn that the
\* conversation file still holds with the text it was made for: a failed save
\* or a crash between the two stores never leaves a dangling reference, which
\* _model_route_task would refuse for ever.
RefsHold ==
  \A e \in LogSet : /\ e.ref \in 1..Len(turns)
                     /\ turns[e.ref] = User(e.text)

\* The Hub and the gateway read the same routes out of the stream, each with its
\* own projection (project_routes, _recover_history): they refuse the same
\* streams, and "Decision required" stands in the status line exactly while the
\* gateway takes the next answer for a decision.
DecisionIsAsked ==
  LET view == ProjectRoutes IN
    /\ view.bad = RecoverRaises
    /\ ~view.bad => DecisionShown(view) = (PendingAcceptance # {})

\* Both stores and all their readers agree: references hold, and the routes that
\* wait for the user are the ones the user is asked about.
RoutesAgree == RefsHold /\ DecisionIsAsked

\* The dispatcher knows the turn that is running: while any submitted turn is
\* unfinished it is the active one, so a second turn is refused and never queued
\* invisibly, however the callbacks of earlier turns are timed.
ActiveIsTheTurn == \A f \in Submits : Unfinished(f) => active = f

\* Every submitted turn ends and the interface stops waiting for it, for good,
\* whatever times out on the way, or the interface itself is gone (it exits only
\* between turns).
TurnObserved ==
  <>[](\A f \in Submits : ~ Unfinished(f) /\ (ui.future # f \/ hub # "up"))

\* "Reply `work' to accept it or `chat' to keep it conversation-only": while
\* nothing is under way and a proposal waits, one of the two answers decides it.
PendingCanBeDecided ==
  hub = "up" /\ work.pc = "idle" /\ queue = <<>> /\ PendingAcceptance # {} =>
    ~ RecoverRaises /\ Cardinality(PendingAcceptance) = 1
=============================================================================
