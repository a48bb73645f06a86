------------------------------ MODULE WatchRuns ------------------------------
(***************************************************************************)
(* Fixed watch jobs: the versioned configuration of a job                   *)
(* (watch/job_store.py), its runs (watch/service.py and                     *)
(* watch/fixed_watch_runner.py), the ledger of attempts                     *)
(* (watch/watch_run_store.py), and the durable task and the watch events a  *)
(* hub keeps of each run (session/watch_task_lifecycle.py and               *)
(* session/durable_watch.py), read back by session/watch_read_model.py.     *)
(*                                                                         *)
(* One job: every table is keyed by the job's identity.  Several hubs share *)
(* the two watch stores; each has a session stream of its own.  A durable   *)
(* write that is not acknowledged in time raises, and may commit all the    *)
(* same.  A hub may die between any two steps.                              *)
(***************************************************************************)
EXTENDS Naturals, Sequences, SequencesExt, FiniteSets

CONSTANTS
    Hubs,        \* the processes that run watches
    Editors,     \* the callers that change the configuration
    Runs,        \* the run identities
    Revisions,   \* procedure revisions of the job
    Fields,      \* what a configuration call may change: of rev, enabled, sched
    FirstEnabled,\* whether the job is created enabled: a subset of BOOLEAN
    ReplayLimit, \* the events service.replay() returns
    MaxVersion,  \* bound: configuration versions
    MaxCrashes   \* bound: hubs that die

ASSUME WatchAssumption ==
    /\ {MaxVersion, MaxCrashes, ReplayLimit} \subseteq Nat
    /\ MaxVersion >= 1
    /\ Revisions # {} /\ IsFiniteSet(Runs) /\ FirstEnabled \subseteq BOOLEAN

None == "none"
Verdicts == {"verified", "failed", "no_verdict"}

VARIABLES
    versions,  \* watch_job_versions: the configurations the job had
    job,       \* watch_jobs: its row
    edit,      \* each editor's configuration call between its read and its update
    attempts,  \* watch_attempts, by sequence
    stream,    \* each hub's durable events
    task,      \* the durable task of each run
    active,    \* the hubs that hold the job in _active_job_ids
    run,       \* each call of run_job
    crashes

vars == <<versions, job, edit, attempts, stream, task, active, run, crashes>>
runVars == <<attempts, stream, task, active, run>>

NoRow == [version |-> 0, rev |-> 0, enabled |-> FALSE, sched |-> FALSE]
NoEdit == [field |-> None, base |-> 0, row |-> NoRow]
NoAttempt == [run |-> None, rev |-> 0, quality |-> None]
NoRun == [pc |-> "none", hub |-> None, rec |-> NoRow, prev |-> NoAttempt, attempt |-> NoAttempt]
NoTask == [state |-> "none", verdict |-> None]

\* create: the first version.
Init ==
    /\ \E on \in FirstEnabled :
          job = [version |-> 1, rev |-> CHOOSE rev \in Revisions : TRUE, enabled |-> on, sched |-> TRUE]
    /\ versions = <<job>>
    /\ edit = [e \in Editors |-> NoEdit]
    /\ attempts = <<>>
    /\ stream = [h \in Hubs |-> <<>>]
    /\ task = [r \in Runs |-> NoTask]
    /\ active = {}
    /\ run = [r \in Runs |-> NoRun]
    /\ crashes = 0

-----------------------------------------------------------------------------
(* The configuration *)

\* update_job, set_enabled or set_schedule: the row is read, and the record the
\* call wants is made from it.  An unchanged record is returned at once.
EditRead(e, field) ==
    /\ edit[e] = NoEdit /\ field \in Fields /\ job.version < MaxVersion
    /\ \E row \in [version : {job.version + 1}, rev : Revisions, enabled : BOOLEAN, sched : BOOLEAN] :
          /\ \A f \in {"rev", "enabled", "sched"} : (row[f] # job[f]) <=> (f = field)
          /\ edit' = [edit EXCEPT ![e] = [field |-> field, base |-> job.version, row |-> row]]
    /\ UNCHANGED <<versions, job, runVars, crashes>>

\* Mutant: the row is replaced whatever its version has become.
ReplaceBlind(e) ==
    /\ edit[e] # NoEdit
    /\ LET row == [edit[e].row EXCEPT !.version = job.version + 1]
       IN  job' = row /\ versions' = Append(versions, row)
    /\ edit' = [edit EXCEPT ![e] = NoEdit]
    /\ UNCHANGED <<runVars, crashes>>

\* _replace: one transaction, and a row that is no longer the one read refuses.
Replace(e) ==
    /\ edit[e] # NoEdit
    /\ IF job.version = edit[e].base
       THEN job' = edit[e].row /\ versions' = Append(versions, edit[e].row)
       ELSE UNCHANGED <<job, versions>>
    /\ edit' = [edit EXCEPT ![e] = NoEdit]
    /\ UNCHANGED <<runVars, crashes>>

-----------------------------------------------------------------------------
(* The watch events of a stream, and their projection *)

StateEvent(rec) == [kind |-> "state", rev |-> rec.rev, version |-> rec.version]
RunEvent(r, rec, prev, cmp, verdict) ==
    [kind |-> "run", run |-> r, rev |-> rec.rev, version |-> rec.version,
     prev |-> prev, cmp |-> cmp, verdict |-> verdict]
TaskEvent(r, what) == [kind |-> "task", run |-> r, what |-> what]

Watch(s) == SelectSeq(s, LAMBDA e : e.kind \in {"state", "run"})
States(s) == SelectSeq(s, LAMBDA e : e.kind = "state")
RunsOf(s) == SelectSeq(s, LAMBDA e : e.kind = "run")

\* _apply for one run event: it is of the state recorded last and follows the
\* run recorded last.
Follows(e, before) ==
    /\ e.rev = Last(States(before)).rev /\ e.version = Last(States(before)).version
    /\ LET prior == RunsOf(before)
       IN  IF prior = <<>> THEN e.prev = None /\ e.cmp = "baseline"
           ELSE e.prev = Last(prior).run /\ e.cmp # "baseline"

\* project_watch raises nothing.
Projects(s) ==
    LET w == Watch(s)
    IN  /\ w # <<>> /\ w[1].kind = "state"
        /\ \A i \in DOMAIN w : w[i].kind = "run" => Follows(w[i], SubSeq(w, 1, i - 1))

\* service.replay() gives the first events of the stream.
Replayed(h) == SubSeq(stream[h], 1, IF Len(stream[h]) < ReplayLimit THEN Len(stream[h]) ELSE ReplayLimit)

\* The state in the stream is the record's: _require_matching_watch_state, and
\* the same test in record_run.
Matching(h, rec) ==
    LET s == Replayed(h)
    IN  /\ Projects(s)
        /\ Last(States(s)).rev = rec.rev /\ Last(States(s)).version = rec.version

\* DurableWatchEvents.record_state, called once for a configuration.
RecordState(h) ==
    /\ StateEvent(job) \notin Range(stream[h])
    /\ stream' = [stream EXCEPT ![h] = Append(@, StateEvent(job))]
    /\ UNCHANGED <<versions, job, edit, attempts, task, active, run, crashes>>

-----------------------------------------------------------------------------
(* run_job *)

RunUnchanged == UNCHANGED <<versions, job, edit, crashes>>
At(r, pc) == run[r].pc = pc
Goes(r, pc) == run' = [run EXCEPT ![r].pc = pc]
Gone(r, pc) == [NoRun EXCEPT !.pc = pc, !.hub = run[r].hub]
Ended(r, pc) == run' = [run EXCEPT ![r] = Gone(r, pc)]
Emit(r, events) == stream' = [stream EXCEPT ![run[r].hub] = @ \o events]

\* job_store.require: a scheduled run needs an enabled job with a schedule.
Require(r, h, trigger) ==
    /\ At(r, "none")
    /\ trigger = "scheduled" => job.enabled /\ job.sched
    /\ run' = [run EXCEPT ![r].pc = "read", ![r].hub = h, ![r].rec = job]
    /\ UNCHANGED <<attempts, stream, task, active>> /\ RunUnchanged

\* Mutant: two runs of a job may be active.
ClaimShared(r) ==
    /\ At(r, "read")
    /\ active' = active \cup {run[r].hub} /\ Goes(r, "claimed")
    /\ UNCHANGED <<attempts, stream, task>> /\ RunUnchanged

\* _claim
Claim(r) ==
    /\ At(r, "read")
    /\ IF run[r].hub \in active THEN Ended(r, "raised") /\ UNCHANGED active
       ELSE active' = active \cup {run[r].hub} /\ Goes(r, "claimed")
    /\ UNCHANGED <<attempts, stream, task>> /\ RunUnchanged

\* lifecycle.admit up to the durable write.
Check(r) ==
    /\ At(r, "claimed")
    /\ Goes(r, IF Matching(run[r].hub, run[r].rec) THEN "checked" ELSE "raising")
    /\ UNCHANGED <<attempts, stream, task, active>> /\ RunUnchanged

\* submit_task.  A refusal and a write that is not acknowledged raise out of
\* run_job: the run has not been admitted, so nothing closes its task.
Admit(r) ==
    /\ At(r, "checked")
    /\ \/ Goes(r, "raising") /\ UNCHANGED <<task, stream>>
       \/ /\ task' = [task EXCEPT ![r].state = "admitted"]
          /\ Emit(r, <<TaskEvent(r, "admitted")>>)
          /\ Goes(r, "admitted") \/ Goes(r, "raising")
    /\ UNCHANGED <<attempts, active>> /\ RunUnchanged

\* The runner is built, and lifecycle.start makes the task running.
Start(r) ==
    /\ At(r, "admitted")
    /\ \/ Goes(r, "failing") /\ UNCHANGED <<task, stream>>
       \/ /\ task' = [task EXCEPT ![r].state = "running"]
          /\ Emit(r, <<TaskEvent(r, "running")>>)
          /\ Goes(r, "started") \/ Goes(r, "failing")
    /\ UNCHANGED <<attempts, active>> /\ RunUnchanged

\* observe_source and execute: an attempt that is complete, that is not, or that
\* was made under another execution contract than the task's; or an exception.
Execute(r) ==
    /\ At(r, "started")
    /\ \/ Goes(r, "failing")
       \/ \E q \in {"whole", "partial", "foreign"} :
             run' = [run EXCEPT ![r].pc = "executed",
                        ![r].attempt = [run |-> r, rev |-> run[r].rec.rev, quality |-> q]]
    /\ UNCHANGED <<attempts, stream, task, active>> /\ RunUnchanged

\* latest_attempt
ReadPrevious(r) ==
    /\ At(r, "executed")
    /\ run' = [run EXCEPT ![r].pc = "compared",
                          ![r].prev = IF attempts = <<>> THEN NoAttempt ELSE Last(attempts)]
    /\ UNCHANGED <<attempts, stream, task, active>> /\ RunUnchanged

\* record_attempt
RecordAttempt(r) ==
    /\ At(r, "compared")
    /\ \/ Goes(r, "failing") /\ UNCHANGED attempts
       \/ attempts' = Append(attempts, run[r].attempt) /\ Goes(r, "stored")
    /\ UNCHANGED <<stream, task, active>> /\ RunUnchanged

\* compare_attempts
Comparable(a, b) ==
    a.run # b.run /\ a.rev = b.rev /\ a.quality = b.quality /\ a.quality # "partial"

\* Mutant: what the verifier says stands for an incomplete attempt too.
AdmissibleAlways(r, verdict) == run[r].attempt.quality # "foreign" \/ verdict = "no_verdict"

\* The verdicts lifecycle.completed lets through; every other becomes no verdict.
Admissible(r, verdict) ==
    \/ verdict = "no_verdict"
    \/ run[r].attempt.quality = "whole"
    \/ run[r].attempt.quality = "partial" /\ verdict = "failed"

Closes(r, verdict) ==
    /\ task' = [task EXCEPT ![r] = [state |-> "closed", verdict |-> verdict]]
    /\ Emit(r, <<TaskEvent(r, "verdict"), TaskEvent(r, "closed")>>)

\* lifecycle.completed: the verifier, whose exception is no verdict, and
\* _finalize_result: without its acknowledgement the task may stay open.
Finalize(r) ==
    /\ At(r, "stored")
    /\ \/ Goes(r, "raising") /\ UNCHANGED <<task, stream>>
       \/ \E verdict \in Verdicts :
             /\ Admissible(r, verdict)
             /\ Closes(r, verdict)
             /\ Goes(r, "closed") \/ Goes(r, "raising")
    /\ UNCHANGED <<attempts, active>> /\ RunUnchanged

\* record_run: the watch event of the run, if the state is still the record's.
RecordRun(r) ==
    /\ At(r, "closed")
    /\ LET prev == run[r].prev
           cmp == IF prev = NoAttempt THEN "baseline"
                  ELSE IF Comparable(prev, run[r].attempt) THEN "comparable" ELSE "incomparable"
           event == RunEvent(r, run[r].rec, prev.run, cmp, task[r].verdict)
       IN  \/ Goes(r, "raising") /\ UNCHANGED stream
           \/ /\ Matching(run[r].hub, run[r].rec)
              /\ Emit(r, <<event>>)
              /\ Goes(r, "returning") \/ Goes(r, "raising")
    /\ UNCHANGED <<attempts, task, active>> /\ RunUnchanged

\* lifecycle.failed: the admitted task is closed without a verdict; its own
\* failure is only noted.
Failed(r) ==
    /\ At(r, "failing")
    /\ Goes(r, "raising")
    /\ Closes(r, "no_verdict") \/ UNCHANGED <<task, stream>>
    /\ UNCHANGED <<attempts, active>> /\ RunUnchanged

\* Mutant: a run that raised keeps its claim.
ReleaseOnReturn(r) ==
    /\ run[r].pc \in {"raising", "returning"}
    /\ active' = IF At(r, "returning") THEN active \ {run[r].hub} ELSE active
    /\ Ended(r, IF At(r, "returning") THEN "returned" ELSE "raised")
    /\ UNCHANGED <<attempts, stream, task>> /\ RunUnchanged

\* _release, in the finally clause.
Release(r) ==
    /\ run[r].pc \in {"raising", "returning"}
    /\ active' = active \ {run[r].hub}
    /\ Ended(r, IF At(r, "returning") THEN "returned" ELSE "raised")
    /\ UNCHANGED <<attempts, stream, task>> /\ RunUnchanged

RunStep(r) ==
    \/ Claim(r) \/ Check(r) \/ Admit(r) \/ Start(r) \/ Execute(r) \/ ReadPrevious(r)
    \/ RecordAttempt(r) \/ Finalize(r) \/ RecordRun(r) \/ Failed(r) \/ Release(r)

\* A hub with a run under way dies and is opened again: recover_unknown_tasks
\* closes what is open.
Over == {"none", "raised", "returned", "dead"}
Reopen(h) ==
    /\ crashes < MaxCrashes /\ crashes' = crashes + 1
    /\ h \in active
    /\ LET open == {r \in Runs : run[r].hub = h /\ task[r].state \in {"admitted", "running"}}
       IN  /\ task' = [r \in Runs |-> IF r \in open THEN [state |-> "closed", verdict |-> "unknown"] ELSE task[r]]
           /\ stream' = [stream EXCEPT ![h] =
                 @ \o [i \in 1..(2 * Cardinality(open)) |-> TaskEvent(None, "recovered")]]
    /\ run' = [r \in Runs |-> IF run[r].hub = h /\ run[r].pc \notin Over THEN Gone(r, "dead") ELSE run[r]]
    /\ active' = active \ {h}
    /\ UNCHANGED <<versions, job, edit, attempts>>

Next ==
    \/ \E e \in Editors : \/ \E field \in {"rev", "enabled", "sched"} : EditRead(e, field)
                          \/ Replace(e)
    \/ \E h \in Hubs : RecordState(h) \/ Reopen(h)
    \/ \E r \in Runs, h \in Hubs, trigger \in {"manual", "scheduled"} : Require(r, h, trigger)
    \/ \E r \in Runs : RunStep(r)

\* A call of run_job that has begun goes on: every wait in it has a bound.
Spec == Init /\ [][Next]_vars /\ \A r \in Runs : WF_vars(RunStep(r))

-----------------------------------------------------------------------------
(* Properties *)

Rows == [version : Nat, rev : Revisions, enabled : BOOLEAN, sched : BOOLEAN]
Edits == [field : {"rev", "enabled", "sched"}, base : Nat, row : Rows] \cup {NoEdit}
Attempts == [run : Runs, rev : Revisions, quality : {"whole", "partial", "foreign"}]
Calls ==
    [pc : Over \cup {"read", "claimed", "checked", "admitted", "started", "executed", "compared",
                     "stored", "closed", "failing", "raising", "returning"},
     hub : Hubs \cup {None}, rec : Rows \cup {NoRow},
     prev : Attempts \cup {NoAttempt}, attempt : Attempts \cup {NoAttempt}]
TaskStates ==
    [state : {"none", "admitted", "running", "closed"}, verdict : Verdicts \cup {"unknown", None}]
Events ==
    [kind : {"state"}, rev : Revisions, version : Nat]
    \cup [kind : {"run"}, run : Runs, rev : Revisions, version : Nat, prev : Runs \cup {None},
          cmp : {"baseline", "comparable", "incomparable"}, verdict : Verdicts]
    \cup [kind : {"task"}, run : Runs \cup {None},
          what : {"admitted", "running", "verdict", "closed", "recovered"}]

\* The tables, the streams and the calls hold what the code can write.
TypeOK ==
    /\ versions \in Seq(Rows) /\ job \in Rows /\ edit \in [Editors -> Edits]
    /\ attempts \in Seq(Attempts)
    /\ stream \in [Hubs -> Seq(Events)]
    /\ task \in [Runs -> TaskStates] /\ run \in [Runs -> Calls]
    /\ active \subseteq Hubs /\ crashes \in 0..MaxCrashes

\* Two configuration calls never overwrite each other: each version differs
\* from the one before in one thing, and the row is the last version.
NoLostEdit ==
    /\ job = Last(versions)
    /\ \A i \in 2..Len(versions) :
          /\ versions[i].version = versions[i-1].version + 1
          /\ Cardinality({f \in {"rev", "enabled", "sched"} : versions[i][f] # versions[i-1][f]}) = 1

Effective == {"started", "executed", "compared", "stored"}

\* The admission fence: while a run observes, executes, stores and verifies, its
\* task is durably running, its hub holds the job, and no other run of the hub
\* is past its own claim.
EffectsFenced ==
    \A r \in Runs : run[r].pc \in Effective =>
        /\ task[r].state = "running" /\ run[r].hub \in active
        /\ \A q \in Runs \ {r} : run[q].hub = run[r].hub =>
              run[q].pc \in Over \cup {"read"}

\* What the stream says of a run is what happened: the attempt is in the
\* ledger, of the same procedure revision, the task was closed with the verdict
\* before, and only a whole attempt of the admitted contract is verified.  A
\* call that returned has told the stream.
RecordedIsTrue ==
    /\ \A h \in Hubs : \A i \in DOMAIN stream[h] : stream[h][i].kind = "run" =>
          LET e == stream[h][i] IN
          /\ \E a \in Range(attempts) :
                a.run = e.run /\ a.rev = e.rev /\ (e.verdict = "verified" => a.quality = "whole")
          /\ task[e.run] = [state |-> "closed", verdict |-> e.verdict]
          /\ \E k \in 1..(i-1) : stream[h][k] = TaskEvent(e.run, "closed")
    /\ \A r \in Runs : At(r, "returned") =>
          \E e \in Range(stream[run[r].hub]) : e.kind = "run" /\ e.run = r

\* A claim never outlives its run: a job claimed is free again.
ClaimReleased == \A h \in Hubs : (h \in active) ~> (h \notin active)

\* The stream can be read back: what the hub recorded of a job, from its first
\* state on, is a history the projection accepts.
StreamProjects == \A h \in Hubs : Watch(stream[h]) # <<>> => Projects(stream[h])
=============================================================================
