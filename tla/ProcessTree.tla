----------------------------- MODULE ProcessTree -----------------------------
(***************************************************************************)
(* One command run as an owned process tree (tools/process_runner.py): the  *)
(* owner (a Job Object on Windows, tools/windows_job.py; a child-subreaper  *)
(* supervisor on Linux, tools/posix_supervisor.py; a process group or the   *)
(* visible tree elsewhere), the gate before its first effect, the wait for  *)
(* its end, Stop, the deadline or too much output, and the account of what  *)
(* it left behind.                                                          *)
(*                                                                         *)
(* The runner, the supervisor and every process of the command take steps   *)
(* on their own.  A killed process need not die in time, or at all.         *)
(***************************************************************************)
EXTENDS Naturals, FiniteSets

CONSTANTS
    Procs,       \* the processes of the command
    Leader,      \* the one the command itself is
    Platforms    \* a subset of AllPlatforms

AllPlatforms == {"linux", "windows", "group"}

ASSUME TreeAssumption == Leader \in Procs /\ Platforms \subseteq AllPlatforms

VARIABLES
    platform,
    gated,      \* on_spawn was given
    pc,         \* where run_owned is
    owner,      \* _Tree.containment: who owns the tree
    cause,      \* why the runner ended the tree: "none" for a normal exit
    confirmed,  \* cleanup_confirmed: "none", "yes", "no"
    unknown,    \* strays_unconfirmed
    recorded,   \* on_spawn returned
    tracked,    \* the members the Job Object's proof holds handles of
    proc,       \* what each process is doing
    away,       \* the processes that left the command's process group
    code,       \* how the leader ended
    sup,        \* the supervisor
    term,       \* SIGTERM reached the supervisor's handler, or waits for it
    left,       \* the leader's exit as the supervisor knows it
    report,     \* the line in the report pipe
    exit,       \* the exit code of the runner's direct child
    asked,      \* Stop, the deadline and the output limit
    result      \* what run_command gives its caller

treeVars == <<proc, away, code>>
supVars == <<sup, term, left, report>>
runVars == <<owner, cause, confirmed, unknown, recorded, tracked>>
vars == <<platform, gated, pc, runVars, treeVars, supVars, exit, asked, result>>

NoReport == [made |-> FALSE, confirmed |-> FALSE, code |-> "none"]
NoResult == [kind |-> "none", ok |-> FALSE]
Living == {p \in Procs : proc[p] \in {"alive", "doomed"}}
Killable == {p \in Procs : proc[p] = "alive"}
InGroup == Killable \ away

\* The members of the tree that are running get killed; they die by themselves.
Kill(S) == proc' = [p \in Procs |-> IF p \in S \cap Killable THEN "doomed" ELSE proc[p]]

\* Whether the runner's direct child (the supervisor, or the leader) exited.
ChildExited ==
    IF owner = "subreaper" THEN sup = "exited" ELSE proc[Leader] = "dead"
ChildCode == IF owner = "subreaper" THEN exit ELSE code

Init ==
    /\ platform \in Platforms
    /\ gated \in BOOLEAN
    /\ pc = "admit" /\ owner = "none" /\ cause = "none"
    /\ confirmed = "none" /\ unknown = FALSE /\ recorded = FALSE /\ tracked = {}
    /\ proc = [p \in Procs |-> "unborn"] /\ away = {} /\ code = "none"
    /\ sup = "none" /\ term = FALSE /\ left = "none" /\ report = NoReport
    /\ exit = "none"
    /\ asked = {}
    /\ result = NoResult

-----------------------------------------------------------------------------
(* The command's processes and the world around them *)

Fork(p, q) ==
    /\ p \in Killable /\ proc[q] = "unborn" /\ q # Leader
    /\ proc' = [proc EXCEPT ![q] = "alive"]
    /\ away' = IF p \in away THEN away \cup {q} ELSE away
    /\ UNCHANGED <<platform, gated, pc, runVars, code, supVars, exit, asked, result>>

\* setsid(): only a process group loses a process that way.
Leave(p) ==
    /\ p \in Killable \ away /\ owner = "group"
    /\ away' = away \cup {p}
    /\ UNCHANGED <<platform, gated, pc, runVars, proc, code, supVars, exit, asked, result>>

Ends(p) ==
    /\ p \in Living
    /\ proc' = [proc EXCEPT ![p] = "dead"]
    /\ IF p # Leader THEN UNCHANGED code
       ELSE IF proc[p] = "doomed" THEN code' = "killed"
       ELSE code' \in {"zero", "fail"}
    /\ UNCHANGED <<platform, gated, pc, runVars, away, supVars, exit, asked, result>>

\* Stop is requested, the deadline passes, or more is written than is read.
Ask(why) ==
    /\ why \notin asked
    /\ why = "limit" => Killable # {}
    /\ asked' = asked \cup {why}
    /\ UNCHANGED <<platform, gated, pc, runVars, treeVars, supVars, exit, result>>

-----------------------------------------------------------------------------
(* The Linux supervisor *)

SupUnchanged == UNCHANGED <<platform, gated, pc, runVars, asked, result>>

SupReports(confirm, c) ==
    /\ report' = [made |-> TRUE, confirmed |-> confirm, code |-> c]
    /\ exit' = IF c = "none" THEN "interrupted" ELSE c
    /\ sup' = "reported"

\* main and _supervise up to the handlers: a SIGTERM still has its default
\* effect, and a failed setup is reported with nothing started.
SupBoots ==
    /\ sup = "boot"
    /\ \/ term /\ sup' = "exited" /\ exit' = "killed" /\ UNCHANGED report
       \/ ~term /\ sup' = "armed" /\ UNCHANGED <<report, exit>>
       \/ SupReports(FALSE, "none")
    /\ UNCHANGED <<term, left, treeVars>> /\ SupUnchanged

\* _start_leader: the leader is held at its gate until it is seen as a child.
SupStarts ==
    /\ sup = "armed"
    /\ \/ /\ proc' = [proc EXCEPT ![Leader] = "alive"]
          /\ sup' = IF term THEN "drain" ELSE "waiting"
          /\ UNCHANGED <<report, exit>>
       \/ SupReports(FALSE, "none") /\ UNCHANGED proc
    /\ UNCHANGED <<away, code, term, left>> /\ SupUnchanged

\* The leader is waited for; SIGTERM breaks the wait.
SupWaits ==
    /\ sup = "waiting"
    /\ \/ proc[Leader] = "dead" /\ sup' = "reaped" /\ left' = code
       \/ term /\ sup' = "drain" /\ UNCHANGED left
    /\ UNCHANGED <<treeVars, term, report, exit>> /\ SupUnchanged

\* waitpid returned and the flag that makes SIGTERM raise is still set: the
\* status may be lost, and a signal inside the finally clause ends the
\* supervisor without its report.
SupLeavesWait ==
    /\ sup = "reaped"
    /\ \/ sup' = "drain" /\ UNCHANGED <<left, exit>>
       \/ term /\ sup' = "drain" /\ left' = "none" /\ UNCHANGED exit
       \/ term /\ sup' = "exited" /\ exit' = "fail" /\ UNCHANGED left
    /\ UNCHANGED <<treeVars, term, report>> /\ SupUnchanged

\* _drain_children: kill what is a child, wait, look again.
SupKills(p) ==
    /\ sup = "drain" /\ p \in Killable
    /\ Kill({p})
    /\ UNCHANGED <<away, code, supVars, exit>> /\ SupUnchanged

\* waitpid says ECHILD, or the drain's deadline passes first.
SupDrained ==
    /\ sup = "drain"
    /\ \/ Living = {} /\ SupReports(TRUE, left)
       \/ Living # {} /\ SupReports(FALSE, left)
    /\ UNCHANGED <<treeVars, term, left>> /\ SupUnchanged

SupExits ==
    /\ sup = "reported" /\ sup' = "exited"
    /\ UNCHANGED <<treeVars, term, left, report, exit>> /\ SupUnchanged

\* Somebody (the kernel short of memory, another user) kills the supervisor.
SupKilled ==
    /\ sup \in {"boot", "armed", "waiting", "reaped", "drain", "reported"}
    /\ sup' = "exited" /\ exit' = "killed"
    /\ UNCHANGED <<treeVars, term, left, report>> /\ SupUnchanged

Supervisor ==
    \/ SupBoots \/ SupStarts \/ SupWaits \/ SupLeavesWait \/ SupDrained \/ SupExits
    \/ \E p \in Procs : SupKills(p)

\* _PosixOwner.collect with _report_matches_run.
Collect(interrupted) ==
    IF report.made /\ (IF report.code = "none" THEN interrupted ELSE report.code = exit)
    THEN report ELSE NoReport

-----------------------------------------------------------------------------
(* run_owned up to the wait *)

RunUnchanged == UNCHANGED <<platform, gated, asked>>

Leaves(kind) ==
    /\ pc' = "done"
    /\ result' = [kind |-> kind, ok |-> FALSE]

\* _open_tree: Windows may refuse the Job Object.
Owners ==
    CASE platform = "windows" -> {"job", "visible"}
      [] platform = "linux" -> {"subreaper"}
      [] OTHER -> {"group"}

\* _admitted_executable, and the owner.
Admit ==
    /\ pc = "admit"
    /\ \/ "stop" \in asked /\ Leaves("cancelled") /\ UNCHANGED owner
       \/ "stop" \notin asked /\ Leaves("not_started") /\ UNCHANGED owner
       \/ /\ "stop" \notin asked
          /\ pc' = "spawn"
          /\ owner' \in Owners
          /\ UNCHANGED result
    /\ UNCHANGED <<cause, confirmed, unknown, recorded, tracked, treeVars, supVars, exit>>
    /\ RunUnchanged

\* The child: the supervisor behind the shell gate, the leader behind it,
\* suspended in the job, or (in the visible tree) running at once.
Spawn ==
    /\ pc = "spawn"
    /\ \/ Leaves("not_started") /\ UNCHANGED <<proc, sup>>
       \/ /\ pc' = "spawned"
          /\ IF owner = "subreaper"
             THEN sup' = (IF gated THEN "gate" ELSE "boot") /\ UNCHANGED proc
             ELSE /\ proc' = [proc EXCEPT ![Leader] =
                        IF owner = "job" \/ (owner = "group" /\ gated) THEN "held" ELSE "alive"]
                  /\ UNCHANGED sup
          /\ UNCHANGED result
    /\ UNCHANGED <<runVars, away, code, term, left, report, exit>> /\ RunUnchanged

\* Mutant: the gate is opened without waiting for the record.
OnSpawnLate ==
    /\ pc = "spawned"
    /\ pc' = "release" /\ recorded' = FALSE
    /\ UNCHANGED <<owner, cause, confirmed, unknown, tracked, treeVars, supVars, exit, result>>
    /\ RunUnchanged

\* on_spawn returns or raises.
OnSpawn ==
    /\ pc = "spawned"
    /\ \/ pc' = "release" /\ recorded' = gated
       \/ gated /\ pc' = "fail" /\ UNCHANGED recorded
    /\ UNCHANGED <<owner, cause, confirmed, unknown, tracked, treeVars, supVars, exit, result>>
    /\ RunUnchanged

\* The shell gate is written; its reader may be gone.
Release ==
    /\ pc = "release" /\ owner # "job"
    /\ \/ /\ pc' = "wait"
          /\ sup' = IF sup = "gate" THEN "boot" ELSE sup
          /\ proc' = [proc EXCEPT ![Leader] = IF @ = "held" THEN "alive" ELSE @]
       \/ gated /\ pc' = "fail" /\ UNCHANGED <<sup, proc>>
    /\ UNCHANGED <<runVars, away, code, term, left, report, exit, result>> /\ RunUnchanged

\* The job adopts and resumes the suspended child.
Adopt ==
    /\ pc = "release" /\ owner = "job"
    /\ pc' = "wait" /\ proc' = [proc EXCEPT ![Leader] = "alive"]
    /\ UNCHANGED <<runVars, away, code, supVars, exit, result>> /\ RunUnchanged

\* A refused adoption ends the suspended child, gives the job up and starts the
\* command again in the visible tree; an end not seen in time is an error.
AdoptRefused ==
    /\ pc = "release" /\ owner = "job"
    /\ owner' = "visible"
    /\ \/ pc' = "wait" /\ confirmed' = "yes"
          /\ proc' = [proc EXCEPT ![Leader] = "alive"] /\ UNCHANGED result
       \/ Leaves("not_started") /\ confirmed' = "no" /\ UNCHANGED proc
       \/ Leaves("not_started") /\ confirmed' = "yes"
          /\ proc' = [proc EXCEPT ![Leader] = "dead"]
    /\ UNCHANGED <<cause, unknown, recorded, tracked, away, code, supVars, exit>> /\ RunUnchanged

\* The failure path of _start: nothing of the command has run yet.
FailStart ==
    /\ pc = "fail"
    /\ IF owner = "subreaper"
       THEN /\ sup' = "exited" /\ exit' = "killed" /\ confirmed' = "no"
            /\ UNCHANGED <<proc, owner>>
       ELSE /\ proc' = [proc EXCEPT ![Leader] =
                    IF @ = "held" THEN "dead" ELSE IF @ = "alive" THEN "doomed" ELSE @]
            /\ confirmed' \in IF owner = "job" THEN {"yes", "no"} ELSE {"no"}
            /\ owner' = IF owner = "job" THEN "visible" ELSE owner
            /\ UNCHANGED <<sup, exit>>
    /\ Leaves("error")
    /\ UNCHANGED <<cause, unknown, recorded, tracked, away, code, term, left, report>>
    /\ RunUnchanged

-----------------------------------------------------------------------------
(* _wait: the poll loop *)

\* Stop, the limit or the deadline ends the tree, and so does an exception of
\* the probe or of the captures.
WaitEnds(why) ==
    /\ pc = "wait"
    /\ why \in asked \cup {"raised"}
    /\ cause' = why /\ pc' = "kill"
    /\ UNCHANGED <<owner, confirmed, unknown, recorded, tracked, treeVars, supVars, exit, result>>
    /\ RunUnchanged

WaitExited ==
    /\ pc = "wait" /\ ChildExited
    /\ pc' = "settle"
    /\ UNCHANGED <<runVars, treeVars, supVars, exit, result>> /\ RunUnchanged

-----------------------------------------------------------------------------
(* _kill_process_tree_best_effort, and _end_strays after a normal exit *)

Settling == pc \in {"kill", "settle"}

\* What the owner's account leaves behind: the answer of the kill, or the
\* account of the strays.
Accounted(answer) ==
    /\ confirmed' = answer
    /\ unknown' = (pc = "settle" /\ answer = "no")
    /\ pc' = "finish"

\* The Job Object: handles of the members seen, TerminateJobObject (a process
\* that is being created may be missed by either), all handles signaled, no
\* member that was not seen.
JobTerminate ==
    /\ Settling /\ owner = "job"
    /\ \E seen \in SUBSET Living, S \in SUBSET Killable :
          /\ seen \cap Killable \subseteq S
          /\ tracked' = seen /\ Kill(S)
    /\ pc' = IF pc = "kill" THEN "jobkill" ELSE "jobsettle"
    /\ UNCHANGED <<owner, cause, confirmed, unknown, recorded, away, code, supVars, exit, result>>
    /\ RunUnchanged

\* Mutant: the tree is confirmed gone once the handles seen first are signaled.
JobProvenEarly == tracked \cap Living = {}

\* _prove_terminated: every member seen has ended and no other is left.
JobProven == Living = {}

\* Mutant: the proof has no deadline.
JobSettleForever ==
    /\ pc \in {"jobkill", "jobsettle"}
    /\ JobProven
    /\ confirmed' = "yes" /\ pc' = "finish"
    /\ UNCHANGED <<tracked, proc, unknown>>
    /\ UNCHANGED <<owner, cause, recorded, away, code, supVars, exit, result>>
    /\ RunUnchanged

JobSettle ==
    /\ pc \in {"jobkill", "jobsettle"}
    /\ \/ JobProven /\ confirmed' \in (IF pc = "jobkill" THEN {"yes"} ELSE {"none", "yes"})
          /\ UNCHANGED <<tracked, proc, unknown>> /\ pc' = "finish"
       \/ /\ Living \subseteq Procs \ tracked /\ Living # {}
          /\ tracked' = tracked \cup Living /\ Kill(Living)
          /\ UNCHANGED <<confirmed, unknown, pc>>
       \/ /\ confirmed' = "no" /\ unknown' = (pc = "jobsettle")
          /\ pc' = "finish"
          /\ UNCHANGED <<tracked, proc>>
    /\ UNCHANGED <<owner, cause, recorded, away, code, supVars, exit, result>>
    /\ RunUnchanged

\* The supervisor: SIGTERM, then its exit and report within its drain budget,
\* else SIGKILL and no answer.
SupSignal ==
    /\ pc = "kill" /\ owner = "subreaper" /\ ~term /\ sup # "exited"
    /\ term' = TRUE
    /\ UNCHANGED <<pc, runVars, treeVars, sup, left, report, exit, result>> /\ RunUnchanged

SupSettle ==
    /\ Settling /\ owner = "subreaper"
    /\ \/ /\ sup = "exited"
          /\ LET r == Collect(pc = "kill")
             IN  \/ r.confirmed /\ Accounted("yes")
                 \/ r.confirmed /\ pc = "settle" /\ Accounted("none")
                 \/ ~r.confirmed /\ Accounted("no")
          /\ UNCHANGED <<sup, exit>>
       \/ /\ pc = "kill" /\ term /\ sup # "exited"
          /\ sup' = "exited" /\ exit' = "killed"
          /\ Accounted("no")
    /\ UNCHANGED <<owner, cause, recorded, tracked, treeVars, term, left, report, result>>
    /\ RunUnchanged

\* A process group and the visible tree can be signalled, and never proved.
UnprovenSettle ==
    /\ Settling /\ owner \in {"group", "visible"}
    /\ IF owner = "group" THEN Kill(InGroup)
       ELSE IF pc = "kill" THEN \E S \in SUBSET Killable : Leader \in S \cup (Procs \ Killable) /\ Kill(S)
       ELSE UNCHANGED proc
    /\ confirmed' = IF pc = "settle" /\ owner = "visible" THEN confirmed ELSE "no"
    /\ unknown' = (pc = "settle")
    /\ pc' = "finish"
    /\ UNCHANGED <<owner, cause, recorded, tracked, away, code, supVars, exit, result>>
    /\ RunUnchanged

-----------------------------------------------------------------------------
\* Mutant: an exit code of zero is enough.
ExitCodeOk == ChildCode = "zero"

\* RunOutcome.ok
OutcomeOk == cause = "none" /\ ChildCode = "zero"

\* run_command: output past the limit or a tree not shown ended is no result.
Verdict ==
    IF cause = "raised" THEN [kind |-> "error", ok |-> FALSE]
    ELSE IF "limit" \in asked THEN [kind |-> "limit", ok |-> FALSE]
    ELSE IF unknown THEN [kind |-> "unknown", ok |-> FALSE]
    ELSE [kind |-> "run", ok |-> OutcomeOk]

\* captures.finish, _refuse_past_limit, and the handles closed (which kills what
\* a job still holds).
Finish ==
    /\ pc = "finish"
    /\ pc' = "done"
    /\ result' = Verdict
    /\ IF owner = "job" THEN Kill(Procs) ELSE UNCHANGED proc
    /\ UNCHANGED <<runVars, away, code, supVars, exit>> /\ RunUnchanged

Runner ==
    \/ Admit \/ Spawn \/ OnSpawn \/ Release \/ Adopt \/ AdoptRefused \/ FailStart \/ WaitExited
    \/ \E why \in {"stop", "limit", "deadline", "raised"} : WaitEnds(why)
    \/ JobTerminate \/ JobSettle \/ SupSignal \/ SupSettle \/ UnprovenSettle \/ Finish

World ==
    \/ \E p, q \in Procs : Fork(p, q)
    \/ \E p \in Procs : Leave(p) \/ Ends(p)
    \/ \E why \in {"stop", "limit"} : Ask(why)
    \/ SupKilled

Done == pc = "done" /\ UNCHANGED vars

Next == Runner \/ Supervisor \/ World \/ Ask("deadline") \/ Done

\* The runner and the supervisor are never blocked for good: all their waits
\* have a bound.  Time passes.  Nothing is assumed of the command itself: it
\* may run, or refuse to die, for ever.
Spec == Init /\ [][Next]_vars /\ WF_vars(Runner) /\ WF_vars(Supervisor) /\ WF_vars(Ask("deadline"))

-----------------------------------------------------------------------------
(* Properties *)

\* Every component has its type.
TypeOK ==
    /\ platform \in AllPlatforms /\ gated \in BOOLEAN
    /\ pc \in {"admit", "spawn", "spawned", "release", "fail", "wait", "kill", "settle",
               "jobkill", "jobsettle", "finish", "done"}
    /\ owner \in {"none", "job", "subreaper", "group", "visible"}
    /\ cause \in {"none", "stop", "limit", "deadline", "raised"}
    /\ confirmed \in {"none", "yes", "no"} /\ unknown \in BOOLEAN
    /\ recorded \in BOOLEAN /\ tracked \subseteq Procs
    /\ proc \in [Procs -> {"unborn", "held", "alive", "doomed", "dead"}]
    /\ away \subseteq Procs
    /\ code \in {"none", "zero", "fail", "killed"}
    /\ sup \in {"none", "gate", "boot", "armed", "waiting", "reaped", "drain", "reported",
                "exited"}
    /\ term \in BOOLEAN
    /\ left \in {"none", "zero", "fail", "killed"}
    /\ report \in [made : BOOLEAN, confirmed : BOOLEAN,
                   code : {"none", "zero", "fail", "killed"}]
    /\ exit \in {"none", "zero", "fail", "killed", "interrupted"}
    /\ asked \subseteq {"stop", "limit", "deadline"}
    /\ result \in [kind : {"none", "cancelled", "not_started", "error", "limit", "unknown",
                           "run"}, ok : BOOLEAN]

\* A run handed to its caller whose cleanup is not reported unknown has left no
\* process behind, whichever of exit, Stop, deadline and output limit came
\* first and wherever the supervisor was when SIGTERM reached it; and whatever
\* an owner that can prove it confirmed gone is gone.
SettledIsGone ==
    pc = "done" =>
        /\ result.kind = "run" /\ confirmed # "no" => Living = {}
        /\ owner # "visible" /\ confirmed = "yes" => Living = {}

\* RunOutcome's own words: confirmed means every process was accounted for.
ConfirmedIsGone == pc = "done" /\ confirmed = "yes" => Living = {}

\* A run reported successful is one whose command came to its own end with
\* code zero: never one that was killed or whose supervisor failed.
OkRanToItsEnd == result.ok => code = "zero" /\ cause = "none"

Ran == proc[Leader] \in {"alive", "doomed"} \/ code # "none"

\* With an owner the command takes no step before on_spawn has returned, and
\* none at all if it raised.
GateHolds == gated /\ Ran /\ owner \in {"job", "subreaper", "group"} => recorded

\* The same for every run, as the module's documentation has it.
CallbackBeforeEffect == gated /\ Ran => recorded

\* Whatever the command does and whoever dies, run_owned comes to its end once
\* the deadline has passed.
RunEnds == <>(pc = "done")
=============================================================================
