-------------------------- MODULE ProcessTreeProofs --------------------------
(***************************************************************************)
(* Proofs about ProcessTree for any set of processes and any platforms,    *)
(* with a supervisor that may be killed at any time and processes that may *)
(* refuse to die.                                                          *)
(*                                                                         *)
(* What is confirmed gone stays gone: a process is only ever started by a  *)
(* living one, by the gate, or by a supervisor that has not yet reported.  *)
(***************************************************************************)
EXTENDS ProcessTree, TLAPS

-----------------------------------------------------------------------------
(* The inductive invariant.                                                *)

\* The command is started once, by its owner, and its end is seen once.
StartInv ==
    /\ pc \in {"admit", "spawn"} =>
          (\A p \in Procs : proc[p] = "unborn") /\ sup = "none" /\ confirmed = "none"
    /\ sup # "none" => owner = "subreaper"
    /\ owner = "subreaper" => proc[Leader] # "held"
    /\ sup \in {"gate", "boot", "armed"} => proc[Leader] = "unborn"
    /\ owner = "job" /\ pc \in {"spawned", "release"} => proc[Leader] = "held"
    /\ pc \in {"jobkill", "jobsettle"} => owner = "job"
    /\ code # "none" => proc[Leader] = "dead"

\* Without the record the command is held at its gate.
GateInv ==
    gated /\ ~recorded /\ owner \in {"job", "subreaper", "group"} =>
        /\ pc \in {"spawn", "spawned", "fail", "done"}
        /\ proc[Leader] \in {"unborn", "held", "dead"} /\ code = "none"
        /\ sup \in {"none", "gate", "exited"}

\* Nothing runs, and nobody is left to start anything.
Quiet == Living = {} /\ sup \in {"none", "exited"}

\* The supervisor reports a confirmed end only of a tree that is gone.
ReportInv ==
    report.made /\ report.confirmed => Living = {} /\ sup \in {"reported", "exited"}

\* What the runner's account of the tree rests on.
SettleInv ==
    /\ pc \in {"finish", "done"} /\ owner # "visible" /\ confirmed = "yes" => Quiet
    /\ pc = "finish" /\ confirmed # "no" => Quiet \/ unknown
    /\ pc = "done" /\ result.kind = "run" /\ confirmed # "no" => Quiet
    /\ result.kind # "none" \/ result.ok => pc = "done"

\* The exit the supervisor passes on is the leader's own.
ExitInv ==
    /\ left # "none" => left = code
    /\ exit = "zero" => code = "zero"
    /\ result.ok => code = "zero" /\ cause = "none"

IInv == TypeOK /\ StartInv /\ GateInv /\ ReportInv /\ SettleInv /\ ExitInv

-----------------------------------------------------------------------------
(* Every step keeps the invariant.                                        *)

\* The types.
LEMMA TypeStep == IInv /\ [Next]_vars => TypeOK'
<1> SUFFICES ASSUME IInv, [Next]_vars PROVE TypeOK'
  OBVIOUS
<1> USE DEF IInv, TypeOK, AllPlatforms, NoReport, NoResult
<1>1. CASE Admit
  <2>1. result' \in [kind : {"none", "cancelled", "not_started", "error", "limit", "unknown",
                              "run"}, ok : BOOLEAN]
    <3>1. \/ \E k \in {"cancelled", "not_started"} : result' = [kind |-> k, ok |-> FALSE]
          \/ result' = result
      BY <1>1 DEF Admit, Leaves
    <3>2. \A k \in {"cancelled", "not_started"} : [kind |-> k, ok |-> FALSE] \in
             [kind : {"none", "cancelled", "not_started", "error", "limit", "unknown",
                          "run"}, ok : BOOLEAN]
      OBVIOUS
    <3> QED
      BY <3>1, <3>2
  <2>2. pc' \in {"spawn", "done"}
    BY <1>1 DEF Admit, Leaves
  <2>3. owner' \in {"none", "job", "subreaper", "group", "visible"}
    BY <1>1 DEF Admit, Owners
  <2>4. UNCHANGED <<platform, gated, cause, confirmed, unknown, recorded, tracked, treeVars,
                    supVars, exit, asked>>
    BY <1>1 DEF Admit, RunUnchanged
  <2> QED
    BY <2>1, <2>2, <2>3, <2>4 DEF treeVars, supVars
<1>2. CASE Spawn
  <2>1. result' \in [kind : {"none", "cancelled", "not_started", "error", "limit", "unknown",
                              "run"}, ok : BOOLEAN]
    <3>1. \/ \E k \in {"cancelled", "not_started"} : result' = [kind |-> k, ok |-> FALSE]
          \/ result' = result
      BY <1>2 DEF Spawn, Leaves
    <3>2. \A k \in {"cancelled", "not_started"} : [kind |-> k, ok |-> FALSE] \in
             [kind : {"none", "cancelled", "not_started", "error", "limit", "unknown",
                          "run"}, ok : BOOLEAN]
      OBVIOUS
    <3> QED
      BY <3>1, <3>2
  <2>2. pc' \in {"spawned", "done"}
    BY <1>2 DEF Spawn, Leaves
  <2>3. proc' \in [Procs -> {"unborn", "held", "alive", "doomed", "dead"}]
    BY <1>2, TreeAssumption DEF Spawn
  <2>4. sup' \in {sup, "gate", "boot"}
    BY <1>2 DEF Spawn
  <2>5. UNCHANGED <<platform, gated, runVars, away, code, term, left, report, exit, asked>>
    BY <1>2 DEF Spawn, RunUnchanged
  <2> QED
    BY <2>1, <2>2, <2>3, <2>4, <2>5 DEF runVars
<1>3. CASE OnSpawn
  BY <1>3, TreeAssumption DEF OnSpawn, RunUnchanged, runVars, treeVars, supVars
<1>4. CASE Release
  BY <1>4, TreeAssumption DEF Release, RunUnchanged, runVars, treeVars, supVars
<1>5. CASE Adopt
  BY <1>5, TreeAssumption DEF Adopt, RunUnchanged, runVars, treeVars, supVars
<1>6. CASE AdoptRefused
  <2>1. result' \in [kind : {"none", "cancelled", "not_started", "error", "limit", "unknown",
                              "run"}, ok : BOOLEAN]
    <3>1. \/ \E k \in {"cancelled", "not_started"} : result' = [kind |-> k, ok |-> FALSE]
          \/ result' = result
      BY <1>6 DEF AdoptRefused, Leaves
    <3>2. \A k \in {"cancelled", "not_started"} : [kind |-> k, ok |-> FALSE] \in
             [kind : {"none", "cancelled", "not_started", "error", "limit", "unknown",
                          "run"}, ok : BOOLEAN]
      OBVIOUS
    <3> QED
      BY <3>1, <3>2
  <2>2. /\ pc' \in {"wait", "done"} /\ owner' = "visible" /\ confirmed' \in {"yes", "no"}
    BY <1>6 DEF AdoptRefused, Leaves
  <2>3. proc' \in [Procs -> {"unborn", "held", "alive", "doomed", "dead"}]
    <3>1. \/ proc' = [proc EXCEPT ![Leader] = "alive"]
          \/ proc' = [proc EXCEPT ![Leader] = "dead"]
          \/ proc' = proc
      BY <1>6 DEF AdoptRefused
    <3> QED
      BY <3>1, TreeAssumption
  <2>4. UNCHANGED <<platform, gated, cause, unknown, recorded, tracked, away, code, supVars,
                    exit, asked>>
    BY <1>6 DEF AdoptRefused, RunUnchanged
  <2> QED
    BY <2>1, <2>2, <2>3, <2>4 DEF supVars
<1>7. CASE FailStart
  BY <1>7, TreeAssumption DEF FailStart, Leaves, RunUnchanged, runVars, treeVars,
     supVars
<1>8. CASE WaitExited
  BY <1>8, TreeAssumption DEF WaitExited, ChildExited, RunUnchanged, runVars,
     treeVars, supVars
<1>9. ASSUME NEW why \in {"stop", "limit", "deadline", "raised"}, WaitEnds(why) PROVE TypeOK'
  BY <1>9, TreeAssumption DEF WaitEnds, RunUnchanged, runVars, treeVars, supVars
<1>10. CASE JobTerminate
  BY <1>10, TreeAssumption DEF JobTerminate, Kill, Settling, Living, Killable,
     RunUnchanged, runVars, treeVars, supVars
<1>11. CASE JobSettle
  <2>1. tracked' \subseteq Procs
    BY <1>11 DEF JobSettle, Living
  <2>2. proc' \in [Procs -> {"unborn", "held", "alive", "doomed", "dead"}]
    <3>1. proc' = proc \/ Kill(Living)
      BY <1>11 DEF JobSettle
    <3> QED
      BY <3>1 DEF Kill, Killable
  <2>3. confirmed' \in {confirmed, "none", "yes", "no"} /\ unknown' \in BOOLEAN
    BY <1>11 DEF JobSettle
  <2>4. pc' \in {pc, "finish"}
    BY <1>11 DEF JobSettle
  <2>5. UNCHANGED <<platform, gated, owner, cause, recorded, away, code, supVars, exit, asked,
                    result>>
    BY <1>11 DEF JobSettle, RunUnchanged
  <2> QED
    BY <2>1, <2>2, <2>3, <2>4, <2>5 DEF supVars
<1>12. CASE SupSignal
  BY <1>12, TreeAssumption DEF SupSignal, RunUnchanged, runVars, treeVars, supVars
<1>13. CASE SupSettle
  <2>1. confirmed' \in {"none", "yes", "no"} /\ unknown' \in BOOLEAN /\ pc' = "finish"
    BY <1>13 DEF SupSettle, Accounted
  <2>2. sup' \in {sup, "exited"} /\ exit' \in {exit, "killed"}
    BY <1>13 DEF SupSettle
  <2>3. UNCHANGED <<platform, gated, owner, cause, recorded, tracked, treeVars, term, left,
                    report, asked, result>>
    BY <1>13 DEF SupSettle, RunUnchanged
  <2> QED
    BY <2>1, <2>2, <2>3 DEF treeVars
<1>14. CASE UnprovenSettle
  BY <1>14, TreeAssumption DEF UnprovenSettle, Kill, Killable, Settling, InGroup,
     RunUnchanged, runVars, treeVars, supVars
<1>15. CASE Finish
  BY <1>15, TreeAssumption DEF Finish, Verdict, OutcomeOk, ChildCode, Kill,
     Killable, RunUnchanged, runVars, treeVars, supVars
<1>16. CASE SupBoots
  <2>1. report' \in [made : BOOLEAN, confirmed : BOOLEAN, code : {"none", "zero", "fail", "killed"}]
    <3>1. \/ report' = report
          \/ report' = [made |-> TRUE, confirmed |-> FALSE, code |-> "none"]
      BY <1>16 DEF SupBoots, SupReports
    <3>2. [made |-> TRUE, confirmed |-> FALSE, code |-> "none"] \in
             [made : BOOLEAN, confirmed : BOOLEAN, code : {"none", "zero", "fail", "killed"}]
      OBVIOUS
    <3> QED
      BY <3>1, <3>2
  <2>2. /\ sup' \in {"exited", "armed", "reported"}
        /\ exit' \in {exit, "killed", "interrupted"}
    BY <1>16 DEF SupBoots, SupReports
  <2>3. UNCHANGED <<platform, gated, pc, runVars, asked, result, term, left, treeVars>>
    BY <1>16 DEF SupBoots, SupUnchanged
  <2> QED
    BY <2>1, <2>2, <2>3 DEF treeVars, runVars
<1>17. CASE SupStarts
  <2>1. report' \in [made : BOOLEAN, confirmed : BOOLEAN, code : {"none", "zero", "fail", "killed"}]
    <3>1. \/ report' = report
          \/ report' = [made |-> TRUE, confirmed |-> FALSE, code |-> "none"]
      BY <1>17 DEF SupStarts, SupReports
    <3>2. [made |-> TRUE, confirmed |-> FALSE, code |-> "none"] \in
             [made : BOOLEAN, confirmed : BOOLEAN, code : {"none", "zero", "fail", "killed"}]
      OBVIOUS
    <3> QED
      BY <3>1, <3>2
  <2>2. /\ sup' \in {"drain", "waiting", "reported"}
        /\ exit' \in {exit, "interrupted"}
    BY <1>17 DEF SupStarts, SupReports
  <2>3. UNCHANGED <<platform, gated, pc, runVars, asked, result, term, left, away, code>>
    BY <1>17 DEF SupStarts, SupUnchanged
  <2>4. proc' \in [Procs -> {"unborn", "held", "alive", "doomed", "dead"}]
    BY <1>17, TreeAssumption DEF SupStarts
  <2> QED
    BY <2>1, <2>2, <2>3, <2>4 DEF treeVars, runVars
<1>18. CASE SupWaits
  BY <1>18, TreeAssumption DEF SupWaits, SupUnchanged, runVars, treeVars, supVars
<1>19. CASE SupLeavesWait
  BY <1>19, TreeAssumption DEF SupLeavesWait, SupUnchanged, runVars, treeVars,
     supVars
<1>20. CASE SupDrained
  <2>1. report' \in [made : BOOLEAN, confirmed : BOOLEAN, code : {"none", "zero", "fail", "killed"}]
    <3>1. \/ report' = report
          \/ report' = [made |-> TRUE, confirmed |-> TRUE, code |-> left]
          \/ report' = [made |-> TRUE, confirmed |-> FALSE, code |-> left]
      BY <1>20 DEF SupDrained, SupReports
    <3>2. [made |-> TRUE, confirmed |-> TRUE, code |-> left] \in
             [made : BOOLEAN, confirmed : BOOLEAN, code : {"none", "zero", "fail", "killed"}]
      OBVIOUS
    <3>3. [made |-> TRUE, confirmed |-> FALSE, code |-> left] \in
             [made : BOOLEAN, confirmed : BOOLEAN, code : {"none", "zero", "fail", "killed"}]
      OBVIOUS
    <3> QED
      BY <3>1, <3>2, <3>3
  <2>2. /\ sup' = "reported"
        /\ exit' \in {"none", "zero", "fail", "killed", "interrupted"}
    BY <1>20 DEF SupDrained, SupReports
  <2>3. UNCHANGED <<platform, gated, pc, runVars, asked, result, term, left, treeVars>>
    BY <1>20 DEF SupDrained, SupUnchanged
  <2> QED
    BY <2>1, <2>2, <2>3 DEF treeVars, runVars
<1>21. CASE SupExits
  BY <1>21, TreeAssumption DEF SupExits, SupUnchanged, runVars, treeVars, supVars
<1>22. ASSUME NEW p \in Procs, SupKills(p) PROVE TypeOK'
  BY <1>22, TreeAssumption DEF SupKills, Kill, Killable, SupUnchanged, runVars,
     treeVars, supVars
<1>23. ASSUME NEW p \in Procs, NEW q \in Procs, Fork(p, q) PROVE TypeOK'
  BY <1>23, TreeAssumption DEF Fork, Killable, runVars, treeVars, supVars
<1>24. ASSUME NEW p \in Procs, Leave(p) PROVE TypeOK'
  BY <1>24, TreeAssumption DEF Leave, Killable, runVars, treeVars, supVars
<1>25. ASSUME NEW p \in Procs, Ends(p) PROVE TypeOK'
  BY <1>25, TreeAssumption DEF Ends, Living, runVars, treeVars, supVars
<1>26. ASSUME NEW why \in {"stop", "limit", "deadline"}, Ask(why) PROVE TypeOK'
  BY <1>26, TreeAssumption DEF Ask, runVars, treeVars, supVars
<1>27. CASE SupKilled
  BY <1>27, TreeAssumption DEF SupKilled, SupUnchanged, runVars, treeVars, supVars
<1>28. CASE UNCHANGED vars
  BY <1>28 DEF vars, runVars, treeVars, supVars
<1> QED
  BY <1>1, <1>2, <1>3, <1>4, <1>5, <1>6, <1>7, <1>8, <1>9, <1>10, <1>11, <1>12,
     <1>13, <1>14, <1>15, <1>16, <1>17, <1>18, <1>19, <1>20, <1>21, <1>22, <1>23,
     <1>24, <1>25, <1>26, <1>27, <1>28 DEF Next, Runner, Supervisor, World, Done

\* The command is started once.
LEMMA StartStep == IInv /\ [Next]_vars => StartInv'
<1> SUFFICES ASSUME IInv, [Next]_vars PROVE StartInv'
  OBVIOUS
<1> USE DEF IInv, TypeOK, StartInv
<1>1. CASE Admit
  BY <1>1, TreeAssumption DEF Admit, Owners, Leaves, RunUnchanged, runVars,
     treeVars, supVars
<1>2. CASE Spawn
  BY <1>2, TreeAssumption DEF Spawn, Leaves, RunUnchanged, runVars, treeVars,
     supVars
<1>3. CASE OnSpawn
  BY <1>3, TreeAssumption DEF OnSpawn, RunUnchanged, runVars, treeVars, supVars
<1>4. CASE Release
  BY <1>4, TreeAssumption DEF Release, RunUnchanged, runVars, treeVars, supVars
<1>5. CASE Adopt
  BY <1>5, TreeAssumption DEF Adopt, RunUnchanged, runVars, treeVars, supVars
<1>6. CASE AdoptRefused
  BY <1>6, TreeAssumption DEF AdoptRefused, Leaves, RunUnchanged, runVars,
     treeVars, supVars
<1>7. CASE FailStart
  BY <1>7, TreeAssumption DEF FailStart, Leaves, RunUnchanged, runVars, treeVars,
     supVars
<1>8. CASE WaitExited
  BY <1>8, TreeAssumption DEF WaitExited, ChildExited, RunUnchanged, runVars,
     treeVars, supVars
<1>9. ASSUME NEW why \in {"stop", "limit", "deadline", "raised"}, WaitEnds(why) PROVE StartInv'
  BY <1>9, TreeAssumption DEF WaitEnds, RunUnchanged, runVars, treeVars, supVars
<1>10. CASE JobTerminate
  BY <1>10, TreeAssumption DEF JobTerminate, Kill, Settling, Living, Killable,
     RunUnchanged, runVars, treeVars, supVars
<1>11. CASE JobSettle
  BY <1>11, TreeAssumption DEF JobSettle, JobProven, Kill, Living, Killable,
     RunUnchanged, runVars, treeVars, supVars
<1>12. CASE SupSignal
  BY <1>12, TreeAssumption DEF SupSignal, RunUnchanged, runVars, treeVars, supVars
<1>13. CASE SupSettle
  BY <1>13, TreeAssumption DEF SupSettle, Collect, Accounted, Settling,
     RunUnchanged, runVars, treeVars, supVars
<1>14. CASE UnprovenSettle
  BY <1>14, TreeAssumption DEF UnprovenSettle, Kill, Killable, Settling, InGroup,
     RunUnchanged, runVars, treeVars, supVars
<1>15. CASE Finish
  BY <1>15, TreeAssumption DEF Finish, Verdict, OutcomeOk, ChildCode, Kill,
     Killable, RunUnchanged, runVars, treeVars, supVars
<1>16. CASE SupBoots
  BY <1>16, TreeAssumption DEF SupBoots, SupReports, SupUnchanged, runVars,
     treeVars, supVars
<1>17. CASE SupStarts
  BY <1>17, TreeAssumption DEF SupStarts, SupReports, SupUnchanged, runVars,
     treeVars, supVars
<1>18. CASE SupWaits
  BY <1>18, TreeAssumption DEF SupWaits, SupUnchanged, runVars, treeVars, supVars
<1>19. CASE SupLeavesWait
  BY <1>19, TreeAssumption DEF SupLeavesWait, SupUnchanged, runVars, treeVars,
     supVars
<1>20. CASE SupDrained
  BY <1>20, TreeAssumption DEF SupDrained, SupReports, SupUnchanged, runVars,
     treeVars, supVars
<1>21. CASE SupExits
  BY <1>21, TreeAssumption DEF SupExits, SupUnchanged, runVars, treeVars, supVars
<1>22. ASSUME NEW p \in Procs, SupKills(p) PROVE StartInv'
  BY <1>22, TreeAssumption DEF SupKills, Kill, Killable, SupUnchanged, runVars,
     treeVars, supVars
<1>23. ASSUME NEW p \in Procs, NEW q \in Procs, Fork(p, q) PROVE StartInv'
  BY <1>23, TreeAssumption DEF Fork, Killable, runVars, treeVars, supVars
<1>24. ASSUME NEW p \in Procs, Leave(p) PROVE StartInv'
  BY <1>24, TreeAssumption DEF Leave, Killable, runVars, treeVars, supVars
<1>25. ASSUME NEW p \in Procs, Ends(p) PROVE StartInv'
  BY <1>25, TreeAssumption DEF Ends, Living, runVars, treeVars, supVars
<1>26. ASSUME NEW why \in {"stop", "limit", "deadline"}, Ask(why) PROVE StartInv'
  BY <1>26, TreeAssumption DEF Ask, runVars, treeVars, supVars
<1>27. CASE SupKilled
  BY <1>27, TreeAssumption DEF SupKilled, SupUnchanged, runVars, treeVars, supVars
<1>28. CASE UNCHANGED vars
  BY <1>28 DEF vars, runVars, treeVars, supVars
<1> QED
  BY <1>1, <1>2, <1>3, <1>4, <1>5, <1>6, <1>7, <1>8, <1>9, <1>10, <1>11, <1>12,
     <1>13, <1>14, <1>15, <1>16, <1>17, <1>18, <1>19, <1>20, <1>21, <1>22, <1>23,
     <1>24, <1>25, <1>26, <1>27, <1>28 DEF Next, Runner, Supervisor, World, Done

\* The gate holds the command until its record.
LEMMA GateStep == IInv /\ [Next]_vars => GateInv'
<1> SUFFICES ASSUME IInv, [Next]_vars PROVE GateInv'
  OBVIOUS
<1> USE DEF IInv, TypeOK, StartInv, GateInv
<1>1. CASE Admit
  BY <1>1, TreeAssumption DEF Admit, Owners, Leaves, RunUnchanged, runVars,
     treeVars, supVars
<1>2. CASE Spawn
  BY <1>2, TreeAssumption DEF Spawn, Leaves, RunUnchanged, runVars, treeVars,
     supVars
<1>3. CASE OnSpawn
  BY <1>3, TreeAssumption DEF OnSpawn, RunUnchanged, runVars, treeVars, supVars
<1>4. CASE Release
  BY <1>4, TreeAssumption DEF Release, RunUnchanged, runVars, treeVars, supVars
<1>5. CASE Adopt
  BY <1>5, TreeAssumption DEF Adopt, RunUnchanged, runVars, treeVars, supVars
<1>6. CASE AdoptRefused
  BY <1>6, TreeAssumption DEF AdoptRefused, Leaves, RunUnchanged, runVars,
     treeVars, supVars
<1>7. CASE FailStart
  BY <1>7, TreeAssumption DEF FailStart, Leaves, RunUnchanged, runVars, treeVars,
     supVars
<1>8. CASE WaitExited
  BY <1>8, TreeAssumption DEF WaitExited, ChildExited, RunUnchanged, runVars,
     treeVars, supVars
<1>9. ASSUME NEW why \in {"stop", "limit", "deadline", "raised"}, WaitEnds(why) PROVE GateInv'
  BY <1>9, TreeAssumption DEF WaitEnds, RunUnchanged, runVars, treeVars, supVars
<1>10. CASE JobTerminate
  BY <1>10, TreeAssumption DEF JobTerminate, Kill, Settling, Living, Killable,
     RunUnchanged, runVars, treeVars, supVars
<1>11. CASE JobSettle
  BY <1>11, TreeAssumption DEF JobSettle, JobProven, Kill, Living, Killable,
     RunUnchanged, runVars, treeVars, supVars
<1>12. CASE SupSignal
  BY <1>12, TreeAssumption DEF SupSignal, RunUnchanged, runVars, treeVars, supVars
<1>13. CASE SupSettle
  BY <1>13, TreeAssumption DEF SupSettle, Collect, Accounted, Settling,
     RunUnchanged, runVars, treeVars, supVars
<1>14. CASE UnprovenSettle
  BY <1>14, TreeAssumption DEF UnprovenSettle, Kill, Killable, Settling, InGroup,
     RunUnchanged, runVars, treeVars, supVars
<1>15. CASE Finish
  BY <1>15, TreeAssumption DEF Finish, Verdict, OutcomeOk, ChildCode, Kill,
     Killable, RunUnchanged, runVars, treeVars, supVars
<1>16. CASE SupBoots
  BY <1>16, TreeAssumption DEF SupBoots, SupReports, SupUnchanged, runVars,
     treeVars, supVars
<1>17. CASE SupStarts
  BY <1>17, TreeAssumption DEF SupStarts, SupReports, SupUnchanged, runVars,
     treeVars, supVars
<1>18. CASE SupWaits
  BY <1>18, TreeAssumption DEF SupWaits, SupUnchanged, runVars, treeVars, supVars
<1>19. CASE SupLeavesWait
  BY <1>19, TreeAssumption DEF SupLeavesWait, SupUnchanged, runVars, treeVars,
     supVars
<1>20. CASE SupDrained
  BY <1>20, TreeAssumption DEF SupDrained, SupReports, SupUnchanged, runVars,
     treeVars, supVars
<1>21. CASE SupExits
  BY <1>21, TreeAssumption DEF SupExits, SupUnchanged, runVars, treeVars, supVars
<1>22. ASSUME NEW p \in Procs, SupKills(p) PROVE GateInv'
  BY <1>22, TreeAssumption DEF SupKills, Kill, Killable, SupUnchanged, runVars,
     treeVars, supVars
<1>23. ASSUME NEW p \in Procs, NEW q \in Procs, Fork(p, q) PROVE GateInv'
  BY <1>23, TreeAssumption DEF Fork, Killable, runVars, treeVars, supVars
<1>24. ASSUME NEW p \in Procs, Leave(p) PROVE GateInv'
  BY <1>24, TreeAssumption DEF Leave, Killable, runVars, treeVars, supVars
<1>25. ASSUME NEW p \in Procs, Ends(p) PROVE GateInv'
  BY <1>25, TreeAssumption DEF Ends, Living, runVars, treeVars, supVars
<1>26. ASSUME NEW why \in {"stop", "limit", "deadline"}, Ask(why) PROVE GateInv'
  BY <1>26, TreeAssumption DEF Ask, runVars, treeVars, supVars
<1>27. CASE SupKilled
  BY <1>27, TreeAssumption DEF SupKilled, SupUnchanged, runVars, treeVars, supVars
<1>28. CASE UNCHANGED vars
  BY <1>28 DEF vars, runVars, treeVars, supVars
<1> QED
  BY <1>1, <1>2, <1>3, <1>4, <1>5, <1>6, <1>7, <1>8, <1>9, <1>10, <1>11, <1>12,
     <1>13, <1>14, <1>15, <1>16, <1>17, <1>18, <1>19, <1>20, <1>21, <1>22, <1>23,
     <1>24, <1>25, <1>26, <1>27, <1>28 DEF Next, Runner, Supervisor, World, Done

\* A confirmed report is of a tree that is gone.
LEMMA ReportStep == IInv /\ [Next]_vars => ReportInv'
<1> SUFFICES ASSUME IInv, [Next]_vars PROVE ReportInv'
  OBVIOUS
<1> USE DEF IInv, TypeOK, StartInv, ReportInv, Living, Killable
<1>1. CASE Admit
  BY <1>1, TreeAssumption DEF Admit, Owners, Leaves, RunUnchanged, runVars,
     treeVars, supVars
<1>2. CASE Spawn
  BY <1>2, TreeAssumption DEF Spawn, Leaves, RunUnchanged, runVars, treeVars,
     supVars
<1>3. CASE OnSpawn
  BY <1>3, TreeAssumption DEF OnSpawn, RunUnchanged, runVars, treeVars, supVars
<1>4. CASE Release
  BY <1>4, TreeAssumption DEF Release, RunUnchanged, runVars, treeVars, supVars
<1>5. CASE Adopt
  BY <1>5, TreeAssumption DEF Adopt, RunUnchanged, runVars, treeVars, supVars
<1>6. CASE AdoptRefused
  BY <1>6, TreeAssumption DEF AdoptRefused, Leaves, RunUnchanged, runVars,
     treeVars, supVars
<1>7. CASE FailStart
  BY <1>7, TreeAssumption DEF FailStart, Leaves, RunUnchanged, runVars, treeVars,
     supVars
<1>8. CASE WaitExited
  BY <1>8, TreeAssumption DEF WaitExited, ChildExited, RunUnchanged, runVars,
     treeVars, supVars
<1>9. ASSUME NEW why \in {"stop", "limit", "deadline", "raised"}, WaitEnds(why) PROVE ReportInv'
  BY <1>9, TreeAssumption DEF WaitEnds, RunUnchanged, runVars, treeVars, supVars
<1>10. CASE JobTerminate
  BY <1>10, TreeAssumption DEF JobTerminate, Kill, Settling, Living, Killable,
     RunUnchanged, runVars, treeVars, supVars
<1>11. CASE JobSettle
  BY <1>11, TreeAssumption DEF JobSettle, JobProven, Kill, Living, Killable,
     RunUnchanged, runVars, treeVars, supVars
<1>12. CASE SupSignal
  BY <1>12, TreeAssumption DEF SupSignal, RunUnchanged, runVars, treeVars, supVars
<1>13. CASE SupSettle
  BY <1>13, TreeAssumption DEF SupSettle, Collect, Accounted, Settling,
     RunUnchanged, runVars, treeVars, supVars
<1>14. CASE UnprovenSettle
  BY <1>14, TreeAssumption DEF UnprovenSettle, Kill, Killable, Settling, InGroup,
     RunUnchanged, runVars, treeVars, supVars
<1>15. CASE Finish
  BY <1>15, TreeAssumption DEF Finish, Verdict, OutcomeOk, ChildCode, Kill,
     Killable, RunUnchanged, runVars, treeVars, supVars
<1>16. CASE SupBoots
  BY <1>16, TreeAssumption DEF SupBoots, SupReports, SupUnchanged, runVars,
     treeVars, supVars
<1>17. CASE SupStarts
  BY <1>17, TreeAssumption DEF SupStarts, SupReports, SupUnchanged, runVars,
     treeVars, supVars
<1>18. CASE SupWaits
  BY <1>18, TreeAssumption DEF SupWaits, SupUnchanged, runVars, treeVars, supVars
<1>19. CASE SupLeavesWait
  BY <1>19, TreeAssumption DEF SupLeavesWait, SupUnchanged, runVars, treeVars,
     supVars
<1>20. CASE SupDrained
  BY <1>20, TreeAssumption DEF SupDrained, SupReports, SupUnchanged, runVars,
     treeVars, supVars
<1>21. CASE SupExits
  BY <1>21, TreeAssumption DEF SupExits, SupUnchanged, runVars, treeVars, supVars
<1>22. ASSUME NEW p \in Procs, SupKills(p) PROVE ReportInv'
  BY <1>22, TreeAssumption DEF SupKills, Kill, Killable, SupUnchanged, runVars,
     treeVars, supVars
<1>23. ASSUME NEW p \in Procs, NEW q \in Procs, Fork(p, q) PROVE ReportInv'
  BY <1>23, TreeAssumption DEF Fork, Killable, runVars, treeVars, supVars
<1>24. ASSUME NEW p \in Procs, Leave(p) PROVE ReportInv'
  BY <1>24, TreeAssumption DEF Leave, Killable, runVars, treeVars, supVars
<1>25. ASSUME NEW p \in Procs, Ends(p) PROVE ReportInv'
  BY <1>25, TreeAssumption DEF Ends, Living, runVars, treeVars, supVars
<1>26. ASSUME NEW why \in {"stop", "limit", "deadline"}, Ask(why) PROVE ReportInv'
  BY <1>26, TreeAssumption DEF Ask, runVars, treeVars, supVars
<1>27. CASE SupKilled
  BY <1>27, TreeAssumption DEF SupKilled, SupUnchanged, runVars, treeVars, supVars
<1>28. CASE UNCHANGED vars
  BY <1>28 DEF vars, runVars, treeVars, supVars
<1> QED
  BY <1>1, <1>2, <1>3, <1>4, <1>5, <1>6, <1>7, <1>8, <1>9, <1>10, <1>11, <1>12,
     <1>13, <1>14, <1>15, <1>16, <1>17, <1>18, <1>19, <1>20, <1>21, <1>22, <1>23,
     <1>24, <1>25, <1>26, <1>27, <1>28 DEF Next, Runner, Supervisor, World, Done

\* The account of the tree is true.
LEMMA SettleStep == IInv /\ [Next]_vars => SettleInv'
<1> SUFFICES ASSUME IInv, [Next]_vars PROVE SettleInv'
  OBVIOUS
<1> USE DEF IInv, TypeOK, StartInv, ReportInv, SettleInv, Quiet, Living, Killable, NoReport
<1>1. CASE Admit
  BY <1>1, TreeAssumption DEF Admit, Owners, Leaves, RunUnchanged, runVars,
     treeVars, supVars
<1>2. CASE Spawn
  BY <1>2, TreeAssumption DEF Spawn, Leaves, RunUnchanged, runVars, treeVars,
     supVars
<1>3. CASE OnSpawn
  BY <1>3, TreeAssumption DEF OnSpawn, RunUnchanged, runVars, treeVars, supVars
<1>4. CASE Release
  BY <1>4, TreeAssumption DEF Release, RunUnchanged, runVars, treeVars, supVars
<1>5. CASE Adopt
  BY <1>5, TreeAssumption DEF Adopt, RunUnchanged, runVars, treeVars, supVars
<1>6. CASE AdoptRefused
  BY <1>6, TreeAssumption DEF AdoptRefused, Leaves, RunUnchanged, runVars,
     treeVars, supVars
<1>7. CASE FailStart
  BY <1>7, TreeAssumption DEF FailStart, Leaves, RunUnchanged, runVars, treeVars,
     supVars
<1>8. CASE WaitExited
  BY <1>8, TreeAssumption DEF WaitExited, ChildExited, RunUnchanged, runVars,
     treeVars, supVars
<1>9. ASSUME NEW why \in {"stop", "limit", "deadline", "raised"}, WaitEnds(why) PROVE SettleInv'
  BY <1>9, TreeAssumption DEF WaitEnds, RunUnchanged, runVars, treeVars, supVars
<1>10. CASE JobTerminate
  BY <1>10, TreeAssumption DEF JobTerminate, Kill, Settling, Living, Killable,
     RunUnchanged, runVars, treeVars, supVars
<1>11. CASE JobSettle
  BY <1>11, TreeAssumption DEF JobSettle, JobProven, Kill, Living, Killable,
     RunUnchanged, runVars, treeVars, supVars
<1>12. CASE SupSignal
  BY <1>12, TreeAssumption DEF SupSignal, RunUnchanged, runVars, treeVars, supVars
<1>13. CASE SupSettle
  BY <1>13, TreeAssumption DEF SupSettle, Collect, Accounted, Settling,
     RunUnchanged, runVars, treeVars, supVars
<1>14. CASE UnprovenSettle
  BY <1>14, TreeAssumption DEF UnprovenSettle, Kill, Killable, Settling, InGroup,
     RunUnchanged, runVars, treeVars, supVars
<1>15. CASE Finish
  BY <1>15, TreeAssumption DEF Finish, Verdict, OutcomeOk, ChildCode, Kill,
     Killable, RunUnchanged, runVars, treeVars, supVars
<1>16. CASE SupBoots
  BY <1>16, TreeAssumption DEF SupBoots, SupReports, SupUnchanged, runVars,
     treeVars, supVars
<1>17. CASE SupStarts
  BY <1>17, TreeAssumption DEF SupStarts, SupReports, SupUnchanged, runVars,
     treeVars, supVars
<1>18. CASE SupWaits
  BY <1>18, TreeAssumption DEF SupWaits, SupUnchanged, runVars, treeVars, supVars
<1>19. CASE SupLeavesWait
  BY <1>19, TreeAssumption DEF SupLeavesWait, SupUnchanged, runVars, treeVars,
     supVars
<1>20. CASE SupDrained
  BY <1>20, TreeAssumption DEF SupDrained, SupReports, SupUnchanged, runVars,
     treeVars, supVars
<1>21. CASE SupExits
  BY <1>21, TreeAssumption DEF SupExits, SupUnchanged, runVars, treeVars, supVars
<1>22. ASSUME NEW p \in Procs, SupKills(p) PROVE SettleInv'
  BY <1>22, TreeAssumption DEF SupKills, Kill, Killable, SupUnchanged, runVars,
     treeVars, supVars
<1>23. ASSUME NEW p \in Procs, NEW q \in Procs, Fork(p, q) PROVE SettleInv'
  BY <1>23, TreeAssumption DEF Fork, Killable, runVars, treeVars, supVars
<1>24. ASSUME NEW p \in Procs, Leave(p) PROVE SettleInv'
  BY <1>24, TreeAssumption DEF Leave, Killable, runVars, treeVars, supVars
<1>25. ASSUME NEW p \in Procs, Ends(p) PROVE SettleInv'
  BY <1>25, TreeAssumption DEF Ends, Living, runVars, treeVars, supVars
<1>26. ASSUME NEW why \in {"stop", "limit", "deadline"}, Ask(why) PROVE SettleInv'
  BY <1>26, TreeAssumption DEF Ask, runVars, treeVars, supVars
<1>27. CASE SupKilled
  BY <1>27, TreeAssumption DEF SupKilled, SupUnchanged, runVars, treeVars, supVars
<1>28. CASE UNCHANGED vars
  BY <1>28 DEF vars, runVars, treeVars, supVars
<1> QED
  BY <1>1, <1>2, <1>3, <1>4, <1>5, <1>6, <1>7, <1>8, <1>9, <1>10, <1>11, <1>12,
     <1>13, <1>14, <1>15, <1>16, <1>17, <1>18, <1>19, <1>20, <1>21, <1>22, <1>23,
     <1>24, <1>25, <1>26, <1>27, <1>28 DEF Next, Runner, Supervisor, World, Done

\* The exit passed on is the leader's.
LEMMA ExitStep == IInv /\ [Next]_vars => ExitInv'
<1> SUFFICES ASSUME IInv, [Next]_vars PROVE ExitInv'
  OBVIOUS
<1> USE DEF IInv, TypeOK, StartInv, SettleInv, ExitInv
<1>1. CASE Admit
  BY <1>1, TreeAssumption DEF Admit, Owners, Leaves, RunUnchanged, runVars,
     treeVars, supVars
<1>2. CASE Spawn
  BY <1>2, TreeAssumption DEF Spawn, Leaves, RunUnchanged, runVars, treeVars,
     supVars
<1>3. CASE OnSpawn
  BY <1>3, TreeAssumption DEF OnSpawn, RunUnchanged, runVars, treeVars, supVars
<1>4. CASE Release
  BY <1>4, TreeAssumption DEF Release, RunUnchanged, runVars, treeVars, supVars
<1>5. CASE Adopt
  BY <1>5, TreeAssumption DEF Adopt, RunUnchanged, runVars, treeVars, supVars
<1>6. CASE AdoptRefused
  BY <1>6, TreeAssumption DEF AdoptRefused, Leaves, RunUnchanged, runVars,
     treeVars, supVars
<1>7. CASE FailStart
  BY <1>7, TreeAssumption DEF FailStart, Leaves, RunUnchanged, runVars, treeVars,
     supVars
<1>8. CASE WaitExited
  BY <1>8, TreeAssumption DEF WaitExited, ChildExited, RunUnchanged, runVars,
     treeVars, supVars
<1>9. ASSUME NEW why \in {"stop", "limit", "deadline", "raised"}, WaitEnds(why) PROVE ExitInv'
  BY <1>9, TreeAssumption DEF WaitEnds, RunUnchanged, runVars, treeVars, supVars
<1>10. CASE JobTerminate
  BY <1>10, TreeAssumption DEF JobTerminate, Kill, Settling, Living, Killable,
     RunUnchanged, runVars, treeVars, supVars
<1>11. CASE JobSettle
  BY <1>11, TreeAssumption DEF JobSettle, JobProven, Kill, Living, Killable,
     RunUnchanged, runVars, treeVars, supVars
<1>12. CASE SupSignal
  BY <1>12, TreeAssumption DEF SupSignal, RunUnchanged, runVars, treeVars, supVars
<1>13. CASE SupSettle
  BY <1>13, TreeAssumption DEF SupSettle, Collect, Accounted, Settling,
     RunUnchanged, runVars, treeVars, supVars
<1>14. CASE UnprovenSettle
  BY <1>14, TreeAssumption DEF UnprovenSettle, Kill, Killable, Settling, InGroup,
     RunUnchanged, runVars, treeVars, supVars
<1>15. CASE Finish
  BY <1>15, TreeAssumption DEF Finish, Verdict, OutcomeOk, ChildCode, Kill,
     Killable, RunUnchanged, runVars, treeVars, supVars
<1>16. CASE SupBoots
  BY <1>16, TreeAssumption DEF SupBoots, SupReports, SupUnchanged, runVars,
     treeVars, supVars
<1>17. CASE SupStarts
  BY <1>17, TreeAssumption DEF SupStarts, SupReports, SupUnchanged, runVars,
     treeVars, supVars
<1>18. CASE SupWaits
  BY <1>18, TreeAssumption DEF SupWaits, SupUnchanged, runVars, treeVars, supVars
<1>19. CASE SupLeavesWait
  BY <1>19, TreeAssumption DEF SupLeavesWait, SupUnchanged, runVars, treeVars,
     supVars
<1>20. CASE SupDrained
  BY <1>20, TreeAssumption DEF SupDrained, SupReports, SupUnchanged, runVars,
     treeVars, supVars
<1>21. CASE SupExits
  BY <1>21, TreeAssumption DEF SupExits, SupUnchanged, runVars, treeVars, supVars
<1>22. ASSUME NEW p \in Procs, SupKills(p) PROVE ExitInv'
  BY <1>22, TreeAssumption DEF SupKills, Kill, Killable, SupUnchanged, runVars,
     treeVars, supVars
<1>23. ASSUME NEW p \in Procs, NEW q \in Procs, Fork(p, q) PROVE ExitInv'
  BY <1>23, TreeAssumption DEF Fork, Killable, runVars, treeVars, supVars
<1>24. ASSUME NEW p \in Procs, Leave(p) PROVE ExitInv'
  BY <1>24, TreeAssumption DEF Leave, Killable, runVars, treeVars, supVars
<1>25. ASSUME NEW p \in Procs, Ends(p) PROVE ExitInv'
  BY <1>25, TreeAssumption DEF Ends, Living, runVars, treeVars, supVars
<1>26. ASSUME NEW why \in {"stop", "limit", "deadline"}, Ask(why) PROVE ExitInv'
  BY <1>26, TreeAssumption DEF Ask, runVars, treeVars, supVars
<1>27. CASE SupKilled
  BY <1>27, TreeAssumption DEF SupKilled, SupUnchanged, runVars, treeVars, supVars
<1>28. CASE UNCHANGED vars
  BY <1>28 DEF vars, runVars, treeVars, supVars
<1> QED
  BY <1>1, <1>2, <1>3, <1>4, <1>5, <1>6, <1>7, <1>8, <1>9, <1>10, <1>11, <1>12,
     <1>13, <1>14, <1>15, <1>16, <1>17, <1>18, <1>19, <1>20, <1>21, <1>22, <1>23,
     <1>24, <1>25, <1>26, <1>27, <1>28 DEF Next, Runner, Supervisor, World, Done

-----------------------------------------------------------------------------
(* The theorems.                                                           *)

\* Nothing of the command runs before run_owned opens its tree.
LEMMA InitInv == Init => IInv
<1> SUFFICES ASSUME Init PROVE IInv
  OBVIOUS
<1> USE DEF Init, NoReport, NoResult
<1>1. TypeOK
  BY TreeAssumption DEF TypeOK
<1>2. StartInv /\ GateInv
  BY TreeAssumption DEF StartInv, GateInv
<1>3. ReportInv /\ SettleInv /\ ExitInv
  BY DEF ReportInv, SettleInv, ExitInv
<1> QED
  BY <1>1, <1>2, <1>3 DEF IInv

\* The inductive invariant of run_owned, its supervisor and the command.
THEOREM Invariant == Spec => []IInv
<1>1. IInv /\ [Next]_vars => IInv'
  BY TypeStep, StartStep, GateStep, ReportStep, SettleStep, ExitStep DEF IInv
<1> QED
  BY InitInv, <1>1, PTL DEF Spec

\* Every component of run_owned's state has its type.
THEOREM TypeCorrect == Spec => []TypeOK
<1>1. IInv => TypeOK
  BY DEF IInv
<1> QED
  BY Invariant, <1>1, PTL

\* A run handed over without an unknown cleanup has left no process behind, and
\* a tree that the Job Object, the supervisor or a refused start confirmed gone
\* is gone: RunOutcome.cleanup_confirmed as run_owned settles it.
THEOREM SettledIsGoneHolds == Spec => []SettledIsGone
<1>1. IInv => SettledIsGone
  BY DEF IInv, SettleInv, Quiet, SettledIsGone
<1> QED
  BY Invariant, <1>1, PTL

\* RunOutcome.ok is said only of a command that came to its own end with code
\* zero, whoever was killed and whatever exit code the supervisor left.
THEOREM OkRanToItsEndHolds == Spec => []OkRanToItsEnd
<1>1. IInv => OkRanToItsEnd
  BY DEF IInv, ExitInv, OkRanToItsEnd
<1> QED
  BY Invariant, <1>1, PTL

\* Behind the shell gate or suspended in its job, the command takes no step
\* until on_spawn has recorded it.
THEOREM GateHoldsAlways == Spec => []GateHolds
<1>1. IInv => GateHolds
  BY DEF IInv, GateInv, GateHolds, Ran
<1> QED
  BY Invariant, <1>1, PTL

=============================================================================
