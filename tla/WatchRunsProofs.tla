--------------------------- MODULE WatchRunsProofs ---------------------------
(***************************************************************************)
(* Proofs about WatchRuns: concurrent configuration calls lose no edit, a   *)
(* run has effects only behind its admission fence, and what the stream     *)
(* says of a run is what happened to it.                                    *)
(*                                                                         *)
(* The attempts and the streams only grow, and the task of a run that is    *)
(* closed stays as it is: what was true of a recorded run remains true      *)
(* (Frame).  The rest is about the one step that records.                   *)
(***************************************************************************)
EXTENDS WatchRuns, SequenceTheorems, FiniteSetTheorems, TLAPS

\* Program points at which a call of run_job holds the claim of its hub.
Holding == {"claimed", "checked", "admitted", "failing", "raising", "closed", "returning"} \cup Effective

\* Program points a run can be at once its watch event is recorded.
Told == {"returning", "raising", "returned", "raised", "dead"}

Names == {"rev", "enabled", "sched"}

\* The versions differ one by one, and a configuration call that may still
\* succeed differs from the row in one thing.
EditInv ==
    /\ versions # <<>> /\ NoLostEdit
    /\ \A e \in Editors :
          /\ edit[e].base <= job.version
          /\ edit[e] # NoEdit /\ edit[e].base = job.version =>
                /\ edit[e].row.version = job.version + 1
                /\ edit[e].row \in Rows
                /\ \A f \in Names : (edit[e].row[f] # job[f]) <=> (f = edit[e].field)

\* One call of a hub holds its claim.
ClaimInv ==
    /\ \A r \in Runs : run[r].pc \in Holding => run[r].hub \in active
    /\ \A r, q \in Runs : r # q /\ {run[r].pc, run[q].pc} \subseteq Holding => run[r].hub # run[q].hub

\* The stream of the run's hub says that its task is closed, or what became of it.
ClosedTold(r) == \E k \in DOMAIN stream[run[r].hub] : stream[run[r].hub][k] = TaskEvent(r, "closed")
RunTold(r) ==
    \E i \in DOMAIN stream[run[r].hub] :
       stream[run[r].hub][i].kind = "run" /\ stream[run[r].hub][i].run = r

\* What a call of run_job has done by each of its program points.
CallInv(r) ==
    /\ run[r].pc # "none" => run[r].hub \in Hubs
    /\ run[r].pc \notin Over => run[r].rec \in Rows
    /\ run[r].pc \in Effective => task[r].state = "running"
    /\ run[r].pc \in {"executed", "compared", "stored", "closed"} =>
          /\ run[r].attempt \in Attempts /\ run[r].attempt.run = r
          /\ run[r].attempt.rev = run[r].rec.rev
    /\ run[r].pc \in {"stored", "closed"} => run[r].attempt \in Range(attempts)
    /\ run[r].pc = "closed" =>
          /\ task[r] = [state |-> "closed", verdict |-> task[r].verdict]
          /\ task[r].verdict \in Verdicts
          /\ task[r].verdict = "verified" => run[r].attempt.quality = "whole"
          /\ ClosedTold(r)
    /\ run[r].pc \in {"returning", "returned"} => RunTold(r)

\* A run event at place i of the stream of h is true, and its run is over.
Recorded(h, i) ==
    LET e == stream[h][i] IN
    /\ e.run \in Runs /\ run[e.run].pc \in Told
    /\ \E a \in Range(attempts) :
          a.run = e.run /\ a.rev = e.rev /\ (e.verdict = "verified" => a.quality = "whole")
    /\ task[e.run] = [state |-> "closed", verdict |-> e.verdict]
    /\ \E k \in 1..(i-1) : stream[h][k] = TaskEvent(e.run, "closed")

RecordInv == \A h \in Hubs : \A i \in DOMAIN stream[h] : stream[h][i].kind = "run" => Recorded(h, i)

\* The inductive invariant.
IInv ==
    /\ TypeOK /\ EditInv /\ ClaimInv
    /\ \A r \in Runs : CallInv(r)
    /\ RecordInv

-----------------------------------------------------------------------------
(* What the small steps do.                                                *)

\* The streams are as they were, with more at the end, and the attempts are
\* still there.
Grows ==
    /\ stream' \in [Hubs -> Seq(Events)]
    /\ \A h \in Hubs :
          /\ Len(stream[h]) <= Len(stream'[h])
          /\ \A i \in 1..Len(stream[h]) : stream'[h][i] = stream[h][i]

\* No step of this kind records a run.
Silent == \A h \in Hubs : \A i \in (Len(stream[h]) + 1)..Len(stream'[h]) : stream'[h][i].kind # "run"

\* Only r moves, and to one of the program points pcs.
Moves(r, pcs) ==
    /\ run' \in [Runs -> Calls]
    /\ \A q \in Runs \ {r} : run'[q] = run[q]
    /\ run'[r].pc \in pcs /\ run'[r].hub = run[r].hub

\* Goes moves r and keeps the rest of it.
LEMMA GoesFacts ==
  ASSUME TypeOK, NEW r \in Runs, NEW pc, Goes(r, pc),
         pc \in Over \cup {"read", "claimed", "checked", "admitted", "started", "executed",
                           "compared", "stored", "closed", "failing", "raising", "returning"}
  PROVE  /\ Moves(r, {pc})
         /\ run'[r].attempt = run[r].attempt /\ run'[r].rec = run[r].rec
BY DEF TypeOK, Goes, Moves, Calls

\* A call that is over keeps the hub only.
LEMMA GoneFacts ==
  ASSUME TypeOK, NEW r \in Runs, NEW pc \in Over
  PROVE  /\ Gone(r, pc) \in Calls
         /\ Gone(r, pc).pc = pc /\ Gone(r, pc).hub = run[r].hub
<1>1. run[r].hub \in Hubs \cup {None}
  BY DEF TypeOK, Calls
<1>2. NoRun \in Calls
  BY DEF NoRun, Calls, Over
<1> HIDE DEF NoRun
<1> QED
  BY <1>1, <1>2 DEF Gone, Calls

\* Ended keeps the hub of r.
LEMMA EndedFacts ==
  ASSUME TypeOK, NEW r \in Runs, NEW pc \in Over, Ended(r, pc)
  PROVE  Moves(r, {pc})
<1>1. /\ Gone(r, pc) \in Calls
      /\ Gone(r, pc).pc = pc /\ Gone(r, pc).hub = run[r].hub
  BY GoneFacts DEF TypeOK
<1> QED
  BY <1>1 DEF TypeOK, Ended, Moves

\* Emit appends to the stream of one hub.
LEMMA EmitFacts ==
  ASSUME TypeOK, NEW h \in Hubs, NEW events \in Seq(Events),
         stream' = [stream EXCEPT ![h] = @ \o events]
  PROVE  /\ Grows
         /\ \A g \in Hubs \ {h} : stream'[g] = stream[g]
         /\ Len(stream'[h]) = Len(stream[h]) + Len(events)
         /\ \A i \in 1..Len(events) : stream'[h][Len(stream[h]) + i] = events[i]
         /\ (\A i \in 1..Len(events) : events[i].kind # "run") => Silent
<1> DEFINE old == stream[h]
           new == old \o events
<1>1. old \in Seq(Events) /\ Len(old) \in Nat /\ Len(events) \in Nat
  BY LenProperties DEF TypeOK
<1>2. /\ new \in Seq(Events) /\ Len(new) = Len(old) + Len(events)
      /\ \A i \in 1..(Len(old) + Len(events)) :
            new[i] = IF i <= Len(old) THEN old[i] ELSE events[i - Len(old)]
  BY <1>1, ConcatProperties
<1>3. stream'[h] = new /\ \A g \in Hubs \ {h} : stream'[g] = stream[g]
  BY DEF TypeOK
<1>4. stream' \in [Hubs -> Seq(Events)]
  BY <1>2 DEF TypeOK
<1> HIDE DEF new
<1>5. \A i \in 1..Len(old) : new[i] = old[i]
  BY <1>1, <1>2, SMTT(20)
<1>6. \A i \in 1..Len(events) : new[Len(old) + i] = events[i]
  <2> TAKE i \in 1..Len(events)
  <2> DEFINE j == Len(old) + i
  <2>1. j \in 1..(Len(old) + Len(events)) /\ ~(j <= Len(old)) /\ j - Len(old) = i
    BY <1>1
  <2> HIDE DEF j
  <2>2. new[j] = events[j - Len(old)]
    BY <1>2, <2>1
  <2>3. new[j] = events[i]
    BY <2>1, <2>2
  <2> QED
    BY <2>3 DEF j
<1>7. \A g \in Hubs : Len(stream[g]) \in Nat
  BY LenProperties DEF TypeOK
<1>8. Grows
  BY <1>1, <1>2, <1>3, <1>4, <1>5, <1>7 DEF Grows
<1>9. ASSUME \A i \in 1..Len(events) : events[i].kind # "run" PROVE Silent
  <2> SUFFICES ASSUME NEW g \in Hubs, NEW i \in (Len(stream[g]) + 1)..Len(stream'[g])
               PROVE  stream'[g][i].kind # "run"
    BY DEF Silent
  <2>1. g = h
    BY <1>3, <1>7
  <2>2. /\ i \in 1..(Len(old) + Len(events)) /\ ~(i <= Len(old))
        /\ i - Len(old) \in 1..Len(events)
    BY <1>1, <1>2, <1>3, <2>1
  <2>3. new[i] = events[i - Len(old)]
    BY <1>2, <2>2
  <2> QED
    BY <1>3, <1>9, <2>1, <2>2, <2>3
<1> QED
  BY <1>2, <1>3, <1>6, <1>8, <1>9

\* A stream that stays grows, and tells nothing new.
LEMMA StreamStays ==
  ASSUME TypeOK, UNCHANGED stream
  PROVE  Grows /\ Silent
<1>1. \A h \in Hubs : Len(stream[h]) \in Nat
  BY LenProperties DEF TypeOK
<1> QED
  BY <1>1 DEF TypeOK, Grows, Silent

\* The events of a task are of the stream's, and are not of a run.
LEMMA TaskEvents ==
  ASSUME NEW r \in Runs
  PROVE  /\ \A what \in {"admitted", "running", "verdict", "closed", "recovered"} :
               /\ TaskEvent(r, what) \in Events /\ TaskEvent(None, what) \in Events
               /\ TaskEvent(r, what).kind = "task" /\ TaskEvent(None, what).kind = "task"
         /\ \A what \in {"admitted", "running"} :
               /\ <<TaskEvent(r, what)>> \in Seq(Events)
               /\ Len(<<TaskEvent(r, what)>>) = 1
         /\ <<TaskEvent(r, "verdict"), TaskEvent(r, "closed")>> \in Seq(Events)
         /\ Len(<<TaskEvent(r, "verdict"), TaskEvent(r, "closed")>>) = 2
<1>1. \A what \in {"admitted", "running", "verdict", "closed", "recovered"} :
         /\ TaskEvent(r, what) \in Events /\ TaskEvent(None, what) \in Events
         /\ TaskEvent(r, what).kind = "task" /\ TaskEvent(None, what).kind = "task"
  BY DEF TaskEvent, Events
<1> HIDE DEF TaskEvent, Events
<1> QED
  BY <1>1

\* One task event of a run.
LEMMA TellsTask ==
  ASSUME TypeOK, NEW r \in Runs, run[r].hub \in Hubs, NEW what \in {"admitted", "running"},
         Emit(r, <<TaskEvent(r, what)>>)
  PROVE  Grows /\ Silent
<1> DEFINE events == <<TaskEvent(r, what)>>
<1>1. events \in Seq(Events) /\ \A i \in 1..Len(events) : events[i].kind # "run"
  BY TaskEvents
<1> HIDE DEF events
<1> QED
  BY <1>1, EmitFacts DEF Emit, events

\* The task of r is changed; no other is.
TaskOnly(r) == task' \in [Runs -> TaskStates] /\ \A q \in Runs \ {r} : task'[q] = task[q]

LEMMA TaskMoves ==
  ASSUME TypeOK, NEW r \in Runs, NEW s \in {"admitted", "running"}, task' = [task EXCEPT ![r].state = s]
  PROVE  TaskOnly(r) /\ task'[r].state = s
BY DEF TypeOK, TaskStates, TaskOnly

\* Closing a task says so in the stream of the run's hub.
LEMMA ClosesFacts ==
  ASSUME TypeOK, NEW r \in Runs, run[r].hub \in Hubs, NEW verdict \in Verdicts, Closes(r, verdict)
  PROVE  /\ Grows /\ Silent /\ TaskOnly(r)
         /\ task'[r] = [state |-> "closed", verdict |-> verdict]
         /\ \E k \in 1..Len(stream'[run[r].hub]) : stream'[run[r].hub][k] = TaskEvent(r, "closed")
<1> DEFINE events == <<TaskEvent(r, "verdict"), TaskEvent(r, "closed")>>
           h == run[r].hub
<1>1. /\ events \in Seq(Events) /\ Len(events) = 2 /\ events[2] = TaskEvent(r, "closed")
      /\ \A i \in 1..Len(events) : events[i].kind # "run"
  BY TaskEvents
<1>2. stream' = [stream EXCEPT ![h] = @ \o events]
  BY DEF Closes, Emit
<1> HIDE DEF events
<1>0. h \in Hubs
  OBVIOUS
<1> HIDE DEF h
<1>3. /\ Grows /\ Silent
      /\ Len(stream'[h]) = Len(stream[h]) + 2
      /\ stream'[h][Len(stream[h]) + 2] = TaskEvent(r, "closed")
  <2>1. /\ Grows
        /\ Len(stream'[h]) = Len(stream[h]) + Len(events)
        /\ \A i \in 1..Len(events) : stream'[h][Len(stream[h]) + i] = events[i]
        /\ (\A i \in 1..Len(events) : events[i].kind # "run") => Silent
    BY <1>0, <1>1, <1>2, EmitFacts
  <2>2. Silent
    BY <1>1, <2>1
  <2>3. 2 \in 1..Len(events)
    BY <1>1
  <2> QED
    BY <1>1, <2>1, <2>2, <2>3
<1>4. Len(stream[h]) \in Nat
  BY LenProperties DEF TypeOK
<1>5. Len(stream[h]) + 2 \in 1..Len(stream'[h])
  BY <1>3, <1>4
<1>6. [state |-> "closed", verdict |-> verdict] \in TaskStates
  BY DEF TaskStates
<1>7. TaskOnly(r) /\ task'[r] = [state |-> "closed", verdict |-> verdict]
  BY <1>6 DEF Closes, TypeOK, TaskOnly
<1> QED
  BY <1>3, <1>5, <1>7 DEF h

\* The ledger of attempts keeps what it has.
Keeps == attempts' \in Seq(Attempts) /\ Range(attempts) \subseteq Range(attempts')

LEMMA AttemptsStay ==
  ASSUME TypeOK, UNCHANGED attempts
  PROVE  Keeps
BY DEF TypeOK, Keeps

LEMMA AttemptsGrow ==
  ASSUME TypeOK, NEW a \in Attempts, attempts' = Append(attempts, a)
  PROVE  Keeps /\ a \in Range(attempts')
<1>1. attempts \in Seq(Attempts)
  BY DEF TypeOK
<1>2. /\ attempts' \in Seq(Attempts) /\ Len(attempts') = Len(attempts) + 1
      /\ \A i \in 1..Len(attempts) : attempts'[i] = attempts[i]
      /\ attempts'[Len(attempts) + 1] = a
  BY <1>1, AppendProperties
<1>3. Len(attempts) \in Nat /\ Range(attempts) = {attempts[i] : i \in 1..Len(attempts)}
  BY <1>1, LenProperties, RangeEquality
<1>4. attempts' \in Seq(Attempts)
  BY <1>2
<1>5. Range(attempts') = {attempts'[i] : i \in 1..Len(attempts')}
  BY <1>4, LenProperties DEF Range
<1> QED
  BY <1>2, <1>3, <1>5 DEF Keeps

\* A run that is told of stays over, and its closed task stays closed.
Settles(r) ==
    run[r].pc \in Told =>
       run'[r].pc \in Told /\ (task[r].state = "closed" => task'[r] = task[r])

\* A step of the call r, and of nothing else.
Does(r) ==
    /\ run' \in [Runs -> Calls] /\ TaskOnly(r)
    /\ \A q \in Runs \ {r} : run'[q] = run[q]
    /\ Settles(r) /\ Grows /\ Keeps
    /\ active' \subseteq Hubs /\ UNCHANGED <<versions, job, edit, crashes>>

\* The claims are as they were, and r has its own.
SameClaims(r) == active' = active /\ run[r].pc \in Holding /\ run'[r].hub = run[r].hub

\* What a call that stays where it was had done, it has done.
LEMMA CallStays ==
  ASSUME TypeOK, NEW r \in Runs, CallInv(r), run'[r] = run[r], task'[r] = task[r], Grows, Keeps
  PROVE  CallInv(r)'
<1>1. ASSUME NEW h \in Hubs, NEW i \in DOMAIN stream[h]
      PROVE  i \in DOMAIN stream'[h] /\ stream'[h][i] = stream[h][i]
  <2>1. stream[h] \in Seq(Events) /\ stream'[h] \in Seq(Events)
    BY DEF TypeOK, Grows
  <2>2. /\ Len(stream[h]) \in Nat /\ DOMAIN stream[h] = 1..Len(stream[h])
        /\ Len(stream'[h]) \in Nat /\ DOMAIN stream'[h] = 1..Len(stream'[h])
    BY <2>1, LenProperties
  <2> QED
    BY <2>2 DEF Grows
<1>2. run[r].pc # "none" => (ClosedTold(r) => ClosedTold(r)') /\ (RunTold(r) => RunTold(r)')
  BY <1>1 DEF ClosedTold, RunTold, CallInv
<1> QED
  BY <1>2 DEF CallInv, Keeps

-----------------------------------------------------------------------------
(* The steps of a call.                                                    *)

\* What a step of the call r leaves alone.
LEMMA StillDoes ==
  ASSUME TypeOK, NEW r \in Runs, NEW pcs, Moves(r, pcs),
         run[r].pc \in Told => pcs \subseteq Told
  PROVE  /\ UNCHANGED task => TaskOnly(r) /\ Settles(r)
         /\ UNCHANGED stream => Grows
         /\ UNCHANGED attempts => Keeps
         /\ run' \in [Runs -> Calls] /\ (\A q \in Runs \ {r} : run'[q] = run[q])
         /\ UNCHANGED active => active' \subseteq Hubs
         /\ run'[r].pc \in pcs /\ run'[r].hub = run[r].hub
         /\ run[r].pc \notin Told => Settles(r)
<1>1. UNCHANGED task => TaskOnly(r) /\ Settles(r)
  BY DEF TypeOK, Moves, TaskOnly, Settles
<1> QED
  BY <1>1, StreamStays, AttemptsStay DEF TypeOK, Moves, Settles

\* A second call of the hub raises.
LEMMA ClaimDoes ==
  ASSUME TypeOK, NEW r \in Runs, CallInv(r), Claim(r)
  PROVE  Does(r) /\ CallInv(r)' /\ Silent
<1>1. CASE Ended(r, "raised") /\ UNCHANGED active
  <2>1. Moves(r, {"raised"})
    BY <1>1, EndedFacts DEF Over
  <2> QED
    BY <1>1, <2>1, StillDoes, StreamStays DEF Claim, At, Told, Does, RunUnchanged, CallInv, Over, Effective
<1>2. CASE active' = active \cup {run[r].hub} /\ Goes(r, "claimed")
  <2>1. Moves(r, {"claimed"}) /\ run'[r].rec = run[r].rec
    BY <1>2, GoesFacts
  <2>2. active' \subseteq Hubs
    BY <1>2 DEF Claim, At, CallInv, TypeOK
  <2> QED
    BY <1>2, <2>1, <2>2, StillDoes, StreamStays
       DEF Claim, At, Told, Does, RunUnchanged, CallInv, Over, Effective
<1> QED
  BY <1>1, <1>2 DEF Claim
\* Nothing is written before the admission.
LEMMA CheckDoes ==
  ASSUME TypeOK, NEW r \in Runs, CallInv(r), Check(r)
  PROVE  Does(r) /\ CallInv(r)' /\ Silent /\ SameClaims(r)
<1>1. \E pc \in {"checked", "raising"} : Goes(r, pc)
  BY DEF Check
<1>2. Moves(r, {"checked", "raising"}) /\ run'[r].rec = run[r].rec
  BY <1>1, GoesFacts DEF Moves
<1> QED
  BY <1>2, StillDoes, StreamStays
     DEF Check, At, Told, Does, SameClaims, Holding, RunUnchanged, CallInv, Over, Effective
\* The task is admitted, or the call raises.
LEMMA AdmitDoes ==
  ASSUME TypeOK, NEW r \in Runs, CallInv(r), Admit(r)
  PROVE  Does(r) /\ CallInv(r)' /\ Silent /\ SameClaims(r)
<1>0. run[r].pc = "checked" /\ run[r].hub \in Hubs /\ run[r].rec \in Rows
  BY DEF Admit, At, CallInv, Over
<1>1. CASE Goes(r, "raising") /\ UNCHANGED <<task, stream>>
  <2>1. Moves(r, {"raising"}) /\ run'[r].rec = run[r].rec
    BY <1>1, GoesFacts
  <2> QED
    BY <1>0, <1>1, <2>1, StillDoes, StreamStays
       DEF Admit, Told, Does, SameClaims, Holding, RunUnchanged, CallInv, Over, Effective
<1>2. CASE /\ task' = [task EXCEPT ![r].state = "admitted"]
           /\ Emit(r, <<TaskEvent(r, "admitted")>>)
           /\ Goes(r, "admitted") \/ Goes(r, "raising")
  <2>1. Moves(r, {"admitted", "raising"}) /\ run'[r].rec = run[r].rec
    BY <1>2, GoesFacts DEF Moves
  <2>2. TaskOnly(r) /\ Grows /\ Silent
    BY <1>0, <1>2, TaskMoves, TellsTask
  <2> QED
    BY <1>0, <2>1, <2>2, StillDoes
       DEF Admit, Told, Does, SameClaims, Holding, RunUnchanged, CallInv, Over, Effective
<1> QED
  BY <1>1, <1>2 DEF Admit
\* The task is running before the call has effects.
LEMMA StartDoes ==
  ASSUME TypeOK, NEW r \in Runs, CallInv(r), Start(r)
  PROVE  Does(r) /\ CallInv(r)' /\ Silent /\ SameClaims(r)
<1>0. run[r].pc = "admitted" /\ run[r].hub \in Hubs /\ run[r].rec \in Rows
  BY DEF Start, At, CallInv, Over
<1>1. CASE Goes(r, "failing") /\ UNCHANGED <<task, stream>>
  <2>1. Moves(r, {"failing"}) /\ run'[r].rec = run[r].rec
    BY <1>1, GoesFacts
  <2> QED
    BY <1>0, <1>1, <2>1, StillDoes, StreamStays
       DEF Start, Told, Does, SameClaims, Holding, RunUnchanged, CallInv, Over, Effective
<1>2. CASE /\ task' = [task EXCEPT ![r].state = "running"]
           /\ Emit(r, <<TaskEvent(r, "running")>>)
           /\ Goes(r, "started") \/ Goes(r, "failing")
  <2>1. Moves(r, {"started", "failing"}) /\ run'[r].rec = run[r].rec
    BY <1>2, GoesFacts DEF Moves
  <2>2. TaskOnly(r) /\ Grows /\ Silent /\ task'[r].state = "running"
    BY <1>0, <1>2, TaskMoves, TellsTask
  <2> QED
    BY <1>0, <2>1, <2>2, StillDoes
       DEF Start, Told, Does, SameClaims, Holding, RunUnchanged, CallInv, Over, Effective
<1> QED
  BY <1>1, <1>2 DEF Start
\* The attempt is the call's own.
LEMMA ExecuteDoes ==
  ASSUME TypeOK, NEW r \in Runs, CallInv(r), Execute(r)
  PROVE  Does(r) /\ CallInv(r)' /\ Silent /\ SameClaims(r)
<1>0. run[r].pc = "started" /\ run[r].hub \in Hubs /\ run[r].rec \in Rows /\ task[r].state = "running"
  BY DEF Execute, At, CallInv, Over, Effective
<1>1. CASE Goes(r, "failing")
  <2>1. Moves(r, {"failing"}) /\ run'[r].rec = run[r].rec
    BY <1>1, GoesFacts
  <2> QED
    BY <1>0, <2>1, StillDoes, StreamStays
       DEF Execute, Told, Does, SameClaims, Holding, RunUnchanged, CallInv, Over, Effective
<1>2. ASSUME NEW q \in {"whole", "partial", "foreign"},
             run' = [run EXCEPT ![r].pc = "executed",
                        ![r].attempt = [run |-> r, rev |-> run[r].rec.rev, quality |-> q]]
      PROVE  Does(r) /\ CallInv(r)' /\ Silent /\ SameClaims(r)
  <2> DEFINE a == [run |-> r, rev |-> run[r].rec.rev, quality |-> q]
  <2>1. a \in Attempts /\ a.run = r /\ a.rev = run[r].rec.rev
    BY <1>0 DEF Attempts, Rows
  <2>2. run' = [run EXCEPT ![r] = [run[r] EXCEPT !.pc = "executed", !.attempt = a]]
    BY <1>2 DEF TypeOK
  <2> HIDE DEF a
  <2> DEFINE c == [run[r] EXCEPT !.pc = "executed", !.attempt = a]
  <2>3. c \in Calls
    <3>1. run[r] \in Calls /\ a \in Attempts \cup {NoAttempt}
      BY <2>1 DEF TypeOK
    <3> QED
      BY <3>1 DEF Calls
  <2>4. /\ c.pc = "executed" /\ c.attempt = a
        /\ c.hub = run[r].hub /\ c.rec = run[r].rec
    BY DEF TypeOK, Calls
  <2> HIDE DEF c
  <2>5. /\ Moves(r, {"executed"}) /\ run'[r].rec = run[r].rec /\ run'[r].attempt = a
    BY <2>2, <2>3, <2>4 DEF TypeOK, Moves, c
  <2> QED
    BY <1>0, <2>1, <2>5, StillDoes, StreamStays
       DEF Execute, Told, Does, SameClaims, Holding, RunUnchanged, CallInv, Over, Effective
<1> QED
  BY <1>1, <1>2 DEF Execute
\* The previous attempt is read before the own one is stored.
LEMMA ReadPreviousDoes ==
  ASSUME TypeOK, NEW r \in Runs, CallInv(r), ReadPrevious(r)
  PROVE  Does(r) /\ CallInv(r)' /\ Silent /\ SameClaims(r)
<1>0. /\ run[r].pc = "executed" /\ run[r].hub \in Hubs /\ run[r].rec \in Rows
      /\ task[r].state = "running" /\ run[r].attempt \in Attempts /\ run[r].attempt.run = r
      /\ run[r].attempt.rev = run[r].rec.rev
  BY DEF ReadPrevious, At, CallInv, Over, Effective
<1> DEFINE p == IF attempts = <<>> THEN NoAttempt ELSE Last(attempts)
<1>1. p \in Attempts \cup {NoAttempt}
  <2>1. attempts # <<>> => Last(attempts) \in Attempts
    BY EmptySeq, LenProperties, ElementOfSeq DEF TypeOK, Last
  <2> QED
    BY <2>1
<1>2. run' = [run EXCEPT ![r] = [run[r] EXCEPT !.pc = "compared", !.prev = p]]
  BY DEF ReadPrevious, TypeOK
<1> HIDE DEF p
<1>3. Moves(r, {"compared"}) /\ run'[r].rec = run[r].rec /\ run'[r].attempt = run[r].attempt
  BY <1>1, <1>2, ZenonT(40) DEF TypeOK, Calls, Moves
<1> QED
  BY <1>0, <1>3, StillDoes, StreamStays
     DEF ReadPrevious, Told, Does, SameClaims, Holding, RunUnchanged, CallInv, Over, Effective
\* The attempt is in the ledger before the verifier reads it.
LEMMA RecordAttemptDoes ==
  ASSUME TypeOK, NEW r \in Runs, CallInv(r), RecordAttempt(r)
  PROVE  Does(r) /\ CallInv(r)' /\ Silent /\ SameClaims(r)
<1>0. /\ run[r].pc = "compared" /\ run[r].hub \in Hubs /\ run[r].rec \in Rows
      /\ task[r].state = "running" /\ run[r].attempt \in Attempts /\ run[r].attempt.run = r
      /\ run[r].attempt.rev = run[r].rec.rev
  BY DEF RecordAttempt, At, CallInv, Over, Effective
<1>1. CASE Goes(r, "failing") /\ UNCHANGED attempts
  <2>1. Moves(r, {"failing"}) /\ run'[r].rec = run[r].rec
    BY <1>1, GoesFacts
  <2> QED
    BY <1>0, <1>1, <2>1, StillDoes, StreamStays
       DEF RecordAttempt, Told, Does, SameClaims, Holding, RunUnchanged, CallInv, Over, Effective
<1>2. CASE attempts' = Append(attempts, run[r].attempt) /\ Goes(r, "stored")
  <2>1. Moves(r, {"stored"}) /\ run'[r].rec = run[r].rec /\ run'[r].attempt = run[r].attempt
    BY <1>2, GoesFacts
  <2>2. Keeps /\ run[r].attempt \in Range(attempts')
    BY <1>0, <1>2, AttemptsGrow
  <2> QED
    BY <1>0, <2>1, <2>2, StillDoes, StreamStays
       DEF RecordAttempt, Told, Does, SameClaims, Holding, RunUnchanged, CallInv, Over, Effective
<1> QED
  BY <1>1, <1>2 DEF RecordAttempt
\* The task is closed with an admissible verdict.
LEMMA FinalizeDoes ==
  ASSUME TypeOK, NEW r \in Runs, CallInv(r), Finalize(r)
  PROVE  Does(r) /\ CallInv(r)' /\ Silent /\ SameClaims(r)
<1>0. /\ run[r].pc = "stored" /\ run[r].hub \in Hubs /\ run[r].rec \in Rows
      /\ run[r].attempt \in Attempts /\ run[r].attempt.run = r
      /\ run[r].attempt.rev = run[r].rec.rev
      /\ run[r].attempt \in Range(attempts)
  BY DEF Finalize, At, CallInv, Over, Effective
<1>1. CASE Goes(r, "raising") /\ UNCHANGED <<task, stream>>
  <2>1. Moves(r, {"raising"}) /\ run'[r].rec = run[r].rec
    BY <1>1, GoesFacts
  <2> QED
    BY <1>0, <1>1, <2>1, StillDoes, StreamStays
       DEF Finalize, Told, Does, SameClaims, Holding, RunUnchanged, CallInv, Over, Effective
<1>2. ASSUME NEW verdict \in Verdicts, Admissible(r, verdict), Closes(r, verdict),
             Goes(r, "closed") \/ Goes(r, "raising")
      PROVE  Does(r) /\ CallInv(r)' /\ Silent /\ SameClaims(r)
  <2>1. /\ Moves(r, {"closed", "raising"}) /\ run'[r].rec = run[r].rec
        /\ run'[r].attempt = run[r].attempt
    BY <1>2, GoesFacts DEF Moves
  <2>2. /\ Grows /\ Silent /\ TaskOnly(r)
        /\ task'[r] = [state |-> "closed", verdict |-> verdict]
        /\ \E k \in 1..Len(stream'[run[r].hub]) : stream'[run[r].hub][k] = TaskEvent(r, "closed")
    BY <1>0, <1>2, ClosesFacts
  <2>3. stream'[run[r].hub] \in Seq(Events)
    BY <1>0, <2>2 DEF Grows
  <2>4. ClosedTold(r)'
    BY <1>0, <2>1, <2>2, <2>3, LenProperties DEF ClosedTold, Moves, TaskEvent
  <2>5. verdict = "verified" => run[r].attempt.quality = "whole"
    BY <1>2 DEF Admissible
  <2>6. Does(r) /\ SameClaims(r) /\ attempts' = attempts
    BY <1>0, <2>1, <2>2, StillDoes
       DEF Finalize, Told, Does, SameClaims, Holding, RunUnchanged, Effective
  <2>7. CallInv(r)'
    BY <1>0, <2>1, <2>2, <2>4, <2>5, <2>6 DEF Moves, CallInv, Over, Effective
  <2> QED
    BY <2>2, <2>6, <2>7
<1> QED
  BY <1>1, <1>2 DEF Finalize
\* A failure closes the task without a verdict, or leaves it.
LEMMA FailedDoes ==
  ASSUME TypeOK, NEW r \in Runs, CallInv(r), Failed(r)
  PROVE  Does(r) /\ CallInv(r)' /\ Silent /\ SameClaims(r)
<1>0. run[r].pc = "failing" /\ run[r].hub \in Hubs /\ run[r].rec \in Rows
  BY DEF Failed, At, CallInv, Over
<1>1. Moves(r, {"raising"}) /\ run'[r].rec = run[r].rec
  BY GoesFacts DEF Failed
<1>2. TaskOnly(r) /\ Grows /\ Silent
  <2>1. "no_verdict" \in Verdicts
    BY DEF Verdicts
  <2>2. CASE Closes(r, "no_verdict")
    BY <1>0, <2>1, <2>2, ClosesFacts
  <2>3. CASE UNCHANGED <<task, stream>>
    BY <2>3, StreamStays DEF TypeOK, TaskOnly
  <2> QED
    BY <2>2, <2>3 DEF Failed
<1> QED
  BY <1>0, <1>1, <1>2, StillDoes
     DEF Failed, Told, Does, SameClaims, Holding, RunUnchanged, CallInv, Over, Effective
\* The call is over and the hub is free.
LEMMA ReleaseDoes ==
  ASSUME TypeOK, NEW r \in Runs, CallInv(r), Release(r)
  PROVE  Does(r) /\ CallInv(r)' /\ Silent
<1>0. run[r].pc \in {"raising", "returning"} /\ run[r].hub \in Hubs
  BY DEF Release, CallInv
<1>1. \E pc \in {"returned", "raised"} : Ended(r, pc) /\ (pc = "returned" <=> run[r].pc = "returning")
  BY <1>0 DEF Release, At
<1>2. /\ Moves(r, {"returned", "raised"})
      /\ run'[r].pc = "returned" <=> run[r].pc = "returning"
  BY <1>1, EndedFacts DEF Moves, Over
<1>3. active' \subseteq Hubs /\ UNCHANGED <<attempts, stream, task>>
  BY DEF Release, TypeOK
<1>4. RunTold(r) => RunTold(r)'
  BY <1>2, <1>3 DEF RunTold, Moves
<1> QED
  BY <1>0, <1>2, <1>3, <1>4, StillDoes, StreamStays
     DEF Release, Told, Does, RunUnchanged, CallInv, Over, Effective
\* record_run emits one run event, which is true; or the call raises.
LEMMA RecordRunDoes ==
  ASSUME TypeOK, NEW r \in Runs, CallInv(r), RecordRun(r)
  PROVE  /\ Does(r) /\ CallInv(r)' /\ SameClaims(r)
         /\ \A h \in Hubs : \A i \in (Len(stream[h]) + 1)..Len(stream'[h]) : Recorded(h, i)'
<1>0. /\ run[r].pc = "closed" /\ run[r].hub \in Hubs /\ run[r].rec \in Rows
      /\ run[r].attempt \in Attempts /\ run[r].attempt.run = r
      /\ run[r].attempt.rev = run[r].rec.rev /\ run[r].attempt \in Range(attempts)
      /\ task[r] = [state |-> "closed", verdict |-> task[r].verdict]
      /\ task[r].verdict \in Verdicts
      /\ task[r].verdict = "verified" => run[r].attempt.quality = "whole"
      /\ ClosedTold(r)
  BY DEF RecordRun, At, CallInv, Over
<1>1. \A h \in Hubs : Len(stream[h]) \in Nat
  BY LenProperties DEF TypeOK
<1> DEFINE hub == run[r].hub
           cmp == IF run[r].prev = NoAttempt THEN "baseline"
                  ELSE IF Comparable(run[r].prev, run[r].attempt) THEN "comparable"
                  ELSE "incomparable"
           event == RunEvent(r, run[r].rec, run[r].prev.run, cmp, task[r].verdict)
<1>2. CASE Goes(r, "raising") /\ UNCHANGED stream
  <2>1. Moves(r, {"raising"}) /\ run'[r].rec = run[r].rec
    BY <1>2, GoesFacts
  <2>2. \A h \in Hubs : (Len(stream[h]) + 1)..Len(stream'[h]) = {}
    BY <1>1, <1>2
  <2>3. UNCHANGED <<attempts, task, active>> /\ RunUnchanged
    BY DEF RecordRun
  <2> QED
    BY <1>0, <1>2, <2>1, <2>2, <2>3, StillDoes
       DEF Told, Does, SameClaims, Holding, RunUnchanged, CallInv, Over, Effective
<1>3. CASE /\ Emit(r, <<event>>)
           /\ Goes(r, "returning") \/ Goes(r, "raising")
  <2>1. /\ Moves(r, {"returning", "raising"}) /\ run'[r].rec = run[r].rec
    BY <1>3, GoesFacts DEF Moves
  <2>2. /\ event \in Events /\ event.kind = "run" /\ event.run = r
        /\ event.rev = run[r].rec.rev /\ event.verdict = task[r].verdict
    <3>1. run[r].prev.run \in Runs \cup {None}
      BY DEF TypeOK, Calls, Attempts, NoAttempt
    <3>2. cmp \in {"baseline", "comparable", "incomparable"}
      OBVIOUS
    <3> HIDE DEF cmp
    <3>3. run[r].rec.rev \in Revisions /\ run[r].rec.version \in Nat
      BY <1>0 DEF Rows
    <3> QED
      BY <1>0, <3>1, <3>2, <3>3 DEF RunEvent, Events
  <2>3. UNCHANGED <<attempts, task, active>> /\ RunUnchanged
    BY DEF RecordRun
  <2> HIDE DEF event
  <2>4. <<event>> \in Seq(Events) /\ Len(<<event>>) = 1 /\ <<event>>[1] = event
    BY <2>2
  <2>5. stream' = [stream EXCEPT ![hub] = @ \o <<event>>]
    BY <1>3 DEF Emit
  <2>6. /\ Grows /\ \A g \in Hubs \ {hub} : stream'[g] = stream[g]
        /\ Len(stream'[hub]) = Len(stream[hub]) + 1
        /\ stream'[hub][Len(stream[hub]) + 1] = event
    <3>0. hub \in Hubs
      BY <1>0
    <3> HIDE DEF hub
    <3>1. /\ Grows /\ \A g \in Hubs \ {hub} : stream'[g] = stream[g]
          /\ Len(stream'[hub]) = Len(stream[hub]) + Len(<<event>>)
          /\ \A i \in 1..Len(<<event>>) : stream'[hub][Len(stream[hub]) + i] = <<event>>[i]
      BY <2>4, <2>5, <3>0, EmitFacts
    <3> QED
      BY <2>4, <3>1
  <2>7. stream'[hub] \in Seq(Events) /\ Len(stream[hub]) + 1 \in 1..Len(stream'[hub])
    BY <1>0, <1>1, <2>6 DEF Grows
  <2>8. RunTold(r)'
    BY <1>0, <2>1, <2>2, <2>6, <2>7, LenProperties DEF RunTold, Moves
  <2>9. Does(r) /\ SameClaims(r) /\ CallInv(r)'
    BY <1>0, <2>1, <2>3, <2>6, <2>8, StillDoes
       DEF Told, Does, SameClaims, Holding, RunUnchanged, CallInv, Over, Effective
  <2>10. ASSUME NEW h \in Hubs, NEW i \in (Len(stream[h]) + 1)..Len(stream'[h])
         PROVE  Recorded(h, i)'
    <3>1. h = hub /\ i = Len(stream[hub]) + 1
      BY <1>0, <1>1, <2>6
    <3>2. stream'[h][i] = event
      BY <2>6, <3>1
    <3>3. run'[r].pc \in Told
      BY <2>1 DEF Told, Moves
    <3>4. \E k \in 1..(i-1) : stream'[h][k] = TaskEvent(r, "closed")
      <4>1. PICK k \in DOMAIN stream[hub] : stream[hub][k] = TaskEvent(r, "closed")
        BY <1>0 DEF ClosedTold
      <4>2. k \in 1..Len(stream[hub])
        BY <1>0, <4>1, LenProperties DEF TypeOK
      <4>3. k \in 1..(i-1) /\ stream'[hub][k] = stream[hub][k]
        BY <1>0, <1>1, <2>6, <3>1, <4>2 DEF Grows
      <4> QED
        BY <3>1, <4>1, <4>3
    <3>5. \E a \in Range(attempts)' :
             a.run = r /\ a.rev = event.rev /\ (event.verdict = "verified" => a.quality = "whole")
      BY <1>0, <2>2, <2>3
    <3>6. task'[r] = [state |-> "closed", verdict |-> event.verdict]
      BY <1>0, <2>2, <2>3
    <3> QED
      BY <2>2, <3>2, <3>3, <3>4, <3>5, <3>6 DEF Recorded
  <2> QED
    BY <2>9, <2>10
<1> QED
  BY <1>2, <1>3 DEF RecordRun

\* A call begins.
LEMMA RequireDoes ==
  ASSUME TypeOK, NEW r \in Runs, NEW h \in Hubs, NEW trigger, CallInv(r), Require(r, h, trigger)
  PROVE  Does(r) /\ CallInv(r)' /\ Silent /\ active' = active /\ run'[r].pc = "read"
<1> DEFINE c == [run[r] EXCEPT !.pc = "read", !.hub = h, !.rec = job]
<1>1. c \in Calls /\ c.pc = "read" /\ c.hub = h /\ c.rec = job
  BY DEF TypeOK, Calls
<1>2. run' = [run EXCEPT ![r] = c]
  BY DEF Require, TypeOK
<1> HIDE DEF c
<1>3. /\ run' \in [Runs -> Calls] /\ run'[r] = c
      /\ \A q \in Runs \ {r} : run'[q] = run[q]
  BY <1>1, <1>2 DEF TypeOK
<1>4. run[r].pc = "none" /\ UNCHANGED <<attempts, stream, task, active>> /\ RunUnchanged
  BY DEF Require, At
<1> QED
  BY <1>1, <1>3, <1>4, StreamStays, AttemptsStay
     DEF Does, CallInv, Over, Effective, Told, Settles, TaskOnly, TypeOK, RunUnchanged

\* A hub that is opened again ends its calls and closes their tasks.
LEMMA ReopenDoes ==
  ASSUME TypeOK, NEW h \in Hubs, \A r \in Runs : CallInv(r), Reopen(h)
  PROVE  /\ run' \in [Runs -> Calls] /\ task' \in [Runs -> TaskStates]
         /\ Grows /\ Silent /\ Keeps /\ active' = active \ {h} /\ crashes' \in 0..MaxCrashes
         /\ UNCHANGED <<versions, job, edit>>
         /\ \A r \in Runs : Settles(r) /\ CallInv(r)'
         /\ \A r \in Runs : run'[r].pc \in Holding => run[r].pc \in Holding /\ run[r].hub # h
         /\ \A r \in Runs : run'[r].hub = run[r].hub
<1> DEFINE open == {r \in Runs : run[r].hub = h /\ task[r].state \in {"admitted", "running"}}
           n == 2 * Cardinality(open)
           events == [i \in 1..n |-> TaskEvent(None, "recovered")]
<1>1. /\ task' = [r \in Runs |-> IF r \in open THEN [state |-> "closed", verdict |-> "unknown"]
                                 ELSE task[r]]
      /\ stream' = [stream EXCEPT ![h] = @ \o events]
      /\ run' = [r \in Runs |-> IF run[r].hub = h /\ run[r].pc \notin Over THEN Gone(r, "dead")
                                ELSE run[r]]
      /\ active' = active \ {h} /\ crashes < MaxCrashes /\ crashes' = crashes + 1
      /\ UNCHANGED <<versions, job, edit, attempts>>
  BY DEF Reopen
<1>2. n \in Nat
  BY WatchAssumption, FS_Subset, FS_CardinalityType
<1>3. TaskEvent(None, "recovered") \in Events /\ TaskEvent(None, "recovered").kind # "run"
  BY DEF TaskEvent, Events
<1> HIDE DEF n
<1>4. events \in Seq(Events) /\ Len(events) = n /\ \A i \in 1..Len(events) : events[i].kind # "run"
  <2>1. events \in [1..n -> Events]
    BY <1>3
  <2>2. events \in Seq(Events) /\ Len(events) = n
    BY <1>2, <2>1
  <2> QED
    BY <1>3, <2>2
<1> HIDE DEF events
<1>5. Grows /\ Silent
  BY <1>1, <1>4, EmitFacts
<1>6. \A r \in Runs : /\ run[r].hub = h /\ run[r].pc \notin Over =>
                            run'[r].pc = "dead" /\ run'[r].hub = h /\ run'[r] \in Calls
                      /\ ~(run[r].hub = h /\ run[r].pc \notin Over) => run'[r] = run[r]
  BY <1>1, GoneFacts DEF Over
<1>7. run' \in [Runs -> Calls]
  BY <1>1, <1>6 DEF TypeOK
<1>8. [state |-> "closed", verdict |-> "unknown"] \in TaskStates
  BY DEF TaskStates
<1>9. task' \in [Runs -> TaskStates]
  BY <1>1, <1>8 DEF TypeOK
<1>10. Keeps /\ crashes' \in 0..MaxCrashes
  BY <1>1, AttemptsStay, WatchAssumption DEF TypeOK
<1>11. ASSUME NEW r \in Runs
       PROVE  /\ Settles(r) /\ CallInv(r)'
              /\ run'[r].pc \in Holding => run[r].pc \in Holding /\ run[r].hub # h
              /\ run'[r].hub = run[r].hub
  <2>1. CASE run[r].hub # h
    <3>1. run'[r] = run[r] /\ task'[r] = task[r]
      BY <1>1, <1>6, <2>1
    <3> QED
      BY <1>5, <1>10, <2>1, <3>1, CallStays DEF Settles
  <2>2. CASE run[r].hub = h /\ run[r].pc \notin Over
    <3>1. run'[r].pc = "dead" /\ run'[r].hub = h
      BY <1>6, <2>2
    <3>2. task[r].state = "closed" => task'[r] = task[r]
      BY <1>1
    <3> QED
      BY <2>2, <3>1, <3>2 DEF Settles, CallInv, Told, Over, Effective, Holding
  <2>3. CASE run[r].hub = h /\ run[r].pc \in Over
    <3>1. run'[r] = run[r]
      BY <1>6, <2>3
    <3>2. task[r].state = "closed" => task'[r] = task[r]
      BY <1>1
    <3>3. RunTold(r) => RunTold(r)'
      <4>1. stream[h] \in Seq(Events) /\ stream'[h] \in Seq(Events)
        BY <1>5 DEF TypeOK, Grows
      <4>2. /\ DOMAIN stream[h] = 1..Len(stream[h]) /\ Len(stream[h]) \in Nat
            /\ DOMAIN stream'[h] = 1..Len(stream'[h]) /\ Len(stream'[h]) \in Nat
        BY <4>1, LenProperties
      <4>3. \A i \in DOMAIN stream[h] : i \in DOMAIN stream'[h] /\ stream'[h][i] = stream[h][i]
        BY <1>5, <4>2 DEF Grows
      <4> QED
        BY <2>3, <3>1, <4>3 DEF RunTold
    <3> QED
      BY <2>3, <3>1, <3>2, <3>3 DEF Settles, CallInv, Told, Over, Effective, Holding
  <2> QED
    BY <2>1, <2>2, <2>3
<1> QED
  BY <1>1, <1>5, <1>7, <1>9, <1>10, <1>11

\* record_state emits one event, which is not of a run.
LEMMA RecordStateDoes ==
  ASSUME TypeOK, NEW h \in Hubs, RecordState(h)
  PROVE  Grows /\ Silent /\ UNCHANGED <<versions, job, edit, attempts, task, active, run, crashes>>
<1> DEFINE event == StateEvent(job)
<1>1. event \in Events /\ event.kind # "run"
  BY DEF TypeOK, StateEvent, Events, Rows
<1> HIDE DEF event
<1>2. <<event>> \in Seq(Events) /\ \A i \in 1..Len(<<event>>) : <<event>>[i].kind # "run"
  BY <1>1
<1>3. Append(stream[h], event) = stream[h] \o <<event>>
  BY <1>1, AppendIsConcat DEF TypeOK
<1>4. stream' = [stream EXCEPT ![h] = @ \o <<event>>]
  BY <1>3 DEF RecordState, event
<1> QED
  BY <1>2, <1>4, EmitFacts DEF RecordState

-----------------------------------------------------------------------------
(* Every step.                                                             *)

\* What every step leaves of the calls, the tasks, the streams and the ledger.
Framed ==
    /\ run' \in [Runs -> Calls] /\ task' \in [Runs -> TaskStates]
    /\ Grows /\ Keeps /\ active' \subseteq Hubs /\ crashes' \in 0..MaxCrashes
    /\ \A r \in Runs : Settles(r) /\ CallInv(r)'
    /\ \A h \in Hubs : \A i \in (Len(stream[h]) + 1)..Len(stream'[h]) :
          stream'[h][i].kind = "run" => Recorded(h, i)'

LEMMA DoesIsFramed ==
  ASSUME TypeOK, \A q \in Runs : CallInv(q), NEW r \in Runs, Does(r), CallInv(r)',
         \A h \in Hubs : \A i \in (Len(stream[h]) + 1)..Len(stream'[h]) :
            stream'[h][i].kind = "run" => Recorded(h, i)'
  PROVE  Framed
<1>1. ASSUME NEW q \in Runs \ {r} PROVE Settles(q) /\ CallInv(q)'
  <2>1. run'[q] = run[q] /\ task'[q] = task[q] /\ Grows /\ Keeps
    BY DEF Does, TaskOnly
  <2> QED
    BY <2>1, CallStays DEF Settles
<1> QED
  BY <1>1 DEF Does, TaskOnly, Framed, TypeOK

\* The calls do not move.
LEMMA IdleIsFramed ==
  ASSUME TypeOK, \A q \in Runs : CallInv(q), UNCHANGED <<run, task, attempts, active, crashes>>,
         Grows, Silent
  PROVE  Framed
<1>1. \A q \in Runs : Settles(q) /\ CallInv(q)'
  BY CallStays, AttemptsStay DEF Settles
<1> QED
  BY <1>1, AttemptsStay DEF Framed, Silent, TypeOK

LEMMA FrameStep == IInv /\ [Next]_vars => Framed
<1> SUFFICES ASSUME IInv, [Next]_vars PROVE Framed
  OBVIOUS
<1>0. TypeOK /\ \A r \in Runs : CallInv(r)
  BY DEF IInv
<1>1. ASSUME NEW e \in Editors, NEW field, EditRead(e, field) PROVE Framed
  <2>1. UNCHANGED <<attempts, stream, task, active, run, crashes>>
    BY <1>1 DEF EditRead, runVars
  <2> QED
    BY <1>0, <2>1, StreamStays, IdleIsFramed
<1>2. ASSUME NEW e \in Editors, Replace(e) PROVE Framed
  <2>1. UNCHANGED <<attempts, stream, task, active, run, crashes>>
    BY <1>2 DEF Replace, runVars
  <2> QED
    BY <1>0, <2>1, StreamStays, IdleIsFramed
<1>3. ASSUME NEW h \in Hubs, RecordState(h) PROVE Framed
  BY <1>0, <1>3, RecordStateDoes, IdleIsFramed
<1>4. ASSUME NEW h \in Hubs, Reopen(h) PROVE Framed
  <2>1. /\ run' \in [Runs -> Calls] /\ task' \in [Runs -> TaskStates]
        /\ Grows /\ Silent /\ Keeps /\ active' = active \ {h} /\ crashes' \in 0..MaxCrashes
        /\ \A r \in Runs : Settles(r) /\ CallInv(r)'
    BY <1>0, <1>4, ReopenDoes
  <2> QED
    BY <1>0, <2>1 DEF Framed, Silent, TypeOK
<1>5. ASSUME NEW r \in Runs, NEW h \in Hubs, NEW trigger, Require(r, h, trigger) PROVE Framed
  <2>1. Does(r) /\ CallInv(r)' /\ Silent
    BY <1>0, <1>5, RequireDoes
  <2> QED
    BY <1>0, <2>1, DoesIsFramed DEF Silent
<1>6. ASSUME NEW r \in Runs, Claim(r) PROVE Framed
  <2>1. Does(r) /\ CallInv(r)' /\ Silent
    BY <1>0, <1>6, ClaimDoes
  <2> QED
    BY <1>0, <2>1, DoesIsFramed DEF Silent
<1>7. ASSUME NEW r \in Runs, Check(r) PROVE Framed
  <2>1. Does(r) /\ CallInv(r)' /\ Silent
    BY <1>0, <1>7, CheckDoes
  <2> QED
    BY <1>0, <2>1, DoesIsFramed DEF Silent
<1>8. ASSUME NEW r \in Runs, Admit(r) PROVE Framed
  <2>1. Does(r) /\ CallInv(r)' /\ Silent
    BY <1>0, <1>8, AdmitDoes
  <2> QED
    BY <1>0, <2>1, DoesIsFramed DEF Silent
<1>9. ASSUME NEW r \in Runs, Start(r) PROVE Framed
  <2>1. Does(r) /\ CallInv(r)' /\ Silent
    BY <1>0, <1>9, StartDoes
  <2> QED
    BY <1>0, <2>1, DoesIsFramed DEF Silent
<1>10. ASSUME NEW r \in Runs, Execute(r) PROVE Framed
  <2>1. Does(r) /\ CallInv(r)' /\ Silent
    BY <1>0, <1>10, ExecuteDoes
  <2> QED
    BY <1>0, <2>1, DoesIsFramed DEF Silent
<1>11. ASSUME NEW r \in Runs, ReadPrevious(r) PROVE Framed
  <2>1. Does(r) /\ CallInv(r)' /\ Silent
    BY <1>0, <1>11, ReadPreviousDoes
  <2> QED
    BY <1>0, <2>1, DoesIsFramed DEF Silent
<1>12. ASSUME NEW r \in Runs, RecordAttempt(r) PROVE Framed
  <2>1. Does(r) /\ CallInv(r)' /\ Silent
    BY <1>0, <1>12, RecordAttemptDoes
  <2> QED
    BY <1>0, <2>1, DoesIsFramed DEF Silent
<1>13. ASSUME NEW r \in Runs, Finalize(r) PROVE Framed
  <2>1. Does(r) /\ CallInv(r)' /\ Silent
    BY <1>0, <1>13, FinalizeDoes
  <2> QED
    BY <1>0, <2>1, DoesIsFramed DEF Silent
<1>14. ASSUME NEW r \in Runs, Failed(r) PROVE Framed
  <2>1. Does(r) /\ CallInv(r)' /\ Silent
    BY <1>0, <1>14, FailedDoes
  <2> QED
    BY <1>0, <2>1, DoesIsFramed DEF Silent
<1>15. ASSUME NEW r \in Runs, Release(r) PROVE Framed
  <2>1. Does(r) /\ CallInv(r)' /\ Silent
    BY <1>0, <1>15, ReleaseDoes
  <2> QED
    BY <1>0, <2>1, DoesIsFramed DEF Silent
<1>16. ASSUME NEW r \in Runs, RecordRun(r) PROVE Framed
  <2>1. /\ Does(r) /\ CallInv(r)'
        /\ \A h \in Hubs : \A i \in (Len(stream[h]) + 1)..Len(stream'[h]) : Recorded(h, i)'
    BY <1>0, <1>16, RecordRunDoes
  <2> QED
    BY <1>0, <2>1, DoesIsFramed
<1>17. CASE UNCHANGED vars
  <2>1. UNCHANGED <<attempts, stream, task, active, run, crashes>>
    BY <1>17 DEF vars
  <2> QED
    BY <1>0, <2>1, StreamStays, IdleIsFramed
<1> QED
  BY <1>1, <1>2, <1>3, <1>4, <1>5, <1>6, <1>7, <1>8, <1>9,
     <1>10, <1>11, <1>12, <1>13, <1>14, <1>15, <1>16, <1>17 DEF Next, RunStep

\* What the stream said of a run stays true, and what it says now is true.
LEMMA RecordStep == IInv /\ [Next]_vars => RecordInv'
<1> SUFFICES ASSUME IInv, [Next]_vars, NEW h \in Hubs, NEW i \in DOMAIN stream'[h],
                    stream'[h][i].kind = "run"
             PROVE  Recorded(h, i)'
  BY DEF RecordInv
<1>1. Framed /\ TypeOK /\ RecordInv
  BY FrameStep DEF IInv
<1>2. stream[h] \in Seq(Events) /\ stream'[h] \in Seq(Events)
  BY <1>1 DEF Framed, Grows, TypeOK
<1>3. /\ DOMAIN stream[h] = 1..Len(stream[h]) /\ Len(stream[h]) \in Nat
      /\ DOMAIN stream'[h] = 1..Len(stream'[h]) /\ Len(stream'[h]) \in Nat
  BY <1>2, LenProperties
<1>4. CASE i \in DOMAIN stream[h]
  <2>1. \A k \in 1..i : k \in 1..Len(stream[h])
    BY <1>3, <1>4
  <2>2. \A k \in 1..i : stream'[h][k] = stream[h][k]
    BY <1>1, <2>1 DEF Framed, Grows
  <2>3. stream'[h][i] = stream[h][i] /\ \A k \in 1..(i-1) : stream'[h][k] = stream[h][k]
    BY <1>3, <1>4, <2>2
  <2>4. Recorded(h, i)
    BY <1>1, <1>4, <2>3 DEF RecordInv
  <2> DEFINE e == stream[h][i]
  <2>5. /\ e.run \in Runs /\ run[e.run].pc \in Told
        /\ task[e.run] = [state |-> "closed", verdict |-> e.verdict]
        /\ \E a \in Range(attempts) :
              a.run = e.run /\ a.rev = e.rev /\ (e.verdict = "verified" => a.quality = "whole")
        /\ \E k \in 1..(i-1) : stream[h][k] = TaskEvent(e.run, "closed")
    BY <2>4 DEF Recorded
  <2>6. run'[e.run].pc \in Told /\ task'[e.run] = task[e.run]
    BY <1>1, <2>5 DEF Framed, Settles
  <2>7. \E a \in Range(attempts)' :
           a.run = e.run /\ a.rev = e.rev /\ (e.verdict = "verified" => a.quality = "whole")
    BY <1>1, <2>5 DEF Framed, Keeps
  <2>8. \E k \in 1..(i-1) : stream'[h][k] = TaskEvent(e.run, "closed")
    BY <2>3, <2>5
  <2> QED
    BY <2>3, <2>5, <2>6, <2>7, <2>8 DEF Recorded
<1>5. CASE i \notin DOMAIN stream[h]
  BY <1>1, <1>3, <1>5 DEF Framed
<1> QED
  BY <1>4, <1>5

\* A step under the claim changes no claim.
LEMMA ClaimsStay ==
  ASSUME ClaimInv, NEW r \in Runs, SameClaims(r), \A q \in Runs \ {r} : run'[q] = run[q]
  PROVE  ClaimInv'
BY DEF ClaimInv, SameClaims

LEMMA ClaimStep == IInv /\ [Next]_vars => ClaimInv'
<1> SUFFICES ASSUME IInv, [Next]_vars PROVE ClaimInv'
  OBVIOUS
<1>0. TypeOK /\ ClaimInv /\ \A r \in Runs : CallInv(r)
  BY DEF IInv
<1>1. ASSUME NEW e \in Editors, NEW field, EditRead(e, field) PROVE ClaimInv'
  BY <1>0, <1>1 DEF EditRead, runVars, ClaimInv
<1>2. ASSUME NEW e \in Editors, Replace(e) PROVE ClaimInv'
  BY <1>0, <1>2 DEF Replace, runVars, ClaimInv
<1>3. ASSUME NEW h \in Hubs, RecordState(h) PROVE ClaimInv'
  BY <1>0, <1>3 DEF RecordState, ClaimInv
<1>4. ASSUME NEW h \in Hubs, Reopen(h) PROVE ClaimInv'
  <2>1. /\ active' = active \ {h}
        /\ \A r \in Runs : run'[r].pc \in Holding => run[r].pc \in Holding /\ run[r].hub # h
        /\ \A r \in Runs : run'[r].hub = run[r].hub
    BY <1>0, <1>4, ReopenDoes
  <2> QED
    BY <1>0, <2>1 DEF ClaimInv
<1>5. ASSUME NEW r \in Runs, NEW h \in Hubs, NEW trigger, Require(r, h, trigger) PROVE ClaimInv'
  <2>1. Does(r) /\ active' = active /\ run'[r].pc = "read"
    BY <1>0, <1>5, RequireDoes
  <2>2. run'[r].pc \notin Holding
    BY <2>1 DEF Holding, Effective
  <2> QED
    BY <1>0, <2>1, <2>2 DEF ClaimInv, Does
<1>6. ASSUME NEW r \in Runs, Claim(r) PROVE ClaimInv'
  <2>1. CASE run[r].hub \in active
    <3>1. Moves(r, {"raised"}) /\ active' = active
      BY <1>0, <1>6, <2>1, EndedFacts DEF Claim, Over
    <3>2. run'[r].pc \notin Holding
      BY <3>1 DEF Moves, Holding, Effective
    <3> QED
      BY <1>0, <3>1, <3>2 DEF ClaimInv, Moves
  <2>2. CASE run[r].hub \notin active
    <3>1. Moves(r, {"claimed"}) /\ active' = active \cup {run[r].hub}
      BY <1>0, <1>6, <2>2, GoesFacts DEF Claim
    <3> QED
      BY <1>0, <2>2, <3>1 DEF ClaimInv, Moves
  <2> QED
    BY <2>1, <2>2
<1>7. ASSUME NEW r \in Runs, Release(r) PROVE ClaimInv'
  <2>1. Does(r) /\ active' = active \ {run[r].hub} /\ run[r].pc \in Holding
    BY <1>0, <1>7, ReleaseDoes DEF Release, Holding
  <2>2. \E pc \in {"returned", "raised"} : Ended(r, pc)
    BY <1>7 DEF Release
  <2>3. run'[r].pc \notin Holding
    BY <1>0, <2>2, EndedFacts DEF Moves, Over, Holding, Effective
  <2> QED
    BY <1>0, <2>1, <2>3 DEF ClaimInv, Does
<1>8. ASSUME NEW r \in Runs, Check(r) PROVE ClaimInv'
  BY <1>0, <1>8, CheckDoes, ClaimsStay DEF Does
<1>9. ASSUME NEW r \in Runs, Admit(r) PROVE ClaimInv'
  BY <1>0, <1>9, AdmitDoes, ClaimsStay DEF Does
<1>10. ASSUME NEW r \in Runs, Start(r) PROVE ClaimInv'
  BY <1>0, <1>10, StartDoes, ClaimsStay DEF Does
<1>11. ASSUME NEW r \in Runs, Execute(r) PROVE ClaimInv'
  BY <1>0, <1>11, ExecuteDoes, ClaimsStay DEF Does
<1>12. ASSUME NEW r \in Runs, ReadPrevious(r) PROVE ClaimInv'
  BY <1>0, <1>12, ReadPreviousDoes, ClaimsStay DEF Does
<1>13. ASSUME NEW r \in Runs, RecordAttempt(r) PROVE ClaimInv'
  BY <1>0, <1>13, RecordAttemptDoes, ClaimsStay DEF Does
<1>14. ASSUME NEW r \in Runs, Finalize(r) PROVE ClaimInv'
  BY <1>0, <1>14, FinalizeDoes, ClaimsStay DEF Does
<1>15. ASSUME NEW r \in Runs, Failed(r) PROVE ClaimInv'
  BY <1>0, <1>15, FailedDoes, ClaimsStay DEF Does
<1>16. ASSUME NEW r \in Runs, RecordRun(r) PROVE ClaimInv'
  BY <1>0, <1>16, RecordRunDoes, ClaimsStay DEF Does
<1>17. CASE UNCHANGED vars
  BY <1>0, <1>17 DEF vars, ClaimInv
<1> QED
  BY <1>1, <1>2, <1>3, <1>4, <1>5, <1>6, <1>7, <1>8, <1>9,
     <1>10, <1>11, <1>12, <1>13, <1>14, <1>15, <1>16, <1>17 DEF Next, RunStep

\* Steps that are not of the configuration leave it.
LEMMA OnlyEdits ==
  IInv /\ [Next]_vars =>
     \/ UNCHANGED <<versions, job, edit>>
     \/ \E e \in Editors : Replace(e) \/ \E field \in Names : EditRead(e, field)
<1> SUFFICES ASSUME IInv, [Next]_vars,
                    ~(\E e \in Editors : Replace(e) \/ \E field \in Names : EditRead(e, field))
             PROVE  UNCHANGED <<versions, job, edit>>
  OBVIOUS
<1>1. \/ \E h \in Hubs : RecordState(h) \/ Reopen(h)
      \/ \E r \in Runs, h \in Hubs, trigger \in {"manual", "scheduled"} : Require(r, h, trigger)
      \/ \E r \in Runs : RunStep(r)
      \/ UNCHANGED vars
  BY DEF Next, Names
<1>2. ASSUME NEW h \in Hubs, RecordState(h) \/ Reopen(h) PROVE UNCHANGED <<versions, job, edit>>
  BY <1>2 DEF RecordState, Reopen
<1>3. ASSUME NEW r \in Runs, NEW h \in Hubs, NEW trigger, Require(r, h, trigger)
      PROVE  UNCHANGED <<versions, job, edit>>
  BY <1>3 DEF Require, RunUnchanged
<1>4. ASSUME NEW r \in Runs, RunStep(r) PROVE UNCHANGED <<versions, job, edit>>
  BY <1>4 DEF RunStep, Claim, Check, Admit, Start, Execute, ReadPrevious, RecordAttempt, Finalize,
              RecordRun, Failed, Release, RunUnchanged
<1>5. CASE UNCHANGED vars
  BY <1>5 DEF vars
<1> QED
  BY <1>1, <1>2, <1>3, <1>4, <1>5

\* The configuration stays of its type, and no edit is lost.
LEMMA EditStep ==
  IInv /\ [Next]_vars =>
     /\ versions' \in Seq(Rows) /\ job' \in Rows /\ edit' \in [Editors -> Edits]
     /\ EditInv'
<1> DEFINE Good == /\ versions \in Seq(Rows) /\ job \in Rows /\ edit \in [Editors -> Edits]
                   /\ EditInv
<1> SUFFICES ASSUME IInv, [Next]_vars PROVE Good'
  OBVIOUS
<1>0. Good
  BY DEF IInv, TypeOK
<1>1. /\ Len(versions) \in Nat /\ Len(versions) >= 1 /\ job = versions[Len(versions)]
      /\ job.version \in Nat /\ \A e \in Editors : edit[e].base \in Nat
  <2>1. Len(versions) \in Nat /\ (versions # <<>> => Len(versions) \in Nat \ {0})
    BY <1>0, EmptySeq, LenProperties
  <2> QED
    BY <1>0, <2>1 DEF EditInv, NoLostEdit, Last, Rows, Edits, NoEdit
<1>2. CASE UNCHANGED <<versions, job, edit>>
  BY <1>0, <1>2 DEF EditInv, NoLostEdit
<1>3. ASSUME NEW e \in Editors, NEW field \in Names, EditRead(e, field) PROVE Good'
  <2>1. PICK row \in [version : {job.version + 1}, rev : Revisions, enabled : BOOLEAN, sched : BOOLEAN] :
           /\ \A f \in {"rev", "enabled", "sched"} : (row[f] # job[f]) <=> (f = field)
           /\ edit' = [edit EXCEPT ![e] = [field |-> field, base |-> job.version, row |-> row]]
    BY <1>3 DEF EditRead
  <2>2. UNCHANGED <<versions, job>>
    BY <1>3 DEF EditRead
  <2>3. row \in Rows /\ row.version = job.version + 1
    BY <1>1, <2>1 DEF Rows
  <2> DEFINE new == [field |-> field, base |-> job.version, row |-> row]
  <2>4. new \in Edits /\ new.base = job.version /\ new.row = row /\ new.field = field
    BY <1>1, <2>3 DEF Edits, Names
  <2> HIDE DEF new
  <2>5. edit' \in [Editors -> Edits] /\ edit'[e] = new /\ \A d \in Editors \ {e} : edit'[d] = edit[d]
    BY <1>0, <2>1, <2>4 DEF new
  <2>6. NoLostEdit' /\ versions' # <<>>
    BY <1>0, <2>2 DEF EditInv, NoLostEdit
  <2>7. \A f \in Names : (row[f] # job[f]) <=> (f = field)
    BY <2>1 DEF Names
  <2>8. ASSUME NEW d \in Editors
        PROVE  /\ edit'[d].base <= job.version
               /\ edit'[d] # NoEdit /\ edit'[d].base = job.version =>
                     /\ edit'[d].row.version = job.version + 1
                     /\ edit'[d].row \in Rows
                     /\ \A f \in Names : (edit'[d].row[f] # job[f]) <=> (f = edit'[d].field)
    <3>1. CASE d = e
      BY <1>1, <2>3, <2>4, <2>5, <2>7, <3>1
    <3>2. CASE d # e
      BY <1>0, <2>5, <3>2 DEF EditInv
    <3> QED
      BY <3>1, <3>2
  <2> QED
    BY <1>0, <2>2, <2>5, <2>6, <2>8 DEF EditInv
<1>4. ASSUME NEW e \in Editors, Replace(e) PROVE Good'
  <2>0. edit[e] # NoEdit /\ edit' = [edit EXCEPT ![e] = NoEdit]
    BY <1>4 DEF Replace
  <2>1. /\ edit' \in [Editors -> Edits] /\ edit'[e] = NoEdit
        /\ \A d \in Editors \ {e} : edit'[d] = edit[d]
    BY <1>0, <2>0 DEF Edits
  <2>2. NoEdit.base = 0
    BY DEF NoEdit
  <2>3. CASE edit[e].base # job.version
    <3>1. UNCHANGED <<job, versions>>
      BY <1>4, <2>3 DEF Replace
    <3>2. NoLostEdit' /\ versions' # <<>>
      BY <1>0, <3>1 DEF EditInv, NoLostEdit
    <3> QED
      BY <1>0, <1>1, <2>1, <2>2, <3>1, <3>2 DEF EditInv
  <2>4. CASE edit[e].base = job.version
    <3> DEFINE row == edit[e].row
               n == Len(versions)
    <3>1. job' = row /\ versions' = Append(versions, row)
      BY <1>4, <2>4 DEF Replace
    <3>2. /\ row.version = job.version + 1 /\ row \in Rows
          /\ \A f \in Names : (row[f] # job[f]) <=> (f = edit[e].field)
      BY <1>0, <2>0, <2>4 DEF EditInv
    <3>3. edit[e].field \in Names
      BY <1>0, <2>0 DEF Edits, Names
    <3> HIDE DEF row
    <3>4. /\ versions' \in Seq(Rows) /\ versions' # <<>> /\ Len(versions') = n + 1
          /\ \A i \in 1..n : versions'[i] = versions[i]
          /\ versions'[n + 1] = row
      BY <1>0, <3>1, <3>2, AppendProperties
    <3>5. job'.version = job.version + 1 /\ job' \in Rows
      BY <3>1, <3>2
    <3>6. job' = Last(versions')
      BY <3>1, <3>4 DEF Last
    <3>7. ASSUME NEW i \in 2..Len(versions')
          PROVE  /\ versions'[i].version = versions'[i-1].version + 1
                 /\ Cardinality({f \in Names : versions'[i][f] # versions'[i-1][f]}) = 1
      <4>1. CASE i \in 2..n
        <5>1. versions'[i] = versions[i] /\ versions'[i-1] = versions[i-1]
          <6>1. i \in 1..n /\ i - 1 \in 1..n
            BY <1>1, <4>1
          <6> QED
            BY <3>4, <6>1
        <5>2. /\ versions[i].version = versions[i-1].version + 1
              /\ Cardinality({f \in Names : versions[i][f] # versions[i-1][f]}) = 1
          BY <1>0, <4>1 DEF EditInv, NoLostEdit, Names
        <5> QED
          BY <5>1, <5>2
      <4>2. CASE i = n + 1
        <5>1. versions'[i] = row /\ versions'[i-1] = job
          <6>1. i - 1 = n /\ n \in 1..n
            BY <1>1, <4>2
          <6> QED
            BY <1>1, <3>4, <4>2, <6>1
        <5>2. {f \in Names : row[f] # job[f]} = {edit[e].field}
          BY <3>2, <3>3
        <5>3. Cardinality({edit[e].field}) = 1
          BY FS_Singleton
        <5> QED
          BY <3>2, <5>1, <5>2, <5>3
      <4>3. i \in 2..n \/ i = n + 1
        BY <1>1, <3>4
      <4> QED
        BY <4>1, <4>2, <4>3
    <3>8. NoLostEdit'
      BY <3>6, <3>7 DEF NoLostEdit, Names
    <3>9. ASSUME NEW d \in Editors
          PROVE  /\ edit'[d].base <= job'.version
                 /\ edit'[d] # NoEdit => edit'[d].base # job'.version
      <4>1. CASE d = e
        BY <1>1, <2>1, <2>2, <3>5, <4>1
      <4>2. CASE d # e
        <5>1. edit'[d] = edit[d] /\ edit[d].base <= job.version /\ edit[d].base \in Nat
          BY <1>0, <1>1, <2>1, <4>2 DEF EditInv
        <5> QED
          BY <1>1, <3>5, <5>1
      <4> QED
        BY <4>1, <4>2
    <3> QED
      BY <2>1, <3>4, <3>5, <3>8, <3>9 DEF EditInv
  <2> QED
    BY <2>3, <2>4
<1> QED
  BY <1>2, <1>3, <1>4, OnlyEdits

-----------------------------------------------------------------------------
(* The theorems.                                                           *)

LEMMA InitInv == Init => IInv
<1> SUFFICES ASSUME Init PROVE IInv
  OBVIOUS
<1>0. PICK on \in FirstEnabled :
         job = [version |-> 1, rev |-> CHOOSE rev \in Revisions : TRUE, enabled |-> on, sched |-> TRUE]
  BY DEF Init
<1>1. job \in Rows /\ job.version = 1
  <2>1. (CHOOSE rev \in Revisions : TRUE) \in Revisions
    BY WatchAssumption
  <2>2. on \in BOOLEAN
    BY WatchAssumption
  <2> QED
    BY <1>0, <2>1, <2>2 DEF Rows
<1>2. versions = <<job>> /\ versions \in Seq(Rows) /\ Len(versions) = 1 /\ versions[1] = job
  BY <1>1 DEF Init
<1>3. NoTask \in TaskStates /\ NoRun \in Calls /\ NoEdit \in Edits
  BY DEF NoTask, TaskStates, NoRun, Calls, Over, Edits
<1>4. TypeOK
  BY <1>1, <1>2, <1>3, WatchAssumption DEF Init, TypeOK
<1>5. EditInv
  <2>1. versions # <<>> /\ NoLostEdit
    BY <1>2 DEF NoLostEdit, Last
  <2>2. \A e \in Editors : edit[e] = NoEdit
    BY DEF Init
  <2>3. NoEdit.base = 0
    BY DEF NoEdit
  <2> QED
    BY <1>1, <2>1, <2>2, <2>3 DEF EditInv
<1>6. \A r \in Runs : run[r].pc = "none"
  BY DEF Init, NoRun
<1>7. ClaimInv
  BY <1>6 DEF ClaimInv, Holding, Effective
<1>8. \A r \in Runs : CallInv(r)
  BY <1>6 DEF CallInv, Over, Effective
<1>9. RecordInv
  BY DEF Init, RecordInv
<1> QED
  BY <1>4, <1>5, <1>7, <1>8, <1>9 DEF IInv

\* The inductive invariant of the configuration, the claims, the calls and what
\* the streams say of them.
THEOREM Invariant == Spec => []IInv
<1>1. IInv /\ [Next]_vars => IInv'
  <2> SUFFICES ASSUME IInv, [Next]_vars PROVE IInv'
    OBVIOUS
  <2>1. /\ versions' \in Seq(Rows) /\ job' \in Rows /\ edit' \in [Editors -> Edits]
        /\ EditInv'
    BY EditStep
  <2>2. Framed /\ ClaimInv' /\ RecordInv'
    BY FrameStep, ClaimStep, RecordStep
  <2>3. TypeOK'
    BY <2>1, <2>2 DEF Framed, Grows, Keeps, TypeOK
  <2> QED
    BY <2>1, <2>2, <2>3 DEF Framed, IInv
<1> QED
  BY InitInv, <1>1, PTL DEF Spec

\* Every table, stream and call of the watch holds values of its type.
THEOREM TypeCorrect == Spec => []TypeOK
<1>1. IInv => TypeOK
  BY DEF IInv
<1> QED
  BY Invariant, <1>1, PTL

\* update_job, set_enabled and set_schedule never undo each other, however many
\* callers read the row before one of them replaces it.
THEOREM NoLostEditHolds == Spec => []NoLostEdit
<1>1. IInv => NoLostEdit
  BY DEF IInv, EditInv
<1> QED
  BY Invariant, <1>1, PTL

\* run_job observes, executes, stores and verifies only with a running task and
\* the only claim of its hub.
THEOREM EffectsFencedHolds == Spec => []EffectsFenced
<1>1. IInv => EffectsFenced
  <2> SUFFICES ASSUME IInv, NEW r \in Runs, run[r].pc \in Effective
               PROVE  /\ task[r].state = "running" /\ run[r].hub \in active
                      /\ \A q \in Runs \ {r} : run[q].hub = run[r].hub =>
                            run[q].pc \in Over \cup {"read"}
    BY DEF EffectsFenced
  <2>1. task[r].state = "running"
    BY DEF IInv, CallInv
  <2>2. run[r].pc \in Holding
    BY DEF Holding
  <2>3. ASSUME NEW q \in Runs \ {r}, run[q].hub = run[r].hub PROVE run[q].pc \notin Holding
    BY <2>2, <2>3 DEF IInv, ClaimInv
  <2>4. \A q \in Runs : run[q].pc \in Holding \cup Over \cup {"read"}
    BY DEF IInv, TypeOK, Calls, Holding, Effective
  <2> QED
    BY <2>1, <2>2, <2>3, <2>4 DEF IInv, ClaimInv
<1> QED
  BY Invariant, <1>1, PTL

\* record_run says of a run only what the ledger and the closed task say, and a
\* call that returned has said it.
THEOREM RecordedIsTrueHolds == Spec => []RecordedIsTrue
<1>1. IInv => RecordedIsTrue
  <2> SUFFICES ASSUME IInv PROVE RecordedIsTrue
    OBVIOUS
  <2>1. ASSUME NEW h \in Hubs, NEW i \in DOMAIN stream[h], stream[h][i].kind = "run"
        PROVE  /\ \E a \in Range(attempts) :
                     /\ a.run = stream[h][i].run /\ a.rev = stream[h][i].rev
                     /\ stream[h][i].verdict = "verified" => a.quality = "whole"
               /\ task[stream[h][i].run] = [state |-> "closed", verdict |-> stream[h][i].verdict]
               /\ \E k \in 1..(i-1) : stream[h][k] = TaskEvent(stream[h][i].run, "closed")
    BY <2>1 DEF IInv, RecordInv, Recorded
  <2>2. ASSUME NEW r \in Runs, At(r, "returned")
        PROVE  \E e \in Range(stream[run[r].hub]) : e.kind = "run" /\ e.run = r
    <3>1. RunTold(r)
      BY <2>2 DEF IInv, CallInv, At
    <3> QED
      BY <3>1 DEF RunTold, Range
  <2> QED
    BY <2>1, <2>2 DEF RecordedIsTrue
<1> QED
  BY Invariant, <1>1, PTL

=============================================================================
