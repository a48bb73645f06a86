------------------------ MODULE TaskExecutionProofs ------------------------
(***************************************************************************)
(* Proofs about TaskExecution for any sets of tasks, submit calls and      *)
(* tools, any queue capacity and any number of faults, Stops and restarts. *)
(* What is on record of effects holds with and without serial turns; that  *)
(* cleanup is true, the refinement of TaskLifecycle and that nothing is    *)
(* left behind need them.                                                  *)
(***************************************************************************)
EXTENDS TaskExecution, SequenceTheorems, WellFoundedInduction, TLAPS

-----------------------------------------------------------------------------
(* The inductive invariant.                                                *)

\* The program points of a tool call.
ToolPoints == {"tool_start", "tool", "tool_run", "tool_finish", "tool_last"}

\* A call counts as an attempt before its ordinal is used up, and belongs to
\* the task of its thread.
CallInv ==
  \A x \in Execs :
    /\ ordinal[x] <= attempts[x]
    /\ pc[x] = "tool_start" => ordinal[x] < attempts[x]
    /\ pc[x] \in ToolPoints => call[x] \in Calls /\ call[x][1] = TaskOf[x]
    /\ pc[x] \in {"returned", "commit"} => result[x] \in Results

\* The kind of event the thread at a program point waits for.
KindAt(p) ==
  CASE p \in {"register", "admission"} -> "admitted"
    [] p = "start_wait" -> "running"
    [] p = "tool_start" -> "started"
    [] p \in {"tool_finish", "tool_last"} -> "finished"
    [] OTHER -> "closed"

\* A command that is waited for is the one its thread is waiting for.
Awaited(c) ==
  /\ receipt[c.by] = "pending"
  /\ c.by \in Execs =>
       /\ pc[c.by] \in Waits \cup {"register"}
       /\ c.ev.kind = KindAt(pc[c.by])
       /\ c.task = TaskOf[c.by]
       /\ pc[c.by] = "tool_start" => c.ev.call = call[c.by]

\* A queued command is complete.
CommandOK(c) ==
  /\ c.ev.kind = "admitted" => c.by \in Execs /\ c.task = TaskOf[c.by]
  /\ c.ev.kind = "closed" => c.ev.status \in Terminal
  /\ c.waited => Awaited(c)

QueueInv == \A i \in 1 .. Len(queue) : CommandOK(queue[i])

\* No caller waits for two commands.
SingleInv ==
  \A i, j \in 1 .. Len(queue) :
    i # j /\ queue[i].by = queue[j].by => ~(queue[i].waited /\ queue[j].waited)

\* A thread that has its admission receipt, or is past it.
Admitted(x) ==
  \/ pc[x] \in {"register", "admission"} /\ receipt[x] = "ok"
  \/ pc[x] \in {"start", "start_wait", "enter", "controller", "tool_start", "tool",
                "tool_run", "tool_finish", "tool_last", "returned", "commit"}

\* The row of a task names the execution that created it, and only that one
\* gets past its admission.
CreatorInv ==
  \A x \in Execs :
    Admitted(x) \/ x \in entered =>
      digest[TaskOf[x]] = x /\ state[TaskOf[x]] # "absent"

\* The calls whose start is on record.
Recorded ==
  {c \in Calls : \E i \in 1 .. Len(log[c[1]]) :
                   log[c[1]][i].kind = "started" /\ log[c[1]][i].call = c}

\* A thread about to run a handler has its call on record, as has every process.
RecordInv ==
  /\ \A x \in Execs :
       (pc[x] = "tool_start" /\ receipt[x] = "ok") \/ pc[x] \in {"tool", "tool_run"}
         => call[x] \in Recorded
  /\ live \subseteq Recorded

\* Who holds the authority lock.
LockInv ==
  /\ receipt[Stopper] = "pending" => lock = Stopper
  /\ \A x \in Execs :
       pc[x] = "start_wait" \/ (pc[x] = "final" /\ via[x] \in {"result", "open_call"})
         => lock = x

\* The store, the queue, the lock and the threads agree.
IInv ==
  /\ TypeOK /\ CallInv /\ QueueInv /\ SingleInv
  /\ CreatorInv /\ RecordInv /\ LockInv

-----------------------------------------------------------------------------
(* Facts about the small steps.                                            *)

\* Events are well-formed.
LEMMA EventTypes ==
  /\ \A kind \in Kinds : Event(kind) \in Events
  /\ \A c \in Calls : StartedEvent(c) \in Events
  /\ \A c \in Calls, e \in Ends : FinishedEvent(c, e) \in Events
  /\ \A s \in Terminal, q \in Cleanups, r \in Reasons : ClosedEvent(s, q, r) \in Events
BY DEF Event, StartedEvent, FinishedEvent, ClosedEvent, Events, Kinds

\* The derivation of cleanup always answers.
LEMMA CleanupType == \A t : Cleanup(t) \in Cleanups
BY DEF Cleanup, Cleanups

\* Put appends one command or leaves the queue alone and fails the receipt.
LEMMA PutFacts ==
  ASSUME queue \in Seq(Commands), Len(queue) <= QueueLimit,
         DOMAIN receipt = Callers, QueueLimit \in Nat,
         NEW a \in Callers, NEW t \in Tasks, NEW ev \in Events, Put(a, t, ev)
  PROVE  LET c == [task |-> t, ev |-> ev, by |-> a, waited |-> TRUE]
         IN  /\ c \in Commands
             /\ queue' \in Seq(Commands)
             /\ Len(queue') <= QueueLimit
             /\ receipt' = [receipt EXCEPT ![a] = receipt'[a]]
             /\ receipt'[a] \in {"pending", "error"}
             /\ \/ queue' = queue /\ receipt'[a] = "error"
                \/ /\ receipt'[a] = "pending"
                   /\ Len(queue') = Len(queue) + 1
                   /\ queue'[Len(queue) + 1] = c
                   /\ \A i \in 1 .. Len(queue) : queue'[i] = queue[i]
<1> DEFINE c == [task |-> t, ev |-> ev, by |-> a, waited |-> TRUE]
<1>1. c \in Commands
  BY DEF Commands
<1> HIDE DEF c
<1>2. /\ Append(queue, c) \in Seq(Commands)
      /\ Len(Append(queue, c)) = Len(queue) + 1
      /\ Append(queue, c)[Len(queue) + 1] = c
      /\ \A i \in 1 .. Len(queue) : Append(queue, c)[i] = queue[i]
  BY <1>1, AppendProperties
<1>3. Len(queue) \in Nat
  BY LenProperties
<1>4. CASE Len(queue) < QueueLimit
  <2>1. queue' = Append(queue, c) /\ receipt' = [receipt EXCEPT ![a] = "pending"]
    BY <1>4 DEF Put, c
  <2>2. receipt'[a] = "pending" /\ receipt' = [receipt EXCEPT ![a] = receipt'[a]]
    BY <2>1
  <2>3. QED
    BY <1>1, <1>2, <1>3, <1>4, <2>1, <2>2 DEF c
<1>5. CASE ~(Len(queue) < QueueLimit)
  <2>1. queue' = queue /\ receipt' = [receipt EXCEPT ![a] = "error"]
    BY <1>5 DEF Put
  <2>2. receipt'[a] = "error" /\ receipt' = [receipt EXCEPT ![a] = receipt'[a]]
    BY <2>1
  <2>3. QED
    BY <1>1, <1>3, <2>1, <2>2 DEF c
<1>6. QED
  BY <1>4, <1>5

\* The thread of x moved on, and was not waiting for a receipt or is still
\* waiting for the same one.
Moved(x) ==
  /\ queue' = queue
  /\ receipt' = receipt
  /\ \A y \in Execs \ {x} : pc'[y] = pc[y] /\ call'[y] = call[y]
  /\ \/ receipt[x] # "pending"
     \/ pc[x] \notin Waits \cup {"register"}
     \/ pc[x] = "register" /\ pc'[x] = "admission"

LEMMA MovedQueue ==
  ASSUME TypeOK, QueueInv, NEW x \in Execs, Moved(x)
  PROVE  QueueInv'
<1> SUFFICES ASSUME NEW i \in 1 .. Len(queue)
             PROVE  CommandOK(queue[i])'
  BY DEF QueueInv, Moved
<1> DEFINE c == queue[i]
<1>1. c \in Commands /\ c' = c
  BY ElementOfSeq DEF TypeOK, Moved
<1>2. CommandOK(c)
  BY DEF QueueInv
<1>3. c.waited => Awaited(c)'
  <2> SUFFICES ASSUME c.waited PROVE Awaited(c)'
    OBVIOUS
  <2>1. Awaited(c)
    BY <1>2 DEF CommandOK
  <2>2. CASE c.by = x
    BY <1>1, <2>1, <2>2 DEF Awaited, Moved, KindAt, Waits
  <2>3. CASE c.by # x
    BY <1>1, <2>1, <2>3 DEF Awaited, Moved, KindAt
  <2>4. QED
    BY <2>2, <2>3
<1>4. QED
  BY <1>1, <1>2, <1>3 DEF CommandOK, Moved

\* What a step of the thread of x does when it leaves the store and the queue
\* alone: it reaches no new waiting point, runs a handler only after its start
\* was acknowledged, and spawns only from inside a handler.
Moves(x) ==
  /\ Moved(x)
  /\ UNCHANGED <<store, via, call, attempts>>
  /\ \A y \in Execs \ {x} : ordinal'[y] = ordinal[y] /\ result'[y] = result[y]
  /\ ordinal'[x] <= attempts[x]
  /\ live' \subseteq live \cup (IF pc[x] = "tool" THEN {call[x]} ELSE {})
  /\ entered' = entered \/ (entered' = entered \cup {x} /\ Admitted(x))
  /\ pc'[x] \notin {"start_wait", "tool_start", "tool_finish", "tool_last", "final"}
  /\ pc'[x] = "tool" => pc[x] = "tool_start" /\ receipt[x] = "ok"
  /\ pc'[x] = "tool_run" => pc[x] = "tool"
  /\ pc'[x] \in {"returned", "commit"} => result'[x] \in Results
  /\ Admitted(x)' => Admitted(x)
  /\ lock' = lock \/ (lock = x /\ lock' = None)

LEMMA MovesInv ==
  ASSUME IInv, TypeOK', NEW x \in Execs, Moves(x)
  PROVE  IInv'
<1> USE DEF IInv, store
<1>1. /\ queue' = queue /\ receipt' = receipt
      /\ \A y \in Execs \ {x} : pc'[y] = pc[y]
  BY DEF Moves, Moved
<1>2. CallInv'
  BY <1>1 DEF Moves, CallInv, ToolPoints
<1>3. QueueInv'
  BY MovedQueue DEF Moves
<1>4. SingleInv'
  BY <1>1 DEF SingleInv
<1>5. CreatorInv'
  <2>1. \A y \in Execs : Admitted(y)' => Admitted(y)
    BY <1>1 DEF Moves, Admitted
  <2>2. QED
    BY <2>1 DEF Moves, CreatorInv
<1>6. RecordInv'
  <2>1. Recorded' = Recorded
    BY DEF Moves, Recorded
  <2>2. pc[x] = "tool" => call[x] \in Recorded
    BY DEF RecordInv
  <2>3. QED
    BY <1>1, <2>1, <2>2 DEF Moves, RecordInv
<1>7. LockInv'
  BY <1>1, ConstantsAssumption DEF Moves, LockInv
<1>8. QED
  BY <1>2, <1>3, <1>4, <1>5, <1>6, <1>7

-----------------------------------------------------------------------------
(* Each step of a thread that leaves the store and the queue alone         *)
(* preserves the invariant.                                                *)

LEMMA RegisterOnceInv ==
  ASSUME IInv, NEW x \in Execs, RegisterOnce(x)
  PROVE  IInv'
<1> USE DEF IInv, store, service, authority, thread, activity, bounds
<1>1. PICK p \in {"admission"} : Go(x, p)
  BY DEF RegisterOnce
<1>2. /\ pc' \in [Execs -> PCs] /\ pc'[x] = p
      /\ \A y \in Execs \ {x} : pc'[y] = pc[y]
  BY <1>1 DEF Go, TypeOK, PCs, Waits, Idle
<1>a. TaskOf[x] \in Tasks
  BY ConstantsAssumption
<1>3. TypeOK'
  <2>1. owns' \in [Execs -> BOOLEAN]
    BY <1>a DEF TypeOK, RegisterOnce
  <2>2. registered' \subseteq Tasks
    BY <1>a DEF TypeOK, RegisterOnce
  <2>3. fence' \in [Tasks -> {Epoch, Epoch + 1}]
    BY <1>a DEF TypeOK, RegisterOnce
  <2>4. QED
    BY <1>2, <2>1, <2>2, <2>3 DEF TypeOK, RegisterOnce
<1>4. Moves(x)
  BY <1>1, <1>2 DEF Moves, Moved, Waits, Admitted, CallInv, RegisterOnce
<1>5. QED
  BY <1>3, <1>4, MovesInv

LEMMA AdmissionWaitedInv ==
  ASSUME IInv, NEW x \in Execs, AdmissionWaited(x)
  PROVE  IInv'
<1> USE DEF IInv, store, service, authority, thread, activity, bounds
<1>1. PICK p \in {"start", "stale", "done", "failing"} : Go(x, p) /\ receipt[x] # "pending" /\ (p = "start" => receipt[x] = "ok")
  BY DEF AdmissionWaited
<1>2. /\ pc' \in [Execs -> PCs] /\ pc'[x] = p
      /\ \A y \in Execs \ {x} : pc'[y] = pc[y]
  BY <1>1 DEF Go, TypeOK, PCs, Waits, Idle
<1>3. TypeOK'
  <2>1. handle' \in [Execs -> {"none", "result", "fault", "cancelled", "duplicate",
                          "error", "write_failed"}]
    BY DEF TypeOK, AdmissionWaited
  <2>2. registered' \subseteq Tasks
    BY DEF TypeOK, AdmissionWaited, Release
  <2>3. QED
    BY <1>2, <2>1, <2>2 DEF TypeOK, AdmissionWaited
<1>4. Moves(x)
  BY <1>1, <1>2 DEF Moves, Moved, Waits, Admitted, CallInv, AdmissionWaited
<1>5. QED
  BY <1>3, <1>4, MovesInv

LEMMA StartWaitedInv ==
  ASSUME IInv, NEW x \in Execs, StartWaited(x)
  PROVE  IInv'
<1> USE DEF IInv, store, service, authority, thread, activity, bounds
<1>1. PICK p \in {"enter", "failing"} : Go(x, p)
  BY DEF StartWaited
<1>2. /\ pc' \in [Execs -> PCs] /\ pc'[x] = p
      /\ \A y \in Execs \ {x} : pc'[y] = pc[y]
  BY <1>1 DEF Go, TypeOK, PCs, Waits, Idle
<1>3. TypeOK'
  <2>1. handle' \in [Execs -> {"none", "result", "fault", "cancelled", "duplicate",
                          "error", "write_failed"}]
    BY DEF TypeOK, StartWaited
  <2>2. QED
    BY <1>2, <2>1 DEF TypeOK, StartWaited
<1>4. Moves(x)
  BY <1>1, <1>2 DEF Moves, Moved, Waits, Admitted, LockInv, CallInv, StartWaited
<1>5. QED
  BY <1>3, <1>4, MovesInv

LEMMA EnterControllerInv ==
  ASSUME IInv, NEW x \in Execs, EnterController(x)
  PROVE  IInv'
<1> USE DEF IInv, store, service, authority, thread, activity, bounds
<1>1. PICK p \in {"controller", "fault"} : Go(x, p)
  BY DEF EnterController
<1>2. /\ pc' \in [Execs -> PCs] /\ pc'[x] = p
      /\ \A y \in Execs \ {x} : pc'[y] = pc[y]
  BY <1>1 DEF Go, TypeOK, PCs, Waits, Idle
<1>3. TypeOK'
  BY <1>2 DEF TypeOK, EnterController
<1>4. Moves(x)
  BY <1>1, <1>2 DEF Moves, Moved, Waits, Admitted, CallInv, EnterController
<1>5. QED
  BY <1>3, <1>4, MovesInv

LEMMA ToolStartWaitedInv ==
  ASSUME IInv, NEW x \in Execs, ToolStartWaited(x)
  PROVE  IInv'
<1> USE DEF IInv, store, service, authority, thread, activity, bounds
<1>1. PICK p \in {"tool", "controller"} : Go(x, p) /\ receipt[x] # "pending" /\ (p = "tool" => receipt[x] = "ok")
  BY DEF ToolStartWaited
<1>2. /\ pc' \in [Execs -> PCs] /\ pc'[x] = p
      /\ \A y \in Execs \ {x} : pc'[y] = pc[y]
  BY <1>1 DEF Go, TypeOK, PCs, Waits, Idle
<1>3. TypeOK'
  <2>1. open' \in [Execs -> BOOLEAN]
    BY DEF TypeOK, ToolStartWaited
  <2>2. ordinal' \in [Execs -> 0 .. MaxCalls]
    <3>1. pc[x] = "tool_start"
      BY DEF ToolStartWaited
    <3>2. ordinal[x] + 1 \in 0 .. MaxCalls
      BY <3>1, ConstantsAssumption DEF CallInv, TypeOK
    <3> DEFINE N == 0 .. MaxCalls
               next == ordinal[x] + 1
    <3>3. ordinal \in [Execs -> N] /\ next \in N
      BY <3>2 DEF TypeOK
    <3>4. ordinal' = ordinal \/ ordinal' = [ordinal EXCEPT ![x] = next]
      BY DEF ToolStartWaited
    <3> HIDE DEF N, next
    <3>5. ordinal' \in [Execs -> N]
      BY <3>3, <3>4
    <3>6. QED
      BY <3>5 DEF N
  <2>3. QED
    BY <1>2, <2>1, <2>2 DEF TypeOK, ToolStartWaited
<1>4. Moves(x)
  BY <1>1, <1>2 DEF Moves, Moved, Waits, Admitted, TypeOK, CallInv, ToolStartWaited
<1>5. QED
  BY <1>3, <1>4, MovesInv

LEMMA SpawnInv ==
  ASSUME IInv, NEW x \in Execs, Spawn(x)
  PROVE  IInv'
<1> USE DEF IInv, store, service, authority, thread, activity, bounds
<1>1. PICK p \in {"tool_run"} : Go(x, p)
  BY DEF Spawn
<1>2. /\ pc' \in [Execs -> PCs] /\ pc'[x] = p
      /\ \A y \in Execs \ {x} : pc'[y] = pc[y]
  BY <1>1 DEF Go, TypeOK, PCs, Waits, Idle
<1>3. TypeOK'
  <2>1. live' \subseteq Calls
    BY DEF TypeOK, CallInv, ToolPoints, Spawn
  <2>2. QED
    BY <1>2, <2>1 DEF TypeOK, Spawn
<1>4. Moves(x)
  BY <1>1, <1>2 DEF Moves, Moved, Waits, Admitted, CallInv, Spawn
<1>5. QED
  BY <1>3, <1>4, MovesInv

LEMMA LastFinishWaitedInv ==
  ASSUME IInv, NEW x \in Execs, LastFinishWaited(x)
  PROVE  IInv'
<1> USE DEF IInv, store, service, authority, thread, activity, bounds
<1>1. PICK p \in {"controller"} : Go(x, p)
  BY DEF LastFinishWaited
<1>2. /\ pc' \in [Execs -> PCs] /\ pc'[x] = p
      /\ \A y \in Execs \ {x} : pc'[y] = pc[y]
  BY <1>1 DEF Go, TypeOK, PCs, Waits, Idle
<1>3. TypeOK'
  <2>1. open' \in [Execs -> BOOLEAN]
    BY DEF TypeOK, LastFinishWaited
  <2>2. QED
    BY <1>2, <2>1 DEF TypeOK, LastFinishWaited
<1>4. Moves(x)
  BY <1>1, <1>2 DEF Moves, Moved, Waits, Admitted, CallInv, LastFinishWaited
<1>5. QED
  BY <1>3, <1>4, MovesInv

LEMMA ControllerReturnsInv ==
  ASSUME IInv, NEW x \in Execs, NEW r \in Results, ControllerReturns(x, r)
  PROVE  IInv'
<1> USE DEF IInv, store, service, authority, thread, activity, bounds
<1>1. PICK p \in {"returned"} : Go(x, p)
  BY DEF ControllerReturns
<1>2. /\ pc' \in [Execs -> PCs] /\ pc'[x] = p
      /\ \A y \in Execs \ {x} : pc'[y] = pc[y]
  BY <1>1 DEF Go, TypeOK, PCs, Waits, Idle
<1>3. TypeOK'
  <2>1. result' \in [Execs -> Results \cup {"none"}]
    BY DEF TypeOK, ControllerReturns, Results
  <2>2. QED
    BY <1>2, <2>1 DEF TypeOK, ControllerReturns
<1>4. Moves(x)
  BY <1>1, <1>2 DEF Moves, Moved, Waits, Admitted, TypeOK, CallInv, ControllerReturns
<1>5. QED
  BY <1>3, <1>4, MovesInv

LEMMA ControllerRaisesInv ==
  ASSUME IInv, NEW x \in Execs, ControllerRaises(x)
  PROVE  IInv'
<1> USE DEF IInv, store, service, authority, thread, activity, bounds
<1>1. PICK p \in {"fault"} : Go(x, p)
  BY DEF ControllerRaises
<1>2. /\ pc' \in [Execs -> PCs] /\ pc'[x] = p
      /\ \A y \in Execs \ {x} : pc'[y] = pc[y]
  BY <1>1 DEF Go, TypeOK, PCs, Waits, Idle
<1>3. TypeOK'
  BY <1>2 DEF TypeOK, ControllerRaises
<1>4. Moves(x)
  BY <1>1, <1>2 DEF Moves, Moved, Waits, Admitted, CallInv, ControllerRaises
<1>5. QED
  BY <1>3, <1>4, MovesInv

LEMMA ResultCommittedInv ==
  ASSUME IInv, NEW x \in Execs, ResultCommitted(x)
  PROVE  IInv'
<1> USE DEF IInv, store, service, authority, thread, activity, bounds
<1>1. PICK p \in {"done", "failing"} : Go(x, p)
  BY DEF ResultCommitted
<1>2. /\ pc' \in [Execs -> PCs] /\ pc'[x] = p
      /\ \A y \in Execs \ {x} : pc'[y] = pc[y]
  BY <1>1 DEF Go, TypeOK, PCs, Waits, Idle
<1>3. TypeOK'
  <2>1. handle' \in [Execs -> {"none", "result", "fault", "cancelled", "duplicate",
                          "error", "write_failed"}]
    BY DEF TypeOK, ResultCommitted
  <2>2. registered' \subseteq Tasks
    BY DEF TypeOK, ResultCommitted, Release
  <2>3. QED
    BY <1>2, <2>1, <2>2 DEF TypeOK, ResultCommitted
<1>4. Moves(x)
  BY <1>1, <1>2 DEF Moves, Moved, Waits, Admitted, LockInv, CallInv, ResultCommitted
<1>5. QED
  BY <1>3, <1>4, MovesInv

LEMMA FaultCommittedInv ==
  ASSUME IInv, NEW x \in Execs, FaultCommitted(x)
  PROVE  IInv'
<1> USE DEF IInv, store, service, authority, thread, activity, bounds
<1>1. PICK p \in {"fault_release", "failing"} : Go(x, p)
  BY DEF FaultCommitted
<1>2. /\ pc' \in [Execs -> PCs] /\ pc'[x] = p
      /\ \A y \in Execs \ {x} : pc'[y] = pc[y]
  BY <1>1 DEF Go, TypeOK, PCs, Waits, Idle
<1>3. TypeOK'
  <2>1. handle' \in [Execs -> {"none", "result", "fault", "cancelled", "duplicate",
                          "error", "write_failed"}]
    BY DEF TypeOK, FaultCommitted
  <2>2. QED
    BY <1>2, <2>1 DEF TypeOK, FaultCommitted
<1>4. Moves(x)
  BY <1>1, <1>2 DEF Moves, Moved, Waits, Admitted, CallInv, FaultCommitted
<1>5. QED
  BY <1>3, <1>4, MovesInv

LEMMA FaultReleaseInv ==
  ASSUME IInv, NEW x \in Execs, FaultRelease(x)
  PROVE  IInv'
<1> USE DEF IInv, store, service, authority, thread, activity, bounds
<1>1. PICK p \in {"stale", "done"} : Go(x, p)
  BY DEF FaultRelease
<1>2. /\ pc' \in [Execs -> PCs] /\ pc'[x] = p
      /\ \A y \in Execs \ {x} : pc'[y] = pc[y]
  BY <1>1 DEF Go, TypeOK, PCs, Waits, Idle
<1>3. TypeOK'
  <2>1. registered' \subseteq Tasks
    BY DEF TypeOK, FaultRelease, Release
  <2>2. QED
    BY <1>2, <2>1 DEF TypeOK, FaultRelease
<1>4. Moves(x)
  BY <1>1, <1>2 DEF Moves, Moved, Waits, Admitted, CallInv, FaultRelease
<1>5. QED
  BY <1>3, <1>4, MovesInv

LEMMA StaleCommittedInv ==
  ASSUME IInv, NEW x \in Execs, StaleCommitted(x)
  PROVE  IInv'
<1> USE DEF IInv, store, service, authority, thread, activity, bounds
<1>1. PICK p \in {"stale_release"} : Go(x, p)
  BY DEF StaleCommitted
<1>2. /\ pc' \in [Execs -> PCs] /\ pc'[x] = p
      /\ \A y \in Execs \ {x} : pc'[y] = pc[y]
  BY <1>1 DEF Go, TypeOK, PCs, Waits, Idle
<1>3. TypeOK'
  <2>1. handle' \in [Execs -> {"none", "result", "fault", "cancelled", "duplicate",
                          "error", "write_failed"}]
    BY DEF TypeOK, StaleCommitted
  <2>2. QED
    BY <1>2, <2>1 DEF TypeOK, StaleCommitted
<1>4. Moves(x)
  BY <1>1, <1>2 DEF Moves, Moved, Waits, Admitted, CallInv, StaleCommitted
<1>5. QED
  BY <1>3, <1>4, MovesInv

LEMMA StaleReleaseInv ==
  ASSUME IInv, NEW x \in Execs, StaleRelease(x)
  PROVE  IInv'
<1> USE DEF IInv, store, service, authority, thread, activity, bounds
<1>1. PICK p \in {"done"} : Go(x, p)
  BY DEF StaleRelease
<1>2. /\ pc' \in [Execs -> PCs] /\ pc'[x] = p
      /\ \A y \in Execs \ {x} : pc'[y] = pc[y]
  BY <1>1 DEF Go, TypeOK, PCs, Waits, Idle
<1>3. TypeOK'
  <2>1. registered' \subseteq Tasks
    BY DEF TypeOK, StaleRelease, Release
  <2>2. QED
    BY <1>2, <2>1 DEF TypeOK, StaleRelease
<1>4. Moves(x)
  BY <1>1, <1>2 DEF Moves, Moved, Waits, Admitted, CallInv, StaleRelease
<1>5. QED
  BY <1>3, <1>4, MovesInv

LEMMA FailReleaseInv ==
  ASSUME IInv, NEW x \in Execs, FailRelease(x)
  PROVE  IInv'
<1> USE DEF IInv, store, service, authority, thread, activity, bounds
<1>1. PICK p \in {"done"} : Go(x, p)
  BY DEF FailRelease
<1>2. /\ pc' \in [Execs -> PCs] /\ pc'[x] = p
      /\ \A y \in Execs \ {x} : pc'[y] = pc[y]
  BY <1>1 DEF Go, TypeOK, PCs, Waits, Idle
<1>3. TypeOK'
  <2>1. registered' \subseteq Tasks
    BY DEF TypeOK, FailRelease, Release
  <2>2. QED
    BY <1>2, <2>1 DEF TypeOK, FailRelease
<1>4. Moves(x)
  BY <1>1, <1>2 DEF Moves, Moved, Waits, Admitted, CallInv, FailRelease
<1>5. QED
  BY <1>3, <1>4, MovesInv

-----------------------------------------------------------------------------
(* Steps that queue a command.                                             *)

\* What a step that queues a command for a must respect for the queue to stay
\* in order: a was waiting for nothing, and will wait for this.
Queues(a, t, ev) ==
  /\ Put(a, t, ev)
  /\ \A y \in Execs \ {a} : pc'[y] = pc[y] /\ call'[y] = call[y]
  /\ receipt[a] # "pending" \/ (a \in Execs /\ pc[a] \notin Waits \cup {"register"})
  /\ (a \in Execs /\ Len(queue) < QueueLimit) =>
       /\ t = TaskOf[a]
       /\ pc'[a] \in Waits \cup {"register"}
       /\ ev.kind = KindAt(pc'[a])
       /\ pc'[a] = "tool_start" => ev.call = call'[a]
  /\ ev.kind = "admitted" => a \in Execs /\ t = TaskOf[a]
  /\ ev.kind = "closed" => ev.status \in Terminal

LEMMA QueuesInv ==
  ASSUME TypeOK, QueueInv, SingleInv,
         NEW a \in Callers, NEW t \in Tasks, NEW ev \in Events, Queues(a, t, ev)
  PROVE  QueueInv' /\ SingleInv'
<1> DEFINE new == [task |-> t, ev |-> ev, by |-> a, waited |-> TRUE]
<1> USE DEF Callers
<1>1. /\ queue \in Seq(Commands) /\ Len(queue) <= QueueLimit
      /\ DOMAIN receipt = Callers /\ QueueLimit \in Nat
  BY ConstantsAssumption DEF TypeOK
<1>2. Put(a, t, ev)
  BY DEF Queues
<1>3. /\ receipt' = [receipt EXCEPT ![a] = receipt'[a]]
      /\ \/ queue' = queue /\ receipt'[a] = "error"
         \/ /\ receipt'[a] = "pending"
            /\ Len(queue') = Len(queue) + 1
            /\ queue'[Len(queue) + 1] = new
            /\ \A i \in 1 .. Len(queue) : queue'[i] = queue[i]
  BY <1>1, <1>2, PutFacts
<1>4. Len(queue) \in Nat
  BY <1>1, LenProperties
<1>5. ASSUME NEW i \in 1 .. Len(queue)
      PROVE  /\ queue[i] \in Commands
             /\ queue[i].waited => queue[i].by # a
             /\ CommandOK(queue[i])
  <2>1. queue[i] \in Commands /\ CommandOK(queue[i])
    BY <1>1, ElementOfSeq DEF QueueInv
  <2>2. QED
    BY <2>1 DEF CommandOK, Awaited, Queues
<1>6. ASSUME NEW c \in Commands, CommandOK(c), c.waited => c.by # a
      PROVE  CommandOK(c)'
  <2>1. c.waited => Awaited(c)'
    <3> SUFFICES ASSUME c.waited PROVE Awaited(c)'
      OBVIOUS
    <3>1. Awaited(c) /\ c.by # a /\ c.by \in Callers
      BY <1>6 DEF CommandOK, Commands
    <3>2. receipt'[c.by] = receipt[c.by]
      BY <1>1, <1>3, <3>1
    <3>3. c.by \in Execs => pc'[c.by] = pc[c.by] /\ call'[c.by] = call[c.by]
      BY <3>1 DEF Queues
    <3>4. QED
      BY <3>1, <3>2, <3>3 DEF Awaited
  <2>2. QED
    BY <1>6, <2>1 DEF CommandOK
<1>7. CASE queue' = queue
  <2>1. QueueInv'
    BY <1>5, <1>6, <1>7 DEF QueueInv
  <2>2. SingleInv'
    BY <1>7 DEF SingleInv
  <2>3. QED
    BY <2>1, <2>2
<1>8. CASE /\ receipt'[a] = "pending"
           /\ Len(queue') = Len(queue) + 1
           /\ queue'[Len(queue) + 1] = new
           /\ \A i \in 1 .. Len(queue) : queue'[i] = queue[i]
  <2>1. Len(queue) < QueueLimit
    BY <1>1, <1>2, <1>8 DEF Put
  <2>2. CommandOK(new)'
    BY <2>1, <1>8 DEF CommandOK, Awaited, Queues
  <2>3. QueueInv'
    <3> SUFFICES ASSUME NEW i \in 1 .. Len(queue) + 1
                 PROVE  CommandOK(queue[i])'
      BY <1>8 DEF QueueInv
    <3>1. CASE i = Len(queue) + 1
      BY <3>1, <2>2, <1>8 DEF CommandOK, Awaited
    <3>2. CASE i \in 1 .. Len(queue)
      <4>1. queue'[i] = queue[i] /\ queue[i] \in Commands
        BY <3>2, <1>5, <1>8
      <4>2. \A c \in Commands : CommandOK(c) /\ (c.waited => c.by # a) => CommandOK(c)'
        BY <1>6
      <4>3. QED
        BY <3>2, <1>5, <4>1, <4>2 DEF CommandOK, Awaited
    <3>3. QED
      BY <3>1, <3>2, <1>4
  <2>4. SingleInv'
    BY <1>4, <1>5, <1>8 DEF SingleInv
  <2>5. QED
    BY <2>3, <2>4
<1>9. QED
  BY <1>3, <1>7, <1>8

\* The fields of the events that are queued.
LEMMA EventFields ==
  /\ \A kind : Event(kind).kind = kind
  /\ \A c : StartedEvent(c).kind = "started" /\ StartedEvent(c).call = c
  /\ \A c, e : FinishedEvent(c, e).kind = "finished"
  /\ \A s, q, r : ClosedEvent(s, q, r).kind = "closed" /\ ClosedEvent(s, q, r).status = s
BY DEF Event, StartedEvent, FinishedEvent, ClosedEvent

\* Submit preserves the invariant.
LEMMA SubmitInv ==
  ASSUME IInv, NEW x \in Execs, Submit(x)
  PROVE  IInv'
<1> USE ConstantsAssumption
    DEF IInv, Callers, store, service, authority, thread, activity, bounds
<1> DEFINE ev == Event("admitted")
<1>1. ev \in Events /\ TaskOf[x] \in Tasks
  BY EventTypes DEF Kinds
<1>2. Queues(x, TaskOf[x], ev)
  <2>1. Put(x, TaskOf[x], ev)
    BY DEF Submit
  <2>2. \A y \in Execs \ {x} : pc'[y] = pc[y] /\ call'[y] = call[y]
    BY DEF TypeOK, Go, Submit
  <2>3. receipt[x] # "pending" \/ pc[x] \notin Waits \cup {"register"}
    BY DEF Waits, Submit
  <2>4. ev.kind = "admitted"
    BY EventFields DEF Terminal
  <2>5. Len(queue) < QueueLimit => pc'[x] = "register"
    BY DEF TypeOK, Go, Submit
  <2> HIDE DEF ev
  <2>6. QED
    BY <2>1, <2>2, <2>3, <2>4, <2>5 DEF Queues, KindAt, Waits
<1> HIDE DEF ev
<1>3. QueueInv' /\ SingleInv'
  BY <1>1, <1>2, QueuesInv
<1>4. /\ queue' \in Seq(Commands) /\ Len(queue') <= QueueLimit
      /\ receipt'[x] \in {"pending", "error"}
      /\ receipt' = [receipt EXCEPT ![x] = receipt'[x]]
  BY <1>1, <1>2, PutFacts DEF TypeOK, Queues
<1>5. TypeOK'
  <2>1. receipt' \in [Callers -> {"none", "pending", "ok", "duplicate", "error"}]
    BY <1>4 DEF TypeOK
  <2>2. pc' \in [Execs -> PCs]
    <3>1. \E p \in PCs : Go(x, p)
      BY DEF PCs, Waits, Idle, Submit
    <3>2. QED
      BY <3>1 DEF Go, TypeOK
  <2>3. handle' \in [Execs -> {"none", "result", "fault", "cancelled", "duplicate", "error", "write_failed"}]
    BY DEF TypeOK, Submit
  <2>4. QED
    BY <1>4, <2>1, <2>2, <2>3 DEF TypeOK, Go, Submit
<1>6. CallInv'
  <2>1. /\ pc'[x] \in {"register", "done"}
        /\ \A y \in Execs \ {x} : pc'[y] = pc[y]
    BY DEF TypeOK, Go, Submit
  <2>2. UNCHANGED <<call, ordinal, attempts, result>>
    BY DEF Submit
  <2>3. QED
    BY <2>1, <2>2 DEF CallInv, ToolPoints
<1>7. CreatorInv'
  <2>1. pc'[x] \in {"register", "done"} /\ receipt'[x] # "ok"
    BY <1>4 DEF TypeOK, Go, Submit
  <2>2. \A y \in Execs \ {x} : pc'[y] = pc[y] /\ receipt'[y] = receipt[y]
    BY <1>4 DEF TypeOK, Go, Submit
  <2>3. pc[x] = "new" /\ entered' = entered /\ state' = state /\ digest' = digest
    BY DEF Submit, store
  <2>4. QED
    BY <2>1, <2>2, <2>3 DEF CreatorInv, Admitted
<1>8. RecordInv'
  <2>1. Recorded' = Recorded
    BY DEF Recorded, Go, Submit
  <2>2. QED
    BY <1>4, <2>1 DEF TypeOK, RecordInv, Go, Submit
<1>9. LockInv'
  BY <1>4 DEF TypeOK, LockInv, Go, Submit
<1>10. QED
  BY <1>3, <1>5, <1>6, <1>7, <1>8, <1>9

\* StartTool preserves the invariant.
LEMMA StartToolInv ==
  ASSUME IInv, NEW x \in Execs, NEW k \in Tools, StartTool(x, k)
  PROVE  IInv'
<1> USE ConstantsAssumption
    DEF IInv, Callers, store, service, authority, thread, activity, bounds
<1> DEFINE ev == StartedEvent(<<TaskOf[x], ordinal[x], k>>)
<1>1. ev \in Events /\ TaskOf[x] \in Tasks
  <2>1. <<TaskOf[x], ordinal[x], k>> \in Calls
    BY DEF TypeOK, Calls
  <2>2. QED
    BY <2>1, EventTypes
<1>2. Queues(x, TaskOf[x], ev)
  <2>1. Put(x, TaskOf[x], ev)
    BY DEF StartTool
  <2>2. \A y \in Execs \ {x} : pc'[y] = pc[y] /\ call'[y] = call[y]
    BY DEF TypeOK, Go, StartTool
  <2>3. receipt[x] # "pending" \/ pc[x] \notin Waits \cup {"register"}
    BY DEF Waits, StartTool
  <2>4. ev.kind = "started" /\ ev.call = <<TaskOf[x], ordinal[x], k>>
    BY EventFields DEF Terminal
  <2>5. pc'[x] = "tool_start" /\ call'[x] = <<TaskOf[x], ordinal[x], k>>
    BY DEF TypeOK, Go, StartTool
  <2> HIDE DEF ev
  <2>6. QED
    BY <2>1, <2>2, <2>3, <2>4, <2>5 DEF Queues, KindAt, Waits
<1> HIDE DEF ev
<1>3. QueueInv' /\ SingleInv'
  BY <1>1, <1>2, QueuesInv
<1>4. /\ queue' \in Seq(Commands) /\ Len(queue') <= QueueLimit
      /\ receipt'[x] \in {"pending", "error"}
      /\ receipt' = [receipt EXCEPT ![x] = receipt'[x]]
  BY <1>1, <1>2, PutFacts DEF TypeOK, Queues
<1>5. TypeOK'
  <2>1. receipt' \in [Callers -> {"none", "pending", "ok", "duplicate", "error"}]
    BY <1>4 DEF TypeOK
  <2>2. pc' \in [Execs -> PCs]
    <3>1. \E p \in PCs : Go(x, p)
      BY DEF PCs, Waits, Idle, StartTool
    <3>2. QED
      BY <3>1 DEF Go, TypeOK
  <2>3. call' \in [Execs -> Calls \cup {None}]
    BY DEF TypeOK, Calls, StartTool
  <2>4. attempts' \in [Execs -> 0 .. MaxCalls]
    BY DEF TypeOK, StartTool
  <2>5. QED
    BY <1>4, <2>1, <2>2, <2>3, <2>4 DEF TypeOK, Go, StartTool
<1>6. CallInv'
  <2>1. \A y \in Execs \ {x} :
          pc'[y] = pc[y] /\ call'[y] = call[y] /\ attempts'[y] = attempts[y]
    BY DEF TypeOK, Go, StartTool
  <2>2. ordinal' = ordinal /\ result' = result
    BY DEF StartTool
  <2>3. pc'[x] = "tool_start" /\ call'[x] = <<TaskOf[x], ordinal[x], k>>
    BY DEF TypeOK, Go, StartTool
  <2>4. <<TaskOf[x], ordinal[x], k>> \in Calls
    BY DEF TypeOK, Calls
  <2>5. attempts'[x] = attempts[x] + 1 /\ attempts[x] \in Nat /\ ordinal[x] \in Nat
    BY DEF TypeOK, StartTool
  <2>6. ordinal[x] <= attempts[x]
    BY DEF CallInv
  <2>7. ASSUME NEW y \in Execs
        PROVE  /\ ordinal'[y] <= attempts'[y]
               /\ pc'[y] = "tool_start" => ordinal'[y] < attempts'[y]
               /\ pc'[y] \in ToolPoints => call'[y] \in Calls /\ call'[y][1] = TaskOf[y]
               /\ pc'[y] \in {"returned", "commit"} => result'[y] \in Results
    <3>1. CASE y = x
      BY <2>2, <2>3, <2>4, <2>5, <2>6, <3>1
    <3>2. CASE y # x
      BY <2>1, <2>2, <3>2 DEF CallInv
    <3>3. QED
      BY <3>1, <3>2
  <2>8. QED
    BY <2>7 DEF CallInv
<1>7. CreatorInv'
  BY <1>4 DEF TypeOK, CreatorInv, Admitted, Go, StartTool
<1>8. RecordInv'
  <2>1. Recorded' = Recorded
    BY DEF Recorded, Go, StartTool
  <2>2. QED
    BY <1>4, <2>1 DEF TypeOK, RecordInv, Go, StartTool
<1>9. LockInv'
  BY <1>4 DEF TypeOK, LockInv, Go, StartTool
<1>10. QED
  BY <1>3, <1>5, <1>6, <1>7, <1>8, <1>9

\* RequestCancel preserves the invariant.
LEMMA RequestCancelInv ==
  ASSUME IInv, NEW t \in Tasks, RequestCancel(t)
  PROVE  IInv'
<1> USE ConstantsAssumption
    DEF IInv, Callers, store, service, authority, thread, activity, bounds
<1> DEFINE ev == Event("cancel_requested")
<1>1. ev \in Events /\ t \in Tasks
  BY EventTypes DEF Kinds
<1>2. Queues(Stopper, t, ev)
  <2>1. Put(Stopper, t, ev)
    BY DEF RequestCancel
  <2>2. \A y \in Execs \ {Stopper} : pc'[y] = pc[y] /\ call'[y] = call[y]
    BY DEF TypeOK, RequestCancel
  <2>3. receipt[Stopper] # "pending"
    BY DEF LockInv, RequestCancel
  <2>4. ev.kind = "cancel_requested"
    BY EventFields DEF Terminal
  <2> HIDE DEF ev
  <2>6. QED
    BY <2>1, <2>2, <2>3, <2>4 DEF Queues
<1> HIDE DEF ev
<1>3. QueueInv' /\ SingleInv'
  BY <1>1, <1>2, QueuesInv
<1>4. /\ queue' \in Seq(Commands) /\ Len(queue') <= QueueLimit
      /\ receipt'[Stopper] \in {"pending", "error"}
      /\ receipt' = [receipt EXCEPT ![Stopper] = receipt'[Stopper]]
  BY <1>1, <1>2, PutFacts DEF TypeOK, Queues
<1>5. TypeOK'
  <2>1. receipt' \in [Callers -> {"none", "pending", "ok", "duplicate", "error"}]
    BY <1>4 DEF TypeOK
  <2>2. fence' \in [Tasks -> {Epoch, Epoch + 1}]
    BY DEF TypeOK, RequestCancel
  <2>3. QED
    BY <1>4, <2>1, <2>2 DEF TypeOK, RequestCancel
<1>6. CallInv'
  BY DEF TypeOK, CallInv, ToolPoints, RequestCancel
<1>7. CreatorInv'
  BY <1>4 DEF TypeOK, CreatorInv, Admitted, RequestCancel
<1>8. RecordInv'
  <2>1. Recorded' = Recorded
    BY DEF Recorded, RequestCancel
  <2>2. QED
    BY <1>4, <2>1 DEF TypeOK, RecordInv, RequestCancel
<1>9. LockInv'
  BY <1>4 DEF TypeOK, LockInv, RequestCancel
<1>10. QED
  BY <1>3, <1>5, <1>6, <1>7, <1>8, <1>9

\* RecoverTask preserves the invariant.
LEMMA RecoverTaskInv ==
  ASSUME IInv, NEW t \in Tasks, RecoverTask(t)
  PROVE  IInv'
<1> USE ConstantsAssumption
    DEF IInv, Callers, store, service, authority, thread, activity, bounds
<1> DEFINE ev == ClosedEvent("unknown", "unknown", "controller_restarted")
<1>1. ev \in Events /\ t \in Tasks
  BY EventTypes DEF Terminal, Cleanups, Reasons
<1>2. Queues(Recovery, t, ev)
  <2>1. Put(Recovery, t, ev)
    BY DEF RecoverTask
  <2>2. \A y \in Execs \ {Recovery} : pc'[y] = pc[y] /\ call'[y] = call[y]
    BY DEF TypeOK, RecoverTask
  <2>3. receipt[Recovery] # "pending"
    BY DEF RecoverTask
  <2>4. ev.kind = "closed" /\ ev.status \in Terminal
    BY EventFields DEF Terminal
  <2> HIDE DEF ev
  <2>6. QED
    BY <2>1, <2>2, <2>3, <2>4 DEF Queues
<1> HIDE DEF ev
<1>3. QueueInv' /\ SingleInv'
  BY <1>1, <1>2, QueuesInv
<1>4. /\ queue' \in Seq(Commands) /\ Len(queue') <= QueueLimit
      /\ receipt'[Recovery] \in {"pending", "error"}
      /\ receipt' = [receipt EXCEPT ![Recovery] = receipt'[Recovery]]
  BY <1>1, <1>2, PutFacts DEF TypeOK, Queues
<1>5. TypeOK'
  <2>1. receipt' \in [Callers -> {"none", "pending", "ok", "duplicate", "error"}]
    BY <1>4 DEF TypeOK
  <2>2. todo' \subseteq Tasks
    BY DEF TypeOK, RecoverTask
  <2>3. QED
    BY <1>4, <2>1, <2>2 DEF TypeOK, RecoverTask
<1>6. CallInv'
  BY DEF TypeOK, CallInv, ToolPoints, RecoverTask
<1>7. CreatorInv'
  BY <1>4 DEF TypeOK, CreatorInv, Admitted, RecoverTask
<1>8. RecordInv'
  <2>1. Recorded' = Recorded
    BY DEF Recorded, RecoverTask
  <2>2. QED
    BY <1>4, <2>1 DEF TypeOK, RecordInv, RecoverTask
<1>9. LockInv'
  BY <1>4 DEF TypeOK, LockInv, RecoverTask
<1>10. QED
  BY <1>3, <1>5, <1>6, <1>7, <1>8, <1>9

\* Queueing a terminal event preserves the invariant.
LEMMA FinalizeResultInv ==
  ASSUME IInv, NEW x \in Execs, NEW status \in Terminal, NEW reason \in Reasons,
         NEW handler \in {"result", "open_call", "fault", "stale"},
         pc[x] \in {"commit", "fault", "stale"}, handle' = handle,
         IF handler \in {"result", "open_call"} THEN lock = None /\ lock' = x ELSE lock' = lock,
         FinalizeResult(x, status, reason, handler)
  PROVE  IInv'
<1> USE ConstantsAssumption
    DEF IInv, Callers, store, service, authority, thread, activity, bounds
<1> DEFINE ev == LET cleanup == Cleanup(TaskOf[x])
                    trusted == status # "completed" \/ cleanup \in {"not_needed", "confirmed"}
                IN  ClosedEvent(IF trusted THEN status ELSE "unknown", cleanup,
                                IF trusted THEN reason ELSE "cleanup_unknown")
<1>1. ev \in Events /\ TaskOf[x] \in Tasks
  BY EventTypes, CleanupType DEF Terminal, Reasons
<1>2. Queues(x, TaskOf[x], ev)
  <2>1. Put(x, TaskOf[x], ev)
    BY DEF FinalizeResult
  <2>2. \A y \in Execs \ {x} : pc'[y] = pc[y] /\ call'[y] = call[y]
    BY DEF TypeOK, Go, FinalizeResult
  <2>3. receipt[x] # "pending" \/ pc[x] \notin Waits \cup {"register"}
    BY DEF Waits
  <2>4. ev.kind = "closed" /\ ev.status \in Terminal
    BY EventFields DEF Terminal
  <2>5. pc'[x] = "final"
    BY DEF TypeOK, Go, FinalizeResult
  <2> HIDE DEF ev
  <2>6. QED
    BY <2>1, <2>2, <2>3, <2>4, <2>5 DEF Queues, KindAt, Waits
<1> HIDE DEF ev
<1>3. QueueInv' /\ SingleInv'
  BY <1>1, <1>2, QueuesInv
<1>4. /\ queue' \in Seq(Commands) /\ Len(queue') <= QueueLimit
      /\ receipt'[x] \in {"pending", "error"}
      /\ receipt' = [receipt EXCEPT ![x] = receipt'[x]]
  BY <1>1, <1>2, PutFacts DEF TypeOK, Queues
<1>5. TypeOK'
  <2>1. receipt' \in [Callers -> {"none", "pending", "ok", "duplicate", "error"}]
    BY <1>4 DEF TypeOK
  <2>2. pc' \in [Execs -> PCs]
    <3>1. \E p \in PCs : Go(x, p)
      BY DEF PCs, Waits, Idle, FinalizeResult
    <3>2. QED
      BY <3>1 DEF Go, TypeOK
  <2>3. via' \in [Execs -> {"none", "result", "open_call", "fault", "stale"}]
    BY DEF TypeOK, FinalizeResult
  <2>4. lock' \in Execs \cup {Stopper, None}
    BY DEF TypeOK
  <2>5. QED
    BY <1>4, <2>1, <2>2, <2>3, <2>4 DEF TypeOK, Go, FinalizeResult
<1>6. CallInv'
  BY DEF TypeOK, CallInv, ToolPoints, Go, FinalizeResult
<1>7. CreatorInv'
  BY <1>4 DEF TypeOK, CreatorInv, Admitted, Go, FinalizeResult
<1>8. RecordInv'
  <2>1. Recorded' = Recorded
    BY DEF Recorded, Go, FinalizeResult
  <2>2. QED
    BY <1>4, <2>1 DEF TypeOK, RecordInv, Go, FinalizeResult
<1>9. LockInv'
  <2>1. \A y \in Execs \ {x} : pc'[y] = pc[y] /\ via'[y] = via[y]
    BY DEF TypeOK, Go, FinalizeResult
  <2>2. pc'[x] = "final" /\ via'[x] = handler
    BY DEF TypeOK, Go, FinalizeResult
  <2>3. receipt'[Stopper] = receipt[Stopper]
    BY <1>4 DEF TypeOK
  <2>4. QED
    BY <2>1, <2>2, <2>3 DEF LockInv
<1>10. QED
  BY <1>3, <1>5, <1>6, <1>7, <1>8, <1>9

\* Start with authority preserves the invariant.
LEMMA StartGranted ==
  ASSUME IInv, NEW x \in Execs, pc[x] = "start", lock = None, lock' = x,
         Put(x, TaskOf[x], Event("running")), Go(x, "start_wait"),
         UNCHANGED <<handle, store, phase, todo, registered, fence, owns, result,
                     via, activity, live, entered, bounds>>
  PROVE  IInv'
<1> USE ConstantsAssumption
    DEF IInv, Callers, store, service, authority, thread, activity, bounds
<1> DEFINE ev == Event("running")
<1>1. ev \in Events /\ TaskOf[x] \in Tasks
  BY EventTypes DEF Kinds
<1>2. Queues(x, TaskOf[x], ev)
  <2>1. Put(x, TaskOf[x], ev)
    OBVIOUS
  <2>2. \A y \in Execs \ {x} : pc'[y] = pc[y] /\ call'[y] = call[y]
    BY DEF TypeOK, Go, store
  <2>3. receipt[x] # "pending" \/ pc[x] \notin Waits \cup {"register"}
    BY DEF Waits
  <2>4. ev.kind = "running"
    BY EventFields DEF Terminal
  <2>5. pc'[x] = "start_wait"
    BY DEF TypeOK, Go
  <2> HIDE DEF ev
  <2>6. QED
    BY <2>1, <2>2, <2>3, <2>4, <2>5 DEF Queues, KindAt, Waits
<1> HIDE DEF ev
<1>3. QueueInv' /\ SingleInv'
  BY <1>1, <1>2, QueuesInv
<1>4. /\ queue' \in Seq(Commands) /\ Len(queue') <= QueueLimit
      /\ receipt'[x] \in {"pending", "error"}
      /\ receipt' = [receipt EXCEPT ![x] = receipt'[x]]
  BY <1>1, <1>2, PutFacts DEF TypeOK, Queues
<1>5. TypeOK'
  <2>1. receipt' \in [Callers -> {"none", "pending", "ok", "duplicate", "error"}]
    BY <1>4 DEF TypeOK
  <2>2. pc' \in [Execs -> PCs]
    <3>1. \E p \in PCs : Go(x, p)
      BY DEF PCs, Waits, Idle
    <3>2. QED
      BY <3>1 DEF Go, TypeOK
  <2>3. lock' \in Execs \cup {Stopper, None}
    BY DEF TypeOK
  <2>4. QED
    BY <1>4, <2>1, <2>2, <2>3 DEF TypeOK, Go, store
<1>6. CallInv'
  BY DEF TypeOK, CallInv, ToolPoints, Go, store
<1>7. CreatorInv'
  BY <1>4 DEF TypeOK, CreatorInv, Admitted, Go, store
<1>8. RecordInv'
  <2>1. Recorded' = Recorded
    BY DEF Recorded, Go, store
  <2>2. QED
    BY <1>4, <2>1 DEF TypeOK, RecordInv, Go, store
<1>9. LockInv'
  <2>1. \A y \in Execs \ {x} : pc'[y] = pc[y] /\ via'[y] = via[y]
    BY DEF TypeOK, Go
  <2>2. pc'[x] = "start_wait" /\ receipt'[Stopper] = receipt[Stopper]
    BY <1>4 DEF TypeOK, Go
  <2>3. QED
    BY <2>1, <2>2 DEF LockInv
<1>10. QED
  BY <1>3, <1>5, <1>6, <1>7, <1>8, <1>9

\* Queueing the end of a tool call preserves the invariant.
LEMMA FinishInv ==
  ASSUME IInv, NEW x \in Execs, NEW end \in Ends, NEW p \in {"tool_finish", "tool_last"},
         \/ pc[x] \in {"tool", "tool_run"}
         \/ pc[x] = "tool_finish" /\ receipt[x] = "error",
         live' \subseteq live, Finish(x, end, p)
  PROVE  IInv'
<1> USE ConstantsAssumption
    DEF IInv, Callers, store, service, authority, thread, activity, bounds
<1> DEFINE ev == FinishedEvent(call[x], end)
<1>1. ev \in Events /\ TaskOf[x] \in Tasks
  <2>1. call[x] \in Calls
    BY DEF CallInv, ToolPoints
  <2>2. QED
    BY <2>1, EventTypes
<1>2. Queues(x, TaskOf[x], ev)
  <2>1. Put(x, TaskOf[x], ev)
    BY DEF Finish
  <2>2. \A y \in Execs \ {x} : pc'[y] = pc[y] /\ call'[y] = call[y]
    BY DEF TypeOK, Go, Finish
  <2>3. receipt[x] # "pending" \/ pc[x] \notin Waits \cup {"register"}
    BY DEF Waits
  <2>4. ev.kind = "finished"
    BY EventFields DEF Terminal
  <2>5. pc'[x] = p
    BY DEF TypeOK, Go, Finish
  <2> HIDE DEF ev
  <2>6. QED
    BY <2>1, <2>2, <2>3, <2>4, <2>5 DEF Queues, KindAt, Waits
<1> HIDE DEF ev
<1>3. QueueInv' /\ SingleInv'
  BY <1>1, <1>2, QueuesInv
<1>4. /\ queue' \in Seq(Commands) /\ Len(queue') <= QueueLimit
      /\ receipt'[x] \in {"pending", "error"}
      /\ receipt' = [receipt EXCEPT ![x] = receipt'[x]]
  BY <1>1, <1>2, PutFacts DEF TypeOK, Queues
<1>5. TypeOK'
  <2>1. receipt' \in [Callers -> {"none", "pending", "ok", "duplicate", "error"}]
    BY <1>4 DEF TypeOK
  <2>2. pc' \in [Execs -> PCs]
    <3>1. \E label \in PCs : Go(x, label)
      BY DEF PCs, Waits, Idle, Finish
    <3>2. QED
      BY <3>1 DEF Go, TypeOK
  <2>3. live' \subseteq Calls
    BY DEF TypeOK
  <2>4. QED
    BY <1>4, <2>1, <2>2, <2>3 DEF TypeOK, Go, Finish
<1>6. CallInv'
  BY DEF TypeOK, CallInv, ToolPoints, Go, Finish
<1>7. CreatorInv'
  BY <1>4 DEF TypeOK, CreatorInv, Admitted, Go, Finish
<1>8. RecordInv'
  <2>1. Recorded' = Recorded
    BY DEF Recorded, Go, Finish
  <2>2. QED
    BY <1>4, <2>1 DEF TypeOK, RecordInv, Go, Finish
<1>9. LockInv'
  BY <1>4 DEF TypeOK, LockInv, Go, Finish
<1>10. QED
  BY <1>3, <1>5, <1>6, <1>7, <1>8, <1>9

\* A thread that is refused preserves the invariant.
LEMMA RefusedInv ==
  ASSUME IInv, NEW x \in Execs, pc[x] \in {"start", "returned", "commit"}, Refused(x),
         UNCHANGED <<store, service, authority, owns, result, via, activity, live,
                     entered, bounds>>
  PROVE  IInv'
<1> USE DEF IInv, store, service, authority, activity, bounds
<1>1. PICK p \in {"stale", "failing"} : Go(x, p)
  BY DEF Refused
<1>2. /\ pc' \in [Execs -> PCs] /\ pc'[x] = p
      /\ \A y \in Execs \ {x} : pc'[y] = pc[y]
  BY <1>1 DEF Go, TypeOK, PCs, Waits, Idle
<1>3. TypeOK'
  <2>1. handle' \in [Execs -> {"none", "result", "fault", "cancelled", "duplicate", "error", "write_failed"}]
    BY DEF TypeOK, Refused
  <2>2. QED
    BY <1>2, <2>1 DEF TypeOK
<1>4. Moves(x)
  BY <1>2 DEF Moves, Moved, Waits, Admitted, CallInv
<1>5. QED
  BY <1>3, <1>4, MovesInv

\* Start preserves the invariant.
LEMMA StartInv ==
  ASSUME IInv, NEW x \in Execs, Start(x)
  PROVE  IInv'
<1>1. CASE Refused(x) /\ UNCHANGED <<queue, receipt, lock>>
  BY <1>1, RefusedInv DEF Start, service, authority
<1>2. CASE ~(Refused(x) /\ UNCHANGED <<queue, receipt, lock>>)
  BY <1>2, StartGranted DEF Start
<1>3. QED
  BY <1>1, <1>2

\* Commit preserves the invariant.
LEMMA CommitInv ==
  ASSUME IInv, NEW x \in Execs, Commit(x)
  PROVE  IInv'
<1>1. pc[x] = "commit" /\ lock = None /\ result[x] \in Results
  BY DEF Commit, IInv, CallInv
<1>2. CASE /\ Refused(x)
           /\ UNCHANGED <<store, service, authority, owns, result, via, activity,
                          live, entered, bounds>>
  BY <1>1, <1>2, RefusedInv
<1>3. CASE lock' = x /\ handle' = handle /\ FinalizeResult(x, "unknown", "controller_fault", "open_call")
  BY <1>1, <1>3, FinalizeResultInv DEF Terminal, Reasons
<1>4. CASE lock' = x /\ handle' = handle /\ FinalizeResult(x, result[x], "worker", "result")
  BY <1>1, <1>4, FinalizeResultInv DEF Terminal, Reasons
<1>5. QED
  BY <1>2, <1>3, <1>4 DEF Commit

\* The handlers of a controller fault and of a stale execution preserve it.
LEMMA FaultAndStaleInv ==
  ASSUME IInv, NEW x \in Execs,
         FinalizeControllerFault(x) \/ FinalizeCancelUnreconciled(x)
  PROVE  IInv'
<1>1. CASE FinalizeControllerFault(x)
  BY <1>1, FinalizeResultInv DEF FinalizeControllerFault, Terminal, Reasons
<1>2. CASE FinalizeCancelUnreconciled(x)
  BY <1>2, FinalizeResultInv DEF FinalizeCancelUnreconciled, Terminal, Reasons
<1>3. QED
  BY <1>1, <1>2

\* The ends of a tool call preserve it.
LEMMA ToolEndsInv ==
  ASSUME IInv, NEW x \in Execs,
         \/ HandlerWithoutProcess(x)
         \/ \E end \in {"ok", "timeout", "broke"} : CommandReturns(x, end)
         \/ \E end \in {"stopped", "unsettled", "broke"} : CommandRaises(x, end)
  PROVE  IInv'
<1>1. CASE HandlerWithoutProcess(x)
  BY <1>1, FinishInv DEF HandlerWithoutProcess, Ends
<1>2. ASSUME NEW end \in {"ok", "timeout", "broke"}, CommandReturns(x, end)
      PROVE  IInv'
  BY <1>2, FinishInv DEF CommandReturns, Ends
<1>3. ASSUME NEW end \in {"stopped", "unsettled", "broke"}, CommandRaises(x, end)
      PROVE  IInv'
  BY <1>3, FinishInv DEF CommandRaises, Ends
<1>4. QED
  BY <1>1, <1>2, <1>3

\* The receipt of a tool's end preserves the invariant.
LEMMA FinishWaitedInv ==
  ASSUME IInv, NEW x \in Execs, FinishWaited(x)
  PROVE  IInv'
<1>1. CASE receipt[x] = "ok"
  <2> USE DEF IInv, store, authority, bounds
  <2>1. /\ Go(x, "controller") /\ open' = [open EXCEPT ![x] = FALSE]
        /\ UNCHANGED <<queue, receipt, store, phase, todo, authority, owns, result, via,
                       handle, call, ordinal, live, entered, bounds>>
        /\ pc[x] = "tool_finish"
    BY <1>1 DEF FinishWaited
  <2>2. /\ pc' \in [Execs -> PCs] /\ pc'[x] = "controller"
        /\ \A y \in Execs \ {x} : pc'[y] = pc[y]
    BY <2>1 DEF Go, TypeOK, PCs
  <2>3. TypeOK'
    BY <2>1, <2>2 DEF TypeOK
  <2>4. Moves(x)
    BY <1>1, <2>1, <2>2 DEF Moves, Moved, Admitted, CallInv
  <2>5. QED
    BY <2>3, <2>4, MovesInv
<1>2. CASE receipt[x] # "ok"
  BY <1>2, FinishInv DEF FinishWaited, Finish, Ends, activity
<1>3. QED
  BY <1>1, <1>2

\* The first authority check preserves it.
LEMMA CheckReturnedInv ==
  ASSUME IInv, NEW x \in Execs, CheckReturned(x)
  PROVE  IInv'
<1>1. CASE Refused(x)
  BY <1>1, RefusedInv DEF CheckReturned
<1>2. CASE Go(x, "commit") /\ handle' = handle
  <2> USE DEF IInv, store, service, authority, activity, bounds
  <2>1. /\ pc' \in [Execs -> PCs] /\ pc'[x] = "commit" /\ pc[x] = "returned"
        /\ \A y \in Execs \ {x} : pc'[y] = pc[y]
    BY <1>2 DEF Go, TypeOK, PCs, CheckReturned
  <2>2. TypeOK'
    BY <1>2, <2>1 DEF TypeOK, CheckReturned
  <2>3. Moves(x)
    BY <2>1 DEF Moves, Moved, Waits, Admitted, CallInv, CheckReturned
  <2>4. QED
    BY <2>2, <2>3, MovesInv
<1>3. QED
  BY <1>1, <1>2 DEF CheckReturned

-----------------------------------------------------------------------------
(* The writer.                                                             *)

\* Taking the first command off the queue.
LEMMA TailFacts ==
  ASSUME queue \in Seq(Commands), queue # <<>>
  PROVE  /\ Head(queue) \in Commands /\ Head(queue) = queue[1]
         /\ 1 \in 1 .. Len(queue)
         /\ Tail(queue) \in Seq(Commands)
         /\ Len(queue) \in Nat /\ Len(Tail(queue)) = Len(queue) - 1
         /\ \A i \in 1 .. Len(Tail(queue)) :
              i + 1 \in 1 .. Len(queue) /\ Tail(queue)[i] = queue[i + 1]
BY HeadTailProperties, EmptySeq, LenProperties

\* Answering a command and leaving the threads alone keeps the queue in order.
LEMMA AnsweredQueue ==
  ASSUME TypeOK, QueueInv, SingleInv, queue # <<>>, queue' = Tail(queue),
         NEW answer, Receive(Head(queue), answer), pc' = pc, call' = call
  PROVE  QueueInv' /\ SingleInv'
<1>1. queue \in Seq(Commands) /\ DOMAIN receipt = Callers
  BY DEF TypeOK
<1> DEFINE h == Head(queue)
<1>2. /\ h \in Commands /\ h = queue[1] /\ 1 \in 1 .. Len(queue)
      /\ Len(queue) \in Nat /\ Len(queue') = Len(queue) - 1
      /\ \A i \in 1 .. Len(queue') : i + 1 \in 1 .. Len(queue) /\ queue'[i] = queue[i + 1]
  BY <1>1, TailFacts
<1>3. receipt' = IF h.waited THEN [receipt EXCEPT ![h.by] = answer] ELSE receipt
  BY DEF Receive
<1> HIDE DEF h
<1>4. ASSUME NEW i \in 1 .. Len(queue')
      PROVE  CommandOK(queue[i])'
  <2>1. PICK c \in Commands : c = queue[i + 1]
    BY <1>1, <1>2, ElementOfSeq
  <2>2. CommandOK(c)
    BY <1>2, <2>1 DEF QueueInv
  <2>3. c.waited => receipt'[c.by] = receipt[c.by]
    <3>1. c.waited => ~(h.waited /\ h.by = c.by)
      BY <1>2, <2>1 DEF SingleInv
    <3>2. c.by \in Callers /\ h.by \in Callers
      BY <1>2, <2>1 DEF Commands
    <3>3. QED
      BY <1>1, <1>3, <3>1, <3>2
  <2>4. CommandOK(c)'
    BY <2>2, <2>3 DEF CommandOK, Awaited
  <2>5. QED
    BY <1>2, <2>1, <2>4 DEF CommandOK, Awaited
<1>5. QueueInv'
  BY <1>4 DEF QueueInv
<1>6. SingleInv'
  BY <1>2 DEF SingleInv
<1>7. QED
  BY <1>5, <1>6

\* What the writer's answer does to the receipts.
LEMMA ReceiveFacts ==
  ASSUME TypeOK, QueueInv, queue # <<>>,
         NEW answer \in {"ok", "duplicate", "error"}, Receive(Head(queue), answer)
  PROVE  /\ receipt' \in [Callers -> {"none", "pending", "ok", "duplicate", "error"}]
         /\ \A a \in Callers :
              \/ receipt'[a] = receipt[a]
              \/ /\ receipt[a] = "pending" /\ receipt'[a] = answer
                 /\ Head(queue).by = a /\ Awaited(Head(queue))
<1>1. queue \in Seq(Commands)
  BY DEF TypeOK
<1>2. Head(queue) \in Commands /\ CommandOK(Head(queue))
  BY <1>1, TailFacts DEF QueueInv
<1> DEFINE h == Head(queue)
<1>3. h.by \in Callers /\ (h.waited => Awaited(h)) /\ (h.waited => receipt[h.by] = "pending")
  BY <1>2 DEF Commands, CommandOK, Awaited
<1>4. receipt' = IF h.waited THEN [receipt EXCEPT ![h.by] = answer] ELSE receipt
  BY DEF Receive
<1> HIDE DEF h
<1>5. receipt \in [Callers -> {"none", "pending", "ok", "duplicate", "error"}]
  BY DEF TypeOK
<1>6. QED
  BY <1>3, <1>4, <1>5 DEF h

\* Committing a command preserves the invariant.
LEMMA WriteInv ==
  ASSUME IInv, Write
  PROVE  IInv'
<1> DEFINE h == Head(queue)
           answer == Answer(h)
<1>1. /\ queue # <<>> /\ queue' = Tail(queue) /\ Receive(h, answer)
      /\ UNCHANGED <<phase, todo, authority, thread, activity, live, entered, bounds>>
  BY DEF Write
<1>2. queue \in Seq(Commands) /\ Len(queue) <= QueueLimit
  BY DEF IInv, TypeOK
<1>3. /\ h \in Commands /\ CommandOK(h)
      /\ queue' \in Seq(Commands) /\ Len(queue') <= QueueLimit
  <2>1. QueueLimit \in Nat /\ Len(queue) \in Nat
    BY <1>2, LenProperties, ConstantsAssumption
  <2>2. QED
    BY <1>1, <1>2, <2>1, TailFacts DEF IInv, QueueInv
<1>4. answer \in {"ok", "duplicate", "error"}
  BY DEF Answer
<1>5. /\ receipt' \in [Callers -> {"none", "pending", "ok", "duplicate", "error"}]
      /\ \A a \in Callers :
           \/ receipt'[a] = receipt[a]
           \/ /\ receipt[a] = "pending" /\ receipt'[a] = answer
              /\ h.by = a /\ Awaited(h)
  BY <1>1, <1>4, ReceiveFacts DEF IInv
<1>6. QueueInv' /\ SingleInv'
  BY <1>1, AnsweredQueue DEF IInv, thread, activity
<1>7. /\ h.task \in Tasks /\ h.ev \in Events /\ h.by \in Callers
  BY <1>3 DEF Commands
<1>8. /\ answer = "ok" =>
           /\ state' = [state EXCEPT ![h.task] = NewState(h)]
           /\ digest' = IF h.ev.kind = "admitted" THEN [digest EXCEPT ![h.task] = h.by] ELSE digest
           /\ log' = [log EXCEPT ![h.task] = Append(log[h.task], h.ev)]
      /\ answer # "ok" => state' = state /\ digest' = digest /\ log' = log
  BY DEF Write, store
<1>9. answer = "ok" =>
        /\ NewState(h) \in {"admitted", "running"} \cup Terminal
        /\ h.ev.kind = "admitted" => state[h.task] = "absent" /\ h.by \in Execs
  <2>1. state[h.task] \in {"absent", "admitted", "running"} \cup Terminal
    BY <1>7 DEF IInv, TypeOK
  <2>2. QED
    BY <1>3, <2>1 DEF Answer, NewState, CommandOK, Terminal, Results
<1> HIDE DEF h, answer
<1>10. TypeOK'
  <2>1. state' \in [Tasks -> {"absent", "admitted", "running"} \cup Terminal]
    <3>1. state \in [Tasks -> {"absent", "admitted", "running"} \cup Terminal]
      BY DEF IInv, TypeOK
    <3>2. CASE answer = "ok"
      <4> DEFINE new == NewState(h)
      <4>1. state' = [state EXCEPT ![h.task] = new] /\ new \in {"admitted", "running"} \cup Terminal
        BY <1>8, <1>9, <3>2
      <4> HIDE DEF new
      <4>2. QED
        BY <3>1, <4>1
    <3>3. CASE answer # "ok"
      BY <1>8, <3>1, <3>3
    <3>4. QED
      BY <3>2, <3>3
  <2>2. digest' \in [Tasks -> Execs \cup {None}]
    BY <1>7, <1>8, <1>9 DEF IInv, TypeOK
  <2>3. log' \in [Tasks -> Seq(Events)]
    <3>1. log \in [Tasks -> Seq(Events)]
      BY DEF IInv, TypeOK
    <3>2. Append(log[h.task], h.ev) \in Seq(Events)
      BY <1>7, <3>1, AppendProperties
    <3>3. QED
      BY <1>7, <1>8, <3>1, <3>2
  <2>4. QED
    BY <1>1, <1>3, <1>5, <2>1, <2>2, <2>3
       DEF IInv, TypeOK, authority, thread, activity, bounds
<1>11. CallInv'
  BY <1>1 DEF IInv, CallInv, thread, activity, bounds
<1>12. CreatorInv'
  <2> SUFFICES ASSUME NEW x \in Execs, (Admitted(x) \/ x \in entered)'
               PROVE  digest'[TaskOf[x]] = x /\ state'[TaskOf[x]] # "absent"
    BY DEF CreatorInv
  <2>1. TaskOf[x] \in Tasks
    BY ConstantsAssumption
  <2>2. CASE Admitted(x) \/ x \in entered
    <3>1. digest[TaskOf[x]] = x /\ state[TaskOf[x]] # "absent"
      BY <2>2 DEF IInv, CreatorInv
    <3>2. QED
      BY <1>7, <1>8, <1>9, <2>1, <3>1 DEF IInv, TypeOK, Terminal, Results
  <2>3. CASE ~(Admitted(x) \/ x \in entered)
    <3>1. /\ pc[x] \in {"register", "admission"}
          /\ receipt'[x] = "ok" /\ receipt[x] # "ok"
      BY <1>1, <2>3 DEF Admitted, thread
    <3>2. answer = "ok" /\ h.by = x /\ Awaited(h)
      BY <1>5, <3>1 DEF Callers
    <3>3. h.ev.kind = "admitted" /\ h.task = TaskOf[x]
      BY <3>1, <3>2 DEF Awaited, KindAt
    <3>4. QED
      BY <1>7, <1>8, <1>9, <2>1, <3>2, <3>3 DEF IInv, TypeOK, Terminal, Results
  <2>4. QED
    BY <2>2, <2>3
<1>13. Recorded \subseteq Recorded' /\ \A c \in Calls :
         (answer = "ok" /\ h.ev.kind = "started" /\ h.ev.call = c /\ h.task = c[1])
           => c \in Recorded'
  <2>1. log \in [Tasks -> Seq(Events)]
    BY DEF IInv, TypeOK
  <2>2. \A t \in Tasks : Len(log[t]) \in Nat
    BY <2>1, LenProperties
  <2>3. \A t \in Tasks : t # h.task \/ answer # "ok" => log'[t] = log[t]
    BY <1>7, <1>8, <2>1
  <2>4. answer = "ok" =>
          /\ Len(log'[h.task]) = Len(log[h.task]) + 1
          /\ log'[h.task][Len(log[h.task]) + 1] = h.ev
          /\ \A i \in 1 .. Len(log[h.task]) : log'[h.task][i] = log[h.task][i]
    <3>1. answer = "ok" => log'[h.task] = Append(log[h.task], h.ev)
      BY <1>7, <1>8, <2>1
    <3>2. QED
      BY <1>7, <2>1, <3>1, AppendProperties
  <2>5. \A c \in Calls : c[1] \in Tasks
    BY DEF Calls
  <2>6. ASSUME NEW c \in Recorded PROVE c \in Recorded'
    <3>1. PICK i \in 1 .. Len(log[c[1]]) :
            log[c[1]][i].kind = "started" /\ log[c[1]][i].call = c
      BY DEF Recorded
    <3>2. c \in Calls /\ c[1] \in Tasks
      BY <2>5 DEF Recorded
    <3>3. i \in 1 .. Len(log'[c[1]]) /\ log'[c[1]][i] = log[c[1]][i]
      BY <2>2, <2>3, <2>4, <3>2
    <3>4. QED
      BY <3>1, <3>2, <3>3 DEF Recorded
  <2>7. ASSUME NEW c \in Calls, answer = "ok", h.ev.kind = "started",
               h.ev.call = c, h.task = c[1]
        PROVE  c \in Recorded'
    <3>1. Len(log[c[1]]) + 1 \in 1 .. Len(log'[c[1]])
      BY <2>2, <2>4, <2>5, <2>7
    <3>2. QED
      BY <2>4, <2>7, <3>1 DEF Recorded
  <2>8. QED
    BY <2>6, <2>7
<1>14. RecordInv'
  <2>1. live' \subseteq Recorded'
    BY <1>1, <1>13 DEF IInv, RecordInv
  <2>2. ASSUME NEW x \in Execs,
               (pc'[x] = "tool_start" /\ receipt'[x] = "ok") \/ pc'[x] \in {"tool", "tool_run"}
        PROVE  call'[x] \in Recorded'
    <3>1. pc' = pc /\ call' = call
      BY <1>1 DEF thread, activity
    <3>2. CASE pc[x] \in {"tool", "tool_run"} \/ receipt[x] = "ok"
      BY <1>13, <2>2, <3>1, <3>2 DEF IInv, RecordInv
    <3>3. CASE pc[x] = "tool_start" /\ receipt[x] # "ok" /\ receipt'[x] = "ok"
      <4>1. answer = "ok" /\ h.by = x /\ Awaited(h)
        BY <1>5, <3>3 DEF Callers
      <4>2. h.ev.kind = "started" /\ h.ev.call = call[x] /\ h.task = TaskOf[x]
        BY <3>3, <4>1 DEF Awaited, KindAt
      <4>3. call[x] \in Calls /\ call[x][1] = TaskOf[x]
        BY <3>3 DEF IInv, CallInv, ToolPoints
      <4>4. QED
        BY <1>13, <3>1, <4>1, <4>2, <4>3
    <3>4. QED
      BY <2>2, <3>1, <3>2, <3>3
  <2>3. QED
    BY <2>1, <2>2 DEF RecordInv
<1>15. LockInv'
  <2>1. receipt'[Stopper] = "pending" => receipt[Stopper] = "pending"
    BY <1>4, <1>5 DEF Callers
  <2>2. QED
    BY <1>1, <2>1 DEF IInv, LockInv, authority, thread
<1>16. QED
  BY <1>6, <1>10, <1>11, <1>12, <1>14, <1>15 DEF IInv

\* A receipt that fails, because the write was refused or came too late,
\* preserves the invariant.
LEMMA FailedReceipt ==
  ASSUME IInv, TypeOK', QueueInv', SingleInv',
         UNCHANGED <<store, lock, thread, call, ordinal, live, entered, attempts>>,
         \A a \in Callers : receipt'[a] = receipt[a] \/ receipt'[a] = "error"
  PROVE  IInv'
<1> USE DEF IInv, store, thread, Callers
<1>1. CallInv'
  BY DEF CallInv
<1>2. CreatorInv'
  BY DEF CreatorInv, Admitted
<1>3. RecordInv'
  <2>1. Recorded' = Recorded
    BY DEF Recorded
  <2>2. QED
    BY <2>1 DEF RecordInv
<1>4. LockInv'
  BY DEF LockInv
<1>5. QED
  BY <1>1, <1>2, <1>3, <1>4

LEMMA WriteFailsInv ==
  ASSUME IInv, WriteFails
  PROVE  IInv'
<1>1. /\ queue # <<>> /\ queue' = Tail(queue) /\ Receive(Head(queue), "error")
      /\ UNCHANGED <<store, phase, todo, authority, thread, activity, live, entered,
                     attempts, stops, opens>>
      /\ faults' \in 0 .. MaxFaults
  BY ConstantsAssumption DEF WriteFails, IInv, TypeOK
<1>2. QueueInv' /\ SingleInv'
  BY <1>1, AnsweredQueue DEF IInv, thread, activity
<1>3. /\ receipt' \in [Callers -> {"none", "pending", "ok", "duplicate", "error"}]
      /\ \A a \in Callers : receipt'[a] = receipt[a] \/ receipt'[a] = "error"
  BY <1>1, ReceiveFacts DEF IInv
<1>4. queue' \in Seq(Commands) /\ Len(queue') <= QueueLimit
  <2>1. queue \in Seq(Commands) /\ Len(queue) <= QueueLimit /\ QueueLimit \in Nat
    BY ConstantsAssumption DEF IInv, TypeOK
  <2>2. QED
    BY <1>1, <2>1, TailFacts
<1>5. TypeOK'
  BY <1>1, <1>3, <1>4 DEF IInv, TypeOK, store, authority, thread, activity
<1>6. QED
  BY <1>1, <1>2, <1>3, <1>5, FailedReceipt DEF authority, activity

LEMMA WaitTimesOutInv ==
  ASSUME IInv, NEW a \in Callers, WaitTimesOut(a)
  PROVE  IInv'
<1> DEFINE detached(c) == [c EXCEPT !.waited = @ /\ c.by # a]
<1>1. /\ receipt' = [receipt EXCEPT ![a] = "error"]
      /\ queue' = [i \in DOMAIN queue |-> detached(queue[i])]
      /\ UNCHANGED <<store, phase, todo, authority, thread, activity, live, entered,
                     attempts, stops, opens>>
      /\ faults' \in 0 .. MaxFaults
  BY ConstantsAssumption DEF WaitTimesOut, IInv, TypeOK
<1>2. queue \in Seq(Commands) /\ Len(queue) <= QueueLimit /\ DOMAIN queue = 1 .. Len(queue)
  BY LenProperties DEF IInv, TypeOK
<1>3. \A c \in Commands :
        /\ detached(c) \in Commands
        /\ detached(c).ev = c.ev /\ detached(c).by = c.by /\ detached(c).task = c.task
        /\ detached(c).waited = (c.waited /\ c.by # a)
  BY DEF Commands
<1> HIDE DEF detached
<1>4. \A i \in 1 .. Len(queue) : queue[i] \in Commands
  BY <1>2, ElementOfSeq
<1>5. queue' \in Seq(Commands) /\ Len(queue') = Len(queue)
  <2>1. queue' \in [1 .. Len(queue) -> Commands] /\ Len(queue) \in Nat
    BY <1>1, <1>2, <1>3, <1>4, LenProperties
  <2>2. QED
    BY <2>1, SeqDef, LenProperties
<1>6. receipt' \in [Callers -> {"none", "pending", "ok", "duplicate", "error"}]
  BY <1>1 DEF IInv, TypeOK
<1>7. TypeOK'
  BY <1>1, <1>2, <1>5, <1>6 DEF IInv, TypeOK, store, authority, thread, activity
<1>8. \A i \in 1 .. Len(queue) : queue'[i] = detached(queue[i])
  BY <1>1, <1>2
<1>9. QueueInv'
  <2> SUFFICES ASSUME NEW i \in 1 .. Len(queue)
               PROVE  CommandOK(queue[i])'
    BY <1>5 DEF QueueInv
  <2>1. PICK c \in Commands : c = queue[i] /\ CommandOK(c)
    BY <1>4 DEF IInv, QueueInv
  <2>2. PICK d \in Commands : d = detached(c)
    BY <1>3
  <2>3. /\ d.ev = c.ev /\ d.by = c.by /\ d.task = c.task
        /\ d.waited => c.waited /\ c.by # a
    BY <1>3, <2>2
  <2>4. d.waited => receipt'[d.by] = receipt[d.by]
    BY <1>1, <2>3 DEF IInv, TypeOK, Commands
  <2>5. CommandOK(d)'
    BY <1>1, <2>1, <2>3, <2>4 DEF CommandOK, Awaited, thread, activity
  <2>6. queue'[i] = d
    BY <1>8, <2>1, <2>2
  <2>7. QED
    BY <2>5, <2>6 DEF CommandOK, Awaited
<1>10. SingleInv'
  <2>1. ASSUME NEW i \in 1 .. Len(queue)
        PROVE  queue'[i].by = queue[i].by /\ (queue'[i].waited => queue[i].waited)
    <3>1. PICK c \in Commands : c = queue[i]
      BY <1>4
    <3>2. QED
      BY <1>3, <1>8, <3>1
  <2>2. QED
    BY <1>5, <2>1 DEF IInv, SingleInv
<1>11. QED
  BY <1>1, <1>6, <1>7, <1>9, <1>10, FailedReceipt DEF authority, activity, IInv, TypeOK

-----------------------------------------------------------------------------
(* The other steps.                                                        *)

\* What changes neither the store nor the threads nor the queue.
LEMMA QuietInv ==
  ASSUME IInv, TypeOK',
         UNCHANGED <<store, queue, receipt, thread, call, ordinal, entered, attempts>>,
         live' \subseteq live,
         lock' = lock \/ (lock = Stopper /\ receipt[Stopper] # "pending")
  PROVE  IInv'
<1> USE ConstantsAssumption DEF IInv, store, thread
<1>1. CallInv'
  BY DEF CallInv
<1>2. QueueInv'
  BY DEF QueueInv, CommandOK, Awaited
<1>3. SingleInv'
  BY DEF SingleInv
<1>4. CreatorInv'
  BY DEF CreatorInv, Admitted
<1>5. RecordInv'
  <2>1. Recorded' = Recorded
    BY DEF Recorded
  <2>2. QED
    BY <2>1 DEF RecordInv
<1>6. LockInv'
  BY DEF LockInv
<1>7. QED
  BY <1>1, <1>2, <1>3, <1>4, <1>5, <1>6

\* The end of the process, by a crash or after close(), preserves it.
LEMMA LoseMemoryInv ==
  ASSUME IInv, LoseMemory
  PROVE  IInv'
<1> USE ConstantsAssumption DEF IInv, LoseMemory, store, bounds, Callers
<1>1. queue' = <<>> /\ Len(queue') = 0 /\ queue' \in Seq(Commands)
  BY EmptySeq
<1>2. pc' \in [Execs -> PCs] /\ \A x \in Execs : pc'[x] \in Idle
  BY DEF TypeOK, PCs, Idle
<1>3. TypeOK'
  BY <1>1, <1>2 DEF TypeOK, Epoch
<1>4. CallInv'
  BY <1>2 DEF CallInv, ToolPoints, Idle
<1>5. QueueInv' /\ SingleInv'
  BY <1>1 DEF QueueInv, SingleInv
<1>6. CreatorInv'
  BY <1>2 DEF CreatorInv, Admitted, Idle
<1>7. RecordInv'
  <2>1. Recorded' = Recorded
    BY DEF Recorded
  <2>2. QED
    BY <1>2, <2>1 DEF RecordInv, Idle
<1>8. LockInv'
  BY <1>2 DEF LockInv, Idle
<1>9. QED
  BY <1>3, <1>4, <1>5, <1>6, <1>7, <1>8

\* The initial state satisfies the invariant.
LEMMA InitInv == Init => IInv
<1> SUFFICES ASSUME Init PROVE IInv
  OBVIOUS
<1> USE ConstantsAssumption DEF Init, Callers
<1>1. queue = <<>> /\ Len(queue) = 0 /\ queue \in Seq(Commands) /\ <<>> \in Seq(Events)
  BY EmptySeq
<1>2. log \in [Tasks -> Seq(Events)]
  BY <1>1
<1>3. TypeOK
  BY <1>1, <1>2 DEF TypeOK, PCs, Idle, Epoch
<1>4. CallInv
  BY DEF CallInv, ToolPoints
<1>5. QueueInv /\ SingleInv
  BY <1>1 DEF QueueInv, SingleInv
<1>6. CreatorInv /\ RecordInv /\ LockInv
  BY DEF CreatorInv, Admitted, RecordInv, LockInv
<1>7. QED
  BY <1>3, <1>4, <1>5, <1>6 DEF IInv

\* A step of a thread preserves it.
LEMMA ThreadStepInv ==
  ASSUME IInv, NEW x \in Execs, ThreadStep(x)
  PROVE  IInv'
<1>1. CASE ToolStep(x)
  BY <1>1, StartToolInv, ToolStartWaitedInv, SpawnInv, ToolEndsInv, FinishWaitedInv,
     LastFinishWaitedInv DEF ToolStep
<1>2. CASE \E r \in Results : ControllerReturns(x, r)
  BY <1>2, ControllerReturnsInv
<1>3. CASE RegisterOnce(x) \/ AdmissionWaited(x) \/ Start(x) \/ StartWaited(x) \/ EnterController(x)
  BY <1>3, RegisterOnceInv, AdmissionWaitedInv, StartInv, StartWaitedInv,
     EnterControllerInv
<1>4. CASE ControllerRaises(x) \/ CheckReturned(x) \/ Commit(x)
  BY <1>4, ControllerRaisesInv, CheckReturnedInv, CommitInv
<1>5. CASE FinalizeControllerFault(x) \/ FinalizeCancelUnreconciled(x)
  BY <1>5, FaultAndStaleInv
<1>6. CASE ResultCommitted(x) \/ FaultCommitted(x) \/ FaultRelease(x)
  BY <1>6, ResultCommittedInv, FaultCommittedInv, FaultReleaseInv
<1>7. CASE StaleCommitted(x) \/ StaleRelease(x) \/ FailRelease(x)
  BY <1>7, StaleCommittedInv, StaleReleaseInv, FailReleaseInv
<1>8. QED
  BY <1>1, <1>2, <1>3, <1>4, <1>5, <1>6, <1>7 DEF ThreadStep

\* Every step preserves it.
LEMMA NextInv == IInv /\ [Next]_vars => IInv'
<1> SUFFICES ASSUME IInv, [Next]_vars PROVE IInv'
  OBVIOUS
<1>1. ASSUME NEW x \in Execs, Submit(x) \/ ThreadStep(x) PROVE IInv'
  BY <1>1, SubmitInv, ThreadStepInv
<1>2. CASE Write \/ WriteFails \/ \E a \in Callers : WaitTimesOut(a)
  BY <1>2, WriteInv, WriteFailsInv, WaitTimesOutInv
<1>3. ASSUME NEW t \in Tasks, RequestCancel(t) PROVE IInv'
  BY <1>3, RequestCancelInv
<1>4. CASE CancelWaited
  <2>1. TypeOK'
    BY <1>4 DEF CancelWaited, IInv, TypeOK, store, service, thread, activity, bounds
  <2>2. QED
    BY <1>4, <2>1, QuietInv DEF CancelWaited, service, activity, bounds
<1>5. CASE Crash \/ Exit
  BY <1>5, LoseMemoryInv DEF Crash, Exit
<1>6. CASE Quit \/ RecoveryFails \/ Recovered
  <2>1. TypeOK'
    BY <1>6 DEF Quit, RecoveryFails, Recovered, IInv, TypeOK, store, authority,
       thread, activity, bounds
  <2>2. QED
    BY <1>6, <2>1, QuietInv DEF Quit, RecoveryFails, Recovered, authority, activity,
       bounds
<1>7. CASE Open
  <2>1. TypeOK'
    BY <1>7, ConstantsAssumption DEF Open, Unterminated, IInv, TypeOK, store,
       authority, thread, activity
  <2>2. QED
    BY <1>7, <2>1, QuietInv DEF Open, authority, activity
<1>8. ASSUME NEW t \in Tasks, RecoverTask(t) PROVE IInv'
  BY <1>8, RecoverTaskInv
<1>9. ASSUME NEW c \in live, ProcessExits(c) PROVE IInv'
  <2>1. TypeOK'
    BY <1>9 DEF ProcessExits, IInv, TypeOK, store, service, authority, thread,
       activity, bounds
  <2>2. QED
    BY <1>9, <2>1, QuietInv DEF ProcessExits, service, authority, activity, bounds
<1>10. CASE UNCHANGED vars
  <2>1. TypeOK'
    BY <1>10 DEF vars, IInv, TypeOK, store, service, authority, thread, activity, bounds
  <2>2. QED
    BY <1>10, <2>1, QuietInv DEF vars, service, authority, activity, bounds
<1>11. QED
  BY <1>1, <1>2, <1>3, <1>4, <1>5, <1>6, <1>7, <1>8, <1>9, <1>10 DEF Next, RecoveryStep

-----------------------------------------------------------------------------
(* The theorems.                                                           *)

\* The invariant holds in every behaviour, whatever the threads, the writer,
\* the Stops and the restarts do.
THEOREM Invariant == Spec => []IInv
<1>1. Init => IInv
  BY InitInv
<1>2. IInv /\ [Next]_vars => IInv'
  BY NextInv
<1>3. QED
  BY <1>1, <1>2, PTL DEF Spec

\* Every variable keeps its type; in particular the command queue never grows
\* past command_capacity and a committed event is always complete.
THEOREM TypeCorrect == Spec => []TypeOK
<1>1. IInv => TypeOK
  BY DEF IInv
<1>2. QED
  BY <1>1, Invariant, PTL

\* A task reaches controller.run at most once, however often its request is
\* submitted, concurrently or after a restart.
THEOREM ControllerRunsOnce == Spec => []ControllerOnce
<1>1. IInv => ControllerOnce
  BY DEF IInv, TypeOK, CreatorInv, ControllerOnce
<1>2. QED
  BY <1>1, Invariant, PTL

\* No process of a configured command exists without its tool.started in the
\* store, across failed writes, timeouts, crashes and restarts.
THEOREM NoUnrecordedProcess == Spec => []ProcessesOnRecord
<1>1. IInv => ProcessesOnRecord
  <2> SUFFICES ASSUME IInv, NEW c \in live PROVE c \in StartedCalls(c[1])
    BY DEF ProcessesOnRecord
  <2>1. c \in Calls /\ \E i \in 1 .. Len(log[c[1]]) :
                         log[c[1]][i].kind = "started" /\ log[c[1]][i].call = c
    BY DEF IInv, RecordInv, Recorded
  <2>2. DOMAIN log[c[1]] = 1 .. Len(log[c[1]])
    BY <2>1, LenProperties DEF IInv, TypeOK, Calls
  <2>3. QED
    BY <2>1, <2>2 DEF StartedCalls
<1>2. QED
  BY <1>1, Invariant, PTL

\* Controllers run once and processes are on record, for any number of tasks,
\* submissions, faults, Stops and restarts (submit, begin, tool.started).
THEOREM EffectsAreOnRecord == Spec => []EffectsOnRecord
BY ControllerRunsOnce, NoUnrecordedProcess, PTL DEF EffectsOnRecord

-----------------------------------------------------------------------------
(* Cleanup is true: what a task said of its processes.                     *)

\* What a task has on record, and what is queued to be.
Said(t) ==
  {log[t][i] : i \in 1 .. Len(log[t])}
    \cup {queue[i].ev : i \in {j \in 1 .. Len(queue) : queue[j].task = t}}

\* The callers with a command in the queue.
Asking == {queue[i].by : i \in 1 .. Len(queue)}

\* The execution that created the row of t may still begin a process, or not.
Past == {"stale", "fault_release", "stale_release", "final", "failing", "done", "lost"}
Over(t) == digest[t] \in Execs /\ pc[digest[t]] \in Past

\* Turns are serial.
TurnInv == \A x, y \in Execs : pc[x] \notin Idle /\ pc[y] \notin Idle => x = y

\* A row and its creator name each other, and a submit call that has not begun
\* left no trace.
RowInv ==
  /\ \A t \in Tasks : digest[t] \in Execs => TaskOf[digest[t]] = t
  /\ \A t \in Tasks : state[t] # "absent" <=> digest[t] \in Execs
  /\ \A x \in Execs : pc[x] = "new" => x \notin Asking /\ \A t \in Tasks : digest[t] # x
  /\ \A x \in Execs :
       \/ pc[x] \in {"fault", "stale", "fault_release", "final"}
       \/ pc[x] \in {"register", "admission"} /\ receipt[x] = "duplicate"
       => digest[TaskOf[x]] \in Execs

\* The ordinal of a call is used up once its start is acknowledged.
OrdinalInv ==
  /\ \A x \in Execs :
       /\ pc[x] = "tool_start" => call[x][2] = ordinal[x]
       /\ pc[x] \in {"tool", "tool_run", "tool_finish", "tool_last"} => call[x][2] < ordinal[x]
       /\ pc[x] = "tool" => call[x] \notin live
  /\ \A c \in live :
       /\ digest[c[1]] \in Execs /\ c[2] < ordinal[digest[c[1]]]
       /\ c[3] \in SpawningTools

\* An end that says that no process is left.
CleanEnds == {"ok", "stopped", "not_started"}

\* A call finished once, by the creator of the row, and nothing is left of it
\* when its end says so.
FinishedInv(t, ev) ==
  /\ digest[t] \in Execs
  /\ ev.call \in Calls /\ ev.call[1] = t /\ ev.call[2] < ordinal[digest[t]]
  /\ pc[digest[t]] \in {"tool", "tool_run"} => ev.call # call[digest[t]]
  /\ ev.end \in CleanEnds /\ ev.call[3] \in SpawningTools => ev.call \notin live

\* A task closed as reconciled has no process, and will have none.
ClosedInv(t, ev) ==
  ev.cleanup \in {"not_needed", "confirmed"} => Over(t) /\ \A c \in live : c[1] # t

\* What an event says is true.
Says(t, ev) ==
  /\ ev.kind # "finished" => ev.end = "none"
  /\ ev.kind = "finished" => FinishedInv(t, ev)
  /\ ev.kind = "closed" => ClosedInv(t, ev)

SaidInv == \A t \in Tasks : \A ev \in Said(t) : Says(t, ev)

\* The rows, the calls, what is said of them and the processes agree.
CInv == TurnInv /\ RowInv /\ OrdinalInv /\ SaidInv

-----------------------------------------------------------------------------
(* What a step says.                                                       *)

\* A part of the sequence of events has a last place.
LEMMA LastPlace ==
  ASSUME NEW n \in Nat, NEW S \in SUBSET (1 .. n), S # {}
  PROVE  \E i \in S : \A j \in S : j <= i
<1> DEFINE R == {n - i : i \in S}
<1>1. R \subseteq Nat /\ R # {}
  <2>1. \A i \in S : n - i \in Nat
    BY S \subseteq 1 .. n
  <2> QED
    BY <2>1
<1>2. PICK r \in R : \A q \in R : ~(<<q, r>> \in OpToRel(<, Nat))
  <2> HIDE DEF R
  <2> QED  BY <1>1, NatLessThanWellFounded, WFMin
<1>3. PICK i \in S : r = n - i
  OBVIOUS
<1>4. \A j \in S : j <= i
  <2> SUFFICES ASSUME NEW j \in S PROVE j <= i
    OBVIOUS
  <2> DEFINE q == n - j
  <2>1. q \in R /\ q \in Nat /\ r \in Nat
    BY <1>1
  <2> HIDE DEF q, R
  <2>2. <<q, r>> \in Nat \X Nat /\ <<q, r>>[1] = q /\ <<q, r>>[2] = r
    BY <2>1
  <2>3. ~(q < r)
    BY <1>2, <2>1, <2>2 DEF OpToRel
  <2> QED
    BY <1>3, <2>1, <2>3 DEF q
<1> QED
  BY <1>4

\* An event that says neither that a call finished nor that the task is
\* reconciled.
Harmless(ev) ==
  /\ ev.kind # "finished" /\ ev.end = "none"
  /\ ev.kind = "closed" => ev.cleanup \notin {"not_needed", "confirmed"}

\* A step that says nothing of the kind.
SaysLess == \A t \in Tasks : \A ev \in Said(t)' : ev \in Said(t) \/ Harmless(ev)

\* Put says one event of one task.
LEMMA SaidPut ==
  ASSUME TypeOK, log' = log, NEW a \in Callers, NEW t \in Tasks, NEW ev \in Events, Put(a, t, ev)
  PROVE  /\ \A u \in Tasks \ {t} : Said(u)' \subseteq Said(u)
         /\ Said(t)' \subseteq Said(t) \cup {ev}
         /\ Asking' \subseteq Asking \cup {a}
         /\ \A b \in Callers : receipt'[b] = "duplicate" => b # a /\ receipt[b] = "duplicate"
<1>1. /\ receipt' = [receipt EXCEPT ![a] = receipt'[a]]
      /\ receipt'[a] \in {"pending", "error"}
      /\ \/ queue' = queue
         \/ /\ Len(queue') = Len(queue) + 1
            /\ queue'[Len(queue) + 1] = [task |-> t, ev |-> ev, by |-> a, waited |-> TRUE]
            /\ \A i \in 1 .. Len(queue) : queue'[i] = queue[i]
  BY ConstantsAssumption, PutFacts DEF TypeOK
<1>2. Len(queue) \in Nat
  BY LenProperties DEF TypeOK
<1>3. \A i \in 1 .. Len(queue') :
         \/ i \in 1 .. Len(queue) /\ queue'[i] = queue[i]
         \/ queue'[i] = [task |-> t, ev |-> ev, by |-> a, waited |-> TRUE]
  BY <1>1, <1>2
<1>4. \A i \in 1 .. Len(queue') :
         \/ i \in 1 .. Len(queue) /\ queue'[i] = queue[i]
         \/ queue'[i].task = t /\ queue'[i].ev = ev /\ queue'[i].by = a
  BY <1>3
<1>5. \A b \in Callers : receipt'[b] = "duplicate" => b # a /\ receipt[b] = "duplicate"
  BY <1>1 DEF TypeOK
<1>6. Asking' \subseteq Asking \cup {a}
  BY <1>4 DEF Asking
<1> QED
  BY <1>4, <1>5, <1>6 DEF Said

\* A step that leaves the log and the queue says nothing.
LEMMA SaidSame ==
  ASSUME UNCHANGED <<log, queue>>
  PROVE  Asking' = Asking /\ \A t : Said(t)' = Said(t)
BY DEF Asking, Said

\* A harmless event.
LEMMA HarmlessPut ==
  ASSUME TypeOK, log' = log, NEW a \in Callers, NEW t \in Tasks, NEW ev \in Events, Put(a, t, ev),
         Harmless(ev)
  PROVE  /\ SaysLess /\ Asking' \subseteq Asking \cup {a}
         /\ \A b \in Callers : receipt'[b] = "duplicate" => b # a /\ receipt[b] = "duplicate"
<1>1. \A u \in Tasks : Said(u)' \subseteq Said(u) \cup {ev}
  BY SaidPut
<1> QED
  BY <1>1, SaidPut DEF SaysLess

\* So it says less.
LEMMA SameSaysLess ==
  ASSUME UNCHANGED <<log, queue>>
  PROVE  SaysLess /\ Asking' = Asking
BY SaidSame DEF SaysLess

\* Which events are harmless.
LEMMA HarmlessEvents ==
  /\ \A kind \in {"admitted", "running", "cancel_requested"} : Harmless(Event(kind))
  /\ \A c : Harmless(StartedEvent(c))
  /\ \A s, r : Harmless(ClosedEvent(s, "unknown", r))
BY DEF Harmless, Event, StartedEvent, ClosedEvent

\* The rows keep their creators.
RowsStay == \A t \in Tasks : digest[t] \in Execs => digest'[t] = digest[t]

\* No row changes hands, no ordinal is taken back, no process starts and no
\* thread reaches a handler or leaves the end of its turn.
Keeps ==
  /\ RowsStay /\ live' \subseteq live
  /\ \A x \in Execs :
       /\ ordinal[x] <= ordinal'[x]
       /\ pc[x] \in Past => pc'[x] \in Past
       /\ pc'[x] \in {"tool", "tool_run"} => pc[x] \in {"tool", "tool_run"} /\ call'[x] = call[x]

\* What was said stays true then.
LEMMA SaysKept ==
  ASSUME TypeOK, TypeOK', Keeps, NEW t \in Tasks, NEW ev, Says(t, ev)
  PROVE  /\ ev.kind # "finished" => ev.end = "none"
         /\ ev.kind = "finished" => FinishedInv(t, ev)'
         /\ ev.kind = "closed" => ClosedInv(t, ev)'
<1>1. ASSUME FinishedInv(t, ev) PROVE FinishedInv(t, ev)'
  <2>1. /\ digest[t] \in Execs /\ digest'[t] = digest[t]
        /\ ev.call \in Calls /\ ev.call[1] = t /\ ev.call[2] < ordinal[digest[t]]
    BY <1>1 DEF FinishedInv, RowsStay, Keeps
  <2>2. ev.call[2] < ordinal'[digest[t]]
    <3>1. ev.call[2] \in Nat /\ ordinal[digest[t]] \in Nat /\ ordinal'[digest[t]] \in Nat
      BY <2>1, ConstantsAssumption DEF TypeOK, Calls
    <3>2. ordinal[digest[t]] <= ordinal'[digest[t]]
      BY <2>1 DEF Keeps
    <3> QED
      BY <2>1, <3>1, <3>2
  <2> QED
    BY <1>1, <2>1, <2>2 DEF FinishedInv, Keeps
<1>2. ASSUME ClosedInv(t, ev) PROVE ClosedInv(t, ev)'
  BY <1>2 DEF ClosedInv, Over, RowsStay, Keeps
<1> QED
  BY <1>1, <1>2 DEF Says

\* What is said stays true when nothing but harmless events is added.
LEMMA SaidKeeps ==
  ASSUME TypeOK, TypeOK', SaidInv, SaysLess, Keeps
  PROVE  SaidInv'
<1> SUFFICES ASSUME NEW t \in Tasks, NEW ev \in Said(t)' PROVE Says(t, ev)'
  BY DEF SaidInv
<1>1. CASE Harmless(ev)
  BY <1>1 DEF Harmless, Says, ClosedInv
<1>2. CASE ev \in Said(t)
  BY <1>2, SaysKept DEF SaidInv, Says
<1> QED
  BY <1>1, <1>2 DEF SaysLess

-----------------------------------------------------------------------------
(* Steps that neither start nor end a call.                                *)

\* A plain step of the thread of x: it starts and ends no call and closes
\* nothing.
Plain(x) ==
  /\ UNCHANGED <<state, digest, call, ordinal, live>>
  /\ \A y \in Execs \ {x} : pc'[y] = pc[y]
  /\ SaysLess /\ Asking' \subseteq Asking \cup {x}
  /\ \A y \in Execs : receipt'[y] = "duplicate" => receipt[y] = "duplicate"
  /\ pc[x] \in Idle => TurnFree(x)
  /\ pc'[x] \notin ToolPoints \cup {"new"}
  /\ pc[x] \in Past => pc'[x] \in Past
  /\ pc'[x] \in {"fault", "stale", "fault_release", "final"} => digest[TaskOf[x]] \in Execs
  /\ pc'[x] \in {"register", "admission"} /\ receipt'[x] = "duplicate" =>
       pc[x] \in {"register", "admission"}

\* A plain step preserves the invariant.
LEMMA PlainInv ==
  ASSUME IInv, CInv, TypeOK', NEW x \in Execs, Plain(x)
  PROVE  CInv'
<1>0. TypeOK /\ TurnInv /\ RowInv /\ OrdinalInv /\ SaidInv
  BY DEF IInv, CInv
<1>1. TurnInv'
  BY <1>0 DEF TurnInv, Plain, TurnFree
<1>2. RowInv'
  BY <1>0 DEF RowInv, Plain
<1>3. OrdinalInv'
  BY <1>0 DEF OrdinalInv, Plain, ToolPoints
<1>4. SaidInv'
  <2>1. RowsStay /\ SaysLess /\ live' \subseteq live
    BY DEF Plain, RowsStay
  <2>2. \A y \in Execs : ordinal[y] <= ordinal'[y]
    <3>1. \A y \in Execs : ordinal[y] \in Nat
      BY <1>0, ConstantsAssumption DEF TypeOK
    <3> QED
      BY <3>1 DEF Plain
  <2>3. \A y \in Execs : pc[y] \in Past => pc'[y] \in Past
    BY DEF Plain
  <2>4. \A y \in Execs : pc'[y] \in {"tool", "tool_run"} =>
                           pc[y] \in {"tool", "tool_run"} /\ call'[y] = call[y]
    BY DEF Plain, ToolPoints
  <2>5. Keeps
    BY <2>1, <2>2, <2>3, <2>4 DEF Keeps
  <2> QED
    BY <1>0, <2>1, <2>5, SaidKeeps
<1> QED
  BY <1>1, <1>2, <1>3, <1>4 DEF CInv

\* A thread that was admitted created its row.
LEMMA AdmittedRow ==
  ASSUME IInv, NEW x \in Execs, Admitted(x) \/ x \in entered
  PROVE  digest[TaskOf[x]] = x
BY DEF IInv, CreatorInv

\* The steps of a thread that are plain.
LEMMA SubmitPlain ==
  ASSUME IInv, CInv, SerialTurns, NEW x \in Execs, Submit(x)
  PROVE  Plain(x)
<1>1. SaysLess /\ Asking' \subseteq Asking \cup {x}
      /\ \A y \in Execs : receipt'[y] = "duplicate" => y # x /\ receipt[y] = "duplicate"
  <2>1. Event("admitted") \in Events /\ TaskOf[x] \in Tasks /\ x \in Callers
    BY EventTypes, ConstantsAssumption DEF Kinds, Callers
  <2>2. Put(x, TaskOf[x], Event("admitted")) /\ log' = log
    BY DEF Submit, store
  <2> QED
    BY <2>1, <2>2, HarmlessPut, HarmlessEvents DEF IInv, Callers
<1>2. /\ pc[x] = "new" /\ TurnFree(x) /\ pc'[x] \in {"register", "done"}
      /\ \A y \in Execs \ {x} : pc'[y] = pc[y]
      /\ UNCHANGED <<state, digest, call, ordinal, live>>
  BY DEF Submit, Go, store, activity, IInv, TypeOK
<1> QED
  BY <1>1, <1>2 DEF Plain, Past, ToolPoints

\* So is the start of the task.
LEMMA StartPlain ==
  ASSUME IInv, CInv, NEW x \in Execs, Start(x)
  PROVE  Plain(x)
<1>1. /\ pc[x] = "start" /\ pc'[x] \in {"stale", "failing", "start_wait"}
      /\ \A y \in Execs \ {x} : pc'[y] = pc[y]
      /\ UNCHANGED <<state, digest, call, ordinal, live, log>>
  BY DEF Start, Refused, Go, store, activity, IInv, TypeOK
<1>2. digest[TaskOf[x]] \in Execs
  BY <1>1, AdmittedRow DEF Admitted
<1>3. SaysLess /\ Asking' \subseteq Asking \cup {x}
      /\ \A y \in Execs : receipt'[y] = "duplicate" => receipt[y] = "duplicate"
  <2>1. CASE UNCHANGED <<queue, receipt>>
    BY <1>1, <2>1, SameSaysLess
  <2>2. CASE Put(x, TaskOf[x], Event("running"))
    <3>1. Event("running") \in Events /\ TaskOf[x] \in Tasks /\ x \in Callers
      BY EventTypes, ConstantsAssumption DEF Kinds, Callers
    <3> QED
      BY <1>1, <2>2, <3>1, HarmlessPut, HarmlessEvents DEF IInv, Callers
  <2> QED
    BY <2>1, <2>2 DEF Start
<1> QED
  BY <1>1, <1>2, <1>3 DEF Plain, Past, ToolPoints, Idle

\* The steps that queue nothing.
LEMMA QuietPlain ==
  ASSUME IInv, CInv, NEW x \in Execs,
         \/ RegisterOnce(x)
         \/ AdmissionWaited(x)
         \/ StartWaited(x)
         \/ EnterController(x)
         \/ LastFinishWaited(x)
         \/ \E r \in Results : ControllerReturns(x, r)
         \/ ControllerRaises(x)
         \/ CheckReturned(x)
         \/ ResultCommitted(x)
         \/ FaultCommitted(x)
         \/ FaultRelease(x)
         \/ StaleCommitted(x)
         \/ StaleRelease(x)
         \/ FailRelease(x)
  PROVE  Plain(x)
<1> DEFINE Goes(from, to) ==
             /\ pc[x] = from /\ pc'[x] \in to
             /\ \A y \in Execs \ {x} : pc'[y] = pc[y]
             /\ UNCHANGED <<state, digest, call, ordinal, live, log, queue, receipt>>
<1>0. ASSUME UNCHANGED <<log, queue, receipt>>
      PROVE  /\ SaysLess /\ Asking' \subseteq Asking \cup {x}
             /\ \A y \in Execs : receipt'[y] = "duplicate" => receipt[y] = "duplicate"
  BY <1>0, SameSaysLess
<1>1. CASE RegisterOnce(x)
  <2>1. Goes("register", {"admission"})
    BY <1>1 DEF RegisterOnce, Refused, Go, store, service, authority, thread, activity, IInv, TypeOK
  <2> QED
    BY <1>0, <2>1 DEF Plain, Past, ToolPoints, Idle
<1>2. CASE AdmissionWaited(x)
  <2>1. Goes("admission", {"start", "stale", "done", "failing"})
    BY <1>2 DEF AdmissionWaited, Refused, Go, store, service, authority, thread, activity, IInv, TypeOK
  <2>2. pc'[x] = "stale" => receipt[x] = "duplicate"
    BY <1>2 DEF AdmissionWaited, Go, IInv, TypeOK
  <2>3. pc'[x] = "stale" => digest[TaskOf[x]] \in Execs
    BY <2>1, <2>2 DEF CInv, RowInv
  <2> QED
    BY <1>0, <2>1, <2>3 DEF Plain, Past, ToolPoints, Idle
<1>3. CASE StartWaited(x)
  <2>1. Goes("start_wait", {"enter", "failing"})
    BY <1>3 DEF StartWaited, Refused, Go, store, service, authority, thread, activity, IInv, TypeOK
  <2> QED
    BY <1>0, <2>1 DEF Plain, Past, ToolPoints, Idle
<1>4. CASE EnterController(x)
  <2>1. Goes("enter", {"controller", "fault"})
    BY <1>4 DEF EnterController, Refused, Go, store, service, authority, thread, activity, IInv, TypeOK
  <2>2. digest[TaskOf[x]] \in Execs
    BY <2>1, AdmittedRow DEF Admitted
  <2> QED
    BY <1>0, <2>1, <2>2 DEF Plain, Past, ToolPoints, Idle
<1>5. CASE LastFinishWaited(x)
  <2>1. Goes("tool_last", {"controller"})
    BY <1>5 DEF LastFinishWaited, Refused, Go, store, service, authority, thread, activity, IInv, TypeOK
  <2> QED
    BY <1>0, <2>1 DEF Plain, Past, ToolPoints, Idle
<1>6. ASSUME NEW r \in Results, ControllerReturns(x, r) PROVE Plain(x)
  <2>1. Goes("controller", {"returned"})
    BY <1>6 DEF ControllerReturns, Refused, Go, store, service, authority, thread, activity, IInv, TypeOK
  <2> QED
    BY <1>0, <2>1 DEF Plain, Past, ToolPoints, Idle
<1>7. CASE ControllerRaises(x)
  <2>1. Goes("controller", {"fault"})
    BY <1>7 DEF ControllerRaises, Refused, Go, store, service, authority, thread, activity, IInv, TypeOK
  <2>2. digest[TaskOf[x]] \in Execs
    BY <2>1, AdmittedRow DEF Admitted
  <2> QED
    BY <1>0, <2>1, <2>2 DEF Plain, Past, ToolPoints, Idle
<1>8. CASE CheckReturned(x)
  <2>1. Goes("returned", {"stale", "failing", "commit"})
    BY <1>8 DEF CheckReturned, Refused, Go, store, service, authority, thread, activity, IInv, TypeOK
  <2>2. digest[TaskOf[x]] \in Execs
    BY <2>1, AdmittedRow DEF Admitted
  <2> QED
    BY <1>0, <2>1, <2>2 DEF Plain, Past, ToolPoints, Idle
<1>9. CASE ResultCommitted(x)
  <2>1. Goes("final", {"done", "failing"})
    BY <1>9 DEF ResultCommitted, Refused, Go, store, service, authority, thread, activity, IInv, TypeOK
  <2> QED
    BY <1>0, <2>1 DEF Plain, Past, ToolPoints, Idle
<1>10. CASE FaultCommitted(x)
  <2>1. Goes("final", {"fault_release", "failing"})
    BY <1>10 DEF FaultCommitted, Refused, Go, store, service, authority, thread, activity, IInv, TypeOK
  <2>2. digest[TaskOf[x]] \in Execs
    BY <2>1 DEF CInv, RowInv
  <2> QED
    BY <1>0, <2>1, <2>2 DEF Plain, Past, ToolPoints, Idle
<1>11. CASE FaultRelease(x)
  <2>1. Goes("fault_release", {"stale", "done"})
    BY <1>11 DEF FaultRelease, Refused, Go, store, service, authority, thread, activity, IInv, TypeOK
  <2>2. digest[TaskOf[x]] \in Execs
    BY <2>1 DEF CInv, RowInv
  <2> QED
    BY <1>0, <2>1, <2>2 DEF Plain, Past, ToolPoints, Idle
<1>12. CASE StaleCommitted(x)
  <2>1. Goes("final", {"stale_release"})
    BY <1>12 DEF StaleCommitted, Refused, Go, store, service, authority, thread, activity, IInv, TypeOK
  <2> QED
    BY <1>0, <2>1 DEF Plain, Past, ToolPoints, Idle
<1>13. CASE StaleRelease(x)
  <2>1. Goes("stale_release", {"done"})
    BY <1>13 DEF StaleRelease, Refused, Go, store, service, authority, thread, activity, IInv, TypeOK
  <2> QED
    BY <1>0, <2>1 DEF Plain, Past, ToolPoints, Idle
<1>14. CASE FailRelease(x)
  <2>1. Goes("failing", {"done"})
    BY <1>14 DEF FailRelease, Refused, Go, store, service, authority, thread, activity, IInv, TypeOK
  <2> QED
    BY <1>0, <2>1 DEF Plain, Past, ToolPoints, Idle
<1> QED
  BY <1>1, <1>2, <1>3, <1>4, <1>5, <1>6, <1>7, <1>8, <1>9, <1>10, <1>11, <1>12, <1>13, <1>14

\* The branches of other steps that are.
LEMMA PlainBranches ==
  ASSUME IInv, CInv, NEW x \in Execs,
         \/ FinishWaited(x) /\ pc'[x] = "controller"
         \/ ToolStartWaited(x) /\ pc'[x] = "controller"
         \/ Commit(x) /\ Refused(x)
  PROVE  Plain(x)
<1>1. /\ pc[x] \in {"tool_finish", "tool_start", "commit"}
      /\ pc'[x] \in {"controller", "stale", "failing"}
      /\ \A y \in Execs \ {x} : pc'[y] = pc[y]
      /\ UNCHANGED <<state, digest, call, ordinal, live, log, queue, receipt>>
  <2>1. CASE FinishWaited(x) /\ pc'[x] = "controller"
    BY <2>1 DEF FinishWaited, Go, store, service, IInv, TypeOK
  <2>2. CASE ToolStartWaited(x) /\ pc'[x] = "controller"
    BY <2>2 DEF ToolStartWaited, Go, store, service, IInv, TypeOK
  <2>3. CASE Commit(x) /\ Refused(x)
    BY <2>3 DEF Commit, Refused, Go, store, service, activity, IInv, TypeOK
  <2> QED
    BY <2>1, <2>2, <2>3
<1>2. SaysLess /\ Asking' \subseteq Asking \cup {x}
      /\ \A y \in Execs : receipt'[y] = "duplicate" => receipt[y] = "duplicate"
  BY <1>1, SameSaysLess
<1>3. digest[TaskOf[x]] \in Execs
  BY <1>1, AdmittedRow DEF Admitted
<1> QED
  BY <1>1, <1>2, <1>3 DEF Plain, Past, ToolPoints, Idle

-----------------------------------------------------------------------------
(* Tool calls and the terminal.                                            *)

\* A step of the tool call of x, or one that closes its task.
Works(x) ==
  /\ pc[x] \notin Idle
  /\ UNCHANGED <<state, digest>>
  /\ \A y \in Execs \ {x} : UNCHANGED <<pc[y], call[y], ordinal[y]>>
  /\ Asking' \subseteq Asking \cup {x}
  /\ \A y \in Execs : receipt'[y] = "duplicate" => receipt[y] = "duplicate"
  /\ pc'[x] \in ToolPoints \cup {"final"}
  /\ digest[TaskOf[x]] \in Execs

\* Such a step keeps turns serial and rows with their creators.
LEMMA WorksInv ==
  ASSUME CInv, NEW x \in Execs, Works(x)
  PROVE  TurnInv' /\ RowInv'
<1>1. pc'[x] \notin Idle \cup {"register", "admission"}
  BY DEF Works, ToolPoints, Idle
<1>2. TurnInv'
  BY <1>1 DEF CInv, TurnInv, Works
<1>3. RowInv'
  BY <1>1 DEF CInv, RowInv, Works, Idle
<1> QED
  BY <1>2, <1>3

\* A call is announced under an ordinal that is not used up.
LEMMA StartToolCInv ==
  ASSUME IInv, IInv', CInv, NEW x \in Execs, NEW k \in Tools, StartTool(x, k)
  PROVE  CInv'
<1> DEFINE c == <<TaskOf[x], ordinal[x], k>>
<1>1. /\ pc[x] = "controller" /\ pc'[x] = "tool_start" /\ call'[x] = c
      /\ \A y \in Execs \ {x} : UNCHANGED <<pc[y], call[y]>>
      /\ UNCHANGED <<state, digest, ordinal, live, log>>
      /\ Put(x, TaskOf[x], StartedEvent(c))
  BY DEF StartTool, Go, store, IInv, TypeOK
<1>2. c \in Calls /\ StartedEvent(c) \in Events /\ TaskOf[x] \in Tasks /\ x \in Callers
  <2>1. c \in Calls
    BY ConstantsAssumption DEF IInv, TypeOK, Calls
  <2> HIDE DEF c
  <2> QED
    BY <2>1, EventTypes, ConstantsAssumption DEF Callers
<1>3. c[2] = ordinal[x]
  OBVIOUS
<1> HIDE DEF c
<1>4. SaysLess /\ Asking' \subseteq Asking \cup {x}
      /\ \A y \in Execs : receipt'[y] = "duplicate" => receipt[y] = "duplicate"
  BY <1>1, <1>2, HarmlessPut, HarmlessEvents DEF IInv, Callers
<1>5. digest[TaskOf[x]] = x
  BY <1>1, AdmittedRow DEF Admitted
<1>6. TurnInv' /\ RowInv'
  <2>1. Works(x)
    BY <1>1, <1>4, <1>5 DEF Works, Idle, ToolPoints
  <2> QED
    BY <2>1, WorksInv
<1>7. OrdinalInv'
  BY <1>1, <1>3 DEF CInv, OrdinalInv
<1>8. SaidInv'
  <2>1. \A y \in Execs : ordinal[y] \in Nat
    BY ConstantsAssumption DEF IInv, TypeOK
  <2>2. Keeps
    BY <1>1, <2>1 DEF Keeps, RowsStay, Past
  <2> QED
    BY <1>4, <2>2, SaidKeeps DEF IInv, CInv
<1> QED
  BY <1>6, <1>7, <1>8 DEF CInv

\* The start of a call is acknowledged: its ordinal is new.
LEMMA ToolStartedCInv ==
  ASSUME IInv, IInv', CInv, NEW x \in Execs, ToolStartWaited(x), pc'[x] = "tool"
  PROVE  CInv'
<1> DEFINE c == call[x]
<1>1. /\ pc[x] = "tool_start" /\ call' = call
      /\ ordinal' = [ordinal EXCEPT ![x] = ordinal[x] + 1]
      /\ \A y \in Execs \ {x} : pc'[y] = pc[y]
      /\ UNCHANGED <<state, digest, live, log, queue, receipt>>
  BY DEF ToolStartWaited, Go, store, service, IInv, TypeOK
<1>2. /\ \A y \in Execs : ordinal[y] \in Nat
      /\ ordinal'[x] = ordinal[x] + 1
      /\ \A y \in Execs \ {x} : ordinal'[y] = ordinal[y]
  BY <1>1, ConstantsAssumption DEF IInv, TypeOK
<1>3. digest[TaskOf[x]] = x /\ TaskOf[x] \in Tasks
  BY <1>1, AdmittedRow, ConstantsAssumption DEF Admitted
<1>4. c \in Calls /\ c[1] = TaskOf[x] /\ c[2] = ordinal[x]
  BY <1>1 DEF IInv, CallInv, CInv, OrdinalInv, ToolPoints
<1>5. c \notin live
  BY <1>2, <1>3, <1>4 DEF CInv, OrdinalInv
<1>6. TurnInv' /\ RowInv'
  <2>1. Works(x)
    BY <1>1, <1>2, <1>3, SameSaysLess DEF Works, Idle, ToolPoints
  <2> QED
    BY <2>1, WorksInv
<1>7. OrdinalInv'
  <2>1. \A y \in Execs :
          /\ pc'[y] = "tool_start" => call[y][2] = ordinal'[y]
          /\ pc'[y] \in {"tool", "tool_run", "tool_finish", "tool_last"} => call[y][2] < ordinal'[y]
          /\ pc'[y] = "tool" => call[y] \notin live
    BY <1>1, <1>2, <1>4, <1>5 DEF CInv, OrdinalInv
  <2>2. ASSUME NEW d \in live
        PROVE  digest[d[1]] \in Execs /\ d[2] < ordinal'[digest[d[1]]] /\ d[3] \in SpawningTools
    <3>1. digest[d[1]] \in Execs /\ d[2] < ordinal[digest[d[1]]] /\ d[3] \in SpawningTools
      BY DEF CInv, OrdinalInv
    <3>2. d[2] \in Nat
      BY DEF IInv, TypeOK, Calls
    <3> QED
      BY <1>2, <3>1, <3>2
  <2> QED
    BY <1>1, <2>1, <2>2 DEF OrdinalInv
<1>8. SaidInv'
  <2> SUFFICES ASSUME NEW t \in Tasks, NEW ev \in Said(t) PROVE Says(t, ev)'
    BY <1>1, SaidSame DEF SaidInv
  <2>1. Says(t, ev) /\ (digest[t] \in Execs => TaskOf[digest[t]] = t)
    BY DEF CInv, SaidInv, RowInv
  <2>2. ASSUME FinishedInv(t, ev) PROVE FinishedInv(t, ev)'
    <3>1. /\ digest[t] \in Execs /\ ev.call \in Calls /\ ev.call[1] = t
          /\ ev.call[2] < ordinal[digest[t]] /\ ev.call[2] \in Nat
      BY <2>2 DEF FinishedInv, Calls
    <3>2. ev.call[2] < ordinal'[digest[t]]
      BY <1>2, <3>1
    <3>3. pc'[digest[t]] \in {"tool", "tool_run"} => ev.call # call[digest[t]]
      <4>1. CASE digest[t] = x
        BY <1>2, <1>4, <3>1, <4>1
      <4>2. CASE digest[t] # x
        BY <1>1, <2>2, <3>1, <4>2 DEF FinishedInv
      <4> QED
        BY <4>1, <4>2
    <3> QED
      BY <1>1, <2>2, <3>1, <3>2, <3>3 DEF FinishedInv
  <2>3. ASSUME ClosedInv(t, ev) PROVE ClosedInv(t, ev)'
    BY <1>1, <2>3 DEF ClosedInv, Over, Past
  <2> QED
    BY <2>1, <2>2, <2>3 DEF Says
<1> QED
  BY <1>6, <1>7, <1>8 DEF CInv

\* A process starts: its call has not ended and its task is not closed.
LEMMA SpawnCInv ==
  ASSUME IInv, IInv', CInv, NEW x \in Execs, Spawn(x)
  PROVE  CInv'
<1> DEFINE c == call[x]
<1>1. /\ pc[x] = "tool" /\ pc'[x] = "tool_run" /\ c[3] \in SpawningTools
      /\ live' = live \cup {c}
      /\ \A y \in Execs \ {x} : pc'[y] = pc[y]
      /\ UNCHANGED <<state, digest, log, queue, receipt, call, ordinal>>
  BY DEF Spawn, Go, store, service, activity, IInv, TypeOK
<1>2. digest[TaskOf[x]] = x /\ TaskOf[x] \in Tasks
  BY <1>1, AdmittedRow, ConstantsAssumption DEF Admitted
<1>3. c \in Calls /\ c[1] = TaskOf[x] /\ c[2] < ordinal[x]
  BY <1>1 DEF IInv, CallInv, CInv, OrdinalInv, ToolPoints
<1>4. \A y \in Execs \ {x} : pc[y] \in Idle
  BY <1>1 DEF CInv, TurnInv, Idle
<1>5. TurnInv' /\ RowInv'
  <2>1. Works(x)
    BY <1>1, <1>2, SameSaysLess DEF Works, Idle, ToolPoints
  <2> QED
    BY <2>1, WorksInv
<1>6. OrdinalInv'
  <2>1. \A y \in Execs :
          /\ pc'[y] = "tool_start" => call[y][2] = ordinal[y]
          /\ pc'[y] \in {"tool", "tool_run", "tool_finish", "tool_last"} => call[y][2] < ordinal[y]
          /\ pc'[y] # "tool"
    BY <1>1, <1>3, <1>4 DEF CInv, OrdinalInv, Idle
  <2>2. \A d \in live' : digest[d[1]] \in Execs /\ d[2] < ordinal[digest[d[1]]]
                         /\ d[3] \in SpawningTools
    BY <1>1, <1>2, <1>3 DEF CInv, OrdinalInv
  <2> QED
    BY <1>1, <2>1, <2>2 DEF OrdinalInv
<1>7. SaidInv'
  <2> SUFFICES ASSUME NEW t \in Tasks, NEW ev \in Said(t) PROVE Says(t, ev)'
    BY <1>1, SaidSame DEF SaidInv
  <2>1. Says(t, ev)
    BY DEF CInv, SaidInv
  <2>2. ASSUME FinishedInv(t, ev) PROVE FinishedInv(t, ev)'
    <3>1. ev.call # c
      BY <1>1, <1>2, <1>3, <2>2 DEF FinishedInv
    <3>2. pc'[digest[t]] \in {"tool", "tool_run"} => ev.call # call[digest[t]]
      BY <1>1, <2>2, <3>1 DEF FinishedInv
    <3> QED
      BY <1>1, <2>2, <3>1, <3>2 DEF FinishedInv
  <2>3. ASSUME ClosedInv(t, ev) PROVE ClosedInv(t, ev)'
    <3>1. ev.cleanup \in {"not_needed", "confirmed"} => t # TaskOf[x]
      BY <1>1, <1>2, <2>3 DEF ClosedInv, Over, Past
    <3> QED
      BY <1>1, <1>3, <2>3, <3>1 DEF ClosedInv, Over, Past
  <2> QED
    BY <2>1, <2>2, <2>3 DEF Says
<1> QED
  BY <1>5, <1>6, <1>7 DEF CInv

\* A call ends: its end says that nothing is left only when nothing is.
LEMMA FinishCInv ==
  ASSUME IInv, IInv', CInv, NEW x \in Execs, NEW end \in Ends, NEW p \in {"tool_finish", "tool_last"},
         pc[x] \in {"tool", "tool_run", "tool_finish"},
         Put(x, TaskOf[x], FinishedEvent(call[x], end)), Go(x, p),
         UNCHANGED <<state, digest, log, call, ordinal>>, live' \subseteq live,
         end \in CleanEnds /\ call[x][3] \in SpawningTools => call[x] \notin live'
  PROVE  CInv'
<1> DEFINE ev == FinishedEvent(call[x], end)
<1>1. pc'[x] = p /\ \A y \in Execs \ {x} : pc'[y] = pc[y]
  BY DEF Go, IInv, TypeOK
<1>2. call[x] \in Calls /\ call[x][1] = TaskOf[x] /\ call[x][2] < ordinal[x]
  BY DEF IInv, CallInv, CInv, OrdinalInv, ToolPoints
<1>3. ev \in Events /\ TaskOf[x] \in Tasks /\ x \in Callers
  BY <1>2, EventTypes, ConstantsAssumption DEF Callers
<1>4. ev.kind = "finished" /\ ev.call = call[x] /\ ev.end = end
  BY DEF FinishedEvent, Event
<1>5. digest[TaskOf[x]] = x
  BY AdmittedRow DEF Admitted
<1> HIDE DEF ev
<1>6. /\ \A u \in Tasks \ {TaskOf[x]} : Said(u)' \subseteq Said(u)
      /\ Said(TaskOf[x])' \subseteq Said(TaskOf[x]) \cup {ev}
      /\ Asking' \subseteq Asking \cup {x}
      /\ \A y \in Execs : receipt'[y] = "duplicate" => receipt[y] = "duplicate"
  BY <1>3, SaidPut DEF ev, IInv, Callers
<1>7. TurnInv' /\ RowInv'
  <2>1. Works(x)
    BY <1>1, <1>5, <1>6 DEF Works, Idle, ToolPoints
  <2> QED
    BY <2>1, WorksInv
<1>8. OrdinalInv'
  BY <1>1 DEF CInv, OrdinalInv
<1>9. SaidInv'
  <2>1. \A y \in Execs : ordinal[y] \in Nat
    BY ConstantsAssumption DEF IInv, TypeOK
  <2>2. Keeps
    BY <1>1, <2>1 DEF Keeps, RowsStay, Past
  <2> SUFFICES ASSUME NEW t \in Tasks, NEW e \in Said(t)' PROVE Says(t, e)'
    BY DEF SaidInv
  <2>3. CASE e \in Said(t)
    BY <2>2, <2>3, SaysKept DEF CInv, SaidInv, Says, IInv
  <2>4. CASE t = TaskOf[x] /\ e = ev
    <3>1. FinishedInv(t, e)'
      BY <1>1, <1>2, <1>4, <1>5, <2>4 DEF FinishedInv
    <3> QED
      BY <1>4, <2>4, <3>1 DEF Says
  <2> QED
    BY <1>6, <2>3, <2>4
<1> QED
  BY <1>7, <1>8, <1>9 DEF CInv

\* Every way a call ends preserves the invariant.
LEMMA ToolEndsCInv ==
  ASSUME IInv, IInv', CInv, NEW x \in Execs,
         \/ HandlerWithoutProcess(x)
         \/ \E end \in {"ok", "timeout", "broke"} : CommandReturns(x, end)
         \/ \E end \in {"stopped", "unsettled", "broke"} : CommandRaises(x, end)
         \/ FinishWaited(x) /\ pc'[x] # "controller"
  PROVE  CInv'
<1>1. CASE HandlerWithoutProcess(x)
  <2>1. call[x] \notin live
    BY <1>1 DEF HandlerWithoutProcess, CInv, OrdinalInv
  <2>2. PICK end \in {"ok", "not_started"}, p \in {"tool_finish", "tool_last"} : Finish(x, end, p)
    BY <1>1 DEF HandlerWithoutProcess
  <2> QED
    BY <1>1, <2>1, <2>2, FinishCInv DEF HandlerWithoutProcess, Finish, Ends, store, activity
<1>2. ASSUME NEW end \in {"ok", "timeout", "broke"}, CommandReturns(x, end) PROVE CInv'
  BY <1>2, FinishCInv DEF CommandReturns, Finish, Ends, CleanEnds, store, activity
<1>3. ASSUME NEW end \in {"stopped", "unsettled", "broke"}, CommandRaises(x, end) PROVE CInv'
  BY <1>3, FinishCInv DEF CommandRaises, Finish, Ends, CleanEnds, store, activity
<1>4. CASE FinishWaited(x) /\ pc'[x] # "controller"
  <2>1. /\ pc[x] = "tool_finish" /\ Put(x, TaskOf[x], FinishedEvent(call[x], "broke"))
        /\ Go(x, "tool_last") /\ UNCHANGED <<state, digest, log, call, ordinal, live>>
    BY <1>4 DEF FinishWaited, Go, store, IInv, TypeOK
  <2> QED
    BY <2>1, FinishCInv DEF Ends, CleanEnds
<1> QED
  BY <1>1, <1>2, <1>3, <1>4

\* The derivation of cleanup from the events is true of the processes.
LEMMA CleanupMeans ==
  ASSUME IInv, CInv, NEW t \in Tasks, Cleanup(t) \in {"not_needed", "confirmed"},
         NEW c \in live
  PROVE  c[1] # t
<1> SUFFICES ASSUME c[1] = t PROVE FALSE
  OBVIOUS
<1> DEFINE marks == {i \in DOMAIN log[t] : log[t][i].call = c}
<1>1. /\ log[t] \in Seq(Events) /\ Len(log[t]) \in Nat /\ DOMAIN log[t] = 1 .. Len(log[t])
      /\ c \in Calls /\ c[3] \in SpawningTools
  BY LenProperties DEF IInv, TypeOK, CInv, OrdinalInv
<1>2. c \in StartedCalls(t) /\ marks # {}
  BY <1>1 DEF IInv, RecordInv, Recorded, StartedCalls
<1>3. \A i \in marks : log[t][i] \in Said(t) /\ log[t][i].call = c
  BY <1>1 DEF Said
<1>4. marks \subseteq 1 .. Len(log[t])
  BY <1>1
<1>5. PICK i \in marks : LastEnd(t, c) = log[t][i].end
  <2> DEFINE last == CHOOSE i \in marks : \A j \in marks : j <= i
  <2>1. LastEnd(t, c) = log[t][last].end
    BY DEF LastEnd
  <2>2. \E i \in marks : \A j \in marks : j <= i
    <3> HIDE DEF marks
    <3> QED  BY <1>1, <1>2, <1>4, LastPlace
  <2>3. last \in marks
    <3> HIDE DEF marks
    <3> QED  BY <2>2
  <2> QED
    BY <2>1, <2>3
<1> HIDE DEF marks
<1>6. LastEnd(t, c) \notin CleanEnds
  <2>1. Says(t, log[t][i])
    BY <1>3 DEF CInv, SaidInv
  <2> QED
    BY <1>1, <1>3, <1>5, <2>1 DEF Says, FinishedInv, CleanEnds
<1>7. LastEnd(t, c) \in ProcessEnds(t)
  BY <1>1, <1>2, <1>6 DEF ProcessEnds, ProcessCalls, CleanEnds
<1> QED
  BY <1>6, <1>7 DEF Cleanup, CleanEnds

\* A task is closed: its creator has no more to do.
LEMMA FinalizeCInv ==
  ASSUME IInv, IInv', CInv, NEW x \in Execs, pc[x] \in {"commit", "fault", "stale"},
         NEW status \in Terminal, NEW reason \in Reasons, NEW handler,
         FinalizeResult(x, status, reason, handler)
  PROVE  CInv'
<1> DEFINE t == TaskOf[x]
           q == Cleanup(t)
           trusted == status # "completed" \/ q \in {"not_needed", "confirmed"}
           s == IF trusted THEN status ELSE "unknown"
           r == IF trusted THEN reason ELSE "cleanup_unknown"
           ev == ClosedEvent(s, q, r)
<1>1. q \in Cleanups /\ s \in Terminal /\ r \in Reasons /\ t \in Tasks /\ x \in Callers
  BY CleanupType, ConstantsAssumption DEF Terminal, Reasons, Callers
<1>2. /\ Put(x, t, ev) /\ Go(x, "final")
      /\ UNCHANGED <<state, digest, log, call, ordinal, live>>
  BY DEF FinalizeResult, store, activity
<1> HIDE DEF s, r, q
<1>3. ev \in Events /\ ev.kind = "closed" /\ ev.cleanup = q /\ ev.end = "none"
  BY <1>1, EventTypes DEF ClosedEvent, Event
<1>4. pc'[x] = "final" /\ \A y \in Execs \ {x} : pc'[y] = pc[y]
  BY <1>2 DEF Go, IInv, TypeOK
<1>5. digest[t] \in Execs
  <2>1. CASE pc[x] = "commit"
    BY <2>1, AdmittedRow DEF Admitted
  <2>2. CASE pc[x] # "commit"
    BY <2>2 DEF CInv, RowInv
  <2> QED
    BY <2>1, <2>2
<1>6. pc'[digest[t]] \in Past
  <2>1. CASE digest[t] = x
    BY <1>4, <2>1 DEF Past
  <2>2. CASE digest[t] # x
    <3>1. pc[digest[t]] \in Idle
      BY <1>5, <2>2 DEF CInv, TurnInv, Idle
    <3>2. pc[digest[t]] # "new"
      BY <1>1, <1>5 DEF CInv, RowInv
    <3> QED
      BY <1>4, <1>5, <2>2, <3>1, <3>2 DEF Past, Idle
  <2> QED
    BY <2>1, <2>2
<1>7. q \in {"not_needed", "confirmed"} => \A c \in live : c[1] # t
  BY <1>1, CleanupMeans DEF q
<1> HIDE DEF ev, t
<1>8. /\ \A u \in Tasks \ {t} : Said(u)' \subseteq Said(u)
      /\ Said(t)' \subseteq Said(t) \cup {ev}
      /\ Asking' \subseteq Asking \cup {x}
      /\ \A y \in Execs : receipt'[y] = "duplicate" => receipt[y] = "duplicate"
  BY <1>1, <1>2, <1>3, SaidPut DEF IInv, Callers
<1>9. TurnInv' /\ RowInv'
  <2>1. Works(x)
    BY <1>2, <1>4, <1>5, <1>8 DEF Works, Idle, ToolPoints, t
  <2> QED
    BY <2>1, WorksInv
<1>10. OrdinalInv'
  BY <1>2, <1>4 DEF CInv, OrdinalInv
<1>11. SaidInv'
  <2>1. \A y \in Execs : ordinal[y] \in Nat
    BY ConstantsAssumption DEF IInv, TypeOK
  <2>2. Keeps
    BY <1>2, <1>4, <2>1 DEF Keeps, RowsStay, Past
  <2> SUFFICES ASSUME NEW u \in Tasks, NEW e \in Said(u)' PROVE Says(u, e)'
    BY DEF SaidInv
  <2>3. CASE e \in Said(u)
    BY <2>2, <2>3, SaysKept DEF CInv, SaidInv, Says, IInv
  <2>4. CASE u = t /\ e = ev
    <3>1. ClosedInv(t, e)'
      BY <1>2, <1>3, <1>5, <1>6, <1>7, <2>4 DEF ClosedInv, Over
    <3> QED
      BY <1>3, <2>4, <3>1 DEF Says
  <2> QED
    BY <1>8, <2>3, <2>4
<1> QED
  BY <1>9, <1>10, <1>11 DEF CInv

-----------------------------------------------------------------------------
(* The writer and the rest.                                                *)

\* A step of the writer, of the Stop or of the start-up that writes no row, or
\* of a process that ends.
Calm ==
  /\ UNCHANGED <<state, digest, pc, call, ordinal>>
  /\ live' \subseteq live
  /\ SaysLess
  /\ \A y \in Execs : y \in Asking' => y \in Asking
  /\ \A y \in Execs : receipt'[y] = "duplicate" => receipt[y] = "duplicate"

\* A calm step preserves the invariant.
LEMMA CalmInv ==
  ASSUME TypeOK, TypeOK', CInv, Calm
  PROVE  CInv'
<1>1. TurnInv' /\ RowInv' /\ OrdinalInv'
  BY DEF CInv, TurnInv, RowInv, OrdinalInv, Calm
<1>2. SaidInv'
  <2>1. \A y \in Execs : ordinal[y] \in Nat
    BY ConstantsAssumption DEF TypeOK
  <2>2. Keeps
    BY <2>1 DEF Keeps, RowsStay, Calm
  <2> QED
    BY <2>2, SaidKeeps DEF CInv, Calm
<1> QED
  BY <1>1, <1>2 DEF CInv

\* What is left in the queue was in it.
LEMMA TailSaid ==
  ASSUME TypeOK, queue # <<>>, queue' = Tail(queue)
  PROVE  /\ Asking' \subseteq Asking
         /\ \A i \in 1 .. Len(queue') : \E j \in 1 .. Len(queue) : queue'[i] = queue[j]
<1>1. \A i \in 1 .. Len(queue') : i + 1 \in 1 .. Len(queue) /\ queue'[i] = queue[i + 1]
  BY TailFacts DEF TypeOK
<1> QED
  BY <1>1 DEF Asking

\* A failed write is calm.
LEMMA WriteFailsCalm ==
  ASSUME IInv, WriteFails
  PROVE  Calm
<1>1. /\ queue # <<>> /\ queue' = Tail(queue) /\ Receive(Head(queue), "error")
      /\ UNCHANGED <<state, digest, pc, call, ordinal, live, log>>
  BY DEF WriteFails, store, thread, activity
<1>2. \A y \in Execs : receipt'[y] = receipt[y] \/ receipt'[y] = "error"
  BY <1>1, ReceiveFacts DEF IInv, Callers
<1>3. SaysLess /\ Asking' \subseteq Asking
  BY <1>1, TailSaid DEF SaysLess, Said, IInv
<1> QED
  BY <1>1, <1>2, <1>3 DEF Calm

\* So is a wait that times out.
LEMMA WaitTimesOutCalm ==
  ASSUME IInv, NEW a \in Callers, WaitTimesOut(a)
  PROVE  Calm
<1>1. /\ receipt' = [receipt EXCEPT ![a] = "error"]
      /\ queue' = [i \in DOMAIN queue |-> [queue[i] EXCEPT !.waited = @ /\ queue[i].by # a]]
      /\ UNCHANGED <<state, digest, pc, call, ordinal, live, log>>
  BY DEF WaitTimesOut, store, thread, activity
<1>2. /\ DOMAIN queue = 1 .. Len(queue) /\ Len(queue) \in Nat
      /\ \A i \in 1 .. Len(queue) : queue[i] \in Commands
  BY LenProperties, ElementOfSeq DEF IInv, TypeOK
<1>3. Len(queue') = Len(queue)
  <2>1. DOMAIN queue' = 1 .. Len(queue) /\ queue' \in [1 .. Len(queue) -> Commands]
    BY <1>1, <1>2 DEF Commands
  <2> QED
    BY <1>2, <2>1, LenProperties, SeqDef
<1>4. \A i \in 1 .. Len(queue) :
        queue'[i].task = queue[i].task /\ queue'[i].ev = queue[i].ev /\ queue'[i].by = queue[i].by
  BY <1>1, <1>2 DEF Commands
<1>5. SaysLess /\ Asking' \subseteq Asking
  BY <1>1, <1>3, <1>4 DEF SaysLess, Said, Asking
<1>6. \A y \in Execs : receipt'[y] = "duplicate" => receipt[y] = "duplicate"
  BY <1>1 DEF IInv, TypeOK, Callers
<1> QED
  BY <1>1, <1>5, <1>6 DEF Calm

\* So are Stop, closing, opening, recovery and the end of a process.
LEMMA OthersCalm ==
  ASSUME IInv,
         \/ \E t \in Tasks : RequestCancel(t)
         \/ CancelWaited
         \/ Quit
         \/ Open
         \/ RecoveryStep
         \/ \E c \in live : ProcessExits(c)
         \/ UNCHANGED vars
  PROVE  Calm
<1>0. ASSUME UNCHANGED <<state, digest, pc, call, ordinal, log, queue, receipt>>, live' \subseteq live
      PROVE  Calm
  BY <1>0, SameSaysLess DEF Calm
<1>1. ASSUME NEW t \in Tasks, RequestCancel(t) PROVE Calm
  <2>1. /\ Put(Stopper, t, Event("cancel_requested"))
        /\ UNCHANGED <<state, digest, pc, call, ordinal, live, log>>
    BY <1>1 DEF RequestCancel, store, thread, activity
  <2>2. Event("cancel_requested") \in Events /\ Stopper \in Callers
    BY EventTypes DEF Kinds, Callers
  <2>3. /\ SaysLess /\ Asking' \subseteq Asking \cup {Stopper}
        /\ \A y \in Execs : receipt'[y] = "duplicate" => receipt[y] = "duplicate"
    BY <2>1, <2>2, HarmlessPut, HarmlessEvents DEF IInv, Callers
  <2> QED
    BY <2>1, <2>3, ConstantsAssumption DEF Calm
<1>2. ASSUME NEW t \in Tasks, RecoverTask(t) PROVE Calm
  <2> DEFINE ev == ClosedEvent("unknown", "unknown", "controller_restarted")
  <2>1. /\ Put(Recovery, t, ev)
        /\ UNCHANGED <<state, digest, pc, call, ordinal, live, log>>
    BY <1>2 DEF RecoverTask, store, thread, activity
  <2>2. ev \in Events /\ Recovery \in Callers
    BY EventTypes DEF Terminal, Cleanups, Reasons, Callers
  <2>3. Harmless(ev)
    BY HarmlessEvents
  <2> HIDE DEF ev
  <2>4. /\ SaysLess /\ Asking' \subseteq Asking \cup {Recovery}
        /\ \A y \in Execs : receipt'[y] = "duplicate" => receipt[y] = "duplicate"
    BY <2>1, <2>2, <2>3, HarmlessPut DEF IInv, Callers
  <2> QED
    BY <2>1, <2>4, ConstantsAssumption DEF Calm
<1>3. CASE CancelWaited
  BY <1>0, <1>3 DEF CancelWaited, store, service, thread, activity
<1>4. CASE Quit
  BY <1>0, <1>4 DEF Quit, store, service, thread, activity
<1>5. CASE Open
  BY <1>0, <1>5 DEF Open, store, service, thread, activity
<1>6. CASE RecoveryFails \/ Recovered
  BY <1>0, <1>6 DEF RecoveryFails, Recovered, store, service, thread, activity
<1>7. ASSUME NEW c \in live, ProcessExits(c) PROVE Calm
  BY <1>0, <1>7 DEF ProcessExits, store, service, thread, activity
<1>8. CASE UNCHANGED vars
  BY <1>0, <1>8 DEF vars, store, service, thread, activity
<1> QED
  BY <1>1, <1>2, <1>3, <1>4, <1>5, <1>6, <1>7, <1>8 DEF RecoveryStep

\* The store accepts a command: a row is created once, and nothing new is said.
LEMMA WriteCInv ==
  ASSUME IInv, IInv', CInv, Write
  PROVE  CInv'
<1> DEFINE h == Head(queue)
           answer == Answer(h)
<1>1. /\ queue # <<>> /\ queue' = Tail(queue) /\ Receive(h, answer)
      /\ UNCHANGED <<pc, call, ordinal, live>>
      /\ answer = "ok" =>
           /\ state' = [state EXCEPT ![h.task] = NewState(h)]
           /\ digest' = IF h.ev.kind = "admitted" THEN [digest EXCEPT ![h.task] = h.by] ELSE digest
           /\ log' = [log EXCEPT ![h.task] = Append(log[h.task], h.ev)]
      /\ answer # "ok" => state' = state /\ digest' = digest /\ log' = log
  BY DEF Write, store, thread, activity
<1>2. /\ h \in Commands /\ h = queue[1] /\ 1 \in 1 .. Len(queue) /\ CommandOK(h)
  BY <1>1, TailFacts DEF IInv, TypeOK, QueueInv
<1>3. answer \in {"ok", "duplicate", "error"}
  BY DEF Answer
<1>4. /\ h.task \in Tasks /\ h.ev \in Events /\ h.by \in Callers
      /\ h.by \in Asking /\ h.ev \in Said(h.task)
  BY <1>2 DEF Commands, Asking, Said
<1>5. /\ answer = "ok" => /\ NewState(h) # "absent"
                          /\ h.ev.kind = "admitted" <=> state[h.task] = "absent"
      /\ answer = "duplicate" => state[h.task] # "absent"
  BY <1>2, <1>4 DEF IInv, TypeOK, Answer, NewState, CommandOK, Terminal, Results
<1>6. h.ev.kind = "admitted" => h.by \in Execs /\ h.task = TaskOf[h.by]
  BY <1>2 DEF CommandOK
<1>7. \A y \in Execs : receipt'[y] = "duplicate" /\ receipt[y] # "duplicate" =>
                         answer = "duplicate" /\ h.by = y /\ Awaited(h)
  BY <1>1, <1>3, ReceiveFacts DEF IInv, Callers
<1> HIDE DEF h, answer
<1>8. /\ Asking' \subseteq Asking
      /\ \A i \in 1 .. Len(queue') : \E j \in 1 .. Len(queue) : queue'[i] = queue[j]
  BY <1>1, TailSaid DEF IInv
<1>9. \A t \in Tasks : Said(t)' \subseteq Said(t)
  <2>0. \A t \in Tasks : \A i \in 1 .. Len(queue') : queue'[i].task = t => queue'[i].ev \in Said(t)
    BY <1>8 DEF Said
  <2>a. \A t \in Tasks : \A e \in Said(t)' :
          \/ \E i \in 1 .. Len(log'[t]) : e = log'[t][i]
          \/ \E i \in 1 .. Len(queue') : queue'[i].task = t /\ e = queue'[i].ev
    BY DEF Said
  <2> SUFFICES ASSUME NEW t \in Tasks, NEW i \in 1 .. Len(log'[t]) PROVE log'[t][i] \in Said(t)
    BY <2>0, <2>a
  <2>1. log[t] \in Seq(Events) /\ Len(log[t]) \in Nat
    BY LenProperties DEF IInv, TypeOK
  <2>2. CASE log'[t] = log[t]
    BY <2>2 DEF Said
  <2>3. CASE t = h.task /\ log'[t] = Append(log[t], h.ev)
    <3>1. /\ Len(log'[t]) = Len(log[t]) + 1 /\ log'[t][Len(log[t]) + 1] = h.ev
          /\ \A j \in 1 .. Len(log[t]) : log'[t][j] = log[t][j]
      BY <1>4, <2>1, <2>3, AppendProperties
    <3>2. CASE i \in 1 .. Len(log[t])
      BY <3>1, <3>2 DEF Said
    <3>3. CASE i = Len(log[t]) + 1
      BY <1>4, <2>3, <3>1, <3>3
    <3> QED
      BY <2>1, <3>1, <3>2, <3>3
  <2>4. log' = log \/ log' = [log EXCEPT ![h.task] = Append(log[h.task], h.ev)]
    BY <1>1
  <2>5. DOMAIN log = Tasks
    BY DEF IInv, TypeOK
  <2>6. log'[t] = log[t] \/ (t = h.task /\ log'[t] = Append(log[t], h.ev))
    BY <1>4, <2>4, <2>5
  <2> QED
    BY <2>2, <2>3, <2>6
<1>10. /\ \A t \in Tasks : state[t] # "absent" <=> digest[t] \in Execs
       /\ digest \in [Tasks -> Execs \cup {None}] /\ DOMAIN state = Tasks
  BY DEF CInv, RowInv, IInv, TypeOK
<1>11. RowsStay
  BY <1>1, <1>4, <1>5, <1>10 DEF RowsStay
<1>12. \A t \in Tasks : \/ digest'[t] = digest[t] /\ (state'[t] # "absent" <=> state[t] # "absent")
                        \/ digest'[t] = h.by /\ h.by \in Execs /\ t = TaskOf[h.by] /\ state'[t] # "absent"
  BY <1>1, <1>4, <1>5, <1>6, <1>10
<1>13. TurnInv'
  BY <1>1 DEF CInv, TurnInv
<1>14. RowInv'
  <2>1. \A t \in Tasks : digest'[t] \in Execs => TaskOf[digest'[t]] = t
    BY <1>12 DEF CInv, RowInv
  <2>2. \A t \in Tasks : state'[t] # "absent" <=> digest'[t] \in Execs
    BY <1>10, <1>12
  <2>3. \A x \in Execs : pc'[x] = "new" => x \notin Asking' /\ \A t \in Tasks : digest'[t] # x
    BY <1>1, <1>4, <1>8, <1>12 DEF CInv, RowInv
  <2>4. ASSUME NEW x \in Execs,
               \/ pc'[x] \in {"fault", "stale", "fault_release", "final"}
               \/ pc'[x] \in {"register", "admission"} /\ receipt'[x] = "duplicate"
        PROVE  digest'[TaskOf[x]] \in Execs
    <3>1. TaskOf[x] \in Tasks
      BY ConstantsAssumption
    <3>2. CASE receipt'[x] = "duplicate" /\ receipt[x] # "duplicate" /\ pc[x] \in {"register", "admission"}
      <4>1. h.task = TaskOf[x] /\ answer = "duplicate"
        BY <1>7, <3>2 DEF Awaited
      <4> QED
        BY <1>1, <1>5, <1>10, <3>1, <4>1
    <3>3. CASE digest[TaskOf[x]] \in Execs
      BY <1>11, <3>1, <3>3 DEF RowsStay
    <3> QED
      BY <1>1, <2>4, <3>2, <3>3 DEF CInv, RowInv
  <2> QED
    BY <2>1, <2>2, <2>3, <2>4 DEF RowInv
<1>15. OrdinalInv'
  <2>1. \A c \in live : c[1] \in Tasks
    BY DEF IInv, TypeOK, Calls
  <2> QED
    BY <1>1, <1>11, <2>1 DEF CInv, OrdinalInv, RowsStay
<1>16. SaidInv'
  <2>1. \A y \in Execs : ordinal[y] \in Nat
    BY ConstantsAssumption DEF IInv, TypeOK
  <2>2. Keeps /\ SaysLess
    BY <1>1, <1>9, <1>11, <2>1 DEF Keeps, SaysLess
  <2> QED
    BY <2>2, SaidKeeps DEF CInv, IInv
<1> QED
  BY <1>13, <1>14, <1>15, <1>16 DEF CInv

\* The end of the process preserves the invariant: rows and calls survive it.
LEMMA LoseMemoryCInv ==
  ASSUME IInv, IInv', CInv, LoseMemory
  PROVE  CInv'
<1>1. /\ queue' = <<>> /\ Len(queue') = 0 /\ UNCHANGED <<state, digest, log, call, ordinal, live>>
      /\ \A x \in Execs : receipt'[x] = "none" /\ pc'[x] = IF pc[x] \in Idle THEN pc[x] ELSE "lost"
  BY EmptySeq DEF LoseMemory, store, Callers
<1>2. Asking' = {} /\ SaysLess
  BY <1>1 DEF Asking, Said, SaysLess
<1>3. \A x \in Execs : pc'[x] \in Idle /\ (pc'[x] = "new" => pc[x] = "new")
  BY <1>1 DEF Idle
<1>4. TurnInv'
  BY <1>3 DEF TurnInv
<1>5. RowInv'
  BY <1>1, <1>2, <1>3 DEF CInv, RowInv, Idle
<1>6. OrdinalInv'
  BY <1>1, <1>3 DEF CInv, OrdinalInv, Idle
<1>7. SaidInv'
  <2>1. \A y \in Execs : ordinal[y] \in Nat
    BY ConstantsAssumption DEF IInv, TypeOK
  <2>2. Keeps
    BY <1>1, <1>3, <2>1 DEF Keeps, RowsStay, Past, Idle
  <2> QED
    BY <1>2, <2>2, SaidKeeps DEF CInv, IInv
<1> QED
  BY <1>4, <1>5, <1>6, <1>7 DEF CInv

\* It holds initially.
LEMMA InitCInv == Init => CInv
<1> SUFFICES ASSUME Init PROVE CInv
  OBVIOUS
<1>1. Len(queue) = 0 /\ queue = <<>> /\ \A t \in Tasks : log[t] = <<>> /\ Len(log[t]) = 0
  BY EmptySeq DEF Init
<1>2. Asking = {} /\ \A t \in Tasks : Said(t) = {}
  BY <1>1 DEF Asking, Said
<1>3. TurnInv /\ OrdinalInv /\ SaidInv
  BY <1>2 DEF Init, TurnInv, OrdinalInv, SaidInv, Idle
<1>4. RowInv
  BY <1>2, ConstantsAssumption DEF Init, RowInv, Callers
<1> QED
  BY <1>3, <1>4 DEF CInv

\* Every step of a thread preserves it.
LEMMA ThreadStepCInv ==
  ASSUME IInv, IInv', CInv, NEW x \in Execs, ThreadStep(x)
  PROVE  CInv'
<1>0. Plain(x) => CInv'
  BY PlainInv DEF IInv
<1>1. CASE ToolStep(x)
  <2>1. ASSUME NEW k \in Tools, StartTool(x, k) PROVE CInv'
    BY <2>1, StartToolCInv
  <2>2. CASE ToolStartWaited(x)
    <3>1. pc'[x] \in {"tool", "controller"}
      BY <2>2 DEF ToolStartWaited, Go, IInv, TypeOK
    <3> QED
      BY <1>0, <2>2, <3>1, ToolStartedCInv, PlainBranches
  <2>3. CASE FinishWaited(x)
    BY <1>0, <2>3, ToolEndsCInv, PlainBranches
  <2> QED
    BY <1>0, <1>1, <2>1, <2>2, <2>3, SpawnCInv, ToolEndsCInv, QuietPlain DEF ToolStep
<1>2. CASE Commit(x)
  <2>1. CASE Refused(x)
    BY <1>0, <1>2, <2>1, PlainBranches
  <2>2. CASE ~Refused(x)
    <3>1. result[x] \in Results /\ pc[x] = "commit"
      BY <1>2 DEF Commit, IInv, CallInv
    <3>2. PICK status \in Terminal, reason \in Reasons, handler \in {"open_call", "result"} :
            FinalizeResult(x, status, reason, handler)
      BY <1>2, <2>2, <3>1 DEF Commit, Terminal, Reasons
    <3> QED
      BY <3>1, <3>2, FinalizeCInv
  <2> QED
    BY <2>1, <2>2
<1>3. CASE FinalizeControllerFault(x)
  BY <1>3, FinalizeCInv DEF FinalizeControllerFault, Terminal, Reasons
<1>4. CASE FinalizeCancelUnreconciled(x)
  BY <1>4, FinalizeCInv DEF FinalizeCancelUnreconciled, Terminal, Reasons
<1>5. CASE Start(x)
  BY <1>0, <1>5, StartPlain
<1>6. CASE ~(ToolStep(x) \/ Commit(x) \/ FinalizeControllerFault(x)
             \/ FinalizeCancelUnreconciled(x) \/ Start(x))
  BY <1>0, <1>6, QuietPlain DEF ThreadStep
<1> QED
  BY <1>1, <1>2, <1>3, <1>4, <1>5, <1>6

\* Every step preserves it.
LEMMA NextCInv == SerialTurns /\ IInv /\ IInv' /\ CInv /\ [Next]_vars => CInv'
<1> SUFFICES ASSUME SerialTurns, IInv, IInv', CInv, [Next]_vars PROVE CInv'
  OBVIOUS
<1>0. Calm => CInv'
  BY CalmInv DEF IInv
<1>1. ASSUME NEW x \in Execs, Submit(x) PROVE CInv'
  BY <1>1, SubmitPlain, PlainInv DEF IInv
<1>2. ASSUME NEW x \in Execs, ThreadStep(x) PROVE CInv'
  BY <1>2, ThreadStepCInv
<1>3. CASE Write
  BY <1>3, WriteCInv
<1>4. CASE WriteFails \/ \E a \in Callers : WaitTimesOut(a)
  BY <1>0, <1>4, WriteFailsCalm, WaitTimesOutCalm
<1>5. CASE Crash \/ Exit
  BY <1>5, LoseMemoryCInv DEF Crash, Exit
<1>6. CASE \/ \E t \in Tasks : RequestCancel(t)
           \/ CancelWaited \/ Quit \/ Open \/ RecoveryStep
           \/ \E c \in live : ProcessExits(c)
           \/ UNCHANGED vars
  BY <1>0, <1>6, OthersCalm
<1> QED
  BY <1>1, <1>2, <1>3, <1>4, <1>5, <1>6 DEF Next

\* A task closed with cleanup not_needed or confirmed has no process, and never
\* gets one: the terminal_truth derivation is true whatever was late, lost,
\* stopped or retried.  Turns are serial, as HubTurnDispatcher makes them.
THEOREM CleanupIsTrueHolds == SerialTurns => (Spec => []CleanupIsTrue)
<1> SUFFICES ASSUME SerialTurns PROVE Spec => []CleanupIsTrue
  OBVIOUS
<1>1. Init => CInv
  BY InitCInv
<1>2. IInv /\ IInv' /\ CInv /\ [Next]_vars => CInv'
  BY NextCInv
<1>3. IInv /\ CInv => CleanupIsTrue
  <2> SUFFICES ASSUME IInv, CInv, NEW t \in Tasks, NEW i \in DOMAIN log[t],
                      log[t][i].kind = "closed",
                      log[t][i].cleanup \in {"not_needed", "confirmed"}
               PROVE  \A c \in live : c[1] # t
    BY DEF CleanupIsTrue
  <2>1. log[t][i] \in Said(t)
    BY LenProperties DEF Said, IInv, TypeOK
  <2>2. Says(t, log[t][i])
    BY <2>1 DEF CInv, SaidInv
  <2> QED
    BY <2>2 DEF Says, ClosedInv
<1> QED
  BY <1>1, <1>2, <1>3, Invariant, PTL DEF Spec

-----------------------------------------------------------------------------
(* The lifecycle of a task is what TaskLifecycle promises: Stop on record    *)
(* excludes the worker's own result.                                         *)

\* No Stop of t is on record or queued to be.
NoStop(t) == \A ev \in Said(t) : ev.kind # "cancel_requested"

\* A thread whose Stop is recorded is fenced: nothing but its own registration
\* resets the fence.
StopInv ==
  /\ \A t \in Tasks : state[t] = "absent" => NoStop(t)
  /\ \A x \in Execs :
       /\ pc[x] \notin Idle
       /\ digest[TaskOf[x]] = x
       /\ fence[TaskOf[x]] = Epoch \/ TaskOf[x] \notin registered
       => NoStop(TaskOf[x])

\* A thread past the receipt of task.state_changed.
Begun(x) ==
  \/ pc[x] = "start_wait" /\ receipt[x] = "ok"
  \/ pc[x] \in {"enter", "controller", "tool_start", "tool", "tool_run", "tool_finish",
                "tool_last", "returned", "commit"}

BegunInv == \A x \in Execs : Begun(x) => state[TaskOf[x]] \notin {"absent", "admitted"}

\* The worker's own result is queued only for a task that began, and no Stop of
\* the task is on record or queued before it.
Result(c) == c.ev.kind = "closed" /\ c.ev.status \in Results

Stops(c, t) == c.ev.kind = "cancel_requested" /\ c.task = t

ResultInv ==
  \A i \in 1 .. Len(queue) :
    Result(queue[i]) =>
      /\ state[queue[i].task] \notin {"absent", "admitted"}
      /\ \A j \in 1 .. Len(log[queue[i].task]) :
           log[queue[i].task][j].kind # "cancel_requested"
      /\ \A j \in 1 .. i : ~Stops(queue[j], queue[i].task)

\* Stops, starts and results agree.
LInv == StopInv /\ BegunInv /\ ResultInv

\* Putting a command that is not a result too early keeps the results in order.
LEMMA PutResult ==
  ASSUME TypeOK, ResultInv, UNCHANGED <<state, log>>,
         NEW a \in Callers, NEW t \in Tasks, NEW ev \in Events, Put(a, t, ev),
         ev.kind = "closed" /\ ev.status \in Results =>
           state[t] \notin {"absent", "admitted"} /\ NoStop(t)
  PROVE  ResultInv'
<1>1. \/ queue' = queue
      \/ /\ Len(queue') = Len(queue) + 1
         /\ queue'[Len(queue) + 1] = [task |-> t, ev |-> ev, by |-> a, waited |-> TRUE]
         /\ \A i \in 1 .. Len(queue) : queue'[i] = queue[i]
  BY ConstantsAssumption, PutFacts DEF TypeOK
<1>2. Len(queue) \in Nat
  BY LenProperties DEF TypeOK
<1>3. CASE queue' = queue
  BY <1>3 DEF ResultInv
<1>4. CASE /\ Len(queue') = Len(queue) + 1
           /\ queue'[Len(queue) + 1] = [task |-> t, ev |-> ev, by |-> a, waited |-> TRUE]
           /\ \A i \in 1 .. Len(queue) : queue'[i] = queue[i]
  <2> DEFINE n == Len(queue) + 1
  <2>1. queue'[n].task = t /\ queue'[n].ev = ev
    BY <1>4
  <2>2. \A i \in 1 .. Len(queue') : i = n \/ (i \in 1 .. Len(queue) /\ queue'[i] = queue[i])
    <3>1. \A i \in 1 .. Len(queue') : i = n \/ i \in 1 .. Len(queue)
      BY <1>2, <1>4
    <3> QED
      BY <1>4, <3>1
  <2>3. ASSUME NEW i \in 1 .. Len(queue), Result(queue[i])
        PROVE  \A j \in 1 .. i : queue'[j] = queue[j] /\ ~Stops(queue[j], queue[i].task)
    BY <1>2, <1>4, <2>3 DEF ResultInv
  <2>4. ASSUME Result(queue'[n])
        PROVE  /\ state[t] \notin {"absent", "admitted"}
               /\ \A j \in 1 .. Len(log[t]) : log[t][j].kind # "cancel_requested"
               /\ \A j \in 1 .. n : ~Stops(queue'[j], t)
    <3>1. NoStop(t) /\ state[t] \notin {"absent", "admitted"} /\ ev.kind = "closed"
      BY <2>1, <2>4 DEF Result
    <3>2. \A j \in 1 .. Len(log[t]) : log[t][j].kind # "cancel_requested"
      BY <3>1 DEF NoStop, Said
    <3>3. \A j \in 1 .. Len(queue) : ~Stops(queue[j], t)
      BY <3>1 DEF NoStop, Said, Stops
    <3>4. ~Stops(queue'[n], t)
      BY <2>1, <3>1 DEF Stops
    <3> QED
      BY <1>2, <1>4, <3>1, <3>2, <3>3, <3>4
  <2> HIDE DEF n
  <2>5. ASSUME NEW i \in 1 .. Len(queue'), Result(queue'[i])
        PROVE  /\ state[queue'[i].task] \notin {"absent", "admitted"}
               /\ \A j \in 1 .. Len(log[queue'[i].task]) :
                    log[queue'[i].task][j].kind # "cancel_requested"
               /\ \A j \in 1 .. i : ~Stops(queue'[j], queue'[i].task)
    <3>1. CASE i = n
      BY <2>1, <2>4, <2>5, <3>1
    <3>2. CASE i \in 1 .. Len(queue) /\ queue'[i] = queue[i]
      BY <2>3, <2>5, <3>2 DEF ResultInv
    <3> QED
      BY <2>2, <3>1, <3>2
  <2> QED
    BY <2>5 DEF ResultInv, Result, Stops
<1> QED
  BY <1>1, <1>3, <1>4

\* A put that is neither a Stop nor a result.
LEMMA PutPlain ==
  ASSUME TypeOK, ResultInv, UNCHANGED <<state, log>>,
         NEW a \in Callers, NEW t \in Tasks, NEW ev \in Events, Put(a, t, ev),
         ev.kind \notin {"cancel_requested", "closed"}
           \/ (ev.kind = "closed" /\ (ev.status \in Results =>
                 state[t] \notin {"absent", "admitted"} /\ NoStop(t)))
  PROVE  /\ ResultInv' /\ \A u \in Tasks : NoStop(u) => NoStop(u)'
         /\ receipt'[a] # "ok" /\ \A b \in Callers \ {a} : receipt'[b] = receipt[b]
<1>1. ResultInv'
  BY PutResult
<1>2. \A u \in Tasks : Said(u)' \subseteq Said(u) \cup {ev}
  BY SaidPut
<1>3. receipt' = [receipt EXCEPT ![a] = receipt'[a]] /\ receipt'[a] \in {"pending", "error"}
  BY ConstantsAssumption, PutFacts DEF TypeOK
<1> QED
  BY <1>1, <1>2, <1>3 DEF NoStop, TypeOK

\* Nothing is put.
LEMMA SamePlain ==
  ASSUME ResultInv, UNCHANGED <<state, log, queue>>
  PROVE  ResultInv' /\ \A u \in Tasks : NoStop(u) => NoStop(u)'
<1>1. \A u : Said(u)' = Said(u)
  BY SaidSame
<1>2. ResultInv'
  BY DEF ResultInv
<1> QED
  BY <1>1, <1>2 DEF NoStop

\* A step of the thread of x that does not register.
Turns(x) ==
  /\ pc[x] \notin Idle
  /\ \A y \in Execs \ {x} : pc'[y] = pc[y] /\ receipt'[y] = receipt[y]
  /\ UNCHANGED <<state, digest, log, fence>>
  /\ registered' = registered \/ (pc'[x] = "done" /\ registered' \subseteq registered)
  /\ \A t \in Tasks : NoStop(t) => NoStop(t)'
  /\ Begun(x)' => Begun(x)
  /\ ResultInv'

\* Such a step keeps the fence, the start and the result in agreement.
LEMMA TurnsInv ==
  ASSUME IInv, CInv, LInv, NEW x \in Execs, Turns(x)
  PROVE  LInv'
<1>1. \A y \in Execs \ {x} : pc[y] \in Idle
  BY DEF CInv, TurnInv, Turns
<1>2. StopInv'
  <2>1. \A t \in Tasks : state'[t] = "absent" => NoStop(t)'
    BY DEF LInv, StopInv, Turns
  <2>2. ASSUME NEW y \in Execs, pc'[y] \notin Idle, digest'[TaskOf[y]] = y,
               fence'[TaskOf[y]] = Epoch \/ TaskOf[y] \notin registered'
        PROVE  NoStop(TaskOf[y])'
    <3>1. y = x /\ registered' = registered
      BY <1>1, <2>2 DEF Turns, Idle
    <3>2. NoStop(TaskOf[x])
      BY <2>2, <3>1 DEF LInv, StopInv, Turns
    <3> QED
      BY <3>1, <3>2, ConstantsAssumption DEF Turns
  <2> QED
    BY <2>1, <2>2 DEF StopInv
<1>3. BegunInv'
  <2>1. \A y \in Execs : Begun(y)' => Begun(y)
    BY DEF Turns, Begun
  <2> QED
    BY <2>1 DEF LInv, BegunInv, Turns
<1> QED
  BY <1>2, <1>3 DEF LInv, Turns

\* The steps of a thread that queue nothing.
LEMMA QuietTurns ==
  ASSUME IInv, CInv, LInv, NEW x \in Execs,
         \/ AdmissionWaited(x)
         \/ StartWaited(x)
         \/ EnterController(x)
         \/ ToolStartWaited(x)
         \/ Spawn(x)
         \/ LastFinishWaited(x)
         \/ ControllerRaises(x)
         \/ CheckReturned(x)
         \/ ResultCommitted(x)
         \/ FaultCommitted(x)
         \/ FaultRelease(x)
         \/ StaleCommitted(x)
         \/ StaleRelease(x)
         \/ FailRelease(x)
         \/ \E r \in Results : ControllerReturns(x, r)
  PROVE  Turns(x)
<1>0. ASSUME UNCHANGED <<state, digest, log, fence, queue, receipt>>, pc[x] \notin Idle,
             \A y \in Execs \ {x} : pc'[y] = pc[y],
             registered' = registered \/ (pc'[x] = "done" /\ registered' \subseteq registered),
             Begun(x)' => Begun(x)
      PROVE  Turns(x)
  BY <1>0, SamePlain DEF Turns, LInv
<1>1. CASE AdmissionWaited(x)
  <2>1. /\ pc[x] = "admission" /\ pc'[x] \in {"start", "stale", "done", "failing"}
        /\ \A y \in Execs \ {x} : pc'[y] = pc[y]
        /\ UNCHANGED <<state, digest, log, fence, queue, receipt>>
    BY <1>1 DEF AdmissionWaited, Release, Go, store, service, authority, IInv, TypeOK
  <2>2. registered' = registered \/ (pc'[x] = "done" /\ registered' \subseteq registered)
    BY <1>1 DEF AdmissionWaited, Release, Go, store, service, authority, IInv, TypeOK
  <2>3. Begun(x)' => Begun(x)
    BY <1>1, <2>1 DEF Begun, AdmissionWaited
  <2> QED
    BY <1>0, <2>1, <2>2, <2>3 DEF Idle
<1>2. CASE StartWaited(x)
  <2>1. /\ pc[x] = "start_wait" /\ pc'[x] \in {"enter", "failing"}
        /\ \A y \in Execs \ {x} : pc'[y] = pc[y]
        /\ UNCHANGED <<state, digest, log, fence, queue, receipt>>
    BY <1>2 DEF StartWaited, Go, store, service, authority, IInv, TypeOK
  <2>2. registered' = registered \/ (pc'[x] = "done" /\ registered' \subseteq registered)
    BY <1>2 DEF StartWaited, Go, store, service, authority, IInv, TypeOK
  <2>3. Begun(x)' => Begun(x)
    BY <1>2, <2>1 DEF Begun, StartWaited, Go, IInv, TypeOK
  <2> QED
    BY <1>0, <2>1, <2>2, <2>3 DEF Idle
<1>3. CASE EnterController(x)
  <2>1. /\ pc[x] = "enter" /\ pc'[x] \in {"controller", "fault"}
        /\ \A y \in Execs \ {x} : pc'[y] = pc[y]
        /\ UNCHANGED <<state, digest, log, fence, queue, receipt>>
    BY <1>3 DEF EnterController, Go, store, service, authority, IInv, TypeOK
  <2>2. registered' = registered \/ (pc'[x] = "done" /\ registered' \subseteq registered)
    BY <1>3 DEF EnterController, Go, store, service, authority, IInv, TypeOK
  <2>3. Begun(x)' => Begun(x)
    BY <1>3, <2>1 DEF Begun, EnterController
  <2> QED
    BY <1>0, <2>1, <2>2, <2>3 DEF Idle
<1>4. CASE ToolStartWaited(x)
  <2>1. /\ pc[x] = "tool_start" /\ pc'[x] \in {"tool", "controller"}
        /\ \A y \in Execs \ {x} : pc'[y] = pc[y]
        /\ UNCHANGED <<state, digest, log, fence, queue, receipt>>
    BY <1>4 DEF ToolStartWaited, Go, store, service, authority, IInv, TypeOK
  <2>2. registered' = registered \/ (pc'[x] = "done" /\ registered' \subseteq registered)
    BY <1>4 DEF ToolStartWaited, Go, store, service, authority, IInv, TypeOK
  <2>3. Begun(x)' => Begun(x)
    BY <1>4, <2>1 DEF Begun, ToolStartWaited
  <2> QED
    BY <1>0, <2>1, <2>2, <2>3 DEF Idle
<1>5. CASE Spawn(x)
  <2>1. /\ pc[x] = "tool" /\ pc'[x] \in {"tool_run"}
        /\ \A y \in Execs \ {x} : pc'[y] = pc[y]
        /\ UNCHANGED <<state, digest, log, fence, queue, receipt>>
    BY <1>5 DEF Spawn, Go, store, service, authority, IInv, TypeOK
  <2>2. registered' = registered \/ (pc'[x] = "done" /\ registered' \subseteq registered)
    BY <1>5 DEF Spawn, Go, store, service, authority, IInv, TypeOK
  <2>3. Begun(x)' => Begun(x)
    BY <1>5, <2>1 DEF Begun, Spawn
  <2> QED
    BY <1>0, <2>1, <2>2, <2>3 DEF Idle
<1>6. CASE LastFinishWaited(x)
  <2>1. /\ pc[x] = "tool_last" /\ pc'[x] \in {"controller"}
        /\ \A y \in Execs \ {x} : pc'[y] = pc[y]
        /\ UNCHANGED <<state, digest, log, fence, queue, receipt>>
    BY <1>6 DEF LastFinishWaited, Go, store, service, authority, IInv, TypeOK
  <2>2. registered' = registered \/ (pc'[x] = "done" /\ registered' \subseteq registered)
    BY <1>6 DEF LastFinishWaited, Go, store, service, authority, IInv, TypeOK
  <2>3. Begun(x)' => Begun(x)
    BY <1>6, <2>1 DEF Begun, LastFinishWaited
  <2> QED
    BY <1>0, <2>1, <2>2, <2>3 DEF Idle
<1>7. CASE ControllerRaises(x)
  <2>1. /\ pc[x] = "controller" /\ pc'[x] \in {"fault"}
        /\ \A y \in Execs \ {x} : pc'[y] = pc[y]
        /\ UNCHANGED <<state, digest, log, fence, queue, receipt>>
    BY <1>7 DEF ControllerRaises, Go, store, service, authority, IInv, TypeOK
  <2>2. registered' = registered \/ (pc'[x] = "done" /\ registered' \subseteq registered)
    BY <1>7 DEF ControllerRaises, Go, store, service, authority, IInv, TypeOK
  <2>3. Begun(x)' => Begun(x)
    BY <1>7, <2>1 DEF Begun, ControllerRaises
  <2> QED
    BY <1>0, <2>1, <2>2, <2>3 DEF Idle
<1>8. CASE CheckReturned(x)
  <2>1. /\ pc[x] = "returned" /\ pc'[x] \in {"stale", "failing", "commit"}
        /\ \A y \in Execs \ {x} : pc'[y] = pc[y]
        /\ UNCHANGED <<state, digest, log, fence, queue, receipt>>
    BY <1>8 DEF CheckReturned, Refused, Go, store, service, authority, IInv, TypeOK
  <2>2. registered' = registered \/ (pc'[x] = "done" /\ registered' \subseteq registered)
    BY <1>8 DEF CheckReturned, Refused, Go, store, service, authority, IInv, TypeOK
  <2>3. Begun(x)' => Begun(x)
    BY <1>8, <2>1 DEF Begun, CheckReturned
  <2> QED
    BY <1>0, <2>1, <2>2, <2>3 DEF Idle
<1>9. CASE ResultCommitted(x)
  <2>1. /\ pc[x] = "final" /\ pc'[x] \in {"done", "failing"}
        /\ \A y \in Execs \ {x} : pc'[y] = pc[y]
        /\ UNCHANGED <<state, digest, log, fence, queue, receipt>>
    BY <1>9 DEF ResultCommitted, Release, Go, store, service, authority, IInv, TypeOK
  <2>2. registered' = registered \/ (pc'[x] = "done" /\ registered' \subseteq registered)
    BY <1>9 DEF ResultCommitted, Release, Go, store, service, authority, IInv, TypeOK
  <2>3. Begun(x)' => Begun(x)
    BY <1>9, <2>1 DEF Begun, ResultCommitted
  <2> QED
    BY <1>0, <2>1, <2>2, <2>3 DEF Idle
<1>10. CASE FaultCommitted(x)
  <2>1. /\ pc[x] = "final" /\ pc'[x] \in {"fault_release", "failing"}
        /\ \A y \in Execs \ {x} : pc'[y] = pc[y]
        /\ UNCHANGED <<state, digest, log, fence, queue, receipt>>
    BY <1>10 DEF FaultCommitted, Go, store, service, authority, IInv, TypeOK
  <2>2. registered' = registered \/ (pc'[x] = "done" /\ registered' \subseteq registered)
    BY <1>10 DEF FaultCommitted, Go, store, service, authority, IInv, TypeOK
  <2>3. Begun(x)' => Begun(x)
    BY <1>10, <2>1 DEF Begun, FaultCommitted
  <2> QED
    BY <1>0, <2>1, <2>2, <2>3 DEF Idle
<1>11. CASE FaultRelease(x)
  <2>1. /\ pc[x] = "fault_release" /\ pc'[x] \in {"stale", "done"}
        /\ \A y \in Execs \ {x} : pc'[y] = pc[y]
        /\ UNCHANGED <<state, digest, log, fence, queue, receipt>>
    BY <1>11 DEF FaultRelease, Release, Go, store, service, authority, IInv, TypeOK
  <2>2. registered' = registered \/ (pc'[x] = "done" /\ registered' \subseteq registered)
    BY <1>11 DEF FaultRelease, Release, Go, store, service, authority, IInv, TypeOK
  <2>3. Begun(x)' => Begun(x)
    BY <1>11, <2>1 DEF Begun, FaultRelease
  <2> QED
    BY <1>0, <2>1, <2>2, <2>3 DEF Idle
<1>12. CASE StaleCommitted(x)
  <2>1. /\ pc[x] = "final" /\ pc'[x] \in {"stale_release"}
        /\ \A y \in Execs \ {x} : pc'[y] = pc[y]
        /\ UNCHANGED <<state, digest, log, fence, queue, receipt>>
    BY <1>12 DEF StaleCommitted, Go, store, service, authority, IInv, TypeOK
  <2>2. registered' = registered \/ (pc'[x] = "done" /\ registered' \subseteq registered)
    BY <1>12 DEF StaleCommitted, Go, store, service, authority, IInv, TypeOK
  <2>3. Begun(x)' => Begun(x)
    BY <1>12, <2>1 DEF Begun, StaleCommitted
  <2> QED
    BY <1>0, <2>1, <2>2, <2>3 DEF Idle
<1>13. CASE StaleRelease(x)
  <2>1. /\ pc[x] = "stale_release" /\ pc'[x] \in {"done"}
        /\ \A y \in Execs \ {x} : pc'[y] = pc[y]
        /\ UNCHANGED <<state, digest, log, fence, queue, receipt>>
    BY <1>13 DEF StaleRelease, Release, Go, store, service, authority, IInv, TypeOK
  <2>2. registered' = registered \/ (pc'[x] = "done" /\ registered' \subseteq registered)
    BY <1>13 DEF StaleRelease, Release, Go, store, service, authority, IInv, TypeOK
  <2>3. Begun(x)' => Begun(x)
    BY <1>13, <2>1 DEF Begun, StaleRelease
  <2> QED
    BY <1>0, <2>1, <2>2, <2>3 DEF Idle
<1>14. CASE FailRelease(x)
  <2>1. /\ pc[x] = "failing" /\ pc'[x] \in {"done"}
        /\ \A y \in Execs \ {x} : pc'[y] = pc[y]
        /\ UNCHANGED <<state, digest, log, fence, queue, receipt>>
    BY <1>14 DEF FailRelease, Release, Go, store, service, authority, IInv, TypeOK
  <2>2. registered' = registered \/ (pc'[x] = "done" /\ registered' \subseteq registered)
    BY <1>14 DEF FailRelease, Release, Go, store, service, authority, IInv, TypeOK
  <2>3. Begun(x)' => Begun(x)
    BY <1>14, <2>1 DEF Begun, FailRelease
  <2> QED
    BY <1>0, <2>1, <2>2, <2>3 DEF Idle
<1>15. ASSUME NEW r \in Results, ControllerReturns(x, r) PROVE Turns(x)
  <2>1. /\ pc[x] = "controller" /\ pc'[x] = "returned"
        /\ \A y \in Execs \ {x} : pc'[y] = pc[y]
        /\ UNCHANGED <<state, digest, log, fence, queue, receipt, registered>>
    BY <1>15 DEF ControllerReturns, Go, store, service, authority, IInv, TypeOK
  <2> QED
    BY <1>0, <2>1 DEF Idle, Begun
<1> QED
  BY <1>1, <1>2, <1>3, <1>4, <1>5, <1>6, <1>7, <1>8, <1>9, <1>10, <1>11, <1>12, <1>13, <1>14, <1>15

\* The steps of a thread that queue a command other than a terminal.
LEMMA PutTurns ==
  ASSUME IInv, CInv, LInv, NEW x \in Execs, pc[x] \notin Idle,
         NEW ev \in Events, ev.kind \notin {"cancel_requested", "closed"},
         Put(x, TaskOf[x], ev), NEW p \in PCs, Go(x, p), p # "done",
         UNCHANGED <<state, digest, log, fence, registered>>,
         p \in {"start_wait"} \/ Begun(x)
  PROVE  Turns(x)
<1>1. x \in Callers /\ TaskOf[x] \in Tasks /\ pc'[x] = p /\ \A y \in Execs \ {x} : pc'[y] = pc[y]
  BY ConstantsAssumption DEF Callers, Go, IInv, TypeOK
<1>2. /\ ResultInv' /\ \A u \in Tasks : NoStop(u) => NoStop(u)'
      /\ receipt'[x] # "ok" /\ \A b \in Callers \ {x} : receipt'[b] = receipt[b]
  BY <1>1, PutPlain DEF IInv, LInv
<1>3. Begun(x)' => Begun(x)
  BY <1>1, <1>2 DEF Begun
<1> QED
  BY <1>1, <1>2, <1>3 DEF Turns, Callers

\* Starting the task, starting a tool call and finishing one.
LEMMA PuttingTurns ==
  ASSUME IInv, CInv, LInv, NEW x \in Execs,
         \/ Start(x)
         \/ \E k \in Tools : StartTool(x, k)
         \/ HandlerWithoutProcess(x)
         \/ \E end \in {"ok", "timeout", "broke"} : CommandReturns(x, end)
         \/ \E end \in {"stopped", "unsettled", "broke"} : CommandRaises(x, end)
         \/ FinishWaited(x)
  PROVE  Turns(x)
<1>0. ASSUME UNCHANGED <<state, digest, log, fence, registered, queue, receipt>>, pc[x] \notin Idle,
             \A y \in Execs \ {x} : pc'[y] = pc[y], Begun(x)' => Begun(x)
      PROVE  Turns(x)
  BY <1>0, SamePlain DEF Turns, LInv
<1>1. CASE Start(x)
  <2>1. CASE Refused(x) /\ UNCHANGED <<queue, receipt>>
    <3>1. /\ pc[x] = "start" /\ pc'[x] \in {"stale", "failing"}
          /\ \A y \in Execs \ {x} : pc'[y] = pc[y]
          /\ UNCHANGED <<state, digest, log, fence, registered, queue, receipt>>
      BY <1>1, <2>1 DEF Start, Refused, Go, store, IInv, TypeOK
    <3> QED
      BY <1>0, <3>1 DEF Idle, Begun
  <2>2. CASE Put(x, TaskOf[x], Event("running")) /\ Go(x, "start_wait")
    <3>1. Event("running") \in Events /\ Event("running").kind = "running"
      BY EventTypes, EventFields DEF Kinds
    <3>2. pc[x] = "start" /\ UNCHANGED <<state, digest, log, fence, registered>>
      BY <1>1 DEF Start, store
    <3> QED
      BY <2>2, <3>1, <3>2, PutTurns DEF Idle, PCs, Waits
  <2> QED
    BY <1>1, <2>1, <2>2 DEF Start
<1>2. ASSUME NEW k \in Tools, StartTool(x, k) PROVE Turns(x)
  <2> DEFINE c == <<TaskOf[x], ordinal[x], k>>
             ev == StartedEvent(c)
  <2>1. c \in Calls
    BY ConstantsAssumption DEF IInv, TypeOK, Calls
  <2>2. ev \in Events /\ ev.kind = "started"
    <3> HIDE DEF c
    <3> QED  BY <2>1, EventTypes, EventFields
  <2>3. /\ pc[x] = "controller" /\ Put(x, TaskOf[x], ev) /\ Go(x, "tool_start")
        /\ UNCHANGED <<state, digest, log, fence, registered>>
    BY <1>2 DEF StartTool, store, authority
  <2> HIDE DEF ev
  <2>4. Begun(x)
    BY <2>3 DEF Begun
  <2> QED
    BY <2>2, <2>3, <2>4, PutTurns DEF Idle, PCs, Waits
<1>3. ASSUME NEW end \in Ends, NEW p \in {"tool_finish", "tool_last"},
             pc[x] \in {"tool", "tool_run", "tool_finish"},
             Put(x, TaskOf[x], FinishedEvent(call[x], end)), Go(x, p),
             UNCHANGED <<state, digest, log, fence, registered>>
      PROVE  Turns(x)
  <2> DEFINE ev == FinishedEvent(call[x], end)
  <2>1. call[x] \in Calls
    BY <1>3 DEF IInv, CallInv, ToolPoints
  <2>2. ev \in Events /\ ev.kind = "finished"
    BY <2>1, EventTypes, EventFields
  <2>3. Begun(x)
    BY <1>3 DEF Begun
  <2> HIDE DEF ev
  <2> QED
    BY <1>3, <2>2, <2>3, PutTurns DEF Idle, PCs, Waits, ev
<1>4. CASE HandlerWithoutProcess(x)
  BY <1>3, <1>4 DEF HandlerWithoutProcess, Finish, Ends, store, authority
<1>5. ASSUME NEW end \in {"ok", "timeout", "broke"}, CommandReturns(x, end) PROVE Turns(x)
  BY <1>3, <1>5 DEF CommandReturns, Finish, Ends, store, authority
<1>6. ASSUME NEW end \in {"stopped", "unsettled", "broke"}, CommandRaises(x, end) PROVE Turns(x)
  BY <1>3, <1>6 DEF CommandRaises, Finish, Ends, store, authority
<1>7. CASE FinishWaited(x)
  <2>1. CASE Go(x, "controller") /\ UNCHANGED <<queue, receipt>>
    <3>1. /\ pc[x] = "tool_finish" /\ pc'[x] = "controller"
          /\ \A y \in Execs \ {x} : pc'[y] = pc[y]
          /\ UNCHANGED <<state, digest, log, fence, registered, queue, receipt>>
      BY <1>7, <2>1 DEF FinishWaited, Go, store, authority, IInv, TypeOK
    <3> QED
      BY <1>0, <3>1 DEF Idle, Begun
  <2>2. CASE Put(x, TaskOf[x], FinishedEvent(call[x], "broke")) /\ Go(x, "tool_last")
    BY <1>3, <1>7, <2>2 DEF FinishWaited, Ends, store, authority
  <2> QED
    BY <1>7, <2>1, <2>2 DEF FinishWaited
<1> QED
  BY <1>1, <1>2, <1>4, <1>5, <1>6, <1>7

\* The terminal: the worker's own result only with authority under the lock.
LEMMA FinalTurns ==
  ASSUME IInv, CInv, LInv, NEW x \in Execs, pc[x] \in {"commit", "fault", "stale"},
         NEW status \in Terminal, NEW reason \in Reasons, NEW handler,
         FinalizeResult(x, status, reason, handler),
         status \in Results => pc[x] = "commit" /\ HasAuthority(x)
  PROVE  Turns(x)
<1> DEFINE t == TaskOf[x]
           q == Cleanup(t)
           trusted == status # "completed" \/ q \in {"not_needed", "confirmed"}
           s == IF trusted THEN status ELSE "unknown"
           r == IF trusted THEN reason ELSE "cleanup_unknown"
           ev == ClosedEvent(s, q, r)
<1>1. q \in Cleanups /\ s \in Terminal /\ r \in Reasons /\ t \in Tasks /\ x \in Callers
  BY CleanupType, ConstantsAssumption DEF Terminal, Reasons, Callers
<1>2. /\ Put(x, t, ev) /\ Go(x, "final")
      /\ UNCHANGED <<state, digest, log, fence, registered>>
  BY DEF FinalizeResult, store
<1>3. s \in Results => status \in Results
  BY DEF Results
<1> HIDE DEF s, r, q
<1>4. ev \in Events /\ ev.kind = "closed" /\ ev.status = s
  BY <1>1, EventTypes DEF ClosedEvent, Event
<1> HIDE DEF ev
<1>5. s \in Results => state[t] \notin {"absent", "admitted"} /\ NoStop(t)
  <2> SUFFICES ASSUME s \in Results PROVE state[t] \notin {"absent", "admitted"} /\ NoStop(t)
    OBVIOUS
  <2>1. pc[x] = "commit" /\ HasAuthority(x)
    BY <1>3
  <2>2. digest[t] = x
    BY <2>1, AdmittedRow DEF Admitted
  <2>3. fence[t] = Epoch
    BY <2>1 DEF HasAuthority, Stopped
  <2> QED
    BY <2>1, <2>2, <2>3 DEF LInv, StopInv, BegunInv, Begun, Idle
<1>6. /\ ResultInv' /\ \A u \in Tasks : NoStop(u) => NoStop(u)'
      /\ receipt'[x] # "ok" /\ \A b \in Callers \ {x} : receipt'[b] = receipt[b]
  <2> HIDE DEF t
  <2> QED  BY <1>1, <1>2, <1>4, <1>5, PutPlain DEF IInv, LInv
<1>7. pc'[x] = "final" /\ \A y \in Execs \ {x} : pc'[y] = pc[y]
  BY <1>2 DEF Go, IInv, TypeOK
<1> QED
  BY <1>2, <1>6, <1>7 DEF Turns, Idle, Begun, Callers

\* Every step of a thread that is past its registration.
LEMMA ThreadStepLInv ==
  ASSUME IInv, CInv, LInv, NEW x \in Execs, ThreadStep(x)
  PROVE  LInv'
<1>0. Turns(x) => LInv'
  BY TurnsInv
<1>1. CASE RegisterOnce(x)
  <2> DEFINE t == TaskOf[x]
  <2>1. /\ pc[x] = "register" /\ pc'[x] = "admission"
        /\ \A y \in Execs \ {x} : pc'[y] = pc[y]
        /\ registered' = registered \cup {t}
        /\ fence' = IF t \in registered THEN fence ELSE [fence EXCEPT ![t] = Epoch]
        /\ UNCHANGED <<state, digest, log, queue, receipt>>
    BY <1>1 DEF RegisterOnce, Go, store, service, IInv, TypeOK
  <2>2. \A y \in Execs \ {x} : pc'[y] \in Idle
    BY <2>1 DEF CInv, TurnInv, Idle
  <2>3. ResultInv' /\ \A u \in Tasks : NoStop(u) => NoStop(u)'
    BY <2>1, SamePlain DEF LInv
  <2>4. StopInv'
    <3>1. \A u \in Tasks : state'[u] = "absent" => NoStop(u)'
      BY <2>1, <2>3 DEF LInv, StopInv
    <3>2. ASSUME digest[t] = x, fence'[t] = Epoch \/ t \notin registered' PROVE NoStop(t)'
      <4>1. NoStop(t)
        BY <2>1, <3>2 DEF LInv, StopInv, Idle
      <4> QED
        BY <2>3, <4>1, ConstantsAssumption
    <3> QED
      BY <2>1, <2>2, <3>1, <3>2 DEF StopInv
  <2>5. BegunInv'
    BY <2>1 DEF LInv, BegunInv, Begun
  <2> QED
    BY <2>3, <2>4, <2>5 DEF LInv
<1>2. CASE Commit(x)
  <2>1. CASE Refused(x) /\ UNCHANGED <<store, service, authority>>
    <3>1. /\ pc[x] = "commit" /\ pc'[x] \in {"stale", "failing"}
          /\ \A y \in Execs \ {x} : pc'[y] = pc[y]
          /\ UNCHANGED <<state, digest, log, fence, registered, queue, receipt>>
      BY <1>2, <2>1 DEF Commit, Refused, Go, store, service, authority, IInv, TypeOK
    <3>2. ResultInv' /\ \A u \in Tasks : NoStop(u) => NoStop(u)'
      BY <3>1, SamePlain DEF LInv
    <3> QED
      BY <1>0, <3>1, <3>2 DEF Turns, Idle, Begun
  <2>2. CASE HasAuthority(x) /\ \/ FinalizeResult(x, "unknown", "controller_fault", "open_call")
                                \/ FinalizeResult(x, result[x], "worker", "result")
    <3>1. result[x] \in Results /\ pc[x] = "commit"
      BY <1>2 DEF Commit, IInv, CallInv
    <3> QED
      BY <1>0, <2>2, <3>1, FinalTurns DEF Terminal, Reasons
  <2> QED
    BY <1>2, <2>1, <2>2 DEF Commit
<1>3. CASE FinalizeControllerFault(x)
  BY <1>0, <1>3, FinalTurns DEF FinalizeControllerFault, Terminal, Reasons, Results
<1>4. CASE FinalizeCancelUnreconciled(x)
  BY <1>0, <1>4, FinalTurns DEF FinalizeCancelUnreconciled, Terminal, Reasons, Results
<1>5. CASE ToolStep(x) \/ Start(x)
  BY <1>0, <1>5, QuietTurns, PuttingTurns DEF ToolStep
<1>6. CASE ~(RegisterOnce(x) \/ Commit(x) \/ FinalizeControllerFault(x)
             \/ FinalizeCancelUnreconciled(x) \/ ToolStep(x) \/ Start(x))
  BY <1>0, <1>6, QuietTurns DEF ThreadStep
<1> QED
  BY <1>1, <1>2, <1>3, <1>4, <1>5, <1>6

\* A submit call has no row yet and is no thread with a Stop.
LEMMA SubmitLInv ==
  ASSUME IInv, CInv, LInv, SerialTurns, NEW x \in Execs, Submit(x)
  PROVE  LInv'
<1>1. /\ pc[x] = "new" /\ TurnFree(x) /\ pc'[x] \in {"register", "done"}
      /\ \A y \in Execs \ {x} : pc'[y] = pc[y]
      /\ Put(x, TaskOf[x], Event("admitted"))
      /\ UNCHANGED <<state, digest, log, fence, registered>>
  BY DEF Submit, Go, store, authority, IInv, TypeOK
<1>2. Event("admitted") \in Events /\ Event("admitted").kind = "admitted"
      /\ TaskOf[x] \in Tasks /\ x \in Callers
  BY EventTypes, EventFields, ConstantsAssumption DEF Kinds, Callers
<1>3. /\ ResultInv' /\ \A u \in Tasks : NoStop(u) => NoStop(u)'
      /\ \A y \in Callers \ {x} : receipt'[y] = receipt[y]
  BY <1>1, <1>2, PutPlain DEF IInv, LInv
<1>4. StopInv'
  <2>1. \A t \in Tasks : state'[t] = "absent" => NoStop(t)'
    BY <1>1, <1>3 DEF LInv, StopInv
  <2>2. \A y \in Execs : pc'[y] \in Idle \/ (y = x /\ digest'[TaskOf[x]] # x)
    BY <1>1, <1>2 DEF TurnFree, CInv, RowInv
  <2> QED
    BY <2>1, <2>2 DEF StopInv
<1>5. BegunInv'
  BY <1>1, <1>3 DEF LInv, BegunInv, Begun, Callers
<1> QED
  BY <1>3, <1>4, <1>5 DEF LInv

\* A step that writes no row and moves no thread or fence.
LEMMA CalmLInv ==
  ASSUME LInv, UNCHANGED <<state, digest, log, pc, fence, registered>>,
         \A u \in Tasks : NoStop(u) => NoStop(u)', ResultInv',
         \A y \in Execs : receipt'[y] = "ok" => receipt[y] = "ok"
  PROVE  LInv'
<1>1. StopInv'
  BY ConstantsAssumption DEF LInv, StopInv
<1>2. BegunInv'
  BY DEF LInv, BegunInv, Begun
<1> QED
  BY <1>1, <1>2 DEF LInv

\* What is neither a thread step, a Stop, a submit nor a write.
LEMMA OthersLInv ==
  ASSUME IInv, LInv,
         \/ \E t \in Tasks : RecoverTask(t)
         \/ CancelWaited
         \/ Quit
         \/ Open
         \/ RecoveryFails
         \/ Recovered
         \/ \E c \in live : ProcessExits(c)
         \/ UNCHANGED vars
  PROVE  LInv'
<1>0. ASSUME UNCHANGED <<state, digest, log, pc, fence, registered, queue, receipt>>
      PROVE  LInv'
  BY <1>0, SamePlain, CalmLInv DEF LInv
<1>1. ASSUME NEW t \in Tasks, RecoverTask(t) PROVE LInv'
  <2> DEFINE ev == ClosedEvent("unknown", "unknown", "controller_restarted")
  <2>1. /\ Put(Recovery, t, ev)
        /\ UNCHANGED <<state, digest, log, pc, fence, registered>>
    BY <1>1 DEF RecoverTask, store, authority, thread
  <2>2. ev \in Events /\ ev.kind = "closed" /\ ev.status = "unknown" /\ Recovery \in Callers
    BY EventTypes, EventFields DEF Terminal, Cleanups, Reasons, Callers
  <2> HIDE DEF ev
  <2>3. /\ ResultInv' /\ \A u \in Tasks : NoStop(u) => NoStop(u)'
        /\ \A y \in Callers \ {Recovery} : receipt'[y] = receipt[y]
    BY <2>1, <2>2, PutPlain DEF IInv, LInv, Results
  <2> QED
    BY <2>1, <2>3, CalmLInv, ConstantsAssumption DEF Callers
<1>2. CASE CancelWaited
  BY <1>0, <1>2 DEF CancelWaited, store, service, thread
<1>3. CASE Quit
  BY <1>0, <1>3 DEF Quit, store, authority, thread
<1>4. CASE Open
  BY <1>0, <1>4 DEF Open, store, authority, thread
<1>5. CASE RecoveryFails \/ Recovered
  BY <1>0, <1>5 DEF RecoveryFails, Recovered, store, authority, thread
<1>6. ASSUME NEW c \in live, ProcessExits(c) PROVE LInv'
  BY <1>0, <1>6 DEF ProcessExits, store, service, authority, thread
<1>7. CASE UNCHANGED vars
  BY <1>0, <1>7 DEF vars, store, service, authority, thread
<1> QED
  BY <1>1, <1>2, <1>3, <1>4, <1>5, <1>6, <1>7

\* Stop: the fence moves with the request.
LEMMA RequestCancelLInv ==
  ASSUME IInv, LInv, NEW t \in Tasks, RequestCancel(t)
  PROVE  LInv'
<1> DEFINE ev == Event("cancel_requested")
<1>1. /\ Put(Stopper, t, ev) /\ state[t] # "absent" /\ t \in registered
      /\ fence' = [fence EXCEPT ![t] = Epoch + 1]
      /\ UNCHANGED <<state, digest, log, pc, registered>>
  BY DEF RequestCancel, store, thread
<1>2. ev \in Events /\ ev.kind = "cancel_requested" /\ Stopper \in Callers
  BY EventTypes, EventFields DEF Kinds, Callers
<1> HIDE DEF ev
<1>3. ResultInv'
  BY <1>1, <1>2, PutResult DEF IInv, LInv
<1>4. /\ \A u \in Tasks \ {t} : Said(u)' \subseteq Said(u)
      /\ \A y \in Execs : receipt'[y] = receipt[y]
  <2>1. \A u \in Tasks \ {t} : Said(u)' \subseteq Said(u)
    BY <1>1, <1>2, SaidPut DEF IInv
  <2>2. receipt' = [receipt EXCEPT ![Stopper] = receipt'[Stopper]]
    BY <1>1, <1>2, PutFacts, ConstantsAssumption DEF IInv, TypeOK
  <2> QED
    BY <2>1, <2>2, ConstantsAssumption DEF IInv, TypeOK, Callers
<1>5. StopInv'
  <2>1. \A u \in Tasks : u # t => (NoStop(u) => NoStop(u)')
    BY <1>4 DEF NoStop
  <2>2. fence'[t] # Epoch /\ \A u \in Tasks \ {t} : fence'[u] = fence[u]
    BY <1>1 DEF IInv, TypeOK, Epoch
  <2>3. \A u \in Tasks : state'[u] = "absent" => NoStop(u)'
    BY <1>1, <2>1 DEF LInv, StopInv
  <2>4. ASSUME NEW y \in Execs, pc'[y] \notin Idle, digest'[TaskOf[y]] = y,
               fence'[TaskOf[y]] = Epoch \/ TaskOf[y] \notin registered'
        PROVE  NoStop(TaskOf[y])'
    <3>1. TaskOf[y] \in Tasks /\ TaskOf[y] # t
      BY <1>1, <2>2, <2>4, ConstantsAssumption
    <3>2. NoStop(TaskOf[y])
      BY <1>1, <2>2, <2>4, <3>1 DEF LInv, StopInv
    <3> QED
      BY <2>1, <3>1, <3>2
  <2> QED
    BY <2>3, <2>4 DEF StopInv
<1>6. BegunInv'
  BY <1>1, <1>4 DEF LInv, BegunInv, Begun
<1> QED
  BY <1>3, <1>5, <1>6 DEF LInv

\* A write that fails, and a wait that gives up.
LEMMA WriteFailsLInv ==
  ASSUME IInv, LInv, WriteFails
  PROVE  LInv'
<1>1. /\ queue # <<>> /\ queue' = Tail(queue) /\ Receive(Head(queue), "error")
      /\ UNCHANGED <<state, digest, log, pc, fence, registered>>
  BY DEF WriteFails, store, authority, thread
<1>2. \A y \in Execs : receipt'[y] = receipt[y] \/ receipt'[y] = "error"
  BY <1>1, ReceiveFacts DEF IInv, Callers
<1>3. \A u \in Tasks : NoStop(u) => NoStop(u)'
  <2>1. \A u \in Tasks : Said(u)' \subseteq Said(u)
    BY <1>1, TailSaid DEF Said, IInv
  <2> QED
    BY <2>1 DEF NoStop
<1>4. ResultInv'
  <2>1. \A i \in 1 .. Len(queue') : i + 1 \in 1 .. Len(queue) /\ queue'[i] = queue[i + 1]
    BY <1>1, TailFacts DEF IInv, TypeOK
  <2>2. ASSUME NEW i \in 1 .. Len(queue'), Result(queue'[i])
        PROVE  \A j \in 1 .. i : ~Stops(queue'[j], queue'[i].task)
    <3>1. \A j \in 1 .. i : j + 1 \in 1 .. (i + 1) /\ j \in 1 .. Len(queue')
      OBVIOUS
    <3> QED
      BY <2>1, <2>2, <3>1 DEF LInv, ResultInv
  <2> QED
    BY <1>1, <2>1, <2>2 DEF LInv, ResultInv, Result, Stops
<1> QED
  BY <1>1, <1>2, <1>3, <1>4, CalmLInv

\* A wait that gives up: its command is queued still, or erased by a Stop.
LEMMA WaitTimesOutLInv ==
  ASSUME IInv, LInv, NEW a \in Callers, WaitTimesOut(a)
  PROVE  LInv'
<1>1. /\ receipt' = [receipt EXCEPT ![a] = "error"]
      /\ queue' = [i \in DOMAIN queue |-> [queue[i] EXCEPT !.waited = @ /\ queue[i].by # a]]
      /\ UNCHANGED <<state, digest, log, pc, fence, registered>>
  BY DEF WaitTimesOut, store, authority, thread
<1>2. /\ DOMAIN queue = 1 .. Len(queue) /\ Len(queue) \in Nat
      /\ \A i \in 1 .. Len(queue) : queue[i] \in Commands
  BY LenProperties, ElementOfSeq DEF IInv, TypeOK
<1>3. Len(queue') = Len(queue)
  <2>1. DOMAIN queue' = 1 .. Len(queue) /\ queue' \in [1 .. Len(queue) -> Commands]
    BY <1>1, <1>2 DEF Commands
  <2> QED
    BY <1>2, <2>1, LenProperties, SeqDef
<1>4. \A i \in 1 .. Len(queue) : queue'[i].task = queue[i].task /\ queue'[i].ev = queue[i].ev
  BY <1>1, <1>2 DEF Commands
<1>5. \A u \in Tasks : NoStop(u) => NoStop(u)'
  <2>1. \A u \in Tasks : Said(u)' \subseteq Said(u)
    BY <1>1, <1>3, <1>4 DEF Said
  <2> QED
    BY <2>1 DEF NoStop
<1>6. ResultInv'
  <2>1. \A i \in 1 .. Len(queue) : \A j \in 1 .. i : j \in 1 .. Len(queue)
    BY <1>2
  <2> QED
    BY <1>1, <1>3, <1>4, <2>1 DEF LInv, ResultInv, Result, Stops
<1>7. \A y \in Execs : receipt'[y] = "ok" => receipt[y] = "ok"
  BY <1>1 DEF IInv, TypeOK, Callers
<1> QED
  BY <1>1, <1>5, <1>6, <1>7, CalmLInv

\* The end of the process leaves no thread, no registration and no queue.
LEMMA LoseMemoryLInv ==
  ASSUME IInv, LInv, LoseMemory
  PROVE  LInv'
<1>1. /\ queue' = <<>> /\ Len(queue') = 0 /\ UNCHANGED <<state, digest, log>>
      /\ \A x \in Execs : receipt'[x] = "none" /\ pc'[x] = IF pc[x] \in Idle THEN pc[x] ELSE "lost"
  BY EmptySeq DEF LoseMemory, store, Callers
<1>2. \A x \in Execs : pc'[x] \in Idle
  BY <1>1 DEF Idle
<1>3. \A t \in Tasks : NoStop(t) => NoStop(t)'
  BY <1>1 DEF NoStop, Said
<1>4. StopInv'
  BY <1>1, <1>2, <1>3 DEF LInv, StopInv
<1>5. BegunInv'
  BY <1>2 DEF BegunInv, Begun, Idle
<1>6. ResultInv'
  BY <1>1 DEF ResultInv
<1> QED
  BY <1>4, <1>5, <1>6 DEF LInv

\* What the store does with an accepted command.
LEMMA WriteFacts ==
  ASSUME IInv, Write
  PROVE  LET h == Head(queue)
         IN  /\ h \in Commands /\ h = queue[1] /\ 1 \in 1 .. Len(queue) /\ CommandOK(h)
             /\ Len(queue) \in Nat /\ Len(queue') = Len(queue) - 1
             /\ \A i \in 1 .. Len(queue') : i + 1 \in 1 .. Len(queue) /\ queue'[i] = queue[i + 1]
             /\ \/ UNCHANGED <<state, digest, log>>
                \/ /\ Answer(h) = "ok"
                   /\ state' = [state EXCEPT ![h.task] = NewState(h)]
                   /\ digest' = IF h.ev.kind = "admitted"
                                THEN [digest EXCEPT ![h.task] = h.by] ELSE digest
                   /\ Len(log'[h.task]) = Len(log[h.task]) + 1
                   /\ log'[h.task][Len(log[h.task]) + 1] = h.ev
                   /\ \A j \in 1 .. Len(log[h.task]) : log'[h.task][j] = log[h.task][j]
                   /\ \A t \in Tasks \ {h.task} : log'[t] = log[t]
             /\ \A y \in Execs : \/ receipt'[y] = receipt[y]
                                 \/ receipt'[y] = Answer(h) /\ h.by = y /\ Awaited(h)
             /\ UNCHANGED <<pc, fence, registered>>
<1> DEFINE h == Head(queue)
           answer == Answer(h)
<1>1. /\ queue # <<>> /\ queue' = Tail(queue) /\ Receive(h, answer)
      /\ UNCHANGED <<pc, fence, registered>>
      /\ \/ UNCHANGED <<state, digest, log>>
         \/ /\ answer = "ok"
            /\ state' = [state EXCEPT ![h.task] = NewState(h)]
            /\ digest' = IF h.ev.kind = "admitted" THEN [digest EXCEPT ![h.task] = h.by] ELSE digest
            /\ log' = [log EXCEPT ![h.task] = Append(log[h.task], h.ev)]
  BY DEF Write, store, authority, thread
<1>2. /\ h \in Commands /\ h = queue[1] /\ 1 \in 1 .. Len(queue) /\ CommandOK(h)
      /\ Len(queue) \in Nat /\ Len(queue') = Len(queue) - 1
      /\ \A i \in 1 .. Len(queue') : i + 1 \in 1 .. Len(queue) /\ queue'[i] = queue[i + 1]
  BY <1>1, TailFacts DEF IInv, TypeOK, QueueInv
<1>3. answer \in {"ok", "duplicate", "error"}
  BY DEF Answer
<1>4. \A y \in Execs : receipt'[y] = receipt[y] \/ (receipt'[y] = answer /\ h.by = y /\ Awaited(h))
  BY <1>1, <1>3, ReceiveFacts DEF IInv, Callers
<1>5. h.task \in Tasks /\ h.ev \in Events
  BY <1>2 DEF Commands
<1> HIDE DEF h, answer
<1>6. ASSUME log' = [log EXCEPT ![h.task] = Append(log[h.task], h.ev)]
      PROVE  /\ Len(log'[h.task]) = Len(log[h.task]) + 1
             /\ log'[h.task][Len(log[h.task]) + 1] = h.ev
             /\ \A j \in 1 .. Len(log[h.task]) : log'[h.task][j] = log[h.task][j]
             /\ \A t \in Tasks \ {h.task} : log'[t] = log[t]
  <2>1. log'[h.task] = Append(log[h.task], h.ev) /\ \A t \in Tasks \ {h.task} : log'[t] = log[t]
    BY <1>5, <1>6 DEF IInv, TypeOK
  <2>2. log[h.task] \in Seq(Events)
    BY <1>5 DEF IInv, TypeOK
  <2> QED
    BY <1>5, <2>1, <2>2, AppendProperties
<1> QED
  BY <1>1, <1>2, <1>4, <1>6 DEF h, answer

\* The store accepts a command.
LEMMA WriteLInv ==
  ASSUME IInv, CInv, LInv, Write
  PROVE  LInv'
<1> DEFINE h == Head(queue)
           accepted == /\ Answer(h) = "ok"
                       /\ state' = [state EXCEPT ![h.task] = NewState(h)]
                       /\ digest' = IF h.ev.kind = "admitted"
                                    THEN [digest EXCEPT ![h.task] = h.by] ELSE digest
                       /\ Len(log'[h.task]) = Len(log[h.task]) + 1
                       /\ log'[h.task][Len(log[h.task]) + 1] = h.ev
                       /\ \A j \in 1 .. Len(log[h.task]) : log'[h.task][j] = log[h.task][j]
                       /\ \A t \in Tasks \ {h.task} : log'[t] = log[t]
<1>1. /\ h \in Commands /\ h = queue[1] /\ 1 \in 1 .. Len(queue) /\ CommandOK(h)
      /\ Len(queue) \in Nat /\ Len(queue') = Len(queue) - 1
      /\ \A i \in 1 .. Len(queue') : i + 1 \in 1 .. Len(queue) /\ queue'[i] = queue[i + 1]
  BY WriteFacts
<1>2. UNCHANGED <<state, digest, log>> \/ accepted
  BY WriteFacts
<1>3. /\ UNCHANGED <<pc, fence, registered>>
      /\ \A y \in Execs : \/ receipt'[y] = receipt[y]
                          \/ receipt'[y] = Answer(h) /\ h.by = y /\ Awaited(h)
  BY WriteFacts
<1>4. h.task \in Tasks /\ h.ev \in Events /\ h.ev \in Said(h.task)
  BY <1>1 DEF Commands, Said
<1>5. accepted => /\ NewState(h) # "absent"
                  /\ h.ev.kind = "admitted" => state[h.task] = "absent" /\ h.by \in Execs
                                               /\ h.task = TaskOf[h.by]
                  /\ NewState(h) = "admitted" => state[h.task] \in {"absent", "admitted"}
                  /\ h.ev.kind = "running" => NewState(h) = "running"
  BY <1>1, <1>4 DEF IInv, TypeOK, Answer, NewState, CommandOK, Terminal, Results
<1> HIDE DEF h
<1>6. /\ \A t \in Tasks : Len(log[t]) \in Nat
      /\ DOMAIN state = Tasks /\ DOMAIN digest = Tasks
  BY LenProperties DEF IInv, TypeOK
<1>7. \A t \in Tasks : \A j \in 1 .. Len(log'[t]) :
        \/ j \in 1 .. Len(log[t]) /\ log'[t][j] = log[t][j]
        \/ t = h.task /\ log'[t][j] = h.ev
  BY <1>2, <1>4, <1>6
<1>8. \A t \in Tasks : NoStop(t) => NoStop(t)'
  <2>1. \A t \in Tasks : \A e \in Said(t)' :
          \/ \E i \in 1 .. Len(log'[t]) : e = log'[t][i]
          \/ \E i \in 1 .. Len(queue') : queue'[i].task = t /\ e = queue'[i].ev
    BY DEF Said
  <2>2. \A t \in Tasks : \A j \in 1 .. Len(log'[t]) : log'[t][j] \in Said(t)
    BY <1>4, <1>7 DEF Said
  <2>3. \A t \in Tasks : \A i \in 1 .. Len(queue') : queue'[i].task = t => queue'[i].ev \in Said(t)
    BY <1>1 DEF Said
  <2>4. \A t \in Tasks : Said(t)' \subseteq Said(t)
    BY <2>1, <2>2, <2>3
  <2> QED
    BY <2>4 DEF NoStop
<1>9. \A t \in Tasks :
        /\ state[t] # "absent" => state'[t] # "absent" /\ digest'[t] = digest[t]
        /\ state[t] \notin {"absent", "admitted"} => state'[t] \notin {"absent", "admitted"}
  <2>1. CASE accepted
    BY <1>4, <1>5, <1>6, <2>1
  <2> QED
    BY <1>2, <2>1
<1>10. StopInv'
  <2>1. \A t \in Tasks : state'[t] = "absent" => NoStop(t)'
    BY <1>8, <1>9 DEF LInv, StopInv
  <2>2. ASSUME NEW y \in Execs, pc'[y] \notin Idle, digest'[TaskOf[y]] = y,
               fence'[TaskOf[y]] = Epoch \/ TaskOf[y] \notin registered'
        PROVE  NoStop(TaskOf[y])'
    <3>1. TaskOf[y] \in Tasks
      BY ConstantsAssumption
    <3>2. CASE state[TaskOf[y]] = "absent"
      BY <1>8, <3>1, <3>2 DEF LInv, StopInv
    <3>3. CASE state[TaskOf[y]] # "absent"
      BY <1>3, <1>8, <1>9, <2>2, <3>1, <3>3 DEF LInv, StopInv
    <3> QED
      BY <3>2, <3>3
  <2> QED
    BY <2>1, <2>2 DEF StopInv
<1>11. BegunInv'
  <2> SUFFICES ASSUME NEW y \in Execs, Begun(y)'
               PROVE  state'[TaskOf[y]] \notin {"absent", "admitted"}
    BY DEF BegunInv
  <2>1. TaskOf[y] \in Tasks
    BY ConstantsAssumption
  <2>2. CASE Begun(y)
    BY <1>9, <2>1, <2>2 DEF LInv, BegunInv
  <2>3. CASE ~Begun(y)
    <3>1. pc[y] = "start_wait" /\ Answer(h) = "ok" /\ h.by = y /\ Awaited(h)
      BY <1>3, <2>3 DEF Begun
    <3>2. h.ev.kind = "running" /\ h.task = TaskOf[y]
      BY <3>1 DEF Awaited, KindAt
    <3>3. CASE accepted
      BY <1>5, <1>6, <2>1, <3>2, <3>3
    <3>4. CASE UNCHANGED <<state, digest, log>>
      <4>1. log' # log \/ state' # state
        <5>1. state' = [state EXCEPT ![h.task] = NewState(h)]
          BY <3>1 DEF Write, h
        <5>2. state[h.task] = "admitted" /\ NewState(h) = "running"
          BY <3>1, <3>2 DEF Answer, NewState
        <5> QED
          BY <1>4, <1>6, <5>1, <5>2
      <4> QED
        BY <3>4, <4>1
    <3> QED
      BY <1>2, <3>3, <3>4
  <2> QED
    BY <2>2, <2>3
<1>12. ResultInv'
  <2> SUFFICES ASSUME NEW i \in 1 .. Len(queue'), Result(queue'[i])
               PROVE  /\ state'[queue'[i].task] \notin {"absent", "admitted"}
                      /\ \A j \in 1 .. Len(log'[queue'[i].task]) :
                           log'[queue'[i].task][j].kind # "cancel_requested"
                      /\ \A j \in 1 .. i : ~Stops(queue'[j], queue'[i].task)
    BY DEF ResultInv, Result, Stops
  <2> DEFINE c == queue[i + 1]
             t == c.task
  <2>1. i + 1 \in 1 .. Len(queue) /\ queue'[i] = c /\ Result(c) /\ t \in Tasks
    <3>1. i + 1 \in 1 .. Len(queue) /\ queue'[i] = c
      BY <1>1
    <3>2. c \in Commands
      BY <3>1, ElementOfSeq DEF IInv, TypeOK
    <3> QED
      BY <3>1, <3>2 DEF Commands
  <2>2. /\ state[t] \notin {"absent", "admitted"}
        /\ \A j \in 1 .. Len(log[t]) : log[t][j].kind # "cancel_requested"
        /\ \A j \in 1 .. (i + 1) : ~Stops(queue[j], t)
    BY <2>1 DEF LInv, ResultInv
  <2>3. \A j \in 1 .. i : j + 1 \in 1 .. (i + 1) /\ queue'[j] = queue[j + 1] /\ 1 \in 1 .. (i + 1)
    BY <1>1
  <2>4. ~Stops(h, t)
    BY <1>1, <2>2, <2>3 DEF h
  <2> HIDE DEF c
  <2>5. \A j \in 1 .. Len(log'[t]) : log'[t][j].kind # "cancel_requested"
    BY <1>7, <2>1, <2>2, <2>4 DEF Stops
  <2> QED
    BY <1>9, <2>1, <2>2, <2>3, <2>5
<1> QED
  BY <1>10, <1>11, <1>12 DEF LInv

\* At the start nothing is said.
LEMMA InitLInv == Init => LInv
<1> SUFFICES ASSUME Init PROVE LInv
  OBVIOUS
<1>1. Len(queue) = 0 /\ queue = <<>> /\ \A t \in Tasks : log[t] = <<>> /\ Len(log[t]) = 0
  BY EmptySeq DEF Init
<1>2. \A t \in Tasks : NoStop(t)
  BY <1>1 DEF NoStop, Said
<1>3. StopInv /\ BegunInv /\ ResultInv
  BY <1>1, <1>2, ConstantsAssumption DEF Init, StopInv, BegunInv, Begun, ResultInv
<1> QED
  BY <1>3 DEF LInv

\* Every step keeps them.
LEMMA NextLInv ==
  ASSUME SerialTurns, IInv, CInv, LInv, [Next]_vars
  PROVE  LInv'
<1>1. ASSUME NEW x \in Execs, Submit(x) \/ ThreadStep(x) PROVE LInv'
  BY <1>1, SubmitLInv, ThreadStepLInv
<1>2. CASE Write
  BY <1>2, WriteLInv
<1>3. CASE WriteFails \/ \E a \in Callers : WaitTimesOut(a)
  BY <1>3, WriteFailsLInv, WaitTimesOutLInv
<1>4. ASSUME NEW t \in Tasks, RequestCancel(t) PROVE LInv'
  BY <1>4, RequestCancelLInv
<1>5. CASE Crash \/ Exit
  BY <1>5, LoseMemoryLInv DEF Crash, Exit
<1>6. CASE \/ CancelWaited \/ Quit \/ Open \/ RecoveryStep
           \/ \E c \in live : ProcessExits(c)
           \/ UNCHANGED vars
  BY <1>6, OthersLInv DEF RecoveryStep
<1> QED
  BY <1>1, <1>2, <1>3, <1>4, <1>5, <1>6 DEF Next

\* Only the writer changes what the store says.
LEMMA OnlyTheWriter == [Next]_vars => Write \/ UNCHANGED <<state, log>>
<1> SUFFICES ASSUME [Next]_vars, ~Write PROVE UNCHANGED <<state, log>>
  OBVIOUS
<1> USE DEF store
<1>1. ASSUME NEW x \in Execs, Submit(x) PROVE UNCHANGED <<state, log>>
  BY <1>1 DEF Submit
<1>2. ASSUME NEW x \in Execs, ToolStep(x) PROVE UNCHANGED <<state, log>>
  BY <1>2 DEF ToolStep, StartTool, ToolStartWaited, Spawn, HandlerWithoutProcess,
     CommandReturns, CommandRaises, Finish, FinishWaited, LastFinishWaited
<1>3. ASSUME NEW x \in Execs, Commit(x) \/ FinalizeControllerFault(x) \/ FinalizeCancelUnreconciled(x)
      PROVE UNCHANGED <<state, log>>
  BY <1>3 DEF Commit, FinalizeControllerFault, FinalizeCancelUnreconciled, FinalizeResult
<1>4. ASSUME NEW x \in Execs, ThreadStep(x) PROVE UNCHANGED <<state, log>>
  BY <1>2, <1>3, <1>4 DEF ThreadStep, RegisterOnce, AdmissionWaited, Start, StartWaited,
     EnterController, ControllerReturns, ControllerRaises, CheckReturned, ResultCommitted,
     FaultCommitted, FaultRelease, StaleCommitted, StaleRelease, FailRelease
<1>5. CASE WriteFails \/ \E a \in Callers : WaitTimesOut(a)
  BY <1>5 DEF WriteFails, WaitTimesOut
<1>6. CASE (\E t \in Tasks : RequestCancel(t)) \/ CancelWaited
  BY <1>6 DEF RequestCancel, CancelWaited
<1>7. CASE Crash \/ Quit \/ Exit \/ Open
  BY <1>7 DEF Crash, Quit, Exit, Open, LoseMemory
<1>8. CASE RecoveryStep \/ \E c \in live : ProcessExits(c)
  BY <1>8 DEF RecoveryStep, RecoverTask, RecoveryFails, Recovered, ProcessExits
<1>9. CASE UNCHANGED vars
  BY <1>9 DEF vars
<1> QED
  BY <1>1, <1>4, <1>5, <1>6, <1>7, <1>8, <1>9 DEF Next

\* An accepted command is a step of the abstract lifecycle.
LEMMA WriteSteps ==
  ASSUME IInv, LInv, Write
  PROVE  Lifecycle!Next \/ UNCHANGED <<state, StopRecorded>>
<1>a. PICK h \in Commands : h = Head(queue)
  BY WriteFacts
<1>b. PICK t \in Tasks : t = h.task
  BY DEF Commands
<1>1. /\ h \in Commands /\ h = queue[1] /\ 1 \in 1 .. Len(queue) /\ CommandOK(h)
      /\ \/ UNCHANGED <<state, digest, log>>
         \/ /\ Answer(h) = "ok"
            /\ state' = [state EXCEPT ![t] = NewState(h)]
            /\ Len(log'[t]) = Len(log[t]) + 1
            /\ log'[t][Len(log[t]) + 1] = h.ev
            /\ \A j \in 1 .. Len(log[t]) : log'[t][j] = log[t][j]
            /\ \A u \in Tasks \ {t} : log'[u] = log[u]
  BY <1>a, <1>b, WriteFacts
<1>2. CASE UNCHANGED <<state, digest, log>>
  BY <1>2 DEF StopRecorded, Has
<1>3. CASE /\ Answer(h) = "ok"
           /\ state' = [state EXCEPT ![t] = NewState(h)]
           /\ Len(log'[t]) = Len(log[t]) + 1
           /\ log'[t][Len(log[t]) + 1] = h.ev
           /\ \A j \in 1 .. Len(log[t]) : log'[t][j] = log[t][j]
           /\ \A u \in Tasks \ {t} : log'[u] = log[u]
  <2>1. t \in Tasks /\ h.ev \in Events /\ h.ev.kind \in Kinds
    BY <1>1 DEF Commands, Events
  <2>2. NewState(h) \in {"admitted", "running"} \cup Terminal
    BY <1>1, <1>b, <1>3, <2>1 DEF IInv, TypeOK, Answer, NewState, CommandOK, Terminal, Results
  <2>3. Write /\ IInv /\ IInv' /\ DOMAIN state = Tasks
    BY WriteInv DEF IInv, TypeOK
  <2>4. /\ DOMAIN log[t] = 1 .. Len(log[t]) /\ Len(log[t]) \in Nat
        /\ DOMAIN log'[t] = 1 .. Len(log'[t])
    BY <2>1, <2>3, LenProperties DEF IInv, TypeOK
  <2> DEFINE cancelled == Has(t, "cancel_requested")
  <2>5. cancelled' <=> cancelled \/ h.ev.kind = "cancel_requested"
    BY <1>3, <2>4 DEF Has
  <2>6. \A u \in Tasks \ {t} : Has(u, "cancel_requested")' = Has(u, "cancel_requested")
    BY <1>3 DEF Has
  <2>7. /\ StopRecorded[t] = cancelled
        /\ StopRecorded' = [StopRecorded EXCEPT ![t] = cancelled']
    BY <2>1, <2>6 DEF StopRecorded
  <2>8. (cancelled' <=> cancelled) => StopRecorded' = StopRecorded
    BY <2>1, <2>6 DEF StopRecorded, Has
  <2> HIDE DEF cancelled
  <2>9. CASE h.ev.kind = "admitted"
    <3>1. state[t] = "absent" /\ NewState(h) = "admitted"
      BY <1>b, <1>3, <2>9 DEF Answer, NewState
    <3> QED
      BY <1>3, <2>1, <2>5, <2>8, <2>9, <3>1 DEF Lifecycle!Next, Lifecycle!Admit
  <2>10. CASE h.ev.kind = "running"
    <3>1. state[t] = "admitted" /\ NewState(h) = "running"
      BY <1>b, <1>3, <2>10 DEF Answer, NewState
    <3> QED
      BY <1>3, <2>1, <2>5, <2>8, <2>10, <3>1 DEF Lifecycle!Next, Lifecycle!Begin
  <2>11. ASSUME h.ev.kind \notin {"admitted", "running"} PROVE state[t] \in {"admitted", "running"}
    BY <1>b, <1>3, <2>1, <2>3, <2>11 DEF Answer, IInv, TypeOK
  <2>12. CASE h.ev.kind = "cancel_requested"
    <3>1. NewState(h) = state[t] /\ state' = state
      BY <1>b, <1>3, <2>3, <2>12 DEF NewState, IInv, TypeOK
    <3>2. StopRecorded' = [StopRecorded EXCEPT ![t] = TRUE]
      BY <2>5, <2>7, <2>12
    <3> QED
      BY <2>1, <2>11, <2>12, <3>1, <3>2 DEF Lifecycle!Next, Lifecycle!Stop
  <2>13. CASE h.ev.kind \in {"started", "finished"}
    <3>1. NewState(h) = state[t] /\ state' = state
      BY <1>b, <1>3, <2>3, <2>13 DEF NewState, IInv, TypeOK
    <3> QED
      BY <2>5, <2>8, <2>13, <3>1
  <2>14. CASE h.ev.kind = "closed"
    <3> DEFINE s == h.ev.status
    <3>1. NewState(h) = s /\ s \in Lifecycle!Closed
      BY <1>1, <2>14 DEF NewState, CommandOK, Terminal, Results, Lifecycle!Closed
    <3>2. s \in {"completed", "failed"} => state[t] = "running" /\ ~StopRecorded[t]
      <4> SUFFICES ASSUME s \in Results PROVE state[t] = "running" /\ ~cancelled
        BY <2>7 DEF Results
      <4>1. Result(queue[1])
        BY <1>1, <2>14 DEF Result
      <4>2. /\ state[t] \notin {"absent", "admitted"}
            /\ \A j \in 1 .. Len(log[t]) : log[t][j].kind # "cancel_requested"
        BY <1>1, <1>b, <4>1 DEF LInv, ResultInv
      <4> QED
        BY <2>4, <2>11, <2>14, <4>2 DEF cancelled, Has
    <3>3. Lifecycle!Close(t, s)
      BY <1>3, <2>5, <2>8, <2>11, <2>14, <3>1, <3>2 DEF Lifecycle!Close
    <3> QED
      BY <2>1, <3>1, <3>3 DEF Lifecycle!Next
  <2> QED
    BY <2>1, <2>9, <2>10, <2>12, <2>13, <2>14 DEF Kinds
<1> QED
  BY <1>1, <1>2, <1>3

\* Durable execution implements the abstract lifecycle of a task, for any
\* interleaving of late writes, Stops, crashes and recoveries, when turns are
\* serial as HubTurnDispatcher makes them.
THEOREM ImplementsTaskLifecycle == SerialTurns => (Spec => LifecycleSpec)
<1> SUFFICES ASSUME SerialTurns PROVE Spec => LifecycleSpec
  OBVIOUS
<1>1. Init => CInv /\ LInv /\ Lifecycle!Init
  <2>1. Init => Lifecycle!Init
    BY DEF Init, Lifecycle!Init, StopRecorded, Has
  <2> QED
    BY <2>1, InitCInv, InitLInv
<1>2. IInv /\ IInv' /\ CInv /\ LInv /\ [Next]_vars => CInv' /\ LInv'
  BY NextCInv, NextLInv
<1>3. IInv /\ LInv /\ [Next]_vars => [Lifecycle!Next]_<<state, StopRecorded>>
  <2> SUFFICES ASSUME IInv, LInv, [Next]_vars PROVE [Lifecycle!Next]_<<state, StopRecorded>>
    OBVIOUS
  <2>1. CASE Write
    BY <2>1, WriteSteps
  <2>2. CASE UNCHANGED <<state, log>>
    BY <2>2 DEF StopRecorded, Has
  <2> QED
    BY <2>1, <2>2, OnlyTheWriter
<1> QED
  BY <1>1, <1>2, <1>3, Invariant, PTL DEF Spec, LifecycleSpec, Lifecycle!Spec

-----------------------------------------------------------------------------
(* Nothing is left behind: restarts close old tasks, and without failed or   *)
(* late writes no task is stranded and no registration leaks.                *)

Queued == {queue[i] : i \in 1 .. Len(queue)}

\* What happens in which phase of the process, and who queues what.
PhaseInv ==
  /\ \A x \in Execs : pc[x] \notin Idle => phase = "open"
  /\ phase = "down" => queue = <<>>
  /\ phase = "recovering" => \A c \in Queued : c.by = Recovery
  /\ phase # "recovering" => receipt[Recovery] # "pending"
  /\ \A c \in Queued :
       /\ c.by = Stopper => c.ev.kind = "cancel_requested"
       /\ c.by = Recovery => c.ev.kind = "closed"
       /\ c.by \in Execs => pc[c.by] \notin {"new", "lost"}

\* A task the start-up has still to close, or is closing.
Closing(t) ==
  \/ t \in todo
  \/ receipt[Recovery] = "error"
  \/ \E c \in Queued : c.by = Recovery /\ c.waited /\ c.task = t

RestartInv ==
  \A t \in Unterminated :
    /\ phase = "recovering" => Closing(t)
    /\ phase = "open" => pc[digest[t]] \notin {"new", "lost"}

\* The row of the task of x belongs to another payload.
Mismatch(x) ==
  LET y == digest[TaskOf[x]]
  IN  y \in Execs /\ PayloadOf[x] # PayloadOf[y]

Working == {"enter", "controller", "tool_start", "tool", "tool_run", "tool_finish",
            "tool_last", "returned", "commit", "fault"}

\* Where the thread of x is, its receipt and the row of its task agree when no
\* write failed or was late.
AgreeInv(x) ==
  LET t == TaskOf[x]
      closed == state[t] \in Terminal
  IN  /\ pc[x] \notin Idle \cup {"register"} /\ digest[t] \in {x, None} =>
           owns[x] /\ t \in registered
      /\ pc[x] \in {"register", "admission"} =>
           \/ receipt[x] = "pending" /\ digest[t] # x
           \/ receipt[x] = "ok" /\ digest[t] = x /\ state[t] = "admitted"
           \/ receipt[x] = "duplicate" /\ digest[t] # x
           \/ receipt[x] = "error" /\ Mismatch(x)
      /\ pc[x] = "failing" => Mismatch(x)
      /\ pc[x] = "start" => state[t] = "admitted"
      /\ pc[x] = "start_wait" => \/ receipt[x] = "pending" /\ state[t] = "admitted"
                                 \/ receipt[x] = "ok" /\ ~closed
      /\ pc[x] \in Working => digest[t] = x /\ ~closed
      /\ pc[x] = "final" =>
           \/ receipt[x] = "pending" /\ (via[x] # "stale" => digest[t] = x /\ ~closed)
           \/ receipt[x] = "ok" /\ closed
           \/ receipt[x] = "error" /\ via[x] = "stale" /\ closed
      /\ pc[x] \in {"fault_release", "stale_release"} => closed
      /\ pc[x] = "done" /\ digest[t] = x => closed

\* A registration is owned by the thread at work, or was left by a submission
\* with another payload than the row's.
RegisteredInv ==
  \A t \in registered :
    \/ \E x \in Execs : TaskOf[x] = t /\ owns[x] /\ pc[x] \notin Idle \cup {"register"}
    \/ /\ digest[t] \in Execs /\ pc[digest[t]] \in Idle
       /\ \E x \in Execs : TaskOf[x] = t /\ Mismatch(x)

\* Without failed or late writes.
FaultlessInv ==
  faults = 0 =>
    /\ \A c \in Queued : c.waited
    /\ \A x \in Execs : AgreeInv(x)
    /\ RegisteredInv

NInv == PhaseInv /\ RestartInv /\ FaultlessInv

\* Putting a command adds at most that one.
LEMMA QueuedPut ==
  ASSUME TypeOK, NEW a \in Callers, NEW t \in Tasks, NEW ev \in Events, Put(a, t, ev)
  PROVE  LET c == [task |-> t, ev |-> ev, by |-> a, waited |-> TRUE]
         IN  /\ \/ Queued' = Queued \cup {c} /\ receipt'[a] = "pending"
                \/ Queued' = Queued /\ receipt'[a] = "error"
             /\ receipt' = [receipt EXCEPT ![a] = receipt'[a]]
             /\ Len(queue) < QueueLimit => receipt'[a] = "pending"
<1> DEFINE c == [task |-> t, ev |-> ev, by |-> a, waited |-> TRUE]
<1>1. /\ receipt' = [receipt EXCEPT ![a] = receipt'[a]]
      /\ \/ queue' = queue /\ receipt'[a] = "error"
         \/ /\ receipt'[a] = "pending"
            /\ Len(queue') = Len(queue) + 1
            /\ queue'[Len(queue) + 1] = c
            /\ \A i \in 1 .. Len(queue) : queue'[i] = queue[i]
  BY ConstantsAssumption, PutFacts DEF TypeOK
<1>2. Len(queue) < QueueLimit => receipt'[a] = "pending"
  BY DEF Put, TypeOK
<1> HIDE DEF c
<1>3. Len(queue) \in Nat
  BY LenProperties DEF TypeOK
<1>4. ASSUME Len(queue') = Len(queue) + 1, queue'[Len(queue) + 1] = c,
             \A i \in 1 .. Len(queue) : queue'[i] = queue[i]
      PROVE  Queued' = Queued \cup {c}
  <2>1. 1 .. Len(queue') = (1 .. Len(queue)) \cup {Len(queue) + 1}
    BY <1>3, <1>4
  <2> QED
    BY <1>4, <2>1 DEF Queued
<1> QED
  BY <1>1, <1>2, <1>4 DEF c, Queued

\* Taking the head keeps the others.
LEMMA QueuedTail ==
  ASSUME TypeOK, queue # <<>>, queue' = Tail(queue)
  PROVE  /\ Head(queue) \in Queued /\ Queued' \subseteq Queued
         /\ Queued \subseteq Queued' \cup {Head(queue)}
<1>1. /\ Head(queue) = queue[1] /\ 1 \in 1 .. Len(queue)
      /\ Len(queue) \in Nat /\ Len(queue') = Len(queue) - 1
      /\ \A i \in 1 .. Len(queue') : i + 1 \in 1 .. Len(queue) /\ queue'[i] = queue[i + 1]
  BY TailFacts DEF TypeOK
<1>2. \A i \in 1 .. Len(queue) : i = 1 \/ (i - 1 \in 1 .. Len(queue') /\ queue'[i - 1] = queue[i])
  <2> SUFFICES ASSUME NEW i \in 1 .. Len(queue), i # 1
               PROVE  i - 1 \in 1 .. Len(queue') /\ queue'[i - 1] = queue[i]
    OBVIOUS
  <2>1. i - 1 \in 1 .. Len(queue') /\ (i - 1) + 1 = i
    BY <1>1
  <2> QED
    BY <1>1, <2>1
<1> QED
  BY <1>1, <1>2 DEF Queued

\* What is queued is a command, complete and, when waited for, awaited.
LEMMA QueuedTypes ==
  ASSUME IInv, NEW c \in Queued
  PROVE  /\ c \in Commands
         /\ c.ev.kind = "closed" => c.ev.status \in Terminal
         /\ c.waited => Awaited(c) /\ receipt[c.by] = "pending"
<1>1. PICK i \in 1 .. Len(queue) : c = queue[i]
  BY DEF Queued
<1>2. c \in Commands
  BY <1>1, ElementOfSeq DEF IInv, TypeOK
<1> QED
  BY <1>1, <1>2 DEF IInv, QueueInv, CommandOK, Awaited

\* Without failed or late writes a thread that does not wait finds room in the
\* queue: only a Stop can be there.
LEMMA Room ==
  ASSUME IInv, PhaseInv, QueueLimit >= 2, \A c \in Queued : c.waited, phase = "open",
         \A y \in Execs : pc[y] \in Waits \cup {"register"} => receipt[y] # "pending"
  PROVE  Len(queue) < QueueLimit
<1>1. \A c \in Queued : c.by = Stopper
  <2> SUFFICES ASSUME NEW c \in Queued PROVE c.by = Stopper
    OBVIOUS
  <2>1. c \in Commands /\ Awaited(c) /\ receipt[c.by] = "pending"
    BY QueuedTypes
  <2>2. c.by \notin Execs
    BY <2>1 DEF Awaited
  <2>3. c.by # Recovery
    BY <2>1 DEF PhaseInv
  <2> QED
    BY <2>1, <2>2, <2>3 DEF Commands, Callers
<1>2. Len(queue) \in Nat
  BY LenProperties DEF IInv, TypeOK
<1>3. ASSUME Len(queue) >= 2 PROVE FALSE
  <2>1. 1 \in 1 .. Len(queue) /\ 2 \in 1 .. Len(queue)
    BY <1>2, <1>3
  <2>2. /\ queue[1] \in Queued /\ queue[2] \in Queued
    BY <2>1 DEF Queued
  <2> QED
    BY <1>1, <2>1, <2>2 DEF IInv, SingleInv
<1> QED
  BY <1>2, <1>3, ConstantsAssumption

-----------------------------------------------------------------------------
(* Who queues what, in which phase.                                        *)

\* A step of the thread of x, as the phases see it.
Paces(x) ==
  /\ UNCHANGED <<state, digest, phase, todo, faults>>
  /\ \A y \in Execs \ {x} : pc'[y] = pc[y] /\ receipt'[y] = receipt[y] /\ owns'[y] = owns[y]
  /\ pc'[x] \notin {"new", "lost"}
  /\ receipt'[Recovery] = receipt[Recovery]
  /\ Queued \subseteq Queued'
  /\ \A c \in Queued' : c \in Queued \/ (c.by = x /\ c.waited)

\* A thread that queues nothing.
LEMMA SamePaces ==
  ASSUME TypeOK, NEW x \in Execs, NEW p \in PCs \ {"new", "lost"}, Go(x, p),
         UNCHANGED <<state, digest, phase, todo, faults, queue, receipt>>,
         \A y \in Execs \ {x} : owns'[y] = owns[y]
  PROVE  Paces(x)
BY DEF Paces, Go, TypeOK, Queued

\* A thread that queues a command.
LEMMA PutPaces ==
  ASSUME TypeOK, NEW x \in Execs, NEW p \in PCs \ {"new", "lost"}, Go(x, p),
         UNCHANGED <<state, digest, phase, todo, faults, owns>>,
         NEW ev \in Events, Put(x, TaskOf[x], ev)
  PROVE  Paces(x)
<1>1. x \in Callers /\ TaskOf[x] \in Tasks /\ Recovery \in Callers /\ Recovery # x
  BY ConstantsAssumption DEF Callers
<1>2. /\ Queued \subseteq Queued'
      /\ \A c \in Queued' : c \in Queued \/ (c.by = x /\ c.waited)
      /\ receipt' = [receipt EXCEPT ![x] = receipt'[x]]
  BY <1>1, QueuedPut
<1>3. \A y \in Callers \ {x} : receipt'[y] = receipt[y]
  BY <1>2 DEF TypeOK
<1> QED
  BY <1>1, <1>2, <1>3 DEF Paces, Go, TypeOK, Callers

\* The steps of a thread that queue nothing.
LEMMA QuietPaces ==
  ASSUME TypeOK, NEW x \in Execs,
         \/ RegisterOnce(x) \/ AdmissionWaited(x) \/ StartWaited(x) \/ EnterController(x)
         \/ ToolStartWaited(x) \/ Spawn(x) \/ LastFinishWaited(x)
         \/ \E r \in Results : ControllerReturns(x, r)
         \/ ControllerRaises(x) \/ CheckReturned(x)
         \/ ResultCommitted(x) \/ FaultCommitted(x) \/ FaultRelease(x)
         \/ StaleCommitted(x) \/ StaleRelease(x) \/ FailRelease(x)
  PROVE  Paces(x)
<1> DEFINE Same == /\ UNCHANGED <<state, digest, phase, todo, faults, queue, receipt>>
                   /\ \A y \in Execs \ {x} : owns'[y] = owns[y]
                   /\ \E p \in PCs \ {"new", "lost"} : Go(x, p)
<1>0. SUFFICES Same
  BY SamePaces
<1>1. CASE RegisterOnce(x)
  <2>1. \A y \in Execs \ {x} : owns'[y] = owns[y]
    BY <1>1 DEF RegisterOnce, TypeOK
  <2> QED
    BY <1>1, <2>1 DEF RegisterOnce, store, service, bounds, PCs, Waits
<1>2. CASE AdmissionWaited(x)
  BY <1>2 DEF AdmissionWaited, store, service, bounds, PCs, Idle
<1>3. CASE StartWaited(x) \/ EnterController(x)
  BY <1>3 DEF StartWaited, EnterController, store, service, bounds, PCs
<1>4. CASE ToolStartWaited(x) \/ Spawn(x) \/ LastFinishWaited(x)
  BY <1>4 DEF ToolStartWaited, Spawn, LastFinishWaited, store, service, bounds, PCs
<1>5. CASE (\E r \in Results : ControllerReturns(x, r)) \/ ControllerRaises(x)
  BY <1>5 DEF ControllerReturns, ControllerRaises, store, service, bounds, PCs
<1>6. CASE CheckReturned(x)
  BY <1>6 DEF CheckReturned, Refused, store, service, bounds, PCs
<1>7. CASE ResultCommitted(x) \/ FaultCommitted(x)
  BY <1>7 DEF ResultCommitted, FaultCommitted, store, service, bounds, authority, PCs, Idle
<1>8. CASE FaultRelease(x) \/ StaleCommitted(x) \/ StaleRelease(x) \/ FailRelease(x)
  BY <1>8 DEF FaultRelease, StaleCommitted, StaleRelease, FailRelease, store, service, bounds,
     PCs, Idle
<1> QED
  BY <1>1, <1>2, <1>3, <1>4, <1>5, <1>6, <1>7, <1>8

\* A terminal is an event.
LEMMA FinalPaces ==
  ASSUME TypeOK, NEW x \in Execs, NEW status \in Terminal, NEW reason \in Reasons, NEW handler,
         FinalizeResult(x, status, reason, handler)
  PROVE  Paces(x)
<1> DEFINE trusted == status # "completed" \/ Cleanup(TaskOf[x]) \in {"not_needed", "confirmed"}
           ev == ClosedEvent(IF trusted THEN status ELSE "unknown", Cleanup(TaskOf[x]),
                             IF trusted THEN reason ELSE "cleanup_unknown")
<1>1. ev \in Events
  BY CleanupType, EventTypes DEF Terminal, Reasons
<1>2. /\ Put(x, TaskOf[x], ev) /\ Go(x, "final")
      /\ UNCHANGED <<state, digest, phase, todo, faults, owns>>
  BY DEF FinalizeResult, store, bounds
<1> HIDE DEF ev
<1> QED
  BY <1>1, <1>2, PutPaces DEF PCs, Waits

\* The steps that queue.
LEMMA PuttingPaces ==
  ASSUME IInv, NEW x \in Execs,
         \/ Start(x) \/ FinishWaited(x) \/ HandlerWithoutProcess(x)
         \/ \E k \in Tools : StartTool(x, k)
         \/ \E end \in {"ok", "timeout", "broke"} : CommandReturns(x, end)
         \/ \E end \in {"stopped", "unsettled", "broke"} : CommandRaises(x, end)
         \/ Commit(x) \/ FinalizeControllerFault(x) \/ FinalizeCancelUnreconciled(x)
  PROVE  Paces(x)
<1>0. TypeOK
  BY DEF IInv
<1>1. CASE Start(x)
  <2>1. CASE Refused(x) /\ UNCHANGED <<queue, receipt, lock>>
    BY <1>0, <1>1, <2>1, SamePaces DEF Start, Refused, store, bounds, PCs
  <2>2. CASE Put(x, TaskOf[x], Event("running")) /\ Go(x, "start_wait")
    BY <1>0, <1>1, <2>2, PutPaces, EventTypes DEF Start, store, bounds, PCs, Waits, Kinds
  <2> QED
    BY <1>1, <2>1, <2>2 DEF Start
<1>2. ASSUME NEW end \in Ends, NEW p \in {"tool_finish", "tool_last"}, Finish(x, end, p),
             pc[x] \in {"tool", "tool_run"}
      PROVE  Paces(x)
  <2>1. FinishedEvent(call[x], end) \in Events
    BY <1>2, EventTypes DEF IInv, CallInv, ToolPoints
  <2> QED
    BY <1>0, <1>2, <2>1, PutPaces DEF Finish, store, bounds, PCs, Waits
<1>3. CASE HandlerWithoutProcess(x)
  BY <1>2, <1>3 DEF HandlerWithoutProcess, Ends
<1>4. ASSUME NEW end \in {"ok", "timeout", "broke"}, CommandReturns(x, end) PROVE Paces(x)
  BY <1>2, <1>4 DEF CommandReturns, Ends
<1>5. ASSUME NEW end \in {"stopped", "unsettled", "broke"}, CommandRaises(x, end) PROVE Paces(x)
  BY <1>2, <1>5 DEF CommandRaises, Ends
<1>6. CASE FinishWaited(x)
  <2>1. CASE Go(x, "controller") /\ UNCHANGED <<queue, receipt>>
    BY <1>0, <1>6, <2>1, SamePaces DEF FinishWaited, store, bounds, PCs
  <2>2. CASE Put(x, TaskOf[x], FinishedEvent(call[x], "broke")) /\ Go(x, "tool_last")
    <3>1. FinishedEvent(call[x], "broke") \in Events
      BY <1>6, EventTypes DEF IInv, CallInv, ToolPoints, FinishWaited, Ends
    <3> QED
      BY <1>0, <1>6, <2>2, <3>1, PutPaces DEF FinishWaited, store, bounds, PCs, Waits
  <2> QED
    BY <1>6, <2>1, <2>2 DEF FinishWaited
<1>7. ASSUME NEW k \in Tools, StartTool(x, k) PROVE Paces(x)
  <2> DEFINE c == <<TaskOf[x], ordinal[x], k>>
  <2>1. c \in Calls
    BY <1>0, <1>7, ConstantsAssumption DEF Calls, TypeOK
  <2>2. /\ Put(x, TaskOf[x], StartedEvent(c)) /\ Go(x, "tool_start")
        /\ UNCHANGED <<state, digest, phase, todo, faults, owns>>
    BY <1>7 DEF StartTool, store
  <2> HIDE DEF c
  <2> QED
    BY <1>0, <2>1, <2>2, PutPaces, EventTypes DEF PCs, Waits
<1>8. CASE Commit(x)
  <2>1. CASE Refused(x) /\ UNCHANGED <<store, service, owns, bounds>>
    BY <1>0, <1>8, <2>1, SamePaces DEF Refused, store, service, bounds, PCs
  <2>2. CASE FinalizeResult(x, "unknown", "controller_fault", "open_call")
    BY <1>0, <2>2, FinalPaces DEF Terminal, Reasons
  <2>3. CASE FinalizeResult(x, result[x], "worker", "result")
    <3>1. result[x] \in Terminal
      BY <1>8 DEF IInv, CallInv, Commit, Terminal
    <3> QED
      BY <1>0, <2>3, <3>1, FinalPaces DEF Reasons
  <2> QED
    BY <1>8, <2>1, <2>2, <2>3 DEF Commit
<1>9. CASE FinalizeControllerFault(x)
  BY <1>0, <1>9, FinalPaces DEF FinalizeControllerFault, Terminal, Reasons
<1>10. CASE FinalizeCancelUnreconciled(x)
  <2>1. \E reason \in {"cancelled", "cancel_unreconciled"} :
          FinalizeResult(x, "unknown", reason, "stale")
    BY <1>10 DEF FinalizeCancelUnreconciled
  <2> QED
    BY <1>0, <2>1, FinalPaces DEF Terminal, Reasons
<1> QED
  BY <1>1, <1>3, <1>4, <1>5, <1>6, <1>7, <1>8, <1>9, <1>10

\* Every step of a thread.
LEMMA ThreadPaces ==
  ASSUME IInv, NEW x \in Execs, ThreadStep(x)
  PROVE  Paces(x) /\ pc[x] \notin Idle
<1>1. Paces(x)
  BY QuietPaces, PuttingPaces DEF ThreadStep, ToolStep, IInv
<1>2. pc[x] \notin Idle
  BY DEF ThreadStep, ToolStep, RegisterOnce, AdmissionWaited, Start, StartWaited,
     EnterController, StartTool, ToolStartWaited, Spawn, HandlerWithoutProcess,
     CommandReturns, CommandRaises, FinishWaited, LastFinishWaited, ControllerReturns,
     ControllerRaises, CheckReturned, Commit, FinalizeControllerFault,
     FinalizeCancelUnreconciled, ResultCommitted, FaultCommitted, FaultRelease,
     StaleCommitted, StaleRelease, FailRelease, Idle
<1> QED
  BY <1>1, <1>2

\* A submit call.
LEMMA SubmitPaces ==
  ASSUME TypeOK, NEW x \in Execs, Submit(x)
  PROVE  Paces(x) /\ phase = "open" /\ pc[x] = "new"
<1>1. /\ Put(x, TaskOf[x], Event("admitted")) /\ Event("admitted") \in Events
      /\ UNCHANGED <<state, digest, phase, todo, faults, owns>>
      /\ \E p \in PCs \ {"new", "lost"} : Go(x, p)
      /\ phase = "open" /\ pc[x] = "new"
  BY EventTypes DEF Submit, store, bounds, Kinds, PCs, Idle
<1> QED
  BY <1>1, PutPaces

\* A step of a thread in an open session.
LEMMA PacesPhase ==
  ASSUME TypeOK, CInv, PhaseInv, RestartInv, NEW x \in Execs, Paces(x), phase = "open"
  PROVE  PhaseInv' /\ RestartInv'
<1>1. PhaseInv'
  <2>1. \A c \in Queued' : c.by \in Execs => pc'[c.by] \notin {"new", "lost"}
    BY DEF PhaseInv, Paces
  <2>2. \A c \in Queued' : /\ c.by = Stopper => c.ev.kind = "cancel_requested"
                           /\ c.by = Recovery => c.ev.kind = "closed"
    BY ConstantsAssumption DEF PhaseInv, Paces
  <2> QED
    BY <2>1, <2>2 DEF PhaseInv, Paces
<1>2. RestartInv'
  BY DEF RestartInv, Paces, Unterminated, CInv, RowInv
<1> QED
  BY <1>1, <1>2

\* The writer takes a command, whatever it answers.
LEMMA WritesPhase ==
  ASSUME IInv, PhaseInv, UNCHANGED <<pc, phase, todo>>,
         phase # "down", queue # <<>>, queue' = Tail(queue),
         NEW answer \in {"ok", "duplicate", "error"}, Receive(Head(queue), answer)
  PROVE  PhaseInv'
<1>1. Queued' \subseteq Queued
  BY QueuedTail DEF IInv
<1>2. receipt'[Recovery] = "pending" => receipt[Recovery] = "pending"
  BY ReceiveFacts DEF IInv, Callers
<1> QED
  BY <1>1, <1>2 DEF PhaseInv

\* During recovery, what is left to close is still to be written or was refused.
LEMMA TakenClosing ==
  ASSUME IInv, PhaseInv, phase = "recovering", UNCHANGED <<phase, todo>>,
         queue # <<>>, queue' = Tail(queue),
         NEW answer \in {"ok", "duplicate", "error"}, Receive(Head(queue), answer),
         NEW t \in Tasks, Closing(t), Head(queue).task # t \/ answer = "error"
  PROVE  Closing(t)'
<1> DEFINE h == Head(queue)
<1>1. /\ h \in Queued /\ h.by = Recovery /\ Recovery \in Callers
      /\ Queued \subseteq Queued' \cup {h}
  BY QueuedTail DEF IInv, PhaseInv, Callers
<1>2. h.waited => receipt[Recovery] = "pending"
  BY <1>1, QueuedTypes
<1>3. receipt' = IF h.waited THEN [receipt EXCEPT ![h.by] = answer] ELSE receipt
  BY DEF Receive
<1> HIDE DEF h
<1>4. h.waited => receipt'[Recovery] = answer
  BY <1>1, <1>3 DEF IInv, TypeOK
<1>5. CASE t \in todo \/ receipt[Recovery] = "error"
  BY <1>2, <1>3, <1>5 DEF Closing
<1>6. ASSUME NEW c \in Queued, c.by = Recovery, c.waited, c.task = t
      PROVE  Closing(t)'
  <2>1. CASE c \in Queued'
    BY <1>6, <2>1 DEF Closing
  <2>2. CASE c = h
    BY <1>4, <1>6, <2>2 DEF Closing, h
  <2> QED
    BY <1>1, <2>1, <2>2
<1> QED
  BY <1>5, <1>6 DEF Closing

\* A write that fails.
LEMMA WriteFailsPhase ==
  ASSUME IInv, PhaseInv, RestartInv, WriteFails
  PROVE  PhaseInv' /\ RestartInv'
<1>1. /\ UNCHANGED <<state, digest, pc, phase, todo>> /\ phase # "down"
      /\ queue # <<>> /\ queue' = Tail(queue) /\ Receive(Head(queue), "error")
  BY DEF WriteFails, store, thread
<1>2. PhaseInv'
  BY <1>1, WritesPhase
<1>3. \A t \in Tasks : phase = "recovering" /\ Closing(t) => Closing(t)'
  BY <1>1, TakenClosing
<1>4. RestartInv'
  BY <1>1, <1>3 DEF RestartInv, Unterminated
<1> QED
  BY <1>2, <1>4

\* A write: rows are created by commands of this process, and recovery's own
\* command closes its task.
LEMMA WritePhase ==
  ASSUME IInv, CInv, PhaseInv, RestartInv, Write
  PROVE  PhaseInv' /\ RestartInv'
<1> DEFINE h == Head(queue)
           answer == Answer(h)
<1>1. /\ UNCHANGED <<pc, phase, todo>> /\ phase # "down"
      /\ queue # <<>> /\ queue' = Tail(queue) /\ Receive(h, answer)
      /\ \/ UNCHANGED <<state, digest>>
         \/ /\ answer = "ok"
            /\ state' = [state EXCEPT ![h.task] = NewState(h)]
            /\ digest' = IF h.ev.kind = "admitted" THEN [digest EXCEPT ![h.task] = h.by] ELSE digest
  BY DEF Write, store, thread
<1>2. answer \in {"ok", "duplicate", "error"}
  BY DEF Answer
<1>3. h \in Queued /\ h \in Commands /\ (h.ev.kind = "closed" => h.ev.status \in Terminal)
  BY <1>1, QueuedTail, QueuedTypes DEF IInv
<1>4. h.task \in Tasks /\ h.by \in Callers
  BY <1>3 DEF Commands
<1>5. PhaseInv'
  BY <1>1, <1>2, WritesPhase
<1>6. ASSUME NEW t \in Tasks, t \in Unterminated', t \notin Unterminated
      PROVE  h.task = t /\ h.ev.kind = "admitted" /\ digest'[t] = h.by
  <2>1. state'[t] # state[t] /\ state'[t] \notin {"absent"} \cup Terminal
    BY <1>6 DEF Unterminated
  <2>2. /\ h.task = t /\ answer = "ok" /\ state'[t] = NewState(h)
        /\ digest' = IF h.ev.kind = "admitted" THEN [digest EXCEPT ![h.task] = h.by] ELSE digest
    BY <1>1, <2>1 DEF IInv, TypeOK
  <2>3. h.ev.kind = "admitted"
    BY <1>6, <2>1, <2>2 DEF Answer, NewState, Unterminated, Terminal, Results
  <2> QED
    BY <2>2, <2>3 DEF IInv, TypeOK
<1>7. ASSUME NEW t \in Tasks, t \in Unterminated', phase = "open"
      PROVE  pc[digest'[t]] \notin {"new", "lost"}
  <2>1. CASE t \in Unterminated
    <3>1. digest[t] \in Execs /\ state[t] # "absent"
      BY <2>1 DEF CInv, RowInv, Unterminated
    <3>2. digest'[t] = digest[t]
      BY <1>1, <1>4, <3>1 DEF IInv, TypeOK, Answer
    <3> QED
      BY <1>7, <2>1, <3>2 DEF RestartInv
  <2>2. CASE t \notin Unterminated
    <3>1. h.task = t /\ h.ev.kind = "admitted" /\ digest'[t] = h.by
      BY <1>6, <1>7, <2>2
    <3>2. h.by \in Execs
      BY <1>3, <1>4, <3>1 DEF PhaseInv, Callers
    <3> QED
      BY <1>3, <3>1, <3>2 DEF PhaseInv
  <2> QED
    BY <2>1, <2>2
<1>8. ASSUME NEW t \in Tasks, t \in Unterminated', phase = "recovering"
      PROVE  Closing(t)'
  <2>1. h.by = Recovery /\ h.ev.kind = "closed"
    BY <1>3, <1>8 DEF PhaseInv
  <2>2. t \in Unterminated
    BY <1>6, <1>8, <2>1
  <2>3. Closing(t)
    BY <1>8, <2>2 DEF RestartInv
  <2>4. h.task # t
    <3> SUFFICES ASSUME h.task = t PROVE FALSE
      OBVIOUS
    <3>1. answer = "ok" /\ NewState(h) \in Terminal
      BY <1>3, <2>1, <2>2 DEF Answer, NewState, Unterminated
    <3>2. state'[t] \in Terminal
      <4>1. state' = [state EXCEPT ![h.task] = NewState(h)]
        BY <3>1 DEF Write
      <4> QED
        BY <3>1, <4>1 DEF IInv, TypeOK
    <3> QED
      BY <1>8, <3>2 DEF Unterminated
  <2> HIDE DEF answer
  <2> QED
    BY <1>1, <1>2, <1>8, <2>3, <2>4, TakenClosing
<1> HIDE DEF h, answer
<1>9. RestartInv'
  BY <1>1, <1>7, <1>8 DEF RestartInv, Unterminated
<1> QED
  BY <1>5, <1>9

\* A wait that gives up keeps what is queued, with its caller.
LEMMA WaitTimesOutPhase ==
  ASSUME IInv, PhaseInv, RestartInv, NEW a \in Callers, WaitTimesOut(a)
  PROVE  PhaseInv' /\ RestartInv'
<1>1. /\ receipt' = [receipt EXCEPT ![a] = "error"]
      /\ queue' = [i \in DOMAIN queue |-> [queue[i] EXCEPT !.waited = @ /\ queue[i].by # a]]
      /\ UNCHANGED <<state, digest, pc, phase, todo>>
  BY DEF WaitTimesOut, store, thread
<1>2. /\ DOMAIN queue = 1 .. Len(queue) /\ Len(queue) \in Nat
      /\ \A i \in 1 .. Len(queue) : queue[i] \in Commands
  BY LenProperties, ElementOfSeq DEF IInv, TypeOK
<1>3. Len(queue') = Len(queue)
  <2>1. DOMAIN queue' = 1 .. Len(queue) /\ queue' \in [1 .. Len(queue) -> Commands]
    BY <1>1, <1>2 DEF Commands
  <2> QED
    BY <1>2, <2>1, LenProperties, SeqDef
<1>4. \A i \in 1 .. Len(queue) :
        /\ queue'[i].task = queue[i].task /\ queue'[i].ev = queue[i].ev
        /\ queue'[i].by = queue[i].by
        /\ queue[i].by # a => queue'[i].waited = queue[i].waited
  BY <1>1, <1>2 DEF Commands
<1>5. /\ \A d \in Queued' : \E c \in Queued : d.ev = c.ev /\ d.by = c.by
      /\ \A c \in Queued : c.by # a =>
           \E d \in Queued' : d.task = c.task /\ d.by = c.by /\ d.waited = c.waited
  BY <1>3, <1>4 DEF Queued
<1>6. receipt'[Recovery] = IF a = Recovery THEN "error" ELSE receipt[Recovery]
  BY <1>1 DEF IInv, TypeOK, Callers
<1>7. PhaseInv'
  <2>1. phase = "down" => queue' = <<>>
    BY <1>2, <1>3, EmptySeq DEF PhaseInv, Commands
  <2>2. \A d \in Queued' :
          /\ d.by = Stopper => d.ev.kind = "cancel_requested"
          /\ d.by = Recovery => d.ev.kind = "closed"
          /\ d.by \in Execs => pc[d.by] \notin {"new", "lost"}
          /\ phase = "recovering" => d.by = Recovery
    BY <1>5 DEF PhaseInv
  <2> QED
    BY <1>1, <1>6, <2>1, <2>2 DEF PhaseInv
<1>8. \A t \in Tasks : Closing(t) => Closing(t)'
  BY <1>1, <1>5, <1>6 DEF Closing
<1>9. RestartInv'
  BY <1>1, <1>8 DEF RestartInv, Unterminated
<1> QED
  BY <1>7, <1>9

\* The end of the process.
LEMMA LoseMemoryPhase ==
  ASSUME LoseMemory
  PROVE  PhaseInv' /\ RestartInv'
<1>1. /\ queue' = <<>> /\ Len(queue') = 0 /\ phase' = "down" /\ receipt'[Recovery] = "none"
      /\ \A x \in Execs : pc'[x] \in Idle
  BY EmptySeq DEF LoseMemory, Idle, Callers
<1> QED
  BY <1>1 DEF PhaseInv, RestartInv, Queued

\* What is neither the writer's, a thread's, a submit nor a timeout.
LEMMA OthersPhase ==
  ASSUME IInv, PhaseInv, RestartInv,
         \/ \E t \in Tasks : RequestCancel(t)
         \/ CancelWaited
         \/ Quit
         \/ Open
         \/ RecoveryStep
         \/ \E c \in live : ProcessExits(c)
         \/ UNCHANGED vars
  PROVE  PhaseInv' /\ RestartInv'
<1>1. ASSUME NEW t \in Tasks, RequestCancel(t) PROVE PhaseInv' /\ RestartInv'
  <2>1. /\ Put(Stopper, t, Event("cancel_requested")) /\ Stopper \in Callers
        /\ Event("cancel_requested") \in Events /\ Event("cancel_requested").kind = "cancel_requested"
        /\ phase = "open" /\ UNCHANGED <<state, digest, pc, phase, todo>>
    BY <1>1, EventTypes DEF RequestCancel, store, thread, Kinds, Callers, Event
  <2>2. /\ \A c \in Queued' : \/ c \in Queued
                              \/ c.by = Stopper /\ c.ev.kind = "cancel_requested"
        /\ receipt' = [receipt EXCEPT ![Stopper] = receipt'[Stopper]]
    BY <2>1, QueuedPut DEF IInv
  <2>3. receipt'[Recovery] = receipt[Recovery]
    BY <2>2, ConstantsAssumption DEF IInv, TypeOK, Callers
  <2> QED
    BY <2>1, <2>2, <2>3, ConstantsAssumption DEF PhaseInv, RestartInv, Unterminated
<1>2. ASSUME NEW t \in Tasks, RecoverTask(t) PROVE PhaseInv' /\ RestartInv'
  <2> DEFINE ev == ClosedEvent("unknown", "unknown", "controller_restarted")
  <2>1. /\ Put(Recovery, t, ev) /\ todo' = todo \ {t}
        /\ phase = "recovering" /\ UNCHANGED <<state, digest, pc, phase>>
        /\ receipt[Recovery] # "error"
    BY <1>2 DEF RecoverTask, store, thread
  <2>2. ev \in Events /\ ev.kind = "closed" /\ Recovery \in Callers
    BY EventTypes DEF Terminal, Cleanups, Reasons, Callers, ClosedEvent, Event
  <2> HIDE DEF ev
  <2> DEFINE c == [task |-> t, ev |-> ev, by |-> Recovery, waited |-> TRUE]
  <2>3. \/ receipt'[Recovery] = "error" /\ Queued' = Queued
        \/ Queued' = Queued \cup {c}
    BY <2>1, <2>2, QueuedPut DEF IInv
  <2>4. c.by = Recovery /\ c.waited /\ c.task = t /\ c.ev = ev
    OBVIOUS
  <2> HIDE DEF c
  <2>5. PhaseInv'
    BY <2>1, <2>2, <2>3, <2>4, ConstantsAssumption DEF PhaseInv
  <2>6. ASSUME NEW u \in Tasks, Closing(u) PROVE Closing(u)'
    BY <2>1, <2>3, <2>6, <2>4 DEF Closing
  <2> QED
    BY <2>1, <2>5, <2>6 DEF RestartInv, Unterminated
<1>3. CASE CancelWaited \/ \E c \in live : ProcessExits(c)
  BY <1>3 DEF CancelWaited, ProcessExits, store, service, thread, PhaseInv, RestartInv,
     Unterminated, Closing, Queued
<1>4. CASE UNCHANGED vars
  BY <1>4 DEF vars, store, service, thread, PhaseInv, RestartInv, Unterminated, Closing, Queued
<1>5. CASE Quit
  BY <1>5 DEF Quit, store, thread, PhaseInv, RestartInv, Queued
<1>6. CASE Open
  <2>1. /\ phase = "down" /\ phase' = "recovering" /\ todo' = Unterminated
        /\ UNCHANGED <<state, digest, pc, queue, receipt>>
    BY <1>6 DEF Open, store, thread
  <2>2. Queued' = {}
    <3>1. Len(queue') = 0
      BY <2>1, EmptySeq DEF PhaseInv
    <3> QED
      BY <3>1 DEF Queued
  <2> QED
    BY <2>1, <2>2 DEF PhaseInv, RestartInv, Closing, Unterminated
<1>7. CASE RecoveryFails
  BY <1>7 DEF RecoveryFails, store, thread, PhaseInv, RestartInv, Queued
<1>8. CASE Recovered
  <2>1. /\ phase = "recovering" /\ receipt[Recovery] \in {"none", "ok"} /\ todo = {}
        /\ phase' = "open" /\ UNCHANGED <<state, digest, pc, queue, receipt>>
    BY <1>8 DEF Recovered, store, thread
  <2>2. ASSUME NEW t \in Unterminated PROVE FALSE
    <3>1. PICK c \in Queued : c.by = Recovery /\ c.waited
      BY <2>1, <2>2 DEF RestartInv, Closing
    <3> QED
      BY <2>1, <3>1, QueuedTypes
  <2> QED
    BY <2>1, <2>2 DEF PhaseInv, RestartInv, Unterminated, Queued
<1> QED
  BY <1>1, <1>2, <1>3, <1>4, <1>5, <1>6, <1>7, <1>8 DEF RecoveryStep

\* At the start there is nothing to close.
LEMMA InitPhase == Init => PhaseInv /\ RestartInv
<1> SUFFICES ASSUME Init PROVE PhaseInv /\ RestartInv
  OBVIOUS
<1>1. Len(queue) = 0
  BY EmptySeq DEF Init
<1> QED
  BY <1>1 DEF Init, PhaseInv, RestartInv, Unterminated, Queued, Idle, Callers

\* Every step keeps the phases and the restarts.
LEMMA NextPhase ==
  ASSUME IInv, CInv, PhaseInv, RestartInv, [Next]_vars
  PROVE  PhaseInv' /\ RestartInv'
<1>1. ASSUME NEW x \in Execs, Submit(x) PROVE PhaseInv' /\ RestartInv'
  BY <1>1, SubmitPaces, PacesPhase DEF IInv
<1>2. ASSUME NEW x \in Execs, ThreadStep(x) PROVE PhaseInv' /\ RestartInv'
  BY <1>2, ThreadPaces, PacesPhase DEF IInv, PhaseInv
<1>3. CASE Write
  BY <1>3, WritePhase
<1>4. CASE WriteFails \/ \E a \in Callers : WaitTimesOut(a)
  BY <1>4, WriteFailsPhase, WaitTimesOutPhase
<1>5. CASE Crash \/ Exit
  BY <1>5, LoseMemoryPhase DEF Crash, Exit
<1>6. CASE \/ \E t \in Tasks : RequestCancel(t)
           \/ CancelWaited \/ Quit \/ Open \/ RecoveryStep
           \/ \E c \in live : ProcessExits(c)
           \/ UNCHANGED vars
  BY <1>6, OthersPhase
<1> QED
  BY <1>1, <1>2, <1>3, <1>4, <1>5, <1>6 DEF Next

-----------------------------------------------------------------------------
(* Threads, receipts, rows and registrations without failed or late writes.  *)

\* What a step of the thread of x does to its registration: nothing while it
\* goes on, and a thread that ends gives up its own, unless it has another
\* payload than the row.
Registers(x) ==
  \/ /\ registered' = registered /\ owns'[x] = owns[x]
     /\ pc'[x] \notin Idle \cup {"register"} \/ Mismatch(x)
  \/ Release(x)

\* Such a step leaves no registration behind.
LEMMA ThreadRegistered ==
  ASSUME RegisteredInv, NEW x \in Execs, Paces(x), Registers(x), pc[x] \notin Idle,
         \A y \in Execs \ {x} : pc[y] \in Idle
  PROVE  RegisteredInv'
<1>0. UNCHANGED digest /\ \A y \in Execs \ {x} : pc'[y] = pc[y] /\ pc'[y] \in Idle
  BY DEF Paces
<1>1. \A y \in Execs : Mismatch(y)' <=> Mismatch(y)
  BY <1>0 DEF Mismatch
<1> DEFINE Left(t) == /\ digest[t] \in Execs /\ pc[digest[t]] \in Idle
                      /\ \E y \in Execs : TaskOf[y] = t /\ Mismatch(y)
           Kept(t) == \/ \E y \in Execs : TaskOf[y] = t /\ owns'[y] /\ pc'[y] \notin Idle \cup {"register"}
                      \/ /\ digest'[t] \in Execs /\ pc'[digest'[t]] \in Idle
                         /\ \E y \in Execs : TaskOf[y] = t /\ Mismatch(y)'
<1>2. ASSUME NEW t, Left(t) PROVE Kept(t)
  BY <1>0, <1>1, <1>2
<1>3. ASSUME NEW t \in registered PROVE (TaskOf[x] = t /\ owns[x]) \/ Left(t)
  BY <1>3 DEF RegisteredInv
<1>4. ASSUME TaskOf[x] \in registered, owns[x], Mismatch(x) PROVE Kept(TaskOf[x])
  <2>1. digest[TaskOf[x]] \in Execs \ {x}
    BY <1>4 DEF Mismatch
  <2> QED
    BY <1>0, <1>1, <1>4, <2>1
<1>5. ASSUME NEW t \in registered' PROVE Kept(t)
  <2>1. CASE /\ registered' = registered /\ owns'[x] = owns[x]
             /\ pc'[x] \notin Idle \cup {"register"}
    BY <1>2, <1>3, <1>5, <2>1
  <2>2. CASE registered' = registered /\ Mismatch(x)
    BY <1>2, <1>3, <1>4, <1>5, <2>2
  <2>3. CASE Release(x)
    <3>1. t \in registered /\ (owns[x] => t # TaskOf[x])
      BY <1>5, <2>3 DEF Release
    <3> QED
      BY <1>2, <1>3, <3>1
  <2> QED
    BY <2>1, <2>2, <2>3 DEF Registers
<1> QED
  BY <1>5 DEF RegisteredInv

\* The other threads have ended, and what is said of them stays true.
LEMMA OthersAgree ==
  ASSUME NEW x \in Execs, Paces(x), \A y \in Execs \ {x} : pc[y] \in Idle,
         NEW y \in Execs \ {x}, AgreeInv(y)
  PROVE  AgreeInv(y)'
BY DEF Paces, AgreeInv, Idle, Working

\* A thread at work on an open row, before and after.
LEMMA WorkingAgrees ==
  ASSUME NEW x \in Execs, AgreeInv(x), UNCHANGED <<state, digest, registered, owns>>,
         pc[x] \in Working, pc'[x] \in Working
  PROVE  AgreeInv(x)' /\ Registers(x)
BY DEF AgreeInv, Registers, Working, Idle

\* The steps between entering the controller and its end.
LEMMA ControllerAgrees ==
  ASSUME TypeOK, NEW x \in Execs, AgreeInv(x),
         \/ EnterController(x)
         \/ \E k \in Tools : StartTool(x, k)
         \/ ToolStartWaited(x) \/ Spawn(x)
         \/ HandlerWithoutProcess(x)
         \/ \E end \in {"ok", "timeout", "broke"} : CommandReturns(x, end)
         \/ \E end \in {"stopped", "unsettled", "broke"} : CommandRaises(x, end)
         \/ FinishWaited(x) \/ LastFinishWaited(x)
         \/ \E r \in Results : ControllerReturns(x, r)
         \/ ControllerRaises(x)
  PROVE  AgreeInv(x)' /\ Registers(x)
<1>0. SUFFICES /\ UNCHANGED <<state, digest, registered, owns>>
               /\ pc[x] \in Working /\ \E p \in Working : Go(x, p)
  BY WorkingAgrees DEF Go, TypeOK
<1>1. CASE EnterController(x)
  BY <1>1 DEF EnterController, store, authority, Working
<1>2. ASSUME NEW k \in Tools, StartTool(x, k)
      PROVE  /\ UNCHANGED <<state, digest, registered, owns>>
             /\ pc[x] \in Working /\ \E p \in Working : Go(x, p)
  BY <1>2 DEF StartTool, store, authority, Working
<1>3. CASE ToolStartWaited(x) \/ Spawn(x) \/ LastFinishWaited(x)
  BY <1>3 DEF ToolStartWaited, Spawn, LastFinishWaited, store, authority, Working
<1>4. CASE HandlerWithoutProcess(x)
  BY <1>4 DEF HandlerWithoutProcess, Finish, store, authority, Working
<1>5. ASSUME NEW end, CommandReturns(x, end) \/ CommandRaises(x, end)
      PROVE  /\ UNCHANGED <<state, digest, registered, owns>>
             /\ pc[x] \in Working /\ \E p \in Working : Go(x, p)
  BY <1>5 DEF CommandReturns, CommandRaises, Finish, store, authority, Working
<1>6. CASE FinishWaited(x)
  BY <1>6 DEF FinishWaited, store, authority, Working
<1>7. CASE (\E r \in Results : ControllerReturns(x, r)) \/ ControllerRaises(x)
  BY <1>7 DEF ControllerReturns, ControllerRaises, store, authority, Working
<1> QED
  BY <1>1, <1>2, <1>3, <1>4, <1>5, <1>6, <1>7

\* Past its admission a thread is registered, so a refusal is by Stop.
LEMMA RefusedAgrees ==
  ASSUME IInv, NEW x \in Execs, AgreeInv(x), Refused(x), UNCHANGED <<state, digest, registered, owns>>,
         pc[x] \in {"start", "returned", "commit"}
  PROVE  AgreeInv(x)' /\ Registers(x)
<1>1. digest[TaskOf[x]] = x
  BY DEF IInv, CreatorInv, Admitted
<1>2. Registered(x)
  BY <1>1 DEF AgreeInv, Idle, Registered
<1>3. pc'[x] = "stale"
  BY <1>2 DEF Refused, Go, IInv, TypeOK
<1> QED
  BY <1>3 DEF AgreeInv, Registers, Idle, Working

\* Putting a command succeeds, and its caller waits.
LEMMA PutAgrees ==
  ASSUME IInv, CInv, PhaseInv, QueueLimit >= 2, \A c \in Queued : c.waited,
         NEW x \in Execs, pc[x] \notin Idle,
         pc[x] \notin Waits \cup {"register"} \/ receipt[x] # "pending",
         NEW ev, Put(x, TaskOf[x], ev)
  PROVE  receipt'[x] = "pending"
<1>1. \A y \in Execs : pc[y] \in Waits \cup {"register"} => receipt[y] # "pending"
  BY DEF CInv, TurnInv, Idle, Waits
<1>2. phase = "open"
  BY DEF PhaseInv
<1>3. Len(queue) < QueueLimit
  BY <1>1, <1>2, Room
<1> QED
  BY <1>3 DEF Put, IInv, TypeOK, Callers

\* The start of the task and its terminal are queued.
LEMMA PuttingAgrees ==
  ASSUME IInv, CInv, PhaseInv, QueueLimit >= 2, \A c \in Queued : c.waited,
         NEW x \in Execs, AgreeInv(x),
         Start(x) \/ Commit(x) \/ FinalizeControllerFault(x) \/ FinalizeCancelUnreconciled(x)
  PROVE  AgreeInv(x)' /\ Registers(x)
<1>1. ASSUME Refused(x), pc[x] \in {"start", "commit"}, UNCHANGED <<state, digest, registered, owns>>
      PROVE  AgreeInv(x)' /\ Registers(x)
  BY <1>1, RefusedAgrees
<1>2. ASSUME NEW ev, Put(x, TaskOf[x], ev), pc[x] \notin Idle, pc[x] \notin Waits \cup {"register"}
      PROVE  receipt'[x] = "pending"
  BY <1>2, PutAgrees
<1>3. CASE Start(x)
  <2>1. CASE /\ Put(x, TaskOf[x], Event("running")) /\ Go(x, "start_wait") /\ pc[x] = "start"
             /\ UNCHANGED <<state, digest, registered, owns>>
    <3>1. receipt'[x] = "pending"
      BY <1>2, <2>1 DEF Idle, Waits
    <3>2. pc'[x] = "start_wait"
      BY <2>1 DEF Go, IInv, TypeOK
    <3> QED
      BY <2>1, <3>1, <3>2 DEF AgreeInv, Registers, Idle, Working
  <2> QED
    BY <1>1, <1>3, <2>1 DEF Start, store
<1>4. ASSUME NEW status, NEW reason, NEW handler, FinalizeResult(x, status, reason, handler),
             pc[x] \in {"commit", "fault"} \/ (pc[x] = "stale" /\ handler = "stale")
      PROVE  AgreeInv(x)' /\ Registers(x)
  <2>1. /\ \E ev : Put(x, TaskOf[x], ev)
        /\ via' = [via EXCEPT ![x] = handler] /\ Go(x, "final")
        /\ UNCHANGED <<state, digest, registered, owns>>
    BY <1>4 DEF FinalizeResult, store
  <2>2. receipt'[x] = "pending"
    BY <1>2, <1>4, <2>1 DEF Idle, Waits
  <2>3. pc'[x] = "final" /\ via'[x] = handler
    BY <2>1 DEF Go, IInv, TypeOK
  <2> QED
    BY <1>4, <2>1, <2>2, <2>3 DEF AgreeInv, Registers, Idle, Working
<1>5. CASE Commit(x)
  <2>1. pc[x] = "commit"
    BY <1>5 DEF Commit
  <2>2. CASE Refused(x) /\ UNCHANGED <<store, authority, owns>>
    BY <1>1, <2>1, <2>2 DEF store, authority
  <2>3. CASE \E status, reason, handler : FinalizeResult(x, status, reason, handler)
    BY <1>4, <2>1, <2>3
  <2> QED
    BY <1>5, <2>2, <2>3 DEF Commit
<1>6. CASE FinalizeControllerFault(x)
  BY <1>4, <1>6 DEF FinalizeControllerFault
<1>7. CASE FinalizeCancelUnreconciled(x)
  BY <1>4, <1>7 DEF FinalizeCancelUnreconciled
<1> QED
  BY <1>3, <1>5, <1>6, <1>7

\* The steps that receive an answer or release.
LEMMA WaitedAgrees ==
  ASSUME IInv, CInv, NEW x \in Execs, AgreeInv(x),
         \/ AdmissionWaited(x) \/ StartWaited(x) \/ CheckReturned(x)
         \/ ResultCommitted(x) \/ FaultCommitted(x) \/ FaultRelease(x)
         \/ StaleCommitted(x) \/ StaleRelease(x) \/ FailRelease(x)
  PROVE  AgreeInv(x)' /\ Registers(x)
<1>0. /\ \A p : Go(x, p) => pc'[x] = p
      /\ \A y \in Execs : PayloadOf[x] # PayloadOf[y] => x # y
      /\ Mismatch(x) => digest[TaskOf[x]] # x
  BY DEF Go, IInv, TypeOK, Mismatch
<1>1. CASE AdmissionWaited(x)
  <2>1. /\ pc[x] = "admission" /\ UNCHANGED <<state, digest, owns, receipt>>
    BY <1>1 DEF AdmissionWaited, store, service
  <2>2. CASE receipt[x] = "ok" /\ Go(x, "start") /\ UNCHANGED registered
    BY <1>0, <2>1, <2>2 DEF AgreeInv, Registers, Idle, Working
  <2>3. CASE receipt[x] = "duplicate"
    <3>1. digest[TaskOf[x]] # x
      BY <2>1, <2>3 DEF AgreeInv
    <3>2. CASE Go(x, "stale") /\ UNCHANGED registered
      BY <1>0, <2>1, <3>1, <3>2 DEF AgreeInv, Registers, Idle, Working
    <3>3. CASE Go(x, "done") /\ Release(x)
      BY <1>0, <2>1, <3>1, <3>3 DEF AgreeInv, Registers, Idle, Working
    <3> QED
      BY <1>1, <2>3, <3>2, <3>3 DEF AdmissionWaited
  <2>4. CASE receipt[x] = "error" /\ Go(x, "failing") /\ UNCHANGED registered
    <3>1. Mismatch(x)
      BY <2>1, <2>4 DEF AgreeInv
    <3>2. Mismatch(x)'
      BY <2>1, <3>1 DEF Mismatch
    <3> QED
      BY <1>0, <2>1, <2>4, <3>1, <3>2 DEF AgreeInv, Registers, Idle, Working
  <2> QED
    BY <1>1, <2>2, <2>3, <2>4 DEF AdmissionWaited
<1>2. CASE StartWaited(x)
  <2>1. /\ pc[x] = "start_wait" /\ receipt[x] # "pending"
        /\ UNCHANGED <<state, digest, registered, owns>>
    BY <1>2 DEF StartWaited, store
  <2>2. digest[TaskOf[x]] = x
    BY <2>1 DEF IInv, CreatorInv, Admitted
  <2>3. receipt[x] = "ok" /\ Registered(x) /\ state[TaskOf[x]] \notin Terminal
    BY <2>1, <2>2 DEF AgreeInv, Registered, Idle
  <2>4. pc'[x] = "enter"
    BY <1>0, <1>2, <2>3 DEF StartWaited
  <2> QED
    BY <2>1, <2>2, <2>3, <2>4 DEF AgreeInv, Registers, Idle, Working
<1>3. CASE CheckReturned(x)
  <2>1. pc[x] = "returned" /\ UNCHANGED <<state, digest, registered, owns>>
    BY <1>3 DEF CheckReturned, store, authority
  <2>2. CASE Refused(x)
    BY <2>1, <2>2, RefusedAgrees
  <2>3. CASE Go(x, "commit")
    BY <1>0, <2>1, <2>3, WorkingAgrees DEF Working
  <2> QED
    BY <1>3, <2>2, <2>3 DEF CheckReturned
<1>4. CASE ResultCommitted(x)
  <2>1. /\ pc[x] = "final" /\ via[x] # "stale" /\ receipt[x] # "pending"
        /\ UNCHANGED <<state, digest, owns>>
    BY <1>4 DEF ResultCommitted, store
  <2>2. receipt[x] = "ok" /\ state[TaskOf[x]] \in Terminal
    BY <2>1 DEF AgreeInv
  <2>3. Release(x) /\ pc'[x] = "done"
    BY <1>0, <1>4, <2>2 DEF ResultCommitted
  <2> QED
    BY <2>1, <2>2, <2>3 DEF AgreeInv, Registers, Idle, Working
<1>5. CASE FaultCommitted(x)
  <2>1. /\ pc[x] = "final" /\ via[x] # "stale" /\ receipt[x] # "pending"
        /\ UNCHANGED <<state, digest, registered, owns>>
    BY <1>5 DEF FaultCommitted, store, authority
  <2>2. receipt[x] = "ok" /\ state[TaskOf[x]] \in Terminal
    BY <2>1 DEF AgreeInv
  <2>3. pc'[x] = "fault_release"
    BY <1>0, <1>5, <2>2 DEF FaultCommitted
  <2> QED
    BY <2>1, <2>2, <2>3 DEF AgreeInv, Registers, Idle, Working
<1>6. CASE StaleCommitted(x)
  <2>1. /\ pc[x] = "final" /\ receipt[x] # "pending" /\ pc'[x] = "stale_release"
        /\ UNCHANGED <<state, digest, registered, owns>>
    BY <1>0, <1>6 DEF StaleCommitted, store, authority
  <2>2. state[TaskOf[x]] \in Terminal
    BY <2>1 DEF AgreeInv
  <2> QED
    BY <2>1, <2>2 DEF AgreeInv, Registers, Idle, Working
<1>7. CASE FaultRelease(x) \/ StaleRelease(x)
  <2>1. /\ pc[x] \in {"fault_release", "stale_release"} /\ UNCHANGED <<state, digest, owns>>
        /\ \/ pc'[x] = "stale" /\ UNCHANGED registered
           \/ pc'[x] = "done" /\ Release(x)
    BY <1>0, <1>7 DEF FaultRelease, StaleRelease, store
  <2> QED
    BY <2>1 DEF AgreeInv, Registers, Idle, Working
<1>8. CASE FailRelease(x)
  <2>1. /\ pc[x] = "failing" /\ pc'[x] = "done" /\ UNCHANGED <<state, digest, owns>>
        /\ UNCHANGED registered \/ Release(x)
    BY <1>0, <1>8 DEF FailRelease, store
  <2>2. Mismatch(x)
    BY <2>1 DEF AgreeInv
  <2> QED
    BY <1>0, <2>1, <2>2 DEF AgreeInv, Registers, Idle, Working
<1> QED
  BY <1>1, <1>2, <1>3, <1>4, <1>5, <1>6, <1>7, <1>8

\* Registering: nobody else's registration is there, unless it was left.
LEMMA RegisterOnceAgrees ==
  ASSUME IInv, CInv, NEW x \in Execs, AgreeInv(x), RegisteredInv, RegisterOnce(x),
         \A y \in Execs \ {x} : pc[y] \in Idle
  PROVE  AgreeInv(x)' /\ RegisteredInv'
<1> DEFINE t == TaskOf[x]
<1>1. /\ pc[x] = "register" /\ pc'[x] = "admission" /\ owns'[x] = (t \notin registered)
      /\ registered' = registered \cup {t} /\ UNCHANGED <<state, digest, receipt>>
      /\ \A y \in Execs \ {x} : pc'[y] = pc[y] /\ owns'[y] = owns[y]
  BY DEF RegisterOnce, Go, IInv, TypeOK, store, service
<1>2. Mismatch(x)' <=> Mismatch(x)
  BY <1>1 DEF Mismatch
<1>3. ASSUME NEW u \in registered
      PROVE  /\ digest[u] \in Execs \ {x} /\ pc[digest[u]] \in Idle
             /\ \E y \in Execs : TaskOf[y] = u /\ Mismatch(y)
  BY <1>1, <1>3 DEF RegisteredInv, Idle
<1>4. t \in registered => digest[t] \notin {x, None}
  BY <1>3, ConstantsAssumption
<1>5. AgreeInv(x)'
  BY <1>1, <1>2, <1>4 DEF AgreeInv, Idle, Working
<1>6. \A y \in Execs : Mismatch(y)' <=> Mismatch(y)
  BY <1>1 DEF Mismatch
<1>7. ASSUME NEW u \in registered
      PROVE  /\ digest'[u] \in Execs /\ pc'[digest'[u]] \in Idle
             /\ \E y \in Execs : TaskOf[y] = u /\ Mismatch(y)'
  BY <1>1, <1>3, <1>6, <1>7
<1>8. t \notin registered => TaskOf[x] = t /\ owns'[x] /\ pc'[x] \notin Idle \cup {"register"}
  BY <1>1 DEF Idle
<1> HIDE DEF t
<1>9. ASSUME NEW u \in registered', u \notin registered
      PROVE  \E y \in Execs : TaskOf[y] = u /\ owns'[y] /\ pc'[y] \notin Idle \cup {"register"}
  BY <1>1, <1>8, <1>9
<1> QED
  BY <1>5, <1>7, <1>9 DEF RegisteredInv

\* A step of the thread of x.
LEMMA ThreadFaultless ==
  ASSUME IInv, CInv, PhaseInv, FaultlessInv, QueueLimit >= 2, NEW x \in Execs, ThreadStep(x)
  PROVE  FaultlessInv'
<1>1. Paces(x) /\ pc[x] \notin Idle
  BY ThreadPaces
<1>2. \A y \in Execs \ {x} : pc[y] \in Idle
  BY <1>1 DEF CInv, TurnInv
<1>3. faults' = faults
  BY <1>1 DEF Paces
<1> SUFFICES ASSUME faults = 0
             PROVE  /\ \A c \in Queued' : c.waited
                    /\ \A y \in Execs : AgreeInv(y)'
                    /\ RegisteredInv'
  BY <1>3 DEF FaultlessInv
<1>4. /\ \A c \in Queued : c.waited
      /\ \A y \in Execs : AgreeInv(y)
      /\ RegisteredInv
  BY DEF FaultlessInv
<1>5. \A c \in Queued' : c.waited
  BY <1>1, <1>4 DEF Paces
<1>6. \A y \in Execs \ {x} : AgreeInv(y)'
  BY <1>1, <1>2, <1>4, OthersAgree
<1>7. CASE RegisterOnce(x)
  BY <1>2, <1>4, <1>5, <1>6, <1>7, RegisterOnceAgrees
<1>8. CASE AgreeInv(x)' /\ Registers(x)
  BY <1>1, <1>2, <1>4, <1>5, <1>6, <1>8, ThreadRegistered
<1>9. ASSUME ~RegisterOnce(x) PROVE AgreeInv(x)' /\ Registers(x)
  BY <1>4, <1>9, ControllerAgrees, PuttingAgrees, WaitedAgrees DEF ThreadStep, ToolStep, IInv
<1> QED
  BY <1>7, <1>8, <1>9

\* A submit call: the turn is free and the queue has room.
LEMMA SubmitFaultless ==
  ASSUME SerialTurns, IInv, CInv, PhaseInv, FaultlessInv, QueueLimit >= 2,
         NEW x \in Execs, Submit(x)
  PROVE  FaultlessInv'
<1>1. /\ Paces(x) /\ phase = "open" /\ pc[x] = "new" /\ faults' = faults
      /\ \A y \in Execs : pc[y] \in Idle
      /\ Put(x, TaskOf[x], Event("admitted"))
      /\ UNCHANGED <<state, digest, registered, owns>>
  BY SubmitPaces DEF Submit, TurnFree, store, bounds, authority, IInv
<1> SUFFICES ASSUME faults = 0
             PROVE  /\ \A c \in Queued' : c.waited
                    /\ \A y \in Execs : AgreeInv(y)'
                    /\ RegisteredInv'
  BY <1>1 DEF FaultlessInv
<1>2. /\ \A c \in Queued : c.waited
      /\ \A y \in Execs : AgreeInv(y)
      /\ RegisteredInv
  BY DEF FaultlessInv
<1>3. \A c \in Queued' : c.waited
  BY <1>1, <1>2 DEF Paces
<1>4. Len(queue) < QueueLimit
  BY <1>1, <1>2, Room DEF Idle, Waits
<1>5. receipt'[x] = "pending" /\ pc'[x] = "register"
  BY <1>4 DEF Submit, Put, Go, IInv, TypeOK, Callers
<1>6. \A t \in Tasks : digest[t] # x
  BY <1>1 DEF CInv, RowInv
<1>7. TaskOf[x] \in Tasks
  BY ConstantsAssumption
<1>8. AgreeInv(x)'
  BY <1>1, <1>5, <1>6, <1>7 DEF AgreeInv, Idle, Working
<1>9. \A y \in Execs \ {x} : AgreeInv(y)'
  BY <1>1, <1>2, OthersAgree
<1>10. RegisteredInv'
  <2>1. \A y \in Execs : Mismatch(y)' <=> Mismatch(y)
    BY <1>1 DEF Mismatch
  <2>2. ASSUME NEW t \in registered
        PROVE  /\ digest[t] \in Execs /\ pc'[digest[t]] \in Idle
               /\ \E y \in Execs : TaskOf[y] = t /\ Mismatch(y)
    <3>1. /\ digest[t] \in Execs /\ \E y \in Execs : TaskOf[y] = t /\ Mismatch(y)
      BY <1>1, <1>2, <2>2 DEF RegisteredInv
    <3>2. digest[t] # x
      BY <1>6, <2>2 DEF IInv, TypeOK
    <3> QED
      BY <1>1, <3>1, <3>2 DEF Paces
  <2> QED
    BY <1>1, <2>1, <2>2 DEF RegisteredInv
<1> QED
  BY <1>3, <1>8, <1>9, <1>10

\* A step that leaves the rows, the threads and their receipts alone.
LEMMA StillFaultless ==
  ASSUME FaultlessInv, UNCHANGED <<state, digest, pc, owns, via, registered, faults>>,
         \A y \in Execs : receipt'[y] = receipt[y],
         \A c \in Queued' : c \in Queued \/ c.waited
  PROVE  FaultlessInv'
<1>1. \A y \in Execs : Mismatch(y)' <=> Mismatch(y)
  BY DEF Mismatch
<1>2. \A y \in Execs : AgreeInv(y) => AgreeInv(y)'
  BY <1>1 DEF AgreeInv
<1>3. RegisteredInv => RegisteredInv'
  BY <1>1 DEF RegisteredInv
<1> QED
  BY <1>2, <1>3 DEF FaultlessInv

\* The writer answers.
LEMMA WriteFaultless ==
  ASSUME IInv, CInv, PhaseInv, FaultlessInv, Write
  PROVE  FaultlessInv'
<1> DEFINE h == Head(queue)
           answer == Answer(h)
<1>1. /\ UNCHANGED <<pc, owns, via, registered, faults, phase>>
      /\ queue # <<>> /\ queue' = Tail(queue) /\ Receive(h, answer)
      /\ \/ answer # "ok" /\ UNCHANGED <<state, digest>>
         \/ /\ answer = "ok"
            /\ state' = [state EXCEPT ![h.task] = NewState(h)]
            /\ digest' = IF h.ev.kind = "admitted" THEN [digest EXCEPT ![h.task] = h.by] ELSE digest
  BY DEF Write, store, thread, authority, bounds
<1>2. h \in Queued /\ Queued' \subseteq Queued
  BY <1>1, QueuedTail DEF IInv
<1> SUFFICES ASSUME faults = 0
             PROVE  /\ \A c \in Queued' : c.waited
                    /\ \A y \in Execs : AgreeInv(y)'
                    /\ RegisteredInv'
  BY <1>1 DEF FaultlessInv
<1>3. /\ \A c \in Queued : c.waited
      /\ \A y \in Execs : AgreeInv(y)
      /\ RegisteredInv
  BY DEF FaultlessInv
<1>4. /\ h \in Commands /\ h.waited /\ Awaited(h) /\ receipt[h.by] = "pending"
      /\ h.ev.kind = "closed" => h.ev.status \in Terminal
      /\ h.task \in Tasks /\ h.by \in Callers
  BY <1>2, <1>3, QueuedTypes DEF Commands
<1>5. /\ receipt'[h.by] = answer
      /\ \A a \in Callers \ {h.by} : receipt'[a] = receipt[a]
  BY <1>1, <1>4 DEF Receive, IInv, TypeOK
<1>6. \A t \in Tasks : state[t] \in Terminal => state'[t] = state[t]
  BY <1>1, <1>4 DEF Answer, IInv, TypeOK, Terminal, Results
<1>7. \A t \in Tasks : digest[t] \in Execs => digest'[t] = digest[t]
  BY <1>1, <1>4 DEF Answer, CInv, RowInv, IInv, TypeOK
<1>8. \A t \in Tasks : digest'[t] = digest[t] \/ (digest'[t] = h.by /\ h.task = t)
  BY <1>1 DEF IInv, TypeOK
<1>9. \A y \in Execs : TaskOf[y] \in Tasks
  BY ConstantsAssumption
<1>10. \A y \in Execs : Mismatch(y) => Mismatch(y)'
  BY <1>7, <1>9 DEF Mismatch
<1>11. RegisteredInv'
  <2>1. registered \subseteq Tasks
    BY DEF IInv, TypeOK
  <2> QED
    BY <1>1, <1>3, <1>7, <1>10, <2>1 DEF RegisteredInv
<1>12. ASSUME NEW y \in Execs, pc[y] \in Idle, h.by # y
       PROVE  AgreeInv(y)'
  <2>1. digest'[TaskOf[y]] = y => digest[TaskOf[y]] = y
    BY <1>8, <1>9, <1>12
  <2> QED
    BY <1>1, <1>3, <1>6, <1>9, <1>12, <2>1 DEF AgreeInv, Idle, Working
<1>13. CASE h.by = Stopper
  <2>1. h.ev.kind = "cancel_requested"
    BY <1>2, <1>13 DEF PhaseInv
  <2>2. UNCHANGED <<state, digest>>
    BY <1>1, <2>1 DEF NewState, IInv, TypeOK
  <2>3. \A y \in Execs : receipt'[y] = receipt[y]
    BY <1>5, <1>13, ConstantsAssumption DEF Callers
  <2>4. FaultlessInv'
    BY <1>1, <1>2, <2>2, <2>3, StillFaultless
  <2> QED
    BY <1>1, <2>4 DEF FaultlessInv
<1>14. CASE h.by = Recovery
  <2>1. \A y \in Execs : pc[y] \in Idle
    BY <1>4, <1>14 DEF PhaseInv
  <2> QED
    BY <1>2, <1>3, <1>11, <1>12, <1>14, <2>1, ConstantsAssumption
<1>15. ASSUME NEW x \in Execs, h.by = x
       PROVE  \A y \in Execs : AgreeInv(y)'
  <2> DEFINE t == TaskOf[x]
  <2>1. /\ pc[x] \in Waits \cup {"register"} /\ h.ev.kind = KindAt(pc[x]) /\ h.task = t
    BY <1>4, <1>15 DEF Awaited
  <2>2. \A y \in Execs \ {x} : pc[y] \in Idle
    BY <2>1 DEF CInv, TurnInv, Idle, Waits
  <2> SUFFICES AgreeInv(x)'
    BY <1>12, <1>15, <2>2
  <2>3. /\ AgreeInv(x) /\ receipt[x] = "pending" /\ receipt'[x] = answer /\ t \in Tasks
        /\ state[t] \in {"absent", "admitted", "running"} \cup Terminal
    BY <1>3, <1>4, <1>5, <1>9, <1>15 DEF IInv, TypeOK
  <2>4. /\ state[t] # "absent" <=> digest[t] \in Execs
        /\ digest[t] \in Execs \cup {None}
        /\ pc[x] = "final" => digest[t] \in Execs
    BY <2>3 DEF CInv, RowInv, IInv, TypeOK
  <2>5. answer = "ok" => state'[t] = NewState(h)
    BY <1>1, <2>1, <2>3 DEF IInv, TypeOK
  <2> HIDE DEF t, answer
  <2>6. CASE pc[x] \in {"register", "admission"}
    <3>1. h.ev.kind = "admitted"
      BY <2>1, <2>6 DEF KindAt
    <3>2. CASE state[t] = "absent"
      <4>1. answer = "ok"
        BY <2>1, <3>1, <3>2 DEF Answer, answer
      <4>2. state'[t] = "admitted" /\ digest'[t] = x /\ digest[t] = None
        BY <1>1, <1>15, <2>1, <2>3, <2>4, <2>5, <3>1, <3>2, <4>1 DEF NewState, IInv, TypeOK
      <4> QED
        BY <1>1, <2>3, <2>6, <4>1, <4>2 DEF AgreeInv, t, Idle, Working
    <3>3. CASE state[t] # "absent"
      <4>1. /\ digest[t] \in Execs
            /\ \/ answer = "duplicate"
               \/ answer = "error" /\ PayloadOf[x] # PayloadOf[digest[t]]
        BY <1>15, <2>1, <2>4, <3>1, <3>3 DEF Answer, answer
      <4>2. digest'[t] = digest[t] /\ state'[t] = state[t]
        BY <1>1, <4>1
      <4>3. answer = "error" => Mismatch(x)'
        BY <4>1, <4>2 DEF Mismatch, t
      <4>4. digest[t] # x
        BY <2>3, <2>6 DEF AgreeInv, t
      <4> QED
        BY <1>1, <2>3, <2>6, <4>1, <4>2, <4>3, <4>4 DEF AgreeInv, t, Idle, Working
    <3> QED
      BY <3>2, <3>3
  <2>7. ASSUME h.ev.kind # "admitted" PROVE digest' = digest
    BY <1>1, <2>7
  <2>8. CASE pc[x] = "start_wait"
    <3>1. h.ev.kind = "running" /\ state[t] = "admitted"
      BY <2>1, <2>3, <2>8 DEF KindAt, AgreeInv, t
    <3>2. answer = "ok"
      BY <2>1, <3>1 DEF Answer, answer
    <3>3. state'[t] = "running"
      BY <2>5, <3>1, <3>2 DEF NewState
    <3> QED
      BY <1>1, <2>3, <2>7, <2>8, <3>1, <3>2, <3>3 DEF AgreeInv, t, Idle, Working, Terminal, Results
  <2>9. CASE pc[x] \in {"tool_start", "tool_finish", "tool_last"}
    <3>1. h.ev.kind \in {"started", "finished"}
      BY <2>1, <2>9 DEF KindAt
    <3>2. state'[t] = state[t]
      BY <1>1, <2>1, <2>5, <3>1 DEF NewState
    <3> QED
      BY <1>1, <2>3, <2>7, <2>9, <3>1, <3>2 DEF AgreeInv, t, Idle, Working
  <2>10. CASE pc[x] = "final"
    <3>1. h.ev.kind = "closed" /\ state[t] # "absent"
      BY <2>1, <2>4, <2>10 DEF KindAt
    <3>2. CASE state[t] \in Terminal
      <4>1. answer = "error" /\ state'[t] = state[t]
        BY <1>1, <2>1, <3>1, <3>2 DEF Answer, answer
      <4>2. via[x] = "stale"
        BY <2>3, <2>10, <3>2 DEF AgreeInv, t
      <4> QED
        BY <1>1, <2>3, <2>7, <2>10, <3>1, <3>2, <4>1, <4>2 DEF AgreeInv, t, Idle, Working
    <3>3. CASE state[t] \notin Terminal
      <4>1. answer = "ok"
        BY <2>1, <3>1, <3>3 DEF Answer, answer
      <4>2. state'[t] \in Terminal
        BY <1>4, <2>5, <3>1, <4>1 DEF NewState
      <4> QED
        BY <1>1, <2>3, <2>7, <2>10, <3>1, <4>1, <4>2 DEF AgreeInv, t, Idle, Working
    <3> QED
      BY <3>2, <3>3
  <2> QED
    BY <2>1, <2>6, <2>8, <2>9, <2>10 DEF Waits
<1> QED
  BY <1>2, <1>3, <1>4, <1>11, <1>13, <1>14, <1>15 DEF Callers

\* The end of the process.
LEMMA LoseMemoryFaultless ==
  ASSUME FaultlessInv, LoseMemory
  PROVE  FaultlessInv'
<1>1. /\ Len(queue') = 0 /\ registered' = {} /\ UNCHANGED <<state, digest, faults>>
      /\ \A y \in Execs : pc'[y] = IF pc[y] \in Idle THEN pc[y] ELSE "lost"
  BY EmptySeq DEF LoseMemory, store, bounds
<1>2. ASSUME NEW y \in Execs, AgreeInv(y) PROVE AgreeInv(y)'
  <2>1. pc'[y] \in Idle /\ (pc'[y] = "done" => pc[y] = "done")
    BY <1>1 DEF Idle
  <2> QED
    BY <1>1, <1>2, <2>1 DEF AgreeInv, Idle, Working
<1> QED
  BY <1>1, <1>2 DEF FaultlessInv, Queued, RegisteredInv

\* What is neither the writer's, a thread's nor a submit.
LEMMA OthersFaultless ==
  ASSUME IInv, FaultlessInv,
         \/ \E t \in Tasks : RequestCancel(t)
         \/ CancelWaited \/ Quit \/ Open \/ RecoveryStep
         \/ \E c \in live : ProcessExits(c)
         \/ WriteFails \/ \E a \in Callers : WaitTimesOut(a)
         \/ UNCHANGED vars
  PROVE  FaultlessInv'
<1>0. Stopper \in Callers /\ Recovery \in Callers /\ Stopper \notin Execs /\ Recovery \notin Execs
  BY ConstantsAssumption DEF Callers
<1>1. ASSUME NEW a \in Callers \ Execs, NEW t \in Tasks, NEW ev \in Events, Put(a, t, ev),
             UNCHANGED <<state, digest, pc, owns, via, registered, faults>>
      PROVE  FaultlessInv'
  <2>1. /\ \A c \in Queued' : c \in Queued \/ c.waited
        /\ receipt' = [receipt EXCEPT ![a] = receipt'[a]]
    BY <1>1, QueuedPut DEF IInv
  <2>2. \A y \in Execs : receipt'[y] = receipt[y]
    BY <1>1, <2>1 DEF IInv, TypeOK, Callers
  <2> QED
    BY <1>1, <2>1, <2>2, StillFaultless
<1>2. ASSUME UNCHANGED <<state, digest, pc, owns, via, registered, faults, receipt, queue>>
      PROVE  FaultlessInv'
  BY <1>2, StillFaultless DEF Queued
<1>3. ASSUME NEW t \in Tasks, RequestCancel(t) PROVE FaultlessInv'
  BY <1>0, <1>1, <1>3, EventTypes DEF RequestCancel, store, thread, Kinds
<1>4. ASSUME NEW t \in Tasks, RecoverTask(t) PROVE FaultlessInv'
  BY <1>0, <1>1, <1>4, EventTypes DEF RecoverTask, store, thread, authority, bounds, Terminal,
     Cleanups, Reasons
<1>5. CASE CancelWaited \/ Quit \/ Open \/ RecoveryFails \/ Recovered
  BY <1>2, <1>5 DEF CancelWaited, Quit, Open, RecoveryFails, Recovered, store, service, thread,
     authority, bounds
<1>6. ASSUME NEW c \in live, ProcessExits(c) PROVE FaultlessInv'
  BY <1>2, <1>6 DEF ProcessExits, store, service, thread, authority, bounds
<1>7. CASE WriteFails \/ \E a \in Callers : WaitTimesOut(a)
  <2>1. faults' = faults + 1 /\ faults \in Nat
    BY <1>7, ConstantsAssumption DEF WriteFails, WaitTimesOut, IInv, TypeOK
  <2>2. faults' # 0
    BY <2>1
  <2> QED
    BY <2>2 DEF FaultlessInv
<1>8. CASE UNCHANGED vars
  BY <1>2, <1>8 DEF vars, store, service, thread, authority, bounds
<1> QED
  BY <1>3, <1>4, <1>5, <1>6, <1>7, <1>8 DEF RecoveryStep

\* At the start nothing runs.
LEMMA InitNInv == Init => NInv
<1> SUFFICES ASSUME Init PROVE FaultlessInv
  BY InitPhase DEF NInv
<1>1. Len(queue) = 0
  BY EmptySeq DEF Init
<1> QED
  BY <1>1 DEF Init, FaultlessInv, AgreeInv, RegisteredInv, Queued, Idle, Working

\* Every step keeps them.
LEMMA NextNInv ==
  ASSUME SerialTurns, QueueLimit >= 2, IInv, CInv, NInv, [Next]_vars
  PROVE  NInv'
<1>0. PhaseInv' /\ RestartInv'
  BY NextPhase DEF NInv
<1> SUFFICES FaultlessInv'
  BY <1>0 DEF NInv
<1>1. ASSUME NEW x \in Execs, Submit(x) \/ ThreadStep(x) PROVE FaultlessInv'
  BY <1>1, SubmitFaultless, ThreadFaultless DEF NInv
<1>2. CASE Write
  BY <1>2, WriteFaultless DEF NInv
<1>3. CASE Crash \/ Exit
  BY <1>3, LoseMemoryFaultless DEF Crash, Exit, NInv
<1>4. CASE \/ \E t \in Tasks : RequestCancel(t)
           \/ CancelWaited \/ Quit \/ Open \/ RecoveryStep
           \/ \E c \in live : ProcessExits(c)
           \/ WriteFails \/ \E a \in Callers : WaitTimesOut(a)
           \/ UNCHANGED vars
  BY <1>4, OthersFaultless DEF NInv
<1> QED
  BY <1>1, <1>2, <1>3, <1>4 DEF Next

\* A restart closes what an earlier process left, and without failed or late
\* writes no task is without a thread and no registration without an owner, for
\* any number of tasks, requests, Stops, crashes and openings.  Turns are serial,
\* and the queue has room for a thread's command next to a Stop: a queue of one
\* place would refuse a terminal that meets a Stop.
THEOREM NothingLeftBehindHolds ==
  SerialTurns /\ QueueLimit >= 2 => (Spec => []NothingLeftBehind)
<1> SUFFICES ASSUME SerialTurns, QueueLimit >= 2 PROVE Spec => []NothingLeftBehind
  OBVIOUS
<1>1. Init => CInv /\ NInv
  BY InitCInv, InitNInv
<1>2. IInv /\ IInv' /\ CInv /\ NInv /\ [Next]_vars => CInv' /\ NInv'
  BY NextCInv, NextNInv
<1>3. IInv /\ CInv /\ NInv => NothingLeftBehind
  <2> SUFFICES ASSUME IInv, CInv, NInv PROVE NothingLeftBehind
    OBVIOUS
  <2>1. ASSUME NEW t \in Unterminated, phase = "open"
        PROVE  /\ digest[t] \in Execs /\ TaskOf[digest[t]] = t
               /\ pc[digest[t]] \notin {"new", "lost"}
    BY <2>1 DEF CInv, RowInv, NInv, RestartInv, Unterminated
  <2>2. RestartClosesOldTasks
    BY <2>1 DEF RestartClosesOldTasks
  <2>3. NoStrandedTask
    <3> SUFFICES ASSUME phase = "open", faults = 0, NEW t \in Unterminated
                 PROVE  \E x \in Execs : TaskOf[x] = t /\ pc[x] \notin Idle
      BY DEF NoStrandedTask
    <3>1. AgreeInv(digest[t])
      BY <2>1 DEF NInv, FaultlessInv
    <3>2. pc[digest[t]] # "done"
      BY <2>1, <3>1 DEF AgreeInv, Unterminated
    <3> QED
      BY <2>1, <3>2 DEF Idle
  <2>4. NoLeakedRegistration
    <3> SUFFICES ASSUME faults = 0, NEW t \in registered
                 PROVE  \E x \in Execs :
                          /\ TaskOf[x] = t
                          /\ pc[x] \notin Idle \/ (digest[t] # None /\ PayloadOf[x] # PayloadOf[digest[t]])
      BY DEF NoLeakedRegistration
    <3> QED
      BY ConstantsAssumption DEF NInv, FaultlessInv, RegisteredInv, Mismatch
  <2> QED
    BY <2>2, <2>3, <2>4 DEF NothingLeftBehind
<1> QED
  BY <1>1, <1>2, <1>3, Invariant, PTL DEF Spec

============================================================================
