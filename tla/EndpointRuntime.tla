-------------------------- MODULE EndpointRuntime --------------------------
(***************************************************************************)
(* The Session Hub's in-process authority over one physical model endpoint *)
(* (session/endpoint_lease.py, endpoint_runtime.py, endpoint_call.py,      *)
(* endpoint_client.py, endpoint_stop_proof.py, llm/client.py).             *)
(*                                                                         *)
(* Every model call is one request made by one thread: it queues, is       *)
(* granted the endpoint's single lease, talks to the server, and gives the *)
(* lease back.  Stop (cancel_execution) runs in another thread at any      *)
(* moment.  All runtime methods hold one Condition, so each is one action; *)
(* what happens between two of them is another thread's chance to run.     *)
(*                                                                         *)
(* A lease is identified with the request it was granted to: a request id  *)
(* is a fresh UUID and is granted at most once.  A deque is represented by *)
(* its members, queued, and ahead[r], the requests in front of r in r's    *)
(* own deque (pending_position is the size of ahead[r]).                   *)
(***************************************************************************)
EXTENDS Naturals, FiniteSets

CONSTANTS
  ChatRequests,    \* requests of the conversation client
  WorkRequests,    \* requests of task workers
  Executions,      \* (task_id, execution_epoch) pairs
  ExecutionOf,     \* WorkRequests -> Executions
  Sessions,        \* conversation session ids
  SessionOf,       \* ChatRequests -> Sessions
  ChatLimit,       \* chat_pending_limit_per_session
  WorkLimit,       \* work_pending_limit
  StopProof,       \* the profile declares a stop_proof and its client streams
  AcquireTimeout,  \* callers bound their wait for the endpoint
  NoRequest        \* no lease is active

Requests == ChatRequests \cup WorkRequests

ASSUME ConstantsAssumption ==
  /\ ChatRequests \cap WorkRequests = {}
  /\ IsFiniteSet(Requests)
  /\ NoRequest \notin Requests
  /\ ExecutionOf \in [WorkRequests -> Executions]
  /\ SessionOf \in [ChatRequests -> Sessions]
  /\ ChatLimit \in Nat \ {0}
  /\ WorkLimit \in Nat \ {0}
  /\ StopProof \in BOOLEAN
  /\ AcquireTimeout \in BOOLEAN

VARIABLES
  \* EndpointArbiter
  queued,      \* members of _chat and _work
  ahead,       \* ahead[r]: the members of r's deque in front of r
  active,      \* request of the _active lease, or NoRequest
  nextClass,   \* _next_class
  quarantine,  \* _quarantine_reason
  \* EndpointRuntime
  granted,     \* keys of _granted: grants not yet picked up by their waiter
  cancelled,   \* _cancelled
  fenced,      \* _cancelled_executions
  signal,      \* _stop_signals: "none", or whether the event is set
  \* the calling thread, its ManagedEndpointCall and ManagedEndpointLease
  pc,          \* how far the call has come
  outcome,     \* how it ended
  \* StreamInterrupt and its watcher thread
  seen,        \* _server_active: a chunk of this response was read
  requested,   \* _requested: the watcher asked for a cut
  watcher,     \* the watcher thread of a stoppable call
  \* the model server (external)
  srv          \* where the server is with the request

arbiterVars == <<queued, ahead, active, nextClass, quarantine>>
runtimeVars == <<granted, cancelled, fenced>>
callVars    == <<pc, outcome>>
cutVars     == <<seen, requested, watcher>>
vars == <<arbiterVars, runtimeVars, signal, callVars, cutVars, srv>>

-----------------------------------------------------------------------------
(* Vocabulary.                                                             *)

\* States of a call that owns the lease.  "ready" is a handle not yet invoked,
\* "armed" one whose stop signal and watcher exist, "streaming" an HTTP request
\* in flight, "ended" a stream that ended before its socket was detached,
\* "returned" a client call that returned, "raised" and "interrupted" one that
\* raised, "settling" await_idle, and "proved" an accepted idle reading.
Holding == {"ready", "armed", "streaming", "ended", "returned", "raised",
            "interrupted", "settling", "proved"}

\* "closing" is the call's finally block and "joining" its watcher.join().
PcStates == Holding \cup {"idle", "waiting", "closing", "joining", "done"}

Outcomes == {"none", "answer", "cancelled", "timeout", "unavailable", "full",
             "transport", "interrupted"}

ClassOf(r) == IF r \in ChatRequests THEN "chat" ELSE "work"
Members(class) == IF class = "chat" THEN ChatRequests ELSE WorkRequests
Opposite(class) == IF class = "chat" THEN "work" ELSE "chat"

\* Only a worker call on a profile that can prove a stop can be cut.
Stoppable(r) == StopProof /\ r \in WorkRequests

\* The server may still be computing this request.
InFlight(r) == srv[r] \in {"sent", "again", "held"}

\* Mutant of ServerIdle: metrics that cannot be read count as an idle server.
ServerIdleOrUnread == TRUE

\* requests_processing and requests_deferred are both zero.  A request the
\* server has not taken up yet is counted by neither gauge.
ServerIdle == \A r \in Requests : srv[r] # "held"

\* Mutant of Cut: the stream is cut before the server was seen working.
CutBeforeSeen(r) == requested[r]

\* StreamInterrupt.cut
Cut(r) == requested[r] /\ seen[r]

\* _all_request_ids and the pending limits of enqueue
QueueFull(r) ==
  IF r \in ChatRequests
  THEN Cardinality({q \in queued \cap ChatRequests : SessionOf[q] = SessionOf[r]}) >= ChatLimit
  ELSE Cardinality(queued \cap WorkRequests) >= WorkLimit

\* The order of the deques once the members of S have left them.
Without(order, S) == [r \in Requests |-> IF r \in S THEN {} ELSE order[r] \ S]

\* _pick_queue: the preferred class, else the other one.
PickQueue(q, class) == IF q \cap Members(class) # {} THEN q \cap Members(class) ELSE q

\* acquire_next on a free endpoint whose deques hold q: the front of the picked
\* deque becomes the active lease.
AcquireNext(q, order, class) ==
  IF q = {}
  THEN /\ active' = NoRequest
       /\ queued' = q
       /\ ahead' = order
  ELSE \E r \in PickQueue(q, class) :
         /\ order[r] = {}
         /\ active' = r
         /\ queued' = q \ {r}
         /\ ahead' = Without(order, {r})

\* _finish_active: the class served next is the other one.
NextClassAfter(r) == Opposite(ClassOf(r))

\* _pump_locked: at most one grant, and none while a lease is active or the
\* endpoint quarantined.
PumpLocked(free, q, order, class) ==
  IF free
  THEN AcquireNext(q, order, class)
  ELSE /\ queued' = q
       /\ ahead' = order
       /\ UNCHANGED active

\* The grant the pump leaves for the waiter of a new active lease.
NewGrant == {active'} \ {active, NoRequest}

EndpointFree == active = NoRequest /\ quarantine = "none"

\* _finish_active followed by the pump: the lease of r is over, the preferred
\* class alternates, and the next request is granted before the Condition is
\* let go.
FinishActiveAndPump(r, pending) ==
  /\ nextClass' = NextClassAfter(r)
  /\ quarantine' = "none"
  /\ PumpLocked(TRUE, queued, ahead, NextClassAfter(r))
  /\ granted' = pending \cup NewGrant

Goto(r, label) == pc' = [pc EXCEPT ![r] = label]
End(r, how) == /\ pc' = [pc EXCEPT ![r] = "done"]
               /\ outcome' = [outcome EXCEPT ![r] = how]

-----------------------------------------------------------------------------
Init ==
  /\ queued = {}
  /\ ahead = [r \in Requests |-> {}]
  /\ active = NoRequest
  /\ nextClass = "chat"
  /\ quarantine = "none"
  /\ granted = {}
  /\ cancelled = {}
  /\ fenced = {}
  /\ signal = [r \in Requests |-> "none"]
  /\ pc = [r \in Requests |-> "idle"]
  /\ outcome = [r \in Requests |-> "none"]
  /\ seen = [r \in Requests |-> FALSE]
  /\ requested = [r \in Requests |-> FALSE]
  /\ watcher = [r \in Requests |-> "none"]
  /\ srv = [r \in Requests |-> "none"]

-----------------------------------------------------------------------------
(* Acquiring the endpoint.                                                 *)

\* acquire: the request belongs to an execution Stop has fenced.
ExecutionFenced(r) == r \in WorkRequests /\ ExecutionOf[r] \in fenced

\* The worker of one task makes its model calls one after another.
CallerFree(r) ==
  r \in WorkRequests =>
    \A q \in WorkRequests \ {r} :
      ExecutionOf[q] = ExecutionOf[r] => pc[q] \in {"idle", "done"}

\* acquire refuses a fenced execution, and enqueue a quarantined endpoint or a
\* full queue.
AcquireRefused(r) ==
  /\ pc[r] = "idle" /\ CallerFree(r)
  /\ \/ /\ ExecutionFenced(r)
        /\ End(r, "cancelled")
     \/ /\ ~ExecutionFenced(r)
        /\ quarantine # "none"
        /\ End(r, "unavailable")
     \/ /\ ~ExecutionFenced(r)
        /\ quarantine = "none" /\ QueueFull(r)
        /\ End(r, "full")
  /\ UNCHANGED <<arbiterVars, runtimeVars, signal, cutVars, srv>>

\* acquire enqueues, pumps and, in the same critical section, takes its own
\* grant or starts to wait.
AcquireQueued(r) ==
  LET order == [ahead EXCEPT ![r] = queued \cap Members(ClassOf(r))]
  IN /\ pc[r] = "idle" /\ CallerFree(r)
     /\ ~ExecutionFenced(r)
     /\ quarantine = "none" /\ ~QueueFull(r)
     /\ PumpLocked(EndpointFree, queued \cup {r}, order, nextClass)
     /\ granted' = granted \cup (NewGrant \ {r})
     /\ Goto(r, IF active' = r THEN "ready" ELSE "waiting")
     /\ UNCHANGED <<nextClass, quarantine, cancelled, fenced, signal, outcome, cutVars, srv>>

\* A waiter woken with its grant.
TakeGrant(r) ==
  /\ pc[r] = "waiting" /\ r \in granted
  /\ granted' = granted \ {r}
  /\ Goto(r, "ready")
  /\ UNCHANGED <<arbiterVars, cancelled, fenced, signal, outcome, cutVars, srv>>

\* A waiter woken by a cancellation of its queued request.
TakeCancellation(r) ==
  /\ pc[r] = "waiting" /\ r \notin granted /\ r \in cancelled
  /\ cancelled' = cancelled \ {r}
  /\ End(r, "cancelled")
  /\ UNCHANGED <<arbiterVars, granted, fenced, signal, cutVars, srv>>

\* Mutant of AcquireTimesOut: the expired waiter does not look for its grant.
TimeoutForgetsGrant(r) ==
  /\ AcquireTimeout /\ pc[r] = "waiting"
  /\ queued' = queued \ {r}
  /\ ahead' = Without(ahead, {r})
  /\ End(r, "timeout")
  /\ UNCHANGED <<active, nextClass, quarantine, runtimeVars, signal, cutVars, srv>>

\* The wait bound passes.  The request leaves its deque and nothing is pumped.
AcquireTimesOut(r) ==
  /\ AcquireTimeout
  /\ pc[r] = "waiting" /\ r \notin granted /\ r \notin cancelled
  /\ r \in queued
  /\ queued' = queued \ {r}
  /\ ahead' = Without(ahead, {r})
  /\ End(r, "timeout")
  /\ UNCHANGED <<active, nextClass, quarantine, runtimeVars, signal, cutVars, srv>>

-----------------------------------------------------------------------------
(* Stop and explicit cancellation.                                         *)

\* cancel_execution, the endpoint's part of Stop: refuse the execution from now
\* on; then release a grant its waiter has not seen, or quarantine a lease that
\* was handed out and tell its call, or remove what is still queued.  If the
\* execution's own failed call already quarantined the endpoint, quarantine()
\* raises a conflict and only the refusal stands.
CancelExecution(e) ==
  /\ fenced' = fenced \cup {e}
  /\ LET mine == active \in WorkRequests /\ ExecutionOf[active] = e
         removed == {q \in queued \cap WorkRequests : ExecutionOf[q] = e}
     IN \/ /\ mine /\ active \in granted
           /\ FinishActiveAndPump(active, granted \ {active})
           /\ cancelled' = cancelled \cup {active}
           /\ UNCHANGED signal
        \/ /\ mine /\ active \notin granted /\ quarantine \in {"none", "stop"}
           /\ quarantine' = "stop"
           /\ signal' = IF signal[active] = "none" THEN signal
                        ELSE [signal EXCEPT ![active] = "set"]
           /\ UNCHANGED <<queued, ahead, active, nextClass, granted, cancelled>>
        \/ /\ mine /\ active \notin granted /\ quarantine \notin {"none", "stop"}
           /\ UNCHANGED <<arbiterVars, granted, cancelled, signal>>
        \/ /\ ~mine
           /\ cancelled' = cancelled \cup removed
           /\ PumpLocked(EndpointFree /\ removed # {},
                         queued \ removed, Without(ahead, removed), nextClass)
           /\ granted' = granted \cup NewGrant
           /\ UNCHANGED <<nextClass, quarantine, signal>>
  /\ UNCHANGED <<callVars, cutVars, srv>>

\* cancel_queued: only a request that is still in a deque.
CancelQueued(r) ==
  /\ r \notin granted /\ r # active /\ r \in queued
  /\ cancelled' = cancelled \cup {r}
  /\ PumpLocked(EndpointFree, queued \ {r}, Without(ahead, {r}), nextClass)
  /\ granted' = granted \cup NewGrant
  /\ UNCHANGED <<nextClass, quarantine, fenced, signal, callVars, cutVars, srv>>

-----------------------------------------------------------------------------
(* The call.                                                               *)

\* _chat_stoppable registers the lease's stop signal, set at once if Stop got
\* there first, and starts the watcher.
ArmStop(r) ==
  /\ pc[r] = "ready" /\ Stoppable(r)
  /\ active = r /\ signal[r] = "none"
  /\ signal' = [signal EXCEPT ![r] = IF quarantine # "none" THEN "set" ELSE "clear"]
  /\ watcher' = [watcher EXCEPT ![r] = "watching"]
  /\ Goto(r, "armed")
  /\ UNCHANGED <<arbiterVars, runtimeVars, outcome, seen, requested, srv>>

\* invoke enters the client, which sends the request.
Send(r) ==
  /\ pc[r] = IF Stoppable(r) THEN "armed" ELSE "ready"
  /\ srv' = [srv EXCEPT ![r] = "sent"]
  /\ Goto(r, "streaming")
  /\ UNCHANGED <<arbiterVars, runtimeVars, signal, outcome, cutVars>>

\* The server refused the request for a field it does not know: the client
\* drops the field, remembers that and sends the request once more.  Nobody
\* looks at the stop signal or at the fence in between.
Resend(r) ==
  /\ pc[r] = "streaming" /\ srv[r] = "refused"
  /\ srv' = [srv EXCEPT ![r] = "again"]
  /\ UNCHANGED <<arbiterVars, runtimeVars, signal, callVars, cutVars>>

\* The streaming loop reads a chunk: the server has been seen working.
ReadChunk(r) ==
  /\ pc[r] = "streaming" /\ Stoppable(r) /\ ~seen[r]
  /\ srv[r] \in {"held", "answered"}
  /\ seen' = [seen EXCEPT ![r] = TRUE]
  /\ UNCHANGED <<arbiterVars, runtimeVars, signal, callVars, requested, watcher, srv>>

\* The stream ended and the last look at the interrupt saw no cut.
EndOfStream(r) ==
  /\ pc[r] = "streaming" /\ srv[r] = "answered" /\ ~Cut(r)
  /\ Goto(r, "ended")
  /\ UNCHANGED <<arbiterVars, runtimeVars, signal, outcome, cutVars, srv>>

\* The finally block detaches the interrupt and the client call returns.
Detach(r) ==
  /\ pc[r] = "ended"
  /\ Goto(r, "returned")
  /\ UNCHANGED <<arbiterVars, runtimeVars, signal, outcome, cutVars, srv>>

\* The loop sees the cut, between chunks, in a failed read or at the end.
Interrupted(r) ==
  /\ pc[r] = "streaming" /\ Cut(r)
  /\ Goto(r, "interrupted")
  /\ UNCHANGED <<arbiterVars, runtimeVars, signal, outcome, cutVars, srv>>

\* A transport error, a stall or a passed deadline ends the client call.  The
\* server is not asked.
TransportError(r) ==
  /\ pc[r] = "streaming"
  /\ Goto(r, "raised")
  /\ UNCHANGED <<arbiterVars, runtimeVars, signal, outcome, cutVars, srv>>

\* invoke after a normal return: reconcile the exact quarantined lease, or
\* release it; either way the lease is over and the next request is granted.
CompleteCall(r) ==
  /\ pc[r] = "returned"
  /\ active = r
  /\ FinishActiveAndPump(r, granted)
  /\ pc' = [pc EXCEPT ![r] = "closing"]
  /\ outcome' = [outcome EXCEPT ![r] = "answer"]
  /\ UNCHANGED <<cancelled, fenced, signal, cutVars, srv>>

\* invoke after an exception: quarantine the lease, or join the quarantine Stop
\* already put on it.  Only an interrupted call goes on to await_idle.
QuarantineCall(r) ==
  /\ active = r
  /\ quarantine' = IF quarantine = "none" THEN "call_exception" ELSE quarantine
  /\ \/ /\ pc[r] = "raised"
        /\ Goto(r, "closing")
        /\ outcome' = [outcome EXCEPT ![r] = "transport"]
     \/ /\ pc[r] = "interrupted"
        /\ Goto(r, "settling")
        /\ outcome' = [outcome EXCEPT ![r] = "interrupted"]
  /\ UNCHANGED <<queued, ahead, active, nextClass, runtimeVars, signal, cutVars, srv>>

\* await_idle accepts an idle reading within the settle bound.
ObserveIdle(r) ==
  /\ pc[r] = "settling" /\ ServerIdle
  /\ Goto(r, "proved")
  /\ UNCHANGED <<arbiterVars, runtimeVars, signal, outcome, cutVars, srv>>

\* await_idle gives up: busy or unreadable until the deadline.
SettleExpires(r) ==
  /\ pc[r] = "settling"
  /\ Goto(r, "closing")
  /\ UNCHANGED <<arbiterVars, runtimeVars, signal, outcome, cutVars, srv>>

\* reconcile(known_stopped=True) on the exact quarantined lease.
Reconcile(r) ==
  /\ pc[r] = "proved"
  /\ active = r /\ quarantine # "none"
  /\ FinishActiveAndPump(r, granted)
  /\ Goto(r, "closing")
  /\ UNCHANGED <<cancelled, fenced, signal, outcome, cutVars, srv>>

\* The finally block of _chat_stoppable: finished.set(), then join.
CloseCall(r) ==
  /\ pc[r] = "closing"
  /\ Goto(r, IF Stoppable(r) THEN "joining" ELSE "done")
  /\ UNCHANGED <<arbiterVars, runtimeVars, signal, outcome, cutVars, srv>>

\* watcher.join() returned; drop_stop_signal.
JoinWatcher(r) ==
  /\ pc[r] = "joining" /\ watcher[r] = "exited"
  /\ signal' = [signal EXCEPT ![r] = "none"]
  /\ Goto(r, "done")
  /\ UNCHANGED <<arbiterVars, runtimeVars, outcome, cutVars, srv>>

-----------------------------------------------------------------------------
(* The watcher thread of a stoppable call.                                 *)

Finished(r) == pc[r] \in {"joining", "done"}

WatcherStep(r, from, to) ==
  /\ watcher[r] = from
  /\ watcher' = [watcher EXCEPT ![r] = to]
  /\ UNCHANGED <<arbiterVars, runtimeVars, signal, callVars, seen, srv>>

\* The signal is set while the call is not finished: ask the proof source.
WatcherSignalled(r) ==
  /\ signal[r] = "set" /\ ~Finished(r)
  /\ WatcherStep(r, "watching", "checking")
  /\ UNCHANGED requested

\* Mutant of WatcherQuits: the watcher of a finished call waits for the signal.
WatcherWaitsForSignal(r) ==
  /\ WatcherStep(r, "checking", "exited")
  /\ UNCHANGED requested

\* The call finished first, or the proof source gave no answer: no cut.
WatcherQuits(r) ==
  /\ \/ Finished(r) /\ WatcherStep(r, "watching", "exited")
     \/ WatcherStep(r, "checking", "exited")
  /\ UNCHANGED requested

\* interrupt.request(): under the interrupt's lock, ask for the cut and take
\* the socket, if the server was seen and the response is still attached.
WatcherRequests(r) ==
  /\ WatcherStep(r, "checking",
        IF seen[r] /\ pc[r] \in {"streaming", "ended"} THEN "cutting" ELSE "exited")
  /\ requested' = [requested EXCEPT ![r] = TRUE]

\* The socket is shut down after the lock was released.
WatcherShutsDown(r) ==
  /\ WatcherStep(r, "cutting", "exited")
  /\ UNCHANGED requested

-----------------------------------------------------------------------------
(* The model server, as the proof source and the client rely on it.        *)

ServerStep(r, from, to) ==
  /\ srv[r] \in from
  /\ srv' = [srv EXCEPT ![r] = to]
  /\ UNCHANGED <<arbiterVars, runtimeVars, signal, callVars, cutVars>>

ServerTakesUp(r) == ServerStep(r, {"sent", "again"}, "held")
\* The request's fields are refused before it is taken up.  A second refusal is
\* an error of the call like any other: ServerDrops.
ServerRefuses(r) == ServerStep(r, {"sent"}, "refused")
ServerAnswers(r) == ServerStep(r, {"held"}, "answered")
\* The request is abandoned: a disconnect was noticed, or the server failed.
ServerDrops(r) == ServerStep(r, {"sent", "again", "held"}, "dropped")

-----------------------------------------------------------------------------
\* The steps of the calling thread that no one has to trigger.
CallerStep(r) ==
  \/ TakeGrant(r) \/ TakeCancellation(r)
  \/ ArmStop(r) \/ Send(r) \/ Resend(r) \/ ReadChunk(r) \/ EndOfStream(r) \/ Detach(r)
  \/ Interrupted(r) \/ CompleteCall(r) \/ QuarantineCall(r)
  \/ ObserveIdle(r) \/ SettleExpires(r) \/ Reconcile(r)
  \/ CloseCall(r) \/ JoinWatcher(r)

WatcherSteps(r) ==
  \/ WatcherSignalled(r) \/ WatcherQuits(r) \/ WatcherRequests(r) \/ WatcherShutsDown(r)

ServerSteps(r) ==
  \/ ServerTakesUp(r) \/ ServerRefuses(r) \/ ServerAnswers(r) \/ ServerDrops(r)

Next ==
  \/ \E r \in Requests :
       \/ AcquireRefused(r) \/ AcquireQueued(r) \/ AcquireTimesOut(r)
       \/ CancelQueued(r) \/ TransportError(r)
       \/ CallerStep(r) \/ WatcherSteps(r) \/ ServerSteps(r)
  \/ \E e \in Executions : CancelExecution(e)

Spec == Init /\ [][Next]_vars

\* Threads run, the server ends what it holds, and a client whose request the
\* server dropped fails to read.  Nobody has to call, press Stop or lose a
\* connection, and no other timeout has to pass.
Fairness ==
  \A r \in Requests :
    /\ WF_vars(CallerStep(r))
    /\ WF_vars(WatcherSteps(r))
    /\ WF_vars(ServerSteps(r))
    /\ WF_vars(srv[r] = "dropped" /\ TransportError(r))

FairSpec == Spec /\ Fairness

-----------------------------------------------------------------------------
(* Properties.                                                             *)

\* Every variable has its type.
TypeOK ==
  /\ queued \subseteq Requests
  /\ ahead \in [Requests -> SUBSET Requests]
  /\ active \in Requests \cup {NoRequest}
  /\ nextClass \in {"chat", "work"}
  /\ quarantine \in {"none", "stop", "call_exception"}
  /\ granted \subseteq Requests
  /\ cancelled \subseteq Requests
  /\ fenced \subseteq Executions
  /\ signal \in [Requests -> {"none", "clear", "set"}]
  /\ pc \in [Requests -> PcStates]
  /\ outcome \in [Requests -> Outcomes]
  /\ seen \in [Requests -> BOOLEAN]
  /\ requested \in [Requests -> BOOLEAN]
  /\ watcher \in [Requests -> {"none", "watching", "checking", "cutting", "exited"}]
  /\ srv \in [Requests ->
                {"none", "sent", "refused", "again", "held", "answered", "dropped"}]

Serial == INSTANCE SerialEndpoint
            WITH computing <- {r \in Requests : InFlight(r)},
                 spent <- {r \in Requests : srv[r] \notin {"none", "refused"}}

\* The runtime implements an endpoint that is dispatched one request at a time,
\* each at most once unless the endpoint refused it unserved.
SerialSpec == Serial!Spec

\* The endpoint computes at most one of the Hub's requests at a time, whatever
\* Stop, failed calls, cut streams and late server answers do (acquire_next:
\* "never queue work inside the endpoint server").
OneInference ==
  \A r, q \in Requests : InFlight(r) /\ InFlight(q) => r = q

\* No lost wakeup: a free and trusted endpoint has nobody queued, so every
\* operation that frees it or shortens a deque has pumped.
NoIdleEndpoint ==
  active = NoRequest /\ quarantine = "none" => queued = {}

\* acquire: "timeout cannot race a hidden grant into a ghost active lease".  An
\* active lease has a waiter about to take it, a call that holds it, or is the
\* quarantined lease of a call that ended without proof.
NoGhostLease ==
  active # NoRequest =>
    \/ active \in granted /\ pc[active] = "waiting"
    \/ pc[active] \in Holding
    \/ quarantine # "none" /\ pc[active] \in {"closing", "joining", "done"}

\* The EndpointLeaseConflicts of a call's own steps are unreachable: the lease
\* it holds is the active one, what it reconciles is quarantined, its stop
\* signal is its own, and a waiter is granted, cancelled or still queued, so
\* that a timeout finds it.
NoLeaseConflict ==
  \A r \in Requests :
    /\ pc[r] \in Holding => active = r
    /\ pc[r] = "proved" => quarantine # "none"
    /\ pc[r] = "ready" => signal[r] = "none"
    /\ pc[r] = "waiting" => r \in queued \cup granted \cup cancelled

\* cancel_execution fences for good: once an execution was stopped, none of its
\* requests that had not been handed the endpoint ever is.
FencedNeverDispatched ==
  [][\A r \in WorkRequests :
       ExecutionOf[r] \in fenced /\ pc[r] \in {"idle", "waiting"} => pc'[r] # "ready"]_vars

\* A quarantine is cleared only when the request it was put on is no longer at
\* the server (reconcile_quarantine: "only after the exact uncertain request is
\* known stopped").
FenceOutlivesInference ==
  [][quarantine # "none" /\ quarantine' = "none" =>
       active # NoRequest /\ ~InFlight(active)]_vars

\* The classes alternate: the lease passes to a request of its own class only
\* if nobody of the other class is queued (_next_class, _pick_queue).
ClassesAlternate ==
  [][active # NoRequest /\ active' \notin {NoRequest, active}
       /\ ClassOf(active') = ClassOf(active) =>
     queued \cap Members(Opposite(ClassOf(active))) = {}]_vars

\* StreamInterrupt: "a late Stop can never shut down a pooled connection another
\* call is using".  The thread that may reuse the connection has not left its
\* call while the watcher still holds the socket.
CutHitsOwnCall ==
  \A r \in Requests : watcher[r] = "cutting" => pc[r] # "done"

\* The lease is sound: no wakeup is lost, no lease is without an owner, no
\* call meets a conflict over its own lease, and no late Stop cuts the stream
\* of another call.
LeaseSound ==
  /\ NoIdleEndpoint
  /\ NoGhostLease
  /\ NoLeaseConflict
  /\ CutHitsOwnCall

\* No step hands the endpoint out wrongly: nothing that waits for a stopped
\* execution is handed it (cancel_execution), a quarantined endpoint is trusted again
\* only when the request it was fenced for has left the server
\* (reconcile_quarantine), and neither class starves the other (_next_class).
DispatchSound ==
  /\ FencedNeverDispatched
  /\ FenceOutlivesInference
  /\ ClassesAlternate

\* Every caller of the endpoint is answered: in the end, and for good, each
\* call that was made has ended, and its watcher thread with it, or it waits
\* behind the quarantined lease that an ended call left behind (that fence stays
\* until the process restarts).
CallerAnswered ==
  <>[](\A r \in Requests :
         \/ pc[r] = "idle"
         \/ pc[r] = "done" /\ watcher[r] \in {"none", "exited"}
         \/ /\ pc[r] = "waiting" /\ quarantine # "none"
            /\ active # NoRequest /\ pc[active] = "done")
============================================================================
