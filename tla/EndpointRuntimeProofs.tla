----------------------- MODULE EndpointRuntimeProofs -----------------------
(***************************************************************************)
(* Proofs, for every set of requests, that the endpoint runtime keeps one  *)
(* inference at a time, never loses a grant and never re-dispatches a      *)
(* stopped execution.                                                      *)
(***************************************************************************)
EXTENDS EndpointRuntime, TLAPS

-----------------------------------------------------------------------------
(* The inductive invariant, one named part per idea.                       *)

\* Where a request can be while it waits: exactly one place.
WaitingInv ==
  /\ \A r \in granted : active = r /\ pc[r] = "waiting" /\ quarantine = "none"
  /\ \A r \in queued : pc[r] = "waiting" /\ r # active /\ r \notin cancelled
  /\ \A r \in cancelled : pc[r] = "waiting" /\ r # active
  /\ \A r \in Requests : pc[r] = "waiting" => r \in queued \cup granted \cup cancelled

\* Who holds the lease, and what a quarantine is on.
LeaseInv ==
  /\ \A r \in Requests : pc[r] \in Holding => active = r
  /\ NoGhostLease
  /\ NoIdleEndpoint
  /\ quarantine # "none" => active # NoRequest
  /\ \A r \in Requests : pc[r] \in {"settling", "proved"} => quarantine # "none"

\* What the server can be doing with a request, given where its call is.
ServerInv ==
  /\ \A r \in Requests : InFlight(r) =>
       /\ active = r
       /\ pc[r] \in {"streaming", "raised", "interrupted", "settling",
                     "closing", "joining", "done"}
  /\ \A r \in Requests : pc[r] \in {"idle", "waiting", "ready", "armed"} => srv[r] = "none"
  /\ \A r \in Requests : seen[r] => srv[r] \in {"held", "answered", "dropped"}
  /\ \A r \in Requests : pc[r] \in {"interrupted", "settling"} => seen[r]

\* One call at a time per execution, none waiting behind the execution's own
\* lease, and none waiting after a Stop.
FenceInv ==
  /\ \A r \in WorkRequests :
       active \in WorkRequests /\ r # active /\ ExecutionOf[r] = ExecutionOf[active]
         => pc[r] # "waiting"
  /\ \A r, q \in WorkRequests :
       r # q /\ ExecutionOf[r] = ExecutionOf[q] /\ pc[r] \notin {"idle", "done"}
         => pc[q] \in {"idle", "done"}
  /\ \A r \in WorkRequests :
       ExecutionOf[r] \in fenced /\ pc[r] = "waiting" => r \in cancelled

\* The watcher and the stop signal live and die with their call.
WatcherInv ==
  \A r \in Requests :
    /\ pc[r] \in {"idle", "waiting", "ready"} => signal[r] = "none" /\ watcher[r] = "none"
    /\ ~Stoppable(r) => watcher[r] = "none"
    /\ pc[r] = "done" => watcher[r] \in {"none", "exited"}

IInv ==
  /\ TypeOK
  /\ WaitingInv
  /\ LeaseInv
  /\ ServerInv
  /\ FenceInv
  /\ WatcherInv

-----------------------------------------------------------------------------
(* Facts about the helpers.                                                *)

\* What acquire_next does to deques holding q: it takes one member, unless
\* there is none.
LEMMA AcquireNextEffect ==
  ASSUME NEW q \in SUBSET Requests, NEW order \in [Requests -> SUBSET Requests],
         NEW class \in {"chat", "work"}, AcquireNext(q, order, class)
  PROVE  /\ active' \in q \cup {NoRequest}
         /\ active' = NoRequest <=> q = {}
         /\ queued' = q \ {active'}
         /\ ahead' \in [Requests -> SUBSET Requests]
<1>1. CASE q = {}
  BY <1>1 DEF AcquireNext
<1>2. CASE q # {}
  <2>1. PICK r \in PickQueue(q, class) :
          /\ active' = r
          /\ queued' = q \ {r}
          /\ ahead' = Without(order, {r})
    BY <1>2 DEF AcquireNext
  <2>2. r \in q /\ r # NoRequest
    BY <2>1, ConstantsAssumption DEF PickQueue
  <2>3. ahead' \in [Requests -> SUBSET Requests]
    BY <2>1 DEF Without
  <2> QED BY <1>2, <2>1, <2>2, <2>3
<1> QED BY <1>1, <1>2

\* The end of a lease: the endpoint is trusted again and, if anyone was queued,
\* one of them is the new active request and the only new grant.
LEMMA FinishEffect ==
  ASSUME TypeOK, NEW r \in Requests, NEW pending \in SUBSET Requests,
         FinishActiveAndPump(r, pending)
  PROVE  /\ quarantine' = "none"
         /\ nextClass' \in {"chat", "work"}
         /\ active' \in queued \cup {NoRequest}
         /\ active' = NoRequest <=> queued = {}
         /\ queued' = queued \ {active'}
         /\ ahead' \in [Requests -> SUBSET Requests]
         /\ granted' = pending \cup NewGrant
<1>1. NextClassAfter(r) \in {"chat", "work"}
  BY DEF NextClassAfter, Opposite
<1>2. AcquireNext(queued, ahead, NextClassAfter(r))
  BY DEF FinishActiveAndPump, PumpLocked
<1>3. queued \in SUBSET Requests /\ ahead \in [Requests -> SUBSET Requests]
  BY DEF TypeOK
<1>4. /\ active' \in queued \cup {NoRequest}
      /\ active' = NoRequest <=> queued = {}
      /\ queued' = queued \ {active'}
      /\ ahead' \in [Requests -> SUBSET Requests]
  BY <1>1, <1>2, <1>3, AcquireNextEffect
<1> QED BY <1>1, <1>4 DEF FinishActiveAndPump

-----------------------------------------------------------------------------
(* The invariant holds initially and every step keeps it.                  *)

\* The empty endpoint satisfies the invariant.
LEMMA InitIInv == Init => IInv
<1> SUFFICES ASSUME Init PROVE IInv
  OBVIOUS
<1>1. TypeOK
  BY ConstantsAssumption DEF Init, TypeOK, PcStates, Outcomes
<1>2. WaitingInv /\ LeaseInv
  BY DEF Init, WaitingInv, LeaseInv, NoGhostLease, NoIdleEndpoint, Holding
<1>3. ServerInv
  BY DEF Init, ServerInv, InFlight
<1>4. FenceInv /\ WatcherInv
  BY DEF Init, FenceInv, WatcherInv, Requests
<1> QED BY <1>1, <1>2, <1>3, <1>4 DEF IInv

\* The steps that leave the deques and the lease alone, or only remove a waiter.
LEMMA CallerStepKeeps ==
  ASSUME IInv, NEW r \in Requests,
         \/ AcquireRefused(r) \/ AcquireTimesOut(r) \/ TakeGrant(r) \/ TakeCancellation(r)
         \/ ArmStop(r) \/ Send(r) \/ Resend(r) \/ ReadChunk(r) \/ EndOfStream(r) \/ Detach(r)
         \/ Interrupted(r) \/ TransportError(r) \/ ObserveIdle(r) \/ SettleExpires(r)
         \/ CloseCall(r) \/ JoinWatcher(r)
  PROVE  IInv'
<1> USE ConstantsAssumption
    DEF IInv, TypeOK, WaitingInv, LeaseInv, NoGhostLease, NoIdleEndpoint, Holding, ServerInv,
        InFlight, FenceInv, WatcherInv, PcStates, Outcomes, arbiterVars, runtimeVars, callVars,
        cutVars, Goto, End
<1>1. CASE AcquireRefused(r)
  <2>1. /\ pc[r] = "idle" /\ pc' = [pc EXCEPT ![r] = "done"]
        /\ outcome' \in [Requests -> Outcomes]
        /\ UNCHANGED <<arbiterVars, runtimeVars, signal, cutVars, srv>>
    BY <1>1 DEF AcquireRefused
  <2> QED BY <2>1
<1>2. CASE AcquireTimesOut(r)
  BY <1>2 DEF AcquireTimesOut, Without
<1>3. CASE TakeGrant(r)
  BY <1>3 DEF TakeGrant
<1>4. CASE TakeCancellation(r)
  BY <1>4 DEF TakeCancellation
<1>5. CASE ArmStop(r)
  BY <1>5 DEF ArmStop
<1>6. CASE Send(r)
  BY <1>6 DEF Send
<1>7. CASE ReadChunk(r)
  BY <1>7 DEF ReadChunk
<1>8. CASE EndOfStream(r)
  BY <1>8 DEF EndOfStream, Cut
<1>9. CASE Detach(r)
  BY <1>9 DEF Detach
<1>10. CASE Interrupted(r)
  BY <1>10 DEF Interrupted, Cut
<1>11. CASE TransportError(r)
  BY <1>11 DEF TransportError
<1>12. CASE ObserveIdle(r)
  BY <1>12 DEF ObserveIdle, ServerIdle
<1>13. CASE SettleExpires(r)
  BY <1>13 DEF SettleExpires
<1>14. CASE CloseCall(r)
  BY <1>14 DEF CloseCall
<1>15. CASE JoinWatcher(r)
  BY <1>15 DEF JoinWatcher
<1>16. CASE Resend(r)
  BY <1>16 DEF Resend
<1> QED BY <1>1, <1>2, <1>3, <1>4, <1>5, <1>6, <1>7, <1>8, <1>9, <1>10, <1>11, <1>12, <1>13, <1>14, <1>15,
           <1>16

\* The steps of the watcher thread and of the server.
LEMMA WatcherServerStepKeeps ==
  ASSUME IInv, NEW r \in Requests, WatcherSteps(r) \/ ServerSteps(r)
  PROVE  IInv'
<1> USE ConstantsAssumption
    DEF IInv, TypeOK, WaitingInv, LeaseInv, NoGhostLease, NoIdleEndpoint, Holding, ServerInv,
        InFlight, FenceInv, WatcherInv, PcStates, Outcomes, arbiterVars, runtimeVars, callVars,
        cutVars, WatcherStep, ServerStep, Finished
<1>1. CASE WatcherSignalled(r)
  BY <1>1 DEF WatcherSignalled
<1>2. CASE WatcherQuits(r)
  BY <1>2 DEF WatcherQuits
<1>3. CASE WatcherRequests(r)
  BY <1>3 DEF WatcherRequests
<1>4. CASE WatcherShutsDown(r)
  BY <1>4 DEF WatcherShutsDown
<1>5. CASE ServerTakesUp(r)
  BY <1>5 DEF ServerTakesUp
<1>6. CASE ServerAnswers(r)
  BY <1>6 DEF ServerAnswers
<1>7. CASE ServerDrops(r) \/ ServerRefuses(r)
  BY <1>7 DEF ServerDrops, ServerRefuses
<1> QED BY <1>1, <1>2, <1>3, <1>4, <1>5, <1>6, <1>7 DEF WatcherSteps, ServerSteps

\* An exception quarantines the lease its call holds.
LEMMA QuarantineCallKeeps ==
  ASSUME IInv, NEW r \in Requests, QuarantineCall(r)
  PROVE  IInv'
<1> USE DEF IInv, QuarantineCall, Goto
<1>1. TypeOK'
  BY DEF TypeOK, PcStates, Holding, Outcomes, runtimeVars, cutVars
<1>2. WaitingInv'
  BY DEF TypeOK, WaitingInv, LeaseInv, Holding, runtimeVars
<1>3. LeaseInv'
  BY ConstantsAssumption
     DEF TypeOK, WaitingInv, LeaseInv, NoGhostLease, NoIdleEndpoint, Holding, runtimeVars
<1>4. ServerInv'
  BY DEF TypeOK, ServerInv, InFlight, cutVars
<1>5. FenceInv' /\ WatcherInv'
  BY DEF TypeOK, FenceInv, WatcherInv, runtimeVars, cutVars, Requests, Stoppable
<1> QED BY <1>1, <1>2, <1>3, <1>4, <1>5

\* The end of a lease by a normal return or an accepted idle reading.  The
\* request is no longer at the server, so the next grant is alone.
LEMMA LeaseEndKeeps ==
  ASSUME IInv, NEW r \in Requests, CompleteCall(r) \/ Reconcile(r)
  PROVE  IInv'
<1> USE DEF IInv, Goto
<1>1. /\ pc[r] \in {"returned", "proved"} /\ active = r /\ FinishActiveAndPump(r, granted)
      /\ pc' = [pc EXCEPT ![r] = "closing"]
      /\ outcome' \in [Requests -> Outcomes]
      /\ UNCHANGED <<cancelled, fenced, signal, cutVars, srv>>
  BY DEF CompleteCall, Reconcile, TypeOK, Outcomes
<1>2. /\ quarantine' = "none"
      /\ nextClass' \in {"chat", "work"}
      /\ active' \in queued \cup {NoRequest}
      /\ active' = NoRequest <=> queued = {}
      /\ queued' = queued \ {active'}
      /\ ahead' \in [Requests -> SUBSET Requests]
      /\ granted' = granted \cup NewGrant
  BY <1>1, FinishEffect DEF TypeOK
<1>3. granted = {} /\ granted' = {active'} \ {NoRequest}
  BY <1>1, <1>2 DEF WaitingInv, NewGrant, TypeOK
<1>4. TypeOK'
  BY <1>1, <1>2, <1>3 DEF TypeOK, PcStates, cutVars
<1>5. WaitingInv'
  BY <1>1, <1>2, <1>3, ConstantsAssumption DEF WaitingInv, TypeOK
<1>6. LeaseInv'
  BY <1>1, <1>2, <1>3, ConstantsAssumption
     DEF LeaseInv, WaitingInv, NoGhostLease, NoIdleEndpoint, Holding, TypeOK
<1>7. ServerInv'
  BY <1>1, <1>2, <1>3 DEF ServerInv, InFlight, TypeOK, cutVars
<1>8. WatcherInv'
  BY <1>1 DEF WatcherInv, TypeOK, cutVars, Stoppable
<1>9. FenceInv'
  BY <1>1, <1>2, ConstantsAssumption DEF FenceInv, WaitingInv, TypeOK, Requests
<1> QED BY <1>4, <1>5, <1>6, <1>7, <1>8, <1>9

\* A new request either gets the free endpoint at once or queues behind the
\* active lease: the endpoint is never free with others queued.
LEMMA AcquireQueuedKeeps ==
  ASSUME IInv, NEW r \in Requests, AcquireQueued(r)
  PROVE  IInv'
<1> DEFINE order == [ahead EXCEPT ![r] = queued \cap Members(ClassOf(r))]
<1> USE DEF IInv, Goto
<1>0. /\ pc[r] = "idle" /\ CallerFree(r) /\ ~ExecutionFenced(r) /\ quarantine = "none"
      /\ PumpLocked(EndpointFree, queued \cup {r}, order, nextClass)
      /\ granted' = granted \cup (NewGrant \ {r})
      /\ pc' = [pc EXCEPT ![r] = IF active' = r THEN "ready" ELSE "waiting"]
      /\ UNCHANGED <<nextClass, quarantine, cancelled, fenced, signal, outcome, cutVars, srv>>
  BY DEF AcquireQueued
<1>1. order \in [Requests -> SUBSET Requests] /\ r # NoRequest /\ r # active
  BY <1>0, ConstantsAssumption DEF TypeOK, LeaseInv, NoGhostLease, Holding
<1> HIDE DEF order
<1>2. CASE active = NoRequest
  <2>1. queued = {} /\ granted = {} /\ EndpointFree
    BY <1>0, <1>2, ConstantsAssumption
       DEF LeaseInv, NoIdleEndpoint, WaitingInv, EndpointFree, TypeOK
  <2>2. AcquireNext({r}, order, nextClass)
    BY <1>0, <2>1 DEF PumpLocked
  <2>3. /\ active' = r
        /\ queued' = {}
        /\ ahead' \in [Requests -> SUBSET Requests]
    <3>1. {r} \in SUBSET Requests /\ nextClass \in {"chat", "work"}
      BY DEF TypeOK
    <3>2. /\ active' \in {r} \cup {NoRequest}
          /\ active' = NoRequest <=> {r} = {}
          /\ queued' = {r} \ {active'}
          /\ ahead' \in [Requests -> SUBSET Requests]
      BY <1>1, <2>2, <3>1, AcquireNextEffect
    <3> QED BY <3>2
  <2>4. granted' = {} /\ pc' = [pc EXCEPT ![r] = "ready"]
    BY <1>0, <2>1, <2>3 DEF NewGrant
  <2>5. TypeOK' /\ WaitingInv'
    <3>1. pc' \in [Requests -> PcStates]
      BY <2>4 DEF TypeOK, PcStates, Holding
    <3>2. TypeOK'
      BY <1>0, <2>3, <2>4, <3>1 DEF TypeOK, cutVars
    <3>3. WaitingInv'
      BY <1>0, <2>1, <2>3, <2>4 DEF TypeOK, WaitingInv
    <3> QED BY <3>2, <3>3
  <2>6. LeaseInv'
    BY <1>0, <1>2, <2>1, <2>3, <2>4, ConstantsAssumption
       DEF TypeOK, LeaseInv, NoGhostLease, NoIdleEndpoint, Holding
  <2>7. ServerInv'
    BY <1>0, <1>2, <2>4, <2>3, ConstantsAssumption DEF TypeOK, ServerInv, InFlight, cutVars
  <2>8. FenceInv' /\ WatcherInv'
    BY <1>0, <2>4 DEF TypeOK, FenceInv, WatcherInv, CallerFree, cutVars, Requests, Stoppable
  <2> QED BY <2>5, <2>6, <2>7, <2>8
<1>3. CASE active # NoRequest
  <2>1. /\ active' = active
        /\ queued' = queued \cup {r}
        /\ ahead' \in [Requests -> SUBSET Requests]
    BY <1>0, <1>1, <1>3 DEF PumpLocked, EndpointFree
  <2>2. granted' = granted /\ pc' = [pc EXCEPT ![r] = "waiting"]
    BY <1>0, <1>1, <2>1 DEF NewGrant
  <2>3. TypeOK'
    <3>1. pc' \in [Requests -> PcStates]
      BY <2>2 DEF TypeOK, PcStates
    <3> QED BY <1>0, <2>1, <2>2, <3>1 DEF TypeOK, cutVars
  <2>7. WaitingInv'
    BY <1>0, <1>1, <2>1, <2>2 DEF TypeOK, WaitingInv
  <2>4. LeaseInv'
    BY <1>0, <1>1, <1>3, <2>1, <2>2
       DEF TypeOK, LeaseInv, NoGhostLease, NoIdleEndpoint, Holding
  <2>5. ServerInv'
    BY <1>0, <2>1, <2>2 DEF TypeOK, ServerInv, InFlight, cutVars
  <2>6. WatcherInv'
    BY <1>0, <2>2 DEF TypeOK, WatcherInv, cutVars, Stoppable
  <2>8. pc[active] \notin {"idle", "done"}
    BY <1>0, <1>3 DEF LeaseInv, NoGhostLease, Holding
  <2>9. FenceInv'
    BY <1>0, <2>1, <2>2, <2>8
       DEF TypeOK, FenceInv, CallerFree, ExecutionFenced, Requests
  <2> QED BY <2>3, <2>4, <2>5, <2>6, <2>7, <2>9
<1> QED BY <1>2, <1>3

\* The cancellation of a set of queued requests finds the endpoint busy or
\* quarantined, so its pump grants nothing.
LEMMA RemovalKeeps ==
  ASSUME IInv, NEW removed \in SUBSET queued, NEW F \in SUBSET Executions,
         \A r \in WorkRequests :
           ExecutionOf[r] \in F \ fenced /\ pc[r] = "waiting" => r \in cancelled \cup removed,
         NEW free \in BOOLEAN, free => EndpointFree /\ removed # {},
         PumpLocked(free, queued \ removed, Without(ahead, removed), nextClass),
         cancelled' = cancelled \cup removed,
         granted' = granted \cup NewGrant,
         fenced' = F,
         UNCHANGED <<nextClass, quarantine, signal, callVars, cutVars, srv>>
  PROVE  IInv'
<1> USE DEF IInv
<1>1. ~free
  BY DEF EndpointFree, LeaseInv, NoIdleEndpoint
<1>2. /\ active' = active
      /\ queued' = queued \ removed
      /\ ahead' \in [Requests -> SUBSET Requests]
      /\ granted' = granted
  BY <1>1 DEF PumpLocked, Without, NewGrant, TypeOK
<1>3. TypeOK' /\ WaitingInv'
  BY <1>2 DEF TypeOK, WaitingInv, callVars, cutVars
<1>4. LeaseInv'
  BY <1>2 DEF LeaseInv, NoGhostLease, NoIdleEndpoint, callVars, TypeOK
<1>5. ServerInv' /\ WatcherInv'
  BY <1>2 DEF ServerInv, WatcherInv, InFlight, Stoppable, callVars, cutVars
<1>6. FenceInv'
  BY <1>2 DEF FenceInv, callVars
<1> QED BY <1>3, <1>4, <1>5, <1>6

\* Stop keeps the invariant: a grant nobody saw is taken back, a lease that was
\* handed out is quarantined where it is, a queued request is removed.
LEMMA CancelExecutionKeeps ==
  ASSUME IInv, NEW e \in Executions, CancelExecution(e)
  PROVE  IInv'
<1> DEFINE mine == active \in WorkRequests /\ ExecutionOf[active] = e
           removed == {q \in queued \cap WorkRequests : ExecutionOf[q] = e}
<1> USE DEF IInv
<1>0. fenced' = fenced \cup {e} /\ UNCHANGED <<callVars, cutVars, srv>>
  BY DEF CancelExecution
<1>1. CASE mine /\ active \in granted
  <2>1. /\ FinishActiveAndPump(active, granted \ {active})
        /\ cancelled' = cancelled \cup {active}
        /\ UNCHANGED signal
    BY <1>1 DEF CancelExecution, WaitingInv
  <2>2. /\ quarantine' = "none"
        /\ nextClass' \in {"chat", "work"}
        /\ active' \in queued \cup {NoRequest}
        /\ active' = NoRequest <=> queued = {}
        /\ queued' = queued \ {active'}
        /\ ahead' \in [Requests -> SUBSET Requests]
        /\ granted' = (granted \ {active}) \cup NewGrant
    BY <1>1, <2>1, FinishEffect DEF TypeOK, Requests
  <2>3. active \in Requests /\ active \notin queued /\ active' # active
    BY <1>1, <2>2, ConstantsAssumption DEF TypeOK, WaitingInv
  <2>4. granted' = {active'} \ {NoRequest}
    BY <2>2, <2>3 DEF WaitingInv, NewGrant
  <2>5. TypeOK' /\ WaitingInv'
    BY <1>0, <1>1, <2>1, <2>2, <2>3, <2>4, ConstantsAssumption
       DEF TypeOK, WaitingInv, callVars, cutVars
  <2>6. LeaseInv'
    BY <1>0, <1>1, <2>2, <2>3, <2>4, ConstantsAssumption
       DEF TypeOK, WaitingInv, LeaseInv, NoGhostLease, NoIdleEndpoint, Holding, callVars
  <2>7. ServerInv' /\ WatcherInv'
    BY <1>0, <1>1, <2>1 DEF ServerInv, WatcherInv, WaitingInv, InFlight, Stoppable, TypeOK, callVars, cutVars
  <2>8. FenceInv'
    BY <1>0, <1>1, <2>1, <2>2, ConstantsAssumption DEF FenceInv, WaitingInv, callVars, Requests
  <2> QED BY <2>5, <2>6, <2>7, <2>8
<1>2. CASE mine /\ active \notin granted
  <2>1. /\ quarantine' \in {"stop", "call_exception"}
        /\ signal' \in [Requests -> {"none", "clear", "set"}]
        /\ signal' = signal \/ (signal[active] # "none" /\ signal' = [signal EXCEPT ![active] = "set"])
        /\ UNCHANGED <<queued, ahead, active, nextClass, granted, cancelled>>
    BY <1>2 DEF CancelExecution, TypeOK, arbiterVars, Requests
  <2>2. pc[active] \notin {"idle", "waiting"}
    BY <1>2, ConstantsAssumption DEF LeaseInv, NoGhostLease, Holding, Requests
  <2>3. granted = {}
    BY <1>2 DEF WaitingInv
  <2>4. TypeOK' /\ WaitingInv'
    BY <1>0, <2>1, <2>3 DEF TypeOK, WaitingInv, callVars, cutVars
  <2>5. LeaseInv'
    BY <1>0, <1>2, <2>1, ConstantsAssumption
       DEF LeaseInv, NoGhostLease, NoIdleEndpoint, callVars, Requests
  <2>6. ServerInv' /\ WatcherInv'
    BY <1>0, <2>1 DEF ServerInv, WatcherInv, InFlight, Stoppable, TypeOK, callVars, cutVars
  <2>7. FenceInv'
    BY <1>0, <1>2, <2>1, <2>2 DEF FenceInv, callVars, TypeOK, LeaseInv, NoGhostLease, Holding
  <2> QED BY <2>4, <2>5, <2>6, <2>7
<1>3. CASE ~mine
  <2>1. /\ PumpLocked(EndpointFree /\ removed # {},
                      queued \ removed, Without(ahead, removed), nextClass)
        /\ cancelled' = cancelled \cup removed
        /\ granted' = granted \cup NewGrant
        /\ UNCHANGED <<nextClass, quarantine, signal>>
    BY <1>3 DEF CancelExecution
  <2>2. \A r \in WorkRequests :
          ExecutionOf[r] \in (fenced \cup {e}) \ fenced /\ pc[r] = "waiting"
            => r \in cancelled \cup removed
    BY <1>3 DEF WaitingInv, Requests
  <2>3. fenced \cup {e} \in SUBSET Executions /\ removed \in SUBSET queued
    BY DEF TypeOK
  <2> QED BY <1>0, <2>1, <2>2, <2>3, RemovalKeeps
<1> QED BY <1>1, <1>2, <1>3

\* Every step of the runtime keeps the invariant.
LEMMA NextKeeps == IInv /\ [Next]_vars => IInv'
<1> SUFFICES ASSUME IInv, [Next]_vars PROVE IInv'
  OBVIOUS
<1>1. ASSUME NEW r \in Requests, AcquireQueued(r) PROVE IInv'
  BY <1>1, AcquireQueuedKeeps
<1>2. ASSUME NEW r \in Requests, CancelQueued(r) PROVE IInv'
  <2>1. {r} \in SUBSET queued /\ fenced \in SUBSET Executions
    BY <1>2 DEF CancelQueued, IInv, TypeOK
  <2>2. /\ PumpLocked(EndpointFree, queued \ {r}, Without(ahead, {r}), nextClass)
        /\ cancelled' = cancelled \cup {r}
        /\ granted' = granted \cup NewGrant
        /\ fenced' = fenced
        /\ UNCHANGED <<nextClass, quarantine, signal, callVars, cutVars, srv>>
    BY <1>2 DEF CancelQueued
  <2>3. EndpointFree \in BOOLEAN /\ (EndpointFree => EndpointFree /\ {r} # {})
    BY DEF EndpointFree
  <2> HIDE DEF EndpointFree
  <2> QED BY <2>1, <2>2, <2>3, RemovalKeeps
<1>3. ASSUME NEW r \in Requests, CompleteCall(r) \/ Reconcile(r) PROVE IInv'
  BY <1>3, LeaseEndKeeps
<1>4. ASSUME NEW r \in Requests, QuarantineCall(r) PROVE IInv'
  BY <1>4, QuarantineCallKeeps
<1>5. ASSUME NEW r \in Requests, WatcherSteps(r) \/ ServerSteps(r) PROVE IInv'
  BY <1>5, WatcherServerStepKeeps
<1>6. ASSUME NEW e \in Executions, CancelExecution(e) PROVE IInv'
  BY <1>6, CancelExecutionKeeps
<1>7. CASE UNCHANGED vars
  BY <1>7
     DEF vars, arbiterVars, runtimeVars, callVars, cutVars, IInv, TypeOK, WaitingInv, LeaseInv,
         NoGhostLease, NoIdleEndpoint, ServerInv, InFlight, FenceInv, WatcherInv, Stoppable
<1> QED
  BY <1>1, <1>2, <1>3, <1>4, <1>5, <1>6, <1>7, CallerStepKeeps DEF Next, CallerStep

\* The inductive invariant of the endpoint runtime.
THEOREM IInvHolds == Spec => []IInv
BY InitIInv, NextKeeps, PTL DEF Spec

-----------------------------------------------------------------------------
(* The properties.                                                         *)

\* Every reachable state of the runtime, its callers and the server is well typed.
THEOREM TypeCorrect == Spec => []TypeOK
<1>1. IInv => TypeOK
  BY DEF IInv
<1> QED BY <1>1, IInvHolds, PTL

\* At most one request is at the model server, for any number of callers.
THEOREM OneInferenceHolds == Spec => []OneInference
<1>1. IInv => OneInference
  BY DEF IInv, ServerInv, OneInference
<1> QED BY <1>1, IInvHolds, PTL

\* _pump_locked is called wherever it must be: no free endpoint has a waiter.
THEOREM NoIdleEndpointHolds == Spec => []NoIdleEndpoint
<1>1. IInv => NoIdleEndpoint
  BY DEF IInv, LeaseInv
<1> QED BY <1>1, IInvHolds, PTL

\* No lease is active without an owner, unless quarantined.
THEOREM NoGhostLeaseHolds == Spec => []NoGhostLease
<1>1. IInv => NoGhostLease
  BY DEF IInv, LeaseInv
<1> QED BY <1>1, IInvHolds, PTL

\* The conflict errors of a call's own steps cannot be raised.
THEOREM NoLeaseConflictHolds == Spec => []NoLeaseConflict
<1>1. IInv => NoLeaseConflict
  BY DEF IInv, LeaseInv, WaitingInv, WatcherInv, NoLeaseConflict
<1> QED BY <1>1, IInvHolds, PTL

\* A watcher about to shut a socket down belongs to a call that has not returned.
THEOREM CutHitsOwnCallHolds == Spec => []CutHitsOwnCall
<1>1. IInv => CutHitsOwnCall
  BY DEF IInv, WatcherInv, CutHitsOwnCall
<1> QED BY <1>1, IInvHolds, PTL

\* A stopped execution's request that had not been handed the endpoint never is.
THEOREM FencedNeverDispatchedHolds == Spec => FencedNeverDispatched
<1>1. IInv /\ [Next]_vars =>
        [\A r \in WorkRequests :
           ExecutionOf[r] \in fenced /\ pc[r] \in {"idle", "waiting"} => pc'[r] # "ready"]_vars
  <2> SUFFICES ASSUME IInv, Next, NEW r \in WorkRequests,
                      ExecutionOf[r] \in fenced, pc[r] \in {"idle", "waiting"}
               PROVE  pc'[r] # "ready"
    OBVIOUS
  <2>1. pc \in [Requests -> PcStates] /\ r \in Requests
    BY DEF IInv, TypeOK, Requests
  <2>2. pc[r] = "waiting" => r \notin granted
    BY DEF IInv, FenceInv, WaitingInv
  <2>3. ASSUME NEW q \in Requests, AcquireQueued(q) PROVE pc'[r] # "ready"
    BY <2>1, <2>3 DEF AcquireQueued, ExecutionFenced, Goto
  <2>4. ASSUME NEW q \in Requests, TakeGrant(q) PROVE pc'[r] # "ready"
    BY <2>1, <2>2, <2>4 DEF TakeGrant, Goto
  <2>5. ASSUME NEW q \in Requests,
               \/ AcquireRefused(q) \/ AcquireTimesOut(q) \/ CancelQueued(q)
               \/ TransportError(q) \/ WatcherSteps(q) \/ ServerSteps(q)
        PROVE  pc'[r] # "ready"
    BY <2>1, <2>5
       DEF AcquireRefused, AcquireTimesOut, CancelQueued, TransportError, WatcherSteps,
           WatcherSignalled, WatcherQuits, WatcherRequests, WatcherShutsDown, WatcherStep,
           ServerSteps, ServerTakesUp, ServerRefuses, ServerAnswers, ServerDrops, ServerStep,
           End, Goto,
           callVars
  <2>6. ASSUME NEW q \in Requests,
               \/ TakeCancellation(q) \/ ArmStop(q) \/ Send(q) \/ Resend(q) \/ ReadChunk(q)
               \/ EndOfStream(q) \/ Detach(q) \/ Interrupted(q) \/ CompleteCall(q)
               \/ QuarantineCall(q) \/ ObserveIdle(q) \/ SettleExpires(q) \/ Reconcile(q)
               \/ CloseCall(q) \/ JoinWatcher(q)
        PROVE  pc'[r] # "ready"
    BY <2>1, <2>6
       DEF TakeCancellation, ArmStop, Send, Resend, ReadChunk, EndOfStream, Detach, Interrupted,
           CompleteCall, QuarantineCall, ObserveIdle, SettleExpires, Reconcile, CloseCall,
           JoinWatcher, End, Goto, callVars
  <2>7. ASSUME NEW e \in Executions, CancelExecution(e) PROVE pc'[r] # "ready"
    BY <2>1, <2>7 DEF CancelExecution, callVars
  <2> QED BY <2>3, <2>4, <2>5, <2>6, <2>7 DEF Next, CallerStep
<1> QED BY <1>1, IInvHolds, PTL DEF Spec, FencedNeverDispatched

\* The steps that end a lease, and what they know about it.
LEMMA LeaseEnds ==
  ASSUME IInv, Next, active # NoRequest,
         active' # active \/ (quarantine # "none" /\ quarantine' = "none")
  PROVE  /\ active \in Requests
         /\ ~InFlight(active)
         /\ \E pending \in SUBSET Requests : FinishActiveAndPump(active, pending)
<1> USE DEF IInv
<1>0. active \in Requests
  BY DEF TypeOK
<1>1. ASSUME NEW r \in Requests, CompleteCall(r) \/ Reconcile(r)
      PROVE  active = r /\ ~InFlight(r) /\ FinishActiveAndPump(r, granted)
  BY <1>1 DEF CompleteCall, Reconcile, ServerInv
<1>2. ASSUME NEW e \in Executions, CancelExecution(e)
      PROVE  ~InFlight(active) /\ FinishActiveAndPump(active, granted \ {active})
  <2>1. CASE active \in granted
    BY <1>0, <1>2, <2>1
       DEF CancelExecution, WaitingInv, ServerInv, PumpLocked, EndpointFree
  <2>2. CASE active \notin granted
    BY <1>0, <1>2, <2>2 DEF CancelExecution, PumpLocked, EndpointFree, arbiterVars
  <2> QED BY <2>1, <2>2
<1>3. ASSUME NEW r \in Requests, AcquireQueued(r) \/ CancelQueued(r) PROVE FALSE
  BY <1>3 DEF AcquireQueued, CancelQueued, PumpLocked, EndpointFree
<1>4. ASSUME NEW r \in Requests,
             \/ AcquireRefused(r) \/ AcquireTimesOut(r) \/ TransportError(r)
             \/ WatcherSteps(r) \/ ServerSteps(r)
      PROVE  FALSE
  BY <1>4
     DEF AcquireRefused, AcquireTimesOut, TransportError, WatcherSteps, WatcherSignalled,
         WatcherQuits, WatcherRequests, WatcherShutsDown, WatcherStep, ServerSteps,
         ServerTakesUp, ServerRefuses, ServerAnswers, ServerDrops, ServerStep, arbiterVars
<1>5. ASSUME NEW r \in Requests,
             \/ TakeGrant(r) \/ TakeCancellation(r) \/ ArmStop(r) \/ Send(r) \/ Resend(r)
             \/ ReadChunk(r)
             \/ EndOfStream(r) \/ Detach(r) \/ Interrupted(r) \/ QuarantineCall(r)
             \/ ObserveIdle(r) \/ SettleExpires(r) \/ CloseCall(r) \/ JoinWatcher(r)
      PROVE  FALSE
  BY <1>5
     DEF TakeGrant, TakeCancellation, ArmStop, Send, Resend, ReadChunk, EndOfStream, Detach,
         Interrupted, QuarantineCall, ObserveIdle, SettleExpires, CloseCall, JoinWatcher,
         arbiterVars
<1>6. granted \in SUBSET Requests /\ granted \ {active} \in SUBSET Requests
  BY DEF TypeOK
<1> QED BY <1>0, <1>1, <1>2, <1>3, <1>4, <1>5, <1>6 DEF Next, CallerStep

\* A quarantine is only cleared when its request has left the server.
THEOREM FenceOutlivesInferenceHolds == Spec => FenceOutlivesInference
<1>1. IInv /\ [Next]_vars =>
        [quarantine # "none" /\ quarantine' = "none" =>
           active # NoRequest /\ ~InFlight(active)]_vars
  BY LeaseEnds DEF IInv, LeaseInv
<1> QED BY <1>1, IInvHolds, PTL DEF Spec, FenceOutlivesInference

\* The lease goes to the class just served only if the other class waits for
\* nothing.
THEOREM ClassesAlternateHolds == Spec => ClassesAlternate
<1>1. IInv /\ [Next]_vars =>
        [active # NoRequest /\ active' \notin {NoRequest, active}
           /\ ClassOf(active') = ClassOf(active) =>
         queued \cap Members(Opposite(ClassOf(active))) = {}]_vars
  <2> SUFFICES ASSUME IInv, Next, active # NoRequest, active' \notin {NoRequest, active},
                      ClassOf(active') = ClassOf(active)
               PROVE  queued \cap Members(Opposite(ClassOf(active))) = {}
    OBVIOUS
  <2>1. PICK pending \in SUBSET Requests : FinishActiveAndPump(active, pending)
    BY LeaseEnds
  <2>2. active' \in PickQueue(queued, Opposite(ClassOf(active)))
    BY <2>1 DEF FinishActiveAndPump, PumpLocked, NextClassAfter, AcquireNext
  <2>3. active' \notin Members(Opposite(ClassOf(active)))
    BY ConstantsAssumption DEF ClassOf, Members, Opposite
  <2> QED BY <2>2, <2>3 DEF PickQueue
<1> QED BY <1>1, IInvHolds, PTL DEF Spec, ClassesAlternate

-----------------------------------------------------------------------------
(* Refinement.                                                             *)

\* The step of the abstract endpoint that a step changing srv[r] maps to.
LEMMA ServerChange ==
  ASSUME IInv, Next
  PROVE  \/ srv' = srv
         \/ \E r \in Requests : \E to \in {"sent", "again"} :
              /\ pc[r] \in {"ready", "armed"} \/ (pc[r] = "streaming" /\ srv[r] = "refused")
              /\ srv' = [srv EXCEPT ![r] = to]
         \/ \E r \in Requests : \E to \in {"refused", "held", "answered", "dropped"} :
              InFlight(r) /\ srv' = [srv EXCEPT ![r] = to]
<1>1. ASSUME NEW r \in Requests, Send(r) \/ Resend(r)
      PROVE  \E to \in {"sent", "again"} :
               /\ pc[r] \in {"ready", "armed"} \/ (pc[r] = "streaming" /\ srv[r] = "refused")
               /\ srv' = [srv EXCEPT ![r] = to]
  BY <1>1 DEF Send, Resend
<1>2. ASSUME NEW r \in Requests, ServerSteps(r)
      PROVE  \E to \in {"refused", "held", "answered", "dropped"} :
               InFlight(r) /\ srv' = [srv EXCEPT ![r] = to]
  BY <1>2 DEF ServerSteps, ServerTakesUp, ServerRefuses, ServerAnswers, ServerDrops,
              ServerStep, InFlight
<1>3. ASSUME NEW r \in Requests,
             \/ AcquireRefused(r) \/ AcquireQueued(r) \/ AcquireTimesOut(r) \/ CancelQueued(r)
             \/ TransportError(r) \/ WatcherSteps(r)
      PROVE  srv' = srv
  BY <1>3
     DEF AcquireRefused, AcquireQueued, AcquireTimesOut, CancelQueued, TransportError,
         WatcherSteps, WatcherSignalled, WatcherQuits, WatcherRequests, WatcherShutsDown,
         WatcherStep
<1>4. ASSUME NEW r \in Requests,
             \/ TakeGrant(r) \/ TakeCancellation(r) \/ ArmStop(r) \/ ReadChunk(r)
             \/ EndOfStream(r) \/ Detach(r) \/ Interrupted(r) \/ CompleteCall(r)
             \/ QuarantineCall(r) \/ ObserveIdle(r) \/ SettleExpires(r) \/ Reconcile(r)
             \/ CloseCall(r) \/ JoinWatcher(r)
      PROVE  srv' = srv
  BY <1>4
     DEF TakeGrant, TakeCancellation, ArmStop, ReadChunk, EndOfStream, Detach, Interrupted,
         CompleteCall, QuarantineCall, ObserveIdle, SettleExpires, Reconcile, CloseCall,
         JoinWatcher
<1>5. ASSUME NEW e \in Executions, CancelExecution(e) PROVE srv' = srv
  BY <1>5 DEF CancelExecution
<1> QED BY <1>1, <1>2, <1>3, <1>4, <1>5 DEF Next, CallerStep

\* The runtime implements the endpoint that serves one request at a time and
\* none twice.
THEOREM ImplementsSerialEndpoint == Spec => SerialSpec
<1> DEFINE computing == {r \in Requests : InFlight(r)}
           spent == {r \in Requests : srv[r] \notin {"none", "refused"}}
<1>1. Init => Serial!Init
  BY DEF Init, Serial!Init, InFlight
<1>2. IInv /\ [Next]_vars => [Serial!Next]_(Serial!vars)
  <2> SUFFICES ASSUME IInv, [Next]_vars PROVE [Serial!Next]_(Serial!vars)
    OBVIOUS
  <2>0. srv \in [Requests ->
                   {"none", "sent", "refused", "again", "held", "answered", "dropped"}]
    BY DEF IInv, TypeOK
  <2>1. CASE srv' = srv \/ UNCHANGED vars
    BY <2>1 DEF Serial!vars, vars, InFlight
  <2>2. ASSUME NEW r \in Requests, NEW to \in {"sent", "again"},
               pc[r] \in {"ready", "armed"} \/ (pc[r] = "streaming" /\ srv[r] = "refused"),
               srv' = [srv EXCEPT ![r] = to]
        PROVE  Serial!Dispatch(r)
    <3>1. computing = {} /\ srv[r] \in {"none", "refused"}
      BY <2>2 DEF IInv, ServerInv, LeaseInv, Holding, InFlight
    <3>2. computing' = {r} /\ spent' = spent \cup {r}
      BY <2>0, <2>2, <3>1 DEF InFlight
    <3> QED BY <3>1, <3>2 DEF Serial!Dispatch
  <2>3. ASSUME NEW r \in Requests, NEW to \in {"refused", "held", "answered", "dropped"},
               InFlight(r), srv' = [srv EXCEPT ![r] = to]
        PROVE  Serial!Leave(r) \/ Serial!Refuse(r) \/ UNCHANGED Serial!vars
    <3>1. computing = {r}
      BY <2>3 DEF IInv, ServerInv
    <3>2. spent' = IF to = "refused" THEN spent \ {r} ELSE spent
      BY <2>0, <2>3 DEF InFlight
    <3>3. computing' = IF to = "held" THEN {r} ELSE {}
      BY <2>0, <2>3, <3>1 DEF InFlight
    <3> QED BY <3>1, <3>2, <3>3 DEF Serial!Leave, Serial!Refuse, Serial!vars
  <2> QED BY <2>1, <2>2, <2>3, ServerChange DEF Serial!Next
<1> QED BY <1>1, <1>2, IInvHolds, PTL DEF Spec, SerialSpec, Serial!Spec

\* The lease is sound for every set of requests, executions and sessions and for
\* every bound of the queues (EndpointRuntime.acquire, cancel_execution).
THEOREM LeaseSoundHolds == Spec => []LeaseSound
BY NoIdleEndpointHolds, NoGhostLeaseHolds, NoLeaseConflictHolds,
   CutHitsOwnCallHolds, PTL DEF LeaseSound

\* The endpoint is never handed out wrongly, for any number of callers and
\* executions (cancel_execution, reconcile_quarantine, _next_class).
THEOREM DispatchSoundHolds == Spec => DispatchSound
BY FencedNeverDispatchedHolds, FenceOutlivesInferenceHolds, ClassesAlternateHolds,
   PTL DEF DispatchSound

============================================================================
