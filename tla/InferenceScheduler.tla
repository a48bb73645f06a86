------------------------- MODULE InferenceScheduler -------------------------
(***************************************************************************)
(* The native endpoint (native_endpoint/src/inference_scheduler.cpp and    *)
(* the chat handler, load and stop of endpoint_server.cpp).                *)
(*                                                                         *)
(* One worker thread owns the backend and takes requests from a bounded    *)
(* queue.  Each request has an HTTP handler thread, which reads what the   *)
(* worker pushes into the request's channel and cancels the request when   *)
(* its client goes away.  stop() waits for the load thread, shuts the      *)
(* scheduler down, waits for the handlers and destroys the scheduler.      *)
(*                                                                         *)
(* Text is abstracted to pieces; a piece the stop filter or the parser     *)
(* holds back is released later, unless a stop string ends the answer.     *)
(***************************************************************************)
EXTENDS Naturals, Sequences, FiniteSets, SequencesExt

CONSTANTS
  Requests,     \* requests that arrive
  Streams,      \* those that asked for a streamed response
  MaxQueued,    \* SchedulerOptions.max_queued_requests
  HttpThreads,  \* handler threads of the server
  MaxPieces,    \* pieces one generation decodes at most (max_new_tokens)
  None

ASSUME SchedulerAssumption ==
  /\ Streams \subseteq Requests
  /\ MaxQueued \in Nat
  /\ HttpThreads \in Nat \ {0}
  /\ MaxPieces \in Nat
  /\ None \notin Requests

VARIABLES
  \* EndpointServer
  status,    \* status_: "loading", "ready" or "failed"
  stopper,   \* where the thread in stop() is
  \* InferenceScheduler, under mutex_
  queue,     \* queue_
  running,   \* running_id_ and running_channel_
  stopping,  \* stopping_
  counted,   \* how often the counters counted the request
  \* the worker thread
  worker,    \* where it is
  job,       \* the job it executes
  pieces,    \* pieces the backend decoded for it
  held,      \* decoded text not released yet
  matched,   \* a stop string matched
  outcome,   \* the terminal event to push
  \* RequestChannel, one per request
  channel,   \* events_, while a handler reads them
  cancel,    \* the cancel flag
  \* the thread in shutdown()
  abandoned, \* queued requests still to be failed
  \* HTTP handlers and their clients
  handler,   \* where the handler of the request is
  gone,      \* requests whose client left and whose handler is at work
  answer,    \* how the request was answered
  \* history
  short,     \* requests whose generation the cancel flag cut short
  ended,     \* terminal events pushed for the request
  dropped    \* requests that shutdown() failed

server  == <<status, stopper>>
sched   == <<queue, running, stopping, counted>>
work    == <<worker, job, pieces, held, matched, outcome>>
chan    == <<channel, cancel>>
client  == <<handler, gone, answer>>
history == <<short, ended, dropped>>
vars == <<server, sched, work, chan, abandoned, client, history>>

Terminals == {"finished", "cancelled", "failed"}

\* Where a handler has nothing (more) to do.
Resting == {"new", "done"}

Working == {"check", "count", "generate", "tail", "decide"}

\* A handler that reads its channel.
Reading(r) == handler[r] \in {"admission", "body"}

\* RequestChannel::push.  What is pushed when nobody reads any more is never seen.
Push(r, ev) ==
  /\ channel' = [channel EXCEPT ![r] = IF Reading(r) THEN Append(@, ev) ELSE <<>>]
  /\ ended' = [ended EXCEPT ![r] = IF ev \in Terminals THEN @ + 1 ELSE @]

NoPush == UNCHANGED <<channel, ended>>

Init ==
  /\ status = "loading"
  /\ stopper = "up"
  /\ queue = <<>>
  /\ running = None
  /\ stopping = FALSE
  /\ counted = [r \in Requests |-> 0]
  /\ worker = "none"
  /\ job = None
  /\ pieces = 0
  /\ held = FALSE
  /\ matched = FALSE
  /\ outcome = "none"
  /\ channel = [r \in Requests |-> <<>>]
  /\ cancel = [r \in Requests |-> FALSE]
  /\ abandoned = <<>>
  /\ handler = [r \in Requests |-> "new"]
  /\ gone = {}
  /\ answer = [r \in Requests |-> "none"]
  /\ short = {}
  /\ ended = [r \in Requests |-> 0]
  /\ dropped = {}

-----------------------------------------------------------------------------
(* Load and stop of the server.                                            *)

\* load_backend: the scheduler is kept, with its worker thread, unless stop()
\* was called meanwhile or the backend failed.
Load ==
  /\ status = "loading"
  /\ worker = "none"
  /\ \/ /\ stopper = "up"
        /\ status' = "ready"
        /\ worker' = "wait"
     \/ /\ stopper # "up"
        /\ worker' = "never"
        /\ UNCHANGED status
     \/ /\ status' = "failed"
        /\ worker' = "never"
  /\ UNCHANGED <<stopper, sched, job, pieces, held, matched, outcome, chan,
                 abandoned, client, history>>

Stop ==
  /\ stopper = "up"
  /\ stopper' = "load"
  /\ UNCHANGED <<status, sched, work, chan, abandoned, client, history>>

\* load_thread_.join(); without a scheduler only the HTTP server is stopped.
JoinLoad ==
  /\ stopper = "load"
  /\ worker # "none"
  /\ stopper' = IF worker = "never" THEN "http" ELSE "shutdown"
  /\ UNCHANGED <<status, sched, work, chan, abandoned, client, history>>

\* shutdown(), the locked section.
Shutdown ==
  /\ stopper = "shutdown"
  /\ stopping' = TRUE
  /\ abandoned' = queue
  /\ queue' = <<>>
  /\ cancel' = [r \in Requests |-> cancel[r] \/ r = running]
  /\ stopper' = "abandon"
  /\ UNCHANGED <<status, running, counted, work, channel, client, history>>

\* shutdown(), one abandoned request.
Abandon ==
  /\ stopper = "abandon"
  /\ abandoned # <<>>
  /\ abandoned' = Tail(abandoned)
  /\ cancel' = [cancel EXCEPT ![Head(abandoned)] = TRUE]
  /\ Push(Head(abandoned), "failed")
  /\ dropped' = dropped \cup {Head(abandoned)}
  /\ UNCHANGED <<server, sched, work, client, short>>

\* Mutant: the worker is not joined.
JoinNothing ==
  /\ stopper = "abandon"
  /\ abandoned = <<>>
  /\ stopper' = "http"
  /\ UNCHANGED <<status, sched, work, chan, abandoned, client, history>>

\* worker_.join().
JoinWorker ==
  /\ stopper = "abandon"
  /\ abandoned = <<>>
  /\ worker = "exited"
  /\ stopper' = "http"
  /\ UNCHANGED <<status, sched, work, chan, abandoned, client, history>>

\* http_->stop() and the join of the listener, which waits for the handlers;
\* then the scheduler and the backend are destroyed.
JoinHttp ==
  /\ stopper = "http"
  /\ \A r \in Requests : handler[r] \in Resting
  /\ stopper' = "down"
  /\ UNCHANGED <<status, sched, work, chan, abandoned, client, history>>

-----------------------------------------------------------------------------
(* The worker thread.                                                      *)

\* Mutant: the worker waits for a request only.
TakeMissesStop ==
  /\ worker = "wait"
  /\ queue # <<>>
  /\ job' = Head(queue)
  /\ running' = Head(queue)
  /\ queue' = Tail(queue)
  /\ worker' = "check"
  /\ UNCHANGED <<server, stopping, counted, pieces, held, matched, outcome, chan, abandoned,
                 client, history>>

\* run(): wait for a request, or return when stopping.
Take ==
  /\ worker = "wait"
  /\ \/ /\ stopping
        /\ worker' = "exited"
        /\ UNCHANGED <<queue, running, job>>
     \/ /\ ~stopping
        /\ queue # <<>>
        /\ job' = Head(queue)
        /\ running' = Head(queue)
        /\ queue' = Tail(queue)
        /\ worker' = "check"
  /\ UNCHANGED <<server, stopping, counted, pieces, held, matched, outcome, chan, abandoned,
                 client, history>>

\* Count the request and go on to push its terminal event.
Conclude(ev) ==
  /\ counted' = [counted EXCEPT ![job] = @ + 1]
  /\ outcome' = ev
  /\ worker' = "finish"

\* execute(): a request cancelled while it was queued is not started.
Check ==
  /\ worker = "check"
  /\ IF cancel[job]
     THEN Conclude("cancelled")
     ELSE worker' = "count" /\ UNCHANGED <<counted, outcome>>
  /\ UNCHANGED <<server, queue, running, stopping, job, pieces, held, matched, chan,
                 abandoned, client, history>>

\* The token count fails, exceeds the context, or admits the request.
Count ==
  /\ worker = "count"
  /\ \/ Conclude("failed") /\ NoPush
     \/ /\ Push(job, "admitted")
        /\ worker' = "generate"
        /\ UNCHANGED <<counted, outcome>>
  /\ UNCHANGED <<server, queue, running, stopping, job, pieces, held, matched,
                 cancel, abandoned, client, short, dropped>>

\* The sink: decoded text is pushed or held back; a stop string or the cancel
\* flag tells the backend to stop.
Piece ==
  /\ worker = "generate"
  /\ pieces < MaxPieces
  /\ pieces' = pieces + 1
  /\ \/ Push(job, "part") /\ held' = FALSE
     \/ NoPush /\ held' = TRUE
  /\ \E m \in BOOLEAN :
       /\ matched' = m
       /\ worker' = IF m \/ cancel[job] THEN "tail" ELSE "generate"
       /\ short' = IF ~m /\ cancel[job] THEN short \cup {job} ELSE short
  /\ UNCHANGED <<server, sched, job, outcome, cancel, abandoned, client, dropped>>

\* generate() returns at the end of the sequence or at max_new_tokens, or
\* because it saw the cancel flag.
Returns ==
  /\ worker = "generate"
  /\ \/ UNCHANGED short
     \/ cancel[job] /\ short' = short \cup {job}
  /\ worker' = "tail"
  /\ UNCHANGED <<server, sched, job, pieces, held, matched, outcome, chan,
                 abandoned, client, ended, dropped>>

\* generate() throws.
Throws ==
  /\ worker = "generate"
  /\ Conclude("failed")
  /\ UNCHANGED <<server, queue, running, stopping, job, pieces, held, matched, chan,
                 abandoned, client, history>>

\* Text still held back is released; what the filter held when a stop string
\* matched is swallowed, what the parser held is not.
ReleaseTail ==
  /\ worker = "tail"
  /\ \/ held /\ Push(job, "part")
     \/ (~held \/ matched) /\ NoPush
  /\ held' = FALSE
  /\ worker' = "decide"
  /\ UNCHANGED <<server, sched, job, pieces, matched, outcome, cancel, abandoned,
                 client, short, dropped>>

\* Mutant: the cancel flag is not looked at after generation.
DecideUnchecked ==
  /\ worker = "decide"
  /\ Conclude("finished")
  /\ UNCHANGED <<server, queue, running, stopping, job, pieces, held, matched, chan,
                 abandoned, client, history>>

\* The finish reason, the counters and the telemetry.
Decide ==
  /\ worker = "decide"
  /\ Conclude(IF cancel[job] THEN "cancelled" ELSE "finished")
  /\ UNCHANGED <<server, queue, running, stopping, job, pieces, held, matched, chan,
                 abandoned, client, history>>

Finish ==
  /\ worker = "finish"
  /\ Push(job, outcome)
  /\ worker' = "clear"
  /\ UNCHANGED <<server, sched, job, pieces, held, matched, outcome, cancel,
                 abandoned, client, short, dropped>>

\* run(): the request leaves the active set.
Clear ==
  /\ worker = "clear"
  /\ running' = None
  /\ job' = None
  /\ pieces' = 0
  /\ held' = FALSE
  /\ matched' = FALSE
  /\ outcome' = "none"
  /\ worker' = "wait"
  /\ UNCHANGED <<server, queue, stopping, counted, chan, abandoned, client, history>>

-----------------------------------------------------------------------------
(* The chat handler.                                                       *)

To(r, p) == handler' = [handler EXCEPT ![r] = p]
Reply(r, a) == answer' = [answer EXCEPT ![r] = a]

\* A well-formed request reaches a handler thread and is submitted, or refused
\* because the backend is not ready or the queue is full.
Arrive(r) ==
  /\ handler[r] = "new"
  /\ stopper \notin {"http", "down"}
  /\ Cardinality({q \in Requests : handler[q] \notin Resting}) < HttpThreads
  /\ \/ /\ status # "ready"
        /\ To(r, "done") /\ Reply(r, "not_ready")
        /\ UNCHANGED queue
     \/ /\ status = "ready"
        /\ stopping \/ Len(queue) >= MaxQueued
        /\ To(r, "done") /\ Reply(r, "busy")
        /\ UNCHANGED queue
     \/ /\ status = "ready"
        /\ ~stopping /\ Len(queue) < MaxQueued
        /\ queue' = Append(queue, r)
        /\ To(r, "admission")
        /\ UNCHANGED answer
  /\ UNCHANGED <<server, running, stopping, counted, work, chan, abandoned, gone,
                 history>>

\* External: the client closes its connection.
ClientLeaves(r) ==
  /\ Reading(r)
  /\ r \notin gone
  /\ gone' = gone \cup {r}
  /\ UNCHANGED <<server, sched, work, chan, abandoned, handler, answer, history>>

\* The handler is done with its channel and will cancel the request.
StartCancel(r) ==
  /\ To(r, "cancel")
  /\ Reply(r, "abandoned")
  /\ channel' = [channel EXCEPT ![r] = <<>>]
  /\ gone' = gone \ {r}

\* A pop that times out looks at the connection and cancels when it is closed.
PopTimesOut(r) ==
  /\ Reading(r)
  /\ channel[r] = <<>>
  /\ r \in gone
  /\ StartCancel(r)
  /\ UNCHANGED <<server, sched, work, cancel, abandoned, history>>

\* The handler takes the first n events.
Pop(r, n) == channel' = [channel EXCEPT ![r] = SubSeq(@, n + 1, Len(@))]

\* The answer for a terminal event that ends the request.
Ends(r, ev) ==
  /\ To(r, "done")
  /\ channel' = [channel EXCEPT ![r] = <<>>]
  /\ gone' = gone \ {r}
  /\ Reply(r, CASE ev = "failed" -> "error"
                [] ev = "cancelled" -> "cancelled"
                [] ev = "finished" -> "ok")

\* Waiting for admission: a finished event here is answered as a cancellation.
PopAdmission(r) ==
  /\ handler[r] = "admission"
  /\ channel[r] # <<>>
  /\ LET ev == Head(channel[r])
     IN  IF ev \in Terminals
         THEN Ends(r, IF ev = "finished" THEN "cancelled" ELSE ev)
         ELSE /\ Pop(r, 1)
              /\ To(r, IF ev = "admitted" THEN "body" ELSE "admission")
              /\ UNCHANGED <<answer, gone>>
  /\ UNCHANGED <<server, sched, work, cancel, abandoned, history>>

\* How many parts a pop merges: those before the first other event.
Merged(s) ==
  LET ends == {i \in 1 .. Len(s) : s[i] # "part"}
  IN  IF ends = {} THEN Len(s)
      ELSE (CHOOSE i \in ends : \A j \in ends : i <= j) - 1

PopBody(r) ==
  /\ handler[r] = "body"
  /\ channel[r] # <<>>
  /\ LET ev == Head(channel[r])
     IN  IF ev \in Terminals THEN Ends(r, ev)
         ELSE Pop(r, Merged(channel[r])) /\ UNCHANGED <<handler, answer, gone>>
  /\ UNCHANGED <<server, sched, work, cancel, abandoned, history>>

\* A write to the stream of a client that left (the role chunk, a part or the end
\* of the answer) fails; until then writes may be buffered.
WriteFails(r) ==
  /\ handler[r] = "body"
  /\ r \in Streams \cap gone
  /\ channel[r] # <<>>
  /\ StartCancel(r)
  /\ UNCHANGED <<server, sched, work, cancel, abandoned, history>>

\* cancel(): the flag, before the lock.
CancelFlag(r) ==
  /\ handler[r] = "cancel"
  /\ cancel' = [cancel EXCEPT ![r] = TRUE]
  /\ To(r, "erase")
  /\ UNCHANGED <<server, sched, work, channel, abandoned, gone, answer, history>>

\* cancel(): under the lock, a request still queued is removed.
CancelErase(r) ==
  /\ handler[r] = "erase"
  /\ queue' = RemoveFirst(queue, r)
  /\ counted' = [counted EXCEPT ![r] = IF r \in Range(queue) THEN @ + 1 ELSE @]
  /\ To(r, IF r \in Range(queue) THEN "tell" ELSE "done")
  /\ UNCHANGED <<server, running, stopping, work, chan, abandoned, gone,
                 answer, history>>

\* cancel(): the removed request's terminal event, after the lock.
CancelTell(r) ==
  /\ handler[r] = "tell"
  /\ Push(r, "cancelled")
  /\ To(r, "done")
  /\ UNCHANGED <<server, sched, work, cancel, abandoned, gone, answer, short,
                 dropped>>

-----------------------------------------------------------------------------
(* The specification.                                                      *)

StopStep == JoinLoad \/ Shutdown \/ Abandon \/ JoinWorker \/ JoinHttp

WorkerStep ==
  \/ Take \/ Check \/ Count \/ Piece \/ Returns \/ Throws \/ ReleaseTail
  \/ Decide \/ Finish \/ Clear

HandlerStep(r) ==
  \/ PopTimesOut(r) \/ PopAdmission(r) \/ PopBody(r) \/ WriteFails(r)
  \/ CancelFlag(r) \/ CancelErase(r) \/ CancelTell(r)

Next ==
  \/ Load \/ Stop \/ StopStep \/ WorkerStep
  \/ \E r \in Requests : Arrive(r) \/ ClientLeaves(r) \/ HandlerStep(r)

Spec == Init /\ [][Next]_vars

\* Threads run; a generation is bounded by max_new_tokens and loading ends.
Fairness ==
  /\ WF_vars(Load)
  /\ WF_vars(StopStep)
  /\ WF_vars(WorkerStep)
  /\ \A r \in Requests : WF_vars(HandlerStep(r))

FairSpec == Spec /\ Fairness

-----------------------------------------------------------------------------
(* Properties.                                                             *)

\* Every variable has the values the code can give it, the queue stays within
\* its capacity and holds no request twice.
TypeOK ==
  /\ status \in {"loading", "ready", "failed"}
  /\ stopper \in {"up", "load", "shutdown", "abandon", "http", "down"}
  /\ queue \in Seq(Requests)
  /\ Len(queue) <= MaxQueued
  /\ running \in Requests \cup {None}
  /\ stopping \in BOOLEAN
  /\ counted \in [Requests -> Nat]
  /\ worker \in {"none", "never", "wait", "finish", "clear", "exited"} \cup Working
  /\ job \in Requests \cup {None}
  /\ pieces \in 0 .. MaxPieces
  /\ held \in BOOLEAN
  /\ matched \in BOOLEAN
  /\ outcome \in Terminals \cup {"none"}
  /\ channel \in [Requests -> Seq(Terminals \cup {"admitted", "part"})]
  /\ cancel \in [Requests -> BOOLEAN]
  /\ abandoned \in Seq(Requests)
  /\ handler \in [Requests -> {"new", "admission", "body", "cancel", "erase", "tell",
                               "done"}]
  /\ gone \subseteq Requests
  /\ answer \in [Requests -> {"none", "not_ready", "busy", "error", "cancelled", "ok",
                              "abandoned"}]
  /\ short \subseteq Requests
  /\ ended \in [Requests -> Nat]
  /\ dropped \subseteq Requests

\* A request is concluded at most once, by the worker, by its cancellation or
\* by shutdown, whichever of them gets hold of it: it gets one terminal event
\* and the counters count it once, or not at all when shutdown dropped it.
ConcludedOnce ==
  \A r \in Requests :
    /\ ended[r] <= 1
    /\ ended[r] = 1 => counted[r] = IF r \in dropped THEN 0 ELSE 1

\* inference_scheduler.hpp:3-9: a request is in the active set for as long as
\* the backend works on it, whoever cancels it and when.
ActiveWhileRunning == worker \in Working => running = job

\* The client of a request whose generation was cut short is never
\* told that the answer is complete (endpoint_server.cpp:503-504, "the client
\* must see an incomplete stream, not a short answer").
CompleteAnswer ==
  \A r \in Requests : answer[r] = "ok" => r \notin short

\* Each request gets one ending, and only a whole generation is answered as one
\* (InferenceScheduler::finish, the chat handler's terminal event).
OneTrueEnding == ConcludedOnce /\ CompleteAnswer

\* When stop() destroys the scheduler and the backend no thread uses them.
NothingUsesTheDestroyed ==
  stopper = "down" =>
    /\ worker \in {"never", "exited"}
    /\ \A r \in Requests : handler[r] \in Resting

\* Every request that is submitted is answered or abandoned by its client, and
\* leaves the active set, so that its place is free for the next one.
RequestsEnd ==
  \A r \in Requests :
    handler[r] = "admission"
      ~> (handler[r] = "done" /\ r \notin Range(queue) /\ running # r)

\* stop() returns.
StopEnds == stopper = "load" ~> stopper = "down"

\* Clients, the worker and stop() never wait for one another forever: requests
\* leave the endpoint and stop() returns.
EveryoneEnds == RequestsEnd /\ StopEnds

=============================================================================
