----------------------------- MODULE SessionFeed -----------------------------
(***************************************************************************)
(* The durable event stream and the Textual feed that follows it           *)
(* (session_event_service.py, textual_feed.py).                            *)
(*                                                                         *)
(* The writer thread commits events to the store and then offers each of   *)
(* them to the subscriptions it finds in the list.  A subscription is a    *)
(* bounded queue; when it overflows it only remembers that it has a gap.   *)
(* The feed replays the store up to the point where it subscribed, then    *)
(* drains its subscription, and subscribes and replays again after a gap.  *)
(*                                                                         *)
(* An event is its sequence number; the store holds 1 .. committed.        *)
(***************************************************************************)
EXTENDS Naturals, Sequences, Functions

CONSTANTS
  MaxCommitted,  \* events committed in a behaviour
  Capacity,      \* capacity of a subscription
  ReplayPage,    \* events a replay query returns at most
  DrainLimit,    \* events one drain takes at most
  MaxEvents      \* events the feed keeps

ASSUME FeedAssumption ==
  /\ MaxCommitted \in Nat
  /\ {Capacity, ReplayPage, DrainLimit, MaxEvents} \subseteq Nat \ {0}

VARIABLES
  committed,  \* last sequence number in the store
  \* the writer thread
  writer,     \* "idle", "list" before and "offer" after it copied the list
  outbox,     \* committed events it has not published
  listed,     \* how many subscriptions its copy holds
  offered,    \* how many of them got the first event of the outbox
  \* DurableSessionService._subscribers
  subs,       \* [queue, gap, after]; the feed reads the last one
  \* the feed
  feed,       \* where it is
  cursor,     \* _cursor, which is also how many events it keeps
  through,    \* replay_through of its subscription
  batch,      \* events taken from the subscription
  failure     \* why the feed failed

store == <<committed>>
publication == <<writer, outbox, listed, offered>>
reader == <<feed, cursor, through, batch, failure>>
vars == <<store, publication, subs, reader>>

Init ==
  /\ committed = 0
  /\ writer = "idle"
  /\ outbox = <<>>
  /\ listed = 0
  /\ offered = 0
  /\ subs = <<>>
  /\ feed = "new"
  /\ cursor = 0
  /\ through = 0
  /\ batch = <<>>
  /\ failure = "none"

Least(a, b) == IF a <= b THEN a ELSE b

\* The next n sequence numbers after a.
Following(a, n) == [i \in 1 .. n |-> a + i]

-----------------------------------------------------------------------------
(* The writer thread.                                                      *)

\* An append or admission commits one event, a finalization two.
Commit(n) ==
  /\ writer = "idle"
  /\ committed + n <= MaxCommitted
  /\ committed' = committed + n
  /\ outbox' = Following(committed, n)
  /\ writer' = "list"
  /\ UNCHANGED <<listed, offered, subs, reader>>

\* The first event of the outbox is published.
Published ==
  /\ outbox' = Tail(outbox)
  /\ writer' = IF Len(outbox) = 1 THEN "idle" ELSE "list"

\* _publish: copy the list of subscriptions.
CopyList ==
  /\ writer = "list"
  /\ listed' = Len(subs)
  /\ offered' = 0
  /\ IF subs = <<>> THEN Published ELSE writer' = "offer" /\ UNCHANGED outbox
  /\ UNCHANGED <<store, subs, reader>>

\* Subscription._offer.
Offered(s, ev) ==
  IF ev <= s.after \/ s.gap THEN s
  ELSE IF Len(s.queue) < Capacity THEN [s EXCEPT !.queue = Append(@, ev)]
  ELSE [s EXCEPT !.gap = TRUE]

\* _publish: offer the event to the next subscription of the copy.
Offer ==
  /\ writer = "offer"
  /\ subs' = [subs EXCEPT ![offered + 1] = Offered(@, Head(outbox))]
  /\ offered' = offered + 1
  /\ IF offered + 1 = listed THEN Published ELSE UNCHANGED <<outbox, writer>>
  /\ UNCHANGED <<store, listed, reader>>

-----------------------------------------------------------------------------
(* The feed.                                                               *)

Live == subs[Len(subs)]

\* Mutant: the subscription takes every event that is published from now on.
SubscribeToAll ==
  /\ feed \in {"new", "recover"}
  /\ subs' = Append(subs, [queue |-> <<>>, gap |-> FALSE, after |-> 0])
  /\ through' = committed
  /\ feed' = IF feed = "new" THEN "replay" ELSE "catch_up"
  /\ UNCHANGED <<store, publication, cursor, batch, failure>>

\* subscribe_from, called by start and _recover_gap.
SubscribeFrom ==
  /\ feed \in {"new", "recover"}
  /\ subs' = Append(subs, [queue |-> <<>>, gap |-> FALSE, after |-> committed])
  /\ through' = committed
  /\ feed' = IF cursor > committed THEN "escaped"
             ELSE IF feed = "new" THEN "replay" ELSE "catch_up"
  /\ UNCHANGED <<store, publication, cursor, batch, failure>>

\* _accept: the events up to the first that is not the next one or does not fit.
Accepted(events) ==
  LET Fits(n) == /\ events[n] = cursor + n
                 /\ cursor + n <= MaxEvents
  IN  CHOOSE n \in 0 .. Len(events) :
        /\ \A i \in 1 .. n : Fits(i)
        /\ n < Len(events) => ~Fits(n + 1)

Accept(events, next) ==
  LET n == Accepted(events)
  IN  /\ cursor' = cursor + n
      /\ feed' = IF n = Len(events) THEN next ELSE "failed"
      /\ failure' = IF n = Len(events) THEN failure
                    ELSE IF events[n + 1] # cursor + n + 1 THEN "sequence" ELSE "history"

Fail(why) == feed' = "failed" /\ failure' = why

\* replay_subscription: a page of the store, cut at the handoff.
Page == Following(cursor, Least(ReplayPage, Least(committed, through) - cursor))

\* _catch_up, one page.
Replay ==
  /\ feed \in {"replay", "catch_up"}
  /\ cursor < through
  /\ IF Page = <<>> THEN Fail("boundary") /\ UNCHANGED cursor
     ELSE Accept(Page, feed)
  /\ UNCHANGED <<store, publication, subs, through, batch>>

\* _catch_up, its end; start then returns, a recovery drains again.
CaughtUp ==
  /\ feed \in {"replay", "catch_up"}
  /\ cursor >= through
  /\ IF cursor = through
     THEN /\ feed' = IF feed = "replay" THEN "idle" ELSE "recovered"
          /\ UNCHANGED failure
     ELSE Fail("boundary")
  /\ UNCHANGED <<store, publication, subs, cursor, through, batch>>

\* Mutant: the gap is not looked at.
PollBlindly ==
  /\ feed = "idle"
  /\ feed' = "drain"
  /\ UNCHANGED <<store, publication, subs, cursor, through, batch, failure>>

\* poll: the first drain looks at the gap.
Poll ==
  /\ feed = "idle"
  /\ feed' = IF Live.gap THEN "recover" ELSE "drain"
  /\ UNCHANGED <<store, publication, subs, cursor, through, batch, failure>>

\* poll: the drain after a recovery; its SubscriptionGap is not caught, neither
\* here nor by the callers of poll.
PollAgain ==
  /\ feed = "recovered"
  /\ feed' = IF Live.gap THEN "escaped" ELSE "drain"
  /\ UNCHANGED <<store, publication, subs, cursor, through, batch, failure>>

\* drain, one get_nowait; the writer may put and overflow meanwhile.
DrainOne ==
  /\ feed = "drain"
  /\ Len(batch) < DrainLimit
  /\ Live.queue # <<>>
  /\ batch' = Append(batch, Head(Live.queue))
  /\ subs' = [subs EXCEPT ![Len(subs)].queue = Tail(@)]
  /\ UNCHANGED <<store, publication, feed, cursor, through, failure>>

\* poll: the drained events are accepted.
AcceptBatch ==
  /\ feed = "drain"
  /\ Len(batch) = DrainLimit \/ Live.queue = <<>>
  /\ Accept(batch, "idle")
  /\ batch' = <<>>
  /\ UNCHANGED <<store, publication, subs, through>>

-----------------------------------------------------------------------------
(* The specification.                                                      *)

WriterStep == CopyList \/ Offer

FeedStep ==
  \/ SubscribeFrom \/ Replay \/ CaughtUp \/ Poll \/ PollAgain \/ DrainOne \/ AcceptBatch

Next == (\E n \in 1 .. 2 : Commit(n)) \/ WriterStep \/ FeedStep

Spec == Init /\ [][Next]_vars

\* The writer publishes what it committed; the feed is polled by a timer.
Fairness == WF_vars(WriterStep) /\ WF_vars(FeedStep)

FairSpec == Spec /\ Fairness

-----------------------------------------------------------------------------
(* Properties.                                                             *)

Numbers == 1 .. MaxCommitted

\* A subscription holds at most its capacity.
Subscription ==
  [queue : {q \in Seq(Numbers) : Len(q) <= Capacity},
   gap : BOOLEAN,
   after : 0 .. MaxCommitted]

\* Every variable has the values the code can give it; a subscription holds at
\* most its capacity, a batch at most the drain limit, and the feed at most
\* max_events events.
TypeOK ==
  /\ committed \in 0 .. MaxCommitted
  /\ writer \in {"idle", "list", "offer"}
  /\ outbox \in Seq(Numbers)
  /\ listed \in 0 .. Len(subs)
  /\ offered \in 0 .. listed
  /\ subs \in Seq(Subscription)
  /\ feed \in {"new", "replay", "catch_up", "idle", "recovered", "recover", "drain",
               "failed", "escaped"}
  /\ cursor \in 0 .. MaxEvents
  /\ through \in 0 .. MaxCommitted
  /\ batch \in Seq(Numbers)
  /\ Len(batch) <= DrainLimit
  /\ failure \in {"none", "sequence", "history", "boundary"}

\* Across the handoff from replay to live events, and across every recovery
\* from an overflow, the feed meets no event twice and misses none: the checks
\* of _accept and _catch_up for that never fail.
FeedIsContiguous == failure \notin {"sequence", "boundary"}

\* Every committed event that the feed has not shown yet is in the batch or the
\* queue it reads from, or still to be published, unless the subscription knows
\* of its gap.  textual_feed.py:5-6, "Live overflow is recovered by re-subscribing".
NothingLost ==
  feed \in {"idle", "recovered", "drain"} /\ ~Live.gap =>
    (cursor + 1) .. committed \subseteq Range(batch) \cup Range(Live.queue) \cup Range(outbox)

\* The feed shows every committed event once and in order, through the handoff
\* from replay to live events and every recovery (_accept, _catch_up, poll).
FeedIsWhole == FeedIsContiguous /\ NothingLost

\* Every committed event is shown, unless the feed reached its bound or the
\* second drain of a poll met a gap.
FeedCatchesUp ==
  \A n \in Numbers :
    committed >= n ~> (cursor >= n \/ feed \in {"failed", "escaped"})

\* textual_feed.py:45-46: "A subscription overflow causes an explicit replay
\* from the last accepted sequence before any newer state is shown."  So no poll
\* ends with the overflow itself.
OverflowIsRecovered == feed # "escaped"

=============================================================================
