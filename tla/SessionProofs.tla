--------------------------- MODULE SessionProofs ----------------------------
(***************************************************************************)
(* What SessionFeed, TurnDispatch and HubView promise for streams, queues, *)
(* pages, conversations, tasks and bounds of any size.                     *)
(*                                                                         *)
(* First the feed.  The events a subscription still owes the feed form one *)
(* run: first the batch, then the queue, then what is due to be offered.   *)
(* LiveInv says where each part begins; a gap only cuts the run short.     *)
(*                                                                         *)
(* Then the turn that writes that stream.  TInv follows an event from the  *)
(* turn of the user it refers to, through the writer's queue, to what the  *)
(* two readers make of the committed stream.                               *)
(*                                                                         *)
(* Last the tasks the stream tells of, and their readers.  HubInv says     *)
(* what the events of every task add up to: its card, its last event, the  *)
(* step it failed in, its one verdict, and the result retained with it.    *)
(***************************************************************************)
EXTENDS SessionFeed, TurnDispatch, HubView, SequenceTheorems, FiniteSetTheorems,
        WellFoundedInduction, TLAPS

\* The numbers of s follow a one by one.
Run(s, a) == \A i \in 1 .. Len(s) : s[i] = a + i

\* The outbox ends at the last committed event.
OutboxInv ==
  /\ writer = "idle" <=> outbox = <<>>
  /\ Len(outbox) <= committed
  /\ Run(outbox, committed - Len(outbox))
  /\ writer = "offer" => offered < listed

\* The feed still uses its subscription.
Reads == feed \notin {"new", "failed", "escaped"}

Replaying == feed \in {"replay", "catch_up"}

\* The last event the subscription was offered or will never be offered: the
\* writer goes on with the one after it.
LastOffered ==
  IF writer = "offer" /\ (Len(subs) <= offered \/ listed < Len(subs))
  THEN committed - Len(outbox) + 1
  ELSE committed - Len(outbox)

\* What the queue follows.
Base == IF Replaying THEN through ELSE cursor + Len(batch)

LiveInv ==
  /\ feed = "new" <=> subs = <<>>
  /\ feed = "new" => cursor = 0
  /\ feed # "drain" => batch = <<>>
  /\ cursor <= committed
  /\ Run(batch, cursor)
  /\ Replaying => cursor <= through
  /\ Reads =>
       /\ Live.after = through
       /\ through <= committed
       /\ through <= Base
       /\ Run(Live.queue, Base)
       /\ Base + Len(Live.queue) <= committed
       /\ ~Live.gap => Base + Len(Live.queue) =
            IF through <= LastOffered THEN LastOffered ELSE through

IInv == TypeOK /\ OutboxInv /\ LiveInv /\ FeedIsContiguous

\* Every bound is a positive natural number.
LEMMA SizesAreNat ==
  /\ MaxCommitted \in Nat
  /\ Capacity \in Nat \ {0}
  /\ ReplayPage \in Nat \ {0}
  /\ DrainLimit \in Nat \ {0}
  /\ MaxEvents \in Nat \ {0}
BY FeedAssumption

-----------------------------------------------------------------------------
(* Runs.                                                                   *)

\* Following(a, n) is a sequence of n numbers, and a run.
LEMMA FollowingRun ==
  ASSUME NEW a \in Nat, NEW n \in Nat, a + n <= MaxCommitted
  PROVE  /\ Following(a, n) \in Seq(Numbers)
         /\ Len(Following(a, n)) = n
         /\ Run(Following(a, n), a)
<1>1. \A i \in 1 .. n : a + i \in Numbers
  BY FeedAssumption DEF Numbers
<1>2. Following(a, n) \in Seq(Numbers)
  BY <1>1, IsASeq DEF Following
<1>3. Len(Following(a, n)) = n
  BY <1>2, LenProperties DEF Following
<1> QED
  BY <1>2, <1>3 DEF Run, Following

\* A run is continued by the next number.
LEMMA AppendRun ==
  ASSUME NEW s \in Seq(Numbers), NEW a \in Nat, Run(s, a),
         NEW e \in Numbers, e = a + Len(s) + 1
  PROVE  /\ Append(s, e) \in Seq(Numbers)
         /\ Len(Append(s, e)) = Len(s) + 1
         /\ Run(Append(s, e), a)
BY FeedAssumption DEF Run, Numbers

\* The rest of a run is a run.
LEMMA TailRun ==
  ASSUME NEW s \in Seq(Numbers), s # <<>>, NEW a \in Nat, Run(s, a)
  PROVE  /\ Head(s) = a + 1
         /\ Head(s) \in Numbers
         /\ Tail(s) \in Seq(Numbers)
         /\ Len(Tail(s)) = Len(s) - 1
         /\ Run(Tail(s), a + 1)
BY FeedAssumption DEF Run, Numbers

\* The empty sequence is a run.
LEMMA EmptyRun ==
  ASSUME NEW a
  PROVE  <<>> \in Seq(Numbers) /\ Len(<<>>) = 0 /\ Run(<<>>, a)
BY DEF Run

\* Of a run that continues the cursor _accept takes all that fits.
LEMMA AcceptedRun ==
  ASSUME TypeOK, NEW s \in Seq(Numbers), Run(s, cursor)
  PROVE  Accepted(s) = Least(Len(s), MaxEvents - cursor)
<1> DEFINE m == Least(Len(s), MaxEvents - cursor)
           Fits(n) == s[n] = cursor + n /\ cursor + n <= MaxEvents
           Right(n) == (\A i \in 1 .. n : Fits(i)) /\ (n < Len(s) => ~Fits(n + 1))
<1>0. cursor \in Nat /\ MaxEvents \in Nat /\ cursor <= MaxEvents /\ Len(s) \in Nat
  <2>1. Len(s) \in Nat  BY LenProperties
  <2>2. cursor \in 0 .. MaxEvents  BY DEF TypeOK
  <2> QED  BY <2>1, <2>2, SizesAreNat
<1>1. m \in 0 .. Len(s) /\ m <= MaxEvents - cursor
  BY <1>0 DEF Least
<1>2. \A i \in 1 .. Len(s) : Fits(i) <=> i <= MaxEvents - cursor
  BY <1>0 DEF Run
<1>3. Right(m)
  BY <1>0, <1>1, <1>2 DEF Least
<1>4. \A n \in 0 .. Len(s) : Right(n) => n = m
  <2> SUFFICES ASSUME NEW n \in 0 .. Len(s), Right(n) PROVE n = m
    OBVIOUS
  <2>1. n <= MaxEvents - cursor
    <3>1. CASE n = 0  BY <3>1, <1>0
    <3>2. CASE n # 0  BY <3>2, <1>0, <1>2
    <3> QED  BY <3>1, <3>2
  <2>2. n < Len(s) => n + 1 > MaxEvents - cursor
    BY <1>0, <1>2
  <2> QED
    BY <1>0, <1>1, <2>1, <2>2 DEF Least
<1> HIDE DEF m
<1>5. Accepted(s) = CHOOSE n \in 0 .. Len(s) : Right(n)
  BY DEF Accepted
<1>6. Accepted(s) = m
  BY <1>1, <1>3, <1>4, <1>5
<1> QED
  BY <1>6 DEF m

-----------------------------------------------------------------------------
(* The inductive invariant.                                                *)

LEMMA InitInv == Init => IInv
<1> SUFFICES ASSUME Init PROVE IInv
  OBVIOUS
<1> USE SizesAreNat
<1>1. TypeOK
  BY DEF Init, TypeOK, Numbers
<1>2. OutboxInv
  BY DEF Init, OutboxInv, Run
<1>3. LiveInv
  BY DEF Init, LiveInv, Run, Reads, Replaying
<1>4. FeedIsContiguous
  BY DEF Init, FeedIsContiguous
<1> QED
  BY <1>1, <1>2, <1>3, <1>4 DEF IInv

\* What the type invariant and the outbox say about the next event to publish.
LEMMA FirstOfOutbox ==
  ASSUME TypeOK, OutboxInv, outbox # <<>>
  PROVE  /\ Len(outbox) \in Nat \ {0}
         /\ committed \in Nat
         /\ committed - Len(outbox) \in Nat
         /\ Head(outbox) = committed - Len(outbox) + 1
         /\ Head(outbox) \in Numbers
         /\ Tail(outbox) \in Seq(Numbers)
         /\ Len(Tail(outbox)) = Len(outbox) - 1
         /\ Run(Tail(outbox), committed - Len(outbox) + 1)
<1>1. outbox \in Seq(Numbers) /\ committed \in Nat /\ Len(outbox) \in Nat
  BY SizesAreNat, LenProperties DEF TypeOK
<1>2. Len(outbox) # 0
  BY <1>1, EmptySeq
<1>3. committed - Len(outbox) \in Nat
  BY <1>1 DEF OutboxInv
<1> QED
  BY <1>1, <1>2, <1>3, TailRun DEF OutboxInv

\* Publishing the first event leaves an outbox that ends at the same event.
LEMMA PublishedOutbox ==
  ASSUME TypeOK, OutboxInv, outbox # <<>>, Published, committed' = committed
  PROVE  /\ OutboxInv'
         /\ outbox' \in Seq(Numbers)
         /\ Len(outbox') = Len(outbox) - 1
         /\ writer' \in {"idle", "list"}
<1>1. /\ Len(outbox') = Len(outbox) - 1
      /\ outbox' \in Seq(Numbers)
      /\ Run(outbox', committed - Len(outbox) + 1)
      /\ Len(outbox) \in Nat \ {0}
      /\ committed \in Nat
  BY FirstOfOutbox DEF Published
<1>2. committed' - Len(outbox') = committed - Len(outbox) + 1
  BY <1>1
<1>3. outbox' = <<>> <=> Len(outbox) = 1
  BY <1>1, EmptySeq, SeqEqual
<1>4. writer' \in {"idle", "list"} /\ (writer' = "idle" <=> Len(outbox) = 1)
  BY DEF Published
<1> QED
  BY <1>1, <1>2, <1>3, <1>4 DEF OutboxInv

\* The types of what LiveInv speaks about.
LEMMA LiveTypes ==
  ASSUME TypeOK, OutboxInv, LiveInv
  PROVE  /\ {committed, cursor, through, Len(batch), Len(subs), Len(outbox)} \subseteq Nat
         /\ {LastOffered, Base, committed - Len(outbox)} \subseteq Nat
         /\ feed # "new" => /\ subs # <<>> /\ Len(subs) # 0
                            /\ Live \in Subscription
                            /\ Live.queue \in Seq(Numbers)
                            /\ Len(Live.queue) \in Nat
                            /\ Len(Live.queue) <= Capacity
<1> USE SizesAreNat
<1>1. {committed, cursor, through, Len(batch), Len(subs), Len(outbox)} \subseteq Nat
  BY DEF TypeOK
<1>2. committed - Len(outbox) \in Nat
  BY <1>1 DEF OutboxInv
<1>3. LastOffered \in Nat /\ Base \in Nat
  BY <1>1, <1>2 DEF LastOffered, Base
<1>4. ASSUME feed # "new"
      PROVE  subs # <<>> /\ Len(subs) # 0 /\ Live \in Subscription
  <2>1. subs # <<>> /\ subs \in Seq(Subscription)
    BY <1>4 DEF LiveInv, TypeOK
  <2> QED
    BY <2>1 DEF Live
<1>5. Live \in Subscription =>
        /\ Live.queue \in Seq(Numbers)
        /\ Len(Live.queue) \in Nat
        /\ Len(Live.queue) <= Capacity
  BY DEF Subscription
<1> QED
  BY <1>1, <1>2, <1>3, <1>4, <1>5

LEMMA CommitInv ==
  ASSUME IInv, NEW n \in 1 .. 2, Commit(n)
  PROVE  IInv'
<1> USE SizesAreNat
<1>1. committed \in Nat /\ committed + n <= MaxCommitted /\ n \in Nat
  BY DEF IInv, TypeOK, Commit
<1>2. /\ outbox' \in Seq(Numbers)
      /\ Len(outbox') = n
      /\ Run(outbox', committed)
  BY <1>1, FollowingRun DEF Commit
<1>3. outbox = <<>> /\ Len(outbox) = 0
  BY DEF IInv, OutboxInv, Commit
<1>4. TypeOK'
  BY <1>1, <1>2 DEF IInv, TypeOK, Commit, reader
<1>5. OutboxInv'
  <2>1. committed' - Len(outbox') = committed
    BY <1>1, <1>2 DEF Commit
  <2>2. outbox' # <<>>
    BY <1>2, EmptySeq
  <2> QED
    BY <1>1, <1>2, <2>1, <2>2 DEF OutboxInv, Commit
<1>6. LiveInv'
  <2>1. LastOffered' = LastOffered
    BY <1>1, <1>2, <1>3 DEF LastOffered, Commit
  <2>2. Live' = Live /\ Base' = Base /\ Reads' = Reads /\ Replaying' = Replaying
    BY DEF Commit, reader, Live, Base, Reads, Replaying
  <2> QED
    BY <1>1, <2>1, <2>2, LiveTypes, SMTT(30) DEF IInv, LiveInv, Commit, reader, Run, Reads
<1>7. FeedIsContiguous'
  BY DEF IInv, FeedIsContiguous, Commit, reader
<1> QED
  BY <1>4, <1>5, <1>6, <1>7 DEF IInv

LEMMA CopyListInv ==
  ASSUME IInv, CopyList
  PROVE  IInv'
<1> USE SizesAreNat
<1>0. outbox # <<>>
  BY DEF IInv, OutboxInv, CopyList
<1>1. committed \in Nat /\ Len(outbox) \in Nat \ {0} /\ Len(subs) \in Nat
  BY <1>0, FirstOfOutbox, LenProperties DEF IInv, TypeOK
<1>2. CASE subs = <<>>
  <2>1. Published /\ UNCHANGED <<committed, subs, reader>> /\ listed' = Len(subs) /\ offered' = 0
    BY <1>2 DEF CopyList, store
  <2>2. OutboxInv' /\ outbox' \in Seq(Numbers) /\ writer' \in {"idle", "list"}
    BY <2>1, <1>0, PublishedOutbox DEF IInv
  <2>3. TypeOK'
    BY <1>1, <2>1, <2>2 DEF IInv, TypeOK, reader
  <2>4. LiveInv'
    BY <1>2, <2>1 DEF IInv, LiveInv, Reads, Replaying, Run, reader
  <2>5. FeedIsContiguous'
    BY <2>1 DEF IInv, FeedIsContiguous, reader
  <2> QED
    BY <2>2, <2>3, <2>4, <2>5 DEF IInv
<1>3. CASE subs # <<>>
  <2>1. /\ writer' = "offer" /\ offered' = 0 /\ listed' = Len(subs)
        /\ UNCHANGED <<committed, outbox, subs, reader>>
    BY <1>3 DEF CopyList, store
  <2>2. Len(subs) > 0
    BY <1>1, <1>3, EmptySeq DEF IInv, TypeOK
  <2>3. TypeOK'
    BY <1>1, <2>1 DEF IInv, TypeOK, reader
  <2>4. OutboxInv'
    BY <1>0, <2>1, <2>2 DEF IInv, OutboxInv
  <2>5. LastOffered' = LastOffered
    BY <1>1, <2>1, <2>2 DEF LastOffered, CopyList
  <2>6. Live' = Live /\ Base' = Base /\ Reads' = Reads /\ Replaying' = Replaying
    BY <2>1 DEF reader, Live, Base, Reads, Replaying
  <2>7. LiveInv'
    BY <2>1, <2>5, <2>6 DEF IInv, LiveInv, reader, Run
  <2>8. FeedIsContiguous'
    BY <2>1 DEF IInv, FeedIsContiguous, reader
  <2> QED
    BY <2>3, <2>4, <2>7, <2>8 DEF IInv
<1> QED
  BY <1>2, <1>3

\* The subscription after an offer is still one.
LEMMA OfferedType ==
  ASSUME NEW s \in Subscription, NEW ev \in Numbers
  PROVE  Offered(s, ev) \in Subscription
<1> USE SizesAreNat
<1>1. CASE ev <= s.after \/ s.gap
  BY <1>1 DEF Offered
<1>2. CASE ~(ev <= s.after \/ s.gap) /\ Len(s.queue) < Capacity
  <2>1. Append(s.queue, ev) \in Seq(Numbers) /\ Len(Append(s.queue, ev)) = Len(s.queue) + 1
    BY DEF Subscription
  <2>2. Offered(s, ev) = [s EXCEPT !.queue = Append(s.queue, ev)]
    BY <1>2 DEF Offered
  <2>3. Append(s.queue, ev) \in {q \in Seq(Numbers) : Len(q) <= Capacity}
    <3>1. Len(s.queue) \in Nat /\ Capacity \in Nat
      BY DEF Subscription
    <3> QED
      BY <1>2, <2>1, <3>1
  <2> HIDE SizesAreNat
  <2> QED
    BY <2>2, <2>3 DEF Subscription
<1>3. CASE ~(ev <= s.after \/ s.gap) /\ ~(Len(s.queue) < Capacity)
  BY <1>3 DEF Offered, Subscription
<1> QED
  BY <1>1, <1>2, <1>3

LEMMA OfferInv ==
  ASSUME IInv, Offer
  PROVE  IInv'
<1> USE SizesAreNat
<1> DEFINE ev == Head(outbox)
<1>0. outbox # <<>> /\ offered < listed /\ writer = "offer"
  BY DEF IInv, OutboxInv, Offer
<1>1. /\ Len(outbox) \in Nat \ {0} /\ committed \in Nat
      /\ ev = committed - Len(outbox) + 1 /\ ev \in Numbers
      /\ committed - Len(outbox) \in Nat
  BY <1>0, FirstOfOutbox DEF IInv
<1>2. /\ listed \in 0 .. Len(subs) /\ offered \in 0 .. listed /\ Len(subs) \in Nat
      /\ offered + 1 \in 1 .. Len(subs) /\ offered + 1 \in 0 .. listed
      /\ subs \in Seq(Subscription)
  BY <1>0 DEF IInv, TypeOK
<1>3. /\ subs' = [subs EXCEPT ![offered + 1] = Offered(subs[offered + 1], ev)]
      /\ offered' = offered + 1
      /\ UNCHANGED <<committed, listed, feed, cursor, through, batch, failure>>
  BY DEF Offer, store, reader
<1>4. subs' \in Seq(Subscription) /\ Len(subs') = Len(subs)
  <2>1. subs \in Seq(Subscription) /\ subs[offered + 1] \in Subscription
    BY <1>2 DEF IInv, TypeOK
  <2>2. Offered(subs[offered + 1], ev) \in Subscription
    BY <1>1, <2>1, OfferedType
  <2> QED
    BY <1>2, <1>3, <2>1, <2>2
<1>5. /\ OutboxInv' /\ outbox' \in Seq(Numbers) /\ writer' \in {"idle", "list", "offer"}
      /\ IF offered + 1 = listed THEN Len(outbox') = Len(outbox) - 1 /\ writer' # "offer"
         ELSE outbox' = outbox /\ writer' = "offer"
  <2>1. CASE offered + 1 = listed
    BY <1>0, <1>3, <2>1, PublishedOutbox DEF IInv, Offer
  <2>2. CASE offered + 1 # listed
    <3>1. outbox' = outbox /\ writer' = writer
      BY <2>2 DEF Offer
    <3> QED
      BY <3>1, <1>0, <1>2, <1>3, <2>2 DEF IInv, OutboxInv, TypeOK
  <2> QED
    BY <2>1, <2>2
<1>6. TypeOK'
  <2>1. listed' \in 0 .. Len(subs') /\ offered' \in 0 .. listed'
    BY <1>2, <1>3, <1>4
  <2> HIDE DEF ev
  <2> QED
    BY <1>3, <1>4, <1>5, <2>1 DEF IInv, TypeOK
<1> HIDE DEF ev
<1>7. Base' = Base /\ Reads' = Reads /\ Replaying' = Replaying
  BY <1>3 DEF Base, Reads, Replaying
<1>8. LiveInv'
  <2>1. CASE offered + 1 = Len(subs)
    <3>1. Live' = Offered(Live, ev) /\ listed = Len(subs)
      <4>1. subs'[Len(subs)] = Offered(subs[Len(subs)], ev)
        BY <1>2, <1>3, <2>1
      <4> QED
        BY <1>2, <1>4, <2>1, <4>1 DEF Live
    <3>2. LastOffered = ev - 1 /\ LastOffered' = ev
      BY <1>0, <1>1, <1>2, <1>3, <1>4, <1>5, <2>1, <3>1, SMTT(20) DEF LastOffered
    <3>3. ASSUME Reads
          PROVE  /\ Live'.after = through
                 /\ Run(Live'.queue, Base)
                 /\ Base + Len(Live'.queue) <= committed
                 /\ ~Live'.gap => Base + Len(Live'.queue) =
                      IF through <= ev THEN ev ELSE through
      <4>1. /\ Live \in Subscription /\ Live.queue \in Seq(Numbers)
            /\ Len(Live.queue) \in Nat /\ Base \in Nat /\ through \in Nat
        BY <3>3, LiveTypes DEF IInv, Reads
      <4>2. /\ Live.after = through /\ through <= Base /\ Run(Live.queue, Base)
            /\ Base + Len(Live.queue) <= committed
            /\ ~Live.gap => Base + Len(Live.queue) = IF through <= ev - 1 THEN ev - 1 ELSE through
        BY <3>2, <3>3 DEF IInv, LiveInv
      <4>3. CASE ev <= through \/ Live.gap
        <5>1. Live' = Live
          BY <3>1, <4>2, <4>3 DEF Offered
        <5> QED
          BY <1>1, <4>1, <4>2, <4>3, <5>1
      <4>4. CASE ~(ev <= through \/ Live.gap) /\ Len(Live.queue) < Capacity
        <5>1. Live' = [Live EXCEPT !.queue = Append(Live.queue, ev)]
          BY <3>1, <4>2, <4>4 DEF Offered
        <5>2. Base + Len(Live.queue) = ev - 1
          BY <1>1, <4>1, <4>2, <4>4, SMTT(20)
        <5>3. /\ Live'.queue = Append(Live.queue, ev) /\ Live'.gap = Live.gap
              /\ Live'.after = Live.after
          BY <4>1, <5>1 DEF Subscription
        <5>4. Len(Live'.queue) = Len(Live.queue) + 1 /\ Run(Live'.queue, Base)
          <6>1. ev = Base + Len(Live.queue) + 1
            BY <1>1, <4>1, <5>2
          <6> QED
            BY <1>1, <4>1, <4>2, <5>3, <6>1, AppendRun, ZenonT(40)
        <5>5. through \in Nat /\ ~(ev <= through) /\ ev <= committed /\ ev \in Nat
          BY <1>1, <4>1, <4>4
        <5> QED
          BY <4>1, <4>2, <5>2, <5>3, <5>4, <5>5
      <4>5. CASE ~(ev <= through \/ Live.gap) /\ ~(Len(Live.queue) < Capacity)
        <5>1. Live' = [Live EXCEPT !.gap = TRUE]
          BY <3>1, <4>2, <4>5 DEF Offered
        <5>2. Live'.queue = Live.queue /\ Live'.gap /\ Live'.after = Live.after
          BY <4>1, <5>1 DEF Subscription
        <5> QED
          BY <4>2, <5>2
      <4> QED
        BY <4>3, <4>4, <4>5
    <3>4. subs' # <<>> /\ subs # <<>>
      BY <1>2, <1>4 DEF IInv, TypeOK
    <3> QED
      BY <1>3, <1>7, <3>2, <3>3, <3>4 DEF IInv, LiveInv, Run
  <2>2. CASE offered + 1 # Len(subs)
    <3>1. Live' = Live
      <4>1. subs'[Len(subs)] = subs[Len(subs)]
        BY <1>2, <1>3, <2>2
      <4> QED
        BY <1>4, <4>1 DEF Live
    <3>2. LastOffered' = LastOffered
      <4>0. /\ {offered, listed, Len(subs), committed, Len(outbox)} \subseteq Nat
            /\ offered + 1 <= listed /\ listed <= Len(subs)
            /\ offered' = offered + 1 /\ listed' = listed /\ committed' = committed
            /\ Len(subs') = Len(subs)
        BY <1>1, <1>2, <1>3, <1>4
      <4>1. CASE offered + 1 = listed
        <5>1. Len(outbox') = Len(outbox) - 1 /\ writer' # "offer"
          BY <1>5, <4>1
        <5>2. listed < Len(subs)
          BY <4>0, <4>1, <2>2
        <5> QED
          BY <1>0, <4>0, <5>1, <5>2 DEF LastOffered
      <4>2. CASE offered + 1 # listed
        <5>1. outbox' = outbox /\ writer' = "offer"
          BY <1>5, <4>2
        <5>2. (Len(subs') <= offered' \/ listed' < Len(subs')) <=> (Len(subs) <= offered \/ listed < Len(subs))
          BY <4>0, <2>2
        <5> QED
          BY <1>0, <4>0, <5>1, <5>2 DEF LastOffered
      <4> QED
        BY <4>1, <4>2
    <3>3. subs' # <<>> /\ subs # <<>>
      BY <1>2, <1>4 DEF IInv, TypeOK
    <3> QED
      BY <1>3, <1>7, <3>1, <3>2, <3>3 DEF IInv, LiveInv, Run
  <2> QED
    BY <2>1, <2>2
<1>9. FeedIsContiguous'
  BY <1>3 DEF IInv, FeedIsContiguous
<1> QED
  BY <1>5, <1>6, <1>8, <1>9 DEF IInv

LEMMA SubscribeFromInv ==
  ASSUME IInv, SubscribeFrom
  PROVE  IInv'
<1> USE SizesAreNat
<1> DEFINE sub == [queue |-> <<>>, gap |-> FALSE, after |-> committed]
<1>1. /\ subs' = Append(subs, sub)
      /\ through' = committed
      /\ UNCHANGED <<committed, writer, outbox, listed, offered, cursor, batch, failure>>
  BY DEF SubscribeFrom, store, publication
<1>2. /\ committed \in 0 .. MaxCommitted /\ Len(subs) \in Nat /\ subs \in Seq(Subscription)
      /\ committed \in Nat /\ cursor \in Nat /\ cursor <= committed
  BY DEF IInv, TypeOK, LiveInv
<1>3. feed' \in {"replay", "catch_up"}
  BY <1>2 DEF SubscribeFrom
<1>4. sub \in Subscription
  BY <1>2, EmptySeq DEF Subscription
<1>5. /\ subs' \in Seq(Subscription) /\ Len(subs') = Len(subs) + 1
      /\ subs'[Len(subs')] = sub /\ subs' # <<>>
  BY <1>1, <1>2, <1>4
<1>6. TypeOK'
  BY <1>1, <1>2, <1>3, <1>5 DEF IInv, TypeOK
<1>7. OutboxInv'
  BY <1>1 DEF IInv, OutboxInv
<1>8. LiveInv'
  <2>1. LastOffered' \in Nat /\ LastOffered' <= committed
    <3>1. writer = "offer" => Len(outbox) \in Nat \ {0}
      BY FirstOfOutbox DEF IInv, OutboxInv
    <3>2. Len(outbox) \in Nat /\ Len(outbox) <= committed
      BY LiveTypes DEF IInv, OutboxInv
    <3> QED
      BY <1>1, <1>2, <3>1, <3>2 DEF LastOffered
  <2>2. Live' = sub /\ Base' = committed /\ Reads' /\ Replaying'
    BY <1>1, <1>3, <1>5 DEF Live, Base, Reads, Replaying
  <2>3. batch = <<>> /\ Run(batch, cursor)
    BY DEF IInv, LiveInv, SubscribeFrom
  <2>4. Live'.queue = <<>> /\ Len(Live'.queue) = 0 /\ Live'.after = committed /\ ~Live'.gap
    BY <2>2
  <2>5. Run(Live'.queue, Base')
    BY <2>4, EmptyRun
  <2>6. Run(batch', cursor')
    BY <1>1, <2>3
  <2> QED
    BY <1>1, <1>2, <1>3, <1>5, <2>1, <2>2, <2>3, <2>4, <2>5, <2>6 DEF LiveInv
<1>9. FeedIsContiguous'
  BY <1>1 DEF IInv, FeedIsContiguous
<1> QED
  BY <1>6, <1>7, <1>8, <1>9 DEF IInv

\* When the feed accepts a run of committed events it goes on or reaches its bound.
LEMMA AcceptRun ==
  ASSUME IInv, NEW s \in Seq(Numbers), Run(s, cursor), cursor + Len(s) <= committed,
         NEW next, Accept(s, next)
  PROVE  /\ cursor' \in 0 .. MaxEvents
         /\ cursor' <= committed
         /\ \/ /\ feed' = next /\ failure' = failure
               /\ cursor' = cursor + Len(s)
            \/ feed' = "failed" /\ failure' = "history"
<1> USE SizesAreNat
<1>1. Accepted(s) = Least(Len(s), MaxEvents - cursor)
  BY AcceptedRun DEF IInv
<1>2. cursor \in 0 .. MaxEvents /\ Len(s) \in Nat /\ committed \in Nat
  BY LiveTypes DEF IInv, TypeOK
<1>3. Accepted(s) \in 0 .. Len(s) /\ cursor + Accepted(s) <= MaxEvents
  BY <1>1, <1>2 DEF Least
<1>4. cursor' = cursor + Accepted(s)
  BY DEF Accept
<1>5. CASE Accepted(s) = Len(s)
  BY <1>2, <1>3, <1>4, <1>5 DEF Accept
<1>6. CASE Accepted(s) # Len(s)
  <2>1. Accepted(s) + 1 \in 1 .. Len(s)
    BY <1>2, <1>3, <1>6
  <2>2. s[Accepted(s) + 1] = cursor + Accepted(s) + 1
    BY <1>2, <1>3, <2>1 DEF Run
  <2>3. feed' = "failed" /\ failure' = "history"
    BY <1>6, <2>2 DEF Accept
  <2> QED
    BY <1>2, <1>3, <1>4, <2>3
<1> QED
  BY <1>5, <1>6

\* A step of the feed alone leaves the writer and the subscriptions as they are.
LEMMA FeedOnly ==
  ASSUME IInv, UNCHANGED <<store, publication, subs>>
  PROVE  OutboxInv' /\ LastOffered' = LastOffered /\ Live' = Live
BY DEF IInv, OutboxInv, LastOffered, Live, store, publication

LEMMA ReplayInv ==
  ASSUME IInv, Replay
  PROVE  IInv'
<1> USE SizesAreNat
<1>1. /\ UNCHANGED <<store, publication, subs, through, batch>>
      /\ feed \in {"replay", "catch_up"} /\ cursor < through
  BY DEF Replay
<1>2. OutboxInv' /\ LastOffered' = LastOffered /\ Live' = Live
  BY <1>1, FeedOnly
<1>3. /\ Reads /\ Replaying /\ batch = <<>> /\ through <= committed
      /\ {cursor, through, committed} \subseteq Nat /\ committed <= MaxCommitted
  BY <1>1, LiveTypes DEF IInv, LiveInv, Reads, Replaying, TypeOK
<1> DEFINE n == Least(ReplayPage, Least(committed, through) - cursor)
<1>4. n \in Nat \ {0} /\ cursor + n <= through
  BY <1>1, <1>3 DEF Least
<1>5. cursor + n <= committed /\ cursor + n <= MaxCommitted
  BY <1>3, <1>4
<1> HIDE DEF n
<1>6. Page \in Seq(Numbers) /\ Len(Page) = n /\ Run(Page, cursor)
  BY <1>3, <1>4, <1>5, FollowingRun DEF Page, n
<1>7. Accept(Page, feed)
  BY <1>4, <1>6, EmptySeq DEF Replay
<1>8. /\ cursor' \in 0 .. MaxEvents /\ cursor' <= committed
      /\ \/ feed' = feed /\ failure' = failure /\ cursor' = cursor + n
         \/ feed' = "failed" /\ failure' = "history"
  BY <1>5, <1>6, <1>7, AcceptRun
<1>9. TypeOK'
  BY <1>1, <1>8 DEF IInv, TypeOK, store, publication
<1>10. LiveInv'
  <2>0. Run(batch', cursor')
    BY <1>1, <1>3, EmptyRun
  <2>1. CASE feed' = feed /\ cursor' = cursor + n
    <3>1. Base' = Base /\ Reads' /\ Replaying'
      BY <1>1, <1>3, <2>1 DEF Base, Reads, Replaying
    <3> QED
      BY <1>1, <1>2, <1>3, <1>4, <1>8, <2>0, <2>1, <3>1 DEF IInv, LiveInv, store, Run
  <2>2. CASE feed' = "failed"
    BY <1>1, <1>2, <1>3, <1>8, <2>0, <2>2 DEF IInv, LiveInv, store, Reads, Replaying
  <2> QED
    BY <1>8, <2>1, <2>2
<1>11. FeedIsContiguous'
  BY <1>8 DEF IInv, FeedIsContiguous
<1> QED
  BY <1>2, <1>9, <1>10, <1>11 DEF IInv

LEMMA CaughtUpInv ==
  ASSUME IInv, CaughtUp
  PROVE  IInv'
<1> USE SizesAreNat
<1>1. /\ UNCHANGED <<store, publication, subs, cursor, through, batch>>
      /\ feed \in {"replay", "catch_up"} /\ cursor >= through
  BY DEF CaughtUp
<1>2. OutboxInv' /\ LastOffered' = LastOffered /\ Live' = Live
  BY <1>1, FeedOnly
<1>3. Reads /\ Replaying /\ batch = <<>> /\ Len(batch) = 0 /\ {cursor, through} \subseteq Nat
  BY <1>1, LiveTypes DEF IInv, LiveInv, Reads, Replaying
<1>4. cursor = through
  BY <1>1, <1>3 DEF IInv, LiveInv
<1>5. feed' \in {"idle", "recovered"} /\ failure' = failure
  BY <1>4 DEF CaughtUp
<1>6. TypeOK'
  BY <1>1, <1>5 DEF IInv, TypeOK, store, publication
<1>7. Base' = Base /\ Reads' /\ ~Replaying'
  BY <1>1, <1>3, <1>4, <1>5 DEF Base, Reads, Replaying
<1>8. LiveInv'
  BY <1>1, <1>2, <1>3, <1>5, <1>7 DEF IInv, LiveInv, store, Run
<1>9. FeedIsContiguous'
  BY <1>5 DEF IInv, FeedIsContiguous
<1> QED
  BY <1>2, <1>6, <1>8, <1>9 DEF IInv

LEMMA PollInv ==
  ASSUME IInv, Poll \/ PollAgain
  PROVE  IInv'
<1>1. /\ UNCHANGED <<store, publication, subs, cursor, through, batch, failure>>
      /\ feed \in {"idle", "recovered"} /\ feed' \in {"recover", "drain", "escaped"}
  BY DEF Poll, PollAgain
<1>2. OutboxInv' /\ LastOffered' = LastOffered /\ Live' = Live
  BY <1>1, FeedOnly
<1>3. Reads /\ ~Replaying /\ ~Replaying' /\ Base' = Base /\ batch = <<>>
  BY <1>1 DEF IInv, LiveInv, Reads, Replaying, Base
<1>4. TypeOK'
  BY <1>1 DEF IInv, TypeOK, store, publication
<1>5. LiveInv'
  BY <1>1, <1>2, <1>3 DEF IInv, LiveInv, store, Run, Reads
<1>6. FeedIsContiguous'
  BY <1>1 DEF IInv, FeedIsContiguous
<1> QED
  BY <1>2, <1>4, <1>5, <1>6 DEF IInv

LEMMA DrainOneInv ==
  ASSUME IInv, DrainOne
  PROVE  IInv'
<1> USE SizesAreNat
<1>1. /\ UNCHANGED <<committed, writer, outbox, listed, offered, feed, cursor, through, failure>>
      /\ feed = "drain" /\ Len(batch) < DrainLimit /\ Live.queue # <<>>
      /\ batch' = Append(batch, Head(Live.queue))
      /\ subs' = [subs EXCEPT ![Len(subs)].queue = Tail(@)]
  BY DEF DrainOne, store, publication
<1>2. Reads /\ ~Replaying /\ Reads' /\ ~Replaying' /\ Base = cursor + Len(batch)
  BY <1>1 DEF Reads, Replaying, Base
<1>3. /\ {committed, cursor, through, Len(batch), Len(subs)} \subseteq Nat
      /\ Base \in Nat /\ Len(subs) # 0 /\ subs \in Seq(Subscription)
      /\ Live \in Subscription /\ Live.queue \in Seq(Numbers) /\ Len(Live.queue) \in Nat
      /\ Len(Live.queue) <= Capacity /\ batch \in Seq(Numbers)
  BY <1>2, LiveTypes DEF IInv, Reads, TypeOK
<1>4. Run(Live.queue, Base) /\ Run(batch, cursor)
  BY <1>2 DEF IInv, LiveInv
<1>5. /\ Head(Live.queue) = Base + 1
      /\ Head(Live.queue) \in Numbers
      /\ Tail(Live.queue) \in Seq(Numbers)
      /\ Len(Tail(Live.queue)) = Len(Live.queue) - 1
      /\ Run(Tail(Live.queue), Base + 1)
  BY <1>1, <1>3, <1>4, TailRun
<1>6. batch' \in Seq(Numbers) /\ Len(batch') = Len(batch) + 1 /\ Run(batch', cursor)
  BY <1>1, <1>2, <1>3, <1>4, <1>5, AppendRun
<1> DEFINE rest == [Live EXCEPT !.queue = Tail(Live.queue)]
<1>7. /\ rest \in Subscription
      /\ rest.queue = Tail(Live.queue) /\ rest.gap = Live.gap /\ rest.after = Live.after
  <2>1. Tail(Live.queue) \in {q \in Seq(Numbers) : Len(q) <= Capacity}
    BY <1>3, <1>5
  <2> QED
    BY <1>3, <2>1 DEF Subscription
<1>8. subs' = [subs EXCEPT ![Len(subs)] = rest]
  BY <1>1, <1>3 DEF Live
<1> HIDE DEF rest
<1>9. /\ subs' \in Seq(Subscription) /\ Len(subs') = Len(subs) /\ Live' = rest
      /\ subs' # <<>> /\ subs # <<>>
  BY <1>3, <1>7, <1>8 DEF Live
<1>10. TypeOK'
  <2>1. Len(batch') <= DrainLimit
    BY <1>1, <1>3, <1>6
  <2> QED
    BY <1>1, <1>6, <1>9, <2>1 DEF IInv, TypeOK
<1>11. OutboxInv' /\ LastOffered' = LastOffered
  BY <1>1, <1>9 DEF IInv, OutboxInv, LastOffered
<1>12. LiveInv'
  <2>1. Base' = Base + 1
    <3>1. Base' = cursor' + Len(batch')
      BY <1>2 DEF Base
    <3> QED
      BY <1>1, <1>2, <1>3, <1>6, <3>1
  <2>6. Base' + Len(Live'.queue) = Base + Len(Live.queue)
    <3> DEFINE b == Base
               l == Len(Live.queue)
    <3>1. b \in Nat /\ l \in Nat
      BY <1>3
    <3>2. Base' = b + 1 /\ Len(Live'.queue) = l - 1
      BY <1>5, <1>7, <1>9, <2>1
    <3> HIDE DEF b, l
    <3>3. Base' + Len(Live'.queue) = b + l
      BY <3>1, <3>2
    <3> QED
      BY <3>3 DEF b, l
  <2>2. Run(Live'.queue, Base')
    BY <1>5, <1>7, <1>9, <2>1
  <2>3. through <= Base'
    BY <1>2, <1>3, <2>1 DEF IInv, LiveInv
  <2>4. Run(batch', cursor')
    BY <1>1, <1>6
  <2> QED
    BY <1>1, <1>2, <1>7, <1>9, <1>11, <2>2, <2>3, <2>4, <2>6 DEF IInv, LiveInv
<1>13. FeedIsContiguous'
  BY <1>1 DEF IInv, FeedIsContiguous
<1> QED
  BY <1>10, <1>11, <1>12, <1>13 DEF IInv

LEMMA AcceptBatchInv ==
  ASSUME IInv, AcceptBatch
  PROVE  IInv'
<1> USE SizesAreNat
<1>1. /\ UNCHANGED <<store, publication, subs, through>>
      /\ feed = "drain" /\ batch' = <<>> /\ Accept(batch, "idle")
  BY DEF AcceptBatch
<1>2. OutboxInv' /\ LastOffered' = LastOffered /\ Live' = Live
  BY <1>1, FeedOnly
<1>3. Reads /\ ~Replaying /\ Base = cursor + Len(batch)
  BY <1>1 DEF Reads, Replaying, Base
<1>4. /\ {committed, cursor, through, Len(batch), Base, Len(Live.queue)} \subseteq Nat
      /\ batch \in Seq(Numbers) /\ Run(batch, cursor) /\ cursor + Len(batch) <= committed
  <2>1. /\ {committed, cursor, through, Len(batch), Base, Len(Live.queue)} \subseteq Nat
        /\ batch \in Seq(Numbers)
    BY <1>3, LiveTypes DEF IInv, Reads, TypeOK
  <2>2. Run(batch, cursor) /\ Base + Len(Live.queue) <= committed
    BY <1>3 DEF IInv, LiveInv
  <2> QED
    BY <1>3, <2>1, <2>2
<1>5. /\ cursor' \in 0 .. MaxEvents /\ cursor' <= committed
      /\ \/ feed' = "idle" /\ failure' = failure /\ cursor' = cursor + Len(batch)
         \/ feed' = "failed" /\ failure' = "history"
  BY <1>1, <1>4, AcceptRun
<1>6. TypeOK'
  BY <1>1, <1>5, EmptySeq DEF IInv, TypeOK, store, publication
<1>7. LiveInv'
  <2>0. Run(batch', cursor') /\ Len(batch') = 0
    BY <1>1, EmptyRun
  <2>1. CASE feed' = "idle" /\ cursor' = cursor + Len(batch)
    <3>1. Base' = Base /\ Reads' /\ ~Replaying'
      BY <1>3, <1>4, <2>0, <2>1 DEF Base, Reads, Replaying
    <3> QED
      BY <1>1, <1>2, <1>3, <1>5, <2>0, <2>1, <3>1 DEF IInv, LiveInv, store
  <2>2. CASE feed' = "failed"
    BY <1>1, <1>2, <1>5, <2>0, <2>2 DEF IInv, LiveInv, store, Reads, Replaying
  <2> QED
    BY <1>5, <2>1, <2>2
<1>8. FeedIsContiguous'
  BY <1>5 DEF IInv, FeedIsContiguous
<1> QED
  BY <1>2, <1>6, <1>7, <1>8 DEF IInv

LEMMA NextInv == IInv /\ [Next]_vars => IInv'
<1> SUFFICES ASSUME IInv, [Next]_vars PROVE IInv'
  OBVIOUS
<1>1. CASE \E n \in 1 .. 2 : Commit(n)
  BY <1>1, CommitInv
<1>2. CASE WriterStep
  BY <1>2, CopyListInv, OfferInv DEF WriterStep
<1>3. CASE FeedStep
  BY <1>3, SubscribeFromInv, ReplayInv, CaughtUpInv, PollInv, DrainOneInv, AcceptBatchInv
  DEF FeedStep
<1>4. CASE UNCHANGED vars
  BY <1>4 DEF IInv, TypeOK, OutboxInv, LiveInv, FeedIsContiguous, LastOffered, Live, Base,
    Reads, Replaying, vars, store, publication, reader, Run
<1> QED
  BY <1>1, <1>2, <1>3, <1>4 DEF Next

\* IInv holds in every reachable state.
THEOREM Invariant == Spec => []IInv
BY InitInv, NextInv, PTL DEF Spec

-----------------------------------------------------------------------------
(* The theorems.                                                           *)

\* Every variable keeps its type: queues, batches and the feed's history stay
\* within their bounds (Subscription._offer, drain, _accept).
THEOREM TypeCorrect == Spec => []TypeOK
BY Invariant, PTL DEF IInv

\* The replay-to-live handoff and every recovery from an overflow are seamless:
\* _accept and _catch_up never raise for a missing or repeated event.
THEOREM Contiguous == Spec => []FeedIsContiguous
BY Invariant, PTL DEF IInv

\* Every committed event the feed has not shown is on its way to it, unless its
\* subscription knows of a gap (DurableHubFeed.poll, Subscription._offer).
THEOREM NoEventLost == Spec => []NothingLost
<1>1. IInv => NothingLost
  <2> SUFFICES ASSUME IInv, feed \in {"idle", "recovered", "drain"}, ~Live.gap,
                      NEW n \in (cursor + 1) .. committed
               PROVE  n \in Range(batch) \cup Range(Live.queue) \cup Range(outbox)
    BY DEF NothingLost
  <2>1. Reads /\ ~Replaying /\ Base = cursor + Len(batch)
    BY DEF Reads, Replaying, Base
  <2>2. /\ {committed, cursor, Len(batch), Len(outbox), Len(Live.queue)} \subseteq Nat
        /\ {through, LastOffered, committed - Len(outbox)} \subseteq Nat
        /\ batch \in Seq(Numbers) /\ Live.queue \in Seq(Numbers) /\ outbox \in Seq(Numbers)
    BY <2>1, LiveTypes DEF IInv, Reads, TypeOK
  <2>3. /\ Run(batch, cursor) /\ Run(Live.queue, Base) /\ Run(outbox, committed - Len(outbox))
        /\ Base + Len(Live.queue) = IF through <= LastOffered THEN LastOffered ELSE through
    BY <2>1 DEF IInv, LiveInv, OutboxInv
  <2>4. CASE n <= cursor + Len(batch)
    <3>1. n - cursor \in 1 .. Len(batch) /\ batch[n - cursor] = n
      BY <2>2, <2>3, <2>4, SMTT(20) DEF Run
    <3> QED
      BY <2>2, <3>1 DEF Range
  <2>5. CASE n > Base /\ n <= Base + Len(Live.queue)
    <3>1. n - Base \in 1 .. Len(Live.queue) /\ Live.queue[n - Base] = n
      <4>1. n - Base \in 1 .. Len(Live.queue) /\ Base \in Nat
        <5>1. Base \in Nat /\ n \in Nat /\ Len(Live.queue) \in Nat
          BY <2>1, <2>2
        <5> QED
          BY <2>5, <5>1
      <4>2. Live.queue[n - Base] = Base + (n - Base)
        BY <2>3, <4>1 DEF Run
      <4> QED
        BY <4>1, <4>2
    <3> QED
      BY <2>2, <3>1 DEF Range
  <2>6. CASE n > Base + Len(Live.queue)
    <3>1. n > committed - Len(outbox)
      BY <2>1, <2>2, <2>3, <2>6 DEF LastOffered
    <3>2. /\ n - (committed - Len(outbox)) \in 1 .. Len(outbox)
          /\ outbox[n - (committed - Len(outbox))] = n
      <4> DEFINE a == committed - Len(outbox)
      <4>1. n - a \in 1 .. Len(outbox) /\ a \in Nat
        BY <2>2, <3>1
      <4>2. outbox[n - a] = a + (n - a)
        BY <2>3, <4>1 DEF Run
      <4> QED
        BY <4>1, <4>2
    <3> QED
      BY <2>2, <3>2 DEF Range
  <2> QED
    BY <2>1, <2>2, <2>4, <2>5, <2>6, SMTT(20)
<1> QED
  BY <1>1, Invariant, PTL

\* The feed is whole for every stream length, queue capacity, page size and
\* drain limit (poll, _accept, _catch_up).
THEOREM WholeFeed == Spec => []FeedIsWhole
BY Contiguous, NoEventLost, PTL DEF FeedIsWhole


-----------------------------------------------------------------------------
(* The turn that is under way, what it stores and what it hands over.      *)


Between == {"idle", "callback"}
BeforeUser == {"turn", "accepted", "pending", "decide", "model"}
AfterUser == {"resolved", "corrected", "proposed", "refused", "route run", "run",
              "admitted", "result"}

\* One turn is under way, and it is the one the dispatcher calls active.
ThreadInv ==
  /\ ActiveIsTheTurn
  /\ work.pc = "callback" => work.f \in Submits /\ Finished(work.f)
  /\ work.pc \notin Between =>
       work.f \in Submits /\ fut[work.f] = "running" /\ work.said \in AllTexts
  /\ \A f \in Submits : fut[f] = "queued" => said \in AllTexts
  /\ ui.pc = "register" => ui.new \in Submits

\* A turn that is under way still has room for what it has yet to store.
SpaceInv ==
  /\ (\E f \in Submits : fut[f] = "queued") => Len(turns) + 2 <= MaxTurns
  /\ work.pc \in BeforeUser => Len(turns) + 2 <= MaxTurns
  /\ work.pc \in AfterUser => Len(turns) + 1 <= MaxTurns

\* What is on its way to the stream refers to the conversation as the stream does.
RefInv ==
  /\ RefsHold
  /\ \A e \in QueueSet : e.ref \in 1 .. Len(turns) /\ turns[e.ref] = User(e.text)

\* The texts that start no work by themselves.
Prose == AllTexts \ (CheckTexts \cup ChangeTexts \cup OutOfAuthority \cup Followups
                     \cup {"why", "fix"})

\* A later turn in which the user answered with work.
Confirmed(t) ==
  \E u \in 1 .. Len(turns) : u > t /\ turns[u].role = "user" /\ turns[u].text \in WorkAnswers

Resolved == ResolvedAs("accepted") \cup ResolvedAs("corrected")

\* The stream: a decision follows its proposal, the acceptance was the user's, and
\* what prose asked for is admitted only after its acceptance.
LogInv ==
  \A i \in 1 .. Len(log) :
    /\ log[i].kind \in Resolutions =>
         \E p \in 1 .. i - 1 : log[p].kind = "proposed" /\ log[p].ref = log[i].ref
    /\ log[i].kind = "accepted" => Confirmed(log[i].ref)
    /\ log[i].kind = "admitted" /\ log[i].text \in Prose =>
         \E a \in 1 .. i - 1 : log[a].kind = "accepted" /\ log[a].ref = log[i].ref

\* The queue: the stream already holds what each of its events follows.
QueueInv ==
  \A e \in QueueSet :
    /\ e.kind \in Resolutions => e.ref \in Proposed
    /\ e.kind = "accepted" => Confirmed(e.ref)
    /\ e.kind = "admitted" /\ e.text \in Prose => e.ref \in ResolvedAs("accepted")

\* What the worker is about to admit may be admitted.
WorkInv ==
  /\ work.pc = "route run" => work.route \in ResolvedAs("accepted")
  /\ work.pc = "run" => /\ Len(turns) > 0 /\ turns[Len(turns)].role = "user"
                        /\ turns[Len(turns)].text \notin Prose
  /\ work.pc = "result" => work.route \in 1 .. MaxTurns /\ outcome[work.route] # "none"

\* A task that began was admitted.
StartedInv == \A t \in 1 .. MaxTurns : outcome[t] # "none" => t \in Admitted

\* A route is proposed once.
ProposedOnce ==
  /\ \A i, j \in 1 .. Len(log) :
       log[i].kind = "proposed" /\ log[j].kind = "proposed" /\ log[i].ref = log[j].ref => i = j
  /\ \A i, j \in 1 .. Len(queue) :
       queue[i].kind = "proposed" /\ queue[j].kind = "proposed" /\ queue[i].ref = queue[j].ref
         => i = j
  /\ \A e \in QueueSet : e.kind = "proposed" => e.ref \notin Proposed

\* When a route is decided, those proposed before it have been.
DecidedInOrder ==
  \A e \in LogSet \cup QueueSet : e.kind \in Resolutions =>
    \A a, b \in 1 .. Len(log) :
      a < b /\ log[a].kind = "proposed" /\ log[b].kind = "proposed" /\ log[b].ref = e.ref
        => log[a].ref \in Resolved

\* What the Hub's projection says of the stream.
Standing(r) ==
  IF r \in ResolvedAs("accepted") THEN "accepted"
  ELSE IF r \in ResolvedAs("corrected") THEN "corrected"
  ELSE IF r \in Proposed THEN "pending" ELSE "none"
View ==
  [order : Seq(1 .. MaxTurns), how : [1 .. MaxTurns -> {"none", "pending"} \cup Resolutions],
   bad : BOOLEAN]
ViewInv ==
  LET view == ProjectRoutes IN
    /\ view \in View
    /\ view.bad = RecoverRaises
    /\ ~view.bad =>
         /\ \A r \in 1 .. MaxTurns : view.how[r] = Standing(r)
         /\ view.order = <<>> => Proposed = {}
         /\ view.order # <<>> =>
              \E p \in 1 .. Len(log) :
                /\ log[p].kind = "proposed" /\ log[p].ref = Last(view.order)
                /\ \A q \in 1 .. Len(log) : log[q].kind = "proposed" => q <= p

TInv == /\ TurnTypeOK /\ ThreadInv /\ SpaceInv /\ RefInv /\ LogInv /\ QueueInv /\ WorkInv
        /\ StartedInv /\ ProposedOnce /\ DecidedInOrder /\ ViewInv

-----------------------------------------------------------------------------
(* What one step does.                                                     *)

WorkerUnchanged == UNCHANGED <<hub, log, said, active, callbacks, ui>>

AnswerTexts == {"conversation only", "controller answer"}

\* The worker ends the turn, with or without storing what is left of it.
Closes ==
  /\ work.pc \notin Between /\ Finish /\ UNCHANGED queue /\ WorkerUnchanged
  /\ faults' \in [crash : Nat, timeout : Nat, save : Nat]
  /\ \/ turns' = turns
     \/ /\ work.pc \in BeforeUser
        /\ \E a \in AnswerTexts :
             turns' = turns \o <<User(work.said), [role |-> "assistant", text |-> a]>>
     \/ /\ work.pc \in AfterUser
        /\ \E a \in AnswerTexts : turns' = turns \o <<[role |-> "assistant", text |-> a]>>

\* The turn ends before its task ran, or with it.
Ends ==
  /\ Closes
  /\ \/ UNCHANGED outcome
     \/ /\ work.pc = "result"
        /\ \E how \in {"ok", "failed", "unproven", "closed"} :
             outcome' = [outcome EXCEPT ![work.route] = how]

\* The turn goes on, with its user half saved or not.
Moves(from, to, route) ==
  /\ work.pc = from
  /\ work' = [work EXCEPT !.pc = to, !.route = route]
  /\ UNCHANGED <<fut, faults>> /\ WorkerUnchanged
Saves == turns' = turns \o <<User(work.said)>> /\ UNCHANGED outcome
Hands(kind, ref, text) == queue' = Append(queue, Event(kind, ref, text))

Advances ==
  \E from, to \in BeforeUser :
    Moves(from, to, NoRoute) /\ UNCHANGED <<turns, queue, outcome>>
Resumes ==
  \E r \in AcceptedUnadmitted :
    Moves("accepted", "route run", r) /\ Saves /\ UNCHANGED queue
Refuses ==
  \E r \in PendingAcceptance :
    Moves("pending", "refused", r) /\ Saves /\ UNCHANGED queue
Runs ==
  /\ work.said \notin Prose
  /\ Moves("decide", "run", NoRoute) /\ Saves /\ UNCHANGED queue
Accepts ==
  \E r \in 1 .. Len(turns) :
    /\ PendingAcceptance = {r} /\ turns[r].role = "user" /\ work.said \in WorkAnswers
    /\ Moves("pending", "resolved", r) /\ Saves /\ Hands("accepted", r, turns[r].text)
Corrects ==
  \E r \in PendingAcceptance :
    /\ PendingAcceptance = {r}
    /\ Moves("pending", "corrected", r) /\ Saves /\ Hands("corrected", r, turns[r].text)
Proposes ==
  /\ Moves("model", "proposed", Len(turns) + 1) /\ Saves
  /\ Hands("proposed", Len(turns) + 1, work.said)
Continues ==
  /\ InLog("accepted", work.route)
  /\ Moves("resolved", "route run", work.route) /\ UNCHANGED <<turns, queue, outcome>>
Admits ==
  \E from \in {"route run", "run"} :
    LET r == IF from = "run" THEN Len(turns) ELSE work.route IN
      /\ Moves(from, "admitted", r) /\ Hands("admitted", r, turns[r].text)
      /\ UNCHANGED <<turns, outcome>>
Begins ==
  /\ InLog("admitted", work.route)
  /\ Moves("admitted", "result", work.route) /\ UNCHANGED <<turns, queue>>
  /\ outcome' = [outcome EXCEPT ![work.route] = "running"]

Turning == \/ Ends \/ Advances \/ Resumes \/ Refuses \/ Runs \/ Accepts \/ Corrects
           \/ Proposes \/ Continues \/ Admits \/ Begins

-----------------------------------------------------------------------------
(* Facts about the parts.                                                  *)

LEMMA BoundsAreNat == MaxTurns \in Nat /\ MaxSubmits \in Nat
  BY TurnBounds

\* What follows of a sequence that one element is appended to.
LEMMA AppendOne ==
  ASSUME NEW T, NEW s \in Seq(T), NEW x \in T
  PROVE  /\ Append(s, x) \in Seq(T) /\ Len(Append(s, x)) = Len(s) + 1
         /\ \A i \in 1 .. Len(s) : Append(s, x)[i] = s[i]
         /\ Append(s, x)[Len(s) + 1] = x
  BY AppendProperties

LEMMA ConcatOne ==
  ASSUME NEW T, NEW s \in Seq(T), NEW x \in T
  PROVE  /\ s \o <<x>> \in Seq(T) /\ Len(s \o <<x>>) = Len(s) + 1
         /\ \A i \in 1 .. Len(s) : (s \o <<x>>)[i] = s[i]
         /\ (s \o <<x>>)[Len(s) + 1] = x
<1>1. <<x>> \in Seq(T) /\ Len(<<x>>) = 1 /\ <<x>>[1] = x
  OBVIOUS
<1>2. Len(s) \in Nat
  BY LenProperties
<1> QED
  BY <1>1, <1>2, ConcatProperties

LEMMA ConcatTwo ==
  ASSUME NEW T, NEW s \in Seq(T), NEW x \in T, NEW y \in T
  PROVE  /\ s \o <<x, y>> \in Seq(T) /\ Len(s \o <<x, y>>) = Len(s) + 2
         /\ \A i \in 1 .. Len(s) : (s \o <<x, y>>)[i] = s[i]
         /\ (s \o <<x, y>>)[Len(s) + 1] = x
<1>1. <<x, y>> \in Seq(T) /\ Len(<<x, y>>) = 2 /\ <<x, y>>[1] = x
  OBVIOUS
<1>2. Len(s) \in Nat
  BY LenProperties
<1> QED
  BY <1>1, <1>2, ConcatProperties

\* Finish and Goto, field by field.
LEMMA FinishEffect ==
  ASSUME TurnTypeOK, work.f \in Submits, Finish
  PROVE  /\ work'.pc = "callback" /\ work'.f = work.f
         /\ work'.said = NoText /\ work'.route = NoRoute
         /\ fut' \in [Submits -> {"none", "queued", "running", "done"}]
         /\ fut'[work.f] = "done"
         /\ \A f \in Submits : f # work.f => fut'[f] = fut[f]
  BY DEF TurnTypeOK, Finish, Idle

LEMMA MoveEffect ==
  ASSUME TurnTypeOK, NEW from, NEW to, NEW route, Moves(from, to, route)
  PROVE  /\ work'.pc = to /\ work'.route = route
         /\ work'.f = work.f /\ work'.said = work.said
         /\ work' = [pc |-> to, f |-> work.f, said |-> work.said, route |-> route]
  BY DEF TurnTypeOK, Moves

\* Only a text that is not prose is routed to work by itself.
LEMMA RoutedToWork ==
  ASSUME NEW text \in AllTexts
  PROVE  /\ DecideRoute(text) = "work" => text \notin Prose
         /\ text \notin Followups /\ DecideRoute(text) = "model" => text \in Prose
  BY DEF DecideRoute, Prose, AllTexts, CheckTexts, ChangeTexts, OutOfAuthority, Followups,
         CheckRoute, ChangeRoute, DiagnosticRoute, FixRoute, FactTexts, WorkAnswers,
         ChatAnswers, PathTexts
\* A fault is counted, and the count is a number.
LEMMA FaultEffect ==
  ASSUME TurnTypeOK
  PROVE  /\ [faults EXCEPT !.save = @ + 1] \in [crash : Nat, timeout : Nat, save : Nat]
         /\ [faults EXCEPT !.timeout = @ + 1] \in [crash : Nat, timeout : Nat, save : Nat]
         /\ [faults EXCEPT !.crash = @ + 1] \in [crash : Nat, timeout : Nat, save : Nat]
         /\ faults \in [crash : Nat, timeout : Nat, save : Nat]
<1>1. faults \in [crash : Nat, timeout : Nat, save : Nat]
  BY DEF TurnTypeOK
<1> QED
  BY <1>1

\* Where one operator of the model saves, another state is what Saves says.
LEMMA ExchangeCloses ==
  ASSUME TurnTypeOK, work.pc \in BeforeUser, NEW answer, Exchange(answer), Step
  PROVE  Ends
<1>1. CASE SaveFails
  BY <1>1, FaultEffect DEF Step, SaveFails, Ends, Closes, WorkerUnchanged, BeforeUser, Between
<1>2. CASE Saved(<<User(work.said), Answer(answer)>>) /\ Finish /\ UNCHANGED queue
  <2>1. Answer(answer) \in {[role |-> "assistant", text |-> a] : a \in AnswerTexts}
    BY DEF Answer, AnswerTexts
  <2> QED
    BY <1>2, <2>1 DEF Step, Saved, Ends, Closes, WorkerUnchanged, BeforeUser, Between, TurnTypeOK
<1> QED
  BY <1>1, <1>2 DEF Exchange

LEMMA ReplyCloses ==
  ASSUME TurnTypeOK, work.pc \in AfterUser, NEW answer, Reply(answer), WorkerUnchanged
  PROVE  Closes
<1>1. CASE SaveFails
  BY <1>1, FaultEffect DEF SaveFails, Closes, WorkerUnchanged, AfterUser, Between
<1>2. CASE Saved(<<Answer(answer)>>) /\ Finish /\ UNCHANGED queue
  <2>1. Answer(answer) \in {[role |-> "assistant", text |-> a] : a \in AnswerTexts}
    BY DEF Answer, AnswerTexts
  <2> QED
    BY <1>2, <2>1 DEF Saved, Closes, WorkerUnchanged, AfterUser, Between, TurnTypeOK
<1> QED
  BY <1>1, <1>2 DEF Reply

LEMMA RaiseCloses ==
  ASSUME TurnTypeOK, work.pc \notin Between, Raise, WorkerUnchanged
  PROVE  Closes
  BY DEF Raise, Closes, TurnTypeOK

LEMMA FailedSaveCloses ==
  ASSUME TurnTypeOK, work.pc \notin Between, SaveFails, Step
  PROVE  Ends
  BY FaultEffect DEF SaveFails, Step, Ends, Closes, WorkerUnchanged

LEMMA TimeoutCloses ==
  ASSUME TurnTypeOK, work.pc \notin Between, NEW kind, NEW r, TimesOut(kind, r), WorkerUnchanged
  PROVE  Closes
  BY FaultEffect DEF TimesOut, Closes

LEMMA PcSets ==
  ASSUME TurnTypeOK
  PROVE  /\ work.pc \in BeforeUser \cup AfterUser \cup Between
         /\ \A pc \in BeforeUser \cup AfterUser : pc \notin Between
  BY DEF TurnTypeOK, BeforeUser, AfterUser, Between

\* Membership in the sets the readers take from the stream.
LEMMA InStream ==
  ASSUME TurnTypeOK
  PROVE  /\ \A i \in 1 .. Len(log) : log[i] \in StreamEvent
         /\ \A i \in 1 .. Len(queue) : queue[i] \in StreamEvent
         /\ \A r : r \in Proposed <=>
              \E i \in 1 .. Len(log) : log[i].kind = "proposed" /\ log[i].ref = r
         /\ \A r : r \in Admitted <=>
              \E i \in 1 .. Len(log) : log[i].kind = "admitted" /\ log[i].ref = r
         /\ \A kind, r : r \in ResolvedAs(kind) <=>
              \E i \in 1 .. Len(log) : log[i].kind = kind /\ log[i].ref = r
         /\ Proposed \subseteq 1 .. MaxTurns
<1>1. /\ \A i \in 1 .. Len(log) : log[i] \in StreamEvent
      /\ \A i \in 1 .. Len(queue) : queue[i] \in StreamEvent
  BY ElementOfSeq DEF TurnTypeOK
<1>2. /\ \A r : r \in Proposed <=>
           \E i \in 1 .. Len(log) : log[i].kind = "proposed" /\ log[i].ref = r
      /\ \A r : r \in Admitted <=>
           \E i \in 1 .. Len(log) : log[i].kind = "admitted" /\ log[i].ref = r
      /\ \A kind, r : r \in ResolvedAs(kind) <=>
           \E i \in 1 .. Len(log) : log[i].kind = kind /\ log[i].ref = r
  BY DEF Proposed, Admitted, ResolvedAs, LogSet
<1>3. \A i \in 1 .. Len(log) : log[i].ref \in 1 .. MaxTurns
  BY <1>1 DEF StreamEvent
<1> QED
  BY <1>1, <1>2, <1>3

\* The routes that wait are finitely many, and one when they are not several.
LEMMA FewPending ==
  ASSUME TurnTypeOK, ~(Cardinality(PendingAcceptance) > 1), NEW r \in PendingAcceptance
  PROVE  PendingAcceptance = {r}
<1>1. IsFiniteSet(PendingAcceptance)
  <2>1. PendingAcceptance \subseteq 1 .. MaxTurns
    BY InStream DEF PendingAcceptance
  <2>2. IsFiniteSet(1 .. MaxTurns)
    BY BoundsAreNat, FS_Interval
  <2> QED
    BY <2>1, <2>2, FS_Subset
<1>2. SUFFICES ASSUME NEW s \in PendingAcceptance, s # r
               PROVE  FALSE
  OBVIOUS
<1>3. {r, s} \subseteq PendingAcceptance /\ Cardinality({r, s}) = 2
  <2>1. Cardinality({r}) = 1 /\ IsFiniteSet({r})
    BY FS_Singleton
  <2>2. Cardinality({r} \cup {s}) = Cardinality({r}) + 1
    BY <1>2, <2>1, FS_AddElement
  <2>3. {r, s} = {r} \cup {s}
    OBVIOUS
  <2> QED
    BY <2>1, <2>2, <2>3
<1>4. Cardinality(PendingAcceptance) \in Nat /\ 2 <= Cardinality(PendingAcceptance)
  BY <1>1, <1>3, FS_Subset, FS_CardinalityType
<1> QED
  BY <1>4

\* Every step of the worker between Start and DoneCallback is one of these.
LEMMA WorkerTurns ==
  ASSUME TurnTypeOK, ThreadInv, Worker, ~Start, ~DoneCallback
  PROVE  Turning
<1> USE PcSets DEF Turning
<1>1. CASE DeterministicAnswer
  <2>1. work.pc = "turn" /\ work.pc \in BeforeUser
    BY <1>1 DEF DeterministicAnswer, Working, BeforeUser
  <2>2. CASE work.said \in FactTexts
    BY <1>1, <2>1, <2>2, ExchangeCloses DEF DeterministicAnswer
  <2>3. CASE work.said \notin FactTexts
    BY <1>1, <2>1, <2>3 DEF DeterministicAnswer, Goto, Step, Advances, Moves, WorkerUnchanged,
                            BeforeUser
  <2> QED
    BY <2>2, <2>3
<1>2. CASE HandleAccepted
  <2>1. work.pc = "accepted" /\ work.pc \in BeforeUser /\ Step
    BY <1>2 DEF HandleAccepted, Working, BeforeUser
  <2>2. CASE Raise
    BY <2>1, <2>2, RaiseCloses DEF Ends, Step, WorkerUnchanged
  <2>3. CASE Goto("pending", NoRoute) /\ UNCHANGED <<turns, queue, faults>>
    BY <2>1, <2>3 DEF Goto, Step, Advances, Moves, WorkerUnchanged, BeforeUser
  <2>4. CASE Exchange("accepted recovery")
    BY <2>1, <2>4, ExchangeCloses
  <2>5. ASSUME NEW r \in AcceptedUnadmitted, RecordUser("route run", r)
        PROVE  Turning
    <3>1. CASE SaveFails
      BY <2>1, <3>1, FailedSaveCloses
    <3>2. CASE Saved(<<User(work.said)>>) /\ Goto("route run", r) /\ UNCHANGED queue
      BY <2>1, <3>2 DEF Saved, Goto, Step, Resumes, Moves, Saves, WorkerUnchanged
    <3> QED
      BY <2>5, <3>1, <3>2 DEF RecordUser
  <2> QED
    BY <1>2, <2>2, <2>3, <2>4, <2>5 DEF HandleAccepted
<1>3. CASE HandlePending
  <2>1. work.pc = "pending" /\ work.pc \in BeforeUser /\ Step
    BY <1>3 DEF HandlePending, Working, BeforeUser
  <2>2. CASE Raise
    BY <2>1, <2>2, RaiseCloses DEF Ends, Step, WorkerUnchanged
  <2>3. CASE Goto("decide", NoRoute) /\ UNCHANGED <<turns, queue, faults>>
    BY <2>1, <2>3 DEF Goto, Step, Advances, Moves, WorkerUnchanged, BeforeUser
  <2>4. CASE Exchange("pending decision") \/ Exchange("ambiguous")
    BY <2>1, <2>4, ExchangeCloses
  <2>5. ASSUME NEW r \in PendingAcceptance, PendingAcceptance = {r}, 
               work.said \in WorkAnswers \cup ChatAnswers,
               \/ work.said \in ChatAnswers /\ Resolve("corrected", r, "corrected")
               \/ work.said \notin ChatAnswers /\ ModelRouteTask(r) /\ Resolve("accepted", r, "resolved")
               \/ RecordUser("refused", r)
        PROVE  Turning
    <3>1. CASE SaveFails
      BY <2>1, <3>1, FailedSaveCloses
    <3>2. CASE Resolve("corrected", r, "corrected") /\ ~SaveFails
      BY <2>1, <2>5, <3>2 DEF Resolve, RecordUserAndAppend, Saved, Goto, Step, Corrects, Moves, Saves,
                         WorkerUnchanged, Hands
    <3>3. CASE /\ work.said \notin ChatAnswers /\ ModelRouteTask(r)
               /\ Resolve("accepted", r, "resolved") /\ ~SaveFails
      BY <2>1, <2>5, <3>3 DEF Resolve, RecordUserAndAppend, Saved, Goto, Step, Accepts, Moves, Saves,
                         WorkerUnchanged, Hands, ModelRouteTask
    <3>4. CASE RecordUser("refused", r) /\ ~SaveFails
      BY <2>1, <2>5, <3>4 DEF RecordUser, Saved, Goto, Step, Refuses, Moves, Saves, WorkerUnchanged
    <3> QED
      BY <2>5, <3>1, <3>2, <3>3, <3>4
  <2>6. CASE Turning
    BY <2>6
  <2>7. CASE ~Turning
    <3>1. /\ PendingAcceptance # {} /\ ~(Cardinality(PendingAcceptance) > 1)
          /\ work.said \in WorkAnswers \cup ChatAnswers
      BY <1>3, <2>2, <2>3, <2>4, <2>7 DEF HandlePending
    <3>2. PICK r \in PendingAcceptance :
               \/ work.said \in ChatAnswers /\ Resolve("corrected", r, "corrected")
               \/ work.said \notin ChatAnswers /\ ModelRouteTask(r)
                    /\ Resolve("accepted", r, "resolved")
               \/ RecordUser("refused", r)
      BY <1>3, <2>2, <2>3, <2>4, <2>7 DEF HandlePending
    <3>3. PendingAcceptance = {r}
      BY <3>1, FewPending
    <3> QED
      BY <2>5, <3>1, <3>2, <3>3
  <2> QED
    BY <2>6, <2>7
<1>4. CASE AwaitResolved
  <2>1. work.pc = "resolved" /\ work.pc \in AfterUser /\ WorkerUnchanged /\ UNCHANGED outcome
    BY <1>4 DEF AwaitResolved, Working, AfterUser, Step, WorkerUnchanged
  <2>2. CASE TimesOut("accepted", work.route)
    BY <2>1, <2>2, TimeoutCloses DEF Ends
  <2>3. CASE InLog("accepted", work.route) /\ Goto("route run", work.route)
             /\ UNCHANGED <<turns, queue, faults>>
    BY <2>1, <2>3 DEF Goto, Continues, Moves
  <2> QED
    BY <1>4, <2>2, <2>3 DEF AwaitResolved
<1>5. CASE AwaitCorrected
  <2>1. work.pc = "corrected" /\ work.pc \in AfterUser /\ WorkerUnchanged /\ UNCHANGED outcome
    BY <1>5 DEF AwaitCorrected, Working, AfterUser, Step, WorkerUnchanged
  <2> QED
    BY <1>5, <2>1, TimeoutCloses, ReplyCloses DEF AwaitCorrected, Ends
<1>6. CASE AwaitProposed
  <2>1. work.pc = "proposed" /\ work.pc \in AfterUser /\ WorkerUnchanged /\ UNCHANGED outcome
    BY <1>6 DEF AwaitProposed, Working, AfterUser, Step, WorkerUnchanged
  <2> QED
    BY <1>6, <2>1, TimeoutCloses, ReplyCloses DEF AwaitProposed, Ends
<1>7. CASE Refused
  <2>1. work.pc = "refused" /\ work.pc \in AfterUser /\ WorkerUnchanged /\ UNCHANGED outcome
    BY <1>7 DEF Refused, Working, AfterUser, Step, WorkerUnchanged
  <2> QED
    BY <1>7, <2>1, ReplyCloses DEF Refused, Ends
<1>8. CASE RunModelRoute
  <2>1. /\ work.pc = "route run" /\ work.pc \in AfterUser /\ WorkerUnchanged
        /\ UNCHANGED outcome
    BY <1>8 DEF RunModelRoute, Working, AfterUser, Step, WorkerUnchanged
  <2>2. CASE SubmitTask(work.route)
    BY <2>1, <2>2 DEF SubmitTask, Goto, Admits, Moves, Hands
  <2> QED
    BY <1>8, <2>1, <2>2, ReplyCloses, RaiseCloses DEF RunModelRoute, Ends
<1>9. CASE RunTask
  <2>1. /\ work.pc = "run" /\ work.pc \in AfterUser /\ WorkerUnchanged
        /\ UNCHANGED outcome
    BY <1>9 DEF RunTask, Working, AfterUser, Step, WorkerUnchanged
  <2>2. CASE SubmitTask(Len(turns))
    BY <2>1, <2>2 DEF SubmitTask, Goto, Admits, Moves, Hands
  <2> QED
    BY <1>9, <2>1, <2>2, RaiseCloses DEF RunTask, Ends
<1>10. CASE AwaitAdmitted
  <2>1. work.pc = "admitted" /\ work.pc \in AfterUser /\ WorkerUnchanged
    BY <1>10 DEF AwaitAdmitted, Working, AfterUser, WorkerUnchanged
  <2>2. CASE /\ InLog("admitted", work.route)
             /\ outcome' = [outcome EXCEPT ![work.route] = "running"]
             /\ Goto("result", work.route) /\ UNCHANGED <<turns, queue, faults>>
    BY <2>1, <2>2 DEF Goto, Begins, Moves
  <2> QED
    BY <1>10, <2>1, <2>2, TimeoutCloses, RaiseCloses DEF AwaitAdmitted, Ends
<1>11. CASE TaskResult
  <2>1. work.pc = "result" /\ work.pc \in AfterUser /\ WorkerUnchanged
    BY <1>11 DEF TaskResult, Working, AfterUser, WorkerUnchanged
  <2>2. PICK how \in {"ok", "failed", "unproven", "denied", "error"} :
          /\ outcome' = [outcome EXCEPT ![work.route] =
                               IF how \in {"denied", "error"} THEN "closed" ELSE how]
          /\ Reply("denied") \/ Raise \/ (Finish /\ UNCHANGED <<turns, queue, faults>>)
    BY <1>11 DEF TaskResult
  <2>3. Raise \/ Reply("denied")
    BY <2>2 DEF Raise
  <2>4. Closes
    BY <2>1, <2>3, RaiseCloses, ReplyCloses
  <2> QED
    BY <2>1, <2>2, <2>4 DEF Ends
<1>12. CASE Decide
  <2>1. work.pc = "decide" /\ work.pc \in BeforeUser /\ Step /\ work.said \in AllTexts
    BY <1>12 DEF Decide, Working, BeforeUser, ThreadInv, Between
  <2>2. CASE \E answer \in {"refusal", "no referent", "clarification", "recorded diagnosis"} :
               Exchange(answer)
    BY <2>1, <2>2, ExchangeCloses
  <2>3. CASE Goto("model", NoRoute) /\ UNCHANGED <<turns, queue, faults>>
    BY <2>1, <2>3 DEF Goto, Step, Advances, Moves, WorkerUnchanged, BeforeUser
  <2>4. CASE /\ work.said \in Followups \/ DecideRoute(work.said) = "work"
             /\ RecordUser("run", NoRoute)
    <3>1. work.said \notin Prose
      BY <2>1, <2>4, RoutedToWork DEF Prose
    <3>2. CASE SaveFails
      BY <2>1, <3>2, FailedSaveCloses
    <3>3. CASE Saved(<<User(work.said)>>) /\ Goto("run", NoRoute) /\ UNCHANGED queue
      BY <2>1, <3>1, <3>3 DEF Saved, Goto, Step, Runs, Moves, Saves, WorkerUnchanged
    <3> QED
      BY <2>4, <3>2, <3>3 DEF RecordUser
  <2> QED
    BY <1>12, <2>2, <2>3, <2>4 DEF Decide
<1>13. CASE ModelProposal
  <2>1. work.pc = "model" /\ work.pc \in BeforeUser /\ Step
    BY <1>13 DEF ModelProposal, Working, BeforeUser
  <2>2. CASE Exchange("no proposal") \/ Exchange("conversation only")
    BY <2>1, <2>2, ExchangeCloses
  <2>3. CASE Raise
    BY <2>1, <2>3, RaiseCloses DEF Ends, Step, WorkerUnchanged
  <2>4. CASE Propose("proposed")
    <3>1. CASE SaveFails
      BY <2>1, <3>1, FailedSaveCloses
    <3>2. CASE ~SaveFails
      BY <2>1, <2>4, <3>2 DEF Propose, RecordUserAndAppend, Saved, Goto, Step, Proposes, Moves,
                              Saves, WorkerUnchanged, Hands
    <3> QED
      BY <3>1, <3>2
  <2> QED
    BY <1>13, <2>2, <2>3, <2>4 DEF ModelProposal
<1> QED
  BY <1>1, <1>2, <1>3, <1>4, <1>5, <1>6, <1>7, <1>8, <1>9, <1>10, <1>11, <1>12, <1>13 DEF Worker

-----------------------------------------------------------------------------
(* The types and the turn that is under way.                               *)

\* The lengths are numbers within their bounds.
LEMMA Lengths ==
  ASSUME TurnTypeOK
  PROVE  /\ Len(turns) \in Nat /\ Len(log) \in Nat /\ Len(queue) \in Nat
         /\ MaxTurns \in Nat /\ Len(turns) <= MaxTurns /\ NoRoute \in 0 .. MaxTurns
<1>1. Len(turns) \in Nat /\ Len(log) \in Nat /\ Len(queue) \in Nat
  BY LenProperties DEF TurnTypeOK
<1>2. MaxTurns \in Nat /\ Len(turns) <= MaxTurns
  BY BoundsAreNat DEF TurnTypeOK
<1> QED
  BY <1>1, <1>2 DEF NoRoute

\* The conversation only grows.
Grows == Len(turns) <= Len(turns') /\ \A i \in 1 .. Len(turns) : turns'[i] = turns[i]

\* What a step of the turn stores.
LEMMA StoredTurns ==
  ASSUME TurnTypeOK, ThreadInv, SpaceInv, Turning
  PROVE  /\ turns' \in Seq(TurnRecord) /\ Len(turns') <= MaxTurns /\ Grows
         /\ \/ turns' = turns
            \/ /\ work.pc \in BeforeUser
               /\ work' .pc \in AfterUser => Len(turns') = Len(turns) + 1
               /\ turns'[Len(turns) + 1] = User(work.said)
               /\ Len(turns') >= Len(turns) + 1
            \/ work'.pc = "callback"
<1>1. turns \in Seq(TurnRecord) /\ Len(turns) \in Nat /\ MaxTurns \in Nat /\ Len(turns) <= MaxTurns
  BY BoundsAreNat, LenProperties DEF TurnTypeOK
<1>2. work.pc \notin Between => User(work.said) \in TurnRecord
  BY DEF User, TurnRecord, ThreadInv
<1>3. \A a \in AnswerTexts : [role |-> "assistant", text |-> a] \in TurnRecord
  BY DEF AnswerTexts, TurnRecord
<1>4. CASE turns' = turns
  BY <1>1, <1>4 DEF Grows
<1>5. CASE work.pc \in BeforeUser /\ turns' = turns \o <<User(work.said)>>
  <2>1. work.pc \notin Between /\ Len(turns) + 2 <= MaxTurns
    BY <1>5 DEF BeforeUser, Between, SpaceInv
  <2> QED
    BY <1>1, <1>2, <1>5, <2>1, ConcatOne DEF Grows
<1>6. CASE Ends
  <2>1. work'.pc = "callback"
    BY <1>6, FinishEffect DEF Ends, Closes, ThreadInv
  <2>2. CASE work.pc \in BeforeUser
    <3>1. work.pc \notin Between /\ Len(turns) + 2 <= MaxTurns /\ work.pc \notin AfterUser
      BY <2>2 DEF BeforeUser, Between, SpaceInv, AfterUser
    <3>2. CASE turns' = turns
      BY <1>4, <3>2
    <3>3. CASE turns' # turns
      <4>1. PICK a \in AnswerTexts :
              turns' = turns \o <<User(work.said), [role |-> "assistant", text |-> a]>>
        BY <1>6, <3>1, <3>3 DEF Ends, Closes
      <4> QED
        BY <1>1, <1>2, <1>3, <2>1, <3>1, <4>1, ConcatTwo DEF Grows
    <3> QED
      BY <3>2, <3>3
  <2>3. CASE work.pc \notin BeforeUser
    <3>1. CASE turns' = turns
      BY <1>4, <3>1
    <3>2. CASE turns' # turns
      <4>1. PICK a \in AnswerTexts : turns' = turns \o <<[role |-> "assistant", text |-> a]>>
        BY <1>6, <2>3, <3>2 DEF Ends, Closes
      <4>2. Len(turns) + 1 <= MaxTurns
        BY <1>6, <2>3, <3>2 DEF Ends, Closes, SpaceInv
      <4> QED
        BY <1>1, <1>3, <2>1, <4>1, <4>2, ConcatOne DEF Grows
    <3> QED
      BY <3>1, <3>2
  <2> QED
    BY <2>2, <2>3
<1>7. Ends \/ turns' = turns \/ (work.pc \in BeforeUser /\ turns' = turns \o <<User(work.said)>>)
  BY DEF Turning, Advances, Resumes, Refuses, Runs, Accepts, Corrects, Proposes, Continues,
         Admits, Begins, Moves, Saves, BeforeUser
<1> QED
  BY <1>4, <1>5, <1>6, <1>7

\* Where a step of the turn leads.
LEMMA TurnMoves ==
  ASSUME TurnTypeOK, ThreadInv, SpaceInv, Turning
  PROVE  /\ work.pc \notin Between /\ WorkerUnchanged
         /\ work'.f = work.f
         /\ work' \in [pc : BeforeUser \cup AfterUser \cup Between, f : Submits \cup {NoRoute},
                       said : AllTexts \cup {NoText}, route : 0 .. MaxTurns]
         /\ faults' \in [crash : Nat, timeout : Nat, save : Nat]
         /\ \/ work'.pc = "callback" /\ Finish
            \/ /\ work'.pc \in BeforeUser \cup AfterUser /\ UNCHANGED fut
               /\ work'.said = work.said
               /\ work'.pc \in BeforeUser => work.pc \in BeforeUser /\ UNCHANGED turns
               /\ work.pc \in AfterUser => UNCHANGED turns
<1> USE DEF BeforeUser, AfterUser, Between
<1>1. CASE Ends
  <2>1. work'= [pc |-> "callback", f |-> work.f, said |-> NoText, route |-> NoRoute]
    BY <1>1 DEF Ends, Closes, Finish, Idle
  <2>2. NoRoute \in 0 .. MaxTurns
    BY BoundsAreNat DEF NoRoute
  <2>3. work.f \in Submits
    BY <1>1 DEF Ends, Closes, ThreadInv
  <2> QED
    BY <1>1, <2>1, <2>2, <2>3 DEF Ends, Closes
<1>2. ASSUME NEW from \in BeforeUser \cup AfterUser, NEW to \in BeforeUser \cup AfterUser,
             NEW route \in 0 .. MaxTurns, Moves(from, to, route),
             \/ UNCHANGED turns
             \/ from \in BeforeUser /\ to \in AfterUser,
             to \in BeforeUser => from \in BeforeUser
      PROVE  /\ work.pc \notin Between /\ WorkerUnchanged
             /\ work'.f = work.f
             /\ work' \in [pc : BeforeUser \cup AfterUser \cup Between, f : Submits \cup {NoRoute},
                           said : AllTexts \cup {NoText}, route : 0 .. MaxTurns]
             /\ faults' \in [crash : Nat, timeout : Nat, save : Nat]
             /\ work'.pc \in BeforeUser \cup AfterUser /\ UNCHANGED fut
             /\ work'.said = work.said
             /\ work'.pc \in BeforeUser => work.pc \in BeforeUser /\ UNCHANGED turns
             /\ work.pc \in AfterUser => UNCHANGED turns
  <2>1. /\ work' = [pc |-> to, f |-> work.f, said |-> work.said, route |-> route]
        /\ work.pc = from
    BY <1>2, MoveEffect DEF Moves
  <2>2. work.f \in Submits \cup {NoRoute} /\ work.said \in AllTexts \cup {NoText}
    BY DEF TurnTypeOK
  <2>3. faults' \in [crash : Nat, timeout : Nat, save : Nat]
    BY <1>2 DEF Moves, TurnTypeOK
  <2> QED
    BY <1>2, <2>1, <2>2, <2>3, ZenonT(40) DEF Moves
<1>3. NoRoute \in 0 .. MaxTurns /\ MaxTurns \in Nat /\ Len(turns) \in Nat
  BY Lengths
<1>4. CASE Advances
  BY <1>2, <1>3, <1>4 DEF Advances
<1>5. CASE Resumes
  <2>1. AcceptedUnadmitted \subseteq 0 .. MaxTurns
    BY <1>3, InStream DEF AcceptedUnadmitted, StreamEvent
  <2> QED
    BY <1>2, <1>5, <2>1 DEF Resumes
<1>6. CASE Refuses \/ Corrects
  <2>1. PendingAcceptance \subseteq 0 .. MaxTurns
    BY <1>3, InStream DEF PendingAcceptance
  <2> QED
    BY <1>2, <1>6, <2>1 DEF Refuses, Corrects
<1>7. CASE Runs
  BY <1>2, <1>3, <1>7 DEF Runs
<1>8. CASE Accepts
  <2>1. \A r \in 1 .. Len(turns) : r \in 0 .. MaxTurns
    BY Lengths
  <2> QED
    BY <1>2, <1>8, <2>1 DEF Accepts
<1>9. CASE Proposes
  <2>1. Len(turns) + 1 \in 0 .. MaxTurns
    BY <1>3, <1>9 DEF SpaceInv, Proposes, Moves
  <2> QED
    BY <1>2, <1>9, <2>1 DEF Proposes
<1>10. CASE Continues \/ Begins
  <2>1. work.route \in 0 .. MaxTurns
    BY DEF TurnTypeOK
  <2> QED
    BY <1>2, <1>10, <2>1 DEF Continues, Begins
<1>11. CASE Admits
  <2>1. work.route \in 0 .. MaxTurns /\ Len(turns) \in 0 .. MaxTurns
    <3>1. work.route \in 0 .. MaxTurns
      BY DEF TurnTypeOK
    <3> QED
      BY <3>1, Lengths
  <2> QED
    BY <1>2, <1>11, <2>1 DEF Admits
<1> QED
  BY <1>1, <1>4, <1>5, <1>6, <1>7, <1>8, <1>9, <1>10, <1>11 DEF Turning
\* What may be handed to the writer.
Handed(e) ==
  /\ e.kind = "proposed" => e.ref = Len(turns) + 1
  /\ e.kind \in Resolutions => PendingAcceptance = {e.ref}
  /\ e.kind = "accepted" => Confirmed(e.ref)'
  /\ e.kind = "admitted" /\ e.text \in Prose => e.ref \in ResolvedAs("accepted")

\* Two neighbours of the invariant that only say how the parts fit together.
Stores == TurnTypeOK /\ ThreadInv /\ SpaceInv /\ RefInv /\ LogInv /\ QueueInv /\ WorkInv

\* Anything a turn hands over is a well-formed event about a stored turn of the user.
LEMMA HandedEvents ==
  ASSUME Stores, Turning
  PROVE  \/ UNCHANGED queue
         \/ \E e \in StreamEvent :
              /\ queue' = Append(queue, e) /\ Handed(e)
              /\ e.ref \in 1 .. Len(turns') /\ turns'[e.ref] = User(e.text)
<1> USE DEF Stores
<1>1. /\ turns' \in Seq(TurnRecord) /\ Len(turns') <= MaxTurns /\ Grows
      /\ turns \in Seq(TurnRecord)
  BY StoredTurns DEF TurnTypeOK
<1>2. /\ Len(turns) \in Nat /\ Len(turns') \in Nat /\ MaxTurns \in Nat
  BY <1>1, Lengths, LenProperties
<1>3. work.pc \notin Between /\ work.f \in Submits
  BY TurnMoves DEF ThreadInv
<1>4. ASSUME NEW kind \in {"proposed", "admitted"} \cup Resolutions,
             NEW ref \in 1 .. Len(turns'), NEW text \in AllTexts,
             Hands(kind, ref, text), turns'[ref] = User(text), 
             Handed(Event(kind, ref, text))
      PROVE  \E e \in StreamEvent :
              /\ queue' = Append(queue, e) /\ Handed(e)
              /\ e.ref \in 1 .. Len(turns') /\ turns'[e.ref] = User(e.text)
  <2>1. Event(kind, ref, text) = [kind |-> kind, ref |-> ref, text |-> text, by |-> work.f]
    BY DEF Event
  <2>2. Event(kind, ref, text) \in StreamEvent
    BY <1>1, <1>2, <1>3, <1>4, <2>1 DEF StreamEvent
  <2>3. Event(kind, ref, text).ref = ref /\ Event(kind, ref, text).text = text
    BY <2>1
  <2> QED
    BY <1>4, <2>2, <2>3 DEF Hands
\* A turn of the user that the stream or the worker refers to.
<1>5. ASSUME NEW r \in 1 .. Len(turns), turns[r].role = "user"
      PROVE  /\ turns[r].text \in AllTexts /\ turns[r] = User(turns[r].text)
             /\ r \in 1 .. Len(turns') /\ turns'[r] = turns[r]
  <2>1. turns[r] \in TurnRecord
    BY <1>1, ElementOfSeq
  <2>2. turns[r] \in [role : {"user"}, text : AllTexts]
    BY <1>5, <2>1 DEF TurnRecord
  <2> QED
    BY <1>1, <1>2, <2>2 DEF User, Grows
<1>6. ASSUME NEW i \in 1 .. Len(log)
      PROVE  log[i].ref \in 1 .. Len(turns) /\ turns[log[i].ref].role = "user"
  <2>1. log[i] \in LogSet
    BY <1>6 DEF LogSet
  <2>2. log[i].ref \in 1 .. Len(turns) /\ turns[log[i].ref] = User(log[i].text)
    BY <2>1 DEF RefInv, RefsHold
  <2> QED
    BY <2>2 DEF User
<1>7. CASE Accepts
  <2>1. PICK r \in 1 .. Len(turns) :
          /\ PendingAcceptance = {r} /\ turns[r].role = "user" /\ work.said \in WorkAnswers
          /\ Moves("pending", "resolved", r) /\ Saves /\ Hands("accepted", r, turns[r].text)
    BY <1>7 DEF Accepts
  <2>2. /\ turns' = turns \o <<User(work.said)>> /\ User(work.said) \in TurnRecord
    BY <1>3, <2>1 DEF Saves, User, TurnRecord, ThreadInv
  <2>3. Len(turns') = Len(turns) + 1 /\ turns'[Len(turns) + 1] = User(work.said)
    BY <1>1, <2>2, ConcatOne
  <2>4. Confirmed(r)'
    BY <1>2, <2>1, <2>3 DEF Confirmed, User
  <2>5. Handed(Event("accepted", r, turns[r].text))
    BY <2>1, <2>4 DEF Handed, Event
  <2> QED
    BY <1>4, <1>5, <2>1, <2>5 DEF Resolutions
<1>8. CASE Corrects
  <2>1. PICK r \in PendingAcceptance :
          /\ PendingAcceptance = {r} /\ Hands("corrected", r, turns[r].text)
    BY <1>8 DEF Corrects
  <2>2. r \in 1 .. Len(turns) /\ turns[r].role = "user"
    BY <1>6, InStream DEF PendingAcceptance
  <2>3. Handed(Event("corrected", r, turns[r].text))
    BY <2>1 DEF Handed, Event
  <2> QED
    BY <1>4, <1>5, <2>1, <2>2, <2>3 DEF Resolutions
<1>9. CASE Proposes
  <2>1. /\ Saves /\ Hands("proposed", Len(turns) + 1, work.said)
    BY <1>9 DEF Proposes
  <2>2. turns' = turns \o <<User(work.said)>> /\ User(work.said) \in TurnRecord
        /\ work.said \in AllTexts
    BY <1>3, <2>1 DEF Saves, User, TurnRecord, ThreadInv
  <2>3. Len(turns') = Len(turns) + 1 /\ turns'[Len(turns) + 1] = User(work.said)
    BY <1>1, <2>2, ConcatOne
  <2>4. Handed(Event("proposed", Len(turns) + 1, work.said))
    BY DEF Handed, Event, Resolutions
  <2>5. Len(turns) + 1 \in 1 .. Len(turns')
    BY <1>2, <2>3
  <2> QED
    BY <1>4, <2>1, <2>2, <2>3, <2>4, <2>5
<1>10. CASE Admits
  <2>1. PICK r : /\ r = (IF work.pc = "run" THEN Len(turns) ELSE work.route)
                 /\ work.pc \in {"route run", "run"}
                 /\ Hands("admitted", r, turns[r].text) /\ UNCHANGED turns
    BY <1>10 DEF Admits, Moves
  <2>2. CASE work.pc = "run"
    <3>1. /\ r \in 1 .. Len(turns) /\ turns[r].role = "user" /\ turns[r].text \notin Prose
      BY <1>2, <2>1, <2>2 DEF WorkInv
    <3>2. Handed(Event("admitted", r, turns[r].text))
      BY <3>1 DEF Handed, Event, Resolutions
    <3> QED
      BY <1>4, <1>5, <2>1, <3>1, <3>2
  <2>3. CASE work.pc = "route run"
    <3>1. r \in ResolvedAs("accepted")
      BY <2>1, <2>3 DEF WorkInv
    <3>2. /\ r \in 1 .. Len(turns) /\ turns[r].role = "user"
      BY <1>6, <3>1, InStream
    <3>3. Handed(Event("admitted", r, turns[r].text))
      BY <3>1 DEF Handed, Event, Resolutions
    <3> QED
      BY <1>4, <1>5, <2>1, <3>2, <3>3
  <2> QED
    BY <2>1, <2>2, <2>3
<1> QED
  BY <1>7, <1>8, <1>9, <1>10 DEF Turning, Ends, Closes, Advances, Resumes, Refuses, Runs,
                                  Continues, Begins
\* What a commit takes from the queue and makes of the stream.
LEMMA Committed ==
  ASSUME TurnTypeOK, CommitEvent
  PROVE  /\ queue # <<>> /\ Head(queue) \in StreamEvent /\ Head(queue) = queue[1]
         /\ Head(queue) \in QueueSet
         /\ queue' \in Seq(StreamEvent) /\ Len(queue') = Len(queue) - 1
         /\ \A i \in 1 .. Len(queue') : queue'[i] = queue[i + 1]
         /\ log' \in Seq(StreamEvent)
         /\ \/ /\ log' = log
               /\ Head(queue).kind = "admitted" /\ Head(queue).ref \in Admitted
            \/ /\ Len(log') = Len(log) + 1 /\ log'[Len(log) + 1] = Head(queue)
               /\ \A i \in 1 .. Len(log) : log'[i] = log[i]
               /\ log' = Append(log, Head(queue))
<1>1. queue \in Seq(StreamEvent) /\ queue # <<>> /\ log \in Seq(StreamEvent)
  BY DEF TurnTypeOK, CommitEvent
<1>2. /\ Head(queue) \in StreamEvent /\ Head(queue) = queue[1]
      /\ Tail(queue) \in Seq(StreamEvent) /\ Len(Tail(queue)) = Len(queue) - 1
      /\ \A i \in 1 .. Len(Tail(queue)) : Tail(queue)[i] = queue[i + 1]
      /\ 1 \in 1 .. Len(queue)
  BY <1>1, HeadTailProperties, EmptySeq, LenProperties
<1>3. Head(queue) \in QueueSet
  BY <1>2 DEF QueueSet
<1>4. \/ /\ log' = log
         /\ Head(queue).kind = "admitted" /\ Head(queue).ref \in Admitted
      \/ log' = Append(log, Head(queue))
  BY DEF CommitEvent
<1>5. queue' = Tail(queue)
  BY DEF CommitEvent
<1>6. CASE log' = Append(log, Head(queue))
  <2>1. /\ log' \in Seq(StreamEvent) /\ Len(log') = Len(log) + 1
        /\ log'[Len(log) + 1] = Head(queue)
        /\ \A i \in 1 .. Len(log) : log'[i] = log[i]
    BY <1>1, <1>2, <1>6, AppendOne
  <2> QED
    BY <1>1, <1>2, <1>3, <1>5, <1>6, <2>1
<1>7. CASE log' = log
  BY <1>1, <1>2, <1>3, <1>4, <1>5, <1>6, <1>7
<1> QED
  BY <1>4, <1>6, <1>7

\* A step that leaves everything but the queue and the stream as it is.
LEMMA KeptTypes ==
  ASSUME TurnTypeOK,
         UNCHANGED <<hub, turns, outcome, fut, said, active, callbacks, ui, work, faults>>,
         UNCHANGED <<log, queue>> \/ (log' \in Seq(StreamEvent) /\ queue' \in Seq(StreamEvent))
  PROVE  TurnTypeOK'
<1>1. log' \in Seq(StreamEvent) /\ queue' \in Seq(StreamEvent)
  BY DEF TurnTypeOK
<1>2. /\ hub' \in {"up", "closing", "down"} /\ turns' \in Seq(TurnRecord)
      /\ Len(turns') <= MaxTurns
      /\ outcome' \in [1 .. MaxTurns -> {"none", "running", "ok", "failed", "unproven", "closed"}]
      /\ fut' \in [Submits -> {"none", "queued", "running", "done"}]
      /\ said' \in AllTexts \cup {NoText}
      /\ active' \in Submits \cup {NoRoute} /\ callbacks' \subseteq Submits
      /\ faults' \in [crash : Nat, timeout : Nat, save : Nat]
  BY DEF TurnTypeOK
<1> QED
  BY <1>1, <1>2 DEF TurnTypeOK

LEMMA TypeStep ==
  ASSUME Stores, [TurnNext]_turnVars
  PROVE  TurnTypeOK'
<1> USE DEF Stores
<1>1. CASE Turning
  <2>1. /\ turns' \in Seq(TurnRecord) /\ Len(turns') <= MaxTurns
    BY <1>1, StoredTurns
  <2>2. queue' \in Seq(StreamEvent)
    <3>1. queue \in Seq(StreamEvent)
      BY DEF TurnTypeOK
    <3> QED
      BY <1>1, <3>1, HandedEvents, AppendOne
  <2>3. fut' \in [Submits -> {"none", "queued", "running", "done"}]
    <3>1. CASE Finish
      BY <1>1, <3>1, FinishEffect, TurnMoves DEF ThreadInv
    <3>2. CASE UNCHANGED fut
      BY <3>2 DEF TurnTypeOK
    <3> QED
      BY <1>1, <3>1, <3>2, TurnMoves
  <2>4. /\ UNCHANGED <<hub, log, said, active, callbacks, ui>>
        /\ faults' \in [crash : Nat, timeout : Nat, save : Nat]
        /\ work' \in [pc : BeforeUser \cup AfterUser \cup Between, f : Submits \cup {NoRoute},
                      said : AllTexts \cup {NoText}, route : 0 .. MaxTurns]
    BY <1>1, TurnMoves DEF WorkerUnchanged
  <2>5. work' \in [pc : {"idle", "turn", "accepted", "pending", "decide", "model", "resolved",
                     "corrected", "proposed", "refused", "route run", "run", "admitted",
                     "result", "callback"},
               f : Submits \cup {NoRoute}, said : AllTexts \cup {NoText},
               route : 0 .. MaxTurns]
    BY <2>4 DEF BeforeUser, AfterUser, Between
  <2>6. outcome' \in [1 .. MaxTurns -> {"none", "running", "ok", "failed", "unproven", "closed"}]
    <3>1. outcome' = outcome
             \/ \E how \in {"running", "ok", "failed", "unproven", "closed"} :
                  outcome' = [outcome EXCEPT ![work.route] = how]
      BY <1>1 DEF Turning, Ends, Advances, Resumes, Refuses, Runs, Accepts, Corrects, Proposes,
                  Continues, Admits, Begins, Saves
    <3> QED
      BY <3>1 DEF TurnTypeOK
  <2> QED
    BY <2>1, <2>2, <2>3, <2>4, <2>5, <2>6 DEF TurnTypeOK
<1>2. CASE \E text \in Texts : Submit(text)
  <2>1. PICK text \in Texts, f \in Submits :
          /\ fut' = [fut EXCEPT ![f] = "queued"] /\ active' = f
          /\ ui' = [ui EXCEPT !.pc = "register", !.new = f] /\ said' = text
    BY <1>2 DEF Submit
  <2>2. text \in AllTexts
    BY TextsAreKinds
  <2>3. fut' \in [Submits -> {"none", "queued", "running", "done"}]
    BY <2>1 DEF TurnTypeOK
  <2>4. ui' \in [pc : {"idle", "register"}, new : Submits \cup {NoRoute},
             future : Submits \cup {NoRoute}]
    BY <2>1 DEF TurnTypeOK
  <2>5. UNCHANGED <<hub, turns, log, queue, outcome, callbacks, work, faults>>
    BY <1>2 DEF Submit
  <2> QED
    BY <2>1, <2>2, <2>3, <2>4, <2>5 DEF TurnTypeOK
<1>3. CASE Register
  <2>1. /\ ui' = [pc |-> "idle", new |-> NoRoute, future |-> ui.new]
        /\ active' = active \/ active' = NoRoute
        /\ callbacks' = callbacks \cup {ui.new} \/ callbacks' = callbacks
        /\ UNCHANGED <<hub, turns, log, queue, outcome, fut, said, work, faults>>
        /\ ui.pc = "register"
    BY <1>3 DEF Register, ClearActive
  <2>2. ui.new \in Submits
    BY <2>1 DEF ThreadInv
  <2> QED
    BY <2>1, <2>2, ZenonT(40) DEF TurnTypeOK
<1>4. CASE PollTurnCompletion
  <2>1. ui' \in [pc : {"idle", "register"}, new : Submits \cup {NoRoute},
             future : Submits \cup {NoRoute}]
    BY <1>4 DEF TurnTypeOK, PollTurnCompletion
  <2> QED
    BY <1>4, <2>1 DEF TurnTypeOK, PollTurnCompletion
<1>5. CASE Quit \/ Restart
  BY <1>5 DEF Quit, Restart, TurnTypeOK
<1>6. CASE Close \/ Crash
  <2>1. Reset /\ faults' \in [crash : Nat, timeout : Nat, save : Nat]
    BY <1>6, FaultEffect DEF Close, Crash
  <2>2. fut' \in [Submits -> {"none", "queued", "running", "done"}]
    BY <2>1 DEF TurnTypeOK, Reset
  <2>3. work' \in [pc : {"idle"}, f : {NoRoute}, said : {NoText}, route : {NoRoute}]
    BY <2>1 DEF Reset, Idle
  <2>4. ui' \in [pc : {"idle"}, new : {NoRoute}, future : {NoRoute}] /\ queue' = <<>>
        /\ hub' = "down" /\ active' = NoRoute /\ callbacks' = {} /\ said' = NoText
        /\ UNCHANGED <<turns, log, outcome>>
    BY <2>1 DEF Reset
  <2>5. queue' \in Seq(StreamEvent)
    BY <2>4
  <2>6. NoRoute \in 0 .. MaxTurns
    BY Lengths
  <2> QED
    BY <2>1, <2>2, <2>3, <2>4, <2>5, <2>6 DEF TurnTypeOK
<1>7. CASE CommitEvent
  <2>1. UNCHANGED <<hub, turns, outcome, fut, said, active, callbacks, ui, work, faults>>
    BY <1>7 DEF CommitEvent
  <2>2. queue' \in Seq(StreamEvent) /\ log' \in Seq(StreamEvent)
    BY <1>7, Committed
  <2> QED
    BY <2>1, <2>2, KeptTypes
<1>8. CASE Start
  <2>1. PICK f \in Submits :
          /\ fut' = [fut EXCEPT ![f] = "running"]
          /\ work' = [pc |-> "turn", f |-> f, said |-> said, route |-> NoRoute]
    BY <1>8 DEF Start
  <2>2. fut' \in [Submits -> {"none", "queued", "running", "done"}]
    BY <2>1 DEF TurnTypeOK
  <2>3. said' = NoText /\ UNCHANGED <<hub, turns, log, queue, outcome, active, callbacks, ui, faults>>
    BY <1>8 DEF Start
  <2>4. NoRoute \in 0 .. MaxTurns
    BY Lengths
  <2> QED
    BY <2>1, <2>2, <2>3, <2>4 DEF TurnTypeOK
<1>9. CASE DoneCallback
  <2>1. /\ active' = active \/ active' = NoRoute
        /\ callbacks' \subseteq callbacks
        /\ work' = Idle /\ UNCHANGED <<hub, turns, log, queue, outcome, fut, said, ui, faults>>
    BY <1>9 DEF DoneCallback, ClearActive
  <2>2. NoRoute \in 0 .. MaxTurns
    BY Lengths
  <2> QED
    BY <2>1, <2>2 DEF TurnTypeOK, Idle
<1>10. CASE UNCHANGED turnVars
  BY <1>10, KeptTypes DEF turnVars
<1> QED
  BY <1>1, <1>2, <1>3, <1>4, <1>5, <1>6, <1>7, <1>8, <1>9, <1>10, WorkerTurns DEF TurnNext
LEMMA ThreadStep ==
  ASSUME Stores, TurnTypeOK', [TurnNext]_turnVars
  PROVE  ThreadInv'
<1> USE DEF Stores, ThreadInv, ActiveIsTheTurn, Unfinished, Finished
<1>1. CASE Turning
  <2>1. work.pc \notin Between /\ WorkerUnchanged /\ work'.f = work.f /\ work.f \in Submits
    BY <1>1, TurnMoves
  <2>2. CASE work'.pc = "callback" /\ Finish
    <3>1. /\ fut'[work.f] = "done"
          /\ \A f \in Submits : f # work.f => fut'[f] = fut[f]
      BY <2>1, <2>2, FinishEffect
    <3> QED
      BY <2>1, <2>2, <3>1 DEF WorkerUnchanged, Between
  <2>3. CASE /\ work'.pc \in BeforeUser \cup AfterUser /\ UNCHANGED fut
             /\ work'.said = work.said
    <3>1. work'.pc # "callback"
      BY <2>3 DEF BeforeUser, AfterUser
    <3> QED
      BY <2>1, <2>3, <3>1 DEF WorkerUnchanged
  <2> QED
    BY <1>1, <2>2, <2>3, TurnMoves
<1>2. ASSUME NEW text \in Texts, Submit(text)
      PROVE  ThreadInv'
  <2>1. PICK f \in Submits :
          /\ fut[f] = "none" /\ fut' = [fut EXCEPT ![f] = "queued"] /\ active' = f
          /\ ui' = [ui EXCEPT !.pc = "register", !.new = f] /\ said' = text
    BY <1>2 DEF Submit
  <2>2. text \in AllTexts /\ UNCHANGED work
    BY <1>2, TextsAreKinds DEF Submit
  <2>3. ui'.new = f
    BY <2>1 DEF TurnTypeOK
  <2>4. \A g \in Submits : ~Unfinished(g)
    BY <1>2 DEF Submit, UnfinishedTurns
  <2>5. fut'[f] = "queued" /\ \A g \in Submits : g # f => fut'[g] = fut[g]
    BY <2>1 DEF TurnTypeOK
  <2> QED
    BY <2>1, <2>2, <2>3, <2>4, <2>5
<1>3. CASE Register
  <2>1. /\ ui'.pc = "idle" /\ UNCHANGED <<fut, said, work>> /\ ui.pc = "register"
        /\ active' = active \/ (Finished(ui.new) /\ active = ui.new)
    BY <1>3 DEF Register, ClearActive
  <2> QED
    BY <2>1
<1>4. CASE PollTurnCompletion
  <2>1. ui'.pc = "idle" /\ UNCHANGED <<fut, said, work, active>>
    BY <1>4 DEF PollTurnCompletion, TurnTypeOK
  <2> QED
    BY <2>1
<1>5. CASE Quit \/ Restart \/ CommitEvent \/ UNCHANGED turnVars
  <2>1. UNCHANGED <<fut, said, active, ui, work>>
    BY <1>5 DEF Quit, Restart, CommitEvent, turnVars
  <2> QED
    BY <2>1
<1>6. CASE Close \/ Crash
  <2>1. /\ fut' = [f \in Submits |-> IF Unfinished(f) THEN "done" ELSE fut[f]]
        /\ work'.pc = "idle" /\ ui'.pc = "idle"
    BY <1>6 DEF Close, Crash, Reset, Idle
  <2>2. \A f \in Submits : fut'[f] \notin {"queued", "running"}
    BY <2>1 DEF TurnTypeOK
  <2> QED
    BY <2>1, <2>2 DEF Between
<1>7. CASE Start
  <2>1. PICK f \in Submits :
          /\ fut[f] = "queued" /\ fut' = [fut EXCEPT ![f] = "running"]
          /\ work' = [pc |-> "turn", f |-> f, said |-> said, route |-> NoRoute]
    BY <1>7 DEF Start
  <2>2. UNCHANGED <<active, ui>>
    BY <1>7 DEF Start
  <2>3. fut'[f] = "running" /\ \A g \in Submits : g # f => fut'[g] = fut[g]
    BY <2>1 DEF TurnTypeOK
  <2>4. \A g \in Submits : g # f => fut[g] # "queued"
    BY <2>1
  <2> QED
    BY <2>1, <2>2, <2>3, <2>4
<1>8. CASE DoneCallback
  <2>1. /\ work.pc = "callback" /\ work'.pc = "idle" /\ UNCHANGED <<fut, said, ui>>
        /\ active' = active \/ active = work.f
    BY <1>8 DEF DoneCallback, ClearActive, Idle
  <2> QED
    BY <2>1 DEF Between
<1> QED
  BY <1>1, <1>2, <1>3, <1>4, <1>5, <1>6, <1>7, <1>8, WorkerTurns DEF TurnNext

LEMMA SpaceStep ==
  ASSUME Stores, TurnTypeOK', ThreadInv', [TurnNext]_turnVars
  PROVE  SpaceInv'
<1> USE DEF Stores
<1>1. CASE Turning
  <2>1. work.pc \notin Between /\ WorkerUnchanged /\ work.f \in Submits /\ fut[work.f] = "running"
    BY <1>1, TurnMoves DEF ThreadInv
  <2>2. \A f \in Submits : fut[f] # "queued"
    BY <2>1 DEF ThreadInv, ActiveIsTheTurn, Unfinished
  <2>3. \A f \in Submits : fut'[f] # "queued"
    BY <1>1, <2>1, <2>2, TurnMoves, FinishEffect
  <2>4. Len(turns) \in Nat /\ Len(turns') \in Nat /\ MaxTurns \in Nat
    BY <1>1, Lengths, StoredTurns, LenProperties
  <2>5. ASSUME work'.pc \in BeforeUser
        PROVE  (Len(turns) + 2 <= MaxTurns)'
    <3>1. work.pc \in BeforeUser /\ UNCHANGED turns
      BY <1>1, <2>5, TurnMoves DEF BeforeUser
    <3> QED
      BY <3>1 DEF SpaceInv
  <2>6. ASSUME work'.pc \in AfterUser
        PROVE  (Len(turns) + 1 <= MaxTurns)'
    <3>1. CASE work.pc \in AfterUser
      <4>1. UNCHANGED turns
        BY <1>1, <2>6, <3>1, TurnMoves DEF AfterUser
      <4> QED
        BY <3>1, <4>1 DEF SpaceInv
    <3>2. CASE work.pc \in BeforeUser
      <4>1. Len(turns') = Len(turns) + 1 \/ turns' = turns
        BY <1>1, <2>6, <3>2, StoredTurns DEF AfterUser
      <4> QED
        BY <2>4, <3>2, <4>1 DEF SpaceInv
    <3> QED
      BY <2>1, <3>1, <3>2, PcSets
  <2> QED
    BY <2>3, <2>5, <2>6 DEF SpaceInv
<1>2. ASSUME NEW text \in Texts, Submit(text)
      PROVE  SpaceInv'
  <2>1. /\ Len(turns) + 2 <= MaxTurns /\ UNCHANGED <<turns, work>>
    BY <1>2 DEF Submit
  <2> QED
    BY <2>1 DEF SpaceInv
<1>3. CASE Register \/ PollTurnCompletion \/ Quit \/ Restart \/ CommitEvent \/ UNCHANGED turnVars
  <2>1. UNCHANGED <<turns, fut, work>>
    BY <1>3 DEF Register, PollTurnCompletion, Quit, Restart, CommitEvent, turnVars
  <2> QED
    BY <2>1 DEF SpaceInv
<1>4. CASE Close \/ Crash
  <2>1. /\ fut' = [f \in Submits |-> IF Unfinished(f) THEN "done" ELSE fut[f]]
        /\ work'.pc = "idle"
    BY <1>4 DEF Close, Crash, Reset, Idle
  <2>2. \A f \in Submits : fut'[f] # "queued"
    BY <2>1 DEF TurnTypeOK, Unfinished
  <2> QED
    BY <2>1, <2>2 DEF SpaceInv, BeforeUser, AfterUser
<1>5. CASE Start
  <2>1. PICK f \in Submits :
          /\ fut[f] = "queued" /\ fut' = [fut EXCEPT ![f] = "running"]
          /\ work' = [pc |-> "turn", f |-> f, said |-> said, route |-> NoRoute]
    BY <1>5 DEF Start
  <2>2. Len(turns) + 2 <= MaxTurns /\ UNCHANGED turns
    BY <1>5, <2>1 DEF Start, SpaceInv
  <2>3. work'.pc = "turn"
    BY <2>1
  <2> QED
    BY <2>2, <2>3 DEF SpaceInv, AfterUser
<1>6. CASE DoneCallback
  <2>1. work'.pc = "idle" /\ UNCHANGED <<fut, turns>>
    BY <1>6 DEF DoneCallback, Idle
  <2> QED
    BY <2>1 DEF SpaceInv, BeforeUser, AfterUser
<1> QED
  BY <1>1, <1>2, <1>3, <1>4, <1>5, <1>6, WorkerTurns DEF TurnNext

-----------------------------------------------------------------------------
(* The stream, the queue and the conversation they refer to.               *)

\* The queue takes an event, or loses its head to the stream, or is lost.
Keeps == UNCHANGED log /\ (UNCHANGED queue \/ queue' = <<>>)
Enqueues ==
  /\ UNCHANGED log
  /\ \E e \in StreamEvent :
       /\ queue' = Append(queue, e) /\ Handed(e)
       /\ e.ref \in 1 .. Len(turns') /\ turns'[e.ref] = User(e.text)

LEMMA StreamStep ==
  ASSUME Stores, [TurnNext]_turnVars
  PROVE  Grows /\ (Keeps \/ CommitEvent \/ Enqueues)
<1>0. Len(turns) \in Nat
  BY Lengths DEF Stores
<1>1. CASE Turning
  BY <1>1, StoredTurns, TurnMoves, HandedEvents DEF Stores, WorkerUnchanged, Keeps, Enqueues
<1>2. CASE \/ \E text \in Texts : Submit(text)
           \/ Register \/ PollTurnCompletion \/ Quit \/ Restart \/ Start \/ DoneCallback
           \/ UNCHANGED turnVars
  <2>1. UNCHANGED <<turns, log, queue>>
    BY <1>2 DEF Submit, Register, PollTurnCompletion, Quit, Restart, Start, DoneCallback, turnVars
  <2> QED
    BY <1>0, <2>1 DEF Grows, Keeps
<1>3. CASE Close \/ Crash
  BY <1>0, <1>3 DEF Close, Crash, Reset, Grows, Keeps
<1>4. CASE CommitEvent
  BY <1>0, <1>4 DEF CommitEvent, Grows
<1> QED
  BY <1>1, <1>2, <1>3, <1>4, WorkerTurns DEF TurnNext, Stores

\* What a grown conversation still says.
LEMMA GrownTurns ==
  ASSUME TurnTypeOK, TurnTypeOK', Grows
  PROVE  /\ \A r, text : r \in 1 .. Len(turns) /\ turns[r] = User(text)
                           => r \in 1 .. Len(turns') /\ turns'[r] = User(text)
         /\ \A r : Confirmed(r) => Confirmed(r)'
<1>1. Len(turns) \in Nat /\ Len(turns') \in Nat
  BY LenProperties DEF TurnTypeOK
<1> QED
  BY <1>1 DEF Grows, Confirmed

\* What the readers of the stream make of one more event.
LEMMA CommitReads ==
  ASSUME TurnTypeOK, TurnTypeOK', CommitEvent
  PROVE  LET h == Head(queue) IN
         /\ h \in StreamEvent /\ h \in QueueSet
         /\ QueueSet' \subseteq QueueSet /\ LogSet' \subseteq LogSet \cup {h}
         /\ \A kind, r : r \in ResolvedAs(kind)'
                           <=> r \in ResolvedAs(kind) \/ (h.kind = kind /\ h.ref = r)
         /\ Proposed' = ResolvedAs("proposed")' /\ Proposed = ResolvedAs("proposed")
         /\ Admitted' = ResolvedAs("admitted")' /\ Admitted = ResolvedAs("admitted")
<1> DEFINE h == Head(queue)
<1>1. /\ h \in StreamEvent /\ h \in QueueSet
      /\ Len(queue') = Len(queue) - 1 /\ \A i \in 1 .. Len(queue') : queue'[i] = queue[i + 1]
      /\ \/ log' = log /\ h.kind = "admitted" /\ h.ref \in Admitted
         \/ /\ Len(log') = Len(log) + 1 /\ log'[Len(log) + 1] = h
            /\ \A i \in 1 .. Len(log) : log'[i] = log[i]
  BY Committed
<1>2. Len(log) \in Nat /\ Len(queue) \in Nat
  BY Lengths
<1>3. QueueSet' \subseteq QueueSet
  BY <1>1, <1>2 DEF QueueSet
<1>4. /\ Proposed' = ResolvedAs("proposed")' /\ Proposed = ResolvedAs("proposed")
      /\ Admitted' = ResolvedAs("admitted")' /\ Admitted = ResolvedAs("admitted")
  BY DEF Proposed, Admitted, ResolvedAs
<1>5. CASE log' = log /\ h.kind = "admitted" /\ h.ref \in Admitted
  <2>1. LogSet' = LogSet /\ \A kind : ResolvedAs(kind)' = ResolvedAs(kind)
    BY <1>5 DEF LogSet, ResolvedAs
  <2> QED
    BY <1>1, <1>3, <1>4, <1>5, <2>1
<1>6. CASE /\ Len(log') = Len(log) + 1 /\ log'[Len(log) + 1] = h
           /\ \A i \in 1 .. Len(log) : log'[i] = log[i]
  <2>1. LogSet' = LogSet \cup {h}
    <3>1. 1 .. Len(log') = (1 .. Len(log)) \cup {Len(log) + 1}
      BY <1>2, <1>6
    <3> QED
      BY <1>6, <3>1 DEF LogSet
  <2>2. \A kind, r : r \in ResolvedAs(kind)'
                       <=> r \in ResolvedAs(kind) \/ (h.kind = kind /\ h.ref = r)
    BY <2>1 DEF ResolvedAs
  <2> QED
    BY <1>1, <1>3, <1>4, <2>1, <2>2
<1> QED
  BY <1>1, <1>5, <1>6

LEMMA EnqueueReads ==
  ASSUME TurnTypeOK, NEW e \in StreamEvent, queue' = Append(queue, e)
  PROVE  /\ QueueSet' = QueueSet \cup {e}
         /\ Len(queue') = Len(queue) + 1 /\ queue'[Len(queue) + 1] = e
         /\ \A i \in 1 .. Len(queue) : queue'[i] = queue[i]
<1>1. queue \in Seq(StreamEvent) /\ Len(queue) \in Nat
  BY LenProperties DEF TurnTypeOK
<1>2. /\ Len(queue') = Len(queue) + 1 /\ queue'[Len(queue) + 1] = e
      /\ \A i \in 1 .. Len(queue) : queue'[i] = queue[i]
  BY <1>1, AppendOne
<1>3. 1 .. Len(queue') = (1 .. Len(queue)) \cup {Len(queue) + 1}
  BY <1>1, <1>2
<1> QED
  BY <1>2, <1>3 DEF QueueSet

LEMMA EmptyQueue ==
  ASSUME queue' = <<>>
  PROVE  QueueSet' = {} /\ Len(queue') = 0
  BY DEF QueueSet

LEMMA KeptReads ==
  ASSUME UNCHANGED log
  PROVE  /\ UNCHANGED LogSet /\ UNCHANGED Proposed /\ UNCHANGED Admitted
         /\ \A kind : ResolvedAs(kind)' = ResolvedAs(kind)
         /\ UNCHANGED Resolved /\ UNCHANGED PendingAcceptance
  BY DEF LogSet, Proposed, Admitted, ResolvedAs, Resolved, PendingAcceptance

\* Nothing is ever taken out of the stream.
LEMMA ReadersGrow ==
  ASSUME Stores, TurnTypeOK', [TurnNext]_turnVars
  PROVE  /\ Proposed \subseteq Proposed' /\ Admitted \subseteq Admitted'
         /\ \A kind : ResolvedAs(kind) \subseteq ResolvedAs(kind)'
         /\ Resolved \subseteq Resolved'
<1>1. CASE UNCHANGED log
  BY <1>1, KeptReads
<1>2. CASE CommitEvent
  BY <1>2, CommitReads DEF Stores, Resolved
<1> QED
  BY <1>1, <1>2, StreamStep DEF Keeps, Enqueues

LEMMA RefStep ==
  ASSUME Stores, TurnTypeOK', [TurnNext]_turnVars
  PROVE  RefInv'
<1>1. Grows /\ (Keeps \/ CommitEvent \/ Enqueues)
  BY StreamStep
<1>2. \A e \in LogSet \cup QueueSet : e.ref \in 1 .. Len(turns) /\ turns[e.ref] = User(e.text)
  BY DEF Stores, RefInv, RefsHold
<1>3. \A e \in LogSet \cup QueueSet :
        e.ref \in 1 .. Len(turns') /\ turns'[e.ref] = User(e.text)
  BY <1>1, <1>2, GrownTurns DEF Stores
<1>4. \A e \in LogSet' \cup QueueSet' :
        e.ref \in 1 .. Len(turns') /\ turns'[e.ref] = User(e.text)
  <2>1. CASE Keeps
    <3>1. LogSet' \subseteq LogSet /\ QueueSet' \subseteq QueueSet
      BY <2>1, KeptReads, EmptyQueue DEF Keeps, QueueSet
    <3> QED
      BY <1>3, <3>1
  <2>2. CASE CommitEvent
    <3>1. LogSet' \subseteq LogSet \cup QueueSet /\ QueueSet' \subseteq QueueSet
      BY <2>2, CommitReads DEF Stores
    <3> QED
      BY <1>3, <3>1
  <2>3. CASE Enqueues
    <3>1. PICK e \in StreamEvent :
       /\ queue' = Append(queue, e)
       /\ e.ref \in 1 .. Len(turns') /\ turns'[e.ref] = User(e.text)
      BY <2>3 DEF Enqueues
    <3>2. LogSet' = LogSet /\ QueueSet' = QueueSet \cup {e}
      BY <2>3, <3>1, KeptReads, EnqueueReads DEF Enqueues, Stores
    <3> QED
      BY <1>3, <3>1, <3>2
  <2> QED
    BY <1>1, <2>1, <2>2, <2>3
<1> QED
  BY <1>4 DEF RefInv, RefsHold

LEMMA QueueStep ==
  ASSUME Stores, TurnTypeOK', [TurnNext]_turnVars
  PROVE  QueueInv'
<1>1. Grows /\ (Keeps \/ CommitEvent \/ Enqueues)
  BY StreamStep
<1>2. \A e \in QueueSet :
        /\ e.kind \in Resolutions => e.ref \in Proposed'
        /\ e.kind = "accepted" => Confirmed(e.ref)'
        /\ e.kind = "admitted" /\ e.text \in Prose => e.ref \in ResolvedAs("accepted")'
  BY <1>1, ReadersGrow, GrownTurns DEF QueueInv, Stores
<1>3. CASE QueueSet' \subseteq QueueSet
  BY <1>2, <1>3 DEF QueueInv
<1>4. CASE Enqueues
  <2>1. PICK e \in StreamEvent : queue' = Append(queue, e) /\ Handed(e)
    BY <1>4 DEF Enqueues
  <2>2. QueueSet' = QueueSet \cup {e}
    BY <2>1, EnqueueReads DEF Stores
  <2>3. /\ e.kind \in Resolutions => e.ref \in Proposed'
        /\ e.kind = "accepted" => Confirmed(e.ref)'
        /\ e.kind = "admitted" /\ e.text \in Prose => e.ref \in ResolvedAs("accepted")'
    BY <2>1, ReadersGrow DEF Handed, PendingAcceptance
  <2> QED
    BY <1>2, <2>2, <2>3 DEF QueueInv
<1> QED
  BY <1>1, <1>3, <1>4, CommitReads, EmptyQueue DEF Keeps, Stores, QueueSet
\* A committed event extends the stream, or repeats a known admission.
LEMMA CommitPlaces ==
  ASSUME TurnTypeOK, CommitEvent
  PROVE  /\ Len(log) \in Nat /\ Len(log') \in Nat /\ Len(log) <= Len(log')
         /\ \A i \in 1 .. Len(log) : log'[i] = log[i]
         /\ \A i \in 1 .. Len(log') :
              i \in 1 .. Len(log) \/ (i = Len(log) + 1 /\ log'[i] = Head(queue))
<1>1. Len(log) \in Nat
  BY Lengths
<1>2. CASE log' = log
  BY <1>1, <1>2
<1>3. CASE /\ Len(log') = Len(log) + 1 /\ log'[Len(log) + 1] = Head(queue)
           /\ \A i \in 1 .. Len(log) : log'[i] = log[i]
  BY <1>1, <1>3
<1> QED
  BY <1>2, <1>3, Committed

LEMMA LogStep ==
  ASSUME Stores, TurnTypeOK', [TurnNext]_turnVars
  PROVE  LogInv'
<1> DEFINE C == {t \in 1 .. MaxTurns : Confirmed(t)'}
<1>1. \A i \in 1 .. Len(log) :
        /\ log[i].kind \in Resolutions =>
             \E p \in 1 .. i - 1 : log[p].kind = "proposed" /\ log[p].ref = log[i].ref
        /\ log[i].kind = "accepted" => log[i].ref \in C
        /\ log[i].kind = "admitted" /\ log[i].text \in Prose =>
             \E a \in 1 .. i - 1 : log[a].kind = "accepted" /\ log[a].ref = log[i].ref
  <2>1. \A i \in 1 .. Len(log) : log[i].ref \in 1 .. MaxTurns
    BY InStream DEF Stores, StreamEvent
  <2>2. \A t : Confirmed(t) => Confirmed(t)'
    BY StreamStep, GrownTurns DEF Stores
  <2> QED
    BY <2>1, <2>2 DEF Stores, LogInv
<1> HIDE DEF C
<1>2. CASE UNCHANGED log
  BY <1>1, <1>2 DEF LogInv, C, Confirmed
<1>3. CASE CommitEvent
  <2> DEFINE h == Head(queue)
  <2>1. /\ h.kind \in Resolutions => h.ref \in Proposed
        /\ h.kind = "accepted" => h.ref \in C
        /\ h.kind = "admitted" /\ h.text \in Prose => h.ref \in ResolvedAs("accepted")
    BY <1>3, CommitReads, StreamStep, GrownTurns DEF Stores, QueueInv, StreamEvent, C
  <2> HIDE DEF h
  <2>2. /\ Len(log) \in Nat /\ Len(log') \in Nat
        /\ \A i \in 1 .. Len(log) : log'[i] = log[i]
        /\ \A i \in 1 .. Len(log') :
              i \in 1 .. Len(log) \/ (i = Len(log) + 1 /\ log'[i] = h)
    BY <1>3, CommitPlaces DEF Stores, h
  <2>3. ASSUME NEW i \in 1 .. Len(log), NEW p \in 1 .. i - 1
        PROVE  p \in 1 .. Len(log) /\ log'[p] = log[p] /\ log'[i] = log[i]
    BY <2>2
  <2>4. \A r : /\ r \in Proposed =>
                    \E p \in 1 .. Len(log) : log'[p].kind = "proposed" /\ log'[p].ref = r
               /\ r \in ResolvedAs("accepted") =>
                    \E p \in 1 .. Len(log) : log'[p].kind = "accepted" /\ log'[p].ref = r
    BY <2>2, InStream DEF Stores
  <2>5. ASSUME NEW i \in 1 .. Len(log')
        PROVE  /\ log'[i].kind \in Resolutions =>
                    \E p \in 1 .. i - 1 : log'[p].kind = "proposed" /\ log'[p].ref = log'[i].ref
               /\ log'[i].kind = "accepted" => log'[i].ref \in C
               /\ log'[i].kind = "admitted" /\ log'[i].text \in Prose =>
                    \E a \in 1 .. i - 1 : log'[a].kind = "accepted" /\ log'[a].ref = log'[i].ref
    <3>1. CASE i \in 1 .. Len(log)
      <4>1. /\ log[i].kind \in Resolutions =>
                 \E p \in 1 .. i - 1 : log[p].kind = "proposed" /\ log[p].ref = log[i].ref
            /\ log[i].kind = "accepted" => log[i].ref \in C
            /\ log[i].kind = "admitted" /\ log[i].text \in Prose =>
                 \E a \in 1 .. i - 1 : log[a].kind = "accepted" /\ log[a].ref = log[i].ref
        BY <1>1, <3>1
      <4>2. log'[i] = log[i] /\ \A p \in 1 .. i - 1 : log'[p] = log[p]
        BY <2>2, <3>1
      <4> QED
        BY <4>1, <4>2
    <3>2. CASE i = Len(log) + 1 /\ log'[i] = h
      <4>1. 1 .. i - 1 = 1 .. Len(log)
        BY <2>2, <3>2
      <4> QED
        BY <2>1, <2>4, <3>2, <4>1
    <3> QED
      BY <2>2, <3>1, <3>2
  <2> QED
    BY <2>5 DEF LogInv, C, Confirmed
<1> QED
  BY <1>2, <1>3, StreamStep DEF Keeps, Enqueues

LEMMA ProposedOnceStep ==
  ASSUME Stores, ProposedOnce, TurnTypeOK', [TurnNext]_turnVars
  PROVE  ProposedOnce'
<1>0. Len(queue) \in Nat /\ Len(log) \in Nat /\ Len(turns) \in Nat
  BY Lengths DEF Stores
<1>1. CASE Keeps
  <2>1. CASE UNCHANGED queue
    BY <1>1, <2>1, KeptReads DEF Keeps, ProposedOnce, QueueSet
  <2>2. CASE queue' = <<>>
    BY <1>1, <2>2, EmptyQueue DEF Keeps, ProposedOnce
  <2> QED
    BY <1>1, <2>1, <2>2 DEF Keeps
<1>2. CASE CommitEvent
  <2> DEFINE h == Head(queue)
  <2>1. /\ QueueSet' \subseteq QueueSet
        /\ \A r : r \in Proposed' <=> r \in Proposed \/ (h.kind = "proposed" /\ h.ref = r)
    BY <1>2, CommitReads DEF Stores
  <2>2. /\ h = queue[1] /\ h \in QueueSet /\ Len(queue') = Len(queue) - 1
        /\ \A i \in 1 .. Len(queue') : queue'[i] = queue[i + 1]
    BY <1>2, Committed DEF Stores
  <2> HIDE DEF h
  <2>3. \A i, j \in 1 .. Len(log') :
          log'[i].kind = "proposed" /\ log'[j].kind = "proposed" /\ log'[i].ref = log'[j].ref
            => i = j
    <3>1. /\ \A i \in 1 .. Len(log) : log'[i] = log[i]
          /\ \A i \in 1 .. Len(log') :
              i \in 1 .. Len(log) \/ (i = Len(log) + 1 /\ log'[i] = h)
      BY <1>2, CommitPlaces DEF Stores, h
    <3>2. h.kind = "proposed" => h.ref \notin Proposed
      BY <2>2 DEF ProposedOnce
    <3>3. \A i \in 1 .. Len(log) : log[i].kind = "proposed" => log[i].ref \in Proposed
      BY InStream DEF Stores
    <3> QED
      BY <3>1, <3>2, <3>3 DEF ProposedOnce
  <2>4. \A i \in 1 .. Len(queue') : i + 1 \in 1 .. Len(queue) /\ 1 \in 1 .. Len(queue) /\ i + 1 # 1
    BY <1>0, <2>2
  <2>5. \A i, j \in 1 .. Len(queue') :
          queue'[i].kind = "proposed" /\ queue'[j].kind = "proposed"
            /\ queue'[i].ref = queue'[j].ref => i = j
    <3>1. ASSUME NEW i \in 1 .. Len(queue'), NEW j \in 1 .. Len(queue'),
                 queue'[i].kind = "proposed", queue'[j].kind = "proposed",
                 queue'[i].ref = queue'[j].ref
          PROVE  i = j
      <4>1. i + 1 = j + 1
        BY <2>2, <2>4, <3>1 DEF ProposedOnce
      <4> QED
        BY <4>1
    <3> QED
      BY <3>1
  <2>6. \A e \in QueueSet' : e.kind = "proposed" => e.ref \notin Proposed'
    <3>1. ASSUME NEW i \in 1 .. Len(queue'), queue'[i].kind = "proposed"
          PROVE  queue'[i].ref \notin Proposed'
      <4>1. queue'[i] = queue[i + 1] /\ queue'[i] \in QueueSet
        BY <2>2, <2>4 DEF QueueSet
      <4>2. queue'[i].ref \notin Proposed
        BY <3>1, <4>1 DEF ProposedOnce
      <4>3. ~(h.kind = "proposed" /\ h.ref = queue'[i].ref)
        BY <2>2, <2>4, <3>1, <4>1 DEF ProposedOnce
      <4> QED
        BY <2>1, <4>2, <4>3
    <3> QED
      BY <3>1 DEF QueueSet
  <2> QED
    BY <2>3, <2>5, <2>6 DEF ProposedOnce
<1>3. CASE Enqueues
  <2>1. PICK e \in StreamEvent : queue' = Append(queue, e) /\ Handed(e)
    BY <1>3 DEF Enqueues
  <2>2. /\ QueueSet' = QueueSet \cup {e}
        /\ Len(queue') = Len(queue) + 1 /\ queue'[Len(queue) + 1] = e
        /\ \A i \in 1 .. Len(queue) : queue'[i] = queue[i]
    BY <2>1, EnqueueReads DEF Stores
  <2>3. UNCHANGED Proposed /\ UNCHANGED log
    BY <1>3, KeptReads DEF Enqueues
  <2>4. \A x \in LogSet \cup QueueSet : e.kind = "proposed" => x.ref # e.ref
    BY <1>0, <2>1 DEF Stores, RefInv, RefsHold, Handed
  <2>5. e.kind = "proposed" => e.ref \notin Proposed
    BY <2>4 DEF Proposed
  <2>6. \A i \in 1 .. Len(queue) : queue[i] \in QueueSet
    BY DEF QueueSet
  <2>7. \A i \in 1 .. Len(queue') : i \in 1 .. Len(queue) \/ i = Len(queue) + 1
    BY <1>0, <2>2
  <2>8. \A i, j \in 1 .. Len(queue') :
          queue'[i].kind = "proposed" /\ queue'[j].kind = "proposed"
            /\ queue'[i].ref = queue'[j].ref => i = j
    BY <2>2, <2>4, <2>6, <2>7 DEF ProposedOnce
  <2> QED
    BY <2>2, <2>3, <2>5, <2>8 DEF ProposedOnce
<1> QED
  BY <1>1, <1>2, <1>3, StreamStep

LEMMA DecidedInOrderStep ==
  ASSUME Stores, ProposedOnce, DecidedInOrder, TurnTypeOK', [TurnNext]_turnVars
  PROVE  DecidedInOrder'
<1>1. CASE Keeps
  <2>1. QueueSet' \subseteq QueueSet
    BY <1>1, EmptyQueue DEF Keeps, QueueSet
  <2> QED
    BY <1>1, <2>1, KeptReads DEF Keeps, DecidedInOrder
<1>2. CASE CommitEvent
  <2> DEFINE h == Head(queue)
  <2>1. LogSet' \cup QueueSet' \subseteq LogSet \cup QueueSet /\ h \in QueueSet
    BY <1>2, CommitReads DEF Stores
  <2> HIDE DEF h
  <2>2. /\ Len(log) \in Nat /\ Len(log') \in Nat
        /\ \A i \in 1 .. Len(log) : log'[i] = log[i]
        /\ \A i \in 1 .. Len(log') :
              i \in 1 .. Len(log) \/ (i = Len(log) + 1 /\ log'[i] = h)
    BY <1>2, CommitPlaces DEF Stores, h
  <2>3. \A e \in LogSet \cup QueueSet : e.kind \in Resolutions => e.ref \in Proposed
    <3>1. ASSUME NEW e \in LogSet, e.kind \in Resolutions
          PROVE  e.ref \in Proposed
      <4>1. PICK i \in 1 .. Len(log) : e = log[i]
        BY DEF LogSet
      <4>2. PICK p \in 1 .. i - 1 : log[p].kind = "proposed" /\ log[p].ref = log[i].ref
        BY <3>1, <4>1 DEF Stores, LogInv
      <4>3. p \in 1 .. Len(log)
        BY <2>2, <4>2
      <4> QED
        BY <4>1, <4>2, <4>3, InStream DEF Stores
    <3> QED
      BY <3>1 DEF Stores, QueueInv
  <2>4. h.kind = "proposed" => h.ref \notin Proposed
    BY <2>1 DEF ProposedOnce
  <2>5. ASSUME NEW e \in LogSet \cup QueueSet, e.kind \in Resolutions,
               NEW a \in 1 .. Len(log'), NEW b \in 1 .. Len(log'), a < b,
               log'[a].kind = "proposed", log'[b].kind = "proposed", log'[b].ref = e.ref
        PROVE  log'[a].ref \in Resolved'
    <3>1. b \in 1 .. Len(log) /\ a \in 1 .. Len(log)
      BY <2>2, <2>3, <2>4, <2>5
    <3>2. log[a].ref \in Resolved
      BY <2>2, <2>5, <3>1 DEF DecidedInOrder
    <3> QED
      BY <2>2, <3>1, <3>2, ReadersGrow
  <2> QED
    BY <2>1, <2>5 DEF DecidedInOrder
<1>3. CASE Enqueues
  <2>1. PICK e \in StreamEvent : queue' = Append(queue, e) /\ Handed(e)
    BY <1>3 DEF Enqueues
  <2>2. QueueSet' = QueueSet \cup {e}
    BY <2>1, EnqueueReads DEF Stores
  <2>3. UNCHANGED <<log, LogSet, Resolved>>
    BY <1>3, KeptReads DEF Enqueues
  <2>4. ASSUME e.kind \in Resolutions, NEW a \in 1 .. Len(log), NEW b \in 1 .. Len(log), a < b,
               log[a].kind = "proposed", log[b].kind = "proposed", log[b].ref = e.ref
        PROVE  log[a].ref \in Resolved
    <3>1. log[a].ref \in Proposed /\ log[a].ref # e.ref
      BY <2>4, InStream DEF Stores, ProposedOnce
    <3>2. PendingAcceptance = {e.ref}
      BY <2>1, <2>4 DEF Handed
    <3> QED
      BY <3>1, <3>2 DEF PendingAcceptance, Resolved
  <2> QED
    BY <2>2, <2>3, <2>4 DEF DecidedInOrder
<1> QED
  BY <1>1, <1>2, <1>3, StreamStep

-----------------------------------------------------------------------------
(* The tasks that were started.                                            *)

LEMMA StartedStep ==
  ASSUME Stores, StartedInv, TurnTypeOK', [TurnNext]_turnVars
  PROVE  StartedInv'
<1>1. \A t \in 1 .. MaxTurns : outcome[t] # "none" => t \in Admitted'
  BY ReadersGrow DEF StartedInv
<1>2. CASE UNCHANGED outcome
  BY <1>1, <1>2 DEF StartedInv
<1>3. ASSUME NEW how, outcome' = [outcome EXCEPT ![work.route] = how], work.route \in Admitted
      PROVE  StartedInv'
  <2>1. work.route \in Admitted'
    BY <1>3, ReadersGrow
  <2>2. \A t \in 1 .. MaxTurns : t # work.route => outcome'[t] = outcome[t]
    BY <1>3 DEF Stores, TurnTypeOK
  <2> QED
    BY <1>1, <2>1, <2>2 DEF StartedInv
<1>4. CASE Turning
  <2>1. CASE Begins
    <3>1. work.route \in Admitted
      BY <2>1 DEF Begins, InLog, Admitted
    <3> QED
      BY <1>3, <2>1, <3>1 DEF Begins
  <2>2. CASE Ends /\ work.pc = "result"
    <3>1. work.route \in Admitted
      BY <2>2 DEF Stores, WorkInv, StartedInv
    <3> QED
      BY <1>2, <1>3, <2>2, <3>1 DEF Ends
  <2> QED
    BY <1>2, <1>4, <2>1, <2>2 DEF Turning, Ends, Advances, Resumes, Refuses, Runs, Accepts,
                             Corrects, Proposes, Continues, Admits, Saves
<1>5. CASE ~Turning
  <2>1. UNCHANGED outcome
    BY <1>5, WorkerTurns DEF Stores, TurnNext, Submit, Register, PollTurnCompletion, Quit, Close,
        Crash, Reset, Restart, CommitEvent, Start, DoneCallback, turnVars
  <2> QED
    BY <1>2, <2>1
<1> QED
  BY <1>4, <1>5

LEMMA WorkStep ==
  ASSUME Stores, TurnTypeOK', [TurnNext]_turnVars
  PROVE  WorkInv'
<1>1. CASE Turning
  <2>0. Len(turns) \in Nat /\ turns \in Seq(TurnRecord) /\ work.pc \notin Between
    BY <1>1, Lengths, TurnMoves DEF Stores, TurnTypeOK
  <2>1. CASE Resumes
    <3>1. PICK r \in AcceptedUnadmitted : Moves("accepted", "route run", r) /\ UNCHANGED log
      BY <2>1 DEF Resumes, Moves, WorkerUnchanged
    <3>2. work'.pc = "route run" /\ work'.route = r
      BY <3>1, MoveEffect DEF Stores
    <3>3. r \in ResolvedAs("accepted")'
      BY <3>1, KeptReads DEF AcceptedUnadmitted
    <3> QED
      BY <3>2, <3>3 DEF WorkInv
  <2>2. CASE Continues
    <3>1. work'.pc = "route run" /\ work'.route = work.route /\ UNCHANGED log
      BY <2>2, MoveEffect DEF Stores, Continues, Moves, WorkerUnchanged
    <3>2. work.route \in ResolvedAs("accepted")
      BY <2>2 DEF Continues, InLog, ResolvedAs
    <3>3. work'.route \in ResolvedAs("accepted")'
      BY <3>1, <3>2, KeptReads
    <3> QED
      BY <3>1, <3>3 DEF WorkInv
  <2>3. CASE Runs
    <3>1. work'.pc = "run"
      BY <2>3, MoveEffect DEF Stores, Runs
    <3>2. turns' = turns \o <<User(work.said)>> /\ User(work.said) \in TurnRecord
      BY <2>0, <2>3 DEF Runs, Saves, Stores, ThreadInv, User, TurnRecord
    <3>3. Len(turns') > 0 /\ turns'[Len(turns')] = User(work.said)
      BY <2>0, <3>2, ConcatOne
    <3> QED
      BY <2>3, <3>1, <3>3 DEF WorkInv, Runs, User
  <2>4. CASE Begins
    <3>1. work'.pc = "result" /\ work'.route = work.route
      BY <2>4, MoveEffect DEF Stores, Begins
    <3>2. work.route \in 1 .. MaxTurns
      <4>1. PICK e \in LogSet : e.ref = work.route
        BY <2>4 DEF Begins, InLog
      <4>2. e \in StreamEvent
        BY InStream DEF LogSet, Stores
      <4> QED
        BY <4>1, <4>2 DEF StreamEvent
    <3>3. outcome'[work.route] = "running"
      BY <2>4, <3>2 DEF Begins, Stores, TurnTypeOK
    <3> QED
      BY <3>1, <3>2, <3>3 DEF WorkInv
  <2>5. CASE Ends
    <3>1. work'.pc = "callback"
      BY <2>0, <2>5, FinishEffect DEF Ends, Closes, Stores, ThreadInv
    <3> QED
      BY <3>1 DEF WorkInv
  <2>6. CASE Advances \/ Refuses \/ Accepts \/ Corrects \/ Proposes \/ Admits
    <3>1. work'.pc \in BeforeUser \cup {"refused", "resolved", "corrected", "proposed", "admitted"}
      BY <2>6, MoveEffect DEF Advances, Refuses, Accepts, Corrects, Proposes, Admits, Stores
    <3> QED
      BY <3>1 DEF WorkInv, BeforeUser
  <2> QED
    BY <1>1, <2>1, <2>2, <2>3, <2>4, <2>5, <2>6 DEF Turning
<1>2. CASE UNCHANGED <<turns, outcome, work>>
  <2>1. ResolvedAs("accepted") \subseteq ResolvedAs("accepted")'
    BY ReadersGrow
  <2> QED
    BY <1>2, <2>1 DEF Stores, WorkInv
<1>3. CASE Close \/ Crash \/ Start \/ DoneCallback
  <2>1. work'.pc \in {"idle", "turn"}
    BY <1>3 DEF Close, Crash, Reset, Start, DoneCallback, Idle
  <2> QED
    BY <2>1 DEF WorkInv
<1> QED
  BY <1>1, <1>2, <1>3, WorkerTurns DEF Stores, TurnNext, Submit, Register, PollTurnCompletion, Quit,
      Restart, CommitEvent, turnVars

-----------------------------------------------------------------------------
(* The projection of the stream, event by event.                           *)

\* Induction on a set of numbers.
LEMMA AllNumbers ==
  ASSUME NEW S \in SUBSET Nat, 0 \in S, \A n \in S : n + 1 \in S
  PROVE  S = Nat
<1> DEFINE R == Nat \ S
<1>1. SUFFICES ASSUME R # {} PROVE FALSE
  OBVIOUS
<1>2. PICK m \in R : \A q \in R : ~(<<q, m>> \in OpToRel(<, Nat))
  <2>1. R \subseteq Nat
    OBVIOUS
  <2> HIDE DEF R
  <2> QED
    BY <1>1, <2>1, NatLessThanWellFounded, WFMin
<1>3. m \in Nat /\ m # 0 /\ m - 1 \in Nat
  OBVIOUS
<1>4. m - 1 \in S
  <2>1. ASSUME m - 1 \in R PROVE FALSE
    <3> DEFINE q == m - 1
    <3>1. q \in R /\ q \in Nat /\ q < m
      BY <1>3, <2>1
    <3> HIDE DEF q, R
    <3>2. <<q, m>> \in Nat \X Nat /\ <<q, m>>[1] = q /\ <<q, m>>[2] = m
      BY <1>3, <3>1
    <3> QED
      BY <1>2, <3>1, <3>2 DEF OpToRel
  <2> QED
    BY <1>3, <2>1
<1> QED
  BY <1>3, <1>4

\* The first n events, projected one after the other.
Projects(events, n, view) ==
  view = [k \in 0 .. n |->
            IF k = 0 THEN NoRoutes ELSE ProjectRoute(view[k - 1], events[k])]

LEMMA ProjectsAll ==
  ASSUME NEW events, NEW n \in Nat
  PROVE  \E view : Projects(events, n, view)
<1> DEFINE S == {m \in Nat : \E view : Projects(events, m, view)}
<1>1. 0 \in S
  <2> DEFINE f == [k \in 0 .. 0 |-> NoRoutes]
  <2>1. f = [k \in 0 .. 0 |->
               IF k = 0 THEN NoRoutes ELSE ProjectRoute(f[k - 1], events[k])]
    OBVIOUS
  <2>2. Projects(events, 0, f)
    BY <2>1 DEF Projects
  <2> QED
    BY <2>2
<1>2. ASSUME NEW m \in S PROVE m + 1 \in S
  <2>1. m \in Nat
    OBVIOUS
  <2>2. PICK f : Projects(events, m, f)
    OBVIOUS
  <2> DEFINE g == [k \in 0 .. m + 1 |->
                     IF k <= m THEN f[k] ELSE ProjectRoute(f[m], events[m + 1])]
  <2>3. \A k \in 0 .. m : f[k] = IF k = 0 THEN NoRoutes ELSE ProjectRoute(f[k - 1], events[k])
    BY <2>1, <2>2 DEF Projects
  <2>4. \A k \in 0 .. m + 1 :
          g[k] = IF k = 0 THEN NoRoutes ELSE ProjectRoute(g[k - 1], events[k])
    <3>1. ASSUME NEW k \in 0 .. m + 1
          PROVE  g[k] = IF k = 0 THEN NoRoutes ELSE ProjectRoute(g[k - 1], events[k])
      <4>1. CASE k = 0
        BY <2>1, <2>3, <4>1
      <4>2. CASE k # 0 /\ k <= m
        <5>1. k \in 0 .. m /\ k - 1 \in 0 .. m + 1 /\ k - 1 <= m
          BY <2>1, <4>2
        <5>2. g[k] = f[k] /\ g[k - 1] = f[k - 1]
          BY <4>2, <5>1
        <5> HIDE DEF g
        <5> QED
          BY <2>3, <4>2, <5>1, <5>2
      <4>3. CASE k = m + 1
        <5>1. g[m + 1] = ProjectRoute(f[m], events[m + 1]) /\ g[m] = f[m]
          BY <2>1
        <5>2. k - 1 = m /\ k # 0
          BY <2>1, <4>3
        <5> HIDE DEF g
        <5> QED
          BY <4>3, <5>1, <5>2
      <4> QED
        BY <2>1, <4>1, <4>2, <4>3
    <3> QED
      BY <3>1
  <2>5. Projects(events, m + 1, g)
    <3> DEFINE h == [k \in 0 .. m + 1 |->
                       IF k = 0 THEN NoRoutes ELSE ProjectRoute(g[k - 1], events[k])]
    <3>1. g = h
      <4>1. g = [k \in 0 .. m + 1 |-> g[k]]
        OBVIOUS
      <4> HIDE DEF g
      <4> QED
        BY <2>4, <4>1
    <3> HIDE DEF g
    <3> QED
      BY <3>1 DEF Projects
  <2> QED
    BY <2>1, <2>5
<1>3. S = Nat
  <2> HIDE DEF S
  <2>1. S \in SUBSET Nat
    BY DEF S
  <2> QED
    BY <1>1, <1>2, <2>1, AllNumbers
<1> QED
  BY <1>3

\* Projections of streams with a common beginning agree on it.
LEMMA ProjectsAgree ==
  ASSUME NEW s, NEW t, NEW m \in Nat, NEW n \in Nat, NEW k \in Nat, k <= m, k <= n,
         NEW f, Projects(s, m, f), NEW g, Projects(t, n, g),
         \A i \in 1 .. k : s[i] = t[i]
  PROVE  f[k] = g[k]
<1> DEFINE S == {i \in Nat : i <= k => f[i] = g[i]}
<1>1. \A i \in 0 .. m : f[i] = IF i = 0 THEN NoRoutes ELSE ProjectRoute(f[i - 1], s[i])
  BY DEF Projects
<1>2. \A i \in 0 .. n : g[i] = IF i = 0 THEN NoRoutes ELSE ProjectRoute(g[i - 1], t[i])
  BY DEF Projects
<1>3. 0 \in S
  BY <1>1, <1>2
<1>4. ASSUME NEW i \in S PROVE i + 1 \in S
  <2>1. CASE i + 1 <= k
    <3>1. /\ i + 1 \in 0 .. m /\ i + 1 \in 0 .. n /\ i + 1 # 0 /\ i + 1 \in 1 .. k
          /\ i + 1 - 1 = i /\ i <= k /\ i \in Nat
      BY <2>1
    <3>2. f[i + 1] = ProjectRoute(f[i], s[i + 1]) /\ g[i + 1] = ProjectRoute(g[i], t[i + 1])
      BY <1>1, <1>2, <3>1
    <3> QED
      BY <3>1, <3>2
  <2> QED
    BY <2>1
<1>5. S = Nat
  <2> HIDE DEF S
  <2>1. S \in SUBSET Nat
    BY DEF S
  <2> QED
    BY <1>3, <1>4, <2>1, AllNumbers
<1> QED
  BY <1>5

LEMMA ProjectedLog ==
  ASSUME NEW events, Len(events) \in Nat
  PROVE  \E view : Projects(events, Len(events), view) /\ ProjectLog(events) = view[Len(events)]
<1> DEFINE v == CHOOSE view : Projects(events, Len(events), view)
<1>1. Projects(events, Len(events), v)
  BY ProjectsAll
<1>2. ProjectLog(events) = v[Len(events)]
  BY DEF ProjectLog, Projects
<1> HIDE DEF v
<1> QED
  BY <1>1, <1>2

\* The projection of no events, and of one more.
LEMMA ProjectNone == ProjectLog(<<>>) = NoRoutes
<1>1. Len(<<>>) = 0
  OBVIOUS
<1>2. PICK f : Projects(<<>>, 0, f) /\ ProjectLog(<<>>) = f[0]
  BY <1>1, ProjectedLog
<1> QED
  BY <1>2 DEF Projects

LEMMA ProjectOneMore ==
  ASSUME NEW s \in Seq(StreamEvent), NEW e \in StreamEvent
  PROVE  ProjectLog(Append(s, e)) = ProjectRoute(ProjectLog(s), e)
<1> DEFINE n == Len(s)  t == Append(s, e)
<1>1. /\ n \in Nat /\ Len(t) = n + 1 /\ t[n + 1] = e
      /\ \A i \in 1 .. n : s[i] = t[i]
  BY AppendOne, LenProperties
<1> HIDE DEF n, t
<1>2. PICK f : Projects(s, n, f) /\ ProjectLog(s) = f[n]
  BY <1>1, ProjectedLog DEF n
<1>3. PICK g : Projects(t, n + 1, g) /\ ProjectLog(t) = g[n + 1]
  BY <1>1, ProjectedLog
<1>4. f[n] = g[n]
  BY <1>1, <1>2, <1>3, ProjectsAgree
<1>5. g[n + 1] = ProjectRoute(g[n], t[n + 1])
  <2>1. n + 1 \in 0 .. n + 1 /\ n + 1 # 0 /\ n + 1 - 1 = n
    BY <1>1
  <2>2. \A i \in 0 .. n + 1 : g[i] = IF i = 0 THEN NoRoutes ELSE ProjectRoute(g[i - 1], t[i])
    BY <1>3 DEF Projects
  <2>3. n \in Nat
    BY <1>1
  <2> QED
    BY <2>1, <2>2, <2>3
<1> QED
  BY <1>1, <1>2, <1>3, <1>4, <1>5 DEF t
\* A stream is refused when some route in it is decided twice.
LEMMA RaisesOnce ==
  ASSUME TurnTypeOK, TurnTypeOK', CommitEvent, log' # log
  PROVE  RecoverRaises' <=> RecoverRaises \/ (Head(queue).kind \in Resolutions
                                              /\ Head(queue).ref \in Resolved)
<1> DEFINE h == Head(queue)
<1>1. /\ Len(log) \in Nat /\ Len(log') = Len(log) + 1 /\ log'[Len(log) + 1] = h
      /\ \A i \in 1 .. Len(log) : log'[i] = log[i]
  BY Committed, Lengths
<1> HIDE DEF h
<1>2. \A r : r \in Resolved <=> \E i \in 1 .. Len(log) : log[i].kind \in Resolutions /\ log[i].ref = r
  BY InStream DEF Resolved, Resolutions
<1>3. 1 .. Len(log') = (1 .. Len(log)) \cup {Len(log) + 1} /\ Len(log) + 1 \notin 1 .. Len(log)
  BY <1>1
<1>4. ASSUME RecoverRaises PROVE RecoverRaises'
  <2>1. PICK i \in 1 .. Len(log), j \in 1 .. Len(log) :
          /\ i # j /\ log[i].ref = log[j].ref
          /\ log[i].kind \in Resolutions /\ log[j].kind \in Resolutions
    BY <1>4 DEF RecoverRaises
  <2>2. log'[i] = log[i] /\ log'[j] = log[j] /\ i \in 1 .. Len(log') /\ j \in 1 .. Len(log')
    BY <1>1, <1>3
  <2> QED
    BY <2>1, <2>2 DEF RecoverRaises
<1>5. ASSUME h.kind \in Resolutions, h.ref \in Resolved PROVE RecoverRaises'
  <2>1. PICK i \in 1 .. Len(log) : log[i].kind \in Resolutions /\ log[i].ref = h.ref
    BY <1>2, <1>5
  <2>2. /\ log'[i] = log[i] /\ log'[Len(log) + 1] = h /\ i # Len(log) + 1
        /\ i \in 1 .. Len(log') /\ Len(log) + 1 \in 1 .. Len(log')
    BY <1>1, <1>3
  <2> QED
    BY <1>5, <2>1, <2>2 DEF RecoverRaises
<1>6. ASSUME RecoverRaises', ~RecoverRaises
      PROVE  h.kind \in Resolutions /\ h.ref \in Resolved
  <2>1. PICK i \in 1 .. Len(log'), j \in 1 .. Len(log') :
          /\ i # j /\ log'[i].ref = log'[j].ref
          /\ log'[i].kind \in Resolutions /\ log'[j].kind \in Resolutions
    BY <1>6 DEF RecoverRaises
  <2>2. CASE i \in 1 .. Len(log) /\ j \in 1 .. Len(log)
    BY <1>1, <1>6, <2>1, <2>2 DEF RecoverRaises
  <2>3. CASE i = Len(log) + 1 /\ j \in 1 .. Len(log)
    BY <1>1, <1>2, <2>1, <2>3
  <2>4. CASE j = Len(log) + 1 /\ i \in 1 .. Len(log)
    BY <1>1, <1>2, <2>1, <2>4
  <2> QED
    BY <1>3, <2>1, <2>2, <2>3, <2>4
<1> QED
  BY <1>4, <1>5, <1>6 DEF h

LEMMA KeptView ==
  ASSUME UNCHANGED log
  PROVE  ProjectRoutes' = ProjectRoutes /\ RecoverRaises' = RecoverRaises
         /\ \A r : Standing(r)' = Standing(r)
  BY DEF ProjectRoutes, ProjectLog, RecoverRaises, Standing, ResolvedAs, Proposed, LogSet

LEMMA ViewStep ==
  ASSUME Stores, ProposedOnce, ViewInv, TurnTypeOK', [TurnNext]_turnVars
  PROVE  ViewInv'
<1>1. CASE UNCHANGED log
  BY <1>1, KeptView, KeptReads DEF ViewInv
<1>2. CASE CommitEvent /\ log' # log
  <2> DEFINE h == Head(queue)  v == ProjectRoutes
  <2>1. /\ h \in StreamEvent /\ h \in QueueSet /\ log' = Append(log, h)
        /\ Len(log) \in Nat /\ Len(log') = Len(log) + 1 /\ log'[Len(log) + 1] = h
        /\ \A i \in 1 .. Len(log) : log'[i] = log[i]
    BY <1>2, Committed, Lengths DEF Stores
  <2>2. /\ \A kind, r : r \in ResolvedAs(kind)'
                          <=> r \in ResolvedAs(kind) \/ (h.kind = kind /\ h.ref = r)
        /\ \A r : r \in Proposed' <=> r \in Proposed \/ (h.kind = "proposed" /\ h.ref = r)
    BY <1>2, CommitReads DEF Stores
  <2>3. ProjectRoutes' = ProjectRoute(v, h)
    BY <2>1, ProjectOneMore DEF ProjectRoutes, Stores, TurnTypeOK
  <2>4. RecoverRaises' <=> RecoverRaises \/ (h.kind \in Resolutions /\ h.ref \in Resolved)
    BY <1>2, RaisesOnce DEF Stores
  <2>5. /\ h.kind = "proposed" => h.ref \notin Proposed
        /\ h.kind \in Resolutions => h.ref \in Proposed
    BY <2>1 DEF ProposedOnce, Stores, QueueInv
  <2>6. Resolved \subseteq Proposed
    <3>1. ASSUME NEW i \in 1 .. Len(log), log[i].kind \in Resolutions
          PROVE  log[i].ref \in Proposed
      <4>1. PICK p \in 1 .. i - 1 : log[p].kind = "proposed" /\ log[p].ref = log[i].ref
        BY <3>1 DEF Stores, LogInv
      <4>2. p \in 1 .. Len(log)
        BY <2>1, <4>1
      <4> QED
        BY <4>1, <4>2, InStream DEF Stores
    <3> QED
      BY <3>1, InStream DEF Resolved, Resolutions, Stores
  <2>7. /\ v \in View /\ v.bad = RecoverRaises
        /\ ~v.bad =>
             /\ \A r \in 1 .. MaxTurns : v.how[r] = Standing(r)
             /\ v.order = <<>> => Proposed = {}
             /\ v.order # <<>> =>
              \E p \in 1 .. Len(log) :
                /\ log[p].kind = "proposed" /\ log[p].ref = Last(v.order)
                /\ \A q \in 1 .. Len(log) : log[q].kind = "proposed" => q <= p
    BY DEF ViewInv
  <2>8. /\ h.ref \in 1 .. MaxTurns
        /\ h.kind \in {"proposed", "admitted"} \cup Resolutions
    BY <2>1 DEF StreamEvent
  <2>9. /\ v.order \in Seq(1 .. MaxTurns) /\ v.bad \in BOOLEAN
        /\ v.how \in [1 .. MaxTurns -> {"none", "pending"} \cup Resolutions]
        /\ v = [order |-> v.order, how |-> v.how, bad |-> v.bad]
    BY <2>7 DEF View
  \* The latest proposal stays the latest until the next one.
  <2>10. ASSUME h.kind # "proposed", ~v.bad, v.order # <<>>
         PROVE  \E p \in 1 .. Len(log') :
                  /\ log'[p].kind = "proposed" /\ log'[p].ref = Last(v.order)
                  /\ \A q \in 1 .. Len(log') : log'[q].kind = "proposed" => q <= p
    <3>1. PICK p \in 1 .. Len(log) :
                /\ log[p].kind = "proposed" /\ log[p].ref = Last(v.order)
                /\ \A q \in 1 .. Len(log) : log[q].kind = "proposed" => q <= p
      BY <2>7, <2>10
    <3> HIDE DEF h, v
    <3> QED
      BY <2>1, <2>10, <3>1, SMTT(20)
  <2> HIDE DEF h, v
  <2>11. CASE v.bad
    <3>1. ProjectRoutes' = v
      BY <2>3, <2>11 DEF ProjectRoute
    <3> QED
      BY <2>4, <2>7, <2>11, <3>1 DEF ViewInv
  <2>12. CASE ~v.bad /\ h.kind = "admitted"
    <3>1. ProjectRoutes' = v
      BY <2>3, <2>12 DEF ProjectRoute, Resolutions
    <3>2. h.kind \notin Resolutions /\ h.kind # "proposed"
      BY <2>12 DEF Resolutions
    <3>3. Proposed' = Proposed /\ \A r : Standing(r)' = Standing(r)
      <4>1. /\ Proposed' = Proposed
            /\ \A r : /\ r \in ResolvedAs("accepted")' <=> r \in ResolvedAs("accepted")
                      /\ r \in ResolvedAs("corrected")' <=> r \in ResolvedAs("corrected")
        BY <2>2, <2>12
      <4> QED
        BY <4>1 DEF Standing
    <3>4. /\ ProjectRoutes'.bad = RecoverRaises' /\ ProjectRoutes' \in View
          /\ \A r \in 1 .. MaxTurns : ProjectRoutes'.how[r] = Standing(r)'
      <4>1. RecoverRaises' = RecoverRaises
        BY <2>4, <3>2 DEF RecoverRaises
      <4> QED
        BY <2>7, <2>12, <3>1, <3>3, <4>1
    <3> QED
      BY <2>7, <2>10, <2>12, <3>1, <3>2, <3>3, <3>4 DEF ViewInv
  <2>13. CASE ~v.bad /\ h.kind = "proposed"
    <3>1. v.how[h.ref] = "none"
      <4>1. h.ref \notin Proposed /\ h.ref \notin Resolved
        BY <2>5, <2>6, <2>13
      <4>2. Standing(h.ref) = "none"
        BY <4>1 DEF Standing, Resolved
      <4> QED
        BY <2>7, <2>8, <2>13, <4>2
    <3>2. ProjectRoutes' = [v EXCEPT !.order = Append(@, h.ref), !.how[h.ref] = "pending"]
      BY <2>3, <2>13, <3>1 DEF ProjectRoute, Resolutions
    <3>3. /\ ProjectRoutes'.order = Append(v.order, h.ref)
          /\ ProjectRoutes'.how = [v.how EXCEPT ![h.ref] = "pending"]
          /\ ProjectRoutes'.bad = FALSE
          /\ ProjectRoutes' = [order |-> Append(v.order, h.ref),
                               how |-> [v.how EXCEPT ![h.ref] = "pending"], bad |-> FALSE]
      BY <2>9, <2>13, <3>2
    <3>4. /\ Append(v.order, h.ref) \in Seq(1 .. MaxTurns)
          /\ Append(v.order, h.ref) # <<>> /\ Last(Append(v.order, h.ref)) = h.ref
      <4>1. /\ Append(v.order, h.ref) \in Seq(1 .. MaxTurns)
            /\ Len(Append(v.order, h.ref)) = Len(v.order) + 1 /\ Len(v.order) \in Nat
            /\ Append(v.order, h.ref)[Len(v.order) + 1] = h.ref
        BY <2>8, <2>9, AppendOne, LenProperties
      <4>2. Append(v.order, h.ref) # <<>>
        BY <2>8, <2>9
      <4> QED
        BY <4>1, <4>2 DEF Last
    <3>5. ProjectRoutes' \in View /\ ProjectRoutes'.bad = RecoverRaises'
      <4>1. h.kind \notin Resolutions
        BY <2>13 DEF Resolutions
      <4> QED
        BY <2>4, <2>7, <2>8, <2>9, <2>13, <3>3, <3>4, <4>1 DEF View
    <3>6. \A r \in 1 .. MaxTurns : ProjectRoutes'.how[r] = Standing(r)'
      <4>1. ASSUME NEW r \in 1 .. MaxTurns PROVE ProjectRoutes'.how[r] = Standing(r)'
        <5>1. /\ r \in ResolvedAs("accepted")' <=> r \in ResolvedAs("accepted")
              /\ r \in ResolvedAs("corrected")' <=> r \in ResolvedAs("corrected")
              /\ r \in Proposed' <=> r \in Proposed \/ h.ref = r
          BY <2>2, <2>13
        <5>2. h.ref \notin Resolved
          BY <2>5, <2>6, <2>13
        <5>3. ProjectRoutes'.how[r] = IF r = h.ref THEN "pending" ELSE v.how[r]
          BY <2>8, <2>9, <3>3
        <5>4. v.how[r] = Standing(r)
          BY <2>7, <2>13
        <5> QED
          BY <5>1, <5>2, <5>3, <5>4 DEF Standing, Resolved
      <4> QED
        BY <4>1
    <3>7. \E p \in 1 .. Len(log') :
                  /\ log'[p].kind = "proposed" /\ log'[p].ref = Last(ProjectRoutes'.order)
                  /\ \A q \in 1 .. Len(log') : log'[q].kind = "proposed" => q <= p
      <4>1. Len(log') \in 1 .. Len(log') /\ \A q \in 1 .. Len(log') : q <= Len(log')
        BY <2>1
      <4> QED
        BY <2>1, <2>13, <3>3, <3>4, <4>1
    <3> QED
      BY <3>3, <3>4, <3>5, <3>6, <3>7 DEF ViewInv
  <2>14. CASE ~v.bad /\ h.kind \in Resolutions
    <3>1. h.ref \in Proposed /\ h.kind \notin {"proposed", "admitted"}
      BY <2>5, <2>14 DEF Resolutions
    <3>2. v.how[h.ref] = Standing(h.ref)
      BY <2>7, <2>8, <2>14
    <3>3. CASE h.ref \in Resolved
      <4>1. v.how[h.ref] # "pending"
        BY <3>2, <3>3 DEF Standing, Resolved
      <4>2. ProjectRoutes' = [v EXCEPT !.bad = TRUE]
        BY <2>3, <2>14, <3>1, <4>1 DEF ProjectRoute
      <4>3. ProjectRoutes' \in View /\ ProjectRoutes'.bad
        BY <2>7, <4>2 DEF View
      <4>4. RecoverRaises'
        BY <2>4, <2>14, <3>3
      <4>5. ProjectRoutes'.bad = RecoverRaises'
        BY <4>2, <4>4, <2>9 DEF RecoverRaises
      <4> QED
        BY <4>3, <4>5 DEF ViewInv
    <3>4. CASE h.ref \notin Resolved
      <4>1. v.how[h.ref] = "pending"
        BY <3>1, <3>2, <3>4 DEF Standing, Resolved
      <4>2. ProjectRoutes' = [v EXCEPT !.how[h.ref] = h.kind]
        BY <2>3, <2>14, <3>1, <4>1 DEF ProjectRoute
      <4>3. /\ ProjectRoutes'.order = v.order /\ ProjectRoutes'.bad = v.bad
            /\ ProjectRoutes'.how = [v.how EXCEPT ![h.ref] = h.kind]
            /\ ProjectRoutes' \in View
        BY <2>7, <2>9, <2>14, <4>2 DEF View
      <4>4. Proposed' = Proposed /\ ProjectRoutes'.bad = RecoverRaises'
        <5>1. Proposed' = Proposed
          BY <2>2, <3>1
        <5>2. RecoverRaises' = RecoverRaises
          BY <2>4, <3>4 DEF RecoverRaises
        <5> QED
          BY <2>7, <4>3, <5>1, <5>2
      <4>5. ASSUME NEW r \in 1 .. MaxTurns PROVE ProjectRoutes'.how[r] = Standing(r)'
        <5>1. ProjectRoutes'.how[r] = IF r = h.ref THEN h.kind ELSE v.how[r]
          BY <2>8, <2>9, <4>3
        <5>2. v.how[r] = Standing(r)
          BY <2>7, <2>14
        <5>3. /\ r \in ResolvedAs("accepted")'
                   <=> r \in ResolvedAs("accepted") \/ (h.kind = "accepted" /\ h.ref = r)
              /\ r \in ResolvedAs("corrected")'
                   <=> r \in ResolvedAs("corrected") \/ (h.kind = "corrected" /\ h.ref = r)
          BY <2>2
        <5> QED
          BY <2>14, <3>4, <4>4, <5>1, <5>2, <5>3 DEF Standing, Resolved, Resolutions
      <4> QED
        BY <2>7, <2>10, <2>14, <3>1, <4>3, <4>4, <4>5 DEF ViewInv
    <3> QED
      BY <3>3, <3>4
  <2> QED
    BY <2>8, <2>11, <2>12, <2>13, <2>14
<1> QED
  BY <1>1, <1>2, StreamStep DEF Keeps, Enqueues

-----------------------------------------------------------------------------
(* The theorems.                                                           *)

LEMMA FirstTurn ==
  ASSUME TurnInit
  PROVE  TInv
<1> USE DEF TurnInit
<1>1. /\ Len(turns) = 0 /\ Len(log) = 0 /\ Len(queue) = 0 /\ MaxTurns \in Nat
      /\ turns \in Seq(TurnRecord) /\ log \in Seq(StreamEvent) /\ queue \in Seq(StreamEvent)
  BY BoundsAreNat
<1>2. TurnTypeOK
  <2>1. work \in [pc : {"idle", "turn", "accepted", "pending", "decide", "model", "resolved",
                     "corrected", "proposed", "refused", "route run", "run", "admitted",
                     "result", "callback"},
               f : Submits \cup {NoRoute}, said : AllTexts \cup {NoText},
               route : 0 .. MaxTurns]
    BY <1>1 DEF Idle, NoRoute
  <2>2. /\ hub \in {"up", "closing", "down"}
        /\ outcome \in [1 .. MaxTurns -> {"none", "running", "ok", "failed", "unproven", "closed"}]
        /\ fut \in [Submits -> {"none", "queued", "running", "done"}]
        /\ said \in AllTexts \cup {NoText}
        /\ active \in Submits \cup {NoRoute} /\ callbacks \subseteq Submits
    OBVIOUS
  <2>3. /\ ui \in [pc : {"idle", "register"}, new : Submits \cup {NoRoute},
             future : Submits \cup {NoRoute}]
        /\ faults \in [crash : Nat, timeout : Nat, save : Nat]
    OBVIOUS
  <2>4. Len(turns) <= MaxTurns
    BY <1>1
  <2> QED
    BY <1>1, <2>1, <2>2, <2>3, <2>4 DEF TurnTypeOK
<1>3. LogSet = {} /\ QueueSet = {}
  BY <1>1 DEF LogSet, QueueSet
<1>4. ThreadInv /\ SpaceInv /\ WorkInv /\ StartedInv
  BY <1>1 DEF ThreadInv, SpaceInv, WorkInv, StartedInv, Idle, ActiveIsTheTurn, Unfinished,
              Between, BeforeUser, AfterUser
<1>5. RefInv /\ LogInv /\ QueueInv /\ ProposedOnce /\ DecidedInOrder
  BY <1>1, <1>3 DEF RefInv, RefsHold, LogInv, QueueInv, ProposedOnce, DecidedInOrder
<1>6. ViewInv
  <2>1. ProjectRoutes = NoRoutes
    BY ProjectNone DEF ProjectRoutes
  <2>2. ~RecoverRaises /\ Proposed = {} /\ \A r : Standing(r) = "none"
    BY <1>1, <1>3 DEF RecoverRaises, Proposed, Standing, ResolvedAs
  <2>3. NoRoutes \in View
    BY <1>1 DEF NoRoutes, View
  <2>4. RecoverRaises = FALSE
    BY <2>2 DEF RecoverRaises
  <2> QED
    BY <2>1, <2>2, <2>3, <2>4 DEF ViewInv, NoRoutes
<1> QED
  BY <1>2, <1>4, <1>5, <1>6 DEF TInv

LEMMA NextTurn ==
  ASSUME TInv, [TurnNext]_turnVars
  PROVE  TInv'
<1>1. Stores /\ StartedInv /\ ProposedOnce /\ DecidedInOrder /\ ViewInv
  BY DEF TInv, Stores
<1>2. TurnTypeOK' /\ ThreadInv'
  BY <1>1, TypeStep, ThreadStep
<1> QED
  BY <1>1, <1>2, SpaceStep, RefStep, LogStep, QueueStep, WorkStep, StartedStep, ProposedOnceStep,
     DecidedInOrderStep, ViewStep DEF TInv

\* The inductive invariant of a turn holds throughout.
THEOREM TurnInvariant == TurnSpec => []TInv
<1>1. TurnInit => TInv
  BY FirstTurn
<1>2. TInv /\ [TurnNext]_turnVars => TInv'
  BY NextTurn
<1> QED
  BY <1>1, <1>2, PTL DEF TurnSpec

\* Type correctness of the dispatcher, the gateway and the two stores.
THEOREM TurnTypeCorrect == TurnSpec => []TurnTypeOK
<1>1. TInv => TurnTypeOK
  BY DEF TInv
<1> QED
  BY <1>1, TurnInvariant, PTL

\* While a submitted turn is unfinished it is the active one, however the callbacks
\* of earlier turns are timed (HubTurnDispatcher.submit and _clear_active).
THEOREM ActiveIsTheTurnHolds == TurnSpec => []ActiveIsTheTurn
<1>1. TInv => ActiveIsTheTurn
  BY DEF TInv, ThreadInv
<1> QED
  BY <1>1, TurnInvariant, PTL

\* A started task was admitted, and what the model proposed was proposed, then
\* accepted by a later turn of the user, then admitted, in that order.
THEOREM AuthorityFirstHolds == TurnSpec => []AuthorityFirst
<1>1. ASSUME TInv PROVE AuthorityFirst
  <2> USE DEF TInv
  <2>1. SUFFICES ASSUME NEW t \in 1 .. Len(turns), outcome[t] # "none"
                 PROVE  /\ t \in Admitted
                        /\ DecideRoute(turns[t].text) = "model" /\ turns[t].text \notin Followups =>
                             /\ Before("proposed", "accepted", t) /\ Before("accepted", "admitted", t)
                             /\ Confirmed(t)
    BY <1>1 DEF AuthorityFirst, Confirmed
  <2>2. Len(log) \in Nat /\ t \in 1 .. MaxTurns
    BY <1>1, Lengths
  <2>3. t \in Admitted
    BY <1>1, <2>1, <2>2 DEF StartedInv
  <2>4. PICK i \in 1 .. Len(log) : log[i].kind = "admitted" /\ log[i].ref = t
    BY <1>1, <2>3, InStream
  <2>5. turns[t] = User(log[i].text) /\ log[i].text \in AllTexts
    <3>1. log[i] \in StreamEvent /\ log[i] \in LogSet
      BY <1>1, InStream DEF LogSet
    <3> QED
      BY <1>1, <2>4, <3>1 DEF RefInv, RefsHold, StreamEvent
  <2>6. ASSUME DecideRoute(turns[t].text) = "model", turns[t].text \notin Followups
        PROVE  /\ Before("proposed", "accepted", t) /\ Before("accepted", "admitted", t)
               /\ Confirmed(t)
    <3>1. log[i].text \in Prose
      BY <2>5, <2>6, RoutedToWork DEF User
    <3>2. PICK a \in 1 .. i - 1 : log[a].kind = "accepted" /\ log[a].ref = t
      BY <1>1, <2>4, <3>1 DEF LogInv
    <3>3. a \in 1 .. Len(log) /\ a < i
      BY <2>2, <3>2
    <3>4. PICK p \in 1 .. a - 1 : log[p].kind = "proposed" /\ log[p].ref = t
      BY <1>1, <3>2, <3>3 DEF LogInv, Resolutions
    <3>5. p \in 1 .. Len(log) /\ p < a
      BY <2>2, <3>3, <3>4
    <3>6. Confirmed(t)
      BY <1>1, <3>2, <3>3 DEF LogInv
    <3> QED
      BY <2>4, <3>2, <3>3, <3>4, <3>5, <3>6 DEF Before
  <2> QED
    BY <2>3, <2>6
<1> QED
  BY <1>1, TurnInvariant, PTL

\* The conversation, the stream and both projections of it agree: references hold,
\* and a decision is asked for exactly while the gateway takes one.
THEOREM RoutesAgreeHolds == TurnSpec => []RoutesAgree
<1>1. ASSUME TInv PROVE RoutesAgree
  <2> USE DEF TInv
  <2> DEFINE v == ProjectRoutes
  <2>1. RefsHold
    BY <1>1 DEF RefInv
  <2>2. /\ v \in View /\ v.bad = RecoverRaises
        /\ ~v.bad =>
             /\ \A r \in 1 .. MaxTurns : v.how[r] = Standing(r)
             /\ v.order = <<>> => Proposed = {}
             /\ v.order # <<>> =>
              \E p \in 1 .. Len(log) :
                /\ log[p].kind = "proposed" /\ log[p].ref = Last(v.order)
                /\ \A q \in 1 .. Len(log) : log[q].kind = "proposed" => q <= p
    BY <1>1 DEF ViewInv
  <2> HIDE DEF v
  <2>3. ASSUME ~v.bad PROVE DecisionShown(v) <=> PendingAcceptance # {}
    <3>1. CASE v.order = <<>>
      BY <2>2, <2>3, <3>1 DEF DecisionShown, PendingAcceptance
    <3>2. CASE v.order # <<>>
      <4>1. PICK p \in 1 .. Len(log) :
                /\ log[p].kind = "proposed" /\ log[p].ref = Last(v.order)
                /\ \A q \in 1 .. Len(log) : log[q].kind = "proposed" => q <= p
        BY <2>2, <2>3, <3>2
      <4> DEFINE r == Last(v.order)
      <4>2. r \in Proposed /\ r \in 1 .. MaxTurns
        BY <1>1, <4>1, InStream
      <4> HIDE DEF r
      <4>3. v.how[r] = Standing(r)
        BY <2>2, <2>3, <4>2
      <4>4. DecisionShown(v) <=> r \in PendingAcceptance
        BY <3>2, <4>2, <4>3 DEF DecisionShown, Standing, PendingAcceptance, r
      <4>5. ASSUME NEW s \in PendingAcceptance PROVE r \in PendingAcceptance
        <5>1. PICK q \in 1 .. Len(log) : log[q].kind = "proposed" /\ log[q].ref = s
          BY <1>1, InStream DEF PendingAcceptance
        <5>2. CASE q = p
          BY <4>1, <5>1, <5>2 DEF r
        <5>3. CASE q # p /\ r \in Resolved
          <6>1. q < p
            BY <4>1, <5>1, <5>3
          <6>2. PICK e \in LogSet : e.kind \in Resolutions /\ e.ref = r
            BY <5>3 DEF Resolved, ResolvedAs, Resolutions
          <6>3. s \in Resolved
            BY <1>1, <4>1, <5>1, <6>1, <6>2 DEF DecidedInOrder, r
          <6> QED
            BY <6>3 DEF PendingAcceptance, Resolved
        <5> QED
          BY <4>2, <5>2, <5>3 DEF PendingAcceptance, Resolved
      <4> QED
        BY <4>4, <4>5
    <3> QED
      BY <3>1, <3>2
  <2> QED
    BY <2>1, <2>2, <2>3 DEF RoutesAgree, DecisionIsAsked, DecisionShown, v
<1> QED
  BY <1>1, TurnInvariant, PTL

-----------------------------------------------------------------------------
(* The Hub: the inductive invariant.                                       *)

CardSet ==
  [seen : BOOLEAN, bad : BOOLEAN, check : Checks \cup {"none"}, state : States \cup {"-"},
   open : SUBSET (Nat \X Tools), verdict : Verdicts \cup {"none"}, reason : Reasons,
   cleanup : Cleanups \cup {"none"}, cancel : BOOLEAN, closed : Nat, last : Nat, ran : BOOLEAN,
   verified : BOOLEAN, cand : CandidateFacts]

\* The call the thread w has begun and not finished.
Calls(w) == IF w.pc = "tool" THEN {<<Len(w.done) + 1, w.call>>} ELSE {}

\* What the card of task t in the stream s shows of its thread w and its row ro.
CardShows(s, t, w, ro) ==
  LET k == ProjectTask(s, t) IN
    /\ k \in CardSet
    /\ k.seen /\ ~k.bad
    /\ k.check = (IF w.kind \in Checks THEN w.kind ELSE "none")
    /\ k.state = ro.state
    /\ ~ro.terminal => /\ k.closed = 0 /\ k.verdict = "none"
                       /\ k.open = Calls(w)
    /\ ~k.ran /\ ~k.verified /\ k.cand = NoCandidate

\* The last event of t in s has the number n.
LastEvent(s, t, n) ==
  /\ n \in 1 .. Len(s) /\ s[n].task = t
  /\ \A i \in 1 .. Len(s) : s[i].task = t => i <= n

\* Task t was admitted as what it is, and fails in s where its thread's last step did.
StepsOnRecord(s, t, w) ==
  LET Is(n, kind) == s[n].task = t /\ s[n].kind = kind
      Failed(n) == Is(n, "tool.finished") /\ s[n].out = "fail"
  IN
    /\ \E n \in 1 .. Len(s) : Is(n, "task.admitted")
    /\ \A n \in 1 .. Len(s) : Is(n, "task.admitted") => s[n].what = w.kind
    /\ \A n \in 1 .. Len(s) :
         Failed(n) => LastOut(w.done) = "fail" /\ s[n].tool = Last(w.done).tool
    /\ LastOut(w.done) = "fail" => \E n \in 1 .. Len(s) : Failed(n)

\* The verdict of t in s has the number n, and there is no other.
VerdictAt(s, t, n) ==
  \A i \in 1 .. Len(s) : (s[i].task = t /\ s[i].kind = "task.verdict") <=> i = n

\* What the stream s tells of task t.
Told(s, t, w, ro) ==
  /\ CardShows(s, t, w, ro)
  /\ LastEvent(s, t, ProjectTask(s, t).last)
  /\ StepsOnRecord(s, t, w)
  /\ ~ro.terminal => VerdictAt(s, t, 0)

\* What the stream s tells of a closed task t with the retained result a.
ToldClosed(s, t, a) ==
  LET k == ProjectTask(s, t) IN
    /\ k.closed = k.last /\ k.last > 1
    /\ VerdictAt(s, t, k.last - 1)
    /\ s[k.last - 1].verdict = a.verdict
    /\ k.verdict = a.verdict /\ k.state = a.state

\* A retained result is one its readers accept.
Readable(t, a) ==
  /\ a.task = t /\ CandidateOk(a.cand)
  /\ [state |-> a.state, verdict |-> a.verdict] = Projection(a.outcome)
  /\ (a.outcome = "pass") = a.verified

\* The role of a candidate an action succeeds in.
RoleOf(kind) ==
  CASE kind = "diff"    -> "reviewed"
    [] kind = "apply"   -> "applied"
    [] kind = "undo"    -> "undone"
    [] kind = "commit"  -> "committed"
    [] kind = "discard" -> "discarded"

\* A result of task t is one its thread w can have.
Fits(t, w, r) ==
  /\ w.kind \in Checks =>
       /\ r.cand = NoCandidate
       /\ r.facts # "none" => r.outcome = "fail" /\ r.facts = FailingStep(w.done)
       /\ r.outcome = "fail" /\ r.ran => LastOut(w.done) = "fail"
  /\ w.kind \in {"ask", "watch"} => r.cand = NoCandidate
  /\ w.kind = "fix" => r.cand = NoCandidate \/ (r.cand.id = t /\ r.cand.role = "prepared")
  /\ w.kind \in Actions =>
       \/ r.cand = NoCandidate
       \/ r.cand.id = w.ref /\ (r.outcome = "pass" \/ r.cand.role = "apply_refused")
  /\ w.kind \in Actions /\ r.outcome = "pass" => r.cand.role = RoleOf(w.kind)

\* What the thread of a task may return.
Valid(t, w, r) ==
  /\ r \in Results /\ r.verified = (r.outcome = "pass")
  /\ r.cand.retained => r.cand.role = "prepared"
  /\ Fits(t, w, r)

\* A step begins only after steps that passed; only checks and changes have steps.
StepOk(t, w) ==
  /\ w.pc = "tool" => StepOuts(w.done) \subseteq {"pass"} /\ w.call \in Tools
  /\ w.kind \notin Checks \cup {"fix"} => w.done = <<>> /\ w.call = "none"
  /\ w.pc = "returned" => Valid(t, w, w.r)
  /\ w.kind \in Actions => w.ref < t
StepInv == \A t \in Tasks : StepOk(t, thread[t])

\* The stream tells of every task what there is to tell.
StreamInv ==
  /\ \A t \in Tasks : Told(stream, t, thread[t], row[t])
  /\ \A n \in 1 .. Len(stream) : stream[n].task \in Tasks
  /\ \A t \in DOMAIN res :
       ToldClosed(stream, t, res[t]) /\ Readable(t, res[t]) /\ Fits(t, thread[t], res[t])

\* One turn at a time: what a task made of a candidate is on record before the next task.
OneTurn ==
  \A u, v \in Tasks : u < v /\ thread[u].kind # "watch" /\ thread[v].kind # "watch" =>
    /\ ~Open(u)
    /\ u \in DOMAIN res /\ res[u].cand.role # "none" =>
         ProjectTask(stream, u).last < ProjectTask(stream, v).last

HubInv == HubTypeOK /\ StepInv /\ StreamInv /\ OneTurn

\* The card of task t after each of the first n events.
CardSteps(events, t, n, card) ==
  card = [k \in 0 .. n |-> IF k = 0 THEN NoCard ELSE IfOwn(card[k - 1], events[k], k, t)]

LEMMA CardStepsExist ==
  ASSUME NEW events, NEW t, NEW n \in Nat
  PROVE  \E card : CardSteps(events, t, n, card)
<1> DEFINE S == {m \in Nat : \E card : CardSteps(events, t, m, card)}
<1>1. 0 \in S
  <2> DEFINE f == [k \in 0 .. 0 |-> NoCard]
  <2>1. f = [k \in 0 .. 0 |->
               IF k = 0 THEN NoCard ELSE IfOwn(f[k - 1], events[k], k, t)]
    OBVIOUS
  <2>2. CardSteps(events, t, 0, f)
    BY <2>1 DEF CardSteps
  <2> QED
    BY <2>2
<1>2. ASSUME NEW m \in S PROVE m + 1 \in S
  <2>1. m \in Nat
    OBVIOUS
  <2>2. PICK f : CardSteps(events, t, m, f)
    OBVIOUS
  <2> DEFINE g == [k \in 0 .. m + 1 |->
                     IF k <= m THEN f[k] ELSE IfOwn(f[m], events[m + 1], m + 1, t)]
  <2>3. \A k \in 0 .. m : f[k] = IF k = 0 THEN NoCard ELSE IfOwn(f[k - 1], events[k], k, t)
    BY <2>1, <2>2 DEF CardSteps
  <2>4. \A k \in 0 .. m + 1 :
          g[k] = IF k = 0 THEN NoCard ELSE IfOwn(g[k - 1], events[k], k, t)
    <3>1. ASSUME NEW k \in 0 .. m + 1
          PROVE  g[k] = IF k = 0 THEN NoCard ELSE IfOwn(g[k - 1], events[k], k, t)
      <4>1. CASE k = 0
        BY <2>1, <2>3, <4>1
      <4>2. CASE k # 0 /\ k <= m
        <5>1. k \in 0 .. m /\ k - 1 \in 0 .. m + 1 /\ k - 1 <= m
          BY <2>1, <4>2
        <5>2. g[k] = f[k] /\ g[k - 1] = f[k - 1]
          BY <4>2, <5>1
        <5> HIDE DEF g
        <5> QED
          BY <2>3, <4>2, <5>1, <5>2
      <4>3. CASE k = m + 1
        <5>1. g[m + 1] = IfOwn(f[m], events[m + 1], m + 1, t) /\ g[m] = f[m]
          BY <2>1
        <5>2. k - 1 = m /\ k # 0
          BY <2>1, <4>3
        <5> HIDE DEF g
        <5> QED
          BY <4>3, <5>1, <5>2
      <4> QED
        BY <2>1, <4>1, <4>2, <4>3
    <3> QED
      BY <3>1
  <2>5. CardSteps(events, t, m + 1, g)
    <3> DEFINE h == [k \in 0 .. m + 1 |->
                       IF k = 0 THEN NoCard ELSE IfOwn(g[k - 1], events[k], k, t)]
    <3>1. g = h
      <4>1. g = [k \in 0 .. m + 1 |-> g[k]]
        OBVIOUS
      <4> HIDE DEF g
      <4> QED
        BY <2>4, <4>1
    <3> HIDE DEF g
    <3> QED
      BY <3>1 DEF CardSteps
  <2> QED
    BY <2>1, <2>5
<1>3. S = Nat
  <2> HIDE DEF S
  <2>1. S \in SUBSET Nat
    BY DEF S
  <2> QED
    BY <1>1, <1>2, <2>1, AllNumbers
<1> QED
  BY <1>3

\* Two streams with a common beginning give the same card there.
LEMMA CardStepsAgree ==
  ASSUME NEW s, NEW r, NEW t, NEW f, NEW g, NEW m \in Nat, NEW n \in Nat, NEW k \in Nat,
         k <= m, k <= n, CardSteps(s, t, m, f), CardSteps(r, t, n, g),
         \A i \in 1 .. k : s[i] = r[i]
  PROVE  f[k] = g[k]
<1> DEFINE S == {i \in Nat : i <= k => f[i] = g[i]}
<1>1. \A i \in 0 .. m : f[i] = IF i = 0 THEN NoCard ELSE IfOwn(f[i - 1], s[i], i, t)
  BY DEF CardSteps
<1>2. \A i \in 0 .. n : g[i] = IF i = 0 THEN NoCard ELSE IfOwn(g[i - 1], r[i], i, t)
  BY DEF CardSteps
<1>3. 0 \in S
  BY <1>1, <1>2
<1>4. ASSUME NEW i \in S PROVE i + 1 \in S
  <2>1. CASE i + 1 <= k
    <3>1. /\ i + 1 \in 0 .. m /\ i + 1 \in 0 .. n /\ i + 1 # 0 /\ i + 1 \in 1 .. k
          /\ i + 1 - 1 = i /\ i <= k /\ i \in Nat
      BY <2>1
    <3>2. f[i + 1] = IfOwn(f[i], s[i + 1], i + 1, t) /\ g[i + 1] = IfOwn(g[i], r[i + 1], i + 1, t)
      BY <1>1, <1>2, <3>1
    <3> QED
      BY <3>1, <3>2
  <2> QED
    BY <2>1
<1>5. S = Nat
  <2> HIDE DEF S
  <2>1. S \in SUBSET Nat
    BY DEF S
  <2> QED
    BY <1>3, <1>4, <2>1, AllNumbers
<1> QED
  BY <1>5

LEMMA CardTotal ==
  ASSUME NEW events, NEW t, Len(events) \in Nat
  PROVE  \E card : /\ CardSteps(events, t, Len(events), card)
                   /\ ProjectTask(events, t) = card[Len(events)]
<1> DEFINE c == CHOOSE card : CardSteps(events, t, Len(events), card)
<1>1. CardSteps(events, t, Len(events), c)
  BY CardStepsExist
<1>2. ProjectTask(events, t) = c[Len(events)]
  BY DEF ProjectTask, CardSteps
<1> HIDE DEF c
<1> QED
  BY <1>1, <1>2

\* One more event shows on the card of its own task.
LEMMA CardOneMore ==
  ASSUME NEW T, NEW s \in Seq(T), NEW e \in T, NEW t
  PROVE  ProjectTask(Append(s, e), t) = IfOwn(ProjectTask(s, t), e, Len(s) + 1, t)
<1> DEFINE n == Len(s)  longer == Append(s, e)
<1>1. /\ n \in Nat /\ Len(longer) = n + 1 /\ longer[n + 1] = e
      /\ \A i \in 1 .. n : s[i] = longer[i]
  BY AppendOne, LenProperties
<1> HIDE DEF n, longer
<1>2. PICK f : CardSteps(s, t, n, f) /\ ProjectTask(s, t) = f[n]
  BY <1>1, CardTotal DEF n
<1>3. PICK g : CardSteps(longer, t, n + 1, g) /\ ProjectTask(longer, t) = g[n + 1]
  BY <1>1, CardTotal
<1>4. f[n] = g[n]
  <2>1. CardSteps(s, t, n, f) /\ CardSteps(longer, t, n + 1, g)
    BY <1>2, <1>3
  <2>2. n \in Nat /\ n + 1 \in Nat /\ n <= n /\ n <= n + 1
    BY <1>1
  <2>3. \A i \in 1 .. n : s[i] = longer[i]
    BY <1>1
  <2> QED
    BY <2>1, <2>2, <2>3, CardStepsAgree
<1>5. g[n + 1] = IfOwn(g[n], longer[n + 1], n + 1, t)
  <2>1. n + 1 \in 0 .. n + 1 /\ n + 1 # 0 /\ n + 1 - 1 = n
    BY <1>1
  <2>2. \A i \in 0 .. n + 1 : g[i] = IF i = 0 THEN NoCard ELSE IfOwn(g[i - 1], longer[i], i, t)
    BY <1>3 DEF CardSteps
  <2>3. n \in Nat
    BY <1>1
  <2> QED
    BY <2>1, <2>2, <2>3
<1> QED
  BY <1>1, <1>2, <1>3, <1>4, <1>5 DEF n, longer

-----------------------------------------------------------------------------
(* What one event changes on a card.                                       *)

EventKinds == {"task.admitted", "task.state_changed", "tool.started", "tool.finished",
               "task.cancel_requested", "task.verdict", "task.closed"}

\* The fields an event of each kind carries.
LEMMA EventFields ==
  ASSUME NEW e \in StreamEvents
  PROVE  /\ e.kind \in EventKinds /\ e.task \in Nat
         /\ e.kind = "task.admitted" => e.what \in AllKinds
         /\ e.kind = "task.state_changed" => e.previous \in States /\ e.current \in States
         /\ e.kind \in {"tool.started", "tool.finished"} => e.call \in Nat /\ e.tool \in Tools
         /\ e.kind = "task.verdict" => e.verdict \in Verdicts /\ e.reason \in Reasons
         /\ e.kind = "task.closed" => e.status \in States /\ e.cleanup \in Cleanups
  BY DEF StreamEvents, EventKinds

\* What makes the projection refuse an event.
Faulty(k, e) ==
  \/ e.kind = "task.admitted" /\ k.seen
  \/ e.kind = "task.state_changed" /\ e.previous # k.state
  \/ e.kind = "tool.started" /\ \E o \in k.open : o[1] = e.call
  \/ e.kind = "tool.finished" /\ <<e.call, e.tool>> \notin k.open
  \/ e.kind = "task.closed" /\ k.verdict = "none"

NewState(k, e) ==
  CASE e.kind = "task.admitted"      -> "admitted"
    [] e.kind = "task.state_changed" -> e.current
    [] e.kind = "task.closed"        -> e.status
    [] OTHER                         -> k.state
NewOpen(k, e) ==
  CASE e.kind = "tool.started"  -> k.open \cup {<<e.call, e.tool>>}
    [] e.kind = "tool.finished" -> k.open \ {<<e.call, e.tool>>}
    [] OTHER                    -> k.open

\* The card k after the event e, before its number and place are noted.
EventEffect(k, e, n, c) ==
  /\ c \in CardSet
  /\ c.seen = (k.seen \/ e.kind = "task.admitted")
  /\ c.bad = (k.bad \/ Faulty(k, e))
  /\ c.check = IF e.kind # "task.admitted" THEN k.check
               ELSE IF e.what \in Checks THEN e.what ELSE "none"
  /\ c.state = NewState(k, e)
  /\ c.open = NewOpen(k, e)
  /\ c.verdict = IF e.kind = "task.verdict" THEN e.verdict ELSE k.verdict
  /\ c.reason = IF e.kind = "task.verdict" THEN e.reason ELSE k.reason
  /\ c.closed = IF e.kind = "task.closed" THEN n ELSE k.closed
  /\ c.cleanup = IF e.kind = "task.closed" THEN e.cleanup ELSE k.cleanup
  /\ c.ran = k.ran /\ c.verified = k.verified /\ c.cand = k.cand

LEMMA OnEventEffect ==
  ASSUME NEW k \in CardSet, NEW e \in StreamEvents, NEW n \in Nat
  PROVE  EventEffect(k, e, n, OnEvent(k, e, n))
<1>1. CASE e.kind = "task.admitted"
  <2>1. OnEvent(k, e, n) = OnAdmitted(k, e)
    BY <1>1 DEF OnEvent
  <2> QED
    BY <1>1, <2>1, EventFields, ZenonT(40)
    DEF OnAdmitted, EventEffect, CardSet, Faulty, NewState, NewOpen, States
<1>2. CASE e.kind = "task.state_changed"
  <2>1. OnEvent(k, e, n) = OnStateChanged(k, e)
    BY <1>2 DEF OnEvent
  <2> QED
    BY <1>2, <2>1, EventFields
    DEF OnStateChanged, EventEffect, CardSet, Faulty, NewState, NewOpen
<1>3. CASE e.kind = "tool.started"
  <2>1. OnEvent(k, e, n) = OnToolStarted(k, e)
    BY <1>3 DEF OnEvent
  <2> QED
    <3> DEFINE b == k.bad \/ \E o \in k.open : o[1] = e.call
               o == k.open \cup {<<e.call, e.tool>>}
               c == [k EXCEPT !.bad = b, !.open = o]
    <3>1. b \in BOOLEAN /\ o \in SUBSET (Nat \X Tools)
      BY <1>3, EventFields DEF CardSet
    <3>2. OnToolStarted(k, e) = c
      BY DEF OnToolStarted
    <3>3. b = (k.bad \/ Faulty(k, e)) /\ o = NewOpen(k, e) /\ NewState(k, e) = k.state
      BY <1>3 DEF Faulty, NewOpen, NewState, CardSet
    <3> HIDE DEF b, o
    <3>4. c \in CardSet /\ c.bad = b /\ c.open = o
          /\ c.seen = k.seen /\ c.check = k.check /\ c.state = k.state
          /\ c.verdict = k.verdict /\ c.reason = k.reason /\ c.closed = k.closed
          /\ c.cleanup = k.cleanup
          /\ c.ran = k.ran /\ c.verified = k.verified /\ c.cand = k.cand
      BY <3>1 DEF CardSet
    <3> HIDE DEF c
    <3>5. k.seen \in BOOLEAN
      BY DEF CardSet
    <3> QED
      BY <1>3, <2>1, <3>2, <3>3, <3>4, <3>5 DEF EventEffect
<1>4. CASE e.kind = "tool.finished"
  <2>1. OnEvent(k, e, n) = OnToolFinished(k, e)
    BY <1>4 DEF OnEvent
  <2> QED
    <3> DEFINE b == k.bad \/ <<e.call, e.tool>> \notin k.open
               o == k.open \ {<<e.call, e.tool>>}
               c == [k EXCEPT !.bad = b, !.open = o]
    <3>1. b \in BOOLEAN /\ o \in SUBSET (Nat \X Tools)
      BY <1>4, EventFields DEF CardSet
    <3>2. OnToolFinished(k, e) = c
      BY DEF OnToolFinished
    <3>3. b = (k.bad \/ Faulty(k, e)) /\ o = NewOpen(k, e) /\ NewState(k, e) = k.state
      BY <1>4 DEF Faulty, NewOpen, NewState, CardSet
    <3> HIDE DEF b, o
    <3>4. c \in CardSet /\ c.bad = b /\ c.open = o
          /\ c.seen = k.seen /\ c.check = k.check /\ c.state = k.state
          /\ c.verdict = k.verdict /\ c.reason = k.reason /\ c.closed = k.closed
          /\ c.cleanup = k.cleanup
          /\ c.ran = k.ran /\ c.verified = k.verified /\ c.cand = k.cand
      BY <3>1 DEF CardSet
    <3> HIDE DEF c
    <3>5. k.seen \in BOOLEAN
      BY DEF CardSet
    <3> QED
      BY <1>4, <2>1, <3>2, <3>3, <3>4, <3>5 DEF EventEffect
<1>5. CASE e.kind = "task.cancel_requested"
  <2>1. OnEvent(k, e, n) = OnCancelRequested(k)
    BY <1>5 DEF OnEvent
  <2> QED
    BY <1>5, <2>1, EventFields
    DEF OnCancelRequested, EventEffect, CardSet, Faulty, NewState, NewOpen
<1>6. CASE e.kind = "task.verdict"
  <2>1. OnEvent(k, e, n) = OnVerdict(k, e)
    BY <1>6 DEF OnEvent
  <2> QED
    BY <1>6, <2>1, EventFields
    DEF OnVerdict, EventEffect, CardSet, Faulty, NewState, NewOpen
<1>7. CASE e.kind = "task.closed"
  <2>1. OnEvent(k, e, n) = OnClosed(k, e, n)
    BY <1>7 DEF OnEvent
  <2> QED
    BY <1>7, <2>1, EventFields, ZenonT(40)
    DEF OnClosed, EventEffect, CardSet, Faulty, NewState, NewOpen
<1> QED
  BY <1>1, <1>2, <1>3, <1>4, <1>5, <1>6, <1>7, EventFields DEF EventKinds

\* The card c is k after the event e with the number n.
Shows(k, e, n, c) ==
  /\ c \in CardSet /\ c.last = n
  /\ c.seen = (k.seen \/ e.kind = "task.admitted")
  /\ c.bad = (k.bad \/ Faulty(k, e) \/ Misplaced(k, e))
  /\ c.check = IF e.kind # "task.admitted" THEN k.check
               ELSE IF e.what \in Checks THEN e.what ELSE "none"
  /\ c.state = NewState(k, e)
  /\ c.open = NewOpen(k, e)
  /\ c.verdict = IF e.kind = "task.verdict" THEN e.verdict ELSE k.verdict
  /\ c.closed = IF e.kind = "task.closed" THEN n ELSE k.closed
  /\ c.ran = k.ran /\ c.verified = k.verified /\ c.cand = k.cand

LEMMA EventShows ==
  ASSUME NEW k \in CardSet, NEW e \in StreamEvents, NEW n \in Nat
  PROVE  Shows(k, e, n, ProjectRelevant(k, e, n))
<1> DEFINE a == OnEvent(k, e, n)
           c == [a EXCEPT !.last = n, !.bad = a.bad \/ Misplaced(k, e)]
<1>1. EventEffect(k, e, n, a)
  BY OnEventEffect
<1>2. Misplaced(k, e) \in BOOLEAN /\ a \in CardSet
  BY <1>1 DEF Misplaced, EventEffect
<1>3. ProjectRelevant(k, e, n) = c
  BY DEF ProjectRelevant
<1> DEFINE b == a.bad \/ Misplaced(k, e)
<1>4. b \in BOOLEAN /\ c = [a EXCEPT !.last = n, !.bad = b]
  BY <1>2 DEF CardSet
<1> HIDE DEF a, b, c
<1>5. /\ c.last = n /\ c.bad = b /\ c \in CardSet
      /\ c.seen = a.seen /\ c.check = a.check /\ c.state = a.state /\ c.open = a.open
      /\ c.verdict = a.verdict /\ c.closed = a.closed
      /\ c.ran = a.ran /\ c.verified = a.verified /\ c.cand = a.cand
  BY <1>2, <1>4 DEF CardSet
<1> QED
  BY <1>1, <1>3, <1>5 DEF EventEffect, b, Shows

-----------------------------------------------------------------------------
(* What one event of the stream tells.                                     *)

\* A task without events has no card.
LEMMA NoCardYet ==
  ASSUME NEW s, Len(s) \in Nat, NEW t, \A i \in 1 .. Len(s) : s[i].task # t
  PROVE  ProjectTask(s, t) = NoCard
<1> DEFINE n == Len(s)
<1>1. PICK f : CardSteps(s, t, n, f) /\ ProjectTask(s, t) = f[n]
  BY CardTotal
<1>2. \A i \in 0 .. n : f[i] = IF i = 0 THEN NoCard ELSE IfOwn(f[i - 1], s[i], i, t)
  BY <1>1 DEF CardSteps
<1> DEFINE S == {i \in Nat : i <= n => f[i] = NoCard}
<1>3. 0 \in S
  BY <1>2
<1>4. ASSUME NEW i \in S PROVE i + 1 \in S
  <2>1. CASE i + 1 <= n
    <3>1. i \in Nat /\ i <= n /\ i + 1 \in 0 .. n /\ i + 1 \in 1 .. n /\ i + 1 # 0 /\ i + 1 - 1 = i
      BY <2>1
    <3>2. f[i + 1] = IfOwn(f[i], s[i + 1], i + 1, t) /\ s[i + 1].task # t
      BY <1>2, <3>1
    <3> QED
      BY <3>1, <3>2 DEF IfOwn
  <2> QED
    BY <2>1
<1>5. S = Nat
  <2> HIDE DEF S
  <2>1. S \in SUBSET Nat
    BY DEF S
  <2> QED
    BY <1>3, <1>4, <2>1, AllNumbers
<1> QED
  BY <1>1, <1>5

\* An event of another task tells nothing of this one.
LEMMA OtherTold ==
  ASSUME NEW s \in Seq(StreamEvents), NEW e \in StreamEvents, NEW t, NEW w, NEW ro,
         e.task # t, Told(s, t, w, ro)
  PROVE  /\ Told(Append(s, e), t, w, ro)
         /\ ProjectTask(Append(s, e), t) = ProjectTask(s, t)
         /\ \A a : ToldClosed(s, t, a) => ToldClosed(Append(s, e), t, a)
<1> DEFINE k == ProjectTask(s, t)  n == Len(s)  r == Append(s, e)
<1>1. /\ n \in Nat /\ Len(r) = n + 1 /\ r[n + 1] = e
      /\ \A i \in 1 .. n : r[i] = s[i]
  BY AppendOne, LenProperties
<1>2. ProjectTask(r, t) = k
  BY CardOneMore DEF IfOwn
<1>3. 1 .. Len(r) = (1 .. n) \cup {n + 1} /\ n + 1 \notin 1 .. n
  BY <1>1
<1>4. CardShows(r, t, w, ro)
  BY <1>2 DEF Told, CardShows
<1>5. LastEvent(s, t, k.last) /\ StepsOnRecord(s, t, w)
  BY DEF Told
<1> HIDE DEF k, n, r
<1>6. LastEvent(r, t, k.last)
  BY <1>1, <1>3, <1>5 DEF LastEvent, n
<1>7. StepsOnRecord(r, t, w)
  BY <1>1, <1>3, <1>5 DEF StepsOnRecord, n
<1>8. ASSUME NEW m \in Nat, m <= n, VerdictAt(s, t, m) PROVE VerdictAt(r, t, m)
  BY <1>1, <1>3, <1>8 DEF VerdictAt, n
<1>9. k.last \in 1 .. n
  BY <1>5 DEF LastEvent, n
<1>10. ASSUME NEW a, ToldClosed(s, t, a) PROVE ToldClosed(r, t, a)
  <2>1. /\ k.closed = k.last /\ k.last > 1 /\ VerdictAt(s, t, k.last - 1)
        /\ s[k.last - 1].verdict = a.verdict /\ k.verdict = a.verdict /\ k.state = a.state
    BY <1>10 DEF ToldClosed, k
  <2>2. k.last - 1 \in Nat /\ k.last - 1 <= n /\ k.last - 1 \in 1 .. n
    BY <1>1, <1>9, <2>1
  <2>3. VerdictAt(r, t, k.last - 1) /\ r[k.last - 1].verdict = a.verdict
    BY <1>1, <1>8, <2>1, <2>2
  <2> QED
    BY <1>2, <2>1, <2>3 DEF ToldClosed
<1>11. ~ro.terminal => VerdictAt(r, t, 0)
  BY <1>1, <1>8 DEF Told
<1> QED
  BY <1>2, <1>4, <1>6, <1>7, <1>10, <1>11 DEF Told, r, k

\* The last event of the task an event is of.
LEMMA OwnLast ==
  ASSUME NEW s \in Seq(StreamEvents), NEW e \in StreamEvents
  PROVE  LastEvent(Append(s, e), e.task, Len(s) + 1)
<1>1. /\ Len(s) \in Nat /\ Len(Append(s, e)) = Len(s) + 1 /\ Append(s, e)[Len(s) + 1] = e
  BY AppendOne, LenProperties
<1> QED
  BY <1>1 DEF LastEvent

\* An event of the open task t tells what its thread and its row are now.
LEMMA OwnTold ==
  ASSUME NEW s \in Seq(StreamEvents), NEW e \in StreamEvents, NEW t, NEW w, NEW ro, NEW v, NEW rn,
         e.task = t, Told(s, t, w, ro), ~ro.terminal,
         e.kind \in {"task.state_changed", "tool.started", "tool.finished", "task.cancel_requested"},
         v.kind = w.kind, ~rn.terminal,
         ~Faulty(ProjectTask(s, t), e),
         NewState(ProjectTask(s, t), e) = rn.state,
         NewOpen(ProjectTask(s, t), e) = Calls(v),
         StepsOnRecord(Append(s, e), t, v)
  PROVE  /\ Told(Append(s, e), t, v, rn)
         /\ ProjectTask(Append(s, e), t).last = Len(s) + 1
<1> DEFINE k == ProjectTask(s, t)  n == Len(s)  r == Append(s, e)
           c == ProjectRelevant(k, e, n + 1)
<1>1. /\ n \in Nat /\ n + 1 \in Nat /\ Len(r) = n + 1 /\ r[n + 1] = e
      /\ \A i \in 1 .. n : r[i] = s[i]
  BY AppendOne, LenProperties
<1>2. ProjectTask(r, t) = c
  BY CardOneMore DEF IfOwn
<1>3. CardShows(s, t, w, ro) /\ VerdictAt(s, t, 0) /\ k \in CardSet
  BY DEF Told, CardShows
<1>4. LastEvent(r, t, n + 1)
  BY OwnLast
<1>5. k.seen /\ ~k.bad /\ k.closed = 0 /\ k.verdict = "none" /\ ~Misplaced(k, e)
  BY <1>3 DEF CardShows, Misplaced
<1>6. /\ c \in CardSet /\ c.last = n + 1 /\ c.seen /\ ~c.bad
      /\ c.check = k.check /\ c.closed = 0 /\ c.verdict = "none"
      /\ c.state = rn.state /\ c.open = Calls(v)
      /\ c.ran = k.ran /\ c.verified = k.verified /\ c.cand = k.cand
  <2>1. /\ ~Faulty(k, e) /\ NewState(k, e) = rn.state /\ NewOpen(k, e) = Calls(v)
        /\ e.kind # "task.admitted" /\ e.kind # "task.closed" /\ e.kind # "task.verdict"
    OBVIOUS
  <2> HIDE DEF k, n
  <2>2. Shows(k, e, n + 1, c)
    BY <1>1, <1>3, EventShows
  <2> HIDE DEF c
  <2> QED
    BY <1>1, <1>3, <1>5, <2>1, <2>2 DEF Shows
<1>7. CardShows(r, t, v, rn)
  BY <1>2, <1>3, <1>6 DEF CardShows
<1>8. VerdictAt(r, t, 0)
  <2> HIDE DEF r, n
  <2> QED
    BY <1>1, <1>3 DEF VerdictAt, n
<1> QED
  BY <1>2, <1>4, <1>6, <1>7, <1>8 DEF Told

\* The admission of a task no event has told of.
LEMMA AdmittedTold ==
  ASSUME NEW s \in Seq(StreamEvents), NEW e \in StreamEvents, NEW t, NEW w, NEW ro,
         e.task = t, e.kind = "task.admitted", \A i \in 1 .. Len(s) : s[i].task # t,
         w.kind = e.what, w.pc = "admitted", w.done = <<>>,
         ro.state = "admitted", ~ro.terminal
  PROVE  /\ Told(Append(s, e), t, w, ro)
         /\ ProjectTask(Append(s, e), t).last = Len(s) + 1
<1> DEFINE n == Len(s)  r == Append(s, e)  c == ProjectRelevant(NoCard, e, n + 1)
<1>1. /\ n \in Nat /\ n + 1 \in Nat /\ Len(r) = n + 1 /\ r[n + 1] = e
      /\ \A i \in 1 .. n : r[i] = s[i]
  BY AppendOne, LenProperties
<1>2. ProjectTask(r, t) = c
  BY <1>1, CardOneMore, NoCardYet DEF IfOwn
<1>3. NoCard \in CardSet /\ ~NoCard.seen /\ ~NoCard.bad /\ NoCard.closed = 0 /\ NoCard.open = {}
      /\ ~NoCard.ran /\ ~NoCard.verified /\ NoCard.cand = NoCandidate /\ NoCard.verdict = "none"
  BY DEF NoCard, CardSet, NoCandidate, CandidateFacts, Roles, Reasons
<1>4. Shows(NoCard, e, n + 1, c)
  BY <1>1, <1>3, EventShows
<1>5. /\ ~Faulty(NoCard, e) /\ ~Misplaced(NoCard, e)
      /\ NewState(NoCard, e) = "admitted" /\ NewOpen(NoCard, e) = {}
  BY <1>3 DEF Faulty, Misplaced, NewState, NewOpen
<1>6. Calls(w) = {}
  BY DEF Calls
<1>7. LastEvent(r, t, n + 1)
  BY OwnLast
<1> HIDE DEF c, r, n
<1>8. CardShows(r, t, w, ro) /\ c.last = n + 1
  BY <1>2, <1>3, <1>4, <1>5, <1>6 DEF CardShows, Shows
<1>9. VerdictAt(r, t, 0)
  BY <1>1 DEF VerdictAt, n
<1>10. StepsOnRecord(r, t, w)
  BY <1>1 DEF StepsOnRecord, LastOut, n
<1> QED
  BY <1>2, <1>7, <1>8, <1>9, <1>10 DEF Told, r, n

\* The verdict and the closure of an open task tell its result.
LEMMA ClosedTold ==
  ASSUME NEW s \in Seq(StreamEvents), NEW v \in StreamEvents, NEW e \in StreamEvents,
         NEW t, NEW w, NEW ro, NEW wn, NEW rn, NEW a,
         Told(s, t, w, ro), ~ro.terminal,
         v.task = t, v.kind = "task.verdict", e.task = t, e.kind = "task.closed",
         wn.kind = w.kind, wn.done = w.done, rn.terminal, rn.state = e.status,
         a.verdict = v.verdict, a.state = e.status
  PROVE  /\ Told(Append(Append(s, v), e), t, wn, rn)
         /\ ToldClosed(Append(Append(s, v), e), t, a)
         /\ ProjectTask(Append(Append(s, v), e), t).last = Len(s) + 2
<1> DEFINE k == ProjectTask(s, t)  n == Len(s)  r == Append(s, v)  q == Append(r, e)
           b == ProjectRelevant(k, v, n + 1)
           c == ProjectRelevant(b, e, n + 2)
<1>1. /\ n \in Nat /\ n + 1 \in Nat /\ n + 2 \in Nat
      /\ r \in Seq(StreamEvents) /\ Len(r) = n + 1 /\ r[n + 1] = v
      /\ \A i \in 1 .. n : r[i] = s[i]
  BY AppendOne, LenProperties
<1>2. /\ Len(q) = n + 2 /\ q[n + 2] = e /\ q[n + 1] = v
      /\ \A i \in 1 .. n : q[i] = s[i]
  <2> HIDE DEF r, n
  <2>1. /\ Len(q) = Len(r) + 1 /\ q[Len(r) + 1] = e /\ \A i \in 1 .. Len(r) : q[i] = r[i]
    BY <1>1, AppendOne
  <2>2. n + 1 + 1 = n + 2 /\ n + 1 \in 1 .. n + 1 /\ \A i \in 1 .. n : i \in 1 .. n + 1
    BY <1>1
  <2> HIDE DEF q
  <2> QED
    BY <1>1, <2>1, <2>2
<1>3. ProjectTask(r, t) = b
  BY CardOneMore DEF IfOwn
<1>4. ProjectTask(q, t) = c
  <2> HIDE DEF r, n, b
  <2>1. ProjectTask(q, t) = IfOwn(ProjectTask(r, t), e, Len(r) + 1, t) /\ Len(r) + 1 = n + 2
    BY <1>1, CardOneMore
  <2> QED
    BY <1>3, <2>1 DEF IfOwn
<1>5. CardShows(s, t, w, ro) /\ VerdictAt(s, t, 0) /\ StepsOnRecord(s, t, w) /\ k \in CardSet
  BY DEF Told, CardShows
<1>6. Shows(k, v, n + 1, b)
  BY <1>1, <1>5, EventShows
<1>7. /\ b \in CardSet /\ b.seen /\ ~b.bad /\ b.check = k.check /\ b.closed = 0
      /\ b.verdict = v.verdict /\ v.verdict \in Verdicts
      /\ b.ran = k.ran /\ b.verified = k.verified /\ b.cand = k.cand
  <2>1. k.seen /\ ~k.bad /\ k.closed = 0 /\ ~Misplaced(k, v) /\ ~Faulty(k, v)
    BY <1>5 DEF CardShows, Misplaced, Faulty
  <2> HIDE DEF b, k
  <2> QED
    BY <1>6, <2>1, EventFields DEF Shows
<1>8. Shows(b, e, n + 2, c)
  <2> HIDE DEF b
  <2> QED
    BY <1>1, <1>7, EventShows
<1>9. /\ c \in CardSet /\ c.last = n + 2 /\ c.closed = n + 2 /\ c.seen /\ ~c.bad
      /\ c.check = k.check /\ c.state = e.status /\ c.verdict = v.verdict
      /\ c.ran = k.ran /\ c.verified = k.verified /\ c.cand = k.cand
  <2> HIDE DEF b, c, k
  <2>1. ~Misplaced(b, e) /\ ~Faulty(b, e) /\ NewState(b, e) = e.status
    BY <1>7 DEF Misplaced, Faulty, NewState, Verdicts
  <2> QED
    BY <1>7, <1>8, <2>1 DEF Shows
<1>10. LastEvent(q, t, n + 2)
  <2>1. LastEvent(q, t, Len(r) + 1)
    BY <1>1, OwnLast
  <2> QED
    BY <1>1, <2>1
<1>11. CardShows(q, t, wn, rn)
  <2> HIDE DEF c, q
  <2> QED
    BY <1>4, <1>5, <1>9 DEF CardShows
<1>12. 1 .. Len(q) = (1 .. n) \cup {n + 1, n + 2} /\ n + 1 \notin 1 .. n /\ n + 2 \notin 1 .. n
  BY <1>1, <1>2
<1>13. VerdictAt(q, t, n + 1)
  <2> HIDE DEF q, n
  <2> QED
    BY <1>1, <1>2, <1>5, <1>12 DEF VerdictAt, n
<1>14. StepsOnRecord(q, t, wn)
  <2>1. \A i \in 1 .. Len(s) : i \in 1 .. Len(q) /\ q[i] = s[i]
    BY <1>2, <1>12
  <2>2. \A i \in 1 .. Len(q) : q[i].kind \notin {"task.verdict", "task.closed"} =>
          i \in 1 .. Len(s) /\ q[i] = s[i]
    <3> HIDE DEF q
    <3> QED
      BY <1>2, <1>12
  <2> HIDE DEF q
  <2> QED
    BY <1>5, <2>1, <2>2 DEF StepsOnRecord
<1>15. ToldClosed(q, t, a)
  <2> HIDE DEF q, n, c, k
  <2>1. c.last = n + 2 /\ n + 2 - 1 = n + 1 /\ n + 2 > 1
    BY <1>1, <1>9
  <2>2. q[n + 1].verdict = a.verdict /\ c.verdict = a.verdict /\ c.state = a.state
    BY <1>2, <1>9
  <2>3. c.closed = c.last
    BY <1>9
  <2>4. /\ ProjectTask(q, t).closed = ProjectTask(q, t).last /\ ProjectTask(q, t).last > 1
        /\ ProjectTask(q, t).last - 1 = n + 1
    BY <1>1, <1>4, <2>1, <2>3
  <2>5. VerdictAt(q, t, ProjectTask(q, t).last - 1)
    BY <1>13, <2>4
  <2> QED
    BY <1>4, <2>2, <2>4, <2>5 DEF ToldClosed
<1> QED
  BY <1>4, <1>9, <1>10, <1>11, <1>14, <1>15 DEF Told

-----------------------------------------------------------------------------
(* A step of one task leaves the others as they were.                      *)

LEMMA TaskFacts ==
  ASSUME HubTypeOK, NEW t \in Tasks
  PROVE  /\ t \in Nat /\ Len(row) \in Nat /\ Len(stream) \in Nat
         /\ t \in 1 .. Len(thread) /\ t \in 1 .. Len(row) /\ t \in 1 .. Len(disk)
         /\ thread[t] \in Threads /\ row[t] \in Rows /\ disk[t] \in Disks
<1>1. /\ Len(row) \in Nat /\ Len(thread) = Len(row) /\ Len(disk) = Len(row) /\ Len(stream) \in Nat
  BY LenProperties DEF HubTypeOK
<1>2. t \in Nat /\ t \in 1 .. Len(row)
  BY <1>1 DEF Tasks
<1> QED
  BY <1>1, <1>2, ElementOfSeq DEF HubTypeOK

\* What is said of the other tasks stays true, and t is told of as its step says.
Frame(t) ==
  /\ Len(row') = Len(row) /\ Open(t)
  /\ \A u \in Tasks : thread'[u].kind = thread[u].kind /\ thread'[u].ref = thread[u].ref
  /\ \A u \in Tasks \ {t} :
       /\ thread'[u] = thread[u] /\ row'[u] = row[u]
       /\ u \in DOMAIN res' <=> u \in DOMAIN res
       /\ u \in DOMAIN res => res'[u] = res[u]
       /\ Told(stream', u, thread[u], row[u])
       /\ ProjectTask(stream', u).last = ProjectTask(stream, u).last
       /\ u \in DOMAIN res => ToldClosed(stream', u, res[u])
  /\ Told(stream', t, thread'[t], row'[t])
  /\ \A n \in 1 .. Len(stream') : stream'[n].task \in Tasks
  /\ ProjectTask(stream', t).last >= ProjectTask(stream, t).last
  /\ t \in DOMAIN res' => /\ ToldClosed(stream', t, res'[t]) /\ Readable(t, res'[t])
                          /\ Fits(t, thread'[t], res'[t])
  /\ DOMAIN res' \subseteq Tasks

LEMMA FrameSteps ==
  ASSUME HubTypeOK, StreamInv, OneTurn, NEW t \in Tasks, Frame(t)
  PROVE  StreamInv' /\ OneTurn'
<1>1. Tasks' = Tasks
  BY DEF Tasks, Frame
<1>2. \A u \in Tasks : Told(stream', u, thread'[u], row'[u])
  BY DEF Frame
<1>3. ASSUME NEW u \in DOMAIN res'
      PROVE  ToldClosed(stream', u, res'[u]) /\ Readable(u, res'[u]) /\ Fits(u, thread'[u], res'[u])
  <2>1. CASE u = t
    BY <2>1, <1>3 DEF Frame
  <2>2. CASE u # t
    <3>1. u \in Tasks \ {t} /\ u \in DOMAIN res /\ res'[u] = res[u] /\ thread'[u] = thread[u]
      BY <2>2, <1>3 DEF Frame
    <3>2. ToldClosed(stream', u, res[u])
      BY <3>1 DEF Frame
    <3> QED
      BY <3>1, <3>2 DEF StreamInv
  <2> QED
    BY <2>1, <2>2
<1>4. StreamInv'
  BY <1>1, <1>2, <1>3 DEF StreamInv, Frame
<1>5. ASSUME NEW u \in Tasks, NEW v \in Tasks, u < v,
             thread'[u].kind # "watch", thread'[v].kind # "watch"
      PROVE  /\ ~Open(u)'
             /\ u \in DOMAIN res' /\ res'[u].cand.role # "none" =>
                  ProjectTask(stream', u).last < ProjectTask(stream', v).last
  <2>1. thread[u].kind # "watch" /\ thread[v].kind # "watch"
    BY <1>5 DEF Frame
  <2>2. /\ ~Open(u)
        /\ u \in DOMAIN res /\ res[u].cand.role # "none" =>
             ProjectTask(stream, u).last < ProjectTask(stream, v).last
    BY <1>5, <2>1 DEF OneTurn
  <2>3. u \in Tasks \ {t}
    BY <2>2 DEF Frame
  <2>4. /\ thread'[u] = thread[u] /\ (u \in DOMAIN res' <=> u \in DOMAIN res)
        /\ u \in DOMAIN res => res'[u] = res[u]
        /\ ProjectTask(stream', u).last = ProjectTask(stream, u).last
    BY <2>3 DEF Frame
  <2>5. ProjectTask(stream', v).last >= ProjectTask(stream, v).last
    <3>1. ProjectTask(stream, v).last \in Nat
      BY TaskFacts DEF StreamInv, Told, LastEvent
    <3> QED
      BY <3>1 DEF Frame
  <2>6. ProjectTask(stream, u).last \in Nat /\ ProjectTask(stream, v).last \in Nat
        /\ ProjectTask(stream', v).last \in Int
    <3>1. ProjectTask(stream, u) \in CardSet /\ ProjectTask(stream, v) \in CardSet
          /\ ProjectTask(stream', v) \in CardSet
      BY <1>2 DEF StreamInv, Told, CardShows
    <3> QED
      BY <3>1 DEF CardSet
  <2> QED
    BY <2>2, <2>4, <2>5, <2>6 DEF Open
<1>6. OneTurn'
  BY <1>1, <1>5 DEF OneTurn
<1> QED
  BY <1>4, <1>6

\* A thread moves on.
LEMMA OneThread ==
  ASSUME HubTypeOK, NEW t \in Tasks, NEW w \in Threads, At(t, w),
         w.kind = thread[t].kind, w.ref = thread[t].ref, Len(row') = Len(row)
  PROVE  /\ thread' \in Seq(Threads) /\ Len(thread') = Len(row')
         /\ thread'[t] = w
         /\ \A u \in Tasks \ {t} : thread'[u] = thread[u]
         /\ \A u \in Tasks : thread'[u].kind = thread[u].kind /\ thread'[u].ref = thread[u].ref
         /\ Tasks' = Tasks
         /\ \A u \in Tasks' : thread'[u].kind \in Actions => thread'[u].ref \in Candidates'
<1>1. Tasks' = Tasks /\ Tasks = 1 .. Len(thread) /\ t \in 1 .. Len(thread)
  BY DEF Tasks, HubTypeOK
<1>2. /\ thread' \in Seq(Threads) /\ Len(thread') = Len(thread)
      /\ \A u \in 1 .. Len(thread) : thread'[u] = IF u = t THEN w ELSE thread[u]
  BY <1>1, ExceptSeq DEF At, HubTypeOK
<1>3. \A u \in Tasks : thread'[u].kind = thread[u].kind /\ thread'[u].ref = thread[u].ref
  BY <1>1, <1>2
<1>4. Candidates' = Candidates
  BY <1>1, <1>3 DEF Candidates
<1>5. \A u \in Tasks : thread[u].kind \in Actions => thread[u].ref \in Candidates
  BY DEF HubTypeOK
<1> QED
  BY <1>1, <1>2, <1>3, <1>4, <1>5 DEF HubTypeOK

LEMMA OneStep ==
  ASSUME StepInv, Tasks' = Tasks, NEW t \in Tasks, NEW w, thread'[t] = w,
         \A u \in Tasks \ {t} : thread'[u] = thread[u],
         StepOk(t, w)
  PROVE  StepInv'
  BY DEF StepInv

\* A step that tells nothing.
LEMMA QuietFrame ==
  ASSUME HubTypeOK, StreamInv, NEW t \in Tasks, NEW w \in Threads, At(t, w), Open(t),
         w.kind = thread[t].kind, w.ref = thread[t].ref, w.done = thread[t].done,
         Calls(w) = Calls(thread[t]), UNCHANGED <<stream, row, res>>
  PROVE  Frame(t)
<1>1. /\ thread'[t] = w
      /\ \A u \in Tasks \ {t} : thread'[u] = thread[u]
      /\ \A u \in Tasks : thread'[u].kind = thread[u].kind /\ thread'[u].ref = thread[u].ref
  BY OneThread
<1>2. /\ \A u \in Tasks : Told(stream, u, thread[u], row[u])
      /\ \A n \in 1 .. Len(stream) : stream[n].task \in Tasks
      /\ \A u \in DOMAIN res :
           ToldClosed(stream, u, res[u]) /\ Readable(u, res[u]) /\ Fits(u, thread[u], res[u])
  BY DEF StreamInv
<1>3. Told(stream, t, w, row[t])
  BY <1>2 DEF Told, CardShows, StepsOnRecord
<1>4. ASSUME t \in DOMAIN res PROVE Fits(t, w, res[t])
  BY <1>2, <1>4 DEF Fits
<1>5. ProjectTask(stream, t).last \in Nat
  BY <1>3 DEF Told, CardShows, CardSet
<1>6. DOMAIN res \subseteq Tasks
  BY DEF HubTypeOK
<1> QED
  BY <1>1, <1>2, <1>3, <1>4, <1>5, <1>6 DEF Frame

LEMMA LastTyped ==
  ASSUME StreamInv, NEW t \in Tasks
  PROVE  ProjectTask(stream, t).last \in 1 .. Len(stream) /\ stream[ProjectTask(stream, t).last].task = t
  BY DEF StreamInv, Told, LastEvent

LEMMA RowsAfter ==
  ASSUME HubTypeOK, NEW t \in Tasks, NEW rn \in Rows, row' = [row EXCEPT ![t] = rn]
  PROVE  /\ row' \in Seq(Rows) /\ Len(row') = Len(row) /\ row'[t] = rn
         /\ \A u \in Tasks \ {t} : row'[u] = row[u]
<1>1. t \in 1 .. Len(row) /\ Tasks = 1 .. Len(row)
  BY DEF Tasks
<1> QED
  BY <1>1, ExceptSeq DEF HubTypeOK

\* A step that tells one event of the open task t.
LEMMA EventFrame ==
  ASSUME HubTypeOK, StreamInv, NEW t \in Tasks, NEW w \in Threads, NEW rn \in Rows,
         NEW e \in StreamEvents, At(t, w), Open(t),
         w.kind = thread[t].kind, w.ref = thread[t].ref, e.task = t,
         stream' = Append(stream, e), row' = [row EXCEPT ![t] = rn], UNCHANGED res,
         ~row[t].terminal, ~rn.terminal,
         Told(stream', t, w, rn), ProjectTask(stream', t).last = Len(stream) + 1
  PROVE  /\ Frame(t)
         /\ stream' \in Seq(StreamEvents) /\ row' \in Seq(Rows)
         /\ DOMAIN res' = {u \in Tasks' : row'[u].terminal}
<1>1. /\ row' \in Seq(Rows) /\ Len(row') = Len(row) /\ row'[t] = rn
      /\ \A u \in Tasks \ {t} : row'[u] = row[u]
  BY RowsAfter
<1>2. /\ thread'[t] = w /\ Tasks' = Tasks
      /\ \A u \in Tasks \ {t} : thread'[u] = thread[u]
      /\ \A u \in Tasks : thread'[u].kind = thread[u].kind /\ thread'[u].ref = thread[u].ref
  BY <1>1, OneThread
<1>3. stream \in Seq(StreamEvents) /\ DOMAIN res = {u \in Tasks : row[u].terminal}
  BY DEF HubTypeOK
<1>4. /\ stream' \in Seq(StreamEvents) /\ Len(stream') = Len(stream) + 1 /\ Len(stream) \in Nat
      /\ stream'[Len(stream) + 1] = e /\ \A i \in 1 .. Len(stream) : stream'[i] = stream[i]
  BY <1>3, AppendOne, LenProperties
<1>5. /\ \A u \in Tasks : Told(stream, u, thread[u], row[u])
      /\ \A n \in 1 .. Len(stream) : stream[n].task \in Tasks
      /\ \A u \in DOMAIN res : ToldClosed(stream, u, res[u])
  BY DEF StreamInv
<1>6. ASSUME NEW u \in Tasks \ {t}
      PROVE  /\ Told(stream', u, thread[u], row[u])
             /\ ProjectTask(stream', u).last = ProjectTask(stream, u).last
             /\ u \in DOMAIN res => ToldClosed(stream', u, res[u])
  <2>1. e.task # u /\ Told(stream, u, thread[u], row[u])
    BY <1>5
  <2> QED
    BY <1>3, <1>5, <2>1, OtherTold
<1>7. \A n \in 1 .. Len(stream') : stream'[n].task \in Tasks
  BY <1>4, <1>5
<1>8. ProjectTask(stream', t).last >= ProjectTask(stream, t).last
  BY <1>4, LastTyped
<1>9. t \notin DOMAIN res /\ DOMAIN res \subseteq Tasks
  BY <1>3
<1>10. Frame(t)
  BY <1>1, <1>2, <1>6, <1>7, <1>8, <1>9 DEF Frame
<1> QED
  BY <1>1, <1>2, <1>3, <1>4, <1>10

-----------------------------------------------------------------------------
(* What a result may be.                                                   *)

LEMMA ReasonsAre ==
  Reasons = {"none", "verification_passed", "verification_not_required", "verification_failed",
             "missing_evidence", "stale_evidence", "protocol_mismatch", "scope_changed",
             "policy_denied", "invalid_input", "cancelled", "cleanup_unknown", "controller_fault",
             "cancel_unreconciled", "controller_restarted"}
  BY DEF Reasons, AllowedReasons, Verdicts

LEMMA ProjectionTyped ==
  ASSUME NEW o \in Outcomes
  PROVE  Projection(o).state \in States /\ Projection(o).verdict \in Verdicts
         /\ Projection(o) = [state |-> Projection(o).state, verdict |-> Projection(o).verdict]
  BY DEF Outcomes, Projection, States, Verdicts

LEMMA BundleTyped ==
  ASSUME NEW t \in Nat, NEW r \in Results, NEW c \in Cleanups
  PROVE  /\ VerdictEvent(t, r) \in StreamEvents /\ ClosedEvent(t, r, c) \in StreamEvents
         /\ Artifact(t, r) \in Artifacts
<1>1. r.outcome \in Outcomes /\ r.reason \in Reasons /\ r.ran \in BOOLEAN /\ r.verified \in BOOLEAN
      /\ r.cand \in CandidateFacts /\ r.facts \in {"none", "build", "tests"}
  BY DEF Results
<1>2. Projection(r.outcome).state \in States /\ Projection(r.outcome).verdict \in Verdicts
  BY <1>1, ProjectionTyped
<1>3. Artifact(t, r) \in Artifacts
  BY <1>1, <1>2 DEF Artifact, Artifacts
<1>4. VerdictEvent(t, r) \in StreamEvents
  BY <1>1, <1>2 DEF VerdictEvent, StreamEvents
<1>5. ClosedEvent(t, r, c) \in StreamEvents
  BY <1>1, <1>2 DEF ClosedEvent, StreamEvents
<1> QED
  BY <1>3, <1>4, <1>5

LEMMA ResultTyped ==
  ASSUME NEW o \in Outcomes, NEW ran \in BOOLEAN, NEW reason \in Reasons,
         NEW cand \in CandidateFacts, NEW facts \in {"none", "build", "tests"}
  PROVE  /\ Result(o, ran, reason, cand, facts) \in Results
         /\ Result(o, ran, reason, cand, facts).outcome = o
         /\ Result(o, ran, reason, cand, facts).ran = ran
         /\ Result(o, ran, reason, cand, facts).cand = cand
         /\ Result(o, ran, reason, cand, facts).facts = facts
         /\ Result(o, ran, reason, cand, facts).verified = (o = "pass")
  BY DEF Result, Results

LEMMA FactsTyped ==
  /\ NoCandidate \in CandidateFacts /\ Nothing \in Disks /\ Retain \in Disks
  /\ NoCandidate.role = "none" /\ ~NoCandidate.retained
  BY DEF NoCandidate, CandidateFacts, Roles, Nothing, Retain, Disks

\* A result that says nothing of a candidate, and not that a check failed, fits its thread.
LEMMA PlainFits ==
  ASSUME NEW t, NEW w, NEW r, r.cand = NoCandidate, r.facts = "none",
         r.outcome # "fail" \/ w.kind \notin Checks, w.kind \notin Actions \/ r.outcome # "pass"
  PROVE  Fits(t, w, r)
  BY DEF Fits

\* A result a reader can accept.
LEMMA CandidateRead ==
  ASSUME NEW t \in Nat, NEW r \in Results, r.verified = (r.outcome = "pass"),
         r.cand.retained => r.cand.role = "prepared"
  PROVE  Readable(t, Artifact(t, r))
<1>1. r.outcome \in Outcomes /\ r.cand \in CandidateFacts
  BY DEF Results
<1>2. CandidateOk(r.cand)
  BY <1>1 DEF CandidateOk, CandidateFacts
<1>3. Projection(r.outcome) = [state |-> Projection(r.outcome).state,
                               verdict |-> Projection(r.outcome).verdict]
  BY <1>1, ProjectionTyped
<1> QED
  BY <1>2, <1>3 DEF Readable, Artifact

LEMMA PlainValid ==
  ASSUME NEW t, NEW w, NEW ran \in BOOLEAN, NEW reason \in Reasons,
         NEW o \in Outcomes, o # "fail" \/ w.kind \notin Checks, w.kind \notin Actions \/ o # "pass"
  PROVE  Valid(t, w, Result(o, ran, reason, NoCandidate, "none"))
<1> DEFINE r == Result(o, ran, reason, NoCandidate, "none")
<1>1. /\ r \in Results /\ r.outcome = o /\ r.cand = NoCandidate /\ r.facts = "none"
      /\ r.verified = (o = "pass")
  BY ResultTyped, FactsTyped
<1> HIDE DEF r
<1>2. Fits(t, w, r)
  BY <1>1, PlainFits
<1> QED
  BY <1>1, <1>2, FactsTyped DEF Valid, r

LEMMA OutcomeOfCheck ==
  ASSUME NEW done
  PROVE  /\ CheckOutcome(done) \in Outcomes
         /\ CheckOutcome(done) = "fail" /\ Attempted(done) => LastOut(done) = "fail"
         /\ ReasonCode(CheckOutcome(done), done) \in Reasons
         /\ Attempted(done) \in BOOLEAN
<1>1. /\ CheckOutcome(done) \in {"blocked", "no_verdict", "fail", "pass"}
      /\ CheckOutcome(done) = "fail" /\ Attempted(done) => LastOut(done) = "fail"
  BY DEF CheckOutcome, Verified
<1>2. ASSUME NEW o \in {"blocked", "no_verdict", "fail", "pass"} PROVE ReasonCode(o, done) \in Reasons
  BY ReasonsAre DEF ReasonCode
<1> QED
  BY <1>1, <1>2 DEF Outcomes, Attempted

\* A configured check.
LEMMA CheckValid ==
  ASSUME NEW t, NEW w, w.kind \in Checks, NEW r \in CheckResults(w.done)
  PROVE  Valid(t, w, r)
<1> DEFINE o == CheckOutcome(w.done)
<1>1. PICK facts \in CheckFacts(o, w.done) :
        r = Result(o, Attempted(w.done), ReasonCode(o, w.done), NoCandidate, facts)
  BY DEF CheckResults
<1>2. facts \in {"none", "build", "tests"} /\ (facts # "none" => o = "fail" /\ facts = FailingStep(w.done))
  BY <1>1 DEF CheckFacts, FailingStep
<1>3. /\ o \in Outcomes /\ ReasonCode(o, w.done) \in Reasons /\ Attempted(w.done) \in BOOLEAN
      /\ o = "fail" /\ Attempted(w.done) => LastOut(w.done) = "fail"
  BY OutcomeOfCheck
<1> HIDE DEF o
<1>4. /\ r \in Results /\ r.outcome = o /\ r.ran = Attempted(w.done) /\ r.cand = NoCandidate
      /\ r.facts = facts /\ r.verified = (o = "pass")
  BY <1>1, <1>2, <1>3, ResultTyped, FactsTyped
<1>5. w.kind \notin {"ask", "watch", "fix"} \cup Actions
  BY DEF Checks, Actions
<1>6. Fits(t, w, r)
  BY <1>2, <1>3, <1>4, <1>5 DEF Fits, Actions
<1> QED
  BY <1>4, <1>6, FactsTyped DEF Valid

\* A change.
LEMMA ChangeValid ==
  ASSUME NEW t \in Nat, NEW w, w.kind = "fix",
         NEW back \in ChangeReturns(t, w.done) \cup NoChangePrepared \cup StoppedChange
  PROVE  Valid(t, w, back.r) /\ back.disk \in Disks
<1>1. ASSUME NEW o \in Outcomes, NEW ran \in BOOLEAN, NEW reason \in Reasons, NEW kept \in BOOLEAN
      PROVE  Valid(t, w, Result(o, ran, reason, Prepared(t, kept), "none"))
  <2> DEFINE r == Result(o, ran, reason, Prepared(t, kept), "none")
  <2>1. /\ Prepared(t, kept) \in CandidateFacts /\ Prepared(t, kept).role = "prepared"
        /\ Prepared(t, kept).id = t
    BY DEF Prepared, CandidateFacts, Roles
  <2>2. /\ r \in Results /\ r.outcome = o /\ r.cand = Prepared(t, kept) /\ r.facts = "none"
        /\ r.verified = (o = "pass")
    BY <2>1, ResultTyped
  <2> HIDE DEF r
  <2>3. w.kind \notin Checks \cup Actions
    BY DEF Checks, Actions
  <2>4. Fits(t, w, r)
    BY <2>1, <2>2, <2>3 DEF Fits
  <2> QED
    BY <2>1, <2>2, <2>4 DEF Valid, r
<1>2. CASE back \in ChangeReturns(t, w.done)
  <2>1. CASE back = Returns(Result("blocked", Attempted(w.done), "policy_denied", Prepared(t, FALSE), "none"),
                            Nothing)
    <3>1. "blocked" \in Outcomes /\ "policy_denied" \in Reasons /\ Attempted(w.done) \in BOOLEAN
      BY ReasonsAre, OutcomeOfCheck DEF Outcomes
    <3> QED
      BY <1>1, <2>1, <3>1, FactsTyped DEF Returns
  <2>2. CASE back \in {ChangeReturn(t, w.done, x[1], x[2]) : x \in ChangeProofs(w.done) \X BOOLEAN}
    <3>1. PICK p \in ChangeProofs(w.done), kept \in BOOLEAN : back = ChangeReturn(t, w.done, p, kept)
      BY <2>2
    <3>2. p.outcome \in Outcomes /\ p.reason \in Reasons /\ Attempted(w.done) \in BOOLEAN
      <4>1. \/ p = [outcome |-> CheckOutcome(w.done), reason |-> ReasonCode(CheckOutcome(w.done), w.done)]
            \/ p = [outcome |-> "no_verdict", reason |-> "missing_evidence"]
        BY <3>1 DEF ChangeProofs
      <4> QED
        BY <4>1, OutcomeOfCheck, ReasonsAre DEF Outcomes
    <3> QED
      BY <1>1, <3>1, <3>2, FactsTyped DEF Returns, ChangeReturn
  <2> QED
    BY <1>2, <2>1, <2>2 DEF ChangeReturns
<1>3. CASE back \in NoChangePrepared \cup StoppedChange
  <2>1. \E o \in {"blocked", "no_verdict"}, reason \in {"policy_denied", "cancelled", "cleanup_unknown"},
           d \in {Nothing, Retain} :
          back = Returns(Result(o, FALSE, reason, NoCandidate, "none"), d)
    BY <1>3 DEF NoChangePrepared, StoppedChange
  <2>2. PICK o \in {"blocked", "no_verdict"}, reason \in {"policy_denied", "cancelled", "cleanup_unknown"},
             d \in {Nothing, Retain} :
          back = Returns(Result(o, FALSE, reason, NoCandidate, "none"), d)
    BY <2>1
  <2>3. o \in Outcomes /\ reason \in Reasons /\ o # "fail" /\ d \in Disks
    BY ReasonsAre, FactsTyped DEF Outcomes
  <2> QED
    BY <2>2, <2>3, PlainValid DEF Returns
<1> QED
  BY <1>2, <1>3

\* An action on a candidate that succeeds.
LEMMA DoneValid ==
  ASSUME NEW t, NEW w, w.kind \in Actions, NEW c \in Nat, w.ref = c, NEW d \in Disks,
         NEW role \in Roles \ {"none", "prepared"}, role = RoleOf(w.kind)
  PROVE  Valid(t, w, Done(role, c, d).r) /\ Done(role, c, d).disk \in Disks
<1> DEFINE f == Acted(role, c, TRUE)
           r == Result("pass", TRUE, "verification_passed", f, "none")
<1>1. f \in CandidateFacts /\ f.role = role /\ f.id = c /\ ~f.retained
  BY DEF Acted, CandidateFacts
<1>2. /\ "pass" \in Outcomes /\ "verification_passed" \in Reasons /\ TRUE \in BOOLEAN
      /\ "none" \in {"none", "build", "tests"}
  BY ReasonsAre DEF Outcomes
<1>4. Done(role, c, d) = Returns(Owned(r, role), d)
  BY DEF Done
<1> HIDE DEF f
<1>3. r \in Results /\ r.outcome = "pass" /\ r.cand = f /\ r.facts = "none"
  BY <1>1, <1>2 DEF Result, Results
<1>8. r.verified = (r.outcome = "pass")
  BY <1>3 DEF Result
<1> HIDE DEF r
<1>5. Owned(r, role) = r
  BY <1>1, <1>3 DEF Owned
<1>6. w.kind \notin Checks /\ w.kind \notin {"fix", "ask", "watch"}
  BY DEF Checks, Actions
<1>7. Fits(t, w, r)
  BY <1>1, <1>3, <1>6 DEF Fits
<1> QED
  BY <1>1, <1>3, <1>4, <1>5, <1>7, <1>8 DEF Valid, Returns

\* One that does not.
LEMMA NotDoneValid ==
  ASSUME NEW t, NEW w, w.kind \in Actions, NEW d \in Disks,
         NEW o \in Outcomes, o # "pass", NEW ran \in BOOLEAN, NEW reason \in Reasons
  PROVE  /\ Valid(t, w, Returns(Result(o, ran, reason, NoCandidate, "none"), d).r)
         /\ Returns(Result(o, ran, reason, NoCandidate, "none"), d).disk \in Disks
<1>1. w.kind \notin Checks
  BY DEF Checks, Actions
<1> QED
  BY <1>1, PlainValid DEF Returns

\* An import the checkout refuses.
LEMMA RefusedValid ==
  ASSUME NEW t, NEW w, w.kind = "apply", NEW c \in Nat, w.ref = c, disk[c] \in Disks,
         NEW o \in Outcomes, o # "pass", NEW reason \in Reasons
  PROVE  Valid(t, w, ImportRefused(c, o, reason).r) /\ ImportRefused(c, o, reason).disk \in Disks
<1> DEFINE f == Acted("apply_refused", c, TRUE)
           r == Result(o, FALSE, reason, f, "none")
<1>1. f \in CandidateFacts /\ f.role = "apply_refused" /\ f.id = c /\ ~f.retained
  BY DEF Acted, CandidateFacts, Roles
<1>3. ImportRefused(c, o, reason) = Returns(r, disk[c])
  BY DEF ImportRefused
<1> HIDE DEF f
<1>2. r \in Results /\ r.outcome = o /\ r.cand = f /\ r.facts = "none"
  <2>1. FALSE \in BOOLEAN /\ "none" \in {"none", "build", "tests"}
    OBVIOUS
  <2> QED
    BY <1>1, <2>1 DEF Result, Results
<1>6. r.verified = (r.outcome = "pass")
  BY <1>2 DEF Result
<1> HIDE DEF r
<1>4. w.kind \notin Checks \cup {"fix", "ask", "watch"}
  BY DEF Checks, Actions
<1>5. Fits(t, w, r)
  BY <1>1, <1>2, <1>4 DEF Fits
<1> QED
  BY <1>1, <1>2, <1>3, <1>5, <1>6 DEF Valid, Returns

LEMMA ActionValid ==
  ASSUME HubTypeOK, NEW t, NEW w, w.kind \in Actions, NEW c \in Tasks, w.ref = c,
         NEW back \in ActionReturns(w.kind, c)
  PROVE  Valid(t, w, back.r) /\ back.disk \in Disks
<1>1. c \in Nat /\ disk[c] \in Disks
  BY TaskFacts
<1>2. {"pass", "fail", "blocked", "no_verdict"} \subseteq Outcomes
  BY DEF Outcomes
<1>3. {"invalid_input", "scope_changed", "cleanup_unknown", "verification_failed"} \subseteq Reasons
  BY ReasonsAre
<1>4. /\ \A role, o, reason : NotDone(role, c, o, reason)
                                = Returns(Result(o, FALSE, reason, NoCandidate, "none"), disk[c])
      /\ Denied(c) = {Returns(Result("blocked", FALSE, "invalid_input", NoCandidate, "none"), disk[c])}
  BY DEF NotDone, Denied, Acted
<1>5. ASSUME NEW role, NEW o \in {"fail", "blocked", "no_verdict"},
             NEW reason \in {"invalid_input", "scope_changed", "cleanup_unknown"},
             back = NotDone(role, c, o, reason)
      PROVE  Valid(t, w, back.r) /\ back.disk \in Disks
  <2>1. o \in Outcomes /\ o # "pass" /\ reason \in Reasons /\ FALSE \in BOOLEAN
    BY <1>2, <1>3
  <2>2. /\ Valid(t, w, Returns(Result(o, FALSE, reason, NoCandidate, "none"), disk[c]).r)
        /\ Returns(Result(o, FALSE, reason, NoCandidate, "none"), disk[c]).disk \in Disks
    BY <1>1, <2>1, NotDoneValid
  <2>3. back = Returns(Result(o, FALSE, reason, NoCandidate, "none"), disk[c])
    BY <1>4, <1>5, ZenonT(40)
  <2> QED
    BY <2>2, <2>3
<1>6. ASSUME back \in Denied(c) PROVE Valid(t, w, back.r) /\ back.disk \in Disks
  <2>1. back = NotDone("", c, "blocked", "invalid_input")
    BY <1>4, <1>6
  <2> QED
    BY <1>5, <2>1
<1>7. CASE w.kind = "diff"
  <2>1. back \in DiffCandidate(c)
    BY <1>7 DEF ActionReturns
  <2>2. CASE back = Done("reviewed", c, disk[c])
    BY <1>1, <1>7, <2>2, DoneValid DEF Roles, RoleOf
  <2> QED
    BY <1>5, <2>1, <2>2 DEF DiffCandidate
<1>8. CASE w.kind = "apply"
  <2>1. back \in ApplyCandidate(c)
    BY <1>8 DEF ActionReturns
  <2>2. CASE back \in {Done("applied", c, d) : d \in [record : BOOLEAN, applied : {"yes", "no"}]}
    <3>1. PICK d \in [record : BOOLEAN, applied : {"yes", "no"}] : back = Done("applied", c, d)
      BY <2>2
    <3>2. d \in Disks
      BY DEF Disks
    <3> QED
      BY <1>1, <1>8, <3>1, <3>2, DoneValid DEF Roles, RoleOf
  <2>3. CASE back \in {ImportRefused(c, "fail", "scope_changed"),
                       ImportRefused(c, "fail", "verification_failed"),
                       ImportRefused(c, "no_verdict", "cleanup_unknown")}
    BY <1>1, <1>2, <1>3, <1>8, <2>3, RefusedValid
  <2> QED
    BY <1>6, <2>1, <2>2, <2>3 DEF ApplyCandidate
<1>9. CASE w.kind = "undo"
  <2>1. back \in UndoCandidate(c)
    BY <1>9 DEF ActionReturns
  <2>2. CASE back = Done("undone", c, [disk[c] EXCEPT !.applied = "no"])
    <3>1. [disk[c] EXCEPT !.applied = "no"] \in Disks
      BY <1>1 DEF Disks
    <3> QED
      BY <1>1, <1>9, <2>2, <3>1, DoneValid DEF Roles, RoleOf
  <2> QED
    BY <1>5, <2>1, <2>2 DEF UndoCandidate
<1>10. CASE w.kind = "commit"
  <2> DEFINE made == [disk[c] EXCEPT !.applied = "committed"]
  <2>1. made \in Disks
    BY <1>1 DEF Disks
  <2>2. \/ back = NotDone("committed", c, "blocked", "invalid_input")
        \/ back = NotDone("committed", c, "fail", "scope_changed")
        \/ back = Done("committed", c, made)
        \/ back = Returns(Result("no_verdict", TRUE, "verification_failed", NoCandidate, "none"), made)
    BY <1>10 DEF ActionReturns, CommitCandidate
  <2> HIDE DEF made
  <2>3. CASE back = Done("committed", c, made)
    BY <1>1, <1>10, <2>1, <2>3, DoneValid DEF Roles, RoleOf
  <2>4. CASE back = Returns(Result("no_verdict", TRUE, "verification_failed", NoCandidate, "none"), made)
    BY <1>2, <1>3, <2>1, <2>4, NotDoneValid
  <2> QED
    BY <1>5, <2>2, <2>3, <2>4
<1>11. CASE w.kind = "discard"
  <2>1. back \in DiscardCandidate(c)
    BY <1>11 DEF ActionReturns
  <2>2. CASE back \in {Done("discarded", c, [disk[c] EXCEPT !.record = left]) : left \in BOOLEAN}
    <3>1. PICK left \in BOOLEAN : back = Done("discarded", c, [disk[c] EXCEPT !.record = left])
      BY <2>2
    <3>2. [disk[c] EXCEPT !.record = left] \in Disks
      BY <1>1 DEF Disks
    <3> QED
      BY <1>1, <1>11, <3>1, <3>2, DoneValid DEF Roles, RoleOf
  <2> QED
    BY <1>6, <2>1, <2>2 DEF DiscardCandidate
<1> QED
  BY <1>7, <1>8, <1>9, <1>10, <1>11 DEF Actions

\* Whatever the controller returns.
LEMMA ReturnValid ==
  ASSUME HubTypeOK, NEW t \in Tasks, NEW back \in ControllerReturns(t)
  PROVE  Valid(t, thread[t], back.r) /\ back.disk \in Disks
<1> DEFINE w == thread[t]
<1>1. t \in Nat /\ w \in Threads /\ disk[t] \in Disks
  BY TaskFacts
<1>2. w.kind \in AllKinds
  BY <1>1 DEF Threads
<1>3. CASE w.kind \in Checks
  <2>1. back \in CheckReturns(t)
    BY <1>3 DEF ControllerReturns, Checks
  <2>2. PICK r \in CheckResults(w.done) : back = Returns(r, disk[t])
    BY <2>1 DEF CheckReturns
  <2> QED
    BY <1>1, <1>3, <2>2, CheckValid DEF Returns
<1>4. CASE w.kind = "fix"
  <2>1. back \in ChangeReturns(t, w.done) \cup NoChangePrepared \cup StoppedChange
    BY <1>4 DEF ControllerReturns, Checks
  <2> QED
    BY <1>1, <1>4, <2>1, ChangeValid
<1>5. CASE w.kind = "ask"
  <2>1. back \in AnswerReturns(t)
    BY <1>5 DEF ControllerReturns, Checks
  <2>2. PICK o \in {"answered", "no_verdict"}, reason \in {"verification_not_required", "missing_evidence"} :
          back = Returns(Result(o, FALSE, reason, NoCandidate, "none"), disk[t])
    BY <2>1 DEF AnswerReturns
  <2>3. o \in Outcomes /\ o # "fail" /\ reason \in Reasons
    BY ReasonsAre DEF Outcomes
  <2>4. w.kind \notin Actions
    BY <1>5 DEF Actions
  <2> QED
    BY <1>1, <1>5, <2>2, <2>3, <2>4, PlainValid DEF Returns
<1>6. CASE w.kind = "watch"
  <2>1. back \in WatchReturns(t)
    BY <1>6 DEF ControllerReturns, Checks
  <2> DEFINE passed == <<[tool |-> "watch", out |-> "pass"]>>
  <2>2. PICK o \in {"pass", "fail", "no_verdict"} :
          back = Returns(Result(o, o # "no_verdict", ReasonCode(o, passed), NoCandidate, "none"), disk[t])
    BY <2>1 DEF WatchReturns
  <2>3. o \in Outcomes /\ ReasonCode(o, passed) \in Reasons /\ (o # "no_verdict") \in BOOLEAN
    BY ReasonsAre DEF Outcomes, ReasonCode
  <2> HIDE DEF passed
  <2>4. w.kind \notin Checks /\ w.kind \notin Actions
    BY <1>6 DEF Checks, Actions
  <2> QED
    BY <1>1, <2>2, <2>3, <2>4, PlainValid DEF Returns
<1>7. CASE w.kind \in Actions
  <2>1. back \in ActionReturns(w.kind, w.ref)
    BY <1>7 DEF ControllerReturns, Checks, Actions
  <2>2. w.ref \in Tasks
    BY <1>7 DEF HubTypeOK, Candidates
  <2> QED
    BY <1>7, <2>1, <2>2, ActionValid
<1> QED
  BY <1>2, <1>3, <1>4, <1>5, <1>6, <1>7 DEF AllKinds

-----------------------------------------------------------------------------
(* The bundle that closes a task.                                          *)

LEMMA CleanupTyped ==
  ASSUME NEW w
  PROVE  /\ Cleanup(w) \in Cleanups
         /\ w.done = <<>> /\ w.call = "none" => Cleanup(w) = "not_needed"
<1>1. Cleanup(w) \in Cleanups
  BY DEF Cleanup, Cleanups
<1>2. ASSUME w.done = <<>>, w.call = "none" PROVE Cleanup(w) = "not_needed"
  <2>1. StepOuts(w.done) = {}
    BY <1>2 DEF StepOuts
  <2> QED
    BY <1>2, <2>1 DEF Cleanup
<1> QED
  BY <1>1, <1>2

\* What is reconciled with the activity of its task still fits it.
LEMMA ReconciledValid ==
  ASSUME NEW t, NEW w, w.kind \in AllKinds, NEW result, Valid(t, w, result),
         w.kind \notin Checks \cup {"fix"} => w.done = <<>> /\ w.call = "none"
  PROVE  Valid(t, w, Reconciled(result, Cleanup(w)))
<1>1. CASE Reconciled(result, Cleanup(w)) = result
  BY <1>1
<1>2. CASE Reconciled(result, Cleanup(w)) # result
  <2> DEFINE r == Result("no_verdict", result.ran, "cleanup_unknown", result.cand, result.facts)
  <2>1. /\ Reconciled(result, Cleanup(w)) = r
        /\ Projection(result.outcome).state = "completed" /\ Cleanup(w) # "not_needed"
    BY <1>2 DEF Reconciled
  <2>2. w.kind \in Checks \cup {"fix"}
    BY <2>1, CleanupTyped
  <2>3. result \in Results /\ Fits(t, w, result)
    BY DEF Valid
  <2>4. /\ result.ran \in BOOLEAN /\ result.cand \in CandidateFacts
        /\ result.facts \in {"none", "build", "tests"} /\ result.outcome \in Outcomes
    BY <2>3 DEF Results
  <2>5. "no_verdict" \in Outcomes /\ "cleanup_unknown" \in Reasons
    BY ReasonsAre DEF Outcomes
  <2>6. result.outcome # "fail"
    BY <2>1 DEF Projection
  <2>7. /\ r \in Results /\ r.outcome = "no_verdict" /\ r.cand = result.cand
        /\ r.facts = result.facts
    BY <2>4, <2>5 DEF Result, Results
  <2>8. r.verified = (r.outcome = "pass")
    BY DEF Result
  <2> HIDE DEF r
  <2>9. w.kind \notin Actions /\ w.kind \notin {"ask", "watch"}
    BY <2>2 DEF Checks, Actions
  <2>10. Fits(t, w, r)
    BY <2>3, <2>6, <2>7, <2>9 DEF Fits, Actions
  <2> QED
    BY <2>1, <2>7, <2>8, <2>10 DEF Valid
<1> QED
  BY <1>1, <1>2

\* A task that is closed without its result.
LEMMA ClosedValid ==
  ASSUME NEW t, NEW w
  PROVE  /\ \A c : Valid(t, w, Cancelled(c))
         /\ \A reason \in Reasons : Valid(t, w, Plain(reason))
<1>1. "no_verdict" \in Outcomes /\ "no_verdict" # "fail" /\ "no_verdict" # "pass" /\ FALSE \in BOOLEAN
  BY DEF Outcomes
<1>2. ASSUME NEW reason \in Reasons PROVE Valid(t, w, Plain(reason))
  BY <1>1, PlainValid DEF Plain
<1>3. ASSUME NEW c PROVE Valid(t, w, Cancelled(c))
  <2>1. PICK reason \in {"cancelled", "cancel_unreconciled"} : Cancelled(c) = Plain(reason)
    BY DEF Cancelled, Plain
  <2>2. reason \in Reasons
    BY ReasonsAre
  <2> QED
    BY <1>2, <2>1, <2>2
<1> QED
  BY <1>2, <1>3

LEMMA FitsArtifact ==
  ASSUME NEW t, NEW w, NEW r, Fits(t, w, r)
  PROVE  Fits(t, w, Artifact(t, r))
<1> DEFINE a == Artifact(t, r)
<1>1. a.cand = r.cand /\ a.facts = r.facts /\ a.outcome = r.outcome /\ a.ran = r.ran
  BY DEF Artifact
<1> HIDE DEF a
<1>2. Fits(t, w, a)
  BY <1>1 DEF Fits
<1> QED
  BY <1>2 DEF a

\* The step that closes t.
LEMMA ClosingFrame ==
  ASSUME HubTypeOK, StreamInv, NEW t \in Tasks, NEW w \in Threads, At(t, w), Open(t),
         w.kind = thread[t].kind, w.ref = thread[t].ref, w.done = thread[t].done,
         ~row[t].terminal, NEW r, Valid(t, w, r), NEW c \in Cleanups, Finalize(t, r, c)
  PROVE  /\ Frame(t)
         /\ stream' \in Seq(StreamEvents) /\ row' \in Seq(Rows) /\ Len(row') = Len(row)
         /\ DOMAIN res' = {u \in Tasks' : row'[u].terminal}
         /\ res' \in [DOMAIN res' -> Artifacts]
<1> DEFINE a == Artifact(t, r)  v == VerdictEvent(t, r)  e == ClosedEvent(t, r, c)
           rn == [state |-> Projection(r.outcome).state, terminal |-> TRUE]
<1>1. r \in Results /\ r.verified = (r.outcome = "pass") /\ Fits(t, w, r)
      /\ (r.cand.retained => r.cand.role = "prepared")
  BY DEF Valid
<1>2. t \in Nat
  BY TaskFacts
<1>3. v \in StreamEvents /\ e \in StreamEvents /\ a \in Artifacts
  BY <1>1, <1>2, BundleTyped
<1>4. /\ v.task = t /\ v.kind = "task.verdict" /\ e.task = t /\ e.kind = "task.closed"
      /\ rn.state = e.status /\ rn.terminal /\ a.verdict = v.verdict /\ a.state = e.status
      /\ e.status = Projection(r.outcome).state
  BY DEF VerdictEvent, ClosedEvent, Artifact
<1>5. rn \in Rows
  <2>1. Projection(r.outcome).state \in States
    BY <1>1, ProjectionTyped DEF Results
  <2> QED
    BY <2>1 DEF Rows
<1>6. Readable(t, a) /\ Fits(t, w, a)
  BY <1>1, <1>2, CandidateRead, FitsArtifact
<1>7. /\ stream' = stream \o <<v, e>> /\ row' = [row EXCEPT ![t] = rn]
      /\ res' = InsertArtifact(t, a)
  BY DEF Finalize
<1> HIDE DEF a, v, e, rn
<1>8. stream \in Seq(StreamEvents) /\ DOMAIN res = {u \in Tasks : row[u].terminal}
      /\ res \in [DOMAIN res -> Artifacts]
  BY DEF HubTypeOK
<1>9. stream' = Append(Append(stream, v), e) /\ Append(stream, v) \in Seq(StreamEvents)
  BY <1>3, <1>7, <1>8
<1>10. /\ stream' \in Seq(StreamEvents) /\ Len(stream) \in Nat /\ Len(stream') = Len(stream) + 2
       /\ stream'[Len(stream) + 1] = v /\ stream'[Len(stream) + 2] = e
       /\ \A i \in 1 .. Len(stream) : stream'[i] = stream[i]
  BY <1>3, <1>7, <1>8
<1>11. /\ row' \in Seq(Rows) /\ Len(row') = Len(row) /\ row'[t] = rn
       /\ \A u \in Tasks \ {t} : row'[u] = row[u]
  BY <1>5, <1>7, RowsAfter
<1>12. /\ thread'[t] = w /\ Tasks' = Tasks
       /\ \A u \in Tasks \ {t} : thread'[u] = thread[u]
       /\ \A u \in Tasks : thread'[u].kind = thread[u].kind /\ thread'[u].ref = thread[u].ref
  BY <1>11, OneThread
<1>13. /\ DOMAIN res' = DOMAIN res \cup {t} /\ res'[t] = a
       /\ \A u \in DOMAIN res \ {t} : res'[u] = res[u]
  BY <1>7 DEF InsertArtifact
<1>14. t \notin DOMAIN res /\ DOMAIN res \subseteq Tasks
  BY <1>8
<1>15. /\ \A u \in Tasks : Told(stream, u, thread[u], row[u])
       /\ \A n \in 1 .. Len(stream) : stream[n].task \in Tasks
       /\ \A u \in DOMAIN res : ToldClosed(stream, u, res[u])
  BY DEF StreamInv
<1>16. ASSUME NEW u \in Tasks \ {t}
       PROVE  /\ Told(stream', u, thread[u], row[u])
              /\ ProjectTask(stream', u).last = ProjectTask(stream, u).last
              /\ u \in DOMAIN res => ToldClosed(stream', u, res[u])
  <2>1. v.task # u /\ e.task # u /\ Told(stream, u, thread[u], row[u])
    BY <1>4, <1>15
  <2>2. /\ Told(Append(stream, v), u, thread[u], row[u])
        /\ ProjectTask(Append(stream, v), u) = ProjectTask(stream, u)
        /\ u \in DOMAIN res => ToldClosed(Append(stream, v), u, res[u])
    BY <1>3, <1>8, <1>15, <2>1, OtherTold
  <2>3. /\ Told(stream', u, thread[u], row[u])
        /\ ProjectTask(stream', u) = ProjectTask(Append(stream, v), u)
        /\ u \in DOMAIN res => ToldClosed(stream', u, res[u])
    BY <1>3, <1>9, <2>1, <2>2, OtherTold
  <2> QED
    BY <2>2, <2>3
<1>17. /\ Told(stream', t, w, rn) /\ ToldClosed(stream', t, a)
       /\ ProjectTask(stream', t).last = Len(stream) + 2
  <2>1. Told(stream, t, thread[t], row[t])
    BY <1>15
  <2> QED
    BY <1>3, <1>4, <1>8, <1>9, <2>1, ClosedTold, ZenonT(40)
<1>18. \A n \in 1 .. Len(stream') : stream'[n].task \in Tasks
  <2>1. \A n \in 1 .. Len(stream') : n \in 1 .. Len(stream) \/ n = Len(stream) + 1 \/ n = Len(stream) + 2
    BY <1>10
  <2> QED
    BY <1>4, <1>10, <1>15, <2>1
<1>19. ProjectTask(stream', t).last >= ProjectTask(stream, t).last
  BY <1>10, <1>17, LastTyped
<1>20. ASSUME NEW u \in Tasks \ {t}
       PROVE  /\ u \in DOMAIN res' <=> u \in DOMAIN res
              /\ u \in DOMAIN res => res'[u] = res[u]
  BY <1>13
<1>21. Frame(t)
  BY <1>6, <1>11, <1>12, <1>13, <1>14, <1>16, <1>17, <1>18, <1>19, <1>20 DEF Frame
<1>22. DOMAIN res' = {u \in Tasks' : row'[u].terminal}
  <2>1. rn.terminal
    BY <1>4
  <2> QED
    BY <1>8, <1>11, <1>12, <1>13, <2>1
<1>23. res' \in [DOMAIN res' -> Artifacts]
  BY <1>3, <1>7, <1>8, <1>13 DEF InsertArtifact
<1> QED
  BY <1>10, <1>11, <1>21, <1>22, <1>23

-----------------------------------------------------------------------------
(* The steps of one task.                                                  *)

LEMMA FitsSame ==
  ASSUME NEW t, NEW w, NEW v, NEW r, w.kind = v.kind, w.ref = v.ref, w.done = v.done,
         Valid(t, w, r)
  PROVE  Valid(t, v, r)
<1>1. Fits(t, v, r)
  BY DEF Valid, Fits
<1> QED
  BY <1>1 DEF Valid

\* What a step of t has to show.
LEMMA StepConcluded ==
  ASSUME HubInv, NEW t \in Tasks, NEW w \in Threads, At(t, w),
         w.kind = thread[t].kind, w.ref = thread[t].ref, StepOk(t, w), Frame(t),
         stream' \in Seq(StreamEvents), row' \in Seq(Rows),
         DOMAIN res' = {u \in Tasks' : row'[u].terminal}, res' \in [DOMAIN res' -> Artifacts],
         disk' \in Seq(Disks), Len(disk') = Len(disk), mishaps' \in 0 .. MaxMishaps
  PROVE  HubInv'
<1>1. HubTypeOK /\ StepInv /\ StreamInv /\ OneTurn
  BY DEF HubInv
<1>2. Len(row') = Len(row)
  BY DEF Frame
<1>3. /\ thread' \in Seq(Threads) /\ Len(thread') = Len(row')
      /\ thread'[t] = w /\ Tasks' = Tasks
      /\ \A u \in Tasks \ {t} : thread'[u] = thread[u]
      /\ \A u \in Tasks' : thread'[u].kind \in Actions => thread'[u].ref \in Candidates'
  BY <1>1, <1>2, OneThread
<1>4. HubTypeOK'
  BY <1>1, <1>2, <1>3 DEF HubTypeOK
<1>5. StepInv'
  BY <1>1, <1>3, OneStep
<1> QED
  BY <1>1, <1>4, <1>5, FrameSteps DEF HubInv

\* What holds of the state a step of t starts in.
LEMMA StepStart ==
  ASSUME HubInv, NEW t \in Tasks
  PROVE  /\ HubTypeOK /\ StepInv /\ StreamInv /\ OneTurn
         /\ t \in Nat /\ thread[t] \in Threads /\ row[t] \in Rows /\ disk[t] \in Disks
         /\ StepOk(t, thread[t])
         /\ Told(stream, t, thread[t], row[t])
         /\ stream \in Seq(StreamEvents) /\ row \in Seq(Rows)
         /\ DOMAIN res = {u \in Tasks : row[u].terminal} /\ res \in [DOMAIN res -> Artifacts]
         /\ disk \in Seq(Disks) /\ mishaps \in 0 .. MaxMishaps
         /\ t \in 1 .. Len(row) /\ t \in 1 .. Len(disk) /\ t \in 1 .. Len(thread)
         /\ row = [row EXCEPT ![t] = row[t]]
<1>1. HubTypeOK /\ StepInv /\ StreamInv /\ OneTurn
  BY DEF HubInv
<1>2. /\ t \in Nat /\ thread[t] \in Threads /\ row[t] \in Rows /\ disk[t] \in Disks
      /\ t \in 1 .. Len(row) /\ t \in 1 .. Len(disk) /\ t \in 1 .. Len(thread)
  BY <1>1, TaskFacts
<1>3. StepOk(t, thread[t]) /\ Told(stream, t, thread[t], row[t])
  BY <1>1 DEF StepInv, StreamInv
<1>4. /\ stream \in Seq(StreamEvents) /\ row \in Seq(Rows)
      /\ DOMAIN res = {u \in Tasks : row[u].terminal} /\ res \in [DOMAIN res -> Artifacts]
      /\ disk \in Seq(Disks) /\ mishaps \in 0 .. MaxMishaps
  BY <1>1 DEF HubTypeOK
<1>5. row = [row EXCEPT ![t] = row[t]]
  BY <1>4
<1> QED
  BY <1>1, <1>2, <1>3, <1>4, <1>5

\* A step that writes nothing.
LEMMA QuietStep ==
  ASSUME HubInv, NEW t \in Tasks, NEW w \in Threads, At(t, w), Open(t),
         w.kind = thread[t].kind, w.ref = thread[t].ref, w.done = thread[t].done,
         Calls(w) = Calls(thread[t]), StepOk(t, w), UNCHANGED <<stream, row, res>>,
         disk' \in Seq(Disks), Len(disk') = Len(disk), mishaps' \in 0 .. MaxMishaps
  PROVE  HubInv'
<1>1. /\ HubTypeOK /\ StreamInv /\ stream \in Seq(StreamEvents) /\ row \in Seq(Rows)
      /\ DOMAIN res = {u \in Tasks : row[u].terminal} /\ res \in [DOMAIN res -> Artifacts]
  BY StepStart
<1>2. Frame(t)
  BY <1>1, QuietFrame
<1>3. Tasks' = Tasks
  BY DEF Tasks
<1> QED
  BY <1>1, <1>2, <1>3, StepConcluded

\* A step that writes one event of the open task t.
LEMMA EventStep ==
  ASSUME HubInv, NEW t \in Tasks, NEW w \in Threads, NEW rn \in Rows, NEW e \in StreamEvents,
         At(t, w), Open(t), w.kind = thread[t].kind, w.ref = thread[t].ref, e.task = t,
         e.kind \in {"task.state_changed", "tool.started", "tool.finished", "task.cancel_requested"},
         stream' = Append(stream, e), row' = [row EXCEPT ![t] = rn], UNCHANGED <<res, disk>>,
         ~row[t].terminal, ~rn.terminal, StepOk(t, w),
         ~Faulty(ProjectTask(stream, t), e),
         NewState(ProjectTask(stream, t), e) = rn.state,
         NewOpen(ProjectTask(stream, t), e) = Calls(w),
         StepsOnRecord(Append(stream, e), t, w), mishaps' \in 0 .. MaxMishaps
  PROVE  HubInv'
<1>1. /\ HubTypeOK /\ StreamInv /\ stream \in Seq(StreamEvents) /\ disk \in Seq(Disks)
      /\ res \in [DOMAIN res -> Artifacts] /\ Told(stream, t, thread[t], row[t])
  BY StepStart
<1>2. Told(stream', t, w, rn) /\ ProjectTask(stream', t).last = Len(stream) + 1
  BY <1>1, OwnTold
<1>3. /\ Frame(t) /\ stream' \in Seq(StreamEvents) /\ row' \in Seq(Rows)
      /\ DOMAIN res' = {u \in Tasks' : row'[u].terminal}
  BY <1>1, <1>2, EventFrame
<1> QED
  BY <1>1, <1>3, StepConcluded

\* A step that closes the open task t.
LEMMA ClosingStep ==
  ASSUME HubInv, NEW t \in Tasks, NEW w \in Threads, At(t, w), Open(t),
         w.kind = thread[t].kind, w.ref = thread[t].ref, w.done = thread[t].done,
         ~row[t].terminal, NEW r, Valid(t, w, r), NEW c \in Cleanups, Finalize(t, r, c),
         StepOk(t, w), UNCHANGED disk, mishaps' \in 0 .. MaxMishaps
  PROVE  HubInv'
<1>1. HubTypeOK /\ StreamInv /\ disk \in Seq(Disks)
  BY StepStart
<1>2. /\ Frame(t)
      /\ stream' \in Seq(StreamEvents) /\ row' \in Seq(Rows)
      /\ DOMAIN res' = {u \in Tasks' : row'[u].terminal}
      /\ res' \in [DOMAIN res' -> Artifacts]
  BY <1>1, ClosingFrame
<1> QED
  BY <1>1, <1>2, StepConcluded

\* An event that is no step and no admission leaves the record of the steps.
LEMMA StepsKept ==
  ASSUME NEW s \in Seq(StreamEvents), NEW e \in StreamEvents, NEW t, NEW w, NEW v,
         StepsOnRecord(s, t, w), v.kind = w.kind, v.done = w.done,
         e.kind \notin {"task.admitted", "tool.finished"}
  PROVE  StepsOnRecord(Append(s, e), t, v)
<1> DEFINE r == Append(s, e)  n == Len(s)
<1>1. /\ n \in Nat /\ Len(r) = n + 1 /\ r[n + 1] = e /\ \A i \in 1 .. n : r[i] = s[i]
  BY AppendOne, LenProperties
<1>2. 1 .. Len(r) = (1 .. n) \cup {n + 1}
  BY <1>1
<1> HIDE DEF r, n
<1> QED
  BY <1>1, <1>2 DEF StepsOnRecord, r, n

LEMMA StartTaskStep ==
  ASSUME HubInv, NEW t \in Tasks, StartTask(t)
  PROVE  HubInv'
<1> DEFINE w == [thread[t] EXCEPT !.pc = "running"]
           rn == [row[t] EXCEPT !.state = "running"]
           e == [kind |-> "task.state_changed", task |-> t, previous |-> "admitted",
                 current |-> "running"]
           k == ProjectTask(stream, t)
<1>1. /\ t \in Nat /\ thread[t] \in Threads /\ row[t] \in Rows /\ stream \in Seq(StreamEvents)
      /\ StepOk(t, thread[t]) /\ Told(stream, t, thread[t], row[t])
      /\ mishaps \in 0 .. MaxMishaps
  BY StepStart
<1>2. /\ thread[t].pc = "admitted" /\ row[t].state = "admitted" /\ ~row[t].terminal
      /\ stream' = Append(stream, e) /\ row' = [row EXCEPT ![t] = rn]
      /\ At(t, w) /\ UNCHANGED <<res, disk, mishaps>>
  BY DEF StartTask, AcceptsEvent, Wrote
<1>3. /\ w \in Threads /\ w.kind = thread[t].kind /\ w.ref = thread[t].ref
      /\ w.done = thread[t].done /\ w.call = thread[t].call /\ w.pc = "running"
  BY <1>1 DEF Threads
<1>4. /\ rn \in Rows /\ rn.state = "running" /\ ~rn.terminal
  BY <1>1, <1>2 DEF Rows, States
<1>5. /\ e \in StreamEvents /\ e.kind = "task.state_changed" /\ e.task = t
      /\ e.previous = "admitted" /\ e.current = "running"
  BY <1>1 DEF StreamEvents, States
<1>6. k.state = "admitted" /\ k.open = {}
  BY <1>1, <1>2 DEF Told, CardShows, Calls
<1> HIDE DEF w, rn, e
<1>7. ~Faulty(k, e) /\ NewState(k, e) = rn.state /\ NewOpen(k, e) = Calls(w)
  BY <1>3, <1>4, <1>5, <1>6 DEF Faulty, NewState, NewOpen, Calls
<1>8. StepsOnRecord(Append(stream, e), t, w)
  BY <1>1, <1>3, <1>5, StepsKept DEF Told
<1>9. StepOk(t, w)
  BY <1>1, <1>3 DEF StepOk
<1>10. Open(t)
  BY <1>2 DEF Open
<1>11. e.kind \in {"task.state_changed", "tool.started", "tool.finished", "task.cancel_requested"}
  BY <1>5
<1> QED
  BY <1>1, <1>2, <1>3, <1>4, <1>5, <1>7, <1>8, <1>9, <1>10, <1>11, EventStep

\* The next step of a task.
LEMMA NextStepIs ==
  ASSUME NEW kind, NEW done, NextStep(kind, done) # "none", Len(done) \in Nat
  PROVE  /\ NextStep(kind, done) \in Tools /\ StepOuts(done) \subseteq {"pass"}
         /\ kind \in Checks \cup {"fix"}
<1>1. /\ NextStep(kind, done) = Steps(kind)[Len(done) + 1]
      /\ Len(done) < Len(Steps(kind)) /\ StepOuts(done) \subseteq {"pass"}
  BY DEF NextStep
<1>2. CASE kind = "run-build"
  BY <1>1, <1>2 DEF Steps, Tools, Checks
<1>3. CASE kind = "run-tests"
  <2>1. Steps(kind) = <<"build_target", "run_test">>
    BY <1>3 DEF Steps
  <2>2. Len(done) + 1 = 1 \/ Len(done) + 1 = 2
    BY <1>1, <2>1
  <2> QED
    BY <1>1, <1>3, <2>1, <2>2 DEF Tools, Checks
<1>4. CASE kind = "fix"
  BY <1>1, <1>4 DEF Steps, Tools
<1>5. CASE kind \notin {"run-build", "run-tests", "fix"}
  <2>1. Steps(kind) = <<>>
    BY <1>5 DEF Steps
  <2> QED
    BY <1>1, <2>1
<1> QED
  BY <1>2, <1>3, <1>4, <1>5

LEMMA StartToolStep ==
  ASSUME HubInv, NEW t \in Tasks, StartTool(t)
  PROVE  HubInv'
<1> DEFINE tool == NextStep(thread[t].kind, thread[t].done)
           w == [thread[t] EXCEPT !.pc = "tool", !.call = tool]
           m == Len(thread[t].done) + 1
           e == [kind |-> "tool.started", task |-> t, call |-> m, tool |-> tool]
           k == ProjectTask(stream, t)
<1>1. /\ t \in Nat /\ thread[t] \in Threads /\ row[t] \in Rows /\ stream \in Seq(StreamEvents)
      /\ StepOk(t, thread[t]) /\ Told(stream, t, thread[t], row[t])
      /\ mishaps \in 0 .. MaxMishaps /\ row = [row EXCEPT ![t] = row[t]]
  BY StepStart
<1>2. /\ thread[t].pc = "running" /\ tool # "none" /\ ~row[t].terminal
      /\ stream' = Append(stream, e) /\ row' = row
      /\ At(t, w) /\ UNCHANGED <<res, disk, mishaps>>
  BY DEF StartTool, AcceptsEvent, Wrote
<1>3. Len(thread[t].done) \in Nat /\ m \in Nat
  BY <1>1, LenProperties DEF Threads
<1>4. /\ tool \in Tools /\ StepOuts(thread[t].done) \subseteq {"pass"}
      /\ thread[t].kind \in Checks \cup {"fix"}
  BY <1>2, <1>3, NextStepIs
<1> HIDE DEF tool, m
<1>5. /\ w \in Threads /\ w.kind = thread[t].kind /\ w.ref = thread[t].ref
      /\ w.done = thread[t].done /\ w.call = tool /\ w.pc = "tool"
  BY <1>1, <1>4 DEF Threads
<1>6. /\ e \in StreamEvents /\ e.kind = "tool.started" /\ e.task = t
      /\ e.call = m /\ e.tool = tool
  BY <1>1, <1>3, <1>4 DEF StreamEvents
<1>7. k.state = row[t].state /\ k.open = {}
  BY <1>1, <1>2 DEF Told, CardShows, Calls
<1> HIDE DEF w, e
<1>8. ~Faulty(k, e) /\ NewState(k, e) = row[t].state /\ NewOpen(k, e) = Calls(w)
  BY <1>5, <1>6, <1>7 DEF Faulty, NewState, NewOpen, Calls, m
<1>9. StepsOnRecord(Append(stream, e), t, w)
  BY <1>1, <1>5, <1>6, StepsKept DEF Told
<1>10. StepOk(t, w)
  BY <1>4, <1>5 DEF StepOk, Checks, Actions
<1>11. Open(t)
  BY <1>2 DEF Open
<1>12. e.kind \in {"task.state_changed", "tool.started", "tool.finished", "task.cancel_requested"}
  BY <1>6
<1>13. row' = [row EXCEPT ![t] = row[t]]
  BY <1>1, <1>2
<1> QED
  BY <1>1, <1>2, <1>5, <1>6, <1>8, <1>9, <1>10, <1>11, <1>12, <1>13, EventStep

\* The end of a step, on record.
LEMMA StepEnds ==
  ASSUME NEW s \in Seq(StreamEvents), NEW e \in StreamEvents, NEW t, NEW w, NEW v,
         StepsOnRecord(s, t, w), v.kind = w.kind,
         NEW out \in Outs, NEW tool \in Tools, w.done \in Seq([tool : Tools, out : Outs]),
         v.done = Append(w.done, [tool |-> tool, out |-> out]),
         e.kind = "tool.finished", e.task = t, e.out = out, e.tool = tool,
         LastOut(w.done) # "fail"
  PROVE  StepsOnRecord(Append(s, e), t, v)
<1> DEFINE r == Append(s, e)  n == Len(s)
<1>1. /\ n \in Nat /\ Len(r) = n + 1 /\ r[n + 1] = e /\ \A i \in 1 .. n : r[i] = s[i]
  BY AppendOne, LenProperties
<1>2. 1 .. Len(r) = (1 .. n) \cup {n + 1}
  BY <1>1
<1>3. LastOut(v.done) = out /\ Last(v.done).tool = tool
  <2> DEFINE x == [tool |-> tool, out |-> out]
  <2>1. x \in [tool : Tools, out : Outs] /\ x.out = out /\ x.tool = tool
    OBVIOUS
  <2> HIDE DEF x
  <2>2. v.done = Append(w.done, x)
    BY DEF x
  <2>3. Len(v.done) = Len(w.done) + 1 /\ v.done[Len(w.done) + 1] = x /\ Len(w.done) \in Nat
    BY <2>1, <2>2, AppendOne, LenProperties
  <2>4. v.done # <<>>
    BY <2>3
  <2> QED
    BY <2>1, <2>3, <2>4 DEF LastOut, Last
<1>4. \A i \in 1 .. n : ~(s[i].task = t /\ s[i].kind = "tool.finished" /\ s[i].out = "fail")
  BY DEF StepsOnRecord
<1> HIDE DEF r, n
<1>5. /\ \E i \in 1 .. n : s[i].task = t /\ s[i].kind = "task.admitted"
      /\ \A i \in 1 .. n : s[i].task = t /\ s[i].kind = "task.admitted" => s[i].what = w.kind
  BY DEF StepsOnRecord, n
<1>6. /\ \E i \in 1 .. Len(r) : r[i].task = t /\ r[i].kind = "task.admitted"
      /\ \A i \in 1 .. Len(r) : r[i].task = t /\ r[i].kind = "task.admitted" => r[i].what = v.kind
  BY <1>1, <1>2, <1>5
<1>7. \A i \in 1 .. Len(r) : r[i].task = t /\ r[i].kind = "tool.finished" /\ r[i].out = "fail" =>
        LastOut(v.done) = "fail" /\ r[i].tool = Last(v.done).tool
  BY <1>1, <1>2, <1>3, <1>4
<1>8. LastOut(v.done) = "fail" => \E i \in 1 .. Len(r) :
        r[i].task = t /\ r[i].kind = "tool.finished" /\ r[i].out = "fail"
  BY <1>1, <1>2, <1>3
<1> QED
  BY <1>6, <1>7, <1>8 DEF StepsOnRecord, r

LEMMA FinishToolStep ==
  ASSUME HubInv, NEW t \in Tasks, NEW out \in Outs, FinishTool(t, out)
  PROVE  HubInv'
<1> DEFINE done == thread[t].done
           tool == thread[t].call
           more == Append(done, [tool |-> tool, out |-> out])
           w == [thread[t] EXCEPT !.pc = "running", !.call = "none", !.done = more]
           m == Len(done) + 1
           e == [kind |-> "tool.finished", task |-> t, call |-> m, tool |-> tool, out |-> out]
           k == ProjectTask(stream, t)
<1>1. /\ t \in Nat /\ thread[t] \in Threads /\ row[t] \in Rows /\ stream \in Seq(StreamEvents)
      /\ StepOk(t, thread[t]) /\ Told(stream, t, thread[t], row[t])
      /\ mishaps \in 0 .. MaxMishaps /\ row = [row EXCEPT ![t] = row[t]]
  BY StepStart
<1>2. /\ thread[t].pc = "tool" /\ ~row[t].terminal
      /\ stream' = Append(stream, e) /\ row' = row
      /\ At(t, w) /\ UNCHANGED <<res, disk, mishaps>>
  BY DEF FinishTool, AcceptsEvent, Wrote
<1>3. /\ done \in Seq([tool : Tools, out : Outs]) /\ Len(done) \in Nat /\ m \in Nat
  BY <1>1, LenProperties DEF Threads
<1>4. tool \in Tools /\ StepOuts(done) \subseteq {"pass"} /\ thread[t].kind \in Checks \cup {"fix"}
  BY <1>1, <1>2 DEF StepOk, Tools
<1>5. LastOut(done) # "fail"
  <2>1. CASE done # <<>>
    <3>1. Len(done) \in 1 .. Len(done) /\ Last(done) = done[Len(done)]
      BY <1>3, <2>1 DEF Last
    <3> QED
      BY <1>4, <2>1, <3>1 DEF LastOut, StepOuts
  <2> QED
    BY <2>1 DEF LastOut
<1>6. more \in Seq([tool : Tools, out : Outs])
  BY <1>3, <1>4
<1> HIDE DEF done, m, more, tool
<1>7. /\ w \in Threads /\ w.kind = thread[t].kind /\ w.ref = thread[t].ref
      /\ w.done = more /\ w.call = "none" /\ w.pc = "running"
  BY <1>1, <1>6 DEF Threads
<1>8. /\ e \in StreamEvents /\ e.kind = "tool.finished" /\ e.task = t
      /\ e.call = m /\ e.tool = tool /\ e.out = out
  BY <1>1, <1>3, <1>4 DEF StreamEvents
<1>9. k.state = row[t].state /\ k.open = {<<m, tool>>}
  BY <1>1, <1>2 DEF Told, CardShows, Calls, m, tool, done
<1> HIDE DEF w, e
<1>10. ~Faulty(k, e) /\ NewState(k, e) = row[t].state /\ NewOpen(k, e) = Calls(w)
  BY <1>7, <1>8, <1>9 DEF Faulty, NewState, NewOpen, Calls
<1>11. StepsOnRecord(Append(stream, e), t, w)
  <2> DEFINE old == thread[t]
  <2>1. /\ StepsOnRecord(stream, t, old) /\ w.kind = old.kind
        /\ old.done \in Seq([tool : Tools, out : Outs]) /\ LastOut(old.done) # "fail"
        /\ w.done = Append(old.done, [tool |-> tool, out |-> out])
    BY <1>1, <1>3, <1>5, <1>7 DEF Told, done, more
  <2> HIDE DEF old
  <2> QED
    BY <1>1, <1>4, <1>8, <2>1, StepEnds, ZenonT(40)
<1>12. StepOk(t, w)
  BY <1>4, <1>7 DEF StepOk, Checks, Actions
<1>13. Open(t)
  BY <1>2 DEF Open
<1>14. e.kind \in {"task.state_changed", "tool.started", "tool.finished", "task.cancel_requested"}
  BY <1>8
<1>15. row' = [row EXCEPT ![t] = row[t]]
  BY <1>1, <1>2
<1> QED
  BY <1>1, <1>2, <1>7, <1>8, <1>10, <1>11, <1>12, <1>13, <1>14, <1>15, EventStep

LEMMA ReturnStep ==
  ASSUME HubInv, NEW t \in Tasks, Return(t)
  PROVE  HubInv'
<1>1. /\ HubTypeOK /\ t \in Nat /\ thread[t] \in Threads /\ StepOk(t, thread[t])
      /\ disk \in Seq(Disks) /\ mishaps \in 0 .. MaxMishaps
  BY StepStart
<1>2. PICK back \in ControllerReturns(t) :
        /\ At(t, [thread[t] EXCEPT !.pc = "returned", !.r = back.r])
        /\ disk' = [disk EXCEPT ![IF thread[t].kind \in Actions THEN thread[t].ref ELSE t] = back.disk]
  BY DEF Return
<1> DEFINE w == [thread[t] EXCEPT !.pc = "returned", !.r = back.r]
           c == IF thread[t].kind \in Actions THEN thread[t].ref ELSE t
<1>3. Valid(t, thread[t], back.r) /\ back.disk \in Disks
  BY <1>1, ReturnValid
<1>4. back.r \in Results
  BY <1>3 DEF Valid
<1>5. /\ w \in Threads /\ w.kind = thread[t].kind /\ w.ref = thread[t].ref
      /\ w.done = thread[t].done /\ w.call = thread[t].call /\ w.pc = "returned" /\ w.r = back.r
  BY <1>1, <1>4 DEF Threads
<1>6. /\ thread[t].pc = "running" /\ UNCHANGED <<stream, row, res, mishaps>>
  BY DEF Return
<1>7. c \in Tasks /\ Tasks = 1 .. Len(disk)
  BY <1>1 DEF HubTypeOK, Candidates, Tasks
<1> HIDE DEF w, c
<1>8. disk' \in Seq(Disks) /\ Len(disk') = Len(disk)
  <2>1. c \in 1 .. Len(disk) /\ disk' = [disk EXCEPT ![c] = back.disk]
    BY <1>2, <1>7 DEF c
  <2> QED
    BY <1>1, <1>3, <2>1, ExceptSeq
<1>9. StepOk(t, w)
  <2>1. Valid(t, w, w.r)
    BY <1>3, <1>5, FitsSame
  <2> QED
    BY <1>1, <1>5, <2>1 DEF StepOk
<1>10. Open(t) /\ Calls(w) = Calls(thread[t])
  BY <1>5, <1>6 DEF Open, Calls
<1>11. At(t, w)
  BY <1>2 DEF w
<1> QED
  BY <1>1, <1>5, <1>6, <1>8, <1>9, <1>10, <1>11, QuietStep

LEMMA EndedIs ==
  ASSUME HubInv, NEW t \in Tasks, NEW how \in {"-", "closed", "lost", "raised"}
  PROVE  /\ Ended(t, how) \in Threads
         /\ Ended(t, how).kind = thread[t].kind /\ Ended(t, how).ref = thread[t].ref
         /\ Ended(t, how).done = thread[t].done /\ Ended(t, how).call = thread[t].call
         /\ Ended(t, how).pc = "done"
         /\ StepOk(t, Ended(t, how)) /\ Calls(Ended(t, how)) = {}
<1>1. thread[t] \in Threads /\ StepOk(t, thread[t])
  BY StepStart
<1> DEFINE w == Ended(t, how)
<1>2. /\ w \in Threads /\ w.kind = thread[t].kind /\ w.ref = thread[t].ref
      /\ w.done = thread[t].done /\ w.call = thread[t].call /\ w.pc = "done"
  BY <1>1 DEF Ended, Threads
<1> HIDE DEF w
<1>3. StepOk(t, w) /\ Calls(w) = {}
  BY <1>1, <1>2 DEF StepOk, Calls
<1> QED
  BY <1>2, <1>3 DEF w

LEMMA CloseTaskStep ==
  ASSUME HubInv, NEW t \in Tasks, NEW result, Valid(t, thread[t], result),
         thread[t].pc \notin {"tool", "done"}, CloseTask(t, result), UNCHANGED mishaps
  PROVE  HubInv'
<1> DEFINE cleanup == Cleanup(thread[t])
           r == Reconciled(result, cleanup)
           fits == /\ AcceptsEvent(t)
                   /\ BundleOk(t, Artifact(t, r), VerdictEvent(t, r), ClosedEvent(t, r, cleanup))
           how == IF ~Renders(r) THEN "raised" ELSE IF fits THEN "closed" ELSE "lost"
           w == Ended(t, how)
<1>1. /\ thread[t] \in Threads /\ StepOk(t, thread[t])
      /\ disk \in Seq(Disks) /\ mishaps \in 0 .. MaxMishaps
  BY StepStart
<1>2. /\ IF Renders(r) /\ fits THEN Finalize(t, r, cleanup) ELSE UNCHANGED <<stream, row, res>>
      /\ At(t, w) /\ UNCHANGED disk
  BY DEF CloseTask
<1>3. fits => AcceptsEvent(t)
  OBVIOUS
<1> HIDE DEF fits
<1>4. how \in {"-", "closed", "lost", "raised"}
  OBVIOUS
<1> HIDE DEF how
<1>5. /\ w \in Threads /\ w.kind = thread[t].kind /\ w.ref = thread[t].ref
      /\ w.done = thread[t].done /\ w.call = thread[t].call /\ w.pc = "done"
      /\ StepOk(t, w) /\ Calls(w) = {}
  BY <1>4, EndedIs
<1> HIDE DEF w
<1>6. Open(t)
  BY DEF Open
<1>7. CASE Renders(r) /\ fits
  <2>1. Finalize(t, r, cleanup) /\ ~row[t].terminal
    BY <1>2, <1>3, <1>7 DEF AcceptsEvent
  <2>2. cleanup \in Cleanups
    BY CleanupTyped
  <2>3. Valid(t, thread[t], r)
    <3>1. thread[t].kind \in AllKinds
      BY <1>1 DEF Threads
    <3>2. thread[t].kind \notin Checks \cup {"fix"} => thread[t].done = <<>> /\ thread[t].call = "none"
      BY <1>1 DEF StepOk
    <3> QED
      BY <3>1, <3>2, ReconciledValid
  <2> HIDE DEF r, cleanup
  <2>4. Valid(t, w, r)
    BY <1>5, <2>3, FitsSame
  <2> QED
    BY <1>1, <1>2, <1>5, <1>6, <2>1, <2>2, <2>4, ClosingStep
<1>8. CASE ~(Renders(r) /\ fits)
  <2>1. UNCHANGED <<stream, row, res>>
    BY <1>2, <1>8
  <2>2. Calls(w) = Calls(thread[t])
    BY <1>5 DEF Calls
  <2> QED
    BY <1>1, <1>2, <1>5, <1>6, <2>1, <2>2, QuietStep
<1> QED
  BY <1>7, <1>8

LEMMA CommitResultStep ==
  ASSUME HubInv, NEW t \in Tasks, CommitResult(t)
  PROVE  HubInv'
<1>1. thread[t].pc = "returned" /\ CloseTask(t, thread[t].r) /\ UNCHANGED mishaps
  BY DEF CommitResult
<1>2. Valid(t, thread[t], thread[t].r)
  BY <1>1, StepStart DEF StepOk
<1> QED
  BY <1>1, <1>2, CloseTaskStep

LEMMA CloseStoppedStep ==
  ASSUME HubInv, NEW t \in Tasks, CloseStopped(t)
  PROVE  HubInv'
<1>1. /\ thread[t].pc \in {"admitted", "returned"} /\ UNCHANGED mishaps
      /\ CloseTask(t, Cancelled(Cleanup(thread[t])))
  BY DEF CloseStopped
<1>2. Valid(t, thread[t], Cancelled(Cleanup(thread[t])))
  BY ClosedValid
<1> QED
  BY <1>1, <1>2, CloseTaskStep

LEMMA MishapCounted ==
  ASSUME HubInv, Mishap
  PROVE  mishaps' \in 0 .. MaxMishaps
  BY HubAssumption DEF HubInv, HubTypeOK, Mishap

LEMMA FaultStep ==
  ASSUME HubInv, NEW t \in Tasks, Fault(t)
  PROVE  HubInv'
<1> DEFINE w == [thread[t] EXCEPT !.pc = "closing"]  cleanup == Cleanup(thread[t])
           r == Plain("controller_fault")
<1>1. thread[t] \in Threads /\ StepOk(t, thread[t]) /\ disk \in Seq(Disks)
  BY StepStart
<1>2. /\ thread[t].pc \in {"running", "tool"} /\ ~row[t].terminal /\ Mishap
      /\ Finalize(t, r, cleanup) /\ At(t, w) /\ UNCHANGED disk
  BY DEF Fault, AcceptsEvent
<1>3. /\ w \in Threads /\ w.kind = thread[t].kind /\ w.ref = thread[t].ref
      /\ w.done = thread[t].done /\ w.call = thread[t].call /\ w.pc = "closing"
  BY <1>1 DEF Threads
<1>4. cleanup \in Cleanups
  BY CleanupTyped
<1>5. Valid(t, w, r)
  BY ClosedValid, ReasonsAre
<1> HIDE DEF w, cleanup, r
<1>6. StepOk(t, w)
  BY <1>1, <1>3 DEF StepOk
<1>7. Open(t) /\ mishaps' \in 0 .. MaxMishaps
  BY <1>2, MishapCounted DEF Open
<1> QED
  BY <1>1, <1>2, <1>3, <1>4, <1>5, <1>6, <1>7, ClosingStep

\* A thread that ends and writes nothing.
LEMMA QuietEnd ==
  ASSUME HubInv, NEW t \in Tasks, NEW how \in {"-", "closed", "lost", "raised"},
         thread[t].pc \in {"closing", "returned"}, At(t, Ended(t, how)),
         UNCHANGED <<stream, row, res, disk>>, mishaps' \in 0 .. MaxMishaps
  PROVE  HubInv'
<1> DEFINE w == Ended(t, how)
<1>1. disk \in Seq(Disks)
  BY StepStart
<1>2. /\ w \in Threads /\ w.kind = thread[t].kind /\ w.ref = thread[t].ref
      /\ w.done = thread[t].done /\ StepOk(t, w) /\ Calls(w) = {}
  BY EndedIs
<1>3. At(t, w)
  OBVIOUS
<1> HIDE DEF w
<1>4. Open(t) /\ Calls(w) = Calls(thread[t])
  BY <1>2 DEF Open, Calls
<1> QED
  BY <1>1, <1>2, <1>3, <1>4, QuietStep

LEMMA ReleaseStep ==
  ASSUME HubInv, NEW t \in Tasks, Release(t)
  PROVE  HubInv'
<1>1. /\ thread[t].pc = "closing" /\ At(t, Ended(t, "closed"))
      /\ UNCHANGED <<stream, row, res, disk, mishaps>>
  BY DEF Release
<1>2. mishaps \in 0 .. MaxMishaps
  BY StepStart
<1> QED
  BY <1>1, <1>2, QuietEnd

LEMMA LoseWriteStep ==
  ASSUME HubInv, NEW t \in Tasks, LoseWrite(t)
  PROVE  HubInv'
<1>1. /\ thread[t].pc = "returned" /\ At(t, Ended(t, "lost")) /\ Mishap
      /\ UNCHANGED <<stream, row, res, disk>>
  BY DEF LoseWrite
<1>2. mishaps' \in 0 .. MaxMishaps
  BY <1>1, MishapCounted
<1> QED
  BY <1>1, <1>2, QuietEnd

LEMMA RequestCancelStep ==
  ASSUME HubInv, NEW t \in Tasks, RequestCancel(t)
  PROVE  HubInv'
<1> DEFINE w == Revoked(thread[t])  e == CancelEvent(t)  k == ProjectTask(stream, t)
<1>1. /\ t \in Nat /\ thread[t] \in Threads /\ row[t] \in Rows /\ stream \in Seq(StreamEvents)
      /\ StepOk(t, thread[t]) /\ Told(stream, t, thread[t], row[t])
      /\ disk \in Seq(Disks) /\ row = [row EXCEPT ![t] = row[t]]
  BY StepStart
<1>2. /\ Open(t) /\ At(t, w) /\ Mishap /\ UNCHANGED <<row, res, disk>>
      /\ IF AcceptsEvent(t) THEN stream' = Append(stream, e) ELSE UNCHANGED stream
  BY DEF RequestCancel, Wrote
<1>3. /\ w \in Threads /\ w.kind = thread[t].kind /\ w.ref = thread[t].ref
      /\ w.done = thread[t].done /\ w.call = thread[t].call /\ w.pc = thread[t].pc
      /\ w.r = thread[t].r
  BY <1>1 DEF Threads, Revoked
<1>4. e \in StreamEvents /\ e.task = t /\ e.kind = "task.cancel_requested"
  BY <1>1 DEF CancelEvent, StreamEvents
<1> HIDE DEF w, e
<1>5. StepOk(t, w)
  <2>1. Valid(t, thread[t], thread[t].r) => Valid(t, w, w.r)
    BY <1>3, FitsSame
  <2> QED
    BY <1>1, <1>3, <2>1 DEF StepOk
<1>6. mishaps' \in 0 .. MaxMishaps
  BY <1>2, MishapCounted
<1>7. Calls(w) = Calls(thread[t])
  BY <1>3 DEF Calls
<1>8. CASE AcceptsEvent(t)
  <2>1. stream' = Append(stream, e) /\ ~row[t].terminal /\ row' = [row EXCEPT ![t] = row[t]]
    BY <1>1, <1>2, <1>8 DEF AcceptsEvent
  <2>2. k.state = row[t].state /\ k.open = Calls(w)
    BY <1>1, <1>7, <2>1 DEF Told, CardShows
  <2>3. ~Faulty(k, e) /\ NewState(k, e) = row[t].state /\ NewOpen(k, e) = Calls(w)
    BY <1>4, <2>2 DEF Faulty, NewState, NewOpen
  <2>4. StepsOnRecord(Append(stream, e), t, w)
    BY <1>1, <1>3, <1>4, StepsKept DEF Told
  <2>5. e.kind \in {"task.state_changed", "tool.started", "tool.finished", "task.cancel_requested"}
    BY <1>4
  <2> QED
    BY <1>1, <1>2, <1>3, <1>4, <1>5, <1>6, <2>1, <2>3, <2>4, <2>5, EventStep
<1>9. CASE ~AcceptsEvent(t)
  <2>1. UNCHANGED <<stream, row, res>>
    BY <1>2, <1>9
  <2> QED
    BY <1>1, <1>2, <1>3, <1>5, <1>6, <1>7, <2>1, QuietStep
<1> QED
  BY <1>8, <1>9

-----------------------------------------------------------------------------
(* Admission.                                                              *)

LEMMA AdmitStep ==
  ASSUME HubInv, NEW kind \in AllKinds, NEW c \in Nat, kind \in Actions => c \in Candidates,
         Admit(kind, c)
  PROVE  HubInv'
<1> DEFINE n == Len(row)
           t == n + 1
           e == [kind |-> "task.admitted", task |-> t, what |-> kind]
           ro == [state |-> "admitted", terminal |-> FALSE]
           w == [kind |-> kind, ref |-> c, pc |-> "admitted", done |-> <<>>,
                 call |-> "none", stop |-> FALSE, r |-> Plain("none"), end |-> "-"]
<1>1. HubTypeOK /\ StepInv /\ StreamInv /\ OneTurn
  BY DEF HubInv
<1>2. /\ stream \in Seq(StreamEvents) /\ row \in Seq(Rows) /\ thread \in Seq(Threads)
      /\ disk \in Seq(Disks) /\ Len(thread) = n /\ Len(disk) = n /\ n \in Nat /\ t \in Nat
      /\ DOMAIN res = {u \in Tasks : row[u].terminal} /\ res \in [DOMAIN res -> Artifacts]
      /\ mishaps \in 0 .. MaxMishaps /\ Tasks = 1 .. n
  BY <1>1, LenProperties DEF HubTypeOK, Tasks
<1>3. /\ stream' = Append(stream, e) /\ row' = Append(row, ro) /\ thread' = Append(thread, w)
      /\ disk' = Append(disk, Nothing) /\ UNCHANGED <<res, mishaps>>
      /\ kind # "watch" => ~UserBusy
  BY DEF Admit, Wrote
<1>4. /\ e \in StreamEvents /\ e.kind = "task.admitted" /\ e.task = t /\ e.what = kind
  BY <1>2 DEF StreamEvents
<1>5. ro \in Rows /\ ro.state = "admitted" /\ ~ro.terminal
  BY DEF Rows, States
<1>6. /\ w \in Threads /\ w.kind = kind /\ w.ref = c /\ w.pc = "admitted" /\ w.done = <<>>
      /\ w.call = "none"
  <2>1. Plain("none") \in Results
    BY ClosedValid, ReasonsAre DEF Valid
  <2>2. <<>> \in Seq([tool : Tools, out : Outs])
    OBVIOUS
  <2> QED
    BY <2>1, <2>2 DEF Threads
<1> HIDE DEF e, ro, w, t
<1>7. /\ stream' \in Seq(StreamEvents) /\ Len(stream) \in Nat /\ Len(stream') = Len(stream) + 1
      /\ stream'[Len(stream) + 1] = e /\ \A i \in 1 .. Len(stream) : stream'[i] = stream[i]
  BY <1>2, <1>3, <1>4, AppendOne, LenProperties
<1>8. /\ row' \in Seq(Rows) /\ Len(row') = n + 1 /\ row'[t] = ro
      /\ \A u \in Tasks : row'[u] = row[u]
  BY <1>2, <1>3, <1>5, AppendOne DEF t
<1>9. /\ thread' \in Seq(Threads) /\ Len(thread') = n + 1 /\ thread'[t] = w
      /\ \A u \in Tasks : thread'[u] = thread[u]
  BY <1>2, <1>3, <1>6, AppendOne DEF t
<1>10. disk' \in Seq(Disks) /\ Len(disk') = n + 1
  BY <1>2, <1>3, FactsTyped, AppendOne
<1>11. Tasks' = Tasks \cup {t} /\ t \notin Tasks /\ \A u \in Tasks : u \in Nat /\ u < t
  BY <1>2, <1>8 DEF Tasks, t
<1>12. \A u \in Tasks' : thread'[u].kind \in Actions => thread'[u].ref \in Candidates'
  <2>1. Candidates \subseteq Candidates'
    BY <1>9, <1>11 DEF Candidates
  <2>2. \A u \in Tasks : thread[u].kind \in Actions => thread[u].ref \in Candidates
    BY <1>1 DEF HubTypeOK
  <2> QED
    BY <1>6, <1>9, <1>11, <2>1, <2>2
<1>13. DOMAIN res' = {u \in Tasks' : row'[u].terminal} /\ res' \in [DOMAIN res' -> Artifacts]
  <2>1. res' = res
    BY <1>3
  <2>2. \A u \in Tasks' : row'[u].terminal <=> u \in Tasks /\ row[u].terminal
    BY <1>5, <1>8, <1>11
  <2>3. DOMAIN res = {u \in Tasks' : row'[u].terminal}
    BY <1>2, <1>11, <2>2
  <2> QED
    BY <1>2, <2>1, <2>3
<1>14. HubTypeOK'
  BY <1>2, <1>3, <1>7, <1>8, <1>9, <1>10, <1>12, <1>13 DEF HubTypeOK
<1>15. StepInv'
  <2>1. StepOk(t, w)
    <3>1. c \in Candidates => c < t
      BY <1>11 DEF Candidates
    <3> QED
      BY <1>6, <3>1 DEF StepOk
  <2>2. \A u \in Tasks : StepOk(u, thread[u])
    BY <1>1 DEF StepInv
  <2> QED
    BY <1>9, <1>11, <2>1, <2>2 DEF StepInv
<1>16. /\ \A u \in Tasks : Told(stream, u, thread[u], row[u])
       /\ \A i \in 1 .. Len(stream) : stream[i].task \in Tasks
       /\ \A u \in DOMAIN res :
            ToldClosed(stream, u, res[u]) /\ Readable(u, res[u]) /\ Fits(u, thread[u], res[u])
  BY <1>1 DEF StreamInv
<1>17. ASSUME NEW u \in Tasks
       PROVE  /\ Told(stream', u, thread[u], row[u])
              /\ ProjectTask(stream', u) = ProjectTask(stream, u)
              /\ u \in DOMAIN res => ToldClosed(stream', u, res[u])
  <2>1. e.task # u /\ Told(stream, u, thread[u], row[u])
    BY <1>4, <1>11, <1>16
  <2> QED
    BY <1>2, <1>3, <1>4, <1>16, <2>1, OtherTold
<1>18. Told(stream', t, w, ro) /\ ProjectTask(stream', t).last = Len(stream) + 1
  <2>1. \A i \in 1 .. Len(stream) : stream[i].task # t
    BY <1>11, <1>16
  <2> QED
    BY <1>2, <1>3, <1>4, <1>5, <1>6, <2>1, AdmittedTold
<1>19. StreamInv'
  <2>1. \A u \in Tasks' : Told(stream', u, thread'[u], row'[u])
    BY <1>8, <1>9, <1>11, <1>17, <1>18
  <2>2. \A i \in 1 .. Len(stream') : stream'[i].task \in Tasks'
    <3>1. \A i \in 1 .. Len(stream') : i \in 1 .. Len(stream) \/ i = Len(stream) + 1
      BY <1>7
    <3> QED
      BY <1>4, <1>7, <1>11, <1>16, <3>1
  <2>3. \A u \in DOMAIN res' : ToldClosed(stream', u, res'[u]) /\ Readable(u, res'[u])
                               /\ Fits(u, thread'[u], res'[u])
    <3>1. DOMAIN res \subseteq Tasks
      BY <1>2
    <3> QED
      BY <1>3, <1>9, <1>16, <1>17, <3>1
  <2> QED
    BY <2>1, <2>2, <2>3 DEF StreamInv
<1>20. ASSUME NEW u \in Tasks', NEW v \in Tasks', u < v,
              thread'[u].kind # "watch", thread'[v].kind # "watch"
       PROVE  /\ ~Open(u)'
              /\ u \in DOMAIN res' /\ res'[u].cand.role # "none" =>
                   ProjectTask(stream', u).last < ProjectTask(stream', v).last
  <2>1. u \in Tasks /\ thread[u].kind # "watch" /\ thread'[u] = thread[u]
    BY <1>2, <1>9, <1>11, <1>20
  <2>2. CASE v \in Tasks
    <3>1. thread[v].kind # "watch"
      BY <1>9, <1>20, <2>2
    <3>2. /\ ~Open(u)
          /\ u \in DOMAIN res /\ res[u].cand.role # "none" =>
               ProjectTask(stream, u).last < ProjectTask(stream, v).last
      BY <1>1, <1>20, <2>1, <2>2, <3>1 DEF OneTurn
    <3> QED
      BY <1>3, <1>17, <2>1, <2>2, <3>2 DEF Open
  <2>3. CASE v = t
    <3>1. ~UserBusy
      BY <1>3, <1>6, <1>9, <1>20, <2>3
    <3>2. ~Open(u)
      BY <2>1, <3>1 DEF UserBusy
    <3>3. ProjectTask(stream', u).last = ProjectTask(stream, u).last
      BY <1>17, <2>1
    <3>4. ProjectTask(stream, u).last \in 1 .. Len(stream)
      BY <1>1, <2>1, LastTyped
    <3>5. ProjectTask(stream', u).last < ProjectTask(stream', v).last
      BY <1>7, <1>18, <2>3, <3>3, <3>4
    <3> QED
      BY <2>1, <3>2, <3>5 DEF Open
  <2> QED
    BY <1>11, <2>2, <2>3
<1>21. OneTurn'
  BY <1>20 DEF OneTurn
<1> QED
  BY <1>14, <1>15, <1>19, <1>21 DEF HubInv

-----------------------------------------------------------------------------
(* Recovery, task by task.                                                 *)

\* The stream after the recovery of each of the first n tasks.
RecoverySteps(n, f) ==
  f = [k \in 0 .. n |-> IF k = 0 THEN stream
                        ELSE IF k \in LeftOpen THEN f[k - 1] \o Closures(k) ELSE f[k - 1]]

LEMMA RecoveryStepsExist ==
  ASSUME NEW n \in Nat
  PROVE  \E f : RecoverySteps(n, f)
<1> DEFINE S == {m \in Nat : \E f : RecoverySteps(m, f)}
<1>1. 0 \in S
  <2> DEFINE f == [k \in 0 .. 0 |-> stream]
  <2>1. f = [k \in 0 .. 0 |-> IF k = 0 THEN stream
                              ELSE IF k \in LeftOpen THEN f[k - 1] \o Closures(k) ELSE f[k - 1]]
    OBVIOUS
  <2>2. RecoverySteps(0, f)
    BY <2>1 DEF RecoverySteps
  <2> QED
    BY <2>2
<1>2. ASSUME NEW m \in S PROVE m + 1 \in S
  <2>1. m \in Nat
    OBVIOUS
  <2>2. PICK f : RecoverySteps(m, f)
    OBVIOUS
  <2> DEFINE next == IF m + 1 \in LeftOpen THEN f[m] \o Closures(m + 1) ELSE f[m]
             g == [k \in 0 .. m + 1 |-> IF k <= m THEN f[k] ELSE next]
             h == [k \in 0 .. m + 1 |->
                     IF k = 0 THEN stream
                     ELSE IF k \in LeftOpen THEN g[k - 1] \o Closures(k) ELSE g[k - 1]]
  <2>3. \A k \in 0 .. m : f[k] = IF k = 0 THEN stream
                                 ELSE IF k \in LeftOpen THEN f[k - 1] \o Closures(k) ELSE f[k - 1]
    BY <2>1, <2>2 DEF RecoverySteps
  <2>4. ASSUME NEW k \in 0 .. m + 1 PROVE g[k] = h[k]
    <3>1. h[k] = IF k = 0 THEN stream
                 ELSE IF k \in LeftOpen THEN g[k - 1] \o Closures(k) ELSE g[k - 1]
      BY <2>4
    <3> HIDE DEF h
    <3>2. CASE k = 0
      BY <2>1, <2>3, <3>1, <3>2
    <3>3. CASE k # 0 /\ k <= m
      <4>1. k \in 0 .. m /\ k - 1 \in 0 .. m + 1 /\ k - 1 <= m
        BY <2>1, <3>3
      <4>2. g[k] = f[k] /\ g[k - 1] = f[k - 1]
        BY <3>3, <4>1
      <4> HIDE DEF g
      <4> QED
        BY <2>3, <3>1, <3>3, <4>1, <4>2
    <3>4. CASE k = m + 1
      <4>1. g[m + 1] = next /\ g[m] = f[m]
        BY <2>1
      <4>2. k - 1 = m /\ k # 0
        BY <2>1, <3>4
      <4> HIDE DEF g
      <4> QED
        BY <3>1, <3>4, <4>1, <4>2
    <3> QED
      BY <2>1, <3>2, <3>3, <3>4
  <2>5. g = h
    <3>1. g = [k \in 0 .. m + 1 |-> g[k]] /\ h = [k \in 0 .. m + 1 |-> h[k]]
      OBVIOUS
    <3> HIDE DEF g, h
    <3> QED
      BY <2>4, <3>1
  <2>6. RecoverySteps(m + 1, g)
    <3> HIDE DEF g
    <3> QED
      BY <2>5 DEF RecoverySteps
  <2> QED
    BY <2>1, <2>6
<1>3. S = Nat
  <2> HIDE DEF S
  <2>1. S \in SUBSET Nat
    BY DEF S
  <2> QED
    BY <1>1, <1>2, <2>1, AllNumbers
<1> QED
  BY <1>3

LEMMA RecoveredIs ==
  ASSUME Len(row) \in Nat
  PROVE  \E f : RecoverySteps(Len(row), f) /\ Recovered = f[Len(row)]
<1> DEFINE c == CHOOSE f : RecoverySteps(Len(row), f)
<1>1. RecoverySteps(Len(row), c)
  BY RecoveryStepsExist
<1>2. Recovered = c[Len(row)]
  BY DEF Recovered, RecoverySteps
<1> HIDE DEF c
<1> QED
  BY <1>1, <1>2

\* What recovery makes of a task.
ClosedRow == [state |-> "unknown", terminal |-> TRUE]
Restarted(t) == Artifact(t, Plain("controller_restarted"))
Gone(t) == IF Open(t) THEN Ended(t, "closed") ELSE thread[t]

\* The first k tasks are recovered in the stream s, and the others are as they were.
Recovering(s, k) ==
  /\ s \in Seq(StreamEvents)
  /\ \A i \in 1 .. Len(s) : s[i].task \in Tasks
  /\ \A u \in Tasks : ProjectTask(s, u).last >= ProjectTask(stream, u).last
  /\ \A u \in LeftOpen : u <= k => /\ Told(s, u, Gone(u), ClosedRow)
                                   /\ ToldClosed(s, u, Restarted(u))
  /\ \A u \in Tasks : u > k \/ u \notin LeftOpen =>
       /\ Told(s, u, thread[u], row[u])
       /\ ProjectTask(s, u) = ProjectTask(stream, u)
       /\ u \in DOMAIN res => ToldClosed(s, u, res[u])

LEMMA RestartedIs ==
  ASSUME HubInv, NEW t \in Tasks
  PROVE  /\ Restarted(t) \in Artifacts /\ Readable(t, Restarted(t)) /\ Fits(t, Gone(t), Restarted(t))
         /\ Restarted(t).state = "unknown" /\ Restarted(t).verdict = "NO_VERDICT"
         /\ Restarted(t).cand.role = "none"
         /\ Gone(t) \in Threads /\ Gone(t).kind = thread[t].kind /\ Gone(t).ref = thread[t].ref
         /\ Gone(t).done = thread[t].done /\ Gone(t).pc = "done" /\ StepOk(t, Gone(t))
<1>1. t \in Nat /\ thread[t] \in Threads /\ StepOk(t, thread[t])
  BY StepStart
<1>2. /\ Gone(t) \in Threads /\ Gone(t).kind = thread[t].kind /\ Gone(t).ref = thread[t].ref
      /\ Gone(t).done = thread[t].done /\ Gone(t).pc = "done" /\ StepOk(t, Gone(t))
  <2>1. CASE Open(t)
    BY <2>1, EndedIs DEF Gone
  <2>2. CASE ~Open(t)
    BY <1>1, <2>2 DEF Gone, Open
  <2> QED
    BY <2>1, <2>2
<1> DEFINE r == Plain("controller_restarted")
<1>3. Valid(t, Gone(t), r)
  BY ClosedValid, ReasonsAre
<1>4. r.outcome = "no_verdict" /\ r.cand = NoCandidate
  BY DEF Plain, Result
<1> HIDE DEF r
<1>5. /\ r \in Results /\ r.verified = (r.outcome = "pass") /\ Fits(t, Gone(t), r)
      /\ (r.cand.retained => r.cand.role = "prepared")
  BY <1>3 DEF Valid
<1>6. Artifact(t, r) \in Artifacts /\ Readable(t, Artifact(t, r)) /\ Fits(t, Gone(t), Artifact(t, r))
  <2>1. "unknown" \in Cleanups
    BY DEF Cleanups
  <2> QED
    BY <1>1, <1>5, <2>1, BundleTyped, CandidateRead, FitsArtifact
<1>7. /\ Artifact(t, r).state = "unknown" /\ Artifact(t, r).verdict = "NO_VERDICT"
      /\ Artifact(t, r).cand.role = "none"
  BY <1>4, FactsTyped DEF Artifact, Projection
<1> QED
  BY <1>2, <1>6, <1>7 DEF Restarted, r

\* The two events that close task t tell of it what recovery makes of it.
LEMMA ClosuresAre ==
  ASSUME NEW t \in Nat
  PROVE  /\ Closures(t)[1] \in StreamEvents /\ Closures(t)[2] \in StreamEvents
         /\ Closures(t) = <<Closures(t)[1], Closures(t)[2]>>
         /\ Closures(t)[1].task = t /\ Closures(t)[1].kind = "task.verdict"
         /\ Closures(t)[1].verdict = "NO_VERDICT"
         /\ Closures(t)[2].task = t /\ Closures(t)[2].kind = "task.closed"
         /\ Closures(t)[2].status = "unknown"
<1> DEFINE r == Plain("controller_restarted")
           v == VerdictEvent(t, r)
           e == ClosedEvent(t, r, "unknown")
<1>1. r \in Results
  BY ClosedValid, ReasonsAre DEF Valid
<1>2. r.outcome = "no_verdict"
  BY DEF Plain, Result
<1> HIDE DEF r
<1>3. v \in StreamEvents /\ e \in StreamEvents
  <2>1. "unknown" \in Cleanups
    BY DEF Cleanups
  <2> QED
    BY <1>1, <2>1, BundleTyped
<1>4. /\ v.task = t /\ v.kind = "task.verdict" /\ v.verdict = "NO_VERDICT"
      /\ e.task = t /\ e.kind = "task.closed" /\ e.status = "unknown"
  BY <1>2 DEF VerdictEvent, ClosedEvent, Projection
<1>5. Closures(t) = <<v, e>>
  BY DEF Closures, r
<1> HIDE DEF v, e
<1> QED
  BY <1>3, <1>4, <1>5

LEMMA RecoverOne ==
  ASSUME HubInv, NEW s, NEW k \in Nat, k + 1 \in Tasks, Recovering(s, k)
  PROVE  Recovering(IF k + 1 \in LeftOpen THEN s \o Closures(k + 1) ELSE s, k + 1)
<1> DEFINE t == k + 1
<1>1. /\ s \in Seq(StreamEvents) /\ Len(s) \in Nat
      /\ \A i \in 1 .. Len(s) : s[i].task \in Tasks
      /\ \A u \in Tasks : ProjectTask(s, u).last >= ProjectTask(stream, u).last
      /\ \A u \in LeftOpen : u <= k => /\ Told(s, u, Gone(u), ClosedRow)
                                       /\ ToldClosed(s, u, Restarted(u))
      /\ \A u \in Tasks : u > k \/ u \notin LeftOpen =>
           /\ Told(s, u, thread[u], row[u])
           /\ ProjectTask(s, u) = ProjectTask(stream, u)
           /\ u \in DOMAIN res => ToldClosed(s, u, res[u])
  BY LenProperties DEF Recovering
<1>2. \A u \in Tasks : u \in Nat
  BY StepStart
<1>3. t \in Tasks /\ t \in Nat /\ t > k /\ \A u \in Nat : (u > t => u > k) /\ (u <= t => u <= k \/ u = t)
  OBVIOUS
<1> HIDE DEF t
<1>4. LeftOpen \subseteq Tasks /\ \A u \in LeftOpen : ~row[u].terminal
  BY DEF LeftOpen
<1>5. CASE t \notin LeftOpen
  <2>1. \A u \in LeftOpen : u <= t => u <= k
    BY <1>2, <1>3, <1>4, <1>5
  <2>2. Recovering(s, t)
    BY <1>1, <1>2, <1>3, <2>1 DEF Recovering
  <2> QED
    BY <1>5, <2>2 DEF t
<1>6. CASE t \in LeftOpen
  <2> DEFINE v == Closures(t)[1]  e == Closures(t)[2]
             r == Append(s, v)  q == Append(r, e)
  <2>1. /\ v \in StreamEvents /\ e \in StreamEvents /\ Closures(t) = <<v, e>>
        /\ v.task = t /\ v.kind = "task.verdict" /\ v.verdict = "NO_VERDICT"
        /\ e.task = t /\ e.kind = "task.closed" /\ e.status = "unknown"
    BY <1>3, ClosuresAre
  <2> HIDE DEF v, e
  <2>2. r \in Seq(StreamEvents) /\ s \o Closures(t) = q
    BY <1>1, <2>1
  <2>3. /\ q \in Seq(StreamEvents) /\ Len(q) = Len(s) + 2
        /\ q[Len(s) + 1] = v /\ q[Len(s) + 2] = e /\ \A i \in 1 .. Len(s) : q[i] = s[i]
    BY <1>1, <2>1
  <2>4. /\ Told(s, t, thread[t], row[t]) /\ ~row[t].terminal
        /\ ProjectTask(s, t) = ProjectTask(stream, t)
    BY <1>1, <1>3, <1>4, <1>6
  <2>5. /\ Told(q, t, Gone(t), ClosedRow) /\ ToldClosed(q, t, Restarted(t))
        /\ ProjectTask(q, t).last = Len(s) + 2
    <3>1. /\ Gone(t).kind = thread[t].kind /\ Gone(t).done = thread[t].done
          /\ Restarted(t).state = "unknown" /\ Restarted(t).verdict = "NO_VERDICT"
      BY <1>3, RestartedIs
    <3>2. ClosedRow.terminal /\ ClosedRow.state = e.status
      BY <2>1 DEF ClosedRow
    <3> DEFINE w == thread[t]  ro == row[t]  wn == Gone(t)  rn == ClosedRow  a == Restarted(t)
    <3>3. /\ Told(s, t, w, ro) /\ ~ro.terminal
          /\ wn.kind = w.kind /\ wn.done = w.done /\ rn.terminal /\ rn.state = e.status
          /\ a.verdict = v.verdict /\ a.state = e.status
      BY <2>1, <2>4, <3>1, <3>2
    <3> HIDE DEF w, ro, wn, rn, a
    <3>4. /\ Told(q, t, wn, rn) /\ ToldClosed(q, t, a) /\ ProjectTask(q, t).last = Len(s) + 2
      BY <1>1, <2>1, <3>3, ClosedTold
    <3> QED
      BY <3>4 DEF wn, rn, a
  <2>6. ASSUME NEW u, NEW w, NEW ro, u # t, Told(s, u, w, ro)
        PROVE  /\ Told(q, u, w, ro) /\ ProjectTask(q, u) = ProjectTask(s, u)
               /\ \A a : ToldClosed(s, u, a) => ToldClosed(q, u, a)
    <3>1. /\ Told(r, u, w, ro) /\ ProjectTask(r, u) = ProjectTask(s, u)
          /\ \A a : ToldClosed(s, u, a) => ToldClosed(r, u, a)
      BY <1>1, <2>1, <2>6, OtherTold
    <3> HIDE DEF r
    <3>2. /\ Told(q, u, w, ro) /\ ProjectTask(q, u) = ProjectTask(r, u)
          /\ \A a : ToldClosed(r, u, a) => ToldClosed(q, u, a)
      BY <2>1, <2>2, <2>6, <3>1, OtherTold
    <3> QED
      BY <3>1, <3>2
  <2> HIDE DEF q
  <2>7. \A i \in 1 .. Len(q) : q[i].task \in Tasks
    <3>1. \A i \in 1 .. Len(q) : i \in 1 .. Len(s) \/ i = Len(s) + 1 \/ i = Len(s) + 2
      BY <1>1, <2>3
    <3> QED
      BY <1>1, <1>3, <2>1, <2>3, <3>1
  <2>8. \A u \in Tasks : \E w, ro : Told(s, u, w, ro)
    <3>1. \A u \in Tasks : (u \in LeftOpen /\ u <= k) \/ u > k \/ u \notin LeftOpen
      BY <1>2
    <3> QED
      BY <1>1, <3>1
  <2>9. ASSUME NEW u \in Tasks PROVE ProjectTask(q, u).last >= ProjectTask(stream, u).last
    <3>1. CASE u = t
      <4>1. ProjectTask(s, t).last \in 1 .. Len(s)
        BY <2>4 DEF Told, LastEvent
      <4> QED
        BY <1>1, <2>4, <2>5, <3>1, <4>1
    <3>2. CASE u # t
      BY <1>1, <2>6, <2>8, <3>2
    <3> QED
      BY <3>1, <3>2
  <2>10. ASSUME NEW u \in LeftOpen, u <= t
         PROVE  Told(q, u, Gone(u), ClosedRow) /\ ToldClosed(q, u, Restarted(u))
    <3>1. CASE u = t
      BY <2>5, <3>1
    <3>2. CASE u # t
      <4>1. u <= k
        BY <1>2, <1>3, <1>4, <2>10, <3>2
      <4> QED
        BY <1>1, <2>6, <3>2, <4>1
    <3> QED
      BY <3>1, <3>2
  <2>11. ASSUME NEW u \in Tasks, u > t \/ u \notin LeftOpen
         PROVE  /\ Told(q, u, thread[u], row[u])
                /\ ProjectTask(q, u) = ProjectTask(stream, u)
                /\ u \in DOMAIN res => ToldClosed(q, u, res[u])
    <3>1. u # t /\ (u > k \/ u \notin LeftOpen)
      BY <1>2, <1>3, <1>6, <2>11
    <3>2. /\ Told(s, u, thread[u], row[u])
          /\ ProjectTask(s, u) = ProjectTask(stream, u)
          /\ u \in DOMAIN res => ToldClosed(s, u, res[u])
      BY <1>1, <3>1
    <3> QED
      BY <2>6, <3>1, <3>2
  <2>12. Recovering(q, t)
    BY <2>3, <2>7, <2>9, <2>10, <2>11 DEF Recovering
  <2> QED
    BY <1>6, <2>2, <2>12 DEF t
<1> QED
  BY <1>5, <1>6

LEMMA RecoversAll ==
  ASSUME HubInv
  PROVE  Recovering(Recovered, Len(row))
<1> DEFINE n == Len(row)
<1>1. /\ HubTypeOK /\ StreamInv /\ stream \in Seq(StreamEvents) /\ n \in Nat /\ Tasks = 1 .. n
  BY LenProperties DEF HubInv, HubTypeOK, Tasks
<1> HIDE DEF n
<1>2. PICK f : RecoverySteps(n, f) /\ Recovered = f[n]
  BY <1>1, RecoveredIs DEF n
<1>3. \A k \in 0 .. n : f[k] = IF k = 0 THEN stream
                               ELSE IF k \in LeftOpen THEN f[k - 1] \o Closures(k) ELSE f[k - 1]
  BY <1>2 DEF RecoverySteps
<1> DEFINE S == {k \in Nat : k <= n => Recovering(f[k], k)}
<1>4. 0 \in S
  <2>1. f[0] = stream
    BY <1>1, <1>3
  <2>2. \A u \in Tasks : u \in Nat /\ u > 0
    BY <1>1
  <2>3. \A u \in LeftOpen : ~(u <= 0)
    BY <2>2 DEF LeftOpen
  <2>4. \A u \in Tasks : ProjectTask(stream, u).last >= ProjectTask(stream, u).last
    <3>1. ASSUME NEW u \in Tasks PROVE ProjectTask(stream, u).last \in 1 .. Len(stream)
      BY <1>1, LastTyped
    <3>2. ASSUME NEW u \in Tasks PROVE ProjectTask(stream, u).last >= ProjectTask(stream, u).last
      BY <3>1
    <3> QED
      BY <3>2
  <2>5. /\ \A u \in Tasks : Told(stream, u, thread[u], row[u])
        /\ \A i \in 1 .. Len(stream) : stream[i].task \in Tasks
        /\ \A u \in DOMAIN res : ToldClosed(stream, u, res[u])
    BY <1>1 DEF StreamInv
  <2>6. Recovering(stream, 0)
    BY <1>1, <2>3, <2>4, <2>5 DEF Recovering
  <2> QED
    BY <2>1, <2>6
<1>5. ASSUME NEW k \in S PROVE k + 1 \in S
  <2>1. CASE k + 1 <= n
    <3>1. /\ k \in Nat /\ k <= n /\ k + 1 \in Tasks /\ k + 1 \in 0 .. n /\ k + 1 # 0
          /\ k + 1 - 1 = k
      BY <1>1, <2>1
    <3>2. f[k + 1] = IF k + 1 \in LeftOpen THEN f[k] \o Closures(k + 1) ELSE f[k]
      BY <1>3, <3>1
    <3>3. Recovering(f[k], k)
      BY <1>5, <3>1
    <3>4. Recovering(f[k + 1], k + 1)
      BY <3>1, <3>2, <3>3, RecoverOne
    <3> QED
      BY <3>1, <3>4
  <2> QED
    BY <2>1
<1>6. S = Nat
  <2> HIDE DEF S
  <2>1. S \in SUBSET Nat
    BY DEF S
  <2> QED
    BY <1>4, <1>5, <2>1, AllNumbers
<1>7. n <= n /\ n \in S
  BY <1>1, <1>6
<1> QED
  BY <1>2, <1>7 DEF n

LEMMA ReopenStep ==
  ASSUME HubInv, Reopen
  PROVE  HubInv'
<1> DEFINE n == Len(row)
<1>1. HubTypeOK /\ StepInv /\ StreamInv /\ OneTurn
  BY DEF HubInv
<1>2. /\ row \in Seq(Rows) /\ thread \in Seq(Threads)
      /\ disk \in Seq(Disks) /\ Len(thread) = n /\ Len(disk) = n /\ n \in Nat
      /\ DOMAIN res = {u \in Tasks : row[u].terminal} /\ res \in [DOMAIN res -> Artifacts]
      /\ Tasks = 1 .. n
  BY <1>1, LenProperties DEF HubTypeOK, Tasks
<1>3. /\ stream' = Recovered
      /\ row' = [t \in Tasks |-> IF row[t].terminal THEN row[t] ELSE ClosedRow]
      /\ res' = [t \in Tasks |-> IF t \in DOMAIN res THEN res[t] ELSE Restarted(t)]
      /\ thread' = [t \in Tasks |-> Gone(t)]
      /\ disk' = disk /\ mishaps' \in 0 .. MaxMishaps
  BY MishapCounted DEF Reopen, ClosedRow, Restarted, Gone
<1>4. Recovering(stream', n)
  BY <1>3, RecoversAll
<1>5. \A t \in Tasks : row[t] \in Rows /\ t \in Nat
  BY StepStart
<1>6. ClosedRow \in Rows
  BY DEF ClosedRow, Rows, States
<1>7. /\ row' \in Seq(Rows) /\ Len(row') = n
      /\ \A t \in Tasks : row'[t] = IF row[t].terminal THEN row[t] ELSE ClosedRow
  <2>1. row' \in [1 .. n -> Rows]
    BY <1>2, <1>3, <1>5, <1>6
  <2> QED
    BY <1>2, <1>3, <2>1
<1>8. /\ thread' \in Seq(Threads) /\ Len(thread') = n
      /\ \A t \in Tasks : thread'[t] = Gone(t)
  <2>1. \A t \in Tasks : Gone(t) \in Threads
    BY RestartedIs
  <2>2. thread' \in [1 .. n -> Threads]
    BY <1>2, <1>3, <2>1
  <2> QED
    BY <1>2, <1>3, <2>2
<1>9. Tasks' = Tasks
  BY <1>2, <1>7 DEF Tasks
<1> HIDE DEF n
<1>10. \A t \in Tasks : /\ thread'[t].kind = thread[t].kind /\ thread'[t].ref = thread[t].ref
                        /\ thread'[t].done = thread[t].done /\ thread'[t].pc = "done"
                        /\ StepOk(t, thread'[t])
  BY <1>8, RestartedIs
<1>11. \A t \in Tasks' : thread'[t].kind \in Actions => thread'[t].ref \in Candidates'
  <2>1. Candidates' = Candidates
    BY <1>9, <1>10 DEF Candidates
  <2> QED
    BY <1>1, <1>9, <1>10, <2>1 DEF HubTypeOK
<1>12. \A t \in Tasks' : row'[t].terminal
  BY <1>7, <1>9 DEF ClosedRow
<1>13. DOMAIN res' = {t \in Tasks' : row'[t].terminal} /\ res' \in [DOMAIN res' -> Artifacts]
  <2>1. DOMAIN res' = Tasks
    BY <1>3
  <2>2. \A t \in Tasks : res'[t] \in Artifacts
    BY <1>2, <1>3, RestartedIs
  <2>3. {t \in Tasks' : row'[t].terminal} = Tasks
    BY <1>9, <1>12
  <2> QED
    BY <1>3, <2>1, <2>2, <2>3
<1>14. stream' \in Seq(StreamEvents)
  BY <1>4 DEF Recovering
<1>15. HubTypeOK'
  BY <1>2, <1>3, <1>7, <1>8, <1>11, <1>13, <1>14 DEF HubTypeOK
<1>16. StepInv'
  BY <1>9, <1>10 DEF StepInv
<1>17. \A t \in Tasks : t <= n
  BY <1>2
<1>18. ASSUME NEW t \in Tasks
       PROVE  Told(stream', t, thread'[t], row'[t])
  <2>1. CASE t \in LeftOpen
    <3>1. Told(stream', t, Gone(t), ClosedRow)
      BY <1>4, <1>17, <2>1 DEF Recovering
    <3> QED
      BY <1>7, <1>8, <2>1, <3>1 DEF LeftOpen
  <2>2. CASE t \notin LeftOpen
    <3>1. row[t].terminal /\ row'[t] = row[t]
      BY <1>7, <2>2 DEF LeftOpen
    <3>2. Told(stream', t, thread[t], row[t])
      BY <1>4, <2>2 DEF Recovering
    <3>3. thread'[t].kind = thread[t].kind /\ thread'[t].done = thread[t].done
      BY <1>10
    <3> QED
      BY <3>1, <3>2, <3>3 DEF Told, CardShows, StepsOnRecord
  <2> QED
    BY <2>1, <2>2
<1>19. ASSUME NEW t \in DOMAIN res'
       PROVE  ToldClosed(stream', t, res'[t]) /\ Readable(t, res'[t]) /\ Fits(t, thread'[t], res'[t])
  <2>1. t \in Tasks
    BY <1>3
  <2>2. CASE t \in DOMAIN res
    <3>1. t \notin LeftOpen /\ res'[t] = res[t]
      BY <1>2, <1>3, <2>1, <2>2 DEF LeftOpen
    <3>2. ToldClosed(stream', t, res[t])
      BY <1>4, <2>1, <2>2, <3>1 DEF Recovering
    <3>3. Readable(t, res[t]) /\ Fits(t, thread[t], res[t])
      BY <1>1, <2>2 DEF StreamInv
    <3>4. Fits(t, thread'[t], res[t])
      BY <1>10, <2>1, <3>3 DEF Fits
    <3> QED
      BY <3>1, <3>2, <3>3, <3>4
  <2>3. CASE t \notin DOMAIN res
    <3>1. t \in LeftOpen /\ res'[t] = Restarted(t) /\ thread'[t] = Gone(t)
      BY <1>2, <1>3, <1>8, <2>1, <2>3 DEF LeftOpen
    <3>2. ToldClosed(stream', t, Restarted(t))
      BY <1>4, <1>17, <2>1, <3>1 DEF Recovering
    <3> QED
      BY <2>1, <3>1, <3>2, RestartedIs
  <2> QED
    BY <2>2, <2>3
<1>20. StreamInv'
  <2>1. \A i \in 1 .. Len(stream') : stream'[i].task \in Tasks'
    BY <1>4, <1>9 DEF Recovering
  <2> QED
    BY <1>9, <1>18, <1>19, <2>1 DEF StreamInv
<1>21. ASSUME NEW u \in Tasks, NEW v \in Tasks, u < v,
              thread'[u].kind # "watch", thread'[v].kind # "watch"
       PROVE  /\ ~Open(u)'
              /\ u \in DOMAIN res' /\ res'[u].cand.role # "none" =>
                   ProjectTask(stream', u).last < ProjectTask(stream', v).last
  <2>1. ~Open(u)'
    BY <1>10 DEF Open
  <2>2. ASSUME res'[u].cand.role # "none"
        PROVE  ProjectTask(stream', u).last < ProjectTask(stream', v).last
    <3>1. u \in DOMAIN res /\ res'[u] = res[u]
      <4>1. Restarted(u).cand.role = "none"
        BY RestartedIs
      <4> QED
        BY <1>3, <2>2, <4>1
    <3>2. ProjectTask(stream, u).last < ProjectTask(stream, v).last
      BY <1>1, <1>10, <1>21, <2>2, <3>1 DEF OneTurn
    <3>3. ProjectTask(stream', u) = ProjectTask(stream, u)
      <4>1. u \notin LeftOpen
        BY <1>2, <3>1 DEF LeftOpen
      <4> QED
        BY <1>4, <4>1 DEF Recovering
    <3>4. ProjectTask(stream', v).last >= ProjectTask(stream, v).last
      BY <1>4 DEF Recovering
    <3>5. ProjectTask(stream, u).last \in Nat /\ ProjectTask(stream, v).last \in Nat
          /\ ProjectTask(stream', v).last \in Nat
      <4>1. ProjectTask(stream, u) \in CardSet /\ ProjectTask(stream, v) \in CardSet
            /\ ProjectTask(stream', v) \in CardSet
        BY <1>1, <1>18 DEF StreamInv, Told, CardShows
      <4> QED
        BY <4>1 DEF CardSet
    <3> QED
      BY <3>2, <3>3, <3>4, <3>5
  <2> QED
    BY <2>1, <2>2
<1>22. OneTurn'
  BY <1>9, <1>21 DEF OneTurn
<1> QED
  BY <1>15, <1>16, <1>20, <1>22 DEF HubInv

-----------------------------------------------------------------------------
(* The invariant.                                                          *)

LEMMA HubStarts ==
  ASSUME HubInit
  PROVE  HubInv
<1>1. /\ stream = <<>> /\ row = <<>> /\ thread = <<>> /\ disk = <<>> /\ mishaps = 0
      /\ DOMAIN res = {} /\ Tasks = {} /\ Len(row) = 0
  BY DEF HubInit, Tasks
<1>2. HubTypeOK
  BY <1>1, HubAssumption DEF HubTypeOK
<1>3. StepInv /\ StreamInv /\ OneTurn
  BY <1>1 DEF StepInv, StreamInv, OneTurn
<1> QED
  BY <1>2, <1>3 DEF HubInv

LEMMA HubStep ==
  ASSUME HubInv, HubNext
  PROVE  HubInv'
<1>1. CASE AdmitTask
  <2>1. PICK kind \in AllKinds \ Actions : Admit(kind, 0)
    BY <1>1 DEF AdmitTask
  <2>2. 0 \in Nat
    OBVIOUS
  <2> QED
    BY <2>1, <2>2, AdmitStep
<1>2. CASE AdmitAction
  <2>1. PICK kind \in Actions, c \in Candidates : Admit(kind, c)
    BY <1>2 DEF AdmitAction
  <2>2. c \in Nat /\ kind \in AllKinds
    <3>1. c \in Tasks
      BY DEF Candidates
    <3> QED
      BY <3>1, StepStart DEF AllKinds
  <2> QED
    BY <2>1, <2>2, AdmitStep
<1>3. ASSUME NEW t \in Tasks,
             \/ StartTask(t)
             \/ StartTool(t)
             \/ \E out \in Outs : FinishTool(t, out)
             \/ Return(t)
             \/ CommitResult(t)
             \/ CloseStopped(t)
             \/ Fault(t)
             \/ Release(t)
             \/ LoseWrite(t)
             \/ RequestCancel(t)
      PROVE  HubInv'
  BY <1>3, StartTaskStep, StartToolStep, FinishToolStep, ReturnStep, CommitResultStep,
     CloseStoppedStep, FaultStep, ReleaseStep, LoseWriteStep, RequestCancelStep
<1> QED
  BY <1>1, <1>2, <1>3, ReopenStep DEF HubNext

\* The stream tells of every task what there is to tell.
THEOREM HubInvariant == HubSpec => []HubInv
<1>1. ASSUME HubInv, UNCHANGED hubVars PROVE HubInv'
  <2>1. /\ stream' = stream /\ row' = row /\ res' = res /\ thread' = thread /\ disk' = disk
        /\ mishaps' = mishaps
    BY <1>1 DEF hubVars
  <2>2. HubTypeOK' /\ StepInv' /\ StreamInv' /\ OneTurn'
    <3>1. HubTypeOK /\ StepInv /\ StreamInv /\ OneTurn
      BY <1>1 DEF HubInv
    <3>2. Tasks' = Tasks /\ Candidates' = Candidates
      BY <2>1 DEF Tasks, Candidates
    <3>3. HubTypeOK'
      BY <2>1, <3>1, <3>2 DEF HubTypeOK
    <3>4. StepInv' /\ StreamInv' /\ OneTurn'
      BY <2>1, <3>1, <3>2 DEF StepInv, StreamInv, OneTurn, Open
    <3> QED
      BY <3>3, <3>4
  <2> QED
    BY <2>2 DEF HubInv
<1>2. HubInit => HubInv
  BY HubStarts
<1>3. HubInv /\ [HubNext]_hubVars => HubInv'
  BY <1>1, HubStep
<1> QED
  BY <1>2, <1>3, PTL DEF HubSpec

\* Every event, row, thread, result and candidate has the shape the code gives it.
THEOREM HubTypeCorrect == HubSpec => []HubTypeOK
<1>1. HubInv => HubTypeOK
  BY DEF HubInv
<1> QED
  BY <1>1, HubInvariant, PTL

-----------------------------------------------------------------------------
(* Who used a candidate up.                                                *)

Early == {"admitted", "running", "tool"}

\* A thread has a result of its own only once its controller returned, and the result is
\* retained only then, with its candidate or none.
ReturnsOnce == \A t \in Tasks : thread[t].pc \in Early => thread[t].r.outcome # "pass"
RetainsOwn ==
  \A t \in DOMAIN res : /\ thread[t].pc \notin Early
                        /\ res[t].cand.role # "none" => res[t].cand = thread[t].r.cand

\* Task u made an end of candidate c, and nothing acted on its record later.
SpentBy(c, u) ==
  /\ thread[u].kind \in {"apply", "discard"} /\ thread[u].ref = c /\ thread[u].r.outcome = "pass"
  /\ \A v \in Tasks : v > u /\ thread[v].kind \in Actions /\ thread[v].ref = c =>
       thread[v].r.cand.role \notin {"reviewed", "apply_refused"}

\* A retained candidate is on disk until a task makes an end of it.
RemovedInv ==
  \A c \in Candidates :
    ~disk[c].record /\ thread[c].r.cand.retained => \E u \in Tasks : SpentBy(c, u)

SpentInv == ReturnsOnce /\ RetainsOwn /\ RemovedInv

\* A step that returns nothing keeps what was returned, on disk and in the threads.
Keeping ==
  /\ Tasks' = Tasks /\ disk' = disk
  /\ \A u \in Tasks :
       /\ thread'[u].r = thread[u].r /\ thread'[u].kind = thread[u].kind
       /\ thread'[u].ref = thread[u].ref
       /\ thread'[u].pc \in Early => thread[u].pc \in Early
  /\ DOMAIN res' \subseteq Tasks
  /\ \A u \in DOMAIN res' :
       \/ u \in DOMAIN res /\ res'[u] = res[u]
       \/ /\ thread'[u].pc \notin Early
          /\ res'[u].cand.role = "none" \/ res'[u].cand = thread[u].r.cand

LEMMA KeepingStep ==
  ASSUME SpentInv, Keeping
  PROVE  SpentInv'
<1>1. ReturnsOnce'
  BY DEF SpentInv, Keeping, ReturnsOnce
<1>2. RetainsOwn'
  BY DEF SpentInv, Keeping, RetainsOwn
<1>3. RemovedInv'
  <2>1. Candidates' = Candidates
    BY DEF Keeping, Candidates
  <2>2. \A c, u \in Tasks : SpentBy(c, u) => SpentBy(c, u)'
    BY DEF Keeping, SpentBy
  <2>3. \A c \in Candidates : c \in Tasks
    BY DEF Candidates
  <2> QED
    BY <2>1, <2>2, <2>3 DEF SpentInv, Keeping, RemovedInv
<1> QED
  BY <1>1, <1>2, <1>3 DEF SpentInv

\* A thread moves on and returns nothing.
LEMMA MovesKeeping ==
  ASSUME HubInv, HubInv', NEW t \in Tasks, NEW w, At(t, w), w.r = thread[t].r,
         w.kind = thread[t].kind, w.ref = thread[t].ref,
         w.pc \in Early => thread[t].pc \in Early, disk' = disk,
         \/ res' = res
         \/ \E r : /\ res' = InsertArtifact(t, Artifact(t, r)) /\ w.pc \notin Early
                   /\ r.cand.role = "none" \/ r.cand = thread[t].r.cand
  PROVE  Keeping
<1>1. /\ Tasks = 1 .. Len(thread) /\ thread \in Seq(Threads) /\ DOMAIN res \subseteq Tasks
  BY DEF HubInv, HubTypeOK, Tasks
<1>2. Tasks' = Tasks
  <2>1. thread' \in Seq(Threads) /\ Tasks' = 1 .. Len(thread')
    BY DEF HubInv, HubTypeOK, Tasks
  <2>2. DOMAIN thread' = DOMAIN thread
    BY DEF At
  <2> QED
    BY <1>1, <2>1, <2>2
<1>3. \A u \in Tasks : thread'[u] = IF u = t THEN w ELSE thread[u]
  BY <1>1 DEF At
<1>4. /\ DOMAIN res' \subseteq Tasks
      /\ \A u \in DOMAIN res' :
           \/ u \in DOMAIN res /\ res'[u] = res[u]
           \/ /\ thread'[u].pc \notin Early
              /\ res'[u].cand.role = "none" \/ res'[u].cand = thread[u].r.cand
  <2>1. CASE res' = res
    BY <1>1, <2>1
  <2>2. CASE \E r : /\ res' = InsertArtifact(t, Artifact(t, r)) /\ w.pc \notin Early
                    /\ r.cand.role = "none" \/ r.cand = thread[t].r.cand
    <3>1. PICK r : /\ res' = InsertArtifact(t, Artifact(t, r)) /\ w.pc \notin Early
                   /\ r.cand.role = "none" \/ r.cand = thread[t].r.cand
      BY <2>2
    <3>2. Artifact(t, r).cand = r.cand
      BY DEF Artifact
    <3> DEFINE a == Artifact(t, r)
    <3> HIDE DEF a
    <3>3. /\ DOMAIN res' = DOMAIN res \cup {t}
          /\ \A u \in DOMAIN res \cup {t} : res'[u] = IF u = t THEN a ELSE res[u]
      BY <3>1 DEF InsertArtifact, a
    <3> QED
      BY <1>1, <1>3, <3>1, <3>2, <3>3 DEF a
  <2> QED
    BY <2>1, <2>2
<1> QED
  BY <1>2, <1>3, <1>4 DEF Keeping

\* What a finished tool call and a return change.
LEMMA FinishMoves ==
  ASSUME NEW t, NEW out, FinishTool(t, out)
  PROVE  /\ At(t, [thread[t] EXCEPT !.pc = "running", !.call = "none",
                   !.done = Append(thread[t].done, [tool |-> thread[t].call, out |-> out])])
         /\ thread[t].pc = "tool" /\ disk' = disk /\ res' = res
  BY DEF FinishTool

LEMMA ReturnMoves ==
  ASSUME NEW t, Return(t)
  PROVE  \E back \in ControllerReturns(t) :
           /\ At(t, [thread[t] EXCEPT !.pc = "returned", !.r = back.r])
           /\ disk' = [disk EXCEPT ![IF thread[t].kind \in Actions THEN thread[t].ref ELSE t] = back.disk]
  BY DEF Return

\* The steps of a task but for its return.
LEMMA TaskKeeps ==
  ASSUME HubInv, HubInv', NEW t \in Tasks,
         \/ StartTask(t)
         \/ StartTool(t)
         \/ \E out \in Outs : FinishTool(t, out)
         \/ CommitResult(t)
         \/ CloseStopped(t)
         \/ Fault(t)
         \/ Release(t)
         \/ LoseWrite(t)
         \/ RequestCancel(t)
  PROVE  Keeping
<1>1. thread[t] \in Threads
  BY StepStart
<1> DEFINE Same(w) == w.r = thread[t].r /\ w.kind = thread[t].kind /\ w.ref = thread[t].ref
<1>2. ASSUME NEW pc PROVE LET w == [thread[t] EXCEPT !.pc = pc] IN Same(w) /\ w.pc = pc
  BY <1>1 DEF Threads
<1>3. ASSUME NEW how PROVE Same(Ended(t, how)) /\ Ended(t, how).pc = "done"
  BY <1>1 DEF Threads, Ended
<1>4. CASE StartTask(t)
  <2> DEFINE w == [thread[t] EXCEPT !.pc = "running"]
  <2>1. At(t, w) /\ thread[t].pc \in Early /\ disk' = disk /\ res' = res
    BY <1>4 DEF StartTask, Early
  <2>2. Same(w)
    BY <1>2
  <2> HIDE DEF w
  <2> QED
    BY <2>1, <2>2, MovesKeeping
<1>5. CASE StartTool(t)
  <2> DEFINE w == [thread[t] EXCEPT !.pc = "tool", !.call = NextStep(thread[t].kind, thread[t].done)]
  <2>1. At(t, w) /\ thread[t].pc \in Early /\ disk' = disk /\ res' = res
    BY <1>5 DEF StartTool, Early
  <2>2. Same(w)
    BY <1>1 DEF Threads
  <2> HIDE DEF w
  <2> QED
    BY <2>1, <2>2, MovesKeeping
<1>6. ASSUME NEW out \in Outs, FinishTool(t, out) PROVE Keeping
  <2> DEFINE w == [thread[t] EXCEPT !.pc = "running", !.call = "none",
                       !.done = Append(thread[t].done, [tool |-> thread[t].call, out |-> out])]
  <2>1. At(t, w) /\ thread[t].pc = "tool" /\ disk' = disk /\ res' = res
    BY <1>6, FinishMoves
  <2>2. Same(w)
    BY <1>1 DEF Threads
  <2> HIDE DEF w
  <2> QED
    BY <2>1, <2>2, MovesKeeping DEF Early
<1>7. ASSUME NEW result, CloseTask(t, result),
             result.cand.role = "none" \/ result.cand = thread[t].r.cand
      PROVE  Keeping
  <2> DEFINE cleanup == Cleanup(thread[t])  closing == Reconciled(result, cleanup)
  <2>1. PICK how : At(t, Ended(t, how)) /\ disk' = disk
    BY <1>7 DEF CloseTask
  <2>2. res' = res \/ res' = InsertArtifact(t, Artifact(t, closing))
    BY <1>7 DEF CloseTask, Finalize
  <2>3. closing.cand = result.cand
    BY DEF Reconciled, Result
  <2> DEFINE w == Ended(t, how)
  <2>4. Same(w) /\ w.pc \notin Early
    BY <1>3 DEF Early
  <2> HIDE DEF w, closing, cleanup
  <2>5. At(t, w)
    BY <2>1 DEF w
  <2> QED
    BY <1>7, <2>1, <2>2, <2>3, <2>4, <2>5, MovesKeeping
<1>8. CASE CommitResult(t)
  BY <1>7, <1>8 DEF CommitResult
<1>9. CASE CloseStopped(t)
  <2>1. CloseTask(t, Cancelled(Cleanup(thread[t])))
    BY <1>9 DEF CloseStopped
  <2>2. Cancelled(Cleanup(thread[t])).cand.role = "none"
    BY DEF Cancelled, Result, NoCandidate
  <2> QED
    BY <1>7, <2>1, <2>2
<1>10. CASE Fault(t)
  <2> DEFINE w == [thread[t] EXCEPT !.pc = "closing"]  closing == Plain("controller_fault")
  <2>1. At(t, w) /\ disk' = disk /\ res' = InsertArtifact(t, Artifact(t, closing))
    BY <1>10 DEF Fault, Finalize
  <2>2. Same(w) /\ w.pc \notin Early
    BY <1>2 DEF Early
  <2>3. closing.cand.role = "none"
    BY DEF Plain, Result, NoCandidate
  <2> HIDE DEF w, closing
  <2> QED
    BY <2>1, <2>2, <2>3, MovesKeeping
<1>11. CASE Release(t) \/ LoseWrite(t)
  <2>1. PICK how : At(t, Ended(t, how)) /\ disk' = disk /\ res' = res
    BY <1>11 DEF Release, LoseWrite
  <2> DEFINE w == Ended(t, how)
  <2>2. At(t, w) /\ Same(w) /\ w.pc \notin Early
    BY <1>3, <2>1 DEF Early
  <2> HIDE DEF w
  <2> QED
    BY <2>1, <2>2, MovesKeeping
<1>12. CASE RequestCancel(t)
  <2> DEFINE w == Revoked(thread[t])
  <2>1. At(t, w) /\ disk' = disk /\ res' = res
    BY <1>12 DEF RequestCancel
  <2>2. Same(w) /\ w.pc = thread[t].pc
    BY <1>1 DEF Threads, Revoked
  <2> HIDE DEF w
  <2> QED
    BY <2>1, <2>2, MovesKeeping
<1> QED
  BY <1>4, <1>5, <1>6, <1>8, <1>9, <1>10, <1>11, <1>12

\* A reopening ends the threads with what they returned and retains no candidate.
LEMMA ReopenKeeps ==
  ASSUME HubInv, HubInv', Reopen
  PROVE  Keeping
<1>1. /\ thread' = [t \in Tasks |-> Gone(t)] /\ disk' = disk
      /\ res' = [t \in Tasks |-> IF t \in DOMAIN res THEN res[t] ELSE Restarted(t)]
      /\ DOMAIN row' = Tasks
  BY DEF Reopen, Restarted, Gone
<1>2. Tasks' = Tasks
  <2>1. row \in Seq(Rows) /\ row' \in Seq(Rows)
    BY DEF HubInv, HubTypeOK
  <2> QED
    BY <1>1, <2>1 DEF Tasks
<1>3. \A t \in Tasks : Restarted(t).cand.role = "none"
  BY RestartedIs
<1>4. \A t \in Tasks : /\ Gone(t).r = thread[t].r /\ Gone(t).kind = thread[t].kind
                       /\ Gone(t).ref = thread[t].ref /\ Gone(t).pc \notin Early
  <2>1. ASSUME NEW t \in Tasks
        PROVE  /\ Gone(t).r = thread[t].r /\ Gone(t).kind = thread[t].kind
               /\ Gone(t).ref = thread[t].ref /\ Gone(t).pc = "done"
    <3>1. thread[t] \in Threads
      BY StepStart
    <3>2. /\ Ended(t, "closed").r = thread[t].r /\ Ended(t, "closed").kind = thread[t].kind
          /\ Ended(t, "closed").ref = thread[t].ref /\ Ended(t, "closed").pc = "done"
      BY <3>1 DEF Ended, Threads
    <3> QED
      BY <3>2 DEF Gone, Open
  <2> QED
    BY <2>1 DEF Early
<1> QED
  BY <1>1, <1>2, <1>3, <1>4 DEF Keeping

\* What a return does to the candidate it is about.
LEMMA ReturnEffect ==
  ASSUME HubInv, NEW t \in Tasks, NEW back \in ControllerReturns(t)
  PROVE  LET w == thread[t]
             c == w.ref IN
         /\ w.kind = "fix" => (back.r.cand.retained => back.disk.record)
         /\ w.kind \in Actions =>
              /\ ~disk[c].record => back.r.cand.role \notin {"reviewed", "apply_refused"}
              /\ disk[c].record /\ ~back.disk.record =>
                   w.kind \in {"apply", "discard"} /\ back.r.outcome = "pass"
<1> DEFINE w == thread[t]
           c == w.ref
<1>1. CASE w.kind = "fix"
  <2>1. back \in ChangeReturns(t, w.done) \cup NoChangePrepared \cup StoppedChange
    BY <1>1 DEF ControllerReturns, Checks
  <2>2. CASE back \in {ChangeReturn(t, w.done, x[1], x[2]) : x \in ChangeProofs(w.done) \X BOOLEAN}
    <3>1. PICK p \in ChangeProofs(w.done), kept \in BOOLEAN : back = ChangeReturn(t, w.done, p, kept)
      BY <2>2
    <3> QED
      BY <1>1, <3>1 DEF ChangeReturn, Returns, Result, Prepared, Retain, Actions
  <2>3. CASE back = Returns(Result("blocked", Attempted(w.done), "policy_denied", Prepared(t, FALSE), "none"),
                            Nothing)
    BY <1>1, <2>3 DEF Returns, Result, Prepared, Actions
  <2>4. ASSUME NEW o, NEW reason, NEW d, back = Returns(Result(o, FALSE, reason, NoCandidate, "none"), d)
        PROVE  ~back.r.cand.retained
    BY <2>4 DEF Returns, Result, NoCandidate
  <2>5. CASE back \in NoChangePrepared \cup StoppedChange
    <3>1. ~back.r.cand.retained
      BY <2>4, <2>5 DEF NoChangePrepared, StoppedChange
    <3> QED
      BY <1>1, <3>1 DEF Actions
  <2> QED
    BY <2>1, <2>2, <2>3, <2>5 DEF ChangeReturns
<1>2. CASE w.kind \in Actions
  <2>1. back \in ActionReturns(w.kind, c)
    BY <1>2 DEF ControllerReturns, Checks, Actions
  <2>2. w.kind # "fix"
    BY <1>2 DEF Actions
  <2>3. ASSUME NEW role, NEW d PROVE /\ Done(role, c, d).disk = d
                                     /\ Done(role, c, d).r.cand.role = role
                                     /\ Done(role, c, d).r.outcome = "pass"
    BY DEF Done, Returns, Owned, Acted, Result
  <2>4. ASSUME NEW role, NEW o, NEW reason PROVE /\ NotDone(role, c, o, reason).disk = disk[c]
                                                 /\ NotDone(role, c, o, reason).r.cand.role = "none"
    BY DEF NotDone, Returns, Acted, Result, NoCandidate
  <2>5. \A d \in Denied(c) : d.disk = disk[c] /\ d.r.cand.role = "none"
    BY DEF Denied, Returns, Result, NoCandidate
  <2>6. \A o, reason : ImportRefused(c, o, reason).disk = disk[c]
    BY DEF ImportRefused, Returns
  <2>7. disk[c] \in Disks
    <3>1. c \in Tasks
      BY <1>2, StepStart DEF HubTypeOK, Candidates
    <3> QED
      BY <3>1, StepStart
  <2>8. CASE w.kind = "diff"
    BY <2>1, <2>2, <2>3, <2>4, <2>8 DEF ActionReturns, DiffCandidate, Loads
  <2>9. CASE w.kind = "apply"
    <3>1. back \in ApplyCandidate(c)
      BY <2>1, <2>9 DEF ActionReturns
    <3>2. CASE ~Loads(c)
      BY <2>2, <2>5, <3>1, <3>2 DEF ApplyCandidate, Loads
    <3>3. CASE Loads(c)
      BY <2>2, <2>3, <2>6, <2>9, <3>1, <3>3 DEF ApplyCandidate, Loads
    <3> QED
      BY <3>2, <3>3
  <2>10. CASE w.kind = "undo"
    <3>1. [disk[c] EXCEPT !.applied = "no"].record = disk[c].record
      BY <2>7 DEF Disks
    <3> DEFINE put == [disk[c] EXCEPT !.applied = "no"]
    <3>2. \/ back = Done("undone", c, put)
          \/ back = NotDone("undone", c, "blocked", "invalid_input")
          \/ back = NotDone("undone", c, "fail", "scope_changed")
          \/ back = NotDone("undone", c, "no_verdict", "cleanup_unknown")
      BY <2>1, <2>10 DEF ActionReturns, UndoCandidate
    <3> HIDE DEF put
    <3>3. CASE back = Done("undone", c, put)
      <4>1. back.disk = put /\ back.r.cand.role = "undone"
        BY <2>3, <3>3
      <4>2. put.record = disk[c].record
        BY <3>1 DEF put
      <4> QED
        BY <2>2, <4>1, <4>2
    <3>4. CASE back \in {NotDone("undone", c, "blocked", "invalid_input"),
                        NotDone("undone", c, "fail", "scope_changed"),
                        NotDone("undone", c, "no_verdict", "cleanup_unknown")}
      <4>1. back.disk = disk[c] /\ back.r.cand.role = "none"
        BY <2>4, <3>4
      <4> QED
        BY <2>2, <4>1
    <3> QED
      BY <3>2, <3>3, <3>4
  <2>11. CASE w.kind = "commit"
    <3> DEFINE made == [disk[c] EXCEPT !.applied = "committed"]
    <3>1. made.record = disk[c].record
      BY <2>7 DEF Disks
    <3>2. \/ back = Done("committed", c, made)
          \/ back = Returns(Result("no_verdict", TRUE, "verification_failed", NoCandidate, "none"), made)
          \/ \E o, reason : back = NotDone("committed", c, o, reason)
      BY <2>1, <2>11 DEF ActionReturns, CommitCandidate
    <3> HIDE DEF made
    <3>3. CASE back = Returns(Result("no_verdict", TRUE, "verification_failed", NoCandidate, "none"), made)
      BY <2>2, <3>1, <3>3 DEF Returns, Result, NoCandidate
    <3>4. CASE back = Done("committed", c, made)
      <4>1. back.disk = made /\ back.r.cand.role = "committed"
        BY <2>3, <3>4
      <4> QED
        BY <2>2, <3>1, <4>1
    <3>5. CASE \E o, reason : back = NotDone("committed", c, o, reason)
      <4>1. back.disk = disk[c] /\ back.r.cand.role = "none"
        BY <2>4, <3>5
      <4> QED
        BY <2>2, <4>1
    <3> QED
      BY <3>2, <3>3, <3>4, <3>5
  <2>12. CASE w.kind = "discard"
    <3>1. back \in DiscardCandidate(c)
      BY <2>1, <2>12 DEF ActionReturns
    <3>2. CASE ~Loads(c)
      <4>1. back.disk = disk[c] /\ back.r.cand.role = "none"
        BY <2>5, <3>1, <3>2 DEF DiscardCandidate
      <4> QED
        BY <2>2, <3>2, <4>1 DEF Loads
    <3>3. CASE Loads(c)
      <4>1. PICK d : back = Done("discarded", c, d)
        BY <3>1, <3>3 DEF DiscardCandidate
      <4>2. back.r.outcome = "pass"
        BY <2>3, <4>1
      <4> QED
        BY <2>2, <2>12, <3>3, <4>2 DEF Loads
    <3> QED
      BY <3>2, <3>3
  <2> QED
    BY <1>2, <2>8, <2>9, <2>10, <2>11, <2>12 DEF Actions
<1> QED
  BY <1>1, <1>2

\* A return uses a candidate up, or leaves it to whoever did.
LEMMA ReturnSpends ==
  ASSUME HubInv, HubInv', SpentInv, NEW t \in Tasks, Return(t)
  PROVE  SpentInv'
<1>1. PICK back \in ControllerReturns(t) :
        /\ At(t, [thread[t] EXCEPT !.pc = "returned", !.r = back.r])
        /\ disk' = [disk EXCEPT ![IF thread[t].kind \in Actions THEN thread[t].ref ELSE t] = back.disk]
  BY ReturnMoves
<1>2. /\ thread \in Seq(Threads) /\ Tasks = 1 .. Len(thread) /\ thread[t] \in Threads
      /\ disk \in Seq(Disks) /\ Tasks = 1 .. Len(disk) /\ t \in Nat
  BY StepStart DEF HubInv, HubTypeOK, Tasks
<1> DEFINE w == [thread[t] EXCEPT !.pc = "returned", !.r = back.r]
           b == IF thread[t].kind \in Actions THEN thread[t].ref ELSE t
<1>3. /\ w.pc = "returned" /\ w.r = back.r /\ w.kind = thread[t].kind /\ w.ref = thread[t].ref
  BY <1>2 DEF Threads
<1>4. b \in Tasks /\ disk' = [disk EXCEPT ![b] = back.disk]
  BY <1>1, <1>2 DEF HubInv, HubTypeOK, Candidates
<1> HIDE DEF w
<1>5. \A u \in Tasks : thread'[u] = IF u = t THEN w ELSE thread[u]
  BY <1>1, <1>2 DEF At, w
<1>6. \A u \in Tasks : disk'[u] = IF u = b THEN back.disk ELSE disk[u]
  BY <1>2, <1>4
<1>7. /\ thread[t].pc = "running" /\ row' = row /\ res' = res
      /\ Tasks' = Tasks /\ thread[t].r.outcome # "pass"
  BY DEF Return, Tasks, SpentInv, ReturnsOnce, Early
<1>8. Candidates' = Candidates /\ Candidates \subseteq Tasks
  BY <1>3, <1>5, <1>7 DEF Candidates
<1>9. ReturnsOnce'
  BY <1>3, <1>5, <1>7 DEF SpentInv, ReturnsOnce, Early
<1>10. RetainsOwn'
  <2>1. t \notin DOMAIN res
    BY <1>7 DEF SpentInv, RetainsOwn, Early
  <2>2. DOMAIN res \subseteq Tasks
    BY StepStart DEF HubInv, HubTypeOK
  <2> QED
    BY <1>5, <1>7, <2>1, <2>2 DEF SpentInv, RetainsOwn
<1>11. ASSUME NEW c \in Candidates, ~disk'[c].record, thread'[c].r.cand.retained
       PROVE  \E u \in Tasks : SpentBy(c, u)'
  <2> DEFINE acts == thread[t].kind \in Actions /\ thread[t].ref = c
  <2>1. c # t
    <3>1. ASSUME c = t PROVE FALSE
      <4>1. thread[t].kind = "fix" /\ b = t
        BY <3>1 DEF Candidates, Actions
      <4> QED
        BY <1>3, <1>5, <1>6, <1>11, <3>1, <4>1, ReturnEffect
    <3> QED
      BY <3>1
  <2>2. thread[c].r.cand.retained
    BY <1>5, <1>8, <1>11, <2>1
  <2>3. ASSUME disk[c].record PROVE \E u \in Tasks : SpentBy(c, u)'
    <3>1. b = c
      BY <1>6, <1>8, <1>11, <2>3
    <3>2. thread[t].kind \in Actions /\ thread[t].ref = c /\ ~back.disk.record
      BY <1>6, <1>8, <1>11, <2>1, <3>1
    <3>3. thread[t].kind \in {"apply", "discard"} /\ back.r.outcome = "pass"
      BY <2>3, <3>2, ReturnEffect
    <3>4. ASSUME NEW v \in Tasks, v > t, thread[v].kind \in Actions PROVE FALSE
      <4>1. Open(t)
        BY <1>7 DEF Open
      <4>2. thread[v].kind # "watch" /\ thread[t].kind # "watch" /\ v \in Nat
        BY <3>2, <3>4, StepStart DEF Actions
      <4> QED
        BY <1>2, <3>4, <4>1, <4>2 DEF HubInv, OneTurn
    <3>5. SpentBy(c, t)'
      BY <1>3, <1>5, <1>7, <3>2, <3>3, <3>4 DEF SpentBy
    <3> QED
      BY <3>5
  <2>4. ASSUME ~disk[c].record PROVE \E u \in Tasks : SpentBy(c, u)'
    <3>1. PICK u \in Tasks : SpentBy(c, u)
      BY <2>2, <2>4 DEF SpentInv, RemovedInv
    <3>2. u # t /\ thread'[u] = thread[u]
      BY <1>5, <1>7, <3>1 DEF SpentBy
    <3>3. ASSUME thread[t].kind \in Actions, thread[t].ref = c
          PROVE  back.r.cand.role \notin {"reviewed", "apply_refused"}
      BY <2>4, <3>3, ReturnEffect
    <3>4. SpentBy(c, u)'
      BY <1>3, <1>5, <1>7, <3>1, <3>2, <3>3 DEF SpentBy
    <3> QED
      BY <3>4
  <2> QED
    BY <2>3, <2>4
<1>12. RemovedInv'
  BY <1>7, <1>8, <1>11 DEF RemovedInv
<1> QED
  BY <1>9, <1>10, <1>12 DEF SpentInv

\* What is admitted has returned nothing yet.
LEMMA AdmitSpends ==
  ASSUME HubInv, HubInv', SpentInv, NEW kind, NEW c, Admit(kind, c)
  PROVE  SpentInv'
<1> DEFINE n == Len(row)
           t == n + 1
           w == [kind |-> kind, ref |-> c, pc |-> "admitted", done |-> <<>>,
                 call |-> "none", stop |-> FALSE, r |-> Plain("none"), end |-> "-"]
<1>1. /\ row' = Append(row, [state |-> "admitted", terminal |-> FALSE])
      /\ thread' = Append(thread, w) /\ disk' = Append(disk, Nothing) /\ res' = res
  BY DEF Admit
<1>2. /\ row \in Seq(Rows) /\ thread \in Seq(Threads) /\ disk \in Seq(Disks) /\ n \in Nat
      /\ Len(thread) = n /\ Len(disk) = n /\ Tasks = 1 .. n /\ DOMAIN res \subseteq Tasks
  BY LenProperties DEF HubInv, HubTypeOK, Tasks
<1>3. w.pc = "admitted" /\ w.r.outcome = "no_verdict" /\ w.r.cand = NoCandidate
  BY DEF Plain, Result
<1> HIDE DEF w
<1>4. Tasks' = Tasks \cup {t} /\ t \notin Tasks
  BY <1>1, <1>2 DEF Tasks
<1>5. thread'[t] = w /\ \A u \in Tasks : thread'[u] = thread[u] /\ disk'[u] = disk[u]
  BY <1>1, <1>2
<1> HIDE DEF t
<1>6. ReturnsOnce'
  BY <1>3, <1>4, <1>5 DEF SpentInv, ReturnsOnce
<1>7. RetainsOwn'
  BY <1>1, <1>2, <1>5 DEF SpentInv, RetainsOwn
<1>8. RemovedInv'
  <2>1. ASSUME NEW d \in Candidates', ~disk'[d].record, thread'[d].r.cand.retained
        PROVE  \E u \in Tasks' : SpentBy(d, u)'
    <3>1. d \in Tasks' /\ thread'[d].kind = "fix" /\ d # t
      BY <1>3, <1>5, <2>1 DEF Candidates, NoCandidate
    <3>2. d \in Candidates /\ ~disk[d].record /\ thread[d].r.cand.retained
      BY <1>4, <1>5, <2>1, <3>1 DEF Candidates
    <3>3. PICK u \in Tasks : SpentBy(d, u)
      BY <3>2 DEF SpentInv, RemovedInv
    <3>4. w.r.cand.role \notin {"reviewed", "apply_refused"}
      BY <1>3 DEF NoCandidate
    <3>5. SpentBy(d, u)'
      BY <1>4, <1>5, <3>3, <3>4 DEF SpentBy
    <3> QED
      BY <1>4, <3>5
  <2> QED
    BY <2>1 DEF RemovedInv
<1> QED
  BY <1>6, <1>7, <1>8 DEF SpentInv

\* A candidate that is gone was used up by a task that passed.
LEMMA SpentInvariant == HubSpec => []SpentInv
<1>1. HubInit => SpentInv
  <2>1. ASSUME HubInit PROVE SpentInv
    <3>1. Tasks = {} /\ DOMAIN res = {}
      BY <2>1 DEF HubInit, Tasks
    <3> QED
      BY <3>1 DEF SpentInv, ReturnsOnce, RetainsOwn, RemovedInv, Candidates
  <2> QED
    BY <2>1
<1>2. ASSUME HubInv, HubInv', SpentInv, [HubNext]_hubVars PROVE SpentInv'
  <2>1. CASE UNCHANGED hubVars
    <3>1. /\ row' = row /\ res' = res /\ thread' = thread /\ disk' = disk
          /\ Tasks' = Tasks /\ DOMAIN res \subseteq Tasks
      BY <1>2, <2>1 DEF hubVars, Tasks, HubInv, HubTypeOK
    <3>2. Keeping
      BY <3>1 DEF Keeping
    <3> QED
      BY <1>2, <3>2, KeepingStep
  <2>2. CASE AdmitTask \/ AdmitAction
    BY <1>2, <2>2, AdmitSpends DEF AdmitTask, AdmitAction
  <2>3. CASE Reopen
    BY <1>2, <2>3, ReopenKeeps, KeepingStep
  <2>4. ASSUME NEW t \in Tasks, Return(t) PROVE SpentInv'
    BY <1>2, <2>4, ReturnSpends
  <2>5. ASSUME NEW t \in Tasks,
               \/ StartTask(t)
               \/ StartTool(t)
               \/ \E out \in Outs : FinishTool(t, out)
               \/ CommitResult(t)
               \/ CloseStopped(t)
               \/ Fault(t)
               \/ Release(t)
               \/ LoseWrite(t)
               \/ RequestCancel(t)
        PROVE  SpentInv'
    BY <1>2, <2>5, TaskKeeps, KeepingStep
  <2> QED
    BY <1>2, <2>1, <2>2, <2>3, <2>4, <2>5 DEF HubNext
<1> QED
  BY <1>1, <1>2, HubInvariant, PTL DEF HubSpec

-----------------------------------------------------------------------------
(* What the readers make of a told stream.                                 *)

\* The card of t, with what its retained result adds.
Card(t) == HydrateResult(t, ProjectTask(stream, t))

LEMMA ListedIs ==
  ASSUME HubTypeOK, NEW f, DOMAIN f = Tasks, NEW t \in Tasks
  PROVE  Listed(f)[t] = f[t]
<1>1. Len(row) \in Nat /\ Tasks = 1 .. Len(row)
  BY LenProperties DEF HubTypeOK, Tasks
<1> DEFINE n == Len(row)
<1>2. Listed(f) = [i \in 1 .. (n - 1 + 1) |-> f[i + 1 - 1]]
  BY <1>1 DEF Listed, SubSeq
<1>3. n - 1 + 1 = n /\ t \in 1 .. n /\ t + 1 - 1 = t
  BY <1>1
<1> HIDE DEF n
<1> QED
  BY <1>2, <1>3

LEMMA CardsAre ==
  ASSUME HubTypeOK, NEW t \in Tasks
  PROVE  Cards[t] = Card(t)
<1> DEFINE f == [u \in Tasks |-> ProjectTask(stream, u)]
           g == [u \in Tasks |-> HydrateResult(u, ProjectTasks[u])]
<1>1. ProjectTasks[t] = ProjectTask(stream, t)
  <2>1. ProjectTasks = Listed(f) /\ DOMAIN f = Tasks /\ f[t] = ProjectTask(stream, t)
    BY DEF ProjectTasks
  <2> HIDE DEF f
  <2> QED
    BY <2>1, ListedIs
<1>2. Cards[t] = g[t]
  <2>1. Cards = Listed(g) /\ DOMAIN g = Tasks
    BY DEF Cards
  <2> HIDE DEF g
  <2> QED
    BY <2>1, ListedIs
<1> QED
  BY <1>1, <1>2 DEF Card

\* The card of a task, and the retained result of a closed one.
LEMMA CardFacts ==
  ASSUME HubInv, NEW t \in Tasks
  PROVE  LET c == Cards[t]  k == ProjectTask(stream, t) IN
    /\ c.seen /\ ~c.bad /\ c.state = row[t].state /\ c.last = k.last
    /\ c.check = (IF thread[t].kind \in Checks THEN thread[t].kind ELSE "none")
    /\ (c.closed # 0) = row[t].terminal
    /\ ~row[t].terminal => c.verdict = "none" /\ ~c.ran /\ ~c.verified /\ c.cand = NoCandidate
    /\ row[t].terminal =>
         /\ t \in DOMAIN res /\ ResultForTask(t)
         /\ res[t].state = c.state /\ res[t].verdict = c.verdict
         /\ c.ran = res[t].ran /\ c.verified = res[t].verified /\ c.cand = res[t].cand
<1> DEFINE k == ProjectTask(stream, t)  c == Cards[t]
<1>1. HubTypeOK /\ StreamInv /\ row[t] \in Rows /\ DOMAIN res = {u \in Tasks : row[u].terminal}
      /\ res \in [DOMAIN res -> Artifacts]
  BY StepStart
<1>2. c = HydrateResult(t, k)
  BY <1>1, CardsAre DEF Card
<1>3. CardShows(stream, t, thread[t], row[t]) /\ k \in CardSet
  BY <1>1 DEF StreamInv, Told, CardShows
<1>4. /\ k.seen /\ ~k.bad /\ k.state = row[t].state
      /\ k.check = (IF thread[t].kind \in Checks THEN thread[t].kind ELSE "none")
      /\ ~row[t].terminal => k.closed = 0 /\ k.verdict = "none"
      /\ ~k.ran /\ ~k.verified /\ k.cand = NoCandidate
  BY <1>3 DEF CardShows
<1> HIDE DEF k, c
<1>5. CASE ~row[t].terminal
  <2>1. c = k
    BY <1>2, <1>4, <1>5 DEF HydrateResult
  <2>2. (c.closed # 0) = row[t].terminal
    BY <1>1, <1>4, <1>5, <2>1 DEF Rows
  <2> QED
    BY <1>4, <1>5, <2>1, <2>2 DEF c, k
<1>6. CASE row[t].terminal
  <2>1. t \in DOMAIN res
    BY <1>1, <1>6
  <2>2. /\ k.closed = k.last /\ k.last > 1
        /\ k.verdict = res[t].verdict /\ k.state = res[t].state
        /\ res[t].task = t /\ CandidateOk(res[t].cand)
    BY <1>1, <2>1 DEF StreamInv, ToldClosed, Readable, k
  <2>3. ResultForTask(t)
    BY <1>4, <1>6, <2>1, <2>2 DEF ResultForTask, ArtifactBytes, ParseResult
  <2>4. k.closed # 0 /\ k.last \in Nat
    BY <1>3, <2>2 DEF CardSet
  <2>5. c = [k EXCEPT !.ran = res[t].ran, !.verified = res[t].verified, !.cand = res[t].cand]
    BY <1>2, <2>2, <2>3, <2>4 DEF HydrateResult
  <2>6. /\ c.seen = k.seen /\ c.bad = k.bad /\ c.state = k.state /\ c.last = k.last
        /\ c.check = k.check /\ c.closed = k.closed /\ c.verdict = k.verdict
        /\ c.ran = res[t].ran /\ c.verified = res[t].verified /\ c.cand = res[t].cand
    BY <1>3, <2>5 DEF CardSet
  <2>7. (c.closed # 0) = row[t].terminal
    BY <1>1, <1>6, <2>4, <2>6 DEF Rows
  <2>8. /\ c.seen /\ ~c.bad /\ c.state = row[t].state /\ c.last = k.last
        /\ c.check = (IF thread[t].kind \in Checks THEN thread[t].kind ELSE "none")
        /\ res[t].state = c.state /\ res[t].verdict = c.verdict
    BY <1>4, <2>2, <2>6
  <2> QED
    BY <1>6, <2>1, <2>3, <2>6, <2>7, <2>8 DEF c, k
<1> QED
  BY <1>5, <1>6

(* Every task of the stream projects without an error and every closed     *)
(* task's retained result is read back and agrees with its card.           *)
THEOREM StreamReadableHolds == HubSpec => []StreamReadable
<1>1. HubInv => StreamReadable
  <2>1. ASSUME HubInv, NEW t \in Tasks
        PROVE  /\ Cards[t].seen /\ ~Cards[t].bad
               /\ (Cards[t].closed # 0) = row[t].terminal
               /\ row[t].terminal =>
                    /\ ResultForTask(t)
                    /\ res[t].state = Cards[t].state /\ res[t].verdict = Cards[t].verdict
    <3> QED
      BY <2>1, CardFacts
  <2> QED
    BY <2>1 DEF StreamReadable
<1> QED
  BY <1>1, HubInvariant, PTL

\* There is a highest of the numbers up to m that are taken.
LEMMA HighestExists ==
  ASSUME NEW m \in Nat, NEW T \in SUBSET (0 .. m), T # {}
  PROVE  \E x \in T : \A y \in T : y <= x
<1> DEFINE S == {n \in Nat : \A U \in SUBSET (0 .. n) : U # {} => \E x \in U : \A y \in U : y <= x}
<1>1. 0 \in S
  <2>1. ASSUME NEW U \in SUBSET (0 .. 0), U # {} PROVE \E x \in U : \A y \in U : y <= x
    <3>1. PICK x \in U : TRUE
      BY <2>1
    <3>2. \A y \in U : y = 0
      OBVIOUS
    <3> QED
      BY <3>1, <3>2
  <2> QED
    BY <2>1
<1>2. ASSUME NEW n \in S PROVE n + 1 \in S
  <2>1. n \in Nat
    OBVIOUS
  <2>2. ASSUME NEW U \in SUBSET (0 .. n + 1), U # {} PROVE \E x \in U : \A y \in U : y <= x
    <3>1. CASE n + 1 \in U
      <4>1. \A y \in U : y <= n + 1
        BY <2>1
      <4> QED
        BY <3>1, <4>1
    <3>2. CASE n + 1 \notin U
      <4>1. U \in SUBSET (0 .. n)
        BY <2>1, <3>2
      <4> QED
        BY <1>2, <2>2, <4>1
    <3> QED
      BY <3>1, <3>2
  <2> QED
    BY <2>1, <2>2
<1>3. S = Nat
  <2> HIDE DEF S
  <2>1. S \in SUBSET Nat
    BY DEF S
  <2> QED
    BY <1>1, <1>2, <2>1, AllNumbers
<1> QED
  BY <1>3

\* The newest of some tasks is the one that was told of last.
LEMMA NewestIs ==
  ASSUME HubInv, NEW ts \in SUBSET Tasks, ts # {}
  PROVE  /\ Newest(Cards, ts) \in ts
         /\ \A u \in ts : Cards[u].last <= Cards[Newest(Cards, ts)].last
<1> DEFINE T == {Cards[u].last : u \in ts}
<1>1. HubTypeOK /\ StreamInv /\ Len(stream) \in Nat
  BY LenProperties DEF HubInv, HubTypeOK
<1>2. \A u \in Tasks : Cards[u].last \in 0 .. Len(stream)
  <2>1. ASSUME NEW u \in Tasks PROVE Cards[u].last \in 0 .. Len(stream)
    <3>1. Cards[u].last = ProjectTask(stream, u).last
      BY CardFacts
    <3>2. ProjectTask(stream, u).last \in 1 .. Len(stream)
      BY <1>1, LastTyped
    <3> QED
      BY <1>1, <3>1, <3>2
  <2> QED
    BY <2>1
<1>3. T \in SUBSET (0 .. Len(stream)) /\ T # {}
  BY <1>2
<1>4. PICK x \in T : \A y \in T : y <= x
  BY <1>1, <1>3, HighestExists
<1>5. \E t \in ts : \A u \in ts : Cards[u].last <= Cards[t].last
  BY <1>4
<1> QED
  BY <1>5 DEF Newest

\* No two tasks were told of last at the same place.
LEMMA LastsDiffer ==
  ASSUME HubInv, NEW t \in Tasks, NEW u \in Tasks, Cards[t].last = Cards[u].last
  PROVE  t = u
<1>1. StreamInv
  BY DEF HubInv
<1>2. /\ stream[ProjectTask(stream, t).last].task = t
      /\ stream[ProjectTask(stream, u).last].task = u
  BY <1>1, LastTyped
<1>3. Cards[t].last = ProjectTask(stream, t).last /\ Cards[u].last = ProjectTask(stream, u).last
  BY CardFacts
<1> QED
  BY <1>2, <1>3

\* What a task with a candidate is, and what is on record of it.
LEMMA CandidateOf ==
  ASSUME HubInv, NEW t \in Tasks, Cards[t].cand.role # "none"
  PROVE  /\ row[t].terminal /\ t \in DOMAIN res /\ res[t].cand = Cards[t].cand
         /\ Cards[t].verdict = res[t].verdict
         /\ Cards[t].verdict = Projection(res[t].outcome).verdict
         /\ Fits(t, thread[t], res[t])
         /\ thread[t].kind \in Actions \cup {"fix"}
<1>1. row[t].terminal
  BY CardFacts, FactsTyped
<1>2. t \in DOMAIN res /\ res[t].cand = Cards[t].cand /\ res[t].verdict = Cards[t].verdict
  BY <1>1, CardFacts
<1>3. Fits(t, thread[t], res[t]) /\ Readable(t, res[t])
  BY <1>2 DEF HubInv, StreamInv
<1>4. thread[t].kind \in AllKinds
  BY StepStart DEF Threads
<1>5. thread[t].kind \notin Checks \cup {"ask", "watch"}
  <2>1. res[t].cand # NoCandidate
    BY <1>2, FactsTyped
  <2> QED
    BY <1>3, <2>1 DEF Fits
<1>6. res[t].verdict = Projection(res[t].outcome).verdict
  <2> DEFINE p == Projection(res[t].outcome)
  <2>1. [state |-> res[t].state, verdict |-> res[t].verdict] = p
    BY <1>3 DEF Readable
  <2>2. res[t].verdict = p.verdict
    <3> HIDE DEF p
    <3> QED
      BY <2>1
  <2> QED
    BY <2>2
<1> QED
  BY <1>1, <1>2, <1>3, <1>4, <1>5, <1>6 DEF AllKinds

\* Only a passing result is verified.
LEMMA VerifiedPasses ==
  ASSUME NEW o \in Outcomes
  PROVE  /\ Projection(o).verdict = "VERIFIED" <=> o = "pass"
         /\ Projection(o).verdict = "FAILED" <=> o = "fail"
  BY DEF Outcomes, Projection

\* A candidate Attention calls ready can be applied.
LEMMA ReadyHasApply ==
  ASSUME HubInv, NEW t \in Tasks, AttentionItem(Cards, t) = "ready"
  PROVE  "apply" \in Offers(Cards, Cards[t].cand.id)
<1> DEFINE c == Cards[t].cand.id
<1>1. /\ ~Hidden(Cards, t) /\ CandidateNotApplied(Cards[t]) /\ RetainedResultVerified(Cards[t])
  BY DEF AttentionItem
<1>2. Cards[t].cand.role = "prepared"
  BY <1>1 DEF CandidateNotApplied
<1>3. t \in WithCandidate(Cards, c) /\ t \in StateTasks(Cards, c)
  BY <1>2 DEF WithCandidate, StateTasks
<1>4. t = Newest(Cards, StateTasks(Cards, c))
  <2>1. t \in {Newest(Cards, ts) : ts \in {StateTasks(Cards, c)} \ {{}}}
    BY <1>1, <1>2 DEF Hidden
  <2> QED
    BY <2>1
<1> DEFINE m == CandidateTask(Cards, c)
<1>5. m \in WithCandidate(Cards, c) /\ \A u \in WithCandidate(Cards, c) : Cards[u].last <= Cards[m].last
  <2>1. WithCandidate(Cards, c) \in SUBSET Tasks
    BY DEF WithCandidate
  <2> QED
    BY <1>3, <2>1, NewestIs DEF CandidateTask
<1>6. \A u \in StateTasks(Cards, c) : Cards[u].last <= Cards[t].last
  <2>1. StateTasks(Cards, c) \in SUBSET Tasks
    BY DEF StateTasks, WithCandidate
  <2> QED
    BY <1>3, <1>4, <2>1, NewestIs
<1> HIDE DEF m, c
<1>7. Cards[m].cand.role \in {"prepared", "reviewed"}
  <2>1. CASE m \in StateTasks(Cards, c)
    <3>1. Cards[m].last <= Cards[t].last /\ Cards[t].last <= Cards[m].last /\ m \in Tasks
      BY <1>3, <1>5, <1>6, <2>1 DEF WithCandidate
    <3>2. Cards[m].last \in Nat /\ Cards[t].last \in Nat
      <4>1. /\ Cards[m].last = ProjectTask(stream, m).last
            /\ Cards[t].last = ProjectTask(stream, t).last
        BY <3>1, CardFacts
      <4>2. /\ ProjectTask(stream, m).last \in 1 .. Len(stream)
            /\ ProjectTask(stream, t).last \in 1 .. Len(stream)
        BY <3>1, LastTyped DEF HubInv
      <4> QED
        BY <4>1, <4>2
    <3>3. m = t
      BY <3>1, <3>2, LastsDiffer
    <3> QED
      BY <1>2, <3>3
  <2>2. CASE m \notin StateTasks(Cards, c)
    BY <1>5, <2>2 DEF StateTasks
  <2> QED
    BY <2>1, <2>2
<1>8. ApplyEnabled(Cards, c)
  BY <1>1, <1>3, <1>7 DEF ApplyEnabled, m
<1> QED
  BY <1>8 DEF Offers, c

\* An action that was VERIFIED counts for its candidate, in its own role.
LEMMA ActionPassed ==
  ASSUME HubInv, NEW t \in Tasks, thread[t].kind \in Actions, Cards[t].verdict = "VERIFIED"
  PROVE  /\ Cards[t].verified /\ Cards[t].cand.role = RoleOf(thread[t].kind)
         /\ t \in WithCandidate(Cards, thread[t].ref)
<1>1. row[t].terminal
  BY CardFacts
<1>2. /\ t \in DOMAIN res /\ res[t].verdict = "VERIFIED" /\ Cards[t].cand = res[t].cand
      /\ Cards[t].verified = res[t].verified
  BY <1>1, CardFacts
<1>3. res[t].outcome = "pass" /\ res[t].verified /\ Fits(t, thread[t], res[t])
  <2>1. Readable(t, res[t]) /\ Fits(t, thread[t], res[t]) /\ res[t] \in Artifacts
    BY <1>2, StepStart DEF HubInv, StreamInv
  <2>2. res[t].outcome \in Outcomes
    BY <2>1 DEF Artifacts
  <2> DEFINE p == Projection(res[t].outcome)
  <2>3. [state |-> res[t].state, verdict |-> res[t].verdict] = p
        /\ (res[t].outcome = "pass") = res[t].verified
    BY <2>1 DEF Readable
  <2>4. p.verdict = "VERIFIED" <=> res[t].outcome = "pass"
    BY <2>2, VerifiedPasses
  <2> HIDE DEF p
  <2>5. p.verdict = "VERIFIED"
    BY <1>2, <2>3
  <2> QED
    BY <2>1, <2>3, <2>4, <2>5
<1>4. res[t].cand.role = RoleOf(thread[t].kind)
  BY <1>3 DEF Fits
<1>5. RoleOf(thread[t].kind) # "none"
  BY DEF RoleOf, Actions
<1>6. res[t].cand.id = thread[t].ref
  <2>1. res[t].cand # NoCandidate
    BY <1>4, <1>5, FactsTyped
  <2> QED
    BY <1>3, <2>1 DEF Fits
<1> QED
  BY <1>2, <1>3, <1>4, <1>5, <1>6 DEF WithCandidate

\* The task a candidate's state is read from was admitted after all others that count.
LEMMA LatestIsLast ==
  ASSUME HubInv, NEW c, NEW t \in WithCandidate(Cards, c)
  PROVE  CandidateTask(Cards, c) \in WithCandidate(Cards, c) /\ t <= CandidateTask(Cards, c)
<1> DEFINE m == CandidateTask(Cards, c)
<1>1. m \in WithCandidate(Cards, c) /\ Cards[t].last <= Cards[m].last
  <2>1. WithCandidate(Cards, c) \in SUBSET Tasks
    BY DEF WithCandidate
  <2> QED
    BY <2>1, NewestIs DEF CandidateTask
<1> HIDE DEF m
<1>2. m \in Tasks /\ t \in Tasks /\ Cards[m].cand.role # "none" /\ Cards[t].cand.role # "none"
  BY <1>1 DEF WithCandidate
<1>3. m \in Nat /\ t \in Nat
  BY <1>2, StepStart
<1>4. ASSUME m < t PROVE FALSE
  <2>1. /\ m \in DOMAIN res /\ res[m].cand.role # "none"
        /\ thread[m].kind # "watch" /\ thread[t].kind # "watch"
    BY <1>2, CandidateOf DEF Actions
  <2>2. ProjectTask(stream, m).last < ProjectTask(stream, t).last
    BY <1>2, <1>4, <2>1 DEF HubInv, OneTurn
  <2>3. /\ Cards[m].last = ProjectTask(stream, m).last
        /\ Cards[t].last = ProjectTask(stream, t).last
    BY <1>2, CardFacts
  <2>4. /\ ProjectTask(stream, m).last \in 1 .. Len(stream)
        /\ ProjectTask(stream, t).last \in 1 .. Len(stream)
    BY <1>2, LastTyped DEF HubInv
  <2> QED
    BY <1>1, <2>2, <2>3, <2>4
<1> QED
  BY <1>1, <1>3, <1>4 DEF m

\* A task that counts for a candidate prepared it, passed as an action on it or was refused.
LEMMA CountsAs ==
  ASSUME HubInv, NEW c, NEW t \in WithCandidate(Cards, c)
  PROVE  \/ thread[t].kind = "fix" /\ t = c /\ Cards[t].cand.role = "prepared"
         \/ /\ thread[t].kind \in Actions /\ thread[t].ref = c
            /\ \/ Cards[t].verdict = "VERIFIED" /\ Cards[t].cand.role = RoleOf(thread[t].kind)
               \/ Cards[t].cand.role = "apply_refused"
<1>1. t \in Tasks /\ Cards[t].cand.role # "none" /\ Cards[t].cand.id = c
  BY DEF WithCandidate
<1>2. /\ res[t].cand = Cards[t].cand
      /\ Cards[t].verdict = Projection(res[t].outcome).verdict
      /\ Fits(t, thread[t], res[t])
      /\ thread[t].kind \in Actions \cup {"fix"}
  BY <1>1, CandidateOf
<1>3. res[t].cand # NoCandidate
  BY <1>1, <1>2, FactsTyped
<1>4. CASE thread[t].kind = "fix"
  BY <1>1, <1>2, <1>3, <1>4 DEF Fits
<1>5. CASE thread[t].kind \in Actions
  <2>1. /\ thread[t].ref = c
        /\ res[t].outcome = "pass" \/ Cards[t].cand.role = "apply_refused"
        /\ res[t].outcome = "pass" => Cards[t].cand.role = RoleOf(thread[t].kind)
    BY <1>1, <1>2, <1>3, <1>5 DEF Fits
  <2>2. res[t].outcome = "pass" => Cards[t].verdict = "VERIFIED"
    BY <1>2, VerifiedPasses DEF Outcomes
  <2> QED
    BY <1>5, <2>1, <2>2
<1> QED
  BY <1>2, <1>4, <1>5

\* An apply that was VERIFIED keeps its offers.
LEMMA AppliedHasUndo ==
  ASSUME HubInv, NEW t \in Tasks, thread[t].kind = "apply", Cards[t].verdict = "VERIFIED",
         \A u \in Tasks : u > t /\ thread[u].ref = thread[t].ref =>
           Cards[u].verdict # "VERIFIED" /\ Cards[u].cand.role # "apply_refused"
  PROVE  {"undo", "commit"} \subseteq Offers(Cards, thread[t].ref)
<1> DEFINE c == thread[t].ref
           m == CandidateTask(Cards, c)
<1>1. /\ Cards[t].verified /\ Cards[t].cand.role = "applied" /\ t \in WithCandidate(Cards, c)
      /\ thread[t].kind \in Actions
  BY ActionPassed DEF Actions, RoleOf
<1>2. m \in WithCandidate(Cards, c) /\ t <= m
  BY <1>1, LatestIsLast
<1> HIDE DEF m
<1>3. m \in Tasks /\ m \in Nat /\ t \in Nat
  BY <1>2, StepStart DEF WithCandidate
<1>4. c < t
  BY <1>1, StepStart DEF StepOk
<1>5. m = t
  <2>1. c \in Nat
    BY <1>1, StepStart DEF Threads
  <2>2. CASE thread[m].kind = "fix" /\ m = c
    BY <1>2, <1>3, <1>4, <2>1, <2>2
  <2>3. CASE thread[m].ref = c /\ (Cards[m].verdict = "VERIFIED" \/ Cards[m].cand.role = "apply_refused")
    BY <1>2, <1>3, <2>3
  <2> QED
    BY <1>2, <2>2, <2>3, CountsAs
<1>6. UndoEnabled(Cards, c)
  BY <1>1, <1>5 DEF UndoEnabled, RetainedResultVerified, m
<1> QED
  BY <1>6 DEF Offers

\* What was undone or committed is not offered for it until it is applied again.
LEMMA UndoneHasNone ==
  ASSUME HubInv, NEW t \in Tasks, thread[t].kind \in {"undo", "commit"},
         Cards[t].verdict = "VERIFIED",
         \A u \in Tasks : u > t /\ thread[u].kind = "apply" /\ thread[u].ref = thread[t].ref =>
           Cards[u].verdict # "VERIFIED"
  PROVE  Offers(Cards, thread[t].ref) \cap {"undo", "commit"} = {}
<1> DEFINE c == thread[t].ref
           m == CandidateTask(Cards, c)
<1>1. t \in WithCandidate(Cards, c)
  BY ActionPassed DEF Actions
<1>2. m \in WithCandidate(Cards, c) /\ t <= m
  BY <1>1, LatestIsLast
<1> HIDE DEF m
<1>3. m \in Tasks /\ m \in Nat /\ t \in Nat
  BY <1>2, StepStart DEF WithCandidate
<1>4. ASSUME UndoEnabled(Cards, c) PROVE FALSE
  <2>1. Cards[m].cand.role = "applied" /\ Cards[m].verdict = "VERIFIED"
    BY <1>4 DEF UndoEnabled, RetainedResultVerified, m
  <2>2. thread[m].kind = "apply" /\ thread[m].ref = c
    BY <1>2, <2>1, CountsAs DEF RoleOf, Actions
  <2> QED
    BY <1>2, <1>3, <2>1, <2>2
<1> QED
  BY <1>4 DEF Offers

\* Apply is offered of a candidate whose record is gone only after a lost success.
LEMMA GoneHasNone ==
  ASSUME HubInv, SpentInv, NEW c \in Candidates, "apply" \in Offers(Cards, c), ~disk[c].record
  PROVE  \E u \in Tasks : /\ thread[u].kind \in {"apply", "discard"} /\ thread[u].ref = c
                          /\ thread[u].r.outcome = "pass" /\ Cards[u].verdict # "VERIFIED"
<1> DEFINE m == CandidateTask(Cards, c)
<1>1. ApplyEnabled(Cards, c)
  BY DEF Offers
<1>2. PICK p \in WithCandidate(Cards, c) : CandidateNotApplied(Cards[p])
  BY <1>1 DEF ApplyEnabled
<1>3. Cards[m].cand.role \in {"prepared", "reviewed", "apply_refused"}
  BY <1>1 DEF ApplyEnabled
<1>4. \A t \in WithCandidate(Cards, c) : Cards[t].cand = thread[t].r.cand
  <2>1. ASSUME NEW t \in WithCandidate(Cards, c) PROVE Cards[t].cand = thread[t].r.cand
    <3>1. t \in Tasks /\ Cards[t].cand.role # "none"
      BY DEF WithCandidate
    <3>2. t \in DOMAIN res /\ res[t].cand = Cards[t].cand
      BY <3>1, CandidateOf
    <3> QED
      BY <3>1, <3>2 DEF SpentInv, RetainsOwn
  <2> QED
    BY <2>1
<1>5. thread[c].r.cand.retained
  <2>1. Cards[p].cand.role = "prepared" /\ Cards[p].cand.retained
    BY <1>2 DEF CandidateNotApplied
  <2>2. p = c
    BY <2>1, CountsAs DEF RoleOf, Actions
  <2> QED
    BY <1>4, <2>1, <2>2
<1>6. PICK u \in Tasks : SpentBy(c, u)
  BY <1>5 DEF SpentInv, RemovedInv
<1>7. /\ thread[u].kind \in {"apply", "discard"} /\ thread[u].kind \in Actions
      /\ thread[u].ref = c /\ thread[u].r.outcome = "pass" /\ u \in Nat /\ c < u
  BY <1>6, StepStart DEF SpentBy, Actions, StepOk
<1>8. ASSUME Cards[u].verdict = "VERIFIED" PROVE FALSE
  <2>1. u \in WithCandidate(Cards, c) /\ Cards[u].cand.role \in {"applied", "discarded"}
    BY <1>7, <1>8, ActionPassed DEF RoleOf
  <2>2. m \in WithCandidate(Cards, c) /\ u <= m
    BY <2>1, LatestIsLast
  <2> HIDE DEF m
  <2>3. m \in Tasks /\ m \in Nat /\ m # u /\ c \in Nat
    BY <1>3, <2>1, <2>2, StepStart DEF WithCandidate, Candidates
  <2>4. thread[m].kind \in Actions /\ thread[m].ref = c /\ Cards[m].cand.role # "prepared"
    <3>1. ~(thread[m].kind = "fix" /\ m = c)
      BY <1>7, <2>2, <2>3
    <3> QED
      BY <2>2, <3>1, CountsAs DEF RoleOf, Actions
  <2>5. Cards[m].cand.role \notin {"reviewed", "apply_refused"}
    BY <1>4, <1>6, <1>7, <2>2, <2>3, <2>4 DEF SpentBy
  <2> QED
    BY <1>3, <2>4, <2>5
<1> QED
  BY <1>7, <1>8

(* Attention and the buttons agree, no offer is lost to an action that did *)
(* not succeed, and none is made of what was used up.                      *)
THEOREM OffersAgreeHolds == HubSpec => []OffersAgree
<1>1. HubInv => ReadyIsOffered(Cards)
  <2>1. ASSUME HubInv, NEW t \in RenderAttention(Cards), AttentionItem(Cards, t) = "ready"
        PROVE  "apply" \in Offers(Cards, Cards[t].cand.id)
    <3>1. t \in Tasks
      BY DEF RenderAttention
    <3> QED
      BY <2>1, <3>1, ReadyHasApply
  <2> QED
    BY <2>1 DEF ReadyIsOffered
<1>2. HubInv => AppliedIsOffered(Cards)
  BY AppliedHasUndo DEF AppliedIsOffered
<1>3. HubInv => UndoneIsSpent(Cards)
  BY UndoneHasNone DEF UndoneIsSpent
<1>4. HubInv /\ SpentInv => GoneIsSpent(Cards)
  BY GoneHasNone DEF GoneIsSpent
<1>5. HubInv /\ SpentInv => OffersAgree
  BY <1>1, <1>2, <1>3, <1>4 DEF OffersAgree
<1> QED
  BY <1>5, HubInvariant, SpentInvariant, PTL

\* What the history tells of a task.
LEMMA HistoryOf ==
  ASSUME HubInv, NEW t \in Tasks
  PROVE  /\ AdmittedAs(t) = thread[t].kind
         /\ ~row[t].terminal => Events(t, "task.verdict") = {}
         /\ row[t].terminal => /\ Events(t, "task.verdict") = {Cards[t].last - 1}
                               /\ stream[Cards[t].last - 1].verdict = res[t].verdict
                               /\ VerdictSequence(t) = Cards[t].last - 1
<1> DEFINE k == ProjectTask(stream, t)
<1>1. /\ StreamInv /\ Told(stream, t, thread[t], row[t])
      /\ DOMAIN res = {u \in Tasks : row[u].terminal} /\ Len(stream) \in Nat
  BY StepStart, LenProperties
<1>2. AdmittedAs(t) = thread[t].kind
  <2>1. /\ \E n \in 1 .. Len(stream) : stream[n].task = t /\ stream[n].kind = "task.admitted"
        /\ \A n \in 1 .. Len(stream) :
             stream[n].task = t /\ stream[n].kind = "task.admitted" => stream[n].what = thread[t].kind
    BY <1>1 DEF Told, StepsOnRecord
  <2>2. Events(t, "task.admitted") # {}
    BY <2>1 DEF Events
  <2>3. \A n \in Events(t, "task.admitted") : stream[n].what = thread[t].kind
    BY <2>1 DEF Events
  <2> QED
    BY <2>2, <2>3 DEF AdmittedAs
<1>3. ASSUME ~row[t].terminal PROVE Events(t, "task.verdict") = {}
  <2>1. VerdictAt(stream, t, 0)
    BY <1>1, <1>3 DEF Told
  <2> QED
    BY <1>1, <2>1 DEF VerdictAt, Events
<1>4. ASSUME row[t].terminal
      PROVE  /\ Events(t, "task.verdict") = {Cards[t].last - 1}
             /\ stream[Cards[t].last - 1].verdict = res[t].verdict
             /\ VerdictSequence(t) = Cards[t].last - 1
  <2>1. t \in DOMAIN res
    BY <1>1, <1>4
  <2>2. /\ k.last > 1 /\ VerdictAt(stream, t, k.last - 1)
        /\ stream[k.last - 1].verdict = res[t].verdict
    BY <1>1, <2>1 DEF StreamInv, ToldClosed
  <2>3. k.last \in 1 .. Len(stream) /\ Cards[t].last = k.last
    BY <1>1, LastTyped, CardFacts
  <2> DEFINE n == k.last - 1
  <2>4. n \in 1 .. Len(stream) /\ n <= n
    BY <1>1, <2>2, <2>3
  <2>5. VerdictAt(stream, t, n)
    BY <2>2
  <2> HIDE DEF n
  <2>6. Events(t, "task.verdict") = {n}
    BY <2>4, <2>5 DEF VerdictAt, Events
  <2>7. VerdictSequence(t) = n
    BY <2>4, <2>6 DEF VerdictSequence
  <2> QED
    BY <2>2, <2>3, <2>6, <2>7 DEF n
<1> QED
  BY <1>2, <1>3, <1>4

\* The failed tasks, and the checks that ran, as the router finds them.
LEMMA FailedIs ==
  ASSUME HubInv, NEW t \in Tasks
  PROVE  t \in FailureCandidates <=>
           thread[t].kind # "watch" /\ row[t].terminal /\ Cards[t].verdict = "FAILED"
<1>1. AdmittedAs(t) = thread[t].kind
  BY HistoryOf
<1>2. CASE ~row[t].terminal
  <2>1. Events(t, "task.verdict") = {}
    BY <1>2, HistoryOf
  <2> QED
    BY <1>2, <2>1 DEF FailureCandidates
<1>3. CASE row[t].terminal
  <2>1. /\ Events(t, "task.verdict") = {Cards[t].last - 1}
        /\ stream[Cards[t].last - 1].verdict = res[t].verdict /\ res[t].verdict = Cards[t].verdict
    BY <1>3, HistoryOf, CardFacts
  <2> QED
    BY <1>1, <1>3, <2>1 DEF FailureCandidates
<1> QED
  BY <1>2, <1>3

LEMMA RanIs ==
  ASSUME HubInv, NEW t \in Tasks
  PROVE  /\ t \in ExecutedCheckRuns <=> ExecutedCheck(Cards[t])
         /\ t \in ExecutedCheckRuns =>
              /\ thread[t].kind \in Checks /\ row[t].terminal
              /\ ExecutedCheckRun(t, VerdictSequence(t))
                   = [check |-> Cards[t].check, sequence |-> Cards[t].last - 1]
<1> DEFINE c == Cards[t]
<1>1. AdmittedAs(t) = thread[t].kind
  BY HistoryOf
<1>2. /\ c.check = (IF thread[t].kind \in Checks THEN thread[t].kind ELSE "none")
      /\ (c.closed # 0) = row[t].terminal
  BY CardFacts
<1>3. thread[t].kind \in Checks <=> c.check # "none"
  BY <1>2 DEF Checks
<1>4. CASE ~row[t].terminal
  <2>1. Events(t, "task.verdict") = {}
    BY <1>4, HistoryOf
  <2>2. t \notin ExecutedCheckRuns
    BY <2>1 DEF ExecutedCheckRuns
  <2>3. ~ExecutedCheck(c)
    BY <1>2, <1>4 DEF ExecutedCheck
  <2> QED
    BY <2>2, <2>3
<1>5. CASE row[t].terminal
  <2>1. /\ Events(t, "task.verdict") # {} /\ VerdictSequence(t) = c.last - 1
        /\ ResultForTask(t) /\ res[t].verdict = c.verdict /\ res[t].ran = c.ran
    BY <1>5, HistoryOf, CardFacts
  <2> HIDE DEF c
  <2>2. t \in ExecutedCheckRuns <=> ExecutedCheck(c)
    BY <1>1, <1>2, <1>3, <1>5, <2>1 DEF ExecutedCheckRuns, ExecutedCheck
  <2>3. t \in ExecutedCheckRuns => thread[t].kind \in Checks
    BY <1>1 DEF ExecutedCheckRuns
  <2>4. ExecutedCheckRun(t, VerdictSequence(t)) = [check |-> thread[t].kind, sequence |-> c.last - 1]
    BY <1>1, <2>1 DEF ExecutedCheckRun
  <2>5. thread[t].kind \in Checks => c.check = thread[t].kind
    BY <1>2
  <2> QED
    BY <1>5, <2>2, <2>3, <2>4, <2>5 DEF c
<1> QED
  BY <1>4, <1>5

\* The Hub and the router see the same checks replaced by later ones.
LEMMA SupersededAlike ==
  ASSUME HubInv, NEW t \in Tasks, t \in ExecutedCheckRuns
  PROVE  SupersededCheck(Cards, t) <=>
           CheckRunIsSuperseded({ExecutedCheckRun(u, VerdictSequence(u)) : u \in ExecutedCheckRuns},
                                ExecutedCheckRun(t, VerdictSequence(t)))
<1> DEFINE later(u) == Cards[u].last > Cards[t].last /\ Cards[u].check = Cards[t].check
<1>1. ExecutedCheckRuns \subseteq Tasks
  BY DEF ExecutedCheckRuns
<1>2. ExecutedCheckRuns = {v \in Tasks : ExecutedCheck(Cards[v])}
  <2>1. \A v \in Tasks : v \in ExecutedCheckRuns <=> ExecutedCheck(Cards[v])
    BY RanIs
  <2> QED
    BY <1>1, <2>1
<1>3. \A u \in ExecutedCheckRuns :
        ExecutedCheckRun(u, VerdictSequence(u))
          = [check |-> Cards[u].check, sequence |-> Cards[u].last - 1]
  BY <1>1, RanIs
<1>4. \A u \in Tasks : Cards[u].last \in Nat
  <2>1. ASSUME NEW u \in Tasks PROVE Cards[u].last \in Nat
    <3>1. Cards[u].last = ProjectTask(stream, u).last
      BY CardFacts
    <3>2. ProjectTask(stream, u).last \in 1 .. Len(stream)
      BY LastTyped DEF HubInv
    <3> QED
      BY <3>1, <3>2
  <2> QED
    BY <2>1
<1>5. SupersededCheck(Cards, t) <=> \E u \in ExecutedCheckRuns : later(u)
  <2> DEFINE run(u) == CheckRun(Cards[u])
  <2>1. \A u : run(u).sequence = Cards[u].last /\ run(u).check = Cards[u].check
    BY DEF CheckRun
  <2>2. ExecutedCheck(Cards[t])
    BY <1>2
  <2>3. SupersededCheck(Cards, t) <=>
          \E u \in ExecutedCheckRuns :
            run(u).sequence > run(t).sequence /\ run(u).check = run(t).check
    BY <1>2, <2>2 DEF SupersededCheck, CheckRunIsSuperseded
  <2> HIDE DEF run
  <2> QED
    BY <2>1, <2>3
<1>6. CheckRunIsSuperseded({ExecutedCheckRun(u, VerdictSequence(u)) : u \in ExecutedCheckRuns},
                           ExecutedCheckRun(t, VerdictSequence(t)))
        <=> \E u \in ExecutedCheckRuns : later(u)
  <2> DEFINE run(u) == ExecutedCheckRun(u, VerdictSequence(u))
  <2>1. CheckRunIsSuperseded({run(u) : u \in ExecutedCheckRuns}, run(t)) <=>
          \E u \in ExecutedCheckRuns : run(u).sequence > run(t).sequence /\ run(u).check = run(t).check
    BY DEF CheckRunIsSuperseded
  <2>2. \A u \in ExecutedCheckRuns : run(u).sequence = Cards[u].last - 1 /\ run(u).check = Cards[u].check
    BY <1>3
  <2> HIDE DEF run
  <2>3. \A u \in ExecutedCheckRuns :
          (run(u).sequence > run(t).sequence /\ run(u).check = run(t).check) <=> later(u)
    BY <1>1, <1>4, <2>2
  <2> QED
    BY <2>1, <2>3 DEF run
<1> QED
  BY <1>5, <1>6

\* The kind of failure the router finds is that of the step the check failed in.
LEMMA FailureKindIs ==
  ASSUME HubInv, NEW t \in Tasks
  PROVE  /\ FailureKind(t) \in {"none", "build", "test"}
         /\ FailureKind(t) # "none" <=> LastOut(thread[t].done) = "fail"
         /\ FailureKind(t) # "none" =>
              (FailureKind(t) = "build" <=> FailingStep(thread[t].done) = "build")
<1> DEFINE failed == {n \in Events(t, "tool.finished") : stream[n].out = "fail"}
           done == thread[t].done
           n == CHOOSE i \in failed : \A j \in failed : j <= i
<1>1. Told(stream, t, thread[t], row[t]) /\ Len(stream) \in Nat
  BY StepStart, LenProperties
<1>2. /\ \A i \in failed : LastOut(done) = "fail" /\ stream[i].tool = Last(done).tool
      /\ LastOut(done) = "fail" => failed # {}
  BY <1>1 DEF Told, StepsOnRecord, Events
<1>3. failed \in SUBSET (0 .. Len(stream))
  BY <1>1 DEF Events
<1>4. FailureKind(t) = IF failed = {} THEN "none"
                       ELSE IF stream[n].tool = "build_target" THEN "build" ELSE "test"
  BY DEF FailureKind
<1> HIDE DEF failed, done
<1>5. CASE failed = {}
  BY <1>2, <1>4, <1>5 DEF done
<1>6. CASE failed # {}
  <2>1. \E i \in failed : \A j \in failed : j <= i
    BY <1>1, <1>3, <1>6, HighestExists
  <2>2. n \in failed
    BY <2>1
  <2> HIDE DEF n
  <2>3. LastOut(done) = "fail" /\ stream[n].tool = Last(done).tool
    BY <1>2, <2>2
  <2>4. FailingStep(done) = IF Last(done).tool = "build_target" THEN "build" ELSE "tests"
    BY <2>3 DEF FailingStep
  <2> QED
    BY <1>4, <1>6, <2>3, <2>4 DEF done
<1> QED
  BY <1>5, <1>6

\* A check the Hub shows as failed.
LEMMA FailedCheck ==
  ASSUME HubInv, NEW t \in Tasks, thread[t].kind \in Checks, row[t].terminal,
         Cards[t].verdict = "FAILED"
  PROVE  /\ Cards[t].cand.role = "none" /\ t \in DOMAIN res
         /\ Cards[t].ran => LastOut(thread[t].done) = "fail"
         /\ res[t].facts # "none" => LastOut(thread[t].done) = "fail"
                                     /\ res[t].facts = FailingStep(thread[t].done)
<1>1. /\ t \in DOMAIN res /\ res[t].verdict = "FAILED" /\ Cards[t].cand = res[t].cand
      /\ Cards[t].ran = res[t].ran
  BY CardFacts
<1>2. Readable(t, res[t]) /\ Fits(t, thread[t], res[t]) /\ res[t] \in Artifacts
  BY <1>1, StepStart DEF HubInv, StreamInv
<1>3. res[t].outcome = "fail"
  <2> DEFINE p == Projection(res[t].outcome)
  <2>1. [state |-> res[t].state, verdict |-> res[t].verdict] = p
    BY <1>2 DEF Readable
  <2>2. p.verdict = "FAILED" <=> res[t].outcome = "fail"
    BY <1>2, VerifiedPasses DEF Artifacts
  <2> HIDE DEF p
  <2>3. p.verdict = "FAILED"
    BY <1>1, <2>1
  <2> QED
    BY <2>2, <2>3
<1>4. /\ res[t].cand = NoCandidate
      /\ res[t].facts # "none" => res[t].facts = FailingStep(thread[t].done)
      /\ res[t].ran => LastOut(thread[t].done) = "fail"
  BY <1>2, <1>3 DEF Fits
<1>5. FailingStep(thread[t].done) # "none" => LastOut(thread[t].done) = "fail"
  BY DEF FailingStep
<1> QED
  BY <1>1, <1>4, <1>5, FactsTyped

\* The Hub's button and the router's answer for one check.
LEMMA FixHonouredFor ==
  ASSUME HubInv, NEW t \in Tasks, thread[t].kind \in Checks
  PROVE  /\ RouterFixes(t) => FixEnabled(Cards, t)
         /\ FixEnabled(Cards, t) /\ Cards[t].ran => RouterFixes(t)
         /\ RouterFixes(t) /\ res[t].facts # "none" =>
              (res[t].facts = "build") = (FailureKind(t) = "build")
<1> DEFINE c == Cards[t]
           superseded == CheckRunIsSuperseded(
                           {ExecutedCheckRun(u, VerdictSequence(u)) : u \in ExecutedCheckRuns},
                           ExecutedCheckRun(t, VerdictSequence(t)))
<1>1. thread[t].kind # "watch" /\ AdmittedAs(t) = thread[t].kind
  BY HistoryOf DEF Checks
<1>2. t \in FailureCandidates <=> row[t].terminal /\ c.verdict = "FAILED"
  BY <1>1, FailedIs
<1>3. FailureObservations = FailureCandidates
  <2>1. \A u \in FailureCandidates : row[u].terminal /\ ResultForTask(u)
    <3>1. FailureCandidates \subseteq Tasks
      BY DEF FailureCandidates
    <3> QED
      BY <3>1, FailedIs, CardFacts
  <2> QED
    BY <2>1 DEF FailureObservations
<1>4. c.check # "none" /\ ((c.closed # 0) = row[t].terminal)
  <2>1. c.check = thread[t].kind /\ ((c.closed # 0) = row[t].terminal)
    BY CardFacts
  <2> QED
    BY <2>1 DEF Checks
<1>5. t \in FixableFailures <=> t \in FailureCandidates /\ t \in ExecutedCheckRuns /\ ~superseded
  BY <1>1 DEF FixableFailures
<1>6. t \in ExecutedCheckRuns => (SupersededCheck(Cards, t) <=> superseded)
  BY SupersededAlike
<1>7. t \in ExecutedCheckRuns <=> ExecutedCheck(c)
  BY RanIs
<1> HIDE DEF superseded
<1>8. ASSUME RouterFixes(t)
      PROVE  /\ FixEnabled(Cards, t)
             /\ res[t].facts # "none" => (res[t].facts = "build") = (FailureKind(t) = "build")
  <2>1. /\ row[t].terminal /\ c.verdict = "FAILED" /\ t \in ExecutedCheckRuns /\ ~superseded
        /\ FailureKind(t) # "none"
    BY <1>2, <1>5, <1>8 DEF RouterFixes
  <2>2. /\ c.cand.role = "none"
        /\ res[t].facts # "none" => res[t].facts = FailingStep(thread[t].done)
    BY <2>1, FailedCheck
  <2>3. FixEnabled(Cards, t)
    BY <1>4, <1>6, <2>1, <2>2 DEF FixEnabled, CheckFailure
  <2>4. FailureKind(t) = "build" <=> FailingStep(thread[t].done) = "build"
    BY <2>1, FailureKindIs
  <2> QED
    BY <2>2, <2>3, <2>4
<1>9. ASSUME FixEnabled(Cards, t), c.ran PROVE RouterFixes(t)
  <2>1. c.closed # 0 /\ c.verdict = "FAILED" /\ ~SupersededCheck(Cards, t)
    BY <1>9 DEF FixEnabled, CheckFailure
  <2>2. row[t].terminal
    BY <1>4, <2>1
  <2>3. t \in ExecutedCheckRuns
    BY <1>4, <1>7, <1>9, <2>1 DEF ExecutedCheck
  <2>4. LastOut(thread[t].done) = "fail"
    BY <1>9, <2>1, <2>2, FailedCheck
  <2>5. FailureKind(t) # "none"
    BY <2>4, FailureKindIs
  <2> QED
    BY <1>2, <1>3, <1>5, <1>6, <2>1, <2>2, <2>3, <2>5 DEF RouterFixes
<1> QED
  BY <1>8, <1>9

(* The Hub's Fix button and the router agree on every configured check,    *)
(* and on the kind of repair it needs.                                     *)
THEOREM FixIsHonouredHolds == HubSpec => []FixIsHonoured
<1>1. HubInv => FixIsHonoured
  <2>1. ASSUME HubInv, NEW t \in Tasks, thread[t].kind \in Checks
        PROVE  /\ RouterFixes(t) => FixEnabled(Cards, t)
               /\ FixEnabled(Cards, t) /\ Cards[t].ran => RouterFixes(t)
               /\ RouterFixes(t) /\ res[t].facts # "none" =>
                    (res[t].facts = "build") = (FailureKind(t) = "build")
    BY <2>1, FixHonouredFor
  <2> QED
    BY <2>1 DEF FixIsHonoured
<1> QED
  BY <1>1, HubInvariant, PTL
=============================================================================
