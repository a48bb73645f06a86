---------------------- MODULE InferenceSchedulerProofs ----------------------
(***************************************************************************)
(* Proofs about InferenceScheduler for any requests, any queue capacity,   *)
(* any number of handler threads and generations of any length.            *)
(*                                                                         *)
(* A request that was submitted is in one place at a time: in the queue,   *)
(* with the worker, with shutdown or with its own cancellation.  Whoever   *)
(* has it concludes it, and nobody else can.                               *)
(***************************************************************************)
EXTENDS InferenceScheduler, SequenceTheorems, WellFoundedInduction, TLAPS

-----------------------------------------------------------------------------
(* The inductive invariant.                                                *)

\* The worker has a request, and has not given it back.
Busy == Working \cup {"finish", "clear"}

\* The worker's request is the active one.
WorkerInv ==
  /\ worker \in Busy => job \in Requests /\ running = job
  /\ worker \notin Busy => job = None
  /\ worker = "finish" => outcome \in Terminals

NoRepeat(s) == \A i, j \in 1 .. Len(s) : s[i] = s[j] => i = j

\* No request is queued or abandoned twice.
OnceInv == NoRepeat(queue) /\ NoRepeat(abandoned)

\* Nobody has concluded or counted the request.
Open(r) == ended[r] = 0 /\ counted[r] = 0 /\ r \notin dropped

\* A request in one place is in no other, and is concluded as far as that
\* place has got with it.
PlaceInv ==
  \A r \in Requests :
    /\ handler[r] = "new" =>
         /\ Open(r)
         /\ r \notin Range(queue) /\ r \notin Range(abandoned) /\ job # r
         /\ channel[r] = <<>>
    /\ r \in Range(queue) =>
         /\ Open(r)
         /\ channel[r] = <<>>
         /\ r \notin Range(abandoned) /\ job # r
         /\ handler[r] \in {"admission", "cancel", "erase"}
    /\ r \in Range(abandoned) =>
         /\ Open(r)
         /\ job # r
         /\ handler[r] \notin {"new", "tell"}
    /\ job = r =>
         /\ r \notin dropped
         /\ ended[r] = IF worker = "clear" THEN 1 ELSE 0
         /\ counted[r] = IF worker \in Working THEN 0 ELSE 1
         /\ handler[r] \notin {"new", "tell"}
    /\ handler[r] = "tell" =>
         /\ ended[r] = 0 /\ counted[r] = 1 /\ r \notin dropped
         /\ r \notin Range(queue) /\ r \notin Range(abandoned) /\ job # r
    /\ r \in dropped => ended[r] = 1 /\ counted[r] = 0

\* A generation is only cut short for a cancelled request, and then nobody
\* says that it finished.
AnswerInv ==
  \A r \in Requests :
    /\ r \in short => cancel[r]
    /\ job = r /\ worker = "finish" /\ outcome = "finished" => r \notin short
    /\ "finished" \in Range(channel[r]) => ended[r] = 1 /\ r \notin short
    /\ answer[r] = "ok" => ended[r] = 1 /\ r \notin short

\* How far stop() has got.
StopInv ==
  /\ stopper \in {"http", "down"} => worker \in {"never", "exited"}
  /\ stopper = "down" => \A r \in Requests : handler[r] \in Resting

IInv ==
  /\ TypeOK /\ WorkerInv /\ OnceInv /\ PlaceInv /\ ConcludedOnce /\ AnswerInv
  /\ StopInv

-----------------------------------------------------------------------------
(* Sequences and what is in them.                                          *)

\* A new element is added to what a sequence holds.
LEMMA AppendRange ==
  ASSUME NEW S, NEW s \in Seq(S), NEW e \in S
  PROVE  /\ Append(s, e) \in Seq(S)
         /\ Len(Append(s, e)) = Len(s) + 1
         /\ Range(Append(s, e)) = Range(s) \cup {e}
         /\ NoRepeat(s) /\ e \notin Range(s) => NoRepeat(Append(s, e))
<1>1. /\ Append(s, e) \in Seq(S) /\ Len(Append(s, e)) = Len(s) + 1
      /\ \A i \in 1 .. Len(s) : Append(s, e)[i] = s[i]
      /\ Append(s, e)[Len(s) + 1] = e
      /\ Len(s) \in Nat /\ DOMAIN s = 1 .. Len(s)
      /\ DOMAIN Append(s, e) = 1 .. (Len(s) + 1)
  BY AppendProperties, LenProperties
<1>2. \A i \in 1 .. (Len(s) + 1) : i \in 1 .. Len(s) \/ i = Len(s) + 1
  BY <1>1
<1>3. Range(Append(s, e)) = Range(s) \cup {e}
  BY <1>1, <1>2 DEF Range
<1>4. NoRepeat(s) /\ e \notin Range(s) => NoRepeat(Append(s, e))
  BY <1>1, <1>2 DEF NoRepeat, Range
<1> QED
  BY <1>1, <1>3, <1>4

\* Taking the first element takes its only occurrence.
LEMMA TailRange ==
  ASSUME NEW S, NEW s \in Seq(S), s # <<>>
  PROVE  /\ Head(s) \in S /\ Head(s) \in Range(s)
         /\ Tail(s) \in Seq(S)
         /\ Len(Tail(s)) <= Len(s)
         /\ Range(Tail(s)) \subseteq Range(s)
         /\ NoRepeat(s) => NoRepeat(Tail(s)) /\ Head(s) \notin Range(Tail(s))
<1>1. /\ Len(s) \in Nat \ {0} /\ DOMAIN s = 1 .. Len(s) /\ Head(s) = s[1]
      /\ Head(s) \in S /\ Tail(s) \in Seq(S) /\ Len(Tail(s)) = Len(s) - 1
      /\ \A i \in 1 .. Len(Tail(s)) : Tail(s)[i] = s[i + 1]
      /\ DOMAIN Tail(s) = 1 .. Len(Tail(s))
  BY HeadTailProperties, LenProperties, EmptySeq
<1>2. Range(Tail(s)) \subseteq Range(s) /\ Head(s) \in Range(s)
  BY <1>1 DEF Range
<1>3. NoRepeat(s) => NoRepeat(Tail(s)) /\ Head(s) \notin Range(Tail(s))
  BY <1>1 DEF NoRepeat, Range
<1> QED
  BY <1>1, <1>2, <1>3

\* What is left of a sequence was in it.
LEMMA RestRange ==
  ASSUME NEW S, NEW s \in Seq(S), NEW n \in Nat
  PROVE  /\ SubSeq(s, n + 1, Len(s)) \in Seq(S)
         /\ Range(SubSeq(s, n + 1, Len(s))) \subseteq Range(s)
<1>1. Len(s) \in Nat /\ DOMAIN s = 1 .. Len(s)
  BY LenProperties
<1>2. \A i \in (n + 1) .. Len(s) : s[i] \in S
  BY <1>1, ElementOfSeq
<1> DEFINE t == SubSeq(s, n + 1, Len(s))
<1>3. /\ t \in Seq(S) /\ Len(t) = IF n + 1 <= Len(s) THEN Len(s) - n ELSE 0
      /\ \A i \in 1 .. (Len(s) - n) : t[i] = s[n + i]
  <2>1. n + 1 \in Int /\ Len(s) \in Int  BY <1>1
  <2>2. /\ t \in Seq(S) /\ Len(t) = IF n + 1 <= Len(s) THEN Len(s) - (n + 1) + 1 ELSE 0
        /\ \A i \in 1 .. (Len(s) - (n + 1) + 1) : t[i] = s[n + 1 + i - 1]
    BY <1>2, <2>1, SubSeqProperties
  <2> QED  BY <1>1, <2>2
<1> HIDE DEF t
<1>4. DOMAIN t = 1 .. Len(t)
  BY <1>3, LenProperties
<1>5. Range(t) \subseteq Range(s)
  BY <1>1, <1>3, <1>4 DEF Range
<1> QED
  BY <1>3, <1>5 DEF t

\* Erasing a request takes its only occurrence and nothing else.
LEMMA EraseRange ==
  ASSUME NEW S, NEW s \in Seq(S), NoRepeat(s), NEW e \in Range(s)
  PROVE  /\ RemoveFirst(s, e) \in Seq(S)
         /\ Len(RemoveFirst(s, e)) <= Len(s)
         /\ NoRepeat(RemoveFirst(s, e))
         /\ Range(RemoveFirst(s, e)) \subseteq Range(s) \ {e}
<1>1. Len(s) \in Nat /\ DOMAIN s = 1 .. Len(s)
  BY LenProperties
<1>2. PICK k \in 1 .. Len(s) : s[k] = e
  BY <1>1 DEF Range
<1>3. {i \in 1 .. Len(s) : s[i] = e} = {k}
  BY <1>2 DEF NoRepeat
<1>4. Min({k}) = k
  BY <1>1, <1>2 DEF Min
<1>5. RemoveFirst(s, e) = SubSeq(s, 1, k - 1) \o SubSeq(s, k + 1, Len(s))
  BY <1>2, <1>3, <1>4 DEF RemoveFirst, RemoveAt, SelectInSeq
<1> DEFINE a == SubSeq(s, 1, k - 1)
           b == SubSeq(s, k + 1, Len(s))
           t == a \o b
<1>6. a \in Seq(S) /\ Len(a) = k - 1 /\ \A i \in 1 .. (k - 1) : a[i] = s[i]
  <2>1. \A i \in 1 .. (k - 1) : s[i] \in S  BY <1>1, <1>2, ElementOfSeq
  <2>2. 1 \in Int /\ k - 1 \in Int  BY <1>2
  <2>3. /\ a \in Seq(S) /\ Len(a) = IF 1 <= k - 1 THEN k - 1 - 1 + 1 ELSE 0
        /\ \A i \in 1 .. (k - 1 - 1 + 1) : a[i] = s[1 + i - 1]
    BY <2>1, <2>2, SubSeqProperties
  <2> QED  BY <1>1, <1>2, <2>3
<1>7. b \in Seq(S) /\ Len(b) = Len(s) - k /\ \A i \in 1 .. (Len(s) - k) : b[i] = s[k + i]
  <2>1. \A i \in (k + 1) .. Len(s) : s[i] \in S  BY <1>1, <1>2, ElementOfSeq
  <2>2. k + 1 \in Int /\ Len(s) \in Int  BY <1>1, <1>2
  <2>3. /\ b \in Seq(S) /\ Len(b) = IF k + 1 <= Len(s) THEN Len(s) - (k + 1) + 1 ELSE 0
        /\ \A i \in 1 .. (Len(s) - (k + 1) + 1) : b[i] = s[k + 1 + i - 1]
    BY <2>1, <2>2, SubSeqProperties
  <2> HIDE DEF b
  <2>4. Len(b) = Len(s) - k
    <3>0. k \in Nat /\ k <= Len(s)  BY <1>1, <1>2
    <3>1. CASE k + 1 <= Len(s)  BY <1>1, <2>3, <3>0, <3>1
    <3>2. CASE ~(k + 1 <= Len(s))
      <4>1. Len(b) = 0  BY <2>3, <3>2
      <4>2. \A m, n \in Nat : n <= m /\ ~(n + 1 <= m) => m - n = 0  OBVIOUS
      <4>3. Len(s) - k = 0  BY <1>1, <3>0, <3>2, <4>2
      <4> QED  BY <4>1, <4>3
    <3> QED  BY <3>1, <3>2
  <2>5. \A i \in 1 .. (Len(s) - k) :
          k + 1 + i - 1 = k + i /\ i \in 1 .. (Len(s) - (k + 1) + 1)
    BY <1>1, <1>2
  <2> QED  BY <2>3, <2>4, <2>5
<1> HIDE DEF a, b
<1>8. /\ t \in Seq(S) /\ Len(t) = Len(s) - 1
      /\ \A i \in 1 .. (Len(s) - 1) : t[i] = IF i < k THEN s[i] ELSE s[i + 1]
  <2>1. /\ t \in Seq(S) /\ Len(t) = Len(a) + Len(b)
        /\ \A i \in 1 .. (Len(a) + Len(b)) :
             t[i] = IF i <= Len(a) THEN a[i] ELSE b[i - Len(a)]
    BY <1>6, <1>7, ConcatProperties
  <2>2. \A i \in 1 .. (Len(s) - 1) : t[i] = IF i < k THEN s[i] ELSE s[i + 1]
    <3> SUFFICES ASSUME NEW i \in 1 .. (Len(s) - 1)
                 PROVE  t[i] = IF i < k THEN s[i] ELSE s[i + 1]
      OBVIOUS
    <3>1. i \in 1 .. (Len(a) + Len(b))  BY <1>1, <1>2, <1>6, <1>7
    <3>2. t[i] = IF i <= Len(a) THEN a[i] ELSE b[i - Len(a)]  BY <2>1, <3>1
    <3>3. CASE i < k
      <4>1. i \in 1 .. (k - 1) /\ i <= Len(a)  BY <1>2, <1>6, <3>3
      <4> QED  BY <1>6, <3>2, <3>3, <4>1
    <3>4. CASE ~(i < k)
      <4>1. i - Len(a) \in 1 .. (Len(s) - k) /\ ~(i <= Len(a))
        BY <1>1, <1>2, <1>6, <3>4
      <4>2. k + (i - Len(a)) = i + 1  BY <1>1, <1>2, <1>6
      <4> QED  BY <1>7, <3>2, <3>4, <4>1, <4>2
    <3> QED  BY <3>3, <3>4
  <2> QED  BY <1>1, <1>2, <1>6, <1>7, <2>1, <2>2
<1> HIDE DEF t
<1>9. DOMAIN t = 1 .. (Len(s) - 1)
  BY <1>8, LenProperties
<1>10. Range(t) \subseteq Range(s) \ {e}
  BY <1>1, <1>2, <1>8, <1>9, SMTT(20) DEF Range, NoRepeat
<1>11. NoRepeat(t)
  BY <1>1, <1>2, <1>8 DEF NoRepeat
<1>12. RemoveFirst(s, e) = t
  BY <1>5 DEF t, a, b
<1> QED
  BY <1>1, <1>8, <1>10, <1>11, <1>12

\* A pop takes a natural number of parts.
LEMMA MergedType ==
  ASSUME NEW S, NEW s \in Seq(S)
  PROVE  Merged(s) \in Nat
<1> DEFINE ends == {i \in 1 .. Len(s) : s[i] # "part"}
<1>1. Len(s) \in Nat
  BY LenProperties
<1>2. CASE ends = {}
  BY <1>1, <1>2 DEF Merged
<1>3. CASE ends # {}
  <2>1. ends \subseteq Nat
    BY <1>1
  <2>2. PICK x \in ends : \A y \in ends : ~(<<y, x>> \in OpToRel(<, Nat))
    <3> HIDE DEF ends
    <3> QED  BY <1>3, <2>1, NatLessThanWellFounded, WFMin
  <2>3. \A y \in ends : x <= y
    <3> SUFFICES ASSUME NEW y \in ends PROVE x <= y
      OBVIOUS
    <3>1. x \in Nat /\ y \in Nat  BY <2>1
    <3>2. <<y, x>> \in Nat \X Nat /\ <<y, x>>[1] = y /\ <<y, x>>[2] = x  BY <3>1
    <3>3. ~(y < x)  BY <2>2, <3>2 DEF OpToRel
    <3> QED  BY <3>1, <3>3
  <2>4. (CHOOSE i \in ends : \A j \in ends : i <= j) \in ends
    BY <2>3
  <2> QED
    BY <1>1, <1>3, <2>4 DEF Merged
<1> QED
  BY <1>2, <1>3

-----------------------------------------------------------------------------
(* The small steps.                                                        *)

Events == Terminals \cup {"admitted", "part"}

\* The empty sequence holds nothing.
LEMMA EmptyRange == Range(<<>>) = {} /\ NoRepeat(<<>>)
BY DEF Range, NoRepeat

\* A push adds its event to one channel, if to any, and counts a terminal one.
LEMMA PushFacts ==
  ASSUME TypeOK, NEW r \in Requests, NEW ev \in Events, Push(r, ev)
  PROVE  /\ channel' \in [Requests -> Seq(Events)]
         /\ ended' \in [Requests -> Nat]
         /\ \A q \in Requests :
              /\ ended'[q] = IF q = r /\ ev \in Terminals THEN ended[q] + 1 ELSE ended[q]
              /\ q # r => channel'[q] = channel[q]
              /\ Range(channel'[q]) \subseteq
                   IF q = r THEN Range(channel[q]) \cup {ev} ELSE Range(channel[q])
<1>1. channel \in [Requests -> Seq(Events)] /\ ended \in [Requests -> Nat]
  BY DEF TypeOK, Events
<1>2. ended' = [ended EXCEPT ![r] = IF ev \in Terminals THEN @ + 1 ELSE @]
  BY DEF Push
<1>3. channel' = [channel EXCEPT ![r] = IF Reading(r) THEN Append(channel[r], ev) ELSE <<>>]
  BY DEF Push
<1>4. ended' \in [Requests -> Nat]
  BY <1>1, <1>2
<1>5. \A q \in Requests :
        ended'[q] = IF q = r /\ ev \in Terminals THEN ended[q] + 1 ELSE ended[q]
  BY <1>1, <1>2
<1>6. channel[r] \in Seq(Events)
  BY <1>1
<1>7. /\ Append(channel[r], ev) \in Seq(Events)
      /\ Range(Append(channel[r], ev)) = Range(channel[r]) \cup {ev}
  BY <1>6, AppendRange
<1>8. <<>> \in Seq(Events) /\ Range(<<>>) = {}
  BY EmptySeq, EmptyRange
<1>9. channel' \in [Requests -> Seq(Events)]
  BY <1>1, <1>3, <1>7, <1>8
<1>10. \A q \in Requests :
         channel'[q] = IF q = r THEN IF Reading(r) THEN Append(channel[r], ev) ELSE <<>>
                       ELSE channel[q]
  BY <1>1, <1>3
<1>11. \A q \in Requests :
         Range(channel'[q]) \subseteq
           IF q = r THEN Range(channel[q]) \cup {ev} ELSE Range(channel[q])
  BY <1>7, <1>8, <1>10, Zenon
<1> QED
  BY <1>4, <1>5, <1>9, <1>10, <1>11

\* A handler that leaves empties its channel.
LEMMA EmptiedFacts ==
  ASSUME TypeOK, NEW r \in Requests, channel' = [channel EXCEPT ![r] = <<>>]
  PROVE  /\ channel' \in [Requests -> Seq(Events)]
         /\ \A q \in Requests :
              /\ channel'[q] = IF q = r THEN <<>> ELSE channel[q]
              /\ Range(channel'[q]) \subseteq Range(channel[q])
<1>1. channel \in [Requests -> Seq(Events)]
  BY DEF TypeOK, Events
<1>2. <<>> \in Seq(Events) /\ Range(<<>>) = {}
  BY EmptySeq, EmptyRange
<1>3. \A q \in Requests : channel'[q] = IF q = r THEN <<>> ELSE channel[q]
  BY <1>1
<1>4. channel' \in [Requests -> Seq(Events)]
  BY <1>1, <1>2
<1>5. \A q \in Requests : Range(channel'[q]) \subseteq Range(channel[q])
  BY <1>2, <1>3, Zenon
<1> QED
  BY <1>3, <1>4, <1>5

\* A pop takes events away.
LEMMA PopFacts ==
  ASSUME TypeOK, NEW r \in Requests, NEW n \in Nat, Pop(r, n)
  PROVE  /\ channel' \in [Requests -> Seq(Events)]
         /\ \A q \in Requests :
              /\ q # r => channel'[q] = channel[q]
              /\ Range(channel'[q]) \subseteq Range(channel[q])
<1> DEFINE rest == SubSeq(channel[r], n + 1, Len(channel[r]))
<1>1. channel \in [Requests -> Seq(Events)]
  BY DEF TypeOK, Events
<1>2. channel' = [channel EXCEPT ![r] = rest]
  BY DEF Pop
<1>3. channel[r] \in Seq(Events)
  BY <1>1
<1>4. rest \in Seq(Events) /\ Range(rest) \subseteq Range(channel[r])
  BY <1>3, RestRange
<1> HIDE DEF rest
<1>5. \A q \in Requests : channel'[q] = IF q = r THEN rest ELSE channel[q]
  BY <1>1, <1>2
<1>6. channel' \in [Requests -> Seq(Events)]
  BY <1>1, <1>2, <1>4
<1>7. \A q \in Requests : Range(channel'[q]) \subseteq Range(channel[q])
  BY <1>4, <1>5, Zenon
<1> QED
  BY <1>5, <1>6, <1>7

\* The first event of a channel, and how many a pop merges.
LEMMA HeadFacts ==
  ASSUME TypeOK, NEW r \in Requests, channel[r] # <<>>
  PROVE  /\ Head(channel[r]) \in Events
         /\ Head(channel[r]) \in Range(channel[r])
         /\ Merged(channel[r]) \in Nat
<1>1. channel[r] \in Seq(Events)
  BY DEF TypeOK, Events
<1> QED
  BY <1>1, TailRange, MergedType

\* The worker takes the only occurrence of a request.
LEMMA TakeFacts ==
  ASSUME TypeOK, OnceInv, queue # <<>>
  PROVE  /\ Head(queue) \in Requests /\ Head(queue) \in Range(queue)
         /\ Tail(queue) \in Seq(Requests) /\ Len(Tail(queue)) <= MaxQueued
         /\ Range(Tail(queue)) \subseteq Range(queue)
         /\ NoRepeat(Tail(queue)) /\ Head(queue) \notin Range(Tail(queue))
<1>1. queue \in Seq(Requests) /\ Len(queue) <= MaxQueued /\ NoRepeat(queue)
  BY DEF TypeOK, OnceInv
<1>2. /\ Head(queue) \in Requests /\ Head(queue) \in Range(queue)
      /\ Tail(queue) \in Seq(Requests) /\ Len(Tail(queue)) <= Len(queue)
      /\ Range(Tail(queue)) \subseteq Range(queue)
      /\ NoRepeat(Tail(queue)) /\ Head(queue) \notin Range(Tail(queue))
  BY <1>1, TailRange
<1>3. Len(queue) \in Nat /\ Len(Tail(queue)) \in Nat
  BY <1>1, <1>2, LenProperties
<1> QED
  BY <1>1, <1>2, <1>3, SchedulerAssumption

\* So does shutdown.
LEMMA AbandonFacts ==
  ASSUME TypeOK, OnceInv, abandoned # <<>>
  PROVE  /\ Head(abandoned) \in Requests /\ Head(abandoned) \in Range(abandoned)
         /\ Tail(abandoned) \in Seq(Requests)
         /\ Range(Tail(abandoned)) \subseteq Range(abandoned)
         /\ NoRepeat(Tail(abandoned)) /\ Head(abandoned) \notin Range(Tail(abandoned))
<1>1. abandoned \in Seq(Requests) /\ NoRepeat(abandoned)
  BY DEF TypeOK, OnceInv
<1> QED
  BY <1>1, TailRange

\* shutdown concludes one request and leaves the others alone.
LEMMA AbandonEffects ==
  ASSUME TypeOK, OnceInv, Abandon
  PROVE  LET a == Head(abandoned)
         IN  /\ a \in Requests /\ a \in Range(abandoned)
             /\ abandoned' \in Seq(Requests)
             /\ Range(abandoned') \subseteq Range(abandoned) /\ a \notin Range(abandoned')
             /\ channel' \in [Requests -> Seq(Events)] /\ ended' \in [Requests -> Nat]
             /\ \A q \in Requests :
                  /\ ended'[q] = IF q = a THEN ended[q] + 1 ELSE ended[q]
                  /\ q # a => channel'[q] = channel[q]
                  /\ Range(channel'[q]) \subseteq Range(channel[q]) \cup {"failed"}
             /\ cancel' \in [Requests -> BOOLEAN]
             /\ \A q \in Requests : cancel[q] => cancel'[q]
             /\ dropped' = dropped \cup {a}
<1> DEFINE a == Head(abandoned)
<1>1. /\ abandoned # <<>> /\ Push(a, "failed") /\ abandoned' = Tail(abandoned)
      /\ cancel' = [cancel EXCEPT ![a] = TRUE] /\ dropped' = dropped \cup {a}
  BY DEF Abandon
<1>2. /\ a \in Requests /\ a \in Range(abandoned) /\ abandoned' \in Seq(Requests)
      /\ Range(abandoned') \subseteq Range(abandoned) /\ a \notin Range(abandoned')
  BY <1>1, AbandonFacts
<1> HIDE DEF a
<1>3. "failed" \in Events /\ "failed" \in Terminals
  BY DEF Events, Terminals
<1>4. /\ channel' \in [Requests -> Seq(Events)] /\ ended' \in [Requests -> Nat]
      /\ \A q \in Requests :
           /\ ended'[q] = IF q = a THEN ended[q] + 1 ELSE ended[q]
           /\ q # a => channel'[q] = channel[q]
           /\ Range(channel'[q]) \subseteq Range(channel[q]) \cup {"failed"}
  BY <1>1, <1>2, <1>3, PushFacts, ZenonT(40)
<1>5. cancel \in [Requests -> BOOLEAN]
  BY DEF TypeOK
<1>6. cancel' \in [Requests -> BOOLEAN] /\ \A q \in Requests : cancel[q] => cancel'[q]
  BY <1>1, <1>2, <1>5
<1> QED
  BY <1>1, <1>2, <1>4, <1>6 DEF a

\* A submitted request is added to the queue.
LEMMA SubmitFacts ==
  ASSUME TypeOK, OnceInv, NEW r \in Requests, r \notin Range(queue), Len(queue) < MaxQueued
  PROVE  /\ Append(queue, r) \in Seq(Requests) /\ Len(Append(queue, r)) <= MaxQueued
         /\ Range(Append(queue, r)) = Range(queue) \cup {r}
         /\ NoRepeat(Append(queue, r))
<1>1. queue \in Seq(Requests) /\ NoRepeat(queue)
  BY DEF TypeOK, OnceInv
<1>2. Len(queue) \in Nat
  BY <1>1, LenProperties
<1>3. /\ Append(queue, r) \in Seq(Requests) /\ Len(Append(queue, r)) = Len(queue) + 1
      /\ Range(Append(queue, r)) = Range(queue) \cup {r}
      /\ NoRepeat(Append(queue, r))
  BY <1>1, AppendRange
<1> QED
  BY <1>2, <1>3, SchedulerAssumption

\* A cancelled request leaves the queue.
LEMMA EraseFacts ==
  ASSUME TypeOK, OnceInv, NEW r \in Requests
  PROVE  /\ RemoveFirst(queue, r) \in Seq(Requests)
         /\ Len(RemoveFirst(queue, r)) <= MaxQueued
         /\ NoRepeat(RemoveFirst(queue, r))
         /\ Range(RemoveFirst(queue, r)) \subseteq Range(queue) \ {r}
<1>1. queue \in Seq(Requests) /\ Len(queue) <= MaxQueued /\ NoRepeat(queue)
  BY DEF TypeOK, OnceInv
<1>2. Len(queue) \in Nat /\ DOMAIN queue = 1 .. Len(queue)
  BY <1>1, LenProperties
<1>3. CASE r \in Range(queue)
  <2>1. /\ RemoveFirst(queue, r) \in Seq(Requests)
        /\ Len(RemoveFirst(queue, r)) <= Len(queue)
        /\ NoRepeat(RemoveFirst(queue, r))
        /\ Range(RemoveFirst(queue, r)) \subseteq Range(queue) \ {r}
    BY <1>1, <1>3, EraseRange
  <2>2. Len(RemoveFirst(queue, r)) \in Nat
    BY <2>1, LenProperties
  <2> QED
    BY <1>1, <1>2, <2>1, <2>2, SchedulerAssumption
<1>4. CASE r \notin Range(queue)
  <2>1. \A i \in 1 .. Len(queue) : queue[i] # r
    BY <1>2, <1>4 DEF Range
  <2>2. RemoveFirst(queue, r) = queue
    BY <2>1 DEF RemoveFirst
  <2> QED
    BY <1>1, <1>4, <2>2
<1> QED
  BY <1>3, <1>4

-----------------------------------------------------------------------------
(* Every step keeps the invariant.                                        *)

\* The types.
LEMMA TypeStep == IInv /\ [Next]_vars => TypeOK'
<1> SUFFICES ASSUME IInv, [Next]_vars PROVE TypeOK'
  OBVIOUS
<1> USE DEF IInv, TypeOK, Events, WorkerInv, Busy, Working, Terminals
<1>1. CASE Load
  BY <1>1, SchedulerAssumption DEF Load, server, sched, work, chan, client, history
<1>2. CASE Stop
  BY <1>2, SchedulerAssumption DEF Stop, server, sched, work, chan, client, history
<1>3. CASE JoinLoad
  BY <1>3, SchedulerAssumption DEF JoinLoad, server, sched, work, chan, client,
     history
<1>4. CASE Shutdown
  BY <1>4, SchedulerAssumption DEF Shutdown, server, sched, work, chan, client,
     history
<1>5. CASE Abandon
  <2>1. /\ abandoned' \in Seq(Requests) /\ channel' \in [Requests -> Seq(Events)]
        /\ ended' \in [Requests -> Nat] /\ cancel' \in [Requests -> BOOLEAN]
        /\ dropped' \subseteq Requests
    BY <1>5, AbandonEffects
  <2>2. UNCHANGED <<server, sched, work, client, short>>
    BY <1>5 DEF Abandon
  <2> QED
    BY <2>1, <2>2 DEF server, sched, work, chan, client, history
<1>6. CASE JoinWorker
  BY <1>6, SchedulerAssumption DEF JoinWorker, server, sched, work, chan, client,
     history
<1>7. CASE JoinHttp
  BY <1>7, SchedulerAssumption DEF JoinHttp, server, sched, work, chan, client,
     history
<1>8. CASE Take
  BY <1>8, TakeFacts, SchedulerAssumption, ZenonT(40) DEF Take, server, sched, work, chan,
     client, history
<1>9. CASE Check
  <2>1. Conclude("cancelled") \/ (worker' = "count" /\ UNCHANGED <<counted, outcome>>)
    BY <1>9 DEF Check
  <2>2. counted' \in [Requests -> Nat] /\ outcome' \in Terminals \cup {"none"}
    BY <1>9, <2>1 DEF Check, Conclude
  <2>3. worker' \in {"finish", "count"}
    BY <2>1 DEF Conclude
  <2> QED
    BY <1>9, <2>2, <2>3 DEF Check, server, sched, work, chan, client, history
<1>10. CASE Count
  <2>1. job \in Requests
    BY <1>10 DEF Count
  <2>2. channel' \in [Requests -> Seq(Events)] /\ ended' \in [Requests -> Nat]
    <3>1. CASE Push(job, "admitted")  BY <2>1, <3>1, PushFacts
    <3>2. CASE NoPush  BY <3>2 DEF NoPush
    <3> QED  BY <1>10, <3>1, <3>2 DEF Count
  <2>3. counted' \in [Requests -> Nat] /\ outcome' \in Terminals \cup {"none"}
    <3>1. CASE Conclude("failed")  BY <2>1, <3>1 DEF Conclude
    <3>2. CASE UNCHANGED <<counted, outcome>>  BY <3>2
    <3> QED  BY <1>10, <3>1, <3>2 DEF Count
  <2>4. worker' \in {"finish", "generate"}
    BY <1>10 DEF Count, Conclude
  <2> QED
    BY <1>10, <2>2, <2>3, <2>4, SMTT(20) DEF Count, server, sched, work, chan, client, history
<1>11. CASE Piece
  <2>1. job \in Requests
    BY <1>11 DEF Piece
  <2>2. channel' \in [Requests -> Seq(Events)] /\ ended' \in [Requests -> Nat]
    <3>1. CASE Push(job, "part")  BY <2>1, <3>1, PushFacts
    <3>2. CASE NoPush  BY <3>2 DEF NoPush
    <3> QED  BY <1>11, <3>1, <3>2 DEF Piece
  <2>3. pieces' \in 0 .. MaxPieces
    BY <1>11, SchedulerAssumption DEF Piece
  <2>4. worker' \in {"tail", "generate"} /\ short' \subseteq Requests
    BY <1>11, <2>1 DEF Piece
  <2>5. held' \in BOOLEAN /\ matched' \in BOOLEAN
    BY <1>11 DEF Piece
  <2> QED
    BY <1>11, <2>2, <2>3, <2>4, <2>5 DEF Piece, server, sched, work, chan, client, history
<1>12. CASE Returns
  BY <1>12, SchedulerAssumption DEF Returns, server, sched, work, chan, client,
     history
<1>13. CASE Throws
  BY <1>13, SchedulerAssumption DEF Throws, Conclude, server, sched, work, chan,
     client, history
<1>14. CASE ReleaseTail
  <2>1. job \in Requests
    BY <1>14 DEF ReleaseTail
  <2>2. channel' \in [Requests -> Seq(Events)] /\ ended' \in [Requests -> Nat]
    <3>1. CASE Push(job, "part")  BY <2>1, <3>1, PushFacts
    <3>2. CASE NoPush  BY <3>2 DEF NoPush
    <3> QED  BY <1>14, <3>1, <3>2 DEF ReleaseTail
  <2> QED
    BY <1>14, <2>2, ZenonT(40) DEF ReleaseTail, server, sched, work, chan, client, history
<1>15. CASE Decide
  BY <1>15, SchedulerAssumption DEF Decide, Conclude, server, sched, work, chan,
     client, history
<1>16. CASE Finish
  <2>1. job \in Requests /\ outcome \in Events /\ Push(job, outcome)
    BY <1>16 DEF Finish, Events
  <2>2. channel' \in [Requests -> Seq(Events)] /\ ended' \in [Requests -> Nat]
    BY <2>1, PushFacts
  <2>3. /\ worker' = "clear"
        /\ UNCHANGED <<server, sched, job, pieces, held, matched, outcome, cancel,
                       abandoned, client, short, dropped>>
    BY <1>16 DEF Finish
  <2> QED
    BY <2>2, <2>3 DEF server, sched, client
<1>17. CASE Clear
  <2>1. pieces' \in 0 .. MaxPieces
    BY <1>17, SchedulerAssumption DEF Clear
  <2>2. /\ running' \in Requests \cup {None} /\ job' \in Requests \cup {None}
        /\ outcome' \in Terminals \cup {"none"} /\ held' \in BOOLEAN /\ matched' \in BOOLEAN
    BY <1>17 DEF Clear
  <2> QED
    BY <1>17, <2>1, <2>2 DEF Clear, server, sched, work, chan, client, history
<1>18. ASSUME NEW r \in Requests, Arrive(r) PROVE TypeOK'
  <2>1. queue' \in Seq(Requests) /\ Len(queue') <= MaxQueued
    <3>1. r \notin Range(queue)
      BY <1>18 DEF Arrive, PlaceInv
    <3>2. CASE queue' = queue  BY <3>2
    <3>3. CASE queue' = Append(queue, r) /\ Len(queue) < MaxQueued
      BY <3>1, <3>3, SubmitFacts
    <3> QED  BY <1>18, <3>2, <3>3 DEF Arrive
  <2>2. /\ handler' \in [Requests -> {"new", "admission", "body", "cancel", "erase", "tell",
                                     "done"}]
        /\ answer' \in [Requests -> {"none", "not_ready", "busy", "error", "cancelled", "ok",
                                    "abandoned"}]
    BY <1>18 DEF Arrive, To, Reply
  <2>9. UNCHANGED <<server, running, stopping, counted, work, chan, abandoned, gone, history>>
    BY <1>18 DEF Arrive
  <2> QED
    BY <2>1, <2>2, <2>9, SMTT(20) DEF server, sched, work, chan, client, history
<1>19. ASSUME NEW r \in Requests, ClientLeaves(r) PROVE TypeOK'
  BY <1>19, SchedulerAssumption DEF ClientLeaves, server, sched, work, chan,
     client, history
<1>20. ASSUME NEW r \in Requests, PopTimesOut(r) PROVE TypeOK'
  BY <1>20, EmptiedFacts, SchedulerAssumption, SMTT(20) DEF PopTimesOut, StartCancel, To,
     Reply, server, sched, work, chan, client, history
<1>21. ASSUME NEW r \in Requests, PopAdmission(r) PROVE TypeOK'
  <2> DEFINE ev == Head(channel[r])
  <2>1. channel[r] # <<>>
    BY <1>21 DEF PopAdmission
  <2>2. ev \in Events /\ Merged(channel[r]) \in Nat
    BY <2>1, HeadFacts
  <2> HIDE DEF ev
  <2>3. UNCHANGED <<server, sched, work, cancel, abandoned, history>>
    BY <1>21 DEF PopAdmission
  <2>4. CASE ev \in Terminals
    <3>1. Ends(r, IF ev = "finished" THEN "cancelled" ELSE ev)
      BY <1>21, <2>4 DEF PopAdmission, ev
    <3>2. channel' \in [Requests -> Seq(Events)]
      BY <3>1, EmptiedFacts DEF Ends
    <3>3. /\ handler' \in [Requests -> {"new", "admission", "body", "cancel", "erase", "tell",
                                       "done"}]
          /\ answer' \in [Requests -> {"none", "not_ready", "busy", "error", "cancelled",
                                      "ok", "abandoned"}]
          /\ gone' \subseteq Requests
      BY <2>4, <3>1 DEF Ends, To, Reply
    <3> QED
      BY <2>3, <3>2, <3>3, SMTT(20) DEF server, sched, work, chan, client, history
  <2>5. CASE ev \notin Terminals
    <3>1. Pop(r, 1) /\ UNCHANGED <<answer, gone>>
      BY <1>21, <2>5 DEF PopAdmission, ev
    <3>2. channel' \in [Requests -> Seq(Events)]
      BY <2>2, <3>1, PopFacts
    <3>3. handler' \in [Requests -> {"new", "admission", "body", "cancel", "erase", "tell",
                                  "done"}]
      BY <1>21, <2>5 DEF PopAdmission, ev, To
    <3> QED
      BY <2>3, <3>1, <3>2, <3>3, SMTT(20) DEF server, sched, work, chan, client, history
  <2> QED
    BY <2>4, <2>5
<1>22. ASSUME NEW r \in Requests, PopBody(r) PROVE TypeOK'
  <2> DEFINE ev == Head(channel[r])
  <2>1. channel[r] # <<>>
    BY <1>22 DEF PopBody
  <2>2. ev \in Events /\ Merged(channel[r]) \in Nat
    BY <2>1, HeadFacts
  <2> HIDE DEF ev
  <2>3. UNCHANGED <<server, sched, work, cancel, abandoned, history>>
    BY <1>22 DEF PopBody
  <2>4. CASE ev \in Terminals
    <3>1. Ends(r, ev)
      BY <1>22, <2>4 DEF PopBody, ev
    <3>2. channel' \in [Requests -> Seq(Events)]
      BY <3>1, EmptiedFacts DEF Ends
    <3>3. /\ handler' \in [Requests -> {"new", "admission", "body", "cancel", "erase", "tell",
                                       "done"}]
          /\ answer' \in [Requests -> {"none", "not_ready", "busy", "error", "cancelled",
                                      "ok", "abandoned"}]
          /\ gone' \subseteq Requests
      BY <2>4, <3>1 DEF Ends, To, Reply
    <3> QED
      BY <2>3, <3>2, <3>3, SMTT(20) DEF server, sched, work, chan, client, history
  <2>5. CASE ev \notin Terminals
    <3>1. Pop(r, Merged(channel[r])) /\ UNCHANGED <<answer, gone>>
      BY <1>22, <2>5 DEF PopBody, ev
    <3>2. channel' \in [Requests -> Seq(Events)]
      BY <2>2, <3>1, PopFacts
    <3>3. handler' \in [Requests -> {"new", "admission", "body", "cancel", "erase", "tell",
                                  "done"}]
      BY <1>22, <2>5 DEF PopBody, ev, To
    <3> QED
      BY <2>3, <3>1, <3>2, <3>3, SMTT(20) DEF server, sched, work, chan, client, history
  <2> QED
    BY <2>4, <2>5
<1>23. ASSUME NEW r \in Requests, WriteFails(r) PROVE TypeOK'
  BY <1>23, EmptiedFacts, SchedulerAssumption DEF WriteFails, StartCancel, To,
     Reply, server, sched, work, chan, client, history
<1>24. ASSUME NEW r \in Requests, CancelFlag(r) PROVE TypeOK'
  BY <1>24, SchedulerAssumption DEF CancelFlag, To, server, sched, work, chan,
     client, history
<1>25. ASSUME NEW r \in Requests, CancelErase(r) PROVE TypeOK'
  <2>1. queue' \in Seq(Requests) /\ Len(queue') <= MaxQueued
    BY <1>25, EraseFacts DEF CancelErase
  <2>2. counted' \in [Requests -> Nat]
    BY <1>25 DEF CancelErase
  <2>3. handler' \in [Requests -> {"new", "admission", "body", "cancel", "erase", "tell",
                                  "done"}]
    BY <1>25 DEF CancelErase, To
  <2> QED
    BY <1>25, <2>1, <2>2, <2>3 DEF CancelErase, server, sched, work, chan, client, history
<1>26. ASSUME NEW r \in Requests, CancelTell(r) PROVE TypeOK'
  <2>1. Push(r, "cancelled")
    BY <1>26 DEF CancelTell
  <2>2. channel' \in [Requests -> Seq(Events)] /\ ended' \in [Requests -> Nat]
    BY <2>1, PushFacts
  <2>3. handler' \in [Requests -> {"new", "admission", "body", "cancel", "erase", "tell",
                                  "done"}]
    BY <1>26 DEF CancelTell, To
  <2>4. UNCHANGED <<server, sched, work, cancel, abandoned, gone, answer, short, dropped>>
    BY <1>26 DEF CancelTell
  <2> QED
    BY <2>2, <2>3, <2>4, SMTT(20) DEF server, sched, work, chan, client, history
<1>27. CASE UNCHANGED vars
  BY <1>27 DEF vars, server, sched, work, chan, client, history
<1> QED
  BY <1>1, <1>2, <1>3, <1>4, <1>5, <1>6, <1>7, <1>8, <1>9, <1>10, <1>11, <1>12,
     <1>13, <1>14, <1>15, <1>16, <1>17, <1>18, <1>19, <1>20, <1>21, <1>22, <1>23,
     <1>24, <1>25, <1>26, <1>27 DEF Next, StopStep, WorkerStep, HandlerStep

\* The worker and its request.
LEMMA WorkerStepInv == IInv /\ [Next]_vars => WorkerInv'
<1> SUFFICES ASSUME IInv, [Next]_vars PROVE WorkerInv'
  OBVIOUS
<1> USE DEF IInv, TypeOK, WorkerInv, Busy, Working, Terminals
<1>1. CASE Load
  BY <1>1, SchedulerAssumption DEF Load, server, sched, work, chan, client, history
<1>2. CASE Stop
  BY <1>2, SchedulerAssumption DEF Stop, server, sched, work, chan, client, history
<1>3. CASE JoinLoad
  BY <1>3, SchedulerAssumption DEF JoinLoad, server, sched, work, chan, client,
     history
<1>4. CASE Shutdown
  BY <1>4, SchedulerAssumption DEF Shutdown, server, sched, work, chan, client,
     history
<1>5. CASE Abandon
  BY <1>5, AbandonFacts, PushFacts, SchedulerAssumption DEF Abandon, server, sched,
     work, chan, client, history
<1>6. CASE JoinWorker
  BY <1>6, SchedulerAssumption DEF JoinWorker, server, sched, work, chan, client,
     history
<1>7. CASE JoinHttp
  BY <1>7, SchedulerAssumption DEF JoinHttp, server, sched, work, chan, client,
     history
<1>8. CASE Take
  BY <1>8, TakeFacts, SchedulerAssumption DEF Take, server, sched, work, chan,
     client, history
<1>9. CASE Check
  BY <1>9, SchedulerAssumption DEF Check, Conclude, server, sched, work, chan,
     client, history
<1>10. CASE Count
  BY <1>10, PushFacts, SchedulerAssumption DEF Count, Conclude, NoPush, server,
     sched, work, chan, client, history
<1>11. CASE Piece
  BY <1>11, PushFacts, SchedulerAssumption DEF Piece, NoPush, server, sched, work,
     chan, client, history
<1>12. CASE Returns
  BY <1>12, SchedulerAssumption DEF Returns, server, sched, work, chan, client,
     history
<1>13. CASE Throws
  BY <1>13, SchedulerAssumption DEF Throws, Conclude, server, sched, work, chan,
     client, history
<1>14. CASE ReleaseTail
  BY <1>14, PushFacts, SchedulerAssumption DEF ReleaseTail, NoPush, server, sched,
     work, chan, client, history
<1>15. CASE Decide
  BY <1>15, SchedulerAssumption DEF Decide, Conclude, server, sched, work, chan,
     client, history
<1>16. CASE Finish
  BY <1>16, PushFacts, SchedulerAssumption DEF Finish, server, sched, work, chan,
     client, history
<1>17. CASE Clear
  BY <1>17, SchedulerAssumption DEF Clear, server, sched, work, chan, client,
     history
<1>18. ASSUME NEW r \in Requests, Arrive(r) PROVE WorkerInv'
  BY <1>18, SubmitFacts, SchedulerAssumption DEF Arrive, To, Reply, server, sched,
     work, chan, client, history
<1>19. ASSUME NEW r \in Requests, ClientLeaves(r) PROVE WorkerInv'
  BY <1>19, SchedulerAssumption DEF ClientLeaves, server, sched, work, chan,
     client, history
<1>20. ASSUME NEW r \in Requests, PopTimesOut(r) PROVE WorkerInv'
  BY <1>20, EmptiedFacts, SchedulerAssumption DEF PopTimesOut, StartCancel, To,
     Reply, server, sched, work, chan, client, history
<1>21. ASSUME NEW r \in Requests, PopAdmission(r) PROVE WorkerInv'
  BY <1>21, EmptiedFacts, PopFacts, HeadFacts, SchedulerAssumption DEF
     PopAdmission, Ends, Pop, To, Reply, server, sched, work, chan, client, history
<1>22. ASSUME NEW r \in Requests, PopBody(r) PROVE WorkerInv'
  BY <1>22, EmptiedFacts, PopFacts, HeadFacts, SchedulerAssumption DEF PopBody,
     Ends, Pop, To, Reply, server, sched, work, chan, client, history
<1>23. ASSUME NEW r \in Requests, WriteFails(r) PROVE WorkerInv'
  BY <1>23, EmptiedFacts, SchedulerAssumption DEF WriteFails, StartCancel, To,
     Reply, server, sched, work, chan, client, history
<1>24. ASSUME NEW r \in Requests, CancelFlag(r) PROVE WorkerInv'
  BY <1>24, SchedulerAssumption DEF CancelFlag, To, server, sched, work, chan,
     client, history
<1>25. ASSUME NEW r \in Requests, CancelErase(r) PROVE WorkerInv'
  BY <1>25, EraseFacts, SchedulerAssumption DEF CancelErase, To, server, sched,
     work, chan, client, history
<1>26. ASSUME NEW r \in Requests, CancelTell(r) PROVE WorkerInv'
  BY <1>26, PushFacts, SchedulerAssumption DEF CancelTell, To, server, sched, work,
     chan, client, history
<1>27. CASE UNCHANGED vars
  BY <1>27 DEF vars, server, sched, work, chan, client, history
<1> QED
  BY <1>1, <1>2, <1>3, <1>4, <1>5, <1>6, <1>7, <1>8, <1>9, <1>10, <1>11, <1>12,
     <1>13, <1>14, <1>15, <1>16, <1>17, <1>18, <1>19, <1>20, <1>21, <1>22, <1>23,
     <1>24, <1>25, <1>26, <1>27 DEF Next, StopStep, WorkerStep, HandlerStep

\* No request is queued twice.
LEMMA OnceStep == IInv /\ [Next]_vars => OnceInv'
<1> SUFFICES ASSUME IInv, [Next]_vars PROVE OnceInv'
  OBVIOUS
<1> USE DEF IInv, OnceInv, PlaceInv
<1>1. CASE Load
  BY <1>1, EmptyRange DEF Load, server, sched, work, chan, client, history
<1>2. CASE Stop
  BY <1>2, EmptyRange DEF Stop, server, sched, work, chan, client, history
<1>3. CASE JoinLoad
  BY <1>3, EmptyRange DEF JoinLoad, server, sched, work, chan, client, history
<1>4. CASE Shutdown
  BY <1>4, EmptyRange DEF Shutdown, server, sched, work, chan, client, history
<1>5. CASE Abandon
  BY <1>5, AbandonFacts, PushFacts, EmptyRange DEF Abandon, server, sched, work,
     chan, client, history
<1>6. CASE JoinWorker
  BY <1>6, EmptyRange DEF JoinWorker, server, sched, work, chan, client, history
<1>7. CASE JoinHttp
  BY <1>7, EmptyRange DEF JoinHttp, server, sched, work, chan, client, history
<1>8. CASE Take
  BY <1>8, TakeFacts, EmptyRange DEF Take, server, sched, work, chan, client,
     history
<1>9. CASE Check
  BY <1>9, EmptyRange DEF Check, Conclude, server, sched, work, chan, client,
     history
<1>10. CASE Count
  BY <1>10, PushFacts, EmptyRange DEF Count, Conclude, NoPush, server, sched, work,
     chan, client, history
<1>11. CASE Piece
  BY <1>11, PushFacts, EmptyRange DEF Piece, NoPush, server, sched, work, chan,
     client, history
<1>12. CASE Returns
  BY <1>12, EmptyRange DEF Returns, server, sched, work, chan, client, history
<1>13. CASE Throws
  BY <1>13, EmptyRange DEF Throws, Conclude, server, sched, work, chan, client,
     history
<1>14. CASE ReleaseTail
  BY <1>14, PushFacts, EmptyRange DEF ReleaseTail, NoPush, server, sched, work,
     chan, client, history
<1>15. CASE Decide
  BY <1>15, EmptyRange DEF Decide, Conclude, server, sched, work, chan, client,
     history
<1>16. CASE Finish
  BY <1>16, PushFacts, EmptyRange DEF Finish, server, sched, work, chan, client,
     history
<1>17. CASE Clear
  BY <1>17, EmptyRange DEF Clear, server, sched, work, chan, client, history
<1>18. ASSUME NEW r \in Requests, Arrive(r) PROVE OnceInv'
  BY <1>18, SubmitFacts, EmptyRange DEF Arrive, To, Reply, server, sched, work,
     chan, client, history
<1>19. ASSUME NEW r \in Requests, ClientLeaves(r) PROVE OnceInv'
  BY <1>19, EmptyRange DEF ClientLeaves, server, sched, work, chan, client, history
<1>20. ASSUME NEW r \in Requests, PopTimesOut(r) PROVE OnceInv'
  BY <1>20, EmptiedFacts, EmptyRange DEF PopTimesOut, StartCancel, To, Reply,
     server, sched, work, chan, client, history
<1>21. ASSUME NEW r \in Requests, PopAdmission(r) PROVE OnceInv'
  BY <1>21, EmptiedFacts, PopFacts, HeadFacts, EmptyRange DEF PopAdmission, Ends,
     Pop, To, Reply, server, sched, work, chan, client, history
<1>22. ASSUME NEW r \in Requests, PopBody(r) PROVE OnceInv'
  BY <1>22, EmptiedFacts, PopFacts, HeadFacts, EmptyRange DEF PopBody, Ends, Pop,
     To, Reply, server, sched, work, chan, client, history
<1>23. ASSUME NEW r \in Requests, WriteFails(r) PROVE OnceInv'
  BY <1>23, EmptiedFacts, EmptyRange DEF WriteFails, StartCancel, To, Reply,
     server, sched, work, chan, client, history
<1>24. ASSUME NEW r \in Requests, CancelFlag(r) PROVE OnceInv'
  BY <1>24, EmptyRange DEF CancelFlag, To, server, sched, work, chan, client,
     history
<1>25. ASSUME NEW r \in Requests, CancelErase(r) PROVE OnceInv'
  BY <1>25, EraseFacts, EmptyRange DEF CancelErase, To, server, sched, work, chan,
     client, history
<1>26. ASSUME NEW r \in Requests, CancelTell(r) PROVE OnceInv'
  BY <1>26, PushFacts, EmptyRange DEF CancelTell, To, server, sched, work, chan,
     client, history
<1>27. CASE UNCHANGED vars
  BY <1>27 DEF vars, server, sched, work, chan, client, history
<1> QED
  BY <1>1, <1>2, <1>3, <1>4, <1>5, <1>6, <1>7, <1>8, <1>9, <1>10, <1>11, <1>12,
     <1>13, <1>14, <1>15, <1>16, <1>17, <1>18, <1>19, <1>20, <1>21, <1>22, <1>23,
     <1>24, <1>25, <1>26, <1>27 DEF Next, StopStep, WorkerStep, HandlerStep

\* A request is in one place.
LEMMA PlaceStep == IInv /\ [Next]_vars => PlaceInv'
<1> SUFFICES ASSUME IInv, [Next]_vars PROVE PlaceInv'
  OBVIOUS
<1> USE DEF IInv, TypeOK, WorkerInv, PlaceInv, Open, Busy, Working, Terminals, Events
<1>1. CASE Load
  BY <1>1, EmptyRange, SchedulerAssumption DEF Load, server, sched, work, chan,
     client, history
<1>2. CASE Stop
  BY <1>2, EmptyRange, SchedulerAssumption DEF Stop, server, sched, work, chan,
     client, history
<1>3. CASE JoinLoad
  BY <1>3, EmptyRange, SchedulerAssumption DEF JoinLoad, server, sched, work, chan,
     client, history
<1>4. CASE Shutdown
  BY <1>4, EmptyRange, SchedulerAssumption DEF Shutdown, server, sched, work, chan,
     client, history
<1>5. CASE Abandon
  <2> DEFINE a == Head(abandoned)
  <2>1. UNCHANGED <<queue, counted, worker, job, handler>>
    BY <1>5 DEF Abandon, sched, work, client
  <2>2. /\ a \in Requests /\ a \in Range(abandoned)
        /\ Range(abandoned') \subseteq Range(abandoned) /\ a \notin Range(abandoned')
        /\ \A q \in Requests :
             /\ ended'[q] = IF q = a THEN ended[q] + 1 ELSE ended[q]
             /\ q # a => channel'[q] = channel[q]
             /\ Range(channel'[q]) \subseteq Range(channel[q]) \cup {"failed"}
        /\ \A q \in Requests : cancel[q] => cancel'[q]
        /\ dropped' = dropped \cup {a}
    BY <1>5, AbandonEffects
  <2> HIDE DEF a
  <2> QED
    BY <2>1, <2>2
<1>6. CASE JoinWorker
  BY <1>6, EmptyRange, SchedulerAssumption DEF JoinWorker, server, sched, work,
     chan, client, history
<1>7. CASE JoinHttp
  BY <1>7, EmptyRange, SchedulerAssumption DEF JoinHttp, server, sched, work, chan,
     client, history
<1>8. CASE Take
  <2>1. CASE stopping
    BY <1>8, <2>1 DEF Take, server, sched, work, chan, client, history
  <2>2. CASE ~stopping
    <3> DEFINE q == Head(queue)
    <3>1. /\ queue # <<>> /\ job' = q /\ queue' = Tail(queue) /\ worker' = "check"
          /\ UNCHANGED <<counted, abandoned, handler, channel, ended, dropped>>
      BY <1>8, <2>2 DEF Take, chan, client, history
    <3>2. /\ q \in Requests /\ q \in Range(queue)
          /\ Range(queue') \subseteq Range(queue) /\ q \notin Range(queue')
      BY <3>1, TakeFacts
    <3> HIDE DEF q
    <3> QED
      BY <3>1, <3>2, SMTT(20)
  <2> QED
    BY <2>1, <2>2
<1>9. CASE Check
  BY <1>9, EmptyRange, SchedulerAssumption DEF Check, Conclude, server, sched,
     work, chan, client, history
<1>10. CASE Count
  BY <1>10, PushFacts, EmptyRange, SchedulerAssumption DEF Count, Conclude, NoPush,
     server, sched, work, chan, client, history
<1>11. CASE Piece
  BY <1>11, PushFacts, EmptyRange, SchedulerAssumption DEF Piece, NoPush, server,
     sched, work, chan, client, history
<1>12. CASE Returns
  BY <1>12, EmptyRange, SchedulerAssumption DEF Returns, server, sched, work, chan,
     client, history
<1>13. CASE Throws
  BY <1>13, EmptyRange, SchedulerAssumption DEF Throws, Conclude, server, sched,
     work, chan, client, history
<1>14. CASE ReleaseTail
  BY <1>14, PushFacts, EmptyRange, SchedulerAssumption, SMTT(20) DEF ReleaseTail, NoPush,
     server, sched, work, chan, client, history
<1>15. CASE Decide
  BY <1>15, EmptyRange, SchedulerAssumption DEF Decide, Conclude, server, sched,
     work, chan, client, history
<1>16. CASE Finish
  BY <1>16, PushFacts, EmptyRange, SchedulerAssumption DEF Finish, server, sched,
     work, chan, client, history
<1>17. CASE Clear
  BY <1>17, EmptyRange, SchedulerAssumption DEF Clear, server, sched, work, chan,
     client, history
<1>18. ASSUME NEW r \in Requests, Arrive(r) PROVE PlaceInv'
  <2>1. UNCHANGED <<job, worker, counted, abandoned, channel, ended, dropped>>
    BY <1>18 DEF Arrive, work, chan, history
  <2>2. CASE queue' = queue /\ To(r, "done")
    BY <1>18, <2>1, <2>2 DEF Arrive, To
  <2>3. CASE queue' = Append(queue, r) /\ Len(queue) < MaxQueued /\ To(r, "admission")
    <3>1. handler[r] = "new"
      BY <1>18 DEF Arrive
    <3>2. Range(queue') = Range(queue) \cup {r}
      BY <2>3, <3>1, SubmitFacts
    <3>3. \A q \in Requests : handler'[q] = IF q = r THEN "admission" ELSE handler[q]
      BY <2>3 DEF To
    <3> QED
      BY <2>1, <3>1, <3>2, <3>3
  <2> QED
    BY <1>18, <2>2, <2>3 DEF Arrive
<1>19. ASSUME NEW r \in Requests, ClientLeaves(r) PROVE PlaceInv'
  BY <1>19, EmptyRange, SchedulerAssumption DEF ClientLeaves, server, sched, work,
     chan, client, history
<1>20. ASSUME NEW r \in Requests, PopTimesOut(r) PROVE PlaceInv'
  BY <1>20, EmptiedFacts, EmptyRange, SchedulerAssumption DEF PopTimesOut,
     StartCancel, To, Reply, server, sched, work, chan, client, history
<1>21. ASSUME NEW r \in Requests, PopAdmission(r) PROVE PlaceInv'
  <2>1. /\ handler[r] = "admission" /\ channel[r] # <<>>
        /\ UNCHANGED <<queue, abandoned, job, worker, ended, counted, dropped>>
    BY <1>21 DEF PopAdmission, sched, work, history
  <2>2. \A q \in Requests :
          handler'[q] = handler[q] \/ (q = r /\ handler'[q] \in {"body", "done"})
    BY <1>21 DEF PopAdmission, Ends, To
  <2>3. \A q \in Requests : q # r => channel'[q] = channel[q]
    BY <1>21 DEF PopAdmission, Ends, Pop
  <2> QED
    BY <2>1, <2>2, <2>3, ZenonT(40)
<1>22. ASSUME NEW r \in Requests, PopBody(r) PROVE PlaceInv'
  <2>1. /\ handler[r] = "body" /\ channel[r] # <<>>
        /\ UNCHANGED <<queue, abandoned, job, worker, ended, counted, dropped>>
    BY <1>22 DEF PopBody, sched, work, history
  <2>2. \A q \in Requests :
          handler'[q] = handler[q] \/ (q = r /\ handler'[q] \in {"body", "done"})
    BY <1>22 DEF PopBody, Ends, To
  <2>3. \A q \in Requests : q # r => channel'[q] = channel[q]
    BY <1>22 DEF PopBody, Ends, Pop
  <2> QED
    BY <2>1, <2>2, <2>3, SMTT(20)
<1>23. ASSUME NEW r \in Requests, WriteFails(r) PROVE PlaceInv'
  BY <1>23, EmptiedFacts, EmptyRange, SchedulerAssumption, SMTT(20) DEF WriteFails,
     StartCancel, To, Reply, server, sched, work, chan, client, history
<1>24. ASSUME NEW r \in Requests, CancelFlag(r) PROVE PlaceInv'
  BY <1>24, EmptyRange, SchedulerAssumption DEF CancelFlag, To, server, sched,
     work, chan, client, history
<1>25. ASSUME NEW r \in Requests, CancelErase(r) PROVE PlaceInv'
  BY <1>25, EraseFacts, EmptyRange, SchedulerAssumption, SMTT(20) DEF CancelErase, To,
     server, sched, work, chan, client, history
<1>26. ASSUME NEW r \in Requests, CancelTell(r) PROVE PlaceInv'
  <2>1. /\ handler[r] = "tell" /\ Push(r, "cancelled") /\ To(r, "done")
        /\ UNCHANGED <<queue, abandoned, job, worker, counted, dropped>>
    BY <1>26 DEF CancelTell, sched, work
  <2>2. \A q \in Requests :
          /\ ended'[q] = IF q = r THEN ended[q] + 1 ELSE ended[q]
          /\ q # r => channel'[q] = channel[q]
    BY <2>1, PushFacts
  <2>3. \A q \in Requests : handler'[q] = IF q = r THEN "done" ELSE handler[q]
    BY <2>1 DEF To
  <2> QED
    BY <2>1, <2>2, <2>3, SMTT(20)
<1>27. CASE UNCHANGED vars
  BY <1>27 DEF vars, server, sched, work, chan, client, history
<1> QED
  BY <1>1, <1>2, <1>3, <1>4, <1>5, <1>6, <1>7, <1>8, <1>9, <1>10, <1>11, <1>12,
     <1>13, <1>14, <1>15, <1>16, <1>17, <1>18, <1>19, <1>20, <1>21, <1>22, <1>23,
     <1>24, <1>25, <1>26, <1>27 DEF Next, StopStep, WorkerStep, HandlerStep

\* A request is concluded once.
LEMMA ConcludedStep == IInv /\ [Next]_vars => ConcludedOnce'
<1> SUFFICES ASSUME IInv, [Next]_vars PROVE ConcludedOnce'
  OBVIOUS
<1> USE DEF IInv, TypeOK, WorkerInv, PlaceInv, ConcludedOnce, Open, Busy, Working, Terminals, Events
<1>1. CASE Load
  BY <1>1, SchedulerAssumption DEF Load, server, sched, work, chan, client, history
<1>2. CASE Stop
  BY <1>2, SchedulerAssumption DEF Stop, server, sched, work, chan, client, history
<1>3. CASE JoinLoad
  BY <1>3, SchedulerAssumption DEF JoinLoad, server, sched, work, chan, client,
     history
<1>4. CASE Shutdown
  BY <1>4, SchedulerAssumption DEF Shutdown, server, sched, work, chan, client,
     history
<1>5. CASE Abandon
  <2> DEFINE a == Head(abandoned)
  <2>1. UNCHANGED <<queue, counted, worker, job, handler>>
    BY <1>5 DEF Abandon, sched, work, client
  <2>2. /\ a \in Requests /\ a \in Range(abandoned)
        /\ Range(abandoned') \subseteq Range(abandoned) /\ a \notin Range(abandoned')
        /\ \A q \in Requests :
             /\ ended'[q] = IF q = a THEN ended[q] + 1 ELSE ended[q]
             /\ q # a => channel'[q] = channel[q]
             /\ Range(channel'[q]) \subseteq Range(channel[q]) \cup {"failed"}
        /\ \A q \in Requests : cancel[q] => cancel'[q]
        /\ dropped' = dropped \cup {a}
    BY <1>5, AbandonEffects
  <2> HIDE DEF a
  <2>3. ended[a] = 0 /\ counted[a] = 0
    BY <2>2 DEF PlaceInv, Open
  <2>4. \A q \in Requests : q # a => (q \in dropped' <=> q \in dropped)
    BY <2>2
  <2> QED
    BY <2>1, <2>2, <2>3, <2>4 DEF ConcludedOnce
<1>6. CASE JoinWorker
  BY <1>6, SchedulerAssumption DEF JoinWorker, server, sched, work, chan, client,
     history
<1>7. CASE JoinHttp
  BY <1>7, SchedulerAssumption DEF JoinHttp, server, sched, work, chan, client,
     history
<1>8. CASE Take
  BY <1>8, TakeFacts, SchedulerAssumption DEF Take, server, sched, work, chan,
     client, history
<1>9. CASE Check
  BY <1>9, SchedulerAssumption DEF Check, Conclude, server, sched, work, chan,
     client, history
<1>10. CASE Count
  BY <1>10, PushFacts, SchedulerAssumption DEF Count, Conclude, NoPush, server,
     sched, work, chan, client, history
<1>11. CASE Piece
  BY <1>11, PushFacts, SchedulerAssumption DEF Piece, NoPush, server, sched, work,
     chan, client, history
<1>12. CASE Returns
  BY <1>12, SchedulerAssumption DEF Returns, server, sched, work, chan, client,
     history
<1>13. CASE Throws
  BY <1>13, SchedulerAssumption DEF Throws, Conclude, server, sched, work, chan,
     client, history
<1>14. CASE ReleaseTail
  BY <1>14, PushFacts, SchedulerAssumption DEF ReleaseTail, NoPush, server, sched,
     work, chan, client, history
<1>15. CASE Decide
  BY <1>15, SchedulerAssumption DEF Decide, Conclude, server, sched, work, chan,
     client, history
<1>16. CASE Finish
  BY <1>16, PushFacts, SchedulerAssumption DEF Finish, server, sched, work, chan,
     client, history
<1>17. CASE Clear
  BY <1>17, SchedulerAssumption DEF Clear, server, sched, work, chan, client,
     history
<1>18. ASSUME NEW r \in Requests, Arrive(r) PROVE ConcludedOnce'
  BY <1>18, SubmitFacts, SchedulerAssumption DEF Arrive, To, Reply, server, sched,
     work, chan, client, history
<1>19. ASSUME NEW r \in Requests, ClientLeaves(r) PROVE ConcludedOnce'
  BY <1>19, SchedulerAssumption DEF ClientLeaves, server, sched, work, chan,
     client, history
<1>20. ASSUME NEW r \in Requests, PopTimesOut(r) PROVE ConcludedOnce'
  BY <1>20, EmptiedFacts, SchedulerAssumption DEF PopTimesOut, StartCancel, To,
     Reply, server, sched, work, chan, client, history
<1>21. ASSUME NEW r \in Requests, PopAdmission(r) PROVE ConcludedOnce'
  BY <1>21, EmptiedFacts, PopFacts, HeadFacts, SchedulerAssumption DEF
     PopAdmission, Ends, Pop, To, Reply, server, sched, work, chan, client, history
<1>22. ASSUME NEW r \in Requests, PopBody(r) PROVE ConcludedOnce'
  BY <1>22, EmptiedFacts, PopFacts, HeadFacts, SchedulerAssumption DEF PopBody,
     Ends, Pop, To, Reply, server, sched, work, chan, client, history
<1>23. ASSUME NEW r \in Requests, WriteFails(r) PROVE ConcludedOnce'
  BY <1>23, EmptiedFacts, SchedulerAssumption DEF WriteFails, StartCancel, To,
     Reply, server, sched, work, chan, client, history
<1>24. ASSUME NEW r \in Requests, CancelFlag(r) PROVE ConcludedOnce'
  BY <1>24, SchedulerAssumption DEF CancelFlag, To, server, sched, work, chan,
     client, history
<1>25. ASSUME NEW r \in Requests, CancelErase(r) PROVE ConcludedOnce'
  BY <1>25, EraseFacts, SchedulerAssumption, SMTT(20) DEF CancelErase, To, server, sched,
     work, chan, client, history
<1>26. ASSUME NEW r \in Requests, CancelTell(r) PROVE ConcludedOnce'
  <2>1. handler[r] = "tell" /\ Push(r, "cancelled") /\ UNCHANGED <<counted, dropped>>
    BY <1>26 DEF CancelTell, sched
  <2>2. \A q \in Requests : ended'[q] = IF q = r THEN ended[q] + 1 ELSE ended[q]
    BY <2>1, PushFacts
  <2>3. ended[r] = 0 /\ counted[r] = 1 /\ r \notin dropped
    BY <2>1 DEF PlaceInv
  <2> QED
    BY <2>1, <2>2, <2>3, SMTT(20) DEF ConcludedOnce
<1>27. CASE UNCHANGED vars
  BY <1>27 DEF vars, server, sched, work, chan, client, history
<1> QED
  BY <1>1, <1>2, <1>3, <1>4, <1>5, <1>6, <1>7, <1>8, <1>9, <1>10, <1>11, <1>12,
     <1>13, <1>14, <1>15, <1>16, <1>17, <1>18, <1>19, <1>20, <1>21, <1>22, <1>23,
     <1>24, <1>25, <1>26, <1>27 DEF Next, StopStep, WorkerStep, HandlerStep

\* Only a whole generation is said to have finished.
LEMMA AnswerStep == IInv /\ [Next]_vars => AnswerInv'
<1> SUFFICES ASSUME IInv, [Next]_vars PROVE AnswerInv'
  OBVIOUS
<1> USE DEF IInv, TypeOK, WorkerInv, PlaceInv, AnswerInv, ConcludedOnce, Open, Busy, Working, Terminals, Events
<1>1. CASE Load
  BY <1>1, SchedulerAssumption DEF Load, server, sched, work, chan, client, history
<1>2. CASE Stop
  BY <1>2, SchedulerAssumption DEF Stop, server, sched, work, chan, client, history
<1>3. CASE JoinLoad
  BY <1>3, SchedulerAssumption DEF JoinLoad, server, sched, work, chan, client,
     history
<1>4. CASE Shutdown
  BY <1>4, SchedulerAssumption DEF Shutdown, server, sched, work, chan, client,
     history
<1>5. CASE Abandon
  <2> DEFINE a == Head(abandoned)
  <2>1. UNCHANGED <<worker, job, outcome, answer, short>>
    BY <1>5 DEF Abandon, work, client
  <2>2. /\ a \in Requests /\ a \in Range(abandoned)
        /\ Range(abandoned') \subseteq Range(abandoned) /\ a \notin Range(abandoned')
        /\ \A q \in Requests :
             /\ ended'[q] = IF q = a THEN ended[q] + 1 ELSE ended[q]
             /\ q # a => channel'[q] = channel[q]
             /\ Range(channel'[q]) \subseteq Range(channel[q]) \cup {"failed"}
        /\ \A q \in Requests : cancel[q] => cancel'[q]
        /\ dropped' = dropped \cup {a}
    BY <1>5, AbandonEffects
  <2> HIDE DEF a
  <2> QED
    BY <2>1, <2>2
<1>6. CASE JoinWorker
  BY <1>6, SchedulerAssumption DEF JoinWorker, server, sched, work, chan, client,
     history
<1>7. CASE JoinHttp
  BY <1>7, SchedulerAssumption DEF JoinHttp, server, sched, work, chan, client,
     history
<1>8. CASE Take
  BY <1>8, TakeFacts, SchedulerAssumption DEF Take, server, sched, work, chan,
     client, history
<1>9. CASE Check
  BY <1>9, SchedulerAssumption DEF Check, Conclude, server, sched, work, chan,
     client, history
<1>10. CASE Count
  BY <1>10, PushFacts, SchedulerAssumption DEF Count, Conclude, NoPush, server,
     sched, work, chan, client, history
<1>11. CASE Piece
  BY <1>11, PushFacts, SchedulerAssumption DEF Piece, NoPush, server, sched, work,
     chan, client, history
<1>12. CASE Returns
  BY <1>12, SchedulerAssumption DEF Returns, server, sched, work, chan, client,
     history
<1>13. CASE Throws
  BY <1>13, SchedulerAssumption DEF Throws, Conclude, server, sched, work, chan,
     client, history
<1>14. CASE ReleaseTail
  BY <1>14, PushFacts, SchedulerAssumption DEF ReleaseTail, NoPush, server, sched,
     work, chan, client, history
<1>15. CASE Decide
  BY <1>15, SchedulerAssumption DEF Decide, Conclude, server, sched, work, chan,
     client, history
<1>16. CASE Finish
  BY <1>16, PushFacts, SchedulerAssumption DEF Finish, server, sched, work, chan,
     client, history
<1>17. CASE Clear
  BY <1>17, SchedulerAssumption DEF Clear, server, sched, work, chan, client,
     history
<1>18. ASSUME NEW r \in Requests, Arrive(r) PROVE AnswerInv'
  BY <1>18, SubmitFacts, SchedulerAssumption DEF Arrive, To, Reply, server, sched,
     work, chan, client, history
<1>19. ASSUME NEW r \in Requests, ClientLeaves(r) PROVE AnswerInv'
  BY <1>19, SchedulerAssumption DEF ClientLeaves, server, sched, work, chan,
     client, history
<1>20. ASSUME NEW r \in Requests, PopTimesOut(r) PROVE AnswerInv'
  <2>1. UNCHANGED <<work, cancel, ended, short>>
    BY <1>20 DEF PopTimesOut, history
  <2>2. \A q \in Requests : Range(channel'[q]) \subseteq Range(channel[q])
    BY <1>20, EmptiedFacts DEF PopTimesOut, StartCancel
  <2>3. \A q \in Requests : answer'[q] = "ok" => answer[q] = "ok"
    BY <1>20 DEF PopTimesOut, StartCancel, Reply
  <2> QED
    BY <2>1, <2>2, <2>3 DEF work
<1>21. ASSUME NEW r \in Requests, PopAdmission(r) PROVE AnswerInv'
  <2> DEFINE ev == Head(channel[r])
  <2>1. channel[r] # <<>> /\ UNCHANGED <<work, cancel, ended, short>>
    BY <1>21 DEF PopAdmission, history
  <2>2. ev \in Events /\ ev \in Range(channel[r]) /\ Merged(channel[r]) \in Nat
    BY <2>1, HeadFacts
  <2> HIDE DEF ev
  <2>3. CASE ev \in Terminals
    <3>1. Ends(r, IF ev = "finished" THEN "cancelled" ELSE ev)
      BY <1>21, <2>3 DEF PopAdmission, ev
    <3>2. \A q \in Requests : Range(channel'[q]) \subseteq Range(channel[q])
      BY <3>1, EmptiedFacts DEF Ends
    <3>3. \A q \in Requests : q # r => answer'[q] = answer[q]
      BY <3>1 DEF Ends, Reply
    <3>4. answer'[r] # "ok"
      BY <2>3, <3>1 DEF Ends, Reply
    <3> QED
      BY <2>1, <2>2, <3>2, <3>3, <3>4 DEF work
  <2>4. CASE ev \notin Terminals
    <3>1. Pop(r, 1) /\ UNCHANGED answer
      BY <1>21, <2>4 DEF PopAdmission, ev
    <3>2. \A q \in Requests : Range(channel'[q]) \subseteq Range(channel[q])
      BY <2>2, <3>1, PopFacts
    <3> QED
      BY <2>1, <3>1, <3>2 DEF work
  <2> QED
    BY <2>3, <2>4
<1>22. ASSUME NEW r \in Requests, PopBody(r) PROVE AnswerInv'
  <2> DEFINE ev == Head(channel[r])
  <2>1. channel[r] # <<>> /\ UNCHANGED <<work, cancel, ended, short>>
    BY <1>22 DEF PopBody, history
  <2>2. ev \in Events /\ ev \in Range(channel[r]) /\ Merged(channel[r]) \in Nat
    BY <2>1, HeadFacts
  <2> HIDE DEF ev
  <2>3. CASE ev \in Terminals
    <3>1. Ends(r, ev)
      BY <1>22, <2>3 DEF PopBody, ev
    <3>2. \A q \in Requests : Range(channel'[q]) \subseteq Range(channel[q])
      BY <3>1, EmptiedFacts DEF Ends
    <3>3. \A q \in Requests : q # r => answer'[q] = answer[q]
      BY <3>1 DEF Ends, Reply
    <3>4. answer'[r] = "ok" => ev = "finished"
      BY <2>3, <3>1 DEF Ends, Reply
    <3> QED
      BY <2>1, <2>2, <3>2, <3>3, <3>4 DEF work
  <2>4. CASE ev \notin Terminals
    <3>1. Pop(r, Merged(channel[r])) /\ UNCHANGED answer
      BY <1>22, <2>4 DEF PopBody, ev
    <3>2. \A q \in Requests : Range(channel'[q]) \subseteq Range(channel[q])
      BY <2>2, <3>1, PopFacts
    <3> QED
      BY <2>1, <3>1, <3>2 DEF work
  <2> QED
    BY <2>3, <2>4
<1>23. ASSUME NEW r \in Requests, WriteFails(r) PROVE AnswerInv'
  <2>1. UNCHANGED <<work, cancel, ended, short>>
    BY <1>23 DEF WriteFails, history
  <2>2. \A q \in Requests : Range(channel'[q]) \subseteq Range(channel[q])
    BY <1>23, EmptiedFacts DEF WriteFails, StartCancel
  <2>3. \A q \in Requests : answer'[q] = "ok" => answer[q] = "ok"
    BY <1>23 DEF WriteFails, StartCancel, Reply
  <2> QED
    BY <2>1, <2>2, <2>3 DEF work
<1>24. ASSUME NEW r \in Requests, CancelFlag(r) PROVE AnswerInv'
  BY <1>24, SchedulerAssumption DEF CancelFlag, To, server, sched, work, chan,
     client, history
<1>25. ASSUME NEW r \in Requests, CancelErase(r) PROVE AnswerInv'
  BY <1>25, EraseFacts, SchedulerAssumption DEF CancelErase, To, server, sched,
     work, chan, client, history
<1>26. ASSUME NEW r \in Requests, CancelTell(r) PROVE AnswerInv'
  <2>1. handler[r] = "tell" /\ Push(r, "cancelled") /\ UNCHANGED <<work, cancel, answer, short>>
    BY <1>26 DEF CancelTell
  <2>2. \A q \in Requests :
          /\ ended'[q] = IF q = r THEN ended[q] + 1 ELSE ended[q]
          /\ Range(channel'[q]) \subseteq Range(channel[q]) \cup {"cancelled"}
    BY <2>1, PushFacts
  <2> QED
    BY <2>1, <2>2 DEF work
<1>27. CASE UNCHANGED vars
  BY <1>27 DEF vars, server, sched, work, chan, client, history
<1> QED
  BY <1>1, <1>2, <1>3, <1>4, <1>5, <1>6, <1>7, <1>8, <1>9, <1>10, <1>11, <1>12,
     <1>13, <1>14, <1>15, <1>16, <1>17, <1>18, <1>19, <1>20, <1>21, <1>22, <1>23,
     <1>24, <1>25, <1>26, <1>27 DEF Next, StopStep, WorkerStep, HandlerStep

\* stop() goes on only when the threads it waits for have ended.
LEMMA StopStepInv == IInv /\ [Next]_vars => StopInv'
<1> SUFFICES ASSUME IInv, [Next]_vars PROVE StopInv'
  OBVIOUS
<1> USE DEF IInv, TypeOK, StopInv, Busy, Working, Resting
<1>1. CASE Load
  BY <1>1 DEF Load, server, sched, work, chan, client, history
<1>2. CASE Stop
  BY <1>2 DEF Stop, server, sched, work, chan, client, history
<1>3. CASE JoinLoad
  BY <1>3 DEF JoinLoad, server, sched, work, chan, client, history
<1>4. CASE Shutdown
  BY <1>4 DEF Shutdown, server, sched, work, chan, client, history
<1>5. CASE Abandon
  BY <1>5, AbandonFacts, PushFacts DEF Abandon, server, sched, work, chan, client,
     history
<1>6. CASE JoinWorker
  BY <1>6 DEF JoinWorker, server, sched, work, chan, client, history
<1>7. CASE JoinHttp
  BY <1>7 DEF JoinHttp, server, sched, work, chan, client, history
<1>8. CASE Take
  BY <1>8, TakeFacts DEF Take, server, sched, work, chan, client, history
<1>9. CASE Check
  BY <1>9 DEF Check, Conclude, server, sched, work, chan, client, history
<1>10. CASE Count
  BY <1>10, PushFacts DEF Count, Conclude, NoPush, server, sched, work, chan,
     client, history
<1>11. CASE Piece
  BY <1>11, PushFacts DEF Piece, NoPush, server, sched, work, chan, client, history
<1>12. CASE Returns
  BY <1>12 DEF Returns, server, sched, work, chan, client, history
<1>13. CASE Throws
  BY <1>13 DEF Throws, Conclude, server, sched, work, chan, client, history
<1>14. CASE ReleaseTail
  BY <1>14, PushFacts DEF ReleaseTail, NoPush, server, sched, work, chan, client,
     history
<1>15. CASE Decide
  BY <1>15 DEF Decide, Conclude, server, sched, work, chan, client, history
<1>16. CASE Finish
  BY <1>16, PushFacts DEF Finish, server, sched, work, chan, client, history
<1>17. CASE Clear
  BY <1>17 DEF Clear, server, sched, work, chan, client, history
<1>18. ASSUME NEW r \in Requests, Arrive(r) PROVE StopInv'
  BY <1>18, SubmitFacts DEF Arrive, To, Reply, server, sched, work, chan, client,
     history
<1>19. ASSUME NEW r \in Requests, ClientLeaves(r) PROVE StopInv'
  BY <1>19 DEF ClientLeaves, server, sched, work, chan, client, history
<1>20. ASSUME NEW r \in Requests, PopTimesOut(r) PROVE StopInv'
  <2>1. handler[r] \notin Resting /\ UNCHANGED <<stopper, worker>>
    BY <1>20 DEF PopTimesOut, Reading, server, work
  <2>2. \A q \in Requests : q # r => handler'[q] = handler[q]
    BY <1>20 DEF PopTimesOut, StartCancel, To
  <2> QED
    BY <2>1, <2>2
<1>21. ASSUME NEW r \in Requests, PopAdmission(r) PROVE StopInv'
  BY <1>21, EmptiedFacts, PopFacts, HeadFacts DEF PopAdmission, Ends, Pop, To,
     Reply, server, sched, work, chan, client, history
<1>22. ASSUME NEW r \in Requests, PopBody(r) PROVE StopInv'
  BY <1>22, EmptiedFacts, PopFacts, HeadFacts DEF PopBody, Ends, Pop, To, Reply,
     server, sched, work, chan, client, history
<1>23. ASSUME NEW r \in Requests, WriteFails(r) PROVE StopInv'
  BY <1>23, EmptiedFacts DEF WriteFails, StartCancel, To, Reply, server, sched,
     work, chan, client, history
<1>24. ASSUME NEW r \in Requests, CancelFlag(r) PROVE StopInv'
  BY <1>24 DEF CancelFlag, To, server, sched, work, chan, client, history
<1>25. ASSUME NEW r \in Requests, CancelErase(r) PROVE StopInv'
  BY <1>25, EraseFacts DEF CancelErase, To, server, sched, work, chan, client,
     history
<1>26. ASSUME NEW r \in Requests, CancelTell(r) PROVE StopInv'
  BY <1>26, PushFacts DEF CancelTell, To, server, sched, work, chan, client,
     history
<1>27. CASE UNCHANGED vars
  BY <1>27 DEF vars, server, sched, work, chan, client, history
<1> QED
  BY <1>1, <1>2, <1>3, <1>4, <1>5, <1>6, <1>7, <1>8, <1>9, <1>10, <1>11, <1>12,
     <1>13, <1>14, <1>15, <1>16, <1>17, <1>18, <1>19, <1>20, <1>21, <1>22, <1>23,
     <1>24, <1>25, <1>26, <1>27 DEF Next, StopStep, WorkerStep, HandlerStep

-----------------------------------------------------------------------------
(* The theorems.                                                           *)

LEMMA InitInv == Init => IInv
<1> SUFFICES ASSUME Init PROVE IInv
  OBVIOUS
<1>1. TypeOK
  <2>1. queue \in Seq(Requests) /\ Len(queue) <= MaxQueued /\ abandoned \in Seq(Requests)
    BY EmptySeq, SchedulerAssumption DEF Init
  <2>2. channel \in [Requests -> Seq(Terminals \cup {"admitted", "part"})]
    BY EmptySeq DEF Init
  <2>3. pieces \in 0 .. MaxPieces
    BY SchedulerAssumption DEF Init
  <2> QED
    BY <2>1, <2>2, <2>3 DEF Init, TypeOK
<1>2. WorkerInv /\ OnceInv /\ StopInv
  BY EmptyRange DEF Init, WorkerInv, OnceInv, StopInv, Busy, Working
<1>3. PlaceInv
  BY EmptyRange, SchedulerAssumption DEF Init, PlaceInv, Open
<1>4. ConcludedOnce /\ AnswerInv
  BY EmptyRange DEF Init, ConcludedOnce, AnswerInv
<1> QED
  BY <1>1, <1>2, <1>3, <1>4 DEF IInv

\* The whole invariant holds in every reachable state of the endpoint.
THEOREM Invariant == Spec => []IInv
<1>1. IInv /\ [Next]_vars => IInv'
  BY TypeStep, WorkerStepInv, OnceStep, PlaceStep, ConcludedStep, AnswerStep, StopStepInv
     DEF IInv
<1> QED
  BY InitInv, <1>1, PTL DEF Spec

\* inference_scheduler.cpp, take / cancel / shutdown: whatever the interleaving of
\* the worker, a cancelled client and stop(), each request gets one ending, and one
\* whose generation was cut short is never answered as complete.
THEOREM OneTrueEndingHolds == Spec => []OneTrueEnding
<1>1. IInv => OneTrueEnding
  BY DEF IInv, OneTrueEnding, CompleteAnswer, AnswerInv
<1> QED
  BY Invariant, <1>1, PTL

\* inference_scheduler.hpp:3-9: a request the backend works on is in the active set,
\* so that a cancellation or shutdown finds it.
THEOREM ActiveWhileRunningHolds == Spec => []ActiveWhileRunning
<1>1. IInv => ActiveWhileRunning
  BY DEF IInv, ActiveWhileRunning, WorkerInv, Busy
<1> QED
  BY Invariant, <1>1, PTL

\* EndpointServer::stop: the scheduler and the backend are destroyed only when the
\* worker has ended and no handler is left that could call them.
THEOREM NothingUsesTheDestroyedHolds == Spec => []NothingUsesTheDestroyed
<1>1. IInv => NothingUsesTheDestroyed
  BY DEF IInv, NothingUsesTheDestroyed, StopInv
<1> QED
  BY Invariant, <1>1, PTL

\* Every variable keeps its type; the queue keeps within its capacity.
THEOREM TypeCorrect == Spec => []TypeOK
<1>1. IInv => TypeOK
  BY DEF IInv
<1> QED
  BY Invariant, <1>1, PTL

=============================================================================
