-------------------------- MODULE CollectorProofs ---------------------------
(***************************************************************************)
(* Proofs about module Collector, for every bound of the two channels and  *)
(* any number of responses.  Order is argued on the numbers of the         *)
(* responses in each channel: a channel is in order by itself, and every   *)
(* number in a later part of the path is above every number in an earlier  *)
(* one.                                                                    *)
(***************************************************************************)
EXTENDS Collector, SequenceTheorems, TLAPS

\* The numbers of the responses in a sequence.
Ids(q) == {n \in 1 .. MaxResponses : Holds(q, n)}

\* Every response of a precedes every response of b.
Precedes(a, b) == \A m \in Ids(a), n \in Ids(b) : m < n

-----------------------------------------------------------------------------
(* Events, channels and their numbers.                                     *)

LEMMA EventKinds ==
  /\ {Noise, Ready, Connected, Stopped} \subseteq Events
  /\ Responses \subseteq Events
  /\ \A e \in Events : IsResponse(e) <=> e \in Responses
  /\ \A e \in Responses : e.id \in 1 .. MaxResponses /\ e = Response(e.id)
  /\ ~IsResponse(Noise) /\ ~IsResponse(Ready)
  /\ ~IsResponse(Connected) /\ ~IsResponse(Stopped)
  BY DEF Events, Responses, Response, IsResponse, Event, Noise, Ready, Connected, Stopped

LEMMA HoldsId ==
  ASSUME NEW q \in Seq(Events), NEW n \in 1 .. MaxResponses
  PROVE  n \in Ids(q) <=> \E i \in 1 .. Len(q) : IsResponse(q[i]) /\ q[i].id = n
<1>1. \A i \in 1 .. Len(q) : q[i] \in Events
  OBVIOUS
<1>2. \A e \in Events : e = Response(n) <=> (IsResponse(e) /\ e.id = n)
  BY EventKinds DEF Response, IsResponse
<1>3. QED
  BY <1>1, <1>2 DEF Ids, Holds

LEMMA SameIds ==
  ASSUME NEW a, NEW b, \A n \in 1 .. MaxResponses : n \in Ids(a) <=> n \in Ids(b)
  PROVE  Ids(a) = Ids(b)
  BY DEF Ids

\* What a channel holds after an event was put in: only a response adds to it.
LEMMA AppendIds ==
  ASSUME NEW q \in Seq(Events), NEW e \in Events
  PROVE  /\ Append(q, e) \in Seq(Events)
         /\ IsResponse(e) => Ids(Append(q, e)) = Ids(q) \union {e.id}
         /\ ~IsResponse(e) => Ids(Append(q, e)) = Ids(q)
<1> DEFINE r == Append(q, e)
<1>1. r \in Seq(Events) /\ Len(r) = Len(q) + 1 /\ r[Len(q) + 1] = e
      /\ \A i \in 1 .. Len(q) : r[i] = q[i]
  OBVIOUS
<1> HIDE DEF r
<1>2. ASSUME NEW n \in 1 .. MaxResponses
      PROVE  n \in Ids(r) <=> (n \in Ids(q) \/ (IsResponse(e) /\ e.id = n))
  BY <1>1, HoldsId
<1>3. IsResponse(e) => e.id \in 1 .. MaxResponses
  BY EventKinds
<1>4. \A s : Ids(s) \subseteq 1 .. MaxResponses
  BY DEF Ids
<1>5. IsResponse(e) => Ids(r) = Ids(q) \union {e.id}
  BY <1>2, <1>3, <1>4
<1>6. ASSUME ~IsResponse(e) PROVE Ids(r) = Ids(q)
  <2>1. \A n \in 1 .. MaxResponses : n \in Ids(r) <=> n \in Ids(q)
    BY <1>2, <1>6
  <2>2. QED
    BY <2>1, SameIds
<1>7. QED
  BY <1>1, <1>5, <1>6 DEF r

\* What is left of a channel after its head was taken out.
LEMMA TailIds ==
  ASSUME NEW q \in Seq(Events), q # <<>>
  PROVE  /\ Head(q) \in Events /\ Tail(q) \in Seq(Events)
         /\ Len(Tail(q)) = Len(q) - 1
         /\ IsResponse(Head(q)) => Ids(q) = Ids(Tail(q)) \union {Head(q).id}
         /\ ~IsResponse(Head(q)) => Ids(q) = Ids(Tail(q))
<1> DEFINE t == Tail(q)
<1>1. /\ t \in Seq(Events) /\ Len(t) = Len(q) - 1 /\ Len(q) \in Nat \ {0}
      /\ \A i \in 1 .. Len(t) : t[i] = q[i + 1]
      /\ Head(q) = q[1] /\ q[1] \in Events
  OBVIOUS
<1> HIDE DEF t
<1>2. ASSUME NEW n \in 1 .. MaxResponses
      PROVE  n \in Ids(q) <=> (n \in Ids(t) \/ (IsResponse(q[1]) /\ q[1].id = n))
  <2>1. ASSUME NEW i \in 1 .. Len(q), IsResponse(q[i]), q[i].id = n, i # 1
        PROVE  n \in Ids(t)
    <3>1. i - 1 \in 1 .. Len(t) /\ t[i - 1] = q[i]
      BY <1>1, <2>1
    <3>2. QED
      BY <3>1, <2>1, <1>1, HoldsId
  <2>2. ASSUME NEW i \in 1 .. Len(t), IsResponse(t[i]), t[i].id = n
        PROVE  n \in Ids(q)
    <3>1. i + 1 \in 1 .. Len(q) /\ q[i + 1] = t[i]
      BY <1>1, <2>2
    <3>2. QED
      BY <3>1, <2>2, HoldsId
  <2>3. 1 \in 1 .. Len(q)
    BY <1>1
  <2>4. QED
    BY <1>1, <2>1, <2>2, <2>3, HoldsId
<1>3. IsResponse(q[1]) => q[1].id \in 1 .. MaxResponses
  BY <1>1, EventKinds
<1>4. \A s : Ids(s) \subseteq 1 .. MaxResponses
  BY DEF Ids
<1>5. IsResponse(q[1]) => Ids(q) = Ids(t) \union {q[1].id}
  BY <1>2, <1>3, <1>4
<1>6. ASSUME ~IsResponse(q[1]) PROVE Ids(q) = Ids(t)
  <2>1. \A n \in 1 .. MaxResponses : n \in Ids(q) <=> n \in Ids(t)
    BY <1>2, <1>6
  <2>2. QED
    BY <2>1, SameIds
<1>7. QED
  BY <1>1, <1>5, <1>6 DEF t

LEMMA EmptyIds == Ids(<<>>) = {}
  BY DEF Ids, Holds

\* try_send keeps the bound, keeps what there was, and adds at most the event.
LEMMA SendIds ==
  ASSUME NEW q \in Seq(Events), NEW e \in Events, NEW cap \in Nat, Len(q) <= cap
  PROVE  /\ TrySend(q, e, cap) \in Seq(Events) /\ Len(TrySend(q, e, cap)) <= cap
         /\ ~IsResponse(e) => Ids(TrySend(q, e, cap)) = Ids(q)
<1>1. CASE Len(q) < cap
  <2>1. TrySend(q, e, cap) = Append(q, e)
    BY <1>1 DEF TrySend
  <2>2. Len(Append(q, e)) = Len(q) + 1 /\ Len(q) \in Nat
    OBVIOUS
  <2>3. QED
    BY <1>1, <2>1, <2>2, AppendIds
<1>2. CASE ~(Len(q) < cap)
  BY <1>2 DEF TrySend
<1>3. QED
  BY <1>1, <1>2

\* The parts of a path hold what the path holds.
LEMMA ConcatIds ==
  ASSUME NEW a \in Seq(Events), NEW b \in Seq(Events)
  PROVE  /\ a \o b \in Seq(Events)
         /\ \A n \in 1 .. MaxResponses : n \in Ids(a \o b) <=> (n \in Ids(a) \/ n \in Ids(b))
<1> DEFINE c == a \o b
<1>1. /\ c \in Seq(Events) /\ Len(c) = Len(a) + Len(b)
      /\ Len(a) \in Nat /\ Len(b) \in Nat
      /\ \A i \in 1 .. Len(a) : c[i] = a[i]
      /\ \A i \in 1 .. Len(b) : c[Len(a) + i] = b[i]
  OBVIOUS
<1>2. \A i \in 1 .. Len(c) : i \in 1 .. Len(a) \/ (i - Len(a) \in 1 .. Len(b) /\ c[i] = b[i - Len(a)])
  OBVIOUS
<1> HIDE DEF c
<1>3. ASSUME NEW n \in 1 .. MaxResponses, n \in Ids(a) PROVE n \in Ids(c)
  <2>1. PICK i \in 1 .. Len(a) : IsResponse(a[i]) /\ a[i].id = n
    BY <1>3, HoldsId
  <2>2. i \in 1 .. Len(c) /\ c[i] = a[i]
    BY <1>1
  <2>3. QED
    BY <1>1, <2>1, <2>2, HoldsId
<1>4. ASSUME NEW n \in 1 .. MaxResponses, n \in Ids(b) PROVE n \in Ids(c)
  <2>1. PICK i \in 1 .. Len(b) : IsResponse(b[i]) /\ b[i].id = n
    BY <1>4, HoldsId
  <2>2. Len(a) + i \in 1 .. Len(c) /\ c[Len(a) + i] = b[i]
    BY <1>1
  <2>3. QED
    BY <1>1, <2>1, <2>2, HoldsId
<1>5. ASSUME NEW n \in 1 .. MaxResponses, n \in Ids(c)
      PROVE  n \in Ids(a) \/ n \in Ids(b)
  <2>1. PICK i \in 1 .. Len(c) : IsResponse(c[i]) /\ c[i].id = n
    BY <1>1, <1>5, HoldsId
  <2>2. CASE i \in 1 .. Len(a)
    BY <1>1, <2>1, <2>2, HoldsId
  <2>3. CASE i - Len(a) \in 1 .. Len(b) /\ c[i] = b[i - Len(a)]
    BY <1>1, <2>1, <2>3, HoldsId
  <2>4. QED
    BY <1>2, <2>2, <2>3
<1>6. QED
  BY <1>1, <1>3, <1>4, <1>5 DEF c
-----------------------------------------------------------------------------
(* Channels that are in order.                                             *)

LEMMA IncreasingAppend ==
  ASSUME NEW q \in Seq(Events), NEW e \in Events, Increasing(q),
         IsResponse(e) => \A m \in Ids(q) : m < e.id
  PROVE  Increasing(Append(q, e))
<1> DEFINE r == Append(q, e)
<1>1. /\ r \in Seq(Events) /\ Len(r) = Len(q) + 1 /\ r[Len(q) + 1] = e /\ Len(q) \in Nat
      /\ \A i \in 1 .. Len(q) : r[i] = q[i] /\ q[i] \in Events
  OBVIOUS
<1> HIDE DEF r
<1>2. SUFFICES ASSUME NEW i \in 1 .. Len(r), NEW j \in 1 .. Len(r), i < j,
                      IsResponse(r[i]), IsResponse(r[j])
               PROVE  r[i].id < r[j].id
  BY DEF Increasing, r
<1>3. i \in 1 .. Len(q) /\ r[i] = q[i]
  BY <1>1, <1>2
<1>4. CASE j \in 1 .. Len(q)
  BY <1>1, <1>2, <1>3, <1>4 DEF Increasing
<1>5. CASE j = Len(q) + 1
  <2>1. q[i] \in Responses /\ q[i].id \in 1 .. MaxResponses
    BY <1>1, <1>2, <1>3, EventKinds
  <2>2. q[i].id \in Ids(q)
    BY <1>2, <1>3, <2>1, HoldsId
  <2>3. QED
    BY <1>1, <1>2, <1>3, <1>5, <2>2
<1>6. QED
  BY <1>1, <1>2, <1>4, <1>5

LEMMA IncreasingTail ==
  ASSUME NEW q \in Seq(Events), q # <<>>, Increasing(q)
  PROVE  /\ Increasing(Tail(q))
         /\ IsResponse(Head(q)) => \A m \in Ids(Tail(q)) : Head(q).id < m
<1> DEFINE t == Tail(q)
<1>1. /\ t \in Seq(Events) /\ Len(t) = Len(q) - 1 /\ Len(q) \in Nat \ {0}
      /\ \A i \in 1 .. Len(t) : t[i] = q[i + 1] /\ i + 1 \in 1 .. Len(q)
      /\ Head(q) = q[1]
  OBVIOUS
<1> HIDE DEF t
<1>2. Increasing(t)
  <2>1. SUFFICES ASSUME NEW i \in 1 .. Len(t), NEW j \in 1 .. Len(t), i < j,
                        IsResponse(t[i]), IsResponse(t[j])
                 PROVE  t[i].id < t[j].id
    BY DEF Increasing
  <2>2. /\ i + 1 \in 1 .. Len(q) /\ j + 1 \in 1 .. Len(q) /\ i + 1 < j + 1
        /\ t[i] = q[i + 1] /\ t[j] = q[j + 1]
    BY <1>1, <2>1
  <2>3. QED
    BY <2>1, <2>2 DEF Increasing
<1>3. ASSUME IsResponse(q[1]), NEW m \in Ids(t) PROVE q[1].id < m
  <2>1. m \in 1 .. MaxResponses
    BY <1>3 DEF Ids
  <2>2. PICK i \in 1 .. Len(t) : IsResponse(t[i]) /\ t[i].id = m
    BY <1>1, <1>3, <2>1, HoldsId
  <2>3. i + 1 \in 1 .. Len(q) /\ 1 \in 1 .. Len(q) /\ 1 < i + 1 /\ q[i + 1] = t[i]
    BY <1>1
  <2>4. QED
    BY <1>3, <2>2, <2>3 DEF Increasing
<1>4. QED
  BY <1>1, <1>2, <1>3 DEF t

LEMMA IncreasingEmpty == Increasing(<<>>)
  BY DEF Increasing

LEMMA IncreasingSend ==
  ASSUME NEW q \in Seq(Events), NEW e \in Events, NEW cap, Increasing(q),
         IsResponse(e) => \A m \in Ids(q) : m < e.id
  PROVE  Increasing(TrySend(q, e, cap))
  BY IncreasingAppend DEF TrySend

LEMMA IncreasingConcat ==
  ASSUME NEW a \in Seq(Events), NEW b \in Seq(Events),
         Increasing(a), Increasing(b), Precedes(a, b)
  PROVE  Increasing(a \o b)
<1> DEFINE c == a \o b
<1>1. /\ Len(c) = Len(a) + Len(b) /\ Len(a) \in Nat /\ Len(b) \in Nat
      /\ \A i \in 1 .. Len(a) : c[i] = a[i] /\ a[i] \in Events
      /\ \A i \in 1 .. Len(b) : b[i] \in Events
  OBVIOUS
<1>2. \A i \in 1 .. Len(c) : i \in 1 .. Len(a) \/ (i - Len(a) \in 1 .. Len(b) /\ c[i] = b[i - Len(a)])
  OBVIOUS
<1> HIDE DEF c
<1>3. SUFFICES ASSUME NEW i \in 1 .. Len(c), NEW j \in 1 .. Len(c), i < j,
                      IsResponse(c[i]), IsResponse(c[j])
               PROVE  c[i].id < c[j].id
  BY DEF Increasing, c
<1>4. CASE j \in 1 .. Len(a)
  BY <1>1, <1>3, <1>4 DEF Increasing
<1>5. CASE i \notin 1 .. Len(a)
  <2>1. i - Len(a) \in 1 .. Len(b) /\ j - Len(a) \in 1 .. Len(b)
        /\ i - Len(a) < j - Len(a)
        /\ c[i] = b[i - Len(a)] /\ c[j] = b[j - Len(a)]
    BY <1>1, <1>2, <1>3, <1>5
  <2>2. QED
    BY <2>1, <1>3 DEF Increasing
<1>6. CASE i \in 1 .. Len(a) /\ j \notin 1 .. Len(a)
  <2>1. c[i] = a[i] /\ j - Len(a) \in 1 .. Len(b) /\ c[j] = b[j - Len(a)]
    BY <1>1, <1>2, <1>6
  <2>2. c[i].id \in Ids(a)
    BY <1>1, <1>3, <1>6, <2>1, EventKinds, HoldsId
  <2>3. c[j].id \in Ids(b)
    BY <1>1, <1>3, <1>6, <2>1, EventKinds, HoldsId
  <2>4. QED
    BY <2>2, <2>3 DEF Precedes
<1>7. QED
  BY <1>4, <1>5, <1>6

-----------------------------------------------------------------------------
(* Type correctness.                                                       *)

LEMMA Caps == CaptureCap \in Nat /\ QueueCap \in Nat /\ MaxResponses \in Nat
              /\ CaptureCap > 0 /\ QueueCap > 0 /\ Waiting \subseteq BOOLEAN
  BY CapacityAssumption

LEMMA EmptyChannel == <<>> \in Seq(Events) /\ Len(<<>>) = 0 /\ <<>> \in Seq(Responses)
  OBVIOUS

\* What the collector thread takes is an event, and the channel stays bounded.
LEMMA TakesType ==
  ASSUME TypeOK, NEW e, TakesFromCapture(e)
  PROVE  /\ e \in Events
         /\ captureQ' \in Seq(Events) /\ Len(captureQ') <= CaptureCap
         /\ IsResponse(e) => Ids(captureQ) = Ids(captureQ') \union {e.id}
         /\ ~IsResponse(e) => Ids(captureQ) = Ids(captureQ')
<1>1. captureQ \in Seq(Events) /\ Len(captureQ) <= CaptureCap /\ captureQ # <<>>
      /\ e = Head(captureQ) /\ captureQ' = Tail(captureQ) /\ Len(captureQ) \in Nat
  BY DEF TypeOK, TakesFromCapture
<1>2. QED
  BY <1>1, TailIds, Caps

\* The thread that sends a response announces it, and the channel stays bounded.
LEMMA AnnounceType ==
  ASSUME TypeOK
  PROVE  /\ AnnounceReady \in Seq(Events) /\ Len(AnnounceReady) <= QueueCap
         /\ Ids(AnnounceReady) = Ids(queue)
         /\ Increasing(queue) => Increasing(AnnounceReady)
  BY Caps, EventKinds, SendIds, IncreasingSend DEF TypeOK, AnnounceReady

LEMMA InHand ==
  ASSUME TypeOK, WorkerSends
  PROVE  hand[1] \in Responses /\ hand[1] \in Events /\ hand = <<hand[1]>>
<1>1. hand \in Seq(Responses) /\ Len(hand) = 1
  BY DEF TypeOK, WorkerSends
<1>2. hand[1] \in Responses /\ hand = <<hand[1]>>
  BY <1>1
<1>3. QED
  BY <1>2, EventKinds

LEMMA TypeStep ==
  ASSUME TypeOK, [Next]_vars
  PROVE  TypeOK'
<1> USE Caps
<1>1. ASSUME CaptureOpens PROVE TypeOK'
  <2>1. captureQ' \in Seq(Events) /\ Len(captureQ') <= CaptureCap
    BY <1>1, SendIds, EventKinds DEF CaptureOpens, Emit, TypeOK
  <2>2. QED
    BY <1>1, <2>1 DEF CaptureOpens, TypeOK, workerVars
<1>2. ASSUME NEW failed \in BOOLEAN, CaptureEnds(failed) PROVE TypeOK'
  <2>1. captureQ' \in Seq(Events) /\ Len(captureQ') <= CaptureCap
    <3>1. TrySend(captureQ, Noise, CaptureCap) \in Seq(Events)
          /\ Len(TrySend(captureQ, Noise, CaptureCap)) <= CaptureCap
      BY SendIds, EventKinds DEF TypeOK
    <3>2. QED
      BY <1>2, <3>1, SendIds, EventKinds DEF CaptureEnds, TypeOK
  <2>2. QED
    BY <1>2, <2>1 DEF CaptureEnds, TypeOK, workerVars
<1>3. ASSUME CaptureLoops PROVE TypeOK'
  BY <1>3 DEF CaptureLoops, TypeOK, workerVars
<1>4. ASSUME PacketArrives PROVE TypeOK'
  <2>1. captureQ' \in Seq(Events) /\ Len(captureQ') <= CaptureCap /\ seen' \in 0 .. MaxResponses
    <3>1. CASE UNCHANGED <<captureQ, seen>>
      BY <3>1 DEF TypeOK
    <3>2. CASE \E e \in {Noise, Ready} : Emit(e) /\ UNCHANGED seen
      BY <3>2, SendIds, EventKinds DEF TypeOK, Emit
    <3>3. CASE seen < MaxResponses /\ seen' = seen + 1 /\ Emit(Response(seen'))
      <4>1. seen' \in 1 .. MaxResponses
        BY <3>3 DEF TypeOK
      <4>2. Response(seen') \in Events
        BY <4>1, EventKinds DEF Responses
      <4>3. QED
        BY <3>3, <4>1, <4>2, SendIds DEF TypeOK, Emit
    <3>4. QED
      BY <1>4, <3>1, <3>2, <3>3 DEF PacketArrives
  <2>2. QED
    BY <1>4, <2>1 DEF PacketArrives, NextTurn, TypeOK, workerVars
<1>5. ASSUME NoPacket PROVE TypeOK'
  <2>1. captureQ' \in Seq(Events) /\ Len(captureQ') <= CaptureCap
    BY <1>5, SendIds, EventKinds DEF NoPacket, Emit, TypeOK
  <2>2. QED
    BY <1>5, <2>1 DEF NoPacket, NextTurn, TypeOK, workerVars
<1>6. ASSUME Greet PROVE TypeOK'
  <2>1. queue' \in Seq(Events) /\ Len(queue') <= QueueCap
    BY <1>6, SendIds, EventKinds DEF Greet, TypeOK
  <2>2. captureQ' \in Seq(Events) /\ Len(captureQ') <= CaptureCap
    BY <1>6 DEF Greet
  <2>3. /\ worker = "greeting" /\ worker' = "checking" /\ readyKnown' = FALSE
        /\ capture' = "opening" /\ control' = "none" /\ captureStop' = FALSE
        /\ UNCHANGED <<blocking, hand, stop, handle, applied, seen>>
    BY <1>6 DEF Greet
  <2>4. QED
    BY <2>1, <2>2, <2>3 DEF TypeOK
<1>7. ASSUME WorkerLoops PROVE TypeOK'
  BY <1>7 DEF WorkerLoops, TypeOK, captureVars
<1>8. ASSUME WorkerTakesNoise PROVE TypeOK'
  <2>1. TakesFromCapture(Noise) /\ worker = "receiving"
    BY <1>8 DEF WorkerTakesNoise, TakesFromCapture
  <2>2. queue' \in Seq(Events) /\ Len(queue') <= QueueCap
    BY <1>8, SendIds, EventKinds DEF WorkerTakesNoise, TypeOK
  <2>3. QED
    BY <1>8, <2>1, <2>2, TakesType DEF WorkerTakesNoise, TakesFromCapture, TypeOK, captureVars
<1>9. ASSUME WorkerTakesReady PROVE TypeOK'
  <2>1. TakesFromCapture(Ready) /\ worker = "receiving"
    BY <1>9 DEF WorkerTakesReady, TakesFromCapture
  <2>2. TrySend(queue, Noise, QueueCap) \in Seq(Events)
        /\ Len(TrySend(queue, Noise, QueueCap)) <= QueueCap
    BY SendIds, EventKinds DEF TypeOK
  <2>3. queue' \in Seq(Events) /\ Len(queue') <= QueueCap
    BY <1>9, <2>2, SendIds, EventKinds DEF WorkerTakesReady
  <2>4. QED
    BY <1>9, <2>1, <2>3, TakesType DEF WorkerTakesReady, TakesFromCapture, TypeOK, captureVars
<1>10. ASSUME WorkerTakesResponse PROVE TypeOK'
  <2>1. PICK e \in Responses : WorkerTakesResponse!(e)
    BY <1>10 DEF WorkerTakesResponse
  <2>2. TakesFromCapture(e) /\ worker = "receiving"
    BY <2>1 DEF TakesFromCapture
  <2>3. queue' \in Seq(Events) /\ Len(queue') <= QueueCap
    BY <2>1, AnnounceType, SendIds, EventKinds
  <2>4. /\ hand' \in Seq(Responses) /\ Len(hand') = (IF worker' = "sending" THEN 1 ELSE 0)
        /\ worker' \in {"sending", "checking"} /\ readyKnown' \in BOOLEAN
    <3>1. <<e>> \in Seq(Responses) /\ Len(<<e>>) = 1
      OBVIOUS
    <3>2. QED
      BY <2>1, <2>2, <3>1 DEF TypeOK
  <2>5. QED
    BY <2>2, <2>3, <2>4, TakesType DEF TakesFromCapture, TypeOK, captureVars
<1>11. ASSUME WorkerSends PROVE TypeOK'
  <2>1. hand[1] \in Events
    BY <1>11, InHand
  <2>2. queue' \in Seq(Events) /\ Len(queue') <= QueueCap
    BY <1>11, <2>1 DEF WorkerSends, TypeOK
  <2>3. QED
    BY <1>11, <2>2, EmptyChannel DEF WorkerSends, TypeOK, captureVars
<1>12. ASSUME WorkerTakesStopped PROVE TypeOK'
  <2>1. TakesFromCapture(Stopped) /\ worker = "receiving"
    BY <1>12 DEF WorkerTakesStopped, TakesFromCapture
  <2>2. QED
    BY <1>12, <2>1, TakesType DEF WorkerTakesStopped, TakesFromCapture, TypeOK, captureVars
<1>13. ASSUME WorkerTimesOut PROVE TypeOK'
  BY <1>13 DEF WorkerTimesOut, TypeOK, captureVars
<1>14. ASSUME WorkerStopsCapture \/ WorkerShutsSource PROVE TypeOK'
  BY <1>14 DEF WorkerStopsCapture, WorkerShutsSource, TypeOK
<1>15. ASSUME WorkerJoins PROVE TypeOK'
  <2>1. queue' \in Seq(Events) /\ Len(queue') <= QueueCap
    BY <1>15, SendIds, EventKinds DEF WorkerJoins, TypeOK
  <2>2. QED
    BY <1>15, <2>1 DEF WorkerJoins, TypeOK, captureVars
<1>16. ASSUME UiTakes PROVE TypeOK'
  <2>1. PICK e \in Events : Take(e) /\ Apply(e)
    BY <1>16 DEF UiTakes
  <2>2. queue' \in Seq(Events) /\ Len(queue') <= QueueCap
    BY <2>1, TailIds DEF Take, TypeOK
  <2>3. applied' \in Seq(Responses)
    BY <2>1, EventKinds DEF Apply, TypeOK
  <2>4. QED
    BY <1>16, <2>2, <2>3 DEF UiTakes, TypeOK, captureVars, workerVars
<1>17. ASSUME UiCloses \/ UiJoins PROVE TypeOK'
  BY <1>17 DEF UiCloses, UiJoins, Release, Joined, TypeOK, captureVars, workerVars
<1>18. ASSUME UNCHANGED vars PROVE TypeOK'
  BY <1>18 DEF vars, captureVars, workerVars, TypeOK
<1>19. QED
  BY <1>1, <1>2, <1>3, <1>4, <1>5, <1>6, <1>7, <1>8, <1>9, <1>10, <1>11, <1>12,
     <1>13, <1>14, <1>15, <1>16, <1>17, <1>18
  DEF Next, ThreadStep, CaptureStep, WorkerStep, CaptureCannotOpen, CaptureFails,
      CaptureStops

\* No channel is ever above its bound, and the collector thread holds a response
\* exactly while it is sending it (collector lib.rs:91-183).
THEOREM CollectorTypeCorrect == Spec => []TypeOK
<1>1. Init => TypeOK
  <2> SUFFICES ASSUME Init PROVE TypeOK
    OBVIOUS
  <2>1. /\ captureQ \in Seq(Events) /\ Len(captureQ) <= CaptureCap
        /\ queue \in Seq(Events) /\ Len(queue) <= QueueCap
        /\ hand \in Seq(Responses) /\ Len(hand) = 0 /\ applied \in Seq(Responses)
    BY Caps DEF Init
  <2>2. /\ capture = "done" /\ blocking = FALSE /\ control = "none" /\ captureStop = FALSE
        /\ worker = "greeting" /\ readyKnown = FALSE
        /\ stop = FALSE /\ handle = "open" /\ seen \in 0 .. MaxResponses
    BY Caps DEF Init
  <2>3. QED
    BY <2>1, <2>2 DEF TypeOK
<1>2. QED
  BY <1>1, TypeStep, PTL DEF Spec

-----------------------------------------------------------------------------
(* The order of the responses.                                             *)

\* The inductive invariant: every part of the path is in order, every part
\* precedes the later ones, and nothing on the path is newer than seen.
InOrder ==
  /\ Increasing(applied) /\ Increasing(queue) /\ Increasing(hand) /\ Increasing(captureQ)
  /\ Precedes(applied, queue) /\ Precedes(applied, hand) /\ Precedes(applied, captureQ)
  /\ Precedes(queue, hand) /\ Precedes(queue, captureQ) /\ Precedes(hand, captureQ)
  /\ \A n \in Ids(applied) \union Ids(queue) \union Ids(hand) \union Ids(captureQ) : n <= seen

LEMMA ResponseSeqs ==
  ASSUME NEW q \in Seq(Responses) PROVE q \in Seq(Events)
  BY EventKinds

LEMMA IdsAreNumbers == \A q : Ids(q) \subseteq 1 .. MaxResponses
  BY DEF Ids

\* A step that only drops from the path, or puts routine events into it.
LEMMA FewerInOrder ==
  ASSUME InOrder,
         Increasing(applied)', Increasing(queue)', Increasing(hand)', Increasing(captureQ)',
         Ids(applied') \subseteq Ids(applied), Ids(queue') \subseteq Ids(queue),
         Ids(hand') \subseteq Ids(hand), Ids(captureQ') \subseteq Ids(captureQ),
         seen' = seen
  PROVE  InOrder'
  BY DEF InOrder, Precedes

\* The head that the collector thread takes precedes what is left.
LEMMA TakesOrder ==
  ASSUME TypeOK, InOrder, NEW e, TakesFromCapture(e)
  PROVE  /\ Increasing(captureQ)'
         /\ IsResponse(e) => \A m \in Ids(captureQ') : e.id < m
<1>1. captureQ \in Seq(Events) /\ captureQ # <<>> /\ e = Head(captureQ)
      /\ captureQ' = Tail(captureQ) /\ Increasing(captureQ)
  BY DEF TypeOK, TakesFromCapture, InOrder
<1>2. QED
  BY <1>1, IncreasingTail

LEMMA OneResponse ==
  ASSUME NEW e \in Responses
  PROVE  <<e>> \in Seq(Responses) /\ Increasing(<<e>>) /\ Ids(<<e>>) = {e.id}
<1> DEFINE q == <<>>
           r == Append(q, e)
<1>1. <<e>> \in Seq(Responses) /\ <<e>> = r /\ q \in Seq(Events)
  OBVIOUS
<1>2. e \in Events /\ IsResponse(e)
  BY EventKinds
<1>3. Ids(q) = {} /\ Increasing(q)
  BY EmptyIds, IncreasingEmpty
<1> HIDE DEF q
<1>4. Ids(r) = {e.id} /\ Increasing(r)
  BY <1>1, <1>2, <1>3, AppendIds, IncreasingAppend
<1> HIDE DEF r
<1>5. QED
  BY <1>1, <1>4

LEMMA OrderStep ==
  ASSUME TypeOK, InOrder, [Next]_vars
  PROVE  InOrder'
<1> USE Caps
<1>a. applied \in Seq(Events) /\ hand \in Seq(Events) /\ queue \in Seq(Events)
      /\ captureQ \in Seq(Events) /\ Len(queue) <= QueueCap /\ Len(captureQ) <= CaptureCap
  BY ResponseSeqs DEF TypeOK
<1>b. Increasing(applied) /\ Increasing(queue) /\ Increasing(hand) /\ Increasing(captureQ)
  BY DEF InOrder
\* A routine event put into the channel of the capture thread, or nothing.
<1>c. ASSUME UNCHANGED <<applied, queue, hand, seen>>,
             captureQ' \in Seq(Events), Increasing(captureQ'), Ids(captureQ') = Ids(captureQ)
      PROVE  InOrder'
  BY <1>b, <1>c, FewerInOrder
<1>1. ASSUME CaptureOpens \/ NoPacket PROVE InOrder'
  <2>1. UNCHANGED <<applied, queue, hand, seen>>
        /\ (captureQ' = captureQ \/ captureQ' = TrySend(captureQ, Noise, CaptureCap))
    BY <1>1 DEF CaptureOpens, NoPacket, NextTurn, Emit, workerVars
  <2>2. QED
    BY <2>1, <1>a, <1>b, <1>c, SendIds, IncreasingSend, EventKinds
<1>2. ASSUME NEW failed \in BOOLEAN, CaptureEnds(failed) PROVE InOrder'
  <2> DEFINE q == IF failed THEN TrySend(captureQ, Noise, CaptureCap) ELSE captureQ
  <2>1. UNCHANGED <<applied, queue, hand, seen>> /\ captureQ' = TrySend(q, Stopped, CaptureCap)
    BY <1>2 DEF CaptureEnds, workerVars
  <2>2. q \in Seq(Events) /\ Len(q) <= CaptureCap /\ Ids(q) = Ids(captureQ) /\ Increasing(q)
    BY <1>a, <1>b, SendIds, IncreasingSend, EventKinds
  <2> HIDE DEF q
  <2>3. QED
    BY <2>1, <2>2, <1>c, SendIds, IncreasingSend, EventKinds
<1>3. ASSUME PacketArrives PROVE InOrder'
  <2>1. UNCHANGED <<applied, queue, hand>>
    BY <1>3 DEF PacketArrives, NextTurn, workerVars
  <2>2. CASE \/ UNCHANGED <<captureQ, seen>>
             \/ \E e \in {Noise, Ready} : Emit(e) /\ UNCHANGED seen
    BY <2>1, <2>2, <1>a, <1>b, <1>c, SendIds, IncreasingSend, EventKinds DEF Emit
  <2>3. CASE seen < MaxResponses /\ seen' = seen + 1 /\ Emit(Response(seen'))
    <3> DEFINE e == Response(seen')
    <3>1. seen \in Nat /\ seen' \in 1 .. MaxResponses /\ seen' = seen + 1
      BY <2>3 DEF TypeOK
    <3>2. e \in Events /\ IsResponse(e) /\ e.id = seen'
      BY <3>1, EventKinds DEF Responses, Response
    <3>3. captureQ' = captureQ \/ captureQ' = Append(captureQ, e)
      BY <2>3 DEF Emit, TrySend
    <3> HIDE DEF e
    <3>4. \A n \in Ids(captureQ) : n < e.id
      BY <3>1, <3>2, IdsAreNumbers DEF InOrder
    <3>5. Ids(captureQ') \subseteq Ids(captureQ) \union {seen'} /\ Increasing(captureQ')
      BY <1>a, <1>b, <3>2, <3>3, <3>4, AppendIds, IncreasingAppend
    <3>6. \A n \in Ids(applied) \union Ids(queue) \union Ids(hand) \union Ids(captureQ) : n < seen'
      BY <3>1, IdsAreNumbers DEF InOrder
    <3>7. \A n \in Ids(applied) \union Ids(queue) \union Ids(hand) \union Ids(captureQ') : n <= seen'
      BY <3>1, <3>5, <3>6, IdsAreNumbers
    <3>8. Precedes(applied, captureQ') /\ Precedes(queue, captureQ') /\ Precedes(hand, captureQ')
      BY <3>5, <3>6 DEF InOrder, Precedes
    <3>9. QED
      BY <2>1, <3>5, <3>7, <3>8 DEF InOrder
  <2>4. QED
    BY <1>3, <2>2, <2>3 DEF PacketArrives
<1>4. ASSUME Greet PROVE InOrder'
  <2>1. UNCHANGED <<applied, hand, seen>> /\ captureQ' = <<>>
        /\ queue' = TrySend(queue, Connected, QueueCap)
    BY <1>4 DEF Greet
  <2>2. Ids(queue') = Ids(queue) /\ Increasing(queue')
    BY <2>1, <1>a, <1>b, SendIds, IncreasingSend, EventKinds
  <2>3. Ids(captureQ') \subseteq Ids(captureQ) /\ Increasing(captureQ')
    BY <2>1, EmptyIds, IncreasingEmpty
  <2>4. QED
    BY <1>b, <2>1, <2>2, <2>3, FewerInOrder
\* A routine event that passes through the collector thread.
<1>5. ASSUME NEW e, TakesFromCapture(e), ~IsResponse(e), UNCHANGED hand,
             Ids(queue') = Ids(queue), Increasing(queue')
      PROVE  InOrder'
  <2>1. UNCHANGED <<applied, seen>>
    BY <1>5 DEF TakesFromCapture
  <2>2. QED
    BY <1>5, <2>1, <1>b, TakesType, TakesOrder, FewerInOrder
<1>6. ASSUME WorkerTakesNoise \/ WorkerTakesStopped PROVE InOrder'
  <2>1. UNCHANGED hand /\ (queue' = queue \/ queue' = TrySend(queue, Noise, QueueCap))
        /\ (TakesFromCapture(Noise) \/ TakesFromCapture(Stopped))
    BY <1>6 DEF WorkerTakesNoise, WorkerTakesStopped
  <2>2. Ids(queue') = Ids(queue) /\ Increasing(queue')
    BY <2>1, <1>a, <1>b, SendIds, IncreasingSend, EventKinds
  <2>3. QED
    BY <2>1, <2>2, <1>5, EventKinds
<1>7. ASSUME WorkerTakesReady PROVE InOrder'
  <2> DEFINE q == TrySend(queue, Noise, QueueCap)
  <2>1. UNCHANGED hand /\ queue' = TrySend(q, Ready, QueueCap) /\ TakesFromCapture(Ready)
    BY <1>7 DEF WorkerTakesReady
  <2>2. q \in Seq(Events) /\ Len(q) <= QueueCap /\ Ids(q) = Ids(queue) /\ Increasing(q)
    BY <1>a, <1>b, SendIds, IncreasingSend, EventKinds
  <2> HIDE DEF q
  <2>3. Ids(queue') = Ids(queue) /\ Increasing(queue')
    BY <2>1, <2>2, SendIds, IncreasingSend, EventKinds
  <2>4. QED
    BY <2>1, <2>3, <1>5, EventKinds
<1>8. ASSUME WorkerTakesResponse PROVE InOrder'
  <2>1. PICK e \in Responses : WorkerTakesResponse!(e)
    BY <1>8 DEF WorkerTakesResponse
  <2>2. TakesFromCapture(e) /\ UNCHANGED <<applied, seen>> /\ e \in Events /\ IsResponse(e)
    BY <2>1, EventKinds DEF TakesFromCapture
  <2>3. /\ Ids(captureQ) = Ids(captureQ') \union {e.id}
        /\ Increasing(captureQ') /\ \A m \in Ids(captureQ') : e.id < m
    BY <2>2, TakesType, TakesOrder
  <2>4. Ids(queue') = Ids(queue) /\ Increasing(queue')
    BY <2>1, <1>b, AnnounceType, SendIds, IncreasingSend, EventKinds
  <2>5. CASE hand' = <<e>>
    <3>1. Ids(hand') = {e.id} /\ Increasing(hand')
      BY <2>5, OneResponse
    <3>2. /\ Precedes(applied', hand') /\ Precedes(applied', captureQ')
          /\ Precedes(queue', hand') /\ Precedes(queue', captureQ')
          /\ Precedes(applied', queue') /\ Precedes(hand', captureQ')
      BY <2>2, <2>3, <2>4, <3>1 DEF InOrder, Precedes
    <3>3. \A n \in Ids(applied') \union Ids(queue') \union Ids(hand') \union Ids(captureQ') : n <= seen'
      BY <2>2, <2>3, <2>4, <3>1 DEF InOrder
    <3>4. QED
      BY <1>b, <2>2, <2>3, <2>4, <3>1, <3>2, <3>3 DEF InOrder
  <2>6. CASE UNCHANGED hand
    BY <1>b, <2>2, <2>3, <2>4, <2>6, FewerInOrder
  <2>7. QED
    BY <2>1, <2>5, <2>6
<1>9. ASSUME WorkerSends PROVE InOrder'
  <2> DEFINE e == hand[1]
  <2>1. e \in Responses /\ e \in Events /\ IsResponse(e) /\ hand = <<e>>
    BY <1>9, InHand, EventKinds
  <2>2. queue' = Append(queue, e) /\ hand' = <<>> /\ UNCHANGED <<applied, captureQ, seen>>
    BY <1>9 DEF WorkerSends
  <2> HIDE DEF e
  <2>3. Ids(hand) = {e.id} /\ Ids(hand') = {} /\ Increasing(hand')
    BY <2>1, <2>2, OneResponse, EmptyIds, IncreasingEmpty
  <2>4. Ids(queue') = Ids(queue) \union {e.id}
    BY <1>a, <2>1, <2>2, AppendIds
  <2>5. Increasing(queue')
    BY <1>a, <1>b, <2>1, <2>2, <2>3, IncreasingAppend DEF InOrder, Precedes
  <2>6. /\ Precedes(applied', hand') /\ Precedes(applied', captureQ')
        /\ Precedes(queue', hand') /\ Precedes(queue', captureQ')
        /\ Precedes(applied', queue') /\ Precedes(hand', captureQ')
    BY <2>2, <2>3, <2>4 DEF InOrder, Precedes
  <2>7. \A n \in Ids(applied') \union Ids(queue') \union Ids(hand') \union Ids(captureQ') : n <= seen'
    BY <2>2, <2>3, <2>4 DEF InOrder
  <2>8. QED
    BY <1>b, <2>2, <2>3, <2>5, <2>6, <2>7 DEF InOrder
<1>10. ASSUME WorkerJoins PROVE InOrder'
  <2>1. UNCHANGED <<applied, hand, captureQ, seen>> /\ queue' = TrySend(queue, Stopped, QueueCap)
    BY <1>10 DEF WorkerJoins
  <2>2. QED
    BY <2>1, <1>a, <1>b, SendIds, IncreasingSend, EventKinds, FewerInOrder
<1>11. ASSUME UiTakes PROVE InOrder'
  <2>1. PICK e \in Events : Take(e) /\ Apply(e)
    BY <1>11 DEF UiTakes
  <2>2. e = Head(queue) /\ queue # <<>> /\ queue' = Tail(queue) /\ UNCHANGED <<hand, captureQ, seen>>
    BY <1>11, <2>1 DEF UiTakes, Take, workerVars
  <2>3. /\ Increasing(queue')
        /\ IsResponse(e) => \A m \in Ids(queue') : e.id < m
        /\ IsResponse(e) => Ids(queue) = Ids(queue') \union {e.id}
        /\ ~IsResponse(e) => Ids(queue) = Ids(queue')
    BY <1>a, <1>b, <2>2, TailIds, IncreasingTail
  <2>4. CASE ~IsResponse(e)
    BY <1>b, <2>1, <2>2, <2>3, <2>4, FewerInOrder DEF Apply
  <2>5. CASE IsResponse(e)
    <3>1. applied' = Append(applied, e)
      BY <2>1, <2>5 DEF Apply
    <3>2. Ids(applied') = Ids(applied) \union {e.id}
      BY <1>a, <2>5, <3>1, AppendIds
    <3>3. Increasing(applied')
      BY <1>a, <1>b, <2>3, <2>5, <3>1, IncreasingAppend DEF InOrder, Precedes
    <3>4. /\ Precedes(applied', hand') /\ Precedes(applied', captureQ')
          /\ Precedes(queue', hand') /\ Precedes(queue', captureQ')
          /\ Precedes(applied', queue') /\ Precedes(hand', captureQ')
      BY <2>2, <2>3, <2>5, <3>2 DEF InOrder, Precedes
    <3>5. \A n \in Ids(applied') \union Ids(queue') \union Ids(hand') \union Ids(captureQ') : n <= seen'
      BY <2>2, <2>3, <2>5, <3>2 DEF InOrder
    <3>6. QED
      BY <1>b, <2>2, <2>3, <3>3, <3>4, <3>5 DEF InOrder
  <2>6. QED
    BY <2>4, <2>5
<1>12. ASSUME UNCHANGED <<applied, queue, hand, captureQ, seen>> PROVE InOrder'
  BY <1>b, <1>12, FewerInOrder
<1>13. ASSUME CaptureLoops \/ WorkerLoops \/ WorkerTimesOut \/ WorkerStopsCapture
              \/ WorkerShutsSource \/ UiCloses \/ UiJoins \/ UNCHANGED vars
       PROVE  UNCHANGED <<applied, queue, hand, captureQ, seen>>
  BY <1>13 DEF CaptureLoops, WorkerLoops, WorkerTimesOut, WorkerStopsCapture,
     WorkerShutsSource, UiCloses, UiJoins, vars, workerVars
<1>14. QED
  BY <1>1, <1>2, <1>3, <1>4, <1>6, <1>7, <1>8, <1>9, <1>10, <1>11, <1>12, <1>13
  DEF Next, ThreadStep, CaptureStep, WorkerStep, CaptureCannotOpen, CaptureFails,
      CaptureStops

LEMMA PathInOrder ==
  ASSUME TypeOK, InOrder
  PROVE  ResponsesInOrder
<1>1. applied \in Seq(Events) /\ hand \in Seq(Events) /\ queue \in Seq(Events)
      /\ captureQ \in Seq(Events)
  BY ResponseSeqs DEF TypeOK
<1> DEFINE a == applied \o queue
           b == a \o hand
<1>2. a \in Seq(Events) /\ Increasing(a)
      /\ \A n \in 1 .. MaxResponses : n \in Ids(a) <=> (n \in Ids(applied) \/ n \in Ids(queue))
  BY <1>1, ConcatIds, IncreasingConcat DEF InOrder
<1> HIDE DEF a
<1>3. Precedes(a, hand) /\ Precedes(a, captureQ)
  BY <1>2, IdsAreNumbers DEF InOrder, Precedes
<1>4. b \in Seq(Events) /\ Increasing(b)
      /\ \A n \in 1 .. MaxResponses : n \in Ids(b) <=> (n \in Ids(a) \/ n \in Ids(hand))
  BY <1>1, <1>2, <1>3, ConcatIds, IncreasingConcat DEF InOrder
<1> HIDE DEF b
<1>5. Precedes(b, captureQ)
  BY <1>3, <1>4, IdsAreNumbers DEF InOrder, Precedes
<1>6. Increasing(b \o captureQ)
  BY <1>1, <1>4, <1>5, IncreasingConcat DEF InOrder
<1>7. QED
  BY <1>6 DEF ResponsesInOrder, a, b

\* From the capture thread to the window the responses stay in order and none
\* is applied twice, for channels of any size (collector lib.rs:115-183).
THEOREM OrderOfResponses == Spec => []ResponsesInOrder
<1>1. Init => InOrder
  <2> SUFFICES ASSUME Init PROVE InOrder
    OBVIOUS
  <2>1. applied = <<>> /\ queue = <<>> /\ hand = <<>> /\ captureQ = <<>>
    BY DEF Init
  <2>2. QED
    BY <2>1, EmptyIds, IncreasingEmpty DEF InOrder, Precedes
<1>2. TypeOK /\ InOrder /\ [Next]_vars => InOrder'
  BY OrderStep
<1>3. TypeOK /\ InOrder => ResponsesInOrder
  BY PathInOrder
<1>4. QED
  BY <1>1, <1>2, <1>3, CollectorTypeCorrect, PTL DEF Spec

-----------------------------------------------------------------------------
(* What the collector thread has accepted.                                 *)

LEMMA ThreeParts ==
  ASSUME NEW x \in Seq(Responses), NEW y \in Seq(Events), NEW z \in Seq(Responses),
         NEW n \in 1 .. MaxResponses
  PROVE  Holds(x \o y \o z, n) <=> n \in Ids(x) \union Ids(y) \union Ids(z)
<1>1. x \in Seq(Events) /\ z \in Seq(Events)
  BY ResponseSeqs
<1> DEFINE a == x \o y
<1>2. a \in Seq(Events) /\ (n \in Ids(a) <=> (n \in Ids(x) \/ n \in Ids(y)))
  BY <1>1, ConcatIds
<1> HIDE DEF a
<1>3. n \in Ids(a \o z) <=> (n \in Ids(a) \/ n \in Ids(z))
  BY <1>1, <1>2, ConcatIds
<1>4. n \in Ids(a \o z) <=> Holds(x \o y \o z, n)
  BY DEF Ids, a
<1>5. QED
  BY <1>2, <1>3, <1>4

\* One step of any thread takes no response off the way.
LEMMA AcceptedStep ==
  ASSUME TypeOK, [Next]_vars
  PROVE  /\ Ids(applied) \union Ids(queue) \union Ids(hand)
              \subseteq Ids(applied') \union Ids(queue') \union Ids(hand')
<1> USE Caps
<1>a. applied \in Seq(Events) /\ hand \in Seq(Events) /\ queue \in Seq(Events)
      /\ Len(queue) <= QueueCap
  BY ResponseSeqs DEF TypeOK
<1>1. ASSUME UNCHANGED <<applied, queue, hand>>
      PROVE  Ids(applied) \union Ids(queue) \union Ids(hand)
                \subseteq Ids(applied') \union Ids(queue') \union Ids(hand')
  BY <1>1
<1>2. ASSUME CaptureStep \/ CaptureFails \/ PacketArrives
      PROVE  UNCHANGED <<applied, queue, hand>>
  BY <1>2 DEF CaptureStep, CaptureOpens, CaptureCannotOpen, CaptureStops, CaptureLoops,
     NoPacket, CaptureFails, PacketArrives, NextTurn, CaptureEnds, workerVars
<1>3. ASSUME WorkerLoops \/ WorkerTakesStopped \/ WorkerTimesOut \/ WorkerStopsCapture
              \/ WorkerShutsSource \/ UiCloses \/ UiJoins \/ UNCHANGED vars
      PROVE  UNCHANGED <<applied, queue, hand>>
  BY <1>3 DEF WorkerLoops, WorkerTakesStopped, TakesFromCapture, WorkerTimesOut,
     WorkerStopsCapture, WorkerShutsSource, UiCloses, UiJoins, vars, workerVars
<1>4. ASSUME UNCHANGED <<applied, hand>>, Ids(queue') = Ids(queue)
      PROVE  Ids(applied) \union Ids(queue) \union Ids(hand)
                \subseteq Ids(applied') \union Ids(queue') \union Ids(hand')
  BY <1>4
<1>5. ASSUME Greet \/ WorkerTakesNoise \/ WorkerTakesReady \/ WorkerJoins
      PROVE  UNCHANGED <<applied, hand>> /\ Ids(queue') = Ids(queue)
  <2> DEFINE q == TrySend(queue, Noise, QueueCap)
  <2>1. q \in Seq(Events) /\ Len(q) <= QueueCap /\ Ids(q) = Ids(queue)
    BY <1>a, SendIds, EventKinds
  <2>2. /\ UNCHANGED <<applied, hand>>
        /\ \/ queue' = TrySend(queue, Connected, QueueCap)
           \/ queue' = q
           \/ queue' = TrySend(q, Ready, QueueCap)
           \/ queue' = TrySend(queue, Stopped, QueueCap)
    BY <1>5 DEF Greet, WorkerTakesNoise, WorkerTakesReady, WorkerJoins, TakesFromCapture
  <2> HIDE DEF q
  <2>3. QED
    BY <1>a, <2>1, <2>2, SendIds, EventKinds
<1>6. ASSUME WorkerTakesResponse
      PROVE  /\ UNCHANGED applied /\ Ids(queue') = Ids(queue)
             /\ Ids(hand) \subseteq Ids(hand')
  <2>1. PICK e \in Responses : WorkerTakesResponse!(e)
    BY <1>6 DEF WorkerTakesResponse
  <2>2. worker = "receiving" /\ UNCHANGED applied
    BY <2>1 DEF TakesFromCapture
  <2>3. Ids(queue') = Ids(queue)
    BY <2>1, AnnounceType, SendIds, EventKinds
  <2>4. hand = <<>>
    BY <2>2 DEF TypeOK
  <2>5. Ids(hand) = {}
    BY <2>4, EmptyIds
  <2>6. QED
    BY <2>2, <2>3, <2>5
<1>7. ASSUME WorkerSends
      PROVE  UNCHANGED applied /\ Ids(queue') = Ids(queue) \union Ids(hand)
  <2> DEFINE e == hand[1]
  <2>1. e \in Responses /\ e \in Events /\ IsResponse(e) /\ hand = <<e>>
    BY <1>7, InHand, EventKinds
  <2>2. queue' = Append(queue, e) /\ UNCHANGED applied
    BY <1>7 DEF WorkerSends
  <2> HIDE DEF e
  <2>3. QED
    BY <1>a, <2>1, <2>2, OneResponse, AppendIds
<1>8. ASSUME UiTakes
      PROVE  UNCHANGED hand /\ Ids(applied) \union Ids(queue) = Ids(applied') \union Ids(queue')
  <2>1. PICK e \in Events : Take(e) /\ Apply(e)
    BY <1>8 DEF UiTakes
  <2>2. e = Head(queue) /\ queue # <<>> /\ queue' = Tail(queue) /\ UNCHANGED hand
    BY <1>8, <2>1 DEF UiTakes, Take, workerVars
  <2>3. /\ IsResponse(e) => Ids(queue) = Ids(queue') \union {e.id}
        /\ ~IsResponse(e) => Ids(queue) = Ids(queue')
    BY <1>a, <2>2, TailIds
  <2>4. CASE IsResponse(e)
    <3>1. Ids(applied') = Ids(applied) \union {e.id}
      BY <1>a, <2>1, <2>4, AppendIds DEF Apply
    <3>2. QED
      BY <2>2, <2>3, <2>4, <3>1
  <2>5. CASE ~IsResponse(e)
    <3>1. applied' = applied
      BY <2>1, <2>5 DEF Apply
    <3>2. QED
      BY <2>2, <2>3, <2>5, <3>1
  <2>6. QED
    BY <2>4, <2>5
<1>9. QED
  BY <1>1, <1>2, <1>3, <1>4, <1>5, <1>6, <1>7, <1>8 DEF Next, ThreadStep, WorkerStep

\* A response the collector thread has taken on stays on its way or on screen
\* (collector lib.rs:153-162).
THEOREM AcceptedIsKept == Spec => CollectorKeepsResponses
<1>1. TypeOK /\ TypeOK' /\ [Next]_vars =>
        [\A n \in 1 .. MaxResponses : OnItsWay(n) /\ handle' = "open" => OnItsWay(n)']_vars
  <2> SUFFICES ASSUME TypeOK, TypeOK', [Next]_vars, NEW n \in 1 .. MaxResponses, OnItsWay(n)
               PROVE  OnItsWay(n)'
    OBVIOUS
  <2>1. n \in Ids(applied) \union Ids(queue) \union Ids(hand)
    BY ThreeParts DEF TypeOK, OnItsWay
  <2>2. n \in Ids(applied') \union Ids(queue') \union Ids(hand')
    BY <2>1, AcceptedStep
  <2>3. OnItsWay(n)' <=> n \in Ids(applied') \union Ids(queue') \union Ids(hand')
    BY ThreeParts DEF TypeOK, OnItsWay
  <2>4. QED
    BY <2>2, <2>3
<1>2. QED
  BY <1>1, CollectorTypeCorrect, PTL DEF Spec, CollectorKeepsResponses
=============================================================================
