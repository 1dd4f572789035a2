------------------------- MODULE RemoteCaptureProofs -------------------------
(***************************************************************************)
(* Proofs about module RemoteCapture, for channels and a connection of any *)
(* size, any number of responses and of abandoned connections.  The first  *)
(* half of the path is the collector's, for which CollectorProofs has the  *)
(* lemmas; what the service, the client thread and the window add to it is *)
(* argued in the same way, on the numbers of the responses.                *)
(***************************************************************************)
EXTENDS RemoteCapture, CollectorProofs

\* A collector that is gone has ended, and its capture before it; a new one has
\* not started a capture yet.
SessionInv ==
  /\ handle = "gone" => worker = "done"
  /\ worker \in {"greeting", "done"} => capture = "done"

\* What a lost connection left in the line buffer is gone before the next line.
LineInv == garbled = FALSE /\ (client = "reading" => line # "torn")

\* A connection is queued only while the backlog has room for it to be given up.
BacklogInv == link = "queued" => stale < MaxStale

-----------------------------------------------------------------------------
(* Types.                                                                  *)

LEMMA RemoteCaps ==
  WireCap \in Nat /\ ClientCap \in Nat /\ WireCap > 0 /\ ClientCap > 0 /\ MaxStale \in Nat
  BY RemoteAssumption

\* A part of what was on the connection reaches the client before it is closed.
LEMMA PrefixFacts ==
  ASSUME NEW q \in Seq(Events), NEW n \in 0 .. Len(q)
  PROVE  /\ SubSeq(q, 1, n) \in Seq(Events) /\ Len(SubSeq(q, 1, n)) = n
         /\ \A i \in 1 .. n : SubSeq(q, 1, n)[i] = q[i]
  OBVIOUS

\* The threads of the collector do their steps as in module Collector.
LEMMA CollectorStepIsNext ==
  ASSUME CollectorSteps
  PROVE  [Next]_vars
  BY DEF CollectorSteps, Next

LEMMA ThreadsKeepSession ==
  ASSUME SessionInv, ThreadStep
  PROVE  SessionInv'
<1>1. CASE CaptureStep \/ CaptureFails \/ PacketArrives
  BY <1>1 DEF SessionInv, CaptureStep, CaptureOpens, CaptureCannotOpen, CaptureStops,
     CaptureLoops, NoPacket, CaptureFails, PacketArrives, NextTurn, CaptureEnds, workerVars
<1>2. CASE WorkerStep
  BY <1>2 DEF SessionInv, WorkerStep, Greet, WorkerLoops, WorkerTakesNoise,
     WorkerTakesReady, WorkerTakesResponse, WorkerTakesStopped, WorkerTimesOut,
     WorkerSends, WorkerStopsCapture, WorkerShutsSource, WorkerJoins, TakesFromCapture,
     captureVars
<1>3. QED
  BY <1>1, <1>2 DEF ThreadStep

LEMMA SameCollector ==
  ASSUME TypeOK, SessionInv, UNCHANGED vars
  PROVE  TypeOK' /\ SessionInv'
  BY DEF TypeOK, SessionInv, vars, captureVars, workerVars

\* A dropped collector, or one whose process has ended, whatever became of the
\* threads: all channels are empty.
LEMMA GoneType ==
  ASSUME TypeOK, CollectorGone, worker' = "done", capture' \in {capture, "done"},
         handle' = "gone"
  PROVE  TypeOK'
<1>1. queue' \in Seq(Events) /\ Len(queue') = 0 /\ captureQ' \in Seq(Events)
      /\ Len(captureQ') = 0 /\ hand' \in Seq(Responses) /\ Len(hand') = 0
  BY EmptyChannel DEF CollectorGone
<1>2. /\ blocking' = FALSE /\ control' = "none" /\ captureStop' = FALSE
      /\ readyKnown' = FALSE /\ stop' = FALSE /\ UNCHANGED <<applied, seen>>
  BY DEF CollectorGone
<1>3. applied \in Seq(Responses) /\ seen \in 0 .. MaxResponses
      /\ capture' \in {"opening", "checking", "receiving", "done"}
  BY DEF TypeOK
<1>4. Len(queue') <= QueueCap /\ Len(captureQ') <= CaptureCap
  BY <1>1, Caps
<1>5. QED
  BY <1>1, <1>2, <1>3, <1>4 DEF TypeOK

LEMMA TakeType ==
  ASSUME TypeOK, NEW e, Take(e)
  PROVE  /\ e \in Events /\ queue' \in Seq(Events) /\ Len(queue') <= QueueCap
         /\ queue \in Seq(Events) /\ queue # <<>> /\ e = Head(queue) /\ queue' = Tail(queue)
<1>1. queue \in Seq(Events) /\ queue # <<>> /\ e = Head(queue) /\ queue' = Tail(queue)
      /\ Len(queue) \in Nat /\ Len(queue) <= QueueCap
  BY DEF TypeOK, Take
<1>2. QED
  BY <1>1, TailIds, Caps

-----------------------------------------------------------------------------
(* Every step keeps the types, the sessions apart and the lines whole.     *)

RemoteInv == RemoteTypeOK /\ SessionInv /\ LineInv /\ BacklogInv

LEMMA StartSessionStep ==
  ASSUME RemoteInv, NEW who \in {"here", "gone"}, StartSession(who),
         stale' \in 0 .. MaxStale, link' \in {link, "served"}, BacklogInv'
  PROVE  RemoteInv'
<1>1. TypeOK'
  BY DEF RemoteInv, RemoteTypeOK, SessionInv, StartSession, TypeOK, captureVars
<1>2. SessionInv' /\ LineInv'
  BY DEF RemoteInv, SessionInv, LineInv, StartSession, captureVars, clientVars
<1>3. UNCHANGED <<service, clientVars, wire, clientQ, ui>> /\ peer' = who
  BY DEF StartSession
<1>4. RemoteTypeOK'
  BY <1>1, <1>3 DEF RemoteInv, RemoteTypeOK, clientVars
<1>5. QED
  BY <1>2, <1>4 DEF RemoteInv

LEMMA BacklogStep ==
  ASSUME RemoteInv, ServiceStep \/ ClientStep
  PROVE  BacklogInv'
<1>1. stale \in Nat /\ MaxStale \in Nat /\ BacklogInv
  BY RemoteCaps DEF RemoteInv, RemoteTypeOK
<1>2. CASE ServiceStep
  BY <1>1, <1>2 DEF ServiceStep, AcceptStale, Accept, Forward, ForwardFails, ForwardEnds,
     SessionEnds, EndSession, ServiceAsked, ServiceExits, ServiceKilled, ServiceStarts,
     ConnectionsClose, serviceVars, BacklogInv
<1>3. CASE ClientStep
  BY <1>1, <1>3 DEF ClientStep, ReadHalf, ReadEvent, SeesEnd, Reconnect, Handshake,
     HandshakeTo, HandshakeFails, ClientStops, StopClient, GiveUp, BacklogInv
<1>4. QED
  BY <1>2, <1>3

LEMMA ForwardType ==
  ASSUME RemoteInv, Forward
  PROVE  RemoteInv'
<1>1. PICK e \in Events : /\ Take(e)
                          /\ IF peer = "here"
                             THEN Len(wire) < WireCap /\ wire' = Append(wire, e)
                             ELSE UNCHANGED wire
  BY DEF Forward
<1>2. wire' \in Seq(Events) /\ Len(wire') <= WireCap
  <2>1. wire \in Seq(Events) /\ Len(wire) \in Nat /\ Len(wire) <= WireCap
    BY DEF RemoteInv, RemoteTypeOK
  <2>2. CASE peer = "here"
    <3>1. wire' = Append(wire, e) /\ Len(wire) < WireCap
      BY <1>1, <2>2
    <3>2. wire' \in Seq(Events) /\ Len(wire') = Len(wire) + 1
      BY <2>1, <3>1
    <3>3. QED
      BY <2>1, <3>1, <3>2, RemoteCaps
  <2>3. CASE peer # "here"
    BY <1>1, <2>1, <2>3
  <2>4. QED
    BY <2>2, <2>3
<1>3. queue' \in Seq(Events) /\ Len(queue') <= QueueCap
  BY <1>1, TakeType DEF RemoteInv, RemoteTypeOK
<1>4. TypeOK'
  BY <1>3 DEF Forward, RemoteInv, RemoteTypeOK, TypeOK, captureVars, workerVars
<1>5. RemoteTypeOK'
  BY <1>2, <1>4 DEF Forward, RemoteInv, RemoteTypeOK, serviceVars, clientVars
<1>6. SessionInv' /\ LineInv'
  BY DEF Forward, RemoteInv, SessionInv, LineInv, captureVars, workerVars, clientVars
<1>7. BacklogInv'
  BY BacklogStep DEF ServiceStep
<1>8. QED
  BY <1>5, <1>6, <1>7 DEF RemoteInv

LEMMA ConnectionsCloseType ==
  ASSUME RemoteInv, ConnectionsClose
  PROVE  /\ service' = "down" /\ stale' \in 0 .. MaxStale
         /\ link' \in {"none", "closed"}
         /\ wire' \in Seq(Events) /\ Len(wire') <= WireCap
         /\ UNCHANGED <<line, client, garbled, clientQ, ui>>
<1>1. PICK n \in 0 .. Len(wire) : wire' = SubSeq(wire, 1, n)
  BY DEF ConnectionsClose
<1>2. wire \in Seq(Events) /\ Len(wire) \in Nat /\ Len(wire) <= WireCap
  BY DEF RemoteInv, RemoteTypeOK
<1>3. wire' \in Seq(Events) /\ Len(wire') = n
  BY <1>1, <1>2, PrefixFacts
<1>4. QED
  BY <1>1, <1>2, <1>3, RemoteCaps DEF ConnectionsClose, clientVars

LEMMA ServiceType ==
  ASSUME RemoteInv, ServiceStep
  PROVE  RemoteInv'
<1>0. TypeOK /\ SessionInv /\ LineInv /\ stale \in 0 .. MaxStale /\ MaxStale \in Nat
  BY RemoteCaps DEF RemoteInv, RemoteTypeOK
<1>b. BacklogInv'
  BY BacklogStep
<1>1. CASE AcceptStale
  BY <1>0, <1>b, <1>1, StartSessionStep DEF AcceptStale
<1>2. CASE Accept
  BY <1>0, <1>b, <1>2, StartSessionStep DEF Accept
<1>3. CASE Forward
  BY <1>3, ForwardType
<1>4. CASE ForwardFails
  <2>1. PICK e \in Events : Take(e)
    BY <1>4 DEF ForwardFails
  <2>2. queue' \in Seq(Events) /\ Len(queue') <= QueueCap
    BY <1>0, <2>1, TakeType
  <2>3. TypeOK'
    BY <1>0, <1>4, <2>2 DEF ForwardFails, Release, TypeOK, captureVars, workerVars
  <2>4. RemoteTypeOK' /\ SessionInv' /\ LineInv'
    BY <1>4, <2>3 DEF ForwardFails, Release, RemoteInv, RemoteTypeOK, SessionInv, LineInv,
       captureVars, workerVars, serviceVars, clientVars
  <2>5. QED
    BY <1>b, <2>4 DEF RemoteInv
<1>5. CASE ForwardEnds
  <2>1. TypeOK'
    BY <1>0, <1>5 DEF ForwardEnds, Release, TypeOK, captureVars, workerVars
  <2>2. RemoteTypeOK' /\ SessionInv' /\ LineInv'
    BY <1>5, <2>1 DEF ForwardEnds, Release, RemoteInv, RemoteTypeOK, SessionInv, LineInv,
       captureVars, workerVars, serviceVars, clientVars
  <2>3. QED
    BY <1>b, <2>2 DEF RemoteInv
<1>6. CASE SessionEnds
  <2>1. TypeOK'
    BY <1>0, <1>6, GoneType DEF SessionEnds, Joined, EndSession
  <2>2. RemoteTypeOK' /\ SessionInv' /\ LineInv'
    BY <1>6, <2>1 DEF SessionEnds, Joined, EndSession, RemoteInv, RemoteTypeOK, SessionInv,
       LineInv, clientVars
  <2>3. QED
    BY <1>b, <2>2 DEF RemoteInv
<1>7. CASE ServiceAsked \/ ServiceStarts
  <2>1. TypeOK' /\ SessionInv'
    BY <1>0, <1>7, SameCollector DEF ServiceAsked, ServiceStarts
  <2>2. RemoteTypeOK' /\ LineInv'
    BY <1>7, <2>1 DEF ServiceAsked, ServiceStarts, RemoteInv, RemoteTypeOK, LineInv, clientVars
  <2>3. QED
    BY <1>b, <2>1, <2>2 DEF RemoteInv
<1>8. CASE ServiceExits
  <2>1. TypeOK' /\ SessionInv'
    BY <1>0, <1>8, SameCollector DEF ServiceExits
  <2>2. RemoteTypeOK' /\ LineInv'
    BY <1>8, <2>1, ConnectionsCloseType
       DEF ServiceExits, RemoteInv, RemoteTypeOK, LineInv
  <2>3. QED
    BY <1>b, <2>1, <2>2 DEF RemoteInv
<1>9. CASE ServiceKilled
  <2>1. TypeOK'
    BY <1>0, <1>9, GoneType DEF ServiceKilled
  <2>2. RemoteTypeOK' /\ LineInv'
    BY <1>9, <2>1, ConnectionsCloseType
       DEF ServiceKilled, RemoteInv, RemoteTypeOK, LineInv
  <2>3. SessionInv'
    BY <1>9 DEF ServiceKilled, SessionInv
  <2>4. QED
    BY <1>b, <2>2, <2>3 DEF RemoteInv
<1>10. QED
  BY <1>1, <1>2, <1>3, <1>4, <1>5, <1>6, <1>7, <1>8, <1>9 DEF ServiceStep

LEMMA ClientType ==
  ASSUME RemoteInv, ClientStep
  PROVE  RemoteInv'
<1>0. /\ TypeOK /\ SessionInv /\ LineInv /\ stale \in 0 .. MaxStale
      /\ wire \in Seq(Events) /\ Len(wire) \in Nat /\ Len(wire) <= WireCap
      /\ clientQ \in Seq(Events) /\ Len(clientQ) <= ClientCap
  BY DEF RemoteInv, RemoteTypeOK
<1>b. BacklogInv'
  BY BacklogStep
<1>1. UNCHANGED vars
  BY DEF ClientStep, ReadHalf, ReadEvent, SeesEnd, Reconnect, Handshake, HandshakeTo,
     HandshakeFails, ClientStops, StopClient, unchangedByClient, vars
<1>2. UNCHANGED <<service, ui>>
  BY DEF ClientStep, ReadHalf, ReadEvent, SeesEnd, Reconnect, Handshake, HandshakeTo,
     HandshakeFails, ClientStops, StopClient, unchangedByClient
<1>3. TypeOK' /\ SessionInv'
  BY <1>0, <1>1, SameCollector
<1>4. wire # <<>> => /\ Head(wire) \in Events /\ Tail(wire) \in Seq(Events)
                     /\ Len(Tail(wire)) <= WireCap
  BY <1>0, TailIds, RemoteCaps
<1>5. \A e \in Events : /\ TrySend(clientQ, e, ClientCap) \in Seq(Events)
                        /\ Len(TrySend(clientQ, e, ClientCap)) <= ClientCap
  BY <1>0, SendIds, RemoteCaps
<1>6. Noise \in Events /\ Stopped \in Events /\ <<>> \in Seq(Events) /\ Len(<<>>) <= WireCap
  BY EventKinds, EmptyChannel, RemoteCaps
<1>7. CASE ReadHalf
  BY <1>0, <1>b, <1>2, <1>3, <1>7 DEF ReadHalf, RemoteInv, RemoteTypeOK, LineInv
<1>8. CASE ReadEvent
  <2>1. wire' \in Seq(Events) /\ Len(wire') <= WireCap
    BY <1>4, <1>8 DEF ReadEvent
  <2>2. clientQ' \in Seq(Events) /\ Len(clientQ') <= ClientCap
    BY <1>4, <1>5, <1>6, <1>8 DEF ReadEvent
  <2>3. /\ line' = "empty" /\ garbled' = FALSE
        /\ UNCHANGED <<stale, peer, link, client>>
    BY <1>0, <1>8 DEF ReadEvent, LineInv
  <2>4. QED
    BY <1>b, <1>2, <1>3, <2>1, <2>2, <2>3 DEF RemoteInv, RemoteTypeOK, LineInv
<1>9. CASE SeesEnd
  <2>1. clientQ' \in Seq(Events) /\ Len(clientQ') <= ClientCap
    BY <1>5, <1>6, <1>9 DEF SeesEnd
  <2>2. QED
    BY <1>b, <1>2, <1>3, <1>9, <2>1 DEF SeesEnd, RemoteInv, RemoteTypeOK, LineInv
<1>10. CASE Reconnect
  <2>1. clientQ' \in Seq(Events) /\ Len(clientQ') <= ClientCap
    BY <1>0, <1>5, <1>6, <1>10 DEF Reconnect
  <2>2. QED
    BY <1>b, <1>2, <1>3, <1>10, <2>1 DEF Reconnect, RemoteInv, RemoteTypeOK, LineInv
<1>11. CASE Handshake
  <2>1. wire' \in Seq(Events) /\ Len(wire') <= WireCap
    BY <1>4, <1>11 DEF Handshake, HandshakeTo
  <2>2. clientQ' \in Seq(Events) /\ Len(clientQ') <= ClientCap
    BY <1>5, <1>6, <1>11 DEF Handshake, HandshakeTo
  <2>3. /\ line' = "empty" /\ client' = "reading"
        /\ UNCHANGED <<stale, peer, link, garbled>>
    BY <1>11 DEF Handshake, HandshakeTo
  <2>4. QED
    BY <1>b, <1>2, <1>3, <2>1, <2>2, <2>3 DEF RemoteInv, RemoteTypeOK, LineInv
<1>12. CASE HandshakeFails \/ ClientStops
  <2>1. /\ client' \in {"waiting", "done"} /\ UNCHANGED <<line, garbled>> /\ GiveUp
        /\ \E e \in {Noise, Stopped} : clientQ' = TrySend(clientQ, e, ClientCap)
    BY <1>12 DEF HandshakeFails, ClientStops, StopClient
  <2>2. clientQ' \in Seq(Events) /\ Len(clientQ') <= ClientCap
    BY <1>5, <1>6, <2>1
  <2>3. wire' \in Seq(Events) /\ Len(wire') <= WireCap /\ link' = "none"
    BY <1>6, <2>1 DEF GiveUp
  <2>4. stale' \in 0 .. MaxStale /\ peer' \in {"here", "gone"}
    <3>1. stale \in Nat /\ stale <= MaxStale /\ MaxStale \in Nat /\ peer \in {"here", "gone"}
      BY RemoteCaps DEF RemoteInv, RemoteTypeOK
    <3>2. link = "queued" => stale < MaxStale
      BY DEF RemoteInv, BacklogInv
    <3>3. stale' = (IF link = "queued" THEN stale + 1 ELSE stale)
          /\ peer' = (IF link = "served" THEN "gone" ELSE peer)
      BY <2>1 DEF GiveUp
    <3>4. QED
      BY <3>1, <3>2, <3>3
  <2>5. QED
    BY <1>b, <1>2, <1>3, <2>1, <2>2, <2>3, <2>4 DEF RemoteInv, RemoteTypeOK, LineInv
<1>13. QED
  BY <1>7, <1>8, <1>9, <1>10, <1>11, <1>12 DEF ClientStep

LEMMA WindowType ==
  ASSUME RemoteInv, WindowTakes \/ WindowCloses \/ WindowJoins
  PROVE  RemoteInv'
<1>1. UNCHANGED <<capture, blocking, control, captureStop, captureQ, worker, hand,
                  readyKnown, queue, stop, handle, seen>>
  BY DEF WindowTakes, WindowCloses, WindowJoins, unchangedByUi, captureVars, workerVars
<1>2. UNCHANGED <<service, stale, peer, link, wire, line, client, garbled>>
  BY DEF WindowTakes, WindowCloses, WindowJoins, unchangedByUi, serviceVars, clientVars
<1>3. /\ clientQ' \in Seq(Events) /\ Len(clientQ') <= ClientCap
      /\ applied' \in Seq(Responses) /\ ui' \in {"open", "closing", "closed"}
  <2>1. /\ clientQ \in Seq(Events) /\ Len(clientQ) \in Nat /\ Len(clientQ) <= ClientCap
        /\ applied \in Seq(Responses) /\ ui \in {"open", "closing", "closed"}
    BY DEF RemoteInv, RemoteTypeOK, TypeOK
  <2>2. CASE WindowTakes
    <3>1. Apply(Head(clientQ)) /\ clientQ # <<>> /\ clientQ' = Tail(clientQ) /\ UNCHANGED ui
      BY <2>2 DEF WindowTakes
    <3>2. Head(clientQ) \in Events /\ clientQ' \in Seq(Events) /\ Len(clientQ') <= ClientCap
      BY <2>1, <3>1, TailIds, RemoteCaps
    <3>3. applied' \in Seq(Responses)
      BY <2>1, <3>1, <3>2, EventKinds DEF Apply
    <3>4. QED
      BY <2>1, <3>1, <3>2, <3>3
  <2>3. CASE WindowCloses \/ WindowJoins
    BY <2>1, <2>3 DEF WindowCloses, WindowJoins
  <2>4. QED
    BY <2>2, <2>3
<1>4. TypeOK'
  BY <1>1, <1>3 DEF RemoteInv, RemoteTypeOK, TypeOK
<1>5. RemoteTypeOK'
  BY <1>2, <1>3, <1>4 DEF RemoteInv, RemoteTypeOK
<1>6. SessionInv' /\ LineInv' /\ BacklogInv'
  BY <1>1, <1>2 DEF RemoteInv, SessionInv, LineInv, BacklogInv
<1>7. QED
  BY <1>5, <1>6 DEF RemoteInv

LEMMA RemoteStep ==
  ASSUME RemoteInv, [RemoteNext]_rvars
  PROVE  RemoteInv'
<1>0. TypeOK /\ SessionInv
  BY DEF RemoteInv, RemoteTypeOK
\* A step of the collector alone.
<1>1. ASSUME TypeOK', SessionInv',
             UNCHANGED <<serviceVars, clientVars, link, wire, clientQ, ui>>
      PROVE  RemoteInv'
  BY <1>1 DEF RemoteInv, RemoteTypeOK, LineInv, BacklogInv, serviceVars, clientVars
<1>2. CASE CollectorSteps
  <2>1. TypeOK'
    BY <1>0, <1>2, CollectorStepIsNext, TypeStep
  <2>2. SessionInv'
    BY <1>0, <1>2, ThreadsKeepSession DEF CollectorSteps
  <2>3. QED
    BY <1>1, <1>2, <2>1, <2>2 DEF CollectorSteps
<1>3. CASE UNCHANGED rvars
  <2>1. UNCHANGED vars /\ UNCHANGED <<serviceVars, clientVars, link, wire, clientQ, ui>>
    BY <1>3 DEF rvars
  <2>2. QED
    BY <1>0, <1>1, <2>1, SameCollector
<1>4. QED
  BY <1>2, <1>3, ServiceType, ClientType, WindowType DEF RemoteNext

LEMMA RemoteInitInv ==
  ASSUME RemoteInit
  PROVE  RemoteInv
<1>1. /\ queue \in Seq(Events) /\ Len(queue) = 0 /\ captureQ \in Seq(Events)
      /\ Len(captureQ) = 0 /\ hand \in Seq(Responses) /\ Len(hand) = 0
      /\ applied \in Seq(Responses) /\ wire \in Seq(Events) /\ Len(wire) = 0
      /\ clientQ \in Seq(Events) /\ Len(clientQ) = 0
  BY EmptyChannel DEF RemoteInit
<1>2. /\ capture = "opening" /\ blocking = FALSE /\ control = "none" /\ captureStop = FALSE
      /\ worker = "checking" /\ readyKnown = FALSE /\ stop = FALSE /\ handle = "open"
      /\ seen = 0
  BY DEF RemoteInit
<1>3. TypeOK
  <2>1. /\ Len(queue) <= QueueCap /\ Len(captureQ) <= CaptureCap /\ seen \in 0 .. MaxResponses
        /\ Len(hand) = (IF worker = "sending" THEN 1 ELSE 0)
    BY <1>1, <1>2, Caps
  <2>2. QED
    BY <1>1, <1>2, <2>1 DEF TypeOK
<1>4. /\ service = "up" /\ stale = 0 /\ peer = "here" /\ link = "served"
      /\ line = "empty" /\ client = "reading" /\ garbled = FALSE /\ ui = "open"
  BY DEF RemoteInit
<1>5. RemoteTypeOK
  <2>1. Len(wire) <= WireCap /\ Len(clientQ) <= ClientCap /\ stale \in 0 .. MaxStale
    BY <1>1, <1>4, RemoteCaps
  <2>2. QED
    BY <1>1, <1>3, <1>4, <2>1 DEF RemoteTypeOK
<1>6. QED
  BY <1>2, <1>4, <1>5 DEF RemoteInv, SessionInv, LineInv, BacklogInv

\* One session holds the capture at a time, a line is whole or its connection is
\* gone, and the backlog is bounded: all that the results below rest on
\* (capture-service main.rs:110-244, arc-live service_client.rs:101-233).
THEOREM RemoteInvariant == RemoteSpec => []RemoteInv
  BY RemoteInitInv, RemoteStep, PTL DEF RemoteSpec

\* The connection and the channels stay within their bounds, and every process
\* is where its code can be (capture-service main.rs:110-244, arc-live
\* service_client.rs:101-233).
THEOREM RemoteTypeCorrect == RemoteSpec => []RemoteTypeOK
  BY RemoteInvariant, PTL DEF RemoteInv

\* Whatever is cut off in the middle of an event, by a timeout, a lost connection
\* or a killed service, the client decodes only lines that were sent.
THEOREM LinesStayWhole == RemoteSpec => []NothingGarbled
<1>1. RemoteInv => NothingGarbled
  BY DEF RemoteInv, LineInv, NothingGarbled
<1>2. QED
  BY <1>1, RemoteInvariant, PTL

\* A session starts its collector only after the capture of the session before
\* it is over, also when the service was killed in between.
THEOREM OneCaptureAtATime == RemoteSpec => OneCapture
<1>1. RemoteInv /\ [RemoteNext]_rvars =>
        [worker' = "greeting" /\ worker # "greeting" => capture = "done"]_rvars
  <2> SUFFICES ASSUME RemoteInv, RemoteNext, worker' = "greeting", worker # "greeting"
               PROVE  capture = "done"
    BY DEF rvars, vars, workerVars
  <2>1. CASE CollectorSteps
    BY <2>1 DEF CollectorSteps, ThreadStep, CaptureStep, CaptureOpens, CaptureCannotOpen,
       CaptureStops, CaptureLoops, NoPacket, CaptureFails, PacketArrives, NextTurn,
       CaptureEnds, WorkerStep, Greet, WorkerLoops, WorkerTakesNoise, WorkerTakesReady,
       WorkerTakesResponse, WorkerTakesStopped, WorkerTimesOut, WorkerSends,
       WorkerStopsCapture, WorkerShutsSource, WorkerJoins, workerVars
  <2>2. CASE ServiceStep
    BY <2>2 DEF ServiceStep, AcceptStale, Accept, StartSession, Forward, ForwardFails,
       ForwardEnds, SessionEnds, EndSession, ServiceAsked, ServiceExits, ServiceKilled,
       ServiceStarts, RemoteInv, SessionInv, vars, workerVars
  <2>3. CASE ClientStep
    BY <2>3 DEF ClientStep, ReadHalf, ReadEvent, SeesEnd, Reconnect, Handshake, HandshakeTo,
       HandshakeFails, ClientStops, StopClient, unchangedByClient, workerVars
  <2>4. CASE WindowTakes \/ WindowCloses \/ WindowJoins
    BY <2>4 DEF WindowTakes, WindowCloses, WindowJoins, unchangedByUi, workerVars
  <2>5. QED
    BY <2>1, <2>2, <2>3, <2>4 DEF RemoteNext
<1>2. QED
  BY <1>1, RemoteInvariant, PTL DEF RemoteSpec, OneCapture

-----------------------------------------------------------------------------
(* The order of the responses over the connection.                         *)

\* Everything in q comes before all that the collector still has.
AheadOfCollector(q) == Precedes(q, queue) /\ Precedes(q, hand) /\ Precedes(q, captureQ)

\* The inductive invariant: the order of the collector's part of the path, the
\* connection and the channel to the window in order, after what is applied and
\* before what the collector has, and nothing on them newer than seen.
RemoteOrder ==
  /\ InOrder
  /\ Increasing(clientQ) /\ Increasing(wire)
  /\ Precedes(applied, clientQ) /\ Precedes(applied, wire) /\ Precedes(clientQ, wire)
  /\ AheadOfCollector(clientQ) /\ AheadOfCollector(wire)
  /\ \A n \in Ids(clientQ) \union Ids(wire) : n <= seen

\* A step that loses responses, or moves none.
LEMMA FewerRemote ==
  ASSUME RemoteOrder,
         Increasing(applied)', Increasing(clientQ)', Increasing(wire)',
         Increasing(queue)', Increasing(hand)', Increasing(captureQ)',
         Ids(applied') \subseteq Ids(applied), Ids(clientQ') \subseteq Ids(clientQ),
         Ids(wire') \subseteq Ids(wire), Ids(queue') \subseteq Ids(queue),
         Ids(hand') \subseteq Ids(hand), Ids(captureQ') \subseteq Ids(captureQ),
         seen' = seen
  PROVE  RemoteOrder'
<1>1. InOrder'
  BY FewerInOrder DEF RemoteOrder
<1>2. QED
  BY <1>1 DEF RemoteOrder, AheadOfCollector, Precedes

\* A connection that is closed keeps its order, and only loses from its end.
LEMMA PrefixIds ==
  ASSUME NEW q \in Seq(Events), NEW n \in 0 .. Len(q)
  PROVE  /\ Ids(SubSeq(q, 1, n)) \subseteq Ids(q)
         /\ Increasing(q) => Increasing(SubSeq(q, 1, n))
<1> DEFINE r == SubSeq(q, 1, n)
<1>1. /\ r \in Seq(Events) /\ Len(r) = n /\ Len(q) \in Nat
      /\ \A i \in 1 .. n : r[i] = q[i] /\ i \in 1 .. Len(q)
  BY PrefixFacts
<1> HIDE DEF r
<1>2. ASSUME NEW m \in 1 .. MaxResponses, m \in Ids(r) PROVE m \in Ids(q)
  <2>1. PICK i \in 1 .. Len(r) : IsResponse(r[i]) /\ r[i].id = m
    BY <1>1, <1>2, HoldsId
  <2>2. QED
    BY <1>1, <2>1, HoldsId
<1>3. Increasing(q) => Increasing(r)
  BY <1>1 DEF Increasing
<1>4. QED
  BY <1>2, <1>3, IdsAreNumbers DEF r

\* What the threads have after a step, they had before it or have just decoded.
LEMMA ThreadsAddNewest ==
  ASSUME TypeOK, ThreadStep
  PROVE  /\ applied' = applied /\ seen \in Nat /\ seen' \in Nat /\ seen <= seen'
         /\ \A n \in Ids(queue') \union Ids(hand') \union Ids(captureQ') :
               n \in Ids(queue) \union Ids(hand) \union Ids(captureQ) \/ n > seen
<1> USE Caps
<1>a. hand \in Seq(Events) /\ queue \in Seq(Events) /\ captureQ \in Seq(Events)
      /\ Len(queue) <= QueueCap /\ Len(captureQ) <= CaptureCap /\ seen \in Nat
  BY ResponseSeqs DEF TypeOK
<1>1. CASE CaptureOpens \/ NoPacket
  <2>1. UNCHANGED <<applied, queue, hand, seen>>
        /\ (captureQ' = captureQ \/ captureQ' = TrySend(captureQ, Noise, CaptureCap))
    BY <1>1 DEF CaptureOpens, NoPacket, NextTurn, Emit, workerVars
  <2>2. Ids(captureQ') = Ids(captureQ)
    BY <2>1, <1>a, SendIds, EventKinds
  <2>3. QED
    BY <1>a, <2>1, <2>2
<1>2. ASSUME NEW failed \in BOOLEAN, CaptureEnds(failed)
      PROVE  UNCHANGED <<applied, queue, hand, seen>> /\ Ids(captureQ') = Ids(captureQ)
  <2> DEFINE q == IF failed THEN TrySend(captureQ, Noise, CaptureCap) ELSE captureQ
  <2>1. UNCHANGED <<applied, queue, hand, seen>> /\ captureQ' = TrySend(q, Stopped, CaptureCap)
    BY <1>2 DEF CaptureEnds, workerVars
  <2>2. q \in Seq(Events) /\ Len(q) <= CaptureCap /\ Ids(q) = Ids(captureQ)
    BY <1>a, SendIds, EventKinds
  <2> HIDE DEF q
  <2>3. QED
    BY <2>1, <2>2, SendIds, EventKinds
<1>3. CASE CaptureCannotOpen \/ CaptureFails \/ CaptureStops
  <2>1. UNCHANGED <<applied, queue, hand, seen>> /\ Ids(captureQ') = Ids(captureQ)
    BY <1>2, <1>3 DEF CaptureCannotOpen, CaptureFails, CaptureStops
  <2>2. QED
    BY <1>a, <2>1
<1>4. CASE PacketArrives
  <2>1. UNCHANGED <<applied, queue, hand>>
    BY <1>4 DEF PacketArrives, NextTurn, workerVars
  <2>2. CASE \/ UNCHANGED <<captureQ, seen>>
             \/ \E e \in {Noise, Ready} : Emit(e) /\ UNCHANGED seen
    <3>1. UNCHANGED seen /\ Ids(captureQ') = Ids(captureQ)
      BY <2>2, <1>a, SendIds, EventKinds DEF Emit
    <3>2. QED
      BY <1>a, <2>1, <3>1
  <2>3. CASE seen < MaxResponses /\ seen' = seen + 1 /\ Emit(Response(seen'))
    <3> DEFINE e == Response(seen')
    <3>1. seen' \in 1 .. MaxResponses /\ seen' = seen + 1
      BY <1>a, <2>3
    <3>2. e \in Events /\ IsResponse(e) /\ e.id = seen'
      BY <3>1, EventKinds DEF Responses, Response
    <3>3. captureQ' = captureQ \/ captureQ' = Append(captureQ, e)
      BY <2>3 DEF Emit, TrySend
    <3> HIDE DEF e
    <3>4. Ids(captureQ') \subseteq Ids(captureQ) \union {seen'}
      BY <1>a, <3>2, <3>3, AppendIds
    <3>5. QED
      BY <1>a, <2>1, <3>1, <3>4
  <2>4. QED
    BY <1>4, <2>2, <2>3 DEF PacketArrives
<1>5. CASE Greet \/ WorkerJoins
  <2>1. UNCHANGED <<applied, hand, seen>> /\ captureQ' \in {<<>>, captureQ}
        /\ (queue' = TrySend(queue, Connected, QueueCap) \/ queue' = TrySend(queue, Stopped, QueueCap))
    BY <1>5 DEF Greet, WorkerJoins
  <2>2. Ids(queue') = Ids(queue) /\ Ids(captureQ') \subseteq Ids(captureQ)
    BY <2>1, <1>a, SendIds, EventKinds, EmptyIds
  <2>3. QED
    BY <1>a, <2>1, <2>2
<1>6. CASE WorkerTakesNoise \/ WorkerTakesStopped \/ WorkerTakesReady
  <2> DEFINE q == TrySend(queue, Noise, QueueCap)
  <2>1. q \in Seq(Events) /\ Len(q) <= QueueCap /\ Ids(q) = Ids(queue)
    BY <1>a, SendIds, EventKinds
  <2>2. PICK e \in {Noise, Stopped, Ready} : TakesFromCapture(e)
    BY <1>6 DEF WorkerTakesNoise, WorkerTakesStopped, WorkerTakesReady
  <2>3. UNCHANGED <<applied, hand, seen>>
        /\ (queue' = queue \/ queue' = q \/ queue' = TrySend(q, Ready, QueueCap))
    BY <1>6, <2>2 DEF WorkerTakesNoise, WorkerTakesStopped, WorkerTakesReady, TakesFromCapture
  <2> HIDE DEF q
  <2>4. Ids(queue') = Ids(queue) /\ Ids(captureQ') \subseteq Ids(captureQ)
    BY <1>a, <2>1, <2>2, <2>3, SendIds, EventKinds, TakesType
  <2>5. QED
    BY <1>a, <2>3, <2>4
<1>7. CASE WorkerTakesResponse
  <2>1. PICK e \in Responses : WorkerTakesResponse!(e)
    BY <1>7 DEF WorkerTakesResponse
  <2>2. TakesFromCapture(e) /\ UNCHANGED <<applied, seen>> /\ IsResponse(e)
    BY <2>1, EventKinds DEF TakesFromCapture
  <2>3. Ids(captureQ) = Ids(captureQ') \union {e.id}
    BY <2>2, TakesType
  <2>4. Ids(queue') = Ids(queue)
    BY <2>1, AnnounceType, SendIds, EventKinds
  <2>5. Ids(hand') \subseteq Ids(hand) \union {e.id}
    BY <2>1, OneResponse
  <2>6. QED
    BY <1>a, <2>2, <2>3, <2>4, <2>5
<1>8. CASE WorkerSends
  <2> DEFINE e == hand[1]
  <2>1. e \in Responses /\ e \in Events /\ IsResponse(e) /\ hand = <<e>>
    BY <1>8, InHand, EventKinds
  <2>2. queue' = Append(queue, e) /\ hand' = <<>> /\ UNCHANGED <<applied, captureQ, seen>>
    BY <1>8 DEF WorkerSends
  <2> HIDE DEF e
  <2>3. Ids(hand) = {e.id} /\ Ids(hand') = {} /\ Ids(queue') = Ids(queue) \union {e.id}
    BY <1>a, <2>1, <2>2, OneResponse, EmptyIds, AppendIds
  <2>4. QED
    BY <1>a, <2>2, <2>3
<1>9. CASE CaptureLoops \/ WorkerLoops \/ WorkerTimesOut \/ WorkerStopsCapture \/ WorkerShutsSource
  <2>1. UNCHANGED <<applied, queue, hand, captureQ, seen>>
    BY <1>9 DEF CaptureLoops, WorkerLoops, WorkerTimesOut, WorkerStopsCapture,
       WorkerShutsSource, workerVars
  <2>2. QED
    BY <1>a, <2>1
<1>10. QED
  BY <1>1, <1>3, <1>4, <1>5, <1>6, <1>7, <1>8, <1>9 DEF ThreadStep, CaptureStep, WorkerStep

LEMMA PathParts ==
  ASSUME RemoteInv, RemoteOrder
  PROVE  /\ applied \in Seq(Events) /\ hand \in Seq(Events) /\ queue \in Seq(Events)
         /\ captureQ \in Seq(Events) /\ wire \in Seq(Events) /\ clientQ \in Seq(Events)
         /\ Len(clientQ) <= ClientCap /\ seen \in Nat
         /\ Increasing(applied) /\ Increasing(clientQ) /\ Increasing(wire)
         /\ Increasing(queue) /\ Increasing(hand) /\ Increasing(captureQ)
  BY ResponseSeqs, Caps DEF RemoteInv, RemoteTypeOK, TypeOK, RemoteOrder, InOrder

LEMMA CollectorOrder ==
  ASSUME RemoteInv, RemoteOrder, CollectorSteps
  PROVE  RemoteOrder'
<1>1. TypeOK /\ InOrder /\ UNCHANGED <<clientQ, wire>>
  BY DEF RemoteInv, RemoteTypeOK, RemoteOrder, CollectorSteps
<1>2. InOrder'
  BY <1>1, CollectorStepIsNext, OrderStep
<1>3. /\ applied' = applied /\ seen \in Nat /\ seen' \in Nat /\ seen <= seen'
      /\ \A n \in Ids(queue') \union Ids(hand') \union Ids(captureQ') :
            n \in Ids(queue) \union Ids(hand) \union Ids(captureQ) \/ n > seen
  BY <1>1, ThreadsAddNewest DEF CollectorSteps
\* What is ahead of the collector's part stays ahead of it.
<1>4. ASSUME NEW q, AheadOfCollector(q), \A n \in Ids(q) : n <= seen
      PROVE  Precedes(q, queue') /\ Precedes(q, hand') /\ Precedes(q, captureQ')
  <2>1. \A m \in Ids(q), n \in Ids(queue') \union Ids(hand') \union Ids(captureQ') : m < n
    BY <1>3, <1>4, IdsAreNumbers, Caps DEF AheadOfCollector, Precedes
  <2>2. QED
    BY <2>1 DEF Precedes
<1>5. \A n \in Ids(clientQ) \union Ids(wire) : n <= seen'
  BY <1>3, IdsAreNumbers, Caps DEF RemoteOrder
<1>6. QED
  BY <1>1, <1>2, <1>3, <1>4, <1>5 DEF RemoteOrder, AheadOfCollector

LEMMA ServiceOrder ==
  ASSUME RemoteInv, RemoteOrder, ServiceStep
  PROVE  RemoteOrder'
<1>a. /\ queue \in Seq(Events) /\ wire \in Seq(Events)
      /\ Increasing(applied) /\ Increasing(clientQ) /\ Increasing(wire)
      /\ Increasing(queue) /\ Increasing(hand) /\ Increasing(captureQ)
  BY PathParts
<1>1. CASE AcceptStale \/ Accept \/ ForwardEnds \/ ServiceAsked \/ ServiceStarts
  <2>1. UNCHANGED <<applied, clientQ, wire, queue, hand, captureQ, seen>>
    BY <1>1 DEF AcceptStale, Accept, StartSession, ForwardEnds, ServiceAsked, ServiceStarts,
       vars, workerVars
  <2>2. QED
    BY <1>a, <2>1, FewerRemote
<1>2. ASSUME NEW e \in Events, Take(e),
             UNCHANGED <<applied, clientQ, hand, captureQ, seen>>,
             wire' = wire \/ wire' = Append(wire, e)
      PROVE  RemoteOrder'
  <2>1. queue # <<>> /\ e = Head(queue) /\ queue' = Tail(queue)
    BY <1>2 DEF Take
  <2>2. /\ Increasing(queue')
        /\ IsResponse(e) => \A m \in Ids(queue') : e.id < m
        /\ IsResponse(e) => Ids(queue) = Ids(queue') \union {e.id}
        /\ ~IsResponse(e) => Ids(queue) = Ids(queue')
    BY <1>a, <2>1, TailIds, IncreasingTail
  <2>3. CASE ~IsResponse(e) \/ wire' = wire
    <3>1. Ids(wire') = Ids(wire) /\ Increasing(wire') /\ Ids(queue') \subseteq Ids(queue)
      BY <1>2, <1>a, <2>2, <2>3, AppendIds, IncreasingAppend
    <3>2. QED
      BY <1>2, <1>a, <2>2, <3>1, FewerRemote
  <2>4. CASE IsResponse(e) /\ wire' = Append(wire, e)
    <3>1. e.id \in Ids(queue) /\ Ids(queue') \subseteq Ids(queue)
      BY <2>2, <2>4
    <3>2. Ids(wire') = Ids(wire) \union {e.id}
      BY <1>a, <2>4, AppendIds
    <3>3. \A m \in Ids(wire) : m < e.id
      BY <3>1 DEF RemoteOrder, AheadOfCollector, Precedes
    <3>4. Increasing(wire')
      BY <1>a, <2>4, <3>3, IncreasingAppend
    <3>5. InOrder'
      BY <1>2, <1>a, <2>2, <3>1, FewerInOrder DEF RemoteOrder
    <3>6. Precedes(applied', wire') /\ Precedes(clientQ', wire') /\ Precedes(applied', clientQ')
      BY <1>2, <3>1, <3>2 DEF RemoteOrder, InOrder, AheadOfCollector, Precedes
    <3>7. AheadOfCollector(clientQ)'
      BY <1>2, <3>1 DEF RemoteOrder, AheadOfCollector, Precedes
    <3>8. AheadOfCollector(wire)'
      BY <1>2, <2>2, <2>4, <3>1, <3>2 DEF RemoteOrder, InOrder, AheadOfCollector, Precedes
    <3>9. \A n \in Ids(clientQ') \union Ids(wire') : n <= seen'
      BY <1>2, <3>1, <3>2 DEF RemoteOrder, InOrder
    <3>10. QED
      BY <1>2, <1>a, <3>4, <3>5, <3>6, <3>7, <3>8, <3>9 DEF RemoteOrder
  <2>5. QED
    BY <1>2, <2>3, <2>4
<1>3. CASE Forward
  <2>1. UNCHANGED <<applied, clientQ, hand, captureQ, seen>>
    BY <1>3 DEF Forward, workerVars
  <2>2. PICK e \in Events : Take(e) /\ (wire' = wire \/ wire' = Append(wire, e))
    BY <1>3 DEF Forward
  <2>3. QED
    BY <1>2, <2>1, <2>2
<1>4. CASE ForwardFails
  <2>1. UNCHANGED <<applied, clientQ, wire, hand, captureQ, seen>>
    BY <1>4 DEF ForwardFails, workerVars
  <2>2. PICK e \in Events : Take(e)
    BY <1>4 DEF ForwardFails
  <2>3. QED
    BY <1>2, <2>1, <2>2
<1>5. ASSUME \/ UNCHANGED <<queue, hand, captureQ>>
             \/ queue' = <<>> /\ hand' = <<>> /\ captureQ' = <<>>,
             UNCHANGED <<applied, clientQ, seen>>,
             wire' = wire \/ \E n \in 0 .. Len(wire) : wire' = SubSeq(wire, 1, n)
      PROVE  RemoteOrder'
  <2>1. Ids(wire') \subseteq Ids(wire) /\ Increasing(wire')
    BY <1>5, <1>a, PrefixIds
  <2>2. /\ Ids(queue') \subseteq Ids(queue) /\ Ids(hand') \subseteq Ids(hand)
        /\ Ids(captureQ') \subseteq Ids(captureQ)
        /\ Increasing(queue') /\ Increasing(hand') /\ Increasing(captureQ')
    BY <1>5, <1>a, EmptyIds, IncreasingEmpty
  <2>3. QED
    BY <1>5, <1>a, <2>1, <2>2, FewerRemote
<1>6. CASE SessionEnds \/ ServiceExits \/ ServiceKilled
  BY <1>5, <1>6 DEF SessionEnds, EndSession, ServiceExits, ServiceKilled, CollectorGone,
     ConnectionsClose, vars, workerVars
<1>7. QED
  BY <1>1, <1>3, <1>4, <1>6 DEF ServiceStep

LEMMA ClientOrder ==
  ASSUME RemoteInv, RemoteOrder, ClientStep
  PROVE  RemoteOrder'
<1>a. /\ wire \in Seq(Events) /\ clientQ \in Seq(Events) /\ Len(clientQ) <= ClientCap
      /\ ClientCap \in Nat
      /\ Increasing(applied) /\ Increasing(clientQ) /\ Increasing(wire)
      /\ Increasing(queue) /\ Increasing(hand) /\ Increasing(captureQ)
  BY PathParts, RemoteCaps
<1>b. UNCHANGED <<applied, queue, hand, captureQ, seen>>
  BY DEF ClientStep, ReadHalf, ReadEvent, SeesEnd, Reconnect, Handshake, HandshakeTo,
     HandshakeFails, ClientStops, StopClient, unchangedByClient, workerVars
<1>c. wire # <<>> => Ids(Tail(wire)) \subseteq Ids(wire) /\ Increasing(Tail(wire))
  BY <1>a, TailIds, IncreasingTail
\* A routine event for the window, and something less on the connection.
<1>1. ASSUME \/ clientQ' = clientQ
             \/ \E e \in {Noise, Stopped} : clientQ' = TrySend(clientQ, e, ClientCap),
             wire' = wire \/ wire' = <<>> \/ (wire # <<>> /\ wire' = Tail(wire))
      PROVE  RemoteOrder'
  <2>1. Ids(clientQ') = Ids(clientQ) /\ Increasing(clientQ')
    BY <1>1, <1>a, SendIds, IncreasingSend, EventKinds
  <2>2. Ids(wire') \subseteq Ids(wire) /\ Increasing(wire')
    BY <1>1, <1>a, <1>c, EmptyIds, IncreasingEmpty
  <2>3. QED
    BY <1>a, <1>b, <2>1, <2>2, FewerRemote
<1>2. CASE ReadHalf \/ SeesEnd \/ Reconnect \/ Handshake \/ HandshakeFails \/ ClientStops
  BY <1>1, <1>2 DEF ReadHalf, SeesEnd, Reconnect, Handshake, HandshakeTo, HandshakeFails,
     ClientStops, StopClient, GiveUp
<1>3. CASE ReadEvent
  <2> DEFINE e == Head(wire)
  <2>1. wire # <<>> /\ wire' = Tail(wire) /\ clientQ' = TrySend(clientQ, e, ClientCap)
    BY <1>3 DEF ReadEvent, RemoteInv, LineInv
  <2>2. /\ e \in Events
        /\ IsResponse(e) => Ids(wire) = Ids(wire') \union {e.id}
        /\ ~IsResponse(e) => Ids(wire) = Ids(wire')
        /\ Increasing(wire')
        /\ IsResponse(e) => \A m \in Ids(wire') : e.id < m
    BY <1>a, <2>1, TailIds, IncreasingTail
  <2>3. clientQ' = clientQ \/ clientQ' = Append(clientQ, e)
    BY <2>1 DEF TrySend
  <2> HIDE DEF e
  <2>4. CASE ~IsResponse(e) \/ clientQ' = clientQ
    <3>1. Ids(clientQ') = Ids(clientQ) /\ Increasing(clientQ') /\ Ids(wire') \subseteq Ids(wire)
      BY <1>a, <2>2, <2>3, <2>4, AppendIds, IncreasingAppend
    <3>2. QED
      BY <1>a, <1>b, <2>2, <3>1, FewerRemote
  <2>5. CASE IsResponse(e) /\ clientQ' = Append(clientQ, e)
    <3>1. e.id \in Ids(wire) /\ Ids(wire') \subseteq Ids(wire)
      BY <2>2, <2>5
    <3>2. Ids(clientQ') = Ids(clientQ) \union {e.id}
      BY <1>a, <2>2, <2>5, AppendIds
    <3>3. \A m \in Ids(clientQ) : m < e.id
      BY <3>1 DEF RemoteOrder, Precedes
    <3>4. Increasing(clientQ')
      BY <1>a, <2>2, <2>5, <3>3, IncreasingAppend
    <3>5. InOrder'
      BY <1>a, <1>b, FewerInOrder DEF RemoteOrder
    <3>6. Precedes(applied', wire') /\ Precedes(clientQ', wire') /\ Precedes(applied', clientQ')
      BY <1>b, <2>2, <2>5, <3>1, <3>2 DEF RemoteOrder, Precedes
    <3>7. AheadOfCollector(clientQ)' /\ AheadOfCollector(wire)'
      BY <1>b, <3>1, <3>2 DEF RemoteOrder, AheadOfCollector, Precedes
    <3>8. \A n \in Ids(clientQ') \union Ids(wire') : n <= seen'
      BY <1>b, <3>1, <3>2 DEF RemoteOrder
    <3>9. QED
      BY <2>2, <3>4, <3>5, <3>6, <3>7, <3>8 DEF RemoteOrder
  <2>6. QED
    BY <2>3, <2>4, <2>5
<1>4. QED
  BY <1>2, <1>3 DEF ClientStep

LEMMA WindowOrder ==
  ASSUME RemoteInv, RemoteOrder, WindowTakes \/ WindowCloses \/ WindowJoins
  PROVE  RemoteOrder'
<1>a. /\ applied \in Seq(Events) /\ clientQ \in Seq(Events)
      /\ Increasing(applied) /\ Increasing(clientQ) /\ Increasing(wire)
      /\ Increasing(queue) /\ Increasing(hand) /\ Increasing(captureQ)
  BY PathParts
<1>b. UNCHANGED <<wire, queue, hand, captureQ, seen>>
  BY DEF WindowTakes, WindowCloses, WindowJoins, unchangedByUi, workerVars
<1>1. CASE WindowCloses \/ WindowJoins
  <2>1. UNCHANGED <<applied, clientQ>>
    BY <1>1 DEF WindowCloses, WindowJoins
  <2>2. QED
    BY <1>a, <1>b, <2>1, FewerRemote
<1>2. CASE WindowTakes
  <2> DEFINE e == Head(clientQ)
  <2>1. /\ clientQ # <<>> /\ clientQ' = Tail(clientQ)
        /\ applied' = IF IsResponse(e) THEN Append(applied, e) ELSE applied
    BY <1>2 DEF WindowTakes, Apply
  <2>2. /\ e \in Events
        /\ IsResponse(e) => Ids(clientQ) = Ids(clientQ') \union {e.id}
        /\ ~IsResponse(e) => Ids(clientQ) = Ids(clientQ')
        /\ Increasing(clientQ')
        /\ IsResponse(e) => \A m \in Ids(clientQ') : e.id < m
    BY <1>a, <2>1, TailIds, IncreasingTail
  <2> HIDE DEF e
  <2>3. CASE ~IsResponse(e)
    BY <1>a, <1>b, <2>1, <2>2, <2>3, FewerRemote
  <2>4. CASE IsResponse(e)
    <3>1. e.id \in Ids(clientQ) /\ Ids(clientQ') \subseteq Ids(clientQ)
      BY <2>2, <2>4
    <3>2. applied' = Append(applied, e) /\ Ids(applied') = Ids(applied) \union {e.id}
      BY <1>a, <2>1, <2>2, <2>4, AppendIds
    <3>3. \A m \in Ids(applied) : m < e.id
      BY <3>1 DEF RemoteOrder, Precedes
    <3>4. Increasing(applied')
      BY <1>a, <2>2, <2>4, <3>2, <3>3, IncreasingAppend
    <3>5. Precedes(applied', queue') /\ Precedes(applied', hand') /\ Precedes(applied', captureQ')
      BY <1>b, <3>1, <3>2 DEF RemoteOrder, InOrder, AheadOfCollector, Precedes
    <3>6. \A n \in Ids(applied') : n <= seen'
      BY <1>b, <3>1, <3>2 DEF RemoteOrder, InOrder
    <3>7. InOrder'
      BY <1>a, <1>b, <3>4, <3>5, <3>6 DEF RemoteOrder, InOrder, Precedes
    <3>8. Precedes(applied', wire') /\ Precedes(clientQ', wire') /\ Precedes(applied', clientQ')
      BY <1>b, <2>2, <2>4, <3>1, <3>2 DEF RemoteOrder, Precedes
    <3>9. AheadOfCollector(clientQ)' /\ AheadOfCollector(wire)'
      BY <1>b, <3>1 DEF RemoteOrder, AheadOfCollector, Precedes
    <3>10. \A n \in Ids(clientQ') \union Ids(wire') : n <= seen'
      BY <1>b, <3>1 DEF RemoteOrder
    <3>11. QED
      BY <1>a, <1>b, <2>2, <3>7, <3>8, <3>9, <3>10 DEF RemoteOrder
  <2>5. QED
    BY <2>3, <2>4
<1>3. QED
  BY <1>1, <1>2

LEMMA RemoteOrderStep ==
  ASSUME RemoteInv, RemoteOrder, [RemoteNext]_rvars
  PROVE  RemoteOrder'
<1>1. CASE UNCHANGED rvars
  <2>1. UNCHANGED <<applied, clientQ, wire, queue, hand, captureQ, seen>>
    BY <1>1 DEF rvars, vars, workerVars
  <2>2. QED
    BY <2>1, PathParts, FewerRemote
<1>2. QED
  BY <1>1, CollectorOrder, ServiceOrder, ClientOrder, WindowOrder DEF RemoteNext

\* Channels in order, each before the later ones, make one path in order.
LEMMA WholePath ==
  ASSUME RemoteInv, RemoteOrder
  PROVE  WholePathInOrder
<1>a. /\ applied \in Seq(Events) /\ hand \in Seq(Events) /\ queue \in Seq(Events)
      /\ captureQ \in Seq(Events) /\ wire \in Seq(Events) /\ clientQ \in Seq(Events)
      /\ Increasing(applied) /\ Increasing(clientQ) /\ Increasing(wire)
      /\ Increasing(queue) /\ Increasing(hand) /\ Increasing(captureQ)
  BY PathParts
\* A front part of the path, and the part that is put behind it.
<1>b. ASSUME NEW p \in Seq(Events), NEW q \in Seq(Events), Increasing(p), Increasing(q),
             Precedes(p, q)
      PROVE  /\ p \o q \in Seq(Events) /\ Increasing(p \o q)
             /\ \A r : Precedes(p, r) /\ Precedes(q, r) => Precedes(p \o q, r)
  <2>1. /\ p \o q \in Seq(Events)
        /\ \A n \in 1 .. MaxResponses : n \in Ids(p \o q) <=> (n \in Ids(p) \/ n \in Ids(q))
    BY <1>b, ConcatIds
  <2>2. Increasing(p \o q)
    BY <1>b, IncreasingConcat
  <2>3. QED
    BY <2>1, <2>2, IdsAreNumbers DEF Precedes
<1>c. /\ Precedes(applied, clientQ) /\ Precedes(applied, wire) /\ Precedes(applied, queue)
      /\ Precedes(applied, hand) /\ Precedes(applied, captureQ)
      /\ Precedes(clientQ, wire) /\ Precedes(clientQ, queue) /\ Precedes(clientQ, hand)
      /\ Precedes(clientQ, captureQ)
      /\ Precedes(wire, queue) /\ Precedes(wire, hand) /\ Precedes(wire, captureQ)
      /\ Precedes(queue, hand) /\ Precedes(queue, captureQ) /\ Precedes(hand, captureQ)
  BY DEF RemoteOrder, AheadOfCollector, InOrder
<1> DEFINE p1 == applied \o clientQ
           p2 == p1 \o wire
           p3 == p2 \o queue
           p4 == p3 \o hand
<1>1. /\ p1 \in Seq(Events) /\ Increasing(p1)
      /\ Precedes(p1, wire) /\ Precedes(p1, queue) /\ Precedes(p1, hand) /\ Precedes(p1, captureQ)
  BY <1>a, <1>b, <1>c
<1> HIDE DEF p1
<1>2. /\ p2 \in Seq(Events) /\ Increasing(p2)
      /\ Precedes(p2, queue) /\ Precedes(p2, hand) /\ Precedes(p2, captureQ)
  BY <1>a, <1>b, <1>c, <1>1
<1> HIDE DEF p2
<1>3. p3 \in Seq(Events) /\ Increasing(p3) /\ Precedes(p3, hand) /\ Precedes(p3, captureQ)
  BY <1>a, <1>b, <1>c, <1>2
<1> HIDE DEF p3
<1>4. p4 \in Seq(Events) /\ Increasing(p4) /\ Precedes(p4, captureQ)
  BY <1>a, <1>b, <1>c, <1>3
<1> HIDE DEF p4
<1>5. Increasing(p4 \o captureQ)
  BY <1>a, <1>b, <1>4
<1>6. QED
  BY <1>5 DEF WholePathInOrder, p1, p2, p3, p4

\* Over lost connections, restarted services and sessions served to nobody, the
\* responses reach the window in the order of the game and only once, for
\* channels of any size (capture-service main.rs:110-244, arc-live
\* service_client.rs:101-233).
THEOREM OrderOverTheConnection == RemoteSpec => []WholePathInOrder
<1>1. RemoteInit => RemoteOrder
  <2> SUFFICES ASSUME RemoteInit PROVE RemoteOrder
    OBVIOUS
  <2>1. /\ applied = <<>> /\ clientQ = <<>> /\ wire = <<>> /\ queue = <<>> /\ hand = <<>>
        /\ captureQ = <<>>
    BY DEF RemoteInit
  <2>2. QED
    BY <2>1, EmptyIds, IncreasingEmpty DEF RemoteOrder, InOrder, AheadOfCollector, Precedes
<1>2. RemoteInv /\ RemoteOrder /\ [RemoteNext]_rvars => RemoteOrder'
  BY RemoteOrderStep
<1>3. RemoteInv /\ RemoteOrder => WholePathInOrder
  BY WholePath
<1>4. QED
  BY <1>1, <1>2, <1>3, RemoteInvariant, PTL DEF RemoteSpec
=============================================================================
