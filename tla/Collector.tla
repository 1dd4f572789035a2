------------------------------ MODULE Collector ------------------------------
(***************************************************************************)
(* The statistics collector: the capture thread that reads packets and     *)
(* decodes the game's responses, the collector thread that normalises them *)
(* and hands them on, the two bounded channels between them, and the       *)
(* handle whose owner takes the events and, when it is dropped, stops and  *)
(* joins both threads.                                                     *)
(*                                                                         *)
(* The owner here is the window process of a portable copy, which drains   *)
(* the events in its frame.  Module RemoteCapture gives the same collector *)
(* to the capture service instead.  Status, Stats, Observation and Error   *)
(* events only matter for the room they take: all of them are Noise.       *)
(***************************************************************************)
EXTENDS Naturals, Sequences

CONSTANTS
  CaptureCap,      \* bound of the channel from the capture thread (512)
  QueueCap,        \* bound of the channel to the owner (1024)
  Waiting,         \* whether a source on this machine may wait for packets
  MaxResponses     \* bound: responses the game sends in a behaviour

ASSUME CapacityAssumption ==
  /\ CaptureCap \in Nat \ {0} /\ QueueCap \in Nat \ {0}
  /\ Waiting \in (SUBSET BOOLEAN) \ {{}}
  /\ MaxResponses \in Nat

Event(kind) == [kind |-> kind, id |-> 0]
Noise       == Event("noise")
Ready       == Event("ready")
Connected   == Event("connected")
Stopped     == Event("stopped")
Response(n) == [kind |-> "response", id |-> n]
Responses   == {Response(n) : n \in 1 .. MaxResponses}
Events      == {Noise, Ready, Connected, Stopped} \union Responses

VARIABLES
  capture,         \* where the capture thread is
  blocking,        \* its source waits for a packet (WinDivert) instead of polling
  control,         \* CaptureHandle::control: none, open, or shut down
  captureStop,     \* CaptureHandle::stop
  captureQ,        \* CaptureHandle::events
  worker,          \* where the collector thread is
  hand,            \* the response it is sending, or nothing
  readyKnown,      \* its stats_stream_ready
  queue,           \* CollectorHandle::events
  stop,            \* CollectorHandle::stop
  handle,          \* the CollectorHandle: open, being dropped, gone
  applied,         \* the responses the window has applied, in order
  seen             \* history: responses decoded

captureVars == <<capture, blocking, control, captureStop>>
workerVars  == <<worker, hand, readyKnown>>
vars == <<captureVars, workerVars, captureQ, queue, stop, handle, applied, seen>>

\* Mutant: one event more than the channel has room for.
TrySendOneMore(q, e, cap) == IF Len(q) <= cap THEN Append(q, e) ELSE q

\* Sender::try_send of a bounded channel: a full channel takes nothing.
TrySend(q, e, cap) == IF Len(q) < cap THEN Append(q, e) ELSE q

IsResponse(e) == e.kind = "response"

\* Response n is somewhere in the channel q.
Holds(q, n) == \E i \in 1 .. Len(q) : q[i] = Response(n)

Init ==
  /\ capture = "done" /\ blocking = FALSE /\ control = "none"
  /\ captureStop = FALSE /\ captureQ = <<>>
  /\ worker = "greeting" /\ hand = <<>> /\ readyKnown = FALSE
  /\ queue = <<>> /\ stop = FALSE /\ handle = "open"
  /\ applied = <<>> /\ seen = 0
-----------------------------------------------------------------------------
(* The capture thread: start_capture and capture_loop.                     *)

Emit(e) == captureQ' = TrySend(captureQ, e, CaptureCap)

\* PacketSource::open found a source; its control is published before the
\* loop first looks at the stop flag.
CaptureOpens ==
  /\ capture = "opening"
  /\ capture' = "checking"
  /\ blocking' \in Waiting
  /\ control' = "open"
  /\ Emit(Noise)
  /\ UNCHANGED <<captureStop, workerVars, queue, stop, handle, applied, seen>>

\* The thread ends: Stopped, after an error or after the loop.
CaptureEnds(failed) ==
  /\ capture' = "done"
  /\ captureQ' = LET q == IF failed THEN TrySend(captureQ, Noise, CaptureCap)
                          ELSE captureQ
                 IN  TrySend(q, Stopped, CaptureCap)
  /\ UNCHANGED <<blocking, control, captureStop, workerVars, queue, stop, handle,
                 applied, seen>>

CaptureCannotOpen == capture = "opening" /\ CaptureEnds(TRUE)

\* next_packet or the key log returned an error.
CaptureFails == capture = "receiving" /\ CaptureEnds(TRUE)

CaptureStops == capture = "checking" /\ captureStop /\ CaptureEnds(FALSE)

CaptureLoops ==
  /\ capture = "checking" /\ ~captureStop
  /\ capture' = "receiving"
  /\ UNCHANGED <<blocking, control, captureStop, captureQ, workerVars, queue, stop,
                 handle, applied, seen>>

NextTurn ==
  /\ capture = "receiving"
  /\ capture' = "checking"
  /\ UNCHANGED <<blocking, control, captureStop, workerVars, queue, stop, handle,
                 applied>>

\* A packet arrived; at most one event comes out of a turn of the loop.
PacketArrives ==
  /\ NextTurn
  /\ \/ UNCHANGED <<captureQ, seen>>
     \/ \E e \in {Noise, Ready} : Emit(e) /\ UNCHANGED seen
     \/ /\ seen < MaxResponses
        /\ seen' = seen + 1
        /\ Emit(Response(seen'))

\* next_packet returned nothing: a polled source does so at once, WinDivertRecv
\* only after its handle was shut down.
NoPacket ==
  /\ NextTurn
  /\ ~blocking \/ control = "shut"
  /\ \/ UNCHANGED <<captureQ>>
     \/ Emit(Noise)
  /\ UNCHANGED seen
-----------------------------------------------------------------------------
(* The collector thread: start_local and run_collector.                    *)

\* Connected is in the channel before the capture is started.
Greet ==
  /\ worker = "greeting"
  /\ worker' = "checking"
  /\ queue' = TrySend(queue, Connected, QueueCap)
  /\ readyKnown' = FALSE
  /\ capture' = "opening" /\ control' = "none" /\ captureStop' = FALSE
  /\ captureQ' = <<>>
  /\ UNCHANGED <<blocking, hand, stop, handle, applied, seen>>

WorkerLoops ==
  /\ worker = "checking"
  /\ worker' = IF stop THEN "stopping" ELSE "receiving"
  /\ UNCHANGED <<captureVars, captureQ, hand, readyKnown, queue, stop,
                 handle, applied, seen>>

TakesFromCapture(e) ==
  /\ worker = "receiving" /\ captureQ # <<>>
  /\ e = Head(captureQ)
  /\ captureQ' = Tail(captureQ)
  /\ UNCHANGED <<captureVars, stop, handle, applied, seen>>

WorkerTakesNoise ==
  /\ TakesFromCapture(Noise)
  /\ worker' = "checking"
  /\ queue' = TrySend(queue, Noise, QueueCap)
  /\ UNCHANGED <<hand, readyKnown>>

\* A status line and Ready, each with a try_send of its own.
WorkerTakesReady ==
  /\ TakesFromCapture(Ready)
  /\ worker' = "checking"
  /\ readyKnown' = TRUE
  /\ queue' = TrySend(TrySend(queue, Noise, QueueCap), Ready, QueueCap)
  /\ UNCHANGED <<hand>>

\* The first response says Ready by itself if nothing else did.
AnnounceReady == IF readyKnown THEN queue ELSE TrySend(queue, Ready, QueueCap)

WorkerTakesResponse ==
  \E e \in Responses :
    /\ TakesFromCapture(e)
    /\ readyKnown' = TRUE
    /\ \/ /\ worker' = "sending"           \* normalised: it goes out next
          /\ hand' = <<e>>
          /\ queue' = AnnounceReady
       \/ /\ worker' = "checking"          \* not readable: an error instead
          /\ queue' = TrySend(AnnounceReady, Noise, QueueCap)
          /\ UNCHANGED <<hand>>

\* Mutant: a response is handed over like everything else.
WorkerTriesToSend ==
  /\ worker = "sending"
  /\ worker' = "checking"
  /\ queue' = TrySend(queue, hand[1], QueueCap)
  /\ hand' = <<>>
  /\ UNCHANGED <<captureVars, captureQ, readyKnown, stop, handle, applied,
                 seen>>

\* Mutant: the response is still in hand after it was sent.
WorkerSendsAndKeeps ==
  /\ worker = "sending"
  /\ Len(queue) < QueueCap
  /\ worker' = "checking"
  /\ queue' = Append(queue, hand[1])
  /\ UNCHANGED <<captureVars, captureQ, hand, readyKnown, stop, handle, applied, seen>>

\* The one blocking send.  It would also end with an error if the receiver were
\* gone, but the receiver is a field of the handle that waits for this thread.
WorkerSends ==
  /\ worker = "sending"
  /\ Len(queue) < QueueCap
  /\ worker' = "checking"
  /\ queue' = Append(queue, hand[1])
  /\ hand' = <<>>
  /\ UNCHANGED <<captureVars, captureQ, readyKnown, stop, handle, applied,
                 seen>>

WorkerTakesStopped ==
  /\ TakesFromCapture(Stopped)
  /\ worker' = "stopping"
  /\ UNCHANGED <<hand, readyKnown, queue>>

\* recv_timeout: nothing came, or the capture thread is gone.
WorkerTimesOut ==
  /\ worker = "receiving" /\ captureQ = <<>>
  /\ worker' = IF capture = "done" THEN "stopping" ELSE "checking"
  /\ UNCHANGED <<captureVars, captureQ, hand, readyKnown, queue, stop,
                 handle, applied, seen>>

\* CaptureHandle::stop, first the flag, then the control if there is one; Drop
\* does both again, which changes nothing any more.
WorkerStopsCapture ==
  /\ worker = "stopping"
  /\ worker' = "closing"
  /\ captureStop' = TRUE
  /\ UNCHANGED <<capture, blocking, control, captureQ, hand, readyKnown,
                 queue, stop, handle, applied, seen>>

\* Mutant: the source is left open.
WorkerLeavesSource ==
  /\ worker = "closing"
  /\ worker' = "joining"
  /\ UNCHANGED <<captureVars, captureQ, hand, readyKnown, queue, stop,
                 handle, applied, seen>>

WorkerShutsSource ==
  /\ worker = "closing"
  /\ worker' = "joining"
  /\ control' = IF control = "open" THEN "shut" ELSE control
  /\ UNCHANGED <<capture, blocking, captureStop, captureQ, hand, readyKnown,
                 queue, stop, handle, applied, seen>>

WorkerJoins ==
  /\ worker = "joining" /\ capture = "done"
  /\ worker' = "done"
  /\ queue' = TrySend(queue, Stopped, QueueCap)
  /\ UNCHANGED <<captureVars, captureQ, hand, readyKnown, stop, handle,
                 applied, seen>>
-----------------------------------------------------------------------------
CaptureStep ==
  \/ CaptureOpens \/ CaptureCannotOpen \/ CaptureStops \/ CaptureLoops \/ NoPacket

WorkerStep ==
  \/ Greet \/ WorkerLoops
  \/ WorkerTakesNoise \/ WorkerTakesReady \/ WorkerTakesResponse
  \/ WorkerTakesStopped \/ WorkerTimesOut
  \/ WorkerSends
  \/ WorkerStopsCapture \/ WorkerShutsSource \/ WorkerJoins

\* What the two threads do, whoever owns the handle.
ThreadStep == CaptureStep \/ CaptureFails \/ PacketArrives \/ WorkerStep

\* Mutant: the newest event is left for the next frame.
TakeAllButOne(e) ==
  /\ handle = "open"
  /\ Len(queue) > 1
  /\ e = Head(queue)
  /\ queue' = Tail(queue)

\* The owner takes the oldest event.
Take(e) ==
  /\ handle = "open"
  /\ queue # <<>>
  /\ e = Head(queue)
  /\ queue' = Tail(queue)

\* Responses are what the window keeps of the events it takes.
Apply(e) == applied' = IF IsResponse(e) THEN Append(applied, e) ELSE applied

\* Drop for CollectorHandle: the flag, then the join; the receiver goes last.
Release == handle = "open" /\ handle' = "dropping" /\ stop' = TRUE

Joined == handle = "dropping" /\ worker = "done" /\ handle' = "gone"
-----------------------------------------------------------------------------
(* The window of a portable copy as the owner.                             *)

UiTakes ==
  /\ \E e \in Events : Take(e) /\ Apply(e)
  /\ UNCHANGED <<captureVars, workerVars, captureQ, stop, handle, seen>>

UiCloses ==
  /\ Release
  /\ UNCHANGED <<captureVars, workerVars, captureQ, queue, applied, seen>>

UiJoins ==
  /\ Joined
  /\ UNCHANGED <<captureVars, workerVars, captureQ, queue, stop, applied, seen>>

Next == ThreadStep \/ UiTakes \/ UiCloses \/ UiJoins

Spec == Init /\ [][Next]_vars

\* The threads run, and a frame drains the events for as long as the window is
\* open; packets need not arrive and the window need not be closed.
FairSpec ==
  Spec /\ WF_vars(CaptureStep) /\ WF_vars(WorkerStep) /\ WF_vars(UiTakes)
       /\ WF_vars(UiJoins)
-----------------------------------------------------------------------------
(* Properties.                                                             *)

TypeOK ==
  /\ capture \in {"opening", "checking", "receiving", "done"}
  /\ control \in {"none", "open", "shut"}
  /\ blocking \in BOOLEAN /\ captureStop \in BOOLEAN
  /\ captureQ \in Seq(Events) /\ Len(captureQ) <= CaptureCap
  /\ worker \in {"greeting", "checking", "receiving", "sending", "stopping",
                 "closing", "joining", "done"}
  /\ hand \in Seq(Responses) /\ Len(hand) = (IF worker = "sending" THEN 1 ELSE 0)
  /\ readyKnown \in BOOLEAN /\ stop \in BOOLEAN
  /\ queue \in Seq(Events) /\ Len(queue) <= QueueCap
  /\ handle \in {"open", "dropping", "gone"}
  /\ applied \in Seq(Responses)
  /\ seen \in 0 .. MaxResponses

\* The responses of q are in the order the game sent them, none of them twice.
Increasing(q) ==
  \A i, j \in 1 .. Len(q) :
    (i < j /\ IsResponse(q[i]) /\ IsResponse(q[j])) => q[i].id < q[j].id

\* From the capture thread to the window the responses stay in order and none
\* is applied twice, however the channels fill up: the totals on screen never
\* go back to an older response.
ResponsesInOrder == Increasing(applied \o queue \o hand \o captureQ)

\* Response n has passed the collector thread and is on screen or on its way.
OnItsWay(n) == Holds(applied \o queue \o hand, n)

\* A response the collector has accepted stays on its way or on screen until the
\* window is closed: no backlog of routine events crowds it out.
CollectorKeepsResponses ==
  [][\A n \in 1 .. MaxResponses :
       OnItsWay(n) /\ handle' = "open" => OnItsWay(n)']_vars

\* It does not only stay on its way: it arrives, unless the window is closed.
ResponsesAreApplied ==
  \A n \in 1 .. MaxResponses :
    OnItsWay(n) ~> (Holds(applied, n) \/ handle # "open")

\* The join inside run_collector comes back whatever the capture thread is
\* doing: still choosing a source, about to read, or waiting for a packet that
\* never comes.
StopReachesCapture == (worker = "joining") ~> (worker = "done")

\* "a disconnected consumer ends the loop instead": closing the window ends the
\* collector even when a response is waiting for room.
CloseCompletes == (handle = "dropping") ~> (handle = "gone")
=============================================================================
