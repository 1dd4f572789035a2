---------------------------- MODULE RemoteCapture ----------------------------
(***************************************************************************)
(* The installed copy: the capture service owns the collector, forwards    *)
(* its events over a local connection, one line per event, and the window  *)
(* process reads them back in a thread of its own, which reconnects when   *)
(* the connection is lost.  The service serves one connection at a time    *)
(* and may be stopped, killed and started again at any moment.             *)
(*                                                                         *)
(* The handle of module Collector is the service's: open while a client is *)
(* served, gone while it waits in accept().                                *)
(***************************************************************************)
EXTENDS Collector

CONSTANTS
  WireCap,         \* bound: events the connection holds before a write blocks
  ClientCap,       \* bound of the channel to the window (256)
  MaxStale         \* bound: connections given up before they were accepted

ASSUME RemoteAssumption ==
  WireCap \in Nat \ {0} /\ ClientCap \in Nat \ {0} /\ MaxStale \in Nat

VARIABLES
  service,         \* the service process: up, stopping, down
  stale,           \* connections in the backlog whose client has gone
  peer,            \* the client of the session served: here, or gone
  link,            \* the connection of the client: none, queued, served, closed
  wire,            \* events on it that the client has not read
  line,            \* the client's line buffer: empty, half an event, or torn
  client,          \* where the client thread is
  clientQ,         \* RemoteCollector::events
  ui,              \* the window: open, closing, closed
  garbled          \* history: the client decoded a line nobody sent

serviceVars == <<service, stale, peer>>
clientVars  == <<line, client, garbled>>
rvars == <<vars, serviceVars, clientVars, link, wire, clientQ, ui>>

\* The first handshake has succeeded; otherwise the window process starts the
\* collector of module Collector itself.
RemoteInit ==
  /\ capture = "opening" /\ blocking = FALSE /\ control = "none"
  /\ captureStop = FALSE /\ captureQ = <<>>
  /\ worker = "checking" /\ hand = <<>> /\ readyKnown = FALSE
  /\ queue = <<>> /\ stop = FALSE /\ handle = "open"
  /\ applied = <<>> /\ seen = 0
  /\ service = "up" /\ stale = 0 /\ peer = "here" /\ link = "served"
  /\ wire = <<>> /\ line = "empty" /\ client = "reading" /\ garbled = FALSE
  /\ clientQ = <<>> /\ ui = "open"

CollectorSteps ==
  /\ service # "down"
  /\ ThreadStep
  /\ UNCHANGED <<serviceVars, clientVars, link, wire, clientQ, ui>>
-----------------------------------------------------------------------------
(* The service: run_server, serve_client and forward_events.               *)

StartSession(who) ==
  /\ service = "up" /\ handle = "gone"
  /\ peer' = who
  /\ handle' = "open" /\ worker' = "greeting"
  /\ UNCHANGED <<captureVars, captureQ, hand, readyKnown, queue, stop,
                 applied, seen, service, clientVars, wire, clientQ, ui>>

\* The backlog is first come, first served, and the service cannot tell a
\* connection whose client has given up: its request is there to be read.
AcceptStale ==
  /\ stale > 0 /\ stale' = stale - 1
  /\ StartSession("gone")
  /\ UNCHANGED link

Accept ==
  /\ stale = 0 /\ link = "queued"
  /\ StartSession("here")
  /\ link' = "served"
  /\ UNCHANGED stale

\* A write to a connection whose client has gone may still succeed.
Forward ==
  /\ \E e \in Events :
       /\ Take(e)
       /\ IF peer = "here"
          THEN Len(wire) < WireCap /\ wire' = Append(wire, e)
          ELSE UNCHANGED wire
  /\ UNCHANGED <<captureVars, workerVars, captureQ, stop, handle, applied, seen, serviceVars, clientVars, link, clientQ, ui>>

\* Mutant: a write that was reported as failed is repeated.
ForwardAgain ==
  /\ handle = "open" /\ queue # <<>>
  /\ peer = "here" /\ Len(wire) < WireCap
  /\ wire' = Append(wire, Head(queue))
  /\ UNCHANGED <<vars, serviceVars, clientVars, link, clientQ, ui>>

\* The write fails, or was blocked for 30 s; the event is lost with the session.
ForwardFails ==
  /\ peer = "gone" \/ Len(wire) = WireCap
  /\ \E e \in Events : Take(e)
  /\ Release
  /\ UNCHANGED <<captureVars, workerVars, captureQ, applied, seen,
                 serviceVars, clientVars, link, wire, clientQ, ui>>

\* The collector has ended, or the service is asked to stop.
ForwardEnds ==
  /\ (queue = <<>> /\ worker = "done") \/ service = "stopping"
  /\ Release
  /\ UNCHANGED <<captureVars, workerVars, captureQ, queue, applied, seen,
                 serviceVars, clientVars, link, wire, clientQ, ui>>

\* The memory of a collector that is dropped, or whose process has ended.
CollectorGone ==
  /\ blocking' = FALSE /\ control' = "none" /\ captureStop' = FALSE
  /\ hand' = <<>> /\ readyKnown' = FALSE /\ stop' = FALSE
  /\ queue' = <<>> /\ captureQ' = <<>>
  /\ UNCHANGED <<applied, seen>>

EndSession ==
  /\ link' = IF link = "served" THEN "closed" ELSE link
  /\ peer' = "gone"
  /\ CollectorGone
  /\ UNCHANGED <<capture, worker, service, stale, clientVars, wire, clientQ, ui>>

\* Mutant: the collector is not joined.
SessionEndsUnjoined == handle = "dropping" /\ handle' = "gone" /\ EndSession

\* serve_client returns: the writer is dropped, then the collector joined, and
\* only then the reader, the last holder of the connection.
SessionEnds == Joined /\ EndSession

ServiceAsked ==
  /\ service = "up" /\ service' = "stopping"
  /\ UNCHANGED <<vars, stale, peer, clientVars, link, wire, clientQ, ui>>

\* The connections the process held are closed; the client may still find a
\* part of what was written.
ConnectionsClose ==
  /\ service' = "down" /\ stale' = 0
  /\ link' = IF link = "none" THEN link ELSE "closed"
  /\ \E n \in 0 .. Len(wire) : wire' = SubSeq(wire, 1, n)
  /\ UNCHANGED <<clientVars, clientQ, ui>>

ServiceExits ==
  /\ service = "stopping" /\ handle = "gone"
  /\ ConnectionsClose
  /\ UNCHANGED <<vars, peer>>

ServiceKilled ==
  /\ service # "down"
  /\ ConnectionsClose
  /\ CollectorGone
  /\ capture' = "done" /\ worker' = "done" /\ handle' = "gone" /\ peer' = "gone"

ServiceStarts ==
  /\ service = "down" /\ service' = "up"
  /\ UNCHANGED <<vars, stale, peer, clientVars, link, wire, clientQ, ui>>
-----------------------------------------------------------------------------
(* The client thread: RemoteCollector::connect and open.                   *)

unchangedByClient ==
  <<captureVars, workerVars, captureQ, queue, stop, handle, seen, applied, service, ui>>

\* A read timed out in the middle of an event; what was read stays in the line.
ReadHalf ==
  /\ client = "reading" /\ line = "empty" /\ wire # <<>>
  /\ line' = "half"
  /\ UNCHANGED <<unchangedByClient, stale, peer, link, wire, client, clientQ, garbled>>

\* The rest of a lost event and the next one would make one line of invalid data.
ReadEvent ==
  /\ client = "reading" /\ wire # <<>>
  /\ wire' = Tail(wire)
  /\ line' = "empty"
  /\ garbled' = (garbled \/ line = "torn")
  /\ clientQ' = TrySend(clientQ, IF line = "torn" THEN Noise ELSE Head(wire), ClientCap)
  /\ UNCHANGED <<unchangedByClient, stale, peer, link, client>>

\* End of the connection, perhaps in the middle of an event.
SeesEnd ==
  /\ client = "reading" /\ link = "closed" /\ wire = <<>>
  /\ client' = "waiting" /\ link' = "none"
  /\ line' \in IF line = "half" THEN {"torn"} ELSE {line, "torn"}
  /\ clientQ' = TrySend(clientQ, Noise, ClientCap)
  /\ UNCHANGED <<unchangedByClient, stale, peer, wire, garbled>>

\* After RECONNECT_DELAY.  An open that finds no service only adds an error.
Reconnect ==
  /\ client = "waiting" /\ ui = "open"
  /\ \/ /\ service # "down" /\ stale < MaxStale
        /\ client' = "handshake" /\ link' = "queued"
        /\ UNCHANGED clientQ
     \/ /\ service = "down"
        /\ clientQ' = TrySend(clientQ, Noise, ClientCap)
        /\ UNCHANGED <<client, link>>
  /\ UNCHANGED <<unchangedByClient, stale, peer, wire, line, garbled>>

HandshakeTo(buffer) ==
  /\ client = "handshake" /\ wire # <<>>
  /\ wire' = Tail(wire)
  /\ client' = "reading" /\ line' = buffer
  /\ clientQ' = TrySend(clientQ, Noise, ClientCap)
  /\ UNCHANGED <<unchangedByClient, stale, peer, link, garbled>>

\* Mutant: the line buffer of the lost connection is kept.
HandshakeKeepsLine == HandshakeTo(line)

\* Connected is taken off the wire and not passed on.
Handshake == HandshakeTo("empty")

\* The socket is dropped: what was on it is gone, and the service will accept
\* or serve it without anybody at the other end.
GiveUp ==
  /\ link' = "none" /\ wire' = <<>>
  /\ stale' = IF link = "queued" THEN stale + 1 ELSE stale
  /\ peer' = IF link = "served" THEN "gone" ELSE peer

\* No greeting within two seconds, or the connection was closed before it.
HandshakeFails ==
  /\ client = "handshake"
  /\ client' = "waiting"
  /\ GiveUp
  /\ clientQ' = TrySend(clientQ, Noise, ClientCap)
  /\ UNCHANGED <<unchangedByClient, line, garbled>>

StopClient ==
  /\ client' = "done"
  /\ GiveUp
  /\ clientQ' = TrySend(clientQ, Stopped, ClientCap)
  /\ UNCHANGED <<unchangedByClient, line, garbled>>

\* Mutant: the flag is not looked at between two attempts to reconnect.
ClientStopsReading == client = "reading" /\ ui = "closing" /\ StopClient

ClientStops == client \in {"reading", "waiting"} /\ ui = "closing" /\ StopClient
-----------------------------------------------------------------------------
(* The window.                                                             *)

unchangedByUi ==
  <<captureVars, workerVars, captureQ, queue, stop, handle, seen,
    serviceVars, clientVars, link, wire>>

WindowTakes ==
  /\ ui = "open" /\ clientQ # <<>>
  /\ Apply(Head(clientQ))
  /\ clientQ' = Tail(clientQ)
  /\ UNCHANGED <<unchangedByUi, ui>>

WindowCloses ==
  /\ ui = "open" /\ ui' = "closing"
  /\ UNCHANGED <<unchangedByUi, applied, clientQ>>

\* Drop for RemoteCollector.
WindowJoins ==
  /\ ui = "closing" /\ client = "done" /\ ui' = "closed"
  /\ UNCHANGED <<unchangedByUi, applied, clientQ>>
-----------------------------------------------------------------------------
ServiceStep ==
  \/ AcceptStale \/ Accept
  \/ Forward \/ ForwardFails \/ ForwardEnds \/ SessionEnds
  \/ ServiceAsked \/ ServiceExits \/ ServiceKilled \/ ServiceStarts

ClientStep ==
  \/ ReadHalf \/ ReadEvent \/ SeesEnd \/ Reconnect
  \/ Handshake \/ HandshakeFails \/ ClientStops

RemoteNext ==
  \/ CollectorSteps \/ ServiceStep \/ ClientStep
  \/ WindowTakes \/ WindowCloses \/ WindowJoins

RemoteSpec == RemoteInit /\ [][RemoteNext]_rvars

\* Only the threads of the window process are relied on: a read, a handshake
\* and a wait all have a timeout, and the stop flag is looked at after each.
RemoteFairSpec ==
  /\ RemoteSpec
  /\ WF_rvars(HandshakeFails) /\ WF_rvars(ClientStops)
  /\ WF_rvars(WindowJoins)
-----------------------------------------------------------------------------
(* Properties.                                                             *)

RemoteTypeOK ==
  /\ TypeOK
  /\ service \in {"up", "stopping", "down"} /\ stale \in 0 .. MaxStale
  /\ peer \in {"here", "gone"}
  /\ link \in {"none", "queued", "served", "closed"}
  /\ wire \in Seq(Events) /\ Len(wire) <= WireCap
  /\ line \in {"empty", "half", "torn"}
  /\ client \in {"reading", "waiting", "handshake", "done"}
  /\ clientQ \in Seq(Events) /\ Len(clientQ) <= ClientCap
  /\ ui \in {"open", "closing", "closed"} /\ garbled \in BOOLEAN

\* Over lost connections, restarted services and sessions served to nobody, the
\* responses still reach the window in the order of the game and only once.
WholePathInOrder ==
  Increasing(applied \o clientQ \o wire \o queue \o hand \o captureQ)

\* A timeout or a lost connection in the middle of an event never puts the line
\* framing out of step.
NothingGarbled == ~garbled

\* A session starts a capture only when the capture of the session before it is
\* over, so the driver is never open twice.
OneCapture == [][worker' = "greeting" /\ worker # "greeting" => capture = "done"]_rvars

\* The window can always be closed, whatever the service is doing and however
\* full the channel to the window is.
WindowCanClose == (ui = "closing") ~> (ui = "closed")
=============================================================================
