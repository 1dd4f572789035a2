# ARC Live: TLA+ verification project

ARC Live is a Windows program that shows a streamer how much an ARC Raiders
account has gained since the stream began. It captures the game's HTTPS
traffic, decrypts it with the game's TLS key log, picks the statistics response
out of it, subtracts a baseline, and shows the difference in its window and in
an OBS widget. This directory models the parts of it whose correctness depends
on order, on failure or on limits. Paths below are relative to the repository;
`crates/` stands for `src/crates/`.

Contents: 1 the system, 2 the modules, 3 the runs, 4 bounds and fairness,
5 the proofs, 6 where code and words disagree, 7 what is left out, 8 the plan.

## 1. The system

### 1.1 Components

| Component | Source | State it keeps | Operations | What makes it correct |
|---|---|---|---|---|
| Stream session | `arc-live/src/ui.rs`, `core/src/state.rs` | overlay figures, `session_baseline`, `stream_day`, `stream_started_at`, demonstration mode, confirmation card | start, restore, `apply_probe`, rollover, reset, demonstration, game start and stop, `Drop` | counters are the growth since the baseline in force; a day starts empty; a crash loses nothing; the demonstration is never taken for the stream |
| Storage | `storage/src/lib.rs` | one row of `stream_session`; observations, user events | save, load, prune | the row is the state of the process, and of one day |
| Collector | `collector/src/lib.rs` | two threads, two bounded channels, stop flags | start, receive, normalise, send, stop, join | responses in order and once; an accepted response arrives; stopping ends both threads |
| Capture loop | `capture/src/scanner.rs:150-360` | source, stop flag, control, counters, key log | open, poll, reload, stop | see Collector |
| Discovery parser | `capture/src/scanner.rs:548-909` | scan buffers, walked bodies, host map, `last_seen`, pending requests | `parse_stream`, `touch_and_prune` | messages stay framed; tables stay bounded; the statistics response is read on whatever connection it comes |
| Packet sources | `capture/src/{source,raw,rawsock,etw}.rs` | sockets, driver handle, trace session and its worker, control | open with validation, poll, rebind, shut down, drop | a stop ends the thread wherever it is; everything opened is closed; no address and no packet is left waiting |
| Capture service | `capture-service/src/main.rs` | one session at a time, stop event | accept, serve, forward, stop | one capture at a time; events forwarded in order |
| Client of the service | `arc-live/src/service_client.rs` | connection, line buffer, bounded channel | connect, handshake, read, reconnect, stop | framing survives timeouts; the window can close |
| Local server and widget | `arc-live/src/server.rs` | port, broadcast channel of 64, web socket clients | bind, snapshot, greet, subscribe, broadcast, let go | a page shows the current state in the end and never goes back; it finds the next run |
| Updates | `arc-live/src/updates.rs` | channel, available, downloaded, busy flags | check, download, install | what is installed was verified; offers are of the channel chosen; no way back |
| Process monitor | `arc-live/src/process_monitor.rs`, `process_env.rs` | last status sent, channel of one | look, probe, send, stop | the window learns the status in the end |
| Statistics, presets, configuration, redaction | `core/src/*.rs` | none, or a file | pure functions | totals saturate, unknown input is refused |
| Launcher, session setup, single instance, tray | `arc-live/src/*.rs` | handles of Windows | calls to Windows | outside a model's reach |
| Diagnostics, release tool, vendored engine | | | file and packet processing | outside the program's own logic |

`PROJECT.json` lists each of them with what is modelled of it.

### 1.2 How they interact

    packets -> capture thread -(512, try_send)-> collector thread
       portable:   -(1024, send for a response, try_send for the rest)-> window
       installed:  -> service thread -(TCP on 127.0.0.1, one line per event)->
                      client thread -(256, try_send)-> window
    window -> SQLite row                     (persist_stream_session)
    window -> broadcast -> web sockets -> widget in OBS
    process monitor -(1, try_send)-> window;  update threads -> window

The window is one thread: `logic()` runs at least every 250 ms, checks the day,
drains the channels and draws. Everything else is a thread or a process of its
own, and every hand-over between them is a bounded channel or a connection.

### 1.3 What is hard

* **Order of handlers** on the window thread: midnight between two frames, a
  demonstration over a stream in progress, a confirmation card that stays open.
* **Crashes**: the process may be killed between any two handlers, the service
  killed or stopped at any time; SQLite may refuse a save.
* **Limits**: five bounded channels, each with `try_send` but one; three bounded
  tables and two caps on a buffer in the parser.
* **Things outside the process**: an ETW session that outlives it and has one
  name for everybody, interfaces that come and go, ports that are taken, a page
  in OBS that lives through many runs.
* **Stopping**: joins in destructors, a source that waits for a packet, a
  handshake with a service that is busy.
* **Framing**: a stream cut anywhere into calls, lost bytes, bodies too large to
  keep, responses that carry no name and are paired with requests by order.

`PROJECT.json` "hazards" has each at its line, with the property that covers it.

## 2. The modules

### StreamLedger (abstract) and StreamSession

`StreamLedger` is what a streamer is promised: a base, a total, the counter is
their difference; the base moves with the first report of a day or when the
streamer restarts the stream, and a crash is not visible at all.

`StreamSession` is `ArcLiveApp` as far as figures go, together with the row of
`stream_session`.

| Model | Code |
|---|---|
| `StartRestored`, `StartFresh` | `ArcLiveApp::new`, `load_stream_session` |
| `Response` | `apply_probe`, with `apply_session_baseline` and the save |
| `Rollover`, `RolloverTo` | `rollover_day_if_needed`, called by `logic()` behind the notice |
| `AskReset`, `CancelReset`, `ConfirmReset` | the card in `view.rs`, `start_new_stream` |
| `DemoOn`, `FlipDemoBalance`, `DemoOff` | `load_demo_stats`, `clear_demo_stats` |
| `GameStarts`, `GameStops` | the process status in `drain_events`, with its save |
| `Exit`, `Kill`, `Midnight` | `Drop`, the end without it, the clock |
| `Persist` | `persist_stream_session`: nothing before a baseline, or saved, or refused |

All counters of `OverlayStats` are computed alike, so the model has one that
grows (`loot`) and one that enters the balance with a minus sign (`invested`).
`src` (who wrote a figure), `dirty` (the last save failed) and `last` (the last
response) are history that no action reads. `DuringDemo` and `StorageMayFail`
say what a run admits; they are conditions on the environment, never on code.

### Collector

The capture thread (`start_capture`, `capture_loop`), the collector thread
(`start_local`, `run_collector`), both channels and the handle. A turn of the
capture loop yields at most one event; events other than responses and the
three markers matter only for the room they take and are one `Noise`. `hand`
is the response the blocking `send` is waiting with. `blocking` says whether
the source waits inside `next_packet` (WinDivert) or polls (ETW, raw sockets).
`WorkerStopsCapture`, `WorkerShutsSource`, `WorkerJoins` are the three steps of
`CaptureHandle::stop` and the join.

### EtwCapture, SocketCapture and PacketSource

`EtwCapture` is the trace session with the thread that runs `ProcessTrace`
(`worker`: spawned, attached to the session, its trace handle published, reading,
returned). `session` is whoever bears the one name: nobody, the leftover of a
crash, another program, or us; the callback `on_event` puts a packet into a
bounded queue and drops it when the queue is full. `EtwCloseTrace` and
`EtwStopSession` are the two steps of `shutdown`, which a flag admits once.

`SocketCapture` is the list of bound sockets: `LookUp` (the addresses as they are
at that moment), `Reconcile` (close what is gone, keep the others in their order,
open what is new and can be opened, under the lock), a round over a copy of the list from the position after
the last one read (`SocketReads`), and a shutdown that may come in between.
`MaxInterfaces` stands for the 8 addresses `local_ipv4_addresses` looks at.

`PacketSource` extends both with the driver and composes them:

| Model | Code |
|---|---|
| `OpenEtw`, `OpenSockets`, `OpenDivert`, `NextSource` | `PacketSource::open`, asked for one source or trying each |
| `Judges`, `ValidationFails`, `Rejected` | `delivers_inbound`; a source that fails is shut down and dropped |
| `Publish`, `SeesStop`, `KeylogFails` | the control made known to the handle, the loop, its ends |
| `PollEtw`, `BeginRebind` ... `PollSockets`, `EnterRecv` ... `RecvFails` | `next_packet` of each source |
| `AskStop`, `StopEtw`, `StopSockets`, `StopOther` | `CaptureHandle::stop`: the flag, then the control if there is one yet |
| `DropEtw`, `DropSockets`, `DropDivert` | the destructors, with the join of the worker |
| `ProbeEnds` | `probe_packet_source`, the other user of a source |

`sick` says that a source delivers outbound packets only. A receive that the
shutdown of the driver interrupts may fail with the one code that counts as
"nothing read" or with another, which ends the loop as an error: the code accepts
995 (`raw.rs:120`), the driver's documentation names another for a handle that
was shut down. A receive may also fail at any other time (`RecvFails`).

### LiveView

The way of what is the case to a viewer: game, monitor, window, server, page.
`game` is the set of answers the game's processes give when their environment is
asked for (`Answers`), and `Verdicts` what `game_keylog_status` makes of them.
The monitor looks twice (`Look`, `Probe`) and then tries to tell (`Send`). The
window writes the state first and notifies afterwards (`DrainMonitor`,
`DrainCollector`, `Edit`, then `Notify`), and whatever the state is, it is a
`version` to the rest. The server reads the state for a first request
(`AnswerFetch`) and for a greeting (`Greet`), subscribes after the greeting
(`Subscribe`), forwards (`Forward`), and lets a page go that lost a notification
(`LetGo`). The page's socket and its first request are independent, so their
answers may land in either order. `BindServer`, `SavePort`, `SaveFails`,
`OpenWindow`, `Quit`, `Stopped`, `Crash` are the life of the program that the
page lives through; `config` is the port in the configuration file. Messages on
their way to a page are counted to the receiver they come from.

### RemoteCapture

Extends `Collector`: the same threads, owned by the capture service. Service
(`run_server`, `serve_client`, `forward_events`, restarts and kills), connection
(a bounded sequence of events), client thread (line buffer, handshake with its
two-second limit, reconnection) and window. A connection whose client gave up
before it was accepted is `stale`: the service serves it to nobody.
`peer` tells whether the session in service still has its client.

### Framing

One direction of one connection through `parse_stream`. The buffer is always a
stretch `lo .. hi` of the stream, so no bytes are modelled; `stream` describes
the messages (start, end of header, where the length line is, whether the body
is chunked or not UTF-8, which positions are inside a character). One call is `Feed` (append, and skip the rest of a
walked body), one step per turn of the loop (`WalkPast`, `DropHead`, `Frame`)
and `EndCall` with both caps. `BufferDropped` and `ConnectionPruned` are what
calls for *other* connections do to this one: the 96 MB limit on all buffers
together, and `touch_and_prune`. `hurt` is history: the messages a cut of the
buffer may have cost. The end marker of a header counts as one byte.

### Discovery

What the parser remembers across connections: `hosts`, `last_seen` (`seen`: of
the moments in it only their order matters, so each connection has the set of
those heard of later), `pending_requests` of the connection that is followed. A call is one step: `Touch` (`touch_and_prune`) and at most one
message. `Track` is the eviction from the host map, `SeeResponse` the pairing,
the recognition by body and the resynchronisation. `MissRequest` and
`MissResponse` are messages the framing lost. A step of `SeeNothing` is any call
that yields nothing for the API. `TimeOut` is what `capture_loop` does for a
connection the stream manager gave up. `rows` is a 2xx response with rows.

### Updates

`UpdateManager` is the record `manager`; a spawned thread is an entry of
`thread` that goes through `check` or `fetch`, `write`, `swap` and `post` (the
blocking send). `Drain` is one turn of the loop in `drain`; `logic()` drains
before `ui()` sees a click, so a click finds the channel empty (`Clicked`); an
event that arrives in between commutes with the click. `temp` and `final` are the files of each
version as sets of parts, and a writing thread knows where the file it has open
has gone, because a rename or a removal by another thread leaves its handle
open. `Exit` is any end of the process, a crash included; `InstallerRuns` is the
script that waits for it. `crossed` is history: an answer of one kind ended the
other's spinner.

A version is what `version_parts` makes of its text (`Release`): the numbers of
its core and the characters of its suffix, of which the stage counts as one and
each digit as one. `IsNewer` is `is_newer`: cores by number, a release proper
after its previews, suffixes as text. A manifest may name any version of `Named`
at any time, an older one again after a newer one was withdrawn included, and any
version may be the installed one.

## 3. The runs

| Run | What it checks |
|---|---|
| `StreamSession` | `LiveCountersMatchBaseline`, `NewDayStartsEmpty`, `StreamStartsToday`, `CrashLosesNothing` with every order of handlers, two days, failing storage and everything the demonstration can be mixed with |
| `StreamLedger` | `ImplementsLedger` (refinement) and `NoDemoAsLive`, over three days, when the demonstration is left by a response or with the process |
| `Collector` | `ResponsesInOrder`, `CollectorKeepsResponses`, `ResponsesAreApplied`, `StopReachesCapture` |
| `RemoteCapture` | `WholePathInOrder`, `NothingGarbled`, `OneCapture`, `WindowCanClose` |
| `Framing` | `CompleteIsFramed`, `NoNeedlessCut`, `WalkEndsAtMessage` for every way to cut 729 streams into calls |
| `Discovery` | `AnswerIsRead`, `NamedAfterItsRequest` |
| `Updates` | `SpinnersTellTruth`, `InstallerIsVerified`, `NeverDowngrades`, `SpinnersEnd` |
| `PacketSource` | `Released`, `StopEnds`, `RebindSettles`, `NoInterfaceStarves` |
| `LiveView` | `NeverBack`, `PortIsKept`, `StatusSettles`, `PageCatchesUp` |
| `DemoGameStop`, `CollectorClose`, `LaunchUnverified` | one property each, which the code does not have: section 6 |

What the less obvious properties say:

* `CrashLosesNothing`: in every state with live figures, restoring the row
  gives exactly what is on screen, unless the last save failed. It ties the
  order of "compute, show, save" in four handlers together.
* `ImplementsLedger`: seen through the row of the day in force, the process,
  its restarts and its crashes are a ledger. A reset that is shown and not saved,
  or a save of the wrong baseline, is a step no ledger makes.
* `CollectorKeepsResponses` and `ResponsesAreApplied`: the one blocking `send`
  among the `try_send`s does its work. What the capture thread's own `try_send`
  drops in front of it was never accepted; that loss is real and not excluded.
* `CompleteIsFramed`: a message that has arrived whole was framed by the end of
  the call. A body too large to keep costs only itself; a cut of the buffer
  costs the message it falls in and those up to the one after the next text body
  (a header that has undecodable bytes in front of it is dropped with them, be it
  the rest of a body that is not text or of a character that was cut in two).
* `NoNeedlessCut`: with headers that fit the scan buffer the parser never cuts a
  stream by itself; only chunked bodies beyond the limit are excepted, whose
  length is not known ahead.
* `AnswerIsRead`: if a request was seen on the connection and fewer than
  `MaxHosts - 1` other API connections were heard of since, the statistics
  response is read, whatever was missed, dropped or mislabelled in between.
* `NamedAfterItsRequest`: a response is named after its own request until
  something is missed, and again after a statistics response has dropped the
  queue with nothing outstanding.

* `InstallerIsVerified`: the file that is called verified, and the one the script
  will start, hold every part of what was hashed, whatever was left behind by
  crashes, failed downloads and downloads of the same version before. It excepts
  what `LaunchUnverified` shows; `SpinnersTellTruth` says when that can happen.
* `NeverDowngrades`: the newer version that was checked for, perhaps on another
  channel and before the manifest changed, is still one when the script runs.
  `Outranks` is the precedence of semantic versioning and not the comparison in
  the code, and `MisreadNumbers` is exactly where the two differ: section 6.
* `Released`: when the thread has ended and nobody is still stopping it, no
  socket, session, worker or driver handle of ours is left, although a rebind may
  open sockets after the control has closed them all and a session may be taken
  away and replaced while it is being stopped.
* `StopEnds`: a stop ends the thread wherever it is. It rests on the order "flag,
  then control" against "control, then look at the flag": whichever of the two
  threads comes first, one of them shuts the source down. When the worker has
  attached to another program's session by name and the stop comes before its
  trace is published, neither of the two ends that session: the worker returns,
  and is joined, when the other program closes it (`ForeignCloses`).
* `RebindSettles` and `NoInterfaceStarves`: an address that stays up gets its
  socket and one that went away loses it, and a packet that waits in a socket is
  read, however busy the others are and however often the list changes under the
  position that walks over it.
* `NeverBack`: over one connection a page is never told an older state after a
  newer one; that the subscription comes after the greeting is why.
* `PageCatchesUp` is what that order costs and how it is made good: a
  notification between the greeting and the subscription is missed, and so are
  those a slow page loses, but the page ends up with the state of the window. The
  answer to its first request may land after a newer message and is corrected
  by the next report.
* `StatusSettles`: once the game neither starts nor ends, the window's status is
  the verdict on it, whatever the channel of one was full with and whatever the
  two looks made of a game that was just ending.
* `PortIsKept`: a run that finds the port of the last run free uses it.

Two things these properties deliberately do not say, because the code does not
do them. A request on a connection that is on a full list already evicts another
connection although nothing has to be added (`scanner.rs:725`), so "never evicted
to make room for others" (`scanner.rs:46`) holds of the table of connections and
not of the host list. And a resynchronisation that happens while other requests
are outstanding forgets those too, so responses after it are named one off until
the queue is empty again; names only appear in observations.

## 4. Bounds and fairness

* `StreamSession`: two days (three for the ledger), three pairs of totals that
  grow, shrink and push the balance past both ends, with `MaxDelta = 1`.
  A third day adds no handler; a second is needed for rollover and restore.
* `Collector`: channels of 2 and 2, three responses: a channel can be full of
  noise, full of responses, or mixed, and an order can be violated twice.
* `RemoteCapture`: every channel 1, two responses, one stale connection: the
  smallest in which a connection is both full and lost with a rival behind it.
  `MaxStale` bounds the backlog; the client's further attempts wait in the model.
* `Framing`: three messages of nine shapes, calls of 1, 2, 4 or 7 bytes, caps
  of 2 and 5 bytes: bodies are below, exactly at and above the cap, and a call
  may end before, at and beyond each boundary of the stream.
* `Discovery`: five connections, four remembered, three on the list, queues of
  two, three requests: every table overflows, and one rival is admitted while a
  second is one too many. The other connections, and the requests that are not
  for the statistics, are symmetric; every property is an invariant, so the
  reduction is sound.

* `Updates`: four versions, 0.9.9, 1.0.0-beta.9, 1.0.0-beta.10 and 1.0.0, each of
  which may be the installed one; the last two were withdrawn, so that the beta
  manifest names beta.9 and the stable one 0.9.9 or beta.9. Every way two versions
  compare is there, in both orders, and every manifest but the first would be a
  way back for somebody. Two channels, two threads: one check and one download
  at a time, or two of a kind once their flags have crossed. An installer of one
  part is absent, incomplete or whole; the run that shows the damage has two.
  The channel of eight is never full with two threads.

* `PacketSource`: a queue of one packet, two addresses and room for both. Every
  source can open, be refused, fail validation and be stopped; a second session
  under the name can be in the way twice. A third address, one that cannot be
  opened, was checked too and gave nothing new (146 000 states).
* `LiveView`: two ports, the second of them a fallback, one notification held for
  a page, processes that refuse or name our file, and a version that stops
  growing at 3, so that a start, a restart, a change of the status and a change of
  the figures all fit. A channel of one is full after one element, as one of 64 is
  after 64; nothing in the server looks at how many there are. From the bound on
  nobody starts the program again, so it may stay down and deadlock is not checked.

Fairness is only assumed for what the scheduling gives:

* `Collector`: weak fairness of each thread and of the frame that drains the
  events (`UiTakes`). No packet, no key log and no user is assumed.
  `CaptureStep` leaves out `PacketArrives`, so liveness never rests on traffic.
* `RemoteCapture`: weak fairness of the client thread's time-out
  (`HandshakeFails`), of its stop and of the join: each read has a timeout and
  the flag is looked at after it. The service is not assumed to do anything.

* `Updates`: weak fairness of `Drain` (every 250 ms) and of each thread, whose
  requests have time limits of 15 and 120 seconds. Nobody is assumed to click.

* `PacketSource`: weak fairness of the capture thread, the thread that stops it
  and the ETW worker, none of which waits for traffic. Strong fairness of the end
  of the validation window, which is a matter of seconds, and of a rebind that is
  due and can open every new address: it is tried every few seconds for ever.
  A capture of another program is assumed to close some day; without that the
  name may be taken for good. No packet is assumed to arrive, and no receive to fail.
* `LiveView`: weak fairness of the monitor, the server's tasks, the page and the
  window; strong fairness of `DrainMonitor`, because a pass over the channels ends
  with the monitor's, whatever the collector had to say. `DrainCollector` is the
  report of a running capture, once a second (`scanner.rs:299-308`), after which
  the window notifies in any case (`ui.rs:526`): `PageCatchesUp` holds only while a
  capture reports. With the capture gone a page may keep the state it was greeted
  with until something else changes. Nobody is assumed to edit, start or end
  anything.

Deadlock is checked in the session runs, in `Updates` and in `PacketSource`. In the others the
system may stop: the threads have ended, or the peer has nothing more to send.

## 5. The proofs

Every invariant and every action property of a passing run is a theorem, for
every value of the constants that satisfies the assumptions below. What is left
to TLC is liveness. The proofs stand in a module for each component:

| Module | Theorems and the properties they state |
|---|---|
| `StreamSessionProofs` | `TypeCorrect`; `SessionInvariant`; `CountersAreGrowth`, `FreshDay`, `StartedToday`, `Durability`, `DemoStaysDemo`; `RowStaysCurrent`, `Refinement` (`ImplementsLedger`); `BalanceKeepsItsSign` |
| `CollectorProofs` | `CollectorTypeCorrect`; `OrderOfResponses`, `AcceptedIsKept` |
| `RemoteCaptureProofs` | `RemoteTypeCorrect`; `RemoteInvariant`; `LinesStayWhole`, `OneCaptureAtATime`, `OrderOverTheConnection` (`WholePathInOrder`) |
| `FramingProofs` | `FramingTypeCorrect`; `FramingInvariant`; `WholeMessagesAreFramed`, `WalksEndRight`, `BufferStaysBounded`, `NothingIsCutNeedlessly` |
| `DiscoveryProofs` | `DiscoveryTypeCorrect`; `DiscoveryInvariant`; `StatisticsAreRead` (`AnswerIsRead`), `ResponsesGetTheirNames` |
| `UpdatesProofs` | `UpdatesTypeCorrect`; `UpdatesInvariant`; `SpinnersAreTrue`, `VerifiedIsLaunched`, `NewerIsByPrecedence`, `NoDowngrade` |
| `LiveViewProofs` | `LiveViewTypeCorrect`; `NeverGoesBack`, `PortStays` |
| `PacketSourceProofs` | `PacketSourceTypeCorrect`; `EverythingIsReleased` |

Each proof shows that an inductive invariant holds initially, that every action
keeps it, and that it implies the property. Hardly any property is inductive as
it stands; what has to be added is what the code relies on without saying so:

* **StreamSession.** `SessionInv` adds to the properties only `DaysInOrder`: on
  screen and in the row, a stream starts neither before its day nor after today,
  and daily figures are of its day. `CrashLosesNothing` is not inductive alone: a
  save stores the counters as they are shown and a restart computes them anew, so
  the two agree only because `LiveCountersMatchBaseline` holds when the row is
  written, by whichever of four handlers; and `StreamStartsToday` is a consequence
  of `DaysInOrder` once the rollover ran. Under `DuringDemo = {}`,
  `GameFiguresOnly` is inductive: what is live, saved or a baseline
  (`BaselineFromGame`) has come from the game.
* **The refinement.** With `StorageMayFail = FALSE` as well, the row of the day in
  force holds the baseline and the last totals (`RowIsCurrent`), so each step maps
  to a step of the ledger or a stutter.
* **Collector.** An invariant on identifiers, for channels of any size: everything
  in the path is below `seen`, and each part of the path precedes the next.
* **RemoteCapture.** `RemoteInv` says what makes sessions follow each other: a
  collector that is gone has ended, and its capture before it (`SessionInv`), and
  a line torn by a lost connection is dropped before the client reads again
  (`LineInv`). `RemoteOrder` extends the collector's invariant to the connection and
  the client's channel: both precede all that the collector of that session, and
  of every later one, still has.
* **Framing.** `FramingInv` adds that nothing is kept while a walk lasts and that it
  ends at a message, that everything before `lo` was framed, does not fit or is in
  `hurt`, that the shadow of a broken message is in `hurt` as long as undecodable
  bytes can still stand before a header, and that a finished call left no whole
  message behind. For `NoNeedlessCut` the buffer of an untouched connection starts
  at a message.
* **Discovery.** `AnswerIsRead` rests on `RivalsInv`: while few enough other API
  connections were heard of since the last request, the followed one is on the
  list, and those of the list that were heard of after it are among the counted
  rivals. So when a full list forgets its quietest member, that one is not the
  connection followed; and a table that overflows spares the list. The step needs
  that a finite set has a quietest member in the order `seen` keeps, and that this
  stays an order when connections are heard of and forgotten (`IsOrder`, part of
  `TypeOK`). For the names it is enough that the parser's queue is that of the
  requests outstanding unless something was missed (`NamedInv`).
* **Updates.** The files are kept apart only because the window starts no second
  thread of a kind it knows to be at work. `OneAnswer` counts the answers of a kind
  that are outstanding, as events or in threads, and makes `SpinnersTellTruth`
  inductive; `FilesInv` follows the one download through its files (`FileOf`: the
  temporary file has the parts written so far; `Ready`: what was verified is whole,
  and nobody is at work on it); `OpenFilesInv` says that a thread that writes to a
  file by its name still finds it there. `NewerInv` carries the one comparison of
  versions, made when a manifest is read, to the installation, and
  `NewerIsByPrecedence` says what that comparison is worth: that of semantic
  versioning, previews of one stage with numbers of different length excepted.
* **LiveView.** For any ports and any number of changes, pages' messages included.
  `ServerInv` adds that nothing told or held is newer than the state, and that a
  connection that has not subscribed holds nothing, so that the greeting cannot
  overtake a notification. `PortInv`: the port of a run is the configured one except
  between its binding and its save.
* **PacketSource.** `Released` speaks of the end only; `ReleaseInv` says who is still
  to close what before: sockets, worker and driver handle belong to the phases of
  the thread that holds them, and a session of ours either was not shut down by
  anyone yet, or is between the two halves of the other thread's shutdown. The type
  invariant needs it too: sockets are opened only when none is open, so an unread
  packet is never one of a socket that is no more, and what a rebind keeps and
  what it opens share no address (`ListingsJoin`).

Assumptions: totals are natural numbers; `None` is none of the values;
`DemoLoss` is not positive and the demonstration balances fit; channels hold at
least one event; the local date does not go backwards; the configuration file
that remembers the accepted notice can be written; connections and addresses are
finitely many; the parser remembers more connections than it lists, and
the machine has at least as many as it lists; there is a version, a part, room for
an event and for a thread, and a release channel; a version is two sequences of
numbers, whichever they are, and a manifest names published versions.

Model-checked only: the liveness properties, because temporal reasoning under
fairness and `ENABLED` are out of the prover's reach, and everything of section 6,
where a counterexample is the result. Two definitions are written for the proofs
and say the same as the loop they stand for: the order in `seen` is one of sets
and not a sequence, and the sockets a rebind keeps (`Keeping`) are described by
their order and not computed by a filter, since what a recursive filter returns is an
induction over data.

## 6. Where code and words disagree

* **`DemoGameStop`** (code bug). The game is closed while the demonstration is
  shown: the handler saves whatever is on screen (`ui.rs:569`), without the
  check `Drop` makes (`ui.rs:1174`), and the restart presents it as live.
* **`CollectorClose`** (comment). "A disconnected consumer ends the loop": the
  consumer cannot disconnect first, its receiver is a field of the handle that
  joins the sender. A window closed while a response waits for room hangs.
* **`LaunchUnverified`** (code bug). "Verifies ... its SHA-256 hash before
  launching it": an error of a check also ends the spinner of a download, so a
  second download can be started, which empties the temporary file the first has
  hashed and is about to rename.

Not given a run of their own:

* Returning from the demonstration to the real data sets every total to zero
  (`ui.rs:1033`); the next save keeps the zeroes, and a stream that was restored
  then shows no gains until the next response. With `"leave"` in `DuringDemo` the
  refinement of the ledger fails, which is why `StreamLedger` leaves it out.
* "Never dropped the statistics response even when a backlog of routine updates
  filled the channel" (`CHANGELOG.md:14`): on an installed copy the client thread
  hands responses on with `try_send` (`service_client.rs:147`) and drops them when
  its channel of 256 is full. `RemoteCapture` has that drop.
* An ordinary stop of the driver is reported as an error when the receive fails
  with a code other than 995; by then nobody reads the event.
* Two programs that capture with ETW stop each other's session by its name
  (`etw.rs:124`); the one that loses it reads nothing more and says nothing.
* Suffixes are compared as text (`updates.rs:302`), so 1.0.0-beta.9 counts as newer
  than 1.0.0-beta.10. From beta.10 the older preview is offered, verified and
  installed; from beta.9 the newer one is withheld, and the page says "это последняя
  версия" ("this is the latest version", `view.rs:1001`). The test
  `compares_release_versions` has no two previews of one release.
  `MisreadNumbers` states the case and `NeverDowngrades` excepts it and nothing else.
* The configuration is written in place (`config.rs:141`): a process killed in
  the middle leaves a file that ends every later start.

Covered by an exception in a property: a chunked body
beyond 8 MB is cut out of the stream, where `scanner.rs:34-36` says that
anything past the limit is walked past by length (`NoNeedlessCut`); a reset
confirmed while the demonstration is shown takes the demonstration's totals as
the baseline (`BaselineFromGame` is stated with `DuringDemo = {}`).

## 7. What is left out

* Decoding (TCP reassembly, TLS, decompression, JSON): vendored or pure. What a
  packet yields is a choice.
* A mangled message with a Host header would still be queued with wrong words;
  `Framing` counts it as lost, `Discovery` as missed.
* The sum of all scan buffers is not added up: any other connection may take the
  buffer away at any time, which is more than the code does.
* Signatures, hashes and the folder of updates (`Updates` takes a manifest for
  genuine); how a version text is split (`Release` is given) and the installer's
  own look at the version it replaces (`installer/Product.wxs:10`); that a detected
  game hides the install button, which only forbids what the model allows.
* Real time: the 45-minute silence is "a prefix of the quietest, at any time",
  time-outs are choices. Whether the backlog of the service ever drains depends
  on seconds the model has not.
* The byte layout of packets, frames and a foreign process's memory: a packet is
  there or not, a process answers or refuses.
* The drawing of a page, and the list of observations it may ask for.
* Layout, texts, the activity list, window and tray handling, the launcher,
  diagnostics and the release tool.

## 8. The plan

Order of work, the most important first; all but the last entry are modelled.

1. `StreamLedger`, `StreamSession` with proofs: done.
2. `Collector` with proofs: done.
3. `RemoteCapture`, composing the collector with service and client, with proofs: done.
4. `Framing` and `Discovery` with proofs: done.
5. `Updates` with proofs: done.
6. `LiveView` with proofs: done.
7. `EtwCapture`, `SocketCapture`, `PacketSource` with proofs: done.
8. Statistics: the saturating sums of `core/src/stats.rs` against a reference;
   the watchdog of the capture loop.
