------------------------------- MODULE Updates -------------------------------
(***************************************************************************)
(* Updates of the application: threads that look for one and fetch it, the *)
(* window that takes their answers, the installer on disk, and the script  *)
(* that starts it once the process is gone.                                *)
(*                                                                         *)
(* An installer is Parts parts long, a file is the set of parts it holds.  *)
(* Versions are numbered in any order; what the code compares of a version *)
(* is its Release.  The manifest of a channel may name an older version    *)
(* again, since releases are withdrawn.                                    *)
(***************************************************************************)
EXTENDS Naturals, Sequences

CONSTANTS
  Channels,        \* "stable" and "beta"
  MaxVersion,      \* versions that are ever published
  Release,         \* what version_parts makes of each version
  Named,           \* external: the versions that each channel's manifest may name
  MaxThreads,      \* threads that run at a time
  Parts,           \* parts of an installer
  MaxEvents,       \* capacity of the channel to the window
  None             \* Option::None, or a file that is not there

ASSUME UpdatesAssumption ==
  /\ MaxVersion \in Nat \ {0} /\ Parts \in Nat \ {0} /\ MaxEvents \in Nat \ {0}
  /\ MaxThreads \in Nat \ {0} /\ Channels # {}
  /\ Release \in [1 .. MaxVersion -> [core : Seq(Nat), suffix : Seq(Nat)]]
  /\ Named \in [Channels -> SUBSET (1 .. MaxVersion)]
  /\ \A S \in SUBSET (1 .. Parts) : S # None

VARIABLES
  running,         \* version of the installed application
  feed,            \* external: the version each channel's manifest names
  open,            \* the process lives
  channel,         \* config.update_channel
  manager,         \* UpdateManager
  thread,          \* the spawned threads
  events,          \* the channel to the window
  temp, final,     \* per version: the .exe.download file and the .exe file
  scheduled,       \* the installer a script waits to start
  crossed          \* history: spinners ended by the other kind, see Crosses

files   == <<temp, final>>
outside == <<running, feed, open, scheduled>>
vars    == <<outside, channel, manager, thread, events, files, crossed>>

Versions == 1 .. MaxVersion
Threads  == 1 .. MaxThreads
Whole    == 1 .. Parts
Offers   == [channel : Channels, version : Versions]
\* Where the file has gone that a thread has opened under its temporary name.
Places   == {"temp", "final", "gone"}

\* What a thread tells the window, and which of the two kinds of thread it was.
Current        == [kind |-> "Current", from |-> "check"]
Available(o)   == [kind |-> "Available", from |-> "check", offer |-> o]
Downloaded(o)  == [kind |-> "Downloaded", from |-> "download", offer |-> o]
Error(from)    == [kind |-> "Error", from |-> from]
UpdateEvents ==
  {Current, Error("check"), Error("download")}
    \union {Available(o) : o \in Offers} \union {Downloaded(o) : o \in Offers}

Idle           == [phase |-> "idle"]
Asking(c)      == [phase |-> "check", channel |-> c]
Fetching(o)    == [phase |-> "fetch", offer |-> o]
Writing(o, n, place) == [phase |-> "write", offer |-> o, at |-> n, file |-> place]
Swapping(o)    == [phase |-> "swap", offer |-> o]
Posting(e)     == [phase |-> "post", event |-> e]
Tasks ==
  {Idle} \union {Asking(c) : c \in Channels}
    \union {Fetching(o) : o \in Offers} \union {Swapping(o) : o \in Offers}
    \union {Writing(o, n, p) : o \in Offers, n \in 0 .. Parts, p \in Places}
    \union {Posting(e) : e \in UpdateEvents}

WindowOpen == open /\ scheduled = None

\* logic() drains before ui() sees a click, so an event that a click does not find
\* taken might as well come after it.
Clicked == WindowOpen /\ events = <<>>

NoThreads == [t \in Threads |-> Idle]
Fresh(checks) ==
  [checking |-> checks, downloading |-> FALSE, available |-> None, downloaded |-> None]

Init ==
  /\ running \in Versions
  /\ feed \in {f \in [Channels -> Versions] : \A c \in Channels : f[c] \in Named[c]}
  /\ open = FALSE /\ channel \in Channels
  /\ manager = Fresh(FALSE) /\ thread = NoThreads /\ events = <<>>
  /\ temp = [v \in Versions |-> None] /\ final = [v \in Versions |-> None]
  /\ scheduled = None /\ crossed = {}
-----------------------------------------------------------------------------
(* The window.                                                             *)

\* Threads are alike, so the first free number is taken.
Spawn(t, task) ==
  /\ thread[t] = Idle /\ \A u \in Threads : u < t => thread[u] # Idle
  /\ thread' = [thread EXCEPT ![t] = task]

\* Mutant: the button and the manager do not look whether a check runs.
CheckAnyway(t) ==
  /\ Clicked
  /\ Spawn(t, Asking(channel))
  /\ manager' = [manager EXCEPT !.checking = TRUE]
  /\ UNCHANGED <<outside, channel, events, files, crossed>>

Check(t) ==
  /\ Clicked /\ ~manager.checking
  /\ Spawn(t, Asking(channel))
  /\ manager' = [manager EXCEPT !.checking = TRUE]
  /\ UNCHANGED <<outside, channel, events, files, crossed>>

\* The page offers a download only as long as none is ready.
Download(t) ==
  /\ Clicked /\ ~manager.downloading
  /\ manager.available # None /\ manager.downloaded = None
  /\ Spawn(t, Fetching(manager.available))
  /\ manager' = [manager EXCEPT !.downloading = TRUE]
  /\ UNCHANGED <<outside, channel, events, files, crossed>>

\* What the threads under way are about is not recalled.
SetChannel(c) ==
  /\ Clicked /\ c # channel
  /\ channel' = c
  /\ manager' = [manager EXCEPT !.available = None, !.downloaded = None]
  /\ UNCHANGED <<outside, thread, events, files, crossed>>

\* Mutants: every event ends the download as well; an error does not.
EndsAll(e)      == TRUE
EndsIfLoaded(e) == e.kind = "Downloaded"

\* The events that end a download; every event ends a check.
EndsDownload(e) == e.kind \in {"Downloaded", "Error"}

\* The manager after event e.
Taken(m, e) ==
  [checking    |-> FALSE,
   downloading |-> m.downloading /\ ~EndsDownload(e),
   available   |-> CASE e.kind = "Current"   -> None
                     [] e.kind = "Available" -> e.offer
                     [] OTHER                -> m.available,
   downloaded  |-> CASE e.kind = "Current"    -> None
                     [] e.kind = "Downloaded" -> e.offer
                     [] OTHER                 -> m.downloaded]

\* The spinner of one kind that event e of the other kind ends: an error of
\* either kind ends both.
Crosses(m, e) ==
  (IF e.from = "download" /\ m.checking THEN {"check"} ELSE {}) \union
  (IF e.from = "check" /\ e.kind = "Error" /\ m.downloading THEN {"download"} ELSE {})

\* One turn of the loop of drain, which goes on until the channel is empty.
Drain ==
  /\ WindowOpen /\ events # <<>>
  /\ manager' = Taken(manager, Head(events))
  /\ crossed' = crossed \union Crosses(manager, Head(events))
  /\ events' = Tail(events)
  /\ UNCHANGED <<outside, channel, thread, files>>

\* The script is started, and the window closes.  The button is there while no
\* game is detected, which may be so at any time.
Install ==
  /\ Clicked /\ manager.downloaded # None
  /\ scheduled' = manager.downloaded.version
  /\ UNCHANGED <<running, feed, open, channel, manager, thread, events, files, crossed>>

\* The process ends, with or without an installation, or is killed.  Its memory is
\* gone, and its threads end wherever they are.
Exit ==
  /\ open
  /\ open' = FALSE
  /\ manager' = Fresh(FALSE) /\ thread' = NoThreads /\ events' = <<>>
  /\ crossed' = IF scheduled = None THEN {} ELSE crossed
  /\ UNCHANGED <<running, feed, scheduled, channel, files>>

\* The script after the process is gone.  An incomplete file does not start, and
\* the installation may be cancelled.
InstallerRuns ==
  /\ ~open /\ scheduled # None
  /\ running' \in IF final[scheduled] = Whole THEN {running, scheduled} ELSE {running}
  /\ scheduled' = None /\ crossed' = {}
  /\ UNCHANGED <<feed, open, channel, manager, thread, events, files>>

\* The application starts, and looks for updates when the configuration says so.
Start(automatic) ==
  /\ ~open /\ scheduled = None
  /\ open' = TRUE
  /\ manager' = Fresh(automatic)
  /\ thread' = IF automatic THEN [NoThreads EXCEPT ![1] = Asking(channel)] ELSE NoThreads
  /\ UNCHANGED <<running, feed, scheduled, channel, events, files, crossed>>
-----------------------------------------------------------------------------
(* The threads.                                                            *)

Becomes(t, task) == thread' = [thread EXCEPT ![t] = task]
Untouched == UNCHANGED <<outside, channel, manager, crossed>>

\* The order of tuples and of strings: the first difference decides, and what goes
\* on where the other has ended is above it.
Above(a, b) ==
  \E i \in 1 .. Len(a) :
    /\ \A j \in 1 .. i - 1 : j <= Len(b) /\ a[j] = b[j]
    /\ i > Len(b) \/ a[i] > b[i]

\* Mutant: that a release proper comes after its previews is not looked at.
NewerByText(candidate, current) ==
  LET a == Release[candidate]
      b == Release[current]
  IN  IF a.core # b.core THEN Above(a.core, b.core) ELSE Above(a.suffix, b.suffix)

\* A release proper, without a suffix, comes after its previews; two suffixes are
\* compared as text.
IsNewer(candidate, current) ==
  LET a == Release[candidate]
      b == Release[current]
  IN  IF a.core # b.core THEN Above(a.core, b.core)
      ELSE IF (a.suffix = <<>>) # (b.suffix = <<>>) THEN a.suffix = <<>>
      ELSE Above(a.suffix, b.suffix)

\* check_update: the manifest of the channel, or an error.
Answer(t) ==
  /\ thread[t].phase = "check"
  /\ LET c == thread[t].channel
         answer == IF IsNewer(feed[c], running)
                   THEN Available([channel |-> c, version |-> feed[c]])
                   ELSE Current
     IN  \E e \in {answer, Error("check")} : Becomes(t, Posting(e))
  /\ Untouched /\ UNCHANGED <<events, files>>

\* The request was answered; the temporary file is created or emptied.
CreateFile(t) ==
  /\ thread[t].phase = "fetch"
  /\ LET o == thread[t].offer
     IN  /\ temp' = [temp EXCEPT ![o.version] = {}]
         /\ Becomes(t, Writing(o, 0, "temp"))
  /\ Untouched /\ UNCHANGED <<events, final>>

Put(t, limit) ==
  LET w == thread[t]
      v == w.offer.version
      more(file) == [file EXCEPT ![v] = @ \union {w.at + 1}]
  IN  /\ w.phase = "write" /\ w.at < limit
      /\ temp' = IF w.file = "temp" THEN more(temp) ELSE temp
      /\ final' = IF w.file = "final" THEN more(final) ELSE final
      /\ Becomes(t, [w EXCEPT !.at = @ + 1])
      /\ Untouched /\ UNCHANGED events

\* Mutant: one part too many is read.
PutPast(t) == Put(t, Parts + 1)

\* A part goes into the file the thread has opened, wherever that is by now.
PutPart(t) == Put(t, Parts)

\* What renaming or removing a file means for those who have it open.
Moved(v, from, to) ==
  [u \in Threads |-> IF /\ thread[u].phase = "write" /\ thread[u].offer.version = v
                        /\ thread[u].file = from
                     THEN [thread[u] EXCEPT !.file = to] ELSE thread[u]]

Swaps(t, complete) ==
  LET w == thread[t]
      v == w.offer.version
  IN  /\ w.phase = "write" /\ complete
      /\ final' = [final EXCEPT ![v] = None]
      /\ thread' = [Moved(v, "final", "gone") EXCEPT ![t] = Swapping(w.offer)]
      /\ Untouched /\ UNCHANGED <<events, temp>>

\* Mutant: the hash of what was received is not compared.
VerifyNothing(t) == Swaps(t, TRUE)

\* All bytes were received and have the right hash: an older file is removed.
Verify(t) == Swaps(t, thread[t].at = Parts)

\* The hash is wrong, the answer ended early or was too long.
Mismatch(t) ==
  LET w == thread[t]
      v == w.offer.version
  IN  /\ w.phase = "write"
      /\ temp' = [temp EXCEPT ![v] = None]
      /\ thread' = [Moved(v, "temp", "gone") EXCEPT ![t] = Posting(Error("download"))]
      /\ Untouched /\ UNCHANGED <<events, final>>

\* The file gets its final name, which fails when it is not there any more.
Rename(t) ==
  LET o == thread[t].offer
      v == o.version
  IN  /\ thread[t].phase = "swap" /\ temp[v] # None
      /\ final' = [final EXCEPT ![v] = temp[v]]
      /\ temp' = [temp EXCEPT ![v] = None]
      /\ thread' = [u \in Threads |->
           IF u = t THEN Posting(Downloaded(o))
           ELSE IF thread[u] = Moved(v, "final", "gone")[u]
                THEN Moved(v, "temp", "final")[u] ELSE Moved(v, "final", "gone")[u]]
      /\ Untouched /\ UNCHANGED events

\* The network, the disk or a file that is in use.
Fail(t) ==
  /\ thread[t].phase \in {"fetch", "write", "swap"}
  /\ Becomes(t, Posting(Error("download")))
  /\ Untouched /\ UNCHANGED <<events, files>>

\* A blocking send.
Post(t) ==
  /\ thread[t].phase = "post" /\ Len(events) < MaxEvents
  /\ events' = Append(events, thread[t].event)
  /\ Becomes(t, Idle)
  /\ Untouched /\ UNCHANGED files

ThreadStep(t) ==
  \/ Answer(t) \/ CreateFile(t) \/ PutPart(t) \/ Verify(t) \/ Mismatch(t)
  \/ Rename(t) \/ Fail(t) \/ Post(t)

\* A version is published on a channel, or withdrawn so that another is named again.
Publish(c) ==
  /\ \E v \in Named[c] \ {feed[c]} : feed' = [feed EXCEPT ![c] = v]
  /\ UNCHANGED <<running, open, scheduled, channel, manager, thread, events, files,
                 crossed>>

Next ==
  \/ \E t \in Threads : Check(t) \/ Download(t) \/ ThreadStep(t)
  \/ \E c \in Channels : SetChannel(c) \/ Publish(c)
  \/ Drain \/ Install \/ Exit \/ InstallerRuns
  \/ \E automatic \in BOOLEAN : Start(automatic)

\* Requests end by their time limits, and the window drains every 250 ms.
Fairness == WF_vars(Drain) /\ \A t \in Threads : WF_vars(ThreadStep(t))

Spec == Init /\ [][Next]_vars /\ Fairness
-----------------------------------------------------------------------------
(* Properties.                                                             *)

TypeOK ==
  /\ running \in Versions /\ feed \in [Channels -> Versions]
  /\ open \in BOOLEAN /\ channel \in Channels
  /\ manager \in [checking : BOOLEAN, downloading : BOOLEAN,
                  available : Offers \union {None}, downloaded : Offers \union {None}]
  /\ thread \in [Threads -> Tasks]
  /\ events \in Seq(UpdateEvents) /\ Len(events) <= MaxEvents
  /\ temp \in [Versions -> (SUBSET Whole) \union {None}]
  /\ final \in [Versions -> (SUBSET Whole) \union {None}]
  /\ scheduled \in Versions \union {None}
  /\ crossed \subseteq {"check", "download"}

\* A thread that has still to answer a check, or a download.
Owes(task, kind) ==
  \/ task.phase = "post" /\ task.event.from = kind
  \/ kind = "check" /\ task.phase = "check"
  \/ kind = "download" /\ task.phase \in {"fetch", "write", "swap"}

Outstanding(kind) ==
  \/ \E i \in 1 .. Len(events) : events[i].from = kind
  \/ \E t \in Threads : Owes(thread[t], kind)

\* The page says that it is checking or downloading exactly as long as an answer
\* is outstanding, unless the answer of one kind has ended the other's spinner.
SpinnersTellTruth ==
  open => /\ "check" \in crossed \/ (manager.checking <=> Outstanding("check"))
          /\ "download" \in crossed \/ (manager.downloading <=> Outstanding("download"))

\* What the page calls downloaded and verified, and what the script will start, is
\* the whole file whose hash was compared, over crashes, failed downloads and
\* downloads of the same version again, unless a failed check has ended the
\* spinner of a download.
InstallerIsVerified ==
  "download" \in crossed
    \/ /\ (open /\ manager.downloaded # None) => final[manager.downloaded.version] = Whole
       /\ scheduled # None => final[scheduled] = Whole

\* The precedence that version numbers have by semantic versioning: the number of a
\* preview counts as a number, so beta.10 outranks beta.9.
Outranks(v, w) ==
  LET a == Release[v]
      b == Release[w]
  IN  \/ Above(a.core, b.core)
      \/ a.core = b.core /\ a.suffix = <<>> /\ b.suffix # <<>>
      \/ /\ a.core = b.core /\ a.suffix # <<>> /\ b.suffix # <<>>
         /\ \/ a.suffix[1] > b.suffix[1]
            \/ /\ a.suffix[1] = b.suffix[1]
               /\ \/ Len(a.suffix) > Len(b.suffix)
                  \/ Len(a.suffix) = Len(b.suffix) /\ Above(a.suffix, b.suffix)

\* Previews of one release and stage whose numbers have different lengths, which a
\* comparison as text puts in the wrong order: beta.9 passes for newer than beta.10.
MisreadNumbers(v, w) ==
  LET a == Release[v]
      b == Release[w]
  IN  /\ a.core = b.core /\ a.suffix # <<>> /\ b.suffix # <<>>
      /\ a.suffix[1] = b.suffix[1] /\ Len(a.suffix) # Len(b.suffix)

\* Whatever was checked, fetched, switched, published and withdrawn before, an
\* installation never goes back to a version that the installed one outranks, but
\* for previews of one release and stage whose numbers differ in length: the code
\* compares suffixes as text, so beta.9 is offered and installed over beta.10.
NeverDowngrades ==
  [][Outranks(running', running) \/ MisreadNumbers(running', running)]_running

\* Neither spinner turns for good: every check and every download is answered, an
\* error included, and the answer is taken.
SpinnersEnd ==
  /\ []<>(~manager.checking \/ ~WindowOpen)
  /\ []<>(~manager.downloading \/ ~WindowOpen)

\* The installer was verified before it is launched.
LaunchedIsVerified == scheduled # None => final[scheduled] = Whole
=============================================================================
