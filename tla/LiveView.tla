------------------------------ MODULE LiveView ------------------------------
(***************************************************************************)
(* What a viewer of the stream gets to see: from the running game over the *)
(* process monitor (process_monitor.rs, process_env.rs), the window that   *)
(* owns the state (ui.rs) and the local web server (server.rs) to the page *)
(* in OBS (the script in server.rs).                                       *)
(*                                                                         *)
(* The state is abstracted to the status of the game and to a version that *)
(* every change of what a page shows raises.  Each change is written first *)
(* and sent to the subscribed pages afterwards, while the server reads the *)
(* state whenever a page asks for it.                                      *)
(***************************************************************************)
EXTENDS Naturals, Sequences

CONSTANTS
  Answering,          \* bound: the answers a process of the game may give
  Port,               \* the ports there are
  Span,               \* ports tried after the preferred one
  BroadcastCapacity,  \* notifications kept for a page that is slow to read
  MaxVersion          \* bound: no more edits, games or starts from there on

ASSUME LiveViewAssumption ==
  /\ Answering \subseteq {"refused", "absent", "ours", "other"}
  /\ Port \subseteq Nat \ {0}
  /\ Span \in Nat
  /\ BroadcastCapacity \in Nat \ {0}
  /\ MaxVersion \in Nat

VARIABLES
  game,      \* the answers of the game's processes, {} if none runs
  monitor,   \* the monitor's thread, its last sample, what it last delivered
  changes,   \* the one element its channel holds, or "none"
  app,       \* how far the program is
  config,    \* the port in the configuration file
  port,      \* the port of this run or, while down, of the last one
  shown,     \* the status of the game in the window's state
  version,   \* the version of the window's state
  window,    \* whether the window has written a change it has not sent yet
  conn,      \* the server's end of the page's socket
  inbox,     \* messages for it that have not reached the page
  lagged,    \* it has lost some
  last,      \* the last message the page got over this socket, 0 for none
  url,       \* the port the page was set up with, 0 while there is none
  socket,    \* the page's end
  fetch,     \* the page's first request: "none", "asked" or "answered"
  answer,    \* the answer on its way, 0 for none
  view       \* the version the page shows, 0 for none

gameVars == <<game, monitor, changes>>
appVars == <<app, config, port>>
stateVars == <<shown, version, window>>
serverVars == <<conn, inbox, lagged>>
pageVars == <<last, url, socket, fetch, answer, view>>
vars == <<gameVars, appVars, stateVars, serverVars, pageVars>>

(* What a process says when its key log variable is asked for: nothing at  *)
(* all (it is protected, 32-bit, or gone), that there is none, that it is  *)
(* the file that is decrypted from, or another.                            *)
Answers == {"refused", "absent", "ours", "other"}

(* What is made of the answers: the first value there is decides, then     *)
(* whether any process could be read.                                      *)
Verdicts(answers) ==
  IF answers \cap {"ours", "other"} # {}
    THEN {IF a = "ours" THEN "matches" ELSE "different" :
            a \in answers \cap {"ours", "other"}}
    ELSE {IF "absent" \in answers THEN "missing" ELSE "unknown"}

Status == {"off", "unknown", "missing", "matches", "different"}
Versions == Nat \ {0}
Up == app \in {"bound", "starting", "running", "stopping"}

TypeOK ==
  /\ game \subseteq Answers
  /\ monitor \in [pc : {"none", "round", "probe", "send"},
                  sample : Status, previous : Status \cup {"none"}]
  /\ changes \in Status \cup {"none"}
  /\ app \in {"down", "bound", "starting", "running", "stopping"}
  /\ config \in Port /\ port \in Port
  /\ shown \in Status
  /\ version \in Nat
  /\ window \in {"idle", "wrote"}
  /\ conn \in {"none", "upgraded", "greeted", "subscribed"}
  /\ inbox \in Seq(Versions) /\ Len(inbox) <= BroadcastCapacity
  /\ lagged \in BOOLEAN
  /\ last \in Nat
  /\ url \in Port \cup {0}
  /\ socket \in {"none", "connecting", "open"}
  /\ fetch \in {"none", "asked", "answered"}
  /\ answer \in Nat
  /\ view \in Nat

Asleep == [pc |-> "none", sample |-> "off", previous |-> "none"]

Init ==
  /\ game = {} /\ monitor = Asleep /\ changes = "none"
  /\ app = "down" /\ config \in Port /\ port = config
  /\ shown = "off" /\ version = 0 /\ window = "idle"
  /\ conn = "none" /\ inbox = <<>> /\ lagged = FALSE
  /\ last = 0 /\ url = 0 /\ socket = "none" /\ fetch = "none" /\ answer = 0
  /\ view = 0

-----------------------------------------------------------------------------
(* The program starts: the server binds the configured port, the next ones *)
(* or any other that is free, with a state that is still blank ...         *)
Candidates == Port \cap (config .. config + Span)

BindServer(busy) ==
  /\ app = "down"
  /\ version < MaxVersion
  /\ \E p \in Port \ busy :
       /\ IF Candidates \subseteq busy THEN TRUE
          ELSE p \in Candidates /\ \A q \in Candidates \ busy : p <= q
       /\ port' = p
  /\ app' = "bound"
  /\ shown' = "off"
  /\ version' = version + 1
  /\ UNCHANGED <<gameVars, config, window, serverVars, pageVars>>

\* Mutant: the port that was free is not kept.
UsePort ==
  /\ app = "bound"
  /\ app' = "starting"
  /\ UNCHANGED <<gameVars, config, port, stateVars, serverVars, pageVars>>

(* ... the port is saved if it is another ...                              *)
SavePort ==
  /\ app = "bound"
  /\ app' = "starting"
  /\ config' = port
  /\ UNCHANGED <<gameVars, port, stateVars, serverVars, pageVars>>

(* With the server go its connections and the requests it did not answer.  *)
HangsUp == conn' = "none" /\ inbox' = <<>> /\ lagged' = FALSE

Ends ==
  /\ app' = "down"
  /\ monitor' = Asleep
  /\ changes' = "none"
  /\ window' = "idle"
  /\ HangsUp
  /\ fetch' = IF fetch = "asked" THEN "none" ELSE fetch
  /\ UNCHANGED <<game, config, shown, version, last, url, socket, answer, view>>

(* ... or the program ends because it cannot be.                           *)
SaveFails ==
  /\ app = "bound"
  /\ config # port
  /\ port' = config
  /\ Ends

(* The window restores the stream, which no page is told, and starts the   *)
(* monitor.                                                                *)
OpenWindow ==
  /\ app = "starting"
  /\ app' = "running"
  /\ version' = version + 1
  /\ monitor' = [Asleep EXCEPT !.pc = "round"]
  /\ changes' = "none"
  /\ UNCHANGED <<game, config, port, shown, window, serverVars, pageVars>>

(* The window closes; then the monitor is joined and the server ended.     *)
Quit ==
  /\ app = "running"
  /\ window = "idle"
  /\ app' = "stopping"
  /\ UNCHANGED <<gameVars, config, port, stateVars, serverVars, pageVars>>

Stopped == app = "stopping" /\ monitor.pc = "none" /\ Ends /\ UNCHANGED port

Crash == app \in {"starting", "running"} /\ Ends /\ UNCHANGED port

-----------------------------------------------------------------------------
(* The monitor: is the game there, what does its environment say, and only *)
(* then the attempt to tell.  A game that is gone by the second look is    *)
(* one that cannot be read.  The stop flag is looked at between rounds.    *)
MonitorDoes(m) ==
  /\ monitor' = m
  /\ UNCHANGED <<game, appVars, stateVars, serverVars, pageVars>>

Look ==
  /\ monitor.pc = "round"
  /\ app = "running"
  /\ MonitorDoes([monitor EXCEPT !.pc = IF game = {} THEN "send" ELSE "probe"])
  /\ UNCHANGED changes

Probe ==
  /\ monitor.pc = "probe"
  /\ \E v \in Verdicts(game) :
       MonitorDoes([monitor EXCEPT !.pc = "send", !.sample = v])
  /\ UNCHANGED changes

\* Mutant: what was sampled is taken for delivered.
SendOrNot ==
  /\ monitor.pc = "send"
  /\ changes' = IF monitor.sample # monitor.previous /\ changes = "none"
                  THEN monitor.sample ELSE changes
  /\ MonitorDoes([Asleep EXCEPT !.pc = "round", !.previous = monitor.sample])

(* Only what the channel took is remembered.                               *)
Send ==
  /\ monitor.pc = "send"
  /\ LET told == monitor.sample # monitor.previous /\ changes = "none"
     IN  /\ changes' = IF told THEN monitor.sample ELSE changes
         /\ MonitorDoes([Asleep EXCEPT !.pc = "round",
                !.previous = IF told THEN monitor.sample ELSE monitor.previous])

MonitorEnds ==
  /\ monitor.pc = "round"
  /\ app = "stopping"
  /\ MonitorDoes(Asleep)
  /\ UNCHANGED changes

-----------------------------------------------------------------------------
(* The window, one thread: it writes a change, then sends what it wrote.   *)
WindowDoes ==
  /\ app = "running"
  /\ window = "idle"
  /\ UNCHANGED <<game, monitor, appVars, serverVars, pageVars>>

(* The monitor's channel is drained.                                       *)
DrainMonitor ==
  /\ WindowDoes
  /\ changes # "none"
  /\ changes' = "none"
  /\ shown' = changes
  /\ IF shown # changes
       THEN version' = version + 1 /\ window' = "wrote"
       ELSE UNCHANGED <<version, window>>

(* An event of the collector: the capture reports every second, which is   *)
(* sent to the pages though it changes nothing they show.                  *)
DrainCollector ==
  /\ WindowDoes
  /\ window' = "wrote"
  /\ UNCHANGED <<changes, shown, version>>

(* Anything else that changes what the pages show.                         *)
Edit ==
  /\ WindowDoes
  /\ version < MaxVersion
  /\ version' = version + 1
  /\ window' = "wrote"
  /\ UNCHANGED <<changes, shown>>

(* A receiver that holds all it can loses its oldest.                      *)
Receives(receiving) ==
  IF ~receiving THEN UNCHANGED <<inbox, lagged>>
  ELSE IF Len(inbox) < BroadcastCapacity
    THEN inbox' = Append(inbox, version) /\ UNCHANGED lagged
    ELSE inbox' = Append(Tail(inbox), version) /\ lagged' = TRUE

Notified ==
  /\ window = "wrote"
  /\ window' = "idle"
  /\ UNCHANGED <<gameVars, appVars, shown, version, conn, pageVars>>

\* Mutants: the page subscribes before it is greeted; a receiver has no limit.
NotifyEarly == Notified /\ Receives(conn # "none")
NotifyUnbounded ==
  /\ Notified
  /\ inbox' = IF conn = "subscribed" THEN Append(inbox, version) ELSE inbox
  /\ UNCHANGED lagged

Notify == Notified /\ Receives(conn = "subscribed")

-----------------------------------------------------------------------------
(* The server's end of a page.                                             *)
ServerDoes ==
  /\ Up
  /\ UNCHANGED <<gameVars, appVars, stateVars, url>>

Reachable == Up /\ url = port

AnswerFetch ==
  /\ ServerDoes
  /\ Reachable
  /\ fetch = "asked"
  /\ fetch' = "answered"
  /\ answer' = version
  /\ UNCHANGED <<serverVars, last, socket, view>>

Upgrade ==
  /\ ServerDoes
  /\ Reachable
  /\ socket = "connecting"
  /\ socket' = "open"
  /\ conn' = "upgraded"
  /\ UNCHANGED <<inbox, lagged, last, fetch, answer, view>>

(* The page draws what it is told.                                         *)
Tells(v) ==
  /\ view' = v
  /\ last' = v
  /\ UNCHANGED <<socket, fetch, answer>>

(* The state as it is goes first ...                                       *)
Greet ==
  /\ ServerDoes
  /\ conn = "upgraded"
  /\ conn' = "greeted"
  /\ Tells(version)
  /\ UNCHANGED <<inbox, lagged>>

(* ... and only then the notifications are subscribed to.                  *)
Subscribe ==
  /\ ServerDoes
  /\ conn = "greeted"
  /\ conn' = "subscribed"
  /\ UNCHANGED <<inbox, lagged, last, socket, fetch, answer, view>>

Forward ==
  /\ ServerDoes
  /\ conn = "subscribed"
  /\ ~lagged
  /\ inbox # <<>>
  /\ Tells(Head(inbox))
  /\ inbox' = Tail(inbox)
  /\ UNCHANGED <<conn, lagged>>

(* A page that lost a notification is let go, with all it was not told.    *)
LetGo ==
  /\ ServerDoes
  /\ conn = "subscribed"
  /\ lagged
  /\ HangsUp
  /\ UNCHANGED <<last, socket, fetch, answer, view>>

-----------------------------------------------------------------------------
(* The page.  It is set up once, with the address the window shows.        *)
PageDoes == UNCHANGED <<gameVars, appVars, stateVars, serverVars>>

LoadPage ==
  /\ PageDoes
  /\ app = "running"
  /\ url = 0
  /\ url' = port
  /\ socket' = "connecting"
  /\ fetch' = "asked"
  /\ UNCHANGED <<last, answer, view>>

(* The answer to its first request, however late.                          *)
FetchLands ==
  /\ PageDoes
  /\ fetch = "answered"
  /\ view' = answer
  /\ answer' = 0
  /\ fetch' = "none"
  /\ UNCHANGED <<last, url, socket>>

\* Mutant: the page does not connect again.
SeesClose ==
  /\ PageDoes
  /\ socket = "open" /\ conn = "none"
  /\ socket' = "none"
  /\ last' = 0
  /\ UNCHANGED <<url, fetch, answer, view>>

(* The socket is closed: a new one after a second, and so on until there   *)
(* is an answer.                                                           *)
Reconnect ==
  /\ PageDoes
  /\ socket = "open" /\ conn = "none"
  /\ socket' = "connecting"
  /\ last' = 0
  /\ UNCHANGED <<url, fetch, answer, view>>

-----------------------------------------------------------------------------
(* Processes of the game start and end.                                    *)
GameChanges ==
  /\ version < MaxVersion
  /\ game' \in SUBSET Answering
  /\ UNCHANGED <<monitor, changes, appVars, stateVars, serverVars, pageVars>>

Starting == SavePort \/ SaveFails \/ OpenWindow
Monitor == Look \/ Probe \/ Send \/ MonitorEnds
Server == AnswerFetch \/ Upgrade \/ Greet \/ Subscribe \/ Forward \/ LetGo
Page == FetchLands \/ Reconnect

Next ==
  \/ \E busy \in SUBSET Port : BindServer(busy)
  \/ Starting \/ Quit \/ Stopped \/ Crash
  \/ Monitor
  \/ DrainMonitor \/ DrainCollector \/ Edit \/ Notify
  \/ Server
  \/ LoadPage \/ Page
  \/ GameChanges

(* Every thread, the page and the collector's reports go on; nobody has to *)
(* start, end or change anything.                                          *)
Fairness ==
  /\ WF_vars(Starting) /\ WF_vars(Stopped) /\ WF_vars(Monitor)
  /\ SF_vars(DrainMonitor) /\ WF_vars(DrainCollector) /\ WF_vars(Notify)
  /\ WF_vars(AnswerFetch) /\ WF_vars(Upgrade) /\ WF_vars(Greet \/ Subscribe)
  /\ WF_vars(Forward \/ LetGo) /\ WF_vars(Page)

Spec == Init /\ [][Next]_vars /\ Fairness

-----------------------------------------------------------------------------
(* Over one connection a page is never told an older state after a newer   *)
(* one, the greeting included.                                             *)
NeverBack ==
  /\ \A i \in 1 .. Len(inbox) : last <= inbox[i]
  /\ \A i, j \in 1 .. Len(inbox) : i <= j => inbox[i] <= inbox[j]

(* A run that finds the port of the last one free uses it, so that a page  *)
(* keeps finding the program.                                              *)
PortIsKept ==
  [][\A busy \in SUBSET Port : BindServer(busy) /\ port \notin busy => port' = port]_vars

(* Once the game neither starts nor ends, the window's status is the       *)
(* game's, whatever the one-element channel was full with.                 *)
StatusSettles ==
  <>[](app = "running") /\ <>[][FALSE]_game
    => <>[](shown \in IF game = {} THEN {"off"} ELSE Verdicts(game))

(* Once nothing changes, the page shows the state the window has, whatever *)
(* notifications it missed before it subscribed, or by being slow, and     *)
(* however late its first request was answered.  It holds while a capture  *)
(* reports, after each of which the window notifies (the fairness of       *)
(* DrainCollector): without that, a page that missed a notification        *)
(* between its greeting and its subscription keeps the older state until   *)
(* something else changes.                                                 *)
PageCatchesUp ==
  <>[](app = "running" /\ url = port) /\ <>[][FALSE]_version => <>[](view = version)
=============================================================================
