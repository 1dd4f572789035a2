---------------------------- MODULE PacketSource ----------------------------
(***************************************************************************)
(* Where packets come from: src/crates/capture/src/source.rs over the      *)
(* three sources etw.rs, rawsock.rs and raw.rs, as the capture thread of   *)
(* scanner.rs opens, reads, and drops them while another thread stops it,  *)
(* and as the probe of lib.rs does without one.                            *)
(*                                                                         *)
(* Without a preference the sources are tried in turn, and the two that    *)
(* need no driver have to deliver a packet from a server within the        *)
(* validation window first.                                                *)
(***************************************************************************)
EXTENDS EtwCapture, SocketCapture

VARIABLES
  user,      \* who opened the source: the capture thread or the probe
  pref,      \* ARC_LIVE_CAPTURE_BACKEND
  sick,      \* the source being validated delivers outbound packets only
  phase,     \* where the thread that opened the source is
  source,    \* the source it opens or has open
  step,      \* where it is within next_packet
  divert,    \* the WinDivert handle
  stop,      \* the stop flag of the capture handle
  stopper,   \* where the thread calling stop is
  control    \* the source control published for it

threadVars == <<user, pref, sick, phase, source, step>>
handleVars == <<stop, stopper, control>>
vars == <<etwVars, socketVars, threadVars, handleVars, divert>>

Backend == {"etw", "rawsocket", "windivert"}

Open == {"opening", "reopening", "validating", "rejecting"}
Phase == Open \cup {"idle", "chosen", "looping", "closing", "joining", "ended"}

TypeOK ==
  /\ EtwTypeOK
  /\ SocketTypeOK
  /\ user \in {"capture", "probe"}
  /\ pref \in Backend \cup {"auto"}
  /\ sick \in BOOLEAN
  /\ phase \in Phase
  /\ source \in Backend
  /\ step \in {"head", "rebinding", "polling"}
  /\ divert \in {"closed", "open", "shut"}
  /\ stop \in BOOLEAN
  /\ stopper \in {"idle", "flagged", "stopping", "done"}
  /\ control \in Backend \cup {"none"}

FirstSource == IF pref = "auto" THEN "etw" ELSE pref

Init ==
  /\ EtwInit
  /\ SocketInit
  /\ user \in {"capture", "probe"}
  /\ pref \in Backend \cup {"auto"}
  /\ sick = FALSE
  /\ phase = "idle"
  /\ source = FirstSource
  /\ step = "head"
  /\ divert = "closed"
  /\ stop = FALSE
  /\ stopper = "idle"
  /\ control = "none"

(* A new handle and its thread.  The handle before it has been dropped,    *)
(* which stops the capture and joins the thread.                           *)
Start ==
  /\ \/ phase = "idle"
     \/ phase = "ended" /\ (stopper = "done" \/ user = "probe")
  /\ phase' = "opening"
  /\ source' = FirstSource
  /\ step' = "head"
  /\ stop' = FALSE
  /\ stopper' = "idle"
  /\ control' = "none"
  /\ UNCHANGED <<etwVars, socketVars, user, pref, sick, divert>>

-----------------------------------------------------------------------------
(* PacketSource::open.                                                     *)

AtSource(p, s) == phase = p /\ source = s

Goes(p) ==
  /\ phase' = p
  /\ UNCHANGED <<user, pref, sick, source, step>>

OnTrial == pref = "auto" /\ source # "windivert"

(* An open source is used at once if it was asked for, or is the driver.   *)
Opened ==
  IF OnTrial
    THEN /\ phase' = "validating"
         /\ sick' \in BOOLEAN
         /\ UNCHANGED <<user, pref, source, step>>
    ELSE Goes("chosen")

(* A source that does not open, or did not prove itself, makes room for    *)
(* the next one; otherwise the capture fails.                              *)
NextSource ==
  IF OnTrial
    THEN /\ phase' = "opening"
         /\ source' = IF source = "etw" THEN "rawsocket" ELSE "windivert"
         /\ sick' = FALSE
         /\ UNCHANGED <<user, pref, step>>
    ELSE Goes("ended")

OpenEtw ==
  /\ source = "etw"
  /\ \/ phase \in {"opening", "reopening"} /\ EtwStart /\ Opened
     \/ phase = "opening" /\ EtwStopExisting /\ Goes("reopening")
     \/ phase = "reopening" /\ EtwStillThere /\ NextSource
     \/ phase \in {"opening", "reopening"} /\ EtwRefused /\ NextSource
  /\ UNCHANGED <<socketVars, handleVars, divert>>

OpenSockets ==
  /\ AtSource("opening", "rawsocket")
  /\ \/ SocketOpens /\ Opened
     \/ UNCHANGED socketVars /\ NextSource
  /\ UNCHANGED <<etwVars, handleVars, divert>>

OpenDivert ==
  /\ AtSource("opening", "windivert")
  /\ \/ divert' = "open" /\ Opened
     \/ UNCHANGED divert /\ NextSource
  /\ UNCHANGED <<etwVars, socketVars, handleVars>>

(* The packet just read lets validation succeed if a server sent it.       *)
Judges ==
  \/ ~sick /\ phase' = "chosen"
  \/ UNCHANGED phase

(* control.shutdown called by the thread itself.                           *)
ShutsSource ==
  /\ IF source = "etw" THEN EtwShutdown ELSE UNCHANGED etwVars
  /\ IF source = "rawsocket" THEN SocketShutdown ELSE UNCHANGED socketVars
  /\ IF source = "windivert" THEN divert' = "shut" ELSE UNCHANGED divert

(* The validation window is over: the source is shut and dropped.          *)
ValidationFails ==
  /\ phase = "validating"
  /\ step = "head"
  /\ ShutsSource
  /\ Goes("rejecting")
  /\ UNCHANGED handleVars

Rejected ==
  /\ phase = "rejecting"
  /\ \/ source = "etw" /\ EtwJoin /\ UNCHANGED socketVars
     \/ source = "rawsocket" /\ SocketDrop /\ UNCHANGED etwVars
  /\ NextSource
  /\ UNCHANGED <<handleVars, divert>>

\* Mutant: only the sockets are published for stop to find.
PublishPollersOnly ==
  /\ phase = "chosen"
  /\ control' = IF source = "rawsocket" THEN source ELSE "none"
  /\ Goes("looping")
  /\ UNCHANGED <<etwVars, socketVars, stop, stopper, divert>>

(* The control is there for stop to find, then the loop begins.            *)
Publish ==
  /\ phase = "chosen"
  /\ control' = IF user = "capture" THEN source ELSE "none"
  /\ Goes("looping")
  /\ UNCHANGED <<etwVars, socketVars, stop, stopper, divert>>

-----------------------------------------------------------------------------
(* next_packet, in the loop and during validation.  The loop looks at the  *)
(* stop flag first, validation does not.                                   *)
Polls == \/ phase = "validating"
         \/ phase = "looping" /\ ~stop

Steps(s) ==
  /\ step' = s
  /\ UNCHANGED <<user, pref, sick, phase, source>>

(* A packet read: validation judges it, the loop works on it.              *)
Reads ==
  /\ IF phase = "validating" THEN Judges ELSE UNCHANGED phase
  /\ step' = "head"
  /\ UNCHANGED <<user, pref, sick, source>>

PollEtw ==
  /\ Polls
  /\ source = "etw"
  /\ EtwTakes
  /\ Reads
  /\ UNCHANGED <<socketVars, handleVars, divert>>

OnSockets(s) ==
  /\ source = "rawsocket"
  /\ phase \in {"validating", "looping"}
  /\ step = s
  /\ UNCHANGED <<etwVars, handleVars, divert>>

(* The rebind is due.                                                      *)
BeginRebind ==
  /\ Polls
  /\ OnSockets("head")
  /\ LookUp
  /\ Steps("rebinding")

EndRebind(S) ==
  /\ OnSockets("rebinding")
  /\ Reconcile(S)
  /\ Steps("polling")

RebindAll ==
  /\ OnSockets("rebinding")
  /\ ReconcilesAll
  /\ Steps("polling")

(* It is not, or the addresses cannot be had.                              *)
NoRebind ==
  /\ Polls
  /\ OnSockets("head")
  /\ ~socketStop
  /\ UNCHANGED socketVars
  /\ Steps("polling")

PollSockets ==
  /\ OnSockets("polling")
  /\ \/ SocketReads /\ Reads
     \/ SocketReadsNothing /\ Steps("head")

OnDivert(s) ==
  /\ AtSource("looping", "windivert")
  /\ step = s
  /\ UNCHANGED <<etwVars, socketVars, handleVars, divert>>

(* WinDivertRecv blocks until a packet comes or the handle is shut, which  *)
(* gives the one code that counts as nothing read; with any other code it  *)
(* may fail at any time.                                                   *)
EnterRecv ==
  /\ OnDivert("head")
  /\ Polls
  /\ Steps("polling")

RecvPacket ==
  /\ OnDivert("polling")
  /\ Steps("head")

RecvAborted ==
  /\ OnDivert("polling")
  /\ divert = "shut"
  /\ Steps("head")

RecvFails ==
  /\ OnDivert("polling")
  /\ Goes("closing")

-----------------------------------------------------------------------------
(* The loop ends: stopped, with a key log that cannot be read, or, for the *)
(* probe, when its time is up, which shuts the source.                     *)
SeesStop ==
  /\ phase = "looping"
  /\ step = "head"
  /\ stop
  /\ Goes("closing")
  /\ UNCHANGED <<etwVars, socketVars, handleVars, divert>>

KeylogFails ==
  /\ user = "capture"
  /\ phase = "looping"
  /\ step = "head"
  /\ Goes("closing")
  /\ UNCHANGED <<etwVars, socketVars, handleVars, divert>>

ProbeEnds ==
  /\ user = "probe"
  /\ phase = "looping"
  /\ step = "head"
  /\ ShutsSource
  /\ Goes("closing")
  /\ UNCHANGED handleVars

(* The drop of the source.                                                 *)
DropEtw ==
  /\ source = "etw"
  /\ \/ phase = "closing" /\ EtwShutdown /\ Goes("joining")
     \/ phase = "joining" /\ EtwJoin /\ Goes("ended")
  /\ UNCHANGED <<socketVars, handleVars, divert>>

DropSockets ==
  /\ AtSource("closing", "rawsocket")
  /\ SocketDrop
  /\ Goes("ended")
  /\ UNCHANGED <<etwVars, handleVars, divert>>

DropDivert ==
  /\ AtSource("closing", "windivert")
  /\ divert' = "closed"
  /\ Goes("ended")
  /\ UNCHANGED <<etwVars, socketVars, handleVars>>

-----------------------------------------------------------------------------
(* CaptureHandle::stop: the flag first, then the control, if there is one  *)
(* yet, is told to shut its source down.                                   *)
AskStop ==
  /\ user = "capture"
  /\ phase # "idle"
  /\ stopper = "idle"
  /\ stop' = TRUE
  /\ stopper' = "flagged"
  /\ UNCHANGED <<etwVars, socketVars, threadVars, control, divert>>

StopEtw ==
  /\ control = "etw"
  /\ \/ stopper = "flagged" /\ etwStop /\ UNCHANGED etwVars /\ stopper' = "done"
     \/ stopper = "flagged" /\ EtwCloseTrace /\ stopper' = "stopping"
     \/ stopper = "stopping" /\ EtwStopSession /\ stopper' = "done"
  /\ UNCHANGED <<socketVars, threadVars, stop, control, divert>>

StopSockets ==
  /\ stopper = "flagged"
  /\ control = "rawsocket"
  /\ SocketShutdown
  /\ stopper' = "done"
  /\ UNCHANGED <<etwVars, threadVars, stop, control, divert>>

StopOther ==
  /\ stopper = "flagged"
  /\ control \in {"none", "windivert"}
  /\ divert' = IF control = "windivert" /\ divert = "open" THEN "shut" ELSE divert
  /\ stopper' = "done"
  /\ UNCHANGED <<etwVars, socketVars, threadVars, stop, control>>

-----------------------------------------------------------------------------
(* The process dies with everything it holds but the session.              *)
Crash ==
  /\ phase # "idle"
  /\ EtwCrash
  /\ SocketCrash
  /\ phase' = "idle"
  /\ sick' = FALSE
  /\ step' = "head"
  /\ divert' = "closed"
  /\ stop' = FALSE
  /\ stopper' = "idle"
  /\ control' = "none"
  /\ UNCHANGED <<user, pref, source>>

Others == <<threadVars, handleVars, divert>>

Worker ==
  /\ WorkerAttaches \/ WorkerFindsNone \/ WorkerPublishes \/ WorkerReturns
  /\ UNCHANGED <<socketVars, Others>>

Traffic ==
  \/ OnEvent /\ UNCHANGED <<socketVars, Others>>
  \/ PacketReaches /\ UNCHANGED <<etwVars, Others>>

(* Each changes only while the source that looks at it is open or opening: *)
(* nothing else reads it.                                                  *)
Host ==
  \/ /\ source = "etw"
     /\ ForeignOpens \/ ForeignCloses
     /\ UNCHANGED <<socketVars, Others>>
  \/ /\ source = "rawsocket"
     /\ AddressChanges
     /\ UNCHANGED <<etwVars, Others>>

Opening == OpenEtw \/ OpenSockets \/ OpenDivert \/ Rejected \/ Publish

Polling ==
  \/ PollEtw \/ BeginRebind \/ NoRebind \/ PollSockets
  \/ \E S \in SUBSET Interface : EndRebind(S)
  \/ EnterRecv \/ RecvAborted

Closing == SeesStop \/ DropEtw \/ DropSockets \/ DropDivert

Thread == Opening \/ Polling \/ Closing

Stopper == StopEtw \/ StopSockets \/ StopOther

Next ==
  \/ Start \/ Thread \/ ValidationFails \/ RecvPacket \/ RecvFails \/ KeylogFails
  \/ ProbeEnds \/ AskStop \/ Stopper
  \/ Worker \/ Traffic \/ Host
  \/ Crash

(* Both threads and the worker take their steps.  A window of time ends,   *)
(* and a rebind falls due, again and again, and one that could open every  *)
(* new address does so in the end.  A capture of another process closes    *)
(* some day.  Nothing makes packets arrive, or a driver fail.              *)
Fairness ==
  /\ WF_vars(Thread) /\ WF_vars(Stopper) /\ WF_vars(Worker)
  /\ SF_vars(ValidationFails)
  /\ SF_vars(BeginRebind) /\ SF_vars(RebindAll)
  /\ WF_vars(source = "etw" /\ ForeignCloses /\ UNCHANGED <<socketVars, Others>>)

Spec == Init /\ [][Next]_vars /\ Fairness

-----------------------------------------------------------------------------
(* When the thread has ended and nobody is still stopping it, everything   *)
(* it opened is closed: no socket, not even one that a rebind opened after *)
(* the control had closed them all, no session of ours, no worker, no      *)
(* driver handle.                                                          *)
Released ==
  phase \in {"idle", "ended"} /\ stopper \in {"idle", "done"} =>
    /\ Bound = {}
    /\ session # "ours"
    /\ worker = "none"
    /\ divert = "closed"

(* A stop ends the thread, wherever in opening, validating or reading it   *)
(* is, blocked in the driver or not, and whichever of the two threads is   *)
(* first to publish and to look for the control.  One exception rests on   *)
(* the fairness of ForeignCloses: a worker that has attached to the        *)
(* session of another program by its name, and is asked to stop before it  *)
(* has published its own, ends only with that session.                     *)
StopEnds == stop ~> (~stop \/ phase = "ended")

(* While the capture reads raw sockets, an address that comes up and stays *)
(* up gets a socket, and the socket of one that went away is closed, as    *)
(* long as there are no more addresses than it looks at, and any at all.   *)
OnRawSockets == source = "rawsocket" /\ phase = "looping" /\ ~stop

SomeAreUp == Cardinality(up) \in 1 .. MaxInterfaces

RebindSettles ==
  \A i \in Interface \ Refusing :
    (OnRawSockets /\ (i \in up <=> i \notin Bound))
      ~> ((i \in up <=> i \in Bound) \/ ~OnRawSockets \/ ~SomeAreUp)

(* A packet waiting in one socket is read however busy the others are and  *)
(* however the list changes.                                               *)
NoInterfaceStarves == \A i \in Interface : i \in pending ~> i \notin pending
=============================================================================
