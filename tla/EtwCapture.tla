----------------------------- MODULE EtwCapture -----------------------------
(***************************************************************************)
(* The packet source on the capture provider built into Windows:           *)
(* src/crates/capture/src/etw.rs.                                          *)
(*                                                                         *)
(* The kernel keeps one trace session under the fixed name SESSION_NAME.   *)
(* A capture starts that session, and a worker thread attaches to it by    *)
(* name, pushes the packets of every event into a bounded queue and blocks *)
(* in ProcessTrace until the session or its own trace handle is closed.    *)
(* Since there is only one name, the session may be one that a crash left  *)
(* behind, or belong to a capture of another process, which ends ours when *)
(* it opens.  The actions below are steps of the capture thread, of the    *)
(* thread that stops it, of the worker and of the other process; module    *)
(* PacketSource says when each of them runs.                               *)
(***************************************************************************)
EXTENDS Naturals

CONSTANT QueueCapacity        \* packets between the callback and the reader

ASSUME QueueCapacityAssumption == QueueCapacity \in Nat \ {0}

VARIABLES
  session,    \* whose session bears the name, or "none"
  worker,     \* where the worker thread is
  attached,   \* the session OpenTrace attached the worker to, "none" once it
              \* ended or the trace handle was closed
  trace,      \* the worker has published its trace handle
  etwStop,    \* the stop flag that lets shutdown run only once
  queued      \* packets in the queue

etwVars == <<session, worker, attached, trace, etwStop, queued>>

Session == {"none", "leftover", "foreign", "ours"}

EtwTypeOK ==
  /\ session \in Session
  /\ worker \in {"none", "spawned", "opened", "processing", "ended"}
  /\ attached \in Session
  /\ trace \in BOOLEAN
  /\ etwStop \in BOOLEAN
  /\ queued \in 0 .. QueueCapacity

EtwInit ==
  /\ session = "none"
  /\ worker = "none"
  /\ attached = "none"
  /\ trace = FALSE
  /\ etwStop = FALSE
  /\ queued = 0

(* A session ends: a worker attached to it has nothing left to process.    *)
SessionEnds ==
  /\ session' = "none"
  /\ attached' = IF attached = session THEN "none" ELSE attached

-----------------------------------------------------------------------------
(* Opening.  StartTrace succeeds only while nobody bears the name ...      *)
EtwStart ==
  /\ session = "none"
  /\ session' = "ours"
  /\ worker' = "spawned"
  /\ trace' = FALSE
  /\ etwStop' = FALSE
  /\ UNCHANGED <<attached, queued>>

(* ... otherwise whatever bears it is stopped, before the one retry.       *)
EtwStopExisting ==
  /\ session # "none"
  /\ SessionEnds
  /\ UNCHANGED <<worker, trace, etwStop, queued>>

(* The name was taken once more before the retry.                          *)
EtwStillThere ==
  /\ session # "none"
  /\ UNCHANGED etwVars

(* No rights for StartTrace, or the session was started but its provider   *)
(* could not be enabled, and it is stopped again.                          *)
EtwRefused ==
  UNCHANGED etwVars

-----------------------------------------------------------------------------
(* The worker attaches by name, so to whatever session bears it by then.   *)
WorkerAttaches ==
  /\ worker = "spawned"
  /\ session # "none"
  /\ worker' = "opened"
  /\ attached' = session
  /\ UNCHANGED <<session, trace, etwStop, queued>>

WorkerFindsNone ==
  /\ worker = "spawned"
  /\ session = "none"
  /\ worker' = "ended"
  /\ UNCHANGED <<session, attached, trace, etwStop, queued>>

(* Only now can shutdown close the handle.                                 *)
WorkerPublishes ==
  /\ worker = "opened"
  /\ worker' = "processing"
  /\ trace' = TRUE
  /\ UNCHANGED <<session, attached, etwStop, queued>>

WorkerReturns ==
  /\ worker = "processing"
  /\ attached = "none"
  /\ worker' = "ended"
  /\ UNCHANGED <<session, attached, trace, etwStop, queued>>

\* Mutant: the queue has no limit of its own.
OnEventAlways ==
  /\ worker = "processing"
  /\ attached # "none"
  /\ queued <= QueueCapacity
  /\ queued' = queued + 1
  /\ UNCHANGED <<session, worker, attached, trace, etwStop>>

(* An event with a TCP/443 packet.  In a full queue it is lost and only    *)
(* counted, which no other state depends on.                               *)
OnEvent ==
  /\ worker = "processing"
  /\ attached # "none"
  /\ queued < QueueCapacity
  /\ queued' = queued + 1
  /\ UNCHANGED <<session, worker, attached, trace, etwStop>>

EtwTakes ==
  /\ queued > 0
  /\ queued' = queued - 1
  /\ UNCHANGED <<session, worker, attached, trace, etwStop>>

-----------------------------------------------------------------------------
(* shutdown, whose swap lets the first caller through: it closes the trace *)
(* handle if the worker has published one ...                              *)
EtwCloseTrace ==
  /\ ~etwStop
  /\ etwStop' = TRUE
  /\ attached' = IF trace THEN "none" ELSE attached
  /\ UNCHANGED <<session, worker, trace, queued>>

(* ... and stops the session of its own handle, which is gone if another   *)
(* process has taken the name over.                                        *)
EtwStopSession ==
  /\ IF session = "ours" THEN SessionEnds ELSE UNCHANGED <<session, attached>>
  /\ UNCHANGED <<worker, trace, etwStop, queued>>

(* Both halves in one go, as the thread that drops the capture runs them.  *)
EtwShutdown ==
  /\ IF etwStop
       THEN UNCHANGED <<session, attached, etwStop>>
       ELSE /\ etwStop' = TRUE
            /\ session' = IF session = "ours" THEN "none" ELSE session
            /\ attached' = IF trace \/ attached = "ours" THEN "none" ELSE attached
  /\ UNCHANGED <<worker, trace, queued>>

(* The rest of the drop: the worker is joined and the queue goes with the  *)
(* capture.  Controls that others still hold keep their flag and handle.   *)
EtwJoin ==
  /\ worker = "ended"
  /\ worker' = "none"
  /\ queued' = 0
  /\ UNCHANGED <<session, attached, trace, etwStop>>

-----------------------------------------------------------------------------
(* A capture of another process opens, ending whatever bore the name, and  *)
(* closes.                                                                 *)
ForeignOpens ==
  /\ session # "foreign"
  /\ session' = "foreign"
  /\ attached' = IF attached = session THEN "none" ELSE attached
  /\ UNCHANGED <<worker, trace, etwStop, queued>>

ForeignCloses ==
  /\ session = "foreign"
  /\ SessionEnds
  /\ UNCHANGED <<worker, trace, etwStop, queued>>

(* The process dies: its threads and handles are gone, its session stays.  *)
EtwCrash ==
  /\ session' = IF session = "ours" THEN "leftover" ELSE session
  /\ worker' = "none"
  /\ attached' = "none"
  /\ trace' = FALSE
  /\ etwStop' = FALSE
  /\ queued' = 0
=============================================================================
