------------------------- MODULE PacketSourceProofs -------------------------
(***************************************************************************)
(* Proofs that a capture, however it ends, leaves nothing open, and that   *)
(* the module is correctly typed, for any interfaces, any number of them   *)
(* and any capacity of the queue.                                          *)
(***************************************************************************)
EXTENDS PacketSource, FiniteSetTheorems, TLAPS

(* A source that is open belongs to the thread.                            *)
HeldPhases == {"validating", "rejecting", "chosen", "looping", "closing"}

(* Sockets are open only for the thread that uses them or is about to drop *)
(* them, and so are the handle of the driver ...                           *)
SocketsInv ==
  sockets # <<>> => source = "rawsocket" /\ phase \in HeldPhases

DivertInv ==
  /\ divert # "closed" => source = "windivert" /\ phase \in HeldPhases
  /\ phase \in {"validating", "rejecting"} => source # "windivert"
  /\ phase = "joining" => source = "etw"

(* ... and the worker, which is joined in a phase of its own.              *)
WorkerInv ==
  worker # "none" => source = "etw" /\ phase \in HeldPhases \cup {"joining"}

(* Our session is still to be stopped by the thread, which no shutdown has *)
(* come before, or by the stopping thread between its two halves.          *)
SessionInv ==
  session = "ours" =>
    \/ stopper = "stopping"
    \/ /\ etwStop = FALSE
       /\ source = "etw"
       /\ phase \in HeldPhases \ {"rejecting"}

(* A handle that nobody has started, or that the probe has none of, is not *)
(* being stopped.                                                          *)
StopperInv ==
  /\ etwStop \in BOOLEAN
  /\ phase = "idle" \/ user = "probe" => stopper = "idle"

ReleaseInv == SocketsInv /\ DivertInv /\ WorkerInv /\ SessionInv /\ StopperInv

-----------------------------------------------------------------------------
(* What an opened source, one that is given up, and an empty list leave.   *)
LEMMA OpenedFacts ==
  ASSUME Opened
  PROVE  /\ UNCHANGED <<user, source>>
         /\ phase' \in {"validating", "chosen"}
         /\ phase' = "validating" => source # "windivert"
  BY DEF Opened, OnTrial, Goes

LEMMA NextSourceFacts ==
  ASSUME NextSource
  PROVE  UNCHANGED user /\ phase' \in {"opening", "ended"}
  BY DEF NextSource, OnTrial, Goes

LEMMA NothingBound ==
  ASSUME sockets = <<>>
  PROVE  Bound = {}
  BY DEF Bound, Range

LEMMA InitRelease ==
  ASSUME Init
  PROVE  ReleaseInv
  BY DEF Init, EtwInit, SocketInit, ReleaseInv, SocketsInv, DivertInv, WorkerInv,
         SessionInv, StopperInv

(* Every step keeps the invariant: the steps of the opening thread ...     *)
LEMMA OpeningStep ==
  ASSUME ReleaseInv, Opening
  PROVE  ReleaseInv'
<1> USE DEF ReleaseInv, SocketsInv, DivertInv, WorkerInv, SessionInv, StopperInv, HeldPhases
<1>1. CASE OpenEtw
  <2>1. UNCHANGED <<socketVars, handleVars, divert>> /\ source = "etw"
    BY <1>1 DEF OpenEtw
  <2>2. CASE phase \in {"opening", "reopening"} /\ EtwStart /\ Opened
    BY <2>1, <2>2, OpenedFacts DEF EtwStart, socketVars, handleVars
  <2>3. CASE phase = "opening" /\ EtwStopExisting /\ Goes("reopening")
    BY <2>1, <2>3 DEF EtwStopExisting, SessionEnds, Goes, socketVars, handleVars
  <2>4. CASE phase \in {"opening", "reopening"} /\ UNCHANGED etwVars /\ NextSource
    BY <2>1, <2>4, NextSourceFacts DEF etwVars, socketVars, handleVars
  <2>5. QED
    BY <1>1, <2>2, <2>3, <2>4 DEF OpenEtw, EtwStillThere, EtwRefused
<1>2. CASE OpenSockets
  <2>1. CASE SocketOpens /\ Opened
    BY <1>2, <2>1, OpenedFacts DEF OpenSockets, AtSource, etwVars, handleVars
  <2>2. CASE UNCHANGED socketVars /\ NextSource
    BY <1>2, <2>2, NextSourceFacts DEF OpenSockets, AtSource, etwVars, socketVars,
                                       threadVars, handleVars
  <2>3. QED
    BY <1>2, <2>1, <2>2 DEF OpenSockets
<1>3. CASE OpenDivert
  <2>1. CASE divert' = "open" /\ Opened
    BY <1>3, <2>1, OpenedFacts DEF OpenDivert, AtSource, etwVars, socketVars,
                                   threadVars, handleVars
  <2>2. CASE UNCHANGED divert /\ NextSource
    BY <1>3, <2>2, NextSourceFacts DEF OpenDivert, AtSource, etwVars, socketVars,
                                       threadVars, handleVars
  <2>3. QED
    BY <1>3, <2>1, <2>2 DEF OpenDivert
<1>4. CASE Rejected
  <2>1. CASE source = "etw" /\ EtwJoin /\ UNCHANGED socketVars
    BY <1>4, <2>1, NextSourceFacts DEF Rejected, EtwJoin, socketVars, handleVars
  <2>2. CASE source = "rawsocket" /\ SocketDrop /\ UNCHANGED etwVars
    BY <1>4, <2>2, NextSourceFacts DEF Rejected, SocketDrop, etwVars, handleVars
  <2>3. QED
    BY <1>4, <2>1, <2>2 DEF Rejected
<1>5. CASE Publish
  BY <1>5 DEF Publish, Goes, etwVars, socketVars
<1>6. QED
  BY <1>1, <1>2, <1>3, <1>4, <1>5 DEF Opening

(* ... those of reading, among them a rebind that opens sockets after the  *)
(* control has closed them all ...                                         *)
LEMMA PollingStep ==
  ASSUME ReleaseInv, Polling
  PROVE  ReleaseInv'
<1> USE DEF ReleaseInv, SocketsInv, DivertInv, WorkerInv, SessionInv, StopperInv, HeldPhases
<1>1. CASE PollEtw
  BY <1>1 DEF PollEtw, Polls, EtwTakes, Reads, Judges, socketVars, handleVars
<1>2. CASE BeginRebind \/ NoRebind
  BY <1>2 DEF BeginRebind, NoRebind, OnSockets, LookUp, Steps, etwVars, socketVars,
              threadVars, handleVars
<1>3. CASE PollSockets
  <2>1. sockets' = sockets
    BY <1>3 DEF PollSockets, SocketReads, SocketReadsNothing
  <2>2. phase' \in {phase, "chosen"} /\ (phase' # phase => phase = "validating")
    BY <1>3 DEF PollSockets, Reads, Judges, Steps
  <2>3. QED
    BY <1>3, <2>1, <2>2
       DEF PollSockets, OnSockets, Reads, Steps, etwVars, handleVars
<1>4. ASSUME NEW S \in SUBSET Interface, EndRebind(S)
      PROVE  ReleaseInv'
  BY <1>4 DEF EndRebind, OnSockets, Steps, etwVars, handleVars
<1>5. CASE EnterRecv \/ RecvAborted
  BY <1>5 DEF EnterRecv, RecvAborted, OnDivert, AtSource, Steps, etwVars, socketVars,
              threadVars, handleVars
<1>6. QED
  BY <1>1, <1>2, <1>3, <1>4, <1>5 DEF Polling

(* ... those that end the capture ...                                      *)
LEMMA ShutKeeps ==
  ASSUME ReleaseInv, ShutsSource, phase \in {"validating", "looping"},
         phase = "validating" => source # "windivert",
         phase' \in {"rejecting", "closing"},
         phase' = "rejecting" => phase = "validating",
         UNCHANGED <<user, source, handleVars>>
  PROVE  ReleaseInv'
<1> USE DEF ReleaseInv, SocketsInv, DivertInv, WorkerInv, SessionInv, StopperInv, HeldPhases
<1>1. CASE source = "etw"
  BY <1>1 DEF ShutsSource, EtwShutdown, socketVars, handleVars
<1>2. CASE source = "rawsocket"
  BY <1>2 DEF ShutsSource, SocketShutdown, etwVars, handleVars
<1>3. CASE source \notin {"etw", "rawsocket"}
  BY <1>3 DEF ShutsSource, etwVars, socketVars, threadVars, handleVars
<1>4. QED
  BY <1>1, <1>2, <1>3

LEMMA ClosingStep ==
  ASSUME ReleaseInv, Closing \/ ValidationFails \/ RecvFails \/ KeylogFails \/ ProbeEnds
  PROVE  ReleaseInv'
<1> USE DEF ReleaseInv, SocketsInv, DivertInv, WorkerInv, SessionInv, StopperInv, HeldPhases
<1>1. CASE SeesStop \/ RecvFails \/ KeylogFails
  BY <1>1 DEF SeesStop, RecvFails, OnDivert, AtSource, KeylogFails, Goes, etwVars,
              socketVars, threadVars, handleVars
<1>2. CASE ValidationFails
  BY <1>2, ShutKeeps DEF ValidationFails, Goes
<1>3. CASE ProbeEnds
  BY <1>3, ShutKeeps DEF ProbeEnds, Goes
<1>4. CASE DropEtw
  BY <1>4 DEF DropEtw, EtwShutdown, EtwJoin, Goes, socketVars, handleVars
<1>5. CASE DropSockets
  BY <1>5 DEF DropSockets, AtSource, SocketDrop, Goes, etwVars, handleVars
<1>6. CASE DropDivert
  BY <1>6 DEF DropDivert, AtSource, Goes, etwVars, socketVars, threadVars, handleVars
<1>7. QED
  BY <1>1, <1>2, <1>3, <1>4, <1>5, <1>6 DEF Closing

(* ... those of the thread that stops it ...                               *)
LEMMA StopperStep ==
  ASSUME ReleaseInv, AskStop \/ Stopper
  PROVE  ReleaseInv'
<1> USE DEF ReleaseInv, SocketsInv, DivertInv, WorkerInv, SessionInv, StopperInv, HeldPhases
<1>1. CASE AskStop
  BY <1>1 DEF AskStop, etwVars, socketVars, threadVars
<1>2. CASE StopEtw
  <2>1. stopper \in {"flagged", "stopping"}
    BY <1>2 DEF StopEtw
  <2>2. CASE stopper = "flagged" /\ etwStop /\ UNCHANGED etwVars /\ stopper' = "done"
    BY <1>2, <2>2 DEF StopEtw, etwVars, socketVars, threadVars
  <2>3. CASE EtwCloseTrace /\ stopper' = "stopping"
    BY <1>2, <2>1, <2>3 DEF StopEtw, EtwCloseTrace, socketVars, threadVars
  <2>4. CASE EtwStopSession /\ stopper' = "done"
    BY <1>2, <2>1, <2>4 DEF StopEtw, EtwStopSession, SessionEnds, socketVars, threadVars
  <2>5. QED
    BY <1>2, <2>2, <2>3, <2>4 DEF StopEtw
<1>3. CASE StopSockets
  BY <1>3 DEF StopSockets, SocketShutdown, etwVars, threadVars
<1>4. CASE StopOther
  BY <1>4 DEF StopOther, etwVars, socketVars, threadVars
<1>5. QED
  BY <1>1, <1>2, <1>3, <1>4 DEF Stopper

(* ... and those of the worker, of Windows, and of a crash.                *)
LEMMA OutsideStep ==
  ASSUME ReleaseInv, Worker \/ Traffic \/ Host \/ Crash
  PROVE  ReleaseInv'
<1> USE DEF ReleaseInv, SocketsInv, DivertInv, WorkerInv, SessionInv, StopperInv, HeldPhases
<1> USE DEF Others, threadVars, handleVars
<1>1. CASE Worker
  BY <1>1 DEF Worker, WorkerAttaches, WorkerFindsNone, WorkerPublishes, WorkerReturns,
              socketVars
<1>2. CASE Traffic
  BY <1>2 DEF Traffic, OnEvent, PacketReaches, etwVars, socketVars
<1>3. CASE Host
  BY <1>3 DEF Host, ForeignOpens, ForeignCloses, SessionEnds, AddressChanges,
              etwVars, socketVars
<1>4. CASE Crash
  BY <1>4 DEF Crash, EtwCrash, SocketCrash
<1>5. QED
  BY <1>1, <1>2, <1>3, <1>4

LEMMA StepRelease ==
  ASSUME ReleaseInv, [Next]_vars
  PROVE  ReleaseInv'
<1> USE DEF ReleaseInv, SocketsInv, DivertInv, WorkerInv, SessionInv, StopperInv, HeldPhases
<1>1. CASE Start
  BY <1>1 DEF Start, etwVars, socketVars
<1>2. CASE Thread \/ ValidationFails \/ RecvFails \/ KeylogFails \/ ProbeEnds
  BY <1>2, OpeningStep, PollingStep, ClosingStep DEF Thread
<1>3. CASE RecvPacket
  BY <1>3 DEF RecvPacket, OnDivert, AtSource, Steps, etwVars, socketVars, threadVars,
              handleVars
<1>4. CASE AskStop \/ Stopper
  BY <1>4, StopperStep
<1>5. CASE Worker \/ Traffic \/ Host \/ Crash
  BY <1>5, OutsideStep
<1>6. CASE UNCHANGED vars
  BY <1>6 DEF vars, etwVars, socketVars, threadVars, handleVars
<1>7. QED
  BY <1>1, <1>2, <1>3, <1>4, <1>5, <1>6 DEF Next

(* When the thread has ended and nobody is still stopping it, everything   *)
(* it opened is closed, whichever of the two was first at each of its      *)
(* steps, and a crash leaves no more than the session.                     *)
THEOREM EverythingIsReleased == Spec => []Released
<1>1. Init => ReleaseInv
  BY InitRelease
<1>2. ReleaseInv /\ [Next]_vars => ReleaseInv'
  BY StepRelease
<1>3. ReleaseInv => Released
  BY NothingBound
     DEF Released, ReleaseInv, SocketsInv, DivertInv, WorkerInv, SessionInv,
         StopperInv, HeldPhases
<1>4. QED
  BY <1>1, <1>2, <1>3, PTL DEF Spec

-----------------------------------------------------------------------------
(* Type correctness.  The list of sockets names each address once, so it   *)
(* is never longer than there are addresses, which bounds the position of  *)
(* the next poll.                                                          *)
LEMMA ListingFacts ==
  ASSUME NEW S \in SUBSET Interface, NEW list \in Listings(S)
  PROVE  /\ list \in Seq(S)
         /\ Range(list) = S
         /\ Len(list) = Cardinality(S)
         /\ Len(list) \in 0 .. Cardinality(Interface)
<1>1. IsFiniteSet(S) /\ Cardinality(S) \in Nat /\ Cardinality(Interface) \in Nat
      /\ Cardinality(S) <= Cardinality(Interface)
  BY FS_Subset, FS_CardinalityType, InterfaceAssumption
<1>2. list \in [1 .. Cardinality(S) -> S] /\ Range(list) = S
  BY DEF Listings
<1>3. list \in Seq(S) /\ Len(list) = Cardinality(S)
  BY <1>1, <1>2
<1>4. QED
  BY <1>1, <1>2, <1>3

LEMMA EmptyListing ==
  /\ <<>> \in Listings({})
  /\ Range(<<>>) = {}
<1>1. Cardinality({}) = 0
  BY FS_EmptySet
<1>2. Range(<<>>) = {}
  BY DEF Range
<1>3. <<>> \in [1 .. 0 -> {}]
  OBVIOUS
<1>4. QED
  BY <1>1, <1>2, <1>3 DEF Listings

(* One list of addresses behind another lists both, when they share none.  *)
LEMMA ListingsJoin ==
  ASSUME NEW S \in SUBSET Interface, NEW T \in SUBSET Interface, S \cap T = {},
         NEW s \in Listings(S), NEW t \in Listings(T)
  PROVE  s \o t \in Listings(S \cup T)
<1>1. /\ s \in Seq(S) /\ Range(s) = S /\ Len(s) = Cardinality(S)
      /\ t \in Seq(T) /\ Range(t) = T /\ Len(t) = Cardinality(T)
      /\ Len(s) \in Nat /\ Len(t) \in Nat
  BY ListingFacts
<1>2. Cardinality(S \cup T) = Len(s) + Len(t)
  <2>1. IsFiniteSet(S) /\ IsFiniteSet(T)
    BY FS_Subset, InterfaceAssumption
  <2>2. Cardinality(S \cap T) = 0
    BY FS_EmptySet
  <2>3. Cardinality(S \cup T) = Cardinality(S) + Cardinality(T) - Cardinality(S \cap T)
    BY <2>1, FS_Union
  <2>4. QED
    BY <1>1, <2>2, <2>3
<1>3. s \in Seq(S \cup T) /\ t \in Seq(S \cup T)
  BY <1>1
<1>4. /\ s \o t \in Seq(S \cup T)
      /\ Len(s \o t) = Len(s) + Len(t)
      /\ \A i \in 1 .. Len(s) : (s \o t)[i] = s[i]
      /\ \A i \in 1 .. Len(t) : (s \o t)[Len(s) + i] = t[i]
  BY <1>1, <1>3
<1>5. s \o t \in [1 .. Cardinality(S \cup T) -> S \cup T]
  <2>1. \A q \in Seq(S \cup T) : q \in [1 .. Len(q) -> S \cup T]
    OBVIOUS
  <2>2. QED
    BY <1>2, <1>4, <2>1
<1>6. Range(s \o t) = S \cup T
  <2>1. Range(s \o t) \subseteq S \cup T
    BY <1>5 DEF Range
  <2>2. ASSUME NEW x \in S PROVE x \in Range(s \o t)
    <3>1. PICK i \in 1 .. Len(s) : s[i] = x
      BY <1>1 DEF Range
    <3>2. i \in DOMAIN (s \o t) /\ (s \o t)[i] = x
      BY <1>1, <1>4, <3>1
    <3>3. QED
      BY <3>2 DEF Range
  <2>3. ASSUME NEW x \in T PROVE x \in Range(s \o t)
    <3>1. PICK i \in 1 .. Len(t) : t[i] = x
      BY <1>1 DEF Range
    <3>2. Len(s) + i \in DOMAIN (s \o t) /\ (s \o t)[Len(s) + i] = x
      BY <1>1, <1>4, <3>1
    <3>3. QED
      BY <3>2 DEF Range
  <2>4. QED
    BY <2>1, <2>2, <2>3
<1>7. QED
  BY <1>5, <1>6 DEF Listings

(* The addresses a socket may be opened on.                                *)
LEMMA AddressesAreUp ==
  ASSUME up \subseteq Interface, NEW A \in Addresses
  PROVE  A \subseteq Interface
  BY DEF Addresses

LEMMA SocketsStay ==
  ASSUME SocketTypeOK, UNCHANGED <<up, sockets>>, found' \subseteq Interface,
         next' \in 0 .. Cardinality(Interface), pending' \subseteq pending,
         socketStop' \in BOOLEAN
  PROVE  SocketTypeOK'
  BY DEF SocketTypeOK, Bound

LEMMA SocketsGo ==
  ASSUME SocketTypeOK, sockets' = <<>>, up' = up, found' \subseteq Interface,
         next' \in 0 .. Cardinality(Interface), pending' = {},
         socketStop' \in BOOLEAN
  PROVE  SocketTypeOK'
  BY EmptyListing DEF SocketTypeOK, Bound

LEMMA NextStartsAtZero == 0 \in 0 .. Cardinality(Interface)
  BY FS_CardinalityType, InterfaceAssumption

LEMMA SocketsOpen ==
  ASSUME SocketTypeOK, sockets = <<>>, SocketOpens
  PROVE  SocketTypeOK'
<1>1. PICK A \in Addresses : \E S \in SUBSET (A \ Refusing) : sockets' \in Listings(S)
  BY DEF SocketOpens
<1>2. PICK S \in SUBSET (A \ Refusing) : sockets' \in Listings(S)
  BY <1>1
<1>3. S \in SUBSET Interface
  BY AddressesAreUp, <1>2 DEF SocketTypeOK
<1>4. pending = {}
  BY EmptyListing DEF SocketTypeOK, Bound
<1>5. QED
  BY <1>2, <1>3, <1>4, NextStartsAtZero DEF SocketOpens, SocketTypeOK, Bound

(* A rebind closes, keeps and opens without naming an address twice.       *)
LEMMA SocketsReconciled ==
  ASSUME SocketTypeOK, NEW S \in SUBSET Interface, Reconcile(S)
  PROVE  SocketTypeOK'
<1>1. Bound \subseteq Interface
  BY ListingFacts DEF SocketTypeOK, Bound
<1>2. PICK kept \in Keeping(found), opened \in Listings(S) : sockets' = kept \o opened
  BY DEF Reconcile
<1>3. kept \in Listings(Bound \cap found) /\ Bound \cap found \in SUBSET Interface
  BY <1>1, <1>2 DEF Keeping
<1>4. (Bound \cap found) \cap S = {}
  BY DEF Reconcile
<1>5. sockets' \in Listings((Bound \cap found) \cup S)
  BY <1>2, <1>3, <1>4, ListingsJoin
<1>6. Bound' = (Bound \cap found) \cup S
  BY <1>3, <1>5, ListingFacts DEF Bound, Listings
<1>7. (Bound \cap found) \cup S \in SUBSET Interface
  BY <1>3
<1>8. pending' \subseteq Bound'
  BY <1>6 DEF Reconcile, SocketTypeOK
<1>9. QED
  BY <1>5, <1>7, <1>8 DEF Reconcile, SocketTypeOK

(* A poll ends with the next one starting at some position of the list.    *)
LEMMA PollMovesOn ==
  ASSUME SocketTypeOK, SocketReads \/ SocketReadsNothing
  PROVE  SocketTypeOK'
<1>1. sockets \in Seq(Interface) /\ Len(sockets) \in 0 .. Cardinality(Interface)
  <2>1. PICK S \in SUBSET Interface : sockets \in Listings(S)
    BY DEF SocketTypeOK
  <2>2. QED
    BY <2>1, ListingFacts
<1>2. Cardinality(Interface) \in Nat
  BY FS_CardinalityType, InterfaceAssumption
<1>3. ASSUME NEW n \in Nat, sockets # <<>>
      PROVE  n % Len(sockets) \in 0 .. Cardinality(Interface)
  <2>1. Len(sockets) \in Nat \ {0}
    BY <1>1, <1>2, <1>3
  <2>2. n % Len(sockets) \in 0 .. Len(sockets) - 1
    BY <2>1
  <2>3. QED
    BY <1>1, <1>2, <2>1, <2>2
<1>4. next \in Nat
  BY <1>2 DEF SocketTypeOK
<1>5. CASE SocketReads
  <2>1. PICK offset \in 0 .. Len(sockets) - 1 :
          /\ pending' = pending \ {At(offset)}
          /\ next' = (((next + offset) % Len(sockets)) + 1) % Len(sockets)
    BY <1>5 DEF SocketReads
  <2>2. Len(sockets) \in Nat \ {0} /\ sockets # <<>> /\ offset \in Nat
    BY <1>1, <1>2, <2>1
  <2>3. ((next + offset) % Len(sockets)) + 1 \in Nat
    BY <1>4, <2>2
  <2>4. next' \in 0 .. Cardinality(Interface)
    BY <1>3, <2>1, <2>2, <2>3
  <2>5. QED
    BY <1>5, <2>1, <2>4, SocketsStay DEF SocketReads, SocketTypeOK
<1>6. CASE SocketReadsNothing
  <2>1. next' \in 0 .. Cardinality(Interface)
    <3>1. next + 1 \in Nat
      BY <1>4
    <3>2. QED
      BY <1>3, <1>6, <3>1 DEF SocketReadsNothing, SocketTypeOK
  <2>2. QED
    BY <1>6, <2>1, SocketsStay DEF SocketReadsNothing, SocketTypeOK
<1>7. QED
  BY <1>5, <1>6

-----------------------------------------------------------------------------
(* The types of the threads' own state.                                    *)
ThreadTypeOK ==
  /\ user \in {"capture", "probe"}
  /\ pref \in Backend \cup {"auto"}
  /\ sick \in BOOLEAN
  /\ phase \in Phase
  /\ source \in Backend
  /\ step \in {"head", "rebinding", "polling"}
  /\ divert \in {"closed", "open", "shut"}
  /\ stop \in BOOLEAN
  /\ stopper \in {"idle", "flagged", "stopping", "done"}
  /\ control \in Backend \cup {"none"}

LEMMA TypeSplits == TypeOK <=> EtwTypeOK /\ SocketTypeOK /\ ThreadTypeOK
  BY DEF TypeOK, ThreadTypeOK

LEMMA InitTypes ==
  ASSUME Init
  PROVE  TypeOK
<1>1. EtwTypeOK
  <2>1. 0 \in 0 .. QueueCapacity
    BY QueueCapacityAssumption
  <2>2. QED
    BY <2>1 DEF Init, EtwInit, EtwTypeOK, Session
<1>2. SocketTypeOK
  BY EmptyListing, NextStartsAtZero DEF Init, SocketInit, SocketTypeOK, Bound
<1>3. ThreadTypeOK
  BY DEF Init, ThreadTypeOK, FirstSource, Backend, Phase
<1>4. QED
  BY <1>1, <1>2, <1>3, TypeSplits

LEMMA EtwTypesStep ==
  ASSUME EtwTypeOK, [Next]_vars
  PROVE  EtwTypeOK'
<1> USE QueueCapacityAssumption DEF EtwTypeOK, Session
<1>1. CASE UNCHANGED etwVars
  BY <1>1 DEF etwVars
<1>2. CASE OpenEtw
  BY <1>1, <1>2 DEF OpenEtw, EtwStart, EtwStopExisting, EtwStillThere, EtwRefused,
                    SessionEnds
<1>3. CASE EtwShutdown
  BY <1>3 DEF EtwShutdown
<1>4. CASE EtwJoin
  BY <1>4 DEF EtwJoin
<1>5. CASE EtwTakes
  <2>1. queued' \in 0 .. QueueCapacity
    BY <1>5 DEF EtwTakes
  <2>2. QED
    BY <1>5, <2>1 DEF EtwTakes
<1>6. CASE StopEtw
  BY <1>1, <1>6 DEF StopEtw, EtwCloseTrace, EtwStopSession, SessionEnds
<1>7. CASE Worker
  BY <1>7 DEF Worker, WorkerAttaches, WorkerFindsNone, WorkerPublishes, WorkerReturns
<1>8. CASE OnEvent
  BY <1>8 DEF OnEvent
<1>9. CASE ForeignOpens \/ ForeignCloses
  BY <1>9 DEF ForeignOpens, ForeignCloses, SessionEnds
<1>10. CASE Crash
  <2>1. 0 \in 0 .. QueueCapacity
    OBVIOUS
  <2>2. QED
    BY <1>10, <2>1 DEF Crash, EtwCrash
<1>11. CASE Opening
  BY <1>1, <1>2, <1>4, <1>11 DEF Opening, OpenSockets, OpenDivert, Rejected, Publish
<1>12. CASE Polling
  BY <1>1, <1>5, <1>12
     DEF Polling, PollEtw, BeginRebind, NoRebind, PollSockets, OnSockets, EndRebind,
         EnterRecv, RecvAborted, OnDivert
<1>13. CASE Closing
  BY <1>1, <1>3, <1>4, <1>13 DEF Closing, SeesStop, DropEtw, DropSockets, DropDivert
<1>14. CASE \/ Start \/ ValidationFails \/ RecvPacket \/ RecvFails \/ KeylogFails
            \/ ProbeEnds \/ AskStop
  BY <1>1, <1>3, <1>14
     DEF Start, ValidationFails, ShutsSource, RecvPacket, RecvFails, OnDivert,
         KeylogFails, ProbeEnds, AskStop
<1>15. CASE StopSockets \/ StopOther
  BY <1>1, <1>15 DEF StopSockets, StopOther
<1>16. CASE Traffic \/ Host
  BY <1>1, <1>8, <1>9, <1>16 DEF Traffic, Host
<1>17. CASE UNCHANGED vars
  BY <1>1, <1>17 DEF vars
<1>18. QED
  BY <1>6, <1>7, <1>10, <1>11, <1>12, <1>13, <1>14, <1>15, <1>16, <1>17
     DEF Next, Thread, Stopper

(* Sockets are opened while none is open, which is what ReleaseInv knows.  *)
LEMMA SocketTypesStep ==
  ASSUME SocketTypeOK, ReleaseInv, [Next]_vars
  PROVE  SocketTypeOK'
<1>1. CASE UNCHANGED socketVars
  BY <1>1, SocketsStay DEF SocketTypeOK, socketVars
<1>2. CASE OpenSockets
  <2>1. CASE SocketOpens
    <3>1. sockets = <<>>
      BY <1>2 DEF OpenSockets, AtSource, ReleaseInv, SocketsInv, HeldPhases
    <3>2. QED
      BY <2>1, <3>1, SocketsOpen
  <2>2. QED
    BY <1>1, <1>2, <2>1 DEF OpenSockets
<1>3. CASE SocketShutdown
  BY <1>3, SocketsGo DEF SocketShutdown, SocketTypeOK
<1>4. CASE SocketDrop
  BY <1>4, SocketsGo, NextStartsAtZero DEF SocketDrop, SocketTypeOK
<1>5. CASE LookUp
  <2>1. found' \subseteq Interface
    BY <1>5, AddressesAreUp DEF LookUp, SocketTypeOK
  <2>2. QED
    BY <1>5, <2>1, SocketsStay DEF LookUp, SocketTypeOK
<1>6. ASSUME NEW S \in SUBSET Interface, EndRebind(S)
      PROVE  SocketTypeOK'
  BY <1>6, SocketsReconciled DEF EndRebind
<1>7. CASE PollSockets
  BY <1>7, PollMovesOn DEF PollSockets
<1>8. CASE AddressChanges
  BY <1>8 DEF AddressChanges, SocketTypeOK, Bound
<1>9. CASE PacketReaches
  BY <1>9 DEF PacketReaches, SocketTypeOK, Bound
<1>10. CASE Crash
  BY <1>10, SocketsGo, NextStartsAtZero DEF Crash, SocketCrash, SocketTypeOK
<1>11. CASE Opening
  BY <1>1, <1>2, <1>4, <1>11 DEF Opening, OpenEtw, OpenDivert, Rejected, Publish
<1>12. CASE Polling
  BY <1>1, <1>5, <1>6, <1>7, <1>12
     DEF Polling, PollEtw, BeginRebind, NoRebind, OnSockets, EnterRecv, RecvAborted,
         OnDivert
<1>13. CASE Closing
  BY <1>1, <1>4, <1>13 DEF Closing, SeesStop, DropEtw, DropSockets, DropDivert
<1>14. CASE \/ Start \/ ValidationFails \/ RecvPacket \/ RecvFails \/ KeylogFails
            \/ ProbeEnds \/ AskStop
  BY <1>1, <1>3, <1>14
     DEF Start, ValidationFails, ShutsSource, RecvPacket, RecvFails, OnDivert,
         KeylogFails, ProbeEnds, AskStop
<1>15. CASE Stopper
  BY <1>1, <1>3, <1>15 DEF Stopper, StopEtw, StopSockets, StopOther
<1>16. CASE Worker \/ Traffic \/ Host
  BY <1>1, <1>8, <1>9, <1>16 DEF Worker, Traffic, Host
<1>17. CASE UNCHANGED vars
  BY <1>1, <1>17 DEF vars
<1>18. QED
  BY <1>10, <1>11, <1>12, <1>13, <1>14, <1>15, <1>16, <1>17 DEF Next, Thread

LEMMA ThreadTypesStep ==
  ASSUME ThreadTypeOK, [Next]_vars
  PROVE  ThreadTypeOK'
<1> USE DEF ThreadTypeOK, Backend, Open, Phase, threadVars, handleVars
<1>1. CASE OpenEtw \/ OpenSockets \/ OpenDivert
  <2>1. CASE Opened
    BY <1>1, <2>1 DEF OpenEtw, OpenSockets, OpenDivert, AtSource, Opened, OnTrial, Goes
  <2>2. CASE NextSource
    BY <1>1, <2>2 DEF OpenEtw, OpenSockets, OpenDivert, AtSource, NextSource, OnTrial, Goes
  <2>3. CASE OpenEtw /\ Goes("reopening")
    BY <2>3 DEF OpenEtw, Goes
  <2>4. QED
    BY <1>1, <2>1, <2>2, <2>3 DEF OpenEtw, OpenSockets, OpenDivert
<1>2. CASE Rejected \/ Publish
  BY <1>2 DEF Rejected, Publish, NextSource, OnTrial, Goes
<1>3. CASE PollEtw
  BY <1>3 DEF PollEtw, Reads, Judges
<1>4. CASE BeginRebind \/ NoRebind \/ \E S \in SUBSET Interface : EndRebind(S)
  BY <1>4 DEF BeginRebind, NoRebind, EndRebind, OnSockets, Steps
<1>5. CASE PollSockets
  BY <1>5 DEF PollSockets, OnSockets, Reads, Judges, Steps
<1>6. CASE EnterRecv \/ RecvPacket \/ RecvAborted \/ RecvFails
  BY <1>6 DEF EnterRecv, RecvPacket, RecvAborted, RecvFails, OnDivert, Steps, Goes
<1>7. CASE Closing
  BY <1>7 DEF Closing, SeesStop, DropEtw, DropSockets, DropDivert, Goes
<1>8. CASE ValidationFails \/ KeylogFails \/ ProbeEnds
  BY <1>8 DEF ValidationFails, KeylogFails, ProbeEnds, ShutsSource, Goes
<1>9. CASE Start
  BY <1>9 DEF Start, FirstSource
<1>10. CASE AskStop
  BY <1>10 DEF AskStop
<1>11. CASE Stopper
  BY <1>11 DEF Stopper, StopEtw, StopSockets, StopOther
<1>12. CASE Worker \/ Traffic \/ Host
  BY <1>12 DEF Worker, Traffic, Host, Others
<1>13. CASE Crash
  BY <1>13 DEF Crash
<1>14. CASE UNCHANGED vars
  BY <1>14 DEF vars
<1>15. QED
  BY <1>1, <1>2, <1>3, <1>4, <1>5, <1>6, <1>7, <1>8, <1>9, <1>10, <1>11, <1>12, <1>13,
     <1>14 DEF Next, Thread, Opening, Polling

(* Type correctness for any interfaces: an address never has two sockets,  *)
(* though a rebind may come after the control has closed them all, only a  *)
(* bound address has an unread packet, the position of the next poll and   *)
(* the queue stay in their bounds.                                         *)
THEOREM PacketSourceTypeCorrect == Spec => []TypeOK
<1> DEFINE Inv == TypeOK /\ ReleaseInv
<1>1. Init => Inv
  BY InitTypes, InitRelease
<1>2. Inv /\ [Next]_vars => Inv'
  <2>1. ASSUME Inv, [Next]_vars
        PROVE  EtwTypeOK' /\ SocketTypeOK' /\ ThreadTypeOK' /\ ReleaseInv'
    BY <2>1, TypeSplits, EtwTypesStep, SocketTypesStep, ThreadTypesStep, StepRelease
  <2>2. TypeOK' <=> EtwTypeOK' /\ SocketTypeOK' /\ ThreadTypeOK'
    BY DEF TypeOK, ThreadTypeOK
  <2>3. QED
    BY <2>1, <2>2
<1>3. QED
  <2>1. Inv => TypeOK
    OBVIOUS
  <2>2. QED
    BY <1>1, <1>2, <2>1, PTL DEF Spec
=============================================================================
