--------------------------- MODULE StreamSession ----------------------------
(***************************************************************************)
(* The stream session of the ARC Live window process: the overlay figures, *)
(* the stream baseline, the day rollover, the reset the streamer confirms, *)
(* the demonstration figures, and the single row of table stream_session   *)
(* they are saved to and restored from.                                    *)
(*                                                                         *)
(* Everything here runs on one UI thread, so a handler is one step; what   *)
(* interleaves is the order of handlers, the clock, storage failures and   *)
(* the end of the process at any point.  Every counter of OverlayStats     *)
(* that only grows behaves as "loot" does; "invested" is the one total     *)
(* that enters the balance with a minus sign.                              *)
(***************************************************************************)
EXTENDS Integers

CONSTANTS
  Totals,          \* account totals a statistics response may carry
  DemoLoot,        \* the loot total of load_demo_stats
  DemoSession,     \* its stream counter
  DemoGain,        \* the two balances FlipDemoBalance alternates between
  DemoLoss,
  MaxDelta,        \* the largest value of the signed balance (i64::MAX)
  MaxDay,          \* bound: the last local day of a behaviour
  None,            \* Option::None, and the figure a response did not carry
  StorageMayFail,  \* whether SQLite may refuse a read or a write
  DuringDemo       \* what may happen while the demonstration is shown

DemoEvents == {"gameStop", "confirmReset", "leave"}

Sources == {"none", "game", "demo"}
Days    == 0 .. MaxDay

\* The account totals inside an OverlayStats; src is a history field that
\* records who wrote them and that no action reads.
Figures == [src : Sources, loot : Nat, invested : Nat]

ASSUME TotalsAssumption ==
  Totals \subseteq [loot : Nat, invested : Nat]

ASSUME DemoAssumption ==
  /\ DemoLoot \in Nat /\ DemoSession \in Nat
  /\ DemoGain \in Nat /\ DemoLoss \in Int /\ DemoLoss <= 0
  /\ DuringDemo \subseteq DemoEvents

ASSUME BoundsAssumption ==
  /\ MaxDelta \in Nat /\ MaxDay \in Nat
  /\ DemoGain <= MaxDelta /\ -(MaxDelta + 1) <= DemoLoss
  /\ StorageMayFail \in BOOLEAN

VARIABLES
  today,           \* the local date
  up,              \* the process is running
  gate,            \* which screen the configuration still insists on
  streamDay,       \* stream_day
  baseline,        \* session_baseline
  started,         \* the local day of stream_started_at
  overlay,         \* AppState::overlay
  confirm,         \* confirm_new_stream
  gameRunning,     \* AppState::game_running
  saved,           \* the row of stream_session, or None
  dirty,           \* history: the last attempt to save failed
  last             \* history: the totals reported last, and on which stream day

vars == <<today, up, gate, streamDay, baseline, started, overlay, confirm,
          gameRunning, saved, dirty, last>>

MinDelta == -(MaxDelta + 1)

\* u64::saturating_sub
Growth(now, then) == IF now > then THEN now - then ELSE 0

\* Mutant: the balance is cast without a clamp.
Unclamped(d) == d

\* i128::clamp into the range of i64
Clamp(d) == IF d > MaxDelta THEN MaxDelta ELSE IF d < MinDelta THEN MinDelta ELSE d

MoneyDelta(now, base) ==
  Clamp(Growth(now.loot, base.loot) - Growth(now.invested, base.invested))

ApplyBaseline(o, base) ==
  [o EXCEPT !.session = Growth(o.loot, base.loot), !.delta = MoneyDelta(o, base)]

TotalsOf(o) == [src |-> o.src, loot |-> o.loot, invested |-> o.invested]

\* OverlayStats::default() with mode "live": no totals, no counters.
Blank ==
  [mode |-> "live", src |-> "none", loot |-> 0, invested |-> 0, rows |-> FALSE,
   session |-> 0, delta |-> 0, daily |-> None]

Overlays ==
  [mode : {"live", "demo"}, src : Sources, loot : Nat, invested : Nat,
   rows : BOOLEAN, session : Nat, delta : MinDelta .. MaxDelta,
   daily : Days \union {None}]

Records ==
  [day : Days, started : Days, baseline : Figures, overlay : Overlays]

ASSUME NoneAssumption ==
  None \notin Figures \union Records \union Nat

\* The overlay of a saved stream as ArcLiveApp::new shows it.
Restored(record) ==
  [ApplyBaseline(record.overlay, record.baseline) EXCEPT !.mode = "live"]

-----------------------------------------------------------------------------
Init ==
  /\ today = 0
  /\ up = FALSE
  /\ gate \in {"notice", "main"}
  /\ streamDay = 0
  /\ baseline = None /\ started = None
  /\ overlay = Blank
  /\ confirm = FALSE /\ gameRunning = FALSE
  /\ saved = None /\ dirty = FALSE
  /\ last = None

\* persist_stream_session: nothing to save before the first baseline; an
\* error is recorded in the activity list and the old row stays.
Persist(b, st, o) ==
  \/ /\ b = None
     /\ UNCHANGED <<saved, dirty>>
  \/ /\ b # None
     /\ saved' = [day |-> streamDay, started |-> st, baseline |-> b, overlay |-> o]
     /\ dirty' = FALSE
  \/ /\ b # None
     /\ StorageMayFail
     /\ dirty' = TRUE
     /\ UNCHANGED saved

InMain == up /\ gate = "main"

InDemo == overlay.mode = "demo"

\* An event the run admits while the demonstration is shown.
Admitted(event) == InDemo => event \in DuringDemo
-----------------------------------------------------------------------------
(* The process: start, orderly exit, sudden end.                           *)

\* Mutant: the local day of the row is not compared.
SavedAtAll == saved # None

SavedToday == saved # None /\ saved.day = today

StartRestored ==
  /\ ~up
  /\ SavedToday
  /\ up' = TRUE
  /\ streamDay' = today
  /\ baseline' = saved.baseline
  /\ started' = saved.started
  /\ overlay' = Restored(saved)
  /\ UNCHANGED <<today, gate, confirm, gameRunning, saved, dirty, last>>

\* No row, a row of another day, or a row that cannot be read.
StartFresh ==
  /\ ~up
  /\ ~SavedToday \/ StorageMayFail
  /\ up' = TRUE
  /\ streamDay' = today
  /\ baseline' = None /\ started' = None
  /\ overlay' = Blank
  /\ UNCHANGED <<today, gate, confirm, gameRunning, saved, dirty, last>>

\* What is left of the process once it is gone.
MemoryIsGone ==
  /\ up' = FALSE
  /\ baseline' = None /\ started' = None
  /\ overlay' = Blank
  /\ confirm' = FALSE /\ gameRunning' = FALSE
  /\ UNCHANGED <<today, gate, streamDay, last>>

\* Mutant: the mode is not checked before the last save.
ExitSavesAnything ==
  /\ up
  /\ Persist(baseline, started, overlay)
  /\ MemoryIsGone

\* Drop for ArcLiveApp: the totals on screen are saved unless they are demo.
Exit ==
  /\ up
  /\ IF InDemo THEN UNCHANGED <<saved, dirty>> ELSE Persist(baseline, started, overlay)
  /\ MemoryIsGone

\* The process is killed, or Windows goes down: no destructor runs.
Kill ==
  /\ up
  /\ MemoryIsGone
  /\ UNCHANGED <<saved, dirty>>

Midnight ==
  /\ today < MaxDay
  /\ today' = today + 1
  /\ UNCHANGED <<up, gate, streamDay, baseline, started, overlay, confirm,
                 gameRunning, saved, dirty, last>>
-----------------------------------------------------------------------------
(* The frame: logic() and the handlers of drain_events.                    *)

\* AcceptDisclaimer, then the last page of the onboarding, which a user who has
\* seen it before does not get again.
AdvanceGate ==
  /\ up
  /\ \/ gate = "notice" /\ gate' \in {"onboarding", "main"}
     \/ gate = "onboarding" /\ gate' = "main"
  /\ UNCHANGED <<today, up, streamDay, baseline, started, overlay, confirm,
                 gameRunning, saved, dirty, last>>

RolloverTo(start, balance) ==
  /\ up
  /\ gate # "notice"
  /\ today # streamDay
  /\ streamDay' = today
  /\ baseline' = None
  /\ started' = start
  /\ overlay' = [overlay EXCEPT !.session = 0, !.delta = balance, !.daily = None]
  /\ UNCHANGED <<today, up, gate, confirm, gameRunning, saved, dirty, last>>

\* Mutants: the start of the stream, or its balance, is not cleared.
RolloverKeepsStart == RolloverTo(started, 0)
RolloverKeepsBalance == RolloverTo(None, overlay.delta)

\* rollover_day_if_needed, which logic() calls once the notice is accepted.
Rollover == RolloverTo(None, 0)

\* apply_probe.  daily stands for the figures of the game's "today" scope,
\* identified by the stream day they were received on.
Response(t, daily) ==
  LET figures == [src |-> "game", loot |-> t.loot, invested |-> t.invested]
      base    == IF baseline = None THEN figures ELSE baseline
      since   == IF baseline = None THEN today ELSE started
      fresh   == [mode |-> "live", src |-> "game", loot |-> t.loot,
                  invested |-> t.invested, rows |-> TRUE, session |-> 0,
                  delta |-> 0, daily |-> daily]
      shown   == ApplyBaseline(fresh, base)
  IN /\ up
     /\ baseline' = base
     /\ started' = since
     /\ overlay' = shown
     /\ Persist(base, since, shown)
     /\ last' = [day |-> streamDay, loot |-> t.loot, invested |-> t.invested]
     /\ UNCHANGED <<today, up, gate, streamDay, confirm, gameRunning>>

GameStarts ==
  /\ up /\ ~gameRunning
  /\ gameRunning' = TRUE
  /\ UNCHANGED <<today, up, gate, streamDay, baseline, started, overlay, confirm,
                 saved, dirty, last>>

\* The totals on screen are saved, whatever they are.
GameStops ==
  /\ up /\ gameRunning
  /\ Admitted("gameStop")
  /\ gameRunning' = FALSE
  /\ Persist(baseline, started, overlay)
  /\ UNCHANGED <<today, up, gate, streamDay, baseline, started, overlay, confirm,
                 last>>
-----------------------------------------------------------------------------
(* What the streamer does in the window.                                   *)

AskReset ==
  /\ InMain /\ ~confirm
  /\ overlay.rows /\ ~InDemo          \* StreamView::can_reset
  /\ confirm' = TRUE
  /\ UNCHANGED <<today, up, gate, streamDay, baseline, started, overlay,
                 gameRunning, saved, dirty, last>>

CancelReset ==
  /\ InMain /\ confirm
  /\ confirm' = FALSE
  /\ UNCHANGED <<today, up, gate, streamDay, baseline, started, overlay,
                 gameRunning, saved, dirty, last>>

ResetTo(shown) ==
  /\ InMain /\ confirm
  /\ Admitted("confirmReset")
  /\ baseline' = TotalsOf(overlay)
  /\ started' = today
  /\ overlay' = shown
  /\ confirm' = FALSE
  /\ UNCHANGED <<today, up, gate, streamDay, gameRunning, last>>

ZeroCounters == [overlay EXCEPT !.mode = "live", !.session = 0, !.delta = 0]

\* Mutants: the balance is left as it is; the new baseline is not saved.
ConfirmResetKeepsBalance ==
  /\ ResetTo([overlay EXCEPT !.mode = "live", !.session = 0])
  /\ Persist(TotalsOf(overlay), today, overlay')
ConfirmResetUnsaved == ResetTo(ZeroCounters) /\ UNCHANGED <<saved, dirty>>

\* start_new_stream; the confirmation card asks for nothing but confirm.
ConfirmReset ==
  /\ ResetTo(ZeroCounters)
  /\ Persist(TotalsOf(overlay), today, ZeroCounters)

\* load_demo_stats: a few totals and counters are overwritten, stats_rows and
\* the other totals stay.
DemoOn ==
  /\ InMain /\ ~InDemo
  /\ overlay' = [overlay EXCEPT !.mode = "demo", !.src = "demo", !.loot = DemoLoot,
                                !.session = DemoSession, !.delta = DemoLoss,
                                !.daily = streamDay]
  /\ UNCHANGED <<today, up, gate, streamDay, baseline, started, confirm,
                 gameRunning, saved, dirty, last>>

FlipDemoBalance ==
  /\ InMain /\ InDemo
  /\ overlay' = [overlay EXCEPT !.delta = IF @ < 0 THEN DemoGain ELSE DemoLoss]
  /\ UNCHANGED <<today, up, gate, streamDay, baseline, started, confirm,
                 gameRunning, saved, dirty, last>>

\* clear_demo_stats: every total is reset, the baseline is not touched.
DemoOff ==
  /\ InMain /\ InDemo
  /\ Admitted("leave")
  /\ overlay' = Blank
  /\ UNCHANGED <<today, up, gate, streamDay, baseline, started, confirm,
                 gameRunning, saved, dirty, last>>
-----------------------------------------------------------------------------
Next ==
  \/ StartRestored \/ StartFresh \/ Exit \/ Kill \/ Midnight
  \/ AdvanceGate \/ Rollover
  \/ \E t \in Totals, daily \in {None, streamDay} : Response(t, daily)
  \/ GameStarts \/ GameStops
  \/ AskReset \/ CancelReset \/ ConfirmReset
  \/ DemoOn \/ FlipDemoBalance \/ DemoOff

Spec == Init /\ [][Next]_vars
-----------------------------------------------------------------------------
(* Properties.                                                             *)

\* Types of the variables, and that a running process has a stream start
\* exactly when it has a baseline.
TypeOK ==
  /\ today \in Days /\ streamDay \in Days
  /\ up \in BOOLEAN /\ confirm \in BOOLEAN
  /\ gameRunning \in BOOLEAN /\ dirty \in BOOLEAN
  /\ gate \in {"notice", "onboarding", "main"}
  /\ baseline \in Figures \union {None}
  /\ started \in Days \union {None}
  /\ (baseline = None) <=> (started = None)
  /\ overlay \in Overlays
  /\ saved \in Records \union {None}
  /\ last \in [day : Days, loot : Nat, invested : Nat] \union {None}

\* Whenever live figures are on screen, the stream counters and the balance are
\* the growth since the baseline in force: no order of responses, resets,
\* demonstrations, rollovers and restores leaves counters of another baseline.
LiveCountersMatchBaseline ==
  (up /\ ~InDemo /\ baseline # None) =>
    /\ overlay.session = Growth(overlay.loot, baseline.loot)
    /\ overlay.delta = MoneyDelta(overlay, baseline)

\* Before the first response of a day no counter is shown: nothing of
\* yesterday survives the rollover, a restart after midnight, or a saved row
\* that could not be read.
NewDayStartsEmpty ==
  (up /\ ~InDemo /\ baseline = None) =>
    overlay.session = 0 /\ overlay.delta = 0 /\ overlay.daily = None

\* "today since hh:mm" on the Stream page is about today: once the rollover has
\* run, the stream in force was started on the current day, and so was the
\* stream whose daily figures are shown.
StreamStartsToday ==
  (up /\ streamDay = today) =>
    /\ started \in {None, today}
    /\ overlay.daily \in {None, today}

\* If the process died now and came back on the same day, it would show what
\* it shows: unless the last save failed, the saved row restores the overlay,
\* the baseline and the start of the stream.
CrashLosesNothing ==
  (up /\ ~dirty /\ ~InDemo /\ overlay.rows /\ baseline # None) =>
    /\ saved # None
    /\ saved.day = streamDay
    /\ saved.baseline = baseline
    /\ saved.started = started
    /\ Restored(saved) = overlay

\* The overlay presents as live only figures the game has reported.
NoDemoAsLive ==
  (up /\ ~InDemo) => overlay.src # "demo"

\* A stream is counted from totals the game has reported.
BaselineFromGame ==
  baseline # None => baseline.src = "game"

-----------------------------------------------------------------------------
(* The stream session implements the ledger: what the saved row holds for  *)
(* the day in force is the ledger, so a crash and a restart do not show.   *)

LedgerDay == IF up THEN streamDay ELSE today

OfLedgerDay == saved # None /\ saved.day = LedgerDay

LedgerBase == IF OfLedgerDay THEN saved.baseline.loot ELSE None

LedgerTotal == IF OfLedgerDay THEN saved.overlay.loot ELSE None

Ledger == INSTANCE StreamLedger WITH base <- LedgerBase, total <- LedgerTotal

\* Every step is a step of the ledger: its base moves only with the first
\* report of a day or a confirmed reset, never by a restart.
ImplementsLedger == Ledger!Spec
=============================================================================
