------------------------ MODULE StreamSessionProofs -------------------------
(***************************************************************************)
(* Theorems about StreamSession, for every value of its constants.         *)
(***************************************************************************)
EXTENDS StreamSession, TLAPS

-----------------------------------------------------------------------------
(* The arithmetic of the counters.                                         *)

\* A saturating difference is a natural number and never exceeds the total.
LEMMA GrowthType ==
  ASSUME NEW now \in Nat, NEW then \in Nat
  PROVE  Growth(now, then) \in Nat /\ Growth(now, then) <= now
  BY DEF Growth

\* Clamping lands in the range of the balance and changes nothing inside it.
LEMMA ClampType ==
  ASSUME NEW d \in Int
  PROVE  /\ Clamp(d) \in MinDelta .. MaxDelta
         /\ d \in MinDelta .. MaxDelta => Clamp(d) = d
  BY BoundsAssumption DEF Clamp, MinDelta

\* The balance state.rs computes in i128 and narrows to i64 always fits.
LEMMA MoneyDeltaType ==
  ASSUME NEW now, NEW base,
         now.loot \in Nat, now.invested \in Nat,
         base.loot \in Nat, base.invested \in Nat
  PROVE  MoneyDelta(now, base) \in MinDelta .. MaxDelta
<1>1. /\ Growth(now.loot, base.loot) \in Nat
      /\ Growth(now.invested, base.invested) \in Nat
  BY GrowthType
<1>2. Growth(now.loot, base.loot) - Growth(now.invested, base.invested) \in Int
  BY <1>1
<1>3. QED
  BY <1>2, ClampType DEF MoneyDelta

\* The narrowed balance never changes sign: a loss is never shown as a gain.
THEOREM BalanceKeepsItsSign ==
  ASSUME NEW now \in Figures, NEW base \in Figures, MaxDelta > 0
  PROVE  LET gain == Growth(now.loot, base.loot)
             loss == Growth(now.invested, base.invested)
         IN  /\ MoneyDelta(now, base) > 0 <=> gain > loss
             /\ MoneyDelta(now, base) < 0 <=> gain < loss
<1> DEFINE gain == Growth(now.loot, base.loot)
           loss == Growth(now.invested, base.invested)
<1>1. gain \in Nat /\ loss \in Nat
  BY GrowthType DEF Figures
<1>2. MoneyDelta(now, base) = Clamp(gain - loss)
  BY DEF MoneyDelta
<1> HIDE DEF gain, loss
<1>3. /\ Clamp(gain - loss) > 0 <=> gain > loss
      /\ Clamp(gain - loss) < 0 <=> gain < loss
  BY <1>1, BoundsAssumption DEF Clamp, MinDelta
<1>4. QED
  BY <1>2, <1>3 DEF gain, loss

\* Counting from the totals themselves shows zero everywhere.
LEMMA NothingSinceItself ==
  ASSUME NEW o, NEW b, o.loot \in Nat, o.invested \in Nat,
         b.loot = o.loot, b.invested = o.invested
  PROVE  Growth(o.loot, b.loot) = 0 /\ MoneyDelta(o, b) = 0
  BY BoundsAssumption DEF Growth, MoneyDelta, Clamp, MinDelta

\* apply_session_baseline writes the two counters and nothing else.
LEMMA ApplyBaselineType ==
  ASSUME NEW o \in Overlays, NEW b \in Figures
  PROVE  /\ ApplyBaseline(o, b) \in Overlays
         /\ ApplyBaseline(o, b).session = Growth(o.loot, b.loot)
         /\ ApplyBaseline(o, b).delta = MoneyDelta(o, b)
         /\ ApplyBaseline(o, b).loot = o.loot
         /\ ApplyBaseline(o, b).invested = o.invested
         /\ ApplyBaseline(o, b).mode = o.mode
         /\ ApplyBaseline(o, b).src = o.src
         /\ ApplyBaseline(o, b).rows = o.rows
         /\ ApplyBaseline(o, b).daily = o.daily
<1>1. Growth(o.loot, b.loot) \in Nat
  BY GrowthType DEF Overlays, Figures
<1>2. MoneyDelta(o, b) \in MinDelta .. MaxDelta
  BY MoneyDeltaType DEF Overlays, Figures
<1>3. QED
  BY <1>1, <1>2 DEF ApplyBaseline, Overlays

\* A row that was written can be shown again.
LEMMA RestoredType ==
  ASSUME NEW r \in Records
  PROVE  /\ Restored(r) \in Overlays
         /\ Restored(r).mode = "live"
         /\ Restored(r).src = r.overlay.src
         /\ Restored(r).loot = r.overlay.loot
         /\ Restored(r).invested = r.overlay.invested
         /\ Restored(r).rows = r.overlay.rows
         /\ Restored(r).daily = r.overlay.daily
         /\ Restored(r).session = Growth(r.overlay.loot, r.baseline.loot)
         /\ Restored(r).delta = MoneyDelta(r.overlay, r.baseline)
<1>1. r.overlay \in Overlays /\ r.baseline \in Figures
  BY DEF Records
<1> DEFINE o == ApplyBaseline(r.overlay, r.baseline)
<1>2. /\ o \in Overlays
      /\ o.session = Growth(r.overlay.loot, r.baseline.loot)
      /\ o.delta = MoneyDelta(r.overlay, r.baseline)
      /\ o.loot = r.overlay.loot /\ o.invested = r.overlay.invested
      /\ o.src = r.overlay.src /\ o.rows = r.overlay.rows
      /\ o.daily = r.overlay.daily
  BY <1>1, ApplyBaselineType
<1>3. Restored(r) = [o EXCEPT !.mode = "live"]
  BY DEF Restored
<1> HIDE DEF o
<1>4. QED
  BY <1>2, <1>3 DEF Overlays

LEMMA ZeroDelta == 0 \in MinDelta .. MaxDelta
  BY BoundsAssumption DEF MinDelta

LEMMA BlankType == Blank \in Overlays
  BY ZeroDelta DEF Blank, Overlays, Sources
-----------------------------------------------------------------------------
(* Type correctness.                                                       *)

LEMMA NoDay == None \notin Days
  BY NoneAssumption, BoundsAssumption DEF Days

\* A save writes a well-formed row or keeps the one there was.
LEMMA PersistType ==
  ASSUME TypeOK, NEW b \in Figures \union {None}, NEW st \in Days \union {None},
         (b = None) <=> (st = None), NEW o \in Overlays, Persist(b, st, o)
  PROVE  saved' \in Records \union {None} /\ dirty' \in BOOLEAN
<1>1. CASE UNCHANGED saved /\ dirty' \in BOOLEAN
  BY <1>1 DEF TypeOK
<1>2. CASE /\ b # None
           /\ saved' = [day |-> streamDay, started |-> st, baseline |-> b, overlay |-> o]
           /\ dirty' = FALSE
  <2>1. b \in Figures /\ st \in Days
    BY <1>2
  <2>2. QED
    BY <1>2, <2>1 DEF TypeOK, Records
<1>3. QED
  BY <1>1, <1>2 DEF Persist, TypeOK

LEMMA TotalsOfType ==
  ASSUME NEW o \in Overlays
  PROVE  TotalsOf(o) \in Figures /\ TotalsOf(o) # None
  BY NoneAssumption DEF TotalsOf, Overlays, Figures

\* What apply_probe computes from a response.
LEMMA ResponseFigures ==
  ASSUME TypeOK, NEW t \in Totals, NEW daily \in {None, streamDay}
  PROVE  LET figures == [src |-> "game", loot |-> t.loot, invested |-> t.invested]
             base    == IF baseline = None THEN figures ELSE baseline
             fresh   == [mode |-> "live", src |-> "game", loot |-> t.loot,
                         invested |-> t.invested, rows |-> TRUE, session |-> 0,
                         delta |-> 0, daily |-> daily]
         IN  /\ figures \in Figures
             /\ figures # None
             /\ base \in Figures
             /\ base # None
             /\ fresh \in Overlays
<1> DEFINE figures == [src |-> "game", loot |-> t.loot, invested |-> t.invested]
<1>1. t.loot \in Nat /\ t.invested \in Nat
  BY TotalsAssumption
<1>2. figures \in Figures
  BY <1>1 DEF Figures, Sources
<1>3. figures # None
  BY <1>2, NoneAssumption
<1>4. QED
  BY <1>1, <1>2, <1>3, ZeroDelta DEF TypeOK, Overlays, Sources

\* The variables keep their types, and a baseline always has a start.
THEOREM TypeCorrect == Spec => []TypeOK
<1>1. Init => TypeOK
  <2>1. 0 \in Days
    BY BoundsAssumption DEF Days
  <2>2. QED
    BY <2>1, BlankType DEF Init, TypeOK
<1>2. TypeOK /\ [Next]_vars => TypeOK'
  <2> SUFFICES ASSUME TypeOK, [Next]_vars PROVE TypeOK'
    OBVIOUS
  <2>1. CASE StartRestored
    <3>1. saved \in Records
      BY <2>1 DEF StartRestored, SavedToday, TypeOK
    <3>2. /\ saved.baseline \in Figures /\ saved.started \in Days
          /\ saved.baseline # None /\ saved.started # None
      BY <3>1, NoneAssumption, NoDay DEF Records
    <3>3. Restored(saved) \in Overlays
      BY <3>1, RestoredType
    <3>4. QED
      BY <2>1, <3>2, <3>3 DEF StartRestored, TypeOK
  <2>2. CASE StartFresh
    BY <2>2, BlankType DEF StartFresh, TypeOK
  <2>3. CASE Exit
    <3>1. saved' \in Records \union {None} /\ dirty' \in BOOLEAN
      BY <2>3, PersistType DEF Exit, TypeOK
    <3>2. QED
      BY <2>3, <3>1, BlankType DEF Exit, MemoryIsGone, TypeOK
  <2>4. CASE Kill
    BY <2>4, BlankType DEF Kill, MemoryIsGone, TypeOK
  <2>5. CASE Midnight
    BY <2>5, BoundsAssumption DEF Midnight, TypeOK, Days
  <2>6. CASE AdvanceGate
    BY <2>6 DEF AdvanceGate, TypeOK
  <2>7. CASE Rollover
    <3>1. overlay' \in Overlays
      BY <2>7, ZeroDelta DEF Rollover, RolloverTo, TypeOK, Overlays
    <3>2. QED
      BY <2>7, <3>1 DEF Rollover, RolloverTo, TypeOK
  <2>8. ASSUME NEW t \in Totals, NEW daily \in {None, streamDay}, Response(t, daily)
        PROVE TypeOK'
    <3> DEFINE figures == [src |-> "game", loot |-> t.loot, invested |-> t.invested]
               base    == IF baseline = None THEN figures ELSE baseline
               since   == IF baseline = None THEN today ELSE started
               fresh   == [mode |-> "live", src |-> "game", loot |-> t.loot,
                           invested |-> t.invested, rows |-> TRUE, session |-> 0,
                           delta |-> 0, daily |-> daily]
               shown   == ApplyBaseline(fresh, base)
    <3>1. base \in Figures /\ base # None /\ fresh \in Overlays
      BY ResponseFigures
    <3>2. since \in Days /\ since # None
      BY NoDay DEF TypeOK
    <3>3. /\ baseline' = base /\ started' = since /\ overlay' = shown
          /\ Persist(base, since, shown)
          /\ last' = [day |-> streamDay, loot |-> t.loot, invested |-> t.invested]
          /\ UNCHANGED <<today, up, gate, streamDay, confirm, gameRunning>>
      BY <2>8 DEF Response
    <3> HIDE DEF base, since, fresh
    <3>4. shown \in Overlays
      BY <3>1, ApplyBaselineType
    <3> HIDE DEF shown
    <3>5. saved' \in Records \union {None} /\ dirty' \in BOOLEAN
      BY <3>1, <3>2, <3>3, <3>4, PersistType
    <3>6. t.loot \in Nat /\ t.invested \in Nat
      BY TotalsAssumption
    <3>7. QED
      BY <3>1, <3>2, <3>3, <3>4, <3>5, <3>6 DEF TypeOK
  <2>9. CASE GameStarts
    BY <2>9 DEF GameStarts, TypeOK
  <2>10. CASE GameStops
    <3>1. saved' \in Records \union {None} /\ dirty' \in BOOLEAN
      BY <2>10, PersistType DEF GameStops, TypeOK
    <3>2. QED
      BY <2>10, <3>1 DEF GameStops, TypeOK
  <2>11. CASE AskReset
    BY <2>11 DEF AskReset, TypeOK
  <2>12. CASE CancelReset
    BY <2>12 DEF CancelReset, TypeOK
  <2>13. CASE ConfirmReset
    <3>1. ZeroCounters \in Overlays
      BY ZeroDelta DEF ZeroCounters, TypeOK, Overlays
    <3>2. TotalsOf(overlay) \in Figures /\ TotalsOf(overlay) # None
      BY TotalsOfType DEF TypeOK
    <3>3. today # None /\ today \in Days
      BY NoDay DEF TypeOK
    <3>4. saved' \in Records \union {None} /\ dirty' \in BOOLEAN
      BY <2>13, <3>1, <3>2, <3>3, PersistType DEF ConfirmReset
    <3>5. QED
      BY <2>13, <3>1, <3>2, <3>3, <3>4 DEF ConfirmReset, ResetTo, TypeOK
  <2>14. CASE DemoOn
    <3>1. DemoLoss \in MinDelta .. MaxDelta
      BY DemoAssumption, BoundsAssumption DEF MinDelta
    <3>2. overlay' \in Overlays
      BY <2>14, <3>1, DemoAssumption DEF DemoOn, TypeOK, Overlays, Sources
    <3>3. QED
      BY <2>14, <3>2 DEF DemoOn, TypeOK
  <2>15. CASE FlipDemoBalance
    <3>1. DemoLoss \in MinDelta .. MaxDelta /\ DemoGain \in MinDelta .. MaxDelta
      BY DemoAssumption, BoundsAssumption DEF MinDelta
    <3>2. overlay' \in Overlays
      BY <2>15, <3>1 DEF FlipDemoBalance, TypeOK, Overlays
    <3>3. QED
      BY <2>15, <3>2 DEF FlipDemoBalance, TypeOK
  <2>16. CASE DemoOff
    BY <2>16, BlankType DEF DemoOff, TypeOK
  <2>17. CASE UNCHANGED vars
    BY <2>17 DEF vars, TypeOK
  <2>18. QED
    BY <2>1, <2>2, <2>3, <2>4, <2>5, <2>6, <2>7, <2>8, <2>9, <2>10, <2>11, <2>12,
       <2>13, <2>14, <2>15, <2>16, <2>17 DEF Next
<1>3. QED
  BY <1>1, <1>2, PTL DEF Spec
-----------------------------------------------------------------------------
(* The inductive invariant.                                                *)

\* The days a running process and the saved row carry never lie ahead of the
\* clock, a stream never starts before its day, and daily figures are of it.
DaysInOrder ==
  /\ up => /\ streamDay <= today
           /\ started # None => streamDay <= started /\ started <= today
           /\ overlay.daily \in {None, streamDay}
  /\ saved # None => /\ saved.day <= saved.started
                     /\ saved.started <= today
                     /\ saved.overlay.daily \in {None, saved.day}

SessionInv ==
  /\ DaysInOrder
  /\ LiveCountersMatchBaseline
  /\ NewDayStartsEmpty
  /\ CrashLosesNothing

\* Handlers that leave the session and the saved row alone keep the invariant.
LEMMA OthersKeepIt ==
  ASSUME SessionInv, TypeOK,
         UNCHANGED <<up, streamDay, baseline, started, overlay, saved, dirty>>,
         today' \in Days, today' >= today
  PROVE  SessionInv'
<1>1. DaysInOrder'
  <2>1. /\ today \in Days /\ streamDay \in Days
        /\ started # None => started \in Days
        /\ saved # None => saved.day \in Days /\ saved.started \in Days
    BY DEF TypeOK, Records
  <2>2. QED
    BY <2>1, BoundsAssumption DEF SessionInv, DaysInOrder, Days
<1>2. /\ LiveCountersMatchBaseline'
      /\ NewDayStartsEmpty'
      /\ CrashLosesNothing'
  BY DEF SessionInv, LiveCountersMatchBaseline, NewDayStartsEmpty, CrashLosesNothing, InDemo
<1>3. QED
  BY <1>1, <1>2 DEF SessionInv

\* A process that ends leaves only the saved row to speak of.
LEMMA EndKeepsIt ==
  ASSUME SessionInv, TypeOK, MemoryIsGone,
         \/ UNCHANGED <<saved, dirty>>
         \/ up /\ Persist(baseline, started, overlay)
  PROVE  SessionInv'
<1>1. DaysInOrder'
  <2>1. up' = FALSE /\ today' = today /\ streamDay' = streamDay
    BY DEF MemoryIsGone
  <2>2. CASE saved' = saved
    BY <2>1, <2>2 DEF SessionInv, DaysInOrder
  <2>3. CASE /\ up
             /\ baseline # None
             /\ saved' = [day |-> streamDay, started |-> started,
                           baseline |-> baseline, overlay |-> overlay]
    <3>1. started # None
      BY <2>3 DEF TypeOK
    <3>2. QED
      BY <2>1, <2>3, <3>1 DEF SessionInv, DaysInOrder
  <2>4. QED
    BY <2>2, <2>3 DEF Persist
<1>2. QED
  BY <1>1 DEF MemoryIsGone, SessionInv, LiveCountersMatchBaseline, NewDayStartsEmpty,
              CrashLosesNothing

\* What a save of consistent live figures establishes.
LEMMA SavedIsShown ==
  ASSUME NEW b \in Figures, NEW o \in Overlays,
         o.mode = "live",
         o.session = Growth(o.loot, b.loot),
         o.delta = MoneyDelta(o, b),
         NEW d \in Days, NEW st \in Days
  PROVE  Restored([day |-> d, started |-> st, baseline |-> b, overlay |-> o]) = o
<1> DEFINE r == [day |-> d, started |-> st, baseline |-> b, overlay |-> o]
<1>1. r.overlay = o /\ r.baseline = b
  OBVIOUS
<1>2. ApplyBaseline(o, b) = o
  BY DEF ApplyBaseline, Overlays
<1>3. [o EXCEPT !.mode = "live"] = o
  BY DEF Overlays
<1> HIDE DEF r
<1>4. Restored(r) = o
  BY <1>1, <1>2, <1>3 DEF Restored
<1>5. QED
  BY <1>4 DEF r

\* The invariant is inductive: one step per action, one under it per conjunct
\* the action can disturb.
LEMMA SessionStep ==
  ASSUME TypeOK, SessionInv, [Next]_vars
  PROVE  SessionInv'
<1> USE DEF SessionInv
<1>1. CASE StartRestored
  <2>1. /\ saved \in Records /\ saved.day = today
        /\ up' = TRUE /\ streamDay' = today /\ today' = today
        /\ baseline' = saved.baseline /\ started' = saved.started
        /\ overlay' = Restored(saved) /\ saved' = saved
    BY <1>1 DEF StartRestored, SavedToday, TypeOK
  <2>2. DaysInOrder'
    <3>1. saved # None /\ saved.started # None
      BY <2>1, NoneAssumption, NoDay DEF Records
    <3>2. overlay'.daily \in {None, saved.day}
      BY <2>1, <3>1, RestoredType DEF DaysInOrder
    <3>3. saved.day <= saved.started /\ saved.started <= today /\ today <= saved.started
      BY <2>1, <3>1 DEF DaysInOrder
    <3>4. QED
      BY <2>1, <3>1, <3>2, <3>3, BoundsAssumption DEF DaysInOrder, Days, TypeOK
  <2>3. LiveCountersMatchBaseline'
    <3>1. /\ overlay'.loot = saved.overlay.loot
          /\ overlay'.invested = saved.overlay.invested
          /\ overlay'.session = Growth(saved.overlay.loot, saved.baseline.loot)
          /\ overlay'.delta = MoneyDelta(saved.overlay, saved.baseline)
      BY <2>1, RestoredType
    <3>2. QED
      BY <2>1, <3>1 DEF LiveCountersMatchBaseline, MoneyDelta
  <2>4. baseline' # None
    BY <2>1, NoneAssumption DEF Records
  <2>5. QED
    BY <2>1, <2>2, <2>3, <2>4, NoneAssumption DEF NewDayStartsEmpty, CrashLosesNothing
<1>2. CASE StartFresh
  <2>1. DaysInOrder'
    BY <1>2 DEF StartFresh, DaysInOrder, TypeOK, Days, Blank
  <2>2. QED
    BY <1>2, <2>1 DEF StartFresh, LiveCountersMatchBaseline, NewDayStartsEmpty,
                      CrashLosesNothing, Blank
<1>3. CASE Exit
  BY <1>3, EndKeepsIt DEF Exit
<1>4. CASE Kill
  BY <1>4, EndKeepsIt DEF Kill
<1>5. CASE Midnight
  <2>1. today' \in Days /\ today' >= today
    BY <1>5, BoundsAssumption DEF Midnight, TypeOK, Days
  <2>2. QED
    BY <1>5, <2>1, OthersKeepIt DEF Midnight
<1>6. CASE AdvanceGate \/ GameStarts \/ AskReset \/ CancelReset \/ UNCHANGED vars
  <2>1. /\ UNCHANGED <<up, streamDay, baseline, started, overlay, saved, dirty>>
        /\ today' = today
    BY <1>6 DEF AdvanceGate, GameStarts, AskReset, CancelReset, vars
  <2>2. today' \in Days /\ today' >= today
    BY <2>1, BoundsAssumption DEF TypeOK, Days
  <2>3. QED
    BY <2>1, <2>2, OthersKeepIt
<1>7. CASE Rollover
  <2>1. /\ up' = up /\ up /\ today' = today /\ streamDay' = today
        /\ baseline' = None /\ started' = None /\ saved' = saved
        /\ overlay' = [overlay EXCEPT !.session = 0, !.delta = 0, !.daily = None]
    BY <1>7 DEF Rollover, RolloverTo
  <2>2. overlay'.daily = None /\ overlay'.session = 0 /\ overlay'.delta = 0
    BY <2>1 DEF TypeOK, Overlays
  <2>3. DaysInOrder'
    BY <2>1, <2>2 DEF DaysInOrder, TypeOK, Days
  <2>4. QED
    BY <2>1, <2>2, <2>3 DEF LiveCountersMatchBaseline, NewDayStartsEmpty,
                            CrashLosesNothing
<1>8. ASSUME NEW t \in Totals, NEW daily \in {None, streamDay}, Response(t, daily)
      PROVE SessionInv'
  <2> DEFINE figures == [src |-> "game", loot |-> t.loot, invested |-> t.invested]
             base    == IF baseline = None THEN figures ELSE baseline
             since   == IF baseline = None THEN today ELSE started
             fresh   == [mode |-> "live", src |-> "game", loot |-> t.loot,
                         invested |-> t.invested, rows |-> TRUE, session |-> 0,
                         delta |-> 0, daily |-> daily]
             shown   == ApplyBaseline(fresh, base)
  <2>1. base \in Figures /\ base # None /\ fresh \in Overlays
    BY ResponseFigures
  <2>2. /\ up /\ up' = up /\ today' = today /\ streamDay' = streamDay
        /\ baseline' = base /\ started' = since /\ overlay' = shown
        /\ Persist(base, since, shown)
    BY <1>8 DEF Response
  <2>3. since \in Days /\ streamDay <= since /\ since <= today
    BY <2>2, NoneAssumption, BoundsAssumption DEF TypeOK, DaysInOrder, Days
  <2>4. /\ shown \in Overlays /\ shown.mode = "live"
        /\ shown.session = Growth(shown.loot, base.loot)
        /\ shown.delta = MoneyDelta(shown, base)
        /\ shown.daily \in {None, streamDay}
    <3>1. fresh.mode = "live" /\ fresh.daily = daily
      OBVIOUS
    <3> HIDE DEF fresh, base
    <3>2. QED
      BY <2>1, <3>1, ApplyBaselineType DEF MoneyDelta
  <2> HIDE DEF figures, base, since, fresh, shown
  <2>5. \/ saved' = [day |-> streamDay, started |-> since, baseline |-> base,
                     overlay |-> shown]
        \/ saved' = saved /\ dirty'
    BY <2>1, <2>2 DEF Persist
  <2>6. DaysInOrder'
    <3>1. CASE saved' = saved
      BY <2>2, <2>3, <2>4, <3>1 DEF DaysInOrder
    <3>2. CASE saved' = [day |-> streamDay, started |-> since, baseline |-> base,
                         overlay |-> shown]
      BY <2>2, <2>3, <2>4, <3>2 DEF DaysInOrder
    <3>3. QED
      BY <2>5, <3>1, <3>2
  <2>7. LiveCountersMatchBaseline'
    BY <2>2, <2>4 DEF LiveCountersMatchBaseline, MoneyDelta
  <2>8. NewDayStartsEmpty'
    BY <2>1, <2>2 DEF NewDayStartsEmpty
  <2>9. CrashLosesNothing'
    <3>1. CASE dirty'
      BY <3>1 DEF CrashLosesNothing
    <3>2. CASE saved' = [day |-> streamDay, started |-> since, baseline |-> base,
                         overlay |-> shown]
      <4>1. Restored(saved') = shown
        BY <2>1, <2>3, <2>4, <3>2, SavedIsShown DEF TypeOK
      <4>2. saved' # None
        <5>1. saved' \in Records
          BY <2>1, <2>3, <2>4, <3>2 DEF Records, TypeOK
        <5>2. QED
          BY <5>1, NoneAssumption
      <4>3. QED
        BY <2>2, <3>2, <4>1, <4>2 DEF CrashLosesNothing, Restored
    <3>3. QED
      BY <2>5, <3>1, <3>2
  <2>10. QED
    BY <2>6, <2>7, <2>8, <2>9
<1>9. CASE GameStops
  <2>1. /\ up /\ Persist(baseline, started, overlay)
        /\ UNCHANGED <<today, up, streamDay, baseline, started, overlay>>
    BY <1>9 DEF GameStops
  <2>2. \/ saved' = saved /\ (dirty' = dirty \/ dirty')
        \/ /\ baseline # None
           /\ saved' = [day |-> streamDay, started |-> started,
                        baseline |-> baseline, overlay |-> overlay]
    BY <2>1 DEF Persist
  <2>3. LiveCountersMatchBaseline' /\ NewDayStartsEmpty'
    BY <2>1 DEF LiveCountersMatchBaseline, NewDayStartsEmpty, InDemo
  <2>4. CASE saved' = saved /\ (dirty' = dirty \/ dirty')
    BY <2>1, <2>3, <2>4 DEF DaysInOrder, CrashLosesNothing, InDemo
  <2>5. CASE /\ baseline # None
             /\ saved' = [day |-> streamDay, started |-> started,
                          baseline |-> baseline, overlay |-> overlay]
    <3>1. baseline \in Figures /\ started \in Days /\ started # None
      BY <2>5 DEF TypeOK
    <3>2. DaysInOrder'
      BY <2>1, <2>5, <3>1 DEF DaysInOrder
    <3>3. ASSUME ~InDemo PROVE Restored(saved') = overlay
      <4>1. overlay \in Overlays /\ overlay.mode = "live" /\ streamDay \in Days
        BY <3>3 DEF InDemo, TypeOK, Overlays
      <4>2. /\ overlay.session = Growth(overlay.loot, baseline.loot)
            /\ overlay.delta = MoneyDelta(overlay, baseline)
        BY <2>1, <2>5, <3>3 DEF LiveCountersMatchBaseline
      <4>3. QED
        BY <2>5, <3>1, <4>1, <4>2, SavedIsShown
    <3>4. saved' # None
      <4>1. saved' \in Records
        BY <2>5, <3>1 DEF Records, TypeOK
      <4>2. QED
        BY <4>1, NoneAssumption
    <3>5. CrashLosesNothing'
      BY <2>1, <2>5, <3>3, <3>4 DEF CrashLosesNothing, InDemo, Restored
    <3>6. QED
      BY <2>3, <3>2, <3>5
  <2>6. QED
    BY <2>2, <2>4, <2>5
<1>10. CASE ConfirmReset
  <2> DEFINE b == TotalsOf(overlay)
             o == ZeroCounters
  <2>1. /\ up /\ up' = up /\ today' = today /\ streamDay' = streamDay
        /\ baseline' = b /\ started' = today /\ overlay' = o
        /\ Persist(b, today, o)
    BY <1>10 DEF ConfirmReset, ResetTo, InMain
  <2>2. b \in Figures /\ b # None /\ b.loot = overlay.loot /\ b.invested = overlay.invested
    BY TotalsOfType DEF TypeOK, TotalsOf
  <2>3. /\ o \in Overlays /\ o.mode = "live" /\ o.session = 0 /\ o.delta = 0
        /\ o.loot = overlay.loot /\ o.invested = overlay.invested
        /\ o.daily = overlay.daily
    BY ZeroDelta DEF ZeroCounters, TypeOK, Overlays
  <2>4. o.session = Growth(o.loot, b.loot) /\ o.delta = MoneyDelta(o, b)
    BY <2>2, <2>3, NothingSinceItself DEF Overlays
  <2>5. today \in Days /\ streamDay \in Days
    BY DEF TypeOK
  <2> HIDE DEF b, o
  <2>6. \/ saved' = [day |-> streamDay, started |-> today, baseline |-> b, overlay |-> o]
        \/ saved' = saved /\ dirty'
    BY <2>1, <2>2 DEF Persist
  <2>7. streamDay <= today /\ today <= today
    BY <2>1, <2>5 DEF DaysInOrder, Days
  <2>8. DaysInOrder'
    <3>1. o.daily \in {None, streamDay}
      BY <2>1, <2>3 DEF DaysInOrder
    <3>2. QED
      BY <2>1, <2>6, <2>7, <3>1 DEF DaysInOrder
  <2>9. LiveCountersMatchBaseline' /\ NewDayStartsEmpty'
    BY <2>1, <2>2, <2>4 DEF LiveCountersMatchBaseline, NewDayStartsEmpty
  <2>10. CrashLosesNothing'
    <3>1. CASE dirty'
      BY <3>1 DEF CrashLosesNothing
    <3>2. CASE saved' = [day |-> streamDay, started |-> today, baseline |-> b,
                         overlay |-> o]
      <4>1. Restored(saved') = o
        BY <2>2, <2>3, <2>4, <2>5, <3>2, SavedIsShown
      <4>2. saved' \in Records
        BY <2>2, <2>3, <2>5, <3>2 DEF Records
      <4>3. saved' # None
        BY <4>2, NoneAssumption
      <4>4. QED
        BY <2>1, <3>2, <4>1, <4>3 DEF CrashLosesNothing, Restored
    <3>3. QED
      BY <2>6, <3>1, <3>2
  <2>11. QED
    BY <2>8, <2>9, <2>10
<1>11. CASE DemoOn \/ FlipDemoBalance
  <2>1. /\ UNCHANGED <<today, up, streamDay, baseline, started, saved, dirty>>
        /\ overlay'.mode = "demo"
        /\ overlay'.daily \in {overlay.daily, streamDay}
    BY <1>11 DEF DemoOn, FlipDemoBalance, InDemo, TypeOK, Overlays
  <2>2. QED
    BY <2>1 DEF DaysInOrder, LiveCountersMatchBaseline, NewDayStartsEmpty,
                CrashLosesNothing, InDemo
<1>12. CASE DemoOff
  <2>1. /\ UNCHANGED <<today, up, streamDay, baseline, started, saved, dirty>>
        /\ overlay' = Blank
    BY <1>12 DEF DemoOff
  <2>2. /\ Blank.daily = None /\ Blank.session = 0 /\ Blank.delta = 0
        /\ Blank.rows = FALSE /\ Blank.loot = 0 /\ Blank.invested = 0
    BY DEF Blank
  <2>3. ASSUME baseline # None
        PROVE  Growth(0, baseline.loot) = 0 /\ MoneyDelta(Blank, baseline) = 0
    <3>1. baseline.loot \in Nat /\ baseline.invested \in Nat
      BY <2>3 DEF TypeOK, Figures
    <3>2. QED
      BY <2>2, <3>1, BoundsAssumption DEF Growth, MoneyDelta, Clamp, MinDelta
  <2>4. LiveCountersMatchBaseline'
    BY <2>1, <2>2, <2>3 DEF LiveCountersMatchBaseline
  <2>5. QED
    BY <2>1, <2>2, <2>4 DEF DaysInOrder, NewDayStartsEmpty, CrashLosesNothing
<1>13. QED
  BY <1>1, <1>2, <1>3, <1>4, <1>5, <1>6, <1>7, <1>8, <1>9, <1>10, <1>11, <1>12 DEF Next

\* The invariant holds throughout, with any failures and any demonstration.
THEOREM SessionInvariant == Spec => []SessionInv
<1>1. Init => SessionInv
  BY NoneAssumption DEF Init, SessionInv, DaysInOrder, LiveCountersMatchBaseline,
     NewDayStartsEmpty, CrashLosesNothing
<1>2. TypeOK /\ SessionInv /\ [Next]_vars => SessionInv'
  BY SessionStep
<1>3. QED
  BY <1>1, <1>2, TypeCorrect, PTL DEF Spec

\* Live counters are the growth since the baseline in force (state.rs:141-163).
THEOREM CountersAreGrowth == Spec => []LiveCountersMatchBaseline
  BY SessionInvariant, PTL DEF SessionInv

\* No counter of an earlier day is shown before the first response of a day
\* (ui.rs:209-249).
THEOREM FreshDay == Spec => []NewDayStartsEmpty
  BY SessionInvariant, PTL DEF SessionInv

\* A crash at any point is undone by the restart (ui.rs:75-112, 188-207).
THEOREM Durability == Spec => []CrashLosesNothing
  BY SessionInvariant, PTL DEF SessionInv

\* The start of the stream on screen is a moment of today (ui.rs:211-217).
THEOREM StartedToday == Spec => []StreamStartsToday
<1>1. TypeOK /\ SessionInv => StreamStartsToday
  <2> SUFFICES ASSUME TypeOK, SessionInv, up, streamDay = today
               PROVE  started \in {None, today} /\ overlay.daily \in {None, today}
    BY DEF StreamStartsToday
  <2>1. started # None => started \in Days /\ today <= started /\ started <= today
    BY DEF SessionInv, DaysInOrder, TypeOK
  <2>2. QED
    BY <2>1, BoundsAssumption DEF SessionInv, DaysInOrder, TypeOK, Days
<1>2. QED
  BY <1>1, SessionInvariant, TypeCorrect, PTL
-----------------------------------------------------------------------------
(* Where the figures come from, when nothing happens during a demonstration *)
(* but its end by a response or with the process.                          *)

\* Totals the game has reported, wherever a stream keeps them.
IdleWhenDown == ~up => baseline = None /\ ~confirm

GameFiguresOnly ==
  /\ IdleWhenDown
  /\ baseline # None => baseline.src = "game"
  /\ up /\ ~InDemo => overlay.src # "demo" /\ (overlay.rows => overlay.src = "game")
  /\ up /\ confirm /\ ~InDemo => overlay.src = "game"
  /\ saved # None => /\ saved.baseline.src = "game"
                     /\ saved.overlay.src # "demo"
                     /\ saved.overlay.rows => saved.overlay.src = "game"

LEMMA GameFiguresStep ==
  ASSUME DuringDemo = {}, TypeOK, GameFiguresOnly, [Next]_vars
  PROVE  GameFiguresOnly'
<1> USE DEF GameFiguresOnly, IdleWhenDown
<1>1. CASE StartRestored
  <2>1. /\ saved \in Records /\ saved # None /\ saved' = saved /\ confirm' = confirm
        /\ baseline' = saved.baseline /\ overlay' = Restored(saved)
    BY <1>1 DEF StartRestored, SavedToday, TypeOK
  <2>2. /\ overlay'.src = saved.overlay.src /\ overlay'.rows = saved.overlay.rows
    BY <2>1, RestoredType
  <2>3. QED
    BY <1>1, <2>1, <2>2 DEF StartRestored
<1>2. CASE StartFresh
  BY <1>2 DEF StartFresh, Blank
<1>3. CASE Exit
  <2>1. CASE UNCHANGED saved
    BY <1>3, <2>1 DEF Exit, MemoryIsGone, Blank
  <2>2. CASE /\ ~InDemo /\ baseline # None /\ up
             /\ saved' = [day |-> streamDay, started |-> started,
                          baseline |-> baseline, overlay |-> overlay]
    BY <1>3, <2>2 DEF Exit, MemoryIsGone, Blank
  <2>3. QED
    BY <1>3, <2>1, <2>2 DEF Exit, Persist
<1>4. CASE Kill
  BY <1>4 DEF Kill, MemoryIsGone, Blank
<1>5. CASE Midnight \/ AdvanceGate \/ GameStarts \/ CancelReset \/ UNCHANGED vars
  BY <1>5 DEF Midnight, AdvanceGate, GameStarts, CancelReset, vars, InDemo
<1>6. CASE Rollover
  <2>1. /\ overlay'.src = overlay.src /\ overlay'.rows = overlay.rows
        /\ overlay'.mode = overlay.mode
    BY <1>6 DEF Rollover, RolloverTo, TypeOK, Overlays
  <2>2. QED
    BY <1>6, <2>1 DEF Rollover, RolloverTo, InDemo
<1>7. ASSUME NEW t \in Totals, NEW daily \in {None, streamDay}, Response(t, daily)
      PROVE GameFiguresOnly'
  <2> DEFINE figures == [src |-> "game", loot |-> t.loot, invested |-> t.invested]
             base    == IF baseline = None THEN figures ELSE baseline
             since   == IF baseline = None THEN today ELSE started
             fresh   == [mode |-> "live", src |-> "game", loot |-> t.loot,
                         invested |-> t.invested, rows |-> TRUE, session |-> 0,
                         delta |-> 0, daily |-> daily]
             shown   == ApplyBaseline(fresh, base)
  <2>1. base \in Figures /\ base # None /\ fresh \in Overlays
    BY ResponseFigures
  <2>2. base.src = "game"
    OBVIOUS
  <2>3. fresh.src = "game"
    OBVIOUS
  <2>4. /\ up /\ up' = up
        /\ baseline' = base /\ overlay' = shown /\ Persist(base, since, shown)
    BY <1>7 DEF Response
  <2> HIDE DEF figures, base, since, fresh
  <2>5. shown.src = "game"
    BY <2>1, <2>3, ApplyBaselineType
  <2> HIDE DEF shown
  <2>6. \/ saved' = [day |-> streamDay, started |-> since, baseline |-> base,
                     overlay |-> shown]
        \/ saved' = saved
    BY <2>4 DEF Persist
  <2>7. QED
    BY <2>2, <2>4, <2>5, <2>6
<1>8. CASE GameStops
  <2>1. ~InDemo /\ up
    BY <1>8 DEF GameStops, Admitted
  <2>2. \/ saved' = saved
        \/ /\ baseline # None
           /\ saved' = [day |-> streamDay, started |-> started,
                        baseline |-> baseline, overlay |-> overlay]
    BY <1>8 DEF GameStops, Persist
  <2>3. QED
    BY <1>8, <2>1, <2>2 DEF GameStops, InDemo
<1>9. CASE AskReset
  BY <1>9 DEF AskReset, InMain, InDemo
<1>10. CASE ConfirmReset
  <2>1. up /\ ~InDemo /\ confirm
    BY <1>10 DEF ConfirmReset, ResetTo, InMain, Admitted
  <2>2. overlay.src = "game" /\ TotalsOf(overlay).src = "game"
    BY <2>1 DEF TotalsOf
  <2>3. ZeroCounters.src = "game"
    BY <2>2 DEF ZeroCounters, TypeOK, Overlays
  <2>4. /\ baseline' = TotalsOf(overlay) /\ overlay' = ZeroCounters /\ ~confirm'
        /\ up' = up
        /\ Persist(TotalsOf(overlay), today, ZeroCounters)
    BY <1>10 DEF ConfirmReset, ResetTo
  <2>5. \/ saved' = [day |-> streamDay, started |-> today,
                     baseline |-> TotalsOf(overlay), overlay |-> ZeroCounters]
        \/ saved' = saved
    BY <2>4 DEF Persist
  <2>6. QED
    BY <2>1, <2>2, <2>3, <2>4, <2>5
<1>11. CASE DemoOn \/ FlipDemoBalance
  <2>1. up /\ overlay'.mode = "demo" /\ UNCHANGED <<up, baseline, saved>>
    BY <1>11 DEF DemoOn, FlipDemoBalance, InMain, InDemo, TypeOK, Overlays
  <2>2. QED
    BY <2>1 DEF InDemo
<1>12. CASE DemoOff
  BY <1>12 DEF DemoOff, Admitted
<1>13. QED
  BY <1>1, <1>2, <1>3, <1>4, <1>5, <1>6, <1>7, <1>8, <1>9, <1>10, <1>11, <1>12 DEF Next

\* With an undisturbed demonstration, live figures and baselines are the game's.
THEOREM DemoStaysDemo ==
  ASSUME DuringDemo = {}
  PROVE  Spec => [](NoDemoAsLive /\ BaselineFromGame)
<1>1. Init => GameFiguresOnly
  BY DEF Init, GameFiguresOnly, IdleWhenDown
<1>2. TypeOK /\ GameFiguresOnly /\ [Next]_vars => GameFiguresOnly'
  BY GameFiguresStep
<1>3. GameFiguresOnly => NoDemoAsLive /\ BaselineFromGame
  BY DEF GameFiguresOnly, NoDemoAsLive, BaselineFromGame
<1>4. QED
  BY <1>1, <1>2, <1>3, TypeCorrect, PTL DEF Spec
-----------------------------------------------------------------------------
(* Refinement of the ledger, when storage works as well.                   *)

\* The saved row never lags behind the process.
RowIsCurrent ==
  /\ ~dirty
  /\ ~up => baseline = None /\ ~confirm
  /\ streamDay <= today
  /\ saved # None => saved.day <= LedgerDay /\ saved.overlay.rows
  /\ up /\ baseline = None => ~OfLedgerDay
  /\ up /\ baseline # None => OfLedgerDay /\ saved.baseline = baseline
  /\ confirm => overlay.rows
  /\ up /\ ~InDemo /\ baseline # None => overlay.rows

LEMMA DayOrder ==
  ASSUME NEW a \in Days, NEW b \in Days
  PROVE  a \in Nat /\ b \in Nat /\ (a <= b \/ b <= a) /\ (a <= b /\ b <= a => a = b)
  BY BoundsAssumption DEF Days

\* A save that cannot fail, once there is a baseline.
LEMMA SureSave ==
  ASSUME StorageMayFail = FALSE, NEW b, b # None, NEW st, NEW o, Persist(b, st, o)
  PROVE  /\ saved' = [day |-> streamDay, started |-> st, baseline |-> b, overlay |-> o]
         /\ dirty' = FALSE
  BY DEF Persist

\* A row that is built is not the absent row.
LEMMA RowIsThere ==
  ASSUME NEW d \in Days, NEW st \in Days, NEW b \in Figures, NEW o \in Overlays
  PROVE  [day |-> d, started |-> st, baseline |-> b, overlay |-> o] # None
<1>1. [day |-> d, started |-> st, baseline |-> b, overlay |-> o] \in Records
  BY DEF Records
<1>2. QED
  BY <1>1, NoneAssumption

LEMMA RowIsCurrentStep ==
  ASSUME DuringDemo = {}, StorageMayFail = FALSE,
         TypeOK, TypeOK', RowIsCurrent, [Next]_vars
  PROVE  RowIsCurrent'
<1> USE DEF RowIsCurrent, OfLedgerDay, LedgerDay
<1>1. CASE StartRestored
  <2>1. /\ saved \in Records /\ saved # None /\ saved.day = today /\ ~up /\ up'
        /\ UNCHANGED <<today, saved, dirty, confirm>>
        /\ streamDay' = today /\ baseline' = saved.baseline
        /\ overlay' = Restored(saved)
    BY <1>1 DEF StartRestored, SavedToday, TypeOK
  <2>2. overlay'.rows = saved.overlay.rows
    BY <2>1, RestoredType
  <2>3. baseline' # None
    BY <2>1, NoneAssumption DEF Records
  <2>4. today <= today
    BY DayOrder DEF TypeOK
  <2>5. QED
    BY <2>1, <2>2, <2>3, <2>4
<1>2. CASE StartFresh
  <2>1. today <= today
    BY DayOrder DEF TypeOK
  <2>2. QED
    BY <1>2, <2>1 DEF StartFresh, SavedToday
<1>3. CASE Exit
  <2>1. CASE UNCHANGED <<saved, dirty>>
    BY <1>3, <2>1, DayOrder DEF Exit, MemoryIsGone, TypeOK, Records, Days
  <2>2. CASE /\ ~InDemo /\ baseline # None /\ up /\ dirty' = FALSE
             /\ saved' = [day |-> streamDay, started |-> started,
                          baseline |-> baseline, overlay |-> overlay]
    BY <1>3, <2>2 DEF Exit, MemoryIsGone
  <2>3. QED
    BY <1>3, <2>1, <2>2 DEF Exit, Persist
<1>4. CASE Kill
  BY <1>4, DayOrder DEF Kill, MemoryIsGone, TypeOK, Records, Days
<1>5. CASE Midnight
  <2>1. streamDay <= today' /\ (saved # None /\ saved.day <= streamDay => saved.day <= today')
    BY <1>5, BoundsAssumption DEF Midnight, TypeOK, Records, Days
  <2>2. ~up /\ saved # None => saved.day <= today'
    BY <1>5, BoundsAssumption DEF Midnight, TypeOK, Records, Days
  <2>3. QED
    BY <1>5, <2>1, <2>2 DEF Midnight, InDemo
<1>6. CASE AdvanceGate \/ GameStarts \/ CancelReset \/ UNCHANGED vars
  BY <1>6 DEF AdvanceGate, GameStarts, CancelReset, vars, InDemo
<1>7. CASE Rollover
  <2>1. /\ up /\ up' /\ streamDay' = today /\ today' = today /\ today # streamDay
        /\ baseline' = None /\ UNCHANGED <<saved, dirty, confirm>>
        /\ overlay'.rows = overlay.rows
    BY <1>7 DEF Rollover, RolloverTo, TypeOK, Overlays
  <2>2. saved # None => saved.day <= today /\ saved.day # today
    BY <2>1, BoundsAssumption DEF TypeOK, Records, Days
  <2>3. today <= today
    BY DayOrder DEF TypeOK
  <2>4. QED
    BY <2>1, <2>2, <2>3
<1>8. ASSUME NEW t \in Totals, NEW daily \in {None, streamDay}, Response(t, daily)
      PROVE RowIsCurrent'
  <2> DEFINE figures == [src |-> "game", loot |-> t.loot, invested |-> t.invested]
             base    == IF baseline = None THEN figures ELSE baseline
             since   == IF baseline = None THEN today ELSE started
             fresh   == [mode |-> "live", src |-> "game", loot |-> t.loot,
                         invested |-> t.invested, rows |-> TRUE, session |-> 0,
                         delta |-> 0, daily |-> daily]
             shown   == ApplyBaseline(fresh, base)
  <2>1. base \in Figures /\ base # None /\ fresh \in Overlays
    BY ResponseFigures
  <2>2. fresh.rows /\ since \in Days /\ streamDay \in Days
    BY DEF TypeOK
  <2>3. /\ up /\ up' = up /\ UNCHANGED <<today, streamDay, confirm>>
        /\ baseline' = base /\ overlay' = shown /\ Persist(base, since, shown)
    BY <1>8 DEF Response
  <2> HIDE DEF figures, base, since, fresh
  <2>4. shown.rows /\ shown \in Overlays
    BY <2>1, <2>2, ApplyBaselineType
  <2> HIDE DEF shown
  <2>5. /\ saved' = [day |-> streamDay, started |-> since, baseline |-> base,
                     overlay |-> shown]
        /\ dirty' = FALSE
    BY <2>1, <2>3, SureSave
  <2>6. saved' # None
    BY <2>1, <2>2, <2>4, <2>5, RowIsThere
  <2>7. streamDay <= streamDay
    BY DayOrder DEF TypeOK
  <2>8. QED
    BY <2>1, <2>3, <2>4, <2>5, <2>6, <2>7
<1>9. CASE GameStops
  <2>1. ~InDemo /\ up /\ Persist(baseline, started, overlay)
        /\ UNCHANGED <<today, up, streamDay, baseline, overlay, confirm>>
    BY <1>9 DEF GameStops, Admitted
  <2>2. CASE baseline = None
    BY <2>1, <2>2 DEF Persist, InDemo
  <2>3. CASE baseline # None
    <3>1. /\ saved' = [day |-> streamDay, started |-> started, baseline |-> baseline,
                       overlay |-> overlay]
          /\ dirty' = FALSE
      BY <2>1, <2>3, SureSave
    <3>2. saved' # None
      <4>1. /\ streamDay \in Days /\ started \in Days /\ baseline \in Figures
            /\ overlay \in Overlays
        BY <2>3 DEF TypeOK
      <4>2. QED
        BY <3>1, <4>1, RowIsThere
    <3>3. streamDay <= streamDay
      BY DayOrder DEF TypeOK
    <3>4. QED
      BY <2>1, <2>3, <3>1, <3>2, <3>3 DEF InDemo
  <2>4. QED
    BY <2>2, <2>3
<1>10. CASE AskReset
  BY <1>10 DEF AskReset, InMain, InDemo
<1>11. CASE ConfirmReset
  <2>1. /\ up /\ up' = up /\ confirm /\ ~confirm' /\ UNCHANGED <<today, streamDay>>
        /\ baseline' = TotalsOf(overlay) /\ overlay' = ZeroCounters
        /\ Persist(TotalsOf(overlay), today, ZeroCounters)
    BY <1>11 DEF ConfirmReset, ResetTo, InMain
  <2>2. TotalsOf(overlay) # None
    BY TotalsOfType DEF TypeOK
  <2>3. ZeroCounters.rows
    BY <2>1 DEF ZeroCounters, TypeOK, Overlays
  <2>4. /\ saved' = [day |-> streamDay, started |-> today,
                     baseline |-> TotalsOf(overlay), overlay |-> ZeroCounters]
        /\ dirty' = FALSE
    BY <2>1, <2>2, SureSave
  <2>5. saved' # None
    BY <2>1, <2>2, <2>4, RowIsThere, TotalsOfType DEF TypeOK
  <2>6. streamDay <= streamDay
    BY DayOrder DEF TypeOK
  <2>7. QED
    BY <2>1, <2>2, <2>3, <2>4, <2>5, <2>6
<1>12. CASE DemoOn \/ FlipDemoBalance
  <2>1. /\ up /\ overlay'.mode = "demo" /\ overlay'.rows = overlay.rows
        /\ UNCHANGED <<today, up, streamDay, baseline, saved, dirty, confirm>>
    BY <1>12 DEF DemoOn, FlipDemoBalance, InMain, InDemo, TypeOK, Overlays
  <2>2. QED
    BY <2>1 DEF InDemo
<1>13. CASE DemoOff
  BY <1>13 DEF DemoOff, Admitted
<1>14. QED
  BY <1>1, <1>2, <1>3, <1>4, <1>5, <1>6, <1>7, <1>8, <1>9, <1>10, <1>11, <1>12, <1>13
     DEF Next

\* With storage that works and an undisturbed demonstration, the row of the
\* stream is up to date at every moment a process may end.
THEOREM RowStaysCurrent ==
  ASSUME DuringDemo = {}, StorageMayFail = FALSE
  PROVE  Spec => []RowIsCurrent
<1>1. Init => RowIsCurrent
  BY BoundsAssumption DEF Init, RowIsCurrent, OfLedgerDay, LedgerDay
<1>2. TypeOK /\ TypeOK' /\ RowIsCurrent /\ [Next]_vars => RowIsCurrent'
  BY RowIsCurrentStep
<1>3. QED
  BY <1>1, <1>2, TypeCorrect, PTL DEF Spec

\* A saved figure of the ledger's day is a number, and no day has none.
LEMMA LedgerFigures ==
  ASSUME NEW r \in Records
  PROVE  /\ r.baseline.loot \in Nat /\ r.baseline.loot # None
         /\ r.overlay.loot \in Nat /\ r.overlay.loot # None
  BY NoneAssumption DEF Records, Figures, Overlays

\* Each step is a report, a restart, the end of the day, or not visible.
LEMMA LedgerStep ==
  ASSUME DuringDemo = {}, StorageMayFail = FALSE,
         TypeOK, TypeOK', RowIsCurrent, RowIsCurrent', CrashLosesNothing,
         [Next]_vars
  PROVE  [Ledger!Next]_<<LedgerBase, LedgerTotal>>
<1> DEFINE Same == UNCHANGED <<LedgerBase, LedgerTotal>>
<1>1. ASSUME saved' = saved, LedgerDay' = LedgerDay
      PROVE  Same
  BY <1>1 DEF LedgerBase, LedgerTotal, OfLedgerDay
<1>2. ASSUME ~OfLedgerDay'
      PROVE  Ledger!NewDay
  BY <1>2 DEF Ledger!NewDay, LedgerBase, LedgerTotal
<1>3. CASE \/ AdvanceGate \/ GameStarts \/ AskReset \/ CancelReset
           \/ DemoOn \/ FlipDemoBalance \/ DemoOff \/ UNCHANGED vars
  <2>1. saved' = saved /\ LedgerDay' = LedgerDay
    BY <1>3 DEF AdvanceGate, GameStarts, AskReset, CancelReset, DemoOn,
                FlipDemoBalance, DemoOff, vars, LedgerDay
  <2>2. QED
    BY <1>1, <2>1
<1>4. CASE StartRestored \/ StartFresh
  BY <1>1, <1>4 DEF StartRestored, StartFresh, LedgerDay
<1>5. CASE Midnight
  <2>1. CASE up
    BY <1>1, <1>5, <2>1 DEF Midnight, LedgerDay
  <2>2. CASE ~up
    <3>1. saved # None => saved.day <= today /\ saved.day \in Days
      BY <2>2 DEF RowIsCurrent, LedgerDay, TypeOK, Records
    <3>2. saved # None => saved.day # today'
      BY <1>5, <3>1, BoundsAssumption DEF Midnight, TypeOK, Days
    <3>3. QED
      BY <1>2, <1>5, <2>2, <3>2 DEF Midnight, OfLedgerDay, LedgerDay, Ledger!Next
  <2>3. QED
    BY <2>1, <2>2
<1>6. CASE Rollover
  <2>1. ~OfLedgerDay'
    BY <1>6 DEF Rollover, RolloverTo, RowIsCurrent
  <2>2. QED
    BY <1>2, <2>1 DEF Ledger!Next
<1>7. ASSUME Exit \/ Kill, streamDay # today
      PROVE  ~OfLedgerDay'
  <2>1. /\ up /\ ~up' /\ today' = today
        /\ saved' # None => saved'.day = streamDay \/ saved' = saved
    BY <1>7 DEF Exit, Kill, MemoryIsGone, Persist
  <2>2. saved # None => saved.day <= streamDay /\ streamDay <= today /\ saved.day \in Days
    BY <2>1 DEF RowIsCurrent, LedgerDay, TypeOK, Records
  <2>3. saved # None => saved.day # today
    BY <1>7, <2>2, BoundsAssumption DEF TypeOK, Days
  <2>4. QED
    BY <1>7, <2>1, <2>3 DEF OfLedgerDay, LedgerDay
<1>8. ASSUME Persist(baseline, started, overlay), up, ~InDemo,
             LedgerDay' = streamDay, saved' # saved
      PROVE  Same
  <2>1. /\ saved # None /\ saved.day = streamDay /\ saved.baseline = baseline
        /\ overlay.rows
        /\ saved' = [day |-> streamDay, started |-> started, baseline |-> baseline,
                      overlay |-> overlay]
    BY <1>8 DEF Persist, RowIsCurrent, OfLedgerDay, LedgerDay
  <2>2. saved' # None
    <3>1. /\ streamDay \in Days /\ started \in Days /\ baseline \in Figures
          /\ overlay \in Overlays
      BY <1>8 DEF TypeOK, Persist
    <3>2. QED
      BY <2>1, <3>1, RowIsThere
  <2>3. saved \in Records /\ Restored(saved) = overlay
    BY <1>8, <2>1 DEF CrashLosesNothing, RowIsCurrent, TypeOK, Persist
  <2>4. saved'.overlay.loot = saved.overlay.loot
    BY <2>1, <2>3, RestoredType
  <2>5. saved'.baseline.loot = saved.baseline.loot /\ OfLedgerDay /\ OfLedgerDay'
    BY <1>8, <2>1, <2>2 DEF OfLedgerDay, LedgerDay
  <2>6. QED
    BY <2>4, <2>5 DEF LedgerBase, LedgerTotal
<1>9. CASE Exit \/ Kill
  <2>1. CASE streamDay # today
    BY <1>2, <1>7, <1>9, <2>1 DEF Ledger!Next
  <2>2. CASE streamDay = today
    <3>1. up /\ LedgerDay = streamDay /\ LedgerDay' = streamDay
      BY <1>9, <2>2 DEF Exit, Kill, MemoryIsGone, LedgerDay
    <3>2. CASE saved' = saved
      BY <1>1, <3>1, <3>2
    <3>3. CASE saved' # saved
      BY <1>8, <1>9, <3>1, <3>3 DEF Exit, Kill
    <3>4. QED
      BY <3>2, <3>3
  <2>3. QED
    BY <2>1, <2>2
<1>10. CASE GameStops
  <2>1. /\ up /\ ~InDemo /\ LedgerDay = streamDay /\ LedgerDay' = streamDay
        /\ Persist(baseline, started, overlay)
    BY <1>10 DEF GameStops, Admitted, LedgerDay
  <2>2. CASE saved' = saved
    BY <1>1, <2>1, <2>2
  <2>3. CASE saved' # saved
    BY <1>8, <2>1, <2>3
  <2>4. QED
    BY <2>2, <2>3
<1>11. ASSUME NEW t \in Totals, NEW daily \in {None, streamDay}, Response(t, daily)
       PROVE  Ledger!Report
  <2> DEFINE figures == [src |-> "game", loot |-> t.loot, invested |-> t.invested]
             base    == IF baseline = None THEN figures ELSE baseline
             since   == IF baseline = None THEN today ELSE started
             fresh   == [mode |-> "live", src |-> "game", loot |-> t.loot,
                         invested |-> t.invested, rows |-> TRUE, session |-> 0,
                         delta |-> 0, daily |-> daily]
             shown   == ApplyBaseline(fresh, base)
  <2>1. base \in Figures /\ base # None /\ fresh \in Overlays
    BY ResponseFigures
  <2>2. /\ fresh.loot = t.loot /\ t.loot \in Nat
        /\ baseline = None => base.loot = t.loot
        /\ baseline # None => base = baseline
    BY TotalsAssumption
  <2>3. /\ up /\ LedgerDay = streamDay /\ LedgerDay' = streamDay
        /\ baseline' = base /\ base # None /\ Persist(base, since, shown) /\ up'
    BY <1>11, <2>1 DEF Response, LedgerDay
  <2> HIDE DEF figures, base, since, fresh
  <2>4. shown.loot = t.loot
    BY <2>1, <2>2, ApplyBaselineType
  <2> HIDE DEF shown
  <2>5. saved' = [day |-> streamDay, started |-> since, baseline |-> base,
                  overlay |-> shown]
    BY <2>3, SureSave
  <2>6. LedgerTotal' = t.loot /\ LedgerBase' = base.loot
    <3>1. OfLedgerDay'
      BY <2>3 DEF RowIsCurrent
    <3>2. saved'.overlay.loot = t.loot /\ saved'.baseline.loot = base.loot
      BY <2>4, <2>5
    <3>3. QED
      BY <3>1, <3>2 DEF LedgerTotal, LedgerBase
  <2>7. CASE baseline = None
    <3>1. LedgerBase = None
      BY <2>3, <2>7 DEF RowIsCurrent, LedgerBase
    <3>2. QED
      BY <2>2, <2>6, <2>7, <3>1 DEF Ledger!Report
  <2>8. CASE baseline # None
    <3>1. OfLedgerDay /\ saved.baseline = baseline /\ saved \in Records
      BY <2>3, <2>8 DEF RowIsCurrent, OfLedgerDay, TypeOK
    <3>2. LedgerBase = baseline.loot /\ LedgerBase # None
      BY <3>1, LedgerFigures DEF LedgerBase
    <3>3. QED
      BY <2>2, <2>6, <2>8, <3>2 DEF Ledger!Report
  <2>9. QED
    BY <2>7, <2>8
<1>12. CASE ConfirmReset
  <2>1. /\ up /\ up' = up /\ confirm /\ ~InDemo /\ streamDay' = streamDay
        /\ baseline' = TotalsOf(overlay)
        /\ Persist(TotalsOf(overlay), today, ZeroCounters)
    BY <1>12 DEF ConfirmReset, ResetTo, InMain, Admitted
  <2>2. /\ TotalsOf(overlay) # None /\ TotalsOf(overlay).loot = overlay.loot
        /\ overlay.loot \in Nat /\ overlay.rows
    BY <2>1, TotalsOfType DEF TypeOK, TotalsOf, Overlays, RowIsCurrent
  <2>3. ZeroCounters.loot = overlay.loot
    BY DEF ZeroCounters, TypeOK, Overlays
  <2>4. saved' = [day |-> streamDay, started |-> today,
                  baseline |-> TotalsOf(overlay), overlay |-> ZeroCounters]
    BY <2>1, <2>2, SureSave
  <2>5. OfLedgerDay'
    BY <2>1, <2>2 DEF RowIsCurrent
  <2>6. LedgerTotal' = overlay.loot /\ LedgerBase' = overlay.loot
    <3>1. saved'.overlay.loot = overlay.loot /\ saved'.baseline.loot = overlay.loot
      BY <2>2, <2>3, <2>4
    <3>2. QED
      BY <2>5, <3>1 DEF LedgerTotal, LedgerBase
  <2>7. CASE baseline = None
    <3>1. LedgerBase = None
      BY <2>1, <2>7 DEF RowIsCurrent, LedgerBase
    <3>2. Ledger!Report
      BY <2>2, <2>6, <3>1 DEF Ledger!Report
    <3>3. QED
      BY <3>2 DEF Ledger!Next
  <2>8. CASE baseline # None
    <3>1. /\ OfLedgerDay /\ saved \in Records /\ Restored(saved) = overlay
      BY <2>1, <2>2, <2>8 DEF RowIsCurrent, OfLedgerDay, CrashLosesNothing, TypeOK
    <3>2. LedgerTotal = overlay.loot /\ LedgerBase # None
      BY <3>1, LedgerFigures, RestoredType DEF LedgerTotal, LedgerBase
    <3>3. Ledger!Restart
      BY <2>6, <3>2 DEF Ledger!Restart
    <3>4. QED
      BY <3>3 DEF Ledger!Next
  <2>9. QED
    BY <2>7, <2>8
<1>13. QED
  BY <1>3, <1>4, <1>5, <1>6, <1>9, <1>10, <1>11, <1>12 DEF Next, Ledger!Next

\* The stream session implements the ledger: with storage that works and an
\* undisturbed demonstration, a crash, a restart and a closed game are not
\* visible in what the stream is counted from.
THEOREM Refinement ==
  ASSUME DuringDemo = {}, StorageMayFail = FALSE
  PROVE  Spec => ImplementsLedger
<1>1. Init => Ledger!Init
  BY DEF Init, Ledger!Init, LedgerBase, LedgerTotal, OfLedgerDay
<1>2. /\ TypeOK /\ TypeOK' /\ RowIsCurrent /\ RowIsCurrent' /\ CrashLosesNothing
      /\ [Next]_vars
      => [Ledger!Next]_(Ledger!vars)
  BY LedgerStep DEF Ledger!vars
<1>3. QED
  BY <1>1, <1>2, TypeCorrect, RowStaysCurrent, Durability, PTL
     DEF Spec, ImplementsLedger, Ledger!Spec
=============================================================================
