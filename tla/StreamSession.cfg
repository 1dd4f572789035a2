\* Every order of handlers, storage failures and demonstration mix-ups.
SPECIFICATION Spec
CONSTANTS
  None = None
  Totals <- MCTotals
  DemoLoot = 2
  DemoSession = 1
  DemoGain = 1
  DemoLoss <- MCDemoLoss
  MaxDelta = 1
  MaxDay = 1
  StorageMayFail = TRUE
  DuringDemo = {"gameStop", "confirmReset", "leave"}
INVARIANTS
  TypeOK
  LiveCountersMatchBaseline
  NewDayStartsEmpty
  StreamStartsToday
  CrashLosesNothing
