\* The saved stream as a ledger; the demonstration is left only by a response or with the process.
SPECIFICATION Spec
CONSTANTS
  None = None
  Totals <- MCTotals
  DemoLoot = 2
  DemoSession = 1
  DemoGain = 1
  DemoLoss <- MCDemoLoss
  MaxDelta = 1
  MaxDay = 2
  StorageMayFail = FALSE
  DuringDemo = {}
INVARIANTS
  NoDemoAsLive
PROPERTIES
  ImplementsLedger
