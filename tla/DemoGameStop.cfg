\* The game is closed while the demonstration is shown.
SPECIFICATION Spec
CONSTANTS
  None = None
  Totals <- MCTotals
  DemoLoot = 2
  DemoSession = 1
  DemoGain = 1
  DemoLoss <- MCDemoLoss
  MaxDelta = 1
  MaxDay = 1
  StorageMayFail = FALSE
  DuringDemo = {"gameStop"}
INVARIANT NoDemoAsLive
