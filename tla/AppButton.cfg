\* Two buttons of opposite polarity.
SPECIFICATION FairSpec
CONSTANTS
  Pin = {0, 1}
  ActiveHigh = {1}
  MaxRuns = 2
  MaxPresses = 2
  MaxQueued = 2
INVARIANTS OneReportPerPress
PROPERTIES HeldPressReported
