CONSTANTS
  MaxEngines = 1
  Overlap = TRUE
SPECIFICATION Spec
INVARIANT UsedWhileLive
