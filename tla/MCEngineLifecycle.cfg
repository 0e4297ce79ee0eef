CONSTANTS
  MaxEngines = 3
  Overlap = FALSE
SPECIFICATION Spec
INVARIANT TypeOK
INVARIANT UsedWhileLive
INVARIANT TornDownOnce
INVARIANT NothingLeaked
PROPERTY CallsReturn
PROPERTY DropEndsPlayback
