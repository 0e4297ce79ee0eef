CONSTANTS
  Size = 4
  Target = 2
  Payloads = {1, 2}
  Frames = {1, 2}
  Whole = 2
  Overlap = TRUE
  MaxArrived = 6
SPECIFICATION Spec
INVARIANT LostOnlyToOverflow
