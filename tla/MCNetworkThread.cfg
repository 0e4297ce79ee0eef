CONSTANTS
  Size = 4
  Target = 2
  Payloads = {1, 2}
  Frames = {1, 2}
  Whole = 2
  Overlap = FALSE
  MaxArrived = 6
  Half = 5
  FirstSeq = 2
  GapLimit = 2
  Numbers = {0, 1, 2, 3, 4}
SPECIFICATION NetSpec
INVARIANT NetTypeOK
INVARIANT LossCounted
INVARIANT LostOnlyToOverflow
PROPERTY ImplementsQueue
