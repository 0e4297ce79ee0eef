CONSTANTS
  MaxConnects = 1
SPECIFICATION Spec
INVARIANT PlayingIsStreamed
