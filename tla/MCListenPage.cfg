CONSTANTS
  Offers = {1, 2}
  NoPeer = 0
  MaxCleanups = 1
  MaxConnects = 2
SPECIFICATION Spec
INVARIANT TypeOK
INVARIANT CountFollows
INVARIANT NeverStuck
INVARIANT SequentialClean
INVARIANT SequentialTrickle
PROPERTY LossRetried
CHECK_DEADLOCK FALSE
