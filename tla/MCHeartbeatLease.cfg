CONSTANTS
  s1 = s1
  Ids = {s1}
  Timeout = 15
  ReapPeriod = 5
  LockWait = 1
  HeartbeatDelay = 5
  CallTime = 6
SPECIFICATION Spec
INVARIANT TypeOK
INVARIANT LeaseHeld
INVARIANT StaleBounded
PROPERTY NoResurrection
