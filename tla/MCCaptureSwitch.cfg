CONSTANTS
  d1 = d1
  d2 = d2
  Devices = {d1, d2}
  SystemDefault = SystemDefault
  EmptyName = EmptyName
  Windows = TRUE
  MaxRequests = 3
  MaxLaunches = 2
SPECIFICATION Spec
INVARIANT TypeOK
INVARIANT AtMostOneCapture
INVARIANT SettledAgrees
PROPERTY RunsUntilSwitched
PROPERTY ServedUnlessParked
PROPERTY LaunchRemembers
\* The tray may stop making requests: then every thread waits.
CHECK_DEADLOCK FALSE
