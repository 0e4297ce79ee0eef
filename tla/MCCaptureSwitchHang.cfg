CONSTANTS
  d1 = d1
  d2 = d2
  Devices = {d1, d2}
  SystemDefault = SystemDefault
  EmptyName = EmptyName
  Windows = TRUE
  MaxRequests = 1
  MaxLaunches = 1
SPECIFICATION Spec
PROPERTY SwitchServed
\* The tray may stop making requests: then every thread waits.
CHECK_DEADLOCK FALSE
