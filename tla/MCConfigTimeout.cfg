CONSTANTS
  Unset = Unset
  NotNumber = NotNumber
  Unparsable = Unparsable
  Hosts <- MCHosts
  Paths <- MCPaths
  PortValues <- MCPortValues
  SecondValues <- MCSecondValues
  DurationBits = 16
  NanosPerSecond = 100
SPECIFICATION Spec
CHECK_DEADLOCK FALSE
INVARIANT TimeoutsBounded
