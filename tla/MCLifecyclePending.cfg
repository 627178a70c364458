SPECIFICATION Spec
CONSTANTS
  Ownerships = {"stackstead"}
  CustomOutputs = {{}}
INVARIANT PendingIsFinalizable
CHECK_DEADLOCK FALSE
