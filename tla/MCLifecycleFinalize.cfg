SPECIFICATION Spec
CONSTANTS
  Ownerships = {"stackstead"}
  CustomOutputs = {{}}
INVARIANT FinalizeResumes
CHECK_DEADLOCK FALSE
