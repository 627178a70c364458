SPECIFICATION Spec
CONSTANTS
  Ownerships = {"external"}
  CustomOutputs = {{}}
INVARIANT SourceRemovalResumes
CHECK_DEADLOCK FALSE
