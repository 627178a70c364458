\* Every system call may fail; the command and one descendant.
CONSTANTS
  Leader = leader
  Descendants = {d1}
  Modes = {"output", "status"}
  Faults = TRUE
SPECIFICATION FairSpec
INVARIANTS NoStraySignal SuccessIsWhole NothingIsLeft
PROPERTIES CommandEnds
CHECK_DEADLOCK FALSE
