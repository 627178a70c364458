\* Every system call may fail; two descendants, two cleanup rounds.
CONSTANTS
  Leader = leader
  Descendants = {d1, d2}
  Passes = 2
  Faults = TRUE
SPECIFICATION FairSpec
INVARIANTS LeaseOutlivesCommand CleanEndLeavesNothing NoStraySignal StatusIsOwn
PROPERTIES SupervisionEnds
CHECK_DEADLOCK FALSE
