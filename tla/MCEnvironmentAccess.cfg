\* Three commands on an environment that is new or that others left in any stage.
SPECIFICATION FairSpec
CONSTANTS
  Procs = {p1, p2, p3}
  Ops = {"create", "launch", "mutate", "repair", "run", "observe", "destroy"}
INVARIANTS ChildProtected CheckedStageHolds
PROPERTIES ImplementsUse EveryCommandEnds
CHECK_DEADLOCK FALSE
