SPECIFICATION FairSpec
CONSTANTS
  Ownerships = {"stackstead", "external"}
  CustomOutputs = {{}, {"env"}, {"context"}, {"env", "context"}}
INVARIANTS
  NothingIsLost
  PhaseIsTrue
PROPERTIES WorkIsKept DestroyFinishes
CHECK_DEADLOCK FALSE
