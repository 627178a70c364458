SPECIFICATION MCSpec
CONSTANTS
  e1 = e1
  e2 = e2
  e3 = e3
  j1 = j1
  j2 = j2
  n1 = n1
  n2 = n2
  n3 = n3
  None = None
  Envs <- MCEnvs
  Projects <- MCProjects
  Ports <- MCPorts
  Names <- MCNames
  Project <- MCProject
  Slots <- MCSlots
INVARIANTS RunningDisjoint LeasesMatchManifests NamesUnique
PROPERTY ImplementsRegistry
SYMMETRY Symmetry
CHECK_DEADLOCK FALSE
