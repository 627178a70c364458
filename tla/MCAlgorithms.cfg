CONSTANTS
  MaxRecords = 3
  MaxRecord = 4
  Window = 2
SPECIFICATION MCSpec
INVARIANTS ReadersAreRight AllocationIsRight
INVARIANTS ReadinessIsCertain EverythingAttested InspectionIsCertain ValuesSurvive
INVARIANTS AppliedMeetsContract ContractBindsPorts TemplatesResolve EnvironmentsAgree
PROPERTY ImplementsLog
CHECK_DEADLOCK FALSE
