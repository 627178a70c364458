\* Two starts; three edits of the inputs, the most RecordIsOfOneModel speaks of.
CONSTANTS
  Models = {a, b}
  Hashes = {a, b}
  ConfigHash <- OwnHash
  None = None
  Inspectors = {}
  Configurations <- AllConfigurations
  MaxEdits = 3
  MaxStarts = 2
SPECIFICATION FairSpec
INVARIANTS OutcomeIsHonest RecordIsOfOneModel
PROPERTIES StartsWithoutVerdicts VerificationEnds
CHECK_DEADLOCK FALSE
