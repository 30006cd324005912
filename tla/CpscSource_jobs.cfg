CONSTANTS
  Jobs = {j1, j2}
  Recalls = {"r1", "r2"}
  Versions = {"v1"}
  RecordedModes = {"daily", "full", "fixture"}
  RecordedResponses <- MCRecordedResponses
  GraceWindow = 1
  Overlap = 1
  PublicationLag = 1
  MaxAttempts = 2
  MaxTime = 1
  MaxRuns = 2
  MaxChanges = 1
SPECIFICATION FairSpec
CHECK_DEADLOCK FALSE
INVARIANTS
  TypeOK
  TombstonesAreTrue
PROPERTIES
  RejectionPauses
  ImplementsHistory
  JobsEnd
