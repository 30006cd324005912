CONSTANTS
  Jobs = {j1, j2}
  Recalls = {"r1", "r2"}
  Versions = {"v1"}
  RecordedModes = {}
  RecordedResponses <- MCRecordedResponses
  GraceWindow = 1
  Overlap = 1
  PublicationLag = 1
  MaxAttempts = 2
  MaxTime = 1
  MaxRuns = 3
  MaxChanges = 2
SPECIFICATION Spec
SYMMETRY Symmetry
CHECK_DEADLOCK FALSE
PROPERTIES
  LiveRefreshesLoseNothing
  
