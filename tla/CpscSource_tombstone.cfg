CONSTANTS
  Jobs = {j1, j2}
  Recalls = {"r1", "r2"}
  Versions = {"v1"}
  RecordedModes = {"full"}
  RecordedResponses <- MCRecordedResponses
  GraceWindow = 1
  Overlap = 1
  PublicationLag = 1
  MaxAttempts = 2
  MaxTime = 0
  MaxRuns = 3
  MaxChanges = 2
SPECIFICATION Spec
PROPERTIES
  MissingBecomesTombstone
