CONSTANTS
  Procs = {p1}
  Operators = {o1}
  Keys = {k1}
  Contents = {c1}
  Records <- MCRecords
  SourceStates <- MCSourceStates
  Matching <- MCMatching
  SourceWindow = 0
  AuditQueueLimit = 1
  CountsTowardAuditGate = TRUE
  MaxTime = 0
  MaxRevisions = 2
  MaxPauseEvents = 0
SPECIFICATION Spec
INVARIANTS
  NoCandidateMeansNone
