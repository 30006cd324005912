CONSTANTS
  Procs = {p1, p2}
  Operators = {o1}
  Keys = {k1}
  Contents = {c1}
  Records <- MCRecords
  SourceStates <- MCSourceStates
  Matching <- MCMatching
  SourceWindow = 0
  AuditQueueLimit = 1
  CountsTowardAuditGate = TRUE
  MaxTime = 1
  MaxRevisions = 2
  MaxPauseEvents = 1
SPECIFICATION FairSpec

  
PROPERTIES
  RequestsAreAnswered
