CONSTANTS
  Procs = {p1}
  Operators = {o1}
  Keys = {k1}
  Contents = {c1}
  Records <- MCRecords
  SourceStates <- MCSourceStates
  Matching <- MCMatching
  SourceWindow = 0
  AuditQueueLimit = 1
  CountsTowardAuditGate = TRUE
  MaxTime = 0
  MaxRevisions = 3
  MaxPauseEvents = 0
SPECIFICATION Spec
INVARIANTS
  ReleasedContractsReadable
