CONSTANTS
  Procs = {p1, p2}
  Operators = {o1, o2}
  Keys = {k1}
  Contents = {c1}
  Records <- MCRecords
  SourceStates <- MCSourceStates
  Matching <- MCMatching
  SourceWindow = 0
  AuditQueueLimit = 1
  CountsTowardAuditGate = TRUE
  MaxTime = 0
  MaxRevisions = 2
  MaxPauseEvents = 1
SPECIFICATION Spec
SYMMETRY OperatorSymmetry
INVARIANTS
  TypeOK
  AuditGate
  RejectedNeverReadable
  AnswersAreTheCallers
PROPERTIES
  NoNewWorkWhilePaused
  ImplementsLedger
