CONSTANTS
  Procs = {p1, p2}
  Operators = {o1}
  Keys = {k1}
  Contents = {c1, c2}
  Records <- MCRecords
  SourceStates <- MCRewordedStates
  Matching <- MCMatching
  SourceWindow = 0
  AuditQueueLimit = 1
  CountsTowardAuditGate = TRUE
  MaxTime = 0
  MaxRevisions = 3
  MaxPauseEvents = 0
SPECIFICATION Spec
SYMMETRY Symmetry
INVARIANTS
  KeysAreClaimedOnce
  RowsOfOneRevision
  RefreshChains
  AnswersAreTheCallers
  ErrorsAreLostRefreshes
PROPERTIES
  OnlyPromotionsLoseCandidates
  HandlersMoveOn
