\* One evaluation and its operator beside another; two keys, two agent calls and two
\* acknowledgements, so that each key, limit and row is raced for.
CONSTANTS
  seller = seller
  other = other
  Operators = {seller, other}
  Keys = {k1, k2}
  Scopes = {"evidence:read", "reviews:report-agent"}
  Grants <- MCGrants
  Calls = {q1, q2}
  MaxActiveKeys = 1
  RequestsPerMinute = 1
  Minute = 1
  Retention = 2
  Lag = 1
  MaxClock = 2
  Evaluations = {e1}
  Owner <- MCOwner
  Acknowledgements = {a1, a2}
  ReadEvidence = "evidence:read"
  ReportReview = "reviews:report-agent"
SPECIFICATION Spec
SYMMETRY Symmetry
CHECK_DEADLOCK FALSE
INVARIANTS
  TypeOK
  KeysAreBounded
  AcknowledgementsChain
  RecordsAreRightful

  
