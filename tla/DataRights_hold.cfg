CONSTANTS
  Operators = {founder, seller}
  Founders = {founder}
  Evaluations = {e1}
  Cleanups = {c1}
  RetentionPeriod = 1
  ResponseTarget = 1
  ClockTimes = {0}
  JobTimes = {0, 1}
SPECIFICATION Spec
PROPERTIES
  HoldPreventsErasure
