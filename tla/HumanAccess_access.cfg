\* One founder and one network, two requests for links, two sessions and three
\* second-factor calls, so that each limit, token and recovery code is raced for.
CONSTANTS
  Emails = {a}
  Invalid = invalid
  Founders = {a}
  Networks = {n}
  Service = service
  Policies <- MCPolicies
  Requests = {r1, r2}
  Redemptions = {c1, c2}
  FactorCalls = {v1, v2, v3}
  Codes = {k}
  EmailLimit = 1
  NetworkLimit = 1
  DeliveryLimit = 1
  FactorLimit = 1
  Hour = 1
  DeliveryWindow = 1
  FactorWindow = 1
  TokenLifetime = 2
  SessionLifetime = 2
  ReauthenticationLifetime = 1
  Retention = 2
  Lag = 1
  MaxClock = 2
SPECIFICATION Spec
SYMMETRY Symmetry
CHECK_DEADLOCK FALSE
INVARIANTS
  TypeOK
  CredentialsWorkOnce
  SecondFactorsAreEarned

  
