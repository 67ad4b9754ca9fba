\* One request at a time, a worker, flushes, crashes at every step and failing
\* statements.
CONSTANTS
  Keys = {k1}
  Clients = {c1}
  Workers = {w1}
  Main = Main
  Ops <- AllOps
  CreateStates = {"enabled", None}
  StoreMayFail = TRUE
  None = None
  HealthDegradedThreshold = 1
  HealthDownThreshold = 2
  HealthRecoveryCount = 2
SPECIFICATION Spec
INVARIANTS TypeOK HealthAgrees CacheMatchesRow ScheduledIffEnabled
