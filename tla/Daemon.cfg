SPECIFICATION FairSpec
CONSTANTS
  Task = {api, ha}
  Grace = 1
  StopLimit = 3
  StartLimit = 2
  StaleAfter = 2
  Gap = 2
  MaxFailures = 2
  StageDelay = 2
  MaxFaults = 3
INVARIANTS EndsWell HealthyIsRecent
PROPERTIES PgpoolIsRestarted
CHECK_DEADLOCK FALSE
