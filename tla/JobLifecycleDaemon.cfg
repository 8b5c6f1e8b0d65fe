SPECIFICATION Spec
CONSTANTS
  agent = agent
  manual = manual
  Drains = {manual, agent}
  Agent = agent
  Foreground = {FALSE}
  DrainEnable = TRUE
  HealthCheck = TRUE
  ExtCrtList = TRUE
  ExtTimeout = 2
  Policy = "fail"
  Crashes = TRUE
  Reloads = TRUE
INVARIANTS TypeOK Coherent LockCoversDrain
PROPERTY PromiseKept
