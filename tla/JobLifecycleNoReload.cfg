SPECIFICATION Spec
CONSTANTS
  agent = agent
  Drains = {agent}
  Agent = agent
  Foreground = {FALSE}
  DrainEnable = TRUE
  HealthCheck = TRUE
  ExtCrtList = TRUE
  ExtTimeout = 2
  Policy = "fail"
  Crashes = TRUE
  Reloads = FALSE
INVARIANTS ServesWhole AgentHolds
PROPERTIES DrainedStaysDown HealthFirst
