SPECIFICATION FairSpec
CONSTANTS
  agent = agent
  Drains = {agent}
  Agent = agent
  Foreground = {TRUE, FALSE}
  DrainEnable = TRUE
  HealthCheck = TRUE
  ExtCrtList = TRUE
  ExtTimeout = 2
  Policy = "continue"
  Crashes = TRUE
  Reloads = TRUE
PROPERTIES PromiseKept CrashRestarts DrainReturns ReloadKeepsServing
