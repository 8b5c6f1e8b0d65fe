SPECIFICATION Spec
CONSTANTS
  agent = agent
  Drains = {agent}
  Agent = agent
  Foreground = {FALSE}
  DrainEnable = FALSE
  HealthCheck = FALSE
  ExtCrtList = FALSE
  ExtTimeout = 1
  Policy = "fail"
  Crashes = FALSE
  Reloads = FALSE
PROPERTY TermStopsHaproxy
