SPECIFICATION Spec
CONSTANTS
  agent = agent
  manual = manual
  Drains = {manual}
  Agent = agent
  Foreground = {FALSE}
  DrainEnable = TRUE
  HealthCheck = TRUE
  ExtCrtList = FALSE
  ExtTimeout = 1
  Policy = "fail"
  Crashes = FALSE
  Reloads = TRUE
PROPERTY DrainedStaysDownReloaded
