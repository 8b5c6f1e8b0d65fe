SPECIFICATION Spec
CONSTANTS
  Count = 3
  Package <- Packages
  Suffixless = {3}
  Version = {1, 2}
  MergesDuringRun = TRUE
  MaxEvents = 0
INVARIANT AlwaysBuilds
