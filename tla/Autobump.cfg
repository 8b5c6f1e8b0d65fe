SPECIFICATION FairSpec
CONSTANTS
  Count = 3
  Package <- Packages
  Suffixless = {3}
  Version = {1, 2, 3}
  MergesDuringRun = FALSE
  MaxEvents = 1
INVARIANTS TypeOK AlwaysBuilds OnlyOwn
PROPERTIES BumpsKept OpenStays EveryBumped
