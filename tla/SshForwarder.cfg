SPECIFICATION FairSpec
CONSTANTS
  Clients = {c1, c2}
  c1 = c1
  c2 = c2
  Bytes = 1
CHECK_DEADLOCK FALSE
INVARIANTS TypeOK Coherent OneGoroutineLeft EndsWhole
PROPERTIES PortForwarded Delivers QueueMoves CancelEnds
