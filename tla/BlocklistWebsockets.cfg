SPECIFICATION Spec
CONSTANTS
  Addresses = {"lb", "good", "bad"}
  Rules = {"r1", "r2"}
  Prefixes = {"/a", "/"}
  Scenarios <- BlocklistScenarios
INVARIANTS BlocklistHolds
