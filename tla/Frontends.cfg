SPECIFICATION Spec
CONSTANTS
  Addresses = {"lb", "good", "bad"}
  Rules = {"r1", "r2"}
  Prefixes = {"/a", "/"}
  Scenarios <- AllScenarios
INVARIANTS TypeOK XfccAsDocumented ClientIpAsDocumented ListsHold BlocklistGaps
  NoFronting BackendDeclared SameProtocol
