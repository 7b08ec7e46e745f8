SPECIFICATION Spec
CONSTANTS
  Callers = {p1}
  RunIds = {r1, r2, r3, r4}
  Roles = {"scout", "architect"}
  Requires <- MCRequires
  Output <- MCOutput
  Summary <- MCSummary
  Requests <- MCRequests
  NoKey = ""
  None = None
  MaxCalls = 4
  Faults = {"crash", "http"}
  MaxFaults = 1
SYMMETRY MCRunSymmetry
INVARIANTS TypeOK OneConversationWithoutFaults
PROPERTY ScopeKeepsItsRun
CHECK_DEADLOCK FALSE
