SPECIFICATION Spec
CONSTANTS
  Callers = {p1, p2}
  RunIds = {r1, r2, r3}
  Roles = {"scout", "architect"}
  Requires <- MCRequires
  Output <- MCOutput
  Summary <- MCSummary
  Requests <- MCRequestsPair
  NoKey = ""
  None = None
  MaxCalls = 3
  Faults = {"crash", "http"}
  MaxFaults = 1
SYMMETRY MCSymmetry
INVARIANTS IndexedRunStarted AnsweredRunStarted PrerequisiteStarted
CHECK_DEADLOCK FALSE
