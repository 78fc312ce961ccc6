\* The runtime asks one question at each of its two runs; nothing goes wrong.
CONSTANTS
  Clients = {r1}
  Approvals = {}
  Questions = {q1, q2}
  MaxAttempt = 2
  MaxRuns = 2
  MaxTrouble = 0
  None = None
SPECIFICATION Spec
CHECK_DEADLOCK FALSE
INVARIANT
  HandoffFinishes
