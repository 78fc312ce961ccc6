\* One turn with one steer that answers a question.
\* The system may rest once every message is answered and the bounds are used up.
CONSTANTS
  Sessions = {s1}
  Clients = {c1}
  Inputs = {x}
  AnswerInputs = {x}
  MaxMailbox = 1
  None = None
  MaxTurns = 1
  MaxStops = 0
SPECIFICATION Spec
CHECK_DEADLOCK FALSE
INVARIANTS
  FinalizationIsClosed
