\* One input, two requests for it.
CONSTANTS
  Sessions = {s1}
  Turns = {t1}
  Workers = {w1, w2}
  MaxNumber = 1
  MaxToken = 2
SPECIFICATION Spec
CHECK_DEADLOCK FALSE
INVARIANTS
  SuccessIsConsumed
