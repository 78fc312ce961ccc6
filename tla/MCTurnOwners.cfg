\* Three turns under two client ids put two behind an owner and use one client id
\* again; one stop; threads are fair. No steers, and so no write that may fail.
\* The system may rest once every message is answered and the bounds are used up.
CONSTANTS
  Sessions = {s1}
  Clients = {c1, c2}
  Inputs = {}
  AnswerInputs = {}
  MaxMailbox = 1
  None = None
  MaxTurns = 3
  MaxStops = 1
SPECIFICATION FairSpec
CHECK_DEADLOCK FALSE
INVARIANTS
  OneOwner
  NoOvertaking
  NoLostWakeup
PROPERTIES
  EveryTurnEnds
