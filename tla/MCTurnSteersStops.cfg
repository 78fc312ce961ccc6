\* Two turns of one or two sessions that share their client ids, with two stops;
\* or three inputs for a mailbox of two, two turns under one client id, one stop.
\* The finally block may break off at any steer.
\* The system may rest once every message is answered and the bounds are used up.
CONSTANTS
  Sessions = {s1, s2}
  Clients = {c1, c2}
  Inputs = {x, y, z}
  AnswerInputs = {x, y, z}
  MaxMailbox = 2
  None = None
  MaxTurns = 2
  MaxStops = 2
SPECIFICATION Spec
SYMMETRY Interchangeable
CONSTRAINT SteersOrStops
CHECK_DEADLOCK FALSE
INVARIANTS
  TypeOK
  SteersAccounted
  StopsHitWhatTheyName
