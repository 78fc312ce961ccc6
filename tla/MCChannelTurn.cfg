\* Two turns of a session, a stop, two steers for which there is one place. The
\* loop is fair, the runtime may never end. Once all has ended the system rests.
CONSTANTS
  Sessions = {s1}
  NoTurn = NoTurn
  MaxActive = 1
  MaxAuxiliary = 1
  MaxTurns = 2
  MaxStops = 1
  MaxSteers = 2
SPECIFICATION FairSpec
INVARIANTS
  TypeOK
  OneRuntimePerSession
  HeldByTheLiving
  NobodyLeftUnasked
PROPERTIES
  EveryTurnReported
CHECK_DEADLOCK FALSE
