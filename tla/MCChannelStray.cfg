\* A turn runs into its deadline as its runtime ends and the next turn starts.
CONSTANTS
  Sessions = {s1}
  NoTurn = NoTurn
  MaxActive = 1
  MaxAuxiliary = 1
  MaxTurns = 2
  MaxStops = 0
  MaxSteers = 0
SPECIFICATION Spec
INVARIANTS
  DeadlineMeetsItsTurn
CHECK_DEADLOCK FALSE
