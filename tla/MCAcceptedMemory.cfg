\* A reviewed memory and one of the user's, one backup, rows for all that can be
\* said but one, and two operations that end in the middle.
CONSTANTS
  Memories = {m1, m2}
  Reviewed = {m1}
  Log = log
  Backups = {bak}
  MaxRows = 3
  MaxFaults = 2
SPECIFICATION Spec
INVARIANTS
  TypeOK
  NothingOffTheRecord
  ErasedIsGone
PROPERTIES
  KeepsTheTrail
