\* Three entries put two in one lane and one beside it; two claims let a lease
\* pass to a second worker; the store holds two live entries and a tombstone.
CONSTANTS
  Sessions = {s1, s2}
  Turns = {t1, t2}
  LeaseSeconds = 1
  MaxStoreBytes = 5
  LiveBytes = 2
  LeaseBytes = 1
  TombstoneBytes = 1
  MaxSequence = 3
  MaxToken = 2
  MaxTime = 1
  MaxLockWait = 1
SPECIFICATION Spec
SYMMETRY Interchangeable
INVARIANTS
  TypeOK
  AcceptedSurvives
  SettledSurvives
  OneIdPerInput
  AckedByLatestHolder
PROPERTIES
  LeaseHonoured
  KeepsTheLane
