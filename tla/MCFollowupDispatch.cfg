\* Two inputs in one or two sessions; three claims let an input be run, taken
\* over and run again.  Nothing happens any more when the claims are used up.
CONSTANTS
  Sessions = {s1, s2}
  Turns = {t1, t2}
  Workers = {w1, w2}
  MaxNumber = 2
  MaxToken = 3
SPECIFICATION Spec
SYMMETRY Interchangeable
CHECK_DEADLOCK FALSE
INVARIANTS
  NoParallelRuns
  SettledMeansRan
PROPERTIES
  OnlyAccidentsRerun
