\* Two clients run a delivery twice, with an approval, a question and one piece
\* of trouble.  Nothing happens any more when it is settled and shown.
CONSTANTS
  Clients = {r1, r2}
  Approvals = {a}
  Questions = {q}
  MaxAttempt = 2
  MaxRuns = 2
  MaxTrouble = 1
  None = None
SPECIFICATION Spec
SYMMETRY Interchangeable
CHECK_DEADLOCK FALSE
INVARIANTS
  TypeOK
  OneRun
  LaneIsWorkedFor
  RunsArePaid
  FirstAnswerGoesOn
  DecidedIsHeard
PROPERTIES
  LateResultStaysOut
  SettlesOnce
