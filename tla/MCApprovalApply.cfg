\* A write of a project (w) and the answer to a dialog it opens (d); a restore of
\* its checkpoint (r) and a resolve of its record (v), both under the lock of
\* another project; a restore by an external client under the write's own lock
\* (s), and an external client's write to all projects (x).  One failure or one
\* reader, one crash, and a limit of one attempt, which lets a second one be
\* refused.  The system rests when every operation has been decided and is over.
CONSTANTS
  w = w
  d = d
  r = r
  s = s
  v = v
  x = x
  p1 = p1
  p2 = p2
  Global = Global
  None = None
  Leaked = Leaked
  Approvals = {w, d, r, v}
  Externals = {x, s}
  Kind <- Kinds
  Root <- Roots
  Target <- Targets
  Limit = 1
  MaxCrashes = 1
  MaxFaults = 1
  MaxReads = 1
SPECIFICATION Spec
CONSTRAINT NotAllAtOnce
CHECK_DEADLOCK FALSE
INVARIANTS
  TypeOK
  AppliedOnce
  Alone
  UndoIsKept
  TriesAreCounted
PROPERTIES
  NothingOnTop
