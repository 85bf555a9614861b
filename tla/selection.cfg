\* Three days: a statement is issued, cancelled and counted on different ones.
SPECIFICATION Spec
CONSTANTS
  Statements = {st}
  Runners = {r1, r2}
  LastDay = 3
  None = None
SYMMETRY Symmetric
CHECK_DEADLOCK FALSE
INVARIANTS
  OncePerDay
  NothingSkipped
