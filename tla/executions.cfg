\* One process: what another's rows, cards and exit code are does not touch it.
SPECIFICATION Spec
CONSTANTS
  A1 = A1
  A2 = A2
  A3 = A3
  scope = scope
  Processes = {p}
  Targets = {A1, A2, A3, scope}
  Jobs <- MCJobs
  None = None
CHECK_DEADLOCK FALSE
INVARIANTS
  RowsTellTheBody
  CardsMatchRows
  ExitTellsTheRows
  EveryAgreementTried
PROPERTIES
  RowsSettleOnce
