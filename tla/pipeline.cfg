\* One command, begun on (nearly) every content of the tables, one charge of
\* which cannot be summed.
SPECIFICATION SoloSpec
CONSTANTS
  A1 = A1
  A2 = A2
  s1 = s1
  s2 = s2
  add = add
  Charges <- MCCharges
  Statements <- MCStatements
  Subscriptions <- MCSubscriptions
  Synthetic <- MCSynthetic
  Agreements <- MCAgreements
  StatementOf <- MCStatementOf
  SubscriptionOf <- MCSubscriptionOf
  MonthOf <- MCMonthOf
  ChargeAgreement <- MCChargeAgreement
  StatementAgreement <- MCStatementAgreement
  Unpriced = {"c7"}
  Commands = {p1}
  Jobs <- SoloJobs
  MaxStored = 1
  None = None
CHECK_DEADLOCK FALSE
INVARIANTS
  TypeOK
  RunCountsOnce
  RunFailsWhole
  NothingDeletedBeforeAccumulated
  DryRunChangesNothing
  RebuildIsExact
  SubscriptionRebuildIsExact
  FailedAgreementsUntouched
  SubscriptionScopeKeepsTheRest
  CleanEndPushedEstimates
