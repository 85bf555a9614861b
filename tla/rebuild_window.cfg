\* A rebuild of one day after its run failed.
SPECIFICATION Spec
CONSTANTS
  A1 = A1
  A2 = A2
  s1 = s1
  s2 = s2
  add = add
  Charges <- MCCharges
  Statements <- MCStatements
  Subscriptions <- MCSubscriptions
  Synthetic <- MCSynthetic
  Agreements <- MCAgreements
  StatementOf <- MCStatementOf
  SubscriptionOf <- MCSubscriptionOf
  MonthOf <- MCMonthOf
  ChargeAgreement <- MCChargeAgreement
  StatementAgreement <- MCStatementAgreement
  Unpriced = {}
  Commands = {p1}
  Jobs <- OneDayJobs
  MaxStored = 1
  None = None
CHECK_DEADLOCK FALSE
INVARIANTS
  RebuildHasNoDateWindow
