\* Two commands that overlap in every way, from empty tables, and keep
\* running.
SPECIFICATION FairSpec
CONSTANTS
  A1 = A1
  A2 = A2
  s1 = s1
  s2 = s2
  add = add
  Charges <- PairCharges
  Statements <- MCStatements
  Subscriptions <- MCSubscriptions
  Synthetic <- MCSynthetic
  Agreements <- MCAgreements
  StatementOf <- MCStatementOf
  SubscriptionOf <- MCSubscriptionOf
  MonthOf <- MCMonthOf
  ChargeAgreement <- MCChargeAgreement
  StatementAgreement <- MCStatementAgreement
  Unpriced = {}
  Commands = {p1, p2}
  Jobs <- PairJobs
  MaxStored = 0
  None = None
CHECK_DEADLOCK FALSE
PROPERTIES
  OnlyScopeWritten
  EveryCommandEnds
