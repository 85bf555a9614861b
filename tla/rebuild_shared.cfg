\* A rebuild of one of the two agreements s1 is billed under.
SPECIFICATION Spec
CONSTANTS
  A1 = A1
  A2 = A2
  s1 = s1
  s2 = s2
  add = add
  Charges <- MCCharges
  Statements <- MCStatements
  Subscriptions <- MCSubscriptions
  Synthetic <- MCSynthetic
  Agreements <- MCAgreements
  StatementOf <- MCStatementOf
  SubscriptionOf <- MCSubscriptionOf
  MonthOf <- MCMonthOf
  ChargeAgreement <- MCChargeAgreement
  StatementAgreement <- MCStatementAgreement
  Unpriced = {}
  Commands = {p1}
  Jobs <- OneAgreementJobs
  MaxStored = 1
  None = None
CHECK_DEADLOCK FALSE
INVARIANTS
  DeletedIsRebuilt
