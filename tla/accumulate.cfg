\* Every call, with one charge of each agreement that cannot be summed.
SPECIFICATION FairSpec
CONSTANTS
  A1 = A1
  A2 = A2
  s1 = s1
  s2 = s2
  add = add
  Charges <- MCCharges
  Statements <- MCStatements
  Subscriptions = {s1, s2, add}
  Synthetic = {add}
  Agreements = {A1, A2}
  StatementOf <- MCStatementOf
  SubscriptionOf <- MCSubscriptionOf
  MonthOf <- MCMonthOf
  ChargeAgreement <- MCChargeAgreement
  StatementAgreement <- MCStatementAgreement
  Unpriced = {"c2", "c5"}
  Arguments <- MCArguments
  None = None
CHECK_DEADLOCK FALSE
INVARIANTS
  TypeOK
  StatementsCountWhole
  RowsMatchTotals
PROPERTIES
  ImplementsContract
