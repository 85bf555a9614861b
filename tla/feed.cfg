SPECIFICATION Spec
CONSTANTS
  Charges <- MCCharges
  Bill <- MCBill
  Subscriptions = {"s1", "additional"}
  Synthetic = {"additional"}
  Commands = {p1}
  Start <- MCStart
  Batches = {{"old", "fee", "shared"}, {"credit"}}
  MonthSteps = {0, 5, 6}
  MaxDay = 2
  MaxMonthsAtWork = 5
  DeletionDays = {2}
  MaxGivenUp = 1
INVARIANTS
  TypeOK
  NothingReadIsPruned
  ShowsABalance
  SweptDaysAreShown
  StaleIsTraceable
