SPECIFICATION Spec
CONSTANTS
  Charges <- MCCharges
  Bill <- MCBill
  Subscriptions = {"s1", "additional"}
  Synthetic = {"additional"}
  Commands = {p1}
  Start <- MCStart
  Batches = {{"old"}, {"fee", "credit"}, {"shared"}}
  MonthSteps = {1}
  MaxDay = 3
  MaxMonthsAtWork = 1
  DeletionDays = {3}
  MaxGivenUp = 1
INVARIANT MixedSumNeverUploaded
