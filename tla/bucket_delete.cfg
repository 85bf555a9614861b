\* Any delete, on every content of the tables, while another command writes.
SPECIFICATION Spec
CONSTANTS
  Subscriptions = {s1, s2}
  Agreements = {A1, A2}
  None = None
  MaxWrites = 2
CHECK_DEADLOCK FALSE
INVARIANTS
  TypeOK
  OutcomeIsTheScope
  DryRunForetells
  FailedListingLeavesWhole
  LateMembersStay
PROPERTY ImplementsContract
