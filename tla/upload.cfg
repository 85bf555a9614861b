\* Two uploaders that overlap, one of them with more ids than slots,
\* while another command writes.
SPECIFICATION FairSpec
CONSTANTS
  u1 = u1
  u2 = u2
  s1 = s1
  s2 = s2
  Uploaders = {u1, u2}
  Subscriptions = {s1, s2}
  Months = {1, 2}
  Targets <- MCTargets
  Mixed <- MCMixed
  MaxConcurrency = 1
  MaxRewritten = 1
  None = None
CHECK_DEADLOCK FALSE
INVARIANTS
  TypeOK
  RefusedIsNotShown
  UploadIsFresh
  SlotsAccountedFor
  ReportIsComplete
PROPERTIES
  EveryUploaderEnds
