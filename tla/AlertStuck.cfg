CONSTANTS
  t1 = t1
  t2 = t2
  k1 = k1
  k2 = k2
  Types = {t1}
  Acks = {k1}
  MayFail = FALSE
  MayChurn = FALSE
  MaxAlerts = 2
  MaxCrashes = 0
SPECIFICATION FairSpec
PROPERTY
  NormalisedIsResolved
