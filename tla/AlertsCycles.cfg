CONSTANTS
  t1 = t1
  t2 = t2
  k1 = k1
  k2 = k2
  Types = {t1, t2}
  Acks = {k1, k2}
  MayFail = TRUE
  MayChurn = TRUE
  MaxAlerts = 3
  MaxCrashes = 1
SPECIFICATION FairSpec
INVARIANTS
  OneOpenAlert
  TriggeredHasActiveAlert
PROPERTIES
  EveryCycleEnds
  LoneAlertIsResolved
