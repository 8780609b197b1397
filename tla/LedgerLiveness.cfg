CONSTANTS
  u1 = u1
  u2 = u2
  u3 = u3
  r1 = r1
  r2 = r2
  r3 = r3
  r4 = r4
  r5 = r5
  MaxLeverageSetting = 20
  GlobalExposureThreshold = 400
  Users = {u1}
  Symbols = {btc}
  Reqs = {r1, r2, r3}
  Uds = uds
  None = none
  Tier <- AllInstitutional
  OpeningBalance = 3
  Kinds = {"create", "close"}
  Quantities = {1}
  Prices = {10}
  Requests = {10}
  Modifiers = {100}
  Wallets = {}
  KeysExpire = FALSE
  MaxInFlight = 4
  MaxEvents = 1
  MaxCrashes = 0
CHECK_DEADLOCK FALSE
SPECIFICATION FairSpec
PROPERTIES
  EveryRequestAnswered
  EveryEventHandled
