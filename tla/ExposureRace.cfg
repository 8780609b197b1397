CONSTANTS
  u1 = u1
  u2 = u2
  u3 = u3
  r1 = r1
  r2 = r2
  r3 = r3
  r4 = r4
  r5 = r5
  MaxLeverageSetting = 20
  GlobalExposureThreshold = 40
  Users = {u1, u2}
  Symbols = {btc}
  Reqs = {r1, r2, r3}
  Uds = uds
  None = none
  Tier <- AllInstitutional
  OpeningBalance = 9
  Kinds = {"create"}
  Quantities = {2}
  Prices = {10}
  Requests = {10}
  Modifiers = {100}
  Wallets = {}
  KeysExpire = FALSE
  MaxInFlight = 4
  MaxEvents = 0
  MaxCrashes = 0
SPECIFICATION Spec
INVARIANTS
  GlobalExposureWithinThreshold
