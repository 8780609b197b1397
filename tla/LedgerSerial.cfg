CONSTANTS
  u1 = u1
  u2 = u2
  u3 = u3
  r1 = r1
  r2 = r2
  r3 = r3
  r4 = r4
  r5 = r5
  MaxLeverageSetting = 20
  GlobalExposureThreshold = 60
  Users = {u1, u2, u3}
  Symbols = {btc, eth}
  Reqs = {r1, r2, r3, r4}
  Uds = uds
  None = none
  Tier <- AllInstitutional
  OpeningBalance = 6
  Kinds = {"create", "close"}
  Quantities <- PlusMinusTwo
  Prices = {10}
  Requests = {10}
  Modifiers = {100}
  Wallets = {}
  KeysExpire = FALSE
  MaxInFlight = 1
  MaxEvents = 1
  MaxCrashes = 0
SYMMETRY Symmetry
SPECIFICATION Spec
INVARIANTS
  MarginUsedIsLiveMargin
  
  
