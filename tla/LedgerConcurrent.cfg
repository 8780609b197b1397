CONSTANTS
  u1 = u1
  u2 = u2
  u3 = u3
  r1 = r1
  r2 = r2
  r3 = r3
  r4 = r4
  r5 = r5
  MaxLeverageSetting = 20
  GlobalExposureThreshold = 400
  Users = {u1, u2}
  Symbols = {btc}
  Reqs = {r1, r2, r3}
  Uds = uds
  None = none
  Tier <- AllInstitutional
  OpeningBalance = 3
  Kinds = {"create", "close", "cancel", "sync"}
  Quantities <- PlusMinusTwo
  Prices = {10}
  Requests = {10}
  Modifiers = {100}
  Wallets = {4}
  KeysExpire = TRUE
  MaxInFlight = 4
  MaxEvents = 1
  MaxCrashes = 1
SYMMETRY Symmetry
SPECIFICATION Spec
INVARIANTS
  OneLivePosition
  PositionIsSumOfOrders
  MarginUsedWithinBalance
  BookedOrdersWerePlaced
  CanceledOrderNotFilled
  EveryWaitEnds
PROPERTIES
  PositionBookSpec
  LedgerRowsSpec
