CONSTANTS
  MaxLeverageSetting = 30
  GlobalExposureThreshold = 10000000
  Balances = {1000, 110000, 600000}
  MarginsUsed = {0, 40000}
  Sizes = {0, 10, 100, 450, 500, 5000}
  Prices = {1000, 1001}
  Requests = {0, 1, 7, 100}
  Ranges = {3, 5, 9}
  Exposures = {0, 400000, 1900000, 5000000}
SPECIFICATION Spec
INVARIANTS
  MaxLeverageIsLargestAdmissible
  SmallerOrderStaysApproved
  BetterTierStaysApproved
  LiquidationBeforeBankruptcy
