----------------------------- MODULE RiskRules -----------------------------
(***************************************************************************)
(* The risk engine's pure rules: leverage ceilings, margins, liquidation   *)
(* prices and the decision on an order (src/app/risk_engine).              *)
(*                                                                         *)
(* Amounts are integers.  The code's Decimals are compared exactly, so a   *)
(* comparison with a quotient or a percentage is written here multiplied   *)
(* out; rates are in basis points and percentages in points.               *)
(***************************************************************************)
EXTENDS Integers

CONSTANTS MaxLeverageSetting,       \* settings.max_leverage
          GlobalExposureThreshold   \* settings.global_exposure_threshold

ASSUME SettingsAssumption ==
  /\ MaxLeverageSetting \in Int
  /\ GlobalExposureThreshold \in Nat

Tiers == {"standard", "professional", "institutional"}
Sides == {"buy", "sell"}

MinOf(a, b) == IF a <= b THEN a ELSE b
MaxOf(a, b) == IF a >= b THEN a ELSE b
-----------------------------------------------------------------------------
(***************************************************************************)
(* Leverage ceilings (leverage.py, volatility.py)                          *)
(***************************************************************************)
TierCaps == [standard |-> 10, professional |-> 20, institutional |-> 50]

\* Defective variant: the third bracket starts one bracket too late.
BracketSkipped(notional) ==
  IF notional <= 10000 THEN [standard |-> 10, professional |-> 20, institutional |-> 50]
  ELSE IF notional <= 100000 THEN [standard |-> 5,  professional |-> 10, institutional |-> 20]
  ELSE IF notional <= 500000 THEN [standard |-> 1,  professional |-> 2,  institutional |-> 5]
  ELSE [standard |-> 2,  professional |-> 5,  institutional |-> 10]

LeverageBracket(notional) ==
  IF notional <= 10000 THEN [standard |-> 10, professional |-> 20, institutional |-> 50]
  ELSE IF notional <= 100000 THEN [standard |-> 5,  professional |-> 10, institutional |-> 20]
  ELSE IF notional <= 500000 THEN [standard |-> 2,  professional |-> 5,  institutional |-> 10]
  ELSE [standard |-> 1,  professional |-> 2,  institutional |-> 5]

TierCap(tier) == MinOf(TierCaps[tier], MaxOf(1, MaxLeverageSetting))

\* The multiplier for the last closed 1h candle, in percent points.
VolatilityModifier(rangePct) ==
  IF rangePct <= 3 THEN 100
  ELSE IF rangePct <= 6 THEN 75
  ELSE 50

GetMaxLeverage(tier, notional, modifier) ==
  MaxOf(1, (MinOf(LeverageBracket(notional)[tier], TierCap(tier)) * modifier) \div 100)

\* `requested_leverage or max_leverage`: an absent request is 0.
OrderLeverage(requested, ceiling) ==
  MinOf(IF requested = 0 THEN ceiling ELSE requested, ceiling)
-----------------------------------------------------------------------------
(***************************************************************************)
(* Margins and the liquidation price (margin.py)                           *)
(***************************************************************************)
\* What the margin columns store: the part of a unit the column drops is lost.
RequiredMargin(notional, leverage) == notional \div leverage

\* Defective variant: the 10x rate is a full initial margin.
MaintenanceRateInflated(leverage) ==
  IF leverage <= 2 THEN 100
  ELSE IF leverage <= 5 THEN 75
  ELSE IF leverage <= 10 THEN 1000
  ELSE IF leverage <= 20 THEN 25
  ELSE IF leverage <= 50 THEN 15
  ELSE 10

MaintenanceMarginRate(leverage) ==
  IF leverage <= 2 THEN 100
  ELSE IF leverage <= 5 THEN 75
  ELSE IF leverage <= 10 THEN 50
  ELSE IF leverage <= 20 THEN 25
  ELSE IF leverage <= 50 THEN 15
  ELSE 10

\* The liquidation price times 10000 * leverage.
LiquidationPriceScaled(entry, leverage, side) ==
  LET distance == 10000 - MaintenanceMarginRate(leverage) * leverage
  IN  IF side = "buy" THEN entry * (10000 * leverage - distance)
                      ELSE entry * (10000 * leverage + distance)
-----------------------------------------------------------------------------
(***************************************************************************)
(* The decision on an order (engine.py)                                    *)
(***************************************************************************)
\* Defective variant: the two upper tiers' fractions are swapped.
ExposurePercentSwapped == [standard |-> 5, professional |-> 50, institutional |-> 20]

ExposurePercent == [standard |-> 5, professional |-> 20, institutional |-> 50]

WithinUserLimit(tier, exposure) ==
  100 * exposure <= GlobalExposureThreshold * ExposurePercent[tier]

\* `available < notional / leverage`, exactly.
Affordable(available, notional, leverage) == available * leverage >= notional

\* o: [tier, balance, marginUsed, size, price, requested, modifier,
\*     userExposure, globalExposure]
OrderNotional(o) == o.size * o.price

LeverageOf(o) ==
  OrderLeverage(o.requested, GetMaxLeverage(o.tier, OrderNotional(o), o.modifier))

\* Defective variant: margin already committed is not subtracted.
DecisionIgnoresMarginUsed(o) ==
  IF o.size <= 0 THEN "Size"
  ELSE IF ~Affordable(o.balance, OrderNotional(o), LeverageOf(o)) THEN "Margin"
  ELSE IF o.globalExposure + OrderNotional(o) > GlobalExposureThreshold THEN "Global"
  ELSE IF ~WithinUserLimit(o.tier, o.userExposure + OrderNotional(o)) THEN "User"
  ELSE "Approved"

\* Defective variant: both limits are tested without the order itself.
DecisionExposureBefore(o) ==
  IF o.size <= 0 THEN "Size"
  ELSE IF ~Affordable(o.balance - o.marginUsed, OrderNotional(o), LeverageOf(o)) THEN "Margin"
  ELSE IF o.globalExposure > GlobalExposureThreshold THEN "Global"
  ELSE IF ~WithinUserLimit(o.tier, o.userExposure) THEN "User"
  ELSE "Approved"

Decision(o) ==
  IF o.size <= 0 THEN "Size"
  ELSE IF ~Affordable(o.balance - o.marginUsed, OrderNotional(o), LeverageOf(o)) THEN "Margin"
  ELSE IF o.globalExposure + OrderNotional(o) > GlobalExposureThreshold THEN "Global"
  ELSE IF ~WithinUserLimit(o.tier, o.userExposure + OrderNotional(o)) THEN "User"
  ELSE "Approved"
=============================================================================
