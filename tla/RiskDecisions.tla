--------------------------- MODULE RiskDecisions ---------------------------
(***************************************************************************)
(* RiskEngine.evaluate_order as a component: orders arrive one at a time   *)
(* with the account figures and exposures their caller has read, and are   *)
(* decided.  The engine keeps no state of its own between orders.          *)
(***************************************************************************)
EXTENDS RiskRules

CONSTANTS Balances,       \* balances an account may hold
          MarginsUsed,    \* margins an account may have committed
          Sizes, Prices,  \* of the orders
          Requests,       \* leverages asked for; 0 asks for none
          Ranges,         \* volatility readings, in percent points
          Exposures       \* exposures the aggregates may return

ASSUME InputAssumption ==
  /\ Balances \subseteq Int /\ MarginsUsed \subseteq Int /\ Exposures \subseteq Int
  /\ Sizes \subseteq Nat /\ Prices \subseteq Nat \ {0}
  /\ Requests \subseteq Nat /\ Ranges \subseteq Nat

VARIABLE order,   \* the order being evaluated
         verdict  \* its decision, "None" before the first order

vars == <<order, verdict>>

NoOrder == [tier |-> "standard", balance |-> 0, marginUsed |-> 0, size |-> 0,
            price |-> 0, requested |-> 0, modifier |-> 100,
            userExposure |-> 0, globalExposure |-> 0, side |-> "buy"]

Init == order = NoOrder /\ verdict = "None"

\* One call.  The caller's user exposure is part of the global one.
Evaluate ==
  /\ verdict = "None"
  /\ \E t \in Tiers, b \in Balances, m \in MarginsUsed, z \in Sizes, p \in Prices,
        q \in Requests, r \in Ranges, ue \in Exposures, ge \in Exposures, sd \in Sides :
       /\ ue <= ge
       /\ order' = [tier |-> t, balance |-> b, marginUsed |-> m, size |-> z,
                    price |-> p, requested |-> q, modifier |-> VolatilityModifier(r),
                    userExposure |-> ue, globalExposure |-> ge, side |-> sd]
       /\ verdict' = Decision(order')

\* The result is returned and the next order may come.
Return == verdict # "None" /\ order' = NoOrder /\ verdict' = "None"

Next == Evaluate \/ Return

Spec == Init /\ [][Next]_vars
-----------------------------------------------------------------------------
TypeOK ==
  /\ order \in [tier: Tiers, balance: Int, marginUsed: Int, size: Int, price: Int,
                requested: Nat, modifier: {50, 75, 100}, userExposure: Int,
                globalExposure: Int, side: Sides]
  /\ verdict \in {"None", "Size", "Margin", "Global", "User", "Approved"}

\* Reference reading of the leverage tables: every ceiling in force bounds the
\* leverage, where a bracket's ceilings are in force above the notional at which
\* the bracket before it ends, and the volatility modifier scales all of them.
CeilingsInForce(tier, notional) ==
  {TierCaps[tier], MaxOf(1, MaxLeverageSetting)} \cup
  {b[2][tier] : b \in {c \in
     {<<0,      [standard |-> 10, professional |-> 20, institutional |-> 50]>>,
      <<10000,  [standard |-> 5,  professional |-> 10, institutional |-> 20]>>,
      <<100000, [standard |-> 2,  professional |-> 5,  institutional |-> 10]>>,
      <<500000, [standard |-> 1,  professional |-> 2,  institutional |-> 5]>>} :
       notional > c[1]}}

Admissible(tier, notional, modifier) ==
  {1} \cup {n \in 1..50 : \A c \in CeilingsInForce(tier, notional) : 100 * n <= c * modifier}

\* get_max_leverage's table walk with rounding and clamping yields exactly the
\* largest leverage that every ceiling in force admits, and 1 when none does.
MaxLeverageIsLargestAdmissible ==
  verdict # "None" /\ OrderNotional(order) > 0 =>
    LET ceiling == GetMaxLeverage(order.tier, OrderNotional(order), order.modifier)
        allowed == Admissible(order.tier, OrderNotional(order), order.modifier)
    IN  ceiling \in allowed /\ \A n \in allowed : n <= ceiling

\* The margin formulas divide by the leverage and raise on zero: whatever the
\* request and the volatility, the leverage of an order is at least 1.
LeverageIsDivisor == verdict # "None" => LeverageOf(order) >= 1

\* Cutting an approved order down never gets it rejected: the looser bracket a
\* smaller notional falls into never asks for more margin than is there.
SmallerOrderStaysApproved ==
  verdict = "Approved" =>
    \A z \in Sizes : z > 0 /\ z <= order.size =>
      Decision([order EXCEPT !.size = z]) = "Approved"

\* Promoting a user to a better tier never gets an approved order rejected:
\* the leverage, bracket and exposure tables all favour the better tier.
BetterTierStaysApproved ==
  /\ verdict = "Approved" /\ order.tier = "standard" =>
       Decision([order EXCEPT !.tier = "professional"]) = "Approved"
  /\ verdict = "Approved" /\ order.tier = "professional" =>
       Decision([order EXCEPT !.tier = "institutional"]) = "Approved"

BetweenEntryAndBankruptcy(entry, leverage, side) ==
  LET price == LiquidationPriceScaled(entry, leverage, side)
      scaled == entry * 10000 * leverage
  IN  IF side = "buy" THEN scaled - entry * 10000 < price /\ price < scaled
                      ELSE scaled < price /\ price < scaled + entry * 10000

\* The estimated liquidation price of an approved order lies strictly between
\* the entry price and the price at which the margin is gone, for both sides:
\* the liquidation it announces happens, and happens while margin is left.
LiquidationBeforeBankruptcy ==
  verdict = "Approved" =>
    BetweenEntryAndBankruptcy(order.price, LeverageOf(order), order.side)

\* The margin an approved order will add to the account fits into its balance
\* together with the margin already committed, after the column's rounding.
ApprovedMarginFits ==
  verdict = "Approved" =>
    order.marginUsed + RequiredMargin(OrderNotional(order), LeverageOf(order))
      <= order.balance
=============================================================================
