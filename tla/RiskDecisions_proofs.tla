------------------------ MODULE RiskDecisions_proofs ------------------------
(***************************************************************************)
(* What holds of every decision of the risk engine, for every setting and  *)
(* every set of inputs.  The engine keeps nothing between orders, so the   *)
(* invariant is that the verdict held is the decision on the order held.   *)
(***************************************************************************)
EXTENDS RiskDecisions, TLAPS

(***************************************************************************)
(* The risk rules, for every setting, tier, order and market               *)
(***************************************************************************)
Modified == {50, 75, 100}

\* What division with remainder gives for the two divisions of the rules.
LEMMA PercentOf ==
  ASSUME NEW n \in Nat, NEW m \in Modified
  PROVE  /\ (n * m) \div 100 \in Nat
         /\ (n * m) \div 100 <= n
BY DEF Modified

LEMMA DivFits ==
  ASSUME NEW n \in Nat, NEW l \in Nat, l >= 1, NEW a \in Int, a * l >= n
  PROVE  n \div l \in Nat /\ n \div l <= a
<1>1. n = l * (n \div l) + (n % l) /\ n % l \in 0..(l-1) /\ n \div l \in Int
  OBVIOUS
<1>2. (n \div l) >= 0
  <2>1. SUFFICES ASSUME (n \div l) <= -1 PROVE FALSE
    BY <1>1
  <2>2. l * (n \div l) <= -l
    BY <1>1, <2>1
  <2>. QED BY <1>1, <2>2
<1>3. (n \div l) <= a
  <2>1. SUFFICES ASSUME (n \div l) >= a + 1 PROVE FALSE
    BY <1>1
  <2>2. l * (n \div l) >= l * (a + 1)
    BY <1>1, <2>1
  <2>3. l * (a + 1) = a * l + l
    OBVIOUS
  <2>. QED BY <1>1, <2>2, <2>3
<1>. QED BY <1>1, <1>2, <1>3
-----------------------------------------------------------------------------
LEMMA BracketBounds ==
  ASSUME NEW tier \in Tiers, NEW n \in Int
  PROVE  LeverageBracket(n)[tier] \in 1..50
<1>. USE DEF LeverageBracket, Tiers
<1>1. CASE tier = "standard"      BY <1>1
<1>2. CASE tier = "professional"  BY <1>2
<1>3. CASE tier = "institutional" BY <1>3
<1>. QED BY <1>1, <1>2, <1>3

\* A larger notional never falls into a bracket with a higher ceiling.
LEMMA BracketAntitone ==
  ASSUME NEW tier \in Tiers, NEW n \in Int, NEW k \in Int, n <= k
  PROVE  LeverageBracket(k)[tier] <= LeverageBracket(n)[tier]
<1>. USE DEF LeverageBracket, Tiers
<1>1. CASE tier = "standard"      BY <1>1
<1>2. CASE tier = "professional"  BY <1>2
<1>3. CASE tier = "institutional" BY <1>3
<1>. QED BY <1>1, <1>2, <1>3

LEMMA TierCapBounds ==
  ASSUME NEW tier \in Tiers
  PROVE  TierCap(tier) \in 1..50
<1>1. TierCaps[tier] \in 10..50
  BY DEF TierCaps, Tiers
<1>2. MaxOf(1, MaxLeverageSetting) \in Int /\ MaxOf(1, MaxLeverageSetting) >= 1
  BY SettingsAssumption DEF MaxOf
<1>. QED BY <1>1, <1>2 DEF TierCap, MinOf

\* The ceiling is a leverage between 1 and the tier's cap, whatever the
\* configured maximum, the notional and the volatility.
THEOREM MaxLeverageBounds ==
  ASSUME NEW tier \in Tiers, NEW n \in Int, NEW m \in Modified
  PROVE  GetMaxLeverage(tier, n, m) \in 1..TierCap(tier)
<1> DEFINE base == MinOf(LeverageBracket(n)[tier], TierCap(tier))
<1>1. base \in 1..TierCap(tier)
  BY BracketBounds, TierCapBounds DEF MinOf
<1>2. base \in Nat
  BY <1>1, TierCapBounds
<1>3. (base * m) \div 100 \in Nat /\ (base * m) \div 100 <= base
  BY <1>2, PercentOf
<1>4. GetMaxLeverage(tier, n, m) = MaxOf(1, (base * m) \div 100)
  BY DEF GetMaxLeverage
<1>. HIDE DEF base
<1>. QED BY <1>1, <1>3, <1>4, TierCapBounds DEF MaxOf

\* A larger order never gets a higher ceiling.
THEOREM MaxLeverageAntitone ==
  ASSUME NEW tier \in Tiers, NEW n \in Int, NEW k \in Int, n <= k, NEW m \in Modified
  PROVE  GetMaxLeverage(tier, k, m) <= GetMaxLeverage(tier, n, m)
<1> DEFINE base(x) == MinOf(LeverageBracket(x)[tier], TierCap(tier))
<1>1. base(k) \in Nat /\ base(n) \in Nat /\ base(k) <= base(n)
  BY BracketBounds, BracketAntitone, TierCapBounds DEF MinOf
<1>2. ASSUME NEW x \in Nat, NEW y \in Nat, x <= y
      PROVE  (x * m) \div 100 <= (y * m) \div 100
  BY <1>2 DEF Modified
<1>3. (base(k) * m) \div 100 <= (base(n) * m) \div 100
  BY <1>1, <1>2
<1>4. (base(k) * m) \div 100 \in Nat /\ (base(n) * m) \div 100 \in Nat
  BY <1>1, PercentOf
<1>5. \A x : GetMaxLeverage(tier, x, m) = MaxOf(1, (base(x) * m) \div 100)
  BY DEF GetMaxLeverage
<1>. HIDE DEF base
<1>. QED BY <1>3, <1>4, <1>5 DEF MaxOf

LEMMA OrderLeverageBounds ==
  ASSUME NEW q \in Nat, NEW c \in Nat, c >= 1
  PROVE  OrderLeverage(q, c) \in 1..c
BY DEF OrderLeverage, MinOf
-----------------------------------------------------------------------------
\* What the margin check of evaluate_order relies on.
WellFormed(o) ==
  /\ o.tier \in Tiers /\ o.balance \in Int /\ o.marginUsed \in Int
  /\ o.size \in Nat /\ o.price \in Nat \ {0}
  /\ o.requested \in Nat /\ o.modifier \in Modified

LEMMA LeverageInRange ==
  ASSUME NEW o, WellFormed(o)
  PROVE  OrderNotional(o) \in Nat /\ LeverageOf(o) \in 1..50
<1>1. OrderNotional(o) \in Nat
  BY DEF WellFormed, OrderNotional
<1>2. GetMaxLeverage(o.tier, OrderNotional(o), o.modifier) \in 1..TierCap(o.tier)
  BY <1>1, MaxLeverageBounds DEF WellFormed
<1>3. TierCap(o.tier) \in 1..50
  BY TierCapBounds DEF WellFormed
<1>4. LeverageOf(o) \in 1..GetMaxLeverage(o.tier, OrderNotional(o), o.modifier)
  BY <1>2, <1>3, OrderLeverageBounds DEF LeverageOf, WellFormed
<1>. QED BY <1>1, <1>2, <1>3, <1>4

\* The margin of an approved order fits into what the account has left.
THEOREM ApprovedFits ==
  ASSUME NEW o, WellFormed(o), Decision(o) = "Approved"
  PROVE  /\ RequiredMargin(OrderNotional(o), LeverageOf(o)) \in Nat
         /\ o.marginUsed + RequiredMargin(OrderNotional(o), LeverageOf(o)) <= o.balance
<1>1. Affordable(o.balance - o.marginUsed, OrderNotional(o), LeverageOf(o))
  BY DEF Decision
<1>2. o.balance \in Int /\ o.marginUsed \in Int /\ o.balance - o.marginUsed \in Int
  BY DEF WellFormed
<1>3. OrderNotional(o) \in Nat /\ LeverageOf(o) \in Nat /\ LeverageOf(o) >= 1
  BY LeverageInRange
<1>4. /\ OrderNotional(o) \div LeverageOf(o) \in Nat
      /\ OrderNotional(o) \div LeverageOf(o) <= o.balance - o.marginUsed
  BY <1>1, <1>2, <1>3, DivFits DEF Affordable
<1>. QED BY <1>2, <1>4 DEF RequiredMargin

\* At every leverage the engine grants, the maintenance margin is a positive
\* part of the initial margin.
LEMMA MaintenanceBelowInitial ==
  ASSUME NEW l \in 1..50
  PROVE  /\ MaintenanceMarginRate(l) \in Nat
         /\ 0 < MaintenanceMarginRate(l) * l /\ MaintenanceMarginRate(l) * l < 10000
BY DEF MaintenanceMarginRate
-----------------------------------------------------------------------------
(***************************************************************************)
(* The decisions                                                           *)
(***************************************************************************)
LEMMA LiquidationBetween ==
  ASSUME NEW e \in Nat \ {0}, NEW l \in 1..50, NEW side \in Sides
  PROVE  BetweenEntryAndBankruptcy(e, l, side)
<1> DEFINE d == 10000 - MaintenanceMarginRate(l) * l
<1>1. d \in 1..9999
  <2> DEFINE m == MaintenanceMarginRate(l) * l
  <2>1. MaintenanceMarginRate(l) \in Nat /\ 0 < m /\ m < 10000
    BY MaintenanceBelowInitial
  <2>2. m \in Int
    BY <2>1
  <2>3. d = 10000 - m
    OBVIOUS
  <2>. HIDE DEF d, m
  <2>. QED BY <2>1, <2>2, <2>3
<1>2. LiquidationPriceScaled(e, l, side) =
        IF side = "buy" THEN e * (10000 * l - d) ELSE e * (10000 * l + d)
  BY DEF LiquidationPriceScaled
<1>. HIDE DEF d
<1>3. e * (10000 * l - d) = e * 10000 * l - e * d /\ e * (10000 * l + d) = e * 10000 * l + e * d
  BY <1>1
<1>4. e * d > 0 /\ e * d < e * 10000
  <2>1. e >= 1 /\ d >= 1 /\ 10000 - d >= 1 /\ e \in Int /\ d \in Int
    BY <1>1
  <2>2. \A x, y \in Int : x >= 1 /\ y >= 1 => x * y >= 1
    OBVIOUS
  <2>3. e * d >= 1 /\ e * (10000 - d) >= 1
    BY <2>1, <2>2
  <2>4. e * (10000 - d) = e * 10000 - e * d
    BY <2>1
  <2>. QED BY <2>1, <2>3, <2>4
<1>5. e * 10000 * l \in Int /\ e * d \in Int /\ e * 10000 \in Int
  BY <1>1
<1>. QED BY <1>2, <1>3, <1>4, <1>5 DEF BetweenEntryAndBankruptcy
-----------------------------------------------------------------------------
\* An order as evaluate_order gets it.
Order == [tier: Tiers, balance: Int, marginUsed: Int, size: Nat, price: Nat \ {0},
          requested: Nat, modifier: Modified, userExposure: Int,
          globalExposure: Int, side: Sides]

LEMMA OrderIsWellFormed ==
  ASSUME NEW o \in Order
  PROVE  WellFormed(o)
BY DEF Order, WellFormed

LEMMA NotionalAntitone ==
  ASSUME NEW o \in Order, NEW z \in Nat, z <= o.size
  PROVE  OrderNotional([o EXCEPT !.size = z]) \in Nat
         /\ OrderNotional([o EXCEPT !.size = z]) <= OrderNotional(o)
<1>1. \A x, y, p \in Nat : x <= y => x * p <= y * p
  OBVIOUS
<1>. QED BY <1>1 DEF Order, OrderNotional

\* What is affordable stays so at a higher leverage and for a smaller notional.
LEMMA AffordableGrows ==
  ASSUME NEW a \in Int, NEW n \in Nat, NEW k \in Nat, k <= n,
         NEW l \in 1..50, NEW j \in 1..50, l <= j, Affordable(a, n, l)
  PROVE  Affordable(a, k, j)
<1>1. a * l >= n /\ a * l \in Int /\ a * j \in Int
  BY DEF Affordable
<1>2. a >= 0
  <2>1. SUFFICES ASSUME a <= -1 PROVE FALSE
    OBVIOUS
  <2>2. \A x, y \in Int : x <= -1 /\ y >= 1 => x * y <= -1
    OBVIOUS
  <2>3. a * l <= -1
    BY <2>1, <2>2
  <2>. QED BY <1>1, <2>3
<1>3. a * l <= a * j
  <2>1. \A x, y, w \in Int : w >= 0 /\ x <= y => w * x <= w * y
    OBVIOUS
  <2>. QED BY <1>2, <2>1
<1>. QED BY <1>1, <1>3 DEF Affordable

LEMMA ModifierValues ==
  ASSUME NEW r \in Nat
  PROVE  VolatilityModifier(r) \in Modified
BY DEF VolatilityModifier, Modified

\* Between calls the engine holds an order as evaluate_order gets it, with its
\* decision.
Evaluated ==
  /\ order \in [tier: Tiers, balance: Int, marginUsed: Int, size: Int, price: Int,
                requested: Nat, modifier: Modified, userExposure: Int,
                globalExposure: Int, side: Sides]
  /\ verdict \in {"None", "Size", "Margin", "Global", "User", "Approved"}
  /\ verdict # "None" => order \in Order /\ verdict = Decision(order)

LEMMA EvaluatedInv == Spec => []Evaluated
<1>1. Init => Evaluated
  BY DEF Init, NoOrder, Evaluated, Tiers, Sides, Modified
<1>2. Evaluated /\ [Next]_vars => Evaluated'
  <2> SUFFICES ASSUME Evaluated, [Next]_vars PROVE Evaluated'
    OBVIOUS
  <2>1. CASE Evaluate
    <3>1. PICK t \in Tiers, b \in Balances, m \in MarginsUsed, z \in Sizes, p \in Prices,
               q \in Requests, r \in Ranges, ue \in Exposures, ge \in Exposures, sd \in Sides :
            /\ order' = [tier |-> t, balance |-> b, marginUsed |-> m, size |-> z,
                         price |-> p, requested |-> q, modifier |-> VolatilityModifier(r),
                         userExposure |-> ue, globalExposure |-> ge, side |-> sd]
            /\ verdict' = Decision(order')
      BY <2>1 DEF Evaluate
    <3>2. VolatilityModifier(r) \in Modified
      BY ModifierValues, InputAssumption
    <3>3. order' \in Order
      BY <3>1, <3>2, InputAssumption DEF Order
    <3>4. order' \in [tier: Tiers, balance: Int, marginUsed: Int, size: Int, price: Int,
                      requested: Nat, modifier: Modified, userExposure: Int,
                      globalExposure: Int, side: Sides]
      BY <3>1, <3>2, InputAssumption
    <3>5. Decision(order') \in {"Size", "Margin", "Global", "User", "Approved"}
      BY DEF Decision
    <3>. QED BY <3>1, <3>3, <3>4, <3>5 DEF Evaluated
  <2>2. CASE Return
    BY <2>2 DEF Return, NoOrder, Evaluated, Tiers, Sides, Modified
  <2>3. CASE UNCHANGED vars
    BY <2>3 DEF vars, Evaluated
  <2>. QED BY <2>1, <2>2, <2>3 DEF Next
<1>. QED BY <1>1, <1>2, PTL DEF Spec

\* Type correctness of the engine's inputs and decisions.
THEOREM TypeCorrect == Spec => []TypeOK
<1>1. Evaluated => TypeOK
  BY DEF Evaluated, TypeOK, Modified
<1>. QED BY <1>1, EvaluatedInv, PTL

\* No order is evaluated with a leverage the margin formulas cannot divide by.
THEOREM LeverageAlwaysDivides == Spec => []LeverageIsDivisor
<1>1. Evaluated => LeverageIsDivisor
  BY OrderIsWellFormed, LeverageInRange DEF Evaluated, LeverageIsDivisor
<1>. QED BY <1>1, EvaluatedInv, PTL

\* The margin an approved order adds to the account stays within its balance.
THEOREM ApprovedAlwaysFits == Spec => []ApprovedMarginFits
<1>1. Evaluated => ApprovedMarginFits
  BY OrderIsWellFormed, ApprovedFits DEF Evaluated, ApprovedMarginFits
<1>. QED BY <1>1, EvaluatedInv, PTL

\* An approved order's liquidation price lies between entry and bankruptcy.
THEOREM LiquidationAlwaysBeforeBankruptcy == Spec => []LiquidationBeforeBankruptcy
<1>1. Evaluated => LiquidationBeforeBankruptcy
  <2> SUFFICES ASSUME Evaluated, verdict = "Approved" PROVE LiquidationBeforeBankruptcy
    BY DEF LiquidationBeforeBankruptcy
  <2>1. order \in Order /\ order.price \in Nat \ {0} /\ order.side \in Sides
    BY DEF Evaluated, Order
  <2>2. LeverageOf(order) \in 1..50
    BY <2>1, OrderIsWellFormed, LeverageInRange
  <2>. QED BY <2>1, <2>2, LiquidationBetween DEF LiquidationBeforeBankruptcy
<1>. QED BY <1>1, EvaluatedInv, PTL

\* An order that is cut down stays approved.
THEOREM SmallerAlwaysApproved == Spec => []SmallerOrderStaysApproved
<1>1. Evaluated => SmallerOrderStaysApproved
  <2> SUFFICES ASSUME Evaluated, verdict = "Approved",
                      NEW z \in Sizes, z > 0, z <= order.size
               PROVE  Decision([order EXCEPT !.size = z]) = "Approved"
    BY DEF SmallerOrderStaysApproved
  <2> DEFINE o == [order EXCEPT !.size = z]
             n == OrderNotional(order)
             k == OrderNotional(o)
             l == LeverageOf(order)
             j == LeverageOf(o)
  <2>1. order \in Order /\ Decision(order) = "Approved" /\ z \in Nat
    BY InputAssumption DEF Evaluated
  <2>2. o \in Order
    BY <2>1 DEF Order
  <2>3. k \in Nat /\ n \in Nat /\ k <= n
    BY <2>1, OrderIsWellFormed, NotionalAntitone, LeverageInRange
  <2>4. l \in 1..50 /\ j \in 1..50
    BY <2>1, <2>2, OrderIsWellFormed, LeverageInRange
  <2>5. l <= j
    <3> DEFINE big == GetMaxLeverage(order.tier, n, order.modifier)
               small == GetMaxLeverage(order.tier, k, order.modifier)
    <3>1. big <= small
      BY <2>1, <2>3, MaxLeverageAntitone DEF Order
    <3>2. big \in 1..TierCap(order.tier) /\ small \in 1..TierCap(order.tier)
      BY <2>1, <2>3, MaxLeverageBounds DEF Order
    <3>3. big \in Int /\ small \in Int
      BY <3>2, TierCapBounds, <2>1 DEF Order
    <3>4. l = OrderLeverage(order.requested, big) /\ j = OrderLeverage(order.requested, small)
      BY <2>1 DEF LeverageOf, Order
    <3>5. order.requested \in Nat
      BY <2>1 DEF Order
    <3>. HIDE DEF big, small, l, j
    <3>. QED BY <3>1, <3>3, <3>4, <3>5 DEF OrderLeverage, MinOf
  <2>6. /\ o.balance = order.balance /\ o.marginUsed = order.marginUsed
        /\ o.tier = order.tier /\ o.size = z
        /\ o.userExposure = order.userExposure /\ o.globalExposure = order.globalExposure
        /\ order.userExposure \in Int /\ order.globalExposure \in Int
        /\ order.balance - order.marginUsed \in Int
    BY <2>1 DEF Order
  <2>7. /\ Affordable(order.balance - order.marginUsed, n, l)
        /\ order.globalExposure + n <= GlobalExposureThreshold
        /\ WithinUserLimit(order.tier, order.userExposure + n)
    BY <2>1, <2>3, <2>6, SettingsAssumption DEF Decision
  <2>8. Affordable(o.balance - o.marginUsed, k, j)
    <3> DEFINE a == order.balance - order.marginUsed
    <3>1. a \in Int /\ Affordable(a, n, l) /\ o.balance - o.marginUsed = a
      BY <2>6, <2>7
    <3>. HIDE DEF a, l, j, n, k
    <3>. QED BY <2>3, <2>4, <2>5, <3>1, AffordableGrows
  <2>9. WithinUserLimit(o.tier, o.userExposure + k)
    <3>1. 100 * (order.userExposure + k) <= 100 * (order.userExposure + n)
      BY <2>3, <2>6
    <3>2. GlobalExposureThreshold * ExposurePercent[order.tier] \in Int
      BY <2>1, SettingsAssumption DEF ExposurePercent, Tiers, Order
    <3>3. 100 * (order.userExposure + n) <= GlobalExposureThreshold * ExposurePercent[order.tier]
      BY <2>7 DEF WithinUserLimit
    <3>. HIDE DEF n, k
    <3>4. 100 * (order.userExposure + k) <= GlobalExposureThreshold * ExposurePercent[order.tier]
      BY <3>1, <3>2, <3>3, <2>3, <2>6
    <3>. QED BY <3>4, <2>6 DEF WithinUserLimit
  <2>10. ~(o.size <= 0) /\ ~(o.globalExposure + k > GlobalExposureThreshold)
    BY <2>1, <2>3, <2>6, <2>7, SettingsAssumption
  <2>. QED BY <2>8, <2>9, <2>10 DEF Decision
<1>. QED BY <1>1, EvaluatedInv, PTL
-----------------------------------------------------------------------------
(***************************************************************************)
(* The tables favour the better tier.                                      *)
(***************************************************************************)
Promotion(s, t) == <<s, t>> \in {<<"standard", "professional">>, <<"professional", "institutional">>}

LEMMA BetterTierLeverage ==
  ASSUME NEW s, NEW t, Promotion(s, t), NEW n \in Int, NEW m \in Modified
  PROVE  /\ s \in Tiers /\ t \in Tiers
         /\ GetMaxLeverage(s, n, m) <= GetMaxLeverage(t, n, m)
<1> DEFINE base(x) == MinOf(LeverageBracket(n)[x], TierCap(x))
<1>1. s \in Tiers /\ t \in Tiers
  BY DEF Promotion, Tiers
<1>2. LeverageBracket(n)[s] <= LeverageBracket(n)[t]
  <2>1. CASE s = "standard" /\ t = "professional"
    BY <2>1 DEF LeverageBracket
  <2>2. CASE s = "professional" /\ t = "institutional"
    BY <2>2 DEF LeverageBracket
  <2>. QED BY <2>1, <2>2 DEF Promotion
<1>3. TierCap(s) <= TierCap(t)
  <2>1. TierCaps[s] \in Int /\ TierCaps[t] \in Int /\ TierCaps[s] <= TierCaps[t]
    BY DEF TierCaps, Promotion
  <2>2. MaxOf(1, MaxLeverageSetting) \in Int
    BY SettingsAssumption DEF MaxOf
  <2>. QED BY <2>1, <2>2 DEF TierCap, MinOf
<1>4. base(s) \in Nat /\ base(t) \in Nat /\ base(s) <= base(t)
  BY <1>1, <1>2, <1>3, BracketBounds, TierCapBounds DEF MinOf
<1>5. ASSUME NEW x \in Nat, NEW y \in Nat, x <= y
      PROVE  (x * m) \div 100 <= (y * m) \div 100
  BY <1>5 DEF Modified
<1>6. /\ (base(s) * m) \div 100 <= (base(t) * m) \div 100
      /\ (base(s) * m) \div 100 \in Nat /\ (base(t) * m) \div 100 \in Nat
  BY <1>4, <1>5, PercentOf
<1>7. \A x : GetMaxLeverage(x, n, m) = MaxOf(1, (base(x) * m) \div 100)
  BY DEF GetMaxLeverage
<1>. HIDE DEF base
<1>. QED BY <1>1, <1>6, <1>7 DEF MaxOf

LEMMA BetterTierLimit ==
  ASSUME NEW s, NEW t, Promotion(s, t), NEW x \in Int, WithinUserLimit(s, x)
  PROVE  WithinUserLimit(t, x)
<1>1. ExposurePercent[s] \in Nat /\ ExposurePercent[t] \in Nat /\ ExposurePercent[s] <= ExposurePercent[t]
  BY DEF ExposurePercent, Promotion
<1>2. \A w, y, z \in Nat : y <= z => w * y <= w * z
  OBVIOUS
<1>3. GlobalExposureThreshold * ExposurePercent[s] <= GlobalExposureThreshold * ExposurePercent[t]
  BY <1>1, <1>2, SettingsAssumption
<1>4. /\ GlobalExposureThreshold * ExposurePercent[s] \in Int
      /\ GlobalExposureThreshold * ExposurePercent[t] \in Int
  BY <1>1, SettingsAssumption
<1>. QED BY <1>3, <1>4 DEF WithinUserLimit

LEMMA PromotedStaysApproved ==
  ASSUME NEW given \in Order, Decision(given) = "Approved", NEW t, Promotion(given.tier, t)
  PROVE  Decision([given EXCEPT !.tier = t]) = "Approved"
<1> DEFINE o == [given EXCEPT !.tier = t]
           n == OrderNotional(given)
           a == given.balance - given.marginUsed
           l == LeverageOf(given)
           j == LeverageOf(o)
<1>1. t \in Tiers /\ given.tier \in Tiers
  BY BetterTierLeverage DEF Promotion, Tiers
<1>2. /\ o \in Order /\ o.tier = t /\ o.size = given.size /\ OrderNotional(o) = n
      /\ o.balance - o.marginUsed = a /\ a \in Int
      /\ o.userExposure = given.userExposure /\ o.globalExposure = given.globalExposure
      /\ o.requested = given.requested /\ o.modifier = given.modifier
      /\ given.userExposure \in Int /\ given.requested \in Nat /\ given.modifier \in Modified
  BY <1>1 DEF Order, OrderNotional
<1>3. n \in Nat /\ l \in 1..50 /\ j \in 1..50
  BY <1>2, OrderIsWellFormed, LeverageInRange
<1>4. l <= j
  <2> DEFINE low == GetMaxLeverage(given.tier, n, given.modifier)
             high == GetMaxLeverage(t, n, given.modifier)
  <2>1. low <= high
    BY <1>2, <1>3, BetterTierLeverage
  <2>2. low \in 1..TierCap(given.tier) /\ high \in 1..TierCap(t)
    BY <1>1, <1>2, <1>3, MaxLeverageBounds
  <2>3. low \in Int /\ high \in Int
    BY <1>1, <2>2, TierCapBounds
  <2>4. l = OrderLeverage(given.requested, low) /\ j = OrderLeverage(given.requested, high)
    BY <1>2 DEF LeverageOf
  <2>. HIDE DEF low, high, l, j
  <2>. QED BY <1>2, <2>1, <2>3, <2>4 DEF OrderLeverage, MinOf
<1>5. /\ ~(given.size <= 0) /\ Affordable(a, n, l)
      /\ ~(given.globalExposure + n > GlobalExposureThreshold)
      /\ WithinUserLimit(given.tier, given.userExposure + n)
  BY DEF Decision
<1>. HIDE DEF n, a, l, j, o
<1>6. Affordable(a, n, j)
  <2>1. a \in Int /\ n \in Nat /\ n <= n
    BY <1>2, <1>3
  <2>2. l \in 1..50 /\ j \in 1..50 /\ l <= j /\ Affordable(a, n, l)
    BY <1>3, <1>4, <1>5
  <2>. QED BY <2>1, <2>2, AffordableGrows
<1>7. WithinUserLimit(t, given.userExposure + n)
  BY <1>2, <1>3, <1>5, BetterTierLimit
<1>8. LeverageOf(o) = j /\ OrderNotional(o) = n
  BY <1>2 DEF j, o
<1>9. Affordable(o.balance - o.marginUsed, OrderNotional(o), LeverageOf(o))
  BY <1>2, <1>6, <1>8
<1>10. Decision(o) = "Approved"
  BY <1>2, <1>5, <1>7, <1>8, <1>9 DEF Decision
<1>. QED BY <1>10 DEF o

\* An approved order stays approved when its user is promoted.
THEOREM BetterTierAlwaysApproved == Spec => []BetterTierStaysApproved
<1>1. Evaluated => BetterTierStaysApproved
  BY PromotedStaysApproved DEF Evaluated, BetterTierStaysApproved, Promotion
<1>. QED BY <1>1, EvaluatedInv, PTL
-----------------------------------------------------------------------------
(***************************************************************************)
(* get_max_leverage against its reference reading.                         *)
(***************************************************************************)
Base(tier, n) == MinOf(LeverageBracket(n)[tier], TierCap(tier))

\* The ceilings that the brackets below a notional put in force.
BracketCeilings(tier, n) ==
  {b[2][tier] : b \in {c \in
     {<<0,      [standard |-> 10, professional |-> 20, institutional |-> 50]>>,
      <<10000,  [standard |-> 5,  professional |-> 10, institutional |-> 20]>>,
      <<100000, [standard |-> 2,  professional |-> 5,  institutional |-> 10]>>,
      <<500000, [standard |-> 1,  professional |-> 2,  institutional |-> 5]>>} :
       n > c[1]}}

LEMMA BracketIsLowest ==
  ASSUME NEW tier \in Tiers, NEW n \in Nat \ {0}
  PROVE  /\ LeverageBracket(n)[tier] \in BracketCeilings(tier, n)
         /\ \A c \in BracketCeilings(tier, n) : c \in Int /\ LeverageBracket(n)[tier] <= c
<1> DEFINE w == [standard |-> 10, professional |-> 20, institutional |-> 50]
           x == [standard |-> 5,  professional |-> 10, institutional |-> 20]
           y == [standard |-> 2,  professional |-> 5,  institutional |-> 10]
           z == [standard |-> 1,  professional |-> 2,  institutional |-> 5]
<1>1. /\ w[tier] \in Int /\ x[tier] \in Int /\ y[tier] \in Int /\ z[tier] \in Int
      /\ x[tier] <= w[tier] /\ y[tier] <= x[tier] /\ z[tier] <= y[tier]
  BY DEF Tiers
<1>2. LeverageBracket(n) =
        IF n <= 10000 THEN w ELSE IF n <= 100000 THEN x ELSE IF n <= 500000 THEN y ELSE z
  BY DEF LeverageBracket
<1> DEFINE bw == <<0, w>>
           bx == <<10000, x>>
           by == <<100000, y>>
           bz == <<500000, z>>
<1>3. /\ BracketCeilings(tier, n) = {b[2][tier] : b \in {c \in {bw, bx, by, bz} : n > c[1]}}
      /\ bw[1] = 0 /\ bx[1] = 10000 /\ by[1] = 100000 /\ bz[1] = 500000
      /\ bw[2] = w /\ bx[2] = x /\ by[2] = y /\ bz[2] = z
  BY DEF BracketCeilings
<1>. HIDE DEF w, x, y, z, bw, bx, by, bz
<1>4. \A c : c \in BracketCeilings(tier, n) <=>
        \/ n > 0 /\ c = w[tier]
        \/ n > 10000 /\ c = x[tier]
        \/ n > 100000 /\ c = y[tier]
        \/ n > 500000 /\ c = z[tier]
  BY <1>3
<1>5. CASE n <= 10000
  <2>1. LeverageBracket(n)[tier] = w[tier]
    BY <1>2, <1>5
  <2>. QED BY <1>1, <1>4, <1>5, <2>1
<1>6. CASE n > 10000 /\ n <= 100000
  <2>1. LeverageBracket(n)[tier] = x[tier]
    BY <1>2, <1>6
  <2>. QED BY <1>1, <1>4, <1>6, <2>1
<1>7. CASE n > 100000 /\ n <= 500000
  <2>1. LeverageBracket(n)[tier] = y[tier]
    BY <1>2, <1>7
  <2>. QED BY <1>1, <1>4, <1>7, <2>1
<1>8. CASE n > 500000
  <2>1. LeverageBracket(n)[tier] = z[tier]
    BY <1>2, <1>8
  <2>. QED BY <1>1, <1>4, <1>8, <2>1
<1>. QED BY <1>5, <1>6, <1>7, <1>8

LEMMA BaseIsLowest ==
  ASSUME NEW tier \in Tiers, NEW n \in Nat \ {0}
  PROVE  /\ Base(tier, n) \in CeilingsInForce(tier, n) /\ Base(tier, n) \in 1..50
         /\ \A c \in CeilingsInForce(tier, n) : c \in Int /\ Base(tier, n) <= c
<1>1. CeilingsInForce(tier, n)
        = {TierCaps[tier], MaxOf(1, MaxLeverageSetting)} \cup BracketCeilings(tier, n)
  BY DEF CeilingsInForce, BracketCeilings
<1>2. TierCaps[tier] \in Int /\ MaxOf(1, MaxLeverageSetting) \in Int
  BY SettingsAssumption DEF TierCaps, Tiers, MaxOf
<1>3. LeverageBracket(n)[tier] \in 1..50 /\ TierCap(tier) \in 1..50
  BY BracketBounds, TierCapBounds
<1>. QED BY <1>1, <1>2, <1>3, BracketIsLowest DEF Base, TierCap, MinOf

LEMMA MaxLeverageIsLargest ==
  ASSUME NEW tier \in Tiers, NEW n \in Nat \ {0}, NEW m \in Modified
  PROVE  /\ GetMaxLeverage(tier, n, m) \in Admissible(tier, n, m)
         /\ \A k \in Admissible(tier, n, m) : k <= GetMaxLeverage(tier, n, m)
<1> DEFINE base == Base(tier, n)
           q == (base * m) \div 100
<1>1. base \in 1..50 /\ base \in Nat /\ m \in Nat
  BY BaseIsLowest DEF Modified
<1>2. GetMaxLeverage(tier, n, m) = MaxOf(1, q)
  BY DEF GetMaxLeverage, Base
<1>. HIDE DEF base
<1>3. q \in Nat /\ q <= base
  BY <1>1, PercentOf
<1>4. \A k \in Int : 100 * k <= base * m <=> k <= q
  BY <1>1 DEF Modified
<1>. HIDE DEF q
<1>5. ASSUME NEW k \in 1..50
      PROVE  (\A c \in CeilingsInForce(tier, n) : 100 * k <= c * m) <=> k <= q
  <2>1. ASSUME k <= q, NEW c \in CeilingsInForce(tier, n) PROVE 100 * k <= c * m
    <3>1. c \in Int /\ base <= c
      BY BaseIsLowest DEF base
    <3>2. \A u, v, w \in Int : w >= 0 /\ u <= v => u * w <= v * w
      OBVIOUS
    <3>3. base * m <= c * m /\ base * m \in Int /\ c * m \in Int
      BY <1>1, <3>1, <3>2
    <3>. QED BY <1>4, <2>1, <3>3
  <2>2. base \in CeilingsInForce(tier, n)
    BY BaseIsLowest DEF base
  <2>. QED BY <1>4, <2>1, <2>2
<1>6. \A k : k \in Admissible(tier, n, m) <=> k = 1 \/ (k \in 1..50 /\ k <= q)
  BY <1>5 DEF Admissible
<1>. QED BY <1>1, <1>2, <1>3, <1>6 DEF MaxOf

\* For every setting, notional and volatility the table walk finds the largest
\* leverage that all ceilings in force admit.
THEOREM MaxLeverageAlwaysLargest == Spec => []MaxLeverageIsLargestAdmissible
<1>1. Evaluated => MaxLeverageIsLargestAdmissible
  <2> SUFFICES ASSUME Evaluated, verdict # "None", OrderNotional(order) > 0
               PROVE  MaxLeverageIsLargestAdmissible
    BY DEF MaxLeverageIsLargestAdmissible
  <2>1. order \in Order /\ OrderNotional(order) \in Nat \ {0}
    BY OrderIsWellFormed, LeverageInRange DEF Evaluated
  <2>. QED BY <2>1, MaxLeverageIsLargest DEF MaxLeverageIsLargestAdmissible, Order
<1>. QED BY <1>1, EvaluatedInv, PTL
=============================================================================
