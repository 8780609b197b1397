------------------------ MODULE TradingLedger_proofs ------------------------
(***************************************************************************)
(* Proofs about the trading ledger, for every set of users, symbols and    *)
(* requests and every setting of the risk engine: the types, the locks and *)
(* what they protect, then the books - positions and the orders booked on  *)
(* them, orders and the exchange, margins and exposures as sums over       *)
(* positions - and the position book and the ledger's tables that the      *)
(* handlers implement.                                                     *)
(***************************************************************************)
EXTENDS TradingLedger, FiniteSetTheorems, TLAPS

(***************************************************************************)
(* Types of the values the actions build                                   *)
(***************************************************************************)
LEMMA ConstantTypes ==
  /\ NoReq \in RequestRecord
  /\ NoPosition \in PositionRow
  /\ NoOrder \in OrderRow
  /\ IdleUds \in UdsRecord
BY DEF NoReq, RequestRecord, Pcs, Final, NoPosition, PositionRow, NoOrder, OrderRow,
       IdleUds, UdsRecord

LEMMA Arithmetic ==
  /\ \A n \in Int : Abs(n) \in Nat
  /\ \A n \in Int \ {0} : Abs(n) \in Nat \ {0}
  /\ \A n \in Int, p \in Nat : Abs(n) * p \in Nat
  /\ \A m, n \in Nat : ReleasedMargin(m, n) \in Nat /\ ReleasedMargin(m, n) <= m
  /\ \A m, n \in Nat : MaxOf(m, n) \in Nat /\ MaxOf(m, n) >= m /\ MaxOf(m, n) >= n
<1>1. \A m, n \in Nat : m * n \in Nat
  OBVIOUS
<1>. QED BY <1>1 DEF Abs, ReleasedMargin, MaxOf

\* What a request's record says about itself: once it has read an account it
\* knows the user, once it is decided the symbol, and so on.
UserPcs == {"c_exposure", "c_risk", "c_place", "c_flush", "c_lock", "c_commit",
            "x_place", "x_account", "x_lock", "x_commit", "s_wallet", "s_commit"}
SymbolPcs == {"c_place", "c_flush", "c_lock", "c_commit",
              "x_place", "x_account", "x_lock", "x_commit"}
ClosePcs == {"x_place", "x_account", "x_lock", "x_commit"}
TargetPcs == ClosePcs \cup {"c_commit", "k_place", "k_commit"}

RecordOK(rec) ==
  /\ rec.pc \in UserPcs => rec.user \in Users
  /\ rec.pc \in SymbolPcs => rec.symbol \in Symbols
  /\ rec.pc \in TargetPcs => rec.target \in Reqs

Booked(p) == pos[p].state # "absent"

Control ==
  /\ \A r \in Reqs : RecordOK(req[r])
  /\ \A r \in Reqs : req[r].pc \in ClosePcs => Booked(req[r].target)
  /\ \A p \in Reqs : Booked(p) => /\ req[p].pc = "done"
                                  /\ req[p].user \in Users /\ req[p].symbol \in Symbols
  /\ \A p \in uds.todo : Booked(p)
  /\ \A p \in Reqs : posLock[p] = Uds => Booked(p)

TypeInv == TypeOK /\ Control

LEMMA RecordTypes ==
  ASSUME NEW rec \in RequestRecord
  PROVE  /\ \A pc \in Pcs : [rec EXCEPT !.pc = pc] \in RequestRecord
         /\ \A st \in {"NEW", "FILLED"} :
              [rec EXCEPT !.pc = "c_flush", !.status = st] \in RequestRecord
         /\ \A n \in Nat : [rec EXCEPT !.pc = "s_commit", !.bal = n] \in RequestRecord
         /\ \A pc \in Final : [NoReq EXCEPT !.pc = pc] \in RequestRecord
         /\ \A pc \in Final :
              [NoReq EXCEPT !.pc = pc, !.user = rec.user, !.symbol = rec.symbol,
                            !.qty = rec.qty, !.margin = rec.margin] \in RequestRecord
<1>1. ASSUME NEW pc \in Pcs PROVE [rec EXCEPT !.pc = pc] \in RequestRecord
  BY DEF RequestRecord
<1>2. ASSUME NEW pc \in Final PROVE [NoReq EXCEPT !.pc = pc] \in RequestRecord
  BY ConstantTypes DEF RequestRecord, Pcs
<1>3. ASSUME NEW pc \in Final
      PROVE  [NoReq EXCEPT !.pc = pc, !.user = rec.user, !.symbol = rec.symbol,
                           !.qty = rec.qty, !.margin = rec.margin] \in RequestRecord
  BY ConstantTypes DEF RequestRecord, Pcs
<1>4. "c_flush" \in Pcs /\ "s_commit" \in Pcs
  BY DEF Pcs
<1>5. ASSUME NEW st \in {"NEW", "FILLED"}
      PROVE  [rec EXCEPT !.pc = "c_flush", !.status = st] \in RequestRecord
  BY <1>4 DEF RequestRecord
<1>6. ASSUME NEW n \in Nat
      PROVE  [rec EXCEPT !.pc = "s_commit", !.bal = n] \in RequestRecord
  BY <1>4 DEF RequestRecord
<1>. QED BY <1>1, <1>2, <1>3, <1>5, <1>6

\* An action that gives request r a record of the right type and leaves the
\* positions and the liquidation handler alone keeps requests well-typed.
LEMMA SetKeepsControl ==
  ASSUME TypeInv, NEW r \in Reqs, NEW rec \in RequestRecord, Set(r, rec),
         req[r].pc # "done", RecordOK(rec),
         rec.pc \in ClosePcs => Booked(rec.target), UNCHANGED <<pos, posLock, uds>>
  PROVE  req' \in [Reqs -> RequestRecord] /\ Control'
<1>1. req' \in [Reqs -> RequestRecord] /\ req'[r] = rec
      /\ \A p \in Reqs \ {r} : req'[p] = req[p]
  BY DEF Set, TypeInv, TypeOK
<1>2. ~Booked(r)
  BY DEF TypeInv, Control
<1>3. \A p \in Reqs : Booked(p)' <=> Booked(p)
  BY DEF Booked
<1>4. uds' = uds /\ uds.todo \subseteq Reqs
  BY DEF TypeInv, TypeOK, UdsRecord
<1>. QED BY <1>1, <1>2, <1>3, <1>4 DEF TypeInv, Control, RecordOK, Booked

LEMMA DropKeepsControl ==
  ASSUME TypeInv, NEW r \in Reqs, NEW pc \in Final, Drop(r, pc),
         req[r].pc # "done", UNCHANGED <<pos, posLock, uds>>
  PROVE  req' \in [Reqs -> RequestRecord] /\ Control'
<1>1. [NoReq EXCEPT !.pc = pc] \in RequestRecord
  BY ConstantTypes, RecordTypes
<1>2. RecordOK([NoReq EXCEPT !.pc = pc])
  BY DEF RecordOK, NoReq, Final, UserPcs, SymbolPcs, TargetPcs, ClosePcs
<1>3. [NoReq EXCEPT !.pc = pc].pc \notin ClosePcs
  BY DEF NoReq, Final, ClosePcs
<1>. QED BY <1>1, <1>2, <1>3, SetKeepsControl DEF Drop

LEMMA QuotientFits ==
  ASSUME NEW n \in Nat, NEW l \in Nat \ {0}, NEW a \in Int, a * l >= n
  PROVE  n \div l \in Nat /\ n \div l <= a
<1>1. n = l * (n \div l) + (n % l) /\ n % l \in 0..(l-1) /\ n \div l \in Int
  OBVIOUS
<1>2. (n \div l) >= 0
  <2>1. SUFFICES ASSUME (n \div l) <= -1 PROVE FALSE
    BY <1>1
  <2>2. l * (n \div l) <= -l
    BY <1>1, <2>1
  <2>. QED BY <1>1, <2>2
<1>3. (n \div l) <= a
  <2>1. SUFFICES ASSUME (n \div l) >= a + 1 PROVE FALSE
    BY <1>1
  <2>2. l * (n \div l) >= l * (a + 1)
    BY <1>1, <2>1
  <2>3. l * (a + 1) = a * l + l
    OBVIOUS
  <2>. QED BY <1>1, <2>2, <2>3
<1>. QED BY <1>1, <1>2, <1>3

\* Whatever the configured maximum, an order is granted a leverage of at least 1.
LEMMA GrantedLeverage ==
  ASSUME NEW tier \in Tiers, NEW n \in Int, NEW m \in Nat, NEW q \in Nat
  PROVE  OrderLeverage(q, GetMaxLeverage(tier, n, m)) \in Nat \ {0}
<1>1. LeverageBracket(n)[tier] \in Int
  <2>. USE DEF LeverageBracket, Tiers
  <2>1. CASE tier = "standard"      BY <2>1
  <2>2. CASE tier = "professional"  BY <2>2
  <2>3. CASE tier = "institutional" BY <2>3
  <2>. QED BY <2>1, <2>2, <2>3
<1>2. TierCap(tier) \in Int
  BY SettingsAssumption DEF TierCap, TierCaps, Tiers, MinOf, MaxOf
<1> DEFINE base == MinOf(LeverageBracket(n)[tier], TierCap(tier))
<1>3. base \in Int
  BY <1>1, <1>2 DEF MinOf
<1>4. GetMaxLeverage(tier, n, m) = MaxOf(1, (base * m) \div 100)
  BY DEF GetMaxLeverage
<1>. HIDE DEF base
<1>5. (base * m) \div 100 \in Int
  BY <1>3
<1>6. GetMaxLeverage(tier, n, m) \in Nat \ {0}
  BY <1>4, <1>5 DEF MaxOf
<1>. QED BY <1>6 DEF OrderLeverage, MinOf

\* The margin of an order the risk engine approves fits beside the margin the
\* request has read, under the balance it has read.
LEMMA RiskApproved ==
  ASSUME TypeInv, NEW r \in Reqs, req[r].pc = "c_risk",
         NEW q \in Quantities, NEW p \in Prices, NEW l \in Requests, NEW m \in Modifiers,
         NEW o, o = Submitted(r, q, p, l, m), Decision(o) = "Approved"
  PROVE  /\ RequiredMargin(OrderNotional(o), LeverageOf(o)) \in Nat
         /\ req[r].mu + RequiredMargin(OrderNotional(o), LeverageOf(o)) <= req[r].bal
<1>1. req[r].user \in Users /\ req[r].bal \in Int /\ req[r].mu \in Int
  BY DEF TypeInv, TypeOK, Control, RecordOK, RequestRecord, UserPcs
<1>2. Tier[req[r].user] \in Tiers /\ q \in Int /\ p \in Nat \ {0} /\ l \in Nat
      /\ m \in {50, 75, 100} /\ Abs(q) \in Nat
  BY <1>1, LedgerAssumption, Arithmetic
<1>3. /\ o.tier = Tier[req[r].user] /\ o.balance = req[r].bal /\ o.marginUsed = req[r].mu
      /\ o.size = Abs(q) /\ o.price = p /\ o.requested = l /\ o.modifier = m
  BY DEF Submitted
<1> DEFINE n == OrderNotional(o)
           g == LeverageOf(o)
<1>4. n \in Nat
  BY <1>2, <1>3 DEF OrderNotional
<1>5. g = OrderLeverage(l, GetMaxLeverage(o.tier, n, m))
  BY <1>3 DEF LeverageOf
<1>6. Affordable(o.balance - o.marginUsed, n, g)
  BY DEF Decision
<1>. HIDE DEF n, g
<1>7. g \in Nat \ {0}
  BY <1>2, <1>3, <1>4, <1>5, GrantedLeverage
<1>8. n \div g \in Nat /\ n \div g <= req[r].bal - req[r].mu
  BY <1>1, <1>3, <1>4, <1>6, <1>7, QuotientFits DEF Affordable
<1>9. RequiredMargin(n, g) \in Nat /\ req[r].mu + RequiredMargin(n, g) <= req[r].bal
  BY <1>1, <1>8 DEF RequiredMargin
<1>. QED BY <1>9 DEF n, g

LEMMA FreeTypes ==
  ASSUME TypeInv, NEW owner, Free(owner)
  PROVE  /\ accLock' \in [Users -> Owners] /\ posLock' \in [Reqs -> {Uds, None}]
         /\ \A p \in Reqs : posLock'[p] = Uds => posLock[p] = Uds /\ owner # Uds
BY LedgerAssumption DEF TypeInv, TypeOK, Free, Owners
-----------------------------------------------------------------------------
(***************************************************************************)
(* Every action preserves TypeInv                                          *)
(***************************************************************************)
LEMMA TypeInit == Init => TypeInv
<1> SUFFICES ASSUME Init PROVE TypeInv
  OBVIOUS
<1>1. TypeOK
  BY ConstantTypes, LedgerAssumption DEF Init, TypeOK, Owners
<1>2. \A r \in Reqs : RecordOK(req[r]) /\ req[r].pc = "idle"
  BY DEF Init, NoReq, RecordOK, UserPcs, SymbolPcs, TargetPcs, ClosePcs
<1>3. \A p \in Reqs : ~Booked(p)
  BY DEF Init, NoPosition, Booked
<1>4. uds.todo = {} /\ \A p \in Reqs : posLock[p] # Uds
  BY LedgerAssumption DEF Init, IdleUds
<1>. QED BY <1>1, <1>2, <1>3, <1>4 DEF TypeInv, Control, ClosePcs

\* The actions that only move request r on.
LEMMA TypeCreateLocal ==
  ASSUME TypeInv, NEW r \in Reqs, CreateBegin(r) \/ CreateExposure(r) \/ CreateRisk(r)
  PROVE  TypeInv'
<1> DEFINE rest == UNCHANGED <<account, pos, order, peak, accLock, posLock, exchange, key, uds, budget>>
<1>. SUFFICES rest /\ req' \in [Reqs -> RequestRecord] /\ Control'
  BY DEF TypeInv, TypeOK
<1>1. CASE CreateBegin(r)
  <2>1. PICK u \in Users :
          Set(r, [NoReq EXCEPT !.pc = "c_exposure", !.user = u,
                               !.mu = account[u].marginUsed, !.bal = account[u].balance])
    BY <1>1 DEF CreateBegin
  <2> DEFINE rec == [NoReq EXCEPT !.pc = "c_exposure", !.user = u,
                               !.mu = account[u].marginUsed, !.bal = account[u].balance]
  <2>2. rec \in RequestRecord
    BY ConstantTypes DEF RequestRecord, TypeInv, TypeOK, Pcs
  <2>3. RecordOK(rec) /\ rec.pc \notin ClosePcs /\ req[r].pc # "done"
    BY <1>1 DEF CreateBegin, NoReq, RecordOK, UserPcs, SymbolPcs, TargetPcs, ClosePcs
  <2>4. rest
    BY <1>1 DEF CreateBegin, rows, locks, external
  <2>. QED BY <2>1, <2>2, <2>3, <2>4, SetKeepsControl
<1>2. CASE CreateExposure(r)
  <2>1. rest /\ req[r].pc = "c_exposure" /\ req[r] \in RequestRecord /\ RecordOK(req[r])
    BY <1>2 DEF CreateExposure, rows, locks, external, TypeInv, TypeOK, Control
  <2>2. CASE Drop(r, "failed")
    BY <2>1, <2>2, DropKeepsControl DEF Final
  <2>3. CASE ~Drop(r, "failed")
    <3> DEFINE seen == [p \in Reqs |-> IF p \in LivePositions /\ req[p].user = req[r].user
                                       THEN pos[p].notional ELSE 0]
               rec == [req[r] EXCEPT !.pc = "c_risk", !.seen = seen]
    <3>1. Set(r, rec)
      BY <1>2, <2>3 DEF CreateExposure
    <3>2. seen \in [Reqs -> Nat]
      BY DEF TypeInv, TypeOK, PositionRow
    <3>. HIDE DEF seen
    <3>3. rec \in RequestRecord
      BY <2>1, <3>2 DEF RequestRecord, Pcs
    <3>4. rec.pc = "c_risk" /\ rec.user = req[r].user
      BY <2>1 DEF RequestRecord
    <3>5. RecordOK(rec) /\ rec.pc \notin ClosePcs
      BY <2>1, <3>4 DEF RecordOK, UserPcs, SymbolPcs, TargetPcs, ClosePcs
    <3>. QED BY <2>1, <3>1, <3>3, <3>5, SetKeepsControl
  <2>. QED BY <2>2, <2>3
<1>3. CASE CreateRisk(r)
  <2>1. rest /\ req[r].pc = "c_risk" /\ req[r] \in RequestRecord /\ RecordOK(req[r])
    BY <1>3 DEF CreateRisk, rows, locks, external, TypeInv, TypeOK, Control
  <2>2. CASE Drop(r, "rejected")
    BY <2>1, <2>2, DropKeepsControl DEF Final
  <2>3. CASE ~Drop(r, "rejected")
    <3>1. PICK s \in Symbols, q \in Quantities, p \in Prices, margin \in Nat :
            Set(r, [req[r] EXCEPT !.pc = "c_place", !.symbol = s, !.qty = q,
                  !.price = p, !.bal = 0, !.seen = NoReq.seen, !.margin = margin])
      <4>1. PICK s \in Symbols, q \in Quantities, p \in Prices,
                 l \in Requests, m \in Modifiers :
              LET o == Submitted(r, q, p, l, m)
              IN  /\ Decision(o) = "Approved"
                  /\ Set(r, [req[r] EXCEPT !.pc = "c_place", !.symbol = s, !.qty = q,
                       !.price = p, !.bal = 0, !.seen = NoReq.seen,
                       !.margin = RequiredMargin(OrderNotional(o), LeverageOf(o))])
        BY <1>3, <2>3 DEF CreateRisk
      <4> DEFINE o == Submitted(r, q, p, l, m)
                 margin == RequiredMargin(OrderNotional(o), LeverageOf(o))
      <4>2. margin \in Nat
        BY <2>1, <4>1, RiskApproved
      <4>. HIDE DEF margin
      <4>3. Set(r, [req[r] EXCEPT !.pc = "c_place", !.symbol = s, !.qty = q,
                  !.price = p, !.bal = 0, !.seen = NoReq.seen, !.margin = margin])
        BY <4>1 DEF margin
      <4>. QED BY <4>2, <4>3
    <3> DEFINE rec == [req[r] EXCEPT !.pc = "c_place", !.symbol = s, !.qty = q,
                  !.price = p, !.bal = 0, !.seen = NoReq.seen, !.margin = margin]
    <3>2. NoReq.seen \in [Reqs -> Nat] /\ q \in Int /\ p \in Nat
      BY LedgerAssumption DEF NoReq
    <3>3. rec \in RequestRecord
      BY <2>1, <3>2 DEF RequestRecord, Pcs
    <3>4. rec.pc = "c_place" /\ rec.user = req[r].user /\ rec.symbol = s
      BY <2>1 DEF RequestRecord
    <3>5. RecordOK(rec) /\ rec.pc \notin ClosePcs
      BY <2>1, <3>4 DEF RecordOK, UserPcs, SymbolPcs, TargetPcs, ClosePcs
    <3>. QED BY <2>1, <3>1, <3>3, <3>5, SetKeepsControl
  <2>. QED BY <2>2, <2>3
<1>. QED BY <1>1, <1>2, <1>3

LEMMA TypeCreateExternal ==
  ASSUME TypeInv, NEW r \in Reqs, CreatePlace(r) \/ CreateFlush(r)
  PROVE  TypeInv'
<1>1. CASE CreatePlace(r)
  <2>1. /\ UNCHANGED <<account, pos, order, peak, accLock, posLock, key, uds, budget>>
        /\ req[r].pc = "c_place" /\ req[r] \in RequestRecord /\ RecordOK(req[r])
    BY <1>1 DEF CreatePlace, rows, locks, TypeInv, TypeOK, Control
  <2>2. PICK e \in {"none", "resting", "filled"} :
          /\ exchange' = [exchange EXCEPT ![r] = e]
          /\ \/ Set(r, [req[r] EXCEPT !.pc = "c_flush",
                          !.status = IF e = "filled" THEN "FILLED" ELSE "NEW"])
             \/ Drop(r, "failed")
    BY <1>1 DEF CreatePlace
  <2>3. exchange' \in [Reqs -> {"none", "resting", "filled", "cancelled"}]
    BY <2>2 DEF TypeInv, TypeOK
  <2>4. req' \in [Reqs -> RequestRecord] /\ Control'
    <3>1. CASE Drop(r, "failed")
      BY <2>1, <3>1, DropKeepsControl DEF Final
    <3>2. CASE ~Drop(r, "failed")
      <4> DEFINE st == IF e = "filled" THEN "FILLED" ELSE "NEW"
                 rec == [req[r] EXCEPT !.pc = "c_flush", !.status = st]
      <4>0. st \in {"NEW", "FILLED"}
        OBVIOUS
      <4>1. rec \in RequestRecord
        BY <2>1, <4>0, RecordTypes
      <4>2. rec.pc = "c_flush" /\ rec.user = req[r].user /\ rec.symbol = req[r].symbol
        BY <2>1 DEF RequestRecord
      <4>3. RecordOK(rec) /\ rec.pc \notin ClosePcs
        BY <2>1, <4>2 DEF RecordOK, UserPcs, SymbolPcs, TargetPcs, ClosePcs
      <4>. QED BY <2>1, <2>2, <3>2, <4>1, <4>3, SetKeepsControl
    <3>. QED BY <3>1, <3>2
  <2>. QED BY <2>1, <2>3, <2>4 DEF TypeInv, TypeOK
<1>2. CASE CreateFlush(r)
  <2>1. /\ UNCHANGED <<account, pos, order, peak, accLock, posLock, exchange, uds, budget>>
        /\ req[r].pc = "c_flush" /\ req[r] \in RequestRecord /\ RecordOK(req[r])
    BY <1>2 DEF CreateFlush, rows, locks, TypeInv, TypeOK, Control
  <2>2. key' \in [Reqs -> BOOLEAN] /\ (Goto(r, "c_lock") \/ Drop(r, "failed"))
    BY <1>2 DEF CreateFlush, TypeInv, TypeOK
  <2>3. req' \in [Reqs -> RequestRecord] /\ Control'
    <3>1. CASE Drop(r, "failed")
      BY <2>1, <3>1, DropKeepsControl DEF Final
    <3>2. CASE Goto(r, "c_lock")
      <4> DEFINE rec == [req[r] EXCEPT !.pc = "c_lock"]
      <4>1. rec \in RequestRecord
        BY <2>1, RecordTypes DEF Pcs
      <4>2. rec.pc = "c_lock" /\ rec.user = req[r].user /\ rec.symbol = req[r].symbol
        BY <2>1 DEF RequestRecord
      <4>3. RecordOK(rec) /\ rec.pc \notin ClosePcs
        BY <2>1, <4>2 DEF RecordOK, UserPcs, SymbolPcs, TargetPcs, ClosePcs
      <4>. QED BY <2>1, <3>2, <4>1, <4>3, SetKeepsControl DEF Goto
    <3>. QED BY <2>2, <3>1, <3>2
  <2>. QED BY <2>1, <2>2, <2>3 DEF TypeInv, TypeOK
<1>. QED BY <1>1, <1>2

LEMMA TypeCreateLock ==
  ASSUME TypeInv, NEW r \in Reqs, CreateLock(r)
  PROVE  TypeInv'
<1>1. /\ UNCHANGED <<account, pos, order, peak, posLock, exchange, key, uds, budget>>
      /\ req[r].pc = "c_lock" /\ req[r] \in RequestRecord /\ RecordOK(req[r])
  BY DEF CreateLock, rows, external, TypeInv, TypeOK, Control
<1>2. accLock' \in [Users -> Owners]
  BY DEF CreateLock, TypeInv, TypeOK, Owners
<1>3. PICK t \in Reqs, n \in Int, m \in Nat :
        Set(r, [req[r] EXCEPT !.pc = "c_commit", !.target = t,
                 !.mu = req[r].mu + req[r].margin, !.newQty = n, !.newMargin = m])
  <2>1. req[r].qty \in Int /\ req[r].margin \in Nat
    BY <1>1 DEF RequestRecord
  <2>2. \A p \in Reqs : pos[p].qty + req[r].qty \in Int /\ pos[p].margin + req[r].margin \in Nat
    BY <2>1 DEF TypeInv, TypeOK, PositionRow
  <2>. QED BY <2>1, <2>2 DEF CreateLock, SelectPosition, LiveOf, LivePositions
<1> DEFINE rec == [req[r] EXCEPT !.pc = "c_commit", !.target = t,
                     !.mu = req[r].mu + req[r].margin, !.newQty = n, !.newMargin = m]
<1>4. rec \in RequestRecord
  <2>1. req[r].mu + req[r].margin \in Nat
    BY <1>1 DEF RequestRecord
  <2>. QED BY <1>1, <2>1 DEF RequestRecord, Pcs
<1>5. rec.pc = "c_commit" /\ rec.user = req[r].user /\ rec.symbol = req[r].symbol
      /\ rec.target = t
  BY <1>1 DEF RequestRecord
<1>6. RecordOK(rec) /\ rec.pc \notin ClosePcs
  BY <1>1, <1>5 DEF RecordOK, UserPcs, SymbolPcs, TargetPcs, ClosePcs
<1>7. req' \in [Reqs -> RequestRecord] /\ Control'
  BY <1>1, <1>3, <1>4, <1>6, SetKeepsControl
<1>. QED BY <1>1, <1>2, <1>7 DEF TypeInv, TypeOK

\* What answering a request, with positions only added or closed, keeps.
LEMMA AnswerKeepsControl ==
  ASSUME TypeInv, NEW r \in Reqs, Answer(r, "done"), req[r].pc # "done",
         \A p \in Reqs : Booked(p) => Booked(p)',
         \A p \in Reqs : Booked(p)' => Booked(p) \/ p = r,
         Booked(r)' => req[r].user \in Users /\ req[r].symbol \in Symbols,
         \A p \in Reqs : posLock'[p] = Uds => posLock[p] = Uds, UNCHANGED uds
  PROVE  req' \in [Reqs -> RequestRecord] /\ Control'
<1> DEFINE rec == [NoReq EXCEPT !.pc = "done", !.user = req[r].user, !.symbol = req[r].symbol,
                                !.qty = req[r].qty, !.margin = req[r].margin]
<1>1. rec \in RequestRecord
  BY RecordTypes DEF Final, TypeInv, TypeOK
<1>2. RecordOK(rec) /\ rec.pc = "done" /\ rec.user = req[r].user /\ rec.symbol = req[r].symbol
  BY DEF RecordOK, NoReq, UserPcs, SymbolPcs, TargetPcs, ClosePcs
<1>3. req' \in [Reqs -> RequestRecord] /\ req'[r] = rec
      /\ \A p \in Reqs \ {r} : req'[p] = req[p]
  BY <1>1 DEF Answer, Set, TypeInv, TypeOK
<1>. HIDE DEF rec
<1>4. \A q \in Reqs : RecordOK(req[q])'
  BY <1>2, <1>3 DEF TypeInv, Control, RecordOK
<1>5. \A q \in Reqs : req'[q].pc \in ClosePcs => pos'[req'[q].target].state # "absent"
  BY <1>2, <1>3 DEF TypeInv, Control, RecordOK, ClosePcs, TargetPcs, Booked
<1>6. \A p \in Reqs : Booked(p)' => /\ req'[p].pc = "done"
                                    /\ req'[p].user \in Users /\ req'[p].symbol \in Symbols
  BY <1>2, <1>3 DEF TypeInv, Control
<1>7. \A p \in uds'.todo : Booked(p)'
  BY DEF TypeInv, Control, TypeOK, UdsRecord
<1>8. \A p \in Reqs : posLock'[p] = Uds => Booked(p)'
  BY DEF TypeInv, Control
<1>. QED BY <1>3, <1>4, <1>5, <1>6, <1>7, <1>8 DEF Control, Booked

LEMMA TypeCreateCommit ==
  ASSUME TypeInv, NEW r \in Reqs, CreateCommit(r)
  PROVE  TypeInv'
<1> DEFINE t == req[r].target
<1>1. /\ UNCHANGED <<peak, exchange, key, uds, budget>>
      /\ req[r].pc = "c_commit" /\ req[r] \in RequestRecord
      /\ req[r].user \in Users /\ req[r].symbol \in Symbols /\ t \in Reqs
  BY DEF CreateCommit, external, TypeInv, TypeOK, Control, RecordOK,
         UserPcs, SymbolPcs, TargetPcs
<1>2. WrittenPosition(r) \in PositionRow
  <2>1. Abs(req[r].newQty) * req[r].price \in Nat /\ req[r].newQty \in Int
        /\ req[r].newMargin \in Nat
    BY <1>1, Arithmetic DEF RequestRecord
  <2>2. pos[t].state \in {"absent", "live", "liquidated"}
    BY <1>1 DEF TypeInv, TypeOK, PositionRow
  <2>. QED BY <2>1, <2>2 DEF WrittenPosition, PositionRow
<1>3. pos' = [pos EXCEPT ![t] = WrittenPosition(r)]
  BY DEF CreateCommit
<1>4. pos' \in [Reqs -> PositionRow]
  BY <1>1, <1>2, <1>3 DEF TypeInv, TypeOK
<1>5. account' \in [Users -> [balance: Nat, marginUsed: Nat]]
  <2>1. req[r].mu \in Nat
    BY <1>1 DEF RequestRecord
  <2>. QED BY <2>1, <1>1 DEF CreateCommit, TypeInv, TypeOK
<1>6. order' \in [Reqs -> OrderRow]
  <2>1. [status |-> req[r].status, target |-> t] \in OrderRow
    BY <1>1 DEF RequestRecord, OrderRow
  <2>. QED BY <2>1 DEF CreateCommit, TypeInv, TypeOK
<1>7. accLock' \in [Users -> Owners] /\ posLock' \in [Reqs -> {Uds, None}]
  BY FreeTypes DEF CreateCommit
<1>8. req' \in [Reqs -> RequestRecord] /\ Control'
  <2>1. pos'[t] = WrittenPosition(r) /\ \A p \in Reqs \ {t} : pos'[p] = pos[p]
    BY <1>1, <1>3 DEF TypeInv, TypeOK
  <2>2. WrittenPosition(r).state = IF t = r THEN "live" ELSE pos[t].state
    BY DEF WrittenPosition
  <2>3. \A p \in Reqs : Booked(p) => Booked(p)'
    BY <2>1, <2>2 DEF Booked
  <2>4. \A p \in Reqs : Booked(p)' => Booked(p) \/ p = r
    BY <2>1, <2>2 DEF Booked
  <2>. QED BY <1>1, <2>3, <2>4, FreeTypes, AnswerKeepsControl DEF CreateCommit
<1>. QED BY <1>1, <1>4, <1>5, <1>6, <1>7, <1>8 DEF TypeInv, TypeOK

LEMMA TypeClose ==
  ASSUME TypeInv, NEW r \in Reqs, ClosePosition(r)
  PROVE  TypeInv'
<1>1. CASE CloseBegin(r)
  <2>1. /\ UNCHANGED <<account, pos, order, peak, accLock, posLock, exchange, key, uds, budget>>
        /\ req[r].pc = "idle"
    BY <1>1 DEF CloseBegin, rows, locks, external
  <2>2. CASE Drop(r, "rejected")
    BY <2>1, <2>2, DropKeepsControl DEF Final, TypeInv, TypeOK
  <2>3. CASE ~Drop(r, "rejected")
    <3>1. PICK u \in Users, s \in Symbols, p \in Reqs :
            /\ pos[p].state = "live"
            /\ Set(r, [NoReq EXCEPT !.pc = "x_place", !.user = u, !.symbol = s,
                         !.target = p, !.qty = pos[p].qty, !.margin = pos[p].margin])
      BY <1>1, <2>3 DEF CloseBegin, LiveOf, LivePositions
    <3> DEFINE rec == [NoReq EXCEPT !.pc = "x_place", !.user = u, !.symbol = s,
                         !.target = p, !.qty = pos[p].qty, !.margin = pos[p].margin]
    <3>2. rec \in RequestRecord
      BY ConstantTypes DEF RequestRecord, TypeInv, TypeOK, Pcs, PositionRow
    <3>3. RecordOK(rec) /\ Booked(rec.target)
      BY <3>1 DEF NoReq, RecordOK, Booked
    <3>. QED BY <2>1, <3>1, <3>2, <3>3, SetKeepsControl DEF TypeInv, TypeOK
  <2>. QED BY <2>2, <2>3
<1>2. CASE ClosePlace(r)
  <2>1. /\ UNCHANGED <<account, pos, order, peak, accLock, posLock, exchange, key, uds, budget>>
        /\ req[r].pc = "x_place" /\ req[r] \in RequestRecord /\ RecordOK(req[r])
        /\ Booked(req[r].target)
    BY <1>2 DEF ClosePlace, rows, locks, external, TypeInv, TypeOK, Control, ClosePcs
  <2>2. CASE Drop(r, "failed")
    BY <2>1, <2>2, DropKeepsControl DEF Final, TypeInv, TypeOK
  <2>3. CASE Goto(r, "x_account")
    <3> DEFINE rec == [req[r] EXCEPT !.pc = "x_account"]
    <3>1. rec \in RequestRecord
      BY <2>1, RecordTypes DEF Pcs
    <3>2. rec.pc = "x_account" /\ rec.user = req[r].user /\ rec.symbol = req[r].symbol
          /\ rec.target = req[r].target
      BY <2>1 DEF RequestRecord
    <3>3. RecordOK(rec)
      BY <2>1, <3>2 DEF RecordOK, UserPcs, SymbolPcs, TargetPcs, ClosePcs
    <3>. QED BY <2>1, <2>3, <3>1, <3>2, <3>3, SetKeepsControl DEF Goto, TypeInv, TypeOK
  <2>. QED BY <1>2, <2>2, <2>3 DEF ClosePlace
<1>3. CASE CloseAccount(r)
  <2>1. /\ UNCHANGED <<account, pos, order, peak, accLock, posLock, exchange, key, uds, budget>>
        /\ req[r].pc = "x_account" /\ req[r] \in RequestRecord /\ RecordOK(req[r])
        /\ Booked(req[r].target)
    BY <1>3 DEF CloseAccount, rows, locks, external, TypeInv, TypeOK, Control, ClosePcs
  <2> DEFINE mu == account[req[r].user].marginUsed
             new == ReleasedMargin(mu, req[r].margin)
             rec == [req[r] EXCEPT !.mu = new, !.pc = IF new # mu THEN "x_lock" ELSE "x_commit"]
  <2>2. mu \in Nat /\ req[r].margin \in Nat
    BY <2>1 DEF RecordOK, UserPcs, TypeInv, TypeOK, RequestRecord
  <2>3. new \in Nat
    BY <2>2, Arithmetic
  <2>4. Set(r, rec)
    BY <1>3 DEF CloseAccount
  <2>. HIDE DEF new, mu
  <2>5. rec \in RequestRecord
    BY <2>1, <2>3 DEF RequestRecord, Pcs
  <2>6. rec.pc \in {"x_lock", "x_commit"} /\ rec.user = req[r].user
        /\ rec.symbol = req[r].symbol /\ rec.target = req[r].target
    BY <2>1 DEF RequestRecord
  <2>7. RecordOK(rec)
    BY <2>1, <2>6 DEF RecordOK, UserPcs, SymbolPcs, TargetPcs, ClosePcs
  <2>. QED BY <2>1, <2>4, <2>5, <2>6, <2>7, SetKeepsControl DEF TypeInv, TypeOK
<1>4. CASE CloseLock(r)
  <2>1. /\ UNCHANGED <<account, pos, order, peak, posLock, exchange, key, uds, budget>>
        /\ req[r].pc = "x_lock" /\ req[r] \in RequestRecord /\ RecordOK(req[r])
        /\ Booked(req[r].target) /\ Goto(r, "x_commit")
    BY <1>4 DEF CloseLock, rows, external, TypeInv, TypeOK, Control, ClosePcs
  <2>2. accLock' \in [Users -> Owners]
    BY <1>4 DEF CloseLock, TypeInv, TypeOK, Owners
  <2> DEFINE rec == [req[r] EXCEPT !.pc = "x_commit"]
  <2>3. rec \in RequestRecord
    BY <2>1, RecordTypes DEF Pcs
  <2>4. rec.pc = "x_commit" /\ rec.user = req[r].user /\ rec.symbol = req[r].symbol
        /\ rec.target = req[r].target
    BY <2>1 DEF RequestRecord
  <2>5. RecordOK(rec)
    BY <2>1, <2>4 DEF RecordOK, UserPcs, SymbolPcs, TargetPcs, ClosePcs
  <2>. QED BY <2>1, <2>2, <2>3, <2>4, <2>5, SetKeepsControl DEF Goto, TypeInv, TypeOK
<1>5. CASE CloseCommit(r)
  <2> DEFINE t == req[r].target
  <2>1. /\ UNCHANGED <<peak, exchange, key, uds, budget>>
        /\ req[r].pc = "x_commit" /\ req[r] \in RequestRecord
        /\ req[r].user \in Users /\ req[r].symbol \in Symbols /\ t \in Reqs /\ Booked(t)
    BY <1>5 DEF CloseCommit, external, TypeInv, TypeOK, Control, RecordOK,
           UserPcs, SymbolPcs, TargetPcs, ClosePcs
  <2>2. pos' = [pos EXCEPT ![t].state = "liquidated"]
    BY <1>5 DEF CloseCommit
  <2>3. pos' \in [Reqs -> PositionRow]
    BY <2>1, <2>2 DEF TypeInv, TypeOK, PositionRow
  <2>4. account' \in [Users -> [balance: Nat, marginUsed: Nat]]
    <3>1. req[r].mu \in Nat
      BY <2>1 DEF RequestRecord
    <3>. QED BY <3>1, <2>1, <1>5 DEF CloseCommit, TypeInv, TypeOK
  <2>5. order' \in [Reqs -> OrderRow]
    BY <1>5 DEF CloseCommit, TypeInv, TypeOK, OrderRow
  <2>6. accLock' \in [Users -> Owners] /\ posLock' \in [Reqs -> {Uds, None}]
    BY <1>5, FreeTypes DEF CloseCommit
  <2>7. req' \in [Reqs -> RequestRecord] /\ Control'
    <3>1. \A p \in Reqs \ {t} : pos'[p] = pos[p]
      BY <2>1, <2>2 DEF TypeInv, TypeOK
    <3>2. pos'[t].state = "liquidated"
      BY <2>1, <2>2 DEF TypeInv, TypeOK, PositionRow
    <3>3. \A p \in Reqs : Booked(p) <=> Booked(p)'
      BY <2>1, <3>1, <3>2 DEF Booked
    <3>. QED BY <1>5, <2>1, <3>3, FreeTypes, AnswerKeepsControl DEF CloseCommit
  <2>. QED BY <2>1, <2>3, <2>4, <2>5, <2>6, <2>7 DEF TypeInv, TypeOK
<1>. QED BY <1>1, <1>2, <1>3, <1>4, <1>5 DEF ClosePosition

LEMMA TypeCancel ==
  ASSUME TypeInv, NEW r \in Reqs, CancelOrder(r)
  PROVE  TypeInv'
<1>1. CASE CancelBegin(r)
  <2>1. /\ UNCHANGED <<account, pos, order, peak, accLock, posLock, exchange, key, uds, budget>>
        /\ req[r].pc = "idle"
    BY <1>1 DEF CancelBegin, rows, locks, external
  <2>2. CASE Drop(r, "rejected")
    BY <2>1, <2>2, DropKeepsControl DEF Final, TypeInv, TypeOK
  <2>3. CASE ~Drop(r, "rejected")
    <3>1. PICK o \in Reqs, pc \in {"k_place", "k_commit"} :
            Set(r, [NoReq EXCEPT !.pc = pc, !.target = o])
      BY <1>1, <2>3 DEF CancelBegin
    <3> DEFINE rec == [NoReq EXCEPT !.pc = pc, !.target = o]
    <3>2. rec \in RequestRecord
      BY ConstantTypes DEF RequestRecord, Pcs
    <3>3. RecordOK(rec) /\ rec.pc \notin ClosePcs
      BY DEF NoReq, RecordOK, UserPcs, SymbolPcs, ClosePcs
    <3>. QED BY <2>1, <3>1, <3>2, <3>3, SetKeepsControl DEF TypeInv, TypeOK
  <2>. QED BY <2>2, <2>3
<1>2. CASE CancelPlace(r)
  <2>1. /\ UNCHANGED <<account, pos, order, peak, accLock, posLock, key, uds, budget>>
        /\ req[r].pc = "k_place" /\ req[r] \in RequestRecord /\ RecordOK(req[r])
        /\ (Goto(r, "k_commit") \/ Drop(r, "failed"))
    BY <1>2 DEF CancelPlace, rows, locks, TypeInv, TypeOK, Control
  <2>2. exchange' \in [Reqs -> {"none", "resting", "filled", "cancelled"}]
    BY <1>2 DEF CancelPlace, TypeInv, TypeOK
  <2>3. CASE Drop(r, "failed")
    BY <2>1, <2>2, <2>3, DropKeepsControl DEF Final, TypeInv, TypeOK
  <2>4. CASE Goto(r, "k_commit")
    <3> DEFINE rec == [req[r] EXCEPT !.pc = "k_commit"]
    <3>1. rec \in RequestRecord
      BY <2>1, RecordTypes DEF Pcs
    <3>2. rec.pc = "k_commit" /\ rec.target = req[r].target
      BY <2>1 DEF RequestRecord
    <3>3. RecordOK(rec) /\ rec.pc \notin ClosePcs
      BY <2>1, <3>2 DEF RecordOK, UserPcs, SymbolPcs, TargetPcs, ClosePcs
    <3>. QED BY <2>1, <2>2, <2>4, <3>1, <3>3, SetKeepsControl DEF Goto, TypeInv, TypeOK
  <2>. QED BY <2>1, <2>3, <2>4
<1>3. CASE CancelCommit(r)
  <2>1. /\ UNCHANGED <<account, pos, peak, accLock, posLock, exchange, key, uds, budget>>
        /\ req[r].pc = "k_commit" /\ Answer(r, "done")
    BY <1>3 DEF CancelCommit, locks, external
  <2>2. order' \in [Reqs -> OrderRow]
    <3> DEFINE o == req[r].target
    <3>1. order' = [order EXCEPT ![o] = [order[o] EXCEPT !.status = "CANCELED"]]
      BY <1>3 DEF CancelCommit
    <3>2. \A row \in OrderRow : [row EXCEPT !.status = "CANCELED"] \in OrderRow
      BY DEF OrderRow
    <3>3. order \in [Reqs -> OrderRow]
      BY DEF TypeInv, TypeOK
    <3>. HIDE DEF o
    <3>. QED BY <3>1, <3>2, <3>3
  <2>3. \A p \in Reqs : (Booked(p) <=> Booked(p)') /\ (Booked(p) => p # r)
    BY <2>1 DEF Booked, TypeInv, Control
  <2>4. req' \in [Reqs -> RequestRecord] /\ Control'
    BY <2>1, <2>3, AnswerKeepsControl
  <2>. QED BY <2>1, <2>2, <2>4 DEF TypeInv, TypeOK
<1>. QED BY <1>1, <1>2, <1>3 DEF CancelOrder

LEMMA TypeSync ==
  ASSUME TypeInv, NEW r \in Reqs, SyncBalance(r)
  PROVE  TypeInv'
<1>1. CASE SyncBegin(r)
  <2>1. /\ UNCHANGED <<account, pos, order, peak, accLock, posLock, exchange, key, uds, budget>>
        /\ req[r].pc = "idle"
    BY <1>1 DEF SyncBegin, rows, locks, external
  <2>2. PICK u \in Users :
          Set(r, [NoReq EXCEPT !.pc = "s_wallet", !.user = u, !.bal = account[u].balance])
    BY <1>1 DEF SyncBegin
  <2> DEFINE rec == [NoReq EXCEPT !.pc = "s_wallet", !.user = u, !.bal = account[u].balance]
  <2>3. rec \in RequestRecord
    BY ConstantTypes DEF RequestRecord, TypeInv, TypeOK, Pcs
  <2>4. RecordOK(rec) /\ rec.pc \notin ClosePcs
    BY DEF NoReq, RecordOK, UserPcs, SymbolPcs, TargetPcs, ClosePcs
  <2>. QED BY <2>1, <2>2, <2>3, <2>4, SetKeepsControl DEF TypeInv, TypeOK
<1>2. CASE SyncWallet(r)
  <2>1. /\ UNCHANGED <<account, pos, order, peak, accLock, posLock, exchange, key, uds, budget>>
        /\ req[r].pc = "s_wallet" /\ req[r] \in RequestRecord /\ RecordOK(req[r])
    BY <1>2 DEF SyncWallet, rows, locks, external, TypeInv, TypeOK, Control
  <2>2. CASE Drop(r, "done")
    BY <2>1, <2>2, DropKeepsControl DEF Final, TypeInv, TypeOK
  <2>3. CASE ~Drop(r, "done")
    <3>1. PICK w \in Wallets : Set(r, [req[r] EXCEPT !.pc = "s_commit", !.bal = w])
      BY <1>2, <2>3 DEF SyncWallet
    <3> DEFINE rec == [req[r] EXCEPT !.pc = "s_commit", !.bal = w]
    <3>2. rec \in RequestRecord
      BY <2>1, LedgerAssumption, RecordTypes
    <3>3. rec.pc = "s_commit" /\ rec.user = req[r].user
      BY <2>1 DEF RequestRecord
    <3>4. RecordOK(rec) /\ rec.pc \notin ClosePcs
      BY <2>1, <3>3 DEF RecordOK, UserPcs, SymbolPcs, TargetPcs, ClosePcs
    <3>. QED BY <2>1, <3>1, <3>2, <3>4, SetKeepsControl DEF TypeInv, TypeOK
  <2>. QED BY <2>2, <2>3
<1>3. CASE SyncCommit(r)
  <2>1. /\ UNCHANGED <<pos, order, accLock, posLock, exchange, key, uds, budget>>
        /\ req[r].pc = "s_commit" /\ req[r] \in RequestRecord /\ Drop(r, "done")
    BY <1>3 DEF SyncCommit, locks, external, TypeInv, TypeOK
  <2>2. req[r].bal \in Nat
    BY <2>1 DEF RequestRecord
  <2>3. account' \in [Users -> [balance: Nat, marginUsed: Nat]]
    BY <2>2, <1>3 DEF SyncCommit, TypeInv, TypeOK
  <2>4. peak' \in [Users -> Nat]
    BY <2>2, <1>3, Arithmetic DEF SyncCommit, TypeInv, TypeOK
  <2>5. req' \in [Reqs -> RequestRecord] /\ Control'
    BY <2>1, DropKeepsControl DEF Final
  <2>. QED BY <2>1, <2>3, <2>4, <2>5 DEF TypeInv, TypeOK
<1>. QED BY <1>1, <1>2, <1>3 DEF SyncBalance

LEMMA TypeLiquidate ==
  ASSUME TypeInv, Liquidate
  PROVE  TypeInv'
<1>1. uds \in UdsRecord /\ uds.todo \subseteq Reqs
  BY DEF TypeInv, TypeOK, UdsRecord
<1>2. ASSUME NEW s \in Symbols, UdsBegin(s)
      PROVE  TypeInv'
  <2> DEFINE live == {p \in LivePositions : req[p].symbol = s}
             seen == [p \in Reqs |-> IF p \in live THEN pos[p].margin ELSE 0]
  <2>1. /\ UNCHANGED <<account, pos, order, peak, accLock, posLock, exchange, key, req>>
        /\ budget.events > 0 /\ budget' = [budget EXCEPT !.events = @ - 1]
        /\ uds' = [IdleUds EXCEPT !.busy = TRUE, !.todo = live, !.began = live, !.seen = seen]
    BY <1>2 DEF UdsBegin, rows, locks, external
  <2>2. live \subseteq Reqs /\ (\A p \in live : Booked(p)) /\ seen \in [Reqs -> Nat]
    BY DEF LivePositions, Booked, TypeInv, TypeOK, PositionRow
  <2>. HIDE DEF live, seen
  <2>3. uds' \in UdsRecord /\ uds'.todo = live
    BY <2>1, <2>2, ConstantTypes DEF UdsRecord
  <2>4. budget' \in [events: Nat, crashes: Nat]
    BY <2>1 DEF TypeInv, TypeOK
  <2>5. Control'
    BY <2>1, <2>2, <2>3 DEF TypeInv, Control, Booked
  <2>. QED BY <2>1, <2>3, <2>4, <2>5 DEF TypeInv, TypeOK
<1>3. ASSUME NEW p \in Reqs, UdsPosition(p)
      PROVE  TypeInv'
  <2> DEFINE u == req[p].user
             new == ReleasedMargin(account[u].marginUsed, uds.seen[p])
  <2>1. /\ UNCHANGED <<account, pos, order, peak, exchange, key, req, budget>>
        /\ p \in uds.todo /\ posLock' = [posLock EXCEPT ![p] = Uds]
        /\ uds' = [uds EXCEPT !.todo = @ \ {p}, !.mu[u] = new,
                     !.pending = IF new # account[u].marginUsed THEN u ELSE None]
    BY <1>3 DEF UdsPosition, rows, external
  <2>2. u \in Users /\ new \in Nat
    BY <2>1, Arithmetic DEF TypeInv, TypeOK, Control, UdsRecord
  <2>. HIDE DEF new, u
  <2>3. uds' \in UdsRecord /\ uds'.todo \subseteq uds.todo
    BY <1>1, <2>1, <2>2 DEF UdsRecord
  <2>4. accLock' \in [Users -> Owners] /\ posLock' \in [Reqs -> {Uds, None}]
    BY <1>3, <2>1 DEF UdsPosition, UdsFlushed, TypeInv, TypeOK, Owners
  <2>5. \A q \in Reqs : posLock'[q] = Uds => q = p \/ posLock[q] = Uds
    BY <2>1 DEF TypeInv, TypeOK
  <2>6. Booked(p)
    BY <2>1 DEF TypeInv, Control
  <2>7. Control'
    BY <2>1, <2>3, <2>5, <2>6 DEF TypeInv, Control, Booked
  <2>. QED BY <2>1, <2>3, <2>4, <2>7 DEF TypeInv, TypeOK
<1>4. CASE UdsCommit
  <2>1. UNCHANGED <<order, peak, exchange, key, req, budget>>
    BY <1>4 DEF UdsCommit, external
  <2>2. pos' = [p \in Reqs |-> IF posLock[p] = Uds THEN [pos[p] EXCEPT !.state = "liquidated"]
                                                   ELSE pos[p]]
    BY <1>4 DEF UdsCommit
  <2>3. pos' \in [Reqs -> PositionRow]
    <3>1. \A row \in PositionRow : [row EXCEPT !.state = "liquidated"] \in PositionRow
      BY DEF PositionRow
    <3>2. \A p \in Reqs : pos[p] \in PositionRow
      BY DEF TypeInv, TypeOK
    <3>. QED BY <2>2, <3>1, <3>2
  <2>4. account' \in [Users -> [balance: Nat, marginUsed: Nat]]
    BY <1>1, <1>4 DEF UdsCommit, TypeInv, TypeOK, UdsRecord
  <2>5. uds' \in UdsRecord /\ uds'.todo = {}
    BY <1>1, <1>4, ConstantTypes DEF UdsCommit, UdsRecord, IdleUds
  <2>6. accLock' \in [Users -> Owners] /\ posLock' \in [Reqs -> {Uds, None}]
    BY <1>4, FreeTypes DEF UdsCommit
  <2>7. Control'
    <3>1. \A p \in Reqs : Booked(p) <=> Booked(p)'
      BY <2>2 DEF Booked, TypeInv, TypeOK, Control, PositionRow
    <3>2. \A p \in Reqs : posLock'[p] # Uds
      BY <1>4, FreeTypes DEF UdsCommit
    <3>3. \A r \in Reqs : req[r].pc \in ClosePcs => req[r].target \in Reqs
      BY DEF TypeInv, Control, RecordOK, TargetPcs
    <3>. QED BY <2>1, <2>5, <3>1, <3>2, <3>3 DEF TypeInv, Control, Booked
  <2>. QED BY <2>1, <2>3, <2>4, <2>5, <2>6, <2>7 DEF TypeInv, TypeOK
<1>. QED BY <1>2, <1>3, <1>4 DEF Liquidate

LEMMA TypeEnvironment ==
  ASSUME TypeInv, \/ DetectDeadlock \/ (\E o \in Reqs : ExchangeFill(o) \/ KeyExpire(o))
                  \/ Crash \/ Quiet \/ UNCHANGED vars
  PROVE  TypeInv'
<1>1. ASSUME NEW r \in Reqs, DeadlockedWith(r), Abort(r), UNCHANGED <<uds, rows, external, budget>>
      PROVE  TypeInv'
  <2>1. req[r].pc # "done"
    BY <1>1 DEF DeadlockedWith
  <2>2. accLock' \in [Users -> Owners] /\ posLock' \in [Reqs -> {Uds, None}]
        /\ \A p \in Reqs : posLock'[p] = Uds => posLock[p] = Uds
    BY <1>1, FreeTypes DEF Abort
  <2>3. [NoReq EXCEPT !.pc = "failed"] \in RequestRecord
    BY ConstantTypes, RecordTypes DEF Final
  <2>4. req' = [req EXCEPT ![r] = [NoReq EXCEPT !.pc = "failed"]]
    BY <1>1 DEF Abort, Drop, Set
  <2>5. [NoReq EXCEPT !.pc = "failed"].pc = "failed"
    BY DEF NoReq
  <2>. DEFINE rec == [NoReq EXCEPT !.pc = "failed"]
  <2>. HIDE DEF rec
  <2>6. req' \in [Reqs -> RequestRecord] /\ req'[r] = rec /\ rec.pc = "failed"
        /\ \A p \in Reqs \ {r} : req'[p] = req[p]
    BY <2>3, <2>4, <2>5 DEF rec, TypeInv, TypeOK
  <2>7. RecordOK(rec)
    BY <2>6 DEF RecordOK, UserPcs, SymbolPcs, TargetPcs, ClosePcs
  <2>8. ~Booked(r) /\ pos' = pos /\ uds' = uds /\ uds.todo \subseteq Reqs
    BY <1>1, <2>1 DEF TypeInv, TypeOK, Control, rows, UdsRecord
  <2>9. Control'
    BY <2>2, <2>6, <2>7, <2>8 DEF TypeInv, Control, Booked, RecordOK, ClosePcs, TargetPcs
  <2>. QED BY <1>1, <2>2, <2>6, <2>9 DEF TypeInv, TypeOK, rows, external
<1>2. ASSUME UdsAbort, UNCHANGED <<req, rows, external, budget>>
      PROVE  TypeInv'
  <2>1. accLock' \in [Users -> Owners] /\ posLock' \in [Reqs -> {Uds, None}]
        /\ \A p \in Reqs : posLock'[p] # Uds
    BY <1>2, FreeTypes DEF UdsAbort
  <2>2. uds' \in UdsRecord /\ uds'.todo = {}
    BY <1>2, ConstantTypes DEF UdsAbort, UdsRecord, IdleUds, TypeInv, TypeOK
  <2>3. req' = req /\ pos' = pos
    BY <1>2 DEF rows
  <2>4. Control'
    BY <2>1, <2>2, <2>3 DEF TypeInv, Control, Booked
  <2>. QED BY <1>2, <2>1, <2>2, <2>4 DEF TypeInv, TypeOK, rows, external
<1>3. CASE DetectDeadlock
  BY <1>1, <1>2, <1>3 DEF DetectDeadlock
<1>4. ASSUME NEW o \in Reqs, ExchangeFill(o) \/ KeyExpire(o)
      PROVE  TypeInv'
  <2>1. UNCHANGED <<account, pos, order, peak, accLock, posLock, req, uds, budget>>
    BY <1>4 DEF ExchangeFill, KeyExpire, rows, locks
  <2>2. exchange' \in [Reqs -> {"none", "resting", "filled", "cancelled"}]
        /\ key' \in [Reqs -> BOOLEAN]
    BY <1>4 DEF ExchangeFill, KeyExpire, TypeInv, TypeOK
  <2>. QED BY <2>1, <2>2 DEF TypeInv, TypeOK, Control, Booked
<1>5. CASE Crash
  <2>1. UNCHANGED <<account, pos, order, peak, exchange, key>>
    BY <1>5 DEF Crash, rows, external
  <2>2. [NoReq EXCEPT !.pc = "failed"] \in RequestRecord
        /\ [NoReq EXCEPT !.pc = "failed"].pc = "failed"
    BY ConstantTypes, RecordTypes DEF Final, NoReq
  <2>. DEFINE rec == [NoReq EXCEPT !.pc = "failed"]
  <2>3. req' = [r \in Reqs |-> IF r \in InFlight THEN rec ELSE req[r]]
    BY <1>5 DEF Crash
  <2>. HIDE DEF rec
  <2>4. rec \in RequestRecord /\ rec.pc = "failed"
    BY <2>2 DEF rec
  <2>5. req' \in [Reqs -> RequestRecord]
        /\ \A r \in Reqs : req'[r] = rec \/ (req'[r] = req[r] /\ r \notin InFlight)
    BY <2>3, <2>4 DEF TypeInv, TypeOK
  <2>6. RecordOK(rec)
    BY <2>4 DEF RecordOK, UserPcs, SymbolPcs, TargetPcs, ClosePcs
  <2>7. \A p \in Reqs : Booked(p) => p \notin InFlight
    BY DEF TypeInv, Control, InFlight, Final
  <2>8. uds' \in UdsRecord /\ uds'.todo = {} /\ \A p \in Reqs : posLock'[p] = None
    BY <1>5, ConstantTypes DEF Crash, UdsRecord, IdleUds, TypeInv, TypeOK
  <2>9. /\ accLock' \in [Users -> Owners] /\ posLock' \in [Reqs -> {Uds, None}]
        /\ budget' \in [events: Nat, crashes: Nat]
    BY <1>5 DEF Crash, Owners, TypeInv, TypeOK
  <2>10. Control'
    <3>1. \A r \in Reqs : RecordOK(req'[r])
      BY <2>5, <2>6 DEF TypeInv, Control
    <3>2. \A r \in Reqs : req'[r].pc \in ClosePcs => Booked(req'[r].target)
      BY <2>4, <2>5 DEF TypeInv, Control, ClosePcs
    <3>3. \A p \in Reqs : Booked(p) => req'[p] = req[p]
      BY <2>3, <2>7
    <3>4. \A p \in Reqs : posLock'[p] # Uds
      BY <2>8, LedgerAssumption
    <3>5. \A r \in Reqs : req'[r].pc \in ClosePcs => req'[r].target \in Reqs
      BY <3>1 DEF RecordOK, TargetPcs
    <3>. QED BY <2>1, <2>8, <3>1, <3>2, <3>3, <3>4, <3>5 DEF TypeInv, Control, Booked
  <2>. QED BY <2>1, <2>5, <2>8, <2>9, <2>10 DEF TypeInv, TypeOK
<1>6. CASE Quiet \/ UNCHANGED vars
  BY <1>6 DEF Quiet, vars, TypeInv, TypeOK, Control, Booked
<1>. QED BY <1>3, <1>4, <1>5, <1>6

LEMMA TypeStep ==
  ASSUME TypeInv, [Next]_vars
  PROVE  TypeInv'
<1>1. ASSUME NEW r \in Reqs, Step(r)
      PROVE  TypeInv'
  <2>1. CASE CreateOrder(r)
    BY <2>1, TypeCreateLocal, TypeCreateExternal, TypeCreateLock, TypeCreateCommit
       DEF CreateOrder
  <2>. QED BY <1>1, <2>1, TypeClose, TypeCancel, TypeSync DEF Step
<1>. QED BY <1>1, TypeLiquidate, TypeEnvironment DEF Next

\* Every variable keeps its type in every reachable state: no interleaving of
\* handlers, failures and crashes makes a margin or a notional negative.
THEOREM LedgerTypeCorrect == Spec => []TypeOK
<1>1. Spec => []TypeInv
  BY TypeInit, TypeStep, PTL DEF Spec
<1>2. TypeInv => TypeOK
  BY DEF TypeInv
<1>. QED BY <1>1, <1>2, PTL
-----------------------------------------------------------------------------
(***************************************************************************)
(* MarginUsedWithinBalance.  Committed margin_used may be computed from a   *)
(* stale copy, so the invariant follows each copy: what a request has read  *)
(* is bounded by the peak balance until the risk engine decides, what it    *)
(* is going to write after.                                                *)
(***************************************************************************)
ReadPcs == {"c_exposure", "c_risk"}
ApprovedPcs == {"c_place", "c_flush", "c_lock"}
WritePcs == {"c_commit", "x_lock", "x_commit"}

WithinPeak(rec, top) ==
  /\ rec.pc \in ReadPcs => rec.bal <= top[rec.user]
  /\ rec.pc \in ApprovedPcs => rec.mu + rec.margin <= top[rec.user]
  /\ rec.pc \in WritePcs => rec.mu <= top[rec.user]

MarginInv ==
  /\ \A u \in Users : account[u].balance <= peak[u] /\ account[u].marginUsed <= peak[u]
  /\ \A r \in Reqs : WithinPeak(req[r], peak)
  /\ \A u \in Users : uds.mu[u] <= peak[u]

LEMMA FinalWithinPeak ==
  ASSUME NEW rec, NEW top, rec.pc \in Final
  PROVE  WithinPeak(rec, top)
BY DEF WithinPeak, Final, ReadPcs, ApprovedPcs, WritePcs

\* An action that changes one request's record only.
LEMMA SetKeepsMargin ==
  ASSUME TypeOK, MarginInv, NEW r \in Reqs, NEW rec, Set(r, rec), WithinPeak(rec, peak),
         UNCHANGED <<account, peak, uds>>
  PROVE  MarginInv'
<1>1. \A p \in Reqs : req'[p] = IF p = r THEN rec ELSE req[p]
  BY DEF Set, TypeOK
<1>2. \A p \in Reqs : WithinPeak(req'[p], peak)
  BY <1>1 DEF MarginInv
<1>3. \A p \in Reqs : WithinPeak(req'[p], peak')
  BY <1>2
<1>. QED BY <1>3 DEF MarginInv

LEMMA AnswerPc ==
  ASSUME NEW r, NEW pc
  PROVE  /\ [NoReq EXCEPT !.pc = pc].pc = pc
         /\ [NoReq EXCEPT !.pc = pc, !.user = req[r].user, !.symbol = req[r].symbol,
                          !.qty = req[r].qty, !.margin = req[r].margin].pc = pc
BY DEF NoReq

LEMMA DropKeepsMargin ==
  ASSUME TypeOK, MarginInv, NEW r \in Reqs, NEW pc \in Final, Drop(r, pc),
         UNCHANGED <<account, peak, uds>>
  PROVE  MarginInv'
BY AnswerPc, FinalWithinPeak, SetKeepsMargin DEF Drop

\* An answer beside writes to accounts that stay below their peaks.
LEMMA AnswerKeepsMargin ==
  ASSUME TypeOK, MarginInv, NEW r \in Reqs, Answer(r, "done"), UNCHANGED <<peak, uds>>,
         \A u \in Users : account'[u].balance = account[u].balance
                         /\ account'[u].marginUsed <= peak[u]
  PROVE  MarginInv'
<1> DEFINE rec == [NoReq EXCEPT !.pc = "done", !.user = req[r].user, !.symbol = req[r].symbol,
                               !.qty = req[r].qty, !.margin = req[r].margin]
<1>1. rec.pc = "done"
  BY AnswerPc
<1>2. req' = [req EXCEPT ![r] = rec]
  BY DEF Answer, Set
<1>. HIDE DEF rec
<1>3. WithinPeak(rec, peak)
  BY <1>1, FinalWithinPeak DEF Final
<1>4. \A p \in Reqs : req'[p] = IF p = r THEN rec ELSE req[p]
  BY <1>2 DEF TypeOK
<1>5. \A p \in Reqs : WithinPeak(req'[p], peak)
  BY <1>3, <1>4 DEF MarginInv
<1>6. \A p \in Reqs : WithinPeak(req'[p], peak')
  BY <1>5
<1>. QED BY <1>6 DEF MarginInv

LEMMA MarginInit == Init => MarginInv
<1> SUFFICES ASSUME Init PROVE MarginInv
  OBVIOUS
<1>1. \A r \in Reqs : WithinPeak(req[r], peak)
  BY DEF Init, NoReq, WithinPeak, ReadPcs, ApprovedPcs, WritePcs
<1>. QED BY <1>1, LedgerAssumption DEF Init, IdleUds, MarginInv

LEMMA MarginCreate ==
  ASSUME TypeInv, MarginInv, NEW r \in Reqs, CreateOrder(r)
  PROVE  MarginInv'
<1>1. TypeOK /\ req[r] \in RequestRecord /\ RecordOK(req[r]) /\ WithinPeak(req[r], peak)
  BY DEF TypeInv, TypeOK, Control, MarginInv
<1>. USE DEF rows, locks, external
<1>2. CASE CreateBegin(r)
  <2>1. PICK u \in Users :
          Set(r, [NoReq EXCEPT !.pc = "c_exposure", !.user = u,
                               !.mu = account[u].marginUsed, !.bal = account[u].balance])
    BY <1>2 DEF CreateBegin
  <2> DEFINE rec == [NoReq EXCEPT !.pc = "c_exposure", !.user = u,
                                  !.mu = account[u].marginUsed, !.bal = account[u].balance]
  <2>2. rec.pc = "c_exposure" /\ rec.user = u /\ rec.bal = account[u].balance
    BY DEF NoReq
  <2>. HIDE DEF rec
  <2>3. WithinPeak(rec, peak)
    BY <2>2 DEF WithinPeak, ReadPcs, ApprovedPcs, WritePcs, MarginInv
  <2>. QED BY <1>1, <1>2, <2>1, <2>3, SetKeepsMargin DEF CreateBegin, rec
<1>3. CASE CreateExposure(r)
  <2> DEFINE seen == [p \in Reqs |-> IF p \in LivePositions /\ req[p].user = req[r].user
                                    THEN pos[p].notional ELSE 0]
             rec == [req[r] EXCEPT !.pc = "c_risk", !.seen = seen]
  <2>1. CASE Drop(r, "failed")
    BY <1>1, <1>3, <2>1, DropKeepsMargin DEF CreateExposure, Final
  <2>2. CASE Set(r, rec)
    <3>. HIDE DEF seen
    <3>1. rec.pc = "c_risk" /\ rec.user = req[r].user /\ rec.bal = req[r].bal
      BY <1>1 DEF RequestRecord
    <3>. HIDE DEF rec
    <3>2. WithinPeak(rec, peak)
      BY <1>1, <1>3, <3>1 DEF CreateExposure, WithinPeak, ReadPcs, ApprovedPcs, WritePcs
    <3>. QED BY <1>1, <1>3, <2>2, <3>2, SetKeepsMargin DEF CreateExposure
  <2>. QED BY <1>3, <2>1, <2>2 DEF CreateExposure
<1>4. CASE CreateRisk(r)
  <2>1. CASE Drop(r, "rejected")
    BY <1>1, <1>4, <2>1, DropKeepsMargin DEF CreateRisk, Final
  <2>2. ASSUME NEW s \in Symbols, NEW q \in Quantities, NEW p \in Prices,
               NEW l \in Requests, NEW m \in Modifiers,
               NEW o, o = Submitted(r, q, p, l, m), Decision(o) = "Approved",
               Set(r, [req[r] EXCEPT !.pc = "c_place", !.symbol = s, !.qty = q,
                  !.price = p, !.bal = 0, !.seen = NoReq.seen,
                  !.margin = RequiredMargin(OrderNotional(o), LeverageOf(o))])
        PROVE  MarginInv'
    <3> DEFINE margin == RequiredMargin(OrderNotional(o), LeverageOf(o))
               rec == [req[r] EXCEPT !.pc = "c_place", !.symbol = s, !.qty = q,
                  !.price = p, !.bal = 0, !.seen = NoReq.seen, !.margin = margin]
    <3>1. req[r].mu + margin <= req[r].bal /\ margin \in Nat
      BY <1>4, <2>2, RiskApproved DEF CreateRisk
    <3>. HIDE DEF margin
    <3>2. /\ rec.pc = "c_place" /\ rec.user = req[r].user
          /\ rec.mu = req[r].mu /\ rec.margin = margin
      BY <1>1 DEF RequestRecord
    <3>3. req[r].bal <= peak[req[r].user] /\ req[r].user \in Users
      BY <1>1, <1>4 DEF CreateRisk, WithinPeak, ReadPcs, RecordOK, UserPcs
    <3>4. req[r].mu \in Nat /\ req[r].bal \in Nat /\ peak[req[r].user] \in Nat
      BY <1>1, <3>3 DEF RequestRecord, TypeOK
    <3>5. Set(r, rec)
      BY <2>2 DEF margin
    <3>. HIDE DEF rec
    <3>6. WithinPeak(rec, peak)
      BY <3>1, <3>2, <3>3, <3>4 DEF WithinPeak, ReadPcs, ApprovedPcs, WritePcs
    <3>. QED BY <1>1, <1>4, <3>5, <3>6, SetKeepsMargin DEF CreateRisk
  <2>. QED BY <1>4, <2>1, <2>2 DEF CreateRisk
<1>5. CASE CreatePlace(r)
  <2>1. ASSUME NEW st \in {"NEW", "FILLED"},
               Set(r, [req[r] EXCEPT !.pc = "c_flush", !.status = st])
        PROVE  MarginInv'
    <3> DEFINE rec == [req[r] EXCEPT !.pc = "c_flush", !.status = st]
    <3>1. /\ rec.pc = "c_flush" /\ rec.user = req[r].user
          /\ rec.mu = req[r].mu /\ rec.margin = req[r].margin
      BY <1>1 DEF RequestRecord
    <3>. HIDE DEF rec
    <3>2. WithinPeak(rec, peak)
      BY <1>1, <1>5, <3>1 DEF CreatePlace, WithinPeak, ReadPcs, ApprovedPcs, WritePcs
    <3>. QED BY <1>1, <1>5, <2>1, <3>2, SetKeepsMargin DEF CreatePlace, rec
  <2>2. CASE Drop(r, "failed")
    BY <1>1, <1>5, <2>2, DropKeepsMargin DEF CreatePlace, Final
  <2>. QED BY <1>5, <2>1, <2>2 DEF CreatePlace
<1>6. CASE CreateFlush(r)
  <2>1. CASE Drop(r, "failed")
    BY <1>1, <1>6, <2>1, DropKeepsMargin DEF CreateFlush, Final
  <2>2. CASE Goto(r, "c_lock")
    <3> DEFINE rec == [req[r] EXCEPT !.pc = "c_lock"]
    <3>1. /\ rec.pc = "c_lock" /\ rec.user = req[r].user
          /\ rec.mu = req[r].mu /\ rec.margin = req[r].margin
      BY <1>1 DEF RequestRecord
    <3>. HIDE DEF rec
    <3>2. WithinPeak(rec, peak)
      BY <1>1, <1>6, <3>1 DEF CreateFlush, WithinPeak, ReadPcs, ApprovedPcs, WritePcs
    <3>. QED BY <1>1, <1>6, <2>2, <3>2, SetKeepsMargin DEF CreateFlush, Goto, rec
  <2>. QED BY <1>6, <2>1, <2>2 DEF CreateFlush
<1>7. CASE CreateLock(r)
  <2>1. req[r].mu + req[r].margin <= peak[req[r].user]
    BY <1>1, <1>7 DEF CreateLock, WithinPeak, ApprovedPcs
  <2>2. ASSUME NEW rec, rec.pc = "c_commit", rec.user = req[r].user,
               rec.mu = req[r].mu + req[r].margin, Set(r, rec)
        PROVE  MarginInv'
    <3>1. WithinPeak(rec, peak)
      BY <2>1, <2>2 DEF WithinPeak, ReadPcs, ApprovedPcs, WritePcs
    <3>. QED BY <1>1, <1>7, <2>2, <3>1, SetKeepsMargin DEF CreateLock
  <2>3. ASSUME NEW t, NEW nq, NEW nm,
               Set(r, [req[r] EXCEPT !.pc = "c_commit", !.target = t,
                         !.mu = req[r].mu + req[r].margin, !.newQty = nq, !.newMargin = nm])
        PROVE  MarginInv'
    <3> DEFINE rec == [req[r] EXCEPT !.pc = "c_commit", !.target = t,
                         !.mu = req[r].mu + req[r].margin, !.newQty = nq, !.newMargin = nm]
    <3>1. rec.pc = "c_commit" /\ rec.user = req[r].user
          /\ rec.mu = req[r].mu + req[r].margin
      BY <1>1 DEF RequestRecord
    <3>. HIDE DEF rec
    <3>. QED BY <2>2, <2>3, <3>1 DEF rec
  <2>. QED BY <1>7, <2>3 DEF CreateLock, SelectPosition
<1>8. CASE CreateCommit(r)
  <2>1. req[r].mu <= peak[req[r].user] /\ req[r].user \in Users
    BY <1>1, <1>8 DEF CreateCommit, WithinPeak, WritePcs, RecordOK, UserPcs
  <2>2. \A u \in Users : account'[u].balance = account[u].balance
                        /\ account'[u].marginUsed <= peak[u]
    BY <1>1, <1>8, <2>1 DEF CreateCommit, TypeOK, MarginInv
  <2>. QED BY <1>1, <1>8, <2>2, AnswerKeepsMargin DEF CreateCommit
<1>. QED BY <1>2, <1>3, <1>4, <1>5, <1>6, <1>7, <1>8 DEF CreateOrder

LEMMA MarginClose ==
  ASSUME TypeInv, MarginInv, NEW r \in Reqs, ClosePosition(r)
  PROVE  MarginInv'
<1>1. TypeOK /\ req[r] \in RequestRecord /\ RecordOK(req[r]) /\ WithinPeak(req[r], peak)
  BY DEF TypeInv, TypeOK, Control, MarginInv
<1>. USE DEF rows, locks, external
<1>2. CASE CloseBegin(r)
  <2>1. CASE Drop(r, "rejected")
    BY <1>1, <1>2, <2>1, DropKeepsMargin DEF CloseBegin, Final
  <2>2. ASSUME NEW rec, rec.pc = "x_place", Set(r, rec)
        PROVE  MarginInv'
    <3>1. WithinPeak(rec, peak)
      BY <2>2 DEF WithinPeak, ReadPcs, ApprovedPcs, WritePcs
    <3>. QED BY <1>1, <1>2, <2>2, <3>1, SetKeepsMargin DEF CloseBegin
  <2>3. ASSUME NEW u, NEW s, NEW p,
               Set(r, [NoReq EXCEPT !.pc = "x_place", !.user = u, !.symbol = s, !.target = p,
                                    !.qty = pos[p].qty, !.margin = pos[p].margin])
        PROVE  MarginInv'
    <3> DEFINE rec == [NoReq EXCEPT !.pc = "x_place", !.user = u, !.symbol = s, !.target = p,
                                    !.qty = pos[p].qty, !.margin = pos[p].margin]
    <3>1. rec.pc = "x_place"
      BY DEF NoReq
    <3>. HIDE DEF rec
    <3>. QED BY <2>2, <2>3, <3>1 DEF rec
  <2>. QED BY <1>2, <2>1, <2>3 DEF CloseBegin
<1>3. CASE ClosePlace(r)
  <2>1. CASE Drop(r, "failed")
    BY <1>1, <1>3, <2>1, DropKeepsMargin DEF ClosePlace, Final
  <2>2. CASE Goto(r, "x_account")
    <3> DEFINE rec == [req[r] EXCEPT !.pc = "x_account"]
    <3>1. rec.pc = "x_account"
      BY <1>1 DEF RequestRecord
    <3>. HIDE DEF rec
    <3>2. WithinPeak(rec, peak)
      BY <3>1 DEF WithinPeak, ReadPcs, ApprovedPcs, WritePcs
    <3>. QED BY <1>1, <1>3, <2>2, <3>2, SetKeepsMargin DEF ClosePlace, Goto, rec
  <2>. QED BY <1>3, <2>1, <2>2 DEF ClosePlace
<1>4. CASE CloseAccount(r)
  <2> DEFINE mu == account[req[r].user].marginUsed
             new == ReleasedMargin(mu, req[r].margin)
             rec == [req[r] EXCEPT !.mu = new,
                                   !.pc = IF new # mu THEN "x_lock" ELSE "x_commit"]
  <2>1. Set(r, rec) /\ UNCHANGED <<account, peak, uds>>
    BY <1>4 DEF CloseAccount
  <2>2. req[r].user \in Users
    BY <1>1, <1>4 DEF CloseAccount, RecordOK, UserPcs
  <2>3. mu \in Nat /\ peak[req[r].user] \in Nat /\ mu <= peak[req[r].user]
        /\ req[r].margin \in Nat
    BY <1>1, <2>2 DEF TypeOK, MarginInv, RequestRecord
  <2>4. new \in Nat /\ new <= mu
    BY <2>3, Arithmetic
  <2>. HIDE DEF new, mu
  <2>5. rec.pc \in {"x_lock", "x_commit"} /\ rec.user = req[r].user /\ rec.mu = new
    BY <1>1 DEF RequestRecord
  <2>. HIDE DEF rec
  <2>6. WithinPeak(rec, peak)
    BY <2>3, <2>4, <2>5 DEF WithinPeak, ReadPcs, ApprovedPcs, WritePcs
  <2>. QED BY <1>1, <2>1, <2>6, SetKeepsMargin
<1>5. CASE CloseLock(r)
  <2> DEFINE rec == [req[r] EXCEPT !.pc = "x_commit"]
  <2>1. rec.pc = "x_commit" /\ rec.user = req[r].user /\ rec.mu = req[r].mu
    BY <1>1 DEF RequestRecord
  <2>. HIDE DEF rec
  <2>2. WithinPeak(rec, peak)
    BY <1>1, <1>5, <2>1 DEF CloseLock, WithinPeak, ReadPcs, ApprovedPcs, WritePcs
  <2>. QED BY <1>1, <1>5, <2>2, SetKeepsMargin DEF CloseLock, Goto, rec
<1>6. CASE CloseCommit(r)
  <2>1. req[r].mu <= peak[req[r].user] /\ req[r].user \in Users
    BY <1>1, <1>6 DEF CloseCommit, WithinPeak, WritePcs, RecordOK, UserPcs
  <2>2. \A u \in Users : account'[u].balance = account[u].balance
                        /\ account'[u].marginUsed <= peak[u]
    BY <1>1, <1>6, <2>1 DEF CloseCommit, TypeOK, MarginInv
  <2>. QED BY <1>1, <1>6, <2>2, AnswerKeepsMargin DEF CloseCommit
<1>. QED BY <1>2, <1>3, <1>4, <1>5, <1>6 DEF ClosePosition

LEMMA MarginCancel ==
  ASSUME TypeInv, MarginInv, NEW r \in Reqs, CancelOrder(r)
  PROVE  MarginInv'
<1>1. TypeOK /\ req[r] \in RequestRecord
  BY DEF TypeInv, TypeOK
<1>. USE DEF rows, locks, external
<1>2. UNCHANGED <<account, peak, uds>>
  BY DEF CancelOrder, CancelBegin, CancelPlace, CancelCommit
<1>3. ASSUME NEW rec, rec.pc \in {"k_place", "k_commit"}, Set(r, rec)
      PROVE  MarginInv'
  <2>1. WithinPeak(rec, peak)
    BY <1>3 DEF WithinPeak, ReadPcs, ApprovedPcs, WritePcs
  <2>. QED BY <1>1, <1>2, <1>3, <2>1, SetKeepsMargin
<1>4. CASE CancelBegin(r)
  <2>1. ASSUME NEW pc \in {"k_place", "k_commit"}, NEW o,
               Set(r, [NoReq EXCEPT !.pc = pc, !.target = o])
        PROVE  MarginInv'
    <3> DEFINE rec == [NoReq EXCEPT !.pc = pc, !.target = o]
    <3>1. rec.pc = pc
      BY DEF NoReq
    <3>. HIDE DEF rec
    <3>2. Set(r, rec)
      BY <2>1 DEF rec
    <3>. QED BY <1>3, <2>1, <3>1, <3>2
  <2>2. CASE Drop(r, "rejected")
    BY <1>1, <1>2, <2>2, DropKeepsMargin DEF Final
  <2>. QED BY <1>4, <2>1, <2>2 DEF CancelBegin
<1>5. CASE CancelPlace(r)
  <2>1. CASE Goto(r, "k_commit")
    <3> DEFINE rec == [req[r] EXCEPT !.pc = "k_commit"]
    <3>1. rec.pc = "k_commit"
      BY <1>1 DEF RequestRecord
    <3>2. Set(r, rec)
      BY <2>1 DEF Goto
    <3>. HIDE DEF rec
    <3>. QED BY <1>3, <3>1, <3>2
  <2>2. CASE Drop(r, "failed")
    BY <1>1, <1>2, <2>2, DropKeepsMargin DEF Final
  <2>. QED BY <1>5, <2>1, <2>2 DEF CancelPlace
<1>6. CASE CancelCommit(r)
  BY <1>1, <1>2, <1>6, AnswerKeepsMargin DEF CancelCommit, MarginInv
<1>. QED BY <1>4, <1>5, <1>6 DEF CancelOrder

LEMMA MarginSync ==
  ASSUME TypeInv, MarginInv, NEW r \in Reqs, SyncBalance(r)
  PROVE  MarginInv'
<1>1. TypeOK /\ req[r] \in RequestRecord /\ RecordOK(req[r])
  BY DEF TypeInv, TypeOK, Control
<1>. USE DEF rows, locks, external
<1>2. ASSUME NEW rec, rec.pc \in {"s_wallet", "s_commit"}, Set(r, rec),
             UNCHANGED <<account, peak, uds>>
      PROVE  MarginInv'
  <2>1. WithinPeak(rec, peak)
    BY <1>2 DEF WithinPeak, ReadPcs, ApprovedPcs, WritePcs
  <2>. QED BY <1>1, <1>2, <2>1, SetKeepsMargin
<1>3. CASE SyncBegin(r)
  <2>1. ASSUME NEW u, NEW b, Set(r, [NoReq EXCEPT !.pc = "s_wallet", !.user = u, !.bal = b])
        PROVE  MarginInv'
    <3> DEFINE rec == [NoReq EXCEPT !.pc = "s_wallet", !.user = u, !.bal = b]
    <3>1. rec.pc = "s_wallet"
      BY DEF NoReq
    <3>. HIDE DEF rec
    <3>2. Set(r, rec) /\ UNCHANGED <<account, peak, uds>>
      BY <1>3, <2>1 DEF SyncBegin, rec
    <3>. QED BY <1>2, <3>1, <3>2
  <2>. QED BY <1>3, <2>1 DEF SyncBegin
<1>4. CASE SyncWallet(r)
  <2>1. ASSUME NEW w, Set(r, [req[r] EXCEPT !.pc = "s_commit", !.bal = w])
        PROVE  MarginInv'
    <3> DEFINE rec == [req[r] EXCEPT !.pc = "s_commit", !.bal = w]
    <3>1. rec.pc = "s_commit"
      BY <1>1 DEF RequestRecord
    <3>. HIDE DEF rec
    <3>2. Set(r, rec) /\ UNCHANGED <<account, peak, uds>>
      BY <1>4, <2>1 DEF SyncWallet, rec
    <3>. QED BY <1>2, <3>1, <3>2
  <2>2. CASE Drop(r, "done")
    BY <1>1, <1>4, <2>2, DropKeepsMargin DEF SyncWallet, Final
  <2>. QED BY <1>4, <2>1, <2>2 DEF SyncWallet
<1>5. CASE SyncCommit(r)
  <2> DEFINE v == req[r].user
             bal == req[r].bal
  <2>1. v \in Users /\ bal \in Nat /\ peak \in [Users -> Nat]
    BY <1>1, <1>5 DEF SyncCommit, RecordOK, UserPcs, RequestRecord, TypeOK
  <2>2. account' = [account EXCEPT ![v].balance = bal]
        /\ peak' = [peak EXCEPT ![v] = MaxOf(@, bal)] /\ uds' = uds
    BY <1>5 DEF SyncCommit
  <2>. HIDE DEF v, bal
  <2>3. \A u \in Users : peak'[u] \in Nat /\ peak[u] \in Nat /\ peak'[u] >= peak[u]
    BY <2>1, <2>2, Arithmetic
  <2>4. \A u \in Users : account'[u].balance <= peak'[u] /\ account'[u].marginUsed <= peak'[u]
    <3>1. peak'[v] >= bal
      BY <2>1, <2>2, Arithmetic
    <3>2. \A u \in Users : account[u].balance <= peak[u] /\ account[u].marginUsed <= peak[u]
                          /\ account[u].balance \in Nat /\ account[u].marginUsed \in Nat
      BY <1>1 DEF TypeOK, MarginInv
    <3>3. \A u \in Users :
            /\ account'[u].balance = IF u = v THEN bal ELSE account[u].balance
            /\ account'[u].marginUsed = account[u].marginUsed
      BY <1>1, <2>1, <2>2 DEF TypeOK
    <3>. QED BY <2>1, <2>3, <3>1, <3>2, <3>3
  <2>5. \A p \in Reqs : WithinPeak(req'[p], peak')
    <3> DEFINE rec == [NoReq EXCEPT !.pc = "done"]
    <3>0. req' = [req EXCEPT ![r] = rec] /\ rec.pc = "done"
      BY <1>5, AnswerPc DEF SyncCommit, Drop, Set
    <3>. HIDE DEF rec
    <3>1. \A p \in Reqs : req'[p] = IF p = r THEN rec ELSE req[p]
      BY <1>1, <3>0 DEF TypeOK
    <3>2. WithinPeak(rec, peak')
      BY <3>0, FinalWithinPeak DEF Final
    <3>3. ASSUME NEW p \in Reqs, p # r PROVE WithinPeak(req[p], peak')
      <4>1. WithinPeak(req[p], peak) /\ RecordOK(req[p]) /\ req[p] \in RequestRecord
        BY DEF MarginInv, TypeInv, TypeOK, Control
      <4>2. req[p].mu \in Nat /\ req[p].margin \in Nat /\ req[p].bal \in Nat
        BY <4>1 DEF RequestRecord
      <4>. QED BY <2>3, <4>1, <4>2
               DEF WithinPeak, RecordOK, ReadPcs, ApprovedPcs, WritePcs, UserPcs
    <3>. QED BY <3>1, <3>2, <3>3
  <2>6. \A u \in Users : uds'.mu[u] <= peak'[u]
    <3>1. \A u \in Users : uds.mu[u] \in Nat /\ uds.mu[u] <= peak[u]
      BY <1>1 DEF TypeOK, UdsRecord, MarginInv
    <3>. QED BY <2>2, <2>3, <3>1
  <2>. QED BY <2>4, <2>5, <2>6 DEF MarginInv
<1>. QED BY <1>3, <1>4, <1>5 DEF SyncBalance

LEMMA MarginLiquidate ==
  ASSUME TypeInv, MarginInv, Liquidate
  PROVE  MarginInv'
<1>. USE DEF rows, locks, external
<1>1. UNCHANGED <<peak, req>>
  BY DEF Liquidate, UdsBegin, UdsPosition, UdsCommit
<1>2. \A r \in Reqs : WithinPeak(req'[r], peak')
  BY <1>1 DEF MarginInv
<1>3. \A u \in Users : peak[u] \in Nat /\ account[u].marginUsed \in Nat
                      /\ account[u].marginUsed <= peak[u] /\ account[u].balance <= peak[u]
                      /\ uds.mu[u] <= peak[u]
  BY DEF TypeInv, TypeOK, MarginInv
<1>4. uds \in UdsRecord
  BY DEF TypeInv, TypeOK
<1>5. ASSUME NEW s \in Symbols, UdsBegin(s)
      PROVE  MarginInv'
  <2>1. account' = account /\ uds'.mu = IdleUds.mu
    BY <1>5 DEF UdsBegin, IdleUds
  <2>2. \A u \in Users : uds'.mu[u] = 0
    BY <2>1 DEF IdleUds
  <2>. QED BY <1>1, <1>2, <1>3, <2>1, <2>2 DEF MarginInv
<1>6. ASSUME NEW p \in Reqs, UdsPosition(p)
      PROVE  MarginInv'
  <2> DEFINE u == req[p].user
             new == ReleasedMargin(account[u].marginUsed, uds.seen[p])
  <2>1. u \in Users /\ uds.seen[p] \in Nat
    BY <1>4, <1>6 DEF UdsPosition, TypeInv, Control, UdsRecord
  <2>2. new <= peak[u]
    <3>1. new \in Nat /\ new <= account[u].marginUsed
      BY <1>3, <2>1, Arithmetic
    <3>. HIDE DEF new, u
    <3>. QED BY <1>3, <2>1, <3>1
  <2>3. account' = account /\ uds'.mu = [uds.mu EXCEPT ![u] = new]
    BY <1>4, <1>6 DEF UdsPosition, UdsRecord
  <2>. HIDE DEF new, u
  <2>4. \A v \in Users : uds'.mu[v] <= peak[v]
    BY <1>3, <1>4, <2>2, <2>3 DEF UdsRecord
  <2>. QED BY <1>1, <1>2, <1>3, <2>3, <2>4 DEF MarginInv
<1>7. CASE UdsCommit
  <2>1. \A u \in Users : account'[u].balance = account[u].balance
                        /\ account'[u].marginUsed \in {account[u].marginUsed, uds.mu[u]}
    BY <1>7 DEF UdsCommit, TypeInv, TypeOK
  <2>2. \A u \in Users : uds'.mu[u] = 0
    BY <1>7 DEF UdsCommit, IdleUds
  <2>. QED BY <1>1, <1>2, <1>3, <2>1, <2>2 DEF MarginInv
<1>. QED BY <1>5, <1>6, <1>7 DEF Liquidate

LEMMA MarginEnvironment ==
  ASSUME TypeInv, MarginInv,
         \/ DetectDeadlock \/ (\E o \in Reqs : ExchangeFill(o) \/ KeyExpire(o))
         \/ Crash \/ Quiet \/ UNCHANGED vars
  PROVE  MarginInv'
<1>. USE DEF rows, locks, external
<1>1. account' = account /\ peak' = peak
  BY DEF DetectDeadlock, ExchangeFill, KeyExpire, Crash, Quiet, vars
<1>2. \A u \in Users : peak[u] \in Nat /\ uds.mu[u] <= peak[u]
  BY DEF TypeInv, TypeOK, MarginInv
<1>3. uds' = uds \/ uds' = [IdleUds EXCEPT !.began = uds.began]
  BY DEF DetectDeadlock, ExchangeFill, KeyExpire, Crash, Quiet, vars, UdsAbort
<1>4. \A u \in Users : uds'.mu[u] <= peak[u]
  <2>1. CASE uds' = uds
    BY <1>2, <2>1
  <2>2. CASE uds' = [IdleUds EXCEPT !.began = uds.began]
    BY <1>2, <2>2 DEF IdleUds
  <2>. QED BY <1>3, <2>1, <2>2
<1>5. \A r \in Reqs : WithinPeak(req'[r], peak)
  <2> DEFINE rec == [NoReq EXCEPT !.pc = "failed"]
  <2>1. rec.pc \in Final
    BY DEF NoReq, Final
  <2>2. \A r \in Reqs : req'[r] = req[r] \/ req'[r] = rec
    BY DEF DetectDeadlock, ExchangeFill, KeyExpire, Crash, Quiet, vars, Abort, Drop, Set,
           TypeInv, TypeOK
  <2>. HIDE DEF rec
  <2>. QED BY <2>1, <2>2, FinalWithinPeak DEF MarginInv
<1>6. \A r \in Reqs : WithinPeak(req'[r], peak')
  BY <1>1, <1>5
<1>. QED BY <1>1, <1>4, <1>6 DEF MarginInv

\* No interleaving of orders, closes, liquidations, balance changes, failures
\* and crashes commits more margin to an account than the largest balance it has
\* had, or a negative one: the copy of margin_used and the copy of the balance that create_order
\* checks against each other were read together.
THEOREM MarginAlwaysWithinBalance == Spec => []MarginUsedWithinBalance
<1>1. Init => TypeInv /\ MarginInv
  BY TypeInit, MarginInit
<1>2. TypeInv /\ MarginInv /\ [Next]_vars => TypeInv' /\ MarginInv'
  <2> SUFFICES ASSUME TypeInv, MarginInv, [Next]_vars PROVE MarginInv'
    BY TypeStep
  <2>1. ASSUME NEW r \in Reqs, Step(r) PROVE MarginInv'
    BY <2>1, MarginCreate, MarginClose, MarginCancel, MarginSync DEF Step
  <2>. QED BY <2>1, MarginLiquidate, MarginEnvironment DEF Next
<1>3. TypeInv /\ MarginInv => MarginUsedWithinBalance
  BY DEF TypeInv, TypeOK, MarginInv, MarginUsedWithinBalance
<1>. QED BY <1>1, <1>2, <1>3, PTL DEF Spec
-----------------------------------------------------------------------------
(***************************************************************************)
(* OneLivePosition and ClosedStaysClosed.  The account's row lock          *)
(* serialises create_order's read and write of a user's positions.         *)
(***************************************************************************)
\* The lock of an account is held by the liquidation handler or by a request of
\* that user that is about to commit.
Holders ==
  \A u \in Users : accLock[u] \in Reqs =>
    req[accLock[u]].user = u /\ req[accLock[u]].pc \in {"c_commit", "x_commit"}

SameBook(p, r) == req[p].user = req[r].user /\ req[p].symbol = req[r].symbol

\* A request between create_order's SELECT of the position and its COMMIT holds
\* the lock, and what it saw still stands: no live position, or one that is there.
Selected(r) ==
  /\ accLock[req[r].user] = r
  /\ req[r].target = r => \A p \in LivePositions : ~SameBook(p, r)
  /\ req[r].target # r => Booked(req[r].target)

LockInv ==
  /\ Holders
  /\ \A r \in Reqs : req[r].pc = "c_commit" => Selected(r)
  /\ OneLivePosition

\* A step that makes no position live, renames none, and takes no lock from a
\* request that is about to commit keeps what those requests have selected.
LEMMA SelectedStays ==
  ASSUME TypeInv, TypeInv', LockInv,
         \A p \in LivePositions' : /\ p \in LivePositions
                                   /\ req'[p].user = req[p].user
                                   /\ req'[p].symbol = req[p].symbol,
         \A p \in Reqs : Booked(p) => Booked(p)'
  PROVE  /\ OneLivePosition'
         /\ \A r \in Reqs : req[r].pc = "c_commit" /\ req'[r] = req[r]
                            /\ accLock'[req[r].user] = r => Selected(r)'
<1>1. LivePositions' \subseteq LivePositions /\ LivePositions \subseteq Reqs
  BY DEF LivePositions
<1>2. OneLivePosition'
  BY <1>1 DEF LockInv, OneLivePosition
<1>3. ASSUME NEW r \in Reqs, req[r].pc = "c_commit", req'[r] = req[r],
             accLock'[req[r].user] = r
      PROVE  Selected(r)'
  <2>1. Selected(r) /\ req[r].target \in Reqs
    BY <1>3 DEF LockInv, TypeInv, Control, RecordOK, TargetPcs
  <2>2. CASE req[r].target = r
    <3>1. \A p \in LivePositions' : ~SameBook(p, r)'
      BY <1>3, <2>1, <2>2 DEF Selected, SameBook
    <3>. QED BY <1>3, <2>2, <3>1 DEF Selected
  <2>3. CASE req[r].target # r
    <3>1. \A p \in Reqs : Booked(p) => pos'[p].state # "absent"
      BY DEF Booked
    <3>2. pos'[req[r].target].state # "absent"
      BY <2>1, <2>3, <3>1 DEF Selected
    <3>. QED BY <1>3, <2>3, <3>2 DEF Selected, Booked
  <2>. QED BY <2>2, <2>3
<1>. QED BY <1>2, <1>3

\* A step of a request that neither holds nor takes a lock.
LEMMA LocalKeepsLocks ==
  ASSUME TypeInv, TypeInv', LockInv, NEW r \in Reqs,
         req[r].pc \notin {"c_commit", "x_commit", "done"}, req'[r].pc # "c_commit",
         \A p \in Reqs \ {r} : req'[p] = req[p], UNCHANGED <<pos, accLock>>
  PROVE  LockInv'
<1>1. ~Booked(r)
  BY DEF TypeInv, Control
<1>2. \A p \in LivePositions' : /\ p \in LivePositions
                                /\ req'[p].user = req[p].user
                                /\ req'[p].symbol = req[p].symbol
  BY <1>1 DEF LivePositions, Booked
<1>3. \A p \in Reqs : Booked(p) => Booked(p)'
  BY DEF Booked
<1>4. OneLivePosition'
  BY <1>2, <1>3, SelectedStays
<1>5. \A p \in Reqs : req'[p].pc = "c_commit" => Selected(p)'
  <2> SUFFICES ASSUME NEW p \in Reqs, req'[p].pc = "c_commit" PROVE Selected(p)'
    OBVIOUS
  <2>1. p # r /\ req'[p] = req[p]
    OBVIOUS
  <2>2. accLock'[req[p].user] = p
    BY <2>1 DEF LockInv, Selected
  <2>. QED BY <1>2, <1>3, <2>1, <2>2, SelectedStays
<1>6. Holders'
  BY DEF LockInv, Holders
<1>. QED BY <1>4, <1>5, <1>6 DEF LockInv

LEMMA LocksInit == Init => LockInv
BY LedgerAssumption DEF Init, LockInv, Holders, OneLivePosition, LivePositions, NoReq,
                        NoPosition

\* The steps of a request that take no lock and end no transaction that holds one.
Unlocked(r) ==
  \/ CreateBegin(r) \/ CreateExposure(r) \/ CreateRisk(r) \/ CreatePlace(r) \/ CreateFlush(r)
  \/ CloseBegin(r) \/ ClosePlace(r) \/ CloseAccount(r)
  \/ CancelOrder(r) \/ SyncBalance(r)

LEMMA SetPc ==
  ASSUME TypeInv, NEW r \in Reqs, NEW rec, Set(r, rec)
  PROVE  req'[r] = rec /\ \A p \in Reqs \ {r} : req'[p] = req[p]
BY DEF Set, TypeInv, TypeOK

\* Where each of these steps leads its request; no step moves another one.
LEMMA Moves ==
  ASSUME TypeInv, NEW r \in Reqs
  PROVE  /\ CreateBegin(r) => req'[r].pc = "c_exposure"
         /\ CreateExposure(r) => req'[r].pc \in {"c_risk", "failed"}
         /\ CreateRisk(r) => req'[r].pc \in {"c_place", "rejected"}
         /\ CreatePlace(r) => req'[r].pc \in {"c_flush", "failed"}
         /\ CreateFlush(r) => req'[r].pc \in {"c_lock", "failed"}
         /\ CloseBegin(r) => req'[r].pc \in {"x_place", "rejected"}
         /\ ClosePlace(r) => req'[r].pc \in {"x_account", "failed"}
         /\ CloseAccount(r) => req'[r].pc \in {"x_lock", "x_commit"}
         /\ CancelBegin(r) => req'[r].pc \in {"k_place", "k_commit", "rejected"}
         /\ CancelPlace(r) => req'[r].pc \in {"k_commit", "failed"}
         /\ CancelCommit(r) => req'[r].pc = "done"
         /\ SyncBegin(r) => req'[r].pc = "s_wallet"
         /\ SyncWallet(r) => req'[r].pc \in {"s_commit", "done"}
         /\ SyncCommit(r) => req'[r].pc = "done"
<1>1. req[r] \in RequestRecord /\ NoReq \in RequestRecord
  BY ConstantTypes DEF TypeInv, TypeOK
<1>2. /\ \A pc \in Pcs : Goto(r, pc) \/ Drop(r, pc) => req'[r].pc = pc
      /\ \A pc \in Pcs : Answer(r, pc) => req'[r].pc = pc
  <2> SUFFICES ASSUME NEW pc \in Pcs PROVE /\ Goto(r, pc) => req'[r].pc = pc
                                           /\ Drop(r, pc) => req'[r].pc = pc
                                           /\ Answer(r, pc) => req'[r].pc = pc
    OBVIOUS
  <2> DEFINE a == [req[r] EXCEPT !.pc = pc]
             b == [NoReq EXCEPT !.pc = pc]
             c == [NoReq EXCEPT !.pc = pc, !.user = req[r].user, !.symbol = req[r].symbol,
                                !.qty = req[r].qty, !.margin = req[r].margin]
  <2>1. a.pc = pc /\ b.pc = pc /\ c.pc = pc
    BY <1>1 DEF RequestRecord
  <2>2. /\ Goto(r, pc) => Set(r, a)
        /\ Drop(r, pc) => Set(r, b)
        /\ Answer(r, pc) => Set(r, c)
    BY DEF Goto, Drop, Answer
  <2>. HIDE DEF a, b, c
  <2>. QED BY <2>1, <2>2, SetPc
<1>3. ASSUME CreateBegin(r) PROVE req'[r].pc = "c_exposure"
  <2>1. ASSUME NEW u, NEW mu, NEW b,
               Set(r, [NoReq EXCEPT !.pc = "c_exposure", !.user = u, !.mu = mu, !.bal = b])
        PROVE  req'[r].pc = "c_exposure"
    <3> DEFINE rec == [NoReq EXCEPT !.pc = "c_exposure", !.user = u, !.mu = mu, !.bal = b]
    <3>1. rec.pc = "c_exposure"
      BY <1>1 DEF RequestRecord
    <3>2. Set(r, rec)
      BY <2>1
    <3>. HIDE DEF rec
    <3>. QED BY <3>1, <3>2, SetPc
  <2>. QED BY <1>2, <1>3, <2>1 DEF CreateBegin, Pcs, Final
<1>4. ASSUME CreateExposure(r) PROVE req'[r].pc \in {"c_risk", "failed"}
  <2>1. ASSUME NEW seen,
               Set(r, [req[r] EXCEPT !.pc = "c_risk", !.seen = seen])
        PROVE  req'[r].pc = "c_risk"
    <3> DEFINE rec == [req[r] EXCEPT !.pc = "c_risk", !.seen = seen]
    <3>1. rec.pc = "c_risk"
      BY <1>1 DEF RequestRecord
    <3>2. Set(r, rec)
      BY <2>1
    <3>. HIDE DEF rec
    <3>. QED BY <3>1, <3>2, SetPc
  <2>. QED BY <1>2, <1>4, <2>1 DEF CreateExposure, Pcs, Final
<1>5. ASSUME CreateRisk(r) PROVE req'[r].pc \in {"c_place", "rejected"}
  <2>1. ASSUME NEW s, NEW q, NEW p, NEW m,
               Set(r, [req[r] EXCEPT !.pc = "c_place", !.symbol = s, !.qty = q, !.price = p,
                               !.bal = 0, !.seen = NoReq.seen, !.margin = m])
        PROVE  req'[r].pc = "c_place"
    <3> DEFINE rec == [req[r] EXCEPT !.pc = "c_place", !.symbol = s, !.qty = q, !.price = p,
                               !.bal = 0, !.seen = NoReq.seen, !.margin = m]
    <3>1. rec.pc = "c_place"
      BY <1>1 DEF RequestRecord
    <3>2. Set(r, rec)
      BY <2>1
    <3>. HIDE DEF rec
    <3>. QED BY <3>1, <3>2, SetPc
  <2>. QED BY <1>2, <1>5, <2>1 DEF CreateRisk, Pcs, Final
<1>6. ASSUME CreatePlace(r) PROVE req'[r].pc \in {"c_flush", "failed"}
  <2>1. ASSUME NEW st,
               Set(r, [req[r] EXCEPT !.pc = "c_flush", !.status = st])
        PROVE  req'[r].pc = "c_flush"
    <3> DEFINE rec == [req[r] EXCEPT !.pc = "c_flush", !.status = st]
    <3>1. rec.pc = "c_flush"
      BY <1>1 DEF RequestRecord
    <3>2. Set(r, rec)
      BY <2>1
    <3>. HIDE DEF rec
    <3>. QED BY <3>1, <3>2, SetPc
  <2>. QED BY <1>2, <1>6, <2>1 DEF CreatePlace, Pcs, Final
<1>7. ASSUME CreateFlush(r) PROVE req'[r].pc \in {"c_lock", "failed"}
  BY <1>2, <1>7 DEF CreateFlush, Pcs, Final
<1>8. ASSUME CloseBegin(r) PROVE req'[r].pc \in {"x_place", "rejected"}
  <2>1. ASSUME NEW u, NEW s, NEW p,
               Set(r, [NoReq EXCEPT !.pc = "x_place", !.user = u, !.symbol = s, !.target = p,
                              !.qty = pos[p].qty, !.margin = pos[p].margin])
        PROVE  req'[r].pc = "x_place"
    <3> DEFINE rec == [NoReq EXCEPT !.pc = "x_place", !.user = u, !.symbol = s, !.target = p,
                              !.qty = pos[p].qty, !.margin = pos[p].margin]
    <3>1. rec.pc = "x_place"
      BY <1>1 DEF RequestRecord
    <3>2. Set(r, rec)
      BY <2>1
    <3>. HIDE DEF rec
    <3>. QED BY <3>1, <3>2, SetPc
  <2>. QED BY <1>2, <1>8, <2>1 DEF CloseBegin, Pcs, Final
<1>9. ASSUME ClosePlace(r) PROVE req'[r].pc \in {"x_account", "failed"}
  BY <1>2, <1>9 DEF ClosePlace, Pcs, Final
<1>10. ASSUME CloseAccount(r) PROVE req'[r].pc \in {"x_lock", "x_commit"}
  <2>1. ASSUME NEW mu, NEW pc \in {"x_lock", "x_commit"},
               Set(r, [req[r] EXCEPT !.mu = mu, !.pc = pc])
        PROVE  req'[r].pc = pc
    <3> DEFINE rec == [req[r] EXCEPT !.mu = mu, !.pc = pc]
    <3>1. rec.pc = pc
      BY <1>1 DEF RequestRecord
    <3>2. Set(r, rec)
      BY <2>1
    <3>. HIDE DEF rec
    <3>. QED BY <3>1, <3>2, SetPc
  <2>. QED BY <1>2, <1>10,
           <2>1 DEF CloseAccount, Pcs, Final
<1>11. ASSUME CancelBegin(r) PROVE req'[r].pc \in {"k_place", "k_commit", "rejected"}
  <2>1. ASSUME NEW pc \in {"k_place", "k_commit"}, NEW o,
               Set(r, [NoReq EXCEPT !.pc = pc, !.target = o])
        PROVE  req'[r].pc = pc
    <3> DEFINE rec == [NoReq EXCEPT !.pc = pc, !.target = o]
    <3>1. rec.pc = pc
      BY <1>1 DEF RequestRecord
    <3>2. Set(r, rec)
      BY <2>1
    <3>. HIDE DEF rec
    <3>. QED BY <3>1, <3>2, SetPc
  <2>. QED BY <1>2, <1>11, <2>1 DEF CancelBegin, Pcs, Final
<1>12. ASSUME CancelPlace(r) PROVE req'[r].pc \in {"k_commit", "failed"}
  BY <1>2, <1>12 DEF CancelPlace, Pcs, Final
<1>13. ASSUME CancelCommit(r) PROVE req'[r].pc = "done"
  BY <1>2, <1>13 DEF CancelCommit, Pcs, Final
<1>14. ASSUME SyncBegin(r) PROVE req'[r].pc = "s_wallet"
  <2>1. ASSUME NEW u, NEW b,
               Set(r, [NoReq EXCEPT !.pc = "s_wallet", !.user = u, !.bal = b])
        PROVE  req'[r].pc = "s_wallet"
    <3> DEFINE rec == [NoReq EXCEPT !.pc = "s_wallet", !.user = u, !.bal = b]
    <3>1. rec.pc = "s_wallet"
      BY <1>1 DEF RequestRecord
    <3>2. Set(r, rec)
      BY <2>1
    <3>. HIDE DEF rec
    <3>. QED BY <3>1, <3>2, SetPc
  <2>. QED BY <1>2, <1>14, <2>1 DEF SyncBegin, Pcs, Final
<1>15. ASSUME SyncWallet(r) PROVE req'[r].pc \in {"s_commit", "done"}
  <2>1. ASSUME NEW w,
               Set(r, [req[r] EXCEPT !.pc = "s_commit", !.bal = w])
        PROVE  req'[r].pc = "s_commit"
    <3> DEFINE rec == [req[r] EXCEPT !.pc = "s_commit", !.bal = w]
    <3>1. rec.pc = "s_commit"
      BY <1>1 DEF RequestRecord
    <3>2. Set(r, rec)
      BY <2>1
    <3>. HIDE DEF rec
    <3>. QED BY <3>1, <3>2, SetPc
  <2>. QED BY <1>2, <1>15, <2>1 DEF SyncWallet, Pcs, Final
<1>16. ASSUME SyncCommit(r) PROVE req'[r].pc = "done"
  BY <1>2, <1>16 DEF SyncCommit, Pcs, Final
<1>. QED BY <1>3, <1>4, <1>5, <1>6, <1>7, <1>8, <1>9, <1>10,
           <1>11, <1>12, <1>13, <1>14, <1>15, <1>16

LEMMA UnlockedSteps ==
  ASSUME TypeInv, NEW r \in Reqs, Unlocked(r)
  PROVE  /\ req[r].pc \notin {"c_commit", "x_commit", "done"} /\ req'[r].pc # "c_commit"
         /\ \A p \in Reqs \ {r} : req'[p] = req[p]
         /\ UNCHANGED <<pos, accLock>>
<1>. USE DEF rows, locks, external
<1>1. req[r].pc \notin {"c_commit", "x_commit", "done"} /\ UNCHANGED <<pos, accLock>>
  BY DEF Unlocked, CreateBegin, CreateExposure, CreateRisk, CreatePlace, CreateFlush,
         CloseBegin, ClosePlace, CloseAccount, CancelOrder, CancelBegin, CancelPlace,
         CancelCommit, SyncBalance, SyncBegin, SyncWallet, SyncCommit
<1>2. req'[r].pc # "c_commit"
  BY Moves DEF Unlocked, CancelOrder, SyncBalance
<1>3. \A p \in Reqs \ {r} : req'[p] = req[p]
  BY DEF Unlocked, CreateBegin, CreateExposure, CreateRisk, CreatePlace, CreateFlush,
         CloseBegin, ClosePlace, CloseAccount, CancelOrder, CancelBegin, CancelPlace,
         CancelCommit, SyncBalance, SyncBegin, SyncWallet, SyncCommit, Goto, Drop, Answer, Set,
         TypeInv, TypeOK
<1>. QED BY <1>1, <1>2, <1>3

\* A step that frees the locks of one owner, who is not about to commit an order
\* afterwards, and changes no other request and makes no position live.
LEMMA FreeKeepsLocks ==
  ASSUME TypeInv, TypeInv', LockInv, NEW r \in Reqs \cup {Uds}, Free(r),
         \A p \in Reqs \ {r} : req'[p] = req[p],
         r \in Reqs => req'[r].pc # "c_commit" /\ ~Booked(r),
         \A p \in LivePositions' : p \in LivePositions,
         \A p \in Reqs : Booked(p) => Booked(p)'
  PROVE  LockInv'
<1>1. \A u \in Users : accLock'[u] = IF accLock[u] = r THEN None ELSE accLock[u]
  BY DEF Free
<1>2. \A p \in LivePositions' : /\ p \in LivePositions
                                /\ req'[p].user = req[p].user
                                /\ req'[p].symbol = req[p].symbol
  BY DEF LivePositions, Booked
<1>3. OneLivePosition'
  BY <1>2, SelectedStays
<1>4. \A p \in Reqs : req'[p].pc = "c_commit" => Selected(p)'
  <2> SUFFICES ASSUME NEW p \in Reqs, req'[p].pc = "c_commit" PROVE Selected(p)'
    OBVIOUS
  <2>1. p # r /\ req'[p] = req[p]
    OBVIOUS
  <2>2. accLock[req[p].user] = p /\ req[p].user \in Users
    BY <2>1 DEF LockInv, Selected, TypeInv, Control, RecordOK, UserPcs
  <2>3. accLock'[req[p].user] = p
    BY <1>1, <2>1, <2>2
  <2>. QED BY <1>2, <2>1, <2>3, SelectedStays
<1>5. Holders'
  <2> SUFFICES ASSUME NEW u \in Users, accLock'[u] \in Reqs
               PROVE  req'[accLock'[u]].user = u
                      /\ req'[accLock'[u]].pc \in {"c_commit", "x_commit"}
    BY DEF Holders
  <2>1. accLock'[u] = accLock[u] /\ accLock[u] # r
    BY <1>1, LedgerAssumption
  <2>. QED BY <2>1 DEF LockInv, Holders
<1>. QED BY <1>3, <1>4, <1>5 DEF LockInv

LEMMA CreateLockKeepsLocks ==
  ASSUME TypeInv, TypeInv', LockInv, NEW r \in Reqs, CreateLock(r)
  PROVE  LockInv'
<1> DEFINE u == req[r].user
<1>1. /\ req[r].pc = "c_lock" /\ accLock[u] = None /\ accLock' = [accLock EXCEPT ![u] = r]
      /\ UNCHANGED <<pos, posLock>>
  BY DEF CreateLock, rows
<1>2. u \in Users /\ req[r].symbol \in Symbols /\ req[r] \in RequestRecord /\ ~Booked(r)
  BY <1>1 DEF TypeInv, TypeOK, Control, RecordOK, UserPcs, SymbolPcs
<1>3. \A p \in Reqs \ {r} : req'[p] = req[p]
  BY DEF CreateLock, SelectPosition, Set, TypeInv, TypeOK
<1>4. /\ req'[r].pc = "c_commit" /\ req'[r].user = u /\ req'[r].symbol = req[r].symbol
      /\ req'[r].target = r => LiveOf(u, req[r].symbol) = {}
      /\ req'[r].target # r => req'[r].target \in LivePositions
  <2>1. ASSUME NEW t, NEW nq, NEW nm,
               t = r => LiveOf(u, req[r].symbol) = {},
               t # r => t \in LivePositions,
               Set(r, [req[r] EXCEPT !.pc = "c_commit", !.target = t,
                         !.mu = req[r].mu + req[r].margin, !.newQty = nq, !.newMargin = nm])
        PROVE  /\ req'[r].pc = "c_commit" /\ req'[r].user = u /\ req'[r].symbol = req[r].symbol
               /\ req'[r].target = r => LiveOf(u, req[r].symbol) = {}
               /\ req'[r].target # r => req'[r].target \in LivePositions
    <3> DEFINE mu == req[r].mu + req[r].margin
               rec == [req[r] EXCEPT !.pc = "c_commit", !.target = t, !.mu = mu,
                                     !.newQty = nq, !.newMargin = nm]
    <3>1. Set(r, rec)
      BY <2>1
    <3>. HIDE DEF mu
    <3>2. rec.pc = "c_commit" /\ rec.user = u /\ rec.symbol = req[r].symbol /\ rec.target = t
      BY <1>2 DEF RequestRecord
    <3>. HIDE DEF rec, u
    <3>3. req'[r] = rec
      BY <3>1 DEF Set, TypeInv, TypeOK
    <3>. QED BY <2>1, <3>2, <3>3
  <2>2. \A p \in LiveOf(u, req[r].symbol) : p \in LivePositions /\ p # r
    BY <1>2 DEF LiveOf, LivePositions, Booked
  <2>. QED BY <2>1, <2>2 DEF CreateLock, SelectPosition
<1>5. \A p \in LivePositions' : /\ p \in LivePositions
                                /\ req'[p].user = req[p].user
                                /\ req'[p].symbol = req[p].symbol
  BY <1>1, <1>2, <1>3 DEF LivePositions, Booked
<1>6. \A p \in Reqs : Booked(p) => Booked(p)'
  BY <1>1 DEF Booked
<1>. HIDE DEF u
<1>7. accLock'[u] = r /\ \A v \in Users \ {u} : accLock'[v] = accLock[v]
  BY <1>1, <1>2 DEF TypeInv, TypeOK
<1>8. Selected(r)'
  <2>1. ASSUME req'[r].target = r, NEW p \in LivePositions'
        PROVE  ~(req'[p].user = req'[r].user /\ req'[p].symbol = req'[r].symbol)
    <3>1. p \in LivePositions /\ req'[p].user = req[p].user /\ req'[p].symbol = req[p].symbol
      BY <1>5, <2>1
    <3>2. ~(req[p].user = u /\ req[p].symbol = req[r].symbol)
      BY <1>4, <2>1, <3>1 DEF LiveOf
    <3>. QED BY <1>4, <3>1, <3>2
  <2>2. req'[r].target # r => pos'[req'[r].target].state # "absent"
    BY <1>1, <1>4 DEF LivePositions
  <2>3. accLock'[req'[r].user] = r
    BY <1>4, <1>7
  <2>. QED BY <2>1, <2>2, <2>3 DEF Selected, SameBook, Booked
<1>9. \A p \in Reqs : req'[p].pc = "c_commit" => Selected(p)'
  <2> SUFFICES ASSUME NEW p \in Reqs, p # r, req'[p].pc = "c_commit" PROVE Selected(p)'
    BY <1>8
  <2>1. req'[p] = req[p] /\ accLock[req[p].user] = p /\ req[p].user \in Users
    BY <1>3 DEF LockInv, Selected, TypeInv, Control, RecordOK, UserPcs
  <2>2. accLock'[req[p].user] = p
    BY <1>1, <1>7, <2>1, LedgerAssumption
  <2>. QED BY <1>5, <1>6, <2>1, <2>2, SelectedStays
<1>10. Holders'
  <2> SUFFICES ASSUME NEW v \in Users, accLock'[v] \in Reqs
               PROVE  req'[accLock'[v]].user = v
                      /\ req'[accLock'[v]].pc \in {"c_commit", "x_commit"}
    BY DEF Holders
  <2>1. CASE v = u
    BY <1>4, <1>7, <2>1
  <2>2. CASE v # u
    <3>1. accLock'[v] = accLock[v] /\ accLock[v] # r
      BY <1>1, <1>7, <2>2 DEF LockInv, Holders
    <3>. QED BY <1>3, <3>1 DEF LockInv, Holders
  <2>. QED BY <2>1, <2>2
<1>11. OneLivePosition'
  BY <1>5, <1>6, SelectedStays
<1>. QED BY <1>9, <1>10, <1>11 DEF LockInv

LEMMA CloseLockKeepsLocks ==
  ASSUME TypeInv, TypeInv', LockInv, NEW r \in Reqs, CloseLock(r)
  PROVE  LockInv'
<1> DEFINE u == req[r].user
           rec == [req[r] EXCEPT !.pc = "x_commit"]
<1>1. /\ req[r].pc = "x_lock" /\ accLock[u] = None /\ accLock' = [accLock EXCEPT ![u] = r]
      /\ pos' = pos /\ Set(r, rec)
  BY DEF CloseLock, rows, Goto
<1>2. u \in Users /\ req[r] \in RequestRecord /\ ~Booked(r)
  BY <1>1 DEF TypeInv, TypeOK, Control, RecordOK, UserPcs
<1>3. rec.pc = "x_commit" /\ rec.user = u
  BY <1>2 DEF RequestRecord
<1>. HIDE DEF rec, u
<1>4. req'[r] = rec /\ \A p \in Reqs \ {r} : req'[p] = req[p]
  BY <1>1, SetPc
<1>5. /\ \A p \in LivePositions' : /\ p \in LivePositions
                                   /\ req'[p].user = req[p].user
                                   /\ req'[p].symbol = req[p].symbol
      /\ \A p \in Reqs : Booked(p) => Booked(p)'
  BY <1>1, <1>2, <1>4 DEF LivePositions, Booked
<1>6. accLock'[u] = r /\ \A v \in Users \ {u} : accLock'[v] = accLock[v]
  BY <1>1, <1>2 DEF TypeInv, TypeOK
<1>7. \A p \in Reqs : req'[p].pc = "c_commit" => Selected(p)'
  <2> SUFFICES ASSUME NEW p \in Reqs, req'[p].pc = "c_commit" PROVE Selected(p)'
    OBVIOUS
  <2>1. p # r /\ req'[p] = req[p] /\ accLock[req[p].user] = p /\ req[p].user \in Users
    BY <1>3, <1>4 DEF LockInv, Selected, TypeInv, Control, RecordOK, UserPcs
  <2>2. accLock'[req[p].user] = p
    BY <1>1, <1>6, <2>1, LedgerAssumption
  <2>. QED BY <1>5, <2>1, <2>2, SelectedStays
<1>8. Holders'
  <2> SUFFICES ASSUME NEW v \in Users, accLock'[v] \in Reqs
               PROVE  req'[accLock'[v]].user = v
                      /\ req'[accLock'[v]].pc \in {"c_commit", "x_commit"}
    BY DEF Holders
  <2>1. CASE v = u
    BY <1>3, <1>4, <1>6, <2>1
  <2>2. CASE v # u
    <3>1. accLock'[v] = accLock[v] /\ accLock[v] # r
      BY <1>1, <1>6, <2>2 DEF LockInv, Holders
    <3>. QED BY <1>4, <3>1 DEF LockInv, Holders
  <2>. QED BY <2>1, <2>2
<1>9. OneLivePosition'
  BY <1>5, SelectedStays
<1>. QED BY <1>7, <1>8, <1>9 DEF LockInv

\* What a commit leaves in the request's record.
LEMMA Answered ==
  ASSUME TypeInv, NEW r \in Reqs, Answer(r, "done")
  PROVE  /\ req'[r].pc = "done" /\ req'[r].user = req[r].user /\ req'[r].symbol = req[r].symbol
         /\ req'[r].qty = req[r].qty /\ req'[r].margin = req[r].margin
         /\ \A p \in Reqs \ {r} : req'[p] = req[p]
<1> DEFINE rec == [NoReq EXCEPT !.pc = "done", !.user = req[r].user, !.symbol = req[r].symbol,
                                !.qty = req[r].qty, !.margin = req[r].margin]
<1>1. /\ rec.pc = "done" /\ rec.user = req[r].user /\ rec.symbol = req[r].symbol
      /\ rec.qty = req[r].qty /\ rec.margin = req[r].margin
  BY DEF NoReq
<1>2. Set(r, rec)
  BY DEF Answer
<1>. HIDE DEF rec
<1>. QED BY <1>1, <1>2, SetPc

LEMMA CloseCommitKeepsLocks ==
  ASSUME TypeInv, TypeInv', LockInv, NEW r \in Reqs, CloseCommit(r)
  PROVE  LockInv'
<1> DEFINE t == req[r].target
<1>1. req[r].pc = "x_commit" /\ pos' = [pos EXCEPT ![t].state = "liquidated"]
      /\ Free(r) /\ Answer(r, "done")
  BY DEF CloseCommit
<1>2. t \in Reqs /\ ~Booked(r)
  BY <1>1 DEF TypeInv, Control, RecordOK, TargetPcs, ClosePcs
<1>3. \A p \in Reqs : pos'[p].state = IF p = t THEN "liquidated" ELSE pos[p].state
  BY <1>1, <1>2 DEF TypeInv, TypeOK, PositionRow
<1>. HIDE DEF t
<1>4. \A p \in LivePositions' : p \in LivePositions
  BY <1>3 DEF LivePositions
<1>5. \A p \in Reqs : Booked(p) => Booked(p)'
  BY <1>3 DEF Booked
<1>6. req'[r].pc = "done" /\ \A p \in Reqs \ {r} : req'[p] = req[p]
  BY <1>1, Answered
<1>. QED BY <1>1, <1>2, <1>4, <1>5, <1>6, FreeKeepsLocks

LEMMA CreateCommitKeepsLocks ==
  ASSUME TypeInv, TypeInv', LockInv, NEW r \in Reqs, CreateCommit(r)
  PROVE  LockInv'
<1> DEFINE t == req[r].target
           u == req[r].user
<1>1. req[r].pc = "c_commit" /\ pos' = [pos EXCEPT ![t] = WrittenPosition(r)]
      /\ Free(r) /\ Answer(r, "done")
  BY DEF CreateCommit
<1>2. t \in Reqs /\ u \in Users /\ ~Booked(r) /\ Selected(r)
  BY <1>1 DEF TypeInv, Control, RecordOK, TargetPcs, UserPcs, LockInv
<1>3. \A p \in Reqs : pos'[p].state = IF p = r /\ r = t THEN "live" ELSE pos[p].state
  BY <1>1, <1>2 DEF TypeInv, TypeOK, PositionRow, WrittenPosition
<1>4. req'[r].pc = "done" /\ req'[r].user = u /\ req'[r].symbol = req[r].symbol
      /\ \A p \in Reqs \ {r} : req'[p] = req[p]
  BY <1>1, Answered
<1>5. CASE t # r
  <2>1. \A p \in LivePositions' : p \in LivePositions
    BY <1>3, <1>5 DEF LivePositions
  <2>2. \A p \in Reqs : Booked(p) => Booked(p)'
    BY <1>3, <1>5 DEF Booked
  <2>. QED BY <1>1, <1>2, <1>4, <2>1, <2>2, FreeKeepsLocks
<1>6. CASE t = r
  <2>1. LivePositions' = LivePositions \cup {r} /\ r \notin LivePositions
    BY <1>2, <1>3, <1>6 DEF LivePositions, Booked
  <2>2. \A p \in LivePositions : ~SameBook(p, r) /\ p # r
    BY <1>2, <1>6, <2>1 DEF Selected
  <2>3. OneLivePosition'
    <3> SUFFICES ASSUME NEW p \in LivePositions', NEW q \in LivePositions',
                        req'[p].user = req'[q].user, req'[p].symbol = req'[q].symbol
                 PROVE  p = q
      BY DEF OneLivePosition
    <3>1. p \in Reqs /\ q \in Reqs
      BY DEF LivePositions
    <3>2. CASE p \in LivePositions /\ q \in LivePositions
      BY <1>4, <2>1, <3>1, <3>2 DEF LockInv, OneLivePosition
    <3>3. CASE p = r \/ q = r
      BY <1>4, <2>1, <2>2, <3>1, <3>3 DEF SameBook
    <3>. QED BY <2>1, <3>2, <3>3
  <2>. HIDE DEF t, u
  <2>4. \A v \in Users : accLock'[v] = IF accLock[v] = r THEN None ELSE accLock[v]
    BY <1>1 DEF Free
  <2>5. Holders'
    <3> SUFFICES ASSUME NEW v \in Users, accLock'[v] \in Reqs
                 PROVE  req'[accLock'[v]].user = v
                        /\ req'[accLock'[v]].pc \in {"c_commit", "x_commit"}
      BY DEF Holders
    <3>1. accLock'[v] = accLock[v] /\ accLock[v] # r
      BY <2>4, LedgerAssumption
    <3>. QED BY <1>4, <3>1 DEF LockInv, Holders
  <2>6. ASSUME NEW p \in Reqs, req'[p].pc = "c_commit" PROVE Selected(p)'
    <3>1. p # r /\ req'[p] = req[p]
      BY <1>4, <2>6
    <3>2. accLock[req[p].user] = p /\ req[p].user \in Users /\ Selected(p)
          /\ req[p].target \in Reqs
      BY <2>6, <3>1 DEF LockInv, Selected, TypeInv, Control, RecordOK, UserPcs, TargetPcs
    <3>3. accLock'[req[p].user] = p
      BY <2>4, <3>1, <3>2
    <3>4. accLock[u] = r
      BY <1>2 DEF Selected, u
    <3>5. req[p].user # u
      BY <3>1, <3>2, <3>4
    <3>6. ASSUME req[p].target = p, NEW q \in LivePositions' PROVE ~SameBook(q, p)'
      <4>1. CASE q = r
        BY <1>4, <3>1, <3>5, <4>1 DEF SameBook
      <4>2. CASE q \in LivePositions /\ q # r
        <5>1. req'[q] = req[q] /\ ~SameBook(q, p)
          BY <1>4, <3>2, <3>6, <4>2 DEF LivePositions, Selected
        <5>. QED BY <3>1, <5>1 DEF SameBook
      <4>. QED BY <2>1, <2>2, <4>1, <4>2
    <3>7. req[p].target # p => pos'[req[p].target].state # "absent"
      BY <1>3, <3>2 DEF Selected, Booked
    <3>. QED BY <3>1, <3>3, <3>6, <3>7 DEF Selected, Booked
  <2>. QED BY <2>3, <2>5, <2>6 DEF LockInv
<1>. QED BY <1>5, <1>6

LEMMA LiquidateKeepsLocks ==
  ASSUME TypeInv, TypeInv', LockInv, Liquidate
  PROVE  LockInv'
<1>. USE DEF rows, locks, external
<1>1. req' = req
  BY DEF Liquidate, UdsBegin, UdsPosition, UdsCommit
<1>2. ASSUME NEW s \in Symbols, UdsBegin(s) PROVE LockInv'
  <2>1. pos' = pos /\ accLock' = accLock
    BY <1>2 DEF UdsBegin
  <2>. QED BY <1>1, <2>1 DEF LockInv, Holders, Selected, OneLivePosition, LivePositions,
                             SameBook, Booked
<1>3. ASSUME NEW p \in Reqs, UdsPosition(p) PROVE LockInv'
  <2>1. pos' = pos
    BY <1>3 DEF UdsPosition
  <2>2. \A u \in Users : accLock'[u] = accLock[u] \/ (accLock[u] = None /\ accLock'[u] = Uds)
    BY <1>3, LedgerAssumption DEF UdsPosition, UdsFlushed
  <2>3. Holders'
    <3> SUFFICES ASSUME NEW v \in Users, accLock'[v] \in Reqs
                 PROVE  req[accLock'[v]].user = v
                        /\ req[accLock'[v]].pc \in {"c_commit", "x_commit"}
      BY <1>1 DEF Holders
    <3>1. accLock'[v] = accLock[v]
      BY <2>2, LedgerAssumption
    <3>. QED BY <3>1 DEF LockInv, Holders
  <2>4. ASSUME NEW r \in Reqs, req[r].pc = "c_commit" PROVE accLock'[req[r].user] = r
    <3>1. req[r].user \in Users /\ accLock[req[r].user] = r
      BY <2>4 DEF LockInv, Selected, TypeInv, Control, RecordOK, UserPcs
    <3>. QED BY <2>2, <3>1, LedgerAssumption
  <2>. QED BY <1>1, <2>1, <2>3, <2>4 DEF LockInv, Selected, OneLivePosition, LivePositions,
                                         SameBook, Booked
<1>4. CASE UdsCommit
  <2>1. \A p \in Reqs : pos'[p].state = IF posLock[p] = Uds THEN "liquidated" ELSE pos[p].state
    BY <1>4 DEF UdsCommit, TypeInv, TypeOK, PositionRow
  <2>2. \A p \in Reqs : Booked(p) => Booked(p)'
    BY <2>1 DEF Booked
  <2>3. \A p \in LivePositions' : p \in LivePositions
    BY <2>1 DEF LivePositions
  <2>4. Free(Uds)
    BY <1>4 DEF UdsCommit
  <2>. QED BY <1>1, <2>2, <2>3, <2>4, LedgerAssumption, FreeKeepsLocks
<1>. QED BY <1>2, <1>3, <1>4 DEF Liquidate

LEMMA EnvironmentKeepsLocks ==
  ASSUME TypeInv, TypeInv', LockInv,
         \/ DetectDeadlock \/ (\E o \in Reqs : ExchangeFill(o) \/ KeyExpire(o))
         \/ Crash \/ Quiet \/ UNCHANGED vars
  PROVE  LockInv'
<1>. USE DEF rows, locks, external
<1>1. pos' = pos
  BY DEF DetectDeadlock, ExchangeFill, KeyExpire, Crash, Quiet, vars
<1>2. (\A p \in LivePositions' : p \in LivePositions) /\ \A p \in Reqs : Booked(p) => Booked(p)'
  BY <1>1 DEF LivePositions, Booked
<1>3. ASSUME NEW r \in Reqs, DeadlockedWith(r), Abort(r) PROVE LockInv'
  <2> DEFINE rec == [NoReq EXCEPT !.pc = "failed"]
  <2>1. rec.pc = "failed"
    BY DEF NoReq
  <2>2. Set(r, rec) /\ Free(r)
    BY <1>3 DEF Abort, Drop
  <2>. HIDE DEF rec
  <2>3. req'[r].pc = "failed" /\ \A p \in Reqs \ {r} : req'[p] = req[p]
    BY <2>1, <2>2, SetPc
  <2>4. ~Booked(r)
    BY <1>3 DEF DeadlockedWith, TypeInv, Control
  <2>. QED BY <1>2, <2>2, <2>3, <2>4, FreeKeepsLocks
<1>4. ASSUME UdsAbort, req' = req PROVE LockInv'
  BY <1>2, <1>4, LedgerAssumption, FreeKeepsLocks DEF UdsAbort
<1>5. CASE DetectDeadlock
  BY <1>3, <1>4, <1>5 DEF DetectDeadlock
<1>6. ASSUME req' = req, accLock' = accLock PROVE LockInv'
  BY <1>1, <1>6 DEF LockInv, Holders, Selected, OneLivePosition, LivePositions, SameBook, Booked
<1>7. CASE (\E o \in Reqs : ExchangeFill(o) \/ KeyExpire(o)) \/ Quiet \/ UNCHANGED vars
  BY <1>6, <1>7 DEF ExchangeFill, KeyExpire, Quiet, vars
<1>8. CASE Crash
  <2> DEFINE rec == [NoReq EXCEPT !.pc = "failed"]
  <2>1. rec.pc = "failed"
    BY DEF NoReq
  <2>2. \A r \in Reqs : req'[r] = IF r \in InFlight THEN rec ELSE req[r]
    BY <1>8 DEF Crash
  <2>. HIDE DEF rec
  <2>3. \A r \in Reqs : req'[r].pc # "c_commit"
    BY <2>1, <2>2 DEF InFlight, Final
  <2>4. Holders'
    BY <1>8, LedgerAssumption DEF Crash, Holders
  <2>5. \A p \in LivePositions : req'[p] = req[p] /\ p \in Reqs
    BY <2>2 DEF LivePositions, TypeInv, Control, Booked, InFlight, Final
  <2>6. OneLivePosition'
    BY <1>2, <2>5 DEF OneLivePosition, LockInv
  <2>. QED BY <2>3, <2>4, <2>6 DEF LockInv
<1>. QED BY <1>5, <1>7, <1>8

LEMMA LocksStep ==
  ASSUME TypeInv, LockInv, [Next]_vars
  PROVE  LockInv'
<1>1. TypeInv'
  BY TypeStep
<1>2. ASSUME NEW r \in Reqs, Unlocked(r) PROVE LockInv'
  BY <1>1, <1>2, UnlockedSteps, LocalKeepsLocks
<1>3. ASSUME NEW r \in Reqs, Step(r) PROVE LockInv'
  BY <1>1, <1>2, <1>3, CreateLockKeepsLocks, CreateCommitKeepsLocks, CloseLockKeepsLocks,
     CloseCommitKeepsLocks DEF Step, CreateOrder, ClosePosition, Unlocked
<1>. QED BY <1>1, <1>3, LiquidateKeepsLocks, EnvironmentKeepsLocks DEF Next

\* No interleaving of orders, closes, liquidations and crashes gives a user two
\* live positions in one symbol, although no unique index forbids it: the UPDATE
\* of margin_used that create_order flushes before it looks for the position
\* makes the look and the INSERT exclusive per user.
THEOREM AlwaysOneLivePosition == Spec => []OneLivePosition
<1>1. Init => TypeInv /\ LockInv
  BY TypeInit, LocksInit
<1>2. TypeInv /\ LockInv /\ [Next]_vars => TypeInv' /\ LockInv'
  BY TypeStep, LocksStep
<1>3. LockInv => OneLivePosition
  BY DEF LockInv
<1>. QED BY <1>1, <1>2, <1>3, PTL DEF Spec

\* Every step keeps the liquidated positions: a request that read a position while
\* it was live and writes it by primary key does not mark it live.
THEOREM ClosedNeverReopens == Spec => ClosedStaysClosed
<1> DEFINE Kept == \A p \in Reqs : pos[p].state = "liquidated" => pos'[p].state = "liquidated"
<1>1. TypeInv /\ [Next]_vars => Kept
  <2> SUFFICES ASSUME TypeInv, [Next]_vars PROVE Kept
    OBVIOUS
  <2>1. CASE pos' = pos
    BY <2>1
  <2>2. ASSUME NEW r \in Reqs, CreateCommit(r) PROVE Kept
    <3>1. req[r].target \in Reqs /\ ~Booked(r)
      BY <2>2 DEF CreateCommit, TypeInv, Control, RecordOK, TargetPcs
    <3>2. pos' = [pos EXCEPT ![req[r].target] = WrittenPosition(r)]
      BY <2>2 DEF CreateCommit
    <3>3. \A p \in Reqs : pos'[p].state \in {pos[p].state, IF p = r THEN "live" ELSE pos[p].state}
      BY <3>1, <3>2 DEF TypeInv, TypeOK, WrittenPosition
    <3>. QED BY <3>1, <3>3 DEF Booked
  <2>3. ASSUME NEW r \in Reqs, CloseCommit(r) PROVE Kept
    BY <2>3 DEF CloseCommit, TypeInv, TypeOK, PositionRow
  <2>4. CASE UdsCommit
    BY <2>4 DEF UdsCommit, TypeInv, TypeOK, PositionRow
  <2>5. CASE UNCHANGED vars
    BY <2>1, <2>5 DEF vars
  <2>6. ASSUME NEW r \in Reqs, Step(r) PROVE Kept
    <3>1. CreateCommit(r) \/ CloseCommit(r) \/ pos' = pos
      BY <2>6 DEF Step, CreateOrder, CreateBegin, CreateExposure, CreateRisk, CreatePlace,
                  CreateFlush, CreateLock, ClosePosition, CloseBegin, ClosePlace, CloseAccount,
                  CloseLock, CancelOrder, CancelBegin, CancelPlace, CancelCommit, SyncBalance,
                  SyncBegin, SyncWallet, SyncCommit, rows
    <3>. QED BY <2>1, <2>2, <2>3, <3>1
  <2>7. CASE Liquidate \/ DetectDeadlock \/ (\E o \in Reqs : ExchangeFill(o) \/ KeyExpire(o))
             \/ Crash \/ Quiet
    <3>1. UdsCommit \/ pos' = pos
      BY <2>7 DEF Liquidate, UdsBegin, UdsPosition, DetectDeadlock, ExchangeFill, KeyExpire,
                  Crash, Quiet, rows, vars
    <3>. QED BY <2>1, <2>4, <3>1
  <2>. QED BY <2>5, <2>6, <2>7 DEF Next
<1>2. Spec => []TypeInv
  BY TypeInit, TypeStep, PTL DEF Spec
<1>3. TypeInv /\ [Next]_vars => [Kept]_vars
  BY <1>1
<1>. QED BY <1>2, <1>3, PTL DEF Spec, ClosedStaysClosed
-----------------------------------------------------------------------------
(***************************************************************************)
(* Sums over finite sets.  SumFunctionOnSet chooses the members one by one,*)
(* so a fact about it is proved on a smallest set that would contradict it.*)
(***************************************************************************)
\* A nonempty family of subsets of a finite set has a member that contains no other.
LEMMA MinimalMember ==
  ASSUME NEW S, IsFiniteSet(S), NEW F \in SUBSET (SUBSET S), F # {}
  PROVE  \E T \in F : \A U \in F : U \subseteq T => U = T
<1>1. IsWellFoundedOn(StrictSubsetOrdering(S), SUBSET S)
  BY FS_StrictSubsetOrderingWellFounded, FS_FiniteSubsetsOfFinite
<1>2. PICK T \in F : \A U \in F : ~(<<U, T>> \in StrictSubsetOrdering(S))
  <2>. DEFINE R == StrictSubsetOrdering(S)
           P == SUBSET S
  <2>1. IsWellFoundedOn(R, P) /\ F \subseteq P
     BY <1>1
  <2>. HIDE DEF R, P
  <2>2. \E T \in F : \A U \in F : ~(<<U, T>> \in R)
    BY <2>1, WFMin
  <2>. QED BY <2>2 DEF R
<1>3. ASSUME NEW U \in F, U \subseteq T, U # T PROVE FALSE
  BY <1>2, <1>3 DEF StrictSubsetOrdering
<1>. QED BY <1>3

\* g sums f over the subsets of S.
Sums(g, f, S) ==
  g = [s \in SUBSET S |-> IF s = {} THEN 0
                          ELSE f[CHOOSE x \in s : TRUE] + g[s \ {CHOOSE x \in s : TRUE}]]

LEMMA SumIsChosen ==
  ASSUME NEW f, NEW S
  PROVE  SumFunctionOnSet(f, S) = (CHOOSE g : Sums(g, f, S))[S]
BY Zenon DEF SumFunctionOnSet, FoldFunctionOnSet, MapThenFoldSet, Sums

Chosen(s) == CHOOSE x \in s : TRUE

LEMMA ChosenIn ==
  ASSUME NEW s, s # {}
  PROVE  Chosen(s) \in s
BY DEF Chosen

\* The sum over s, given those over its subsets.
Folded(g, f, s) == IF s = {} THEN 0 ELSE f[Chosen(s)] + g[s \ {Chosen(s)}]

LEMMA SumsAt ==
  ASSUME NEW f, NEW S, NEW g, Sums(g, f, S), NEW s \in SUBSET S
  PROVE  g[s] = Folded(g, f, s)
<1>1. g = [t \in SUBSET S |-> Folded(g, f, t)]
  BY Zenon DEF Sums, Chosen, Folded
<1>. QED BY <1>1, Zenon

\* Two such functions agree where both are defined.
LEMMA SumsUnique ==
  ASSUME NEW f, NEW A, NEW B, IsFiniteSet(A), NEW g, NEW h,
         Sums(g, f, A), Sums(h, f, B), NEW t \in SUBSET (A \cap B)
  PROVE  g[t] = h[t]
<1> DEFINE F == {s \in SUBSET (A \cap B) : g[s] # h[s]}
<1>1. SUFFICES ASSUME F # {} PROVE FALSE
  OBVIOUS
<1>2. F \in SUBSET (SUBSET A)
  OBVIOUS
<1>. HIDE DEF F
<1>3. PICK s \in F : \A u \in F : u \subseteq s => u = s
  BY <1>1, <1>2, MinimalMember
<1>4. s \in SUBSET A /\ s \in SUBSET B /\ g[s] # h[s]
  BY <1>3 DEF F
<1>5. g[s] = Folded(g, f, s) /\ h[s] = Folded(h, f, s)
  BY <1>4, SumsAt
<1>6. s # {}
  BY <1>4, <1>5 DEF Folded
<1>7. s \ {Chosen(s)} \notin F
  BY <1>3, <1>6, ChosenIn
<1>8. g[s \ {Chosen(s)}] = h[s \ {Chosen(s)}]
  BY <1>7, <1>4 DEF F
<1>. QED BY <1>4, <1>5, <1>8 DEF Folded

LEMMA SumsExist ==
  ASSUME NEW f, NEW S, IsFiniteSet(S)
  PROVE  \E g : Sums(g, f, S)
<1> DEFINE F == {T \in SUBSET S : ~ \E g : Sums(g, f, T)}
<1>1. SUFFICES ASSUME F # {} PROVE FALSE
  OBVIOUS
<1>2. F \in SUBSET (SUBSET S)
  OBVIOUS
<1>. HIDE DEF F
<1>3. PICK T \in F : \A u \in F : u \subseteq T => u = T
  BY <1>1, <1>2, MinimalMember
<1>4. T \in SUBSET S /\ ~ \E g : Sums(g, f, T)
  BY <1>3 DEF F
<1> DEFINE sum(u) == (CHOOSE g : Sums(g, f, u))[u]
           next(u) == IF u = {} THEN 0 ELSE f[Chosen(u)] + sum(u \ {Chosen(u)})
<1>5. ASSUME NEW u \in SUBSET T, u # T
      PROVE  sum(u) = next(u)
  <2> DEFINE g == CHOOSE g : Sums(g, f, u)
             v == u \ {Chosen(u)}
             h == CHOOSE h : Sums(h, f, v)
  <2>1. \A w \in SUBSET T : w # T => \E g_1 : Sums(g_1, f, w)
    BY <1>3, <1>4 DEF F
  <2>2. Sums(g, f, u)
    <3>1. \E g_1 : Sums(g_1, f, u)
      BY <2>1, <1>5
    <3>. QED BY <3>1, Zenon
  <2>3. CASE u = {}
    <3>. HIDE DEF g
    <3>1. g[u] = 0
      BY <2>2, <2>3, SumsAt DEF Folded
    <3>. QED BY <3>1, <2>3 DEF g
  <2>4. CASE u # {}
    <3>1. v \in SUBSET T /\ v # T /\ v \in SUBSET (u \cap v)
      BY <1>5, <2>4, ChosenIn
    <3>2. Sums(h, f, v)
      <4>1. \E g_1 : Sums(g_1, f, v)
        BY <2>1, <3>1
      <4>. QED BY <4>1, Zenon
    <3>3. IsFiniteSet(u)
      BY <1>4, FS_Subset
    <3>4. sum(u) = g[u] /\ sum(v) = h[v] /\ next(u) = f[Chosen(u)] + sum(v)
      BY <2>4, Zenon
    <3>. HIDE DEF g, h, sum, next
    <3>5. g[v] = h[v]
      BY <2>2, <3>1, <3>2, <3>3, SumsUnique
    <3>6. g[u] = f[Chosen(u)] + g[v]
      BY <2>2, <2>4, SumsAt DEF Folded
    <3>. QED BY <3>4, <3>5, <3>6
  <2>. QED BY <2>3, <2>4
<1> DEFINE g == [u \in SUBSET T |-> next(u)]
<1>6. ASSUME NEW u \in SUBSET T
      PROVE  next(u) = IF u = {} THEN 0 ELSE f[Chosen(u)] + g[u \ {Chosen(u)}]
  <2>1. CASE u = {}
    BY <2>1, Zenon
  <2>2. CASE u # {}
    <3> DEFINE v == u \ {Chosen(u)}
    <3>1. v \in SUBSET T /\ v # T
      BY <2>2, ChosenIn
    <3>2. sum(v) = next(v)
      BY <3>1, <1>5
    <3>3. g[v] = next(v)
      <4>. HIDE DEF next, v
      <4>. QED BY <3>1
    <3>4. next(u) = f[Chosen(u)] + sum(v)
      BY <2>2, Zenon
    <3>. HIDE DEF next, g, sum
    <3>. QED BY <2>2, <3>2, <3>3, <3>4
  <2>. QED BY <2>1, <2>2
<1>7. Sums(g, f, T)
  <2>1. g = [u \in SUBSET T |-> IF u = {} THEN 0 ELSE f[Chosen(u)] + g[u \ {Chosen(u)}]]
    <3>. HIDE DEF next
    <3>1. g = [u \in SUBSET T |-> next(u)]
      BY DEF g
    <3>. HIDE DEF g
    <3>. QED BY <1>6, <3>1, Zenon
  <2>. HIDE DEF g
  <2>. QED BY <2>1, Zenon DEF Sums, Chosen
<1>. QED BY <1>4, <1>7

LEMMA SumUnfolds ==
  ASSUME NEW f, NEW S, IsFiniteSet(S)
  PROVE  SumFunctionOnSet(f, S) = IF S = {} THEN 0 ELSE f[Chosen(S)] + SumFunctionOnSet(f, S \ {Chosen(S)})
<1> DEFINE v == S \ {Chosen(S)}
           g == CHOOSE g : Sums(g, f, S)
           h == CHOOSE h : Sums(h, f, v)
<1>1. IsFiniteSet(v) /\ v \in SUBSET (S \cap v) /\ v \in SUBSET S
  BY FS_Subset
<1>2. Sums(g, f, S)
  <2>1. \E k : Sums(k, f, S)
    BY SumsExist
  <2>. QED BY <2>1, Zenon
<1>3. Sums(h, f, v)
  <2>1. \E k : Sums(k, f, v)
    BY <1>1, SumsExist
  <2>. QED BY <2>1, Zenon
<1>4. SumFunctionOnSet(f, S) = g[S] /\ SumFunctionOnSet(f, v) = h[v]
  BY SumIsChosen, Zenon
<1>. HIDE DEF g, h
<1>5. g[S] = IF S = {} THEN 0 ELSE f[Chosen(S)] + g[v]
  BY <1>2, SumsAt DEF Folded
<1>6. g[v] = h[v]
  BY <1>1, <1>2, <1>3, SumsUnique
<1>. QED BY <1>4, <1>5, <1>6

LEMMA SumEmpty ==
  ASSUME NEW f
  PROVE  SumFunctionOnSet(f, {}) = 0
BY SumUnfolds, FS_EmptySet

LEMMA SumInt ==
  ASSUME NEW S, IsFiniteSet(S), NEW f, \A x \in S : f[x] \in Int
  PROVE  SumFunctionOnSet(f, S) \in Int
<1> DEFINE F == {T \in SUBSET S : SumFunctionOnSet(f, T) \notin Int}
<1>1. SUFFICES ASSUME F # {} PROVE FALSE
  OBVIOUS
<1>2. F \in SUBSET (SUBSET S)
  OBVIOUS
<1>. HIDE DEF F
<1>3. PICK T \in F : \A u \in F : u \subseteq T => u = T
  BY <1>1, <1>2, MinimalMember
<1>4. T \in SUBSET S /\ SumFunctionOnSet(f, T) \notin Int /\ IsFiniteSet(T)
  BY <1>3, FS_Subset DEF F
<1>5. SumFunctionOnSet(f, T) = IF T = {} THEN 0 ELSE f[Chosen(T)] + SumFunctionOnSet(f, T \ {Chosen(T)})
  BY <1>4, SumUnfolds
<1> T # {}
  BY <1>4, <1>5
<1>6. Chosen(T) \in T
  BY ChosenIn
<1>7. SumFunctionOnSet(f, T \ {Chosen(T)}) \in Int
  BY <1>3, <1>4, <1>6 DEF F
<1>. QED BY <1>4, <1>5, <1>6, <1>7

\* Any member may be added last.
LEMMA SumRemove ==
  ASSUME NEW S, IsFiniteSet(S), NEW f, \A x \in S : f[x] \in Int, NEW y \in S
  PROVE  SumFunctionOnSet(f, S) = f[y] + SumFunctionOnSet(f, S \ {y})
<1> DEFINE Bad(T) == \E z \in T : SumFunctionOnSet(f, T) # f[z] + SumFunctionOnSet(f, T \ {z})
           F == {T \in SUBSET S : Bad(T)}
<1>1. SUFFICES ASSUME F # {} PROVE FALSE
  OBVIOUS
<1>2. F \in SUBSET (SUBSET S)
  OBVIOUS
<1>. HIDE DEF F
<1>3. PICK T \in F : \A u \in F : u \subseteq T => u = T
  BY <1>1, <1>2, MinimalMember
<1>4. T \in SUBSET S /\ Bad(T) /\ IsFiniteSet(T)
  BY <1>3, FS_Subset DEF F
<1>5. PICK z \in T : SumFunctionOnSet(f, T) # f[z] + SumFunctionOnSet(f, T \ {z})
  BY <1>4
<1> DEFINE c == Chosen(T)
           rest == T \ {c, z}
<1>6. c \in T
  BY ChosenIn
<1>7. SumFunctionOnSet(f, T) = f[c] + SumFunctionOnSet(f, T \ {c})
  BY <1>4, <1>6, SumUnfolds
<1>8. c # z
  BY <1>5, <1>7
<1>9. T \ {c} \in SUBSET S /\ T \ {z} \in SUBSET S /\ ~Bad(T \ {c}) /\ ~Bad(T \ {z})
  <2>1. T \ {c} \in SUBSET S /\ T \ {z} \in SUBSET S /\ T \ {c} # T /\ T \ {z} # T
    BY <1>4, <1>6
  <2>. QED BY <1>3, <2>1 DEF F
<1>10. /\ (T \ {c}) \ {z} = rest /\ (T \ {z}) \ {c} = rest
       /\ z \in T \ {c} /\ c \in T \ {z} /\ rest \in SUBSET S
  BY <1>4, <1>6, <1>8
<1>11. SumFunctionOnSet(f, T \ {c}) = f[z] + SumFunctionOnSet(f, rest) /\ SumFunctionOnSet(f, T \ {z}) = f[c] + SumFunctionOnSet(f, rest)
  BY <1>9, <1>10
<1>12. SumFunctionOnSet(f, rest) \in Int /\ f[c] \in Int /\ f[z] \in Int
  BY <1>4, <1>6, <1>10, FS_Subset, SumInt
<1>. HIDE DEF c, rest
<1>. QED BY <1>5, <1>7, <1>11, <1>12

\* Functions that agree on a set have the same sum over it.
LEMMA SumEqual ==
  ASSUME NEW S, IsFiniteSet(S), NEW f, NEW g, \A x \in S : f[x] = g[x]
  PROVE  SumFunctionOnSet(f, S) = SumFunctionOnSet(g, S)
<1> DEFINE F == {T \in SUBSET S : SumFunctionOnSet(f, T) # SumFunctionOnSet(g, T)}
<1>1. SUFFICES ASSUME F # {} PROVE FALSE
  OBVIOUS
<1>2. F \in SUBSET (SUBSET S)
  OBVIOUS
<1>. HIDE DEF F
<1>3. PICK T \in F : \A u \in F : u \subseteq T => u = T
  BY <1>1, <1>2, MinimalMember
<1>4. T \in SUBSET S /\ SumFunctionOnSet(f, T) # SumFunctionOnSet(g, T) /\ IsFiniteSet(T)
  BY <1>3, FS_Subset DEF F
<1>5. /\ SumFunctionOnSet(f, T) = IF T = {} THEN 0 ELSE f[Chosen(T)] + SumFunctionOnSet(f, T \ {Chosen(T)})
      /\ SumFunctionOnSet(g, T) = IF T = {} THEN 0 ELSE g[Chosen(T)] + SumFunctionOnSet(g, T \ {Chosen(T)})
  BY <1>4, SumUnfolds
<1> T # {}
  BY <1>4, <1>5
<1>6. Chosen(T) \in T
  BY ChosenIn
<1>7. SumFunctionOnSet(f, T \ {Chosen(T)}) = SumFunctionOnSet(g, T \ {Chosen(T)})
  BY <1>3, <1>4, <1>6 DEF F
<1>. QED BY <1>4, <1>5, <1>6, <1>7

\* A sum grows with its terms.
LEMMA SumMonotone ==
  ASSUME NEW S, IsFiniteSet(S), NEW f, NEW g,
         \A x \in S : f[x] \in Int /\ g[x] \in Int /\ f[x] <= g[x]
  PROVE  SumFunctionOnSet(f, S) <= SumFunctionOnSet(g, S)
<1> DEFINE F == {T \in SUBSET S : ~(SumFunctionOnSet(f, T) <= SumFunctionOnSet(g, T))}
<1>1. SUFFICES ASSUME F # {} PROVE FALSE
  OBVIOUS
<1>2. F \in SUBSET (SUBSET S)
  OBVIOUS
<1>. HIDE DEF F
<1>3. PICK T \in F : \A u \in F : u \subseteq T => u = T
  BY <1>1, <1>2, MinimalMember
<1>4. T \in SUBSET S /\ ~(SumFunctionOnSet(f, T) <= SumFunctionOnSet(g, T)) /\ IsFiniteSet(T)
  BY <1>3, FS_Subset DEF F
<1>5. /\ SumFunctionOnSet(f, T) = IF T = {} THEN 0 ELSE f[Chosen(T)] + SumFunctionOnSet(f, T \ {Chosen(T)})
      /\ SumFunctionOnSet(g, T) = IF T = {} THEN 0 ELSE g[Chosen(T)] + SumFunctionOnSet(g, T \ {Chosen(T)})
  BY <1>4, SumUnfolds
<1> T # {}
  BY <1>4, <1>5
<1>6. Chosen(T) \in T
  BY ChosenIn
<1> DEFINE v == T \ {Chosen(T)}
<1>7. v \in SUBSET S /\ v \notin F /\ IsFiniteSet(v)
  BY <1>3, <1>4, <1>6, FS_Subset
<1>8. SumFunctionOnSet(f, v) <= SumFunctionOnSet(g, v)
  BY <1>7 DEF F
<1>9. SumFunctionOnSet(f, v) \in Int /\ SumFunctionOnSet(g, v) \in Int
  BY <1>7, SumInt
<1>. QED BY <1>4, <1>5, <1>6, <1>8, <1>9

LEMMA SumAdd ==
  ASSUME NEW S, IsFiniteSet(S), NEW y, y \notin S, NEW f, \A x \in S \cup {y} : f[x] \in Int
  PROVE  SumFunctionOnSet(f, S \cup {y}) = f[y] + SumFunctionOnSet(f, S)
<1> DEFINE T == S \cup {y}
<1>1. IsFiniteSet(T) /\ y \in T /\ T \ {y} = S
  BY FS_AddElement
<1>2. SumFunctionOnSet(f, T) = f[y] + SumFunctionOnSet(f, T \ {y})
  BY <1>1, SumRemove
<1>. QED BY <1>1, <1>2

LEMMA SumNat ==
  ASSUME NEW S, IsFiniteSet(S), NEW f, \A x \in S : f[x] \in Nat
  PROVE  SumFunctionOnSet(f, S) \in Nat
<1> DEFINE F == {T \in SUBSET S : SumFunctionOnSet(f, T) \notin Nat}
<1>1. SUFFICES ASSUME F # {} PROVE FALSE
  OBVIOUS
<1>2. F \in SUBSET (SUBSET S)
  OBVIOUS
<1>. HIDE DEF F
<1>3. PICK T \in F : \A u \in F : u \subseteq T => u = T
  BY <1>1, <1>2, MinimalMember
<1>4. T \in SUBSET S /\ SumFunctionOnSet(f, T) \notin Nat /\ IsFiniteSet(T)
  BY <1>3, FS_Subset DEF F
<1>5. PICK y \in T : TRUE
  BY <1>4, SumEmpty
<1>6. SumFunctionOnSet(f, T) = f[y] + SumFunctionOnSet(f, T \ {y})
  BY <1>4, SumRemove
<1>7. SumFunctionOnSet(f, T \ {y}) \in Nat
  BY <1>3, <1>4 DEF F
<1>. QED BY <1>4, <1>6, <1>7

\* Terms that are zero may be left out.
LEMMA SumPadded ==
  ASSUME NEW T, IsFiniteSet(T), NEW S \in SUBSET T, NEW f, \A x \in T : f[x] \in Int,
         \A x \in T \ S : f[x] = 0
  PROVE  SumFunctionOnSet(f, T) = SumFunctionOnSet(f, S)
<1> DEFINE F == {V \in SUBSET T : S \subseteq V /\ SumFunctionOnSet(f, V) # SumFunctionOnSet(f, S)}
<1>1. SUFFICES ASSUME F # {} PROVE FALSE
  OBVIOUS
<1>2. F \in SUBSET (SUBSET T)
  OBVIOUS
<1>. HIDE DEF F
<1>3. PICK V \in F : \A u \in F : u \subseteq V => u = V
  BY <1>1, <1>2, MinimalMember
<1>4. /\ V \in SUBSET T /\ S \subseteq V /\ SumFunctionOnSet(f, V) # SumFunctionOnSet(f, S)
      /\ IsFiniteSet(V)
  BY <1>3, FS_Subset DEF F
<1>5. PICK y \in V \ S : TRUE
  BY <1>4
<1>6. SumFunctionOnSet(f, V) = f[y] + SumFunctionOnSet(f, V \ {y}) /\ f[y] = 0
  BY <1>4, SumRemove
<1>7. SumFunctionOnSet(f, V \ {y}) = SumFunctionOnSet(f, S)
  BY <1>3, <1>4, <1>5 DEF F
<1>8. SumFunctionOnSet(f, S) \in Int
  BY FS_Subset, SumInt
<1>. QED BY <1>4, <1>6, <1>7, <1>8

\* A sum of natural numbers grows with the set.
LEMMA SumSubset ==
  ASSUME NEW T, IsFiniteSet(T), NEW S \in SUBSET T, NEW f, \A x \in T : f[x] \in Nat
  PROVE  SumFunctionOnSet(f, S) <= SumFunctionOnSet(f, T)
<1> DEFINE g == [x \in T |-> IF x \in S THEN f[x] ELSE 0]
           h == [x \in T |-> f[x]]
<1>1. \A x \in T : g[x] \in Int /\ h[x] \in Int /\ g[x] <= h[x] /\ h[x] = f[x]
  OBVIOUS
<1>2. (\A x \in T \ S : g[x] = 0) /\ \A x \in S : g[x] = f[x]
  OBVIOUS
<1>3. IsFiniteSet(S)
  BY FS_Subset
<1>. HIDE DEF g, h
<1>4. SumFunctionOnSet(g, T) = SumFunctionOnSet(g, S)
  BY <1>1, <1>2, SumPadded
<1>5. SumFunctionOnSet(g, S) = SumFunctionOnSet(f, S)
  BY <1>2, <1>3, SumEqual
<1>6. SumFunctionOnSet(g, T) <= SumFunctionOnSet(h, T)
  BY <1>1, SumMonotone
<1>7. SumFunctionOnSet(h, T) = SumFunctionOnSet(f, T)
  BY <1>1, SumEqual
<1>. QED BY <1>4, <1>5, <1>6, <1>7

\* One term is replaced.
LEMMA SumChange ==
  ASSUME NEW S, IsFiniteSet(S), NEW f, NEW g, NEW y \in S,
         \A x \in S : f[x] \in Int /\ g[x] \in Int, \A x \in S \ {y} : g[x] = f[x]
  PROVE  SumFunctionOnSet(g, S) = SumFunctionOnSet(f, S) - f[y] + g[y]
<1> DEFINE T == S \ {y}
<1>1. IsFiniteSet(T) /\ T \subseteq S
  BY FS_Subset
<1>2. SumFunctionOnSet(g, T) = SumFunctionOnSet(f, T)
  BY <1>1, SumEqual
<1>3. /\ SumFunctionOnSet(f, S) = f[y] + SumFunctionOnSet(f, T)
      /\ SumFunctionOnSet(g, S) = g[y] + SumFunctionOnSet(g, T)
  BY SumRemove
<1>4. SumFunctionOnSet(f, T) \in Int
  BY <1>1, SumInt
<1>. QED BY <1>2, <1>3, <1>4
-----------------------------------------------------------------------------
(***************************************************************************)
(* PositionIsSumOfOrders.  Between its SELECT and its COMMIT create_order  *)
(* holds what it will write; Computed says that it still is the position   *)
(* as it stands with the order added, because the account's lock keeps     *)
(* every other order of the user away.                                     *)
(***************************************************************************)
Computed(r) ==
  LET t == req[r].target
  IN  IF t = r THEN req[r].newQty = req[r].qty /\ req[r].newMargin = req[r].margin
      ELSE /\ SameBook(t, r)
           /\ req[r].newQty = pos[t].qty + req[r].qty
           /\ req[r].newMargin = pos[t].margin + req[r].margin

\* An order row belongs to a finished request, a booked one to a position row, and
\* cancel_order works on rows that are there.
OrderRows ==
  /\ \A o \in Reqs : order[o].status # "absent" => req[o].pc = "done"
  /\ \A o \in Reqs : order[o].target # None =>
       order[o].status # "absent" /\ order[o].target \in Reqs /\ Booked(order[o].target)
  /\ \A r \in Reqs : req[r].pc \in {"k_place", "k_commit"} =>
       order[req[r].target].status # "absent"

BookInv ==
  /\ OrderRows
  /\ \A r \in Reqs : req[r].pc = "c_commit" => Computed(r)
  /\ PositionIsSumOfOrders

LEMMA OrdersOf ==
  ASSUME TypeInv, OrderRows, NEW p \in Reqs
  PROVE  /\ IsFiniteSet(OrdersOn(p)) /\ OrdersOn(p) \subseteq Reqs
         /\ \A o \in OrdersOn(p) : req[o].pc = "done" /\ order[o].status # "absent" /\ Booked(p)
<1>1. OrdersOn(p) \subseteq Reqs
  BY DEF OrdersOn
<1>2. IsFiniteSet(OrdersOn(p))
  BY <1>1, LedgerAssumption, FS_Subset
<1>3. \A o \in OrdersOn(p) : order[o].target = p /\ p # None
  BY LedgerAssumption DEF OrdersOn
<1>. QED BY <1>1, <1>2, <1>3 DEF OrderRows

\* A step that books no order and keeps the quantities of positions, the requests
\* that are done and what those about to commit have computed.
LEMMA BooksStay ==
  ASSUME TypeInv, LockInv, BookInv,
         \A p \in Reqs : /\ pos'[p].qty = pos[p].qty /\ pos'[p].margin = pos[p].margin
                         /\ Booked(p)' <=> Booked(p),
         \A o \in Reqs : order'[o].target = order[o].target,
         \A r \in Reqs : req[r].pc = "done" => req'[r] = req[r],
         \A r \in Reqs : req'[r].pc = "c_commit" => req'[r] = req[r] \/ Computed(r)',
         OrderRows'
  PROVE  BookInv'
<1>1. \A r \in Reqs : req'[r].pc = "c_commit" => Computed(r)'
  <2> SUFFICES ASSUME NEW r \in Reqs, req'[r].pc = "c_commit", req'[r] = req[r]
               PROVE  Computed(r)'
    OBVIOUS
  <2>1. Computed(r) /\ req[r].target \in Reqs
    BY DEF BookInv, TypeInv, Control, RecordOK, TargetPcs
  <2>2. CASE req[r].target = r
    BY <2>1, <2>2 DEF Computed
  <2>3. CASE req[r].target # r
    <3> DEFINE t == req[r].target
    <3>1. /\ SameBook(t, r) /\ req[r].newQty = pos[t].qty + req[r].qty
          /\ req[r].newMargin = pos[t].margin + req[r].margin
      BY <2>1, <2>3 DEF Computed
    <3>2. req'[t] = req[t] /\ pos'[t].qty = pos[t].qty /\ pos'[t].margin = pos[t].margin
      BY <2>1, <2>3 DEF LockInv, Selected, TypeInv, Control
    <3>3. SameBook(t, r)'
      BY <3>1, <3>2 DEF SameBook
    <3>. QED BY <2>3, <3>1, <3>2, <3>3 DEF Computed
  <2>. QED BY <2>2, <2>3
<1>2. PositionIsSumOfOrders'
  <2> SUFFICES ASSUME NEW p \in Reqs, Booked(p)
               PROVE  /\ pos[p].qty = SumFunctionOnSet(OrderQuantities', OrdersOn(p)')
                      /\ pos[p].margin = SumFunctionOnSet(OrderMargins', OrdersOn(p)')
    BY DEF PositionIsSumOfOrders, Booked
  <2>1. OrdersOn(p)' = OrdersOn(p)
    BY DEF OrdersOn
  <2>2. /\ \A o \in OrdersOn(p) : OrderQuantities'[o] = OrderQuantities[o]
        /\ \A o \in OrdersOn(p) : OrderMargins'[o] = OrderMargins[o]
    BY OrdersOf DEF BookInv, OrderQuantities, OrderMargins
  <2>3. IsFiniteSet(OrdersOn(p))
    BY OrdersOf DEF BookInv
  <2>4. /\ SumFunctionOnSet(OrderQuantities', OrdersOn(p)) = SumFunctionOnSet(OrderQuantities, OrdersOn(p))
        /\ SumFunctionOnSet(OrderMargins', OrdersOn(p)) = SumFunctionOnSet(OrderMargins, OrdersOn(p))
    BY <2>2, <2>3, SumEqual
  <2>. QED BY <2>1, <2>4 DEF BookInv, PositionIsSumOfOrders, Booked
<1>. QED BY <1>1, <1>2 DEF BookInv

LEMMA BooksInit == Init => BookInv
BY LedgerAssumption DEF Init, BookInv, OrderRows, PositionIsSumOfOrders, NoReq, NoOrder, NoPosition

LEMMA Dropped ==
  ASSUME TypeInv, NEW r \in Reqs, NEW pc, Drop(r, pc)
  PROVE  req'[r].pc = pc /\ \A p \in Reqs \ {r} : req'[p] = req[p]
<1> DEFINE rec == [NoReq EXCEPT !.pc = pc]
<1>1. rec.pc = pc /\ Set(r, rec)
  BY DEF NoReq, Drop
<1>. HIDE DEF rec
<1>. QED BY <1>1, SetPc

\* What the request's record holds once the position has been selected.
LEMMA Selecting ==
  ASSUME TypeInv, NEW r \in Reqs, SelectPosition(r)
  PROVE  /\ req'[r].pc = "c_commit" /\ req'[r].user = req[r].user
         /\ req'[r].symbol = req[r].symbol /\ req'[r].price = req[r].price
         /\ req'[r].qty = req[r].qty /\ req'[r].margin = req[r].margin
         /\ req'[r].mu = req[r].mu + req[r].margin
         /\ \A p \in Reqs \ {r} : req'[p] = req[p]
         /\ LET live == LiveOf(req[r].user, req[r].symbol)
                t    == req'[r].target
            IN  \/ /\ live = {} /\ t = r
                   /\ req'[r].newQty = req[r].qty /\ req'[r].newMargin = req[r].margin
                \/ /\ live = {t} /\ t \in Reqs
                   /\ req'[r].newQty = pos[t].qty + req[r].qty
                   /\ req'[r].newMargin = pos[t].margin + req[r].margin
<1> DEFINE live == LiveOf(req[r].user, req[r].symbol)
           Chose(t, q, m) ==
             \/ /\ live = {} /\ t = r /\ q = req[r].qty /\ m = req[r].margin
             \/ /\ live = {t} /\ t \in Reqs
                /\ q = pos[t].qty + req[r].qty /\ m = pos[t].margin + req[r].margin
           rec(t, q, m) == [req[r] EXCEPT !.pc = "c_commit", !.target = t,
                              !.mu = req[r].mu + req[r].margin, !.newQty = q, !.newMargin = m]
<1>1. \E t, q, m : Chose(t, q, m) /\ Set(r, rec(t, q, m))
  <2>1. CASE live = {}
    <3>1. Chose(r, req[r].qty, req[r].margin) /\ Set(r, rec(r, req[r].qty, req[r].margin))
      BY <2>1 DEF SelectPosition
    <3>. QED BY <3>1
  <2>2. CASE live # {}
    <3>1. PICK p \in live :
            /\ live = {p}
            /\ Set(r, rec(p, pos[p].qty + req[r].qty, pos[p].margin + req[r].margin))
      BY <2>2 DEF SelectPosition
    <3>2. Chose(p, pos[p].qty + req[r].qty, pos[p].margin + req[r].margin)
      BY <3>1 DEF LiveOf, LivePositions
    <3>. QED BY <3>1, <3>2
  <2>. QED BY <2>1, <2>2
<1>2. PICK t, q, m : Chose(t, q, m) /\ Set(r, rec(t, q, m))
  BY <1>1
<1> DEFINE new == rec(t, q, m)
<1>3. Set(r, new)
  BY <1>2
<1>4. /\ new.pc = "c_commit" /\ new.user = req[r].user /\ new.symbol = req[r].symbol
      /\ new.price = req[r].price /\ new.qty = req[r].qty /\ new.margin = req[r].margin
      /\ new.mu = req[r].mu + req[r].margin
      /\ new.target = t /\ new.newQty = q /\ new.newMargin = m
  BY DEF TypeInv, TypeOK, RequestRecord
<1>. HIDE DEF new, live
<1>5. req'[r] = new /\ \A p \in Reqs \ {r} : req'[p] = req[p]
  BY <1>3, SetPc
<1>6. Chose(req'[r].target, req'[r].newQty, req'[r].newMargin)
  BY <1>2, <1>4, <1>5
<1>. QED BY <1>4, <1>5, <1>6 DEF live

LEMMA CreateLockKeepsBooks ==
  ASSUME TypeInv, LockInv, BookInv, NEW r \in Reqs, CreateLock(r)
  PROVE  BookInv'
<1>1. req[r].pc = "c_lock" /\ SelectPosition(r) /\ UNCHANGED <<pos, order>> /\ ~Booked(r)
  BY DEF CreateLock, rows, TypeInv, Control
<1>2. \A p \in Reqs \ {r} : req'[p] = req[p]
  BY <1>1, Selecting
<1>3. Computed(r)'
  <2> DEFINE t == req'[r].target
             live == LiveOf(req[r].user, req[r].symbol)
  <2>1. CASE live = {}
    BY <1>1, <2>1, Selecting DEF Computed
  <2>2. CASE live # {}
    <3>1. live = {t} /\ t \in Reqs /\ req'[r].newQty = pos[t].qty + req[r].qty
          /\ req'[r].newMargin = pos[t].margin + req[r].margin
      BY <1>1, <2>2, Selecting
    <3>2. t # r /\ req[t].user = req[r].user /\ req[t].symbol = req[r].symbol
      BY <1>1, <3>1 DEF LiveOf, LivePositions, Booked
    <3>. HIDE DEF live
    <3>3. req'[t] = req[t] /\ req'[r].user = req[r].user /\ req'[r].symbol = req[r].symbol
          /\ req'[r].qty = req[r].qty /\ req'[r].margin = req[r].margin
      BY <1>1, <1>2, <3>1, <3>2, Selecting
    <3>. QED BY <1>1, <3>1, <3>2, <3>3 DEF Computed, SameBook
  <2>. QED BY <2>1, <2>2
<1>4. OrderRows'
  <2>1. req'[r].pc = "c_commit"
    BY <1>1, Selecting
  <2>. QED BY <1>1, <1>2, <2>1 DEF BookInv, OrderRows, Booked
<1>. QED BY <1>1, <1>2, <1>3, <1>4, BooksStay DEF Booked

LEMMA CloseLockKeepsBooks ==
  ASSUME TypeInv, LockInv, BookInv, NEW r \in Reqs, CloseLock(r)
  PROVE  BookInv'
<1>1. req[r].pc = "x_lock" /\ Goto(r, "x_commit") /\ UNCHANGED <<pos, order>>
  BY DEF CloseLock, rows
<1> DEFINE rec == [req[r] EXCEPT !.pc = "x_commit"]
<1>2. rec.pc = "x_commit" /\ Set(r, rec)
  BY <1>1 DEF Goto, TypeInv, TypeOK, RequestRecord
<1>. HIDE DEF rec
<1>3. req'[r].pc = "x_commit" /\ \A p \in Reqs \ {r} : req'[p] = req[p]
  BY <1>2, SetPc
<1>4. OrderRows'
  BY <1>1, <1>3 DEF BookInv, OrderRows, Booked
<1>. QED BY <1>1, <1>3, <1>4, BooksStay DEF Booked

\* close_position adds an order row that is booked on no position.
LEMMA CloseCommitKeepsBooks ==
  ASSUME TypeInv, LockInv, BookInv, NEW r \in Reqs, CloseCommit(r)
  PROVE  BookInv'
<1> DEFINE t == req[r].target
<1>1. /\ req[r].pc = "x_commit" /\ pos' = [pos EXCEPT ![t].state = "liquidated"]
      /\ order' = [order EXCEPT ![r] = [status |-> "FILLED", target |-> None]]
      /\ Answer(r, "done")
  BY DEF CloseCommit
<1>2. t \in Reqs /\ Booked(t) /\ None \notin Reqs /\ order \in [Reqs -> OrderRow]
  BY <1>1, LedgerAssumption DEF TypeInv, TypeOK, Control, RecordOK, TargetPcs, ClosePcs
<1>3. \A p \in Reqs : /\ pos'[p].qty = pos[p].qty /\ pos'[p].margin = pos[p].margin
                      /\ Booked(p)' <=> Booked(p)
  BY <1>1, <1>2 DEF TypeInv, TypeOK, PositionRow, Booked
<1>4. order[r].target = None
  BY <1>1 DEF BookInv, OrderRows
<1>5. /\ order'[r].status = "FILLED" /\ order'[r].target = None
      /\ \A o \in Reqs \ {r} : order'[o] = order[o]
  BY <1>1, <1>2
<1>. HIDE DEF t
<1>6. req'[r].pc = "done" /\ \A p \in Reqs \ {r} : req'[p] = req[p]
  BY <1>1, Answered
<1>7. OrderRows'
  <2>1. \A q \in Reqs : req'[q].pc \in {"k_place", "k_commit"} =>
          q # r /\ req'[q] = req[q] /\ req[q].target \in Reqs
    BY <1>6 DEF TypeInv, Control, RecordOK, TargetPcs
  <2>2. \A o \in Reqs : order[o].status # "absent" => order'[o].status # "absent"
    BY <1>5
  <2>. QED BY <1>3, <1>5, <1>6, <2>1, <2>2 DEF BookInv, OrderRows
<1>8. \A o \in Reqs : order'[o].target = order[o].target
  BY <1>4, <1>5
<1>9. \A q \in Reqs : /\ req[q].pc = "done" => req'[q] = req[q]
                      /\ req'[q].pc = "c_commit" => req'[q] = req[q]
  BY <1>1, <1>6
<1>. QED BY <1>3, <1>7, <1>8, <1>9, BooksStay

\* The steps that neither take nor end a transaction that writes a position.
LEMMA UnlockedKeepsBooks ==
  ASSUME TypeInv, LockInv, BookInv, NEW r \in Reqs, Unlocked(r)
  PROVE  BookInv'
<1>1. /\ req[r].pc \notin {"c_commit", "x_commit", "done"} /\ req'[r].pc # "c_commit"
      /\ \A p \in Reqs \ {r} : req'[p] = req[p]
      /\ pos' = pos
  BY UnlockedSteps
<1>2. CASE CancelBegin(r)
  <2>1. order' = order
    BY <1>2 DEF CancelBegin, rows
  <2>2. req'[r].pc \in {"k_place", "k_commit"} => order[req'[r].target].status # "absent"
    <3>1. CASE Drop(r, "rejected")
      BY <1>2, <3>1, Dropped
    <3>2. ASSUME NEW o \in Reqs, Cancellable(o),
                 Set(r, [NoReq EXCEPT !.pc = IF key[o] THEN "k_place" ELSE "k_commit",
                                      !.target = o])
          PROVE  order[req'[r].target].status # "absent"
      <4> DEFINE rec == [NoReq EXCEPT !.pc = IF key[o] THEN "k_place" ELSE "k_commit",
                                      !.target = o]
      <4>1. rec.target = o
        BY DEF NoReq
      <4>2. Set(r, rec)
        BY <3>2
      <4>. HIDE DEF rec
      <4>. QED BY <3>2, <4>1, <4>2, SetPc DEF Cancellable
    <3>. QED BY <1>2, <3>1, <3>2 DEF CancelBegin
  <2>3. OrderRows'
    BY <1>1, <2>1, <2>2 DEF BookInv, OrderRows, Booked
  <2>. QED BY <1>1, <2>1, <2>3, BooksStay DEF Booked
<1>3. CASE CancelPlace(r)
  <2>1. order' = order /\ req[r].pc = "k_place" /\ req[r].target \in Reqs
    BY <1>3 DEF CancelPlace, rows, TypeInv, Control, RecordOK, TargetPcs
  <2>2. req'[r].pc \in {"k_place", "k_commit"} => req'[r].target = req[r].target
    <3>1. CASE Goto(r, "k_commit")
      <4> DEFINE rec == [req[r] EXCEPT !.pc = "k_commit"]
      <4>1. rec.target = req[r].target
        BY DEF TypeInv, TypeOK, RequestRecord
      <4>2. Set(r, rec)
        BY <3>1 DEF Goto
      <4>. HIDE DEF rec
      <4>. QED BY <4>1, <4>2, SetPc
    <3>2. CASE Drop(r, "failed")
      BY <3>2, Dropped
    <3>. QED BY <1>3, <3>1, <3>2 DEF CancelPlace
  <2>3. OrderRows'
    BY <1>1, <2>1, <2>2 DEF BookInv, OrderRows, Booked
  <2>. QED BY <1>1, <2>1, <2>3, BooksStay DEF Booked
<1>4. CASE CancelCommit(r)
  <2> DEFINE t == req[r].target
  <2>1. /\ order' = [order EXCEPT ![t].status = "CANCELED"] /\ t \in Reqs
        /\ req'[r].pc = "done" /\ req[r].pc = "k_commit"
    BY <1>4, Moves DEF CancelCommit, TypeInv, Control, RecordOK, TargetPcs
  <2>2. \A o \in Reqs : /\ order'[o].target = order[o].target
                        /\ order'[o].status = IF o = t THEN "CANCELED" ELSE order[o].status
    BY <2>1 DEF TypeInv, TypeOK, OrderRow
  <2>3. order[t].status # "absent"
    BY <2>1 DEF BookInv, OrderRows
  <2>. HIDE DEF t
  <2>4. \A q \in Reqs : req'[q].pc \in {"k_place", "k_commit"} =>
          req'[q] = req[q] /\ req[q].target \in Reqs
    BY <1>1, <2>1 DEF TypeInv, Control, RecordOK, TargetPcs
  <2>5. OrderRows'
    <3>1. \A o \in Reqs : order'[o].status # "absent" <=> order[o].status # "absent"
      BY <2>2, <2>3
    <3>. QED BY <1>1, <2>1, <2>2, <2>4, <3>1 DEF BookInv, OrderRows, Booked
  <2>. QED BY <1>1, <2>2, <2>5, BooksStay DEF Booked
<1>5. CASE ~CancelOrder(r)
  <2>1. order' = order
    BY <1>5 DEF Unlocked, CreateBegin, CreateExposure, CreateRisk, CreatePlace, CreateFlush,
             CloseBegin, ClosePlace, CloseAccount, SyncBalance, SyncBegin, SyncWallet,
             SyncCommit, rows
  <2>2. req'[r].pc \notin {"k_place", "k_commit"}
    BY <1>5, Moves DEF Unlocked, SyncBalance
  <2>3. OrderRows'
    BY <1>1, <2>1, <2>2 DEF BookInv, OrderRows, Booked
  <2>. QED BY <1>1, <2>1, <2>3, BooksStay DEF Booked
<1>. QED BY <1>2, <1>3, <1>4, <1>5 DEF CancelOrder

\* What create_order's COMMIT writes, and where.
LEMMA Committing ==
  ASSUME TypeInv, LockInv, OrderRows, NEW r \in Reqs, CreateCommit(r)
  PROVE  LET t == req[r].target
         IN  /\ t \in Reqs /\ req[r].pc = "c_commit" /\ Selected(r) /\ ~Booked(r)
             /\ posLock[t] = None
             /\ pos' = [pos EXCEPT ![t] = WrittenPosition(r)]
             /\ pos'[t].state = IF t = r THEN "live" ELSE pos[t].state
             /\ pos'[t].qty = req[r].newQty /\ pos'[t].margin = req[r].newMargin
             /\ pos'[t].notional = Abs(req[r].newQty) * req[r].price
             /\ \A p \in Reqs \ {t} : pos'[p] = pos[p]
             /\ \A p \in Reqs : Booked(p)' <=> Booked(p) \/ p = t
             /\ order[r].target = None
             /\ order'[r].status \in {"NEW", "FILLED"} /\ order'[r].target = t
             /\ \A o \in Reqs \ {r} : order'[o] = order[o]
             /\ req'[r].pc = "done" /\ \A p \in Reqs \ {r} : req'[p] = req[p]
             /\ \A p \in Reqs : /\ req'[p].user = req[p].user /\ req'[p].symbol = req[p].symbol
                                 /\ req'[p].qty = req[p].qty /\ req'[p].margin = req[p].margin
<1> DEFINE t == req[r].target
<1>1. /\ req[r].pc = "c_commit" /\ posLock[t] = None
      /\ pos' = [pos EXCEPT ![t] = WrittenPosition(r)]
      /\ order' = [order EXCEPT ![r] = [status |-> req[r].status, target |-> t]]
      /\ Answer(r, "done")
  BY DEF CreateCommit
<1>2. /\ t \in Reqs /\ ~Booked(r) /\ Selected(r) /\ req[r].status \in {"NEW", "FILLED"}
      /\ t # r => Booked(t)
  BY <1>1 DEF TypeInv, TypeOK, RequestRecord, Control, RecordOK, TargetPcs, LockInv, Selected
<1>3. /\ pos'[t] = WrittenPosition(r) /\ \A p \in Reqs \ {t} : pos'[p] = pos[p]
  BY <1>1, <1>2 DEF TypeInv, TypeOK
<1>4. order[r].target = None
  BY <1>1 DEF OrderRows
<1>5. order'[r] = [status |-> req[r].status, target |-> t] /\ \A o \in Reqs \ {r} : order'[o] = order[o]
  BY <1>1 DEF TypeInv, TypeOK
<1>6. \A p \in Reqs : Booked(p)' <=> Booked(p) \/ p = t
  BY <1>2, <1>3 DEF Booked, WrittenPosition
<1>. QED BY <1>1, <1>2, <1>3, <1>4, <1>5, <1>6, Answered DEF WrittenPosition

LEMMA CreateCommitKeepsBooks ==
  ASSUME TypeInv, LockInv, BookInv, NEW r \in Reqs, CreateCommit(r)
  PROVE  BookInv'
<1>. USE DEF BookInv
<1>0. PICK t \in Reqs : t = req[r].target
  BY Committing
<1>1. /\ t = req[r].target /\ Selected(r) /\ ~Booked(r) /\ Computed(r)
      /\ pos'[t].qty = req[r].newQty /\ pos'[t].margin = req[r].newMargin
      /\ \A p \in Reqs \ {t} : pos'[p] = pos[p]
      /\ \A p \in Reqs : Booked(p)' <=> Booked(p) \/ p = t
  BY <1>0, Committing
<1>2. /\ order[r].target = None /\ order'[r].target = t
      /\ order'[r].status \in {"NEW", "FILLED"}
      /\ \A o \in Reqs \ {r} : order'[o] = order[o]
      /\ req'[r].pc = "done" /\ \A p \in Reqs \ {r} : req'[p] = req[p]
      /\ \A p \in Reqs : /\ req'[p].user = req[p].user /\ req'[p].symbol = req[p].symbol
                          /\ req'[p].qty = req[p].qty /\ req'[p].margin = req[p].margin
  BY <1>0, Committing
<1>3. OrderQuantities' = OrderQuantities /\ OrderMargins' = OrderMargins
  BY <1>2 DEF OrderQuantities, OrderMargins
<1>4. \A o \in Reqs : OrderQuantities[o] \in Int /\ OrderMargins[o] \in Int
  BY DEF OrderQuantities, OrderMargins, TypeInv, TypeOK, RequestRecord
<1>5. PositionIsSumOfOrders'
  <2> SUFFICES ASSUME NEW p \in Reqs, Booked(p)'
               PROVE  /\ pos'[p].qty = SumFunctionOnSet(OrderQuantities, OrdersOn(p)')
                      /\ pos'[p].margin = SumFunctionOnSet(OrderMargins, OrdersOn(p)')
    BY <1>3 DEF PositionIsSumOfOrders, Booked
  <2>1. CASE p # t
    <3>1. OrdersOn(p)' = OrdersOn(p)
      BY <1>2, <2>1, LedgerAssumption DEF OrdersOn
    <3>. QED BY <1>1, <2>1, <3>1 DEF PositionIsSumOfOrders, Booked
  <2>2. CASE p = t
    <3> DEFINE S == OrdersOn(t)
    <3>1. /\ OrdersOn(t)' = S \cup {r} /\ r \notin S
      BY <1>1, <1>2, LedgerAssumption DEF OrdersOn
    <3>2. IsFiniteSet(S) /\ S \subseteq Reqs
      BY <1>1, OrdersOf
    <3>. HIDE DEF S
    <3>3. /\ SumFunctionOnSet(OrderQuantities, S \cup {r})
               = OrderQuantities[r] + SumFunctionOnSet(OrderQuantities, S)
          /\ SumFunctionOnSet(OrderMargins, S \cup {r})
               = OrderMargins[r] + SumFunctionOnSet(OrderMargins, S)
      BY <1>4, <3>1, <3>2, SumAdd
    <3>4. OrderQuantities[r] = req[r].qty /\ OrderMargins[r] = req[r].margin
      BY DEF OrderQuantities, OrderMargins
    <3>5. CASE t = r
      <4>1. S = {}
        BY <1>1, <3>5, OrdersOf DEF S
      <4>2. SumFunctionOnSet(OrderQuantities, S) = 0 /\ SumFunctionOnSet(OrderMargins, S) = 0
        BY <4>1, SumEmpty
      <4>3. req[r].newQty = req[r].qty /\ req[r].newMargin = req[r].margin
        BY <1>1, <3>5 DEF Computed
      <4>. QED BY <1>1, <1>4, <2>2, <3>1, <3>3, <3>4, <4>2, <4>3
    <3>6. CASE t # r
      <4>1. /\ req[r].newQty = pos[t].qty + req[r].qty
            /\ req[r].newMargin = pos[t].margin + req[r].margin
            /\ Booked(t)
        BY <1>1, <3>6 DEF Computed, Selected
      <4>2. pos[t].qty = SumFunctionOnSet(OrderQuantities, S) /\ pos[t].qty \in Int
            /\ pos[t].margin = SumFunctionOnSet(OrderMargins, S) /\ pos[t].margin \in Int
        BY <1>1, <4>1 DEF PositionIsSumOfOrders, Booked, S, TypeInv, TypeOK, PositionRow
      <4>. QED BY <1>1, <1>4, <2>2, <3>1, <3>3, <3>4, <4>1, <4>2
    <3>. QED BY <3>5, <3>6
  <2>. QED BY <2>1, <2>2
<1>6. ASSUME NEW q \in Reqs, req'[q].pc = "c_commit" PROVE Computed(q)'
  <2>1. q # r /\ req'[q] = req[q] /\ Computed(q) /\ Selected(q) /\ req[q].target \in Reqs
    BY <1>2, <1>6 DEF LockInv, TypeInv, Control, RecordOK, TargetPcs
  <2>2. req[q].user # req[r].user
    BY <1>1, <2>1 DEF Selected
  <2>3. CASE req[q].target = q
    BY <2>1, <2>3 DEF Computed
  <2>4. CASE req[q].target # q
    <3> DEFINE v == req[q].target
    <3>1. /\ SameBook(v, q) /\ Booked(v) /\ req[q].newQty = pos[v].qty + req[q].qty
          /\ req[q].newMargin = pos[v].margin + req[q].margin
      BY <2>1, <2>4 DEF Computed, Selected
    <3>2. v # r /\ v # t
      BY <1>1, <2>2, <3>1 DEF Computed, SameBook
    <3>3. pos'[v] = pos[v] /\ req'[v] = req[v]
      BY <1>1, <1>2, <2>1, <3>2
    <3>4. SameBook(v, q)'
      BY <2>1, <3>1, <3>3 DEF SameBook
    <3>. QED BY <2>1, <2>4, <3>1, <3>3, <3>4 DEF Computed
  <2>. QED BY <2>3, <2>4
<1>7. OrderRows'
  <2>1. \A q \in Reqs : req'[q].pc \in {"k_place", "k_commit"} =>
          q # r /\ req'[q] = req[q] /\ req[q].target \in Reqs
    BY <1>2 DEF TypeInv, Control, RecordOK, TargetPcs
  <2>2. \A o \in Reqs : order[o].status # "absent" => order'[o].status # "absent"
    BY <1>2
  <2>3. \A o \in Reqs : order'[o].target # None =>
          /\ order'[o].status # "absent" /\ order'[o].target \in Reqs
          /\ pos'[order'[o].target].state # "absent"
    <3> SUFFICES ASSUME NEW o \in Reqs, order'[o].target # None
                 PROVE  order'[o].status # "absent" /\ order'[o].target \in Reqs
                        /\ pos'[order'[o].target].state # "absent"
      OBVIOUS
    <3>1. \A p \in Reqs : Booked(p) \/ p = t => pos'[p].state # "absent"
      BY <1>1 DEF Booked
    <3>2. CASE o = r
      BY <1>1, <1>2, <3>1, <3>2
    <3>3. CASE o # r
      BY <1>2, <3>1, <3>3 DEF OrderRows
    <3>. QED BY <3>2, <3>3
  <2>4. \A o \in Reqs : order'[o].status # "absent" => req'[o].pc = "done"
    BY <1>2 DEF OrderRows
  <2>5. \A q \in Reqs : req'[q].pc \in {"k_place", "k_commit"} =>
          order'[req'[q].target].status # "absent"
    BY <2>1, <2>2 DEF OrderRows
  <2>. QED BY <2>3, <2>4, <2>5 DEF OrderRows, Booked
<1>. QED BY <1>5, <1>6, <1>7

LEMMA LiquidateKeepsBooks ==
  ASSUME TypeInv, LockInv, BookInv, Liquidate
  PROVE  BookInv'
<1>1. req' = req /\ order' = order
  BY DEF Liquidate, UdsBegin, UdsPosition, UdsCommit, rows
<1>2. \A p \in Reqs : /\ pos'[p].qty = pos[p].qty /\ pos'[p].margin = pos[p].margin
                      /\ Booked(p)' <=> Booked(p)
  <2>1. CASE pos' = pos
    BY <2>1 DEF Booked
  <2>2. CASE UdsCommit
    <3>1. \A p \in Reqs : pos[p] \in PositionRow /\ pos'[p] \in {pos[p], [pos[p] EXCEPT !.state = "liquidated"]}
      BY <2>2 DEF UdsCommit, TypeInv, TypeOK
    <3>2. \A p \in Reqs : posLock[p] # Uds => pos'[p] = pos[p]
      BY <2>2 DEF UdsCommit
    <3>. QED BY <3>1, <3>2 DEF TypeInv, Control, PositionRow, Booked
  <2>. QED BY <2>1, <2>2 DEF Liquidate, UdsBegin, UdsPosition, rows
<1>3. OrderRows'
  BY <1>1, <1>2 DEF BookInv, OrderRows
<1>. QED BY <1>1, <1>2, <1>3, BooksStay

\* Requests that are aborted or lost in a crash keep nothing, and commit nothing.
LEMMA EnvironmentKeepsBooks ==
  ASSUME TypeInv, LockInv, BookInv,
         \/ DetectDeadlock \/ (\E o \in Reqs : ExchangeFill(o) \/ KeyExpire(o))
         \/ Crash \/ Quiet \/ UNCHANGED vars
  PROVE  BookInv'
<1>1. pos' = pos /\ order' = order
  BY DEF DetectDeadlock, ExchangeFill, KeyExpire, Crash, Quiet, vars, rows
<1> DEFINE rec == [NoReq EXCEPT !.pc = "failed"]
<1>2. rec.pc = "failed"
  BY DEF NoReq
<1>3. \A r \in Reqs : req'[r] = req[r] \/ (req'[r] = rec /\ req[r].pc # "done")
  <2>1. CASE DetectDeadlock
    BY <2>1 DEF DetectDeadlock, DeadlockedWith, Abort, Drop, Set, TypeInv, TypeOK
  <2>2. CASE Crash
    BY <2>2 DEF Crash, InFlight, Final
  <2>. QED BY <2>1, <2>2 DEF ExchangeFill, KeyExpire, Quiet, vars
<1>. HIDE DEF rec
<1>4. \A r \in Reqs : /\ req'[r].pc \notin Final => req'[r] = req[r]
                      /\ req[r].pc = "done" => req'[r] = req[r]
  BY <1>2, <1>3 DEF Final
<1>5. OrderRows'
  BY <1>1, <1>4 DEF BookInv, OrderRows, Booked, Final
<1>. QED BY <1>1, <1>4, <1>5, BooksStay DEF Booked, Final

LEMMA BooksStep ==
  ASSUME TypeInv, LockInv, BookInv, [Next]_vars
  PROVE  BookInv'
<1>1. ASSUME NEW r \in Reqs, Step(r) PROVE BookInv'
  BY <1>1, UnlockedKeepsBooks, CreateLockKeepsBooks, CreateCommitKeepsBooks,
     CloseLockKeepsBooks, CloseCommitKeepsBooks DEF Step, CreateOrder, ClosePosition, Unlocked
<1>. QED BY <1>1, LiquidateKeepsBooks, EnvironmentKeepsBooks DEF Next

\* A position's quantity and margin are those of the orders booked on it, in every
\* interleaving of create_order with itself, with closes, cancellations,
\* liquidations, deadlocks and crashes: no update of a position is lost and none
\* is counted twice, because what create_order computed from its SELECT
\* still holds when it commits.
THEOREM PositionsAlwaysSumOrders == Spec => []PositionIsSumOfOrders
<1>1. Init => TypeInv /\ LockInv /\ BookInv
  BY TypeInit, LocksInit, BooksInit
<1>2. TypeInv /\ LockInv /\ BookInv /\ [Next]_vars => TypeInv' /\ LockInv' /\ BookInv'
  BY TypeStep, LocksStep, BooksStep
<1>3. BookInv => PositionIsSumOfOrders
  BY DEF BookInv
<1>. QED BY <1>1, <1>2, <1>3, PTL DEF Spec
-----------------------------------------------------------------------------
(***************************************************************************)
(* Orders and the exchange.  The ledger's rows are committed after the     *)
(* exchange has answered; Redis keeps the id that cancel_order needs to    *)
(* ask it.                                                                 *)
(***************************************************************************)
PlacedPcs == {"c_flush", "c_lock", "c_commit"}

\* A request past the exchange's answer has an order there, and a cancellation
\* past it has cancelled the order there if Redis still knows the order.
AnsweredByExchange(r) ==
  /\ req[r].pc \in PlacedPcs => exchange[r] # "none"
  /\ req[r].pc = "k_commit" /\ key[req[r].target] => exchange[req[r].target] = "cancelled"

ExchangeInv ==
  /\ BookedOrdersWerePlaced
  /\ \A r \in Reqs : AnsweredByExchange(r)
  /\ \A o \in Reqs : order[o].status = "CANCELED" /\ key[o] => exchange[o] = "cancelled"

LEMMA ExchangeInit == Init => ExchangeInv
BY LedgerAssumption DEF Init, ExchangeInv, BookedOrdersWerePlaced, AnsweredByExchange,
                        PlacedPcs, NoReq, NoOrder

\* A step that leaves the exchange, Redis and the order rows alone.
LEMMA ExchangeStays ==
  ASSUME ExchangeInv, UNCHANGED <<order, exchange, key>>,
         \A r \in Reqs : \/ req'[r] = req[r]
                         \/ req'[r].pc \notin PlacedPcs \cup {"k_commit"}
                         \/ req'[r].pc \in PlacedPcs /\ req[r].pc \in PlacedPcs
  PROVE  ExchangeInv'
<1>1. \A r \in Reqs : AnsweredByExchange(r)'
  BY DEF ExchangeInv, AnsweredByExchange, PlacedPcs
<1>. QED BY <1>1 DEF ExchangeInv, BookedOrdersWerePlaced

\* Nothing refers to the order of a request that is still on its way.
LEMMA UnfinishedIsUnknown ==
  ASSUME TypeInv, OrderRows, NEW r \in Reqs, req[r].pc # "done"
  PROVE  /\ order[r].target = None /\ order[r].status = "absent"
         /\ \A q \in Reqs : req[q].pc = "k_commit" => req[q].target # r
BY DEF OrderRows

\* The steps that call the exchange or Redis.
LEMMA CreatePlaceKeepsExchange ==
  ASSUME TypeInv, BookInv, ExchangeInv, NEW r \in Reqs, CreatePlace(r)
  PROVE  ExchangeInv'
<1>1. req[r].pc = "c_place" /\ UNCHANGED <<order, key>>
  BY DEF CreatePlace, rows
<1>2. PICK e \in {"none", "resting", "filled"} :
        /\ exchange' = [exchange EXCEPT ![r] = e]
        /\ \/ e # "none"
           \/ Drop(r, "failed")
  BY DEF CreatePlace
<1>3. exchange'[r] = e /\ \A o \in Reqs \ {r} : exchange'[o] = exchange[o]
  BY <1>2 DEF TypeInv, TypeOK
<1>4. req'[r].pc \in {"c_flush", "failed"} /\ \A q \in Reqs \ {r} : req'[q] = req[q]
  BY Moves, UnlockedSteps DEF Unlocked
<1>5. req'[r].pc = "c_flush" => e # "none"
  BY <1>2, Dropped
<1>6. ASSUME NEW q \in Reqs PROVE AnsweredByExchange(q)'
  <2>1. CASE q = r
    BY <1>3, <1>4, <1>5, <2>1 DEF AnsweredByExchange, PlacedPcs
  <2>2. CASE q # r
    <3>1. req'[q] = req[q] /\ (req[q].pc = "k_commit" => req[q].target \in Reqs \ {r})
      BY <1>1, <1>4, <2>2, UnfinishedIsUnknown
         DEF BookInv, TypeInv, Control, RecordOK, TargetPcs
    <3>. QED BY <1>1, <1>3, <2>2, <3>1 DEF ExchangeInv, AnsweredByExchange
  <2>. QED BY <2>1, <2>2
<1>7. order[r].target = None /\ order[r].status = "absent"
  BY <1>1, UnfinishedIsUnknown DEF BookInv
<1>. QED BY <1>1, <1>3, <1>6, <1>7 DEF ExchangeInv, BookedOrdersWerePlaced

LEMMA CreateFlushKeepsExchange ==
  ASSUME TypeInv, BookInv, ExchangeInv, NEW r \in Reqs, CreateFlush(r)
  PROVE  ExchangeInv'
<1>1. req[r].pc = "c_flush" /\ UNCHANGED <<order, exchange>>
  BY DEF CreateFlush, rows
<1>2. \A o \in Reqs \ {r} : key'[o] = key[o]
  BY DEF CreateFlush, TypeInv, TypeOK
<1>3. req'[r].pc \in {"c_lock", "failed"} /\ \A q \in Reqs \ {r} : req'[q] = req[q]
  BY Moves, UnlockedSteps DEF Unlocked
<1>4. ASSUME NEW q \in Reqs PROVE AnsweredByExchange(q)'
  <2>1. CASE q = r
    BY <1>1, <1>3, <2>1 DEF ExchangeInv, AnsweredByExchange, PlacedPcs
  <2>2. CASE q # r
    <3>1. req'[q] = req[q] /\ (req[q].pc = "k_commit" => req[q].target \in Reqs \ {r})
      BY <1>1, <1>3, <2>2, UnfinishedIsUnknown
         DEF BookInv, TypeInv, Control, RecordOK, TargetPcs
    <3>. QED BY <1>1, <1>2, <2>2, <3>1 DEF ExchangeInv, AnsweredByExchange
  <2>. QED BY <2>1, <2>2
<1>5. order[r].status = "absent"
  BY <1>1, UnfinishedIsUnknown DEF BookInv
<1>. QED BY <1>1, <1>2, <1>4, <1>5 DEF ExchangeInv, BookedOrdersWerePlaced

LEMMA CancelKeepsExchange ==
  ASSUME TypeInv, BookInv, ExchangeInv, NEW r \in Reqs, CancelOrder(r)
  PROVE  ExchangeInv'
<1>1. CASE CancelBegin(r)
  <2>1. UNCHANGED <<order, exchange, key>> /\ \A q \in Reqs \ {r} : req'[q] = req[q]
    BY <1>1, UnlockedSteps DEF CancelBegin, rows, external, Unlocked, CancelOrder
  <2>2. AnsweredByExchange(r)'
    <3>1. CASE Drop(r, "rejected")
      BY <3>1, Dropped DEF AnsweredByExchange, PlacedPcs
    <3>2. ASSUME NEW o \in Reqs,
                 Set(r, [NoReq EXCEPT !.pc = IF key[o] THEN "k_place" ELSE "k_commit",
                                      !.target = o])
          PROVE  AnsweredByExchange(r)'
      <4> DEFINE rec == [NoReq EXCEPT !.pc = IF key[o] THEN "k_place" ELSE "k_commit",
                                      !.target = o]
      <4>1. /\ rec.target = o /\ rec.pc \in {"k_place", "k_commit"}
            /\ rec.pc = "k_commit" => ~key[o]
        BY DEF NoReq
      <4>2. Set(r, rec)
        BY <3>2
      <4>. HIDE DEF rec
      <4>3. req'[r] = rec
        BY <4>2, SetPc
      <4>. QED BY <2>1, <4>1, <4>3 DEF AnsweredByExchange, PlacedPcs
    <3>. QED BY <1>1, <3>1, <3>2 DEF CancelBegin
  <2>. QED BY <2>1, <2>2 DEF ExchangeInv, AnsweredByExchange, BookedOrdersWerePlaced
<1>2. CASE CancelPlace(r)
  <2> DEFINE t == req[r].target
  <2>1. /\ req[r].pc = "k_place" /\ t \in Reqs /\ UNCHANGED <<order, key>>
        /\ \A q \in Reqs \ {r} : req'[q] = req[q]
    BY <1>2, UnlockedSteps
       DEF CancelPlace, rows, Unlocked, CancelOrder, TypeInv, Control, RecordOK, TargetPcs
  <2>2. \A o \in Reqs : exchange'[o] = exchange[o]
                        \/ (o = t /\ exchange[o] = "resting" /\ exchange'[o] = "cancelled")
    BY <1>2, <2>1 DEF CancelPlace, TypeInv, TypeOK
  <2>3. AnsweredByExchange(r)'
    <3>1. CASE Drop(r, "failed")
      BY <3>1, Dropped DEF AnsweredByExchange, PlacedPcs
    <3>2. CASE Goto(r, "k_commit") /\ exchange' = [exchange EXCEPT ![t] = "cancelled"]
      <4> DEFINE rec == [req[r] EXCEPT !.pc = "k_commit"]
      <4>1. rec.target = t /\ rec.pc = "k_commit"
        BY DEF TypeInv, TypeOK, RequestRecord
      <4>2. Set(r, rec)
        BY <3>2 DEF Goto
      <4>. HIDE DEF rec
      <4>3. req'[r] = rec
        BY <4>2, SetPc
      <4>4. exchange'[t] = "cancelled"
        BY <2>1, <3>2 DEF TypeInv, TypeOK
      <4>. QED BY <4>1, <4>3, <4>4 DEF AnsweredByExchange, PlacedPcs
    <3>. QED BY <1>2, <3>1, <3>2 DEF CancelPlace
  <2>. HIDE DEF t
  <2>4. \A o \in Reqs : /\ exchange[o] # "none" => exchange'[o] # "none"
                        /\ exchange[o] = "cancelled" => exchange'[o] = "cancelled"
    BY <2>2
  <2>5. ASSUME NEW q \in Reqs \ {r} PROVE AnsweredByExchange(q)'
    <3>1. req'[q] = req[q] /\ (req[q].pc = "k_commit" => req[q].target \in Reqs)
      BY <2>1 DEF TypeInv, Control, RecordOK, TargetPcs
    <3>. QED BY <2>1, <2>4, <3>1 DEF ExchangeInv, AnsweredByExchange
  <2>. QED BY <2>1, <2>3, <2>4, <2>5 DEF ExchangeInv, BookedOrdersWerePlaced
<1>3. CASE CancelCommit(r)
  <2> DEFINE t == req[r].target
  <2>1. /\ req[r].pc = "k_commit" /\ t \in Reqs /\ UNCHANGED <<exchange, key>>
        /\ order' = [order EXCEPT ![t].status = "CANCELED"]
        /\ req'[r].pc = "done" /\ \A q \in Reqs \ {r} : req'[q] = req[q]
    BY <1>3, Moves, UnlockedSteps
       DEF CancelCommit, external, Unlocked, CancelOrder, TypeInv, Control, RecordOK, TargetPcs
  <2>2. key[t] => exchange[t] = "cancelled"
    BY <2>1 DEF ExchangeInv, AnsweredByExchange
  <2>3. \A o \in Reqs : /\ order'[o].target = order[o].target
                        /\ order'[o].status = IF o = t THEN "CANCELED" ELSE order[o].status
    BY <2>1 DEF TypeInv, TypeOK, OrderRow
  <2>. HIDE DEF t
  <2>4. \A q \in Reqs : AnsweredByExchange(q)'
    BY <2>1 DEF ExchangeInv, AnsweredByExchange, PlacedPcs
  <2>. QED BY <2>1, <2>2, <2>3, <2>4 DEF ExchangeInv, BookedOrdersWerePlaced
<1>. QED BY <1>1, <1>2, <1>3 DEF CancelOrder

LEMMA CommitsKeepExchange ==
  ASSUME TypeInv, LockInv, BookInv, ExchangeInv, NEW r \in Reqs,
         CreateCommit(r) \/ CloseCommit(r)
  PROVE  ExchangeInv'
<1>1. /\ UNCHANGED <<exchange, key>> /\ req'[r].pc = "done"
      /\ \A q \in Reqs \ {r} : req'[q] = req[q]
  BY Answered DEF CreateCommit, CloseCommit, external
<1>2. \A q \in Reqs : AnsweredByExchange(q)'
  BY <1>1 DEF ExchangeInv, AnsweredByExchange, PlacedPcs
<1>3. /\ order'[r].status # "CANCELED" /\ \A o \in Reqs \ {r} : order'[o] = order[o]
      /\ order'[r].target # None => exchange[r] # "none"
  <2>1. CASE CreateCommit(r)
    BY <2>1, Committing DEF BookInv, ExchangeInv, AnsweredByExchange, PlacedPcs
  <2>2. CASE CloseCommit(r)
    BY <2>2 DEF CloseCommit, TypeInv, TypeOK
  <2>. QED BY <2>1, <2>2
<1>. QED BY <1>1, <1>2, <1>3 DEF ExchangeInv, BookedOrdersWerePlaced

LEMMA ExchangeStep ==
  ASSUME TypeInv, LockInv, BookInv, ExchangeInv, [Next]_vars
  PROVE  ExchangeInv'
<1>. USE DEF rows, external
<1>1. ASSUME NEW r \in Reqs, Step(r) PROVE ExchangeInv'
  <2>1. CASE \/ CreateBegin(r) \/ CreateExposure(r) \/ CreateRisk(r)
             \/ CloseBegin(r) \/ ClosePlace(r) \/ CloseAccount(r) \/ SyncBalance(r)
    <3>1. UNCHANGED <<order, exchange, key>>
      BY <2>1 DEF CreateBegin, CreateExposure, CreateRisk, CloseBegin, ClosePlace,
                  CloseAccount, SyncBalance, SyncBegin, SyncWallet, SyncCommit
    <3>2. Unlocked(r)
      BY <2>1 DEF Unlocked
    <3>3. req'[r].pc \notin PlacedPcs \cup {"k_commit"}
      BY <2>1, Moves DEF SyncBalance, PlacedPcs
    <3>. QED BY <3>1, <3>2, <3>3, UnlockedSteps, ExchangeStays
  <2>2. CASE CreateLock(r)
    <3>1. UNCHANGED <<order, exchange, key>> /\ req[r].pc = "c_lock" /\ SelectPosition(r)
      BY <2>2 DEF CreateLock
    <3>. QED BY <3>1, Selecting, ExchangeStays DEF PlacedPcs
  <2>3. CASE CloseLock(r)
    <3> DEFINE rec == [req[r] EXCEPT !.pc = "x_commit"]
    <3>1. UNCHANGED <<order, exchange, key>> /\ Set(r, rec) /\ rec.pc = "x_commit"
      BY <2>3 DEF CloseLock, Goto, TypeInv, TypeOK, RequestRecord
    <3>. HIDE DEF rec
    <3>. QED BY <3>1, SetPc, ExchangeStays DEF PlacedPcs
  <2>. QED BY <1>1, <2>1, <2>2, <2>3, CreatePlaceKeepsExchange, CreateFlushKeepsExchange,
              CancelKeepsExchange, CommitsKeepExchange DEF Step, CreateOrder, ClosePosition
<1>2. CASE Liquidate \/ Quiet \/ UNCHANGED vars
  <2>1. UNCHANGED <<order, exchange, key, req>>
    BY <1>2 DEF Liquidate, UdsBegin, UdsPosition, UdsCommit, Quiet, vars
  <2>. QED BY <2>1, ExchangeStays
<1>3. CASE DetectDeadlock \/ Crash
  <2> DEFINE rec == [NoReq EXCEPT !.pc = "failed"]
  <2>1. rec.pc = "failed"
    BY DEF NoReq
  <2>2. \A r \in Reqs : req'[r] = req[r] \/ req'[r] = rec
    <3>1. CASE DetectDeadlock
      <4>1. PICK q \in Reqs : Set(q, rec) \/ UNCHANGED req
        BY <3>1 DEF DetectDeadlock, Abort, Drop
      <4>. HIDE DEF rec
      <4>. QED BY <4>1 DEF Set, TypeInv, TypeOK
    <3>2. CASE Crash
      <4>1. req' = [q \in Reqs |-> IF q \in InFlight THEN rec ELSE req[q]]
        BY <3>2 DEF Crash
      <4>. QED BY <4>1
    <3>. QED BY <1>3, <3>1, <3>2
  <2>3. UNCHANGED <<order, exchange, key>>
    BY <1>3 DEF DetectDeadlock, Crash
  <2>. HIDE DEF rec
  <2>. QED BY <2>1, <2>2, <2>3, ExchangeStays DEF PlacedPcs
<1>4. ASSUME NEW o \in Reqs, ExchangeFill(o) PROVE ExchangeInv'
  <2>1. /\ UNCHANGED <<order, req, key>>
        /\ \A p \in Reqs : exchange'[p] = exchange[p]
                            \/ (exchange[p] = "resting" /\ exchange'[p] = "filled")
    BY <1>4 DEF ExchangeFill, TypeInv, TypeOK
  <2>2. ASSUME NEW q \in Reqs PROVE AnsweredByExchange(q)'
    <3>1. req[q].pc = "k_commit" => req[q].target \in Reqs
      BY DEF TypeInv, Control, RecordOK, TargetPcs
    <3>. QED BY <2>1, <3>1 DEF ExchangeInv, AnsweredByExchange
  <2>. QED BY <2>1, <2>2 DEF ExchangeInv, BookedOrdersWerePlaced
<1>5. ASSUME NEW o \in Reqs, KeyExpire(o) PROVE ExchangeInv'
  <2>1. /\ UNCHANGED <<order, req, exchange>>
        /\ ~key'[o] /\ \A p \in Reqs \ {o} : key'[p] = key[p]
    BY <1>5 DEF KeyExpire, TypeInv, TypeOK
  <2>2. ASSUME NEW q \in Reqs PROVE AnsweredByExchange(q)'
    <3>1. req[q].pc = "k_commit" => req[q].target \in Reqs
      BY DEF TypeInv, Control, RecordOK, TargetPcs
    <3>2. CASE req[q].target = o
      BY <2>1, <3>1, <3>2 DEF ExchangeInv, AnsweredByExchange
    <3>3. CASE req[q].target # o
      BY <2>1, <3>1, <3>3 DEF ExchangeInv, AnsweredByExchange
    <3>. QED BY <3>2, <3>3
  <2>. QED BY <2>1, <2>2 DEF ExchangeInv, BookedOrdersWerePlaced
<1>. QED BY <1>1, <1>2, <1>3, <1>4, <1>5 DEF Next

LEMMA ExchangeAlways == Spec => []ExchangeInv
<1>1. Init => TypeInv /\ LockInv /\ BookInv /\ ExchangeInv
  BY TypeInit, LocksInit, BooksInit, ExchangeInit
<1>2. TypeInv /\ LockInv /\ BookInv /\ ExchangeInv /\ [Next]_vars
        => TypeInv' /\ LockInv' /\ BookInv' /\ ExchangeInv'
  BY TypeStep, LocksStep, BooksStep, ExchangeStep
<1>. QED BY <1>1, <1>2, PTL DEF Spec

\* No failed call, abort or crash leaves an order in the ledger that the exchange
\* never took: the row is committed only after the exchange has answered.
THEOREM BookedOrdersAlwaysPlaced == Spec => []BookedOrdersWerePlaced
<1>1. ExchangeInv => BookedOrdersWerePlaced
  BY DEF ExchangeInv
<1>. QED BY <1>1, ExchangeAlways, PTL

\* An order that is canceled in the ledger, and that Redis still knows, is cancelled
\* at the exchange and can no longer be filled there, even though fills, cancellations
\* and expiring keys interleave with cancel_order: it asks the exchange before it commits.
THEOREM CanceledOrdersNeverFill == Spec => []CanceledOrderNotFilled
<1>1. ExchangeInv => CanceledOrderNotFilled
  BY DEF ExchangeInv, CanceledOrderNotFilled
<1>. QED BY <1>1, ExchangeAlways, PTL
-----------------------------------------------------------------------------
(***************************************************************************)
(* What the steps of create_order and close_position leave in the          *)
(* request's record.                                                       *)
(***************************************************************************)
SameOrder(r) ==
  /\ req'[r].user = req[r].user /\ req'[r].symbol = req[r].symbol
  /\ req'[r].qty = req[r].qty /\ req'[r].price = req[r].price
  /\ req'[r].margin = req[r].margin /\ req'[r].mu = req[r].mu

SameClose(r) ==
  /\ req'[r].user = req[r].user /\ req'[r].symbol = req[r].symbol
  /\ req'[r].target = req[r].target /\ req'[r].margin = req[r].margin

ExposureSeen(r) ==
  [p \in Reqs |-> IF p \in LivePositions /\ req[p].user = req[r].user
                  THEN pos[p].notional ELSE 0]

LEMMA CreateRecords ==
  ASSUME TypeInv, NEW r \in Reqs
  PROVE  /\ CreateBegin(r) =>
              /\ req'[r].pc = "c_exposure" /\ req'[r].user \in Users
              /\ req'[r].mu = account[req'[r].user].marginUsed
         /\ CreateExposure(r) =>
              \/ req'[r].pc = "failed"
              \/ /\ req'[r].pc = "c_risk" /\ SameOrder(r)
                 /\ req'[r].seen = ExposureSeen(r)
         /\ CreateRisk(r) =>
              \/ req'[r].pc = "rejected"
              \/ \E s \in Symbols, q \in Quantities, p \in Prices, l \in Requests, m \in Modifiers :
                   /\ Decision(Submitted(r, q, p, l, m)) = "Approved"
                   /\ req'[r].pc = "c_place" /\ req'[r].user = req[r].user
                   /\ req'[r].symbol = s /\ req'[r].qty = q /\ req'[r].price = p
                   /\ req'[r].mu = req[r].mu
         /\ CreatePlace(r) =>
              req'[r].pc = "failed" \/ (req'[r].pc = "c_flush" /\ SameOrder(r))
         /\ CreateFlush(r) =>
              req'[r].pc = "failed" \/ (req'[r].pc = "c_lock" /\ SameOrder(r))
<1>1. req[r] \in RequestRecord /\ NoReq \in RequestRecord
  BY ConstantTypes DEF TypeInv, TypeOK
<1>2. ASSUME CreateBegin(r)
      PROVE  /\ req'[r].pc = "c_exposure" /\ req'[r].user \in Users
             /\ req'[r].mu = account[req'[r].user].marginUsed
  <2>1. PICK u \in Users :
          Set(r, [NoReq EXCEPT !.pc = "c_exposure", !.user = u,
                               !.mu = account[u].marginUsed, !.bal = account[u].balance])
    BY <1>2 DEF CreateBegin
  <2> DEFINE rec == [NoReq EXCEPT !.pc = "c_exposure", !.user = u,
                               !.mu = account[u].marginUsed, !.bal = account[u].balance]
  <2>2. Set(r, rec) /\ rec.pc = "c_exposure" /\ rec.user = u /\ rec.mu = account[u].marginUsed
    BY <1>1, <2>1 DEF RequestRecord
  <2>. HIDE DEF rec
  <2>. QED BY <2>2, SetPc
<1>3. ASSUME CreateExposure(r), ~Drop(r, "failed")
      PROVE  req'[r].pc = "c_risk" /\ SameOrder(r) /\ req'[r].seen = ExposureSeen(r)
  <2> DEFINE rec == [req[r] EXCEPT !.pc = "c_risk", !.seen = ExposureSeen(r)]
  <2>1. Set(r, rec)
    BY <1>3 DEF CreateExposure, ExposureSeen
  <2>2. /\ rec.pc = "c_risk" /\ rec.seen = ExposureSeen(r)
        /\ rec.user = req[r].user /\ rec.symbol = req[r].symbol /\ rec.qty = req[r].qty
        /\ rec.price = req[r].price /\ rec.margin = req[r].margin /\ rec.mu = req[r].mu
    BY <1>1 DEF RequestRecord
  <2>. HIDE DEF rec
  <2>. QED BY <2>1, <2>2, SetPc DEF SameOrder
<1>4. ASSUME CreateRisk(r), ~Drop(r, "rejected")
      PROVE  \E s \in Symbols, q \in Quantities, p \in Prices, l \in Requests, m \in Modifiers :
               /\ Decision(Submitted(r, q, p, l, m)) = "Approved"
               /\ req'[r].pc = "c_place" /\ req'[r].user = req[r].user
               /\ req'[r].symbol = s /\ req'[r].qty = q /\ req'[r].price = p
               /\ req'[r].mu = req[r].mu
  <2>1. PICK s \in Symbols, q \in Quantities, p \in Prices, l \in Requests, m \in Modifiers :
          LET o == Submitted(r, q, p, l, m)
          IN  /\ Decision(o) = "Approved"
              /\ Set(r, [req[r] EXCEPT !.pc = "c_place", !.symbol = s, !.qty = q,
                   !.price = p, !.bal = 0, !.seen = NoReq.seen,
                   !.margin = RequiredMargin(OrderNotional(o), LeverageOf(o))])
    BY <1>4 DEF CreateRisk
  <2> DEFINE o == Submitted(r, q, p, l, m)
             margin == RequiredMargin(OrderNotional(o), LeverageOf(o))
             none == NoReq.seen
             rec == [req[r] EXCEPT !.pc = "c_place", !.symbol = s, !.qty = q,
                      !.price = p, !.bal = 0, !.seen = none, !.margin = margin]
  <2>2. Set(r, rec) /\ Decision(Submitted(r, q, p, l, m)) = "Approved"
    BY <2>1
  <2>. HIDE DEF margin, none, o
  <2>3. /\ rec.pc = "c_place" /\ rec.user = req[r].user /\ rec.symbol = s /\ rec.qty = q
        /\ rec.price = p /\ rec.mu = req[r].mu
    BY <1>1 DEF RequestRecord
  <2>. HIDE DEF rec
  <2>. QED BY <2>2, <2>3, SetPc
<1>5. ASSUME CreatePlace(r), ~Drop(r, "failed")
      PROVE  req'[r].pc = "c_flush" /\ SameOrder(r)
  <2>1. PICK st : Set(r, [req[r] EXCEPT !.pc = "c_flush", !.status = st])
    BY <1>5 DEF CreatePlace
  <2> DEFINE rec == [req[r] EXCEPT !.pc = "c_flush", !.status = st]
  <2>2. /\ rec.pc = "c_flush" /\ Set(r, rec)
        /\ rec.user = req[r].user /\ rec.symbol = req[r].symbol /\ rec.qty = req[r].qty
        /\ rec.price = req[r].price /\ rec.margin = req[r].margin /\ rec.mu = req[r].mu
    BY <1>1, <2>1 DEF RequestRecord
  <2>. HIDE DEF rec
  <2>. QED BY <2>2, SetPc DEF SameOrder
<1>6. ASSUME CreateFlush(r), ~Drop(r, "failed")
      PROVE  req'[r].pc = "c_lock" /\ SameOrder(r)
  <2> DEFINE rec == [req[r] EXCEPT !.pc = "c_lock"]
  <2>1. /\ rec.pc = "c_lock" /\ Set(r, rec)
        /\ rec.user = req[r].user /\ rec.symbol = req[r].symbol /\ rec.qty = req[r].qty
        /\ rec.price = req[r].price /\ rec.margin = req[r].margin /\ rec.mu = req[r].mu
    BY <1>1, <1>6 DEF RequestRecord, CreateFlush, Goto
  <2>. HIDE DEF rec
  <2>. QED BY <2>1, SetPc DEF SameOrder
<1>7. \A pc : Drop(r, pc) => req'[r].pc = pc
  BY Dropped
<1>. QED BY <1>2, <1>3, <1>4, <1>5, <1>6, <1>7

LEMMA CloseRecords ==
  ASSUME TypeInv, NEW r \in Reqs
  PROVE  /\ CloseBegin(r) =>
              \/ req'[r].pc = "rejected"
              \/ /\ req'[r].pc = "x_place" /\ req'[r].user \in Users
                 /\ req'[r].symbol \in Symbols /\ req'[r].target \in Reqs
                 /\ LiveOf(req'[r].user, req'[r].symbol) = {req'[r].target}
                 /\ req'[r].margin = pos[req'[r].target].margin
         /\ ClosePlace(r) =>
              req'[r].pc = "failed" \/ (req'[r].pc = "x_account" /\ SameClose(r))
         /\ CloseAccount(r) =>
              LET mu == account[req[r].user].marginUsed
              IN  /\ req'[r].mu = ReleasedMargin(mu, req[r].margin) /\ SameClose(r)
                  /\ req'[r].pc = IF req'[r].mu # mu THEN "x_lock" ELSE "x_commit"
         /\ CloseLock(r) =>
              req'[r].pc = "x_commit" /\ SameClose(r) /\ req'[r].mu = req[r].mu
<1>1. req[r] \in RequestRecord /\ NoReq \in RequestRecord
  BY ConstantTypes DEF TypeInv, TypeOK
<1>2. ASSUME CloseBegin(r), ~Drop(r, "rejected")
      PROVE  /\ req'[r].pc = "x_place" /\ req'[r].user \in Users
             /\ req'[r].symbol \in Symbols /\ req'[r].target \in Reqs
             /\ LiveOf(req'[r].user, req'[r].symbol) = {req'[r].target}
             /\ req'[r].margin = pos[req'[r].target].margin
  <2>1. PICK u \in Users, s \in Symbols :
          \E p \in LiveOf(u, s) :
            /\ LiveOf(u, s) = {p}
            /\ Set(r, [NoReq EXCEPT !.pc = "x_place", !.user = u, !.symbol = s, !.target = p,
                                    !.qty = pos[p].qty, !.margin = pos[p].margin])
    BY <1>2 DEF CloseBegin
  <2>2. PICK p \in LiveOf(u, s) :
          /\ LiveOf(u, s) = {p}
          /\ Set(r, [NoReq EXCEPT !.pc = "x_place", !.user = u, !.symbol = s, !.target = p,
                                  !.qty = pos[p].qty, !.margin = pos[p].margin])
    BY <2>1
  <2> DEFINE rec == [NoReq EXCEPT !.pc = "x_place", !.user = u, !.symbol = s, !.target = p,
                                  !.qty = pos[p].qty, !.margin = pos[p].margin]
  <2>3. /\ rec.pc = "x_place" /\ rec.user = u /\ rec.symbol = s /\ rec.target = p
        /\ rec.margin = pos[p].margin /\ Set(r, rec)
    BY <1>1, <2>2 DEF RequestRecord
  <2>4. p \in Reqs
    BY DEF LiveOf, LivePositions
  <2>. HIDE DEF rec
  <2>5. req'[r] = rec
    BY <2>3, SetPc
  <2>. QED BY <2>3, <2>4, <2>5, <2>2
<1>3. ASSUME ClosePlace(r), ~Drop(r, "failed")
      PROVE  req'[r].pc = "x_account" /\ SameClose(r)
  <2> DEFINE rec == [req[r] EXCEPT !.pc = "x_account"]
  <2>1. /\ rec.pc = "x_account" /\ Set(r, rec)
        /\ rec.user = req[r].user /\ rec.symbol = req[r].symbol
        /\ rec.target = req[r].target /\ rec.margin = req[r].margin
    BY <1>1, <1>3 DEF RequestRecord, ClosePlace, Goto
  <2>. HIDE DEF rec
  <2>. QED BY <2>1, SetPc DEF SameClose
<1>4. ASSUME CloseAccount(r), NEW mu, mu = account[req[r].user].marginUsed
      PROVE  /\ req'[r].mu = ReleasedMargin(mu, req[r].margin) /\ SameClose(r)
             /\ req'[r].pc = IF req'[r].mu # mu THEN "x_lock" ELSE "x_commit"
  <2> DEFINE new == ReleasedMargin(mu, req[r].margin)
             pc == IF new # mu THEN "x_lock" ELSE "x_commit"
             rec == [req[r] EXCEPT !.mu = new, !.pc = pc]
  <2>1. Set(r, rec)
    BY <1>4 DEF CloseAccount
  <2>. HIDE DEF new, pc
  <2>2. /\ rec.mu = new /\ rec.pc = pc /\ rec.user = req[r].user
        /\ rec.symbol = req[r].symbol /\ rec.target = req[r].target
        /\ rec.margin = req[r].margin
    BY <1>1 DEF RequestRecord
  <2>. HIDE DEF rec
  <2>3. req'[r] = rec
    BY <2>1, SetPc
  <2>. QED BY <2>2, <2>3 DEF SameClose, new, pc
<1>5. ASSUME CloseLock(r)
      PROVE  req'[r].pc = "x_commit" /\ SameClose(r) /\ req'[r].mu = req[r].mu
  <2> DEFINE rec == [req[r] EXCEPT !.pc = "x_commit"]
  <2>1. /\ rec.pc = "x_commit" /\ Set(r, rec) /\ rec.mu = req[r].mu
        /\ rec.user = req[r].user /\ rec.symbol = req[r].symbol
        /\ rec.target = req[r].target /\ rec.margin = req[r].margin
    BY <1>1, <1>5 DEF RequestRecord, CloseLock, Goto
  <2>. HIDE DEF rec
  <2>. QED BY <2>1, SetPc DEF SameClose
<1>6. \A pc : Drop(r, pc) => req'[r].pc = pc
  BY Dropped
<1>. QED BY <1>2, <1>3, <1>4, <1>5, <1>6

\* A finished request's record stands for ever.
LEMMA DoneStays ==
  ASSUME TypeInv, [Next]_vars
  PROVE  \A p \in Reqs : req[p].pc = "done" => req'[p] = req[p]
<1>1. ASSUME NEW r \in Reqs, Step(r), NEW p \in Reqs, req[p].pc = "done" PROVE req'[p] = req[p]
  <2>1. CASE Unlocked(r)
    BY <1>1, <2>1, UnlockedSteps
  <2>2. CASE CreateLock(r)
    BY <1>1, <2>2, Selecting DEF CreateLock
  <2>3. CASE CreateCommit(r) \/ CloseCommit(r)
    BY <1>1, <2>3, Answered DEF CreateCommit, CloseCommit
  <2>4. CASE CloseLock(r)
    <3> DEFINE rec == [req[r] EXCEPT !.pc = "x_commit"]
    <3>1. Set(r, rec) /\ req[r].pc = "x_lock"
      BY <2>4 DEF CloseLock, Goto
    <3>. HIDE DEF rec
    <3>. QED BY <1>1, <3>1, SetPc
  <2>. QED BY <1>1, <2>1, <2>2, <2>3, <2>4 DEF Step, CreateOrder, ClosePosition, Unlocked
<1>2. CASE Liquidate \/ Quiet \/ UNCHANGED vars \/ \E o \in Reqs : ExchangeFill(o) \/ KeyExpire(o)
  BY <1>2 DEF Liquidate, UdsBegin, UdsPosition, UdsCommit, Quiet, vars, ExchangeFill, KeyExpire
<1>3. CASE DetectDeadlock
  BY <1>3 DEF DetectDeadlock, DeadlockedWith, Abort, Drop, Set, TypeInv, TypeOK
<1>4. CASE Crash
  BY <1>4 DEF Crash, InFlight, Final
<1>. QED BY <1>1, <1>2, <1>3, <1>4 DEF Next
-----------------------------------------------------------------------------
(***************************************************************************)
(* The positions table implements PositionBook.  A commit maps to one      *)
(* step of the book because the order's and the close's positions are      *)
(* those of the request's own user and symbol, and because a liquidation   *)
(* closes positions of one symbol only.                                    *)
(***************************************************************************)
OrderPcs == {"c_place", "c_flush", "c_lock", "c_commit"}

Liquidating(p) == p \in uds.todo \/ posLock[p] = Uds

TargetInv ==
  /\ \A r \in Reqs : req[r].pc \in OrderPcs => req[r].qty \in Quantities
  /\ \A r \in Reqs : req[r].pc \in ClosePcs => SameBook(req[r].target, r)
  /\ \A p, q \in Reqs : Liquidating(p) /\ Liquidating(q) => req[p].symbol = req[q].symbol
  /\ \A p \in Reqs : Liquidating(p) => uds.busy

LEMMA TargetInit == Init => TargetInv
BY LedgerAssumption DEF Init, TargetInv, OrderPcs, ClosePcs, NoReq, Liquidating, IdleUds

\* A step that takes no position for liquidation.
LEMMA TargetStays ==
  ASSUME TypeInv, TargetInv,
         \A p \in Reqs : req[p].pc = "done" => req'[p] = req[p],
         \A p \in Reqs : Liquidating(p)' => Liquidating(p) /\ uds'.busy,
         \A r \in Reqs : req'[r].pc \in OrderPcs =>
           req'[r] = req[r] \/ req'[r].qty \in Quantities,
         \A r \in Reqs : req'[r].pc \in ClosePcs =>
           req'[r] = req[r]
           \/ (req'[r].target \in Reqs /\ Booked(req'[r].target)
               /\ req[req'[r].target].user = req'[r].user
               /\ req[req'[r].target].symbol = req'[r].symbol)
  PROVE  TargetInv'
<1>1. \A p \in Reqs : Booked(p) => req'[p] = req[p]
  BY DEF TypeInv, Control
<1>2. \A p \in Reqs : Liquidating(p) => req'[p] = req[p]
  BY <1>1 DEF Liquidating, TypeInv, Control
<1>3. ASSUME NEW r \in Reqs, req'[r].pc \in ClosePcs PROVE SameBook(req[r].target, r)'
  <2>1. CASE req'[r] = req[r]
    <3>1. req[r].target \in Reqs /\ Booked(req[r].target) /\ SameBook(req[r].target, r)
      BY <1>3, <2>1 DEF TypeInv, Control, RecordOK, TargetPcs, TargetInv
    <3>. QED BY <1>1, <2>1, <3>1 DEF SameBook
  <2>2. CASE req'[r] # req[r]
    BY <1>1, <1>3, <2>2 DEF SameBook
  <2>. QED BY <2>1, <2>2
<1>4. \A r \in Reqs : req'[r].pc \in OrderPcs => req'[r].qty \in Quantities
  BY DEF TargetInv
<1>. QED BY <1>2, <1>3, <1>4 DEF TargetInv

LEMMA TargetStep ==
  ASSUME TypeInv, TargetInv, [Next]_vars
  PROVE  TargetInv'
<1>1. \A p \in Reqs : req[p].pc = "done" => req'[p] = req[p]
  BY DoneStays
<1>2. ASSUME NEW r \in Reqs, Step(r) PROVE TargetInv'
  <2>1. \A p \in Reqs : Liquidating(p)' => Liquidating(p) /\ uds'.busy
    <3>1. uds' = uds
      BY <1>2 DEF Step, CreateOrder, CreateBegin, CreateExposure, CreateRisk, CreatePlace,
                  CreateFlush, CreateLock, CreateCommit, ClosePosition, CloseBegin, ClosePlace,
                  CloseAccount, CloseLock, CloseCommit, CancelOrder, CancelBegin, CancelPlace,
                  CancelCommit, SyncBalance, SyncBegin, SyncWallet, SyncCommit
    <3>2. posLock' = posLock \/ Free(r)
      BY <1>2 DEF Step, CreateOrder, CreateBegin, CreateExposure, CreateRisk, CreatePlace,
                  CreateFlush, CreateLock, CreateCommit, ClosePosition, CloseBegin, ClosePlace,
                  CloseAccount, CloseLock, CloseCommit, CancelOrder, CancelBegin, CancelPlace,
                  CancelCommit, SyncBalance, SyncBegin, SyncWallet, SyncCommit, locks
    <3>3. \A p \in Reqs : posLock'[p] = Uds => posLock[p] = Uds
      BY <3>2, FreeTypes
    <3>. QED BY <3>1, <3>3 DEF Liquidating, TargetInv
  <2>2. ASSUME NEW q \in Reqs, req'[q] # req[q]
        PROVE  /\ req'[q].pc \in OrderPcs => req'[q].qty \in Quantities
               /\ req'[q].pc \in ClosePcs =>
                    /\ req'[q].target \in Reqs /\ Booked(req'[q].target)
                    /\ req[req'[q].target].user = req'[q].user
                    /\ req[req'[q].target].symbol = req'[q].symbol
    <3>1. CASE CreateRisk(r) \/ CreatePlace(r) \/ CreateFlush(r)
      <4>1. q = r
        BY <2>2, <3>1, UnlockedSteps DEF Unlocked
      <4>2. req[r].pc \in OrderPcs => req[r].qty \in Quantities
        BY DEF TargetInv
      <4>3. req'[r].pc \in OrderPcs => req'[r].qty \in Quantities
        <5>1. CASE CreateRisk(r)
          BY <5>1, CreateRecords DEF OrderPcs
        <5>2. CASE CreatePlace(r) \/ CreateFlush(r)
          <6>1. req[r].pc \in {"c_place", "c_flush"}
            BY <5>2 DEF CreatePlace, CreateFlush
          <6>. QED BY <4>2, <5>2, <6>1, CreateRecords DEF OrderPcs, SameOrder
        <5>. QED BY <3>1, <5>1, <5>2
      <4>4. req'[r].pc \notin ClosePcs
        BY <3>1, Moves DEF ClosePcs
      <4>. QED BY <4>1, <4>3, <4>4
    <3>2. CASE CreateLock(r)
      <4>1. /\ q = r /\ req[r].pc = "c_lock" /\ req'[r].pc = "c_commit"
            /\ req'[r].qty = req[r].qty
        BY <2>2, <3>2, Selecting DEF CreateLock
      <4>. QED BY <4>1 DEF TargetInv, OrderPcs, ClosePcs
    <3>3. CASE CloseBegin(r)
      <4>1. q = r
        BY <2>2, <3>3, UnlockedSteps DEF Unlocked
      <4>2. CASE req'[r].pc = "rejected"
        BY <4>1, <4>2 DEF OrderPcs, ClosePcs
      <4>3. CASE req'[r].pc # "rejected"
        <5>1. /\ req'[r].pc = "x_place" /\ req'[r].target \in Reqs
              /\ req'[r].target \in LiveOf(req'[r].user, req'[r].symbol)
          BY <3>3, <4>3, CloseRecords
        <5>. QED BY <4>1, <5>1 DEF OrderPcs, LiveOf, LivePositions, Booked
      <4>. QED BY <4>2, <4>3
    <3>4. CASE ClosePlace(r) \/ CloseAccount(r) \/ CloseLock(r)
      <4>1. q = r
        <5>1. CASE CloseLock(r)
          <6> DEFINE rec == [req[r] EXCEPT !.pc = "x_commit"]
          <6>1. Set(r, rec)
            BY <5>1 DEF CloseLock, Goto
          <6>. HIDE DEF rec
          <6>. QED BY <2>2, <6>1, SetPc
        <5>2. CASE ~CloseLock(r)
          BY <2>2, <3>4, <5>2, UnlockedSteps DEF Unlocked
        <5>. QED BY <5>1, <5>2
      <4>2. req[r].pc \in ClosePcs
        BY <3>4 DEF ClosePlace, CloseAccount, CloseLock, ClosePcs
      <4>3. req'[r].pc = "failed" \/ (req'[r].pc \in ClosePcs /\ SameClose(r))
        <5>1. CASE ClosePlace(r)
          BY <5>1, CloseRecords DEF ClosePcs
        <5>2. CASE CloseAccount(r)
          BY <5>2, CloseRecords DEF ClosePcs
        <5>3. CASE CloseLock(r)
          BY <5>3, CloseRecords DEF ClosePcs
        <5>. QED BY <3>4, <5>1, <5>2, <5>3
      <4>4. /\ SameBook(req[r].target, r) /\ req[r].target \in Reqs /\ Booked(req[r].target)
        BY <4>2 DEF TargetInv, TypeInv, Control, RecordOK, TargetPcs
      <4>. QED BY <4>1, <4>3, <4>4 DEF SameClose, SameBook, OrderPcs, ClosePcs
    <3>5. CASE \/ CreateBegin(r) \/ CreateExposure(r) \/ CancelOrder(r) \/ SyncBalance(r)
               \/ CreateCommit(r) \/ CloseCommit(r)
      <4>1. q = r /\ req'[r].pc \notin OrderPcs \cup ClosePcs
        <5>1. CASE CreateCommit(r) \/ CloseCommit(r)
          BY <2>2, <5>1, Answered DEF CreateCommit, CloseCommit, OrderPcs, ClosePcs
        <5>2. CASE ~(CreateCommit(r) \/ CloseCommit(r))
          BY <2>2, <3>5, <5>2, Moves, UnlockedSteps
             DEF Unlocked, CancelOrder, SyncBalance, OrderPcs, ClosePcs
        <5>. QED BY <5>1, <5>2
      <4>. QED BY <4>1
    <3>. QED BY <1>2, <3>1, <3>2, <3>3, <3>4, <3>5 DEF Step, CreateOrder, ClosePosition
  <2>. QED BY <1>1, <2>1, <2>2, TargetStays
<1>3. ASSUME NEW s \in Symbols, UdsBegin(s) PROVE TargetInv'
  <2>1. req' = req /\ posLock' = posLock /\ ~uds.busy
    BY <1>3 DEF UdsBegin, locks
  <2>2. uds'.busy = TRUE /\ uds'.todo = {p \in LivePositions : req[p].symbol = s}
    BY <1>3 DEF UdsBegin, IdleUds
  <2>3. \A p \in Reqs : Liquidating(p)' => req[p].symbol = s
    BY <2>1, <2>2 DEF Liquidating, TargetInv
  <2>. QED BY <2>1, <2>2, <2>3 DEF TargetInv, SameBook
<1>4. ASSUME NEW p \in Reqs, UdsPosition(p) PROVE TargetInv'
  <2>1. req' = req /\ p \in uds.todo /\ posLock' = [posLock EXCEPT ![p] = Uds]
    BY <1>4 DEF UdsPosition
  <2>2. uds'.busy = uds.busy /\ uds'.todo = uds.todo \ {p}
    BY <1>4 DEF UdsPosition, TypeInv, TypeOK, UdsRecord
  <2>3. \A q \in Reqs : Liquidating(q)' => Liquidating(q)
    BY <2>1, <2>2 DEF Liquidating, TypeInv, TypeOK
  <2>. QED BY <2>1, <2>2, <2>3 DEF TargetInv, SameBook
<1>5. ASSUME req' = req, Free(Uds), uds' = [IdleUds EXCEPT !.began = uds.began] PROVE TargetInv'
  <2>1. uds'.todo = {}
    BY <1>5 DEF IdleUds
  <2>2. \A p \in Reqs : ~Liquidating(p)'
    BY <1>5, <2>1, LedgerAssumption DEF Free, Liquidating
  <2>. QED BY <1>5, <2>2 DEF TargetInv, SameBook
<1>6. CASE Liquidate
  BY <1>3, <1>4, <1>5, <1>6 DEF Liquidate, UdsCommit
<1>7. CASE DetectDeadlock
  <2>1. CASE \E r \in Reqs : Abort(r) /\ UNCHANGED uds
    <3>1. PICK r \in Reqs : Abort(r) /\ UNCHANGED uds
      BY <2>1
    <3>2. req'[r].pc = "failed" /\ \A q \in Reqs \ {r} : req'[q] = req[q]
      BY <3>1, Dropped DEF Abort
    <3>3. \A p \in Reqs : posLock'[p] = Uds => posLock[p] = Uds
      BY <3>1, FreeTypes DEF Abort
    <3>4. \A p \in Reqs : Liquidating(p)' => Liquidating(p) /\ uds'.busy
      BY <3>1, <3>3 DEF Liquidating, TargetInv
    <3>. QED BY <1>1, <3>2, <3>4, TargetStays DEF OrderPcs, ClosePcs
  <2>2. CASE UdsAbort /\ UNCHANGED req
    BY <1>5, <2>2 DEF UdsAbort
  <2>. QED BY <1>7, <2>1, <2>2 DEF DetectDeadlock
<1>8. CASE Crash
  <2> DEFINE rec == [NoReq EXCEPT !.pc = "failed"]
  <2>1. rec.pc = "failed"
    BY DEF NoReq
  <2>2. \A r \in Reqs : req'[r] = req[r] \/ req'[r] = rec
    BY <1>8 DEF Crash
  <2>3. uds'.todo = {} /\ \A p \in Reqs : posLock'[p] # Uds
    BY <1>8, LedgerAssumption DEF Crash, IdleUds
  <2>. HIDE DEF rec
  <2>4. \A p \in Reqs : ~Liquidating(p)'
    BY <2>3 DEF Liquidating
  <2>. QED BY <1>1, <2>1, <2>2, <2>4, TargetStays DEF OrderPcs, ClosePcs
<1>9. CASE Quiet \/ UNCHANGED vars \/ \E o \in Reqs : ExchangeFill(o) \/ KeyExpire(o)
  <2>1. UNCHANGED <<req, uds, posLock>>
    BY <1>9 DEF Quiet, vars, ExchangeFill, KeyExpire, locks
  <2>. QED BY <2>1 DEF TargetInv, SameBook, Liquidating
<1>. QED BY <1>2, <1>6, <1>7, <1>8, <1>9 DEF Next

\* The book the refinement mapping reads off the tables.
Table == [us \in Users \X Symbols |-> NetPosition(us[1], us[2])]

\* A net position changes only with the user's live position in the symbol.
LEMMA NetStays ==
  ASSUME NEW u, NEW s, LiveOf(u, s)' = LiveOf(u, s),
         \A p \in LiveOf(u, s) : pos'[p].qty = pos[p].qty
  PROVE  NetPosition(u, s)' = NetPosition(u, s)
<1>1. CASE LiveOf(u, s) = {}
  BY <1>1 DEF NetPosition
<1>2. CASE LiveOf(u, s) # {}
  <2>1. (CHOOSE p \in LiveOf(u, s) : TRUE) \in LiveOf(u, s)
    BY <1>2
  <2>. QED BY <1>2, <2>1 DEF NetPosition
<1>. QED BY <1>1, <1>2

LEMMA TableStays ==
  ASSUME \A u \in Users, s \in Symbols : NetPosition(u, s)' = NetPosition(u, s)
  PROVE  Table' = Table
BY DEF Table

\* The positions that are live after a step are found under the same user and
\* symbol as before it.
LEMMA LiveAfter ==
  ASSUME TypeInv, [Next]_vars, NEW L \in SUBSET LivePositions, LivePositions' = L,
         NEW u, NEW s
  PROVE  LiveOf(u, s)' = LiveOf(u, s) \cap L
<1>1. \A p \in L : req'[p] = req[p]
  BY DoneStays DEF TypeInv, Control, LivePositions, Booked
<1>. QED BY <1>1 DEF LiveOf

LEMMA CreateCommitIsBook ==
  ASSUME TypeInv, LockInv, BookInv, TargetInv, NEW r \in Reqs, CreateCommit(r)
  PROVE  PositionsTable!Next \/ Table' = Table
<1>. USE DEF BookInv
<1>1. PICK t \in Reqs, u \in Users, s \in Symbols :
        t = req[r].target /\ u = req[r].user /\ s = req[r].symbol
  BY Committing DEF TypeInv, Control, RecordOK, UserPcs, SymbolPcs
<1>2. /\ req[r].pc = "c_commit" /\ Selected(r) /\ ~Booked(r) /\ Computed(r)
      /\ pos'[t].state = IF t = r THEN "live" ELSE pos[t].state
      /\ pos'[t].qty = req[r].newQty
      /\ \A p \in Reqs \ {t} : pos'[p] = pos[p]
      /\ \A p \in Reqs : req'[p].user = req[p].user /\ req'[p].symbol = req[p].symbol
  BY <1>1, Committing
<1>3. req[r].qty \in Quantities /\ Quantities \subseteq Int
  BY <1>2, LedgerAssumption DEF TargetInv, OrderPcs
<1>4. CASE t # r /\ pos[t].state # "live"
  <2>1. LivePositions' = LivePositions /\ t \notin LivePositions
    BY <1>2, <1>4 DEF LivePositions
  <2>2. \A v, x : LiveOf(v, x)' = LiveOf(v, x)
    BY <1>2, <2>1 DEF LiveOf, LivePositions
  <2>3. \A v, x : \A p \in LiveOf(v, x) : pos'[p].qty = pos[p].qty
    BY <1>2, <2>1 DEF LiveOf, LivePositions
  <2>4. \A v, x : NetPosition(v, x)' = NetPosition(v, x)
    BY <2>2, <2>3, NetStays
  <2>. QED BY <2>4, TableStays
<1>5. CASE t = r \/ pos[t].state = "live"
  <2>1. LivePositions' = LivePositions \cup {t}
    BY <1>2, <1>5 DEF LivePositions
  <2>2. req[t].user = u /\ req[t].symbol = s
    BY <1>1, <1>2 DEF Computed, SameBook
  <2>3. /\ LiveOf(u, s) = IF t = r THEN {} ELSE {t}
        /\ LiveOf(u, s)' = {t}
    <3>1. CASE t = r
      <4>1. \A p \in LivePositions : ~(req[p].user = u /\ req[p].symbol = s)
        BY <1>1, <1>2, <3>1 DEF Selected, SameBook
      <4>. QED BY <1>2, <2>1, <2>2, <3>1, <4>1 DEF LiveOf, LivePositions
    <3>2. CASE t # r
      <4>1. t \in LivePositions
        BY <1>5, <3>2 DEF LivePositions
      <4>2. \A p \in LivePositions : req[p].user = u /\ req[p].symbol = s => p = t
        BY <2>2, <4>1 DEF LockInv, OneLivePosition
      <4>. QED BY <1>2, <2>1, <2>2, <3>2, <4>1, <4>2 DEF LiveOf, LivePositions
    <3>. QED BY <3>1, <3>2
  <2>4. ASSUME NEW v, NEW x, ~(v = u /\ x = s)
        PROVE  NetPosition(v, x)' = NetPosition(v, x)
    <3>1. LiveOf(v, x)' = LiveOf(v, x) /\ t \notin LiveOf(v, x)
      BY <1>2, <2>1, <2>2, <2>4 DEF LiveOf, LivePositions
    <3>2. \A p \in LiveOf(v, x) : pos'[p].qty = pos[p].qty
      BY <1>2, <3>1 DEF LiveOf, LivePositions
    <3>. QED BY <3>1, <3>2, NetStays
  <2>5. NetPosition(u, s)' = IF NetPosition(u, s) = None THEN req[r].qty
                             ELSE NetPosition(u, s) + req[r].qty
    <3>1. NetPosition(u, s)' = req[r].newQty
      BY <1>2, <2>3 DEF NetPosition
    <3>2. CASE t = r
      BY <1>1, <1>2, <2>3, <3>1, <3>2 DEF NetPosition, Computed
    <3>3. CASE t # r
      <4>1. NetPosition(u, s) = pos[t].qty
        BY <2>3, <3>3 DEF NetPosition
      <4>2. pos[t].qty \in Int /\ pos[t].qty # None
        BY LedgerAssumption DEF TypeInv, TypeOK, PositionRow
      <4>. QED BY <1>1, <1>2, <3>1, <3>3, <4>1, <4>2 DEF Computed
    <3>. QED BY <3>2, <3>3
  <2>6. Table' = [Table EXCEPT ![<<u, s>>] =
                    IF @ = None THEN req[r].qty ELSE @ + req[r].qty]
    <3> DEFINE D == Users \X Symbols
               new == IF NetPosition(u, s) = None THEN req[r].qty
                      ELSE NetPosition(u, s) + req[r].qty
    <3>1. \A us \in D : us = <<u, s>> \/ ~(us[1] = u /\ us[2] = s)
      OBVIOUS
    <3>2. \A us \in D : NetPosition(us[1], us[2])' =
                         IF us = <<u, s>> THEN new ELSE NetPosition(us[1], us[2])
      BY <2>4, <2>5, <3>1
    <3>3. Table[<<u, s>>] = NetPosition(u, s) /\ <<u, s>> \in D
      BY DEF Table
    <3>. QED BY <3>2, <3>3 DEF Table
  <2>7. PositionsTable!Book(u, s, req[r].qty)
    BY <2>6 DEF PositionsTable!Book, Table
  <2>. QED BY <1>3, <2>7 DEF PositionsTable!Next
<1>. QED BY <1>4, <1>5

\* Positions of one symbol are closed together: their users' net positions go flat.
LEMMA ClosingIsCloseOut ==
  ASSUME TypeInv, LockInv, [Next]_vars, NEW s \in Symbols, NEW P \in SUBSET LivePositions,
         \A p \in P : req[p].symbol = s,
         LivePositions' = LivePositions \ P,
         \A p \in Reqs : pos'[p].qty = pos[p].qty
  PROVE  PositionsTable!Next
<1> DEFINE U == {req[p].user : p \in P}
<1>1. U \in SUBSET Users
  BY DEF TypeInv, Control, LivePositions, Booked
<1>2. ASSUME NEW u \in Users, NEW x \in Symbols
      PROVE  NetPosition(u, x)' = IF u \in U /\ x = s THEN None ELSE NetPosition(u, x)
  <2>1. LiveOf(u, x)' = LiveOf(u, x) \ P
    BY LiveAfter DEF LiveOf
  <2>2. CASE u \in U /\ x = s
    <3>1. PICK p \in P : req[p].user = u
      BY <2>2
    <3>2. LiveOf(u, x) \subseteq {p}
      BY <2>2, <3>1 DEF LiveOf, LockInv, OneLivePosition
    <3>3. LiveOf(u, x)' = {}
      BY <2>1, <3>2
    <3>. QED BY <2>2, <3>3 DEF NetPosition
  <2>3. CASE ~(u \in U /\ x = s)
    <3>1. LiveOf(u, x)' = LiveOf(u, x)
      BY <2>1, <2>3 DEF LiveOf
    <3>2. \A p \in LiveOf(u, x) : pos'[p].qty = pos[p].qty
      BY DEF LiveOf, LivePositions
    <3>. QED BY <2>3, <3>1, <3>2, NetStays
  <2>. QED BY <2>2, <2>3
<1>3. ASSUME NEW u \in U PROVE NetPosition(u, s) # None
  <2>1. PICK p \in P : req[p].user = u
    OBVIOUS
  <2>2. LiveOf(u, s) # {}
    BY <2>1 DEF LiveOf
  <2>3. (CHOOSE q \in LiveOf(u, s) : TRUE) \in Reqs
    BY <2>2 DEF LiveOf, LivePositions
  <2>4. NetPosition(u, s) \in Int
    BY <2>2, <2>3 DEF NetPosition, TypeInv, TypeOK, PositionRow
  <2>. QED BY <2>4, LedgerAssumption
<1>. HIDE DEF U
<1>4. \A u \in U : Table[<<u, s>>] # None
  BY <1>1, <1>3 DEF Table
<1>5. Table' = [us \in Users \X Symbols |-> IF us[1] \in U /\ us[2] = s THEN None ELSE Table[us]]
  BY <1>2 DEF Table
<1>6. PositionsTable!CloseOut(U, s)
  BY <1>4, <1>5 DEF PositionsTable!CloseOut, Table
<1>. QED BY <1>1, <1>6 DEF PositionsTable!Next

LEMMA StepIsBookStep ==
  ASSUME TypeInv, LockInv, BookInv, TargetInv, [Next]_vars
  PROVE  PositionsTable!Next \/ Table' = Table
<1>1. ASSUME pos' = pos PROVE Table' = Table
  <2>1. LivePositions' = LivePositions
    BY <1>1 DEF LivePositions
  <2>2. \A u, s : LiveOf(u, s)' = LiveOf(u, s)
    BY <2>1, LiveAfter DEF LiveOf
  <2>3. \A u, s : NetPosition(u, s)' = NetPosition(u, s)
    BY <1>1, <2>2, NetStays
  <2>. QED BY <2>3, TableStays
<1>2. ASSUME NEW r \in Reqs, CloseCommit(r) PROVE PositionsTable!Next \/ Table' = Table
  <2>1. PICK t \in Reqs : t = req[r].target
    BY <1>2 DEF CloseCommit, TypeInv, Control, RecordOK, TargetPcs, ClosePcs
  <2>2. /\ req[r].symbol \in Symbols /\ SameBook(t, r)
        /\ pos' = [pos EXCEPT ![t].state = "liquidated"]
    BY <1>2, <2>1
       DEF CloseCommit, TypeInv, Control, RecordOK, SymbolPcs, ClosePcs, TargetInv
  <2>3. \A p \in Reqs : /\ pos'[p].qty = pos[p].qty
                        /\ pos'[p].state = IF p = t THEN "liquidated" ELSE pos[p].state
    BY <2>2 DEF TypeInv, TypeOK, PositionRow
  <2>4. LivePositions' = LivePositions \ (LivePositions \cap {t})
    BY <2>3 DEF LivePositions
  <2>5. \A p \in LivePositions \cap {t} : req[p].symbol = req[r].symbol
    BY <2>2 DEF SameBook
  <2>. QED BY <2>2, <2>3, <2>4, <2>5, ClosingIsCloseOut
<1>3. ASSUME UdsCommit PROVE PositionsTable!Next \/ Table' = Table
  <2> DEFINE P == {p \in LivePositions : posLock[p] = Uds}
  <2>1. \A p \in Reqs : pos[p] \in PositionRow
          /\ pos'[p] = IF posLock[p] = Uds THEN [pos[p] EXCEPT !.state = "liquidated"] ELSE pos[p]
    BY <1>3 DEF UdsCommit, TypeInv, TypeOK
  <2>2. \A p \in Reqs : /\ pos'[p].qty = pos[p].qty
                        /\ pos'[p].state = IF posLock[p] = Uds THEN "liquidated" ELSE pos[p].state
    BY <2>1 DEF PositionRow
  <2>3. LivePositions' = LivePositions \ P
    BY <2>2 DEF LivePositions
  <2>4. CASE P = {}
    <3>1. LivePositions' = LivePositions
      BY <2>3, <2>4
    <3>2. \A u, s : LiveOf(u, s)' = LiveOf(u, s)
      BY <3>1, LiveAfter DEF LiveOf
    <3>3. \A u, s : \A p \in LiveOf(u, s) : pos'[p].qty = pos[p].qty
      BY <2>2 DEF LiveOf, LivePositions
    <3>4. \A u, s : NetPosition(u, s)' = NetPosition(u, s)
      BY <3>2, <3>3, NetStays
    <3>. QED BY <3>4, TableStays
  <2>5. CASE P # {}
    <3>1. PICK q \in P : TRUE
      BY <2>5
    <3>2. req[q].symbol \in Symbols
      BY DEF TypeInv, Control, LivePositions, Booked
    <3>3. \A p \in P : req[p].symbol = req[q].symbol
      BY DEF TargetInv, Liquidating, LivePositions
    <3>4. P \in SUBSET LivePositions
      OBVIOUS
    <3>. HIDE DEF P
    <3>. QED BY <2>2, <2>3, <3>2, <3>3, <3>4, ClosingIsCloseOut
  <2>. QED BY <2>4, <2>5
<1>4. ASSUME NEW r \in Reqs, Step(r) PROVE PositionsTable!Next \/ Table' = Table
  <2>1. CreateCommit(r) \/ CloseCommit(r) \/ pos' = pos
    BY <1>4 DEF Step, CreateOrder, CreateBegin, CreateExposure, CreateRisk, CreatePlace,
                CreateFlush, CreateLock, ClosePosition, CloseBegin, ClosePlace, CloseAccount,
                CloseLock, CancelOrder, CancelBegin, CancelPlace, CancelCommit, SyncBalance,
                SyncBegin, SyncWallet, SyncCommit, rows
  <2>. QED BY <1>1, <1>2, <2>1, CreateCommitIsBook
<1>5. CASE Liquidate \/ DetectDeadlock \/ (\E o \in Reqs : ExchangeFill(o) \/ KeyExpire(o))
           \/ Crash \/ Quiet \/ UNCHANGED vars
  <2>1. UdsCommit \/ pos' = pos
    BY <1>5 DEF Liquidate, UdsBegin, UdsPosition, DetectDeadlock, ExchangeFill, KeyExpire,
                Crash, Quiet, rows, vars
  <2>. QED BY <1>1, <1>3, <2>1
<1>. QED BY <1>4, <1>5 DEF Next

LEMMA InitIsBookInit == Init => PositionsTable!Init
<1> SUFFICES ASSUME Init PROVE PositionsTable!Init
  OBVIOUS
<1>1. \A u, s : LiveOf(u, s) = {}
  BY DEF Init, NoPosition, LiveOf, LivePositions
<1>2. \A u, s : NetPosition(u, s) = None
  BY <1>1 DEF NetPosition
<1>. QED BY <1>2 DEF PositionsTable!Init

\* However the handlers interleave, fail and are liquidated under, what their
\* commits do to the net positions is one atomic step of the position book: exactly
\* one order added, positions of one symbol closed, or nothing.
THEOREM LedgerImplementsPositionBook == Spec => PositionBookSpec
<1>1. Init => TypeInv /\ LockInv /\ BookInv /\ TargetInv
  BY TypeInit, LocksInit, BooksInit, TargetInit
<1>2. TypeInv /\ LockInv /\ BookInv /\ TargetInv /\ [Next]_vars
        => TypeInv' /\ LockInv' /\ BookInv' /\ TargetInv'
  BY TypeStep, LocksStep, BooksStep, TargetStep
<1>3. TypeInv /\ LockInv /\ BookInv /\ TargetInv /\ [Next]_vars
        => [PositionsTable!Next]_Table
  BY StepIsBookStep
<1>. QED BY <1>1, <1>2, <1>3, InitIsBookInit, PTL
            DEF Spec, PositionBookSpec, PositionsTable!Spec, Table
-----------------------------------------------------------------------------
(***************************************************************************)
(* The ledger implements what the regulator's reports take as given.  A    *)
(* report knows a position by the orders booked on it, the handlers by its *)
(* row: there is a row exactly where the order that opened it is.          *)
(***************************************************************************)
OpenedByOrder == \A p \in Reqs : Booked(p) => order[p].target = p

LEMMA OpenedInit == Init => OpenedByOrder
BY DEF Init, OpenedByOrder, Booked, NoPosition

LEMMA BookedPositions ==
  ASSUME OpenedByOrder
  PROVE  \A p \in Reqs : Booked(p) => p \in ReadTables!Positions
<1> SUFFICES ASSUME NEW p \in Reqs, Booked(p) PROVE p \in ReadTables!Positions
  OBVIOUS
<1>1. OrdersBooked[p] = OrdersOn(p) /\ p \in OrdersOn(p)
  BY DEF OpenedByOrder, OrdersBooked, OrdersOn
<1>. QED BY <1>1 DEF ReadTables!Positions

\* A step that books no order and closes no position.
LEMMA TablesStay ==
  ASSUME OpenedByOrder,
         \A p \in Reqs : pos'[p].state = pos[p].state,
         \A o \in Reqs : /\ order'[o].target = order[o].target
                         /\ order'[o].status # "absent" <=> order[o].status # "absent"
  PROVE  /\ OpenedByOrder'
         /\ UNCHANGED <<OrdersBooked, ClosedPositions, OrdersTraded>>
<1>1. \A p : OrdersOn(p)' = OrdersOn(p)
  BY DEF OrdersOn
<1>2. OpenedByOrder'
  BY DEF OpenedByOrder, Booked
<1>. QED BY <1>1, <1>2 DEF OrdersBooked, ClosedPositions, OrdersTraded

LEMMA CreateCommitIsCreate ==
  ASSUME TypeInv, LockInv, BookInv, OpenedByOrder, NEW r \in Reqs, CreateCommit(r)
  PROVE  OpenedByOrder' /\ ReadTables!Create(r)
<1>0. PICK t \in Reqs : t = req[r].target
  BY Committing DEF BookInv
<1>1. /\ pos'[t].state = IF t = r THEN "live" ELSE pos[t].state
      /\ \A p \in Reqs \ {t} : pos'[p] = pos[p]
      /\ \A p \in Reqs : Booked(p)' <=> Booked(p) \/ p = t
      /\ order[r].target = None /\ order'[r].target = t
      /\ order'[r].status \in {"NEW", "FILLED"}
      /\ \A o \in Reqs \ {r} : order'[o] = order[o]
      /\ req[r].pc = "c_commit" /\ Selected(r) /\ ~Booked(r)
  BY <1>0, Committing DEF BookInv
<1>2. t # r => Booked(t)
  BY <1>0, <1>1 DEF Selected
<1>3. OpenedByOrder'
  <2> SUFFICES ASSUME NEW p \in Reqs, Booked(p)' PROVE order'[p].target = p
    BY DEF OpenedByOrder
  <2>1. CASE p = r
    <3>1. t = r
      BY <1>1, <2>1
    <3>. QED BY <1>1, <2>1, <3>1
  <2>2. CASE p # r
    <3>1. Booked(p)
      BY <1>1, <1>2, <2>2
    <3>. QED BY <1>1, <2>2, <3>1 DEF OpenedByOrder
  <2>. QED BY <2>1, <2>2
<1>4. \A p \in Reqs : OrdersOn(p)' = IF p = t THEN OrdersOn(p) \cup {r} ELSE OrdersOn(p)
  <2>1. \A p \in Reqs : p # None
    BY LedgerAssumption
  <2>. QED BY <1>1, <2>1 DEF OrdersOn
<1>5. OrdersBooked' = [OrdersBooked EXCEPT ![t] = @ \cup {r}]
  BY <1>4 DEF OrdersBooked
<1>6. ClosedPositions' = ClosedPositions
  BY <1>1 DEF ClosedPositions, Booked
<1>7. order[r].status = "absent"
  BY <1>1 DEF BookInv, OrderRows
<1>8. OrdersTraded' = OrdersTraded \cup {r} /\ r \notin OrdersTraded
  BY <1>1, <1>7 DEF OrdersTraded
<1>9. t \in ReadTables!Positions \cup {r}
  BY <1>2, BookedPositions
<1>. QED BY <1>3, <1>5, <1>6, <1>8, <1>9 DEF ReadTables!Create

LEMMA CloseCommitIsClose ==
  ASSUME TypeInv, BookInv, OpenedByOrder, NEW r \in Reqs, CloseCommit(r)
  PROVE  OpenedByOrder' /\ ReadTables!Close(r)
<1> DEFINE t == req[r].target
<1>1. /\ req[r].pc = "x_commit" /\ pos' = [pos EXCEPT ![t].state = "liquidated"]
      /\ order' = [order EXCEPT ![r] = [status |-> "FILLED", target |-> None]]
  BY DEF CloseCommit
<1>2. t \in Reqs /\ Booked(t)
  BY <1>1 DEF TypeInv, Control, RecordOK, TargetPcs, ClosePcs
<1>3. \A p \in Reqs : pos'[p].state = IF p = t THEN "liquidated" ELSE pos[p].state
  BY <1>1, <1>2 DEF TypeInv, TypeOK, PositionRow
<1>4. /\ order'[r].status = "FILLED" /\ order'[r].target = None
      /\ \A o \in Reqs \ {r} : order'[o] = order[o]
  BY <1>1 DEF TypeInv, TypeOK
<1>5. order[r].status = "absent" /\ order[r].target = None
  BY <1>1 DEF BookInv, OrderRows
<1>. HIDE DEF t
<1>6. \A o \in Reqs : order'[o].target = order[o].target
  BY <1>4, <1>5
<1>7. OpenedByOrder'
  BY <1>2, <1>3, <1>6 DEF OpenedByOrder, Booked
<1>8. \A p : OrdersOn(p)' = OrdersOn(p)
  BY <1>6 DEF OrdersOn
<1>9. OrdersBooked' = OrdersBooked
  BY <1>8 DEF OrdersBooked
<1>10. ClosedPositions' = ClosedPositions \cup {t}
  BY <1>2, <1>3 DEF ClosedPositions
<1>11. OrdersTraded' = OrdersTraded \cup {r} /\ r \notin OrdersTraded
  BY <1>4, <1>5 DEF OrdersTraded
<1>. QED BY <1>2, <1>7, <1>9, <1>10, <1>11, BookedPositions DEF ReadTables!Close

LEMMA UdsCommitIsLiquidate ==
  ASSUME TypeInv, OpenedByOrder, UdsCommit
  PROVE  /\ OpenedByOrder'
         /\ \/ ReadTables!Liquidate
            \/ UNCHANGED <<OrdersBooked, ClosedPositions, OrdersTraded>>
<1> DEFINE some == {p \in Reqs : posLock[p] = Uds}
<1>1. /\ \A p \in Reqs : pos'[p].state = IF posLock[p] = Uds THEN "liquidated" ELSE pos[p].state
      /\ order' = order
  BY DEF UdsCommit, TypeInv, TypeOK, PositionRow
<1>2. \A p \in some : Booked(p)
  BY DEF TypeInv, Control
<1>3. some \subseteq ReadTables!Positions
  BY <1>2, BookedPositions
<1>4. OpenedByOrder'
  BY <1>1, <1>2 DEF OpenedByOrder, Booked
<1>5. OrdersBooked' = OrdersBooked /\ OrdersTraded' = OrdersTraded
  BY <1>1 DEF OrdersBooked, OrdersOn, OrdersTraded
<1>6. ClosedPositions' = ClosedPositions \cup some
  BY <1>1 DEF ClosedPositions
<1>. HIDE DEF some
<1>7. CASE some = {}
  BY <1>4, <1>5, <1>6, <1>7
<1>8. CASE some # {}
  <2>1. some \in (SUBSET ReadTables!Positions) \ {{}}
    BY <1>3, <1>8
  <2>. QED BY <1>4, <1>5, <1>6, <2>1 DEF ReadTables!Liquidate
<1>. QED BY <1>7, <1>8

LEMMA StepIsLedgerStep ==
  ASSUME TypeInv, LockInv, BookInv, OpenedByOrder, [Next]_vars
  PROVE  /\ OpenedByOrder'
         /\ [ReadTables!LedgerNext]_<<OrdersBooked, ClosedPositions, OrdersTraded>>
<1>1. ASSUME NEW r \in Reqs, CreateCommit(r) \/ CloseCommit(r)
      PROVE  OpenedByOrder' /\ ReadTables!LedgerNext
  BY <1>1, CreateCommitIsCreate, CloseCommitIsClose DEF ReadTables!LedgerNext
<1>2. CASE UdsCommit
  BY <1>2, UdsCommitIsLiquidate DEF ReadTables!LedgerNext
<1>3. ASSUME NEW r \in Reqs, CancelCommit(r)
      PROVE  /\ OpenedByOrder'
             /\ UNCHANGED <<OrdersBooked, ClosedPositions, OrdersTraded>>
  <2> DEFINE t == req[r].target
  <2>1. /\ order' = [order EXCEPT ![t].status = "CANCELED"] /\ pos' = pos
        /\ t \in Reqs /\ order[t].status # "absent"
    BY <1>3 DEF CancelCommit, BookInv, OrderRows, TypeInv, Control, RecordOK, TargetPcs
  <2>2. \A o \in Reqs : /\ order'[o].target = order[o].target
                        /\ order'[o].status = IF o = t THEN "CANCELED" ELSE order[o].status
    BY <2>1 DEF TypeInv, TypeOK, OrderRow
  <2>. HIDE DEF t
  <2>3. \A o \in Reqs : order'[o].status # "absent" <=> order[o].status # "absent"
    BY <2>1, <2>2
  <2>. QED BY <2>1, <2>2, <2>3, TablesStay
<1>4. ASSUME UNCHANGED <<pos, order>>
      PROVE  /\ OpenedByOrder'
             /\ UNCHANGED <<OrdersBooked, ClosedPositions, OrdersTraded>>
  BY <1>4, TablesStay
<1>5. ASSUME NEW r \in Reqs, Step(r), ~CreateCommit(r), ~CloseCommit(r), ~CancelCommit(r)
      PROVE  UNCHANGED <<pos, order>>
  BY <1>5 DEF Step, CreateOrder, CreateBegin, CreateExposure, CreateRisk, CreatePlace,
       CreateFlush, CreateLock, ClosePosition, CloseBegin, ClosePlace, CloseAccount, CloseLock,
       CancelOrder, CancelBegin, CancelPlace, SyncBalance, SyncBegin, SyncWallet, SyncCommit,
       rows
<1>6. CASE Liquidate /\ ~UdsCommit
  BY <1>4, <1>6 DEF Liquidate, UdsBegin, UdsPosition, rows
<1>7. CASE DetectDeadlock \/ Crash \/ Quiet \/ UNCHANGED vars
           \/ \E o \in Reqs : ExchangeFill(o) \/ KeyExpire(o)
  BY <1>4, <1>7 DEF DetectDeadlock, Crash, Quiet, vars, ExchangeFill, KeyExpire, rows
<1>. QED BY <1>1, <1>2, <1>3, <1>4, <1>5, <1>6, <1>7 DEF Next

LEMMA InitIsLedgerInit == Init => ReadTables!LedgerInit
<1> SUFFICES ASSUME Init PROVE ReadTables!LedgerInit
  OBVIOUS
<1>1. \A p \in Reqs : OrdersOn(p) = {}
  BY LedgerAssumption DEF Init, OrdersOn, NoOrder
<1>2. ClosedPositions = {} /\ OrdersTraded = {}
  BY DEF Init, ClosedPositions, OrdersTraded, NoPosition, NoOrder
<1>. QED BY <1>1, <1>2 DEF ReadTables!LedgerInit, OrdersBooked

\* What the handlers commit, however they interleave, fail and are liquidated under,
\* is what RegulatorReads takes as its environment: one order with its trade at a
\* time, closings that stay, and nothing else a report could see.
THEOREM LedgerImplementsLedgerRows == Spec => LedgerRowsSpec
<1>1. Init => TypeInv /\ LockInv /\ BookInv /\ OpenedByOrder
  BY TypeInit, LocksInit, BooksInit, OpenedInit
<1>2. TypeInv /\ LockInv /\ BookInv /\ [Next]_vars => TypeInv' /\ LockInv' /\ BookInv'
  BY TypeStep, LocksStep, BooksStep
<1>3. TypeInv /\ LockInv /\ BookInv /\ OpenedByOrder /\ [Next]_vars
        => /\ OpenedByOrder'
           /\ [ReadTables!LedgerNext]_<<OrdersBooked, ClosedPositions, OrdersTraded>>
  BY StepIsLedgerStep
<1>. QED BY <1>1, <1>2, <1>3, InitIsLedgerInit, PTL
            DEF Spec, LedgerRowsSpec, ReadTables!LedgerSpec, ReadTables!ledger
-----------------------------------------------------------------------------
(***************************************************************************)
(* EveryWaitEnds.  The liquidation handler gives up no lock before it      *)
(* commits, and takes at most one position of each user: so the account    *)
(* whose UPDATE it has pending is never one that it has locked already.    *)
(***************************************************************************)
LockedOf(u) == \E p \in Reqs : posLock[p] = Uds /\ req[p].user = u

WaitInv ==
  /\ \A p, q \in Reqs : Liquidating(p) /\ Liquidating(q) /\ req[p].user = req[q].user => p = q
  /\ uds.pending # None => uds.busy /\ LockedOf(uds.pending)
  /\ \A u \in Users : accLock[u] = Uds =>
       uds.busy /\ u # uds.pending /\ LockedOf(u)

LEMMA WaitInit == Init => WaitInv
BY LedgerAssumption DEF Init, WaitInv, Liquidating, IdleUds, LockedOf

\* A step in which the liquidation handler neither takes nor gives up a lock.
LEMMA WaitStays ==
  ASSUME TypeInv, WaitInv, [Next]_vars, uds' = uds,
         \A p \in Reqs : posLock'[p] = Uds <=> posLock[p] = Uds,
         \A u \in Users : accLock'[u] = Uds => accLock[u] = Uds
  PROVE  WaitInv'
<1>1. \A p \in Reqs : Liquidating(p) => req'[p] = req[p]
  BY DoneStays DEF Liquidating, TypeInv, Control
<1>2. \A p \in Reqs : Liquidating(p)' <=> Liquidating(p)
  BY DEF Liquidating
<1>3. \A u : LockedOf(u) => LockedOf(u)'
  BY <1>1 DEF LockedOf, Liquidating
<1>4. \A p, q \in Reqs :
        Liquidating(p)' /\ Liquidating(q)' /\ req'[p].user = req'[q].user => p = q
  BY <1>1, <1>2 DEF WaitInv
<1>. QED BY <1>3, <1>4 DEF WaitInv

\* The end of its transaction, by commit, rollback or crash.
LEMMA WaitOver ==
  ASSUME uds'.pending = None, uds'.todo = {}, \A p \in Reqs : posLock'[p] # Uds,
         \A u \in Users : accLock'[u] # Uds
  PROVE  WaitInv'
BY DEF WaitInv, Liquidating

LEMMA RequestLocks ==
  ASSUME TypeInv, NEW r \in Reqs, Step(r)
  PROVE  /\ uds' = uds
         /\ \A p \in Reqs : posLock'[p] = Uds <=> posLock[p] = Uds
         /\ \A u \in Users : accLock'[u] = Uds => accLock[u] = Uds
<1>1. uds' = uds
  BY DEF Step, CreateOrder, CreateBegin, CreateExposure, CreateRisk, CreatePlace, CreateFlush,
         CreateLock, CreateCommit, ClosePosition, CloseBegin, ClosePlace, CloseAccount,
         CloseLock, CloseCommit, CancelOrder, CancelBegin, CancelPlace, CancelCommit,
         SyncBalance, SyncBegin, SyncWallet, SyncCommit
<1>2. CASE CreateLock(r) \/ CloseLock(r)
  <2>1. posLock' = posLock /\ accLock' = [accLock EXCEPT ![req[r].user] = r]
    BY <1>2 DEF CreateLock, CloseLock
  <2>. QED BY <1>1, <2>1, LedgerAssumption DEF TypeInv, TypeOK
<1>3. CASE CreateCommit(r) \/ CloseCommit(r)
  <2>1. Free(r)
    BY <1>3 DEF CreateCommit, CloseCommit
  <2>. QED BY <1>1, <2>1, LedgerAssumption DEF Free
<1>4. CASE Unlocked(r)
  <2>1. accLock' = accLock /\ posLock' = posLock
    BY <1>4 DEF Unlocked, CreateBegin, CreateExposure, CreateRisk, CreatePlace, CreateFlush,
           CloseBegin, ClosePlace, CloseAccount, CancelOrder, CancelBegin, CancelPlace,
           CancelCommit, SyncBalance, SyncBegin, SyncWallet, SyncCommit, locks
  <2>. QED BY <1>1, <2>1
<1>. QED BY <1>2, <1>3, <1>4 DEF Step, CreateOrder, ClosePosition, Unlocked

LEMMA UdsPositionKeepsWaits ==
  ASSUME TypeInv, TypeInv', WaitInv, NEW p \in Reqs, UdsPosition(p)
  PROVE  WaitInv'
<1> DEFINE u == req[p].user
<1>1. /\ req' = req /\ uds.busy /\ p \in uds.todo /\ posLock[p] = None
      /\ posLock' = [posLock EXCEPT ![p] = Uds] /\ UdsFlushed
  BY DEF UdsPosition
<1>2. uds'.busy = uds.busy /\ uds'.todo = uds.todo \ {p} /\ uds'.pending \in {u, None}
  BY DEF UdsPosition, TypeInv, TypeOK, UdsRecord
<1>3. /\ posLock'[p] = Uds
      /\ \A q \in Reqs : posLock[q] = Uds => posLock'[q] = Uds
      /\ \A q \in Reqs : Liquidating(q)' => Liquidating(q)
  BY <1>1, <1>2 DEF Liquidating, TypeInv, TypeOK
<1>4. \A v : LockedOf(v) => LockedOf(v)'
  BY <1>1, <1>3 DEF LockedOf
<1>5. LockedOf(u)'
  BY <1>1, <1>3 DEF LockedOf
<1>6. ~LockedOf(u)
  <2>1. ASSUME NEW q \in Reqs, posLock[q] = Uds, req[q].user = u PROVE FALSE
    <3>1. Liquidating(q) /\ Liquidating(p)
      BY <1>1, <2>1 DEF Liquidating
    <3>2. q = p
      BY <2>1, <3>1 DEF WaitInv
    <3>. QED BY <1>1, <2>1, <3>2, LedgerAssumption
  <2>. QED BY <2>1 DEF LockedOf
<1>7. ASSUME NEW v \in Users, accLock'[v] = Uds
      PROVE  uds'.busy /\ v # uds'.pending /\ LockedOf(v)'
  <2>1. accLock'[v] = IF v = uds.pending THEN Uds ELSE accLock[v]
    BY <1>1 DEF UdsFlushed
  <2>2. LockedOf(v)
    <3>1. CASE v = uds.pending
      BY <3>1, LedgerAssumption DEF WaitInv
    <3>2. CASE v # uds.pending
      BY <1>7, <2>1, <3>2 DEF WaitInv
    <3>. QED BY <3>1, <3>2
  <2>3. v # uds'.pending
    BY <1>2, <1>6, <2>2, LedgerAssumption
  <2>. QED BY <1>1, <1>2, <1>4, <2>2, <2>3
<1>8. \A q, s \in Reqs :
        Liquidating(q)' /\ Liquidating(s)' /\ req'[q].user = req'[s].user => q = s
  BY <1>1, <1>3 DEF WaitInv
<1>9. uds'.pending # None => uds'.busy /\ LockedOf(uds.pending)'
  BY <1>1, <1>2, <1>5 DEF LockedOf
<1>. QED BY <1>7, <1>8, <1>9 DEF WaitInv

LEMMA WaitStep ==
  ASSUME TypeInv, LockInv, TargetInv, WaitInv, [Next]_vars
  PROVE  WaitInv'
<1>1. ASSUME NEW r \in Reqs, Step(r) PROVE WaitInv'
  BY <1>1, RequestLocks, WaitStays
<1>2. ASSUME NEW s \in Symbols, UdsBegin(s) PROVE WaitInv'
  <2>1. req' = req /\ posLock' = posLock /\ accLock' = accLock /\ ~uds.busy
    BY <1>2 DEF UdsBegin, locks
  <2>2. uds'.pending = None /\ uds'.todo = {p \in LivePositions : req[p].symbol = s}
    BY <1>2 DEF UdsBegin, IdleUds
  <2>3. (\A p \in Reqs : posLock[p] # Uds) /\ \A u \in Users : accLock[u] # Uds
    BY <2>1 DEF TargetInv, Liquidating, WaitInv
  <2>4. \A p \in Reqs : Liquidating(p)' => p \in LivePositions /\ req[p].symbol = s
    BY <2>1, <2>2, <2>3 DEF Liquidating
  <2>5. \A p, q \in Reqs :
          Liquidating(p)' /\ Liquidating(q)' /\ req'[p].user = req'[q].user => p = q
    BY <2>1, <2>4 DEF LockInv, OneLivePosition
  <2>. QED BY <2>1, <2>2, <2>3, <2>5 DEF WaitInv
<1>3. ASSUME NEW p \in Reqs, UdsPosition(p) PROVE WaitInv'
  BY <1>3, TypeStep, UdsPositionKeepsWaits
<1>4. ASSUME Free(Uds), uds' = [IdleUds EXCEPT !.began = uds.began] PROVE WaitInv'
  <2>1. uds'.pending = None /\ uds'.todo = {}
    BY <1>4 DEF IdleUds
  <2>2. (\A p \in Reqs : posLock'[p] # Uds) /\ \A u \in Users : accLock'[u] # Uds
    BY <1>4, LedgerAssumption DEF Free
  <2>. QED BY <2>1, <2>2, WaitOver
<1>5. CASE Liquidate
  BY <1>2, <1>3, <1>4, <1>5 DEF Liquidate, UdsCommit
<1>6. CASE DetectDeadlock
  <2>1. ASSUME NEW r \in Reqs, Abort(r), uds' = uds PROVE WaitInv'
    <3>1. Free(r)
      BY <2>1 DEF Abort
    <3>2. /\ \A p \in Reqs : posLock'[p] = Uds <=> posLock[p] = Uds
          /\ \A u \in Users : accLock'[u] = Uds => accLock[u] = Uds
      BY <3>1, LedgerAssumption DEF Free
    <3>. QED BY <2>1, <3>2, WaitStays
  <2>2. CASE UdsAbort
    BY <1>4, <2>2 DEF UdsAbort
  <2>. QED BY <1>6, <2>1, <2>2 DEF DetectDeadlock
<1>7. CASE Crash
  <2>1. uds'.pending = None /\ uds'.todo = {}
    BY <1>7 DEF Crash, IdleUds
  <2>2. (\A p \in Reqs : posLock'[p] # Uds) /\ \A u \in Users : accLock'[u] # Uds
    BY <1>7, LedgerAssumption DEF Crash
  <2>. QED BY <2>1, <2>2, WaitOver
<1>8. CASE Quiet \/ UNCHANGED vars \/ \E o \in Reqs : ExchangeFill(o) \/ KeyExpire(o)
  <2>1. uds' = uds /\ accLock' = accLock /\ posLock' = posLock
    BY <1>8 DEF Quiet, vars, ExchangeFill, KeyExpire, locks
  <2>. QED BY <2>1, WaitStays
<1>. QED BY <1>1, <1>5, <1>6, <1>7, <1>8 DEF Next

\* What the invariants say of those who wait.
LEMMA WaitsEnd ==
  ASSUME TypeInv, LockInv, TargetInv, WaitInv
  PROVE  EveryWaitEnds
<1>1. ASSUME NEW q \in Reqs, req[q].pc \in {"c_commit", "x_commit"}
      PROVE  /\ req[q].target \in Reqs
             /\ Blocker(q) = posLock[req[q].target] /\ Blocker(q) \in {None, Uds}
  <2>1. req[q].target \in Reqs
    BY <1>1 DEF TypeInv, Control, RecordOK, TargetPcs, ClosePcs
  <2>2. Blocker(q) = posLock[req[q].target]
    BY <1>1 DEF Blocker
  <2>. QED BY <2>1, <2>2 DEF TypeInv, TypeOK
<1>2. ASSUME NEW u \in Users, accLock[u] # None
      PROVE  \/ accLock[u] = Uds
             \/ accLock[u] \in Reqs /\ req[accLock[u]].pc \in {"c_commit", "x_commit"}
  BY <1>2 DEF TypeInv, TypeOK, Owners, LockInv, Holders
<1>3. ASSUME NEW r \in Reqs, Blocker(r) # None
      PROVE  \/ Blocker(r) = Uds /\ uds.busy
             \/ \E q \in Reqs : /\ Blocker(r) = q /\ req[q].pc \in {"c_commit", "x_commit"}
                               /\ Blocker(q) \in {None, Uds}
  <2>1. CASE req[r].pc \in {"c_lock", "x_lock", "s_commit"}
    <3>1. Blocker(r) = accLock[req[r].user] /\ req[r].user \in Users
      BY <2>1 DEF Blocker, TypeInv, Control, RecordOK, UserPcs
    <3>2. CASE Blocker(r) = Uds
      BY <3>1, <3>2 DEF WaitInv
    <3>3. CASE Blocker(r) # Uds
      <4>1. Blocker(r) \in Reqs /\ req[Blocker(r)].pc \in {"c_commit", "x_commit"}
        BY <1>2, <1>3, <3>1, <3>3
      <4>2. Blocker(Blocker(r)) \in {None, Uds}
        BY <1>1, <4>1
      <4>. QED BY <4>1, <4>2
    <3>. QED BY <3>2, <3>3
  <2>2. CASE req[r].pc \in {"c_commit", "x_commit"}
    <3>1. req[r].target \in Reqs /\ posLock[req[r].target] = Uds /\ Blocker(r) = Uds
      BY <1>1, <1>3, <2>2
    <3>. QED BY <3>1 DEF TargetInv, Liquidating
  <2>3. CASE req[r].pc \notin {"c_lock", "x_lock", "s_commit", "c_commit", "x_commit"}
    BY <1>3, <2>3 DEF Blocker
  <2>. QED BY <2>1, <2>2, <2>3
<1>4. ASSUME UdsBlocker # None
      PROVE  \E q \in Reqs : /\ UdsBlocker = q /\ req[q].pc \in {"c_commit", "x_commit"}
                            /\ (Blocker(q) = None \/ DeadlockedWith(q))
  <2>1. uds.pending \in Users /\ UdsBlocker = accLock[uds.pending] /\ uds.pending # None
    BY <1>4 DEF UdsBlocker, TypeInv, TypeOK, UdsRecord
  <2>2. uds.busy /\ accLock[uds.pending] # Uds
    BY <2>1 DEF WaitInv
  <2>3. UdsBlocker \in Reqs /\ req[UdsBlocker].pc \in {"c_commit", "x_commit"}
    BY <1>2, <1>4, <2>1, <2>2
  <2>4. Blocker(UdsBlocker) # None => DeadlockedWith(UdsBlocker)
    BY <1>1, <2>1, <2>2, <2>3 DEF DeadlockedWith
  <2>. QED BY <2>3, <2>4
<1>. QED BY <1>3, <1>4 DEF EveryWaitEnds

\* For any number of users, positions and requests: whoever waits for a row lock
\* waits for a transaction that can go on, or is in a cycle of exactly two that
\* Postgres breaks; in particular the liquidation never waits for itself and no
\* crash, rollback or deadlock leaves a lock behind.
THEOREM EveryWaitAlwaysEnds == Spec => []EveryWaitEnds
<1>1. Init => TypeInv /\ LockInv /\ TargetInv /\ WaitInv
  BY TypeInit, LocksInit, TargetInit, WaitInit
<1>2. TypeInv /\ LockInv /\ TargetInv /\ WaitInv /\ [Next]_vars
        => TypeInv' /\ LockInv' /\ TargetInv' /\ WaitInv'
  BY TypeStep, LocksStep, TargetStep, WaitStep
<1>3. TypeInv /\ LockInv /\ TargetInv /\ WaitInv => EveryWaitEnds
  BY WaitsEnd
<1>. QED BY <1>1, <1>2, <1>3, PTL DEF Spec

\* A step of a request changes that request's record only.
LEMMA OthersStand ==
  ASSUME TypeInv, NEW r \in Reqs, Step(r)
  PROVE  (\A q \in Reqs \ {r} : req'[q] = req[q]) /\ uds' = uds
<1>1. uds' = uds
  BY DEF Step, CreateOrder, CreateBegin, CreateExposure, CreateRisk, CreatePlace,
         CreateFlush, CreateLock, CreateCommit, ClosePosition, CloseBegin, ClosePlace,
         CloseAccount, CloseLock, CloseCommit, CancelOrder, CancelBegin, CancelPlace,
         CancelCommit, SyncBalance, SyncBegin, SyncWallet, SyncCommit
<1>2. CASE Unlocked(r)
  BY <1>1, <1>2, UnlockedSteps
<1>3. CASE CreateLock(r)
  BY <1>1, <1>3, Selecting DEF CreateLock
<1>4. CASE CreateCommit(r) \/ CloseCommit(r)
  BY <1>1, <1>4, Answered DEF CreateCommit, CloseCommit
<1>5. CASE CloseLock(r)
  <2> DEFINE rec == [req[r] EXCEPT !.pc = "x_commit"]
  <2>1. Set(r, rec)
    BY <1>5 DEF CloseLock, Goto
  <2>. HIDE DEF rec
  <2>. QED BY <1>1, <2>1, SetPc
<1>. QED BY <1>1, <1>2, <1>3, <1>4, <1>5 DEF Step, CreateOrder, ClosePosition, Unlocked
-----------------------------------------------------------------------------
(***************************************************************************)
(* MarginUsedIsLiveMargin.  Handlers of one user that overlap lose each    *)
(* other's margin_used.  As long as those of a user do not, the user's     *)
(* margin_used is right, whatever the handlers of others do meanwhile: a   *)
(* handler's copy is the committed value, with what the handler is about   *)
(* to add or to release.                                                   *)
(***************************************************************************)
ReadingPcs == {"c_exposure", "c_risk", "c_place", "c_flush", "c_lock"}

\* The requests that have read the margin_used of u, or will read and write it.
MarginRequests(u) ==
  {r \in Reqs : req[r].user = u /\ req[r].pc \in ReadingPcs \cup {"c_commit"} \cup ClosePcs}

BeingLiquidated(u) == \E p \in Reqs : Liquidating(p) /\ req[p].user = u

UserAlone(u) ==
  /\ \A r, q \in MarginRequests(u) : r = q
  /\ BeingLiquidated(u) => MarginRequests(u) = {}

MarginIsLive(u) ==
  account[u].marginUsed = SumFunctionOnSet(PositionMargins, LivePositionsOf(u))

MarginCopies(r) ==
  /\ req[r].pc \in ReadingPcs => req[r].mu = account[req[r].user].marginUsed
  /\ req[r].pc = "c_commit" =>
       /\ req[r].mu = account[req[r].user].marginUsed + req[r].margin
       /\ req[r].target # r => req[r].target \in LivePositions
  /\ req[r].pc \in ClosePcs =>
       req[r].target \in LivePositions /\ req[r].margin = pos[req[r].target].margin
  /\ req[r].pc \in {"x_lock", "x_commit"} =>
       req[r].mu = account[req[r].user].marginUsed - req[r].margin
  /\ req[r].pc = "x_commit" /\ accLock[req[r].user] # r =>
       req[r].mu = account[req[r].user].marginUsed

\* The liquidation handler will write, for the user of a position it has locked,
\* margin_used without that position.
Pending(u) == uds.pending = u \/ accLock[u] = Uds

Released(p) ==
  LET u == req[p].user
  IN  /\ p \in LivePositions /\ uds.seen[p] = pos[p].margin
      /\ posLock[p] = Uds =>
           /\ uds.mu[u] = account[u].marginUsed - pos[p].margin
           /\ Pending(u) \/ uds.mu[u] = account[u].marginUsed

AloneInv(u) ==
  /\ MarginIsLive(u)
  /\ \A r \in MarginRequests(u) : MarginCopies(r)
  /\ \A p \in Reqs : Liquidating(p) /\ req[p].user = u => Released(p)

LEMMA MarginTerms ==
  ASSUME TypeInv, NEW u
  PROVE  /\ IsFiniteSet(LivePositionsOf(u)) /\ LivePositionsOf(u) \subseteq Reqs
         /\ \A p \in Reqs : PositionMargins[p] = pos[p].margin /\ pos[p].margin \in Nat
         /\ SumFunctionOnSet(PositionMargins, LivePositionsOf(u)) \in Nat
<1>1. IsFiniteSet(LivePositionsOf(u)) /\ LivePositionsOf(u) \subseteq Reqs
  BY LedgerAssumption, FS_Subset DEF LivePositionsOf, LivePositions
<1>2. \A p \in Reqs : PositionMargins[p] = pos[p].margin /\ pos[p].margin \in Nat
  BY DEF PositionMargins, TypeInv, TypeOK, PositionRow
<1>. QED BY <1>1, <1>2, SumNat

\* No position's margin is more than the account has committed.
LEMMA MarginIsCommitted ==
  ASSUME TypeInv, NEW u \in Users, MarginIsLive(u), NEW p \in LivePositionsOf(u)
  PROVE  /\ account[u].marginUsed = pos[p].margin
               + SumFunctionOnSet(PositionMargins, LivePositionsOf(u) \ {p})
         /\ pos[p].margin <= account[u].marginUsed
<1> DEFINE S == LivePositionsOf(u)
<1>1. /\ IsFiniteSet(S) /\ S \subseteq Reqs
      /\ \A q \in Reqs : PositionMargins[q] = pos[q].margin /\ pos[q].margin \in Nat
  BY MarginTerms
<1>2. account[u].marginUsed = SumFunctionOnSet(PositionMargins, S)
  BY DEF MarginIsLive
<1>. HIDE DEF S
<1>3. p \in S
  BY DEF S
<1>4. SumFunctionOnSet(PositionMargins, S)
        = PositionMargins[p] + SumFunctionOnSet(PositionMargins, S \ {p})
  BY <1>1, <1>3, SumRemove
<1>5. SumFunctionOnSet(PositionMargins, S \ {p}) \in Nat
  BY <1>1, FS_Subset, SumNat
<1>. QED BY <1>1, <1>2, <1>3, <1>4, <1>5 DEF S

LEMMA AloneInvInit == ASSUME Init, NEW u \in Users PROVE AloneInv(u)
<1>1. LivePositionsOf(u) = {}
  BY DEF Init, NoPosition, LivePositionsOf, LivePositions
<1>2. MarginIsLive(u)
  BY <1>1, SumEmpty DEF MarginIsLive, Init
<1>3. MarginRequests(u) = {}
  BY DEF Init, NoReq, MarginRequests, ReadingPcs, ClosePcs
<1>4. \A p \in Reqs : ~Liquidating(p)
  BY LedgerAssumption DEF Init, IdleUds, Liquidating
<1>. QED BY <1>2, <1>3, <1>4 DEF AloneInv

\* What a step that does not concern the user leaves alone.
RowsStay(u) ==
  /\ account'[u].marginUsed = account[u].marginUsed
  /\ LivePositionsOf(u)' = LivePositionsOf(u)
  /\ \A p \in LivePositionsOf(u) : pos'[p] = pos[p] /\ req'[p] = req[p]

LEMMA SumStays ==
  ASSUME TypeInv, NEW u \in Users, MarginIsLive(u), RowsStay(u)
  PROVE  MarginIsLive(u)'
<1> DEFINE S == LivePositionsOf(u)
           f == PositionMargins
           g == PositionMargins'
<1>1. IsFiniteSet(S)
  BY MarginTerms
<1>2. \A p \in S : f[p] = g[p]
  BY DEF RowsStay, LivePositionsOf, LivePositions, PositionMargins
<1>. HIDE DEF S, f, g
<1>3. SumFunctionOnSet(f, S) = SumFunctionOnSet(g, S)
  BY <1>1, <1>2, SumEqual
<1>. QED BY <1>3 DEF S, f, g, RowsStay, MarginIsLive

\* A position of a request's target belongs to the request's user.
LEMMA TargetsOf ==
  ASSUME TypeInv, TargetInv, BookInv, NEW u \in Users, NEW r \in MarginRequests(u), MarginCopies(r)
  PROVE  /\ req[r].pc \in ClosePcs => req[r].target \in LivePositionsOf(u)
         /\ req[r].pc = "c_commit" /\ req[r].target # r => req[r].target \in LivePositionsOf(u)
BY DEF MarginRequests, MarginCopies, TargetInv, BookInv, Computed, SameBook, LivePositionsOf

LEMMA CopiesStay ==
  ASSUME TypeInv, TargetInv, BookInv, NEW u \in Users, RowsStay(u),
         NEW r \in MarginRequests(u), MarginCopies(r), req'[r] = req[r],
         accLock[u] = r => accLock'[u] = r
  PROVE  MarginCopies(r)'
<1>1. req[r].user = u
  BY DEF MarginRequests
<1>2. \A p \in LivePositionsOf(u) : p \in LivePositions' /\ pos'[p].margin = pos[p].margin
  BY DEF RowsStay, LivePositionsOf
<1>. QED BY <1>1, <1>2, TargetsOf DEF MarginCopies, RowsStay

\* A step that leaves the liquidation handler's locks alone as well.
LEMMA ReleasesStay ==
  ASSUME TypeInv, NEW u \in Users, AloneInv(u), RowsStay(u), uds' = uds, [Next]_vars,
         \A p \in Reqs : posLock'[p] = Uds <=> posLock[p] = Uds,
         accLock'[u] = Uds <=> accLock[u] = Uds
  PROVE  /\ \A p \in Reqs : Liquidating(p)' <=> Liquidating(p)
         /\ \A p \in Reqs : Liquidating(p) => req'[p] = req[p]
         /\ \A p \in Reqs : (Liquidating(p) /\ req[p].user = u => Released(p))'
<1>1. \A p \in Reqs : Liquidating(p)' <=> Liquidating(p)
  BY DEF Liquidating
<1>2. \A p \in Reqs : Liquidating(p) => req'[p] = req[p]
  BY DoneStays DEF Liquidating, TypeInv, Control
<1>3. ASSUME NEW p \in Reqs, Liquidating(p)', req'[p].user = u PROVE Released(p)'
  <2>1. req[p].user = u /\ Released(p) /\ req'[p] = req[p]
    BY <1>1, <1>2, <1>3 DEF AloneInv
  <2>2. p \in LivePositionsOf(u)
    BY <2>1 DEF Released, LivePositionsOf
  <2>3. p \in LivePositions' /\ pos'[p] = pos[p]
    BY <2>2 DEF RowsStay, LivePositionsOf
  <2>. QED BY <2>1, <2>3 DEF Released, RowsStay, Pending
<1>. QED BY <1>1, <1>2, <1>3

LEMMA StepLocks ==
  ASSUME TypeInv, NEW r \in Reqs, Step(r), NEW u \in Users, accLock[u] \notin {None, r}
  PROVE  accLock'[u] = accLock[u]
<1>1. CASE CreateLock(r) \/ CloseLock(r)
  BY <1>1 DEF CreateLock, CloseLock, TypeInv, TypeOK
<1>2. CASE CreateCommit(r) \/ CloseCommit(r)
  BY <1>2 DEF CreateCommit, CloseCommit, Free
<1>3. CASE Unlocked(r)
  BY <1>3, UnlockedSteps
<1>. QED BY <1>1, <1>2, <1>3 DEF Step, CreateOrder, ClosePosition, Unlocked

LEMMA UncommittedKeepsRows ==
  ASSUME TypeInv, NEW r \in Reqs, Step(r), Unlocked(r) \/ CreateLock(r) \/ CloseLock(r)
  PROVE  pos' = pos /\ LivePositions' = LivePositions /\ \A u \in Users : RowsStay(u)
<1>1. pos' = pos
  BY UnlockedSteps DEF CreateLock, CloseLock, rows
<1>2. \A u \in Users : account'[u].marginUsed = account[u].marginUsed
  <2>1. CASE SyncCommit(r)
    BY <2>1 DEF SyncCommit, TypeInv, TypeOK
  <2>2. CASE ~SyncCommit(r)
    BY <2>2 DEF Unlocked, CreateBegin, CreateExposure, CreateRisk, CreatePlace, CreateFlush,
         CreateLock, CloseBegin, ClosePlace, CloseAccount, CloseLock, CancelOrder, CancelBegin,
         CancelPlace, CancelCommit, SyncBalance, SyncBegin, SyncWallet, rows
  <2>. QED BY <2>1, <2>2
<1>3. LivePositions' = LivePositions /\ \A p \in LivePositions : req'[p] = req[p]
  BY <1>1, DoneStays DEF LivePositions, TypeInv, Control, Booked, Next
<1>4. \A u : LivePositionsOf(u)' = LivePositionsOf(u)
  BY <1>3 DEF LivePositionsOf
<1>. QED BY <1>1, <1>2, <1>3, <1>4 DEF RowsStay, LivePositionsOf

\* A commit writes the rows of the request's own user.
LEMMA CommitKeepsRows ==
  ASSUME TypeInv, LockInv, BookInv, TargetInv, NEW r \in Reqs, NEW u \in Users,
         CreateCommit(r) \/ CloseCommit(r), r \notin MarginRequests(u)
  PROVE  RowsStay(u)
<1>. USE DEF BookInv
<1>0. [Next]_vars
  BY DEF Next, Step, CreateOrder, ClosePosition
<1> DEFINE t == req[r].target
           v == req[r].user
<1>1. req[r].pc \in {"c_commit", "x_commit"} /\ t \in Reqs /\ v \in Users \ {u}
  BY DEF CreateCommit, CloseCommit, MarginRequests, ClosePcs, TypeInv, Control, RecordOK,
         TargetPcs, UserPcs
<1>2. req[t].user = v
  BY <1>1 DEF CreateCommit, CloseCommit, Computed, TargetInv, SameBook, ClosePcs
<1>3. account'[u] = account[u] /\ \A p \in Reqs \ {t} : pos'[p] = pos[p]
  <2>1. CASE CreateCommit(r)
    BY <1>1, <2>1, Committing DEF CreateCommit, TypeInv, TypeOK
  <2>2. CASE CloseCommit(r)
    BY <1>1, <2>2 DEF CloseCommit, TypeInv, TypeOK
  <2>. QED BY <2>1, <2>2
<1>4. \A p \in Reqs : req'[p].user = req[p].user
  BY Committing, Answered DEF CloseCommit
<1>5. \A p \in LivePositions : req'[p] = req[p]
  BY <1>0, DoneStays DEF LivePositions, TypeInv, Control, Booked
<1>6. \A p \in Reqs : p \in LivePositionsOf(u)' <=> p \in LivePositionsOf(u)
  BY <1>1, <1>2, <1>3, <1>4 DEF LivePositionsOf, LivePositions
<1>7. LivePositionsOf(u)' = LivePositionsOf(u)
  BY <1>6 DEF LivePositionsOf, LivePositions
<1>. QED BY <1>1, <1>2, <1>3, <1>5, <1>7 DEF RowsStay, LivePositionsOf, LivePositions

\* The copies of the user's other requests and of the liquidation stand.
LEMMA OthersKeepAlone ==
  ASSUME TypeInv, LockInv, BookInv, TargetInv, NEW u \in Users, AloneInv(u), RowsStay(u),
         NEW r \in Reqs, Step(r), r \in MarginRequests(u)' => MarginCopies(r)'
  PROVE  AloneInv(u)'
<1>1. uds' = uds /\ \A q \in Reqs \ {r} : req'[q] = req[q]
  BY OthersStand
<1>2. MarginIsLive(u)'
  BY SumStays DEF AloneInv
<1>3. ASSUME NEW q \in MarginRequests(u)' PROVE MarginCopies(q)'
  <2>1. CASE q = r
    BY <1>3, <2>1
  <2>2. CASE q # r
    <3>1. q \in Reqs /\ req'[q] = req[q] /\ q \in MarginRequests(u)
      BY <1>1, <1>3, <2>2 DEF MarginRequests
    <3>2. accLock[u] = q => accLock'[u] = q
      BY <2>2, <3>1, StepLocks, LedgerAssumption
    <3>. QED BY <3>1, <3>2, CopiesStay DEF AloneInv
  <2>. QED BY <2>1, <2>2
<1>4. /\ \A p \in Reqs : posLock'[p] = Uds <=> posLock[p] = Uds
      /\ accLock'[u] = Uds <=> accLock[u] = Uds
  BY RequestLocks, StepLocks, LedgerAssumption
<1>. QED BY <1>1, <1>2, <1>3, <1>4, ReleasesStay DEF AloneInv, Next

\* A step of a request that is alone in having read the user's margin_used.
LEMMA UncommittedKeepsCopy ==
  ASSUME TypeInv, TargetInv, NEW u \in Users, AloneInv(u), NEW r \in Reqs, Step(r),
         Unlocked(r) \/ CreateLock(r) \/ CloseLock(r), r \in MarginRequests(u)'
  PROVE  MarginCopies(r)'
<1>1. pos' = pos /\ LivePositions' = LivePositions
  BY UncommittedKeepsRows
<1>2. \A v \in Users : account'[v].marginUsed = account[v].marginUsed
  BY UncommittedKeepsRows DEF RowsStay
<1>3. req'[r].user = u
  BY DEF MarginRequests
<1>. USE DEF MarginCopies, ReadingPcs, ClosePcs
<1>4. CASE CreateBegin(r)
  BY <1>2, <1>4, CreateRecords
<1>5. CASE CreateExposure(r) \/ CreateRisk(r) \/ CreatePlace(r) \/ CreateFlush(r)
  <2>1. req[r].pc \in ReadingPcs
    BY <1>5 DEF CreateExposure, CreateRisk, CreatePlace, CreateFlush
  <2>2. \/ req'[r].pc \in {"failed", "rejected"}
        \/ /\ req'[r].pc \in ReadingPcs /\ req'[r].user = req[r].user
           /\ req'[r].mu = req[r].mu
    <3>1. CASE CreateExposure(r)
      BY <3>1, CreateRecords DEF SameOrder
    <3>2. CASE CreateRisk(r)
      BY <3>2, CreateRecords
    <3>3. CASE CreatePlace(r)
      BY <3>3, CreateRecords DEF SameOrder
    <3>4. CASE CreateFlush(r)
      BY <3>4, CreateRecords DEF SameOrder
    <3>. QED BY <1>5, <3>1, <3>2, <3>3, <3>4
  <2>3. CASE req'[r].pc \in {"failed", "rejected"}
    BY <2>3
  <2>4. CASE req'[r].pc \notin {"failed", "rejected"}
    <3>1. req[r].user = u /\ r \in MarginRequests(u)
      BY <1>3, <2>1, <2>2, <2>4 DEF MarginRequests
    <3>2. req[r].mu = account[u].marginUsed
      BY <2>1, <3>1 DEF AloneInv
    <3>. QED BY <1>2, <1>3, <2>2, <2>4, <3>1, <3>2
  <2>. QED BY <2>3, <2>4
<1>6. CASE CreateLock(r)
  <2>1. req[r].pc = "c_lock" /\ SelectPosition(r)
    BY <1>6 DEF CreateLock
  <2>2. /\ req'[r].pc = "c_commit" /\ req'[r].user = req[r].user
        /\ req'[r].margin = req[r].margin /\ req'[r].mu = req[r].mu + req[r].margin
        /\ req'[r].target # r => req'[r].target \in LivePositions
    BY <2>1, Selecting DEF LiveOf
  <2>3. req[r].mu = account[u].marginUsed
    BY <1>3, <2>1, <2>2 DEF AloneInv, MarginRequests
  <2>. QED BY <1>1, <1>2, <1>3, <2>2, <2>3
<1>7. CASE CloseBegin(r)
  <2>1. CASE req'[r].pc = "rejected"
    BY <2>1
  <2>2. CASE req'[r].pc # "rejected"
    <3>1. /\ req'[r].pc = "x_place" /\ req'[r].margin = pos[req'[r].target].margin
          /\ LiveOf(req'[r].user, req'[r].symbol) = {req'[r].target}
      BY <1>7, <2>2, CloseRecords
    <3>2. req'[r].target \in LivePositions
      BY <3>1 DEF LiveOf
    <3>. QED BY <1>1, <3>1, <3>2
  <2>. QED BY <2>1, <2>2
<1>8. CASE ClosePlace(r) \/ CloseAccount(r) \/ CloseLock(r)
  <2>0. \/ req'[r].pc = "failed"
        \/ SameClose(r)
    BY <1>8, CloseRecords
  <2>1. CASE req'[r].pc = "failed"
    BY <2>1
  <2>2. CASE req'[r].pc # "failed"
    <3>1. /\ req[r].pc \in ClosePcs /\ req[r].user = u /\ r \in MarginRequests(u)
      BY <1>3, <1>8, <2>0, <2>2 DEF ClosePlace, CloseAccount, CloseLock, MarginRequests, SameClose
    <3>2. req[r].target \in LivePositions /\ req[r].margin = pos[req[r].target].margin
      BY <3>1 DEF AloneInv
    <3>3. CASE ClosePlace(r)
      BY <1>1, <2>2, <3>2, <3>3, CloseRecords DEF SameClose
    <3>4. CASE CloseLock(r)
      <4>1. /\ req[r].pc = "x_lock" /\ accLock'[u] = r
            /\ req[r].mu = account[u].marginUsed - req[r].margin
        BY <3>1, <3>4 DEF CloseLock, AloneInv, TypeInv, TypeOK
      <4>. QED BY <1>1, <1>2, <1>3, <3>1, <3>2, <3>4, <4>1, CloseRecords DEF SameClose
    <3>5. CASE CloseAccount(r)
      <4> DEFINE t == req[r].target
      <4>1. t \in LivePositionsOf(u)
        BY <3>1, <3>2 DEF LivePositionsOf, TargetInv, SameBook
      <4>2. pos[t].margin <= account[u].marginUsed /\ pos[t].margin \in Nat
            /\ account[u].marginUsed \in Nat
        BY <4>1, MarginIsCommitted, MarginTerms
           DEF AloneInv, TypeInv, TypeOK, LivePositionsOf, LivePositions
      <4>3. ReleasedMargin(account[u].marginUsed, req[r].margin)
              = account[u].marginUsed - req[r].margin
        BY <3>2, <4>2 DEF ReleasedMargin, MaxOf
      <4>. QED BY <1>1, <1>2, <1>3, <3>1, <3>2, <3>5, <4>3, CloseRecords DEF SameClose
    <3>. QED BY <1>8, <3>3, <3>4, <3>5
  <2>. QED BY <2>1, <2>2
<1>9. CASE CancelOrder(r) \/ SyncBalance(r)
  BY <1>9, Moves DEF CancelOrder, SyncBalance
<1>. QED BY <1>4, <1>5, <1>6, <1>7, <1>8, <1>9 DEF Unlocked

\* An order is committed: the position that it opens or adds to and margin_used grow
\* by the same margin.
LEMMA CreateCommitKeepsSum ==
  ASSUME TypeInv, LockInv, BookInv, NEW u \in Users, AloneInv(u),
         NEW r \in MarginRequests(u), CreateCommit(r)
  PROVE  MarginIsLive(u)'
<1>. USE DEF BookInv
<1>0. r \in Reqs /\ req[r].user = u
  BY DEF MarginRequests
<1>1. PICK t \in Reqs : t = req[r].target
  BY <1>0, Committing
<1>2. /\ req[r].pc = "c_commit" /\ Computed(r) /\ ~Booked(r)
      /\ pos'[t].state = IF t = r THEN "live" ELSE pos[t].state
      /\ pos'[t].margin = req[r].newMargin
      /\ \A p \in Reqs \ {t} : pos'[p] = pos[p]
      /\ \A p \in Reqs : req'[p].user = req[p].user
  BY <1>0, <1>1, Committing
<1>3. req[r].mu = account[u].marginUsed + req[r].margin /\ (t # r => t \in LivePositions)
  BY <1>0, <1>1, <1>2 DEF AloneInv, MarginCopies
<1>4. account'[u].marginUsed = req[r].mu
  BY <1>0 DEF CreateCommit, TypeInv, TypeOK
<1>5. LivePositions' = LivePositions \cup {t} /\ req[t].user = u
  BY <1>0, <1>1, <1>2, <1>3 DEF LivePositions, Computed, SameBook
<1> DEFINE S == LivePositionsOf(u)
           f == PositionMargins
           g == PositionMargins'
<1>6. LivePositionsOf(u)' = S \cup {t}
  BY <1>2, <1>5 DEF LivePositionsOf, LivePositions
<1>7. t \in S <=> t # r
  BY <1>2, <1>3, <1>5 DEF LivePositionsOf, LivePositions, Booked
<1>8. /\ IsFiniteSet(S) /\ S \subseteq Reqs /\ account[u].marginUsed = SumFunctionOnSet(f, S)
      /\ \A p \in Reqs : f[p] = pos[p].margin /\ pos[p].margin \in Nat
      /\ SumFunctionOnSet(f, S) \in Nat
  BY MarginTerms DEF AloneInv, MarginIsLive
<1>9. (\A p \in Reqs \ {t} : g[p] = f[p]) /\ g[t] = req[r].newMargin
  BY <1>2 DEF PositionMargins
<1>10. req[r].newMargin \in Nat /\ req[r].margin \in Nat
  BY <1>0 DEF TypeInv, TypeOK, RequestRecord
<1>. HIDE DEF S, f, g
<1>11. \A p \in S \cup {t} : g[p] \in Int
  BY <1>8, <1>9, <1>10
<1>12. CASE t = r
  <2>1. t \notin S /\ \A p \in S : g[p] = f[p]
    BY <1>7, <1>8, <1>9, <1>12
  <2>2. SumFunctionOnSet(g, S \cup {t}) = g[t] + SumFunctionOnSet(g, S)
    BY <1>8, <1>11, <2>1, SumAdd
  <2>3. SumFunctionOnSet(g, S) = SumFunctionOnSet(f, S)
    BY <1>8, <2>1, SumEqual
  <2>4. g[t] = req[r].margin
    BY <1>1, <1>2, <1>9, <1>12 DEF Computed
  <2>. QED BY <1>3, <1>4, <1>6, <1>8, <1>10, <2>2, <2>3, <2>4 DEF MarginIsLive, g
<1>13. CASE t # r
  <2>1. t \in S /\ S \cup {t} = S /\ \A p \in S \ {t} : g[p] = f[p]
    BY <1>7, <1>8, <1>9, <1>13
  <2>2. \A p \in S : f[p] \in Int /\ g[p] \in Int
    BY <1>8, <1>11
  <2>3. SumFunctionOnSet(g, S) = SumFunctionOnSet(f, S) - f[t] + g[t]
    <3>1. IsFiniteSet(S) /\ t \in S /\ \A p \in S \ {t} : g[p] = f[p]
      BY <1>8, <2>1
    <3>. QED BY <2>2, <3>1, SumChange
  <2>4. g[t] = f[t] + req[r].margin /\ f[t] \in Nat
    BY <1>1, <1>2, <1>8, <1>9, <1>13 DEF Computed
  <2>5. SumFunctionOnSet(g, S) = SumFunctionOnSet(f, S) + req[r].margin
    BY <1>8, <1>10, <2>3, <2>4
  <2>. QED BY <1>3, <1>4, <1>6, <1>8, <2>1, <2>5 DEF MarginIsLive, g
<1>. QED BY <1>12, <1>13

\* A position of the user is closed and margin_used loses its margin.
LEMMA ClosingKeepsSum ==
  ASSUME TypeInv, NEW u \in Users, MarginIsLive(u), NEW p \in LivePositionsOf(u),
         LivePositionsOf(u)' = LivePositionsOf(u) \ {p},
         \A q \in Reqs : pos'[q].margin = pos[q].margin,
         account'[u].marginUsed = account[u].marginUsed - pos[p].margin
  PROVE  MarginIsLive(u)'
<1>1. PositionMargins' = PositionMargins
  BY DEF PositionMargins
<1>2. account[u].marginUsed = pos[p].margin
        + SumFunctionOnSet(PositionMargins, LivePositionsOf(u) \ {p})
  BY MarginIsCommitted
<1>3. /\ IsFiniteSet(LivePositionsOf(u)) /\ LivePositionsOf(u) \subseteq Reqs
      /\ \A q \in Reqs : PositionMargins[q] = pos[q].margin /\ pos[q].margin \in Nat
  BY MarginTerms
<1>4. IsFiniteSet(LivePositionsOf(u) \ {p})
  BY <1>3, FS_Subset
<1>5. SumFunctionOnSet(PositionMargins, LivePositionsOf(u) \ {p}) \in Nat
  BY <1>3, <1>4, SumNat
<1>6. pos[p].margin \in Nat
  BY <1>3
<1>7. account'[u].marginUsed = SumFunctionOnSet(PositionMargins, LivePositionsOf(u) \ {p})
  BY <1>2, <1>5, <1>6
<1>. QED BY <1>1, <1>7 DEF MarginIsLive

LEMMA CloseCommitKeepsSum ==
  ASSUME TypeInv, TargetInv, NEW u \in Users, AloneInv(u),
         NEW r \in MarginRequests(u), CloseCommit(r)
  PROVE  MarginIsLive(u)'
<1>0. r \in Reqs /\ req[r].user = u
  BY DEF MarginRequests
<1>1. PICK t \in Reqs : t = req[r].target
  BY <1>0 DEF CloseCommit, TypeInv, Control, RecordOK, TargetPcs, ClosePcs
<1>2. /\ req[r].pc = "x_commit" /\ pos' = [pos EXCEPT ![t].state = "liquidated"]
      /\ account'[u].marginUsed = IF accLock[u] = r THEN req[r].mu ELSE account[u].marginUsed
      /\ \A p \in Reqs : req'[p].user = req[p].user
  BY <1>0, <1>1, Answered DEF CloseCommit, TypeInv, TypeOK
<1>3. /\ t \in LivePositions /\ req[r].margin = pos[t].margin
      /\ req[r].mu = account[u].marginUsed - req[r].margin
      /\ accLock[u] # r => req[r].mu = account[u].marginUsed
      /\ req[t].user = u
  BY <1>0, <1>1, <1>2 DEF AloneInv, MarginCopies, ClosePcs, TargetInv, SameBook
<1>4. \A p \in Reqs : /\ pos'[p].margin = pos[p].margin
                      /\ pos'[p].state = IF p = t THEN "liquidated" ELSE pos[p].state
  BY <1>2 DEF TypeInv, TypeOK, PositionRow
<1>5. LivePositionsOf(u)' = LivePositionsOf(u) \ {t} /\ t \in LivePositionsOf(u)
  BY <1>2, <1>3, <1>4 DEF LivePositionsOf, LivePositions
<1>6. account'[u].marginUsed = account[u].marginUsed - pos[t].margin
  BY <1>2, <1>3
<1>. QED BY <1>4, <1>5, <1>6, ClosingKeepsSum DEF AloneInv

LEMMA CommitKeepsAlone ==
  ASSUME TypeInv, LockInv, BookInv, TargetInv, NEW u \in Users, AloneInv(u), UserAlone(u),
         NEW r \in MarginRequests(u), CreateCommit(r) \/ CloseCommit(r)
  PROVE  AloneInv(u)'
<1>1. r \in Reqs /\ Step(r) /\ [Next]_vars
  BY DEF MarginRequests, Step, CreateOrder, ClosePosition, Next
<1>2. MarginIsLive(u)'
  BY CreateCommitKeepsSum, CloseCommitKeepsSum
<1>3. req'[r].pc = "done" /\ \A q \in Reqs \ {r} : req'[q] = req[q]
  BY <1>1, Answered DEF CreateCommit, CloseCommit
<1>4. MarginRequests(u)' = {}
  BY <1>3 DEF UserAlone, MarginRequests, ReadingPcs, ClosePcs
<1>5. \A p \in Reqs : Liquidating(p)' <=> Liquidating(p)
  BY <1>1, RequestLocks DEF Liquidating
<1>6. \A p \in Reqs : Liquidating(p) => req'[p] = req[p]
  BY <1>1, DoneStays DEF Liquidating, TypeInv, Control
<1>7. \A p \in Reqs : ~(Liquidating(p) /\ req[p].user = u)
  BY DEF UserAlone, BeingLiquidated
<1>8. \A p \in Reqs : ~(Liquidating(p)' /\ req'[p].user = u)
  BY <1>5, <1>6, <1>7
<1>. QED BY <1>2, <1>4, <1>8 DEF AloneInv

LEMMA RequestKeepsAlone ==
  ASSUME TypeInv, LockInv, BookInv, TargetInv, NEW u \in Users, AloneInv(u), UserAlone(u),
         NEW r \in Reqs, Step(r)
  PROVE  AloneInv(u)'
<1>1. CASE Unlocked(r) \/ CreateLock(r) \/ CloseLock(r)
  BY <1>1, UncommittedKeepsRows, UncommittedKeepsCopy, OthersKeepAlone
<1>2. CASE CreateCommit(r) \/ CloseCommit(r)
  <2>1. CASE r \in MarginRequests(u)
    BY <1>2, <2>1, CommitKeepsAlone
  <2>2. CASE r \notin MarginRequests(u)
    <3>1. req'[r].pc = "done"
      BY <1>2, Answered DEF CreateCommit, CloseCommit
    <3>2. r \notin MarginRequests(u)'
      BY <3>1 DEF MarginRequests, ReadingPcs, ClosePcs
    <3>. QED BY <1>2, <2>2, <3>2, CommitKeepsRows, OthersKeepAlone
  <2>. QED BY <2>1, <2>2
<1>. QED BY <1>1, <1>2 DEF Step, CreateOrder, ClosePosition, Unlocked

LEMMA UdsBeginKeepsAlone ==
  ASSUME TypeInv, TargetInv, WaitInv, NEW u \in Users, AloneInv(u),
         NEW s \in Symbols, UdsBegin(s)
  PROVE  AloneInv(u)'
<1>1. /\ ~uds.busy /\ req' = req /\ pos' = pos /\ account' = account
      /\ posLock' = posLock /\ accLock' = accLock
  BY DEF UdsBegin, rows, locks
<1> DEFINE live == {p \in LivePositions : req[p].symbol = s}
           margins == [p \in Reqs |-> IF p \in live THEN pos[p].margin ELSE 0]
<1>2. uds'.todo = live /\ uds'.seen = margins
  BY DEF UdsBegin, IdleUds
<1>3. \A p \in live : p \in LivePositions /\ p \in Reqs /\ margins[p] = pos[p].margin
  BY DEF LivePositions
<1>. HIDE DEF live, margins
<1>4. \A p \in Reqs : posLock[p] # Uds
  BY <1>1 DEF TargetInv, Liquidating
<1>5. LivePositions' = LivePositions /\ MarginIsLive(u)'
  BY <1>1 DEF AloneInv, MarginIsLive, LivePositionsOf, LivePositions, PositionMargins
<1>6. \A r \in MarginRequests(u)' : MarginCopies(r)'
  BY <1>1, <1>5 DEF AloneInv, MarginRequests, MarginCopies
<1>7. \A p \in Reqs : Liquidating(p)' => Released(p)'
  BY <1>1, <1>2, <1>3, <1>4, <1>5 DEF Liquidating, Released
<1>. QED BY <1>5, <1>6, <1>7 DEF AloneInv

LEMMA UdsPositionKeepsAlone ==
  ASSUME TypeInv, WaitInv, NEW u \in Users, AloneInv(u), NEW p \in Reqs, UdsPosition(p)
  PROVE  AloneInv(u)'
<1>1. /\ uds.busy /\ p \in uds.todo /\ req' = req /\ pos' = pos /\ account' = account
      /\ posLock[p] = None /\ req[p].user \in Users
  BY DEF UdsPosition, rows, TypeInv, Control
<1> DEFINE v == req[p].user
           new == ReleasedMargin(account[v].marginUsed, uds.seen[p])
<1>2. uds' = [uds EXCEPT !.todo = @ \ {p}, !.mu[v] = new,
                         !.pending = IF new # account[v].marginUsed THEN v ELSE None]
  BY DEF UdsPosition
<1>. HIDE DEF v, new
<1>3. /\ uds'.todo = uds.todo \ {p} /\ uds'.seen = uds.seen
      /\ uds'.pending = (IF new # account[v].marginUsed THEN v ELSE None)
      /\ uds'.mu[v] = new /\ \A w \in Users \ {v} : uds'.mu[w] = uds.mu[w]
  BY <1>1, <1>2 DEF v, TypeInv, TypeOK, UdsRecord
<1>4. /\ posLock'[p] = Uds /\ \A q \in Reqs \ {p} : posLock'[q] = posLock[q]
      /\ \A w \in Users : accLock'[w] = IF w = uds.pending THEN Uds ELSE accLock[w]
  BY DEF UdsPosition, UdsFlushed, TypeInv, TypeOK
<1>5. LivePositions' = LivePositions /\ MarginIsLive(u)'
  BY <1>1 DEF AloneInv, MarginIsLive, LivePositionsOf, LivePositions, PositionMargins
<1>6. accLock[u] \in Reqs => accLock'[u] = accLock[u]
  BY <1>4, LedgerAssumption DEF UdsPosition, UdsFlushed
<1>7. \A r \in MarginRequests(u)' : MarginCopies(r)'
  BY <1>1, <1>5, <1>6 DEF AloneInv, MarginRequests, MarginCopies
<1>8. \A w \in Users : Pending(w) => accLock'[w] = Uds
  BY <1>4 DEF Pending
<1>9. ASSUME NEW q \in Reqs, Liquidating(q)', req[q].user = u PROVE Released(q)'
  <2>1. Liquidating(q) /\ Released(q)
    BY <1>1, <1>3, <1>4, <1>9 DEF Liquidating, AloneInv
  <2>2. q \in LivePositions' /\ uds'.seen[q] = pos'[q].margin
    BY <1>1, <1>3, <1>5, <2>1 DEF Released
  <2>3. CASE q = p
    <3>1. v = u /\ p \in LivePositionsOf(u) /\ uds.seen[p] = pos[p].margin
      BY <1>9, <2>1, <2>3 DEF v, Released, LivePositionsOf
    <3>2. /\ pos[p].margin <= account[u].marginUsed /\ pos[p].margin \in Nat
          /\ account[u].marginUsed \in Nat
      BY <3>1, MarginIsCommitted, MarginTerms DEF AloneInv, TypeInv, TypeOK
    <3>3. new = account[u].marginUsed - pos[p].margin
      BY <3>1, <3>2 DEF new, ReleasedMargin, MaxOf
    <3>4. uds'.mu[u] = new /\ (new # account[u].marginUsed => uds'.pending = u)
      BY <1>3, <3>1
    <3>. QED BY <1>1, <1>9, <2>2, <2>3, <3>3, <3>4 DEF Released, Pending
  <2>4. CASE q # p
    <3>1. v # u
      BY <1>1, <1>9, <2>1, <2>4 DEF v, WaitInv, Liquidating
    <3>2. uds'.mu[u] = uds.mu[u] /\ posLock'[q] = posLock[q]
      BY <1>3, <1>4, <2>4, <3>1
    <3>. QED BY <1>1, <1>8, <1>9, <2>1, <2>2, <3>2 DEF Released, Pending
  <2>. QED BY <2>3, <2>4
<1>. QED BY <1>1, <1>5, <1>7, <1>9 DEF AloneInv

\* The liquidation handler's transaction is over.
LEMMA ReleasesEnd ==
  ASSUME Free(Uds), uds' = [IdleUds EXCEPT !.began = uds.began]
  PROVE  \A p \in Reqs : ~Liquidating(p)'
BY LedgerAssumption DEF Free, IdleUds, Liquidating

LEMMA UdsCommitKeepsAlone ==
  ASSUME TypeInv, TargetInv, BookInv, WaitInv, NEW u \in Users, AloneInv(u), UserAlone(u),
         UdsCommit
  PROVE  AloneInv(u)'
<1>1. uds.todo = {} /\ req' = req /\ \A p \in Reqs : ~Liquidating(p)'
  BY ReleasesEnd DEF UdsCommit
<1>2. \A p \in Reqs : Liquidating(p) <=> posLock[p] = Uds
  BY <1>1 DEF Liquidating
<1>3. \A p \in Reqs : pos'[p] = IF posLock[p] = Uds THEN [pos[p] EXCEPT !.state = "liquidated"]
                                                    ELSE pos[p]
  BY DEF UdsCommit
<1>4. account'[u].marginUsed = IF Pending(u) THEN uds.mu[u] ELSE account[u].marginUsed
  BY DEF UdsCommit, Pending, TypeInv, TypeOK
<1>5. CASE ~BeingLiquidated(u)
  <2>1. \A p \in Reqs : req[p].user = u => posLock[p] # Uds
    BY <1>2, <1>5 DEF BeingLiquidated
  <2>2. ~Pending(u)
    BY <2>1, LedgerAssumption DEF Pending, WaitInv, LockedOf
  <2>3. \A p \in Reqs : req[p].user = u => pos'[p] = pos[p]
    BY <1>3, <2>1
  <2>4. RowsStay(u)
    BY <1>1, <1>4, <2>2, <2>3 DEF RowsStay, LivePositionsOf, LivePositions
  <2>5. \A r \in MarginRequests(u)' : r \in MarginRequests(u) /\ req'[r] = req[r]
    BY <1>1 DEF MarginRequests
  <2>6. accLock[u] \in Reqs => accLock'[u] = accLock[u]
    BY LedgerAssumption DEF UdsCommit, Free
  <2>7. \A r \in MarginRequests(u) : accLock[u] = r => accLock'[u] = r
    BY <2>6 DEF MarginRequests
  <2>8. \A r \in MarginRequests(u)' : MarginCopies(r)'
    BY <2>4, <2>5, <2>7, CopiesStay DEF AloneInv
  <2>. QED BY <1>1, <2>4, <2>8, SumStays DEF AloneInv
<1>6. CASE BeingLiquidated(u)
  <2>1. PICK p \in Reqs : Liquidating(p) /\ req[p].user = u
    BY <1>6 DEF BeingLiquidated
  <2>2. posLock[p] = Uds /\ \A q \in Reqs : posLock[q] = Uds /\ req[q].user = u => q = p
    BY <1>2, <2>1 DEF WaitInv
  <2>3. /\ p \in LivePositionsOf(u)
        /\ uds.mu[u] = account[u].marginUsed - pos[p].margin
        /\ Pending(u) \/ uds.mu[u] = account[u].marginUsed
    BY <2>1, <2>2 DEF AloneInv, Released, LivePositionsOf
  <2>4. account'[u].marginUsed = account[u].marginUsed - pos[p].margin
    BY <1>4, <2>3
  <2>5. \A q \in Reqs : /\ pos'[q].margin = pos[q].margin
                        /\ pos'[q].state = IF posLock[q] = Uds THEN "liquidated" ELSE pos[q].state
    BY <1>3 DEF TypeInv, TypeOK, PositionRow
  <2>6. LivePositionsOf(u)' = LivePositionsOf(u) \ {p}
    BY <1>1, <2>2, <2>5 DEF LivePositionsOf, LivePositions
  <2>7. MarginIsLive(u)'
    BY <2>3, <2>4, <2>5, <2>6, ClosingKeepsSum DEF AloneInv
  <2>8. MarginRequests(u)' = {}
    BY <1>1, <1>6 DEF UserAlone, MarginRequests
  <2>. QED BY <1>1, <2>7, <2>8 DEF AloneInv
<1>. QED BY <1>5, <1>6

\* A transaction ends without a commit: no row changes, and whoever goes on keeps
\* the locks.
LEMMA RollbackKeepsAlone ==
  ASSUME TypeInv, TargetInv, BookInv, NEW u \in Users, AloneInv(u), [Next]_vars,
         pos' = pos, account' = account,
         \A r \in MarginRequests(u)' : /\ r \in MarginRequests(u) /\ req'[r] = req[r]
                                       /\ accLock[u] = r => accLock'[u] = r,
         \A p \in Reqs : (Liquidating(p) /\ req[p].user = u => Released(p))'
  PROVE  AloneInv(u)'
<1>1. \A p \in LivePositions : req'[p] = req[p]
  BY DoneStays DEF LivePositions, TypeInv, Control, Booked
<1>2. RowsStay(u)
  BY <1>1 DEF RowsStay, LivePositionsOf, LivePositions
<1>3. \A r \in MarginRequests(u)' : MarginCopies(r)'
  BY <1>2, CopiesStay DEF AloneInv
<1>. QED BY <1>2, <1>3, SumStays DEF AloneInv

LEMMA DeadlockKeepsAlone ==
  ASSUME TypeInv, TargetInv, BookInv, NEW u \in Users, AloneInv(u), DetectDeadlock
  PROVE  AloneInv(u)'
<1>1. [Next]_vars /\ pos' = pos /\ account' = account
  BY DEF Next, DetectDeadlock, rows
<1>2. ASSUME NEW r \in Reqs, Abort(r), uds' = uds PROVE AloneInv(u)'
  <2>1. req'[r].pc = "failed" /\ \A q \in Reqs \ {r} : req'[q] = req[q]
    BY <1>2, Dropped DEF Abort
  <2>2. \A q \in MarginRequests(u)' : q \in MarginRequests(u) /\ q # r /\ req'[q] = req[q]
    BY <2>1 DEF MarginRequests, ReadingPcs, ClosePcs
  <2>3. /\ accLock[u] # r => accLock'[u] = accLock[u]
        /\ accLock'[u] = Uds <=> accLock[u] = Uds
        /\ \A p \in Reqs : posLock'[p] = Uds <=> posLock[p] = Uds
    BY <1>2, LedgerAssumption DEF Abort, Free
  <2>4. RowsStay(u)
    <3>1. \A p \in LivePositions : req'[p] = req[p]
      BY <1>1, DoneStays DEF LivePositions, TypeInv, Control, Booked
    <3>. QED BY <1>1, <3>1 DEF RowsStay, LivePositionsOf, LivePositions
  <2>5. \A p \in Reqs : (Liquidating(p) /\ req[p].user = u => Released(p))'
    BY <1>1, <1>2, <2>3, <2>4, ReleasesStay
  <2>. QED BY <1>1, <2>2, <2>3, <2>5, RollbackKeepsAlone
<1>3. ASSUME UdsAbort, req' = req PROVE AloneInv(u)'
  <2>1. \A p \in Reqs : ~Liquidating(p)'
    BY <1>3, ReleasesEnd DEF UdsAbort
  <2>2. accLock[u] \in Reqs => accLock'[u] = accLock[u]
    BY <1>3, LedgerAssumption DEF UdsAbort, Free
  <2>. QED BY <1>1, <1>3, <2>1, <2>2, RollbackKeepsAlone DEF MarginRequests
<1>. QED BY <1>2, <1>3 DEF DetectDeadlock

LEMMA EnvironmentKeepsAlone ==
  ASSUME TypeInv, TargetInv, BookInv, NEW u \in Users, AloneInv(u),
         Crash \/ Quiet \/ UNCHANGED vars \/ \E o \in Reqs : ExchangeFill(o) \/ KeyExpire(o)
  PROVE  AloneInv(u)'
<1>1. [Next]_vars /\ pos' = pos /\ account' = account
  BY DEF Next, Crash, Quiet, vars, rows, ExchangeFill, KeyExpire
<1>2. CASE Crash
  <2> DEFINE rec == [NoReq EXCEPT !.pc = "failed"]
  <2>1. rec.pc = "failed"
    BY DEF NoReq
  <2>2. \A r \in Reqs : req'[r] = IF r \in InFlight THEN rec ELSE req[r]
    BY <1>2 DEF Crash
  <2>. HIDE DEF rec
  <2>3. MarginRequests(u)' = {}
    BY <2>1, <2>2 DEF MarginRequests, ReadingPcs, ClosePcs, InFlight, Final
  <2>4. \A p \in Reqs : ~Liquidating(p)'
    BY <1>2, LedgerAssumption DEF Crash, IdleUds, Liquidating
  <2>. QED BY <1>1, <2>3, <2>4, RollbackKeepsAlone
<1>3. CASE ~Crash
  <2>1. req' = req /\ uds' = uds /\ accLock' = accLock /\ posLock' = posLock
    BY <1>3 DEF Quiet, vars, locks, ExchangeFill, KeyExpire
  <2>2. \A p \in Reqs : (Liquidating(p) /\ req[p].user = u => Released(p))'
    BY <1>1, <2>1 DEF AloneInv, Liquidating, Released, Pending, LivePositions
  <2>. QED BY <1>1, <2>1, <2>2, RollbackKeepsAlone DEF MarginRequests
<1>. QED BY <1>2, <1>3

LEMMA AloneInvStep ==
  ASSUME TypeInv, LockInv, BookInv, TargetInv, WaitInv, NEW u \in Users,
         AloneInv(u), UserAlone(u), [Next]_vars
  PROVE  AloneInv(u)'
<1>1. CASE Liquidate
  BY <1>1, UdsBeginKeepsAlone, UdsPositionKeepsAlone, UdsCommitKeepsAlone DEF Liquidate
<1>2. CASE \E r \in Reqs : Step(r)
  BY <1>2, RequestKeepsAlone
<1>. QED BY <1>1, <1>2, DeadlockKeepsAlone, EnvironmentKeepsAlone DEF Next

SharedInv == TypeInv /\ LockInv /\ BookInv /\ TargetInv /\ WaitInv

LEMMA SharedInit == Init => SharedInv
BY TypeInit, LocksInit, BooksInit, TargetInit, WaitInit DEF SharedInv

LEMMA SharedStep == SharedInv /\ [Next]_vars => SharedInv'
BY TypeStep, LocksStep, BooksStep, TargetStep, WaitStep DEF SharedInv

\* As long as the handlers that work on a user's margin do not overlap, margin_used
\* is the sum of the margins of the user's live positions at every moment, whatever
\* the handlers of other users do meanwhile, and whoever loses a deadlock, fails or
\* dies in a crash: what one handler adds another releases.
THEOREM MarginIsLiveWhileUserAlone ==
  ASSUME NEW u \in Users
  PROVE  Spec /\ []UserAlone(u) => []MarginIsLive(u)
<1>1. Init => SharedInv /\ AloneInv(u)
  BY SharedInit, AloneInvInit
<1>2. SharedInv /\ AloneInv(u) /\ UserAlone(u) /\ [Next]_vars => SharedInv' /\ AloneInv(u)'
  BY SharedStep, AloneInvStep DEF SharedInv
<1>3. AloneInv(u) => MarginIsLive(u)
  BY DEF AloneInv
<1>. QED BY <1>1, <1>2, <1>3, PTL DEF Spec

\* The same for all users together: the accounts are right between two requests
\* wherever no two handlers of one user overlapped, however many ran at a time.
THEOREM MarginsAreLiveWhileUsersAlone ==
  Spec /\ [](\A u \in Users : UserAlone(u)) => []MarginUsedIsLiveMargin
<1> DEFINE UsersAlone == \A u \in Users : UserAlone(u)
           Margins == \A u \in Users : AloneInv(u)
<1>1. Init => SharedInv /\ Margins
  BY SharedInit, AloneInvInit
<1>2. SharedInv /\ Margins /\ UsersAlone /\ [Next]_vars => SharedInv' /\ Margins'
  BY SharedStep, AloneInvStep DEF SharedInv
<1>3. Margins => MarginUsedIsLiveMargin
  BY DEF AloneInv, MarginIsLive, MarginUsedIsLiveMargin
<1>. HIDE DEF Margins
<1>. QED BY <1>1, <1>2, <1>3, PTL DEF Spec
-----------------------------------------------------------------------------
(***************************************************************************)
(* One handler at a time.  With MaxInFlight = 1 a request or an event is   *)
(* taken only when nothing else is under way: every user is alone, and the *)
(* order in which the code reads, decides and writes stands by itself.     *)
(***************************************************************************)
Alone == (\A r, q \in InFlight : r = q) /\ (uds.busy => InFlight = {})

LEMMA AdmittedAlone ==
  ASSUME MaxInFlight = 1, Admit
  PROVE  InFlight = {} /\ ~uds.busy
<1>1. IsFiniteSet(InFlight)
  BY LedgerAssumption, FS_Subset DEF InFlight
<1>2. Cardinality(InFlight) \in Nat /\ (Cardinality(InFlight) = 0 => InFlight = {})
  BY <1>1, FS_CardinalityType, FS_EmptySet
<1>3. CASE uds.busy
  BY <1>2, <1>3 DEF Admit
<1>4. CASE ~uds.busy
  BY <1>2, <1>4 DEF Admit
<1>. QED BY <1>3, <1>4

LEMMA StepsAlone ==
  ASSUME MaxInFlight = 1, Alone, NEW r \in Reqs, Step(r)
  PROVE  ~uds.busy /\ InFlight \subseteq {r}
<1>1. CASE CreateBegin(r) \/ CloseBegin(r) \/ CancelBegin(r) \/ SyncBegin(r)
  BY <1>1, AdmittedAlone DEF CreateBegin, CloseBegin, CancelBegin, SyncBegin
<1>2. CASE ~(CreateBegin(r) \/ CloseBegin(r) \/ CancelBegin(r) \/ SyncBegin(r))
  <2>1. r \in InFlight
    BY <1>2 DEF Step, CreateOrder, CreateExposure, CreateRisk, CreatePlace,
                CreateFlush, CreateLock, CreateCommit, ClosePosition, ClosePlace,
                CloseAccount, CloseLock, CloseCommit, CancelOrder, CancelPlace,
                CancelCommit, SyncBalance, SyncWallet, SyncCommit, InFlight, Final
  <2>. QED BY <2>1 DEF Alone
<1>. QED BY <1>1, <1>2

LEMMA AloneInit == Init => Alone
BY DEF Init, Alone, InFlight, NoReq, IdleUds

LEMMA NoDeadlockAlone ==
  ASSUME Alone
  PROVE  ~DetectDeadlock
BY DEF DetectDeadlock, DeadlockedWith, Alone, InFlight, Final

LEMMA AloneStep ==
  ASSUME MaxInFlight = 1, TypeInv, Alone, [Next]_vars
  PROVE  Alone'
<1>1. ASSUME NEW r \in Reqs, Step(r) PROVE Alone'
  <2>1. /\ ~uds.busy /\ InFlight \subseteq {r}
        /\ uds' = uds /\ \A q \in Reqs \ {r} : req'[q] = req[q]
    BY <1>1, StepsAlone, OthersStand
  <2>2. InFlight' \subseteq {r}
    BY <2>1 DEF InFlight
  <2>. QED BY <2>1, <2>2 DEF Alone
<1>2. CASE \E s \in Symbols : UdsBegin(s)
  <2>1. InFlight = {} /\ req' = req
    BY <1>2, AdmittedAlone DEF UdsBegin
  <2>. QED BY <2>1 DEF Alone, InFlight
<1>3. CASE (\E p \in Reqs : UdsPosition(p)) \/ UdsCommit
  <2>1. uds.busy /\ req' = req
    BY <1>3 DEF UdsPosition, UdsCommit
  <2>. QED BY <2>1 DEF Alone, InFlight
<1>4. CASE Crash
  <2> DEFINE rec == [NoReq EXCEPT !.pc = "failed"]
  <2>1. rec.pc = "failed"
    BY DEF NoReq
  <2>2. \A r \in Reqs : req'[r] = IF r \in InFlight THEN rec ELSE req[r]
    BY <1>4 DEF Crash
  <2>. HIDE DEF rec
  <2>3. InFlight' = {}
    BY <2>1, <2>2 DEF InFlight, Final
  <2>. QED BY <2>3 DEF Alone
<1>5. CASE Quiet \/ UNCHANGED vars \/ \E o \in Reqs : ExchangeFill(o) \/ KeyExpire(o)
  BY <1>5 DEF Quiet, vars, ExchangeFill, KeyExpire, Alone, InFlight
<1>. QED BY <1>1, <1>2, <1>3, <1>4, <1>5, NoDeadlockAlone DEF Next, Liquidate

LEMMA AloneAlways ==
  ASSUME MaxInFlight = 1
  PROVE  Spec => [](TypeInv /\ Alone)
<1>1. Init => TypeInv /\ Alone
  BY TypeInit, AloneInit
<1>2. TypeInv /\ Alone /\ [Next]_vars => TypeInv' /\ Alone'
  BY TypeStep, AloneStep
<1>. QED BY <1>1, <1>2, PTL DEF Spec

\* Handled one at a time, orders, closes and liquidations leave margin_used at
\* exactly the sum of the margins of the live positions, whatever fails in
\* between.
THEOREM SerialMarginIsLiveMargin ==
  ASSUME MaxInFlight = 1
  PROVE  Spec => []MarginUsedIsLiveMargin
<1> DEFINE UsersAlone == \A u \in Users : UserAlone(u)
<1>1. SharedInv /\ Alone => UsersAlone
  <2> SUFFICES ASSUME SharedInv, Alone, NEW u \in Users PROVE UserAlone(u)
    OBVIOUS
  <2>1. MarginRequests(u) \subseteq InFlight
    BY DEF MarginRequests, ReadingPcs, ClosePcs, InFlight, Final
  <2>2. BeingLiquidated(u) => uds.busy
    BY DEF BeingLiquidated, SharedInv, TargetInv
  <2>. QED BY <2>1, <2>2 DEF Alone, UserAlone
<1>2. SharedInv /\ [Next]_vars => SharedInv'
  BY SharedStep
<1>3. Spec => [](TypeInv /\ Alone)
  BY AloneAlways
<1>4. Spec /\ []UsersAlone => []MarginUsedIsLiveMargin
  BY MarginsAreLiveWhileUsersAlone
<1>. HIDE DEF UsersAlone
<1>. QED BY SharedInit, <1>1, <1>2, <1>3, <1>4, PTL DEF Spec
-----------------------------------------------------------------------------
(***************************************************************************)
(* HandledEventIsReflected.  The handler locks every position it began     *)
(* with before its COMMIT, which marks what is locked; it can only fail to *)
(* get there by losing a deadlock or by a crash.                           *)
(***************************************************************************)
LiquidatedStays ==
  \A p \in Reqs : pos[p].state = "liquidated" => pos'[p].state = "liquidated"

\* An event ends with its COMMIT.
HandlerCommits == uds.busy /\ ~uds'.busy => UdsCommit

EventInv ==
  /\ uds.busy => \A p \in uds.began : Liquidating(p)
  /\ HandledEventIsReflected

\* A request's step takes no lock away from the handler.
LEMMA HandlerLocksStay ==
  ASSUME TypeInv, NEW r \in Reqs, Step(r), NEW p \in Reqs, posLock[p] = Uds
  PROVE  posLock'[p] = Uds
<1>1. CASE CreateLock(r) \/ CloseLock(r)
  BY <1>1 DEF CreateLock, CloseLock
<1>2. CASE CreateCommit(r) \/ CloseCommit(r)
  BY <1>2, LedgerAssumption DEF CreateCommit, CloseCommit, Free
<1>3. CASE Unlocked(r)
  BY <1>3 DEF Unlocked, CreateBegin, CreateExposure, CreateRisk, CreatePlace, CreateFlush,
         CloseBegin, ClosePlace, CloseAccount, CancelOrder, CancelBegin, CancelPlace,
         CancelCommit, SyncBalance, SyncBegin, SyncWallet, SyncCommit, locks
<1>. QED BY <1>1, <1>2, <1>3 DEF Step, CreateOrder, ClosePosition, Unlocked

LEMMA EventStep ==
  ASSUME TypeInv, EventInv, [Next]_vars, [LiquidatedStays]_vars, [HandlerCommits]_vars
  PROVE  EventInv'
<1>1. LiquidatedStays /\ HandlerCommits
  BY DEF LiquidatedStays, HandlerCommits, vars
<1>2. uds.began \subseteq Reqs /\ uds.busy \in BOOLEAN
  BY DEF TypeInv, TypeOK, UdsRecord
<1>3. CASE uds' = uds /\ \A p \in Reqs : posLock[p] = Uds => posLock'[p] = Uds
  BY <1>1, <1>2, <1>3 DEF EventInv, HandledEventIsReflected, LiquidatedStays, Liquidating
<1>4. CASE \E s \in Symbols : UdsBegin(s)
  BY <1>4 DEF UdsBegin, IdleUds, EventInv, HandledEventIsReflected, Liquidating
<1>5. ASSUME NEW p \in Reqs, UdsPosition(p) PROVE EventInv'
  <2>1. /\ uds.busy /\ uds'.busy /\ uds'.began = uds.began /\ uds'.todo = uds.todo \ {p}
        /\ posLock'[p] = Uds /\ \A q \in Reqs \ {p} : posLock'[q] = posLock[q]
    BY <1>5 DEF UdsPosition, TypeInv, TypeOK, UdsRecord
  <2>. QED BY <1>2, <2>1 DEF EventInv, HandledEventIsReflected, Liquidating
<1>6. CASE UdsCommit
  <2>1. uds.busy /\ uds.todo = {} /\ ~uds'.busy /\ uds'.began = uds.began
    BY <1>6 DEF UdsCommit, IdleUds
  <2>2. \A p \in Reqs : posLock[p] = Uds => pos'[p].state = "liquidated"
    BY <1>6 DEF UdsCommit, TypeInv, TypeOK, PositionRow
  <2>. QED BY <1>2, <2>1, <2>2 DEF EventInv, HandledEventIsReflected, Liquidating
<1>7. CASE Crash
  <2>1. ~uds.busy /\ ~uds'.busy /\ uds'.began = uds.began
    BY <1>1, <1>2, <1>7 DEF HandlerCommits, Crash, UdsCommit, IdleUds, TypeInv, TypeOK
  <2>. QED BY <1>1, <1>2, <2>1 DEF EventInv, HandledEventIsReflected, LiquidatedStays
<1>8. ASSUME NEW r \in Reqs, DeadlockedWith(r), Abort(r), UNCHANGED uds PROVE EventInv'
  BY <1>3, <1>8, LedgerAssumption DEF Abort, Free, TypeInv, TypeOK
<1>9. ~UdsAbort \/ ~DetectDeadlock
  BY <1>1, LedgerAssumption
     DEF HandlerCommits, UdsAbort, DetectDeadlock, DeadlockedWith, UdsCommit, IdleUds
<1>10. CASE UNCHANGED vars \/ Quiet \/ \E o \in Reqs : ExchangeFill(o) \/ KeyExpire(o)
  BY <1>3, <1>10 DEF vars, locks, Quiet, ExchangeFill, KeyExpire
<1>11. ASSUME NEW r \in Reqs, Step(r) PROVE EventInv'
  BY <1>3, <1>11, OthersStand, HandlerLocksStay
<1>12. DetectDeadlock => EventInv'
  BY <1>8, <1>9 DEF DetectDeadlock
<1>. QED BY <1>4, <1>5, <1>6, <1>7, <1>10, <1>11, <1>12 DEF Next, Liquidate

\* Whatever else is under way: unless the handler loses a deadlock or the process
\* dies, every position that was live when the event arrived is liquidated once it
\* has been handled.
THEOREM CommittedEventsAreReflected ==
  Spec /\ [][HandlerCommits]_vars => []HandledEventIsReflected
<1>1. Init => TypeInv /\ EventInv
  BY TypeInit DEF Init, IdleUds, EventInv, HandledEventIsReflected
<1>2. TypeInv /\ EventInv /\ [Next]_vars /\ [LiquidatedStays]_vars /\ [HandlerCommits]_vars
        => TypeInv' /\ EventInv'
  BY TypeStep, EventStep
<1>3. Spec => [][LiquidatedStays]_vars
  BY ClosedNeverReopens DEF ClosedStaysClosed, LiquidatedStays
<1>4. EventInv => HandledEventIsReflected
  BY DEF EventInv
<1>. QED BY <1>1, <1>2, <1>3, <1>4, PTL DEF Spec

\* Where nothing overlaps the handler and the process does not die, no event fails.
THEOREM SerialEventsAreReflected ==
  ASSUME MaxInFlight = 1, MaxCrashes = 0
  PROVE  Spec => []HandledEventIsReflected
<1> DEFINE NoCrash == budget.crashes = 0
<1>1. Init => NoCrash
  BY DEF Init
<1>2. NoCrash /\ [Next]_vars => NoCrash'
  <2> SUFFICES ASSUME NoCrash, [Next]_vars PROVE NoCrash'
    OBVIOUS
  <2>1. ASSUME NEW r \in Reqs, Step(r) PROVE budget' = budget
    BY <2>1 DEF Step, CreateOrder, CreateBegin, CreateExposure, CreateRisk, CreatePlace,
         CreateFlush, CreateLock, CreateCommit, ClosePosition, CloseBegin, ClosePlace,
         CloseAccount, CloseLock, CloseCommit, CancelOrder, CancelBegin, CancelPlace,
         CancelCommit, SyncBalance, SyncBegin, SyncWallet, SyncCommit
  <2>2. ~Crash
    BY DEF Crash
  <2>3. ASSUME NEW s \in Symbols, UdsBegin(s) PROVE NoCrash'
    BY <2>3 DEF UdsBegin
  <2>. QED BY <2>1, <2>2, <2>3 DEF Next, Liquidate, UdsPosition, UdsCommit, DetectDeadlock,
                                   ExchangeFill, KeyExpire, Quiet, vars
<1>3. TypeInv /\ Alone /\ NoCrash /\ [Next]_vars => [HandlerCommits]_vars
  <2> SUFFICES ASSUME TypeInv, Alone, NoCrash, Next PROVE HandlerCommits
    OBVIOUS
  <2>1. ~Crash /\ ~DetectDeadlock
    BY NoDeadlockAlone DEF Crash
  <2>2. CASE Liquidate
    BY <2>2 DEF Liquidate, UdsBegin, UdsPosition, HandlerCommits, TypeInv, TypeOK, UdsRecord
  <2>3. CASE Quiet \/ (\E o \in Reqs : ExchangeFill(o) \/ KeyExpire(o)) \/ \E r \in Reqs : Step(r)
    BY <2>3, OthersStand DEF Quiet, vars, ExchangeFill, KeyExpire, HandlerCommits
  <2>. QED BY <2>1, <2>2, <2>3 DEF Next
<1>4. Spec => [](TypeInv /\ Alone)
  BY AloneAlways
<1>5. Spec /\ [][HandlerCommits]_vars => []HandledEventIsReflected
  BY CommittedEventsAreReflected
<1>. HIDE DEF NoCrash
<1>. QED BY <1>1, <1>2, <1>3, <1>4, <1>5, PTL DEF Spec
-----------------------------------------------------------------------------
(***************************************************************************)
(* The exposure limits.  They are decided on sums read before the order    *)
(* is placed, and the position takes the order's price as a whole when it  *)
(* is written.  An approved order is due until it is committed: whatever   *)
(* the handlers in flight may still add, together with what is booked,     *)
(* stays within MaxInFlight times the limit.                               *)
(***************************************************************************)
OnePrice == \A x, y \in Prices : x = y

AtPrice == \A p \in LivePositions, x \in Prices : pos[p].notional = Abs(pos[p].qty) * x

LEMMA ExposureTerms ==
  ASSUME TypeInv
  PROVE  /\ IsFiniteSet(LivePositions) /\ LivePositions \subseteq Reqs
         /\ \A u : IsFiniteSet(LivePositionsOf(u)) /\ LivePositionsOf(u) \subseteq LivePositions
         /\ \A p \in Reqs : Notionals[p] = pos[p].notional /\ pos[p].notional \in Nat
         /\ GlobalExposure \in Nat /\ \A u : UserExposure(u) \in Nat
<1>1. IsFiniteSet(LivePositions) /\ LivePositions \subseteq Reqs
  BY LedgerAssumption, FS_Subset DEF LivePositions
<1>2. ASSUME NEW u
      PROVE  IsFiniteSet(LivePositionsOf(u)) /\ LivePositionsOf(u) \subseteq LivePositions
  BY <1>1, FS_Subset DEF LivePositionsOf
<1>3. \A p \in Reqs : Notionals[p] = pos[p].notional /\ pos[p].notional \in Nat
  BY DEF Notionals, TypeInv, TypeOK, PositionRow
<1>4. GlobalExposure \in Nat
  BY <1>1, <1>3, SumNat DEF GlobalExposure
<1>5. ASSUME NEW u PROVE UserExposure(u) \in Nat
  BY <1>1, <1>2, <1>3, SumNat DEF UserExposure
<1>. QED BY <1>1, <1>2, <1>3, <1>4, <1>5
\* Closing positions lowers every sum; leaving them alone keeps it.
LEMMA ExposureShrinks ==
  ASSUME TypeInv, [Next]_vars, LivePositions' \subseteq LivePositions,
         \A p \in Reqs : pos'[p].notional = pos[p].notional
  PROVE  /\ GlobalExposure' <= GlobalExposure /\ GlobalExposure' \in Nat
         /\ \A u : UserExposure(u)' <= UserExposure(u) /\ UserExposure(u)' \in Nat
         /\ LivePositions' = LivePositions =>
              GlobalExposure' = GlobalExposure /\ \A u : UserExposure(u)' = UserExposure(u)
<1>1. \A p \in LivePositions : req'[p] = req[p]
  BY DoneStays DEF LivePositions, TypeInv, Control, Booked
<1>2. Notionals' = Notionals
  BY DEF Notionals
<1>3. /\ IsFiniteSet(LivePositions) /\ LivePositions \subseteq Reqs
      /\ \A p \in LivePositions : Notionals[p] \in Nat
      /\ \A u : IsFiniteSet(LivePositionsOf(u)) /\ LivePositionsOf(u) \subseteq LivePositions
  BY ExposureTerms
<1>4. \A u : LivePositionsOf(u)' \subseteq LivePositionsOf(u)
  BY <1>1 DEF LivePositionsOf
<1>5. LivePositions' = LivePositions => \A u : LivePositionsOf(u)' = LivePositionsOf(u)
  BY <1>1 DEF LivePositionsOf
<1>6. /\ SumFunctionOnSet(Notionals, LivePositions') <= SumFunctionOnSet(Notionals, LivePositions)
      /\ SumFunctionOnSet(Notionals, LivePositions') \in Nat
  <2> DEFINE S == LivePositions'
             T == LivePositions
  <2>1. S \in SUBSET T /\ IsFiniteSet(T) /\ \A p \in T : Notionals[p] \in Nat
    BY <1>3
  <2>. HIDE DEF S, T
  <2>2. IsFiniteSet(S) /\ \A p \in S : Notionals[p] \in Nat
    BY <2>1, FS_Subset
  <2>3. SumFunctionOnSet(Notionals, S) <= SumFunctionOnSet(Notionals, T)
    BY <2>1, SumSubset
  <2>4. SumFunctionOnSet(Notionals, S) \in Nat
    BY <2>2, SumNat
  <2>. QED BY <2>3, <2>4 DEF S, T
<1>7. ASSUME NEW u PROVE UserExposure(u)' <= UserExposure(u) /\ UserExposure(u)' \in Nat
  <2> DEFINE S == LivePositionsOf(u)'
             T == LivePositionsOf(u)
  <2>1. S \in SUBSET T /\ IsFiniteSet(T) /\ \A p \in T : Notionals[p] \in Nat
    BY <1>3, <1>4
  <2>. HIDE DEF S, T
  <2>2. IsFiniteSet(S) /\ \A p \in S : Notionals[p] \in Nat
    BY <2>1, FS_Subset
  <2>3. SumFunctionOnSet(Notionals, S) <= SumFunctionOnSet(Notionals, T)
    BY <2>1, SumSubset
  <2>4. SumFunctionOnSet(Notionals, S) \in Nat
    BY <2>2, SumNat
  <2>. QED BY <1>2, <2>3, <2>4 DEF UserExposure, S, T
<1>. QED BY <1>2, <1>5, <1>6, <1>7 DEF GlobalExposure, UserExposure
\* One term is replaced or added, by no more than n.
LEMMA SumGrows ==
  ASSUME NEW S, IsFiniteSet(S), NEW f, NEW g, NEW y, NEW n \in Nat,
         \A x \in S : f[x] \in Nat /\ g[x] \in Nat, g[y] \in Nat,
         \A x \in S \ {y} : g[x] = f[x],
         g[y] <= n + (IF y \in S THEN f[y] ELSE 0)
  PROVE  SumFunctionOnSet(g, S \cup {y}) <= SumFunctionOnSet(f, S) + n
<1>1. SumFunctionOnSet(f, S) \in Nat /\ SumFunctionOnSet(g, S) \in Nat
  BY SumNat
<1>2. CASE y \in S
  <2> DEFINE T == S \ {y}
  <2>1. f[y] \in Nat /\ g[y] <= n + f[y]
    BY <1>2
  <2>2. \A x \in S : f[x] \in Int /\ g[x] \in Int
    OBVIOUS
  <2>3. /\ SumFunctionOnSet(f, S) = f[y] + SumFunctionOnSet(f, T)
        /\ SumFunctionOnSet(g, S) = g[y] + SumFunctionOnSet(g, T)
    BY <1>2, <2>2, SumRemove
  <2>4. IsFiniteSet(T) /\ (\A x \in T : g[x] = f[x]) /\ \A x \in T : f[x] \in Nat
    BY FS_Subset
  <2>. HIDE DEF T
  <2>5. SumFunctionOnSet(g, T) = SumFunctionOnSet(f, T) /\ SumFunctionOnSet(f, T) \in Nat
    BY <2>4, SumEqual, SumNat
  <2>6. SumFunctionOnSet(g, S) <= SumFunctionOnSet(f, S) + n
    BY <2>1, <2>3, <2>5
  <2>7. S \cup {y} = S
    BY <1>2
  <2>. QED BY <2>6, <2>7
<1>3. CASE y \notin S
  <2>1. (\A x \in S : g[x] = f[x]) /\ \A x \in S \cup {y} : g[x] \in Int
    BY <1>3
  <2>2. SumFunctionOnSet(g, S) = SumFunctionOnSet(f, S)
    BY <2>1, SumEqual
  <2>3. SumFunctionOnSet(g, S \cup {y}) = g[y] + SumFunctionOnSet(g, S)
    BY <1>3, <2>1, SumAdd
  <2>. QED BY <1>1, <1>3, <2>2, <2>3
<1>. QED BY <1>2, <1>3

LEMMA NotionalGrowth ==
  ASSUME NEW a \in Int, NEW b \in Int, NEW x \in Nat
  PROVE  Abs(a + b) * x <= Abs(b) * x + Abs(a) * x
<1>1. Abs(a) \in Nat /\ Abs(b) \in Nat /\ Abs(a + b) \in Nat /\ Abs(a + b) <= Abs(a) + Abs(b)
  BY DEF Abs
<1>2. \A i, j, k \in Nat : i <= j + k => i * x <= k * x + j * x
  OBVIOUS
<1>. QED BY <1>1, <1>2

\* A sum of terms that are at most n.
LEMMA SumBounded ==
  ASSUME NEW S, IsFiniteSet(S), NEW f, NEW n \in Nat, \A x \in S : f[x] \in Nat /\ f[x] <= n
  PROVE  SumFunctionOnSet(f, S) <= Cardinality(S) * n
<1> DEFINE F == {T \in SUBSET S : ~(SumFunctionOnSet(f, T) <= Cardinality(T) * n)}
<1>1. SUFFICES ASSUME F # {} PROVE FALSE
  OBVIOUS
<1>2. F \in SUBSET (SUBSET S)
  OBVIOUS
<1>. HIDE DEF F
<1>3. PICK T \in F : \A u \in F : u \subseteq T => u = T
  BY <1>1, <1>2, MinimalMember
<1>4. T \in SUBSET S /\ ~(SumFunctionOnSet(f, T) <= Cardinality(T) * n) /\ IsFiniteSet(T)
  BY <1>3, FS_Subset DEF F
<1>5. PICK y \in T : TRUE
  BY <1>4, SumEmpty, FS_EmptySet
<1> DEFINE v == T \ {y}
<1>6. v \in SUBSET S /\ v \notin F /\ IsFiniteSet(v)
  BY <1>3, <1>4, FS_Subset
<1>7. SumFunctionOnSet(f, v) <= Cardinality(v) * n
  BY <1>6 DEF F
<1>8. SumFunctionOnSet(f, T) = f[y] + SumFunctionOnSet(f, v) /\ f[y] \in Nat /\ f[y] <= n
  BY <1>4, SumRemove
<1>9. SumFunctionOnSet(f, v) \in Nat
  BY <1>6, SumNat
<1>10. Cardinality(T) \in Nat /\ Cardinality(v) = Cardinality(T) - 1
  BY <1>4, FS_CardinalityType, FS_RemoveElement
<1>. HIDE DEF v
<1>11. \A c \in Nat : (c - 1) * n = c * n - n /\ c * n \in Nat
  OBVIOUS
<1>12. f[y] + SumFunctionOnSet(f, v) <= Cardinality(T) * n
  BY <1>7, <1>8, <1>9, <1>10, <1>11
<1>. QED BY <1>4, <1>8, <1>12

\* The exposure and what is due fit MaxInFlight times the limit.
Reserved(exposure, due, limit) ==
  exposure + SumFunctionOnSet(due, Reqs) <= MaxInFlight * limit

\* One request turns what was due into exposure, or gives it up, and the others
\* are due no more than before.
LEMMA ReservedStays ==
  ASSUME NEW r \in Reqs, NEW D \in [Reqs -> Nat], NEW D2 \in [Reqs -> Nat],
         NEW e \in Nat, NEW e2 \in Nat, NEW limit \in Nat, Reserved(e, D, limit),
         \A q \in Reqs \ {r} : D2[q] <= D[q], e2 + D2[r] <= e + D[r]
  PROVE  Reserved(e2, D2, limit)
<1> DEFINE T == Reqs \ {r}
<1>1. IsFiniteSet(Reqs) /\ IsFiniteSet(T) /\ T \subseteq Reqs
  BY LedgerAssumption, FS_Subset
<1>2. /\ SumFunctionOnSet(D, Reqs) = D[r] + SumFunctionOnSet(D, T)
      /\ SumFunctionOnSet(D2, Reqs) = D2[r] + SumFunctionOnSet(D2, T)
  <2>1. \A x \in Reqs : D[x] \in Int /\ D2[x] \in Int
    OBVIOUS
  <2>. QED BY <1>1, <2>1, SumRemove
<1>3. SumFunctionOnSet(D2, T) <= SumFunctionOnSet(D, T)
  <2>1. \A x \in T : D2[x] \in Int /\ D[x] \in Int /\ D2[x] <= D[x]
    BY <1>1
  <2>. HIDE DEF T
  <2>. QED BY <1>1, <2>1, SumMonotone
<1>4. SumFunctionOnSet(D, T) \in Nat /\ SumFunctionOnSet(D2, T) \in Nat
  <2>1. \A x \in T : D2[x] \in Nat /\ D[x] \in Nat
    BY <1>1
  <2>. HIDE DEF T
  <2>. QED BY <1>1, <2>1, SumNat
<1>5. D[r] \in Nat /\ D2[r] \in Nat /\ MaxInFlight * limit \in Nat
  BY LedgerAssumption
<1>6. e + (D[r] + SumFunctionOnSet(D, T)) <= MaxInFlight * limit
  BY <1>2 DEF Reserved
<1>. HIDE DEF T
<1>7. e2 + (D2[r] + SumFunctionOnSet(D2, T)) <= MaxInFlight * limit
  BY <1>3, <1>4, <1>5, <1>6
<1>. QED BY <1>2, <1>7 DEF Reserved

\* Exposure falls and nobody is due more.
LEMMA ReservedShrinks ==
  ASSUME NEW D \in [Reqs -> Nat], NEW D2 \in [Reqs -> Nat],
         NEW e \in Nat, NEW e2 \in Nat, NEW limit \in Nat, Reserved(e, D, limit),
         \A q \in Reqs : D2[q] <= D[q], e2 <= e
  PROVE  Reserved(e2, D2, limit)
<1>1. SumFunctionOnSet(D2, Reqs) <= SumFunctionOnSet(D, Reqs)
  BY LedgerAssumption, SumMonotone
<1>2. SumFunctionOnSet(D, Reqs) \in Nat /\ SumFunctionOnSet(D2, Reqs) \in Nat
  BY LedgerAssumption, SumNat
<1>3. MaxInFlight * limit \in Nat
  BY LedgerAssumption
<1>. QED BY <1>1, <1>2, <1>3 DEF Reserved

\* Of at most MaxInFlight requests that are due anything, each no more than the
\* limit, one has been granted what keeps the exposure it read within it.
LEMMA ReservedAnew ==
  ASSUME NEW F \in SUBSET Reqs, Cardinality(F) <= MaxInFlight, NEW r \in F,
         NEW D \in [Reqs -> Nat], NEW e \in Nat, NEW limit \in Nat,
         \A q \in Reqs \ F : D[q] = 0, \A q \in F : D[q] <= limit,
         e + D[r] <= limit
  PROVE  Reserved(e, D, limit)
<1> DEFINE T == F \ {r}
<1>1. /\ IsFiniteSet(Reqs) /\ IsFiniteSet(F) /\ IsFiniteSet(T)
      /\ Cardinality(F) \in Nat /\ Cardinality(T) = Cardinality(F) - 1
  BY LedgerAssumption, FS_Subset, FS_CardinalityType, FS_RemoveElement
<1>2. SumFunctionOnSet(D, Reqs) = SumFunctionOnSet(D, F)
  <2>1. \A x \in Reqs : D[x] \in Int
    OBVIOUS
  <2>. QED BY <1>1, <2>1, SumPadded
<1>3. SumFunctionOnSet(D, F) = D[r] + SumFunctionOnSet(D, T)
  <2>1. \A x \in F : D[x] \in Int
    OBVIOUS
  <2>. QED BY <1>1, <2>1, SumRemove
<1>4. SumFunctionOnSet(D, T) <= Cardinality(T) * limit /\ SumFunctionOnSet(D, T) \in Nat
  <2>1. \A x \in T : D[x] \in Nat /\ D[x] <= limit
    OBVIOUS
  <2>. HIDE DEF T
  <2>. QED BY <1>1, <2>1, SumBounded, SumNat
<1>5. \A c, k \in Nat : c <= k => limit + (c - 1) * limit <= k * limit
  <2>1. \A c, k \in Nat : c <= k => c * limit <= k * limit
    <3> SUFFICES ASSUME NEW c \in Nat, NEW k \in Nat, c <= k PROVE c * limit <= k * limit
      OBVIOUS
    <3>1. PICK d \in Nat : k = c + d
      <4>1. k - c \in Nat /\ k = c + (k - c)
        OBVIOUS
      <4>. QED BY <4>1
    <3>2. (c + d) * limit = c * limit + d * limit /\ d * limit \in Nat /\ c * limit \in Nat
      OBVIOUS
    <3>. QED BY <3>1, <3>2
  <2>2. \A c \in Nat : limit + (c - 1) * limit = c * limit
    OBVIOUS
  <2>. QED BY <2>1, <2>2
<1>6. limit + Cardinality(T) * limit <= MaxInFlight * limit
  BY <1>1, <1>5, LedgerAssumption
<1>7. Cardinality(T) \in Nat
  BY <1>1, FS_CardinalityType
<1>8. Cardinality(T) * limit \in Int /\ MaxInFlight * limit \in Int /\ D[r] \in Nat
  BY <1>7, LedgerAssumption
<1>. HIDE DEF T
<1>9. e + (D[r] + SumFunctionOnSet(D, T)) <= MaxInFlight * limit
  BY <1>4, <1>6, <1>8
<1>. QED BY <1>2, <1>3, <1>9 DEF Reserved
-----------------------------------------------------------------------------
\* What the request's order may add to the exposure.
Cost(r) == Abs(req[r].qty) * req[r].price
TierLimit(u) == GlobalExposureThreshold * ExposurePercent[Tier[u]]

\* What the exposure it has read leaves of the user's limit.
Room(r) == MaxOf(TierLimit(req[r].user) - 100 * SumFunctionOnSet(req[r].seen, Reqs), 0)

Due == [r \in Reqs |-> IF req[r].pc \in OrderPcs THEN Cost(r) ELSE 0]
UserDue(u) ==
  [r \in Reqs |-> IF req[r].user # u THEN 0
                  ELSE IF req[r].pc \in OrderPcs THEN 100 * Cost(r)
                  ELSE IF req[r].pc = "c_risk" THEN Room(r) ELSE 0]

Approved(r) ==
  /\ req[r].price \in Prices
  /\ Cost(r) <= GlobalExposureThreshold
  /\ 100 * Cost(r) <= TierLimit(req[r].user)

OrdersApproved == \A r \in Reqs : req[r].pc \in OrderPcs => Approved(r)

OverlapInv ==
  /\ AtPrice
  /\ Cardinality(InFlight) <= MaxInFlight
  /\ OrdersApproved
  /\ Reserved(GlobalExposure, Due, GlobalExposureThreshold)
  /\ \A u \in Users : Reserved(100 * UserExposure(u), UserDue(u), TierLimit(u))

DuesTyped ==
  /\ \A r \in Reqs : Cost(r) \in Nat
  /\ GlobalExposureThreshold \in Nat
  /\ \A u \in Users : TierLimit(u) \in Nat
  /\ \A r \in Reqs : /\ SumFunctionOnSet(req[r].seen, Reqs) \in Nat
                     /\ req[r].user \in Users => Room(r) \in Nat
  /\ Due \in [Reqs -> Nat]
  /\ \A u \in Users : UserDue(u) \in [Reqs -> Nat]

LEMMA DueTypes == TypeInv => DuesTyped
<1> SUFFICES ASSUME TypeInv PROVE DuesTyped
  OBVIOUS
<1>1. \A r \in Reqs : Cost(r) \in Nat
  BY Arithmetic DEF Cost, TypeInv, TypeOK, RequestRecord
<1>2. ASSUME NEW u \in Users PROVE TierLimit(u) \in Nat
  <2>1. ExposurePercent[Tier[u]] \in Nat
    BY LedgerAssumption DEF ExposurePercent, Tiers
  <2>. QED BY <2>1, SettingsAssumption DEF TierLimit
<1>3. ASSUME NEW r \in Reqs PROVE SumFunctionOnSet(req[r].seen, Reqs) \in Nat
  <2> DEFINE seen == req[r].seen
  <2>1. \A p \in Reqs : seen[p] \in Nat
    BY DEF TypeInv, TypeOK, RequestRecord
  <2>. HIDE DEF seen
  <2>2. SumFunctionOnSet(seen, Reqs) \in Nat
    BY <2>1, LedgerAssumption, SumNat
  <2>. QED BY <2>2 DEF seen
<1>4. ASSUME NEW r \in Reqs, req[r].user \in Users PROVE Room(r) \in Nat
  BY <1>2, <1>3, <1>4 DEF Room, MaxOf
<1>5. Due \in [Reqs -> Nat]
  BY <1>1 DEF Due
<1>6. ASSUME NEW u \in Users, NEW r \in Reqs PROVE UserDue(u)[r] \in Nat
  BY <1>1, <1>4, <1>6 DEF UserDue
<1>7. ASSUME NEW u \in Users PROVE UserDue(u) \in [Reqs -> Nat]
  BY <1>6 DEF UserDue
<1>. QED BY <1>1, <1>2, <1>3, <1>4, <1>5, <1>7, SettingsAssumption DEF DuesTyped

LEMMA DueTypesNext == TypeInv' => DuesTyped'
BY DueTypes, PTL

\* After the step the request is due no more than before.
Relieved(r) ==
  \/ req'[r].pc \notin OrderPcs \cup {"c_risk"}
  \/ req'[r] = req[r]
  \/ /\ req[r].pc \in OrderPcs /\ req'[r].pc \in OrderPcs
     /\ req'[r].user = req[r].user /\ req'[r].qty = req[r].qty /\ req'[r].price = req[r].price

LEMMA RelievedDues ==
  ASSUME TypeInv, OverlapInv, NEW r \in Reqs, Relieved(r)
  PROVE  /\ Due'[r] <= Due[r]
         /\ \A u \in Users : UserDue(u)'[r] <= UserDue(u)[r]
         /\ req'[r].pc \in OrderPcs => Approved(r)'
<1>1. Due[r] \in Nat /\ \A u \in Users : UserDue(u)[r] \in Nat
  BY DueTypes DEF DuesTyped
<1>2. CASE req'[r].pc \notin OrderPcs \cup {"c_risk"}
  BY <1>1, <1>2 DEF Due, UserDue
<1>3. CASE req'[r] = req[r]
  <2>1. Cost(r)' = Cost(r) /\ Room(r)' = Room(r) /\ (Approved(r) => Approved(r)')
    BY <1>3 DEF Cost, Room, TierLimit, Approved
  <2>2. Due'[r] = Due[r] /\ \A u \in Users : UserDue(u)'[r] = UserDue(u)[r]
    BY <1>3, <2>1 DEF Due, UserDue
  <2>. QED BY <1>1, <1>3, <2>1, <2>2 DEF OverlapInv, OrdersApproved
<1>4. CASE /\ req[r].pc \in OrderPcs /\ req'[r].pc \in OrderPcs
           /\ req'[r].user = req[r].user /\ req'[r].qty = req[r].qty /\ req'[r].price = req[r].price
  <2>1. Cost(r)' = Cost(r) /\ (Approved(r) => Approved(r)')
    BY <1>4 DEF Cost, TierLimit, Approved
  <2>2. Due'[r] = Due[r] /\ \A u \in Users : UserDue(u)'[r] = UserDue(u)[r]
    BY <1>4, <2>1 DEF Due, UserDue
  <2>. QED BY <1>1, <1>4, <2>1, <2>2 DEF OverlapInv, OrdersApproved
<1>. QED BY <1>2, <1>3, <1>4 DEF Relieved

\* Outside the requests' own steps a request keeps its record or is failed.
LEMMA OtherRecords ==
  ASSUME TypeInv,
         \/ Liquidate \/ DetectDeadlock \/ Crash \/ Quiet \/ UNCHANGED vars
         \/ \E o \in Reqs : ExchangeFill(o) \/ KeyExpire(o)
  PROVE  \A q \in Reqs : req'[q] = req[q] \/ req'[q].pc = "failed"
<1>1. CASE DetectDeadlock
  <2>1. PICK r \in Reqs : Abort(r) \/ req' = req
    BY <1>1 DEF DetectDeadlock
  <2>. QED BY <2>1, Dropped DEF Abort
<1>2. CASE Crash
  <2> DEFINE rec == [NoReq EXCEPT !.pc = "failed"]
  <2>1. rec.pc = "failed" /\ \A q \in Reqs : req'[q] = rec \/ req'[q] = req[q]
    BY <1>2 DEF Crash, NoReq
  <2>. HIDE DEF rec
  <2>. QED BY <2>1
<1>3. CASE \/ Liquidate \/ Quiet \/ UNCHANGED vars
           \/ \E o \in Reqs : ExchangeFill(o) \/ KeyExpire(o)
  BY <1>3 DEF Liquidate, UdsBegin, UdsPosition, UdsCommit, Quiet, vars, ExchangeFill, KeyExpire
<1>. QED BY <1>1, <1>2, <1>3

\* A handler starts only where the bound on those in flight leaves room.
LEMMA InFlightBounded ==
  ASSUME TypeInv, Cardinality(InFlight) <= MaxInFlight, [Next]_vars
  PROVE  Cardinality(InFlight)' <= MaxInFlight
<1>1. IsFiniteSet(InFlight) /\ Cardinality(InFlight) \in Nat
  BY LedgerAssumption, FS_Subset, FS_CardinalityType DEF InFlight
<1>2. ASSUME InFlight' \subseteq InFlight PROVE Cardinality(InFlight)' <= MaxInFlight
  <2> DEFINE S == InFlight'
  <2>1. Cardinality(S) \in Nat /\ Cardinality(S) <= Cardinality(InFlight)
    BY <1>1, <1>2, FS_Subset, FS_CardinalityType
  <2>. HIDE DEF S
  <2>2. Cardinality(S) <= MaxInFlight
    BY <1>1, <2>1, LedgerAssumption
  <2>. QED BY <2>2 DEF S
<1>3. ASSUME NEW r \in Reqs, Step(r) PROVE Cardinality(InFlight)' <= MaxInFlight
  <2>1. \A q \in Reqs \ {r} : req'[q] = req[q]
    BY <1>3, OthersStand
  <2>2. CASE CreateBegin(r) \/ CloseBegin(r) \/ CancelBegin(r) \/ SyncBegin(r)
    <3>1. Cardinality(InFlight) < MaxInFlight
      <4>1. Admit
        BY <2>2 DEF CreateBegin, CloseBegin, CancelBegin, SyncBegin
      <4>. QED BY <1>1, <4>1, LedgerAssumption DEF Admit
    <3> DEFINE T == InFlight \cup {r}
               S == InFlight'
    <3>2. S \subseteq T
      BY <2>1 DEF InFlight
    <3>3. IsFiniteSet(T) /\ Cardinality(T) \in Nat /\ Cardinality(T) <= Cardinality(InFlight) + 1
      BY <1>1, FS_AddElement, FS_CardinalityType
    <3>. HIDE DEF S, T
    <3>4. Cardinality(S) <= Cardinality(T) /\ Cardinality(S) \in Nat
      BY <3>2, <3>3, FS_Subset, FS_CardinalityType
    <3>5. Cardinality(S) <= MaxInFlight
      BY <1>1, <3>1, <3>3, <3>4, LedgerAssumption
    <3>. QED BY <3>5 DEF S
  <2>3. CASE ~(CreateBegin(r) \/ CloseBegin(r) \/ CancelBegin(r) \/ SyncBegin(r))
    <3>1. r \in InFlight
      BY <1>3, <2>3 DEF Step, CreateOrder, CreateExposure, CreateRisk, CreatePlace,
                CreateFlush, CreateLock, CreateCommit, ClosePosition, ClosePlace,
                CloseAccount, CloseLock, CloseCommit, CancelOrder, CancelPlace,
                CancelCommit, SyncBalance, SyncWallet, SyncCommit, InFlight, Final
    <3>2. InFlight' \subseteq InFlight
      BY <2>1, <3>1 DEF InFlight
    <3>. QED BY <1>2, <3>2
  <2>. QED BY <2>2, <2>3
<1>4. ASSUME \A q \in Reqs : req'[q] = req[q] \/ req'[q].pc = "failed"
      PROVE  Cardinality(InFlight)' <= MaxInFlight
  <2>1. InFlight' \subseteq InFlight
    BY <1>4 DEF InFlight, Final
  <2>. QED BY <1>2, <2>1
<1>. QED BY <1>3, <1>4, OtherRecords DEF Next

LEMMA OverlapInit == Init => OverlapInv
<1> SUFFICES ASSUME Init PROVE OverlapInv
  OBVIOUS
<1>1. TypeInv
  BY TypeInit
<1>2. LivePositions = {} /\ \A u : LivePositionsOf(u) = {}
  BY DEF Init, NoPosition, LivePositionsOf, LivePositions
<1>3. GlobalExposure = 0 /\ \A u : UserExposure(u) = 0
  BY <1>2, SumEmpty DEF GlobalExposure, UserExposure
<1>4. \A r \in Reqs : req[r].pc = "idle"
  BY DEF Init, NoReq
<1>5. (\A r \in Reqs : Due[r] = 0) /\ \A u \in Users : \A r \in Reqs : UserDue(u)[r] = 0
  BY <1>4 DEF Due, UserDue, OrderPcs
<1>6. ASSUME NEW D \in [Reqs -> Nat], \A r \in Reqs : D[r] = 0, NEW n \in Nat
      PROVE  Reserved(0, D, n)
  <2>1. SumFunctionOnSet(D, Reqs) = 0
    <3>1. SumFunctionOnSet(D, Reqs) = SumFunctionOnSet(D, {})
      BY <1>6, LedgerAssumption, SumPadded
    <3>. QED BY <3>1, SumEmpty
  <2>2. MaxInFlight * n \in Nat
    BY LedgerAssumption
  <2>. QED BY <2>1, <2>2 DEF Reserved
<1>7. Reserved(GlobalExposure, Due, GlobalExposureThreshold)
  BY <1>1, <1>3, <1>5, <1>6, DueTypes DEF DuesTyped
<1>8. ASSUME NEW u \in Users PROVE Reserved(100 * UserExposure(u), UserDue(u), TierLimit(u))
  BY <1>1, <1>3, <1>5, <1>6, DueTypes DEF DuesTyped
<1>9. Cardinality(InFlight) <= MaxInFlight
  <2>1. InFlight = {}
    BY <1>4 DEF InFlight
  <2>. QED BY <2>1, FS_EmptySet, LedgerAssumption
<1>. QED BY <1>2, <1>4, <1>7, <1>8, <1>9 DEF OverlapInv, OrdersApproved, AtPrice, OrderPcs

\* A step that makes no position live and relieves every request.
LEMMA RelievedKeepsOverlap ==
  ASSUME TypeInv, TypeInv', OverlapInv, [Next]_vars, LivePositions' \subseteq LivePositions,
         \A p \in Reqs : pos'[p].notional = pos[p].notional /\ pos'[p].qty = pos[p].qty,
         \A r \in Reqs : Relieved(r)
  PROVE  OverlapInv'
<1>1. /\ GlobalExposure' <= GlobalExposure /\ GlobalExposure' \in Nat /\ GlobalExposure \in Nat
      /\ \A u : /\ UserExposure(u)' <= UserExposure(u)
                /\ UserExposure(u)' \in Nat /\ UserExposure(u) \in Nat
  BY ExposureShrinks, ExposureTerms
<1>2. /\ \A r \in Reqs : Due'[r] <= Due[r] /\ (req'[r].pc \in OrderPcs => Approved(r)')
      /\ \A u \in Users : \A r \in Reqs : UserDue(u)'[r] <= UserDue(u)[r]
  BY RelievedDues
<1>3. Reserved(GlobalExposure, Due, GlobalExposureThreshold)'
  <2> DEFINE D == Due
             D2 == Due'
             e == GlobalExposure
             e2 == GlobalExposure'
  <2>1. /\ D \in [Reqs -> Nat] /\ D2 \in [Reqs -> Nat] /\ e \in Nat /\ e2 \in Nat /\ e2 <= e
        /\ (\A r \in Reqs : D2[r] <= D[r]) /\ Reserved(e, D, GlobalExposureThreshold)
    BY <1>1, <1>2, DueTypes, DueTypesNext DEF OverlapInv, DuesTyped
  <2>. HIDE DEF D, D2, e, e2
  <2>2. Reserved(e2, D2, GlobalExposureThreshold)
    BY <2>1, SettingsAssumption, ReservedShrinks
  <2>. QED BY <2>2 DEF e2, D2, Reserved
<1>4. ASSUME NEW u \in Users PROVE Reserved(100 * UserExposure(u), UserDue(u), TierLimit(u))'
  <2> DEFINE D == UserDue(u)
             D2 == UserDue(u)'
             e == 100 * UserExposure(u)
             e2 == 100 * UserExposure(u)'
  <2>1. D \in [Reqs -> Nat] /\ D2 \in [Reqs -> Nat] /\ (\A r \in Reqs : D2[r] <= D[r])
    BY <1>2, DueTypes, DueTypesNext DEF DuesTyped
  <2>2. e \in Nat /\ e2 \in Nat /\ e2 <= e
    BY <1>1
  <2>3. Reserved(e, D, TierLimit(u)) /\ TierLimit(u) \in Nat
    BY DueTypes DEF OverlapInv, DuesTyped
  <2>. HIDE DEF D, D2, e, e2
  <2>4. Reserved(e2, D2, TierLimit(u))
    BY <2>1, <2>2, <2>3, ReservedShrinks
  <2>. QED BY <2>4 DEF e2, D2, Reserved, TierLimit
<1>5. AtPrice'
  BY DEF OverlapInv, AtPrice, LivePositions
<1>6. Cardinality(InFlight)' <= MaxInFlight
  BY InFlightBounded DEF OverlapInv
<1>. QED BY <1>2, <1>3, <1>4, <1>5, <1>6 DEF OverlapInv, OrdersApproved

\* Every in-flight request is due at most the limit, the others nothing.
DuesLimited ==
  /\ \A r \in Reqs \ InFlight : Due[r] = 0
  /\ \A r \in Reqs : Due[r] <= GlobalExposureThreshold
  /\ \A u \in Users : /\ \A r \in Reqs \ InFlight : UserDue(u)[r] = 0
                      /\ \A r \in Reqs : UserDue(u)[r] <= TierLimit(u)

LEMMA DuesWithinLimit == TypeInv /\ OrdersApproved => DuesLimited
<1> SUFFICES ASSUME TypeInv, OrdersApproved PROVE DuesLimited
  OBVIOUS
<1>1. \A r \in Reqs : req[r].pc \in OrderPcs \cup {"c_risk"} => r \in InFlight
  BY DEF InFlight, Final, OrderPcs
<1>2. /\ \A r \in Reqs \ InFlight : Due[r] = 0
      /\ \A r \in Reqs : Due[r] <= GlobalExposureThreshold
  BY <1>1, SettingsAssumption DEF Due, OrdersApproved, Approved
<1>3. ASSUME NEW u \in Users, NEW r \in Reqs
      PROVE  (r \notin InFlight => UserDue(u)[r] = 0) /\ UserDue(u)[r] <= TierLimit(u)
  <2>1. TierLimit(u) \in Nat /\ SumFunctionOnSet(req[r].seen, Reqs) \in Nat
    BY DueTypes DEF DuesTyped
  <2>2. req[r].user = u => Room(r) <= TierLimit(u)
    BY <2>1 DEF Room, MaxOf
  <2>3. req[r].user = u /\ req[r].pc \in OrderPcs => 100 * Cost(r) <= TierLimit(u)
    BY DEF OrdersApproved, Approved
  <2>. QED BY <1>1, <2>1, <2>2, <2>3 DEF UserDue
<1>. QED BY <1>2, <1>3 DEF DuesLimited

LEMMA DuesWithinLimitNext == TypeInv' /\ OrdersApproved' => DuesLimited'
BY DuesWithinLimit, PTL

\* The exposure is read: what it leaves of the limit is now due.
LEMMA CreateExposureKeepsOverlap ==
  ASSUME TypeInv, TypeInv', OverlapInv, NEW r \in Reqs, CreateExposure(r), req'[r].pc # "failed"
  PROVE  OverlapInv'
<1>1. PICK u \in Users : u = req[r].user
  BY DEF CreateExposure, TypeInv, Control, RecordOK, UserPcs
<1> DEFINE S == LivePositionsOf(u)
           seen == ExposureSeen(r)
<1>2. /\ req'[r].pc = "c_risk" /\ req'[r].user = u /\ req'[r].seen = seen
      /\ \A q \in Reqs \ {r} : req'[q] = req[q]
      /\ pos' = pos /\ [Next]_vars
  BY <1>1, CreateRecords, OthersStand
     DEF SameOrder, CreateExposure, rows, Next, Step, CreateOrder
<1>3. SumFunctionOnSet(seen, Reqs) = UserExposure(u)
  <2>1. S \in SUBSET Reqs /\ IsFiniteSet(Reqs) /\ IsFiniteSet(S)
        /\ \A p \in Reqs : Notionals[p] \in Nat
    BY ExposureTerms, LedgerAssumption
  <2>2. \A p \in Reqs : seen[p] = IF p \in S THEN Notionals[p] ELSE 0
    BY <1>1 DEF ExposureSeen, Notionals, LivePositionsOf
  <2>. HIDE DEF S, seen
  <2>3. (\A p \in Reqs : seen[p] \in Int) /\ (\A p \in Reqs \ S : seen[p] = 0)
        /\ \A p \in S : seen[p] = Notionals[p]
    BY <2>1, <2>2
  <2>4. SumFunctionOnSet(seen, Reqs) = SumFunctionOnSet(seen, S)
    BY <2>1, <2>3, SumPadded
  <2>5. SumFunctionOnSet(seen, S) = SumFunctionOnSet(Notionals, S)
    BY <2>1, <2>3, SumEqual
  <2>. QED BY <2>4, <2>5 DEF UserExposure, S
<1>. HIDE DEF S, seen
<1>4. LivePositions' = LivePositions
  BY <1>2 DEF LivePositions
<1>5. GlobalExposure' = GlobalExposure /\ \A v : UserExposure(v)' = UserExposure(v)
  BY <1>2, <1>4, ExposureShrinks
<1>6. \A q \in Reqs \ {r} : Relieved(q)
  BY <1>2 DEF Relieved
<1>7. OrdersApproved'
  BY <1>2, <1>6, RelievedDues DEF OrderPcs, OrdersApproved
<1>8. \A q \in Reqs \ {r} : /\ Due'[q] <= Due[q]
                            /\ \A v \in Users : UserDue(v)'[q] <= UserDue(v)[q]
  BY <1>6, RelievedDues
<1>9. Cardinality(InFlight)' <= MaxInFlight
  BY <1>2, InFlightBounded DEF OverlapInv
<1>10. Reserved(GlobalExposure, Due, GlobalExposureThreshold)'
  <2> DEFINE D == Due
             D2 == Due'
             e == GlobalExposure
  <2>1. D2[r] = 0 /\ D[r] \in Nat
    BY <1>2, DueTypes, DueTypesNext DEF Due, OrderPcs, DuesTyped
  <2>2. /\ D \in [Reqs -> Nat] /\ D2 \in [Reqs -> Nat] /\ e \in Nat
        /\ Reserved(e, D, GlobalExposureThreshold) /\ \A q \in Reqs : D2[q] <= D[q]
    BY <1>8, <2>1, DueTypes, DueTypesNext, ExposureTerms DEF OverlapInv, DuesTyped
  <2>. HIDE DEF D, D2, e
  <2>3. Reserved(e, D2, GlobalExposureThreshold)
    BY <2>2, SettingsAssumption, ReservedShrinks
  <2>. QED BY <1>5, <2>3 DEF D2, e, Reserved
<1>11. ASSUME NEW v \in Users PROVE Reserved(100 * UserExposure(v), UserDue(v), TierLimit(v))'
  <2> DEFINE D == UserDue(v)
             D2 == UserDue(v)'
             e == 100 * UserExposure(v)
  <2>1. /\ D \in [Reqs -> Nat] /\ D2 \in [Reqs -> Nat]
        /\ Reserved(e, D, TierLimit(v)) /\ TierLimit(v) \in Nat
    BY DueTypes, DueTypesNext DEF OverlapInv, DuesTyped
  <2>2. e \in Nat
    BY ExposureTerms
  <2>3. D[r] = 0
    BY <1>1 DEF UserDue, CreateExposure, OrderPcs
  <2>4. D2[r] = IF v = u THEN MaxOf(TierLimit(v) - e, 0) ELSE 0
    BY <1>2, <1>3 DEF UserDue, Room, OrderPcs, TierLimit
  <2>5. Reserved(e, D2, TierLimit(v))
    <3>1. CASE D2[r] = 0
      <4>1. \A q \in Reqs : D2[q] <= D[q]
        BY <1>8, <2>1, <2>3, <3>1
      <4>. HIDE DEF D, D2, e
      <4>. QED BY <2>1, <2>2, <4>1, ReservedShrinks
    <3>2. CASE D2[r] # 0
      <4>1. e + D2[r] <= TierLimit(v)
        <5>. HIDE DEF e, D2
        <5>. QED BY <2>1, <2>2, <2>4, <3>2 DEF MaxOf
      <4> DEFINE F == InFlight'
      <4>2. /\ F \in SUBSET Reqs /\ r \in F /\ Cardinality(F) <= MaxInFlight
            /\ (\A q \in Reqs \ F : D2[q] = 0) /\ \A q \in F : D2[q] <= TierLimit(v)
        <5>1. /\ \A q \in Reqs \ InFlight' : UserDue(v)'[q] = 0
              /\ \A q \in Reqs : UserDue(v)'[q] <= TierLimit(v)'
          BY <1>7, DuesWithinLimitNext DEF DuesLimited
        <5>2. TierLimit(v)' = TierLimit(v)
          BY DEF TierLimit
        <5>. QED BY <1>2, <1>9, <5>1, <5>2 DEF InFlight, Final
      <4>. HIDE DEF D, D2, e, F
      <4>. QED BY <2>1, <2>2, <4>1, <4>2, ReservedAnew
    <3>. QED BY <3>1, <3>2
  <2>. HIDE DEF D2, e
  <2>. QED BY <1>5, <2>5 DEF D2, e, Reserved, TierLimit
<1>12. AtPrice'
  BY <1>2, <1>4 DEF OverlapInv, AtPrice
<1>. QED BY <1>7, <1>9, <1>10, <1>11, <1>12 DEF OverlapInv

\* The decision: the order fits what the user's exposure left, and the global
\* exposure as it is now.
CreateRiskFacts(r, u) ==
  /\ u = req[r].user /\ req'[r].user = u /\ req'[r].pc = "c_place"
  /\ req'[r].price \in Prices
  /\ GlobalExposure + Cost(r)' <= GlobalExposureThreshold
  /\ 100 * SumFunctionOnSet(req[r].seen, Reqs) + 100 * Cost(r)' <= TierLimit(u)

LEMMA CreateRiskApproves ==
  ASSUME TypeInv, NEW r \in Reqs, CreateRisk(r), req'[r].pc # "rejected"
  PROVE  \E u \in Users : CreateRiskFacts(r, u)
<1>1. PICK u \in Users : u = req[r].user
  BY DEF CreateRisk, TypeInv, Control, RecordOK, UserPcs
<1>2. PICK s \in Symbols, q \in Quantities, p \in Prices, l \in Requests, m \in Modifiers :
        /\ Decision(Submitted(r, q, p, l, m)) = "Approved"
        /\ req'[r].pc = "c_place" /\ req'[r].user = req[r].user
        /\ req'[r].qty = q /\ req'[r].price = p
  BY CreateRecords
<1> DEFINE o == Submitted(r, q, p, l, m)
           e == SumFunctionOnSet(req[r].seen, Reqs)
           n == Abs(q) * p
<1>3. /\ o.tier = Tier[u] /\ o.userExposure = e
      /\ o.globalExposure = GlobalExposure /\ OrderNotional(o) = n
  BY <1>1 DEF Submitted, OrderNotional
<1>. HIDE DEF o
<1>4. /\ ~(o.globalExposure + OrderNotional(o) > GlobalExposureThreshold)
      /\ WithinUserLimit(o.tier, o.userExposure + OrderNotional(o))
  BY <1>2 DEF Decision, o
<1>5. Cost(r)' = n
  BY <1>2 DEF Cost
<1>6. n \in Nat /\ e \in Nat /\ GlobalExposure \in Nat /\ TierLimit(u) \in Nat
  <2>1. q \in Int /\ p \in Nat
    BY LedgerAssumption
  <2>2. n \in Nat
    BY <2>1, Arithmetic
  <2>. QED BY <2>2, ExposureTerms, DueTypes DEF DuesTyped
<1>. HIDE DEF n, e
<1>7. GlobalExposure + n <= GlobalExposureThreshold
  BY <1>3, <1>4, <1>6, SettingsAssumption
<1>8. 100 * (e + n) <= TierLimit(u)
  BY <1>3, <1>4 DEF WithinUserLimit, TierLimit
<1>9. 100 * e + 100 * n <= TierLimit(u)
  BY <1>6, <1>8
<1>10. CreateRiskFacts(r, u)
  BY <1>1, <1>2, <1>5, <1>7, <1>9 DEF CreateRiskFacts, e
<1>. QED BY <1>10

LEMMA CreateRiskKeepsOverlap ==
  ASSUME TypeInv, TypeInv', OverlapInv, NEW r \in Reqs, CreateRisk(r), req'[r].pc # "rejected"
  PROVE  OverlapInv'
<1>1. PICK u \in Users : CreateRiskFacts(r, u)
  BY CreateRiskApproves
<1> DEFINE n == Cost(r)'
           e == SumFunctionOnSet(req[r].seen, Reqs)
<1>2. /\ u = req[r].user /\ req'[r].user = u /\ req'[r].pc = "c_place" /\ req'[r].price \in Prices
      /\ GlobalExposure + n <= GlobalExposureThreshold
      /\ 100 * e + 100 * n <= TierLimit(u)
  BY <1>1 DEF CreateRiskFacts
<1>3. n \in Nat /\ e \in Nat /\ GlobalExposure \in Nat /\ TierLimit(u) \in Nat
  BY DueTypes, DueTypesNext, ExposureTerms DEF DuesTyped
<1>4. n <= GlobalExposureThreshold /\ 100 * n <= TierLimit(u)
  <2>. HIDE DEF n, e
  <2>. QED BY <1>2, <1>3, SettingsAssumption
<1>5. /\ \A q \in Reqs \ {r} : req'[q] = req[q]
      /\ req[r].pc = "c_risk" /\ pos' = pos /\ [Next]_vars
  BY OthersStand DEF CreateRisk, rows, Next, Step, CreateOrder
<1>6. LivePositions' = LivePositions
  BY <1>5 DEF LivePositions
<1>7. GlobalExposure' = GlobalExposure /\ \A v : UserExposure(v)' = UserExposure(v)
  BY <1>5, <1>6, ExposureShrinks
<1>8. Approved(r)'
  BY <1>2, <1>4 DEF Approved, TierLimit
<1>9. \A q \in Reqs \ {r} : Relieved(q)
  BY <1>5 DEF Relieved
<1>10. OrdersApproved'
  BY <1>8, <1>9, RelievedDues DEF OrdersApproved
<1>11. \A q \in Reqs \ {r} : \A v \in Users : UserDue(v)'[q] <= UserDue(v)[q]
  BY <1>9, RelievedDues
<1>12. Cardinality(InFlight)' <= MaxInFlight
  BY <1>5, InFlightBounded DEF OverlapInv
<1>13. Reserved(GlobalExposure, Due, GlobalExposureThreshold)'
  <2> DEFINE D2 == Due'
             F == InFlight'
             g == GlobalExposure
  <2>1. /\ \A q \in Reqs \ InFlight' : Due'[q] = 0
        /\ \A q \in Reqs : Due'[q] <= GlobalExposureThreshold
    BY <1>10, DuesWithinLimitNext DEF DuesLimited
  <2>2. D2[r] = n
    BY <1>2 DEF Due, OrderPcs
  <2>3. /\ F \in SUBSET Reqs /\ r \in F /\ Cardinality(F) <= MaxInFlight
        /\ (\A q \in Reqs \ F : D2[q] = 0) /\ \A q \in F : D2[q] <= GlobalExposureThreshold
    BY <1>2, <1>12, <2>1 DEF InFlight, Final
  <2>4. D2 \in [Reqs -> Nat] /\ g \in Nat /\ g + D2[r] <= GlobalExposureThreshold
    BY <1>2, <1>3, <2>2, DueTypesNext DEF DuesTyped
  <2>. HIDE DEF D2, F, g, n
  <2>5. Reserved(g, D2, GlobalExposureThreshold)
    BY <2>3, <2>4, SettingsAssumption, ReservedAnew
  <2>. QED BY <1>7, <2>5 DEF D2, g, Reserved
<1>14. ASSUME NEW v \in Users PROVE Reserved(100 * UserExposure(v), UserDue(v), TierLimit(v))'
  <2> DEFINE D == UserDue(v)
             D2 == UserDue(v)'
             x == 100 * UserExposure(v)
  <2>1. /\ D \in [Reqs -> Nat] /\ D2 \in [Reqs -> Nat]
        /\ Reserved(x, D, TierLimit(v)) /\ TierLimit(v) \in Nat
    BY DueTypes, DueTypesNext DEF OverlapInv, DuesTyped
  <2>2. x \in Nat
    BY ExposureTerms
  <2>3. D2[r] = IF v = u THEN 100 * n ELSE 0
    BY <1>2 DEF UserDue, OrderPcs
  <2>4. D[r] = IF v = u THEN MaxOf(TierLimit(u) - 100 * e, 0) ELSE 0
    BY <1>2, <1>5 DEF UserDue, Room, OrderPcs
  <2>5. D2[r] <= D[r]
    <3>. HIDE DEF D, D2, n, e
    <3>. QED BY <1>2, <1>3, <2>3, <2>4 DEF MaxOf
  <2>6. \A q \in Reqs : D2[q] <= D[q]
    BY <1>11, <2>5
  <2>. HIDE DEF D, D2, x
  <2>7. Reserved(x, D2, TierLimit(v))
    BY <2>1, <2>2, <2>6, ReservedShrinks
  <2>. QED BY <1>7, <2>7 DEF D2, x, Reserved, TierLimit
<1>15. AtPrice'
  BY <1>5, <1>6 DEF OverlapInv, AtPrice
<1>. QED BY <1>10, <1>12, <1>13, <1>14, <1>15 DEF OverlapInv

\* The order is booked: the position it is booked on, live or closed meanwhile,
\* grows by no more than the order's notional, and nothing is due any more.
LEMMA CreateCommitKeepsOverlap ==
  ASSUME OnePrice, TypeInv, TypeInv', LockInv, BookInv, OverlapInv, NEW r \in Reqs, CreateCommit(r)
  PROVE  OverlapInv'
<1>. USE DEF BookInv
<1>1. PICK t \in Reqs, u \in Users : t = req[r].target /\ u = req[r].user
  BY Committing DEF TypeInv, Control, RecordOK, UserPcs
<1> DEFINE x == req[r].price
           n == Cost(r)
<1>2. /\ req[r].pc = "c_commit" /\ Computed(r) /\ ~Booked(r)
      /\ pos'[t].state = IF t = r THEN "live" ELSE pos[t].state
      /\ pos'[t].qty = req[r].newQty /\ pos'[t].notional = Abs(req[r].newQty) * x
      /\ \A p \in Reqs \ {t} : pos'[p] = pos[p]
      /\ req'[r].pc = "done"
      /\ \A p \in Reqs : req'[p].user = req[p].user
      /\ \A p \in Reqs \ {r} : req'[p] = req[p]
  BY <1>1, Committing
<1>3. x \in Prices /\ n \in Nat
  BY <1>2, DueTypes DEF OverlapInv, OrdersApproved, Approved, OrderPcs, DuesTyped
<1>4. t # r => req[t].user = u
  BY <1>1, <1>2 DEF Computed, SameBook
<1> DEFINE L == LivePositions
<1>5. LivePositions' = IF t \in L \/ t = r THEN L \cup {t} ELSE L
  BY <1>1, <1>2 DEF LivePositions
<1>6. \A v : LivePositionsOf(v)' =
        IF v = u /\ (t \in L \/ t = r) THEN LivePositionsOf(v) \cup {t} ELSE LivePositionsOf(v)
  BY <1>1, <1>2, <1>4, <1>5 DEF LivePositionsOf, LivePositions
<1>7. /\ req[r].qty \in Int /\ req[r].newQty \in Int /\ x \in Nat /\ pos[t].qty \in Int
      /\ \A p \in LivePositions : pos[p].notional = Abs(pos[p].qty) * x
  BY <1>3, LedgerAssumption DEF TypeInv, TypeOK, RequestRecord, PositionRow, OverlapInv, AtPrice
<1>8. /\ pos'[t].notional \in Nat
      /\ t = r => pos'[t].notional = n
      /\ t \in L => pos'[t].notional <= n + pos[t].notional
  <2>1. pos'[t].notional \in Nat
    BY <1>2, <1>7, Arithmetic
  <2>2. t = r => pos'[t].notional = n
    BY <1>1, <1>2 DEF Computed, Cost
  <2>3. CASE t \in L
    <3>1. t # r
      BY <1>2, <2>3 DEF LivePositions, Booked
    <3>2. req[r].newQty = pos[t].qty + req[r].qty
      BY <1>1, <1>2, <3>1 DEF Computed
    <3>3. Abs(pos[t].qty + req[r].qty) * x <= Abs(req[r].qty) * x + Abs(pos[t].qty) * x
      BY <1>7, NotionalGrowth
    <3>. QED BY <1>2, <1>7, <2>1, <2>2, <2>3, <3>2, <3>3 DEF Cost
  <2>. QED BY <2>1, <2>2, <2>3
<1> DEFINE f == Notionals
           g == Notionals'
<1>9. /\ \A p \in Reqs : f[p] = pos[p].notional /\ f[p] \in Nat
      /\ \A p \in Reqs \ {t} : g[p] = f[p]
      /\ g[t] = pos'[t].notional
  BY <1>2, ExposureTerms DEF Notionals
<1>10. \A p \in Reqs : g[p] \in Nat
  BY <1>8, <1>9
<1>11. t \in L => t # r
  BY <1>2 DEF LivePositions, Booked
<1>. HIDE DEF f, g, n, x, L
<1>12. ASSUME NEW S, IsFiniteSet(S), S \subseteq Reqs, t \in S <=> t \in L, t \in L \/ t = r
       PROVE  SumFunctionOnSet(g, S \cup {t}) <= SumFunctionOnSet(f, S) + n
  <2>1. g[t] <= n + (IF t \in S THEN f[t] ELSE 0)
    BY <1>3, <1>8, <1>9, <1>12
  <2>2. (\A p \in S : f[p] \in Nat /\ g[p] \in Nat) /\ g[t] \in Nat /\ \A p \in S \ {t} : g[p] = f[p]
    BY <1>9, <1>10, <1>12
  <2>. QED BY <1>3, <1>12, <2>1, <2>2, SumGrows
<1>13. ASSUME NEW S, IsFiniteSet(S), S \subseteq Reqs \ {t}
       PROVE  SumFunctionOnSet(g, S) = SumFunctionOnSet(f, S)
  BY <1>9, <1>13, SumEqual
<1>14. /\ IsFiniteSet(LivePositions) /\ LivePositions \subseteq Reqs
       /\ \A v : IsFiniteSet(LivePositionsOf(v)) /\ LivePositionsOf(v) \subseteq Reqs
       /\ GlobalExposure \in Nat /\ \A v : UserExposure(v) \in Nat
  BY ExposureTerms
<1>15. GlobalExposure' <= GlobalExposure + n
  <2>1. CASE t \in L \/ t = r
    <3> DEFINE S == LivePositions
    <3>1. IsFiniteSet(S) /\ S \subseteq Reqs /\ (t \in S <=> t \in L) /\ LivePositions' = S \cup {t}
      BY <1>5, <1>14, <2>1 DEF L
    <3>2. GlobalExposure' = SumFunctionOnSet(g, LivePositions') /\ GlobalExposure = SumFunctionOnSet(f, S)
      BY DEF GlobalExposure, f, g
    <3>. HIDE DEF S
    <3>. QED BY <1>12, <2>1, <3>1, <3>2
  <2>2. CASE ~(t \in L \/ t = r)
    <3> DEFINE S == LivePositions
    <3>1. IsFiniteSet(S) /\ S \subseteq Reqs \ {t} /\ LivePositions' = S
      BY <1>5, <1>14, <2>2 DEF L
    <3>2. GlobalExposure' = SumFunctionOnSet(g, LivePositions') /\ GlobalExposure = SumFunctionOnSet(f, S)
      BY DEF GlobalExposure, f, g
    <3>. HIDE DEF S
    <3>. QED BY <1>3, <1>13, <1>14, <3>1, <3>2
  <2>. QED BY <2>1, <2>2
<1>16. ASSUME NEW v \in Users
       PROVE  UserExposure(v)' <= UserExposure(v) + (IF v = u THEN n ELSE 0)
  <2>1. CASE v = u /\ (t \in L \/ t = r)
    <3> DEFINE S == LivePositionsOf(u)
    <3>1. IsFiniteSet(S) /\ S \subseteq Reqs /\ LivePositionsOf(u)' = S \cup {t}
      BY <1>6, <1>14, <2>1
    <3>2. t \in S <=> t \in L
      BY <1>4, <1>11 DEF LivePositionsOf, L
    <3>3. UserExposure(u)' = SumFunctionOnSet(g, LivePositionsOf(u)') /\ UserExposure(u) = SumFunctionOnSet(f, S)
      BY DEF UserExposure, f, g
    <3>. HIDE DEF S
    <3>. QED BY <1>12, <2>1, <3>1, <3>2, <3>3
  <2>2. CASE ~(v = u /\ (t \in L \/ t = r))
    <3> DEFINE S == LivePositionsOf(v)
    <3>1. IsFiniteSet(S) /\ S \subseteq Reqs \ {t} /\ LivePositionsOf(v)' = S
      BY <1>4, <1>6, <1>11, <1>14, <2>2 DEF LivePositionsOf, L
    <3>2. UserExposure(v)' = SumFunctionOnSet(g, LivePositionsOf(v)') /\ UserExposure(v) = SumFunctionOnSet(f, S)
      BY DEF UserExposure, f, g
    <3>. HIDE DEF S
    <3>. QED BY <1>3, <1>13, <1>14, <3>1, <3>2
  <2>. QED BY <2>1, <2>2
<1>17. GlobalExposure' \in Nat /\ \A v : UserExposure(v)' \in Nat
  <2>1. ASSUME NEW S, IsFiniteSet(S), S \subseteq Reqs PROVE SumFunctionOnSet(g, S) \in Nat
    BY <1>10, <2>1, SumNat
  <2>2. \A S : IsFiniteSet(S) /\ S \subseteq Reqs => IsFiniteSet(S \cup {t}) /\ S \cup {t} \subseteq Reqs
    BY FS_AddElement
  <2>3. IsFiniteSet(LivePositions') /\ LivePositions' \subseteq Reqs
    BY <1>5, <1>14, <2>2 DEF L
  <2>4. \A v : IsFiniteSet(LivePositionsOf(v)') /\ LivePositionsOf(v)' \subseteq Reqs
    BY <1>6, <1>14, <2>2
  <2>5. GlobalExposure' \in Nat
    BY <2>1, <2>3 DEF GlobalExposure, g
  <2>6. ASSUME NEW v PROVE UserExposure(v)' \in Nat
    BY <2>1, <2>4 DEF UserExposure, g
  <2>. QED BY <2>5, <2>6
<1>18. \A q \in Reqs : Relieved(q)
  BY <1>2 DEF Relieved, OrderPcs
<1>19. /\ \A q \in Reqs : Due'[q] <= Due[q]
       /\ \A v \in Users : \A q \in Reqs : UserDue(v)'[q] <= UserDue(v)[q]
       /\ OrdersApproved'
  BY <1>18, RelievedDues DEF OrdersApproved
<1>20. Reserved(GlobalExposure, Due, GlobalExposureThreshold)'
  <2> DEFINE D == Due
             D2 == Due'
             e == GlobalExposure
             e2 == GlobalExposure'
  <2>1. D[r] = n /\ D2[r] = 0
    BY <1>2 DEF Due, OrderPcs, n
  <2>2. /\ D \in [Reqs -> Nat] /\ D2 \in [Reqs -> Nat] /\ e \in Nat /\ e2 \in Nat
        /\ Reserved(e, D, GlobalExposureThreshold)
        /\ (\A q \in Reqs \ {r} : D2[q] <= D[q])
    BY <1>14, <1>17, <1>19, DueTypes, DueTypesNext DEF OverlapInv, DuesTyped
  <2>. HIDE DEF D, D2, e, e2
  <2>3. e2 + D2[r] <= e + D[r]
    BY <1>15, <2>1, <2>2, <1>3 DEF e, e2
  <2>4. Reserved(e2, D2, GlobalExposureThreshold)
    BY <2>2, <2>3, SettingsAssumption, ReservedStays
  <2>. QED BY <2>4 DEF D2, e2, Reserved
<1>21. ASSUME NEW v \in Users PROVE Reserved(100 * UserExposure(v), UserDue(v), TierLimit(v))'
  <2> DEFINE D == UserDue(v)
             D2 == UserDue(v)'
             e == 100 * UserExposure(v)
             e2 == 100 * UserExposure(v)'
  <2>1. D[r] = (IF v = u THEN 100 * n ELSE 0) /\ D2[r] = 0
    BY <1>1, <1>2 DEF UserDue, OrderPcs, n
  <2>2. D \in [Reqs -> Nat] /\ D2 \in [Reqs -> Nat] /\ (\A q \in Reqs \ {r} : D2[q] <= D[q])
    BY <1>19, DueTypes, DueTypesNext DEF DuesTyped
  <2>3. Reserved(e, D, TierLimit(v)) /\ TierLimit(v) \in Nat
    BY DueTypes DEF OverlapInv, DuesTyped
  <2>4. e \in Nat /\ e2 \in Nat /\ e2 <= e + (IF v = u THEN 100 * n ELSE 0)
    BY <1>3, <1>14, <1>16, <1>17
  <2>. HIDE DEF D, D2, e, e2
  <2>5. e2 + D2[r] <= e + D[r]
    BY <1>3, <2>1, <2>4
  <2>6. Reserved(e2, D2, TierLimit(v))
    BY <2>2, <2>3, <2>4, <2>5, ReservedStays
  <2>. QED BY <2>6 DEF D2, e2, Reserved, TierLimit
<1>22. AtPrice'
  <2>1. \A y \in Prices : y = x
    BY <1>3 DEF OnePrice
  <2>2. pos'[t].notional = Abs(pos'[t].qty) * x
    BY <1>2 DEF x
  <2>3. \A p \in LivePositions \ {t} : pos'[p].notional = Abs(pos'[p].qty) * x
    BY <1>2, <1>7, <1>14
  <2>. QED BY <1>5, <2>1, <2>2, <2>3 DEF AtPrice, L
<1>23. Cardinality(InFlight)' <= MaxInFlight
  <2>1. [Next]_vars
    BY DEF Next, Step, CreateOrder
  <2>. QED BY <2>1, InFlightBounded DEF OverlapInv
<1>. QED BY <1>19, <1>20, <1>21, <1>22, <1>23 DEF OverlapInv

\* A step of a request other than those.
LEMMA RequestKeepsOverlap ==
  ASSUME TypeInv, TypeInv', OverlapInv, NEW r \in Reqs, Step(r),
         ~(CreateExposure(r) /\ req'[r].pc # "failed"), ~(CreateRisk(r) /\ req'[r].pc # "rejected"),
         ~CreateCommit(r)
  PROVE  OverlapInv'
<1>1. [Next]_vars /\ \A q \in Reqs \ {r} : req'[q] = req[q]
  BY OthersStand DEF Next
<1>2. CASE CloseCommit(r)
  <2>1. req[r].target \in Reqs
    BY <1>2 DEF CloseCommit, TypeInv, Control, RecordOK, TargetPcs, ClosePcs
  <2>2. \A p \in Reqs : /\ pos'[p].notional = pos[p].notional /\ pos'[p].qty = pos[p].qty
                        /\ pos'[p].state = IF p = req[r].target THEN "liquidated" ELSE pos[p].state
    BY <1>2, <2>1 DEF CloseCommit, TypeInv, TypeOK, PositionRow
  <2>3. LivePositions' \subseteq LivePositions
    BY <2>2 DEF LivePositions
  <2>4. req'[r].pc = "done"
    BY <1>2, Answered DEF CloseCommit
  <2>5. \A q \in Reqs : Relieved(q)
    BY <1>1, <2>4 DEF Relieved, OrderPcs
  <2>. QED BY <1>1, <2>2, <2>3, <2>5, RelievedKeepsOverlap
<1>3. CASE Unlocked(r) \/ CreateLock(r) \/ CloseLock(r)
  <2>1. pos' = pos
    BY <1>3, UnlockedSteps DEF CreateLock, CloseLock, rows
  <2>2. LivePositions' = LivePositions
    BY <2>1 DEF LivePositions
  <2>3. Relieved(r)
    <3>1. CASE (CreatePlace(r) \/ CreateFlush(r)) /\ req'[r].pc # "failed"
      BY <3>1, CreateRecords DEF CreatePlace, CreateFlush, SameOrder, Relieved, OrderPcs
    <3>2. CASE CreateLock(r)
      BY <3>2, Selecting DEF CreateLock, Relieved, OrderPcs
    <3>3. CASE CloseLock(r)
      BY <3>3, CloseRecords DEF Relieved, OrderPcs
    <3>4. CASE Unlocked(r) /\ ~((CreatePlace(r) \/ CreateFlush(r)) /\ req'[r].pc # "failed")
      BY <3>4, Moves DEF Unlocked, CancelOrder, SyncBalance, Relieved, OrderPcs
    <3>. QED BY <1>3, <3>1, <3>2, <3>3, <3>4
  <2>4. \A q \in Reqs : Relieved(q)
    BY <1>1, <2>3 DEF Relieved
  <2>. QED BY <1>1, <2>1, <2>2, <2>4, RelievedKeepsOverlap
<1>. QED BY <1>2, <1>3 DEF Step, CreateOrder, ClosePosition, Unlocked

LEMMA OtherStepsKeepOverlap ==
  ASSUME TypeInv, TypeInv', OverlapInv,
         \/ Liquidate \/ DetectDeadlock \/ Crash \/ Quiet \/ UNCHANGED vars
         \/ \E o \in Reqs : ExchangeFill(o) \/ KeyExpire(o)
  PROVE  OverlapInv'
<1>1. [Next]_vars
  BY DEF Next
<1>2. \A q \in Reqs : Relieved(q)
  BY OtherRecords DEF Relieved, OrderPcs
<1>3. CASE UdsCommit
  <2>1. \A p \in Reqs : /\ pos'[p].notional = pos[p].notional /\ pos'[p].qty = pos[p].qty
                        /\ pos'[p].state \in {"liquidated", pos[p].state}
    BY <1>3 DEF UdsCommit, TypeInv, TypeOK, PositionRow
  <2>2. LivePositions' \subseteq LivePositions
    BY <2>1 DEF LivePositions
  <2>. QED BY <1>1, <1>2, <2>1, <2>2, RelievedKeepsOverlap
<1>4. CASE ~UdsCommit
  <2>1. pos' = pos
    BY <1>4 DEF Liquidate, UdsBegin, UdsPosition, DetectDeadlock, Crash, Quiet, vars, rows,
                ExchangeFill, KeyExpire
  <2>2. LivePositions' = LivePositions
    BY <2>1 DEF LivePositions
  <2>. QED BY <1>1, <1>2, <2>1, <2>2, RelievedKeepsOverlap
<1>. QED BY <1>3, <1>4

LEMMA OverlapStep ==
  ASSUME OnePrice, TypeInv, TypeInv', LockInv, BookInv, OverlapInv, [Next]_vars
  PROVE  OverlapInv'
<1>1. ASSUME NEW r \in Reqs, Step(r) PROVE OverlapInv'
  BY <1>1, RequestKeepsOverlap, CreateExposureKeepsOverlap, CreateRiskKeepsOverlap,
     CreateCommitKeepsOverlap
<1>. QED BY <1>1, OtherStepsKeepOverlap DEF Next

LEMMA OverlapAlways ==
  ASSUME OnePrice
  PROVE  Spec => []OverlapInv
<1>1. TypeInv /\ LockInv /\ BookInv /\ [Next]_vars => TypeInv' /\ LockInv' /\ BookInv'
  BY TypeStep, LocksStep, BooksStep
<1>2. TypeInv /\ TypeInv' /\ LockInv /\ BookInv /\ OverlapInv /\ [Next]_vars => OverlapInv'
  BY OverlapStep
<1>. QED BY TypeInit, LocksInit, BooksInit, OverlapInit, <1>1, <1>2, PTL DEF Spec

LEMMA WithinReserve ==
  ASSUME TypeInv, OverlapInv
  PROVE  ExposureWithinOverlap
<1>1. ASSUME NEW D \in [Reqs -> Nat], NEW e \in Nat, NEW n \in Nat, Reserved(e, D, n)
      PROVE  e <= MaxInFlight * n
  <2>1. SumFunctionOnSet(D, Reqs) \in Nat
    BY LedgerAssumption, SumNat
  <2>2. MaxInFlight * n \in Nat
    BY LedgerAssumption
  <2>. QED BY <1>1, <2>1, <2>2 DEF Reserved
<1>2. GlobalExposure <= MaxInFlight * GlobalExposureThreshold
  BY <1>1, ExposureTerms, DueTypes DEF OverlapInv, DuesTyped
<1>3. ASSUME NEW u \in Users PROVE 100 * UserExposure(u) <= MaxInFlight * TierLimit(u)
  <2>1. 100 * UserExposure(u) \in Nat
    BY ExposureTerms
  <2>. QED BY <1>1, <2>1, DueTypes DEF OverlapInv, DuesTyped
<1>. QED BY <1>2, <1>3 DEF ExposureWithinOverlap, TierLimit

\* At one price, no interleaving of MaxInFlight handlers takes the live positions
\* together past MaxInFlight times the global threshold: an approved order, with
\* the exposure it has read, fits the threshold, and only orders that are approved
\* and not yet committed can be missing from an exposure that is read.  Nor does it
\* take a user's live positions past MaxInFlight times the limit of the user's tier,
\* although the user's exposure is read at an earlier await than the decision.
THEOREM ExposureAlwaysWithinOverlap ==
  ASSUME OnePrice
  PROVE  Spec => []ExposureWithinOverlap
<1>1. TypeInv /\ [Next]_vars => TypeInv'
  BY TypeStep
<1>2. TypeInv /\ OverlapInv => ExposureWithinOverlap
  BY WithinReserve
<1>. QED BY TypeInit, OverlapAlways, <1>1, <1>2, PTL DEF Spec

\* Handled one at a time, no sequence of orders, closes and liquidations takes the
\* live positions together past the global threshold: the bound above for one
\* handler is the threshold itself.
THEOREM SerialGlobalExposureWithinThreshold ==
  ASSUME MaxInFlight = 1, OnePrice
  PROVE  Spec => []GlobalExposureWithinThreshold
<1>1. ExposureWithinOverlap => GlobalExposureWithinThreshold
  BY SettingsAssumption DEF ExposureWithinOverlap, GlobalExposureWithinThreshold
<1>. QED BY ExposureAlwaysWithinOverlap, <1>1, PTL

\* Nor does it take a user's live positions past the limit of the user's tier.
THEOREM SerialUserExposureWithinLimit ==
  ASSUME MaxInFlight = 1, OnePrice
  PROVE  Spec => []UserExposureWithinLimit
<1>1. ExposureWithinOverlap => UserExposureWithinLimit
  <2>1. \A u \in Users : GlobalExposureThreshold * ExposurePercent[Tier[u]] \in Int
    BY LedgerAssumption, SettingsAssumption DEF ExposurePercent, Tiers
  <2>. QED BY <2>1 DEF ExposureWithinOverlap, UserExposureWithinLimit, WithinUserLimit
<1>. QED BY ExposureAlwaysWithinOverlap, <1>1, PTL
=============================================================================
