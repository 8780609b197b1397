----------------------- MODULE RegulatorReads_proofs -----------------------
(***************************************************************************)
(* What a report made of several SELECTs still guarantees, for every set   *)
(* of orders and every limit on the trades listed.                         *)
(***************************************************************************)
EXTENDS RegulatorReads, FiniteSetTheorems, TLAPS

LedgerType ==
  /\ booked \in [Orders -> SUBSET Orders]
  /\ \A p \in Orders : booked[p] \subseteq trades
  /\ closed \subseteq Positions
  /\ trades \subseteq Orders /\ audited \subseteq trades

Counts == {"active", "exposure", "liquidations", "known"}
SnapshotFields == {"step", "positions", "trades", "audit"}

IsRecord(r, fields) == r = [f \in fields |-> r[f]]

IsOverview(r) ==
  /\ IsRecord(r, {"step"} \cup Counts)
  /\ r.step \in 0..3 /\ \A f \in Counts : r[f] \subseteq Orders

IsSnapshot(r) ==
  /\ IsRecord(r, SnapshotFields)
  /\ r.step \in 0..4 /\ DOMAIN r.positions \subseteq Orders
  /\ r.trades \subseteq Orders /\ r.audit \subseteq Orders

\* The two reports are records with their fields.
ReportType == IsOverview(overview) /\ IsSnapshot(snapshot)

\* Between its SELECTs a report relies on what the ledger only adds to: a position missing
\* from the active ones is closed and stays so, and an order of a listed position keeps
\* its trade.
ReportInv ==
  /\ LedgerType /\ ReportType
  /\ overview.step # 0 => overview.known \subseteq overview.active \cup closed
  /\ OverviewMissesNoPosition
  /\ snapshot.step = 2 =>
       \A p \in DOMAIN snapshot.positions : snapshot.positions[p] \subseteq trades
  /\ snapshot.step \in 3..4 /\ Cardinality(snapshot.trades) < TradeLimit =>
       \A p \in DOMAIN snapshot.positions : snapshot.positions[p] \subseteq snapshot.trades

LEMMA ReportsInit == Init => ReportInv
<1> SUFFICES ASSUME Init PROVE ReportInv
  OBVIOUS
<1>1. LedgerType
  BY DEF Init, LedgerInit, LedgerType, Positions
<1>2. DOMAIN <<>> = {}
  OBVIOUS
<1>3. /\ snapshot.step = 0 /\ snapshot.positions = <<>> /\ snapshot.trades = {}
      /\ snapshot.audit = {}
  BY DEF Init, NoSnapshot
<1>4. IsRecord(snapshot, SnapshotFields) /\ IsRecord(overview, {"step"} \cup Counts)
  BY DEF Init, NoSnapshot, Idle, IsRecord, SnapshotFields, Counts
<1>6. overview.step = 0 /\ \A f \in Counts : overview[f] = {}
  BY DEF Init, Idle, Counts
<1>7. ReportType
  BY <1>2, <1>3, <1>4, <1>6 DEF ReportType, IsOverview, IsSnapshot
<1>. QED BY <1>1, <1>3, <1>6, <1>7 DEF ReportInv, OverviewMissesNoPosition

\* A commit takes no trade back and reopens no position.
LEMMA LedgerGrows ==
  ASSUME LedgerType, Commit \/ \E o \in Orders : Audit(o)
  PROVE  /\ LedgerType' /\ trades \subseteq trades' /\ closed \subseteq closed'
         /\ UNCHANGED <<overview, snapshot>>
<1>1. ASSUME NEW o \in Orders, Create(o), Commit
      PROVE  /\ LedgerType' /\ trades \subseteq trades' /\ closed \subseteq closed'
             /\ UNCHANGED <<overview, snapshot>>
  <2>1. PICK p \in Positions \cup {o} : booked' = [booked EXCEPT ![p] = @ \cup {o}]
    BY <1>1 DEF Create
  <2>2. p \in Orders /\ trades' = trades \cup {o}
        /\ UNCHANGED <<closed, audited, overview, snapshot>>
    BY <1>1, <2>1 DEF Create, Commit, Positions
  <2>3. /\ booked' \in [Orders -> SUBSET Orders]
        /\ \A q \in Orders : booked'[q] = IF q = p THEN booked[p] \cup {o} ELSE booked[q]
    BY <2>1, <2>2 DEF LedgerType
  <2>4. \A q \in Orders : booked'[q] \subseteq trades'
    BY <2>2, <2>3 DEF LedgerType
  <2>5. Positions \subseteq Positions'
    BY <2>3 DEF Positions
  <2>. QED BY <2>2, <2>3, <2>4, <2>5 DEF LedgerType
<1>2. ASSUME NEW o \in Orders, Close(o), Commit
      PROVE  /\ LedgerType' /\ trades \subseteq trades' /\ closed \subseteq closed'
             /\ UNCHANGED <<overview, snapshot>>
  BY <1>2 DEF Close, Commit, LedgerType, Positions
<1>3. ASSUME NEW o \in Orders, Audit(o)
      PROVE  /\ LedgerType' /\ trades \subseteq trades' /\ closed \subseteq closed'
             /\ UNCHANGED <<overview, snapshot>>
  BY <1>3 DEF Audit, ledger, LedgerType, Positions
<1>4. CASE Liquidate /\ Commit
  BY <1>4 DEF Liquidate, Commit, LedgerType, Positions
<1>. QED BY <1>1, <1>2, <1>3, <1>4 DEF Commit, LedgerNext

LEMMA OverviewStep ==
  ASSUME ReportInv, OverviewSelect
  PROVE  ReportInv'
<1>1. /\ UNCHANGED <<booked, closed, trades, audited, snapshot>> /\ LedgerType /\ ReportType
      /\ Live \subseteq Orders /\ closed \subseteq Orders /\ Positions \subseteq Orders
      /\ Positions \subseteq Live \cup closed
  BY DEF OverviewSelect, ledger, ReportInv, LedgerType, Live, Positions
<1>2. overview.step \in 0..3
  BY <1>1 DEF ReportType, IsOverview
<1>3. ASSUME IsOverview(overview'), overview'.step # 0,
             overview'.known \subseteq overview'.active \cup closed,
             overview'.step = 3 => overview'.liquidations = closed
      PROVE  ReportInv'
  <2>1. LedgerType' /\ ReportType'
    BY <1>1, <1>3 DEF LedgerType, ReportType, Positions
  <2>. QED BY <1>1, <1>3, <2>1 DEF ReportInv, OverviewMissesNoPosition
<1> DEFINE last     == IF overview.step = 3 THEN Idle ELSE overview
           i        == last.step + 1
           kind     == OverviewSelects[i]
           from     == IF i = 1 THEN [last EXCEPT !.known = Positions] ELSE last
           selected == IF kind = "liquidations" THEN closed ELSE Live
<1>4. overview' = [from EXCEPT !.step = i, ![kind] = selected]
  BY DEF OverviewSelect
<1>5. last.step \in 0..2 /\ IsOverview(last) /\ (overview.step # 3 => last = overview)
      /\ (overview.step = 3 => last.step = 0)
  <2>1. IsOverview(Idle) /\ Idle.step = 0
    BY DEF Idle, IsOverview, IsRecord, Counts
  <2>. QED BY <1>1, <1>2, <2>1 DEF ReportType
<1>6. IsOverview(from) /\ (IF i = 1 THEN from.known = Positions ELSE from = last)
  <2>. HIDE DEF last
  <2>1. CASE i = 1
    <3>1. from = [last EXCEPT !.known = Positions]
      BY <2>1
    <3>. HIDE DEF from
    <3>. QED BY <1>1, <1>5, <2>1, <3>1 DEF IsOverview, IsRecord, Counts
  <2>2. CASE i # 1
    BY <1>5, <2>2
  <2>. QED BY <2>1, <2>2
<1>7. /\ i \in 1..3 /\ selected \subseteq Orders
      /\ kind = (IF i = 1 THEN "active" ELSE IF i = 2 THEN "exposure" ELSE "liquidations")
      /\ selected = (IF i = 3 THEN closed ELSE Live)
  <2>1. i \in 1..3
    BY <1>5
  <2>. HIDE DEF i
  <2>2. kind = (IF i = 1 THEN "active" ELSE IF i = 2 THEN "exposure" ELSE "liquidations")
    BY <2>1 DEF OverviewSelects
  <2>. HIDE DEF kind
  <2>. QED BY <1>1, <2>1, <2>2
<1>8. i = last.step + 1
  OBVIOUS
<1>. HIDE DEF last, i, kind, from, selected
<1>9. /\ IsRecord(overview', {"step"} \cup Counts)
      /\ \A f \in {"step"} \cup Counts :
           overview'[f] = IF f = kind THEN selected ELSE IF f = "step" THEN i ELSE from[f]
  <2>1. "step" \in {"step"} \cup Counts /\ kind \in {"step"} \cup Counts
    BY <1>7 DEF Counts
  <2>2. IsRecord(from, {"step"} \cup Counts)
    BY <1>6 DEF IsOverview
  <2> DEFINE fields == {"step"} \cup Counts
             step   == "step"
  <2>3. overview' = [from EXCEPT ![step] = i, ![kind] = selected]
    BY <1>4
  <2>4. IsRecord(from, fields) /\ step \in fields /\ kind \in fields
    BY <2>1, <2>2
  <2>. HIDE DEF fields, step
  <2>5. /\ IsRecord(overview', fields)
        /\ \A f \in fields :
             overview'[f] = IF f = kind THEN selected ELSE IF f = step THEN i ELSE from[f]
    BY <2>3, <2>4 DEF IsRecord
  <2>. QED BY <2>5 DEF fields, step
<1>10. /\ overview'.step = i /\ overview'.known = from.known
       /\ overview'.active = IF i = 1 THEN Live ELSE from.active
       /\ i = 3 => overview'.liquidations = closed
  BY <1>7, <1>9 DEF Counts
<1>11. IsOverview(overview')
  <2>1. \A f \in Counts : overview'[f] \subseteq Orders
    <3>1. \A f \in Counts : overview'[f] = IF f = kind THEN selected ELSE from[f]
      BY <1>9 DEF Counts
    <3>. QED BY <1>6, <1>7, <3>1 DEF IsOverview
  <2>. QED BY <1>7, <1>9, <1>10, <2>1 DEF IsOverview
<1>12. overview'.known \subseteq overview'.active \cup closed
  <2>1. CASE i = 1
    BY <1>1, <1>6, <1>10, <2>1
  <2>2. CASE i # 1
    <3>1. overview.step # 0 /\ from = overview
      BY <1>2, <1>5, <1>6, <1>8, <2>2
    <3>. QED BY <1>10, <2>2, <3>1 DEF ReportInv
  <2>. QED BY <2>1, <2>2
<1>. QED BY <1>3, <1>7, <1>10, <1>11, <1>12

\* A list of trades that is not full holds all of them.
LEMMA ShortListIsComplete ==
  ASSUME NEW recent \in Recent, Cardinality(recent) < TradeLimit
  PROVE  recent = trades
BY ReportsAssumption DEF Recent

LEMMA SnapshotStep ==
  ASSUME ReportInv, SnapshotSelect
  PROVE  ReportInv'
<1>1. /\ UNCHANGED <<booked, closed, trades, audited, overview>> /\ LedgerType /\ ReportType
      /\ snapshot.step \in 1..3 /\ trades \subseteq Orders /\ audited \subseteq Orders
  BY DEF SnapshotSelect, ledger, ReportInv, LedgerType
<1>2. PICK recent \in Recent :
        snapshot' = [snapshot EXCEPT !.step = @ + 1,
                       ![SnapshotSelects[snapshot.step]] =
                          CASE SnapshotSelects[snapshot.step] = "positions" -> Shown
                            [] SnapshotSelects[snapshot.step] = "trades"    -> recent
                            [] SnapshotSelects[snapshot.step] = "audit"     -> audited]
  BY DEF SnapshotSelect
<1>3. recent \subseteq Orders
  BY <1>1 DEF Recent
<1> DEFINE i    == snapshot.step
           kind == SnapshotSelects[i]
           rows == CASE kind = "positions" -> Shown
                     [] kind = "trades"    -> recent
                     [] kind = "audit"     -> audited
<1>4. /\ IsRecord(snapshot', SnapshotFields) /\ snapshot'.step = i + 1
      /\ \A f \in SnapshotFields \ {"step"} :
           snapshot'[f] = IF f = kind THEN rows ELSE snapshot[f]
  <2>1. kind \in SnapshotFields \ {"step"} /\ "step" \in SnapshotFields
    BY <1>1 DEF SnapshotSelects, SnapshotFields
  <2> DEFINE step == "step"
             next == i + 1
  <2>2. snapshot' = [snapshot EXCEPT ![step] = next, ![kind] = rows]
    BY <1>2
  <2>3. kind \in SnapshotFields /\ step \in SnapshotFields
    BY <2>1
  <2>4. IsRecord(snapshot, SnapshotFields)
    BY <1>1 DEF ReportType, IsSnapshot
  <2>. HIDE DEF i, kind, rows, step, next
  <2>5. /\ IsRecord(snapshot', SnapshotFields)
        /\ \A f \in SnapshotFields :
             snapshot'[f] = IF f = kind THEN rows ELSE IF f = step THEN next ELSE snapshot[f]
    BY <2>2, <2>3, <2>4 DEF IsRecord
  <2>. QED BY <2>1, <2>5 DEF step, next
<1>5. ASSUME IsSnapshot(snapshot'), snapshot'.step \in 2..4,
             snapshot'.step = 2 =>
               \A p \in DOMAIN snapshot'.positions : snapshot'.positions[p] \subseteq trades,
             snapshot'.step \in 3..4 /\ Cardinality(snapshot'.trades) < TradeLimit =>
               \A p \in DOMAIN snapshot'.positions :
                 snapshot'.positions[p] \subseteq snapshot'.trades
      PROVE  ReportInv'
  <2>1. LedgerType' /\ ReportType'
    BY <1>1, <1>5 DEF LedgerType, Positions, ReportType
  <2>. QED BY <1>1, <1>5, <2>1 DEF ReportInv, OverviewMissesNoPosition
<1>6. CASE i = 1
  <2>1. kind = "positions"
    BY <1>6 DEF SnapshotSelects
  <2>2. rows = Shown
    BY <2>1
  <2>. HIDE DEF kind, rows
  <2>3. /\ snapshot'.step = 2 /\ snapshot'.positions = Shown
        /\ snapshot'.trades = snapshot.trades /\ snapshot'.audit = snapshot.audit
    BY <1>4, <1>6, <2>1, <2>2 DEF SnapshotFields
  <2>4. DOMAIN Shown = Live /\ \A p \in Live : Shown[p] = booked[p]
    BY DEF Shown
  <2>5. Live \subseteq Orders /\ \A p \in Live : booked[p] \subseteq trades
    BY <1>1 DEF Live, Positions, LedgerType
  <2>6. IsSnapshot(snapshot')
    BY <1>1, <1>4, <2>3, <2>4, <2>5 DEF ReportType, IsSnapshot
  <2>. QED BY <1>5, <2>3, <2>4, <2>5, <2>6
<1>7. CASE i = 2
  <2>1. kind = "trades"
    BY <1>7 DEF SnapshotSelects
  <2>2. rows = recent
    BY <2>1
  <2>. HIDE DEF kind, rows
  <2>3. /\ snapshot'.step = 3 /\ snapshot'.positions = snapshot.positions
        /\ snapshot'.trades = recent /\ snapshot'.audit = snapshot.audit
    BY <1>4, <1>7, <2>1, <2>2 DEF SnapshotFields
  <2>4. Cardinality(recent) < TradeLimit =>
          \A p \in DOMAIN snapshot.positions : snapshot.positions[p] \subseteq recent
    BY <1>7, ShortListIsComplete DEF ReportInv
  <2>5. IsSnapshot(snapshot')
    BY <1>1, <1>3, <1>4, <2>3 DEF ReportType, IsSnapshot
  <2>. QED BY <1>5, <2>3, <2>4, <2>5
<1>8. CASE i = 3
  <2>1. kind = "audit"
    BY <1>8 DEF SnapshotSelects
  <2>2. rows = audited
    BY <2>1
  <2>. HIDE DEF kind, rows
  <2>3. /\ snapshot'.step = 4 /\ snapshot'.positions = snapshot.positions
        /\ snapshot'.trades = snapshot.trades /\ snapshot'.audit = audited
    BY <1>4, <1>8, <2>1, <2>2 DEF SnapshotFields
  <2>4. IsSnapshot(snapshot')
    BY <1>1, <1>4, <2>3 DEF ReportType, IsSnapshot
  <2>. QED BY <1>5, <1>8, <2>3, <2>4 DEF ReportInv
<1>. QED BY <1>1, <1>6, <1>7, <1>8

LEMMA ReportsStep ==
  ASSUME ReportInv, [Next]_vars
  PROVE  ReportInv'
<1>1. CASE Commit \/ \E o \in Orders : Audit(o)
  <2>1. /\ LedgerType' /\ trades \subseteq trades' /\ closed \subseteq closed'
        /\ UNCHANGED <<overview, snapshot>>
    BY <1>1, LedgerGrows DEF ReportInv
  <2>2. ReportType'
    BY <2>1 DEF ReportInv, ReportType
  <2>3. snapshot.step = 2 =>
          \A p \in DOMAIN snapshot.positions : snapshot.positions[p] \subseteq trades'
    BY <2>1 DEF ReportInv
  <2>. QED BY <2>1, <2>2, <2>3 DEF ReportInv, OverviewMissesNoPosition
<1>2. CASE SnapshotBegin
  <2>1. /\ UNCHANGED <<booked, closed, trades, audited, overview>>
        /\ snapshot' = [NoSnapshot EXCEPT !.step = 1]
    BY <1>2 DEF SnapshotBegin, ledger
  <2>2. /\ IsRecord(snapshot', SnapshotFields)
        /\ snapshot'.step = 1 /\ snapshot'.positions = <<>>
        /\ snapshot'.trades = {} /\ snapshot'.audit = {}
    BY <2>1 DEF NoSnapshot, IsRecord, SnapshotFields
  <2>3. DOMAIN <<>> = {}
    OBVIOUS
  <2>4. LedgerType' /\ ReportType'
    BY <2>1, <2>2, <2>3 DEF ReportInv, LedgerType, Positions, ReportType, IsSnapshot
  <2>. QED BY <2>1, <2>2, <2>4 DEF ReportInv, OverviewMissesNoPosition
<1>3. CASE UNCHANGED vars
  BY <1>3 DEF vars, ReportInv, LedgerType, ReportType, Positions, OverviewMissesNoPosition
<1>. QED BY <1>1, <1>2, <1>3, OverviewStep, SnapshotStep DEF Next

LEMMA ReportsInvariant == Spec => []ReportInv
BY ReportsInit, ReportsStep, PTL DEF Spec

\* The ledger and the reports keep their types, and every booked order has its trade.
THEOREM ReportsTypeCorrect == Spec => []TypeOK
<1>1. ReportInv => TypeOK
  BY DEF ReportInv, LedgerType, ReportType, IsOverview, IsSnapshot, Counts, TypeOK
<1>. QED BY <1>1, ReportsInvariant, PTL

\* An overview counts every position that was there when it began, although each of its
\* SELECTs sees another state of the ledger.
THEOREM OverviewNeverMissesPosition == Spec => []OverviewMissesNoPosition
<1>1. ReportInv => OverviewMissesNoPosition
  BY DEF ReportInv
<1>. QED BY <1>1, ReportsInvariant, PTL

\* A snapshot whose list of trades is not full has the trade of every order of the
\* positions it lists, although trades are selected later.
THEOREM SnapshotPositionsAlwaysHaveTrades == Spec => []SnapshotPositionsHaveTrades
<1>1. ReportInv => SnapshotPositionsHaveTrades
  BY DEF ReportInv, SnapshotPositionsHaveTrades
<1>. QED BY <1>1, ReportsInvariant, PTL
=============================================================================
