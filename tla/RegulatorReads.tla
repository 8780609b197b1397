--------------------------- MODULE RegulatorReads ---------------------------
(***************************************************************************)
(* The regulator's two aggregate reports, get_overview and                 *)
(* get_ledger_snapshot of regulator_service.py.  Each is a series of       *)
(* SELECTs in one READ COMMITTED transaction: every SELECT sees what is    *)
(* committed when it runs, and the ledger (LedgerRows, which TradingLedger *)
(* implements) moves on in between.                                        *)
(*                                                                         *)
(* What a SELECT counts or lists is kept as the set it ranges over.        *)
(***************************************************************************)
EXTENDS LedgerRows, Naturals, Sequences, FiniteSets

CONSTANT TradeLimit   \* LIMIT of the recent trades

ASSUME ReportsAssumption == TradeLimit \in Nat \ {0}

VARIABLES
  audited,   \* orders that have their audit row
  overview,  \* the overview being made: [step, active, exposure, liquidations, known]
  snapshot   \* the snapshot being made: [step, positions, trades, audit]

vars == <<booked, closed, trades, audited, overview, snapshot>>

Shown == [p \in Live |-> booked[p]]

Idle == [step |-> 0, active |-> {}, exposure |-> {}, liquidations |-> {}, known |-> {}]
NoSnapshot == [step |-> 0, positions |-> <<>>, trades |-> {}, audit |-> {}]

Init ==
  /\ LedgerInit /\ audited = {}
  /\ overview = Idle /\ snapshot = NoSnapshot
-----------------------------------------------------------------------------
\* A commit of the ledger's handlers.
Commit == LedgerNext /\ UNCHANGED <<audited, overview, snapshot>>

\* The audit task of an order, after its commit.
Audit(o) ==
  /\ o \in trades \ audited
  /\ audited' = audited \cup {o}
  /\ UNCHANGED <<ledger, overview, snapshot>>
-----------------------------------------------------------------------------
(***************************************************************************)
(* get_overview                                                            *)
(***************************************************************************)
\* Defective variant: the liquidations are counted first.
OverviewSelectsReversed == <<"liquidations", "exposure", "active">>

\* The counts of positions, in the order in which they are selected.
OverviewSelects == <<"active", "exposure", "liquidations">>

\* The next SELECT; the first one begins a report, and `known` keeps the
\* positions there were then.
OverviewSelect ==
  LET last == IF overview.step = 3 THEN Idle ELSE overview
      i    == last.step + 1
      kind == OverviewSelects[i]
      from == IF i = 1 THEN [last EXCEPT !.known = Positions] ELSE last
  IN  /\ overview' = [from EXCEPT !.step = i,
                                  ![kind] = IF kind = "liquidations" THEN closed ELSE Live]
      /\ UNCHANGED <<ledger, audited, snapshot>>
-----------------------------------------------------------------------------
(***************************************************************************)
(* get_ledger_snapshot                                                     *)
(***************************************************************************)
\* The newest trades; which ones they are makes no difference here.
Recent == IF Cardinality(trades) <= TradeLimit THEN {trades}
          ELSE {some \in SUBSET trades : Cardinality(some) = TradeLimit}

\* The request arrives; the first SELECT has not run yet.
SnapshotBegin ==
  /\ snapshot.step \in {0, 4}
  /\ snapshot' = [NoSnapshot EXCEPT !.step = 1]
  /\ UNCHANGED <<ledger, audited, overview>>

\* Defective variant: the trades are selected before the positions.
SnapshotSelectsTradesFirst == <<"trades", "positions", "audit">>

SnapshotSelects == <<"positions", "trades", "audit">>

SnapshotSelect ==
  /\ snapshot.step \in 1..3
  /\ \E recent \in Recent :
       snapshot' = [snapshot EXCEPT !.step = @ + 1,
                      ![SnapshotSelects[snapshot.step]] =
                         CASE SnapshotSelects[snapshot.step] = "positions" -> Shown
                           [] SnapshotSelects[snapshot.step] = "trades"    -> recent
                           [] SnapshotSelects[snapshot.step] = "audit"     -> audited]
  /\ UNCHANGED <<ledger, audited, overview>>

Next ==
  \/ Commit
  \/ \E o \in Orders : Audit(o)
  \/ OverviewSelect
  \/ SnapshotBegin \/ SnapshotSelect

Spec == Init /\ [][Next]_vars
-----------------------------------------------------------------------------
\* Every variable keeps its type, and only orders with a trade are booked.
TypeOK ==
  /\ booked \in [Orders -> SUBSET Orders]
  /\ \A p \in Orders : booked[p] \subseteq trades
  /\ closed \subseteq Positions
  /\ trades \subseteq Orders /\ audited \subseteq trades
  /\ overview.step \in 0..3 /\ snapshot.step \in 0..4
  /\ \A f \in {"active", "exposure", "liquidations", "known"} : overview[f] \subseteq Orders
  /\ DOMAIN snapshot.positions \subseteq Orders
  /\ snapshot.trades \subseteq Orders /\ snapshot.audit \subseteq Orders

\* A finished overview has counted every position there was when it began as
\* active or as liquidated, whatever was closed meanwhile: active positions are
\* counted before the liquidated ones, and none goes back.
OverviewMissesNoPosition ==
  overview.step = 3 => overview.known \subseteq overview.active \cup overview.liquidations

\* A finished snapshot has the trade of every order that its live positions are
\* made of, as long as its list of trades is not full: positions are selected
\* before trades, and a position and its trade are committed together.
SnapshotPositionsHaveTrades ==
  snapshot.step = 4 /\ Cardinality(snapshot.trades) < TradeLimit =>
    \A p \in DOMAIN snapshot.positions : snapshot.positions[p] \subseteq snapshot.trades
=============================================================================
