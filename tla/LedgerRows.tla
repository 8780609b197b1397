----------------------------- MODULE LedgerRows -----------------------------
(***************************************************************************)
(* What the ledger's tables promise to whoever reads them between the      *)
(* commits of create_order, close_position and _apply_liquidation.  A      *)
(* position is named by the order that opened it.                          *)
(***************************************************************************)
CONSTANT Orders   \* orders, opening, adding to or closing a position

VARIABLES
  booked,    \* [Orders -> the orders that make up the position o opened]
  closed,    \* positions with `liquidated` set
  trades     \* orders that have their order row and their trade row

ledger == <<booked, closed, trades>>

Positions == {p \in Orders : booked[p] # {}}
Live == Positions \ closed

LedgerInit ==
  /\ booked = [o \in Orders |-> {}]
  /\ closed = {} /\ trades = {}

\* An order opens a position or adds to one: to the live position it has selected,
\* which a liquidation may have closed since.
Create(o) ==
  /\ o \notin trades
  /\ trades' = trades \cup {o}
  /\ closed' = closed
  /\ \E p \in Positions \cup {o} : booked' = [booked EXCEPT ![p] = @ \cup {o}]

\* A position is closed by its primary key, even if it is closed by now.
Close(o) ==
  /\ o \notin trades
  /\ trades' = trades \cup {o}
  /\ booked' = booked
  /\ \E p \in Positions : closed' = closed \cup {p}

\* A liquidation closes positions and makes no trade.
Liquidate ==
  /\ UNCHANGED <<booked, trades>>
  /\ \E some \in (SUBSET Positions) \ {{}} : closed' = closed \cup some

LedgerNext == (\E o \in Orders : Create(o) \/ Close(o)) \/ Liquidate

LedgerSpec == LedgerInit /\ [][LedgerNext]_ledger
=============================================================================
