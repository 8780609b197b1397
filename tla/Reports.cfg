CONSTANTS
  o1 = o1
  o2 = o2
  o3 = o3
  o4 = o4
  Orders = {o1, o2, o3}
  TradeLimit = 3
SPECIFICATION Spec
SYMMETRY OrderSymmetry
INVARIANTS
  OverviewMissesNoPosition
  SnapshotPositionsHaveTrades
