CONSTANTS
  Clients = {c1, c2}
  Symbols = {btc, eth}
  Readers = {r1}
  Viewers = {v1, v2}
  None = None
  MaxMoves = 2
  MaxHours = 2
  MaxFrames = 2
SPECIFICATION MarketSpec
SYMMETRY Sym
CONSTRAINT Focus
INVARIANTS
  
  OnlyChurnCutsShort
  
  MonitorIsCurrent
