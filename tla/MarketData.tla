----------------------------- MODULE MarketData -----------------------------
(***************************************************************************)
(* What the process knows of the market: prices and candles, brought by    *)
(* two streams of their own and sent to two kinds of clients of one hub.   *)
(***************************************************************************)
EXTENDS MarketFeed, KlineStream

MarketInit == Init /\ KlineInit

MarketNext ==
  \/ Next /\ UNCHANGED klineVars
  \/ KlineNext /\ UNCHANGED vars

marketVars == <<vars, klineVars>>

MarketSpec == MarketInit /\ [][MarketNext]_marketVars
=============================================================================
