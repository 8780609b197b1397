------------------------------- MODULE FeedMC -------------------------------
EXTENDS MarketData, TLC

\* Clients are interchangeable, and so are the calls of get_price, the viewers and the symbols.
Sym == Permutations(Clients) \cup Permutations(Readers) \cup Permutations(Viewers)
         \cup Permutations(Symbols)

\* The two parts share nothing but the code of their loops: a behaviour exercises one.
Focus == Init \/ KlineInit
=============================================================================
