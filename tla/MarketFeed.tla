----------------------------- MODULE MarketFeed -----------------------------
(***************************************************************************)
(* Prices and their distribution: the mark price stream                    *)
(* (market_stream.py), the price cache and the price requests of           *)
(* market_service.py, the publisher task market_stream_publisher of        *)
(* main.py, and the market clients of ws_hub.py.                           *)
(*                                                                         *)
(* A price is the number of times the exchange has moved it.  Stream and   *)
(* publisher broadcast to one set of clients (HubLoop).                    *)
(***************************************************************************)
EXTENDS HubLoop

CONSTANTS Clients,   \* websockets that will connect
          Readers,   \* callers of get_price: orders, closes, price requests
          MaxMoves   \* bound on the moves of a price

ASSUME FeedAssumption ==
  /\ IsFiniteSet(Clients) /\ None \notin Clients \cup Symbols
  /\ MaxMoves \in Nat \ {0}

VARIABLES
  exchange,  \* [Symbols -> the exchange's price]
  prices,    \* [Symbols -> _prices, 0 if absent]
  active,    \* _stream_active
  stream,    \* the connection: waiting, streaming or closing
  pub,       \* the publisher: [pc, todo, asked, since, updated]
  reader,    \* [Readers -> a call of get_price: [pc, symbol, since, price]]
  hub,       \* _market_clients
  client,    \* [Clients -> the websocket: new, open, broken or left]
  cast,      \* [Casters -> the broadcast under way]
  missed     \* what broadcasts did to clients they did not reach

vars == <<exchange, prices, active, stream, pub, reader, hub, client, cast, missed>>
sockets == <<hub, client, cast, missed>>

Casters == {"publisher", "stream"}
Tick == [pc |-> "tick", todo |-> {}, asked |-> None, since |-> 0, updated |-> FALSE]

Init ==
  /\ exchange = [s \in Symbols |-> 1] /\ prices = [s \in Symbols |-> 0]
  /\ active = FALSE /\ stream = "waiting"
  /\ pub = Tick
  /\ reader = [r \in Readers |-> [pc |-> "idle", symbol |-> None, since |-> 0, price |-> 0]]
  /\ hub = {} /\ client = [x \in Clients |-> "new"]
  /\ cast = [c \in Casters |-> NoCast] /\ missed = {}
-----------------------------------------------------------------------------
(***************************************************************************)
(* ws_hub.broadcast_market                                                 *)
(***************************************************************************)
Begin(c) ==
  /\ \E begun \in Begun(hub) : cast' = [cast EXCEPT ![c] = begun]
  /\ UNCHANGED <<hub, client, missed>>

\* A turn of c's loop; the clients that it discards are gone from the other's set, too.
Advance(c, early) ==
  /\ cast[c].at # None
  /\ \E turn \in Turns(cast[c], hub, {x \in Clients : client[x] # "open"}, early) :
       /\ hub' = turn.clients
       /\ cast' = [d \in Casters |-> IF d = c THEN turn.cast ELSE Disturbed(cast[d], hub \ hub')]
       /\ missed' = missed \cup turn.unserved
  /\ client' = client

\* Defective variant: a stale client is discarded in the loop over the clients.
SendDiscarding(c) == Advance(c, TRUE)

\* The stale clients are discarded when the loop is over.
Send(c) == Advance(c, FALSE)

\* Whether this step of c's broadcast raises.
Raises(c) == Cardinality(hub) # cast[c].size
-----------------------------------------------------------------------------
(***************************************************************************)
(* Clients: the websocket endpoint adds them, and removes them when its    *)
(* receive raises.                                                         *)
(***************************************************************************)
Join(x) ==
  /\ client[x] = "new"
  /\ client' = [client EXCEPT ![x] = "open"]
  /\ hub' = hub \cup {x}
  /\ cast' = [c \in Casters |-> Joined(cast[c])]
  /\ UNCHANGED <<exchange, prices, active, stream, pub, reader, missed>>

Break(x) ==
  /\ client[x] = "open"
  /\ client' = [client EXCEPT ![x] = "broken"]
  /\ UNCHANGED <<exchange, prices, active, stream, pub, reader, hub, cast, missed>>

Leave(x) ==
  /\ client[x] \in {"open", "broken"}
  /\ client' = [client EXCEPT ![x] = "left"]
  /\ hub' = hub \ {x}
  /\ cast' = [c \in Casters |-> Disturbed(cast[c], hub \cap {x})]
  /\ UNCHANGED <<exchange, prices, active, stream, pub, reader, missed>>
-----------------------------------------------------------------------------
(***************************************************************************)
(* The mark price stream                                                   *)
(***************************************************************************)
Connect ==
  /\ stream = "waiting"
  /\ stream' = "streaming" /\ active' = TRUE
  /\ UNCHANGED <<exchange, prices, pub, reader, sockets>>

\* A message sets the price and is broadcast; the next one is read afterwards.
MarkPrice(s) ==
  /\ stream = "streaming" /\ cast["stream"].at = None
  /\ prices' = [prices EXCEPT ![s] = exchange[s]]
  /\ Begin("stream")
  /\ UNCHANGED <<exchange, active, stream, pub, reader>>

\* An error in a broadcast is logged and the message forgotten.
StreamSend == Send("stream") /\ UNCHANGED <<exchange, prices, active, stream, pub, reader>>

\* The messages end, with or without an error, and the closing is awaited.
Disconnect ==
  /\ stream = "streaming" /\ cast["stream"].at = None
  /\ stream' = "closing"
  /\ UNCHANGED <<exchange, prices, active, pub, reader, sockets>>

\* Defective variant: the cache is still taken to be current.
DisconnectedStillActive ==
  /\ stream = "closing"
  /\ stream' = "waiting"
  /\ UNCHANGED <<exchange, prices, active, pub, reader, sockets>>

Disconnected ==
  /\ stream = "closing"
  /\ stream' = "waiting" /\ active' = FALSE
  /\ UNCHANGED <<exchange, prices, pub, reader, sockets>>
-----------------------------------------------------------------------------
(***************************************************************************)
(* The publisher: tick, broadcast, sleep                                   *)
(***************************************************************************)
\* tick returns: what was updated is broadcast.
Publish(updated) ==
  IF updated /\ hub # {} THEN pub' = [Tick EXCEPT !.pc = "cast"] /\ Begin("publisher")
                         ELSE pub' = Tick /\ UNCHANGED sockets

\* With an active stream the cached prices are taken; otherwise the symbols are
\* asked for one after the other.
PublisherTick ==
  /\ pub.pc = "tick"
  /\ IF active
     THEN Publish(\E s \in Symbols : prices[s] # 0)
     ELSE pub' = [Tick EXCEPT !.pc = "poll", !.todo = Symbols] /\ UNCHANGED sockets
  /\ UNCHANGED <<exchange, prices, active, stream, reader>>

PublisherAsk ==
  /\ pub.pc = "poll" /\ pub.asked = None
  /\ \E s \in pub.todo :
       pub' = [pub EXCEPT !.asked = s, !.since = exchange[s], !.todo = @ \ {s}]
  /\ UNCHANGED <<exchange, prices, active, stream, reader, sockets>>

\* The answer carries a price the exchange had since; a failed request is skipped.
PublisherAnswer ==
  LET s == pub.asked
  IN  /\ s # None
      /\ \E ok \in BOOLEAN, v \in pub.since .. exchange[s] :
           LET updated == ok \/ pub.updated
           IN  /\ prices' = IF ok THEN [prices EXCEPT ![s] = v] ELSE prices
               /\ IF pub.todo = {}
                  THEN Publish(updated)
                  ELSE /\ pub' = [pub EXCEPT !.asked = None, !.since = 0, !.updated = updated]
                       /\ UNCHANGED sockets
      /\ UNCHANGED <<exchange, active, stream, reader>>

\* An exception of the broadcast ends the publisher: nothing catches it.
PublisherSend ==
  /\ pub.pc = "cast"
  /\ Send("publisher")
  /\ pub' = IF Raises("publisher") THEN [pub EXCEPT !.pc = "dead"]
            ELSE IF cast'["publisher"].at = None THEN Tick ELSE pub
  /\ UNCHANGED <<exchange, prices, active, stream, reader>>
-----------------------------------------------------------------------------
(***************************************************************************)
(* get_price                                                               *)
(***************************************************************************)
PriceAsk(r) ==
  /\ reader[r].pc = "idle"
  /\ \E s \in Symbols :
       reader' = [reader EXCEPT ![r] = [@ EXCEPT !.pc = "asked", !.symbol = s, !.since = exchange[s]]]
  /\ UNCHANGED <<exchange, prices, active, stream, pub, sockets>>

\* Defective variant: a failed request is answered from the cache.
PriceAnswerCached(r) ==
  LET s == reader[r].symbol
  IN  /\ reader[r].pc = "asked"
      /\ \E v \in {prices[s]} \cup reader[r].since .. exchange[s] :
           /\ reader' = [reader EXCEPT ![r].pc = "answered", ![r].price = v]
           /\ prices' = [prices EXCEPT ![s] = v]
      /\ UNCHANGED <<exchange, active, stream, pub, sockets>>

\* The exchange's answer is cached and returned; a failed request raises.
PriceAnswer(r) ==
  LET s == reader[r].symbol
  IN  /\ reader[r].pc = "asked"
      /\ \/ \E v \in reader[r].since .. exchange[s] :
              /\ reader' = [reader EXCEPT ![r].pc = "answered", ![r].price = v]
              /\ prices' = [prices EXCEPT ![s] = v]
         \/ /\ reader' = [reader EXCEPT ![r].pc = "failed"]
            /\ prices' = prices
      /\ UNCHANGED <<exchange, active, stream, pub, sockets>>

PriceMoves(s) ==
  /\ exchange[s] < MaxMoves
  /\ exchange' = [exchange EXCEPT ![s] = @ + 1]
  /\ UNCHANGED <<prices, active, stream, pub, reader, sockets>>

Next ==
  \/ \E x \in Clients : Join(x) \/ Break(x) \/ Leave(x)
  \/ Connect \/ StreamSend \/ Disconnect \/ Disconnected
  \/ \E s \in Symbols : MarkPrice(s) \/ PriceMoves(s)
  \/ PublisherTick \/ PublisherAsk \/ PublisherAnswer \/ PublisherSend
  \/ \E r \in Readers : PriceAsk(r) \/ PriceAnswer(r)

Spec == Init /\ [][Next]_vars
-----------------------------------------------------------------------------
\* The variables' types.
TypeOK ==
  /\ exchange \in [Symbols -> 1 .. MaxMoves] /\ prices \in [Symbols -> 0 .. MaxMoves]
  /\ active \in BOOLEAN /\ stream \in {"waiting", "streaming", "closing"}
  /\ pub \in [pc : {"tick", "poll", "cast", "dead"}, todo : SUBSET Symbols,
              asked : Symbols \cup {None}, since : 0 .. MaxMoves, updated : BOOLEAN]
  /\ reader \in [Readers -> [pc : {"idle", "asked", "answered", "failed"},
                             symbol : Symbols \cup {None},
                             since : 0 .. MaxMoves, price : 0 .. MaxMoves]]
  /\ hub \subseteq Clients
  /\ client \in [Clients -> {"new", "open", "broken", "left"}]
  /\ cast \in [Casters -> [at : Clients \cup {None}, size : 0 .. Cardinality(Clients),
                           sent : SUBSET Clients, stale : SUBSET Clients,
                           present : SUBSET Clients, churn : BOOLEAN]]
  /\ missed \subseteq [client : Clients, churn : BOOLEAN]

\* The cache counts as current only while there is a connection that writes it, or one
\* whose closing is awaited: _stream_active never outlives a lost connection.
CacheIsStreamed == active => stream # "waiting"

\* However sockets break, a broadcast reaches every client that was connected throughout
\* unless clients were added or removed by other tasks while it ran: a broadcast's own
\* stale clients never cut it short.
OnlyChurnCutsShort == \A m \in missed : m.churn

\* A price that is returned was the exchange's after the call was made: never the
\* cache's.
PriceIsFresh ==
  \A r \in Readers : reader[r].pc = "answered" => reader[r].price >= reader[r].since

=============================================================================
