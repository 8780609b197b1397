-------------------------- MODULE MarketData_proofs --------------------------
(***************************************************************************)
(* Prices, candles and their distribution, for every set of clients,       *)
(* viewers and symbols, and any number of price moves, hours and frames.   *)
(***************************************************************************)
EXTENDS MarketData, FiniteSetTheorems, SequenceTheorems, TLAPS

(***************************************************************************)
(* A turn of a broadcast's loop                                            *)
(***************************************************************************)
Broadcast(members) ==
  [at : members \cup {None}, size : Nat, sent : SUBSET members, stale : SUBSET members,
   present : SUBSET members, churn : BOOLEAN]

\* As long as nobody else has changed the set, the loop ranges over it.
Undisturbed(broadcast, clients) ==
  broadcast.at # None /\ ~broadcast.churn =>
    broadcast.present = clients /\ broadcast.size = Cardinality(clients)

LEMMA NoCastFacts ==
  ASSUME NEW members
  PROVE  NoCast \in Broadcast(members) /\ NoCast.at = None
BY DEF NoCast, Broadcast

LEMMA BegunFacts ==
  ASSUME NEW members, IsFiniteSet(members), NEW clients \in SUBSET members,
         NEW begun \in Begun(clients)
  PROVE  begun \in Broadcast(members) /\ Undisturbed(begun, clients)
<1>1. Cardinality(clients) \in Nat
  BY FS_Subset, FS_CardinalityType
<1>2. CASE clients = {}
  BY <1>2, NoCastFacts DEF Begun, Undisturbed
<1>3. CASE clients # {}
  <2>1. PICK x \in clients :
          begun = [NoCast EXCEPT !.at = x, !.size = Cardinality(clients), !.present = clients]
    BY <1>3 DEF Begun
  <2>2. begun = [at |-> x, size |-> Cardinality(clients), sent |-> {}, stale |-> {},
                 present |-> clients, churn |-> FALSE]
    BY <2>1 DEF NoCast
  <2>. QED BY <1>1, <2>2 DEF Broadcast, Undisturbed
<1>. QED BY <1>2, <1>3

\* What other tasks do to a broadcast's set shows in it.
LEMMA DisturbedFacts ==
  ASSUME NEW members, NEW b \in Broadcast(members), NEW clients, NEW gone \in SUBSET clients,
         Undisturbed(b, clients)
  PROVE  /\ Disturbed(b, gone) \in Broadcast(members)
         /\ Undisturbed(Disturbed(b, gone), clients \ gone)
<1>1. CASE b.at = None
  BY <1>1 DEF Disturbed, Undisturbed
<1>2. CASE b.at # None
  <2> DEFINE churn == b.churn \/ gone # {}
  <2>1. churn \in BOOLEAN
    OBVIOUS
  <2>2. Disturbed(b, gone) = [b EXCEPT !.churn = churn, !.present = b.present \ gone]
    BY <1>2 DEF Disturbed
  <2>. HIDE DEF churn
  <2>3. /\ Disturbed(b, gone) \in Broadcast(members)
        /\ Disturbed(b, gone).at = b.at /\ Disturbed(b, gone).size = b.size
        /\ Disturbed(b, gone).present = b.present \ gone
    BY <2>1, <2>2 DEF Broadcast
  <2>4. Disturbed(b, gone).churn = churn
    BY <2>2, Zenon DEF Broadcast
  <2>5. CASE gone = {}
    <3>1. clients \ gone = clients /\ b.present \ gone = b.present
      BY <2>5
    <3>. QED BY <2>3, <2>4, <2>5, <3>1 DEF Undisturbed, churn
  <2>6. CASE gone # {}
    BY <2>3, <2>4, <2>6 DEF Undisturbed, churn
  <2>. QED BY <2>5, <2>6
<1>. QED BY <1>1, <1>2

LEMMA JoinedFacts ==
  ASSUME NEW members, NEW b \in Broadcast(members)
  PROVE  Joined(b) \in Broadcast(members) /\ \A clients : Undisturbed(Joined(b), clients)
<1> DEFINE churn == b.at # None
<1>1. churn \in BOOLEAN /\ Joined(b) = [b EXCEPT !.churn = churn]
  BY DEF Joined
<1>. HIDE DEF churn
<1>2. Joined(b) \in Broadcast(members) /\ Joined(b).at = b.at
  BY <1>1 DEF Broadcast
<1>3. Joined(b).churn = churn
  BY <1>1, Zenon DEF Broadcast
<1>. QED BY <1>2, <1>3 DEF Undisturbed, churn

\* A turn shrinks the set by what it discards at most, and an undisturbed loop leaves no
\* member unserved.
LEMMA OnToFacts ==
  ASSUME NEW members, NEW b \in Broadcast(members), b.at # None, NEW clients \in SUBSET members,
         Undisturbed(b, clients), NEW x \in clients, NEW stale \in SUBSET members
  PROVE  OnTo(b, x, stale) \in Broadcast(members) /\ Undisturbed(OnTo(b, x, stale), clients)
<1> DEFINE sent == b.sent \cup {b.at}
<1>1. OnTo(b, x, stale) = [b EXCEPT !.at = x, !.sent = sent, !.stale = stale]
  BY DEF OnTo, Broadcast
<1>2. b.at \in members /\ sent \subseteq members
  BY DEF Broadcast
<1>. HIDE DEF sent
<1>3. /\ OnTo(b, x, stale) \in Broadcast(members) /\ OnTo(b, x, stale).size = b.size
      /\ OnTo(b, x, stale).present = b.present
  BY <1>1, <1>2 DEF Broadcast
<1>4. OnTo(b, x, stale).churn = b.churn
  BY <1>1, Zenon DEF Broadcast
<1>. QED BY <1>3, <1>4 DEF Undisturbed

LEMMA EndedFacts ==
  ASSUME NEW members, NEW b \in Broadcast(members), NEW rest,
         b.churn \/ b.present \subseteq b.sent \cup {b.at}
  PROVE  /\ Ended(b, rest).clients = rest /\ Ended(b, rest).cast \in Broadcast(members)
         /\ Undisturbed(Ended(b, rest).cast, rest)
         /\ \A m \in Ended(b, rest).unserved : m.churn
<1> DEFINE sent == b.sent \cup {b.at}
<1>1. /\ Ended(b, rest).clients = rest /\ Ended(b, rest).cast = NoCast
      /\ Ended(b, rest).unserved = Unserved(b, sent)
  BY DEF Ended
<1>2. \A m \in Unserved(b, sent) : m.churn = b.churn
  BY DEF Unserved
<1>3. b.present \subseteq sent => Unserved(b, sent) = {}
  BY DEF Unserved
<1>. HIDE DEF sent
<1>4. \A m \in Unserved(b, sent) : m.churn
  <2>1. CASE b.churn
    BY <1>2, <2>1
  <2>2. CASE ~b.churn
    BY <1>3, <2>2 DEF sent
  <2>. QED BY <2>1, <2>2
<1>. QED BY <1>1, <1>4, NoCastFacts DEF Undisturbed

LEMMA TurnFacts ==
  ASSUME NEW members, NEW b \in Broadcast(members), b.at # None, NEW clients \in SUBSET members,
         Undisturbed(b, clients), NEW broken, NEW turn \in Turns(b, clients, broken, FALSE)
  PROVE  /\ turn.clients \subseteq clients
         /\ turn.cast \in Broadcast(members) /\ Undisturbed(turn.cast, turn.clients)
         /\ \A m \in turn.unserved : m.churn
<1> DEFINE sent == b.sent \cup {b.at}
           stales == {b.stale, b.stale \cup ({b.at} \cap broken)}
           on(x, stale) == [cast |-> OnTo(b, x, stale), clients |-> clients, unserved |-> {}]
<1>1. PICK stale \in stales : turn \in Turn(b, clients, stale)
  BY DEF Turns
<1>2. stale \subseteq members
  BY DEF Broadcast
<1>3. CASE Cardinality(clients) # b.size
  <2>1. turn = Ended(b, clients)
    BY <1>1, <1>3 DEF Turn
  <2>. QED BY <1>3, <2>1, EndedFacts DEF Undisturbed
<1>4. CASE Cardinality(clients) = b.size
  <2>1. \/ \E x \in clients \ sent : turn = on(x, stale)
        \/ (clients \ sent = {} \/ b.churn) /\ turn = Ended(b, clients \ stale)
    BY <1>1, <1>4, Zenon DEF Turn
  <2>2. ASSUME NEW x \in clients \ sent, turn = on(x, stale)
        PROVE  /\ turn.clients \subseteq clients
               /\ turn.cast \in Broadcast(members) /\ Undisturbed(turn.cast, turn.clients)
               /\ \A m \in turn.unserved : m.churn
    <3>1. turn.cast = OnTo(b, x, stale) /\ turn.clients = clients /\ turn.unserved = {}
      BY <2>2
    <3>. QED BY <1>2, <3>1, OnToFacts
  <2>3. CASE (clients \ sent = {} \/ b.churn) /\ turn = Ended(b, clients \ stale)
    <3>1. b.churn \/ b.present \subseteq sent
      BY <2>3 DEF Undisturbed
    <3>. QED BY <2>3, <3>1, EndedFacts
  <2>. QED BY <2>1, <2>2, <2>3
<1>. QED BY <1>3, <1>4
-----------------------------------------------------------------------------
(***************************************************************************)
(* Prices                                                                  *)
(***************************************************************************)
\* market_stream.py: _stream_active is not left true by a connection that is gone.
THEOREM StreamedCache == Spec => []CacheIsStreamed
<1>1. Init => CacheIsStreamed
  BY DEF Init, CacheIsStreamed
<1>2. CacheIsStreamed /\ [Next]_vars => CacheIsStreamed'
  <2> SUFFICES ASSUME CacheIsStreamed, [Next]_vars
               PROVE  CacheIsStreamed'
    OBVIOUS
  <2>1. CASE Connect \/ Disconnect \/ Disconnected
    BY <2>1 DEF Connect, Disconnect, Disconnected, CacheIsStreamed
  <2>2. CASE UNCHANGED <<active, stream>>
    BY <2>2 DEF CacheIsStreamed
  <2>3. ASSUME NEW x \in Clients, Join(x) \/ Break(x) \/ Leave(x)
        PROVE  UNCHANGED <<active, stream>>
    BY <2>3 DEF Join, Break, Leave
  <2>4. ASSUME NEW s \in Symbols, MarkPrice(s) \/ PriceMoves(s)
        PROVE  UNCHANGED <<active, stream>>
    BY <2>4 DEF MarkPrice, PriceMoves
  <2>5. CASE StreamSend \/ PublisherTick \/ PublisherAsk \/ PublisherAnswer \/ PublisherSend
    BY <2>5, <2>2 DEF StreamSend, PublisherTick, PublisherAsk, PublisherAnswer, PublisherSend
  <2>6. ASSUME NEW r \in Readers, PriceAsk(r) \/ PriceAnswer(r)
        PROVE  UNCHANGED <<active, stream>>
    BY <2>6 DEF PriceAsk, PriceAnswer
  <2>7. CASE UNCHANGED vars
    BY <2>7, <2>2 DEF vars
  <2>. QED BY <2>1, <2>2, <2>3, <2>4, <2>5, <2>6, <2>7 DEF Next
<1>. QED BY <1>1, <1>2, PTL DEF Spec

Call == [pc : {"idle", "asked", "answered", "failed"}, symbol : Symbols \cup {None},
         since : Nat, price : Nat]

\* A call under way asks about a symbol whose price has only moved on since.
CallInv ==
  /\ exchange \in [Symbols -> Nat]
  /\ reader \in [Readers -> Call]
  /\ \A r \in Readers : reader[r].pc \in {"asked", "answered"} => reader[r].symbol \in Symbols
  /\ PriceIsFresh

LEMMA ReaderStep ==
  ASSUME CallInv, NEW r \in Readers, PriceAsk(r) \/ PriceAnswer(r)
  PROVE  CallInv'
<1>1. reader[r] \in Call
  BY DEF CallInv
<1>2. ASSUME NEW new \in Call, reader' = [reader EXCEPT ![r] = new], exchange' = exchange,
             new.pc \in {"asked", "answered"} => new.symbol \in Symbols,
             new.pc = "answered" => new.price >= new.since
      PROVE  CallInv'
  <2>1. \A q \in Readers : reader'[q] = IF q = r THEN new ELSE reader[q]
    BY <1>2 DEF CallInv
  <2>2. reader' \in [Readers -> Call]
    BY <1>2 DEF CallInv
  <2>. HIDE DEF Call
  <2>. QED BY <1>2, <2>1, <2>2 DEF CallInv, PriceIsFresh
<1>3. CASE PriceAsk(r)
  <2>1. PICK s \in Symbols :
          reader' = [reader EXCEPT
                       ![r] = [reader[r] EXCEPT !.pc = "asked", !.symbol = s, !.since = exchange[s]]]
    BY <1>3 DEF PriceAsk, CallInv
  <2> DEFINE new == [reader[r] EXCEPT !.pc = "asked", !.symbol = s, !.since = exchange[s]]
  <2>2. new \in Call /\ new.pc = "asked" /\ new.symbol = s
    BY <1>1 DEF Call, CallInv
  <2>3. exchange' = exchange
    BY <1>3 DEF PriceAsk
  <2>. HIDE DEF new
  <2>4. reader' = [reader EXCEPT ![r] = new]
    BY <2>1 DEF new
  <2>. QED BY <1>2, <2>2, <2>3, <2>4
<1>4. CASE PriceAnswer(r)
  <2>0. exchange' = exchange /\ reader[r].pc = "asked"
    BY <1>4 DEF PriceAnswer
  <2>1. CASE \E v \in reader[r].since .. exchange[reader[r].symbol] :
               reader' = [reader EXCEPT ![r].pc = "answered", ![r].price = v]
    <3>1. PICK v \in reader[r].since .. exchange[reader[r].symbol] :
            reader' = [reader EXCEPT ![r].pc = "answered", ![r].price = v]
      BY <2>1
    <3> DEFINE new == [reader[r] EXCEPT !.pc = "answered", !.price = v]
    <3>2. reader[r].since \in Nat /\ reader[r].symbol \in Symbols
      BY <2>0, <1>1 DEF Call, CallInv
    <3>3. v \in Nat /\ v >= reader[r].since
      BY <3>2 DEF CallInv
    <3>4. /\ new \in Call /\ new.price = v /\ new.since = reader[r].since
          /\ new.symbol = reader[r].symbol
      BY <1>1, <3>3 DEF Call
    <3>5. reader' = [reader EXCEPT ![r] = new]
      BY <3>1, <1>1 DEF Call, CallInv
    <3>. HIDE DEF new
    <3>. QED BY <1>2, <2>0, <3>2, <3>3, <3>4, <3>5
  <2>2. CASE reader' = [reader EXCEPT ![r].pc = "failed"]
    <3> DEFINE new == [reader[r] EXCEPT !.pc = "failed"]
    <3>1. new \in Call /\ new.pc = "failed"
      BY <1>1 DEF Call
    <3>2. reader' = [reader EXCEPT ![r] = new]
      BY <2>2, <1>1 DEF Call, CallInv
    <3>. HIDE DEF new
    <3>. QED BY <1>2, <2>0, <3>1, <3>2
  <2>. QED BY <1>4, <2>1, <2>2 DEF PriceAnswer
<1>. QED BY <1>3, <1>4

\* market_service.get_price returns a price of the exchange's that is not older than the
\* call: it reads the cache only through the exchange's answer.
THEOREM FreshPrice == Spec => []PriceIsFresh
<1>1. Init => CallInv
  BY DEF Init, CallInv, PriceIsFresh, Call
<1>2. CallInv /\ [Next]_vars => CallInv'
  <2> SUFFICES ASSUME CallInv, [Next]_vars
               PROVE  CallInv'
    OBVIOUS
  <2>1. CASE UNCHANGED <<exchange, reader>>
    BY <2>1 DEF CallInv, PriceIsFresh
  <2>2. ASSUME NEW r \in Readers, PriceAsk(r) \/ PriceAnswer(r)
        PROVE  CallInv'
    BY <2>2, ReaderStep
  <2>3. ASSUME NEW s \in Symbols, PriceMoves(s)
        PROVE  CallInv'
    <3>1. exchange' \in [Symbols -> Nat]
      BY <2>3 DEF PriceMoves, CallInv
    <3>2. reader' = reader
      BY <2>3 DEF PriceMoves
    <3>. QED BY <3>1, <3>2 DEF CallInv, PriceIsFresh
  <2>4. ASSUME NEW s \in Symbols, MarkPrice(s)
        PROVE  CallInv'
    BY <2>4, <2>1 DEF MarkPrice
  <2>5. ASSUME NEW x \in Clients, Join(x) \/ Break(x) \/ Leave(x)
        PROVE  CallInv'
    BY <2>5, <2>1 DEF Join, Break, Leave
  <2>6. CASE Connect \/ StreamSend \/ Disconnect \/ Disconnected
    BY <2>6, <2>1 DEF Connect, StreamSend, Disconnect, Disconnected
  <2>7. CASE PublisherTick \/ PublisherAsk \/ PublisherAnswer \/ PublisherSend
    BY <2>7, <2>1 DEF PublisherTick, PublisherAsk, PublisherAnswer, PublisherSend
  <2>8. CASE UNCHANGED vars
    BY <2>8, <2>1 DEF vars
  <2>. QED BY <2>2, <2>3, <2>4, <2>5, <2>6, <2>7, <2>8 DEF Next
<1>3. CallInv => PriceIsFresh
  BY DEF CallInv
<1>. QED BY <1>1, <1>2, <1>3, PTL DEF Spec
-----------------------------------------------------------------------------
(***************************************************************************)
(* Broadcasts of prices                                                    *)
(***************************************************************************)
CastInv ==
  /\ hub \subseteq Clients
  /\ cast \in [Casters -> Broadcast(Clients)]
  /\ \A c \in Casters : Undisturbed(cast[c], hub)
  /\ OnlyChurnCutsShort

LEMMA BeginKeeps ==
  ASSUME CastInv, NEW c \in Casters, Begin(c)
  PROVE  CastInv'
<1>1. PICK begun \in Begun(hub) : cast' = [cast EXCEPT ![c] = begun]
  BY DEF Begin
<1>2. begun \in Broadcast(Clients) /\ Undisturbed(begun, hub)
  BY BegunFacts, FeedAssumption DEF CastInv, FeedAssumption
<1>3. hub' = hub /\ missed' = missed
  BY DEF Begin
<1>. QED BY <1>1, <1>2, <1>3 DEF CastInv, OnlyChurnCutsShort

LEMMA SendKeeps ==
  ASSUME CastInv, NEW c \in Casters, Send(c)
  PROVE  CastInv'
<1> DEFINE broken == {x \in Clients : client[x] # "open"}
<1>1. PICK turn \in Turns(cast[c], hub, broken, FALSE) :
        /\ hub' = turn.clients
        /\ cast' = [d \in Casters |-> IF d = c THEN turn.cast ELSE Disturbed(cast[d], hub \ hub')]
        /\ missed' = missed \cup turn.unserved
  BY DEF Send, Advance
<1>2. cast[c] \in Broadcast(Clients) /\ cast[c].at # None /\ Undisturbed(cast[c], hub)
  BY DEF CastInv, Send, Advance
<1>. HIDE DEF broken
<1>3. /\ turn.clients \subseteq hub
      /\ turn.cast \in Broadcast(Clients) /\ Undisturbed(turn.cast, turn.clients)
      /\ \A m \in turn.unserved : m.churn
  BY <1>2, TurnFacts DEF CastInv
<1>4. hub' \subseteq hub /\ hub \ (hub \ hub') = hub'
  BY <1>1, <1>3
<1>5. ASSUME NEW d \in Casters
      PROVE  cast'[d] \in Broadcast(Clients) /\ Undisturbed(cast'[d], hub')
  <2>1. CASE d = c
    BY <1>1, <1>3, <2>1
  <2>2. CASE d # c
    <3>1. cast'[d] = Disturbed(cast[d], hub \ hub')
      BY <1>1, <2>2
    <3>2. cast[d] \in Broadcast(Clients) /\ Undisturbed(cast[d], hub)
      BY DEF CastInv
    <3>3. hub \ hub' \in SUBSET hub
      OBVIOUS
    <3>. QED BY <1>4, <3>1, <3>2, <3>3, DisturbedFacts
  <2>. QED BY <2>1, <2>2
<1>6. \A m \in missed' : m.churn
  BY <1>1, <1>3 DEF CastInv, OnlyChurnCutsShort
<1>7. cast' \in [Casters -> Broadcast(Clients)]
  BY <1>1, <1>5
<1>. QED BY <1>4, <1>5, <1>6, <1>7 DEF CastInv, OnlyChurnCutsShort

LEMMA ClientKeeps ==
  ASSUME CastInv, NEW x \in Clients, Join(x) \/ Break(x) \/ Leave(x)
  PROVE  CastInv'
<1>1. CASE Join(x)
  <2>1. /\ hub' = hub \cup {x} /\ missed' = missed
        /\ cast' = [c \in Casters |-> Joined(cast[c])]
    BY <1>1 DEF Join
  <2>2. \A c \in Casters : cast'[c] \in Broadcast(Clients) /\ Undisturbed(cast'[c], hub')
    BY <2>1, JoinedFacts DEF CastInv
  <2>. QED BY <2>1, <2>2 DEF CastInv, OnlyChurnCutsShort
<1>2. CASE Break(x)
  BY <1>2 DEF Break, CastInv, OnlyChurnCutsShort
<1>3. CASE Leave(x)
  <2>1. /\ hub' = hub \ {x} /\ missed' = missed
        /\ cast' = [c \in Casters |-> Disturbed(cast[c], hub \cap {x})]
    BY <1>3 DEF Leave
  <2>2. hub \cap {x} \in SUBSET hub /\ hub \ (hub \cap {x}) = hub'
    BY <2>1
  <2>3. ASSUME NEW c \in Casters
        PROVE  cast'[c] \in Broadcast(Clients) /\ Undisturbed(cast'[c], hub')
    <3>1. cast'[c] = Disturbed(cast[c], hub \cap {x})
      BY <2>1
    <3>2. cast[c] \in Broadcast(Clients) /\ Undisturbed(cast[c], hub)
      BY DEF CastInv
    <3>. QED BY <2>2, <3>1, <3>2, DisturbedFacts
  <2>. QED BY <2>1, <2>3 DEF CastInv, OnlyChurnCutsShort
<1>. QED BY <1>1, <1>2, <1>3

\* ws_hub.broadcast_market: a client that was connected throughout is passed over only if
\* another task changed the set meanwhile; the discarding of stale clients does no harm.
THEOREM BroadcastsReach == Spec => []OnlyChurnCutsShort
<1>1. Init => CastInv
  BY NoCastFacts DEF Init, CastInv, OnlyChurnCutsShort, Undisturbed
<1>2. CastInv /\ [Next]_vars => CastInv'
  <2> SUFFICES ASSUME CastInv, [Next]_vars
               PROVE  CastInv'
    OBVIOUS
  <2>1. CASE UNCHANGED sockets
    BY <2>1 DEF sockets, CastInv, OnlyChurnCutsShort
  <2>2. ASSUME NEW x \in Clients, Join(x) \/ Break(x) \/ Leave(x)
        PROVE  CastInv'
    BY <2>2, ClientKeeps
  <2>3. ASSUME NEW c \in Casters, Begin(c) \/ Send(c)
        PROVE  CastInv'
    BY <2>3, BeginKeeps, SendKeeps
  <2>4. "stream" \in Casters /\ "publisher" \in Casters
    BY DEF Casters
  <2>5. ASSUME NEW s \in Symbols, MarkPrice(s) \/ PriceMoves(s)
        PROVE  CastInv'
    BY <2>1, <2>3, <2>4, <2>5 DEF MarkPrice, PriceMoves
  <2>6. CASE Connect \/ StreamSend \/ Disconnect \/ Disconnected
    BY <2>1, <2>3, <2>4, <2>6 DEF Connect, StreamSend, Disconnect, Disconnected
  <2>7. ASSUME NEW updated, Publish(updated)
        PROVE  CastInv'
    BY <2>1, <2>3, <2>4, <2>7 DEF Publish
  <2>8. CASE PublisherTick \/ PublisherAsk
    BY <2>1, <2>7, <2>8 DEF PublisherTick, PublisherAsk
  <2>9. CASE PublisherAnswer
    BY <2>1, <2>7, <2>9 DEF PublisherAnswer
  <2>10. CASE PublisherSend
    BY <2>3, <2>4, <2>10 DEF PublisherSend
  <2>11. ASSUME NEW r \in Readers, PriceAsk(r) \/ PriceAnswer(r)
         PROVE  CastInv'
    BY <2>1, <2>11 DEF PriceAsk, PriceAnswer
  <2>12. CASE UNCHANGED vars
    BY <2>1, <2>12 DEF vars, sockets
  <2>. QED BY <2>2, <2>5, <2>6, <2>8, <2>9, <2>10, <2>11, <2>12 DEF Next
<1>3. CastInv => OnlyChurnCutsShort
  BY DEF CastInv
<1>. QED BY <1>1, <1>2, <1>3, PTL DEF Spec
-----------------------------------------------------------------------------
(***************************************************************************)
(* Candles                                                                 *)
(***************************************************************************)
Frames == [symbol : Symbols, interval : Intervals, candle : Nat, closed : BOOLEAN]

\* The frame will set the reading of s.
FeedsOf(f, s) == Feeds(f) /\ f.symbol = s

\* What a symbol's reading has got, or will get, from frames: the newest candle, last.
UpToDate(s) ==
  \/ reading[s] = hour[s] /\ \A i \in 1 .. Len(frames) : ~FeedsOf(frames[i], s)
  \/ \E i \in 1 .. Len(frames) :
       /\ frames[i] = Frame(s, "1h", hour[s], TRUE)
       /\ \A j \in i + 1 .. Len(frames) : ~FeedsOf(frames[j], s)

KlineInv ==
  /\ hour \in [Symbols -> Nat] /\ reading \in [Symbols -> Nat]
  /\ frames \in Seq(Frames)
  /\ \A s \in Symbols \ gap : UpToDate(s)

LEMMA FrameFacts ==
  ASSUME NEW s \in Symbols, NEW i \in Intervals, NEW n \in Nat, NEW closed \in BOOLEAN
  PROVE  /\ Frame(s, i, n, closed) \in Frames /\ Frame(s, i, n, closed).candle = n
         /\ \A t : FeedsOf(Frame(s, i, n, closed), t) <=> closed /\ i = "1h" /\ t = s
<1> DEFINE f == Frame(s, i, n, closed)
<1>1. f \in Frames /\ f.candle = n /\ f.symbol = s /\ f.interval = i
  BY DEF Frame, Frames
<1>2. f.closed = closed
  BY Zenon DEF Frame
<1>. HIDE DEF f
<1>3. \A t : FeedsOf(f, t) <=> closed /\ i = "1h" /\ t = s
  BY <1>1, <1>2, Zenon DEF FeedsOf, Feeds
<1>. QED BY <1>1, <1>3 DEF f

LEMMA ClosingFacts ==
  ASSUME NEW s, NEW n
  PROVE  Frame(s, "1h", n, TRUE).candle = n /\ FeedsOf(Frame(s, "1h", n, TRUE), s)
<1> DEFINE f == Frame(s, "1h", n, TRUE)
<1>1. f.candle = n /\ f.symbol = s /\ f.interval = "1h" /\ f.closed
  BY Zenon DEF Frame
<1>. HIDE DEF f
<1>2. FeedsOf(f, s)
  BY <1>1, Zenon DEF FeedsOf, Feeds
<1>. QED BY <1>1, <1>2, Zenon DEF f

\* The arrival of a frame that does not feed s changes nothing for it.
LEMMA FrameArrives ==
  ASSUME KlineInv, NEW f \in Frames, frames' = Append(frames, f),
         NEW s \in Symbols, ~FeedsOf(f, s), UpToDate(s), reading' = reading, hour'[s] = hour[s]
  PROVE  UpToDate(s)'
<1>1. /\ Len(frames') = Len(frames) + 1 /\ frames'[Len(frames) + 1] = f
      /\ \A i \in 1 .. Len(frames) : frames'[i] = frames[i]
  BY AppendProperties DEF KlineInv
<1>2. Len(frames) \in Nat
  BY DEF KlineInv
<1>3. CASE reading[s] = hour[s] /\ \A i \in 1 .. Len(frames) : ~FeedsOf(frames[i], s)
  <2>1. \A i \in 1 .. Len(frames') : ~FeedsOf(frames'[i], s)
    BY <1>1, <1>2, <1>3
  <2>. QED BY <1>3, <2>1 DEF UpToDate
<1>4. ASSUME NEW i \in 1 .. Len(frames), frames[i] = Frame(s, "1h", hour[s], TRUE),
             \A j \in i + 1 .. Len(frames) : ~FeedsOf(frames[j], s)
      PROVE  UpToDate(s)'
  <2>1. i \in 1 .. Len(frames') /\ frames'[i] = frames[i]
    BY <1>1, <1>2
  <2>2. frames'[i] = Frame(s, "1h", hour'[s], TRUE)
    BY <1>4, <2>1, Zenon
  <2>3. \A j \in i + 1 .. Len(frames') : ~FeedsOf(frames'[j], s)
    BY <1>1, <1>2, <1>4
  <2>. QED BY <2>1, <2>2, <2>3 DEF UpToDate
<1>. QED BY <1>3, <1>4 DEF UpToDate

LEMMA HourKeeps ==
  ASSUME KlineInv, NEW s \in Symbols, CloseHour(s)
  PROVE  KlineInv'
<1>1. hour' \in [Symbols -> Nat] /\ hour'[s] \in Nat /\ reading' = reading
  BY DEF CloseHour, KlineInv
<1>2. \A t \in Symbols \ {s} : hour'[t] = hour[t]
  BY DEF CloseHour, KlineInv
<1>3. CASE link = "streaming"
  <2> DEFINE f == Frame(s, "1h", hour'[s], TRUE)
  <2>1. f \in Frames /\ \A t : FeedsOf(f, t) <=> t = s
    <3>1. "1h" \in Intervals /\ hour'[s] \in Nat /\ TRUE \in BOOLEAN
      BY <1>1 DEF Intervals
    <3>. QED BY <3>1, FrameFacts, Zenon
  <2>2. frames' = Append(frames, f) /\ gap' = gap \ {s}
    BY <1>3 DEF CloseHour
  <2>. HIDE DEF f
  <2>3. /\ frames' \in Seq(Frames) /\ Len(frames') = Len(frames) + 1
        /\ frames'[Len(frames) + 1] = f /\ Len(frames) \in Nat
    BY <2>1, <2>2, AppendProperties DEF KlineInv
  <2>4. UpToDate(s)'
    <3>1. /\ Len(frames') \in 1 .. Len(frames')
          /\ frames'[Len(frames')] = Frame(s, "1h", hour'[s], TRUE)
      BY <2>3 DEF f
    <3>2. Len(frames') + 1 .. Len(frames') = {}
      BY <2>3
    <3>. QED BY <3>1, <3>2 DEF UpToDate
  <2>5. ASSUME NEW t \in Symbols \ gap', t # s
        PROVE  UpToDate(t)'
    BY <1>1, <1>2, <2>1, <2>2, <2>5, FrameArrives DEF KlineInv
  <2>. QED BY <1>1, <2>3, <2>4, <2>5 DEF KlineInv
<1>4. CASE link # "streaming"
  <2>1. frames' = frames /\ gap' = gap \cup {s}
    BY <1>4 DEF CloseHour
  <2>2. ASSUME NEW t \in Symbols \ gap'
        PROVE  UpToDate(t)'
    <3>1. t \in Symbols \ gap /\ hour'[t] = hour[t]
      BY <1>2, <2>1
    <3>. QED BY <1>1, <2>1, <3>1 DEF KlineInv, UpToDate
  <2>. QED BY <1>1, <2>1, <2>2 DEF KlineInv
<1>. QED BY <1>3, <1>4

LEMMA MidKeeps ==
  ASSUME KlineInv, NEW s \in Symbols, NEW i \in Intervals, NEW closed \in BOOLEAN,
         MidHour(s, i, closed)
  PROVE  KlineInv'
<1> DEFINE f == Frame(s, i, hour[s] + 1, closed)
<1>1. f \in Frames /\ \A t : ~FeedsOf(f, t)
  BY FrameFacts DEF MidHour, KlineInv
<1>2. frames' = Append(frames, f) /\ UNCHANGED <<hour, gap, reading>>
  BY DEF MidHour
<1>. HIDE DEF f
<1>3. frames' \in Seq(Frames)
  BY <1>1, <1>2, AppendProperties DEF KlineInv
<1>. QED BY <1>1, <1>2, <1>3, FrameArrives DEF KlineInv

LEMMA ProcessKeeps ==
  ASSUME KlineInv, Process
  PROVE  KlineInv'
<1> DEFINE f == Head(frames)
<1>1. /\ f \in Frames /\ f = frames[1] /\ Len(frames) \in Nat \ {0}
      /\ frames' \in Seq(Frames) /\ Len(frames') = Len(frames) - 1
      /\ \A i \in 1 .. Len(frames) - 1 : frames'[i] = frames[i + 1]
  BY HeadTailProperties DEF Process, KlineInv
<1>2. hour' = hour /\ gap' = gap
  BY DEF Process
<1>3. reading' = IF Feeds(f) THEN [reading EXCEPT ![f.symbol] = f.candle] ELSE reading
  BY DEF Process
<1>4. f.symbol \in Symbols /\ f.candle \in Nat
  BY <1>1 DEF Frames
<1>. HIDE DEF f
<1>5. reading' \in [Symbols -> Nat]
  BY <1>3, <1>4 DEF KlineInv
<1>6. \A s \in Symbols : ~FeedsOf(f, s) => reading'[s] = reading[s]
  BY <1>3, <1>4 DEF KlineInv, FeedsOf
<1>7. ASSUME NEW s \in Symbols \ gap
      PROVE  UpToDate(s)'
  <2>1. CASE reading[s] = hour[s] /\ \A i \in 1 .. Len(frames) : ~FeedsOf(frames[i], s)
    <3>1. ~FeedsOf(f, s)
      BY <1>1, <2>1
    <3>2. \A i \in 1 .. Len(frames') : ~FeedsOf(frames'[i], s)
      BY <1>1, <2>1
    <3>. QED BY <1>2, <1>6, <2>1, <3>1, <3>2 DEF UpToDate
  <2>2. ASSUME NEW i \in 1 .. Len(frames), frames[i] = Frame(s, "1h", hour[s], TRUE),
               \A j \in i + 1 .. Len(frames) : ~FeedsOf(frames[j], s)
        PROVE  UpToDate(s)'
    <3>1. CASE i = 1
      <4>0. /\ f = Frame(s, "1h", hour[s], TRUE) /\ hour[s] \in Nat /\ "1h" \in Intervals
            /\ s \in Symbols
        BY <1>1, <2>2, <3>1 DEF KlineInv, Intervals
      <4>1. FeedsOf(f, s) /\ f.candle = hour[s]
        <5>1. /\ Frame(s, "1h", hour[s], TRUE).candle = hour[s]
              /\ FeedsOf(Frame(s, "1h", hour[s], TRUE), s)
          BY <4>0, ClosingFacts, Zenon
        <5>. QED BY <4>0, <5>1, Zenon
      <4>2. reading'[s] = hour'[s]
        BY <1>2, <1>3, <4>1 DEF FeedsOf, KlineInv
      <4>3. \A j \in 1 .. Len(frames') : ~FeedsOf(frames'[j], s)
        BY <1>1, <2>2, <3>1
      <4>. QED BY <4>2, <4>3 DEF UpToDate
    <3>2. CASE i # 1
      <4>1. i - 1 \in 1 .. Len(frames') /\ frames'[i - 1] = frames[i]
        BY <1>1, <3>2
      <4>2. \A j \in (i - 1) + 1 .. Len(frames') : ~FeedsOf(frames'[j], s)
        BY <1>1, <2>2
      <4>. QED BY <1>2, <2>2, <4>1, <4>2 DEF UpToDate
    <3>. QED BY <3>1, <3>2
  <2>. QED BY <2>1, <2>2 DEF KlineInv, UpToDate
<1>. QED BY <1>1, <1>2, <1>5, <1>7 DEF KlineInv

\* kline_stream.py: the range that the risk engine reads is that of the newest closed hour
\* the process was sent, once its frame is processed; frames of other candles, lost
\* connections and broadcasts that fail leave it.
THEOREM CurrentMonitor == KlineSpec => []MonitorIsCurrent
<1>1. KlineInit => KlineInv
  BY DEF KlineInit, KlineInv, UpToDate
<1>2. KlineInv /\ [KlineNext]_klineVars => KlineInv'
  <2> SUFFICES ASSUME KlineInv, [KlineNext]_klineVars
               PROVE  KlineInv'
    OBVIOUS
  <2>1. CASE UNCHANGED <<hour, frames, gap, reading>>
    BY <2>1 DEF KlineInv, UpToDate
  <2>2. ASSUME NEW s \in Symbols, CloseHour(s)
        PROVE  KlineInv'
    BY <2>2, HourKeeps
  <2>3. ASSUME NEW s \in Symbols, NEW i \in Intervals, NEW closed \in BOOLEAN,
               MidHour(s, i, closed)
        PROVE  KlineInv'
    BY <2>3, MidKeeps
  <2>4. CASE Process
    BY <2>4, ProcessKeeps
  <2>5. CASE KlineConnect \/ KlineLose \/ KlineReconnect \/ Air
    BY <2>1, <2>5 DEF KlineConnect, KlineLose, KlineReconnect, Air
  <2>6. ASSUME NEW v \in Viewers,
               ViewerBreaks(v) \/ Unwatch(v) \/ \E c \in Channels : Watch(v, c)
        PROVE  KlineInv'
    BY <2>1, <2>6 DEF ViewerBreaks, Unwatch, Watch
  <2>7. CASE UNCHANGED klineVars
    BY <2>1, <2>7 DEF klineVars
  <2>. QED BY <2>2, <2>3, <2>4, <2>5, <2>6, <2>7 DEF KlineNext
<1>3. KlineInv => MonitorIsCurrent
  <2> SUFFICES ASSUME KlineInv, NEW s \in Symbols, s \notin gap
               PROVE  reading[s] = hour[s] \/ Waits(s)
    BY DEF MonitorIsCurrent
  <2>1. UpToDate(s)
    BY DEF KlineInv
  <2>. QED BY <2>1 DEF UpToDate, Waits
<1>. QED BY <1>1, <1>2, <1>3, PTL DEF KlineSpec
-----------------------------------------------------------------------------
\* Prices and candles side by side: neither stream's clients disturb the other's.
THEOREM MarketComposes == MarketSpec => Spec /\ KlineSpec
<1>1. MarketInit => Init /\ KlineInit
  BY DEF MarketInit
<1>2. [MarketNext]_marketVars => [Next]_vars /\ [KlineNext]_klineVars
  BY DEF MarketNext, marketVars
<1>. QED BY <1>1, <1>2, PTL DEF MarketSpec, Spec, KlineSpec

\* What each part keeps holds of the process as a whole.
THEOREM MarketKeeps ==
  MarketSpec => [](CacheIsStreamed /\ PriceIsFresh /\ OnlyChurnCutsShort /\ MonitorIsCurrent)
BY MarketComposes, StreamedCache, FreshPrice, BroadcastsReach, CurrentMonitor, PTL
=============================================================================
