# TLA+ models of the regulated exchange backend

TLA+ modules, TLC configurations and TLAPS proofs about `src/app`, a FastAPI
backend that places orders on a Binance futures account for several local
users, decides them with a risk engine, and keeps accounts, positions, an audit
trail and compliance alerts in PostgreSQL. Paths below are relative to
`src/app` unless they start with `src/`.

    tlc -workers 2 -config LedgerConcurrent.cfg LedgerMC    # a run
    tlapm TradingLedger_proofs.tla                          # a proof module

`PROJECT.json` lists the runs, which source lines each definition translates,
the hazards of the code and the theorems. Definitions that the text below calls
*defective variants* (they say so in their comment) are plausible bugs: put in
place of the definition they vary, they make the property they were written for
fail, so none of the properties holds by the shape of the model alone.

## 1. The system

One uvicorn worker (`src/Dockerfile`) runs one asyncio loop. On it run the HTTP
and websocket handlers, two publishers and three exchange streams, all started
by `lifespan` in `main.py`. They interleave at every `await`. Each handler has
a database session of its own: one READ COMMITTED transaction, `expire_on_commit`
off, rolled back when the handler raises (`core/config.py`). Redis keeps
counters and the exchange's order ids. All users share one Binance account.

| Component | State | Operations | Talks to | What is hard | What makes it correct |
|---|---|---|---|---|---|
| Risk engine (`risk_engine/`) | volatility reading per symbol | `evaluate_order`, leverage, margin, exposure limits | called by orders; fed by the kline stream | brackets, caps, truncation, percentages | the leverage is the largest admissible one; approval is monotone; liquidation comes before bankruptcy |
| Order service and ledger (`services/order_service.py`, `account_service.py`) | `accounts`, `positions`, `orders`, `trades`; Redis order ids | create, close, cancel, synchronise the balance | risk engine, prices, Binance, Redis, audit | reads that are stale after an await; lost updates; calls that fail after they took effect; row locks | one live position per user and symbol; positions are the sum of their orders; margin within the balance; limits kept |
| User data stream (`services/user_data_stream.py`) | listen key, connection, backoff | keepalive, reconnect, dispatch, `_apply_liquidation` | Binance, ledger, account websockets, audit | locks taken in the opposite order; lost events; failing renewals | events are handled to the end; the key never lapses by itself; reconnects soon |
| Audit trail (`audit/service.py`) | `audit_logs`, the write lock | `emit`, `_write`; `verify-chain` reads | called by every component | one task per event; failures; restarts; rows without a hash | one linked chain in the order of emission |
| Audit queries (`audit/routes.py`) | none | lists, export, `verify-chain` | reads `audit_logs` | rows from before the chain; where to stop | it finds what was altered, and nothing else |
| KPI alerting (`kpi/alerting.py`, `alerts/`) | `kpi_alerts`, previous counter values | cycle of checks, acknowledge | metrics, audit, KPI and regulator websockets | concurrent checks, deduplication without an index, a publisher that may die | one open alert per type; alerts are resolved |
| Market data (`services/market_service.py`, `market_stream.py`, `realtime/ws_hub.py`) | price cache, `_stream_active`, sets of clients | get a price, tick, stream, broadcast | Binance, websockets, risk engine | a set that changes while it is iterated over; a cache that may be stale | prices are fresh; every client is served |
| Kline stream (`services/kline_stream.py`, `risk_engine/volatility.py`) | connection, kline clients per symbol and interval, last hourly range per symbol | reconnect, process a frame, broadcast, feed the volatility monitor | Binance, websockets, risk engine | frames wait behind broadcasts; candles are missed while the stream is down | the reading is that of the newest closed hour that was sent |
| Regulator reports (`services/regulator_service.py`) | none | overview, snapshot, lists | reads all tables | several SELECTs, commits between them | a report is consistent enough to be signed |
| API keys (`api_keys/`, `api/routes/api_keys.py`) | `api_keys` | create, rotate, deactivate, authenticate, stamp `last_used_at` | auth middleware, audit | calls that go on with a row selected before; the stamp's task runs after the answer | a void secret never works again |
| Rate limiter (`middleware/rate_limit.py`) | Redis counters per principal and minute | INCR, EXPIRE, 429 | every request | Redis failing before or after it acted, between two calls; a crash between them; two clocks | the limit of a minute is kept and nobody is refused below it |
| Authentication, logging (`middleware/auth.py`, `logging.py`, `core/security.py`) | none | check a token or key, log an answer | every request, metrics | the order of the middleware; answers given halfway | whoever is refused is logged as an error |
| Metrics, KPI aggregation (`metrics/`, `kpi/aggregator.py`) | process-local counters | increment, snapshot | alerting, dashboards | counters restart with the process | deltas are not negative |
| Startup (`main.py`) | tables, seed rows | create, migrate, seed | all | old rows without new columns | a restart changes nothing |

The hazards this leads to are in `PROJECT.json`, each at the line where it
bites.

## 2. Modules

| Module | Models |
|---|---|
| `RiskRules` | the rules of `risk_engine/` as operators on integers: leverage brackets, tier caps, volatility modifier, margins, limits, `Decision` |
| `RiskDecisions` | `evaluate_order` as a component: orders arrive and are decided |
| `PositionBook` | what the positions table promises (abstract) |
| `LedgerRows` | what the tables promise to a report that reads them between commits (abstract) |
| `TradingLedger`, `LedgerMC` | the handlers of the order and account services and `_apply_liquidation`, on top of `RiskRules`; implements `PositionBook` and `LedgerRows` |
| `AuditTrail` | what the audit log promises (abstract) |
| `AuditChain`, `AuditMC` | `emit` and the `_write` tasks; implements `AuditTrail` |
| `KpiAlerts`, `AlertsMC` | the publisher's cycles, the checks of a cycle, acknowledgements |
| `RegulatorReads`, `ReportsMC` | the overview and the ledger snapshot, on top of `LedgerRows` |
| `HubLoop` | the loop that the broadcasts of `ws_hub.py` have in common |
| `MarketFeed` | prices, the mark price stream, the market publisher, market clients |
| `KlineStream` | candles, the volatility monitor, kline clients |
| `MarketData`, `FeedMC` | the composition of `MarketFeed` and `KlineStream` |
| `RequestClock` | the requests and the clock that limiter and keys share |
| `RateLimiter` | counters per principal and minute in Redis |
| `ApiKeys` | the life of API keys, authentication with them, the stamp of `last_used_at` |
| `ApiGateway`, `GatewayMC` | a request's way through the middleware, on top of `RateLimiter` and `ApiKeys`, with the counters of requests, errors, failures and hits |
| `UserDataLink` | listen key, keepalive and reconnection of the user data stream |
| `RiskDecisions_proofs` (with those about `RiskRules`), `TradingLedger_proofs`, `AuditChain_proofs`, `KpiAlerts_proofs`, `RegulatorReads_proofs`, `MarketData_proofs`, `ApiGateway_proofs`, `UserDataLink_proofs` | theorems and proofs |

`TradingLedger` composes with `RiskRules` (it evaluates `Decision` on what a
request has read). `RegulatorReads` takes the commits of `LedgerRows` as
its environment, which `TradingLedger` implements: a report is made over the
handlers as they are modelled, without their insides. `ApiGateway` EXTENDS `RateLimiter` and
`ApiKeys`: each of its steps is a step of one, of both (a crash, the passing of
time) or of the gateway alone, and `Count`, `Authenticate` and `CheckKey` conjoin
a component's action with what the middleware makes of its outcome.
`MarketData` lets `MarketFeed` and `KlineStream` take turns; they share the hub's
code and the event loop, and no state.

### Actions and code

An action is the code from one await to the next, as far as something else can
tell the two apart; several awaits whose results nobody can influence are one
action.

**TradingLedger.** `account`, `pos` and `order` are the committed rows. A row is
named by the request that inserts it. `req[r]` is a handler: its program counter
and the values its session has read, which it goes on using however stale
(`mu` is the `margin_used` it read or will write, `seen` the exposures).
`accLock` and `posLock` are PostgreSQL's row locks: an UPDATE takes one at the
flush, COMMIT and ROLLBACK free it (`Free`).

| Action | `order_service.py` and others |
|---|---|
| `CreateBegin`, `CreateExposure`, `CreateRisk` | 26-32 the account is selected; 34-47 price and the user's exposure; 48-76 the global exposure and the decision |
| `CreatePlace`, `CreateFlush` | 78-93 the exchange call, which may fail after it took effect; 95-109 the order's INSERT and the Redis key |
| `CreateLock`, `CreateCommit` | 111-131 the position's SELECT, whose autoflush writes `margin_used` and so takes the account's lock; 124-156 the position is written by primary key, and the commit |
| `CloseBegin` ... `CloseCommit` | 189-262; the flush updates the account before the position |
| `CancelBegin`, `CancelPlace`, `CancelCommit` | 285-311 |
| `SyncBegin`, `SyncWallet`, `SyncCommit` | `account_service.py` 34-50 |
| `UdsBegin`, `UdsPosition`, `UdsCommit` | `user_data_stream.py` 215-257; selecting an account flushes the previous account and this position, so positions are locked before accounts |
| `DetectDeadlock`, `ExchangeFill`, `KeyExpire`, `Crash` | PostgreSQL, Binance, Redis (`ex=86400`), the process |

**AuditChain.** `Act` is a caller's action up to its `emit`, `Emit` the creation
of the task; `queue` is the FIFO queue of the asyncio lock, whose head holds it;
`Read` and `Write` are the two halves of `_write`, `Fail` its `except`. `Legacy`
rows have no hash. A hash is the list of events it covers, so equal hashes mean
equal histories. `VerifyChain` is the endpoint: a walk over the oldest rows that
recomputes each hash, skips legacy rows and stops at the first mismatch
(`Mismatched` is the set of rows where it could).

**KpiAlerts.** `StartCycle` chooses which metrics exceed their thresholds;
`CreateSelect`/`CreateCommit` and `ResolveSelect`/`ResolveCommit` are the tasks
that `gather` starts; `AckSelect`/`AckCommit` are the endpoint. A database error
in `trading_kpi` ends the publisher (`pub = "dead"`), and so may the broadcast at
the end of a cycle, when KPI clients join or leave under it (`EndCycle`, where
`MayChurn`).

**RegulatorReads.** Each SELECT of a report sees what is committed then. What it
counts or sums is kept as the set it ranges over.

**MarketFeed.** A price is the number of times the exchange has moved it, so
older and newer can be told apart. `Advance` is one turn of the loop in
`broadcast_market`: the send to the current client returns or raises, then the
loop raises because the set's size has changed, goes on, or is over (`Turn` in
`HubLoop`; `Disturbed` and `Joined` are what others do to the set meanwhile).

**KlineStream.** A candle is the number of its hour. `CloseHour` and `MidHour`
are the exchange's frames, which a live connection brings in order; `Process` is
the body of the loop up to the first send (100-129), `Air` a turn of
`broadcast_kline`. A lost connection still delivers the frames it has brought
(`KlineLose`, `KlineReconnect`). `gap` remembers the symbols whose newest hour
closed unseen. What the monitor keeps of a candle is the candle.

**RateLimiter.** `Arrive` is `dispatch` up to the `INCR`; `Increment` and `Expire`
are the calls with their answers, and each may also raise, having acted or not,
which lets the request through (43-44). `PassTime` moves the one clock and drops
what has expired. A crash loses the requests that wait for Redis, and only them.

**ApiKeys.** `Select` and `Deactivate`/`Regenerate` are an endpoint's SELECT and
COMMIT; SQLAlchemy writes only the columns that differ from what was selected,
which decides what a rotation does to a deactivation that has overtaken it.
`Present`, `SelectActive` and `Verify` are the middleware and `authenticate`, with
the await of the user between the row and the checks; `TouchSelect` and `Touch`
are the task `_touch_api_key`. A secret is the number of its generation, `void`
records whether the credentials were void when they were presented.

**ApiGateway.** `Receive` ... `Log` are the middlewares in their order
(`main.py:277-279`, outermost last added) and the handler; `metrics` are the
counters of `metrics/prometheus.py`, which start again with the process.

**UserDataLink.** Time passes in units of five minutes, the longest delay. A
sleep of `delay` seconds spans as many unit boundaries as such a sleep can.

### Abstractions

Money is in integers: `RiskRules` scales rates to integers instead of Decimals,
and truncation of leverage is modelled as such. The ledger's orders keep size,
price and side, and drop what no decision depends on (leverage, order type,
timestamps). A limit order differs from a market order by its price being free.
For orders the volatility monitor is the modifier they meet (any of the three). Trades are committed
with their order and are its quantity. Accounts exist (they are seeded), so
`get_or_create_account` never inserts. Requests name users that exist; HTTP
validation and authorisation have happened. Redis loses no key before its time.

## 3. Runs

| Run | Question | Bounds |
|---|---|---|
| `RiskDecisions` | does every decision mean what the rules say, and is it monotone? | 3 balances, 6 sizes, 2 prices, 4 requests, 3 readings, 4 exposures: values on both sides of every bracket, cap, band and limit |
| `LedgerConcurrent` | what survives every interleaving of all handlers, a liquidation, fills, expiring keys and a crash, and what does a report see of it? | 2 users, 1 symbol, 3 requests, 1 event, 1 crash |
| `LedgerSerial` | what do the checks guarantee one request at a time and at one price? | 3 users, 2 symbols, 4 requests, 1 event, one at a time |
| `LedgerLiveness` | does everybody get an answer, with locks taken in opposite orders? | 1 user, 1 symbol, 3 requests, 1 event |
| `ExposureRace` | *violation*: is the global threshold kept by overlapping orders? | 2 users, 3 orders |
| `AuditTasks` | is the log one chain in order of emission, does every task end, and does verify-chain find an altered row? | 4 events, 1 legacy row, 1 crash; one column of any row altered to any value that occurs |
| `AlertsCycles` | one open alert per type, one for an exceeded metric, cycles end, lone alerts resolved? | 2 types, 2 acknowledgements, 3 rows, 1 crash, database failures, KPI clients that come and go |
| `AlertStuck` | *violation*: are the alerts of a metric that stays normal resolved? | 1 type, 1 acknowledgement, 2 rows |
| `Reports` | are the reports consistent although commits fall between their SELECTs? | 3 orders |
| `Feed` | does a broadcast reach who stays; are the cache's flag, prices and the volatility reading right? | 2 clients, 2 symbols, 1 request, 2 price levels; 2 viewers, 2 hours, 2 waiting frames |
| `Gateway` | is the rate limit kept and only then; do counters expire; do void keys stay void; are refusals errors? | 3 requests, 1 principal, limit 1, 2 minutes of 2 units with a time to live of 3, 1 key, 2 calls on it, expiry before and after, 1 crash |
| `Link` | is the key renewed in time and the stream back soon, for ever? | one connection, 55 of 60 minutes, unbounded outages |

Why these bounds are enough to be interesting: every conflict in the ledger is
between two handlers that meet on one row, so three requests let two conflict
over what a third has made; the liquidation event is the only handler that
takes two accounts' locks, so two users suffice for the deadlock. `LedgerSerial`
has three, because the limits of two institutional users (half of the threshold
each) would keep the global threshold by themselves. Users are interchangeable,
and so are requests: those sets are symmetric, except in runs with liveness.
Four audit tasks give a queue with a holder, a waiter, a failed one and one not
emitted yet.
Alerts need two rows of a type to collide, and three let that happen while
another type has one. Two clients let a broadcast be at one while the other
comes or goes, and two viewers may watch one candle or two; two frames let one
wait behind a broadcast. With a limit of one, three requests of a principal are
one that is admitted, one that is refused and one whose call fails or that dies
between INCR and EXPIRE, spread over two minutes; a minute of two units and a
life of three keep the order of 60 and 61 seconds. Two calls on one key are a
rotation against a deactivation or another rotation. `MaxInFlight`, `MaxEvents`,
`MaxCrashes`, `MaxAlerts`, `MaxMoves`, `MaxHours`, `MaxFrames` and `MaxTime` are
the named bounds on the workload; `MaxOutage` caps a counter that only measures.

Two runs have a state constraint, `Focus`, that keeps behaviours in which two
components are far into their work at once from being explored: `Feed` lets
either prices or candles move (the two share no state at all), `Gateway` lets
requests be limited, or keys live while two requests carry them, or two requests
be of any kinds (limiter and keys share the clock and the requests). It cannot
hide an error of one component that needs the other to move: the theorems
`MarketComposes` and `GatewayComposes` prove, for every instance, that the
composition is a behaviour of each component by itself, and the properties
of these runs are proved without the constraint.

`Gateway` does not check deadlock: the clock and the requests run out.
`LedgerLiveness` does not either: with one event and no promise that
requests arrive, the system may rest with requests that never came. In every
other run a state with nothing left to do is the action `Quiet`, or does not
exist.

`CanceledOrderNotFilled` has the condition that Redis still holds the order's
exchange id; `LedgerConcurrent` lets ids expire, so it shows that the exchange's
refusal is what protects a filled order. `HandledEventIsReflected` and
`MarginUsedIsLiveMargin` are checked in `LedgerSerial` only: a deadlock or a crash
drops an event, and overlapping transactions of one user lose margins. `ExposureWithinOverlap` bounds the exposures by
`MaxInFlight` times their limits. `LedgerSerial` checks the documented limits,
which is the case `MaxInFlight = 1`; with two handlers or more the bound needs
so many orders to be reached that it is left to the theorem, which is about every
`MaxInFlight`. `LedgerRowsSpec` implies that a closed position never becomes live
again.
`EveryWaitEnds` is the safety half of `EveryRequestAnswered`: a state in which
somebody waits for nobody, or in a cycle other than the one PostgreSQL breaks,
would violate it at once, in any run of any size.

### Fairness

The event loop runs every task that is ready, and the database and the exchange
answer each call with a result or an error: weak fairness of a handler's, a
task's or a check's next step. PostgreSQL's deadlock detector runs on a timer:
weak fairness of `DetectDeadlock`. Nothing is assumed of requests, events,
fills, acknowledgements, crashes or the network; `Reconnects` and
`LoneAlertIsResolved` say themselves what they need of the environment. In `Link`, time
passes (`Tick`) and connections to an exchange in reach succeed.

### What the violations show

- `ExposureRace`: `src/README.md:154` rejects an order when the global exposure
  threshold is exceeded. `order_service.py:48` sums the exposure before the
  exchange call; two overlapping orders each fit and together do not.
- `AlertStuck`: `kpi/alerting.py:11` auto-resolves alerts when the metric
  normalises. Deduplication looks at OPEN alerts only, so an acknowledged alert
  is joined by an open one, and `scalar_one_or_none` (`:196`) raises for two
  rows in every later cycle.

### Behaviour met while modelling, without a run

These follow from the same models or were read in the code, and no property is
claimed against them: two overlapping orders of a user lose one's margin
(`order_service.py:114`), so the live margins, unlike `margin_used`, may exceed the
balance; an order revalues the whole existing position at its own price
(`:130`); a liquidation that loses a deadlock is dropped
(`user_data_stream.py:126`); an event sent while the stream is down is never made
up for (`:107`), nor is an hour's candle that closed while the kline stream was
down (`kline_stream.py:80`: the reading of the hour before stays), and a failed first request for a key disables the stream
(`:63`); a cancellation after the Redis key has expired does not reach the
exchange (`order_service.py:298`); an acknowledgement may overwrite a resolution
(`alerts/routes.py:62`, the next cycle resolves it again); a failed audit write loses its event
(`audit/service.py:105`); a failed KPI query ends the KPI publisher
(`main.py:133`), and a client that joins or leaves during a broadcast ends the
market or the KPI publisher (`ws_hub.py:45`, `:55`; `main.py:115`, `:141`); a
counter whose EXPIRE failed or was cut off stays in Redis for ever, under a key
no later minute uses (`rate_limit.py:42`); a key that is deactivated between a
rotation's SELECT and its commit stays inactive, and the answer carries a secret
that does not work (`api_keys/service.py:93-96`); requests with an API key and no token are not counted
by the limiter, which runs before the authentication (`rate_limit.py:23`); a snapshot may list a trade whose position it does not show
(`regulator_service.py:163`); `get_price` neither reads the streamed cache nor
simulates a price (`market_service.py:22`); the reconnection delay is not
reset after a connection that ended with an error (`user_data_stream.py:99`).

## 4. Proofs

All for every value of the constants that satisfies the modules' assumptions
(`LedgerAssumption`, `AlertsAssumption`, and so on; TLC evaluates them in each
run). Where a theorem needs more than that, it says so as an `ASSUME` of its own.
Every invariant and every action property that a passing run checks is stated by
a theorem, and so are the three refinements; the run shows it on a small instance, and
that the instance reaches the states the property is about.

- **RiskDecisions_proofs.** About `RiskRules`: the allowed leverage is between 1
  and the cap (`MaxLeverageBounds`) and never rises with the notional
  (`MaxLeverageAntitone`); an approved order's margin fits (`ApprovedFits`).
  From `Evaluated` (an order that was decided has the verdict `Decision` gives
  it): `TypeCorrect`, `LeverageAlwaysDivides`, `ApprovedAlwaysFits`,
  `LiquidationAlwaysBeforeBankruptcy`, `SmallerAlwaysApproved`. The last needs
  antitone leverage: a smaller order may get a higher leverage and so needs no
  more margin. `BetterTierAlwaysApproved` compares brackets, caps and limits tier
  by tier. `MaxLeverageAlwaysLargest` shows that the table walk finds what the
  reference reading describes: the bracket of a notional is the lowest of those in
  force (`BracketIsLowest`), which the volatility modifier and the caps then bound.
- **TradingLedger_proofs, types and locks.** `TypeOK` is not inductive: a commit
  writes the row its request targets, so the proof carries `Control` (which
  fields a request has at which program counter, and that booked positions belong
  to finished requests). `MarginAlwaysWithinBalance` is not inductive either: a
  commit writes a value read long ago. `MarginInv` adds that every value a handler
  holds is within the largest balance the account has had, which never falls.
  `AlwaysOneLivePosition` from `LockInv`: only a request of that user that is
  about to commit holds an account's lock (`Holders`), and while it does, what it
  selected still stands (`Selected`). `ClosedNeverReopens` is an action property
  from the same invariant.
- **TradingLedger_proofs, books.** `PositionsAlwaysSumOrders` from `BookInv`: a row
  that `create_order` is about to write is the row it selected plus its own order,
  and `LockInv` says that this row is still there. The sums range over sets whose
  size is not known, which would need induction; instead, a fact about
  `SumFunctionOnSet` is refuted on a smallest set that contradicts it
  (`MinimalMember`, from the well-foundedness of the strict subsets of a finite
  set), which gives what a sum does when a member is added, removed or changed
  (`SumAdd`, `SumRemove`, `SumChange`). `BookedOrdersAlwaysPlaced` and
  `CanceledOrdersNeverFill` from `ExchangeInv`: what the exchange says of an order
  at each program counter. `LedgerImplementsPositionBook` maps each action to a
  step of `PositionBook` or a stutter; it needs that a close's target is the
  position it was aimed at and that a liquidation closes positions of one symbol
  only (`TargetInv`), and `AlwaysOneLivePosition`'s invariant.
  `LedgerImplementsLedgerRows` does the same for what a report sees, with
  `OpenedByOrder`: there is a row exactly where the order that opened it is.
- **TradingLedger_proofs, waiting.** `EveryWaitAlwaysEnds` from `WaitInv`: no two
  positions that one liquidation takes are of the same user (`OneLivePosition`
  again), and the accounts it has locked or has pending are those of positions it
  has locked; so the account it waits for is never one it holds. With `Holders`
  and `TargetInv`, every owner of a lock is in flight and at a step that only the
  other kind of lock can delay.
- **TradingLedger_proofs, exposure under overlap.** The limits are decided on sums
  that are read before the order is placed, so overlapping orders exceed them;
  `ExposureAlwaysWithinOverlap` says by how much, for all users together and for
  each and for every `MaxInFlight`: the bound is that many times the limit. An
  approved order is *due* until it commits. `OverlapInv` says that what is booked
  and what is due stay within the bound together (`Reserved`): a commit only moves
  an order from the one to the other; a decision finds room for its order under
  one limit, and whatever else is in flight, at most `MaxInFlight - 1` requests
  (`InFlightBounded`), is due at most one limit each (`DuesWithinLimit`). A user's
  exposure is read one await before the decision, so the room that is left (`Room`)
  is due from that read on. It assumes `OnePrice`: a later order revalues the
  whole position it adds to, so with two prices the exposure grows past anything
  that was checked.
  `SerialGlobalExposureWithinThreshold` and `SerialUserExposureWithinLimit` are the
  case `MaxInFlight = 1`: the documented limits hold of the arithmetic by itself,
  and `ExposureRace` shows that they do not hold of the program.
- **TradingLedger_proofs, margins and isolation.** Overlapping handlers of one user
  lose each other's `margin_used` (each writes what it read, plus or minus its own).
  The theorems say how much isolation is enough. `MarginIsLiveWhileUserAlone`: as
  long as no two of a user's orders and closes, nor one of them and a liquidation of
  that user's position, are between read and commit together (`UserAlone`), that
  user's `margin_used` is right at every moment, whatever the handlers of other users
  do, fail at or die of; the one liquidation handler still works on any number of
  users. `AloneInv` says of each copy how it differs from the committed value: by
  the margin the handler is about to add or release, once it has computed it.
  `MarginsAreLiveWhileUsersAlone` says so for all users and names the checked
  property. `UserAlone` is a hypothesis about the workload: the code takes no lock
  that would enforce it. `SerialMarginIsLiveMargin` is the case `MaxInFlight = 1`, where
  it holds by admission (`Alone`), as in the run `LedgerSerial`.
  `CommittedEventsAreReflected` needs no isolation: with any number of handlers under
  way, an event whose handler reaches its COMMIT has closed every position it began
  with (`EventInv`: each is still to be locked or is locked). What remains are the
  two ways not to reach it, losing a deadlock and a crash, after which the event is
  gone; `SerialEventsAreReflected` excludes both (`MaxInFlight = 1`, no crash).
- **AuditChain_proofs.** `AlwaysChainLinked` from: no task is queued twice, and
  a task that has read the newest hash heads the queue and the hash is still the
  newest. `TamperingAlwaysFound`: a written row's hash is that of its columns, so
  no row of the log mismatches, and hashing is injective, so an altered one does.
  `LogAlwaysFollowsEmission` from `OrderInv`: rows first, then queued tasks, are in
  the order of emission. `ChainImplementsTrail` from `TrailInv`: events that the
  newest hash covers are over, so the next row records one that is not among them.
- **KpiAlerts_proofs.** `AlwaysOneOpenAlert` from: while a check is about to
  insert, there is no open alert of its type, since only that check inserts one.
  `TriggeredAlwaysHasAlert` from `TriggerInv`: a check runs the branch its metric
  calls for, the row it has selected to resolve is of its own type, and so no
  other check can take the active alert away that it has found or made; an
  acknowledgement leaves a row active, whatever has become of it.
- **RegulatorReads_proofs.** `OverviewNeverMissesPosition` and
  `SnapshotPositionsAlwaysHaveTrades` from `ReportInv`: between its SELECTs a
  report relies on what the ledger only adds to (closed positions, trades). The
  ledger it is about is `LedgerRows`, so by `LedgerImplementsLedgerRows` they hold
  of reports made over `TradingLedger`: also where an order is booked on a position
  that a liquidation has closed since the order selected it.
- **MarketData_proofs.** `BroadcastsReach` from `CastInv`: a broadcast whose set
  nobody else has changed ranges over the hub as it is (`Undisturbed`), which a
  turn, a join, a leave and the other broadcast's discarding each keep; the lemmas
  are about `HubLoop` and so about every channel. `CurrentMonitor` from
  `UpToDate`: of the frames that wait, the last one that feeds a symbol carries
  its newest hour, or none feeds it and the reading has it already.
  `StreamedCache` is inductive, `FreshPrice` needs that calls name their symbol.
  `MarketComposes` carries all four over to the composition (`MarketKeeps`).
- **ApiGateway_proofs.** `LimitAlwaysKept` from `CountInv`: until a counter may
  expire, the numbers that INCR has answered are distinct and at most the counter,
  because whoever sets its time to live does so after the minute has begun.
  `RefusedAlwaysOverLimit` from `RefusalInv`: a counter never exceeds the number of
  its requests that have sent an INCR, even when answers are lost.
  `CountersAlwaysExpire` is inductive. `VoidAlwaysRefused` from `KeysInv`: the
  secret a call is about to write has never been issued, so no step makes an issued
  void secret valid again. `GatewayComposes`: every step of the gateway is a step or
  a stutter of each component. `RefusalsAlwaysErrors` counts the requests that are
  answered with an error and not logged yet.
- **UserDataLink_proofs.** `AlwaysValidWhileStreaming` from `KeyInv`: unless the
  last request failed, the key is no older than the keepalive loop's sleep, which
  is no longer than its interval, for every interval shorter than the key's validity.
  `AlwaysReconnectsSoon` from `OutageInv`: a unit that counts begins only in a
  sleep, no sleep sees two begin, and none follows another while the exchange
  stays in reach.

`RiskDecisions!ApprovedMarginFits`, `LeverageIsDivisor` and the type invariants of
`TradingLedger`, `RiskDecisions`, `AuditChain`, `KpiAlerts`, `ApiGateway`,
`RegulatorReads` and `UserDataLink` are proved and in no run (each holds when it is
added to its cfg). The type invariants of `MarketFeed` and `KlineStream` only
describe their variables.

Only model-checked: liveness, which needs ENABLED (`EveryRequestAnswered`,
`EveryEventHandled`, `EveryTaskEnds`, `EveryCycleEnds`, `LoneAlertIsResolved`,
`Reconnects`), and the two violations. The serial theorems and those that assume
`OnePrice` are not proved without their hypotheses because they are false then.

## 5. Not modelled

- Cryptography: password hashing, tokens and HMAC signatures are libraries' work
  on the values of one call. Roles and scopes (`api/deps.py`) are checks of one
  request's values.
- Reads that change nothing: the audit lists and export, account and market
  queries, the reports that are one SELECT. `get_candles` asks the exchange.
- `set_leverage` writes no local state; `set_margin_type` (`api/routes/account.py`)
  stores a margin type on position rows, a column that no handler of the ledger
  reads. Latencies, uptime and counts of tables feed dashboards and the thresholds
  whose outcome is free in `KpiAlerts`.
- The account, alert and KPI channels of the hub as loops of their own: their code
  is the market channel's; `broadcast_alert` iterates over a fresh union of sets,
  which nobody changes.
- The DDL at startup (`main.py:153-221`) beyond the legacy rows it leaves, and the
  `stop` of the streams, when the process ends.
- Clients that disconnect in the middle of an HTTP request, whose handler runs on,
  and Redis losing keys before their time.

## 6. Plan

Done: the risk engine, the ledger, the audit trail with its verification, alerts,
reports, market data with candles, the user data link, and the gateway (limiter,
API keys, authentication); proofs of all invariants and refinements. Left, in this
order:

1. Composition of `UserDataLink` with the ledger: events lost while the link is
   down.
2. Composition of `KlineStream` with `RiskDecisions`: the modifier of an order as
   that of the monitor's reading.
