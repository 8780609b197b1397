--------------------------- MODULE TradingLedger ---------------------------
(***************************************************************************)
(* The trading ledger: the accounts, positions and orders tables as the    *)
(* HTTP handlers of order_service.py and account_service.py and the        *)
(* liquidation handler of user_data_stream.py read and write them.         *)
(*                                                                         *)
(* All of them run on one event loop and interleave at every await, each   *)
(* in a database transaction of its own (READ COMMITTED).  An action is    *)
(* the code from one await whose result another transaction can influence  *)
(* to the next.  What an ORM session has read stays in the request's       *)
(* record and is used from there, however stale.  An UPDATE takes the row  *)
(* lock and waits for it; what it wrote is seen by others from COMMIT on.  *)
(*                                                                         *)
(* A row is identified by the request that inserts it: pos[r] and order[r] *)
(* are the position and the order (with its trade) that request r adds.    *)
(***************************************************************************)
EXTENDS RiskRules, FiniteSetsExt

CONSTANTS Users, Symbols,
          Reqs,            \* the requests that will arrive
          Uds,             \* the user data stream, as the owner of row locks
          None,
          Tier,            \* [Users -> Tiers]
          OpeningBalance,  \* of every account
          Kinds,           \* the handlers the workload calls
          Quantities,      \* signed order sizes
          Prices, Requests, Modifiers,
          Wallets,         \* balances the exchange account may report
          KeysExpire,      \* whether 24 hours may pass
          MaxInFlight, MaxEvents, MaxCrashes   \* bounds on the workload

ASSUME LedgerAssumption ==
  /\ IsFiniteSet(Reqs)
  /\ None \notin Users \cup Symbols \cup Reqs \cup Int
  /\ Uds \notin Reqs \cup {None}
  /\ Tier \in [Users -> Tiers]
  /\ OpeningBalance \in Nat /\ Wallets \subseteq Nat
  /\ Quantities \subseteq Int \ {0}
  /\ Prices \subseteq Nat \ {0}
  /\ Requests \subseteq Nat
  /\ Modifiers \subseteq {50, 75, 100}
  /\ KeysExpire \in BOOLEAN
  /\ MaxInFlight \in Nat /\ MaxEvents \in Nat /\ MaxCrashes \in Nat

VARIABLES
  account,   \* [Users -> [balance, marginUsed]], as committed
  pos,       \* [Reqs -> row], as committed
  order,     \* [Reqs -> row], as committed
  accLock,   \* [Users -> owner of the account's row lock]
  posLock,   \* [Reqs -> owner of the position's row lock]
  req,       \* [Reqs -> where the request is and what it has read]
  uds,       \* the liquidation handler
  exchange,  \* [Reqs -> the state of the order r placed at the exchange]
  key,       \* [Reqs -> whether Redis holds exchange_order:r]
  peak,      \* [Users -> the largest balance the account has had]
  budget     \* events and crashes left

vars == <<account, pos, order, accLock, posLock, req, uds, exchange, key, peak, budget>>
rows == <<account, pos, order, peak>>
locks == <<accLock, posLock>>
external == <<exchange, key>>

Owners == Reqs \cup {Uds, None}
Final == {"done", "rejected", "failed"}
Pcs == Final \cup
  {"idle", "c_exposure", "c_risk", "c_place", "c_flush", "c_lock", "c_commit",
   "x_place", "x_account", "x_lock", "x_commit", "k_place", "k_commit",
   "s_wallet", "s_commit"}

NoReq == [pc |-> "idle", user |-> None, symbol |-> None, qty |-> 0, price |-> 0,
          mu |-> 0, bal |-> 0, seen |-> [p \in Reqs |-> 0], margin |-> 0, status |-> "NEW",
          target |-> None, newQty |-> 0, newMargin |-> 0]
NoPosition == [state |-> "absent", qty |-> 0, notional |-> 0, margin |-> 0]
NoOrder == [status |-> "absent", target |-> None]
IdleUds == [busy |-> FALSE, todo |-> {}, seen |-> [p \in Reqs |-> 0], pending |-> None,
            mu |-> [u \in Users |-> 0], began |-> {}]

\* The seeded accounts after their balances were synchronised.
Init ==
  /\ account = [u \in Users |-> [balance |-> OpeningBalance, marginUsed |-> 0]]
  /\ pos = [r \in Reqs |-> NoPosition]
  /\ order = [r \in Reqs |-> NoOrder]
  /\ accLock = [u \in Users |-> None]
  /\ posLock = [r \in Reqs |-> None]
  /\ req = [r \in Reqs |-> NoReq]
  /\ uds = IdleUds
  /\ exchange = [r \in Reqs |-> "none"]
  /\ key = [r \in Reqs |-> FALSE]
  /\ peak = [u \in Users |-> OpeningBalance]
  /\ budget = [events |-> MaxEvents, crashes |-> MaxCrashes]
-----------------------------------------------------------------------------
Abs(n) == IF n < 0 THEN -n ELSE n

LivePositions == {p \in Reqs : pos[p].state = "live"}
LiveOf(u, s) == {p \in LivePositions : req[p].user = u /\ req[p].symbol = s}

LivePositionsOf(u) == {p \in LivePositions : req[p].user = u}

Notionals == [p \in Reqs |-> pos[p].notional]
UserExposure(u) == SumFunctionOnSet(Notionals, LivePositionsOf(u))
GlobalExposure == SumFunctionOnSet(Notionals, LivePositions)

InFlight == {r \in Reqs : req[r].pc \notin Final \cup {"idle"}}
Admit == Cardinality(InFlight) + (IF uds.busy THEN 1 ELSE 0) < MaxInFlight

Set(r, record) == req' = [req EXCEPT ![r] = record]
Goto(r, pc) == Set(r, [req[r] EXCEPT !.pc = pc])

\* An answered request keeps only what the rows it added refer to.
Answer(r, pc) ==
  Set(r, [NoReq EXCEPT !.pc = pc, !.user = req[r].user, !.symbol = req[r].symbol,
                       !.qty = req[r].qty, !.margin = req[r].margin])
Drop(r, pc) == Set(r, [NoReq EXCEPT !.pc = pc])

\* The end of a transaction, by commit or by rollback, frees its row locks.
Free(owner) ==
  /\ accLock' = [u \in Users |-> IF accLock[u] = owner THEN None ELSE accLock[u]]
  /\ posLock' = [p \in Reqs |-> IF posLock[p] = owner THEN None ELSE posLock[p]]

\* Defective variant: a rollback leaves the account locked.
AbortKeepingLock(r) == Drop(r, "failed") /\ UNCHANGED locks

\* The handler raises: the session is closed and the transaction rolled back.
Abort(r) == Drop(r, "failed") /\ Free(r)
-----------------------------------------------------------------------------
(***************************************************************************)
(* create_order                                                            *)
(***************************************************************************)
\* The account is read here; the fields of the payload are chosen where they
\* are first used.
CreateBegin(r) ==
  /\ "create" \in Kinds /\ req[r].pc = "idle" /\ Admit
  /\ \E u \in Users :
       Set(r, [NoReq EXCEPT !.pc = "c_exposure", !.user = u,
                            !.mu = account[u].marginUsed, !.bal = account[u].balance])
  /\ UNCHANGED <<rows, locks, external, uds, budget>>

\* The rows under the user's exposure are read, or the price before them fails.
CreateExposure(r) ==
  /\ req[r].pc = "c_exposure"
  /\ \/ Set(r, [req[r] EXCEPT !.pc = "c_risk",
                !.seen = [p \in Reqs |->
                  IF p \in LivePositions /\ req[p].user = req[r].user
                  THEN pos[p].notional ELSE 0]])
     \/ Drop(r, "failed")
  /\ UNCHANGED <<rows, locks, external, uds, budget>>

\* What evaluate_order is given: what the request has read, the payload, and
\* the global exposure as it is now.
Submitted(r, q, p, l, m) ==
  [tier |-> Tier[req[r].user], balance |-> req[r].bal, marginUsed |-> req[r].mu,
   size |-> Abs(q), price |-> p, requested |-> l, modifier |-> m,
   userExposure |-> SumFunctionOnSet(req[r].seen, Reqs),
   globalExposure |-> GlobalExposure]

\* The global exposure is read and the order is decided at once.
CreateRisk(r) ==
  /\ req[r].pc = "c_risk"
  /\ \E s \in Symbols, q \in Quantities, p \in Prices, l \in Requests, m \in Modifiers :
       LET o == Submitted(r, q, p, l, m)
       IN  IF Decision(o) = "Approved"
           THEN Set(r, [req[r] EXCEPT !.pc = "c_place", !.symbol = s, !.qty = q,
                  !.price = p, !.bal = 0, !.seen = NoReq.seen,
                  !.margin = RequiredMargin(OrderNotional(o), LeverageOf(o))])
           ELSE Drop(r, "rejected")
  /\ UNCHANGED <<rows, locks, external, uds, budget>>

\* Defective variant: an error of the exchange does not end the request.
CreatePlaceSwallowing(r) ==
  /\ req[r].pc = "c_place"
  /\ \E e \in {"none", "resting", "filled"} :
       /\ exchange' = [exchange EXCEPT ![r] = e]
       /\ Set(r, [req[r] EXCEPT !.pc = "c_flush",
                         !.status = IF e = "filled" THEN "FILLED" ELSE "NEW"])
  /\ UNCHANGED <<rows, locks, key, uds, budget>>

\* The exchange takes the order and answers, or the call fails; a failed call
\* may still have placed the order.
CreatePlace(r) ==
  /\ req[r].pc = "c_place"
  /\ \E e \in {"none", "resting", "filled"} :
       /\ exchange' = [exchange EXCEPT ![r] = e]
       /\ \/ /\ e # "none"
             /\ Set(r, [req[r] EXCEPT !.pc = "c_flush",
                         !.status = IF e = "filled" THEN "FILLED" ELSE "NEW"])
          \/ Drop(r, "failed")
  /\ UNCHANGED <<rows, locks, key, uds, budget>>

\* The order row is inserted (not yet committed) and Redis is told its
\* exchange id; a Redis error escapes the handler.
CreateFlush(r) ==
  /\ req[r].pc = "c_flush"
  /\ \/ key' = [key EXCEPT ![r] = TRUE] /\ Goto(r, "c_lock")
     \/ key' = key /\ Drop(r, "failed")
  /\ UNCHANGED <<rows, locks, exchange, uds, budget>>

\* The live position's SELECT, and what the handler computes from it.  With
\* two live positions scalar_one_or_none would raise; OneLivePosition says
\* that this never happens, and no step models it.
SelectPosition(r) ==
  LET live == LiveOf(req[r].user, req[r].symbol)
  IN  \/ /\ live = {}
         /\ Set(r, [req[r] EXCEPT !.pc = "c_commit", !.target = r,
              !.mu = req[r].mu + req[r].margin,
              !.newQty = req[r].qty, !.newMargin = req[r].margin])
      \/ \E p \in live :
           /\ live = {p}
           /\ Set(r, [req[r] EXCEPT !.pc = "c_commit", !.target = p,
                !.mu = req[r].mu + req[r].margin,
                !.newQty = pos[p].qty + req[r].qty,
                !.newMargin = pos[p].margin + req[r].margin])

\* Defective variant: the position is selected before margin_used is
\* assigned, so no flush takes the account's row lock first.
CreateLockUnlocked(r) ==
  /\ req[r].pc = "c_lock"
  /\ SelectPosition(r)
  /\ UNCHANGED <<rows, locks, external, uds, budget>>

\* The position's SELECT first flushes the pending UPDATE of margin_used,
\* which waits for the account's row lock.
CreateLock(r) ==
  /\ req[r].pc = "c_lock"
  /\ accLock[req[r].user] = None
  /\ accLock' = [accLock EXCEPT ![req[r].user] = r]
  /\ SelectPosition(r)
  /\ UNCHANGED <<rows, posLock, external, uds, budget>>

\* Defective variant: the existing position's margin is left as it was.
WrittenPositionSameMargin(r) ==
  [state |-> IF req[r].target = r THEN "live" ELSE pos[req[r].target].state,
   qty |-> req[r].newQty,
   notional |-> Abs(req[r].newQty) * req[r].price,
   margin |-> IF req[r].target = r THEN req[r].newMargin ELSE pos[req[r].target].margin]

\* The row inserted, or the columns updated by primary key: the UPDATE does
\* not look at `liquidated` again, and the whole position takes the new price.
WrittenPosition(r) ==
  [state |-> IF req[r].target = r THEN "live" ELSE pos[req[r].target].state,
   qty |-> req[r].newQty,
   notional |-> Abs(req[r].newQty) * req[r].price,
   margin |-> req[r].newMargin]

CreateCommit(r) ==
  /\ req[r].pc = "c_commit"
  /\ posLock[req[r].target] = None
  /\ pos' = [pos EXCEPT ![req[r].target] = WrittenPosition(r)]
  /\ account' = [account EXCEPT ![req[r].user].marginUsed = req[r].mu]
  /\ order' = [order EXCEPT ![r] = [status |-> req[r].status, target |-> req[r].target]]
  /\ Free(r)
  /\ Answer(r, "done")
  /\ UNCHANGED <<external, uds, peak, budget>>

\* Defective variant: the position is read before any lock is taken, and its whole
\* row is written back.
CreateOrderMerging(r) ==
  \/ CreateBegin(r) \/ CreateExposure(r) \/ CreateRisk(r) \/ CreatePlace(r)
  \/ CreateFlush(r) \/ CreateLockUnlocked(r)
  \/ /\ req[r].pc = "c_commit" /\ posLock[req[r].target] = None
     /\ pos' = [pos EXCEPT ![req[r].target] = [WrittenPosition(r) EXCEPT !.state = "live"]]
     /\ account' = [account EXCEPT ![req[r].user].marginUsed = req[r].mu]
     /\ order' = [order EXCEPT ![r] = [status |-> req[r].status, target |-> req[r].target]]
     /\ Free(r)
     /\ Answer(r, "done")
     /\ UNCHANGED <<external, uds, peak, budget>>

CreateOrder(r) ==
  \/ CreateBegin(r) \/ CreateExposure(r) \/ CreateRisk(r) \/ CreatePlace(r)
  \/ CreateFlush(r) \/ CreateLock(r) \/ CreateCommit(r)
-----------------------------------------------------------------------------
(***************************************************************************)
(* close_position                                                          *)
(***************************************************************************)
CloseBegin(r) ==
  /\ "close" \in Kinds /\ req[r].pc = "idle" /\ Admit
  /\ \E u \in Users, s \in Symbols :
       \/ LiveOf(u, s) = {} /\ Drop(r, "rejected")
       \/ \E p \in LiveOf(u, s) :
            /\ LiveOf(u, s) = {p}
            /\ Set(r, [NoReq EXCEPT !.pc = "x_place", !.user = u, !.symbol = s,
                                    !.target = p, !.qty = pos[p].qty,
                                    !.margin = pos[p].margin])
  /\ UNCHANGED <<rows, locks, external, uds, budget>>

\* The exchange refuses an order of size 0.
ClosePlace(r) ==
  /\ req[r].pc = "x_place"
  /\ \/ req[r].qty # 0 /\ Goto(r, "x_account")
     \/ Drop(r, "failed")
  /\ UNCHANGED <<rows, locks, external, uds, budget>>

ReleasedMargin(mu, margin) == MaxOf(mu - margin, 0)

\* The account is selected only now; an unchanged margin_used is not written.
CloseAccount(r) ==
  /\ req[r].pc = "x_account"
  /\ LET mu == account[req[r].user].marginUsed
         new == ReleasedMargin(mu, req[r].margin)
     IN  Set(r, [req[r] EXCEPT !.mu = new,
                               !.pc = IF new # mu THEN "x_lock" ELSE "x_commit"])
  /\ UNCHANGED <<rows, locks, external, uds, budget>>

\* The flush updates the account first.
CloseLock(r) ==
  /\ req[r].pc = "x_lock"
  /\ accLock[req[r].user] = None
  /\ accLock' = [accLock EXCEPT ![req[r].user] = r]
  /\ Goto(r, "x_commit")
  /\ UNCHANGED <<rows, posLock, external, uds, budget>>

\* Then it marks the position and inserts the closing order and its trade.
CloseCommit(r) ==
  /\ req[r].pc = "x_commit"
  /\ posLock[req[r].target] = None
  /\ pos' = [pos EXCEPT ![req[r].target].state = "liquidated"]
  /\ account' = [account EXCEPT ![req[r].user].marginUsed =
                   IF accLock[req[r].user] = r THEN req[r].mu ELSE @]
  /\ order' = [order EXCEPT ![r] = [status |-> "FILLED", target |-> None]]
  /\ Free(r)
  /\ Answer(r, "done")
  /\ UNCHANGED <<external, uds, peak, budget>>

ClosePosition(r) ==
  CloseBegin(r) \/ ClosePlace(r) \/ CloseAccount(r) \/ CloseLock(r) \/ CloseCommit(r)
-----------------------------------------------------------------------------
(***************************************************************************)
(* cancel_order                                                            *)
(***************************************************************************)
Cancellable(o) == order[o].status \notin {"absent", "FILLED"}

CancelBegin(r) ==
  /\ "cancel" \in Kinds /\ req[r].pc = "idle" /\ Admit
  /\ \/ \E o \in Reqs :
          /\ Cancellable(o)
          /\ Set(r, [NoReq EXCEPT !.pc = IF key[o] THEN "k_place" ELSE "k_commit",
                                  !.target = o])
     \/ Drop(r, "rejected")   \* no such order of this user, or a filled one
  /\ UNCHANGED <<rows, locks, external, uds, budget>>

\* Defective variant: the exchange's refusal is ignored.
CancelPlaceIgnoringRefusal(r) ==
  /\ req[r].pc = "k_place"
  /\ LET o == req[r].target
     IN  exchange' = [exchange EXCEPT ![o] = IF @ = "resting" THEN "cancelled" ELSE @]
  /\ Goto(r, "k_commit")
  /\ UNCHANGED <<rows, locks, key, uds, budget>>

\* The exchange cancels a resting order and refuses any other; a failed call
\* may still have cancelled it.
CancelPlace(r) ==
  /\ req[r].pc = "k_place"
  /\ LET o == req[r].target
     IN  \/ /\ exchange[o] = "resting"
            /\ exchange' = [exchange EXCEPT ![o] = "cancelled"]
            /\ Goto(r, "k_commit") \/ Drop(r, "failed")
         \/ exchange' = exchange /\ Drop(r, "failed")
  /\ UNCHANGED <<rows, locks, key, uds, budget>>

CancelCommit(r) ==
  /\ req[r].pc = "k_commit"
  /\ order' = [order EXCEPT ![req[r].target].status = "CANCELED"]
  /\ Answer(r, "done")
  /\ UNCHANGED <<account, pos, peak, locks, external, uds, budget>>

CancelOrder(r) == CancelBegin(r) \/ CancelPlace(r) \/ CancelCommit(r)
-----------------------------------------------------------------------------
(***************************************************************************)
(* sync_balance_from_exchange                                              *)
(***************************************************************************)
SyncBegin(r) ==
  /\ "sync" \in Kinds /\ req[r].pc = "idle" /\ Admit
  /\ \E u \in Users :
       Set(r, [NoReq EXCEPT !.pc = "s_wallet", !.user = u, !.bal = account[u].balance])
  /\ UNCHANGED <<rows, locks, external, uds, budget>>

\* The wallet balance arrives; a failed call and an unchanged one write nothing.
SyncWallet(r) ==
  /\ req[r].pc = "s_wallet"
  /\ \/ \E w \in Wallets \ {req[r].bal} :
          Set(r, [req[r] EXCEPT !.pc = "s_commit", !.bal = w])
     \/ Drop(r, "done")
  /\ UNCHANGED <<rows, locks, external, uds, budget>>

\* Only the balance column is written, under the row lock.
SyncCommit(r) ==
  /\ req[r].pc = "s_commit"
  /\ accLock[req[r].user] = None
  /\ account' = [account EXCEPT ![req[r].user].balance = req[r].bal]
  /\ peak' = [peak EXCEPT ![req[r].user] = MaxOf(@, req[r].bal)]
  /\ Drop(r, "done")
  /\ UNCHANGED <<pos, order, locks, external, uds, budget>>

SyncBalance(r) == SyncBegin(r) \/ SyncWallet(r) \/ SyncCommit(r)
-----------------------------------------------------------------------------
(***************************************************************************)
(* _apply_liquidation, called by the user data stream for one event at a   *)
(* time.  Its loop sets `liquidated` on a position and then selects the    *)
(* account, which first flushes what is pending: the previous account's    *)
(* margin_used and this position.  So it locks positions before accounts,  *)
(* the handlers above accounts before positions.                           *)
(***************************************************************************)
\* With no live position the handler returns at once.
UdsBegin(s) ==
  LET live == {p \in LivePositions : req[p].symbol = s}
  IN  /\ ~uds.busy /\ budget.events > 0 /\ Admit
      /\ live # {}
      /\ uds' = [IdleUds EXCEPT !.busy = TRUE, !.todo = live, !.began = live,
                   !.seen = [p \in Reqs |-> IF p \in live THEN pos[p].margin ELSE 0]]
      /\ budget' = [budget EXCEPT !.events = @ - 1]
      /\ UNCHANGED <<rows, locks, external, req>>

\* The pending UPDATE of an account gets, or holds after this step, its lock.
UdsFlushed ==
  /\ uds.pending # None => accLock[uds.pending] = None
  /\ accLock' = [u \in Users |-> IF u = uds.pending THEN Uds ELSE accLock[u]]

UdsPosition(p) ==
  /\ uds.busy /\ p \in uds.todo
  /\ UdsFlushed
  /\ posLock[p] = None
  /\ posLock' = [posLock EXCEPT ![p] = Uds]
  /\ LET u   == req[p].user
         new == ReleasedMargin(account[u].marginUsed, uds.seen[p])
     IN  uds' = [uds EXCEPT !.todo = @ \ {p}, !.mu[u] = new,
                   !.pending = IF new # account[u].marginUsed THEN u ELSE None]
  /\ UNCHANGED <<rows, external, req, budget>>

\* Defective variant: the accounts' margins are not written back.
UdsCommitPositionsOnly ==
  /\ uds.busy /\ uds.todo = {}
  /\ uds.pending # None => accLock[uds.pending] = None
  /\ pos' = [p \in Reqs |-> IF posLock[p] = Uds THEN [pos[p] EXCEPT !.state = "liquidated"]
                                                 ELSE pos[p]]
  /\ Free(Uds)
  /\ uds' = [IdleUds EXCEPT !.began = uds.began]
  /\ UNCHANGED <<account, order, peak, external, req, budget>>

\* Defective variant: only the position that is pending last is written.
UdsCommitLastOnly ==
  /\ uds.busy /\ uds.todo = {}
  /\ uds.pending # None => accLock[uds.pending] = None
  /\ pos' = [p \in Reqs |-> IF posLock[p] = Uds /\ req[p].user = uds.pending
                            THEN [pos[p] EXCEPT !.state = "liquidated"] ELSE pos[p]]
  /\ account' = [u \in Users |->
       IF u = uds.pending \/ accLock[u] = Uds
       THEN [account[u] EXCEPT !.marginUsed = uds.mu[u]] ELSE account[u]]
  /\ Free(Uds)
  /\ uds' = [IdleUds EXCEPT !.began = uds.began]
  /\ UNCHANGED <<order, peak, external, req, budget>>

UdsCommit ==
  /\ uds.busy /\ uds.todo = {}
  /\ uds.pending # None => accLock[uds.pending] = None
  /\ pos' = [p \in Reqs |-> IF posLock[p] = Uds THEN [pos[p] EXCEPT !.state = "liquidated"]
                                                 ELSE pos[p]]
  /\ account' = [u \in Users |->
       IF u = uds.pending \/ accLock[u] = Uds
       THEN [account[u] EXCEPT !.marginUsed = uds.mu[u]] ELSE account[u]]
  /\ Free(Uds)
  /\ uds' = [IdleUds EXCEPT !.began = uds.began]
  /\ UNCHANGED <<order, peak, external, req, budget>>

\* Defective variant: the session of a failed handler is not rolled back.
UdsAbortKeepingLocks == uds' = [IdleUds EXCEPT !.began = uds.began] /\ UNCHANGED locks

\* An error in the handler is logged and the event is gone.
UdsAbort == uds' = [IdleUds EXCEPT !.began = uds.began] /\ Free(Uds)

Liquidate == (\E s \in Symbols : UdsBegin(s)) \/ (\E p \in Reqs : UdsPosition(p)) \/ UdsCommit
-----------------------------------------------------------------------------
(***************************************************************************)
(* The database, the exchange, Redis and the process                       *)
(***************************************************************************)
\* r holds the account the liquidation waits for and waits for its position.
DeadlockedWith(r) ==
  /\ uds.busy /\ uds.pending # None
  /\ accLock[uds.pending] = r
  /\ req[r].pc \in {"c_commit", "x_commit"}
  /\ posLock[req[r].target] = Uds

\* Postgres finds the cycle and fails one of the two transactions.
DetectDeadlock ==
  /\ \E r \in Reqs :
       /\ DeadlockedWith(r)
       /\ \/ Abort(r) /\ UNCHANGED uds
          \/ UdsAbort /\ UNCHANGED req
  /\ UNCHANGED <<rows, external, budget>>

ExchangeFill(o) ==
  /\ exchange[o] = "resting"
  /\ exchange' = [exchange EXCEPT ![o] = "filled"]
  /\ UNCHANGED <<rows, locks, req, uds, key, budget>>

\* The key was set with ex=86400.
KeyExpire(o) ==
  /\ KeysExpire /\ key[o]
  /\ key' = [key EXCEPT ![o] = FALSE]
  /\ UNCHANGED <<rows, locks, req, uds, exchange, budget>>

\* The process dies with all requests in flight; transactions roll back.
Crash ==
  /\ budget.crashes > 0
  /\ InFlight # {} \/ uds.busy
  /\ req' = [r \in Reqs |-> IF r \in InFlight THEN [NoReq EXCEPT !.pc = "failed"] ELSE req[r]]
  /\ uds' = [IdleUds EXCEPT !.began = uds.began]
  /\ accLock' = [u \in Users |-> None]
  /\ posLock' = [p \in Reqs |-> None]
  /\ budget' = [budget EXCEPT !.crashes = @ - 1]
  /\ UNCHANGED <<rows, external>>

\* Nothing is left to do.
Quiet ==
  /\ \A r \in Reqs : req[r].pc \in Final
  /\ ~uds.busy
  /\ UNCHANGED vars

Step(r) == CreateOrder(r) \/ ClosePosition(r) \/ CancelOrder(r) \/ SyncBalance(r)

Next ==
  \/ \E r \in Reqs : Step(r)
  \/ Liquidate
  \/ DetectDeadlock
  \/ \E o \in Reqs : ExchangeFill(o) \/ KeyExpire(o)
  \/ Crash
  \/ Quiet

Spec == Init /\ [][Next]_vars

\* The event loop runs every task that can run, the database its transactions
\* and its deadlock detector.  New requests, events, fills and crashes are not
\* promised.
Progress(r) == req[r].pc # "idle" /\ Step(r)
UdsProgress == uds.busy /\ Liquidate

FairSpec ==
  /\ Spec
  /\ \A r \in Reqs : WF_vars(Progress(r))
  /\ WF_vars(UdsProgress)
  /\ WF_vars(DetectDeadlock)
-----------------------------------------------------------------------------
(***************************************************************************)
(* Properties                                                              *)
(***************************************************************************)
PositionRow == [state: {"absent", "live", "liquidated"}, qty: Int, notional: Nat, margin: Nat]
OrderRow == [status: {"absent", "NEW", "FILLED", "CANCELED"}, target: Reqs \cup {None}]
RequestRecord ==
  [pc: Pcs, user: Users \cup {None}, symbol: Symbols \cup {None}, qty: Int, price: Nat,
   mu: Nat, bal: Nat, seen: [Reqs -> Nat], margin: Nat, status: {"NEW", "FILLED"},
   target: Reqs \cup {None}, newQty: Int, newMargin: Nat]
UdsRecord ==
  [busy: BOOLEAN, todo: SUBSET Reqs, seen: [Reqs -> Nat], pending: Users \cup {None},
   mu: [Users -> Nat], began: SUBSET Reqs]

\* Every variable keeps its type; in particular margin_used, a position's margin
\* and its notional are never negative.
TypeOK ==
  /\ account \in [Users -> [balance: Nat, marginUsed: Nat]]
  /\ pos \in [Reqs -> PositionRow]
  /\ order \in [Reqs -> OrderRow]
  /\ accLock \in [Users -> Owners]
  /\ posLock \in [Reqs -> {Uds, None}]
  /\ req \in [Reqs -> RequestRecord]
  /\ uds \in UdsRecord
  /\ exchange \in [Reqs -> {"none", "resting", "filled", "cancelled"}]
  /\ key \in [Reqs -> BOOLEAN]
  /\ peak \in [Users -> Nat]
  /\ budget \in [events: Nat, crashes: Nat]

\* A user never has two live positions in one symbol, however many orders,
\* closes and liquidations overlap: there is no unique index, and with two such
\* rows scalar_one_or_none raises in every later create_order and close_position.
OneLivePosition ==
  \A p, q \in LivePositions :
    req[p].user = req[q].user /\ req[p].symbol = req[q].symbol => p = q

OrdersOn(p) == {o \in Reqs : order[o].target = p}
OrderQuantities == [o \in Reqs |-> req[o].qty]
OrderMargins == [o \in Reqs |-> req[o].margin]

\* A position's quantity and margin are those of the orders (trades) booked on
\* it, none lost and none counted twice, in every interleaving: the account's
\* row lock makes create_order's read and write of the position atomic.
PositionIsSumOfOrders ==
  \A p \in Reqs : pos[p].state # "absent" =>
    /\ pos[p].qty = SumFunctionOnSet(OrderQuantities, OrdersOn(p))
    /\ pos[p].margin = SumFunctionOnSet(OrderMargins, OrdersOn(p))

\* The margin an account has committed never exceeds the largest balance it has
\* had nor falls below zero, although create_order checks one copy of margin_used,
\* concurrent handlers write others, and closes release more than is left.
MarginUsedWithinBalance == \A u \in Users : account[u].marginUsed \in 0 .. peak[u]

\* An order in the ledger was really taken by the exchange, whatever calls
\* failed and wherever the process died.
BookedOrdersWerePlaced ==
  \A o \in Reqs : order[o].target # None => exchange[o] # "none"

\* An order the ledger shows as canceled has not been and will not be filled by
\* the exchange (README: "cancel order (if not yet filled)"), as long as Redis has
\* its exchange id: cancel_order does not trust the status in the table.
CanceledOrderNotFilled ==
  \A o \in Reqs : order[o].status = "CANCELED" /\ key[o] => exchange[o] # "filled"

PositionMargins == [p \in Reqs |-> pos[p].margin]

\* Between requests, an account's margin_used is the sum of the margins of its
\* live positions.
MarginUsedIsLiveMargin ==
  InFlight = {} /\ ~uds.busy =>
    \A u \in Users :
      account[u].marginUsed = SumFunctionOnSet(PositionMargins, LivePositionsOf(u))

\* The live positions together never exceed the global exposure threshold
\* (README: "Order rejected if: global exposure threshold exceeded").
GlobalExposureWithinThreshold == GlobalExposure <= GlobalExposureThreshold

\* The live positions of a user never exceed the limit of the user's tier.
UserExposureWithinLimit == \A u \in Users : WithinUserLimit(Tier[u], UserExposure(u))

\* Handlers that overlap may pass the check on exposures that do not include each
\* other's orders.  The excess is bounded: with MaxInFlight of them at a time, the
\* positions never exceed that many times what the limit allows a single one, for
\* all users together and for each, whose exposure is read still earlier.
ExposureWithinOverlap ==
  /\ GlobalExposure <= MaxInFlight * GlobalExposureThreshold
  /\ \A u \in Users :
       100 * UserExposure(u) <= MaxInFlight * (GlobalExposureThreshold * ExposurePercent[Tier[u]])

\* Once an event that reports a symbol's positions as closed has been handled,
\* the positions that were live when it arrived are not live any more
\* (user_data_stream.py: "ensure the local DB reflects that").  It can hold only where
\* no other transaction overlaps the handler's, which may lose a deadlock.
HandledEventIsReflected ==
  ~uds.busy => \A p \in uds.began : pos[p].state = "liquidated"

\* A request that has started is answered, and a liquidation event that is being
\* handled comes to an end: nobody waits for a row lock for ever, although the
\* handlers take the locks in opposite orders.
EveryRequestAnswered == \A r \in Reqs : req[r].pc # "idle" ~> req[r].pc \in Final
EveryEventHandled == uds.busy ~> ~uds.busy

\* The owner of the row lock that the next step of a request needs, and of the one
\* that the liquidation's next flush needs.
Blocker(r) ==
  IF req[r].pc \in {"c_lock", "x_lock", "s_commit"} THEN accLock[req[r].user]
  ELSE IF req[r].pc \in {"c_commit", "x_commit"} THEN posLock[req[r].target]
  ELSE None
UdsBlocker == IF uds.pending = None THEN None ELSE accLock[uds.pending]

\* Nobody waits for a transaction that is gone, nor in a cycle that Postgres is not
\* going to break: who waits for a request waits for one that can commit or waits
\* itself for the liquidation, and the liquidation, which never comes back to an
\* account it has locked, waits only for a request that can commit or for the one it
\* is deadlocked with.
EveryWaitEnds ==
  /\ \A r \in Reqs : Blocker(r) # None =>
       \/ Blocker(r) = Uds /\ uds.busy
       \/ \E q \in Reqs : /\ Blocker(r) = q /\ req[q].pc \in {"c_commit", "x_commit"}
                         /\ Blocker(q) \in {None, Uds}
  /\ UdsBlocker # None =>
       \E q \in Reqs : /\ UdsBlocker = q /\ req[q].pc \in {"c_commit", "x_commit"}
                      /\ (Blocker(q) = None \/ DeadlockedWith(q))

\* A closed position never becomes live again.
ClosedStaysClosed ==
  [][\A p \in Reqs : pos[p].state = "liquidated" => pos'[p].state = "liquidated"]_vars

NetPosition(u, s) ==
  LET live == LiveOf(u, s)
  IN  IF live = {} THEN None ELSE pos[CHOOSE p \in live : TRUE].qty

PositionsTable == INSTANCE PositionBook WITH
  book <- [us \in Users \X Symbols |-> NetPosition(us[1], us[2])],
  Flat <- None

\* The interleaved handlers implement the atomic position book: whatever they
\* have read before, a commit adds exactly one order's quantity to the user's net
\* position, closes positions, or leaves every net position alone.
PositionBookSpec == PositionsTable!Spec

\* The tables as the reports read them.
OrdersBooked == [p \in Reqs |-> OrdersOn(p)]
ClosedPositions == {p \in Reqs : pos[p].state = "liquidated"}
OrdersTraded == {o \in Reqs : order[o].status # "absent"}

ReadTables == INSTANCE LedgerRows WITH
  Orders <- Reqs, booked <- OrdersBooked, closed <- ClosedPositions, trades <- OrdersTraded

\* The handlers implement the ledger that the regulator's reports take as given:
\* what they commit adds an order and its trade at once, to a position that was
\* there or that it opens, closes positions, or is invisible to a report.
LedgerRowsSpec == ReadTables!LedgerSpec
=============================================================================
