---------------------------- MODULE UserDataLink ----------------------------
(***************************************************************************)
(* The connection of user_data_stream.py to Binance's user data stream:    *)
(* start, the keepalive loop and the stream loop of                        *)
(* UserDataStreamService, with the listen key calls of binance_service.py. *)
(* What a delivered event does to the database is TradingLedger's.         *)
(*                                                                         *)
(* Time passes in units of five minutes, _MAX_RECONNECT_DELAY; a call to   *)
(* the exchange is answered within the unit.  The key's validity is the    *)
(* exchange's; a connection with a lapsed key stays open and is silent.    *)
(***************************************************************************)
EXTENDS Naturals

CONSTANTS KeepaliveInterval,  \* _KEEPALIVE_INTERVAL, in units
          KeyValidity         \* how long the exchange keeps a key, in units

ASSUME LinkAssumption ==
  /\ KeepaliveInterval \in Nat \ {0} /\ KeyValidity \in Nat
  /\ KeepaliveInterval < KeyValidity

BaseDelay == 5     \* _RECONNECT_BASE_DELAY, in seconds
MaxDelay  == 300   \* _MAX_RECONNECT_DELAY, in seconds
Unit      == 300   \* the seconds of a unit of time
MaxOutage == 2     \* units counted in outage

VARIABLES
  reach,    \* the exchange can be reached
  pc,       \* start and _stream_loop: new, off, connecting, streaming, sleeping or refreshing
  delay,    \* the next delay, in seconds
  slept,    \* units of time that have begun in the current sleep
  idle,     \* units the keepalive loop has slept
  age,      \* units since the key was issued or renewed, at most KeyValidity
  failed,   \* the last call for the key failed
  outage    \* units begun with the exchange in reach and the stream down, at most MaxOutage

vars == <<reach, pc, delay, slept, idle, age, failed, outage>>

Lapsed == age >= KeyValidity

Init ==
  /\ reach \in BOOLEAN /\ pc = "new" /\ delay = BaseDelay /\ slept = 0
  /\ idle = 0 /\ age = KeyValidity /\ failed = FALSE /\ outage = 0
-----------------------------------------------------------------------------
\* A request for a key, which the exchange answers when it can be reached: the current
\* key, as good as new.
KeyRequest ==
  /\ age' = IF reach THEN 0 ELSE age
  /\ failed' = ~reach

\* Without a key neither loop is started.
Start ==
  /\ pc = "new"
  /\ KeyRequest
  /\ pc' = IF reach THEN "connecting" ELSE "off"
  /\ UNCHANGED <<reach, delay, slept, idle, outage>>

Connect ==
  /\ pc = "connecting" /\ reach
  /\ pc' = "streaming" /\ outage' = 0
  /\ UNCHANGED <<reach, delay, slept, idle, age, failed>>

\* The connection is refused or lost: the loop sleeps for delay, which is reset only
\* when the exchange has closed the connection in order.
Disconnect ==
  /\ \/ pc = "connecting" /\ ~reach /\ delay' = delay
     \/ pc = "streaming" /\ delay' \in {delay, BaseDelay}
  /\ pc' = "sleeping" /\ slept' = 0
  /\ UNCHANGED <<reach, idle, age, failed, outage>>

\* The sleep of delay seconds is over: as many units have begun as can have.
Slept == pc = "sleeping" /\ (slept + 1) * Unit > delay

\* Defective variant: the delay has no limit.
WakeUncapped ==
  /\ Slept
  /\ delay' = 2 * delay
  /\ pc' = "refreshing"
  /\ UNCHANGED <<reach, slept, idle, age, failed, outage>>

Wake ==
  /\ Slept
  /\ delay' = IF 2 * delay < MaxDelay THEN 2 * delay ELSE MaxDelay
  /\ pc' = "refreshing"
  /\ UNCHANGED <<reach, slept, idle, age, failed, outage>>

\* Defective variant: the exception of a failed request ends the loop.
RefreshEscaping ==
  /\ pc = "refreshing"
  /\ KeyRequest
  /\ pc' = IF reach THEN "connecting" ELSE "ended"
  /\ UNCHANGED <<reach, delay, slept, idle, outage>>

\* The key is asked for again; a failure is logged and the old one used.
Refresh ==
  /\ pc = "refreshing"
  /\ KeyRequest
  /\ pc' = "connecting"
  /\ UNCHANGED <<reach, delay, slept, idle, outage>>

\* Defective variant: the loop sleeps as long as the key is valid.
DueLate == pc \notin {"new", "off"} /\ idle = KeyValidity

\* The keepalive loop's sleep is over.
Due == pc \notin {"new", "off"} /\ idle = KeepaliveInterval

\* The keepalive loop: the key is renewed, a failure is logged, and it sleeps again.
Keepalive ==
  /\ Due
  /\ idle' = 0
  /\ KeyRequest
  /\ UNCHANGED <<reach, pc, delay, slept, outage>>
-----------------------------------------------------------------------------
\* The exchange comes into and goes out of reach.
Reach ==
  /\ reach' = ~reach /\ outage' = 0
  /\ UNCHANGED <<pc, delay, slept, idle, age, failed>>

\* A unit of time begins: calls are over, no sleep is overslept.
Tick ==
  /\ pc \notin {"new", "connecting", "refreshing"} /\ ~Due
  /\ pc = "sleeping" => slept * Unit < delay
  /\ slept' = IF pc = "sleeping" THEN slept + 1 ELSE slept
  /\ idle' = IF pc = "off" THEN idle ELSE idle + 1
  /\ age' = IF Lapsed THEN age ELSE age + 1
  /\ outage' = IF reach /\ pc \notin {"streaming", "off"} /\ outage < MaxOutage
               THEN outage + 1 ELSE outage
  /\ UNCHANGED <<reach, pc, delay, failed>>

Next ==
  \/ Start \/ Connect \/ Disconnect \/ Wake \/ Refresh \/ Keepalive
  \/ Reach \/ Tick

Spec == Init /\ [][Next]_vars

\* The event loop runs what is ready, and time passes.
FairSpec ==
  /\ Spec
  /\ WF_vars(Start) /\ WF_vars(Connect) /\ WF_vars(pc = "connecting" /\ Disconnect)
  /\ WF_vars(Wake) /\ WF_vars(Refresh) /\ WF_vars(Keepalive) /\ WF_vars(Tick)
-----------------------------------------------------------------------------
\* The variables' types.
TypeOK ==
  /\ reach \in BOOLEAN /\ failed \in BOOLEAN
  /\ pc \in {"new", "off", "connecting", "streaming", "sleeping", "refreshing"}
  /\ delay \in Nat \ {0} /\ slept \in Nat /\ idle \in Nat /\ outage \in Nat
  /\ age \in 0 .. KeyValidity

\* An open connection never falls silent because its key has lapsed, unless the last
\* renewal failed: the keepalive loop and the reconnections together renew in time,
\* whatever the order of their requests.
ValidWhileStreaming == pc = "streaming" /\ Lapsed => failed

\* Once the exchange is in reach, a running stream is connected before a second unit has
\* passed: however long the outage was, the delay has not grown beyond its limit.
ReconnectsSoon == outage <= 1

\* As long as the exchange stays in reach the stream loop comes back to streaming,
\* whatever failed before, unless it was never started.
Reconnects == <>[]reach => []<>(pc \in {"streaming", "off"})

=============================================================================
