---------------------------- MODULE KlineStream ----------------------------
(***************************************************************************)
(* Candles: the kline stream (kline_stream.py), the volatility monitor it  *)
(* feeds for the risk engine (risk_engine/volatility.py), and the kline    *)
(* clients of ws_hub.py, who watch a symbol and an interval each.          *)
(*                                                                         *)
(* A candle is the number of its hour; what the monitor keeps of one is    *)
(* the candle.  Frames arrive in order while the connection lives and wait *)
(* until the broadcast of the one before is over.                          *)
(***************************************************************************)
EXTENDS HubLoop, Sequences

CONSTANTS Viewers,     \* websockets that will watch candles
          MaxHours,   \* bound on the hours of a symbol
          MaxFrames   \* bound on the frames that wait

ASSUME KlineAssumption ==
  None \notin Viewers /\ MaxHours \in Nat /\ MaxFrames \in Nat

VARIABLES
  hour,      \* [Symbols -> the newest candle that has closed at the exchange, 0 if none]
  link,      \* the connection: waiting, streaming or lost, when its last frames are read
  frames,    \* the frames received and not processed
  gap,       \* the symbols whose newest closed candle was not sent to this process
  reading,   \* [Symbols -> the candle whose range the monitor keeps, 0 if none]
  watching,  \* [Channels -> _kline_clients]
  viewer,    \* [Viewers -> the websocket: new, open, broken or left]
  frame,     \* the channel of the broadcast under way, or the last
  airing     \* the broadcast under way

klineVars == <<hour, link, frames, gap, reading, watching, viewer, frame, airing>>

\* Of VALID_INTERVALS, the one that counts and one that does not.
Intervals == {"1h", "1m"}
Channels  == Symbols \X Intervals

\* What is sent about the candle of an hour.
Frame(s, i, candle, closed) == [symbol |-> s, interval |-> i, candle |-> candle, closed |-> closed]

KlineInit ==
  /\ hour = [s \in Symbols |-> 0] /\ link = "waiting" /\ frames = <<>> /\ gap = {}
  /\ reading = [s \in Symbols |-> 0]
  /\ watching = [c \in Channels |-> {}] /\ viewer = [v \in Viewers |-> "new"]
  /\ frame = None /\ airing = NoCast
-----------------------------------------------------------------------------
\* The exchange closes the hour of s; only a live connection brings the frame.
CloseHour(s) ==
  /\ hour[s] < MaxHours /\ Len(frames) < MaxFrames
  /\ hour' = [hour EXCEPT ![s] = @ + 1]
  /\ IF link = "streaming"
     THEN frames' = Append(frames, Frame(s, "1h", hour'[s], TRUE)) /\ gap' = gap \ {s}
     ELSE frames' = frames /\ gap' = gap \cup {s}
  /\ UNCHANGED <<link, reading, watching, viewer, frame, airing>>

\* A frame about the hour that goes on, or a minute of it, in progress or closed.
MidHour(s, i, closed) ==
  /\ link = "streaming" /\ Len(frames) < MaxFrames
  /\ i = "1h" => ~closed
  /\ frames' = Append(frames, Frame(s, i, hour[s] + 1, closed))
  /\ UNCHANGED <<hour, link, gap, reading, watching, viewer, frame, airing>>

KlineConnect ==
  /\ link = "waiting"
  /\ link' = "streaming"
  /\ UNCHANGED <<hour, frames, gap, reading, watching, viewer, frame, airing>>

\* The connection is closed or lost ...
KlineLose ==
  /\ link = "streaming"
  /\ link' = "lost"
  /\ UNCHANGED <<hour, frames, gap, reading, watching, viewer, frame, airing>>

\* ... and the loop is over once the frames that it has brought are.
KlineReconnect ==
  /\ link = "lost" /\ frames = <<>> /\ airing.at = None
  /\ link' = "waiting"
  /\ UNCHANGED <<hour, frames, gap, reading, watching, viewer, frame, airing>>
-----------------------------------------------------------------------------
\* Defective variant: a candle in progress counts, too.
FeedsInProgress(f) == f.interval = "1h"

\* The candle goes to the volatility monitor.
Feeds(f) == f.closed /\ f.interval = "1h"

\* A frame is processed up to the first send of its broadcast; an error forgets it, but
\* only after the monitor has it.
Process ==
  LET f == Head(frames)
      channel == <<f.symbol, f.interval>>
  IN  /\ frames # <<>> /\ airing.at = None
      /\ frames' = Tail(frames)
      /\ reading' = IF Feeds(f) THEN [reading EXCEPT ![f.symbol] = f.candle] ELSE reading
      /\ airing' \in Begun(watching[channel])
      /\ frame' = channel
      /\ UNCHANGED <<hour, link, gap, watching, viewer>>

\* A turn of broadcast_kline's loop; what it raises is logged.
Air ==
  /\ airing.at # None
  /\ \E turn \in Turns(airing, watching[frame], {v \in Viewers : viewer[v] # "open"}, FALSE) :
       /\ airing' = turn.cast
       /\ watching' = [watching EXCEPT ![frame] = turn.clients]
  /\ UNCHANGED <<hour, link, frames, gap, reading, viewer, frame>>
-----------------------------------------------------------------------------
Watch(v, channel) ==
  /\ viewer[v] = "new"
  /\ viewer' = [viewer EXCEPT ![v] = "open"]
  /\ watching' = [watching EXCEPT ![channel] = @ \cup {v}]
  /\ airing' = IF channel = frame THEN Joined(airing) ELSE airing
  /\ UNCHANGED <<hour, link, frames, gap, reading, frame>>

ViewerBreaks(v) ==
  /\ viewer[v] = "open"
  /\ viewer' = [viewer EXCEPT ![v] = "broken"]
  /\ UNCHANGED <<hour, link, frames, gap, reading, watching, frame, airing>>

Unwatch(v) ==
  /\ viewer[v] \in {"open", "broken"}
  /\ viewer' = [viewer EXCEPT ![v] = "left"]
  /\ watching' = [c \in Channels |-> watching[c] \ {v}]
  /\ airing' = IF airing.at # None THEN Disturbed(airing, watching[frame] \cap {v}) ELSE airing
  /\ UNCHANGED <<hour, link, frames, gap, reading, frame>>

KlineNext ==
  \/ \E s \in Symbols : \/ CloseHour(s)
                        \/ \E i \in Intervals, closed \in BOOLEAN : MidHour(s, i, closed)
  \/ KlineConnect \/ KlineLose \/ KlineReconnect \/ Process \/ Air
  \/ \E v \in Viewers : \/ \E c \in Channels : Watch(v, c)
                        \/ ViewerBreaks(v) \/ Unwatch(v)

KlineSpec == KlineInit /\ [][KlineNext]_klineVars
-----------------------------------------------------------------------------
\* The variables' types.
KlineTypeOK ==
  /\ hour \in [Symbols -> 0 .. MaxHours] /\ reading \in [Symbols -> 0 .. MaxHours]
  /\ link \in {"waiting", "streaming", "lost"} /\ gap \subseteq Symbols
  /\ frames \in Seq([symbol : Symbols, interval : Intervals, candle : Nat, closed : BOOLEAN])
  /\ watching \in [Channels -> SUBSET Viewers]
  /\ viewer \in [Viewers -> {"new", "open", "broken", "left"}]
  /\ frame \in Channels \cup {None}
  /\ airing \in [at : Viewers \cup {None}, size : Nat, sent : SUBSET Viewers,
                 stale : SUBSET Viewers, present : SUBSET Viewers, churn : BOOLEAN]

\* The closed candle of s that the monitor should have waits to be processed.
Waits(s) == \E i \in 1 .. Len(frames) : frames[i] = Frame(s, "1h", hour[s], TRUE)

\* The risk engine's volatility is that of the newest closed hour, unless that candle still
\* waits behind a broadcast or closed while there was no connection: viewers that break or
\* come and go, candles in progress, other intervals and reconnections never set it back.
MonitorIsCurrent == \A s \in Symbols : reading[s] = hour[s] \/ Waits(s) \/ s \in gap

=============================================================================
