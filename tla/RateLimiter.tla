---------------------------- MODULE RateLimiter ----------------------------
(***************************************************************************)
(* RateLimitMiddleware (middleware/rate_limit.py): a counter per principal *)
(* and minute in Redis, incremented by every request and given a time to   *)
(* live by the first.  INCR and EXPIRE are two calls: either may raise,    *)
(* before or after Redis has executed it, and the process may die between  *)
(* them.  Redis itself keeps its keys until they expire.                   *)
(***************************************************************************)
EXTENDS RequestClock

CONSTANTS Principals,  \* the sub of a token, or a client's address
          None,        \* no principal
          Limit,       \* rate_limit_per_minute
          Window,      \* a minute, in units of the clock
          KeyTtl       \* the time to live of a counter: 61 seconds

ASSUME LimiterAssumption ==
  /\ None \notin Principals
  /\ Limit \in Nat \ {0} /\ Window \in Nat \ {0}
  /\ KeyTtl \in Nat /\ KeyTtl > Window

VARIABLES
  counters,  \* [Counters -> Redis: the count, 0 if there is no key, and when it expires]
  limited    \* [Requests -> the dispatch of the request: where it is and what it has read]

limiterVars == <<now, counters, limited>>

Minutes  == 0 .. MaxTime
Counters == Principals \X Minutes

NoKey == [count |-> 0, deadline |-> 0]   \* a deadline of 0: the key has no time to live

\* at: new, incr or expire (that call is awaited), passed, refused, or lost in a crash;
\* count is the answer to INCR, late that it came when the counter may have expired.
NotStarted == [at |-> "new", principal |-> None, minute |-> 0, count |-> 0, late |-> FALSE,
               failed |-> FALSE]

LimiterInit ==
  /\ ClockInit
  /\ counters = [k \in Counters |-> NoKey]
  /\ limited = [r \in Requests |-> NotStarted]
-----------------------------------------------------------------------------
\* Defective variant: one counter per principal.
RedisKeyOfPrincipal(r) == <<limited[r].principal, 0>>

\* The Redis key.
RedisKey(r) == <<limited[r].principal, limited[r].minute>>

\* The counter k cannot expire before.
EndOf(k) == k[2] * Window + KeyTtl

Verdict(count) == IF count > Limit THEN "refused" ELSE "passed"

\* A request without a principal is not counted.
Arrive(r, principal) ==
  /\ limited[r].at = "new"
  /\ limited' = [limited EXCEPT ![r] = [NotStarted EXCEPT
                   !.at = IF principal = None THEN "passed" ELSE "incr",
                   !.principal = principal, !.minute = now \div Window]]
  /\ UNCHANGED <<now, counters>>

\* The call raises, and the request is let through.
LetThrough(r) == limited' = [limited EXCEPT ![r] = [@ EXCEPT !.at = "passed", !.failed = TRUE]]

\* Defective variant: the second request of a minute calls EXPIRE.
IncrementLate(r) ==
  LET k     == RedisKey(r)
      count == counters[k].count + 1
      incremented == [counters EXCEPT ![k] = [@ EXCEPT !.count = count]]
  IN  /\ limited[r].at = "incr"
      /\ \/ /\ counters' = incremented
            /\ limited' = [limited EXCEPT ![r] = [@ EXCEPT
                             !.at = IF count = 2 THEN "expire" ELSE Verdict(count),
                             !.count = count,
                             !.late = now >= EndOf(k)]]
         \/ counters' \in {counters, incremented} /\ LetThrough(r)
      /\ now' = now

\* INCR: the key is created if there is none; an answer of 1 calls for EXPIRE.
Increment(r) ==
  LET k     == RedisKey(r)
      count == counters[k].count + 1
      incremented == [counters EXCEPT ![k] = [@ EXCEPT !.count = count]]
  IN  /\ limited[r].at = "incr"
      /\ \/ /\ counters' = incremented
            /\ limited' = [limited EXCEPT ![r] = [@ EXCEPT
                             !.at = IF count = 1 THEN "expire" ELSE Verdict(count),
                             !.count = count,
                             !.late = now >= EndOf(k)]]
         \/ counters' \in {counters, incremented} /\ LetThrough(r)
      /\ now' = now

\* Defective variant: the time to live is over before the minute is.
ExpireEarly(r) ==
  LET k   == RedisKey(r)
      set == [counters EXCEPT ![k] = [@ EXCEPT !.deadline = now + 1]]
  IN  /\ limited[r].at = "expire"
      /\ \/ counters' = set /\ limited' = [limited EXCEPT ![r] = [@ EXCEPT !.at = Verdict(1)]]
         \/ counters' \in {counters, set} /\ LetThrough(r)
      /\ now' = now

\* EXPIRE.
Expire(r) ==
  LET k   == RedisKey(r)
      set == [counters EXCEPT ![k] = [@ EXCEPT !.deadline = now + KeyTtl]]
  IN  /\ limited[r].at = "expire"
      /\ \/ counters' = set /\ limited' = [limited EXCEPT ![r] = [@ EXCEPT !.at = Verdict(1)]]
         \/ counters' \in {counters, set} /\ LetThrough(r)
      /\ now' = now

\* Time passes; Redis drops the keys whose time has come.
PassTime ==
  /\ Tick
  /\ counters' = [k \in Counters |-> IF counters[k].deadline \in 1 .. now'
                                     THEN NoKey ELSE counters[k]]
  /\ UNCHANGED limited

\* The process dies, with the requests that wait for Redis.
LimiterCrash ==
  /\ limited' = [r \in Requests |-> IF limited[r].at \in {"incr", "expire"}
                                    THEN [limited[r] EXCEPT !.at = "lost"] ELSE limited[r]]
  /\ UNCHANGED <<now, counters>>

LimiterNext ==
  \/ \E r \in Requests : \/ \E p \in Principals \cup {None} : Arrive(r, p)
                         \/ Increment(r) \/ Expire(r)
  \/ PassTime \/ LimiterCrash

LimiterSpec == LimiterInit /\ [][LimiterNext]_limiterVars
-----------------------------------------------------------------------------
\* The variables' types.
LimiterTypeOK ==
  /\ now \in 0 .. MaxTime
  /\ counters \in [Counters -> [count : Nat, deadline : Nat]]
  /\ limited \in [Requests -> [at : {"new", "incr", "expire", "passed", "refused", "lost"},
                               principal : Principals \cup {None}, minute : Minutes,
                               count : Nat, late : BOOLEAN, failed : BOOLEAN]]
  /\ \A r \in Requests : limited[r].at \in {"incr", "expire", "refused"}
                           => limited[r].principal \in Principals
  /\ \A r \in Requests : limited[r].at = "new" => limited[r].principal = None

\* The requests that Redis has counted for k in time and that are within the limit: they
\* have passed or, if the EXPIRE of the first is still awaited, will.
Admitted(k) ==
  {r \in Requests : RedisKey(r) = k /\ limited[r].count \in 1 .. Limit /\ ~limited[r].late}

\* README: 100 requests a minute.  Of the requests of a principal that arrive in a minute
\* and are counted within 61 seconds of its start, no more than the limit are admitted: a
\* counter does not start again, wherever in the minute it was created and given its time
\* to live.
LimitKept == \A k \in Counters : Cardinality(Admitted(k)) <= Limit

\* A 429 is deserved: more than the limit of the principal's requests have arrived in that
\* minute.  Failures, crashes and counters that outlive their minute take no request away.
RefusedOverLimit ==
  \A r \in Requests : limited[r].at = "refused" =>
    Cardinality({q \in Requests : limited[q].principal = limited[r].principal
                                  /\ limited[q].minute = limited[r].minute}) > Limit

\* A counter has a time to live, unless its EXPIRE is awaited, or a call for it failed or
\* was cut off by a crash: only then does it stay in Redis for ever.
CountersExpire ==
  \A k \in Counters : counters[k].count > 0 /\ counters[k].deadline = 0 =>
    \E r \in Requests : RedisKey(r) = k /\ (limited[r].at \in {"expire", "lost"} \/ limited[r].failed)

=============================================================================
