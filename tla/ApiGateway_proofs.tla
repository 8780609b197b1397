------------------------- MODULE ApiGateway_proofs -------------------------
(***************************************************************************)
(* The rate limiter and the API keys keep their promises for any number of *)
(* requests, principals, keys and calls, any limit and any length of the   *)
(* minute, and the gateway composes them without disturbing them.          *)
(***************************************************************************)
EXTENDS ApiGateway, FiniteSetTheorems, TLAPS

Record == [at : {"new", "incr", "expire", "passed", "refused", "lost"},
           principal : Principals \cup {None}, minute : Minutes,
           count : Nat, late : BOOLEAN, failed : BOOLEAN]
Counter == [count : Nat, deadline : Nat]

LEMMA MinuteOf ==
  ASSUME NEW t \in 0 .. MaxTime
  PROVE  t \div Window \in Minutes /\ (t \div Window) * Window <= t
<1>1. MaxTime \in Nat /\ Window \in Nat \ {0} /\ t \in Nat
  BY ClockAssumption, LimiterAssumption
<1>2. t \div Window \in Nat /\ (t \div Window) * Window <= t /\ t \div Window <= t
  BY <1>1, SMTT(20)
<1>. QED BY <1>1, <1>2 DEF Minutes

LEMMA KeyOf ==
  ASSUME LimiterTypeOK, NEW r \in Requests, limited[r].principal \in Principals
  PROVE  RedisKey(r) \in Counters
BY DEF LimiterTypeOK, Counters, RedisKey

LEMMA EndType ==
  ASSUME NEW k \in Counters
  PROVE  k[2] \in Nat /\ k[2] * Window \in Nat /\ EndOf(k) \in Nat /\ EndOf(k) > 0
<1>1. k[2] \in Nat /\ Window \in Nat /\ KeyTtl \in Nat /\ KeyTtl > 0
  BY ClockAssumption, LimiterAssumption DEF Counters, Minutes
<1>2. k[2] * Window \in Nat
  BY <1>1, SMTT(20)
<1>. QED BY <1>1, <1>2 DEF EndOf

(***************************************************************************)
(* What the limiter's actions do to one request and one counter.           *)
(***************************************************************************)
\* The request r takes the record x.
Takes(r, x) == limited' = [limited EXCEPT ![r] = x]

\* The counter k takes the value c.
Sets(k, c) == counters' = [counters EXCEPT ![k] = c]

LEMMA TakesRecord ==
  ASSUME LimiterTypeOK, NEW r \in Requests, NEW x \in Record, Takes(r, x)
  PROVE  /\ limited' \in [Requests -> Record]
         /\ limited'[r] = x
         /\ \A q \in Requests \ {r} : limited'[q] = limited[q]
BY DEF LimiterTypeOK, Takes, Record

LEMMA SetsCounter ==
  ASSUME LimiterTypeOK, NEW k \in Counters, NEW c \in Counter, Sets(k, c)
  PROVE  /\ counters' \in [Counters -> Counter]
         /\ counters'[k] = c
         /\ \A j \in Counters \ {k} : counters'[j] = counters[j]
BY DEF LimiterTypeOK, Sets, Counter

LEMMA ArriveStep ==
  ASSUME LimiterTypeOK, NEW r \in Requests, NEW p \in Principals \cup {None}, Arrive(r, p)
  PROVE  /\ limited[r].at = "new" /\ limited[r].principal = None
         /\ now' = now /\ counters' = counters
         /\ limited' \in [Requests -> Record]
         /\ limited'[r].at = IF p = None THEN "passed" ELSE "incr"
         /\ limited'[r].principal = p /\ limited'[r].count = 0 /\ ~limited'[r].failed
         /\ limited'[r].minute * Window <= now
         /\ \A q \in Requests \ {r} : limited'[q] = limited[q]
<1> DEFINE x == [NotStarted EXCEPT !.at = IF p = None THEN "passed" ELSE "incr",
                                   !.principal = p, !.minute = now \div Window]
<1>1. Takes(r, x) /\ limited[r].at = "new" /\ now' = now /\ counters' = counters
  BY DEF Arrive, Takes
<1>2. now \div Window \in Minutes /\ (now \div Window) * Window <= now
  BY MinuteOf DEF LimiterTypeOK
<1>3. /\ x \in Record /\ x.at = (IF p = None THEN "passed" ELSE "incr") /\ x.principal = p
      /\ x.count = 0 /\ ~x.failed /\ x.minute = now \div Window
  BY <1>2 DEF NotStarted, Record
<1>. HIDE DEF x
<1>4. limited' \in [Requests -> Record] /\ limited'[r] = x
      /\ \A q \in Requests \ {r} : limited'[q] = limited[q]
  BY <1>1, <1>3, TakesRecord
<1>. QED BY <1>1, <1>2, <1>3, <1>4 DEF LimiterTypeOK

\* INCR is answered, or raises before or after it took effect.
LEMMA IncrementStep ==
  ASSUME LimiterTypeOK, NEW r \in Requests, Increment(r), NEW k, k = RedisKey(r)
  PROVE  /\ limited[r].at = "incr" /\ k \in Counters /\ now' = now
         /\ limited' \in [Requests -> Record] /\ counters' \in [Counters -> Counter]
         /\ \A q \in Requests \ {r} : limited'[q] = limited[q]
         /\ \A j \in Counters \ {k} : counters'[j] = counters[j]
         /\ limited'[r].principal = limited[r].principal
         /\ limited'[r].minute = limited[r].minute
         /\ limited'[r].at \in {"expire", "passed", "refused"}
         /\ counters'[k].deadline = counters[k].deadline
         /\ \/ /\ counters'[k].count = counters[k].count + 1
               /\ limited'[r].count = counters'[k].count
               /\ limited'[r].late <=> now >= EndOf(k)
               /\ limited'[r].failed = limited[r].failed
               /\ counters'[k].count = 1 <=> limited'[r].at = "expire"
               /\ limited'[r].at = "refused" => counters'[k].count > Limit
            \/ /\ counters'[k].count \in {counters[k].count, counters[k].count + 1}
               /\ limited'[r].count = limited[r].count /\ limited'[r].late = limited[r].late
               /\ limited'[r].failed /\ limited'[r].at = "passed"
<1> DEFINE count == counters[k].count + 1
           c == [counters[k] EXCEPT !.count = count]
           late == now >= EndOf(k)
           at == IF count = 1 THEN "expire" ELSE Verdict(count)
           x == [limited[r] EXCEPT !.at = at, !.count = count, !.late = late]
           y == [limited[r] EXCEPT !.at = "passed", !.failed = TRUE]
<1>1. limited[r].at = "incr" /\ now' = now /\ k \in Counters
  BY KeyOf DEF Increment, LimiterTypeOK
<1>2. limited[r] \in Record /\ counters[k] \in Counter /\ counters[k].count \in Nat
  BY <1>1 DEF LimiterTypeOK, Record, Counter
<1>3. c \in Counter /\ c.count = count /\ c.deadline = counters[k].deadline
  BY <1>2 DEF Counter
<1>4. /\ x \in Record /\ x.principal = limited[r].principal /\ x.minute = limited[r].minute
      /\ x.at = at /\ x.count = count /\ x.late = late /\ x.failed = limited[r].failed
  <2>1. late \in BOOLEAN /\ at \in {"expire", "passed", "refused"} /\ count \in Nat
    BY <1>2 DEF Verdict
  <2>. HIDE DEF late, at, count
  <2>2. x = [limited[r] EXCEPT !.at = at, !.count = count, !.late = late]
    OBVIOUS
  <2>3. limited[r] \in Record
    BY <1>2
  <2>. HIDE DEF x
  <2>4. /\ x.at = at /\ x.principal = limited[r].principal /\ x.minute = limited[r].minute
        /\ x.count = count /\ x.late = late /\ x.failed = limited[r].failed
    BY <2>2, <2>3, Zenon DEF Record
  <2>5. x \in Record
    BY <2>1, <2>2, <2>3 DEF Record
  <2>. QED BY <2>4, <2>5
<1>5. /\ y \in Record /\ y.principal = limited[r].principal /\ y.minute = limited[r].minute
      /\ y.at = "passed" /\ y.count = limited[r].count /\ y.late = limited[r].late /\ y.failed
  BY <1>2 DEF Record
<1>6. \/ Sets(k, c) /\ Takes(r, x)
      \/ (counters' = counters \/ Sets(k, c)) /\ Takes(r, y)
  BY DEF Increment, LetThrough, Sets, Takes
<1>. HIDE DEF c, x, y
<1>7. CASE Sets(k, c) /\ Takes(r, x)
  <2>1. /\ counters' \in [Counters -> Counter] /\ counters'[k] = c
        /\ \A j \in Counters \ {k} : counters'[j] = counters[j]
    BY <1>1, <1>3, <1>7, SetsCounter
  <2>2. /\ limited' \in [Requests -> Record] /\ limited'[r] = x
        /\ \A q \in Requests \ {r} : limited'[q] = limited[q]
    BY <1>4, <1>7, TakesRecord
  <2>3. x.at \in {"expire", "passed", "refused"} /\ (count = 1 <=> x.at = "expire")
        /\ (x.at = "refused" => count > Limit)
    BY <1>4 DEF Verdict
  <2>. QED BY <1>1, <1>3, <1>4, <2>1, <2>2, <2>3
<1>8. CASE (counters' = counters \/ Sets(k, c)) /\ Takes(r, y)
  <2>1. /\ counters' \in [Counters -> Counter]
        /\ counters'[k].count \in {counters[k].count, counters[k].count + 1}
        /\ counters'[k].deadline = counters[k].deadline
        /\ \A j \in Counters \ {k} : counters'[j] = counters[j]
    <3>1. CASE counters' = counters
      BY <3>1 DEF LimiterTypeOK, Counter
    <3>2. CASE Sets(k, c)
      BY <1>1, <1>3, <3>2, SetsCounter
    <3>. QED BY <1>8, <3>1, <3>2
  <2>2. /\ limited' \in [Requests -> Record] /\ limited'[r] = y
        /\ \A q \in Requests \ {r} : limited'[q] = limited[q]
    BY <1>5, <1>8, TakesRecord
  <2>. QED BY <1>1, <1>5, <2>1, <2>2
<1>. QED BY <1>6, <1>7, <1>8

\* EXPIRE is answered, or raises before or after it took effect.
LEMMA ExpireStep ==
  ASSUME LimiterTypeOK, NEW r \in Requests, Expire(r), NEW k, k = RedisKey(r)
  PROVE  /\ limited[r].at = "expire" /\ k \in Counters /\ now' = now
         /\ limited' \in [Requests -> Record] /\ counters' \in [Counters -> Counter]
         /\ \A q \in Requests \ {r} : limited'[q] = limited[q]
         /\ \A j \in Counters \ {k} : counters'[j] = counters[j]
         /\ limited'[r].principal = limited[r].principal
         /\ limited'[r].minute = limited[r].minute
         /\ limited'[r].count = limited[r].count /\ limited'[r].late = limited[r].late
         /\ limited'[r].at = "passed"
         /\ counters'[k].count = counters[k].count
         /\ \/ counters'[k].deadline = now + KeyTtl
            \/ /\ counters'[k].deadline \in {counters[k].deadline, now + KeyTtl}
               /\ limited'[r].failed
<1> DEFINE c == [counters[k] EXCEPT !.deadline = now + KeyTtl]
           x == [limited[r] EXCEPT !.at = "passed"]
           y == [limited[r] EXCEPT !.at = "passed", !.failed = TRUE]
<1>1. limited[r].at = "expire" /\ now' = now /\ k \in Counters
  BY KeyOf DEF Expire, LimiterTypeOK
<1>2. limited[r] \in Record /\ counters[k] \in Counter /\ now + KeyTtl \in Nat
  BY <1>1, LimiterAssumption, ClockAssumption DEF LimiterTypeOK, Record, Counter
<1>3. c \in Counter /\ c.count = counters[k].count /\ c.deadline = now + KeyTtl
  BY <1>2 DEF Counter
<1>4. /\ x \in Record /\ x.principal = limited[r].principal /\ x.minute = limited[r].minute
      /\ x.at = "passed" /\ x.count = limited[r].count /\ x.late = limited[r].late
  BY <1>2 DEF Record
<1>5. /\ y \in Record /\ y.principal = limited[r].principal /\ y.minute = limited[r].minute
      /\ y.at = "passed" /\ y.count = limited[r].count /\ y.late = limited[r].late /\ y.failed
  BY <1>2 DEF Record
<1>6. Verdict(1) = "passed"
  BY LimiterAssumption DEF Verdict
<1>7. \/ Sets(k, c) /\ Takes(r, x)
      \/ (counters' = counters \/ Sets(k, c)) /\ Takes(r, y)
  BY <1>6 DEF Expire, LetThrough, Sets, Takes
<1>. HIDE DEF c, x, y
<1>8. CASE Sets(k, c) /\ Takes(r, x)
  <2>1. /\ counters' \in [Counters -> Counter] /\ counters'[k] = c
        /\ \A j \in Counters \ {k} : counters'[j] = counters[j]
    BY <1>1, <1>3, <1>8, SetsCounter
  <2>2. /\ limited' \in [Requests -> Record] /\ limited'[r] = x
        /\ \A q \in Requests \ {r} : limited'[q] = limited[q]
    BY <1>4, <1>8, TakesRecord
  <2>. QED BY <1>1, <1>3, <1>4, <2>1, <2>2
<1>9. CASE (counters' = counters \/ Sets(k, c)) /\ Takes(r, y)
  <2>1. /\ counters' \in [Counters -> Counter] /\ counters'[k].count = counters[k].count
        /\ counters'[k].deadline \in {counters[k].deadline, now + KeyTtl}
        /\ \A j \in Counters \ {k} : counters'[j] = counters[j]
    <3>1. CASE counters' = counters
      BY <3>1 DEF LimiterTypeOK, Counter
    <3>2. CASE Sets(k, c)
      BY <1>1, <1>3, <3>2, SetsCounter
    <3>. QED BY <1>9, <3>1, <3>2
  <2>2. /\ limited' \in [Requests -> Record] /\ limited'[r] = y
        /\ \A q \in Requests \ {r} : limited'[q] = limited[q]
    BY <1>5, <1>9, TakesRecord
  <2>. QED BY <1>1, <1>5, <2>1, <2>2
<1>. QED BY <1>7, <1>8, <1>9

LEMMA TimeStep ==
  ASSUME LimiterTypeOK, PassTime
  PROVE  /\ now' \in 0 .. MaxTime /\ now' = now + 1 /\ limited' = limited
         /\ counters' \in [Counters -> Counter]
         /\ \A k \in Counters : counters'[k] = IF counters[k].deadline \in 1 .. now'
                                               THEN NoKey ELSE counters[k]
<1>1. now' \in 0 .. MaxTime /\ now' = now + 1 /\ limited' = limited
  BY ClockAssumption DEF PassTime, Tick, LimiterTypeOK
<1>2. NoKey \in Counter /\ \A k \in Counters : counters[k] \in Counter
  BY DEF LimiterTypeOK, NoKey, Counter
<1>3. counters' = [k \in Counters |-> IF counters[k].deadline \in 1 .. now'
                                      THEN NoKey ELSE counters[k]]
  BY DEF PassTime
<1>. QED BY <1>1, <1>2, <1>3

LEMMA LimiterCrashStep ==
  ASSUME LimiterTypeOK, LimiterCrash
  PROVE  /\ now' = now /\ counters' = counters /\ limited' \in [Requests -> Record]
         /\ \A r \in Requests :
              /\ limited'[r].principal = limited[r].principal
              /\ limited'[r].minute = limited[r].minute
              /\ limited'[r].count = limited[r].count /\ limited'[r].late = limited[r].late
              /\ limited'[r].failed = limited[r].failed
              /\ limited'[r].at = IF limited[r].at \in {"incr", "expire"} THEN "lost"
                                  ELSE limited[r].at
<1>1. \A r \in Requests : limited[r] \in Record
  BY DEF LimiterTypeOK, Record
<1>2. limited' = [r \in Requests |-> IF limited[r].at \in {"incr", "expire"}
                                    THEN [limited[r] EXCEPT !.at = "lost"] ELSE limited[r]]
  BY DEF LimiterCrash
<1>3. ASSUME NEW r \in Requests
      PROVE  LET x == [limited[r] EXCEPT !.at = "lost"]
             IN  /\ x \in Record /\ x.principal = limited[r].principal
                 /\ x.minute = limited[r].minute /\ x.count = limited[r].count
                 /\ x.late = limited[r].late /\ x.failed = limited[r].failed /\ x.at = "lost"
  BY <1>1 DEF Record
<1>. QED BY <1>1, <1>2, <1>3 DEF LimiterCrash

LEMMA LimiterInitially == LimiterInit => LimiterTypeOK
BY ClockAssumption DEF LimiterInit, ClockInit, LimiterTypeOK, NoKey, NotStarted, Minutes

LEMMA LimiterTypes == LimiterSpec => []LimiterTypeOK
<1>1. LimiterInit => LimiterTypeOK
  BY LimiterInitially
<1>2. LimiterTypeOK /\ [LimiterNext]_limiterVars => LimiterTypeOK'
  <2> SUFFICES ASSUME LimiterTypeOK, [LimiterNext]_limiterVars PROVE LimiterTypeOK'
    OBVIOUS
  <2>1. ASSUME NEW r \in Requests, NEW p \in Principals \cup {None}, Arrive(r, p)
        PROVE  LimiterTypeOK'
    <3>1. /\ now' = now /\ counters' = counters /\ limited' \in [Requests -> Record]
          /\ limited'[r].at = (IF p = None THEN "passed" ELSE "incr") /\ limited'[r].principal = p
          /\ \A q \in Requests \ {r} : limited'[q] = limited[q]
      BY <2>1, ArriveStep
    <3>2. \A q \in Requests : limited'[q].at \in {"incr", "expire", "refused"}
                               => limited'[q].principal \in Principals
      BY <3>1 DEF LimiterTypeOK
    <3>3. \A q \in Requests : limited'[q].at = "new" => limited'[q].principal = None
      BY <3>1 DEF LimiterTypeOK
    <3>. QED BY <3>1, <3>2, <3>3 DEF LimiterTypeOK, Record
  <2>2. ASSUME NEW r \in Requests, Increment(r)
        PROVE  LimiterTypeOK'
    <3>1. /\ now' = now /\ counters' \in [Counters -> Counter] /\ limited' \in [Requests -> Record]
          /\ limited[r].at = "incr" /\ limited'[r].at # "new"
          /\ limited'[r].principal = limited[r].principal
          /\ \A q \in Requests \ {r} : limited'[q] = limited[q]
      BY <2>2, IncrementStep
    <3>2. \A q \in Requests : /\ limited'[q].at \in {"incr", "expire", "refused"}
                                 => limited'[q].principal \in Principals
                              /\ limited'[q].at = "new" => limited'[q].principal = None
      BY <3>1 DEF LimiterTypeOK
    <3>. QED BY <3>1, <3>2 DEF LimiterTypeOK, Record, Counter
  <2>3. ASSUME NEW r \in Requests, Expire(r)
        PROVE  LimiterTypeOK'
    <3>1. /\ now' = now /\ counters' \in [Counters -> Counter] /\ limited' \in [Requests -> Record]
          /\ limited[r].at = "expire" /\ limited'[r].at = "passed"
          /\ limited'[r].principal = limited[r].principal
          /\ \A q \in Requests \ {r} : limited'[q] = limited[q]
      BY <2>3, ExpireStep
    <3>2. \A q \in Requests : /\ limited'[q].at \in {"incr", "expire", "refused"}
                                 => limited'[q].principal \in Principals
                              /\ limited'[q].at = "new" => limited'[q].principal = None
      BY <3>1 DEF LimiterTypeOK
    <3>. QED BY <3>1, <3>2 DEF LimiterTypeOK, Record, Counter
  <2>4. CASE PassTime
    BY <2>4, TimeStep DEF LimiterTypeOK, Counter
  <2>5. CASE LimiterCrash
    BY <2>5, LimiterCrashStep DEF LimiterTypeOK, Record
  <2>6. CASE UNCHANGED limiterVars
    BY <2>6 DEF limiterVars, LimiterTypeOK
  <2>. QED BY <2>1, <2>2, <2>3, <2>4, <2>5, <2>6 DEF LimiterNext
<1>. QED BY <1>1, <1>2, PTL DEF LimiterSpec

(***************************************************************************)
(* LimitKept.  Requests that were counted in time hold different numbers,  *)
(* as long as their counter cannot expire none above it.                   *)
(***************************************************************************)
Counted(r) == limited[r].count > 0 /\ ~limited[r].late

CountInv ==
  /\ LimiterTypeOK
  /\ \A r \in Requests : limited[r].minute * Window <= now
  /\ \A k \in Counters : counters[k].deadline = 0 \/ counters[k].deadline >= EndOf(k)
  /\ \A r \in Requests : Counted(r) =>
       /\ RedisKey(r) \in Counters
       /\ now < EndOf(RedisKey(r)) => limited[r].count <= counters[RedisKey(r)].count
  /\ \A r, q \in Requests : Counted(r) /\ Counted(q) /\ RedisKey(r) = RedisKey(q)
                              /\ limited[r].count = limited[q].count => r = q

LEMMA CountInit == LimiterInit => CountInv
<1> SUFFICES ASSUME LimiterInit PROVE CountInv
  OBVIOUS
<1>1. LimiterTypeOK
  BY ClockAssumption DEF LimiterInit, ClockInit, LimiterTypeOK, NoKey, NotStarted, Minutes
<1>2. \A r \in Requests : limited[r].minute = 0 /\ ~Counted(r)
  BY DEF LimiterInit, NotStarted, Counted
<1>3. now = 0 /\ Window \in Nat /\ \A k \in Counters : counters[k].deadline = 0
  BY LimiterAssumption DEF LimiterInit, ClockInit, NoKey
<1>4. 0 * Window = 0
  BY <1>3
<1>. QED BY <1>1, <1>2, <1>3, <1>4 DEF CountInv

LEMMA CountStep ==
  ASSUME CountInv, LimiterTypeOK', [LimiterNext]_limiterVars
  PROVE  CountInv'
<1>1. LimiterTypeOK /\ now \in Nat /\ now' \in Nat
  BY ClockAssumption DEF CountInv, LimiterTypeOK
<1>2. ASSUME NEW r \in Requests, NEW p \in Principals \cup {None}, Arrive(r, p)
      PROVE  CountInv'
  <2>1. /\ now' = now /\ counters' = counters /\ ~Counted(r)'
        /\ limited'[r].minute * Window <= now
        /\ \A q \in Requests \ {r} : limited'[q] = limited[q]
    BY <1>1, <1>2, ArriveStep DEF Counted
  <2>. QED BY <2>1 DEF CountInv, Counted, RedisKey
<1>3. ASSUME NEW r \in Requests, Increment(r)
      PROVE  CountInv'
  <2> DEFINE k == RedisKey(r)
  <2>1. /\ k \in Counters /\ now' = now /\ EndOf(k) \in Nat
        /\ \A q \in Requests \ {r} : limited'[q] = limited[q]
        /\ \A j \in Counters \ {k} : counters'[j] = counters[j]
        /\ limited'[r].principal = limited[r].principal /\ limited'[r].minute = limited[r].minute
        /\ counters'[k].deadline = counters[k].deadline
        /\ counters[k].count \in Nat /\ counters'[k].count \in {counters[k].count, counters[k].count + 1}
    BY <1>1, <1>3, IncrementStep, EndType DEF LimiterTypeOK
  <2>2. \A q \in Requests : RedisKey(q)' = RedisKey(q) /\ limited'[q].minute = limited[q].minute
    BY <2>1 DEF RedisKey
  <2>3. \/ /\ Counted(r)' <=> now < EndOf(k)
           /\ limited'[r].count = counters'[k].count
           /\ counters'[k].count = counters[k].count + 1
        \/ limited'[r].count = limited[r].count /\ limited'[r].late = limited[r].late
    <3>1. EndOf(k) \in Nat /\ counters[k].count \in Nat
      BY <2>1
    <3>2. \/ /\ counters'[k].count = counters[k].count + 1
             /\ limited'[r].count = counters'[k].count
             /\ limited'[r].late <=> now >= EndOf(k)
          \/ limited'[r].count = limited[r].count /\ limited'[r].late = limited[r].late
      BY <1>1, <1>3, IncrementStep
    <3>3. ~(now >= EndOf(k)) <=> now < EndOf(k)
      BY <1>1, <3>1
    <3>. QED BY <3>1, <3>2, <3>3 DEF Counted
  <2>. HIDE DEF k
  <2>4. \A q \in Requests : Counted(q)' =>
          /\ RedisKey(q) \in Counters
          /\ now < EndOf(RedisKey(q)) => limited'[q].count <= counters'[RedisKey(q)].count
    <3> SUFFICES ASSUME NEW q \in Requests, Counted(q)'
                 PROVE  /\ RedisKey(q) \in Counters
                        /\ now < EndOf(RedisKey(q)) => limited'[q].count <= counters'[RedisKey(q)].count
      OBVIOUS
    <3>1. \A j \in Counters : counters[j].count \in Nat /\ counters'[j].count \in Nat
                              /\ counters[j].count <= counters'[j].count
      BY <1>1, <2>1 DEF LimiterTypeOK
    <3>2. limited[q].count \in Nat /\ limited'[q].count \in Nat
      BY <1>1 DEF LimiterTypeOK
    <3>3. CASE q # r \/ (limited'[q].count = limited[q].count /\ limited'[q].late = limited[q].late)
      <4>1. Counted(q) /\ limited'[q].count = limited[q].count
        BY <2>1, <3>3 DEF Counted
      <4>2. RedisKey(q) \in Counters
            /\ (now < EndOf(RedisKey(q)) => limited[q].count <= counters[RedisKey(q)].count)
        BY <4>1 DEF CountInv
      <4>. QED BY <3>1, <3>2, <4>1, <4>2
    <3>4. CASE q = r /\ limited'[r].count = counters'[k].count
      BY <2>1, <3>1, <3>4 DEF k
    <3>. QED BY <2>3, <3>3, <3>4
  <2>5. \A q, u \in Requests : Counted(q)' /\ Counted(u)' /\ RedisKey(q) = RedisKey(u)
                              /\ limited'[q].count = limited'[u].count => q = u
    <3>1. CASE limited'[r].count = limited[r].count /\ limited'[r].late = limited[r].late
      <4>1. \A q \in Requests : limited'[q].count = limited[q].count /\ (Counted(q)' <=> Counted(q))
        BY <2>1, <3>1 DEF Counted
      <4>. QED BY <4>1 DEF CountInv
    <3>2. CASE /\ Counted(r)' <=> now < EndOf(k)
               /\ limited'[r].count = counters'[k].count
               /\ counters'[k].count = counters[k].count + 1
      <4>1. \A q \in Requests \ {r} : limited'[q].count = limited[q].count /\ (Counted(q)' <=> Counted(q))
        BY <2>1 DEF Counted
      <4>2. ASSUME NEW q \in Requests \ {r}, Counted(q), Counted(r)', RedisKey(q) = k
            PROVE  limited'[q].count # limited'[r].count
        <5>1. now < EndOf(k) /\ limited[q].count <= counters[k].count
          BY <3>2, <4>2 DEF CountInv
        <5>2. limited[q].count \in Nat /\ limited'[q].count = limited[q].count
          BY <1>1, <4>1 DEF LimiterTypeOK
        <5>. QED BY <2>1, <3>2, <5>1, <5>2
      <4>. QED BY <4>1, <4>2 DEF CountInv, k
    <3>. QED BY <2>3, <3>1, <3>2
  <2>6. \A j \in Counters : counters'[j].deadline = 0 \/ counters'[j].deadline >= EndOf(j)
    BY <2>1 DEF CountInv
  <2>7. \A q \in Requests : limited'[q].minute * Window <= now'
    BY <2>1, <2>2 DEF CountInv
  <2>8. \A j \in Counters : EndOf(j)' = EndOf(j)
    BY DEF EndOf
  <2>. QED BY <2>1, <2>2, <2>4, <2>5, <2>6, <2>7, <2>8 DEF CountInv, EndOf
<1>4. ASSUME NEW r \in Requests, Expire(r)
      PROVE  CountInv'
  <2> DEFINE k == RedisKey(r)
  <2>1. /\ k \in Counters /\ now' = now
        /\ \A q \in Requests \ {r} : limited'[q] = limited[q]
        /\ \A j \in Counters \ {k} : counters'[j] = counters[j]
        /\ limited'[r].principal = limited[r].principal /\ limited'[r].minute = limited[r].minute
        /\ limited'[r].count = limited[r].count /\ limited'[r].late = limited[r].late
        /\ counters'[k].count = counters[k].count
        /\ counters'[k].deadline \in {counters[k].deadline, now + KeyTtl}
    BY <1>1, <1>4, ExpireStep
  <2>2. now + KeyTtl >= EndOf(k)
    <3>1. limited[r].minute * Window <= now /\ k[2] = limited[r].minute
      BY DEF CountInv, RedisKey
    <3>2. k[2] * Window \in Nat /\ KeyTtl \in Nat
      BY <2>1, EndType, LimiterAssumption
    <3>. QED BY <1>1, <3>1, <3>2 DEF EndOf
  <2>3. \A q \in Requests : /\ RedisKey(q)' = RedisKey(q) /\ limited'[q].minute = limited[q].minute
                            /\ limited'[q].count = limited[q].count
                            /\ (Counted(q)' <=> Counted(q))
    BY <2>1 DEF RedisKey, Counted
  <2>. HIDE DEF k
  <2>4. \A j \in Counters : /\ counters'[j].count = counters[j].count
                            /\ counters'[j].deadline = 0 \/ counters'[j].deadline >= EndOf(j)
    BY <2>1, <2>2 DEF CountInv
  <2>. QED BY <2>1, <2>3, <2>4 DEF CountInv, EndOf
<1>5. CASE PassTime
  <2>1. /\ now' = now + 1 /\ limited' = limited
        /\ \A k \in Counters : counters'[k] = IF counters[k].deadline \in 1 .. now'
                                              THEN NoKey ELSE counters[k]
    BY <1>1, <1>5, TimeStep
  <2>2. ASSUME NEW k \in Counters, now' < EndOf(k)
        PROVE  counters'[k] = counters[k] /\ now < EndOf(k)
    <3>1. EndOf(k) \in Nat /\ counters[k].deadline \in Nat
      BY <1>1, EndType DEF LimiterTypeOK
    <3>2. counters[k].deadline = 0 \/ counters[k].deadline >= EndOf(k)
      BY DEF CountInv
    <3>. QED BY <1>1, <2>1, <2>2, <3>1, <3>2
  <2>3. \A k \in Counters : counters'[k].deadline = 0 \/ counters'[k].deadline >= EndOf(k)
    BY <2>1 DEF CountInv, NoKey
  <2>4. \A r \in Requests : limited'[r].minute * Window <= now'
    <3> SUFFICES ASSUME NEW r \in Requests PROVE limited[r].minute * Window <= now'
      BY <2>1
    <3>1. limited[r].minute \in Nat /\ Window \in Nat /\ limited[r].minute * Window <= now
      BY <1>1, LimiterAssumption, ClockAssumption DEF CountInv, LimiterTypeOK, Minutes
    <3>2. limited[r].minute * Window \in Nat
      BY <3>1, SMTT(20)
    <3>. QED BY <1>1, <2>1, <3>1, <3>2
  <2>5. \A r \in Requests : (Counted(r)' <=> Counted(r)) /\ RedisKey(r)' = RedisKey(r)
    BY <2>1 DEF Counted, RedisKey
  <2>. QED BY <2>1, <2>2, <2>3, <2>4, <2>5 DEF CountInv, EndOf
<1>6. CASE LimiterCrash
  <2>1. /\ now' = now /\ counters' = counters
        /\ \A r \in Requests : /\ RedisKey(r)' = RedisKey(r) /\ (Counted(r)' <=> Counted(r))
                               /\ limited'[r].minute = limited[r].minute
                               /\ limited'[r].count = limited[r].count
    BY <1>1, <1>6, LimiterCrashStep DEF RedisKey, Counted
  <2>. QED BY <2>1 DEF CountInv, EndOf
<1>7. CASE UNCHANGED limiterVars
  <2>1. /\ now' = now /\ counters' = counters /\ limited' = limited
        /\ \A r \in Requests : RedisKey(r)' = RedisKey(r) /\ (Counted(r)' <=> Counted(r))
    BY <1>7 DEF limiterVars, RedisKey, Counted
  <2>. QED BY <2>1 DEF CountInv, EndOf
<1>. QED BY <1>2, <1>3, <1>4, <1>5, <1>6, <1>7 DEF LimiterNext

\* Different numbers between 1 and the limit: no more than the limit of them.
LEMMA CountsFit == CountInv => LimitKept
<1> SUFFICES ASSUME CountInv, NEW k \in Counters
             PROVE  Cardinality(Admitted(k)) <= Limit
  BY DEF LimitKept
<1> DEFINE f == [r \in Admitted(k) |-> limited[r].count]
<1>1. f \in Injection(Admitted(k), 1 .. Limit)
  <2>1. f \in [Admitted(k) -> 1 .. Limit]
    BY DEF Admitted
  <2>2. ASSUME NEW r \in Admitted(k), NEW q \in Admitted(k), f[r] = f[q]
        PROVE  r = q
    <3>1. /\ r \in Requests /\ q \in Requests /\ RedisKey(r) = k /\ RedisKey(q) = k
          /\ limited[r].count \in 1 .. Limit /\ limited[q].count \in 1 .. Limit
          /\ ~limited[r].late /\ ~limited[q].late /\ limited[r].count = limited[q].count
      BY <2>2 DEF Admitted
    <3>2. Counted(r) /\ Counted(q)
      BY <3>1, LimiterAssumption DEF Counted
    <3>. QED BY <3>1, <3>2 DEF CountInv
  <2>. QED BY <2>1, <2>2 DEF Injection, IsInjective
<1>2. IsFiniteSet(1 .. Limit) /\ Cardinality(1 .. Limit) = Limit
  BY FS_Interval, LimiterAssumption
<1>. HIDE DEF f
<1>. QED BY <1>1, <1>2, FS_Injection

\* No more than the limit of a principal's requests are admitted in a minute
\* (RateLimitMiddleware), for any limit and any time to live longer than the minute.
THEOREM LimitAlwaysKept == LimiterSpec => []LimitKept
<1>1. LimiterInit => CountInv
  BY CountInit
<1>2. LimiterTypeOK' /\ CountInv /\ [LimiterNext]_limiterVars => CountInv'
  BY CountStep
<1>3. CountInv => LimitKept
  BY CountsFit
<1>. QED BY <1>1, <1>2, <1>3, LimiterTypes, PTL DEF LimiterSpec

(***************************************************************************)
(* RefusedOverLimit.  A counter is never ahead of the requests that have   *)
(* incremented it.                                                         *)
(***************************************************************************)
\* The requests that have had their INCR on k, or a crash instead.
Past(k) == {r \in Requests : RedisKey(r) = k /\ limited[r].at \notin {"new", "incr"}}

\* The principal's requests of the minute.
Fellows(r) == {q \in Requests : limited[q].principal = limited[r].principal
                                /\ limited[q].minute = limited[r].minute}

RefusalInv ==
  /\ \A k \in Counters : counters[k].count <= Cardinality(Past(k))
  /\ \A r \in Requests : limited[r].at = "refused" => Cardinality(Fellows(r)) > Limit

LEMMA SubsetsOfRequests ==
  ASSUME NEW S, S \subseteq Requests
  PROVE  IsFiniteSet(S) /\ Cardinality(S) \in Nat
BY ClockAssumption, FS_Subset, FS_CardinalityType

\* More of a counter's requests are not fewer.
LEMMA Grown ==
  ASSUME NEW S, NEW T, S \subseteq T, T \subseteq Requests
  PROVE  Cardinality(S) <= Cardinality(T)
BY SubsetsOfRequests, FS_Subset

LEMMA RefusalInit == LimiterInit => RefusalInv
<1> SUFFICES ASSUME LimiterInit PROVE RefusalInv
  OBVIOUS
<1>1. \A k \in Counters : counters[k].count = 0 /\ Cardinality(Past(k)) \in Nat
  BY SubsetsOfRequests DEF LimiterInit, NoKey, Past
<1>. QED BY <1>1 DEF RefusalInv, LimiterInit, NotStarted

LEMMA RefusalStep ==
  ASSUME LimiterTypeOK, LimiterTypeOK', RefusalInv, [LimiterNext]_limiterVars
  PROVE  RefusalInv'
<1>1. \A k \in Counters : /\ Past(k) \subseteq Requests /\ IsFiniteSet(Past(k))
                          /\ Cardinality(Past(k)) \in Nat
                          /\ counters[k].count \in Nat /\ counters'[k].count \in Nat
  BY SubsetsOfRequests DEF Past, LimiterTypeOK
<1>2. \A r \in Requests : /\ Fellows(r) \subseteq Requests /\ Fellows(r)' \subseteq Requests
                          /\ Cardinality(Fellows(r)) \in Nat /\ Cardinality(Fellows(r)') \in Nat
  BY SubsetsOfRequests DEF Fellows
<1>3. Limit \in Nat
  BY LimiterAssumption
\* It suffices that counters grow with their requests, and refusals keep theirs.
<1>4. ASSUME \A k \in Counters : counters'[k].count <= Cardinality(Past(k)'),
             \A r \in Requests : limited'[r].at = "refused" =>
               \/ limited[r].at = "refused" /\ Fellows(r) \subseteq Fellows(r)'
               \/ Cardinality(Fellows(r)') > Limit
      PROVE  RefusalInv'
  <2>1. ASSUME NEW r \in Requests, limited[r].at = "refused", Fellows(r) \subseteq Fellows(r)'
        PROVE  Cardinality(Fellows(r)') > Limit
    <3>1. Cardinality(Fellows(r)) > Limit
      BY <2>1 DEF RefusalInv
    <3>2. Cardinality(Fellows(r)) <= Cardinality(Fellows(r)')
      BY <1>2, <2>1, Grown
    <3>. QED BY <1>2, <1>3, <3>1, <3>2
  <2>2. (\A k \in Counters : counters[k].count <= Cardinality(Past(k)))'
    BY <1>4 DEF Counters, Minutes
  <2>3. (\A r \in Requests : limited[r].at = "refused" => Cardinality(Fellows(r)) > Limit)'
    BY <1>4, <2>1
  <2>. QED BY <2>2, <2>3 DEF RefusalInv
<1>5. ASSUME NEW r \in Requests, NEW p \in Principals \cup {None}, Arrive(r, p)
      PROVE  RefusalInv'
  <2>1. /\ limited[r].at = "new" /\ limited[r].principal = None /\ counters' = counters
        /\ limited'[r].at = (IF p = None THEN "passed" ELSE "incr") /\ limited'[r].principal = p
        /\ \A q \in Requests \ {r} : limited'[q] = limited[q]
    BY <1>5, ArriveStep
  <2>2. \A k \in Counters : Past(k)' = Past(k)
    BY <2>1, LimiterAssumption DEF Past, RedisKey, Counters
  <2>3. ASSUME NEW q \in Requests, limited'[q].at = "refused"
        PROVE  limited[q].at = "refused" /\ Fellows(q) \subseteq Fellows(q)'
    <3>1. q # r /\ limited[q].at = "refused" /\ limited'[q] = limited[q]
      BY <2>1, <2>3
    <3>2. limited[q].principal # None
      BY <3>1, LimiterAssumption DEF LimiterTypeOK
    <3>. QED BY <2>1, <3>1, <3>2 DEF Fellows
  <2>4. \A k \in Counters : counters'[k].count <= Cardinality(Past(k)')
    BY <2>1, <2>2 DEF RefusalInv
  <2>. QED BY <1>4, <2>3, <2>4
<1>6. ASSUME NEW r \in Requests, Increment(r)
      PROVE  RefusalInv'
  <2>0. PICK k \in Counters : k = RedisKey(r)
    BY <1>6, IncrementStep
  <2>1. /\ limited[r].at = "incr" /\ limited'[r].at \notin {"new", "incr"}
        /\ \A q \in Requests \ {r} : limited'[q] = limited[q]
        /\ \A j \in Counters \ {k} : counters'[j] = counters[j]
        /\ limited'[r].principal = limited[r].principal /\ limited'[r].minute = limited[r].minute
        /\ counters'[k].count \in {counters[k].count, counters[k].count + 1}
        /\ limited'[r].at = "refused" => counters'[k].count > Limit
    BY <1>6, <2>0, IncrementStep
  <2>2. \A q \in Requests : /\ RedisKey(q)' = RedisKey(q) /\ Fellows(q)' = Fellows(q)
                            /\ limited'[q].principal = limited[q].principal
                            /\ limited'[q].minute = limited[q].minute
    BY <2>1 DEF RedisKey, Fellows
  <2>3. Past(k)' = Past(k) \cup {r} /\ r \notin Past(k)
    BY <2>0, <2>1, <2>2 DEF Past
  <2>4. \A j \in Counters \ {k} : Past(j)' = Past(j)
    BY <2>0, <2>1, <2>2 DEF Past
  <2>5. Past(k)' \subseteq Fellows(r)'
    BY <2>0, <2>2 DEF Past, Fellows, RedisKey
  <2>6. Cardinality(Past(k)') = Cardinality(Past(k)) + 1
    BY <1>1, <2>3, FS_AddElement
  <2>7. counters'[k].count <= Cardinality(Past(k)')
    <3>1. counters[k].count <= Cardinality(Past(k))
      BY DEF RefusalInv
    <3>. QED BY <1>1, <2>1, <2>6, <3>1
  <2>8. \A j \in Counters : counters'[j].count <= Cardinality(Past(j)')
    BY <2>1, <2>4, <2>7 DEF RefusalInv
  <2>9. limited'[r].at = "refused" => Cardinality(Fellows(r)') > Limit
    <3>1. Cardinality(Past(k)') <= Cardinality(Fellows(r)')
      BY <1>2, <2>5, Grown
    <3>2. Cardinality(Past(k)') \in Nat
      BY <1>1, <2>6
    <3>. QED BY <1>1, <1>2, <1>3, <2>1, <2>7, <3>1, <3>2
  <2>. QED BY <1>4, <2>1, <2>2, <2>8, <2>9
<1>7. ASSUME NEW r \in Requests, Expire(r)
      PROVE  RefusalInv'
  <2>1. /\ limited[r].at = "expire" /\ limited'[r].at = "passed"
        /\ limited'[r].principal = limited[r].principal /\ limited'[r].minute = limited[r].minute
        /\ \A q \in Requests \ {r} : limited'[q] = limited[q]
        /\ \A k \in Counters : counters'[k].count = counters[k].count
    BY <1>7, ExpireStep
  <2>2. \A k \in Counters : Past(k)' = Past(k)
    BY <2>1 DEF Past, RedisKey
  <2>3. \A q \in Requests : Fellows(q)' = Fellows(q)
    BY <2>1 DEF Fellows
  <2>. QED BY <1>4, <2>1, <2>2, <2>3 DEF RefusalInv
<1>8. CASE PassTime
  <2>1. limited' = limited /\ \A k \in Counters : counters'[k].count \in {0, counters[k].count}
    BY <1>8, TimeStep DEF NoKey
  <2>2. /\ \A k \in Counters : Past(k)' = Past(k)
        /\ \A q \in Requests : Fellows(q)' = Fellows(q)
    BY <2>1 DEF Past, RedisKey, Fellows
  <2>. QED BY <1>1, <1>4, <2>1, <2>2 DEF RefusalInv
<1>9. CASE LimiterCrash
  <2>1. /\ counters' = counters
        /\ \A r \in Requests :
             /\ limited'[r].principal = limited[r].principal
             /\ limited'[r].minute = limited[r].minute
             /\ limited'[r].at = IF limited[r].at \in {"incr", "expire"} THEN "lost" ELSE limited[r].at
    BY <1>9, LimiterCrashStep
  <2>2. ASSUME NEW k \in Counters PROVE counters'[k].count <= Cardinality(Past(k)')
    <3>1. Past(k) \subseteq Past(k)' /\ Past(k)' \subseteq Requests
      BY <2>1 DEF Past, RedisKey
    <3>2. Cardinality(Past(k)) <= Cardinality(Past(k)') /\ Cardinality(Past(k)') \in Nat
      BY <3>1, Grown, SubsetsOfRequests
    <3>. QED BY <1>1, <2>1, <3>2 DEF RefusalInv
  <2>3. \A q \in Requests : Fellows(q)' = Fellows(q)
    BY <2>1 DEF Fellows
  <2>. QED BY <1>4, <2>1, <2>2, <2>3
<1>10. CASE UNCHANGED limiterVars
  <2>1. /\ \A k \in Counters : Past(k)' = Past(k)
        /\ \A q \in Requests : Fellows(q)' = Fellows(q)
        /\ limited' = limited /\ counters' = counters
    BY <1>10 DEF limiterVars, Past, RedisKey, Fellows
  <2>. QED BY <1>4, <2>1 DEF RefusalInv
<1>. QED BY <1>5, <1>6, <1>7, <1>8, <1>9, <1>10 DEF LimiterNext

\* Nobody is answered 429 before the principal has sent more than the limit in that minute.
THEOREM RefusedAlwaysOverLimit == LimiterSpec => []RefusedOverLimit
<1>1. LimiterInit => RefusalInv
  BY RefusalInit
<1>2. LimiterTypeOK /\ LimiterTypeOK' /\ RefusalInv /\ [LimiterNext]_limiterVars => RefusalInv'
  BY RefusalStep
<1>3. RefusalInv => RefusedOverLimit
  BY DEF RefusalInv, RefusedOverLimit, Fellows
<1>. QED BY <1>1, <1>2, <1>3, LimiterTypes, PTL DEF LimiterSpec

(***************************************************************************)
(* CountersExpire is inductive.                                            *)
(***************************************************************************)
\* The request r answers for the counter k having no time to live.
Excuse(r, k) == RedisKey(r) = k /\ (limited[r].at \in {"expire", "lost"} \/ limited[r].failed)

LEMMA ExpireInductive ==
  ASSUME LimiterTypeOK, CountersExpire, [LimiterNext]_limiterVars
  PROVE  CountersExpire'
<1>1. \A k \in Counters : counters[k].count > 0 /\ counters[k].deadline = 0 =>
        \E r \in Requests : Excuse(r, k)
  BY DEF CountersExpire, Excuse
<1>2. \A k \in Counters : counters[k].count \in Nat /\ counters[k].deadline \in Nat
  BY DEF LimiterTypeOK
<1>3. SUFFICES ASSUME NEW k \in Counters, counters'[k].count > 0, counters'[k].deadline = 0
               PROVE  \E r \in Requests : Excuse(r, k)'
  BY DEF CountersExpire, Excuse, Counters, Minutes
<1>4. ASSUME NEW r \in Requests, NEW p \in Principals \cup {None}, Arrive(r, p)
      PROVE  \E q \in Requests : Excuse(q, k)'
  <2>1. /\ limited[r].principal = None /\ counters' = counters
        /\ \A q \in Requests \ {r} : limited'[q] = limited[q]
    BY <1>4, ArriveStep
  <2>2. ~Excuse(r, k)
    BY <2>1, LimiterAssumption DEF Excuse, RedisKey, Counters
  <2>. QED BY <1>1, <1>3, <2>1, <2>2 DEF Excuse, RedisKey
<1>5. ASSUME NEW r \in Requests, Increment(r)
      PROVE  \E q \in Requests : Excuse(q, k)'
  <2> DEFINE j == RedisKey(r)
  <2>1. /\ j \in Counters /\ limited[r].at = "incr"
        /\ \A q \in Requests \ {r} : limited'[q] = limited[q]
        /\ \A i \in Counters \ {j} : counters'[i] = counters[i]
        /\ RedisKey(r)' = j /\ counters'[j].deadline = counters[j].deadline
        /\ \/ /\ counters'[j].count = counters[j].count + 1
              /\ limited'[r].failed = limited[r].failed
              /\ counters'[j].count = 1 <=> limited'[r].at = "expire"
           \/ limited'[r].failed
    BY <1>5, IncrementStep DEF RedisKey
  <2>. HIDE DEF j
  <2>2. CASE k = j /\ (limited'[r].failed \/ limited'[r].at = "expire")
    BY <2>1, <2>2 DEF Excuse
  <2>3. CASE k # j \/ (counters[j].count > 0 /\ limited'[r].failed = limited[r].failed)
    <3>1. PICK q \in Requests : Excuse(q, k)
      BY <1>1, <1>3, <2>1, <2>3
    <3>2. q = r => k = j
      BY <3>1 DEF Excuse, j
    <3>. QED BY <2>1, <2>3, <3>1, <3>2 DEF Excuse, RedisKey
  <2>. QED BY <1>2, <2>1, <2>2, <2>3
<1>6. ASSUME NEW r \in Requests, Expire(r)
      PROVE  \E q \in Requests : Excuse(q, k)'
  <2> DEFINE j == RedisKey(r)
  <2>1. /\ j \in Counters /\ now + KeyTtl > 0
        /\ \A q \in Requests \ {r} : limited'[q] = limited[q]
        /\ \A i \in Counters \ {j} : counters'[i] = counters[i]
        /\ RedisKey(r)' = j /\ counters'[j].count = counters[j].count
        /\ counters'[j].deadline = now + KeyTtl \/ limited'[r].failed
    BY <1>6, ExpireStep, LimiterAssumption, ClockAssumption DEF RedisKey, LimiterTypeOK
  <2>. HIDE DEF j
  <2>2. CASE k = j
    <3>1. limited'[r].failed
      BY <1>3, <2>1, <2>2
    <3>. QED BY <2>1, <2>2, <3>1 DEF Excuse
  <2>3. CASE k # j
    <3>1. PICK q \in Requests : Excuse(q, k)
      BY <1>1, <1>3, <2>1, <2>3
    <3>2. q # r
      BY <2>3, <3>1 DEF Excuse, j
    <3>. QED BY <2>1, <3>1, <3>2 DEF Excuse, RedisKey
  <2>. QED BY <2>2, <2>3
<1>7. CASE PassTime
  <2>1. limited' = limited /\ counters'[k] \in {NoKey, counters[k]}
    BY <1>7, TimeStep
  <2>2. counters[k].count > 0 /\ counters[k].deadline = 0
    BY <1>2, <1>3, <2>1 DEF NoKey
  <2>. QED BY <1>1, <2>1, <2>2 DEF Excuse, RedisKey
<1>8. CASE LimiterCrash
  <2>1. /\ counters' = counters
        /\ \A r \in Requests :
             /\ limited'[r].principal = limited[r].principal
             /\ limited'[r].minute = limited[r].minute
             /\ limited'[r].failed = limited[r].failed
             /\ limited'[r].at = IF limited[r].at \in {"incr", "expire"} THEN "lost" ELSE limited[r].at
    BY <1>8, LimiterCrashStep
  <2>2. PICK r \in Requests : Excuse(r, k)
    BY <1>1, <1>3, <2>1
  <2>. QED BY <2>1, <2>2 DEF Excuse, RedisKey
<1>9. CASE UNCHANGED limiterVars
  BY <1>1, <1>3, <1>9 DEF limiterVars, Excuse, RedisKey
<1>. QED BY <1>4, <1>5, <1>6, <1>7, <1>8, <1>9 DEF LimiterNext

\* Every counter in Redis has its time to live, but for failed calls and crashes.
THEOREM CountersAlwaysExpire == LimiterSpec => []CountersExpire
<1>1. LimiterInit => CountersExpire
  BY DEF LimiterInit, CountersExpire, NoKey
<1>2. LimiterTypeOK /\ CountersExpire /\ [LimiterNext]_limiterVars => CountersExpire'
  BY ExpireInductive
<1>. QED BY <1>1, <1>2, LimiterTypes, PTL DEF LimiterSpec

(***************************************************************************)
(* VoidNeverAccepted.  No step of anybody makes a secret valid that has    *)
(* been issued before, so a row that is selected for void credentials does *)
(* not match them, whenever it is read.                                    *)
(***************************************************************************)
Regenerating(o) == op[o].pc = "commit" /\ op[o].kind = "regenerate"

Waiting(r) == auth[r].pc \in {"select", "verify"}

KeysLinked ==
  /\ \A o \in Ops : op[o].pc = "commit" => op[o].key \in Keys
  /\ \A r \in Requests : auth[r].pc \in {"select", "verify", "accepted"} => auth[r].key \in Keys
  /\ \A r \in Requests : touch[r].pc # "none" => auth[r].pc = "accepted"

SecretsFresh ==
  /\ \A o \in Ops : Regenerating(o) => op[o].secret \in (1 .. generated) \ issued
  /\ \A o, q \in Ops : Regenerating(o) /\ Regenerating(q) /\ op[o].secret = op[q].secret => o = q
  /\ \A r \in Requests : Waiting(r) => auth[r].secret \in issued \cup {0}

StaysVoid ==
  \A r \in Requests : auth[r].void =>
    /\ auth[r].pc # "accepted"
    /\ Waiting(r) => ~Valid(auth[r].key, auth[r].secret)
    /\ auth[r].pc = "verify" => auth[r].seen.expires < now \/ auth[r].seen.secret # auth[r].secret

KeysInv == KeysTypeOK /\ KeysLinked /\ SecretsFresh /\ StaysVoid

OpRecord == [pc : {"new", "commit", "done"}, kind : {"none", "deactivate", "regenerate"},
             key : Keys \cup {"none"}, active : BOOLEAN, secret : Nat]
AuthRecord == [pc : {"new", "select", "verify", "accepted", "refused", "error", "lost"},
               key : Keys \cup {"none"}, secret : Nat, seen : Row, void : BOOLEAN]

LEMMA Records ==
  /\ NoRow \in Row /\ NoOp \in OpRecord /\ Done \in OpRecord /\ NoAuth \in AuthRecord
  /\ Done.pc = "done" /\ NoOp.pc = "new"
  /\ NoAuth.pc = "new" /\ ~NoAuth.void
BY DEF NoRow, NoOp, Done, NoAuth, Row, OpRecord, AuthRecord

LEMMA SetsRow ==
  ASSUME KeysTypeOK, NEW k \in Keys, NEW x \in Row, rows' = [rows EXCEPT ![k] = x]
  PROVE  /\ rows' \in [Keys -> Row] /\ rows'[k] = x
         /\ \A j \in Keys \ {k} : rows'[j] = rows[j]
BY DEF KeysTypeOK

LEMMA SetsOp ==
  ASSUME KeysTypeOK, NEW o \in Ops, NEW x \in OpRecord, op' = [op EXCEPT ![o] = x]
  PROVE  /\ op' \in [Ops -> OpRecord] /\ op'[o] = x
         /\ \A q \in Ops \ {o} : op'[q] = op[q]
BY DEF KeysTypeOK, OpRecord

LEMMA SetsAuth ==
  ASSUME KeysTypeOK, NEW r \in Requests, NEW x \in AuthRecord, auth' = [auth EXCEPT ![r] = x]
  PROVE  /\ auth' \in [Requests -> AuthRecord] /\ auth'[r] = x
         /\ \A q \in Requests \ {r} : auth'[q] = auth[q]
BY DEF KeysTypeOK, AuthRecord

\* The fields of a row that deactivate, regenerate and the task write.
LEMMA RowFields ==
  ASSUME NEW x \in Row, NEW b \in BOOLEAN, NEW s \in Nat
  PROVE  /\ [x EXCEPT !.active = b] \in Row
         /\ [x EXCEPT !.active = b].secret = x.secret /\ [x EXCEPT !.active = b].expires = x.expires
         /\ [x EXCEPT !.active = b].active = b
         /\ [x EXCEPT !.secret = s, !.active = b] \in Row
         /\ [x EXCEPT !.secret = s, !.active = b].secret = s
         /\ [x EXCEPT !.used = TRUE] \in Row
         /\ [x EXCEPT !.used = TRUE].secret = x.secret /\ [x EXCEPT !.used = TRUE].active = x.active
         /\ [x EXCEPT !.used = TRUE].expires = x.expires
BY DEF Row

LEMMA EndedRecord ==
  ASSUME KeysTypeOK, NEW r \in Requests, NEW pc \in {"accepted", "refused", "error", "lost"}
  PROVE  /\ Ended(r, pc) \in AuthRecord /\ Ended(r, pc).pc = pc
         /\ Ended(r, pc).key = auth[r].key /\ Ended(r, pc).void = auth[r].void
<1>1. auth[r] \in AuthRecord
  BY DEF KeysTypeOK, AuthRecord
<1>. QED BY <1>1, Records DEF Ended, AuthRecord

\* No step makes a secret valid that has been issued.
NoRevival == \A k \in Keys, s \in issued \cup {0} :
               (/\ rows'[k].active /\ rows'[k].secret = s /\ rows'[k].expires >= now') => Valid(k, s)

LEMMA VoidKept ==
  ASSUME KeysInv, auth' = auth, now' \in {now, now + 1}, NoRevival
  PROVE  StaysVoid'
<1> SUFFICES ASSUME NEW r \in Requests, auth[r].void
             PROVE  /\ auth[r].pc # "accepted"
                    /\ Waiting(r) => ~Valid(auth[r].key, auth[r].secret)'
                    /\ auth[r].pc = "verify" => auth[r].seen.expires < now'
                                                \/ auth[r].seen.secret # auth[r].secret
  BY DEF StaysVoid, Waiting, Valid
<1>1. auth[r].pc # "accepted"
  BY DEF KeysInv, StaysVoid
<1>2. ASSUME Waiting(r)
      PROVE  ~Valid(auth[r].key, auth[r].secret)'
  <2>1. auth[r].key \in Keys /\ auth[r].secret \in issued \cup {0}
    BY <1>2 DEF KeysInv, KeysLinked, SecretsFresh, Waiting
  <2>2. ~Valid(auth[r].key, auth[r].secret)
    BY <1>2 DEF KeysInv, StaysVoid
  <2>. QED BY <2>1, <2>2 DEF NoRevival, Valid
<1>3. ASSUME auth[r].pc = "verify"
      PROVE  auth[r].seen.expires < now' \/ auth[r].seen.secret # auth[r].secret
  <2>1. auth[r].seen.expires < now \/ auth[r].seen.secret # auth[r].secret
    BY <1>3 DEF KeysInv, StaysVoid
  <2>2. auth[r].seen.expires \in Nat /\ now \in Nat
    BY ClockAssumption DEF KeysInv, KeysTypeOK, Row
  <2>. QED BY <2>1, <2>2
<1>. QED BY <1>1, <1>2, <1>3

\* A call that ends leaves the secrets of the others fresh.
LEMMA CallEnds ==
  ASSUME KeysInv, NEW o \in Ops, op' = [op EXCEPT ![o] = Done]
  PROVE  /\ op' \in [Ops -> OpRecord] /\ op'[o].pc = "done"
         /\ \A q \in Ops \ {o} : op'[q] = op[q]
BY SetsOp, Records DEF KeysInv

LEMMA CreateStep ==
  ASSUME KeysInv, NEW k \in Keys, NEW e \in Expiries, Create(k, e)
  PROVE  KeysInv'
<1> DEFINE x == [secret |-> generated + 1, active |-> TRUE, expires |-> e, used |-> FALSE]
<1>1. KeysTypeOK /\ generated \in Nat /\ issued \subseteq 1 .. generated /\ now \in Nat
  BY ClockAssumption DEF KeysInv, KeysTypeOK
<1>2. x \in Row /\ x.secret = generated + 1
  BY <1>1, KeysAssumption DEF Row
<1>3. /\ generated' = generated + 1 /\ issued' = issued \cup {generated + 1}
      /\ rows' = [rows EXCEPT ![k] = x]
      /\ now' = now /\ op' = op /\ auth' = auth /\ touch' = touch
  BY DEF Create
<1>. HIDE DEF x
<1>4. rows' \in [Keys -> Row] /\ rows'[k] = x /\ \A j \in Keys \ {k} : rows'[j] = rows[j]
  BY <1>1, <1>2, <1>3, SetsRow
<1>5. KeysTypeOK'
  BY <1>1, <1>3, <1>4 DEF KeysTypeOK, Row
<1>6. KeysLinked'
  BY <1>3 DEF KeysInv, KeysLinked
<1>7. SecretsFresh'
  BY <1>1, <1>3 DEF KeysInv, SecretsFresh, Regenerating, Waiting
<1>8. NoRevival
  BY <1>1, <1>2, <1>3, <1>4 DEF NoRevival, Valid
<1>. QED BY <1>1, <1>3, <1>5, <1>6, <1>7, <1>8, VoidKept DEF KeysInv

LEMMA SelectStep ==
  ASSUME KeysInv, NEW o \in Ops, NEW k \in Keys, NEW kind \in {"deactivate", "regenerate"},
         Select(o, kind, k)
  PROVE  KeysInv'
<1> DEFINE x == IF Exists(k) THEN [pc |-> "commit", kind |-> kind, key |-> k,
                                   active |-> rows[k].active, secret |-> generated']
                ELSE Done
<1>1. KeysTypeOK /\ generated \in Nat /\ issued \subseteq 1 .. generated /\ now \in Nat
  BY ClockAssumption DEF KeysInv, KeysTypeOK
<1>2. /\ generated' = IF kind = "regenerate" /\ Exists(k) THEN generated + 1 ELSE generated
      /\ op' = [op EXCEPT ![o] = x]
      /\ now' = now /\ rows' = rows /\ issued' = issued /\ auth' = auth /\ touch' = touch
  BY DEF Select
<1>3. rows[k].active \in BOOLEAN
  BY <1>1 DEF KeysTypeOK, Row
<1>4. x \in OpRecord
  BY <1>1, <1>2, <1>3, Records DEF OpRecord
<1>5. /\ x.pc = "commit" => x.key = k /\ x.kind = kind /\ x.secret = generated' /\ Exists(k)
  BY Records
<1>. HIDE DEF x
<1>6. op' \in [Ops -> OpRecord] /\ op'[o] = x /\ \A q \in Ops \ {o} : op'[q] = op[q]
  BY <1>1, <1>2, <1>4, SetsOp
<1>7. KeysTypeOK'
  BY <1>1, <1>2, <1>6 DEF KeysTypeOK, OpRecord
<1>8. KeysLinked'
  BY <1>2, <1>5, <1>6 DEF KeysInv, KeysLinked
<1>9. ASSUME NEW q \in Ops, Regenerating(q)'
      PROVE  /\ op'[q].secret \in (1 .. generated') \ issued'
             /\ q = o => op'[q].secret = generated + 1
             /\ q # o => Regenerating(q) /\ op'[q] = op[q] /\ op[q].secret <= generated
  <2>1. CASE q = o
    BY <1>1, <1>2, <1>5, <1>6, <1>9, <2>1 DEF Regenerating
  <2>2. CASE q # o
    <3>1. op'[q] = op[q] /\ Regenerating(q)
      BY <1>6, <1>9, <2>2 DEF Regenerating
    <3>2. op[q].secret \in (1 .. generated) \ issued
      BY <3>1 DEF KeysInv, SecretsFresh
    <3>. QED BY <1>1, <1>2, <2>2, <3>1, <3>2
  <2>. QED BY <2>1, <2>2
<1>10. SecretsFresh'
  <2>1. \A q \in Ops : Regenerating(q)' => op'[q].secret \in (1 .. generated') \ issued'
    BY <1>9
  <2>2. ASSUME NEW p \in Ops, NEW q \in Ops, Regenerating(p)', Regenerating(q)',
               op'[p].secret = op'[q].secret
        PROVE  p = q
    BY <1>1, <1>9, <2>2 DEF KeysInv, SecretsFresh
  <2>3. \A r \in Requests : Waiting(r)' => auth'[r].secret \in issued' \cup {0}
    BY <1>2 DEF KeysInv, SecretsFresh, Waiting
  <2>. QED BY <2>1, <2>2, <2>3 DEF SecretsFresh
<1>11. NoRevival
  BY <1>2 DEF NoRevival, Valid
<1>. QED BY <1>1, <1>2, <1>7, <1>8, <1>10, <1>11, VoidKept DEF KeysInv

LEMMA DeactivateStep ==
  ASSUME KeysInv, NEW o \in Ops, Deactivate(o)
  PROVE  KeysInv'
<1> DEFINE k == op[o].key
<1>1. KeysTypeOK /\ now \in Nat /\ k \in Keys /\ rows[k] \in Row
  BY ClockAssumption DEF KeysInv, KeysTypeOK, KeysLinked, Deactivate
<1>2. /\ op' = [op EXCEPT ![o] = Done]
      /\ rows' \in {rows, [rows EXCEPT ![k] = [rows[k] EXCEPT !.active = FALSE]]}
      /\ now' = now /\ generated' = generated /\ issued' = issued /\ auth' = auth /\ touch' = touch
  BY DEF Deactivate
<1>. HIDE DEF k
<1>3. /\ rows' \in [Keys -> Row]
      /\ \A j \in Keys : rows'[j] = rows[j] \/ ~rows'[j].active
  <2> DEFINE x == [rows[k] EXCEPT !.active = FALSE]
  <2>1. x \in Row /\ x.active = FALSE
    BY <1>1, RowFields
  <2>2. rows' = rows \/ rows' = [rows EXCEPT ![k] = x]
    BY <1>2
  <2>. HIDE DEF x
  <2>3. CASE rows' = rows
    BY <1>1, <2>3 DEF KeysTypeOK
  <2>4. CASE rows' = [rows EXCEPT ![k] = x]
    BY <1>1, <2>1, <2>4, SetsRow
  <2>. QED BY <2>2, <2>3, <2>4
<1>4. op' \in [Ops -> OpRecord] /\ op'[o].pc = "done" /\ \A q \in Ops \ {o} : op'[q] = op[q]
  BY <1>2, CallEnds
<1>5. KeysTypeOK'
  BY <1>1, <1>2, <1>3, <1>4 DEF KeysTypeOK, OpRecord
<1>6. KeysLinked'
  BY <1>2, <1>4 DEF KeysInv, KeysLinked
<1>7. SecretsFresh'
  BY <1>2, <1>4 DEF KeysInv, SecretsFresh, Regenerating, Waiting
<1>8. NoRevival
  BY <1>2, <1>3 DEF NoRevival, Valid
<1>. QED BY <1>1, <1>2, <1>5, <1>6, <1>7, <1>8, VoidKept DEF KeysInv

LEMMA RegenerateStep ==
  ASSUME KeysInv, NEW o \in Ops, Regenerate(o)
  PROVE  KeysInv'
<1> DEFINE k == op[o].key
           s == op[o].secret
           b == rows[k].active \/ ~op[o].active
<1>1. /\ KeysTypeOK /\ now \in Nat /\ k \in Keys /\ rows[k] \in Row /\ b \in BOOLEAN
      /\ generated \in Nat /\ issued \subseteq 1 .. generated
  BY ClockAssumption DEF KeysInv, KeysTypeOK, KeysLinked, Regenerate
<1>2. s \in (1 .. generated) \ issued /\ Regenerating(o)
  BY DEF Regenerate, Regenerating, KeysInv, SecretsFresh
<1>3. /\ op' = [op EXCEPT ![o] = Done] /\ issued' = issued \cup {s}
      /\ rows' = [rows EXCEPT ![k] = [rows[k] EXCEPT !.secret = s, !.active = b]]
      /\ now' = now /\ generated' = generated /\ auth' = auth /\ touch' = touch
  <2>1. rows' = [rows EXCEPT ![k] = [rows[k] EXCEPT !.secret = s, !.active = b]]
    BY DEF Regenerate
  <2>. QED BY <2>1 DEF Regenerate
<1>. HIDE DEF k, b
<1>4. /\ rows' \in [Keys -> Row]
      /\ \A j \in Keys : rows'[j] = rows[j] \/ rows'[j].secret = s
  <2>1. s \in Nat
    BY <1>1, <1>2
  <2> DEFINE x == [rows[k] EXCEPT !.secret = s, !.active = b]
  <2>2. rows' = [rows EXCEPT ![k] = x]
    BY <1>3
  <2>. HIDE DEF s
  <2>3. x \in Row /\ x.secret = s
    BY <1>1, <2>1 DEF Row
  <2>. HIDE DEF x, s
  <2>. QED BY <1>1, <2>2, <2>3, SetsRow
<1>5. op' \in [Ops -> OpRecord] /\ op'[o].pc = "done" /\ \A q \in Ops \ {o} : op'[q] = op[q]
  BY <1>3, CallEnds
<1>6. KeysTypeOK'
  BY <1>1, <1>2, <1>3, <1>4, <1>5 DEF KeysTypeOK, OpRecord
<1>7. KeysLinked'
  BY <1>3, <1>5 DEF KeysInv, KeysLinked
<1>8. SecretsFresh'
  <2>1. ASSUME NEW q \in Ops, Regenerating(q)'
        PROVE  q # o /\ Regenerating(q) /\ op'[q] = op[q] /\ op[q].secret # s
    BY <1>2, <1>5, <2>1 DEF Regenerating, KeysInv, SecretsFresh
  <2>2. \A q \in Ops : Regenerating(q)' => op'[q].secret \in (1 .. generated') \ issued'
    BY <1>3, <2>1 DEF KeysInv, SecretsFresh
  <2>3. \A p, q \in Ops : Regenerating(p)' /\ Regenerating(q)' /\ op'[p].secret = op'[q].secret => p = q
    BY <2>1 DEF KeysInv, SecretsFresh
  <2>4. \A r \in Requests : Waiting(r)' => auth'[r].secret \in issued' \cup {0}
    BY <1>3 DEF KeysInv, SecretsFresh, Waiting
  <2>. QED BY <2>2, <2>3, <2>4 DEF SecretsFresh
<1>9. NoRevival
  BY <1>1, <1>2, <1>3, <1>4 DEF NoRevival, Valid
<1>. QED BY <1>1, <1>3, <1>6, <1>7, <1>8, <1>9, VoidKept DEF KeysInv

LEMMA FailOpStep ==
  ASSUME KeysInv, NEW o \in Ops, FailOp(o)
  PROVE  KeysInv'
<1>1. op' \in [Ops -> OpRecord] /\ op'[o].pc = "done" /\ \A q \in Ops \ {o} : op'[q] = op[q]
  BY CallEnds DEF FailOp
<1>2. /\ now' = now /\ rows' = rows /\ generated' = generated /\ issued' = issued
      /\ auth' = auth /\ touch' = touch
  BY DEF FailOp
<1>3. KeysTypeOK'
  BY <1>1, <1>2 DEF KeysInv, KeysTypeOK, OpRecord
<1>4. KeysLinked'
  BY <1>1, <1>2 DEF KeysInv, KeysLinked
<1>5. SecretsFresh'
  BY <1>1, <1>2 DEF KeysInv, SecretsFresh, Regenerating, Waiting
<1>6. NoRevival
  BY <1>2 DEF NoRevival, Valid
<1>. QED BY <1>2, <1>3, <1>4, <1>5, <1>6, VoidKept DEF KeysInv

\* What a step of one request's authentication must give.
LEMMA OneRequest ==
  ASSUME KeysInv, NEW r \in Requests, NEW x \in AuthRecord, auth' = [auth EXCEPT ![r] = x],
         now' = now, rows' = rows, generated' = generated, issued' = issued, op' = op,
         touch' \in [Requests -> [pc : {"none", "new", "commit"}, row : Row]],
         \A q \in Requests : touch'[q].pc # "none" => touch[q].pc # "none" \/ (q = r /\ x.pc = "accepted"),
         touch[r].pc = "none",
         x.pc \in {"select", "verify", "accepted"} => x.key \in Keys,
         x.pc \in {"select", "verify"} => x.secret \in issued \cup {0},
         x.void => /\ x.pc # "accepted"
                   /\ x.pc \in {"select", "verify"} => ~Valid(x.key, x.secret)
                   /\ x.pc = "verify" => x.seen.expires < now \/ x.seen.secret # x.secret
  PROVE  KeysInv'
<1>1. auth' \in [Requests -> AuthRecord] /\ auth'[r] = x /\ \A q \in Requests \ {r} : auth'[q] = auth[q]
  BY SetsAuth DEF KeysInv
<1>2. KeysTypeOK'
  BY <1>1 DEF KeysInv, KeysTypeOK, AuthRecord
<1>3. KeysLinked'
  BY <1>1 DEF KeysInv, KeysLinked
<1>4. SecretsFresh'
  BY <1>1 DEF KeysInv, SecretsFresh, Regenerating, Waiting
<1>5. \A k, s : Valid(k, s)' <=> Valid(k, s)
  BY DEF Valid
<1>6. StaysVoid'
  <2> SUFFICES ASSUME NEW q \in Requests, auth'[q].void
               PROVE  /\ auth'[q].pc # "accepted"
                      /\ Waiting(q)' => ~Valid(auth'[q].key, auth'[q].secret)
                      /\ auth'[q].pc = "verify" => auth'[q].seen.expires < now
                                                   \/ auth'[q].seen.secret # auth'[q].secret
    BY <1>5 DEF StaysVoid, Valid
  <2>1. CASE q = r
    BY <1>1, <2>1 DEF Waiting
  <2>2. CASE q # r
    BY <1>1, <2>2 DEF KeysInv, StaysVoid, Waiting
  <2>. QED BY <2>1, <2>2
<1>. QED BY <1>2, <1>3, <1>4, <1>6 DEF KeysInv

LEMMA PresentStep ==
  ASSUME KeysInv, NEW r \in Requests, NEW k \in Keys, NEW s \in issued \cup {0}, Present(r, k, s)
  PROVE  KeysInv'
<1> DEFINE v == ~Valid(k, s)
           x == [NoAuth EXCEPT !.pc = "select", !.key = k, !.secret = s, !.void = v]
<1>1. s \in Nat /\ v \in BOOLEAN
  BY DEF KeysInv, KeysTypeOK
<1>2. /\ auth[r].pc = "new" /\ auth' = [auth EXCEPT ![r] = x]
      /\ now' = now /\ rows' = rows /\ generated' = generated /\ issued' = issued
      /\ op' = op /\ touch' = touch
  BY Zenon DEF Present
<1>. HIDE DEF v
<1>3. x \in AuthRecord /\ x.pc = "select" /\ x.key = k /\ x.secret = s
  BY <1>1, Records DEF AuthRecord, NoAuth
<1>4. x.void = v
  BY Zenon DEF NoAuth
<1>. HIDE DEF x
<1>5. touch[r].pc = "none"
  BY <1>2 DEF KeysInv, KeysLinked
<1>6. x.void => ~Valid(x.key, x.secret)
  BY <1>3, <1>4 DEF v
<1>. QED BY <1>2, <1>3, <1>5, <1>6, OneRequest DEF KeysInv, KeysTypeOK

LEMMA SelectActiveStep ==
  ASSUME KeysInv, NEW r \in Requests, SelectActive(r)
  PROVE  KeysInv'
<1> DEFINE k == auth[r].key
           x == [auth[r] EXCEPT !.pc = "verify", !.seen = rows[k]]
<1>1. /\ auth[r] \in AuthRecord /\ auth[r].pc = "select" /\ k \in Keys /\ rows[k] \in Row
      /\ auth[r].secret \in issued \cup {0} /\ touch[r].pc = "none"
      /\ auth[r].void => ~Valid(k, auth[r].secret)
  BY DEF KeysInv, KeysTypeOK, KeysLinked, SecretsFresh, StaysVoid, Waiting, SelectActive, AuthRecord
<1>2. /\ \/ rows[k].active /\ auth' = [auth EXCEPT ![r] = x]
         \/ \E pc \in {"refused", "error"} : auth' = [auth EXCEPT ![r] = Ended(r, pc)]
      /\ now' = now /\ rows' = rows /\ generated' = generated /\ issued' = issued
      /\ op' = op /\ touch' = touch
  BY Zenon DEF SelectActive
<1>3. CASE rows[k].active /\ auth' = [auth EXCEPT ![r] = x]
  <2>. HIDE DEF k
  <2>1. /\ x \in AuthRecord /\ x.pc = "verify" /\ x.key = auth[r].key /\ x.secret = auth[r].secret
        /\ x.seen = rows[k]
    BY <1>1 DEF AuthRecord
  <2>2. x.void = auth[r].void
    BY <1>1, Zenon DEF AuthRecord
  <2>. HIDE DEF x
  <2>3. x.void => ~Valid(k, x.secret)
    BY <1>1, <2>1, <2>2, Zenon
  <2>4. rows[k].expires \in Nat /\ now \in Nat
    BY <1>1, ClockAssumption DEF Row, KeysInv, KeysTypeOK
  <2>5. x.void => x.seen.expires < now \/ x.seen.secret # x.secret
    BY <1>3, <2>1, <2>3, <2>4 DEF Valid
  <2>6. x.key = k
    BY <2>1 DEF k
  <2>. QED BY <1>1, <1>2, <1>3, <2>1, <2>3, <2>5, <2>6, OneRequest DEF KeysInv, KeysTypeOK
<1>4. ASSUME NEW pc \in {"refused", "error"}, auth' = [auth EXCEPT ![r] = Ended(r, pc)]
      PROVE  KeysInv'
  <2>1. Ended(r, pc) \in AuthRecord /\ Ended(r, pc).pc = pc
    BY EndedRecord DEF KeysInv
  <2>. QED BY <1>1, <1>2, <1>4, <2>1, OneRequest DEF KeysInv, KeysTypeOK
<1>. QED BY <1>2, <1>3, <1>4

LEMMA VerifyStep ==
  ASSUME KeysInv, NEW r \in Requests, Verify(r)
  PROVE  KeysInv'
<1> DEFINE ok == auth[r].seen.expires >= now /\ auth[r].seen.secret = auth[r].secret
<1>1. /\ auth[r] \in AuthRecord /\ auth[r].pc = "verify" /\ auth[r].key \in Keys /\ touch[r].pc = "none"
      /\ auth[r].void => auth[r].seen.expires < now \/ auth[r].seen.secret # auth[r].secret
  BY DEF KeysInv, KeysTypeOK, KeysLinked, StaysVoid, Verify, AuthRecord
<1>2. PICK pc \in {IF ok THEN "accepted" ELSE "refused", "error"} :
        /\ auth' = [auth EXCEPT ![r] = Ended(r, pc)]
        /\ touch' = [touch EXCEPT ![r].pc = IF pc = "accepted" THEN "new" ELSE @]
  BY Zenon DEF Verify
<1>3. /\ now' = now /\ rows' = rows /\ generated' = generated /\ issued' = issued /\ op' = op
  BY DEF Verify
<1>4. auth[r].seen.expires \in Nat /\ now \in Nat
  BY <1>1, ClockAssumption DEF AuthRecord, Row, KeysInv, KeysTypeOK
<1>5. pc \in {"accepted", "refused", "error"} /\ (auth[r].void => pc # "accepted")
  BY <1>1, <1>2, <1>4
<1>6. /\ Ended(r, pc) \in AuthRecord /\ Ended(r, pc).pc = pc
      /\ Ended(r, pc).key = auth[r].key /\ Ended(r, pc).void = auth[r].void
  BY <1>5, EndedRecord DEF KeysInv
<1>7. /\ touch' \in [Requests -> [pc : {"none", "new", "commit"}, row : Row]]
      /\ \A q \in Requests : touch'[q].pc # "none" => touch[q].pc # "none" \/ (q = r /\ pc = "accepted")
  BY <1>1, <1>2 DEF KeysInv, KeysTypeOK
<1> DEFINE x == Ended(r, pc)
<1>8. x.void => pc # "accepted"
  BY <1>5, <1>6, Zenon
<1>9. x \in AuthRecord /\ x.pc = pc /\ x.key \in Keys /\ auth' = [auth EXCEPT ![r] = x]
  BY <1>1, <1>2, <1>6
<1>. HIDE DEF ok, x
<1>. QED BY <1>1, <1>3, <1>5, <1>7, <1>8, <1>9, OneRequest

\* The tasks touch last_used_at alone.
LEMMA TouchStep ==
  ASSUME KeysInv, NEW r \in Requests, TouchSelect(r) \/ Touch(r)
  PROVE  KeysInv'
<1> DEFINE k == auth[r].key
           x == [rows[k] EXCEPT !.used = TRUE]
<1>1. KeysTypeOK /\ k \in Keys /\ rows[k] \in Row /\ touch[r].pc # "none" /\ auth[r].pc = "accepted"
  BY DEF KeysInv, KeysTypeOK, KeysLinked, TouchSelect, Touch
<1>2. /\ now' = now /\ generated' = generated /\ issued' = issued /\ op' = op /\ auth' = auth
      /\ rows' = rows \/ rows' = [rows EXCEPT ![k] = x]
      /\ \/ touch' = [touch EXCEPT ![r] = [pc |-> "commit", row |-> rows[k]]]
         \/ touch' = [touch EXCEPT ![r] = NoTouch]
  BY DEF TouchSelect, Touch
<1>. HIDE DEF k
<1>3. x \in Row /\ x.secret = rows[k].secret /\ x.expires = rows[k].expires
  BY <1>1, RowFields
<1>4. x.active = rows[k].active
  BY <1>1, RowFields, Zenon
<1>. HIDE DEF x
<1>5. /\ rows' \in [Keys -> Row]
      /\ \A j \in Keys : rows'[j] = rows[j] \/ (j = k /\ rows'[j] = x)
  <2>1. CASE rows' = rows
    BY <1>1, <2>1 DEF KeysTypeOK
  <2>2. CASE rows' = [rows EXCEPT ![k] = x]
    BY <1>1, <1>3, <2>2, SetsRow
  <2>. QED BY <1>2, <2>1, <2>2
<1>6. /\ touch' \in [Requests -> [pc : {"none", "new", "commit"}, row : Row]]
      /\ \A q \in Requests : touch'[q].pc # "none" => touch[q].pc # "none"
  <2> DEFINE Task == [pc : {"none", "new", "commit"}, row : Row]
             selected == [pc |-> "commit", row |-> rows[k]]
  <2>1. touch \in [Requests -> Task]
    BY <1>1 DEF KeysTypeOK
  <2>2. selected \in Task /\ NoTouch \in Task /\ NoTouch.pc = "none"
    BY <1>1, Records DEF NoTouch
  <2>3. PICK t \in {selected, NoTouch} : touch' = [touch EXCEPT ![r] = t]
    BY <1>2
  <2>4. t \in Task
    BY <2>2
  <2>. HIDE DEF Task, selected
  <2>5. touch' \in [Requests -> Task] /\ \A q \in Requests \ {r} : touch'[q] = touch[q]
    BY <2>1, <2>3, <2>4
  <2>. QED BY <1>1, <2>5 DEF Task
<1>7. KeysTypeOK'
  BY <1>1, <1>2, <1>5, <1>6 DEF KeysTypeOK
<1>8. KeysLinked'
  BY <1>2, <1>6 DEF KeysInv, KeysLinked
<1>9. SecretsFresh'
  BY <1>2 DEF KeysInv, SecretsFresh, Regenerating, Waiting
<1>10. NoRevival
  BY <1>2, <1>3, <1>4, <1>5 DEF NoRevival, Valid
<1>. QED BY <1>2, <1>7, <1>8, <1>9, <1>10, VoidKept DEF KeysInv

LEMMA KeysTickStep ==
  ASSUME KeysInv, Tick \/ now' = now, UNCHANGED <<rows, generated, issued, op, auth, touch>>
  PROVE  KeysInv'
<1>1. now \in 0 .. MaxTime /\ MaxTime \in Nat /\ now' \in {now, now + 1} /\ now' \in 0 .. MaxTime
  BY ClockAssumption DEF KeysInv, KeysTypeOK, Tick
<1>2. KeysTypeOK'
  BY <1>1 DEF KeysInv, KeysTypeOK
<1>3. KeysLinked' /\ SecretsFresh'
  BY DEF KeysInv, KeysLinked, SecretsFresh, Regenerating, Waiting
<1>4. ASSUME NEW k \in Keys PROVE rows[k].expires >= now' => rows[k].expires >= now
  <2>1. rows[k].expires \in Nat
    BY DEF KeysInv, KeysTypeOK, Row
  <2>. QED BY <1>1, <2>1
<1>5. NoRevival
  BY <1>4 DEF NoRevival, Valid
<1>. QED BY <1>1, <1>2, <1>3, <1>5, VoidKept DEF KeysInv

LEMMA KeysCrashStep ==
  ASSUME KeysInv, KeysCrash
  PROVE  KeysInv'
<1>1. /\ now' = now /\ rows' = rows /\ generated' = generated /\ issued' = issued
      /\ op' = [o \in Ops |-> IF op[o].pc = "commit" THEN Done ELSE op[o]]
      /\ auth' = [r \in Requests |-> IF Waiting(r) THEN Ended(r, "lost") ELSE auth[r]]
      /\ touch' = [r \in Requests |-> NoTouch]
  BY Zenon DEF KeysCrash, Waiting
<1>2. op' \in [Ops -> OpRecord] /\ \A o \in Ops : op'[o].pc # "commit"
  BY <1>1, Records DEF KeysInv, KeysTypeOK, OpRecord
<1>3. ASSUME NEW r \in Requests
      PROVE  /\ auth'[r] \in AuthRecord /\ ~Waiting(r)' /\ auth'[r].void = auth[r].void
             /\ auth'[r].pc = "accepted" => auth[r].pc = "accepted" /\ auth'[r] = auth[r]
  <2>1. CASE Waiting(r)
    <3>1. auth'[r] = Ended(r, "lost")
      BY <1>1, <2>1
    <3>2. Ended(r, "lost") \in AuthRecord /\ Ended(r, "lost").pc = "lost"
      BY EndedRecord DEF KeysInv
    <3>3. Ended(r, "lost").void = auth[r].void
      BY EndedRecord, Zenon DEF KeysInv
    <3>. QED BY <3>1, <3>2, <3>3 DEF Waiting
  <2>2. CASE ~Waiting(r)
    BY <1>1, <2>2 DEF KeysInv, KeysTypeOK, AuthRecord, Waiting
  <2>. QED BY <2>1, <2>2
<1>4. auth' \in [Requests -> AuthRecord]
  BY <1>1, <1>3
<1>5. \A r \in Requests : touch'[r] = NoTouch /\ NoTouch.pc = "none"
  BY <1>1 DEF NoTouch
<1>6. KeysTypeOK'
  BY <1>1, <1>2, <1>4, Records DEF KeysInv, KeysTypeOK, OpRecord, AuthRecord, NoTouch
<1>7. KeysLinked'
  BY <1>2, <1>3, <1>5 DEF KeysInv, KeysLinked, Waiting
<1>8. SecretsFresh'
  BY <1>1, <1>2, <1>3 DEF KeysInv, SecretsFresh, Regenerating
<1>9. StaysVoid'
  BY <1>3 DEF KeysInv, StaysVoid, Waiting
<1>. QED BY <1>6, <1>7, <1>8, <1>9 DEF KeysInv

LEMMA KeysInitially == KeysInit => KeysInv
<1> SUFFICES ASSUME KeysInit PROVE KeysInv
  OBVIOUS
<1>1. /\ now = 0 /\ rows = [k \in Keys |-> NoRow] /\ generated = 0 /\ issued = {}
      /\ op = [o \in Ops |-> NoOp] /\ auth = [r \in Requests |-> NoAuth]
      /\ touch = [r \in Requests |-> NoTouch] /\ NoTouch.pc = "none" /\ NoTouch.row \in Row
  BY Records DEF KeysInit, ClockInit, NoTouch
<1>2. KeysTypeOK
  BY <1>1, Records, ClockAssumption DEF KeysTypeOK, OpRecord, AuthRecord, NoTouch
<1>3. KeysLinked /\ SecretsFresh /\ StaysVoid
  BY <1>1, Records DEF KeysLinked, SecretsFresh, StaysVoid, Regenerating, Waiting
<1>. QED BY <1>2, <1>3 DEF KeysInv

LEMMA KeysStep == KeysInv /\ [KeysNext]_keyVars => KeysInv'
<1> SUFFICES ASSUME KeysInv, [KeysNext]_keyVars PROVE KeysInv'
  OBVIOUS
<1>1. CASE UNCHANGED keyVars
  BY <1>1, KeysTickStep DEF keyVars
<1>2. CASE Tick /\ UNCHANGED <<rows, generated, issued, op, auth, touch>>
  BY <1>2, KeysTickStep
<1>3. ASSUME NEW o \in Ops, Deactivate(o) \/ Regenerate(o) \/ FailOp(o)
      PROVE  KeysInv'
  BY <1>3, DeactivateStep, RegenerateStep, FailOpStep
<1>4. ASSUME NEW r \in Requests, SelectActive(r) \/ Verify(r) \/ TouchSelect(r) \/ Touch(r)
      PROVE  KeysInv'
  BY <1>4, SelectActiveStep, VerifyStep, TouchStep
<1>. QED BY <1>1, <1>2, <1>3, <1>4, CreateStep, SelectStep, PresentStep, KeysCrashStep DEF KeysNext

\* Credentials that are void when they are presented never let a request in (AuthMiddleware
\* and api_keys/service.py), for any number of keys, rotations, deactivations and requests.
THEOREM VoidAlwaysRefused == KeysSpec => []VoidNeverAccepted
<1>1. KeysInit => KeysInv
  BY KeysInitially
<1>2. KeysInv /\ [KeysNext]_keyVars => KeysInv'
  BY KeysStep
<1>3. KeysInv => VoidNeverAccepted
  BY DEF KeysInv, StaysVoid, VoidNeverAccepted
<1>. QED BY <1>1, <1>2, <1>3, PTL DEF KeysSpec

(***************************************************************************)
(* The gateway: each of its steps is a step of the limiter or changes      *)
(* nothing of it, and the same for the keys.                               *)
(***************************************************************************)
LEMMA LimiterSteps == [Next]_vars => [LimiterNext]_limiterVars
<1> SUFFICES ASSUME [Next]_vars PROVE [LimiterNext]_limiterVars
  OBVIOUS
<1>1. CASE UNCHANGED vars
  BY <1>1 DEF vars, limiterVars
<1>2. ASSUME NEW r \in Requests, NEW kind \in {"open", "login", "key", "token"}, NEW token,
             NEW p \in Principals, Receive(r, kind, token, p)
      PROVE  [LimiterNext]_limiterVars
  <2>1. CASE kind = "open"
    BY <1>2, <2>1 DEF Receive, limiterState, limiterVars
  <2>2. CASE kind # "open"
    <3>1. PICK q \in Principals \cup {None} : Arrive(r, q)
      BY <1>2, <2>2 DEF Receive
    <3>. QED BY <3>1 DEF LimiterNext
  <2>. QED BY <2>1, <2>2
<1>3. ASSUME NEW r \in Requests, Count(r)
      PROVE  [LimiterNext]_limiterVars
  BY <1>3 DEF Count, LimiterNext
<1>4. ASSUME NEW r \in Requests, Authenticate(r) \/ Handle(r) \/ Log(r)
      PROVE  [LimiterNext]_limiterVars
  BY <1>4 DEF Authenticate, Handle, Log, limiterState, limiterVars
<1>5. ASSUME NEW r \in Requests, CheckKey(r)
      PROVE  [LimiterNext]_limiterVars
  BY <1>5 DEF CheckKey, SelectActive, Verify, limiterState, limiterVars
<1>6. CASE KeyCalls
  <2>1. now' = now
    BY <1>6 DEF KeyCalls, Create, Select, Deactivate, Regenerate, FailOp, TouchSelect, Touch
  <2>. QED BY <1>6, <2>1 DEF KeyCalls, limiterState, limiterVars
<1>7. CASE TimePasses
  BY <1>7 DEF TimePasses, LimiterNext
<1>8. CASE Crash
  BY <1>8 DEF Crash, LimiterNext
<1>. QED BY <1>1, <1>2, <1>3, <1>4, <1>5, <1>6, <1>7, <1>8 DEF Next

LEMMA KeysSteps == [Next]_vars => [KeysNext]_keyVars
<1> SUFFICES ASSUME [Next]_vars PROVE [KeysNext]_keyVars
  OBVIOUS
<1>1. CASE UNCHANGED vars
  BY <1>1 DEF vars, keyVars
<1>2. ASSUME NEW r \in Requests, NEW kind, NEW token, NEW p, Receive(r, kind, token, p)
      PROVE  [KeysNext]_keyVars
  BY <1>2 DEF Receive, Arrive, keyState, keyVars
<1>3. ASSUME NEW r \in Requests, Count(r)
      PROVE  [KeysNext]_keyVars
  BY <1>3 DEF Count, Increment, Expire, keyState, keyVars
<1>4. ASSUME NEW r \in Requests, Authenticate(r)
      PROVE  [KeysNext]_keyVars
  <2>1. CASE UNCHANGED keyState
    BY <1>4, <2>1 DEF Authenticate, keyState, keyVars
  <2>2. CASE \E k \in Keys, s \in issued \cup {0} : Present(r, k, s)
    BY <2>2 DEF KeysNext
  <2>. QED BY <1>4, <2>1, <2>2 DEF Authenticate
<1>5. ASSUME NEW r \in Requests, Handle(r) \/ Log(r)
      PROVE  [KeysNext]_keyVars
  BY <1>5 DEF Handle, Log, keyState, keyVars
<1>6. ASSUME NEW r \in Requests, CheckKey(r)
      PROVE  [KeysNext]_keyVars
  BY <1>6 DEF CheckKey, KeysNext
<1>7. CASE KeyCalls
  BY <1>7 DEF KeyCalls, KeysNext
<1>8. CASE TimePasses
  BY <1>8 DEF TimePasses, PassTime, KeysNext, keyState
<1>9. CASE Crash
  BY <1>9 DEF Crash, KeysNext
<1>. QED BY <1>1, <1>2, <1>3, <1>4, <1>5, <1>6, <1>7, <1>8, <1>9 DEF Next

\* A gateway is a rate limiter and a keeper of API keys: composing them in the middleware
\* adds no behaviour to either.
THEOREM GatewayComposes == Spec => LimiterSpec /\ KeysSpec
<1>1. Init => LimiterInit /\ KeysInit
  BY DEF Init
<1>. QED BY <1>1, LimiterSteps, KeysSteps, PTL DEF Spec, LimiterSpec, KeysSpec

\* So what holds of the components holds of the requests that the gateway dispatches.
THEOREM GatewayKeeps ==
  Spec => [](LimitKept /\ RefusedOverLimit /\ CountersExpire /\ VoidNeverAccepted)
BY GatewayComposes, LimitAlwaysKept, RefusedAlwaysOverLimit, CountersAlwaysExpire,
   VoidAlwaysRefused, PTL

(***************************************************************************)
(* RefusalsAreErrors.  A request that waits for Redis or the database has  *)
(* not been answered, so each refusal is another answer to be logged.      *)
(***************************************************************************)
ReqRecord == [pc : {"new", "limiting", "authenticating", "handling", "answered", "logged", "lost"},
              kind : {"open", "login", "key", "token"}, token : Nat,
              status : {0, 200, 401, 429, 500}]
Counts == [requests : Nat, errors : Nat, failures : Nat, hits : Nat]

\* The errors that are to be logged.
Unlogged == {r \in Requests : req[r].pc = "answered" /\ req[r].status >= 400}

Dispatched ==
  \A r \in Requests : /\ limited[r].at \in {"incr", "expire"} => req[r].pc = "limiting"
                      /\ Waiting(r) => req[r].pc = "authenticating"

\* A step of a request that is not an error's answer, nor the logging of one, counts nothing.
LEMMA NothingCounted ==
  ASSUME TypeOK, RefusalsAreErrors, NEW r \in Requests, NEW x \in ReqRecord,
         req' = [req EXCEPT ![r] = x], metrics' = metrics,
         req[r].pc # "answered", x.pc = "answered" => x.status < 400
  PROVE  req' \in [Requests -> ReqRecord] /\ metrics' \in Counts /\ RefusalsAreErrors'
<1>1. /\ req' \in [Requests -> ReqRecord] /\ req'[r] = x
      /\ \A q \in Requests \ {r} : req'[q] = req[q]
  BY DEF TypeOK, ReqRecord
<1>2. x.status \in Nat
  BY DEF ReqRecord
<1>3. Unlogged' = Unlogged
  BY <1>1, <1>2 DEF Unlogged
<1>4. RefusalsAreErrors'
  BY <1>3 DEF RefusalsAreErrors, Unlogged
<1>. QED BY <1>1, <1>4 DEF TypeOK, Counts

\* A refusal is counted when it is answered.
LEMMA RefusalCounted ==
  ASSUME TypeOK, RefusalsAreErrors, NEW r \in Requests, req[r].pc # "answered",
         NEW status \in {401, 429, 500}, Answer(r, status),
         \/ metrics' = [metrics EXCEPT !.failures = @ + 1]
         \/ metrics' = [metrics EXCEPT !.hits = @ + 1]
  PROVE  /\ req' \in [Requests -> ReqRecord] /\ metrics' \in Counts /\ RefusalsAreErrors'
         /\ req'[r].pc = "answered" /\ \A q \in Requests \ {r} : req'[q] = req[q]
<1> DEFINE x == [req[r] EXCEPT !.pc = "answered", !.status = status]
<1>1. x \in ReqRecord /\ x.pc = "answered" /\ x.status = status
  <2>1. req[r] \in ReqRecord
    BY DEF TypeOK, ReqRecord
  <2> DEFINE y == [req[r] EXCEPT !.pc = "answered"]
  <2>2. y \in ReqRecord /\ y.pc = "answered"
    BY <2>1 DEF ReqRecord
  <2>3. x = [y EXCEPT !.status = status]
    OBVIOUS
  <2>. HIDE DEF x, y
  <2>. QED BY <2>2, <2>3 DEF ReqRecord
<1>2. req' = [req EXCEPT ![r] = x]
  BY DEF Answer
<1>. HIDE DEF x
<1>3. /\ req' \in [Requests -> ReqRecord] /\ req'[r] = x
      /\ \A q \in Requests \ {r} : req'[q] = req[q]
  BY <1>1, <1>2 DEF TypeOK, ReqRecord
<1>4. Unlogged' = Unlogged \cup {r} /\ r \notin Unlogged
  BY <1>1, <1>3 DEF Unlogged
<1>5. /\ Cardinality(Unlogged') = Cardinality(Unlogged) + 1 /\ Cardinality(Unlogged) \in Nat
  BY <1>4, SubsetsOfRequests, FS_AddElement DEF Unlogged
<1>6. /\ metrics' \in Counts
      /\ metrics'.failures + metrics'.hits = metrics.failures + metrics.hits + 1
      /\ metrics'.errors = metrics.errors
  BY DEF TypeOK, Counts
<1>7. /\ metrics.failures + metrics.hits <= metrics.errors + Cardinality(Unlogged)
      /\ metrics.failures \in Nat /\ metrics.hits \in Nat /\ metrics.errors \in Nat
  BY DEF RefusalsAreErrors, Unlogged, TypeOK
<1>8. metrics'.failures + metrics'.hits <= metrics'.errors + Cardinality(Unlogged')
  BY <1>5, <1>6, <1>7
<1>9. RefusalsAreErrors'
  BY <1>8 DEF RefusalsAreErrors, Unlogged
<1>. QED BY <1>1, <1>3, <1>6, <1>9

LEMMA LogStep ==
  ASSUME TypeOK, RefusalsAreErrors, NEW r \in Requests, Log(r)
  PROVE  /\ req' \in [Requests -> ReqRecord] /\ metrics' \in Counts /\ RefusalsAreErrors'
         /\ \A q \in Requests \ {r} : req'[q] = req[q]
<1> DEFINE x == [req[r] EXCEPT !.pc = "logged"]
           e == IF req[r].status >= 400 THEN 1 ELSE 0
<1>1. x \in ReqRecord /\ x.pc = "logged" /\ req[r].pc = "answered"
  BY DEF TypeOK, ReqRecord, Log
<1>2. req' = [req EXCEPT ![r] = x]
  BY DEF Log, GoOn
<1>. HIDE DEF x
<1>3. /\ req' \in [Requests -> ReqRecord] /\ req'[r] = x
      /\ \A q \in Requests \ {r} : req'[q] = req[q]
  BY <1>1, <1>2 DEF TypeOK, ReqRecord
<1>4. Unlogged' = IF req[r].status >= 400 THEN Unlogged \ {r} ELSE Unlogged
  BY <1>1, <1>3 DEF Unlogged
<1>5. req[r].status >= 400 => r \in Unlogged
  BY <1>1 DEF Unlogged
<1>6. /\ Cardinality(Unlogged') + e = Cardinality(Unlogged)
      /\ Cardinality(Unlogged) \in Nat /\ Cardinality(Unlogged') \in Nat
  <2>1. IsFiniteSet(Unlogged) /\ Cardinality(Unlogged) \in Nat
    BY SubsetsOfRequests DEF Unlogged
  <2>2. CASE req[r].status >= 400
    <3>1. r \in Unlogged /\ Unlogged' = Unlogged \ {r}
      BY <1>4, <1>5, <2>2
    <3>2. IsFiniteSet(Unlogged \ {r}) /\ Cardinality(Unlogged \ {r}) = Cardinality(Unlogged) - 1
      BY <2>1, <3>1, FS_RemoveElement
    <3>3. Cardinality(Unlogged \ {r}) \in Nat
      BY <3>2, FS_CardinalityType
    <3>. QED BY <2>1, <2>2, <3>1, <3>2, <3>3
  <2>3. CASE ~(req[r].status >= 400)
    BY <1>4, <2>1, <2>3
  <2>. QED BY <2>2, <2>3
<1>7. /\ metrics' \in Counts
      /\ metrics'.failures = metrics.failures /\ metrics'.hits = metrics.hits
      /\ metrics'.errors = metrics.errors + e
  <2> DEFINE n == IF req[r].status >= 400 THEN metrics.errors + 1 ELSE metrics.errors
  <2>1. metrics \in Counts
    BY DEF TypeOK, Counts
  <2>2. n \in Nat /\ n = metrics.errors + e
    BY <2>1 DEF Counts
  <2> DEFINE m == [metrics EXCEPT !.requests = @ + 1]
  <2>3. metrics' = [m EXCEPT !.errors = n]
    BY DEF Log, Recorded
  <2>4. /\ m \in Counts /\ m.errors = metrics.errors
        /\ m.failures = metrics.failures /\ m.hits = metrics.hits
    BY <2>1 DEF Counts
  <2>. HIDE DEF n, e, m
  <2>. QED BY <2>2, <2>3, <2>4 DEF Counts
<1>8. /\ metrics.failures + metrics.hits <= metrics.errors + Cardinality(Unlogged)
      /\ metrics.failures \in Nat /\ metrics.hits \in Nat /\ metrics.errors \in Nat /\ e \in {0, 1}
  BY DEF RefusalsAreErrors, Unlogged, TypeOK
<1>. HIDE DEF e
<1>9. metrics'.failures + metrics'.hits <= metrics'.errors + Cardinality(Unlogged')
  BY <1>6, <1>7, <1>8
<1>10. RefusalsAreErrors'
  BY <1>9 DEF RefusalsAreErrors, Unlogged
<1>. QED BY <1>3, <1>7, <1>10

\* An answer that is no refusal counts nothing yet.
LEMMA AnswerCounted ==
  ASSUME TypeOK, RefusalsAreErrors, NEW r \in Requests, req[r].pc # "answered",
         NEW status \in {200, 500}, Answer(r, status), metrics' = metrics
  PROVE  /\ req' \in [Requests -> ReqRecord] /\ metrics' \in Counts /\ RefusalsAreErrors'
         /\ \A q \in Requests \ {r} : req'[q] = req[q]
<1> DEFINE x == [req[r] EXCEPT !.pc = "answered", !.status = status]
           y == [req[r] EXCEPT !.pc = "answered"]
<1>1. y \in ReqRecord /\ y.pc = "answered"
  BY DEF TypeOK, ReqRecord
<1>2. x = [y EXCEPT !.status = status]
  OBVIOUS
<1>3. req' = [req EXCEPT ![r] = x]
  BY DEF Answer
<1>. HIDE DEF y
<1>4. x \in ReqRecord
  <2>. HIDE DEF x
  <2>. QED BY <1>1, <1>2 DEF ReqRecord
<1>. HIDE DEF x
<1>5. req' \in [Requests -> ReqRecord] /\ \A q \in Requests \ {r} : req'[q] = req[q]
  BY <1>3, <1>4 DEF TypeOK, ReqRecord
<1>6. Unlogged \subseteq Unlogged'
  BY <1>5 DEF Unlogged
<1>7. /\ Cardinality(Unlogged) <= Cardinality(Unlogged')
      /\ Cardinality(Unlogged) \in Nat /\ Cardinality(Unlogged') \in Nat
  BY <1>6, Grown, SubsetsOfRequests DEF Unlogged
<1>8. /\ metrics.failures + metrics.hits <= metrics.errors + Cardinality(Unlogged)
      /\ metrics.failures \in Nat /\ metrics.hits \in Nat /\ metrics.errors \in Nat
  BY DEF RefusalsAreErrors, Unlogged, TypeOK
<1>9. metrics.failures + metrics.hits <= metrics.errors + Cardinality(Unlogged')
  BY <1>7, <1>8
<1>10. RefusalsAreErrors'
  BY <1>9 DEF RefusalsAreErrors, Unlogged
<1>. QED BY <1>5, <1>10 DEF TypeOK, Counts

\* A request that takes a step goes on, and waits for nothing else.
LEMMA GoesOn ==
  ASSUME TypeOK, NEW r \in Requests,
         NEW pc \in {"limiting", "authenticating", "handling", "logged"}, GoOn(r, pc)
  PROVE  \E x \in ReqRecord : /\ req' = [req EXCEPT ![r] = x] /\ x.pc = pc
                              /\ req'[r] = x /\ \A q \in Requests \ {r} : req'[q] = req[q]
<1> DEFINE x == [req[r] EXCEPT !.pc = pc]
<1>1. x \in ReqRecord /\ x.pc = pc /\ req' = [req EXCEPT ![r] = x]
  BY DEF TypeOK, ReqRecord, GoOn
<1>. HIDE DEF x
<1>2. req'[r] = x /\ \A q \in Requests \ {r} : req'[q] = req[q]
  BY <1>1 DEF TypeOK, ReqRecord
<1>. QED BY <1>1, <1>2

\* Who waits for the database after a step of r.
LEMMA ChecksOneKey ==
  ASSUME KeysInv, NEW r \in Requests, SelectActive(r) \/ Verify(r)
  PROVE  /\ Waiting(r) /\ \A q \in Requests \ {r} : auth'[q] = auth[q]
         /\ auth'[r].pc \in {"verify", "accepted", "refused", "error"}
<1>1. PICK x : /\ auth' = [auth EXCEPT ![r] = x]
               /\ \/ x = [auth[r] EXCEPT !.pc = "verify", !.seen = rows[auth[r].key]]
                  \/ \E pc \in {"accepted", "refused", "error"} : x = Ended(r, pc)
  <2>1. CASE SelectActive(r)
    BY <2>1, Zenon DEF SelectActive
  <2>2. CASE Verify(r)
    <3> DEFINE ok == auth[r].seen.expires >= now /\ auth[r].seen.secret = auth[r].secret
    <3>1. PICK pc \in {IF ok THEN "accepted" ELSE "refused", "error"} :
            auth' = [auth EXCEPT ![r] = Ended(r, pc)]
      BY <2>2, Zenon DEF Verify
    <3>. HIDE DEF ok
    <3>2. pc \in {"accepted", "refused", "error"}
      BY <3>1
    <3>. QED BY <3>1, <3>2
  <2>. QED BY <2>1, <2>2
<1>2. auth[r] \in AuthRecord /\ auth \in [Requests -> AuthRecord]
  BY DEF KeysInv, KeysTypeOK, AuthRecord
<1>3. x.pc \in {"verify", "accepted", "refused", "error"}
  <2>1. CASE x = [auth[r] EXCEPT !.pc = "verify", !.seen = rows[auth[r].key]]
    BY <1>2, <2>1 DEF AuthRecord
  <2>2. ASSUME NEW pc \in {"accepted", "refused", "error"}, x = Ended(r, pc)
        PROVE  x.pc = pc
    BY <2>2, EndedRecord DEF KeysInv
  <2>. QED BY <1>1, <2>1, <2>2
<1>4. auth'[r] = x /\ \A q \in Requests \ {r} : auth'[q] = auth[q]
  BY <1>1, <1>2
<1>5. Waiting(r)
  BY DEF Waiting, SelectActive, Verify
<1>. QED BY <1>3, <1>4, <1>5

LEMMA PresentsOneKey ==
  ASSUME KeysInv, NEW r \in Requests, NEW k, NEW s, Present(r, k, s)
  PROVE  \A q \in Requests \ {r} : auth'[q] = auth[q]
<1>1. PICK x : auth' = [auth EXCEPT ![r] = x]
  BY Zenon DEF Present
<1>. QED BY <1>1 DEF KeysInv, KeysTypeOK

LEMMA WaitsNoMore ==
  ASSUME KeysInv, KeysCrash, NEW r \in Requests
  PROVE  ~Waiting(r)'
<1>1. auth'[r] = IF Waiting(r) THEN Ended(r, "lost") ELSE auth[r]
  BY DEF KeysCrash, Waiting
<1>2. Ended(r, "lost").pc = "lost"
  BY EndedRecord DEF KeysInv
<1>. QED BY <1>1, <1>2 DEF Waiting

LEMMA DispatchStep ==
  ASSUME TypeOK, LimiterTypeOK', KeysInv, KeysInv', Dispatched, RefusalsAreErrors, [Next]_vars
  PROVE  TypeOK' /\ Dispatched' /\ RefusalsAreErrors'
<1>1. ASSUME req' \in [Requests -> ReqRecord], metrics' \in Counts, crashes' \in 0 .. MaxCrashes,
             RefusalsAreErrors',
             \A q \in Requests : /\ limited'[q].at \in {"incr", "expire"} => req'[q].pc = "limiting"
                                 /\ Waiting(q)' => req'[q].pc = "authenticating"
      PROVE  TypeOK' /\ Dispatched' /\ RefusalsAreErrors'
  BY <1>1 DEF TypeOK, KeysInv, ReqRecord, Counts, Dispatched, Waiting
<1>2. crashes \in 0 .. MaxCrashes /\ req \in [Requests -> ReqRecord] /\ metrics \in Counts
      /\ LimiterTypeOK /\ KeysTypeOK
  BY DEF TypeOK, ReqRecord, Counts
<1>3. CASE UNCHANGED vars
  BY <1>2, <1>3 DEF vars, TypeOK, LimiterTypeOK, KeysInv, Dispatched, Waiting, RefusalsAreErrors
<1>4. ASSUME NEW r \in Requests, NEW kind \in {"open", "login", "key", "token"},
             NEW token \in Expiries \cup {0}, NEW p \in Principals, Receive(r, kind, token, p)
      PROVE  TypeOK' /\ Dispatched' /\ RefusalsAreErrors'
  <2> DEFINE pc == IF kind = "open" THEN "handling" ELSE "limiting"
             x  == [NotReceived EXCEPT !.pc = pc, !.kind = kind, !.token = token]
  <2>1. x \in ReqRecord /\ x.pc = pc
    <3> DEFINE y == [NotReceived EXCEPT !.pc = pc]
               z == [y EXCEPT !.kind = kind]
    <3>1. y \in ReqRecord /\ y.pc = pc
      BY DEF NotReceived, ReqRecord
    <3>2. token \in Nat /\ x = [z EXCEPT !.token = token]
      BY KeysAssumption
    <3>. HIDE DEF y, pc
    <3>3. z \in ReqRecord /\ z.pc = pc
      BY <3>1 DEF ReqRecord
    <3>. HIDE DEF z, x
    <3>. QED BY <3>2, <3>3 DEF ReqRecord
  <2>2. /\ req[r].pc = "new" /\ req' = [req EXCEPT ![r] = x]
        /\ metrics' = metrics /\ crashes' = crashes /\ auth' = auth
    BY <1>4 DEF Receive, keyState
  <2>3. kind = "open" => limited' = limited
    BY <1>4 DEF Receive, limiterState
  <2>4. kind # "open" => \A q \in Requests \ {r} : limited'[q] = limited[q]
    BY <1>2, <1>4, ArriveStep DEF Receive
  <2>. HIDE DEF x
  <2>5. req'[r] = x /\ \A q \in Requests \ {r} : req'[q] = req[q]
    BY <1>2, <2>2
  <2>6. req' \in [Requests -> ReqRecord] /\ metrics' \in Counts /\ RefusalsAreErrors'
    BY <2>1, <2>2, NothingCounted
  <2>7. \A q \in Requests : /\ limited'[q].at \in {"incr", "expire"} => req'[q].pc = "limiting"
                            /\ Waiting(q)' => req'[q].pc = "authenticating"
    BY <2>1, <2>2, <2>3, <2>4, <2>5 DEF Dispatched, Waiting
  <2>. QED BY <1>1, <1>2, <2>2, <2>6, <2>7
<1>5. ASSUME NEW r \in Requests, Count(r)
      PROVE  TypeOK' /\ Dispatched' /\ RefusalsAreErrors'
  <2>1. /\ limited[r].at \in {"incr", "expire"} /\ limited'[r].at \in {"expire", "passed", "refused"}
        /\ \A q \in Requests \ {r} : limited'[q] = limited[q]
    BY <1>2, <1>5, IncrementStep, ExpireStep DEF Count
  <2>2. req[r].pc = "limiting" /\ auth' = auth /\ crashes' = crashes
    BY <1>5, <2>1 DEF Dispatched, Count, keyState
  <2>3. CASE limited'[r].at = "refused"
    <3>1. Answer(r, 429) /\ metrics' = [metrics EXCEPT !.hits = @ + 1]
      BY <1>5, <2>3 DEF Count
    <3>2. /\ req' \in [Requests -> ReqRecord] /\ metrics' \in Counts /\ RefusalsAreErrors'
          /\ \A q \in Requests \ {r} : req'[q] = req[q]
      BY <2>2, <3>1, RefusalCounted
    <3>3. \A q \in Requests : /\ limited'[q].at \in {"incr", "expire"} => req'[q].pc = "limiting"
                              /\ Waiting(q)' => req'[q].pc = "authenticating"
      BY <2>1, <2>2, <2>3, <3>2 DEF Dispatched, Waiting
    <3>. QED BY <1>1, <1>2, <2>2, <3>2, <3>3
  <2>4. CASE limited'[r].at # "refused"
    <3>1. req' = req /\ metrics' = metrics
      BY <1>5, <2>4 DEF Count
    <3>2. RefusalsAreErrors'
      BY <3>1 DEF RefusalsAreErrors
    <3>3. \A q \in Requests : /\ limited'[q].at \in {"incr", "expire"} => req'[q].pc = "limiting"
                              /\ Waiting(q)' => req'[q].pc = "authenticating"
      BY <2>1, <2>2, <3>1 DEF Dispatched, Waiting
    <3>. QED BY <1>1, <1>2, <2>2, <3>1, <3>2, <3>3
  <2>. QED BY <2>3, <2>4
\* A failed authentication, by whoever it is found out.
<1>6. ASSUME NEW r \in Requests, NEW status \in {401, 500}, FailAuthentication(r, status),
             req[r].pc \notin {"answered", "limiting"} \/ limited'[r].at = "passed",
             req[r].pc # "answered", ~Waiting(r)', limited' = limited, crashes' = crashes,
             \A q \in Requests \ {r} : auth'[q] = auth[q]
      PROVE  TypeOK' /\ Dispatched' /\ RefusalsAreErrors'
  <2>1. /\ req' \in [Requests -> ReqRecord] /\ metrics' \in Counts /\ RefusalsAreErrors'
        /\ \A q \in Requests \ {r} : req'[q] = req[q]
    BY <1>6, RefusalCounted DEF FailAuthentication
  <2>2. \A q \in Requests : /\ limited'[q].at \in {"incr", "expire"} => req'[q].pc = "limiting"
                            /\ Waiting(q)' => req'[q].pc = "authenticating"
    BY <1>6, <2>1 DEF Dispatched, Waiting
  <2>. QED BY <1>1, <1>2, <1>6, <2>1, <2>2
\* A request that goes on.
<1>7. ASSUME NEW r \in Requests, NEW pc \in {"authenticating", "handling"}, GoOn(r, pc),
             metrics' = metrics, crashes' = crashes, limited' = limited,
             req[r].pc # "answered", limited[r].at \notin {"incr", "expire"},
             Waiting(r)' => pc = "authenticating",
             \A q \in Requests \ {r} : auth'[q] = auth[q]
      PROVE  TypeOK' /\ Dispatched' /\ RefusalsAreErrors'
  <2>1. PICK x \in ReqRecord : /\ req' = [req EXCEPT ![r] = x] /\ x.pc = pc
                               /\ req'[r] = x /\ \A q \in Requests \ {r} : req'[q] = req[q]
    BY <1>7, GoesOn
  <2>2. req' \in [Requests -> ReqRecord] /\ metrics' \in Counts /\ RefusalsAreErrors'
    BY <1>7, <2>1, NothingCounted
  <2>3. \A q \in Requests : /\ limited'[q].at \in {"incr", "expire"} => req'[q].pc = "limiting"
                            /\ Waiting(q)' => req'[q].pc = "authenticating"
    BY <1>7, <2>1 DEF Dispatched, Waiting
  <2>. QED BY <1>1, <1>2, <1>7, <2>2, <2>3
<1>8. ASSUME NEW r \in Requests, Authenticate(r)
      PROVE  TypeOK' /\ Dispatched' /\ RefusalsAreErrors'
  <2>1. /\ req[r].pc = "limiting" /\ limited[r].at = "passed" /\ limited' = limited
        /\ crashes' = crashes /\ ~Waiting(r)
    BY <1>8 DEF Authenticate, limiterState, Dispatched
  <2>2. CASE GoOn(r, "handling") /\ UNCHANGED <<keyState, metrics>>
    BY <1>7, <2>1, <2>2 DEF keyState, Waiting
  <2>3. CASE FailAuthentication(r, 401) /\ UNCHANGED keyState
    BY <1>6, <2>1, <2>3 DEF keyState, Waiting
  <2>4. ASSUME NEW k, NEW s, Present(r, k, s), GoOn(r, "authenticating"), metrics' = metrics
        PROVE  TypeOK' /\ Dispatched' /\ RefusalsAreErrors'
    <3>1. \A q \in Requests \ {r} : auth'[q] = auth[q]
      BY <2>4, PresentsOneKey
    <3>. QED BY <1>7, <2>1, <2>4, <3>1
  <2>. QED BY <1>8, <2>2, <2>3, <2>4 DEF Authenticate
<1>9. ASSUME NEW r \in Requests, CheckKey(r)
      PROVE  TypeOK' /\ Dispatched' /\ RefusalsAreErrors'
  <2>1. /\ Waiting(r) /\ auth'[r].pc \in {"verify", "accepted", "refused", "error"}
        /\ \A q \in Requests \ {r} : auth'[q] = auth[q]
    BY <1>9, ChecksOneKey DEF CheckKey
  <2>2. /\ limited' = limited /\ crashes' = crashes /\ req[r].pc = "authenticating"
        /\ limited[r].at \notin {"incr", "expire"}
    BY <1>9, <2>1 DEF CheckKey, limiterState, Dispatched
  <2>3. CASE auth'[r].pc = "verify"
    <3>1. req' = req /\ metrics' = metrics
      BY <1>9, <2>3 DEF CheckKey
    <3>2. RefusalsAreErrors'
      BY <3>1 DEF RefusalsAreErrors
    <3>3. \A q \in Requests : /\ limited'[q].at \in {"incr", "expire"} => req'[q].pc = "limiting"
                              /\ Waiting(q)' => req'[q].pc = "authenticating"
      BY <2>1, <2>2, <3>1 DEF Dispatched, Waiting
    <3>. QED BY <1>1, <1>2, <2>2, <3>1, <3>2, <3>3
  <2>4. CASE auth'[r].pc = "accepted"
    BY <1>7, <1>9, <2>1, <2>2, <2>4 DEF CheckKey, Waiting
  <2>5. CASE auth'[r].pc = "refused"
    BY <1>6, <1>9, <2>1, <2>2, <2>5 DEF CheckKey, Waiting
  <2>6. CASE auth'[r].pc = "error"
    BY <1>6, <1>9, <2>1, <2>2, <2>6 DEF CheckKey, Waiting
  <2>. QED BY <2>1, <2>3, <2>4, <2>5, <2>6
<1>10. ASSUME NEW r \in Requests, Handle(r)
       PROVE  TypeOK' /\ Dispatched' /\ RefusalsAreErrors'
  <2>1. /\ req[r].pc = "handling" /\ limited' = limited /\ auth' = auth /\ crashes' = crashes
        /\ ~Waiting(r) /\ limited[r].at \notin {"incr", "expire"}
    BY <1>10 DEF Handle, limiterState, keyState, Dispatched
  <2>2. CASE FailAuthentication(r, 401)
    BY <1>6, <2>1, <2>2 DEF Waiting
  <2>3. ASSUME NEW status \in {200, 500}, Answer(r, status), metrics' = metrics
        PROVE  TypeOK' /\ Dispatched' /\ RefusalsAreErrors'
    <3>1. /\ req' \in [Requests -> ReqRecord] /\ metrics' \in Counts /\ RefusalsAreErrors'
          /\ \A q \in Requests \ {r} : req'[q] = req[q]
      BY <2>1, <2>3, AnswerCounted
    <3>2. \A q \in Requests : /\ limited'[q].at \in {"incr", "expire"} => req'[q].pc = "limiting"
                              /\ Waiting(q)' => req'[q].pc = "authenticating"
      BY <2>1, <3>1 DEF Dispatched, Waiting
    <3>. QED BY <1>1, <1>2, <2>1, <3>1, <3>2
  <2>. QED BY <1>10, <2>2, <2>3 DEF Handle
<1>11. ASSUME NEW r \in Requests, Log(r)
       PROVE  TypeOK' /\ Dispatched' /\ RefusalsAreErrors'
  <2>1. /\ req' \in [Requests -> ReqRecord] /\ metrics' \in Counts /\ RefusalsAreErrors'
        /\ \A q \in Requests \ {r} : req'[q] = req[q]
    BY <1>11, LogStep
  <2>2. /\ req[r].pc = "answered" /\ limited' = limited /\ auth' = auth /\ crashes' = crashes
    BY <1>11 DEF Log, limiterState, keyState
  <2>3. \A q \in Requests : /\ limited'[q].at \in {"incr", "expire"} => req'[q].pc = "limiting"
                            /\ Waiting(q)' => req'[q].pc = "authenticating"
    BY <2>1, <2>2 DEF Dispatched, Waiting
  <2>. QED BY <1>1, <1>2, <2>1, <2>2, <2>3
<1>12. CASE KeyCalls
  <2>1. /\ auth' = auth /\ limited' = limited /\ req' = req /\ metrics' = metrics /\ crashes' = crashes
    BY <1>12 DEF KeyCalls, Create, Select, Deactivate, Regenerate, FailOp, TouchSelect, Touch,
                 limiterState, gatewayVars
  <2>. QED BY <1>1, <1>2, <2>1 DEF Dispatched, Waiting, RefusalsAreErrors
<1>13. CASE TimePasses
  <2>1. /\ auth' = auth /\ limited' = limited /\ req' = req /\ metrics' = metrics /\ crashes' = crashes
    BY <1>13 DEF TimePasses, PassTime, keyState, gatewayVars
  <2>. QED BY <1>1, <1>2, <2>1 DEF Dispatched, Waiting, RefusalsAreErrors
<1>14. CASE Crash
  <2>1. /\ crashes' \in 0 .. MaxCrashes /\ metrics' = NoMetrics
        /\ req' = [r \in Requests |-> IF req[r].pc \in {"new", "logged"} THEN req[r]
                                      ELSE [req[r] EXCEPT !.pc = "lost"]]
    BY <1>2, <1>14, GatewayAssumption DEF Crash
  <2>2. req' \in [Requests -> ReqRecord] /\ \A r \in Requests : req'[r].pc # "answered"
    BY <1>2, <2>1 DEF ReqRecord
  <2>3. \A r \in Requests : limited'[r].at \notin {"incr", "expire"}
    BY <1>2, <1>14, LimiterCrashStep DEF Crash
  <2>4. \A r \in Requests : ~Waiting(r)'
    BY <1>14, WaitsNoMore DEF Crash
  <2>5. RefusalsAreErrors' /\ metrics' \in Counts
    <3>1. Cardinality(Unlogged') \in Nat
      BY SubsetsOfRequests DEF Unlogged
    <3>. QED BY <2>1, <3>1 DEF RefusalsAreErrors, Unlogged, NoMetrics, Counts
  <2>. QED BY <1>1, <2>1, <2>2, <2>3, <2>4, <2>5
<1>. QED BY <1>3, <1>4, <1>5, <1>8, <1>9, <1>10, <1>11, <1>12, <1>13, <1>14 DEF Next

LEMMA GatewayTypes == Spec => [](TypeOK /\ KeysInv /\ Dispatched /\ RefusalsAreErrors)
<1>1. Init => TypeOK /\ KeysInv /\ Dispatched /\ RefusalsAreErrors
  <2> SUFFICES ASSUME Init PROVE TypeOK /\ KeysInv /\ Dispatched /\ RefusalsAreErrors
    OBVIOUS
  <2>1. LimiterTypeOK /\ KeysInv
    BY LimiterInitially, KeysInitially DEF Init
  <2>2. req = [r \in Requests |-> NotReceived] /\ metrics = NoMetrics /\ crashes = 0
    BY DEF Init
  <2>3. NotReceived \in ReqRecord /\ NotReceived.pc = "new" /\ NoMetrics \in Counts
    BY DEF NotReceived, ReqRecord, NoMetrics, Counts
  <2>4. TypeOK
    BY <2>1, <2>2, <2>3, GatewayAssumption DEF TypeOK, KeysInv, ReqRecord, Counts
  <2>5. Dispatched
    BY Records DEF Init, LimiterInit, KeysInit, Dispatched, Waiting, NotStarted
  <2>6. Cardinality(Unlogged) \in Nat
    BY SubsetsOfRequests DEF Unlogged
  <2>7. RefusalsAreErrors
    BY <2>2, <2>6 DEF RefusalsAreErrors, Unlogged, NoMetrics
  <2>. QED BY <2>1, <2>4, <2>5, <2>7
<1>2. /\ TypeOK /\ LimiterTypeOK' /\ KeysInv /\ KeysInv' /\ Dispatched /\ RefusalsAreErrors /\ [Next]_vars
      => TypeOK' /\ Dispatched' /\ RefusalsAreErrors'
  BY DispatchStep
<1>3. KeysInv /\ [KeysNext]_keyVars => KeysInv'
  BY KeysStep
<1>. QED BY <1>1, <1>2, <1>3, KeysSteps, LimiterTypes, GatewayComposes, PTL DEF Spec

\* In every state of the gateway the authentication failures and the requests over the limit
\* are among the errors that are logged or about to be.
THEOREM RefusalsAlwaysErrors == Spec => []RefusalsAreErrors
BY GatewayTypes, PTL

\* The variables of the gateway, and of its components, keep their types.
THEOREM GatewayTypeCorrect == Spec => []TypeOK
BY GatewayTypes, PTL

=============================================================================
