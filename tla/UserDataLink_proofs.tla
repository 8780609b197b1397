------------------------ MODULE UserDataLink_proofs ------------------------
(***************************************************************************)
(* The listen key stays valid and the stream reconnects in time, for every *)
(* keepalive interval that is shorter than the validity of the key.        *)
(***************************************************************************)
EXTENDS UserDataLink, TLAPS

\* While the last request for the key was answered, the key is no older than the
\* keepalive loop's sleep, and that sleep is no longer than its interval: a reconnection
\* may make the key younger than the sleep, never older.
KeyInv ==
  /\ TypeOK
  /\ idle <= KeepaliveInterval
  /\ pc = "off" => failed
  /\ pc # "new" /\ ~failed => age <= idle

\* A unit begins with the exchange in reach and the stream down only during a sleep, and
\* no sleep sees two begin: neither a connection that is being made nor one that is open
\* goes back to sleep before the count is back to zero.
OutageInv ==
  /\ delay <= MaxDelay
  /\ outage <= 1
  /\ ~reach => outage = 0
  /\ pc = "streaming" => outage = 0
  /\ pc = "sleeping" => outage <= slept

LEMMA LinkInit == Init => KeyInv /\ OutageInv
<1> SUFFICES ASSUME Init PROVE KeyInv /\ OutageInv
  OBVIOUS
<1>1. reach \in BOOLEAN /\ failed \in BOOLEAN
  BY Zenon DEF Init
<1>2. KeepaliveInterval \in Nat \ {0} /\ KeyValidity \in Nat
  BY LinkAssumption
<1>3. /\ delay = 5 /\ slept = 0 /\ idle = 0 /\ outage = 0 /\ age = KeyValidity /\ pc = "new"
  BY DEF Init, BaseDelay
<1>4. KeyInv
  BY <1>1, <1>2, <1>3 DEF KeyInv, TypeOK
<1>5. OutageInv
  BY <1>3 DEF OutageInv, MaxDelay
<1>. QED BY <1>4, <1>5

\* The request leaves a key of age 0, or a failure.
LEMMA KeyRequested ==
  ASSUME KeyInv, KeyRequest
  PROVE  age' \in 0 .. KeyValidity /\ failed' \in BOOLEAN /\ (~failed' => age' = 0)
<1>1. failed' = ~reach /\ age' = IF reach THEN 0 ELSE age
  BY DEF KeyRequest
<1>2. failed' \in BOOLEAN
  BY <1>1, Zenon
<1>3. age \in 0 .. KeyValidity /\ KeyValidity \in Nat
  BY LinkAssumption DEF KeyInv, TypeOK
<1>4. CASE reach
  BY <1>1, <1>2, <1>3, <1>4
<1>5. CASE ~reach
  <2>1. failed' /\ age' = age
    BY <1>1, <1>5
  <2>. QED BY <1>2, <1>3, <2>1
<1>. QED BY <1>4, <1>5

LEMMA KeyStep ==
  ASSUME KeyInv, [Next]_vars
  PROVE  KeyInv'
<1>1. /\ idle \in Nat /\ age \in 0 .. KeyValidity /\ KeyValidity \in Nat
      /\ KeepaliveInterval \in Nat \ {0} /\ delay \in Nat \ {0} /\ slept \in Nat
  BY LinkAssumption DEF KeyInv, TypeOK
<1>2. CASE Start
  <2>1. /\ age' \in 0 .. KeyValidity /\ failed' \in BOOLEAN /\ (~failed' => age' = 0)
        /\ UNCHANGED <<reach, delay, slept, idle, outage>>
        /\ pc' = IF reach THEN "connecting" ELSE "off"
    BY <1>2, KeyRequested DEF Start
  <2>2. failed' = ~reach
    BY <1>2 DEF Start, KeyRequest
  <2>3. pc' \in {"connecting", "off"} /\ (pc' = "off" => failed')
    BY <2>1, <2>2
  <2>. QED BY <1>1, <2>1, <2>3 DEF KeyInv, TypeOK
<1>3. CASE Connect
  BY <1>3 DEF Connect, KeyInv, TypeOK
<1>4. CASE Disconnect
  BY <1>4 DEF Disconnect, KeyInv, TypeOK, BaseDelay
<1>5. CASE Wake
  <2>1. delay' \in Nat \ {0}
    BY <1>1, <1>5 DEF Wake, MaxDelay
  <2>. QED BY <1>5, <2>1 DEF Wake, Slept, KeyInv, TypeOK
<1>6. CASE Refresh
  BY <1>1, <1>6, KeyRequested DEF Refresh, KeyInv, TypeOK
<1>7. CASE Keepalive
  <2>1. /\ pc \notin {"new", "off"} /\ idle' = 0 /\ KeyRequest
        /\ UNCHANGED <<reach, pc, delay, slept, outage>>
    BY <1>7 DEF Keepalive, Due
  <2>. QED BY <1>1, <2>1, KeyRequested DEF KeyInv, TypeOK
<1>8. CASE Reach
  BY <1>8 DEF Reach, KeyInv, TypeOK
<1>9. CASE Tick
  <2>1. UNCHANGED <<reach, pc, delay, failed>> /\ pc # "new"
    BY <1>9 DEF Tick
  <2>2. slept' \in Nat /\ outage' \in Nat
    BY <1>1, <1>9 DEF Tick, KeyInv, TypeOK
  <2>3. age' \in 0 .. KeyValidity /\ age' <= age + 1
    BY <1>1, <1>9 DEF Tick, Lapsed
  <2>4. CASE pc = "off"
    BY <1>9, <2>1, <2>2, <2>3, <2>4 DEF Tick, KeyInv, TypeOK
  <2>5. CASE pc # "off"
    <3>1. idle' = idle + 1 /\ idle # KeepaliveInterval
      BY <1>9, <2>1, <2>5 DEF Tick, Due
    <3>2. idle' \in Nat /\ idle' <= KeepaliveInterval
      BY <1>1, <3>1 DEF KeyInv
    <3>3. ~failed => age' <= idle'
      BY <1>1, <2>1, <2>3, <3>1 DEF KeyInv
    <3>. QED BY <2>1, <2>2, <2>3, <2>5, <3>2, <3>3 DEF KeyInv, TypeOK
  <2>. QED BY <2>4, <2>5
<1>10. CASE UNCHANGED vars
  BY <1>10 DEF vars, KeyInv, TypeOK
<1>. QED BY <1>2, <1>3, <1>4, <1>5, <1>6, <1>7, <1>8, <1>9, <1>10 DEF Next

LEMMA OutageStep ==
  ASSUME TypeOK, OutageInv, [Next]_vars
  PROVE  OutageInv'
<1>1. delay \in Nat /\ slept \in Nat /\ outage \in Nat
  BY DEF TypeOK
<1>2. CASE Start \/ Refresh
  BY <1>2 DEF Start, Refresh, OutageInv
<1>3. CASE Connect
  BY <1>3 DEF Connect, OutageInv
<1>4. CASE Disconnect
  BY <1>1, <1>4 DEF Disconnect, OutageInv, BaseDelay, MaxDelay
<1>5. CASE Wake
  BY <1>1, <1>5 DEF Wake, Slept, OutageInv, MaxDelay
<1>6. CASE Keepalive
  BY <1>6 DEF Keepalive, OutageInv
<1>7. CASE Reach
  BY <1>1, <1>7 DEF Reach, OutageInv
<1>8. CASE Tick
  <2>1. UNCHANGED <<reach, pc, delay>> /\ pc \in {"off", "streaming", "sleeping"}
    BY <1>8 DEF Tick, TypeOK
  <2>2. CASE pc = "sleeping"
    <3>1. slept * 300 < delay /\ slept' = slept + 1
      BY <1>8, <2>2 DEF Tick, Unit
    <3>2. slept = 0
      BY <1>1, <3>1 DEF OutageInv, MaxDelay
    <3>3. outage = 0
      BY <1>1, <2>2, <3>2 DEF OutageInv
    <3>4. outage' = IF reach THEN 1 ELSE 0
      BY <1>8, <2>2, <3>3 DEF Tick, MaxOutage
    <3>. QED BY <2>1, <2>2, <3>1, <3>2, <3>4 DEF OutageInv
  <2>3. CASE pc # "sleeping"
    <3>1. outage' = outage
      BY <1>8, <2>1, <2>3 DEF Tick
    <3>. QED BY <2>1, <2>3, <3>1 DEF OutageInv
  <2>. QED BY <2>2, <2>3
<1>9. CASE UNCHANGED vars
  BY <1>9 DEF vars, OutageInv
<1>. QED BY <1>2, <1>3, <1>4, <1>5, <1>6, <1>7, <1>8, <1>9 DEF Next

\* The variables keep their types.
THEOREM LinkTypeCorrect == Spec => []TypeOK
<1>1. KeyInv => TypeOK
  BY DEF KeyInv
<1>. QED BY <1>1, LinkInit, KeyStep, PTL DEF Spec

\* However the keepalive loop, the reconnections and the exchange's outages interleave,
\* an open stream has a valid key unless the last request for it failed.
THEOREM AlwaysValidWhileStreaming == Spec => []ValidWhileStreaming
<1>1. KeyInv => ValidWhileStreaming
  BY LinkAssumption DEF KeyInv, TypeOK, ValidWhileStreaming, Lapsed
<1>. QED BY <1>1, LinkInit, KeyStep, PTL DEF Spec

\* No outage, however long, lets the delay grow so far that a second unit of time begins
\* with the exchange in reach and the stream down.
THEOREM AlwaysReconnectsSoon == Spec => []ReconnectsSoon
<1>1. OutageInv => ReconnectsSoon
  BY DEF OutageInv, ReconnectsSoon
<1>2. KeyInv => TypeOK
  BY DEF KeyInv
<1>. QED BY <1>1, <1>2, LinkInit, KeyStep, OutageStep, PTL DEF Spec
=============================================================================
