-------------------------- MODULE AuditChain_proofs --------------------------
(***************************************************************************)
(* The audit log stays one chain, for every set of events, any number of   *)
(* legacy rows and of restarts.                                            *)
(***************************************************************************)
EXTENDS AuditChain, SequenceTheorems, TLAPS

\* No task is queued twice, and one that has read the newest hash holds the lock,
\* so that hash is still the newest.
LockInv ==
  /\ \A i, j \in 1..Len(queue) : queue[i] = queue[j] => i = j
  /\ \A e \in Events : task[e] = "read" =>
       queue # <<>> /\ queue[1] = e /\ prev[e] = NewestHash

Inv == TypeOK /\ LockInv /\ Len(log) >= Legacy /\ ChainLinked

LEMMA Members ==
  ASSUME NEW s \in Seq(Events), NEW e
  PROVE  e \in ToSet(s) <=> \E i \in 1..Len(s) : s[i] = e
BY DEF ToSet

LEMMA QueueAppend ==
  ASSUME NEW s \in Seq(Events), NEW e \in Events, e \notin ToSet(s),
         \A i, j \in 1..Len(s) : s[i] = s[j] => i = j
  PROVE  /\ Append(s, e) \in Seq(Events)
         /\ \A x : x \in ToSet(Append(s, e)) <=> x \in ToSet(s) \/ x = e
         /\ \A i, j \in 1..Len(Append(s, e)) : Append(s, e)[i] = Append(s, e)[j] => i = j
         /\ s # <<>> => Append(s, e)[1] = s[1]
<1> DEFINE t == Append(s, e)
<1>1. /\ t \in Seq(Events) /\ Len(t) = Len(s) + 1 /\ t[Len(t)] = e
      /\ \A i \in 1..Len(s) : t[i] = s[i]
  OBVIOUS
<1>2. s # <<>> => Len(s) >= 1
  OBVIOUS
<1>. HIDE DEF t
<1>3. \A x : x \in ToSet(t) <=> x \in ToSet(s) \/ x = e
  <2>1. Len(s) \in Nat
    OBVIOUS
  <2>2. \A i \in 1..Len(t) : i \in 1..Len(s) \/ i = Len(t)
    BY <1>1, <2>1
  <2>3. Len(t) \in 1..Len(t) /\ \A i \in 1..Len(s) : i \in 1..Len(t)
    BY <1>1, <2>1
  <2>. QED BY <1>1, <2>2, <2>3, Members
<1>4. \A i, j \in 1..Len(t) : t[i] = t[j] => i = j
  <2>1. \A i \in 1..Len(s) : s[i] # e
    BY Members
  <2>. QED BY <1>1, <2>1
<1>. QED BY <1>1, <1>2, <1>3, <1>4 DEF t

LEMMA QueueTail ==
  ASSUME NEW s \in Seq(Events), s # <<>>,
         \A i, j \in 1..Len(s) : s[i] = s[j] => i = j
  PROVE  /\ Head(s) = s[1] /\ s[1] \in ToSet(s) /\ Tail(s) \in Seq(Events)
         /\ \A x : x \in ToSet(Tail(s)) <=> x \in ToSet(s) /\ x # s[1]
         /\ \A i, j \in 1..Len(Tail(s)) : Tail(s)[i] = Tail(s)[j] => i = j
<1> DEFINE t == Tail(s)
<1>1. /\ t \in Seq(Events) /\ Len(t) = Len(s) - 1 /\ Len(s) \in Nat /\ Len(s) >= 1
      /\ \A i \in 1..Len(t) : t[i] = s[i + 1]
      /\ Head(s) = s[1]
  OBVIOUS
<1>. HIDE DEF t
<1>2. \A x : x \in ToSet(t) <=> x \in ToSet(s) /\ x # s[1]
  <2>1. \A i \in 1..Len(t) : i + 1 \in 1..Len(s) /\ s[i + 1] # s[1]
    BY <1>1
  <2>2. \A i \in 1..Len(s) : i = 1 \/ (i - 1 \in 1..Len(t) /\ t[i - 1] = s[i])
    BY <1>1
  <2>3. ASSUME NEW x, x \in ToSet(t) PROVE x \in ToSet(s) /\ x # s[1]
    <3>1. PICK i \in 1..Len(t) : t[i] = x
      BY <1>1, <2>3, Members
    <3>. QED BY <1>1, <2>1, <3>1, Members
  <2>4. ASSUME NEW x, x \in ToSet(s), x # s[1] PROVE x \in ToSet(t)
    <3>1. PICK i \in 1..Len(s) : s[i] = x
      BY <2>4, Members
    <3>. QED BY <1>1, <2>2, <2>4, <3>1, Members
  <2>. QED BY <2>3, <2>4
<1>3. \A i, j \in 1..Len(t) : t[i] = t[j] => i = j
  BY <1>1
<1>4. s[1] \in ToSet(s)
  BY <1>1, Members
<1>. QED BY <1>1, <1>2, <1>3, <1>4 DEF t

\* A row linked to the newest one keeps the table a chain.
LEMMA RowKeepsChain ==
  ASSUME Inv, NEW e \in Events, prev[e] = NewestHash, log' = Append(log, Row(e)),
         Legacy \in Nat
  PROVE  log' \in Seq(RowType) /\ Len(log') >= Legacy /\ ChainLinked'
<1>1. prev[e] \in Seq(Events) /\ log \in Seq(RowType)
  BY DEF Inv, TypeOK
<1>2. Row(e) \in RowType
  BY <1>1 DEF Row, RowType, ComputeRowHash
<1>3. /\ Len(log') = Len(log) + 1 /\ Len(log) \in Nat /\ log'[Len(log')] = Row(e)
      /\ \A i \in 1..Len(log) : log'[i] = log[i]
      /\ log' \in Seq(RowType)
  BY <1>1, <1>2
<1>4. Row(e).event = e /\ Row(e).prev = prev[e] /\ Row(e).hash = ComputeRowHash(e, prev[e])
  BY DEF Row
<1>5. log = <<>> <=> Len(log) = 0
  BY <1>1
<1>6. ASSUME NEW i \in Legacy + 1 .. Len(log')
      PROVE  /\ log'[i].prev = (IF i = 1 THEN Null ELSE log'[i - 1].hash)
             /\ log'[i].hash = ComputeRowHash(log'[i].event, log'[i].prev)
  <2>1. CASE i \in 1..Len(log)
    <3>1. i = 1 \/ i - 1 \in 1..Len(log)
      BY <1>3, <2>1
    <3>2. i \in Legacy + 1 .. Len(log)
      BY <1>3, <2>1
    <3>. QED BY <1>3, <2>1, <3>1, <3>2 DEF Inv, ChainLinked
  <2>2. CASE i = Len(log')
    <3>1. CASE i = 1
      BY <1>3, <1>4, <1>5, <2>2, <3>1 DEF NewestHash
    <3>2. CASE i # 1
      <4>1. i - 1 = Len(log) /\ log # <<>> /\ Len(log) \in 1..Len(log)
        BY <1>3, <1>5, <2>2, <3>2
      <4>. QED BY <1>3, <1>4, <2>2, <3>2, <4>1 DEF NewestHash
    <3>. QED BY <3>1, <3>2
  <2>. QED BY <1>3, <2>1, <2>2
<1>. QED BY <1>3, <1>6 DEF Inv, ChainLinked

LEMMA AuditInit == Init => Inv
<1> SUFFICES ASSUME Init PROVE Inv
  OBVIOUS
<1>1. log \in Seq(RowType) /\ Len(log) = Legacy
  <2>1. LegacyRow \in RowType
    BY DEF LegacyRow, RowType, Null
  <2>. QED BY <2>1, AuditAssumption DEF Init
<1>2. TypeOK
  <2>1. emitted \in Seq(Events) /\ queue \in Seq(Events) /\ ToSet(queue) = {}
        /\ prev \in [Events -> Seq(Events)]
    BY DEF Init, Null, ToSet
  <2>. QED BY <1>1, <2>1, AuditAssumption DEF Init, TypeOK
<1>3. LockInv
  BY DEF Init, LockInv
<1>4. ChainLinked
  BY <1>1, AuditAssumption DEF ChainLinked
<1>. QED BY <1>1, <1>2, <1>3, <1>4, AuditAssumption DEF Inv

\* The task at the head of the queue ends: nobody else has read a hash.
LEMMA Dequeue ==
  ASSUME Inv, NEW e \in Events, HasLock(e), NEW end \in {"written", "lost"},
         task' = [task EXCEPT ![e] = end], queue' = Tail(queue), UNCHANGED prev
  PROVE  /\ task' \in [Events -> {"idle", "acted", "waiting", "read", "written", "lost"}]
         /\ queue' \in Seq(Events)
         /\ \A x \in Events : task'[x] \in {"waiting", "read"} <=> x \in ToSet(queue')
         /\ LockInv'
<1>1. queue \in Seq(Events) /\ queue # <<>> /\ queue[1] = e
  BY DEF HasLock, Inv, TypeOK
<1>2. /\ queue' \in Seq(Events)
      /\ \A x : x \in ToSet(queue') <=> x \in ToSet(queue) /\ x # e
      /\ \A i, j \in 1..Len(queue') : queue'[i] = queue'[j] => i = j
  BY <1>1, QueueTail DEF Inv, LockInv
<1>3. /\ task' \in [Events -> {"idle", "acted", "waiting", "read", "written", "lost"}]
      /\ \A x \in Events : task'[x] = IF x = e THEN end ELSE task[x]
  BY DEF Inv, TypeOK
<1>4. \A x \in Events : task'[x] # "read"
  BY <1>1, <1>3 DEF Inv, LockInv
<1>. QED BY <1>2, <1>3, <1>4 DEF Inv, TypeOK, LockInv

LEMMA AuditStep ==
  ASSUME Inv, [Next]_vars
  PROVE  Inv'
<1>1. ASSUME NEW e \in Events, Act(e) PROVE Inv'
  <2>1. UNCHANGED <<emitted, queue, prev, log, crashes>>
    BY <1>1 DEF Act
  <2>2. /\ task' \in [Events -> {"idle", "acted", "waiting", "read", "written", "lost"}]
        /\ \A x \in Events : task'[x] = IF x = e THEN "acted" ELSE task[x]
    BY <1>1 DEF Act, Inv, TypeOK
  <2>3. e \notin ToSet(queue)
    BY <1>1 DEF Act, Inv, TypeOK
  <2>. QED BY <2>1, <2>2, <2>3 DEF Inv, TypeOK, LockInv, ChainLinked, NewestHash
<1>2. ASSUME NEW e \in Events, Emit(e) PROVE Inv'
  <2>1. UNCHANGED <<prev, log, crashes>> /\ queue' = Append(queue, e)
        /\ emitted' \in Seq(Events)
    BY <1>2 DEF Emit, Inv, TypeOK
  <2>2. /\ task' \in [Events -> {"idle", "acted", "waiting", "read", "written", "lost"}]
        /\ \A x \in Events : task'[x] = IF x = e THEN "waiting" ELSE task[x]
    BY <1>2 DEF Emit, Inv, TypeOK
  <2>3. queue \in Seq(Events) /\ e \notin ToSet(queue)
    BY <1>2 DEF Emit, Inv, TypeOK
  <2>4. /\ queue' \in Seq(Events)
        /\ \A x : x \in ToSet(queue') <=> x \in ToSet(queue) \/ x = e
        /\ \A i, j \in 1..Len(queue') : queue'[i] = queue'[j] => i = j
        /\ queue # <<>> => queue'[1] = queue[1]
    BY <2>1, <2>3, QueueAppend DEF Inv, LockInv
  <2>5. queue' # <<>>
    BY <2>1, <2>3
  <2>. QED BY <2>1, <2>2, <2>4, <2>5 DEF Inv, TypeOK, LockInv, ChainLinked, NewestHash
<1>3. ASSUME NEW e \in Events, Read(e) PROVE Inv'
  <2>1. UNCHANGED <<emitted, queue, log, crashes>> /\ queue # <<>> /\ queue[1] = e
    BY <1>3 DEF Read, HasLock, Inv, TypeOK
  <2>2. /\ task' \in [Events -> {"idle", "acted", "waiting", "read", "written", "lost"}]
        /\ \A x \in Events : task'[x] = IF x = e THEN "read" ELSE task[x]
    BY <1>3 DEF Read, Inv, TypeOK
  <2>3. NewestHash \in Seq(Events)
    <3>1. log \in Seq(RowType) /\ <<>> \in Seq(Events)
      BY DEF Inv, TypeOK
    <3>2. log # <<>> => log[Len(log)] \in RowType
      BY <3>1
    <3>. QED BY <3>1, <3>2 DEF NewestHash, Null, RowType
  <2>4. prev' \in [Events -> Seq(Events)] /\ prev'[e] = NewestHash
        /\ \A x \in Events : x # e => prev'[x] = prev[x]
    BY <1>3, <2>3 DEF Read, Inv, TypeOK
  <2>5. e \in ToSet(queue)
    BY <1>3 DEF Read, Inv, TypeOK
  <2>. QED BY <2>1, <2>2, <2>4, <2>5 DEF Inv, TypeOK, LockInv, ChainLinked, NewestHash
<1>4. ASSUME NEW e \in Events, Write(e) PROVE Inv'
  <2>1. HasLock(e) /\ prev[e] = NewestHash
    BY <1>4 DEF Write, Inv, LockInv, HasLock, TypeOK
  <2>2. log' \in Seq(RowType) /\ Len(log') >= Legacy /\ ChainLinked'
    BY <1>4, <2>1, RowKeepsChain, AuditAssumption DEF Write
  <2>. QED BY <1>4, <2>1, <2>2, Dequeue DEF Write, Inv, TypeOK
<1>5. ASSUME NEW e \in Events, Fail(e) PROVE Inv'
  <2>1. log' \in Seq(RowType) /\ Len(log') >= Legacy /\ ChainLinked'
    <3>1. CASE log' = log
      BY <3>1 DEF Inv, TypeOK, ChainLinked
    <3>2. CASE task[e] = "read" /\ log' = Append(log, Row(e))
      BY <3>2, RowKeepsChain, AuditAssumption DEF Inv, LockInv
    <3>. QED BY <1>5, <3>1, <3>2 DEF Fail
  <2>. QED BY <1>5, <2>1, Dequeue DEF Fail, Inv, TypeOK
<1>6. CASE Crash
  <2>1. log' \in Seq(RowType) /\ Len(log') >= Legacy /\ ChainLinked'
    <3>1. CASE log' = log
      BY <3>1 DEF Inv, TypeOK, ChainLinked
    <3>2. ASSUME NEW e \in Events, task[e] = "read", log' = Append(log, Row(e))
          PROVE  log' \in Seq(RowType) /\ Len(log') >= Legacy /\ ChainLinked'
      BY <3>2, RowKeepsChain, AuditAssumption DEF Inv, LockInv
    <3>. QED BY <1>6, <3>1, <3>2 DEF Crash
  <2>2. queue' = <<>> /\ queue' \in Seq(Events) /\ ToSet(queue') = {}
        /\ emitted' = emitted /\ prev' = prev /\ crashes' \in Nat
    <3>1. queue' = <<>> /\ emitted' = emitted /\ prev' = prev /\ crashes' \in Nat
      BY <1>6 DEF Crash, Inv, TypeOK
    <3>2. <<>> \in Seq(Events) /\ ToSet(<<>>) = {}
      BY DEF ToSet
    <3>. QED BY <3>1, <3>2
  <2>3. /\ task' \in [Events -> {"idle", "acted", "waiting", "read", "written", "lost"}]
        /\ \A x \in Events : task'[x] \notin {"waiting", "read"}
    BY <1>6 DEF Crash, Inv, TypeOK
  <2>4. TypeOK'
    BY <2>1, <2>2, <2>3 DEF Inv, TypeOK
  <2>5. LockInv'
    BY <2>2, <2>3 DEF LockInv
  <2>. QED BY <2>1, <2>4, <2>5 DEF Inv
<1>7. CASE Quiet \/ UNCHANGED vars
  <2>1. UNCHANGED vars
    BY <1>7 DEF Quiet
  <2>. USE <2>1 DEF vars
  <2>2. TypeOK'
    BY DEF Inv, TypeOK
  <2>3. LockInv'
    BY DEF Inv, LockInv, NewestHash
  <2>4. Len(log') >= Legacy /\ ChainLinked'
    BY DEF Inv, ChainLinked
  <2>. QED BY <2>2, <2>3, <2>4 DEF Inv
<1>. QED BY <1>1, <1>2, <1>3, <1>4, <1>5, <1>6, <1>7 DEF Next, Run

LEMMA AuditInvariant == Spec => []Inv
BY AuditInit, AuditStep, PTL DEF Spec

\* Every variable keeps its type and the queue for the lock holds exactly the
\* running tasks, once each.
THEOREM AuditTypeCorrect == Spec => []TypeOK
<1>1. Inv => TypeOK
  BY DEF Inv
<1>. QED BY <1>1, AuditInvariant, PTL

\* However many tasks write to the log, fail or die, every row written since the
\* chain exists is linked to the row before it.
THEOREM AlwaysChainLinked == Spec => []ChainLinked
<1>1. Inv => ChainLinked
  BY DEF Inv
<1>. QED BY <1>1, AuditInvariant, PTL

\* A chained row is as its hash says, and a legacy row has no hash.
LEMMA RowsMatch ==
  ASSUME Inv, \A i \in 1 .. Legacy : i \in 1 .. Len(log) => log[i].hash = Null
  PROVE  \A i \in 1 .. Len(log) : log[i].hash # Null =>
           log[i].hash = ComputeRowHash(log[i].event, log[i].prev)
<1>1. Legacy \in Nat /\ Len(log) \in Nat
  BY AuditAssumption DEF Inv, TypeOK
<1>2. \A i \in 1 .. Len(log) : i \in 1 .. Legacy \/ i \in Legacy + 1 .. Len(log)
  BY <1>1
<1>. QED BY <1>2 DEF Inv, ChainLinked

\* The rows from before the chain stay as they are.
LegacyUnhashed == \A i \in 1 .. Legacy : i \in 1 .. Len(log) => log[i].hash = Null

LEMMA LegacyStays ==
  ASSUME Inv, LegacyUnhashed, [Next]_vars
  PROVE  LegacyUnhashed'
<1>1. Legacy \in Nat /\ Len(log) \in Nat /\ Len(log) >= Legacy /\ log \in Seq(RowType)
  BY AuditAssumption DEF Inv, TypeOK
<1>2. CASE log' = log
  BY <1>2 DEF LegacyUnhashed
<1>3. ASSUME NEW e \in Events, log' = Append(log, Row(e))
      PROVE  LegacyUnhashed'
  <2>1. \A i \in 1 .. Len(log) : log'[i] = log[i]
    BY <1>1, <1>3
  <2>2. \A i \in 1 .. Legacy : i \in 1 .. Len(log)
    BY <1>1
  <2>. QED BY <2>1, <2>2 DEF LegacyUnhashed
<1>4. log' = log \/ \E e \in Events : log' = Append(log, Row(e))
  BY DEF Next, Act, Emit, Run, Read, Write, Fail, Crash, Quiet, vars
<1>. QED BY <1>2, <1>3, <1>4

\* A chained row, with its types.
LEMMA ChainedRow ==
  ASSUME Inv, NEW i \in Legacy + 1 .. Len(log)
  PROVE  /\ i \in 1 .. Len(log) /\ log[i] \in RowType
         /\ log[i].event \in Events \cup {None} /\ log[i].prev \in Seq(Events \cup {None})
         /\ log[i].hash = Append(log[i].prev, log[i].event)
         /\ log[i].hash # Null
<1>1. Legacy \in Nat /\ Len(log) \in Nat /\ log \in Seq(RowType)
  BY AuditAssumption DEF Inv, TypeOK
<1>2. i \in 1 .. Len(log) /\ log[i] \in RowType
  BY <1>1
<1>3. log[i].event \in Events \cup {None} /\ log[i].prev \in Seq(Events)
  BY <1>2 DEF RowType
<1>4. log[i].prev \in Seq(Events \cup {None})
  BY <1>3
<1>5. log[i].hash = Append(log[i].prev, log[i].event)
  BY DEF Inv, ChainLinked, ComputeRowHash
<1>6. Append(log[i].prev, log[i].event) # <<>>
  BY <1>3, <1>4, AppendProperties
<1>. QED BY <1>2, <1>3, <1>4, <1>5, <1>6 DEF Null

\* If row i is the only one that does not match its hash, verify-chain says so.
LEMMA OneMismatchIsFound ==
  ASSUME NEW rows, NEW limit, NEW i, Mismatched(rows, limit) = {i}, i =< i
  PROVE  VerifyChain(rows, limit)
           = [integrity |-> "BROKEN", broken_at_id |-> i, checked |-> i - 1]
<1>1. Min({i}) = i
  BY DEF Min
<1>. QED BY <1>1 DEF VerifyChain

\* A row that differs in one column from one that matches its hash does not match it.
LEMMA TamperedRowMismatches ==
  ASSUME Inv, NEW i \in Legacy + 1 .. Len(log), NEW row \in Tampered(i)
  PROVE  row.hash # Null /\ row.hash # ComputeRowHash(row.event, row.prev)
<1> DEFINE U == Events \cup {None}
<1>1. log \in Seq(RowType) /\ \A j \in 1 .. Len(log) : log[j].hash \in Seq(U)
  <2>1. log \in Seq(RowType)
    BY DEF Inv, TypeOK
  <2>2. \A j \in 1 .. Len(log) : log[j].hash \in Seq(Events)
    <3>1. \A j \in 1 .. Len(log) : log[j] \in RowType
      BY <2>1
    <3>. QED BY <3>1 DEF RowType
  <2>. QED BY <2>1, <2>2
<1>3. /\ log[i].hash = Append(log[i].prev, log[i].event) /\ log[i].hash # Null
      /\ log[i].event \in U /\ log[i].prev \in Seq(U)
  BY ChainedRow
<1>4. log[i] \in RowType
  BY ChainedRow
<1>5. ASSUME NEW e \in Events \ {log[i].event}, row = [log[i] EXCEPT !.event = e]
      PROVE  row.hash # Null /\ row.hash # ComputeRowHash(row.event, row.prev)
  <2>1. row.event = e /\ row.prev = log[i].prev /\ row.hash = log[i].hash
    BY <1>4, <1>5 DEF RowType
  <2>2. Append(log[i].prev, e) # Append(log[i].prev, log[i].event)
    BY <1>3, AppendInjective
  <2>. QED BY <1>3, <2>1, <2>2 DEF ComputeRowHash
<1>6. ASSUME NEW h \in {log[j].hash : j \in 1 .. Len(log)} \ {log[i].prev},
             row = [log[i] EXCEPT !.prev = h]
      PROVE  row.hash # Null /\ row.hash # ComputeRowHash(row.event, row.prev)
  <2>1. row.event = log[i].event /\ row.prev = h /\ row.hash = log[i].hash
    BY <1>4, <1>6 DEF RowType
  <2>2. h \in Seq(U) /\ h # log[i].prev
    BY <1>1, <1>6
  <2>3. Append(h, log[i].event) # Append(log[i].prev, log[i].event)
    BY <1>3, <2>2, AppendInjective
  <2>. QED BY <1>3, <2>1, <2>3 DEF ComputeRowHash
<1>7. ASSUME NEW h \in {log[j].hash : j \in 1 .. Len(log)} \ {log[i].hash, Null},
             row = [log[i] EXCEPT !.hash = h]
      PROVE  row.hash # Null /\ row.hash # ComputeRowHash(row.event, row.prev)
  <2>1. row.event = log[i].event /\ row.prev = log[i].prev /\ row.hash = h
    BY <1>4, <1>7 DEF RowType
  <2>. QED BY <1>3, <1>7, <2>1 DEF ComputeRowHash
<1>. QED BY <1>5, <1>6, <1>7 DEF Tampered

LEMMA LogVerifies ==
  ASSUME Inv, LegacyUnhashed
  PROVE  TamperingIsFound
<1>1. Legacy \in Nat /\ Len(log) \in Nat /\ log \in Seq(RowType)
  BY AuditAssumption DEF Inv, TypeOK
<1>2. \A i \in 1 .. Len(log) : log[i].hash # Null =>
           log[i].hash = ComputeRowHash(log[i].event, log[i].prev)
  BY RowsMatch DEF LegacyUnhashed
<1>3. ASSUME NEW limit \in 1 .. Len(log)
      PROVE  VerifyChain(log, limit).integrity = "OK"
  <2>1. Mismatched(log, limit) = {}
    BY <1>2 DEF Mismatched
  <2>. QED BY <2>1 DEF VerifyChain
<1>4. ASSUME NEW i \in Legacy + 1 .. Len(log), NEW row \in Tampered(i)
      PROVE  VerifyChain([log EXCEPT ![i] = row], Len(log))
               = [integrity |-> "BROKEN", broken_at_id |-> i, checked |-> i - 1]
  <2> DEFINE rows == [log EXCEPT ![i] = row]
  <2>1. i \in 1 .. Len(log) /\ i =< i
    BY <1>1
  <2>3. row.hash # Null /\ row.hash # ComputeRowHash(row.event, row.prev)
    BY TamperedRowMismatches
  <2>4. /\ Len(rows) = Len(log) /\ rows[i] = row
        /\ \A j \in 1 .. Len(log) : j # i => rows[j] = log[j]
    BY <1>1, <2>1
  <2>5. Mismatched(rows, Len(log)) = {i}
    <3>. HIDE DEF rows
    <3>. QED BY <1>1, <1>2, <2>1, <2>3, <2>4 DEF Mismatched
  <2>. QED BY <2>1, <2>5, OneMismatchIsFound
<1>. QED BY <1>3, <1>4 DEF TamperingIsFound

\* verify-chain is right about the log in every state: it accepts it, and finds any chained
\* row of which one column was changed.
THEOREM TamperingAlwaysFound == Spec => []TamperingIsFound
<1>1. Init => LegacyUnhashed
  <2>1. ASSUME Init PROVE LegacyUnhashed
    <3>1. \A i \in 1 .. Legacy : log[i] = LegacyRow
      BY <2>1 DEF Init
    <3>. QED BY <3>1 DEF LegacyUnhashed, LegacyRow
  <2>. QED BY <2>1
<1>2. Inv /\ LegacyUnhashed /\ [Next]_vars => LegacyUnhashed'
  BY LegacyStays
<1>3. Inv /\ LegacyUnhashed => TamperingIsFound
  BY LogVerifies
<1>. QED BY <1>1, <1>2, <1>3, AuditInvariant, PTL DEF Spec
-----------------------------------------------------------------------------
\* Event a stands before event b in s.
Before(s, a, b) == \E m, n \in 1 .. Len(s) : m < n /\ s[m] = a /\ s[n] = b

\* Rows, then queued tasks, are in the order of emission: the row that is written next
\* belongs to the first of the queue, and no task can come before it any more.
OrderInv ==
  /\ \A i, j \in Legacy + 1 .. Len(log) : i < j => Before(emitted, log[i].event, log[j].event)
  /\ \A i \in Legacy + 1 .. Len(log) : \A k \in 1 .. Len(queue) :
       Before(emitted, log[i].event, queue[k])
  /\ \A k, l \in 1 .. Len(queue) : k < l => Before(emitted, queue[k], queue[l])
  /\ \A i \in Legacy + 1 .. Len(log) : log[i].event \in ToSet(emitted)
  /\ \A k \in 1 .. Len(queue) : queue[k] \in ToSet(emitted)

\* What was emitted stays emitted, in its order, and a new event comes last.
LEMMA EmittedGrows ==
  ASSUME emitted \in Seq(Events), NEW e \in Events, emitted' = Append(emitted, e)
  PROVE  /\ \A a, b : Before(emitted, a, b) => Before(emitted', a, b)
         /\ \A a : a \in ToSet(emitted) => a \in ToSet(emitted') /\ Before(emitted', a, e)
         /\ e \in ToSet(emitted')
<1> DEFINE t == emitted'
<1>1. /\ t \in Seq(Events) /\ Len(t) = Len(emitted) + 1 /\ t[Len(t)] = e
      /\ Len(emitted) \in Nat
      /\ \A i \in 1 .. Len(emitted) : t[i] = emitted[i]
  OBVIOUS
<1>2. /\ Len(t) \in 1 .. Len(t)
      /\ \A i \in 1 .. Len(emitted) : i \in 1 .. Len(t) /\ i < Len(t)
  BY <1>1
<1>3. ASSUME NEW a, NEW b, Before(emitted, a, b) PROVE Before(emitted', a, b)
  <2>1. PICK m, n \in 1 .. Len(emitted) : m < n /\ emitted[m] = a /\ emitted[n] = b
    BY <1>3 DEF Before
  <2>2. m \in 1 .. Len(t) /\ n \in 1 .. Len(t) /\ t[m] = a /\ t[n] = b
    BY <1>1, <1>2, <2>1
  <2>. QED BY <2>1, <2>2 DEF Before
<1>4. ASSUME NEW a, a \in ToSet(emitted) PROVE a \in ToSet(emitted') /\ Before(emitted', a, e)
  <2>1. PICK m \in 1 .. Len(emitted) : emitted[m] = a
    BY <1>4 DEF ToSet
  <2>2. m \in 1 .. Len(t) /\ m < Len(t) /\ t[m] = a
    BY <1>1, <1>2, <2>1
  <2>. QED BY <1>1, <1>2, <2>2 DEF Before, ToSet
<1>5. e \in ToSet(emitted')
  BY <1>1, <1>2 DEF ToSet
<1>. QED BY <1>3, <1>4, <1>5

\* The row of the first task of the queue follows the rows and precedes the tasks that stay.
LEMMA RowKeepsOrder ==
  ASSUME Inv, OrderInv, NEW e \in Events, queue # <<>>, queue[1] = e,
         log' = Append(log, Row(e)), UNCHANGED emitted,
         queue' = Tail(queue) \/ queue' = <<>>
  PROVE  OrderInv'
<1>1. /\ queue \in Seq(Events) /\ log \in Seq(RowType) /\ Len(log) \in Nat
      /\ Len(queue) \in Nat /\ Len(queue) >= 1 /\ Legacy \in Nat /\ Len(log) >= Legacy
  BY AuditAssumption DEF Inv, TypeOK
<1>2. Row(e) \in RowType /\ Row(e).event = e
  BY DEF Row, RowType, ComputeRowHash, Inv, TypeOK
<1>3. /\ Len(log') = Len(log) + 1 /\ log'[Len(log')].event = e
      /\ \A i \in 1 .. Len(log) : log'[i] = log[i]
  BY <1>1, <1>2
<1>4. \A i \in Legacy + 1 .. Len(log') :
        i = Len(log') \/ (i \in Legacy + 1 .. Len(log) /\ log'[i] = log[i])
  BY <1>1, <1>3
<1>5. \A k \in 1 .. Len(queue') :
        k + 1 \in 1 .. Len(queue) /\ queue'[k] = queue[k + 1] /\ 1 < k + 1
  <2>1. CASE queue' = <<>>
    BY <2>1
  <2>2. CASE queue' = Tail(queue)
    BY <1>1, <2>2
  <2>. QED BY <2>1, <2>2
<1>6. 1 \in 1 .. Len(queue) /\ \A a, b : Before(emitted', a, b) <=> Before(emitted, a, b)
  BY <1>1 DEF Before
<1>7. ASSUME NEW i \in Legacy + 1 .. Len(log'), NEW j \in Legacy + 1 .. Len(log'), i < j
      PROVE  Before(emitted', log'[i].event, log'[j].event)
  <2>1. i \in Legacy + 1 .. Len(log) /\ log'[i] = log[i]
    BY <1>1, <1>3, <1>7
  <2>. QED BY <1>3, <1>4, <1>6, <1>7, <2>1 DEF OrderInv
<1>8. \A i \in Legacy + 1 .. Len(log') : \A k \in 1 .. Len(queue') :
        Before(emitted', log'[i].event, queue'[k])
  <2> SUFFICES ASSUME NEW i \in Legacy + 1 .. Len(log'), NEW k \in 1 .. Len(queue')
               PROVE  Before(emitted, log'[i].event, queue[k + 1])
    BY <1>5
  <2>1. CASE i = Len(log')
    BY <1>3, <1>5, <1>6, <2>1 DEF OrderInv
  <2>2. CASE i \in Legacy + 1 .. Len(log) /\ log'[i] = log[i]
    BY <1>5, <2>2 DEF OrderInv
  <2>. QED BY <1>4, <2>1, <2>2
<1>9. ASSUME NEW k \in 1 .. Len(queue'), NEW l \in 1 .. Len(queue'), k < l
      PROVE  Before(emitted', queue'[k], queue'[l])
  <2>1. k + 1 < l + 1
    BY <1>9
  <2>. QED BY <1>5, <1>6, <2>1 DEF OrderInv
<1>10. \A i \in Legacy + 1 .. Len(log') : log'[i].event \in ToSet(emitted')
  BY <1>3, <1>4, <1>6 DEF OrderInv
<1>11. \A k \in 1 .. Len(queue') : queue'[k] \in ToSet(emitted')
  BY <1>5 DEF OrderInv
<1>. QED BY <1>7, <1>8, <1>9, <1>10, <1>11 DEF OrderInv

\* A task that ends without a row leaves the order of the others.
LEMMA LossKeepsOrder ==
  ASSUME Inv, OrderInv, UNCHANGED <<emitted, log>>,
         queue' = queue \/ (queue # <<>> /\ queue' = Tail(queue)) \/ queue' = <<>>
  PROVE  OrderInv'
<1>1. queue \in Seq(Events) /\ Len(queue) \in Nat
  BY DEF Inv, TypeOK
<1>2. \A a, b : Before(emitted', a, b) <=> Before(emitted, a, b)
  BY DEF Before
<1>3. CASE queue' = queue
  BY <1>2, <1>3 DEF OrderInv
<1>4. CASE queue' = <<>>
  BY <1>2, <1>4 DEF OrderInv
<1>5. CASE queue # <<>> /\ queue' = Tail(queue)
  <2>1. \A k \in 1 .. Len(queue') : k + 1 \in 1 .. Len(queue) /\ queue'[k] = queue[k + 1]
    BY <1>1, <1>5
  <2>2. \A k, l \in 1 .. Len(queue') : k < l => k + 1 < l + 1
    OBVIOUS
  <2>. QED BY <1>2, <2>1, <2>2 DEF OrderInv
<1>. QED BY <1>3, <1>4, <1>5

LEMMA OrderInit == Init => OrderInv
<1> SUFFICES ASSUME Init PROVE OrderInv
  OBVIOUS
<1>1. Len(log) = Legacy /\ Legacy \in Nat /\ Len(queue) = 0
  BY AuditAssumption DEF Init
<1>. QED BY <1>1 DEF OrderInv

LEMMA OrderStep ==
  ASSUME Inv, OrderInv, [Next]_vars
  PROVE  OrderInv'
<1>1. ASSUME NEW e \in Events, Emit(e) PROVE OrderInv'
  <2>1. /\ UNCHANGED log /\ queue' = Append(queue, e) /\ emitted' = Append(emitted, e)
        /\ emitted \in Seq(Events) /\ queue \in Seq(Events) /\ Len(queue) \in Nat
    BY <1>1 DEF Emit, Inv, TypeOK
  <2>2. /\ \A a, b : Before(emitted, a, b) => Before(emitted', a, b)
        /\ \A a : a \in ToSet(emitted) => a \in ToSet(emitted') /\ Before(emitted', a, e)
        /\ e \in ToSet(emitted')
    BY <2>1, EmittedGrows
  <2>3. /\ Len(queue') = Len(queue) + 1 /\ queue'[Len(queue')] = e
        /\ \A k \in 1 .. Len(queue) : queue'[k] = queue[k]
    BY <2>1
  <2>4. \A k \in 1 .. Len(queue') : k = Len(queue') \/ k \in 1 .. Len(queue)
    BY <2>1, <2>3
  <2>5. ASSUME NEW k \in 1 .. Len(queue'), NEW l \in 1 .. Len(queue'), k < l
        PROVE  Before(emitted', queue'[k], queue'[l])
    <3>1. k \in 1 .. Len(queue)
      BY <2>1, <2>3, <2>5
    <3>. QED BY <2>2, <2>3, <2>4, <2>5, <3>1 DEF OrderInv
  <2>6. \A i \in Legacy + 1 .. Len(log) : \A k \in 1 .. Len(queue') :
          Before(emitted', log[i].event, queue'[k])
    BY <2>2, <2>3, <2>4 DEF OrderInv
  <2>7. \A k \in 1 .. Len(queue') : queue'[k] \in ToSet(emitted')
    BY <2>2, <2>3, <2>4 DEF OrderInv
  <2>8. /\ \A i, j \in Legacy + 1 .. Len(log) :
             i < j => Before(emitted', log[i].event, log[j].event)
        /\ \A i \in Legacy + 1 .. Len(log) : log[i].event \in ToSet(emitted')
    BY <2>2 DEF OrderInv
  <2>. QED BY <2>1, <2>5, <2>6, <2>7, <2>8 DEF OrderInv
<1>2. ASSUME NEW e \in Events, Act(e) \/ Read(e) PROVE OrderInv'
  BY <1>2, LossKeepsOrder DEF Act, Read
<1>3. ASSUME NEW e \in Events, Write(e) PROVE OrderInv'
  <2>1. queue # <<>> /\ queue[1] = e
    BY <1>3 DEF Write, Inv, LockInv
  <2>. QED BY <1>3, <2>1, RowKeepsOrder DEF Write
<1>4. ASSUME NEW e \in Events, Fail(e) PROVE OrderInv'
  <2>1. queue # <<>> /\ queue[1] = e
    BY <1>4 DEF Fail, HasLock, Inv, TypeOK
  <2>2. CASE log' = log
    BY <1>4, <2>1, <2>2, LossKeepsOrder DEF Fail
  <2>3. CASE log' = Append(log, Row(e))
    BY <1>4, <2>1, <2>3, RowKeepsOrder DEF Fail
  <2>. QED BY <1>4, <2>2, <2>3 DEF Fail
<1>5. CASE Crash
  <2>1. CASE log' = log
    BY <1>5, <2>1, LossKeepsOrder DEF Crash
  <2>2. ASSUME NEW e \in Events, task[e] = "read", log' = Append(log, Row(e))
        PROVE  OrderInv'
    <3>1. queue # <<>> /\ queue[1] = e
      BY <2>2 DEF Inv, LockInv
    <3>. QED BY <1>5, <2>2, <3>1, RowKeepsOrder DEF Crash
  <2>. QED BY <1>5, <2>1, <2>2 DEF Crash
<1>6. CASE Quiet \/ UNCHANGED vars
  BY <1>6, LossKeepsOrder DEF Quiet, vars
<1>. QED BY <1>1, <1>2, <1>3, <1>4, <1>5, <1>6 DEF Next, Run

\* Whatever tasks fail or die, and after every restart, the rows stand in the order in
\* which their events were emitted: the lock is handed on in that order.
THEOREM LogAlwaysFollowsEmission == Spec => []LogFollowsEmission
<1>1. OrderInv => LogFollowsEmission
  BY DEF OrderInv, LogFollowsEmission, Before
<1>2. Inv /\ OrderInv /\ [Next]_vars => OrderInv'
  BY OrderStep
<1>. QED BY <1>1, <1>2, OrderInit, AuditInvariant, PTL DEF Spec
-----------------------------------------------------------------------------
\* The events that the newest row's hash covers are over: none of them will write again.
TrailInv == \A e \in Events : e \in ToSet(NewestHash) => task[e] \in {"written", "lost"}

LEMMA NewestHashType ==
  ASSUME Inv
  PROVE  NewestHash \in Seq(Events)
<1>1. log \in Seq(RowType) /\ <<>> \in Seq(Events)
  BY DEF Inv, TypeOK
<1>2. log # <<>> => log[Len(log)] \in RowType
  BY <1>1
<1>. QED BY <1>1, <1>2 DEF NewestHash, Null, RowType

\* The row of a task that has read the newest hash adds its event to the trail.
LEMMA RowRecords ==
  ASSUME Inv, TrailInv, NEW e \in Events, task[e] = "read", log' = Append(log, Row(e))
  PROVE  /\ Trail!Record(e)
         /\ \A x : x \in ToSet(NewestHash)' => x \in ToSet(NewestHash) \/ x = e
<1>1. log \in Seq(RowType) /\ NewestHash \in Seq(Events) /\ prev[e] = NewestHash
  BY NewestHashType DEF Inv, TypeOK, LockInv
<1>2. Row(e) \in RowType /\ Row(e).hash = Append(NewestHash, e)
  BY <1>1 DEF Row, RowType, ComputeRowHash, Inv, TypeOK
<1>3. NewestHash' = Append(NewestHash, e)
  <2>1. Len(log') = Len(log) + 1 /\ log'[Len(log) + 1] = Row(e) /\ Len(log) \in Nat
    BY <1>1, <1>2
  <2>2. log' # <<>> /\ log'[Len(log')] = Row(e)
    BY <2>1
  <2>. QED BY <1>2, <2>2 DEF NewestHash
<1>4. e \notin ToSet(NewestHash)
  BY DEF TrailInv
<1> DEFINE t == Append(NewestHash, e)
<1>5. /\ t \in Seq(Events) /\ Len(t) = Len(NewestHash) + 1 /\ t[Len(t)] = e
      /\ \A i \in 1 .. Len(NewestHash) : t[i] = NewestHash[i]
      /\ Len(NewestHash) \in Nat
  BY <1>1
<1>. HIDE DEF t
<1>6. ASSUME NEW x \in ToSet(t) PROVE x \in ToSet(NewestHash) \/ x = e
  <2>1. PICK i \in 1 .. Len(t) : t[i] = x
    BY DEF ToSet
  <2>2. CASE i = Len(t)
    BY <1>5, <2>1, <2>2
  <2>3. CASE i # Len(t)
    <3>1. i \in 1 .. Len(NewestHash)
      BY <1>5, <2>3
    <3>2. NewestHash[i] = x
      BY <1>5, <2>1, <3>1
    <3>. QED BY <1>1, <3>1, <3>2, Members
  <2>. QED BY <2>2, <2>3
<1>7. Trail!Record(e)
  BY <1>3, <1>4 DEF Trail!Record, Trail!ToSet, ToSet
<1>8. NewestHash' = t
  BY <1>3 DEF t
<1>. QED BY <1>6, <1>7, <1>8

LEMMA TrailStep ==
  ASSUME Inv, TrailInv, [Next]_vars
  PROVE  TrailInv' /\ [Trail!Next]_NewestHash
<1>1. \A x \in Events : task[x] \in {"written", "lost"} => task'[x] \in {"written", "lost"}
  <2>1. task \in [Events -> {"idle", "acted", "waiting", "read", "written", "lost"}]
    BY DEF Inv, TypeOK
  <2>2. ASSUME NEW e \in Events, Fail(e) PROVE task' = [task EXCEPT ![e] = "lost"]
    BY <2>2 DEF Fail
  <2>3. ASSUME NEW e \in Events, Act(e) \/ Emit(e) \/ Read(e) \/ Write(e)
        PROVE  \A x \in Events : task[x] \in {"written", "lost"} => task'[x] = task[x]
    BY <2>1, <2>3 DEF Act, Emit, Read, Write
  <2>4. CASE Crash
    BY <2>1, <2>4 DEF Crash
  <2>5. CASE Quiet \/ UNCHANGED vars
    BY <2>5 DEF Quiet, vars
  <2>. QED BY <2>1, <2>2, <2>3, <2>4, <2>5 DEF Next, Run
<1>2. CASE log' = log
  <2>1. NewestHash' = NewestHash
    BY <1>2 DEF NewestHash
  <2>. QED BY <1>1, <2>1 DEF TrailInv
<1>3. ASSUME NEW e \in Events, task[e] = "read", log' = Append(log, Row(e)),
             task'[e] \in {"written", "lost"}
      PROVE  TrailInv' /\ [Trail!Next]_NewestHash
  <2>1. /\ Trail!Record(e)
        /\ \A x : x \in ToSet(NewestHash)' => x \in ToSet(NewestHash) \/ x = e
    BY <1>3, RowRecords
  <2>2. TrailInv'
    BY <1>1, <1>3, <2>1 DEF TrailInv
  <2>. QED BY <2>1, <2>2 DEF Trail!Next
<1>4. \/ log' = log
      \/ \E e \in Events : /\ task[e] = "read" /\ log' = Append(log, Row(e))
                           /\ task'[e] \in {"written", "lost"}
  <2>1. task \in [Events -> {"idle", "acted", "waiting", "read", "written", "lost"}]
    BY DEF Inv, TypeOK
  <2>2. ASSUME NEW e \in Events, Write(e) \/ Fail(e) PROVE task'[e] \in {"written", "lost"}
    BY <2>1, <2>2 DEF Write, Fail
  <2>3. CASE Crash
    BY <2>1, <2>3 DEF Crash
  <2>. QED BY <2>2, <2>3 DEF Next, Act, Emit, Run, Read, Write, Fail, Quiet, vars
<1>. QED BY <1>2, <1>3, <1>4

\* The chain implements the trail: what the newest hash covers grows by one event at a
\* time, at its end, and never by an event that is there already.
THEOREM ChainImplementsTrail == Spec => TrailSpec
<1>1. Init => Trail!Init /\ TrailInv
  <2> SUFFICES ASSUME Init PROVE Trail!Init /\ TrailInv
    OBVIOUS
  <2>1. \A i \in 1 .. Legacy : log[i].hash = Null
    BY DEF Init, LegacyRow
  <2>2. Len(log) = Legacy /\ log \in Seq({LegacyRow})
    BY AuditAssumption DEF Init
  <2>3. log # <<>> => Len(log) \in 1 .. Legacy
    BY <2>2
  <2>4. NewestHash = <<>>
    BY <2>1, <2>3 DEF NewestHash, Null
  <2>. QED BY <2>4 DEF Trail!Init, TrailInv, ToSet
<1>2. Inv /\ TrailInv /\ [Next]_vars => TrailInv' /\ [Trail!Next]_NewestHash
  BY TrailStep
<1>. QED BY <1>1, <1>2, AuditInvariant, PTL DEF Spec, TrailSpec, Trail!Spec
=============================================================================
