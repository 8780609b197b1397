-------------------------- MODULE KpiAlerts_proofs --------------------------
(***************************************************************************)
(* At most one open alert per type, for every set of types, any number of  *)
(* acknowledge requests and of restarts.                                   *)
(***************************************************************************)
EXTENDS KpiAlerts, TLAPS

AlertRow == [type: Types, status: Statuses]
Steps == {"create", "creating", "resolve", "resolving", "done"}

\* A check that is about to insert has seen no open alert, and there is none yet:
\* only that check inserts alerts of its type.
AlertInv ==
  /\ TypeOK
  /\ \A t \in Types : check[t].step = "creating" => Open(t) = {}
  /\ OneOpenAlert

LEMMA UpdateRow ==
  ASSUME TypeOK, NEW i \in 1..Len(alerts), NEW st \in Statuses \ {"OPEN"}, Update(i, st)
  PROVE  /\ alerts' \in Seq(AlertRow) /\ Len(alerts') = Len(alerts)
         /\ \A t \in Types : Open(t)' \subseteq Open(t)
<1>1. alerts \in Seq(AlertRow) /\ Len(alerts) \in Nat
  BY DEF TypeOK, AlertRow
<1> DEFINE row == [alerts[i] EXCEPT !.status = st]
<1>3. alerts[i] \in AlertRow
  BY <1>1
<1>4. row \in AlertRow /\ row.status = st /\ alerts' = [alerts EXCEPT ![i] = row]
  BY <1>3 DEF Update, AlertRow, Statuses
<1>. HIDE DEF row
<1>2. /\ alerts' \in Seq(AlertRow) /\ Len(alerts') = Len(alerts)
      /\ \A j \in 1..Len(alerts) : j # i => alerts'[j] = alerts[j]
      /\ alerts'[i].status = st
  BY <1>1, <1>4
<1>. QED BY <1>1, <1>2 DEF Open, RowsOf

LEMMA InsertRow ==
  ASSUME TypeOK, NEW t \in Types, Insert(t)
  PROVE  /\ alerts' \in Seq(AlertRow) /\ Len(alerts') = Len(alerts) + 1
         /\ \A x \in Types : x # t => Open(x)' \subseteq Open(x)
         /\ Open(t)' \subseteq Open(t) \cup {Len(alerts')}
<1> DEFINE row == [type |-> t, status |-> "OPEN"]
<1>1. alerts \in Seq(AlertRow) /\ Len(alerts) \in Nat /\ row \in AlertRow
  BY DEF TypeOK, AlertRow, Statuses
<1>2. row.type = t /\ alerts' = Append(alerts, row)
  BY DEF Insert
<1>. HIDE DEF row
<1>3. /\ alerts' \in Seq(AlertRow) /\ Len(alerts') = Len(alerts) + 1
      /\ \A j \in 1..Len(alerts) : alerts'[j] = alerts[j]
      /\ alerts'[Len(alerts')] = row
  BY <1>1, <1>2
<1>4. \A j \in 1..Len(alerts') : j \in 1..Len(alerts) \/ j = Len(alerts')
  BY <1>1, <1>3
<1>. QED BY <1>1, <1>2, <1>3, <1>4 DEF Open, RowsOf

\* A step that opens no alert and starts no insertion.
LEMMA NothingOpened ==
  ASSUME AlertInv, \A t \in Types : Open(t)' \subseteq Open(t),
         \A t \in Types : check'[t].step = "creating" => check[t].step = "creating"
  PROVE  /\ \A t \in Types : check'[t].step = "creating" => Open(t)' = {}
         /\ OneOpenAlert'
BY DEF AlertInv, OneOpenAlert

LEMMA SameRows ==
  ASSUME alerts' = alerts
  PROVE  \A t \in Types : Open(t)' = Open(t)
BY DEF Open, RowsOf

\* A check of one type that ends or moves on while the table grows or stays.
LEMMA CheckTypes ==
  ASSUME TypeOK, NEW t \in Types, NEW step \in Steps, NEW row \in Rows,
         Become(t, step, row), Len(alerts') \in Nat, Len(alerts') >= Len(alerts),
         step = "resolving" => row # 0, pub = "checking"
  PROVE  /\ check' \in [Types -> [step: Steps, row: Rows']]
         /\ check'[t].step = step
         /\ \A x \in Types \ {t} : check'[x] = check[x]
         /\ \A x \in Types : check'[x].step = "resolving" => check'[x].row # 0
<1>1. Len(alerts) \in Nat /\ \A r \in Rows : r \in Rows'
  BY DEF TypeOK, Rows
<1> DEFINE c == [step |-> step, row |-> row]
<1>2. c.step = step /\ c.row = row /\ check' = [check EXCEPT ![t] = c]
      /\ c \in [step: Steps, row: Rows']
  BY <1>1 DEF Become
<1>. HIDE DEF c
<1>3. \A x \in Types : check'[x] = IF x = t THEN c ELSE check[x]
  BY <1>2 DEF TypeOK
<1>4. \A x \in Types : check[x] \in [step: Steps, row: Rows']
  BY <1>1 DEF TypeOK, Steps
<1>5. check' \in [Types -> [step: Steps, row: Rows']]
  BY <1>2, <1>4 DEF TypeOK
<1>. QED BY <1>2, <1>3, <1>5 DEF TypeOK

LEMMA AckTypes ==
  ASSUME TypeOK, Len(alerts') \in Nat, Len(alerts') >= Len(alerts), UNCHANGED ack
  PROVE  ack' \in [Acks -> [step: {"idle", "selected", "done"}, row: Rows']]
<1>1. Len(alerts) \in Nat /\ \A r \in Rows : r \in Rows'
  BY DEF TypeOK, Rows
<1>. QED BY <1>1 DEF TypeOK

LEMMA AlertsInit == Init => AlertInv
<1> SUFFICES ASSUME Init PROVE AlertInv
  OBVIOUS
<1>1. alerts = <<>> /\ Len(alerts) = 0 /\ \A t \in Types : Open(t) = {}
  BY DEF Init, Open, RowsOf
<1>2. TypeOK
  BY <1>1, AlertsAssumption DEF Init, TypeOK, NoCheck, Rows
<1>. QED BY <1>1, <1>2 DEF AlertInv, OneOpenAlert, Init, NoCheck

LEMMA CheckStep ==
  ASSUME AlertInv, NEW t \in Types, Check(t)
  PROVE  AlertInv'
<1>1. TypeOK /\ Len(alerts) \in Nat /\ 0 \in Rows
  BY DEF AlertInv, TypeOK, Rows
<1>2. pub = "checking" /\ UNCHANGED <<pub, triggered, ack, crashes>>
  BY <1>1 DEF Check, CreateSelect, CreateCommit, ResolveSelect, ResolveCommit, TypeOK
<1>3. ASSUME NEW step \in Steps, NEW row \in Rows, Become(t, step, row),
             step = "resolving" => row # 0, step # "creating",
             alerts' \in Seq(AlertRow), Len(alerts') >= Len(alerts),
             failed' \subseteq Types, counted' \in [Types -> Nat],
             \A x \in Types : x # t => Open(x)' \subseteq Open(x),
             \A i, j \in Open(t)' : i = j
      PROVE  AlertInv'
  <2>1. Len(alerts') \in Nat
    BY <1>3
  <2>2. /\ check' \in [Types -> [step: Steps, row: Rows']]
        /\ check'[t].step = step
        /\ \A x \in Types \ {t} : check'[x] = check[x]
        /\ \A x \in Types : check'[x].step = "resolving" => check'[x].row # 0
    BY <1>1, <1>2, <1>3, <2>1, CheckTypes
  <2>3. ack' \in [Acks -> [step: {"idle", "selected", "done"}, row: Rows']]
    BY <1>1, <1>2, <1>3, <2>1, AckTypes
  <2>4. TypeOK'
    BY <1>1, <1>2, <1>3, <2>2, <2>3 DEF TypeOK, AlertRow, Steps
  <2>. QED BY <1>3, <2>2, <2>4 DEF AlertInv, OneOpenAlert
<1>9. ASSUME alerts' = alerts, NEW step \in Steps \ {"creating"}, NEW row \in Rows,
             Become(t, step, row), step = "resolving" => row # 0,
             failed' \subseteq Types, counted' \in [Types -> Nat]
      PROVE  AlertInv'
  <2>1. alerts' \in Seq(AlertRow) /\ Len(alerts') >= Len(alerts)
    BY <1>1, <1>9 DEF TypeOK, AlertRow
  <2>2. \A x \in Types : Open(x)' = Open(x)
    BY <1>9, SameRows
  <2>3. \A i, j \in Open(t)' : i = j
    BY <2>2 DEF AlertInv, OneOpenAlert
  <2>4. step \in Steps /\ step # "creating" /\ \A x \in Types : x # t => Open(x)' \subseteq Open(x)
    BY <2>2
  <2>. QED BY <1>3, <1>9, <2>1, <2>3, <2>4
<1>10. /\ {"done", "resolving"} \subseteq Steps \ {"creating"}
       /\ failed \subseteq Types /\ counted \in [Types -> Nat]
  BY <1>1 DEF Steps, TypeOK
<1>4. CASE CreateSelect(t)
  <2>1. UNCHANGED <<alerts, failed, counted>>
    BY <1>4 DEF CreateSelect
  <2>2. \A x \in Types : Open(x)' = Open(x)
    BY <2>1, SameRows
  <2>3. CASE Open(t) # {}
    <3>1. Become(t, "done", 0)
      BY <1>4, <2>3 DEF CreateSelect, Done
    <3>. QED BY <1>1, <1>9, <1>10, <2>1, <3>1
  <2>4. CASE Open(t) = {}
    <3>1. Become(t, "creating", 0)
      BY <1>4, <2>4 DEF CreateSelect
    <3>2. /\ check' \in [Types -> [step: Steps, row: Rows']]
          /\ check'[t].step = "creating"
          /\ \A x \in Types \ {t} : check'[x] = check[x]
          /\ \A x \in Types : check'[x].step = "resolving" => check'[x].row # 0
      BY <1>1, <1>2, <2>1, <3>1, CheckTypes DEF Steps
    <3>3. ack' \in [Acks -> [step: {"idle", "selected", "done"}, row: Rows']]
      BY <1>1, <1>2, <2>1, AckTypes
    <3>4. TypeOK'
      BY <1>1, <1>2, <2>1, <3>2, <3>3 DEF TypeOK, Steps
    <3>. QED BY <2>2, <2>4, <3>2, <3>4 DEF AlertInv, OneOpenAlert
  <2>. QED BY <2>3, <2>4
<1>5. CASE CreateCommit(t)
  <2>1. Become(t, "done", 0) /\ failed' \subseteq Types /\ counted' \in [Types -> Nat]
        /\ Open(t) = {}
    BY <1>5 DEF CreateCommit, Done, AlertInv, TypeOK
  <2>2. CASE alerts' = alerts
    BY <1>1, <1>9, <1>10, <2>1, <2>2
  <2>3. CASE Insert(t)
    <3>1. /\ alerts' \in Seq(AlertRow) /\ Len(alerts') = Len(alerts) + 1
          /\ \A x \in Types : x # t => Open(x)' \subseteq Open(x)
          /\ Open(t)' \subseteq Open(t) \cup {Len(alerts')}
      BY <1>1, <2>3, InsertRow
    <3>2. \A i, j \in Open(t)' : i = j
      BY <2>1, <3>1
    <3>. QED BY <1>1, <1>3, <2>1, <3>1, <3>2 DEF Steps
  <2>. QED BY <1>5, <2>2, <2>3 DEF CreateCommit
<1>6. CASE ResolveSelect(t)
  <2>1. UNCHANGED <<alerts, failed, counted>>
    BY <1>6 DEF ResolveSelect
  <2>3. CASE Done(t)
    BY <1>1, <1>9, <1>10, <2>1, <2>3 DEF Done
  <2>4. ASSUME NEW i \in Active(t), Become(t, "resolving", i) PROVE AlertInv'
    <3>1. i \in Rows /\ i # 0
      BY <1>1 DEF Active, RowsOf, Rows
    <3>. QED BY <1>9, <1>10, <2>1, <2>4, <3>1
  <2>. QED BY <1>6, <2>3, <2>4 DEF ResolveSelect
<1>7. CASE ResolveCommit(t)
  <2>1. Become(t, "done", 0) /\ failed' \subseteq Types /\ counted' \in [Types -> Nat]
        /\ check[t].row \in 1..Len(alerts)
    BY <1>1, <1>7 DEF ResolveCommit, Done, TypeOK, Rows
  <2>2. CASE alerts' = alerts
    BY <1>1, <1>9, <1>10, <2>1, <2>2
  <2>3. CASE Update(check[t].row, "RESOLVED")
    <3>1. alerts' \in Seq(AlertRow) /\ Len(alerts') = Len(alerts)
          /\ \A x \in Types : Open(x)' \subseteq Open(x)
      BY <1>1, <2>1, <2>3, UpdateRow DEF Statuses
    <3>2. \A i, j \in Open(t)' : i = j
      BY <3>1 DEF AlertInv, OneOpenAlert
    <3>. QED BY <1>1, <1>3, <2>1, <3>1, <3>2 DEF Steps
  <2>. QED BY <1>7, <2>2, <2>3 DEF ResolveCommit
<1>. QED BY <1>4, <1>5, <1>6, <1>7 DEF Check

LEMMA AlertsStep ==
  ASSUME AlertInv, [Next]_vars
  PROVE  AlertInv'
<1>1. TypeOK /\ Len(alerts) \in Nat
  BY DEF AlertInv, TypeOK
<1>2. ASSUME alerts' = alerts, TypeOK',
             \A t \in Types : check'[t].step = "creating" => check[t].step = "creating"
      PROVE  AlertInv'
  BY <1>2, SameRows, NothingOpened DEF AlertInv
<1>3. CASE StartCycle
  <2>1. alerts' = alerts /\ UNCHANGED <<ack, counted, crashes>>
    BY <1>3 DEF StartCycle
  <2>2. CASE pub' = "dead" /\ UNCHANGED <<triggered, check, failed>>
    BY <1>1, <1>2, <1>3, <2>1, <2>2 DEF StartCycle, TypeOK, Rows
  <2>3. ASSUME NEW new \in [Types -> BOOLEAN], pub' = "checking", triggered' = new, failed' = {},
               check' = [t \in Types |-> [step |-> IF new[t] THEN "create" ELSE "resolve", row |-> 0]]
        PROVE  AlertInv'
    <3>1. \A t \in Types : check'[t].step \in {"create", "resolve"} /\ check'[t].row = 0
      BY <2>3
    <3>2. check' \in [Types -> [step: Steps, row: Rows']]
      BY <1>1, <2>1, <2>3 DEF Rows, Steps
    <3>3. TypeOK'
      BY <1>1, <2>1, <2>3, <3>1, <3>2 DEF TypeOK, Rows, Steps
    <3>. QED BY <1>2, <2>1, <3>1, <3>3
  <2>. QED BY <1>3, <2>2, <2>3 DEF StartCycle
<1>4. CASE EndCycle
  BY <1>1, <1>2, <1>4 DEF EndCycle, TypeOK, Rows
<1>5. ASSUME NEW k \in Acks, AckSelect(k) PROVE AlertInv'
  <2>1. UNCHANGED <<alerts, pub, triggered, check, failed, counted, crashes>>
    BY <1>5 DEF AckSelect
  <2>2. ack' \in [Acks -> [step: {"idle", "selected", "done"}, row: Rows]]
        /\ \A x \in Acks : ack'[x].step = "selected" => ack'[x].row # 0
    BY <1>1, <1>5 DEF AckSelect, TypeOK, Rows
  <2>3. TypeOK'
    BY <1>1, <2>1, <2>2 DEF TypeOK, Rows
  <2>. QED BY <1>2, <2>1, <2>3
<1>6. ASSUME NEW k \in Acks, AckCommit(k) PROVE AlertInv'
  <2>1. UNCHANGED <<pub, triggered, check, failed, counted, crashes>>
        /\ ack[k].row \in 1..Len(alerts)
    BY <1>1, <1>6 DEF AckCommit, TypeOK, Rows
  <2>2. /\ alerts' \in Seq(AlertRow) /\ Len(alerts') = Len(alerts)
        /\ \A t \in Types : Open(t)' \subseteq Open(t)
    <3>1. CASE alerts' = alerts
      BY <1>1, <3>1, SameRows DEF TypeOK, AlertRow
    <3>2. CASE Update(ack[k].row, "ACKNOWLEDGED")
      BY <1>1, <2>1, <3>2, UpdateRow DEF Statuses
    <3>. QED BY <1>6, <3>1, <3>2 DEF AckCommit
  <2>3. ack' \in [Acks -> [step: {"idle", "selected", "done"}, row: Rows]]
        /\ \A x \in Acks : ack'[x].step = "selected" => ack'[x].row # 0
    BY <1>1, <1>6 DEF AckCommit, TypeOK, Rows
  <2>4. TypeOK'
    BY <1>1, <2>1, <2>2, <2>3 DEF TypeOK, Rows, AlertRow
  <2>. QED BY <2>1, <2>2, <2>4, NothingOpened DEF AlertInv
<1>7. CASE Crash
  <2>1. alerts' = alerts /\ check' = [t \in Types |-> NoCheck]
    BY <1>7 DEF Crash
  <2>2. check' \in [Types -> [step: Steps, row: Rows]]
        /\ \A t \in Types : check'[t].step = "done"
    BY <1>1, <2>1 DEF NoCheck, Steps, Rows
  <2>3. ack' \in [Acks -> [step: {"idle", "selected", "done"}, row: Rows]]
        /\ \A x \in Acks : ack'[x].step # "selected"
    BY <1>1, <1>7 DEF Crash, TypeOK, Rows
  <2>4. TypeOK'
    BY <1>1, <1>7, <2>1, <2>2, <2>3 DEF Crash, TypeOK, Rows, Steps
  <2>. QED BY <1>2, <2>1, <2>2, <2>4
<1>8. CASE Quiet \/ UNCHANGED vars
  <2>1. UNCHANGED <<alerts, pub, triggered, check, failed, ack, counted, crashes>>
    BY <1>8 DEF Quiet, vars
  <2>. QED BY <1>1, <1>2, <2>1 DEF TypeOK, Rows
<1>. QED BY <1>3, <1>4, <1>5, <1>6, <1>7, <1>8, CheckStep DEF Next

\* Every variable keeps its type, and no check of a cycle outlives the cycle.
THEOREM AlertsTypeCorrect == Spec => []TypeOK
<1>1. AlertInv => TypeOK
  BY DEF AlertInv
<1>. QED BY <1>1, AlertsInit, AlertsStep, PTL DEF Spec

\* No alert is opened while another of its type is open, although the SELECT and
\* the INSERT are apart and no unique index forbids it: the publisher awaits all
\* checks of a cycle before the next, and nothing else opens alerts.
THEOREM AlwaysOneOpenAlert == Spec => []OneOpenAlert
<1>1. AlertInv => OneOpenAlert
  BY DEF AlertInv
<1>. QED BY <1>1, AlertsInit, AlertsStep, PTL DEF Spec
-----------------------------------------------------------------------------
\* A check runs the branch its metric calls for, a row selected to be resolved is of
\* the check's own type, and a check of an exceeded metric that is over has left an
\* active alert.
TriggerInv ==
  /\ \A t \in Types : check[t].step \in {"create", "creating"} => triggered[t]
  /\ \A t \in Types : check[t].step \in {"resolve", "resolving"} => ~triggered[t]
  /\ \A t \in Types : check[t].step = "resolving" => alerts[check[t].row].type = t
  /\ \A t \in Types :
       triggered[t] /\ t \notin failed /\ check[t].step = "done" => Active(t) # {}

\* A row keeps its type, and an update moves no row of another type.
LEMMA UpdateKeeps ==
  ASSUME TypeOK, NEW i \in 1..Len(alerts), NEW st \in Statuses, Update(i, st)
  PROVE  /\ Len(alerts') = Len(alerts)
         /\ \A j \in 1..Len(alerts) : alerts'[j].type = alerts[j].type
         /\ \A j \in 1..Len(alerts) : j # i => alerts'[j] = alerts[j]
         /\ alerts'[i].status = st
<1>1. alerts \in Seq(AlertRow) /\ Len(alerts) \in Nat
  BY DEF TypeOK, AlertRow
<1> DEFINE row == [alerts[i] EXCEPT !.status = st]
<1>2. alerts[i] \in AlertRow
  BY <1>1
<1>3. /\ row \in AlertRow /\ row.status = st /\ row.type = alerts[i].type
      /\ alerts' = [alerts EXCEPT ![i] = row]
  BY <1>2 DEF Update, AlertRow
<1>. HIDE DEF row
<1>. QED BY <1>1, <1>3

\* What the rows of a later table keep of the active alerts of an earlier one.
LEMMA StaysActive ==
  ASSUME NEW t \in Types, Len(alerts) \in Nat, Len(alerts') \in Nat, Len(alerts') >= Len(alerts),
         \A j \in 1..Len(alerts) : alerts'[j].type = alerts[j].type,
         \A j \in Active(t) : alerts'[j].status \in {"OPEN", "ACKNOWLEDGED"}
  PROVE  Active(t) # {} => Active(t)' # {}
<1> SUFFICES ASSUME NEW j \in Active(t) PROVE j \in Active(t)'
  OBVIOUS
<1>1. j \in 1..Len(alerts) /\ alerts[j].type = t
  BY DEF Active, RowsOf
<1>2. j \in 1..Len(alerts') /\ alerts'[j].type = t
  BY <1>1
<1>. QED BY <1>2 DEF Active, RowsOf

LEMMA InsertKeeps ==
  ASSUME TypeOK, NEW t \in Types, Insert(t)
  PROVE  /\ Len(alerts') = Len(alerts) + 1
         /\ \A j \in 1..Len(alerts) : alerts'[j] = alerts[j]
         /\ Active(t)' # {}
<1> DEFINE row == [type |-> t, status |-> "OPEN"]
<1>1. alerts \in Seq(AlertRow) /\ Len(alerts) \in Nat /\ row \in AlertRow
  BY DEF TypeOK, AlertRow, Statuses
<1>2. row.type = t /\ row.status = "OPEN" /\ alerts' = Append(alerts, row)
  BY DEF Insert
<1>. HIDE DEF row
<1>3. /\ Len(alerts') = Len(alerts) + 1
      /\ \A j \in 1..Len(alerts) : alerts'[j] = alerts[j]
      /\ alerts'[Len(alerts')] = row
  BY <1>1, <1>2
<1>4. Len(alerts') \in Active(t)'
  BY <1>1, <1>2, <1>3 DEF Active, RowsOf
<1>. QED BY <1>3, <1>4

\* A step of the check of t keeps what the invariant says of the other checks when
\* it touches no active row of their types.
LEMMA OtherChecks ==
  ASSUME TypeOK, TriggerInv, NEW t \in Types, NEW x \in Types, x # t,
         UNCHANGED triggered, check'[x] = check[x], x \in failed => x \in failed',
         Len(alerts') \in Nat, Len(alerts') >= Len(alerts),
         \A j \in 1..Len(alerts) : alerts'[j].type = alerts[j].type,
         \A j \in 1..Len(alerts) : alerts[j].type = x => alerts'[j] = alerts[j]
  PROVE  /\ check'[x].step \in {"create", "creating"} => triggered'[x]
         /\ check'[x].step \in {"resolve", "resolving"} => ~triggered'[x]
         /\ check'[x].step = "resolving" => alerts'[check'[x].row].type = x
         /\ triggered'[x] /\ x \notin failed' /\ check'[x].step = "done" => Active(x)' # {}
<1>1. Len(alerts) \in Nat
  BY DEF TypeOK
<1>2. check[x].step = "resolving" => check[x].row \in 1..Len(alerts)
  BY <1>1 DEF TypeOK, Rows
<1>3. \A j \in Active(x) : alerts'[j].status \in {"OPEN", "ACKNOWLEDGED"}
  BY DEF Active, RowsOf
<1>4. Active(x) # {} => Active(x)' # {}
  BY <1>1, <1>3, StaysActive
<1>. QED BY <1>2, <1>4 DEF TriggerInv

LEMMA TriggerCheckStep ==
  ASSUME AlertInv, TriggerInv, NEW t \in Types, Check(t)
  PROVE  TriggerInv'
<1>1. TypeOK /\ Len(alerts) \in Nat /\ alerts \in Seq(AlertRow)
  BY DEF AlertInv, TypeOK, AlertRow
<1>2. /\ UNCHANGED triggered
      /\ check[t].step \in {"create", "creating"} => triggered[t]
      /\ check[t].step \in {"resolve", "resolving"} => ~triggered[t]
  BY DEF Check, CreateSelect, CreateCommit, ResolveSelect, ResolveCommit, TriggerInv
<1>3. ASSUME NEW step \in Steps, NEW row \in Rows, Become(t, step, row),
             Len(alerts') \in Nat, Len(alerts') >= Len(alerts), failed \subseteq failed',
             \A j \in 1..Len(alerts) : alerts'[j].type = alerts[j].type,
             \A j \in 1..Len(alerts) : alerts[j].type # t => alerts'[j] = alerts[j],
             step \in {"create", "creating"} => triggered[t],
             step \in {"resolve", "resolving"} => ~triggered[t],
             step = "resolving" => alerts'[row].type = t,
             triggered[t] /\ t \notin failed' /\ step = "done" => Active(t)' # {}
      PROVE  TriggerInv'
  <2>1. check'[t].step = step /\ check'[t].row = row
        /\ \A x \in Types \ {t} : check'[x] = check[x]
    <3> DEFINE c == [step |-> step, row |-> row]
    <3>1. c.step = step /\ c.row = row /\ check' = [check EXCEPT ![t] = c]
      BY <1>3 DEF Become
    <3>. HIDE DEF c
    <3>. QED BY <1>1, <3>1 DEF TypeOK
  <2>2. ASSUME NEW x \in Types, x # t
        PROVE  /\ check'[x].step \in {"create", "creating"} => triggered'[x]
               /\ check'[x].step \in {"resolve", "resolving"} => ~triggered'[x]
               /\ check'[x].step = "resolving" => alerts'[check'[x].row].type = x
               /\ triggered'[x] /\ x \notin failed' /\ check'[x].step = "done"
                    => Active(x)' # {}
    BY <1>1, <1>2, <1>3, <2>1, <2>2, OtherChecks
  <2>3. /\ check'[t].step \in {"create", "creating"} => triggered'[t]
        /\ check'[t].step \in {"resolve", "resolving"} => ~triggered'[t]
        /\ check'[t].step = "resolving" => alerts'[check'[t].row].type = t
        /\ triggered'[t] /\ t \notin failed' /\ check'[t].step = "done" => Active(t)' # {}
    BY <1>2, <1>3, <2>1
  <2>. QED BY <2>2, <2>3 DEF TriggerInv
<1>4. 0 \in Rows /\ {"done", "creating", "resolving"} \subseteq Steps
  BY <1>1 DEF Rows, Steps
<1>5. CASE CreateSelect(t)
  <2>1. UNCHANGED <<alerts, failed>> /\ triggered[t]
    BY <1>2, <1>5 DEF CreateSelect
  <2>2. CASE Open(t) = {}
    <3>1. Become(t, "creating", 0)
      BY <1>5, <2>2 DEF CreateSelect
    <3>. QED BY <1>1, <1>3, <1>4, <2>1, <3>1
  <2>3. CASE Open(t) # {}
    <3>1. Become(t, "done", 0)
      BY <1>5, <2>3 DEF CreateSelect, Done
    <3>2. Active(t)' # {}
      BY <2>1, <2>3 DEF Open, Active, RowsOf
    <3>. QED BY <1>1, <1>3, <1>4, <2>1, <3>1, <3>2
  <2>. QED BY <2>2, <2>3
<1>6. CASE CreateCommit(t)
  <2>1. Become(t, "done", 0) /\ failed \subseteq failed'
    BY <1>6 DEF CreateCommit, Done
  <2>2. CASE Insert(t)
    <3>1. /\ Len(alerts') = Len(alerts) + 1
          /\ \A j \in 1..Len(alerts) : alerts'[j] = alerts[j]
          /\ Active(t)' # {}
      BY <1>1, <2>2, InsertKeeps
    <3>. QED BY <1>1, <1>3, <1>4, <2>1, <3>1
  <2>3. CASE alerts' = alerts /\ t \in failed'
    BY <1>1, <1>3, <1>4, <2>1, <2>3
  <2>. QED BY <1>6, <2>2, <2>3 DEF CreateCommit
<1>7. CASE ResolveSelect(t)
  <2>1. UNCHANGED <<alerts, failed>> /\ ~triggered[t]
    BY <1>2, <1>7 DEF ResolveSelect
  <2>2. CASE Done(t)
    BY <1>1, <1>3, <1>4, <2>1, <2>2 DEF Done
  <2>3. ASSUME NEW i \in Active(t), Become(t, "resolving", i) PROVE TriggerInv'
    <3>1. i \in Rows /\ alerts'[i].type = t
      BY <1>1, <2>1 DEF Active, RowsOf, Rows
    <3>. QED BY <1>1, <1>3, <1>4, <2>1, <2>3, <3>1
  <2>. QED BY <1>7, <2>2, <2>3 DEF ResolveSelect
<1>8. CASE ResolveCommit(t)
  <2>1. /\ Become(t, "done", 0) /\ failed \subseteq failed' /\ ~triggered[t]
        /\ check[t].row \in 1..Len(alerts) /\ alerts[check[t].row].type = t
    BY <1>1, <1>2, <1>8 DEF ResolveCommit, Done, TypeOK, Rows, TriggerInv
  <2>2. CASE alerts' = alerts
    BY <1>1, <1>3, <1>4, <2>1, <2>2
  <2>3. CASE Update(check[t].row, "RESOLVED")
    <3>1. /\ Len(alerts') = Len(alerts)
          /\ \A j \in 1..Len(alerts) : alerts'[j].type = alerts[j].type
          /\ \A j \in 1..Len(alerts) : j # check[t].row => alerts'[j] = alerts[j]
      BY <1>1, <2>1, <2>3, UpdateKeeps DEF Statuses
    <3>. QED BY <1>1, <1>3, <1>4, <2>1, <3>1
  <2>. QED BY <1>8, <2>2, <2>3 DEF ResolveCommit
<1>. QED BY <1>5, <1>6, <1>7, <1>8 DEF Check

LEMMA TriggerInit == Init => TriggerInv
BY DEF Init, TriggerInv, NoCheck

LEMMA TriggerStep ==
  ASSUME AlertInv, TriggerInv, [Next]_vars
  PROVE  TriggerInv'
<1>1. TypeOK /\ Len(alerts) \in Nat /\ alerts \in Seq(AlertRow)
  BY DEF AlertInv, TypeOK, AlertRow
<1>2. ASSUME UNCHANGED <<alerts, triggered, check, failed>> PROVE TriggerInv'
  <2>1. \A t \in Types : Active(t)' = Active(t)
    BY <1>2 DEF Active, RowsOf
  <2>. QED BY <1>2, <2>1 DEF TriggerInv
<1>3. CASE StartCycle
  <2>1. CASE UNCHANGED <<triggered, check, failed>>
    BY <1>2, <1>3, <2>1 DEF StartCycle
  <2>2. ASSUME NEW new \in [Types -> BOOLEAN], triggered' = new,
               check' = [t \in Types |-> [step |-> IF new[t] THEN "create" ELSE "resolve", row |-> 0]]
        PROVE  TriggerInv'
    <3>1. \A t \in Types : check'[t].step = IF triggered'[t] THEN "create" ELSE "resolve"
      BY <2>2
    <3>. QED BY <3>1 DEF TriggerInv
  <2>. QED BY <1>3, <2>1, <2>2 DEF StartCycle
<1>4. CASE EndCycle \/ Quiet \/ UNCHANGED vars \/ \E k \in Acks : AckSelect(k)
  BY <1>2, <1>4 DEF EndCycle, Quiet, vars, AckSelect
<1>5. ASSUME NEW k \in Acks, AckCommit(k) PROVE TriggerInv'
  <2>1. UNCHANGED <<triggered, check, failed>> /\ ack[k].row \in 1..Len(alerts)
    BY <1>1, <1>5 DEF AckCommit, TypeOK, Rows
  <2>2. CASE alerts' = alerts
    BY <1>2, <2>1, <2>2
  <2>3. CASE Update(ack[k].row, "ACKNOWLEDGED")
    <3>1. /\ Len(alerts') = Len(alerts)
          /\ \A j \in 1..Len(alerts) : alerts'[j].type = alerts[j].type
          /\ \A j \in 1..Len(alerts) : j # ack[k].row => alerts'[j] = alerts[j]
          /\ alerts'[ack[k].row].status = "ACKNOWLEDGED"
      BY <1>1, <2>1, <2>3, UpdateKeeps DEF Statuses
    <3>2. ASSUME NEW t \in Types PROVE Active(t) # {} => Active(t)' # {}
      <4>1. \A j \in Active(t) : alerts'[j].status \in {"OPEN", "ACKNOWLEDGED"}
        BY <3>1 DEF Active, RowsOf
      <4>. QED BY <1>1, <3>1, <4>1, StaysActive
    <3>3. \A t \in Types : check[t].step = "resolving" => check[t].row \in 1..Len(alerts)
      BY <1>1 DEF TypeOK, Rows
    <3>. QED BY <2>1, <3>1, <3>2, <3>3 DEF TriggerInv
  <2>. QED BY <1>5, <2>2, <2>3 DEF AckCommit
<1>6. CASE Crash
  BY <1>6 DEF Crash, TriggerInv, NoCheck
<1>. QED BY <1>3, <1>4, <1>5, <1>6, TriggerCheckStep DEF Next

\* After a cycle an exceeded metric whose check met no database error has an active
\* alert, whatever acknowledgements and restarts came between its steps: only its
\* own check resolves alerts of its type, and that branch is not the one that ran.
THEOREM TriggeredAlwaysHasAlert == Spec => []TriggeredHasActiveAlert
<1>1. AlertInv /\ TriggerInv => TriggeredHasActiveAlert
  BY DEF AlertInv, TypeOK, TriggerInv, TriggeredHasActiveAlert
<1>2. Init => AlertInv /\ TriggerInv
  BY AlertsInit, TriggerInit
<1>3. AlertInv /\ TriggerInv /\ [Next]_vars => (AlertInv /\ TriggerInv)'
  BY AlertsStep, TriggerStep
<1>. QED BY <1>1, <1>2, <1>3, PTL DEF Spec
=============================================================================
