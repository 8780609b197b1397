----------------------------- MODULE KpiAlerts -----------------------------
(***************************************************************************)
(* Compliance alerts: the loop of kpi_stream_publisher, the checks of      *)
(* kpi/alerting.py that it gathers (one task and one database session per  *)
(* alert type) and the acknowledge endpoint of alerts/routes.py, all on    *)
(* one kpi_alerts table.  Whether a metric exceeds its threshold is an     *)
(* input of every cycle.                                                   *)
(***************************************************************************)
EXTENDS Naturals, Sequences, FiniteSets

CONSTANTS Types,       \* alert types
          Acks,        \* acknowledge requests that will arrive
          MayFail,     \* whether the database may fail
          MayChurn,    \* whether KPI clients may come or go during a broadcast
          MaxAlerts,   \* bound on the rows of the table
          MaxCrashes   \* bound on restarts of the process

ASSUME AlertsAssumption ==
  MayFail \in BOOLEAN /\ MayChurn \in BOOLEAN /\ MaxAlerts \in Nat /\ MaxCrashes \in Nat

VARIABLES
  alerts,      \* the kpi_alerts table by id
  pub,         \* the publisher: asleep, checking or dead
  triggered,   \* [Types -> whether the metric exceeded its threshold in this cycle]
  check,       \* [Types -> the task of this cycle, and the row it has selected]
  failed,      \* the types whose check met a database error in this cycle
  ack,         \* [Acks -> the request, and the row it has selected]
  counted,     \* [Types -> the compliance_alerts_total counter]
  crashes      \* restarts left

vars == <<alerts, pub, triggered, check, failed, ack, counted, crashes>>

NoCheck == [step |-> "done", row |-> 0]

Init ==
  /\ alerts = <<>>
  /\ pub = "asleep"
  /\ triggered = [t \in Types |-> FALSE]
  /\ check = [t \in Types |-> NoCheck]
  /\ failed = {}
  /\ ack = [k \in Acks |-> [step |-> "idle", row |-> 0]]
  /\ counted = [t \in Types |-> 0]
  /\ crashes = MaxCrashes
-----------------------------------------------------------------------------
RowsOf(t, statuses) == {i \in 1..Len(alerts) : alerts[i].type = t /\ alerts[i].status \in statuses}

\* Defective variant: an alert of any status suppresses a new one.
OpenAny(t) == RowsOf(t, {"OPEN", "ACKNOWLEDGED", "RESOLVED"})

Open(t) == RowsOf(t, {"OPEN"})

Active(t) == RowsOf(t, {"OPEN", "ACKNOWLEDGED"})

Become(t, step, row) == check' = [check EXCEPT ![t] = [step |-> step, row |-> row]]
Done(t) == Become(t, "done", 0)
Update(i, status) == alerts' = [alerts EXCEPT ![i].status = status]
Insert(t) == alerts' = Append(alerts, [type |-> t, status |-> "OPEN"])

\* The publisher wakes up and reads the metrics; an error of the database in
\* trading_kpi ends the loop.
StartCycle ==
  /\ pub = "asleep"
  /\ \/ \E new \in [Types -> BOOLEAN] :
          /\ Cardinality({t \in Types : new[t]}) + Len(alerts) <= MaxAlerts
          /\ pub' = "checking" /\ triggered' = new /\ failed' = {}
          /\ check' = [t \in Types |-> [step |-> IF new[t] THEN "create" ELSE "resolve", row |-> 0]]
     \/ /\ MayFail /\ pub' = "dead"
        /\ UNCHANGED <<triggered, check, failed>>
  /\ UNCHANGED <<alerts, ack, counted, crashes>>

\* Defective variant: an alert that is there is not looked for.
CreateSelectUnchecked(t) ==
  /\ check[t].step = "create"
  /\ Become(t, "creating", 0)
  /\ UNCHANGED <<alerts, pub, triggered, failed, ack, counted, crashes>>

\* An open alert suppresses a new one; more than one raises, to the same effect.
CreateSelect(t) ==
  /\ check[t].step = "create"
  /\ IF Open(t) = {} THEN Become(t, "creating", 0) ELSE Done(t)
  /\ UNCHANGED <<alerts, pub, triggered, failed, ack, counted, crashes>>

\* The alert is inserted and counted.  A failed commit counts nothing, though the
\* row may be there.
CreateCommit(t) ==
  /\ check[t].step = "creating"
  /\ \/ Insert(t) /\ counted' = [counted EXCEPT ![t] = @ + 1] /\ failed' = failed
     \/ /\ MayFail /\ failed' = failed \cup {t} /\ counted' = counted
        /\ (Insert(t) \/ alerts' = alerts)
  /\ Done(t)
  /\ UNCHANGED <<pub, triggered, ack, crashes>>

\* Defective variant: an acknowledged alert is not looked for.
ResolveSelectOpen(t) ==
  /\ check[t].step = "resolve"
  /\ \/ \E i \in Open(t) : Open(t) = {i} /\ Become(t, "resolving", i)
     \/ Cardinality(Open(t)) # 1 /\ Done(t)
  /\ UNCHANGED <<alerts, pub, triggered, failed, ack, counted, crashes>>

\* The one active alert is selected; with several scalar_one_or_none raises, the
\* exception is logged and the check is over.
ResolveSelect(t) ==
  /\ check[t].step = "resolve"
  /\ \/ \E i \in Active(t) : Active(t) = {i} /\ Become(t, "resolving", i)
     \/ Cardinality(Active(t)) # 1 /\ Done(t)
  /\ UNCHANGED <<alerts, pub, triggered, failed, ack, counted, crashes>>

\* Defective variant: a failed resolve never returns.
ResolveCommitHanging(t) ==
  /\ check[t].step = "resolving"
  /\ \/ Update(check[t].row, "RESOLVED") /\ Done(t) /\ failed' = failed
     \/ MayFail /\ alerts' = alerts /\ Become(t, "hangs", 0) /\ failed' = failed \cup {t}
  /\ UNCHANGED <<pub, triggered, ack, counted, crashes>>

\* The UPDATE is by primary key.
ResolveCommit(t) ==
  /\ check[t].step = "resolving"
  /\ \/ Update(check[t].row, "RESOLVED") /\ failed' = failed
     \/ MayFail /\ alerts' = alerts /\ failed' = failed \cup {t}
  /\ Done(t)
  /\ UNCHANGED <<pub, triggered, ack, counted, crashes>>

\* All gathered tasks have returned, the snapshot is broadcast; like broadcast_market,
\* broadcast_kpi raises when its set of clients changes, and that ends the loop, too.
EndCycle ==
  /\ pub = "checking" /\ \A t \in Types : check[t].step = "done"
  /\ pub' = "asleep" \/ (MayChurn /\ pub' = "dead")
  /\ UNCHANGED <<alerts, triggered, check, failed, ack, counted, crashes>>
-----------------------------------------------------------------------------
AckSelect(k) ==
  /\ ack[k].step = "idle"
  /\ \E i \in 1..Len(alerts) :
       ack' = [ack EXCEPT ![k] = IF alerts[i].status = "OPEN"
                                 THEN [step |-> "selected", row |-> i]
                                 ELSE [step |-> "done", row |-> 0]]
  /\ UNCHANGED <<alerts, pub, triggered, check, failed, counted, crashes>>

\* The UPDATE is by primary key, whatever has become of the row.
AckCommit(k) ==
  /\ ack[k].step = "selected"
  /\ Update(ack[k].row, "ACKNOWLEDGED") \/ (MayFail /\ alerts' = alerts)
  /\ ack' = [ack EXCEPT ![k] = [step |-> "done", row |-> 0]]
  /\ UNCHANGED <<pub, triggered, check, failed, counted, crashes>>

\* The process dies and starts again; the counters start from zero.
Crash ==
  /\ crashes > 0 /\ crashes' = crashes - 1
  /\ pub' = "asleep"
  /\ triggered' = [t \in Types |-> FALSE]
  /\ check' = [t \in Types |-> NoCheck]
  /\ failed' = {}
  /\ ack' = [k \in Acks |-> IF ack[k].step = "idle" THEN ack[k] ELSE [step |-> "done", row |-> 0]]
  /\ counted' = [t \in Types |-> 0]
  /\ UNCHANGED alerts

\* The publisher is dead and every request has been answered or never came.
Quiet ==
  /\ pub = "dead" /\ \A k \in Acks : ack[k].step # "selected"
  /\ UNCHANGED vars

Check(t) == CreateSelect(t) \/ CreateCommit(t) \/ ResolveSelect(t) \/ ResolveCommit(t)

Next ==
  \/ StartCycle
  \/ \E t \in Types : Check(t)
  \/ EndCycle
  \/ \E k \in Acks : AckSelect(k) \/ AckCommit(k)
  \/ Crash
  \/ Quiet

Spec == Init /\ [][Next]_vars

\* The event loop runs the publisher, its checks and the requests it has begun.
FairSpec ==
  /\ Spec
  /\ WF_vars(StartCycle) /\ WF_vars(EndCycle)
  /\ \A t \in Types : WF_vars(Check(t))
  /\ \A k \in Acks : WF_vars(AckCommit(k))
-----------------------------------------------------------------------------
(***************************************************************************)
(* Properties                                                              *)
(***************************************************************************)
Statuses == {"OPEN", "ACKNOWLEDGED", "RESOLVED"}
Rows == 0..Len(alerts)

\* Every variable keeps its type, a selected row exists, and no check of a cycle
\* is running when the publisher sleeps or is dead.
TypeOK ==
  /\ alerts \in Seq([type: Types, status: Statuses])
  /\ pub \in {"asleep", "checking", "dead"}
  /\ triggered \in [Types -> BOOLEAN]
  /\ check \in [Types -> [step: {"create", "creating", "resolve", "resolving", "done"}, row: Rows]]
  /\ \A t \in Types : check[t].step = "resolving" => check[t].row # 0
  /\ pub # "checking" => \A t \in Types : check[t].step = "done"
  /\ failed \subseteq Types
  /\ ack \in [Acks -> [step: {"idle", "selected", "done"}, row: Rows]]
  /\ \A k \in Acks : ack[k].step = "selected" => ack[k].row # 0
  /\ counted \in [Types -> Nat]
  /\ crashes \in Nat

\* There is at most one open alert of a type (alerting.py: "one OPEN alert per type
\* at a time"), whatever fails, is acknowledged or restarted between the SELECT
\* and the INSERT; there is no unique index.
OneOpenAlert == \A t \in Types : \A i, j \in Open(t) : i = j

\* After a cycle in which a metric exceeded its threshold and the database did not
\* fail the check, there is an alert of that type that is open or was acknowledged,
\* not only one that an earlier cycle resolved.
TriggeredHasActiveAlert ==
  pub = "asleep" => \A t \in Types : triggered[t] /\ t \notin failed => Active(t) # {}

\* Every cycle comes to an end, whatever its checks meet.
EveryCycleEnds == pub = "checking" ~> pub # "checking"

\* When a metric stays below its threshold its alerts end up resolved
\* (alerting.py: "Auto-resolves alerts when the metric normalises").
NormalisedIsResolved ==
  \A t \in Types : <>[](~triggered[t]) => <>[](Active(t) = {})

\* They do if there is one active alert of the type at most, the publisher lives and the
\* database does not keep failing, also when an acknowledgement overwrites a resolution.
LoneAlertIsResolved ==
  \A t \in Types :
    <>[](/\ ~triggered[t] /\ t \notin failed /\ pub # "dead"
         /\ Cardinality(Active(t)) <= 1) => <>[](Active(t) = {})
=============================================================================
