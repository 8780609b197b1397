----------------------------- MODULE AuditChain -----------------------------
(***************************************************************************)
(* The audit log of audit/service.py.  emit() schedules one task per event *)
(* and returns; the tasks take a module-level asyncio.Lock, read the hash  *)
(* of the newest row and insert their own row linked to it.  The lock is    *)
(* fair and the event loop starts tasks in the order of their creation, so *)
(* the tasks queue up in the order of the emit() calls.                    *)
(*                                                                         *)
(* A hash is represented by what it covers: the sequence of the events that *)
(* were hashed into it, the newest last.  SHA-256 is taken to be injective *)
(* and created_at to tell any two events apart.  <<>> is a NULL hash.       *)
(***************************************************************************)
EXTENDS Naturals, Sequences, SequencesExt

CONSTANTS Events,
          Legacy,      \* rows written before the chain existed, with a NULL hash
          None,
          MaxCrashes   \* bound on restarts of the process

ASSUME AuditAssumption ==
  /\ Legacy \in Nat /\ MaxCrashes \in Nat
  /\ None \notin Events

VARIABLES
  task,      \* [Events -> where the event is]
  emitted,   \* the events in the order of their emit() calls
  queue,     \* the tasks of this process that hold (first) or await the lock
  prev,      \* [Events -> the hash the event's task has read]
  log,       \* the audit_logs table by id
  crashes    \* restarts left

vars == <<task, emitted, queue, prev, log, crashes>>

Null == <<>>
LegacyRow == [event |-> None, prev |-> Null, hash |-> Null]

Init ==
  /\ task = [e \in Events |-> "idle"]
  /\ emitted = <<>>
  /\ queue = <<>>
  /\ prev = [e \in Events |-> Null]
  /\ log = [i \in 1..Legacy |-> LegacyRow]
  /\ crashes = MaxCrashes
-----------------------------------------------------------------------------
\* Defective variant: the hash does not cover the previous one.
ComputeRowHashAlone(e, p) == <<e>>

ComputeRowHash(e, p) == Append(p, e)

NewestHash == IF log = <<>> THEN Null ELSE log[Len(log)].hash

Row(e) == [event |-> e, prev |-> prev[e], hash |-> ComputeRowHash(e, prev[e])]

\* The audited action is committed by its handler.
Act(e) ==
  /\ task[e] = "idle"
  /\ task' = [task EXCEPT ![e] = "acted"]
  /\ UNCHANGED <<emitted, queue, prev, log, crashes>>

\* Defective variant: a new task overtakes those that wait for the lock.
EmitBarging(e) ==
  /\ task[e] = "acted"
  /\ task' = [task EXCEPT ![e] = "waiting"]
  /\ emitted' = Append(emitted, e)
  /\ queue' = IF queue = <<>> THEN <<e>> ELSE <<Head(queue), e>> \o Tail(queue)
  /\ UNCHANGED <<prev, log, crashes>>

\* Then the handler calls emit().
Emit(e) ==
  /\ task[e] = "acted"
  /\ task' = [task EXCEPT ![e] = "waiting"]
  /\ emitted' = Append(emitted, e)
  /\ queue' = Append(queue, e)
  /\ UNCHANGED <<prev, log, crashes>>

\* Defective variant: the newest hash is read without the lock.
ReadUnlocked(e) ==
  /\ task[e] = "waiting"
  /\ task' = [task EXCEPT ![e] = "read"]
  /\ prev' = [prev EXCEPT ![e] = NewestHash]
  /\ UNCHANGED <<emitted, queue, log, crashes>>

HasLock(e) == queue # <<>> /\ Head(queue) = e

\* The task has the lock and selects the newest row's hash.
Read(e) ==
  /\ task[e] = "waiting" /\ HasLock(e)
  /\ task' = [task EXCEPT ![e] = "read"]
  /\ prev' = [prev EXCEPT ![e] = NewestHash]
  /\ UNCHANGED <<emitted, queue, log, crashes>>

Write(e) ==
  /\ task[e] = "read"
  /\ log' = Append(log, Row(e))
  /\ task' = [task EXCEPT ![e] = "written"]
  /\ queue' = Tail(queue)
  /\ UNCHANGED <<emitted, prev, crashes>>

\* Defective variant: the exception escapes without releasing the lock.
FailKeepingLock(e) ==
  /\ HasLock(e)
  /\ log' = log
  /\ task' = [task EXCEPT ![e] = "lost"]
  /\ UNCHANGED <<emitted, queue, prev, crashes>>

\* The database fails the SELECT, the INSERT or the COMMIT.  The exception is
\* logged, the lock released, the event gone; a COMMIT that failed for the
\* process may have succeeded in the database.
Fail(e) ==
  /\ HasLock(e)
  /\ log' = log \/ (task[e] = "read" /\ log' = Append(log, Row(e)))
  /\ task' = [task EXCEPT ![e] = "lost"]
  /\ queue' = Tail(queue)
  /\ UNCHANGED <<emitted, prev, crashes>>

\* The process dies: its tasks are gone, and so are the emit() calls that
\* committed actions were about to make.
Crash ==
  /\ crashes > 0 /\ crashes' = crashes - 1
  /\ \/ log' = log
     \/ \E e \in Events : task[e] = "read" /\ log' = Append(log, Row(e))
  /\ task' = [e \in Events |-> IF task[e] \in {"acted", "waiting", "read"}
                               THEN "lost" ELSE task[e]]
  /\ queue' = <<>>
  /\ UNCHANGED <<emitted, prev>>

Quiet ==
  /\ \A e \in Events : task[e] \in {"written", "lost"}
  /\ UNCHANGED vars

Run(e) == Read(e) \/ Write(e) \/ Fail(e)

Next ==
  \/ \E e \in Events : Act(e) \/ Emit(e) \/ Run(e)
  \/ Crash
  \/ Quiet

Spec == Init /\ [][Next]_vars

\* The event loop runs the tasks; actions and crashes are not promised.
FairSpec == Spec /\ \A e \in Events : WF_vars(Run(e))
-----------------------------------------------------------------------------
(***************************************************************************)
(* GET /audit/verify-chain (audit/routes.py), which only reads: the oldest *)
(* rows, up to a limit, each against the hash of its own columns.          *)
(***************************************************************************)
\* Defective variant: the walk ends at a legacy row.
MismatchedUpToLegacy(rows, limit) ==
  {i \in 1 .. Len(rows) :
     /\ i <= limit /\ \A j \in 1 .. i : rows[j].hash # Null
     /\ rows[i].hash # ComputeRowHash(rows[i].event, rows[i].prev)}

\* The rows whose hash is not what it should be; legacy rows are skipped.
Mismatched(rows, limit) ==
  {i \in 1 .. Len(rows) :
     /\ i <= limit /\ rows[i].hash # Null
     /\ rows[i].hash # ComputeRowHash(rows[i].event, rows[i].prev)}

VerifyChain(rows, limit) ==
  LET mismatched == Mismatched(rows, limit)
      broken     == Min(mismatched)
  IN  IF mismatched = {}
      THEN [integrity |-> "OK", broken_at_id |-> None, checked |-> Min({limit, Len(rows)})]
      ELSE [integrity |-> "BROKEN", broken_at_id |-> broken, checked |-> broken - 1]
-----------------------------------------------------------------------------
(***************************************************************************)
(* Properties                                                              *)
(***************************************************************************)
RowType == [event: Events \cup {None}, prev: Seq(Events), hash: Seq(Events)]

\* Every variable keeps its type, and the queue for the lock is made of exactly
\* the tasks that are running.
TypeOK ==
  /\ task \in [Events -> {"idle", "acted", "waiting", "read", "written", "lost"}]
  /\ emitted \in Seq(Events)
  /\ queue \in Seq(Events)
  /\ \A e \in Events : task[e] \in {"waiting", "read"} <=> e \in ToSet(queue)
  /\ prev \in [Events -> Seq(Events)]
  /\ log \in Seq(RowType)
  /\ crashes \in Nat

\* Each row is linked to its predecessor (audit/service.py: "prev_hash = row_hash
\* of the immediately preceding row"), whatever tasks run, fail or die, and after
\* every restart.
ChainLinked ==
  \A i \in Legacy + 1 .. Len(log) :
    /\ log[i].prev = (IF i = 1 THEN Null ELSE log[i - 1].hash)
    /\ log[i].hash = ComputeRowHash(log[i].event, log[i].prev)

\* The rows are in the order in which the events were emitted, although each is
\* written by a task of its own and any of them may fail.
LogFollowsEmission ==
  \A i, j \in Legacy + 1 .. Len(log) : i < j =>
    \E m, n \in 1 .. Len(emitted) :
      m < n /\ emitted[m] = log[i].event /\ emitted[n] = log[j].event

\* Row i with one of its columns changed, to what another event or row has there.
Tampered(i) ==
  LET row    == log[i]
      hashes == {log[j].hash : j \in 1 .. Len(log)}
  IN  {[row EXCEPT !.event = e] : e \in Events \ {row.event}}
        \cup {[row EXCEPT !.prev = h] : h \in hashes \ {row.prev}}
        \cup {[row EXCEPT !.hash = h] : h \in hashes \ {row.hash, Null}}

\* verify-chain finds nothing wrong with the log that the tasks have written, legacy rows,
\* failures and restarts included, and finds any one column of a chained row that was
\* changed, and where (tests/test_kpi_audit_completeness.py).
TamperingIsFound ==
  /\ \A limit \in 1 .. Len(log) : VerifyChain(log, limit).integrity = "OK"
  /\ \A i \in Legacy + 1 .. Len(log) : \A row \in Tampered(i) :
       VerifyChain([log EXCEPT ![i] = row], Len(log))
         = [integrity |-> "BROKEN", broken_at_id |-> i, checked |-> i - 1]

\* Every event handed to emit() is written or given up: a task that fails does not
\* keep the lock from the tasks behind it.
EveryTaskEnds ==
  \A e \in Events : task[e] \in {"waiting", "read"} ~> task[e] \in {"written", "lost"}

Trail == INSTANCE AuditTrail WITH trail <- NewestHash

\* The newest row's hash covers a list of events that only grows, at its end, and
\* names no event twice: no event is dropped from the chain by a later one.
TrailSpec == Trail!Spec
=============================================================================
