----------------------------- MODULE AuditTrail -----------------------------
(***************************************************************************)
(* What the audit log promises: a list of events that only grows, at its   *)
(* end, one event at a time, and never names an event twice.               *)
(***************************************************************************)
EXTENDS Sequences, SequencesExt

CONSTANT Events

VARIABLE trail

Init == trail = <<>>

Record(e) ==
  /\ e \notin ToSet(trail)
  /\ trail' = Append(trail, e)

Next == \E e \in Events : Record(e)

Spec == Init /\ [][Next]_trail
=============================================================================
