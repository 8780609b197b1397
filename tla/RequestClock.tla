---------------------------- MODULE RequestClock ----------------------------
(***************************************************************************)
(* What the parts of the API gateway share: the requests that are sent,    *)
(* and the wall clock that the process and Redis read (time.time(),        *)
(* datetime.now, a time to live), in units of some seconds.                *)
(***************************************************************************)
EXTENDS Naturals, FiniteSets

CONSTANTS Requests,  \* each is sent once
          MaxTime    \* bound on the clock

ASSUME ClockAssumption == IsFiniteSet(Requests) /\ MaxTime \in Nat

VARIABLE now

ClockInit == now = 0

Tick == now < MaxTime /\ now' = now + 1

=============================================================================
