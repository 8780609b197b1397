------------------------------ MODULE LedgerMC ------------------------------
(***************************************************************************)
(* Constants of the model-checking runs of TradingLedger.  With a price of *)
(* 10 every notional is a multiple of 10, the largest leverage a standard  *)
(* user gets at these sizes.                                               *)
(***************************************************************************)
EXTENDS TradingLedger, TLC

CONSTANTS u1, u2, u3, r1, r2, r3, r4, r5

AllStandard == [u \in Users |-> "standard"]
AllInstitutional == [u \in Users |-> "institutional"]
ReqSymmetry == Permutations(Reqs)
UserSymmetry == Permutations(Users)
Symmetry == ReqSymmetry \cup UserSymmetry

PlusMinusOne == {-1, 1}
PlusMinusTwo == {-2, 1}
=============================================================================
