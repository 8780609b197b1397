------------------------------ MODULE AlertsMC ------------------------------
EXTENDS KpiAlerts, TLC

CONSTANTS t1, t2, k1, k2

AlertSymmetry == Permutations(Types) \cup Permutations(Acks)
=============================================================================
