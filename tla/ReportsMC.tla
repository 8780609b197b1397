------------------------------ MODULE ReportsMC ------------------------------
EXTENDS RegulatorReads, TLC

CONSTANTS o1, o2, o3, o4

OrderSymmetry == Permutations(Orders)
=============================================================================
