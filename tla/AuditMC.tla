------------------------------- MODULE AuditMC -------------------------------
EXTENDS AuditChain, TLC

CONSTANTS e1, e2, e3, e4

EventSymmetry == Permutations(Events)
=============================================================================
