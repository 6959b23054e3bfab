----------------------------- MODULE MCUsageRollup -----------------------------
EXTENDS UsageRollup, TLC

CONSTANTS r1, r2
Symmetry == Permutations({r1, r2})
===============================================================================
