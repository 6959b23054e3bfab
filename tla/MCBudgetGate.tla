----------------------------- MODULE MCBudgetGate -----------------------------
EXTENDS BudgetGate, TLC

CONSTANTS c1, g1, g2, w1, w2, p1, p2

\* The writers run in two API instances, or as two tasks of one.
TwoProcesses == w1 :> p1 @@ w2 :> p2
OneProcess   == w1 :> p1 @@ w2 :> p1
===============================================================================
