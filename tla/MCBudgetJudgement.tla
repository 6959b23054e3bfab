--------------------------- MODULE MCBudgetJudgement ---------------------------
(* TLC instance of BudgetJudgement. *)
EXTENDS BudgetJudgement
===============================================================================
