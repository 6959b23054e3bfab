------------------------------ MODULE MCBudgetCheck ------------------------------
(* TLC instance of BudgetCheck: two tasks, each in an instance of its own. *)
EXTENDS BudgetCheck, TLC

TwoProcesses == [t \in Tasks |-> t]
SymmetricTasks == Permutations(Tasks)
==================================================================================
