---------------------------- MODULE BudgetJudgement ----------------------------
(***************************************************************************)
(* One budget, judged again and again while an administrator edits it, the *)
(* spend moves, figures come and go and months end.  A conditional write   *)
(* retries evaluate() against what is stored, so the judgements of one     *)
(* state form one sequence, whichever checks made them.                    *)
(***************************************************************************)
EXTENDS BudgetEvaluate

CONSTANTS
  Amounts,       \* amounts an administrator sets
  Thresholds,    \* percentages of the amount that can be warned at
  Spends,        \* what a month can have cost so far, in cents
  MaxEdits,      \* bound: edits of the budget
  MaxMonths      \* bound: months

ASSUME AmountsAssumption == Amounts \subseteq Nat \ {0} /\ Amounts # {}
ASSUME ThresholdsAssumption == Thresholds \subseteq Nat \ {0}
ASSUME SpendsAssumption == Spends \subseteq Nat /\ 0 \in Spends
ASSUME BoundsAssumption == MaxEdits \in Nat /\ MaxMonths \in Nat \ {0}

VARIABLES
  budget,    \* the saved Budget
  month,     \* the UTC month
  spent,     \* what the month cost so far
  state,     \* the saved BudgetState
  reached,   \* Evaluation.reached of the last judgement
  \* history
  announced, \* thresholds announced this month
  warned,    \* of those, the ones with no edit of the amount since
  earned,    \* amounts that a judgement of this month found fully spent
  told,      \* the last notice of a block or of its lifting
  edits      \* counter of MaxEdits

vars == <<budget, month, spent, state, reached, announced, warned, earned, told, edits>>

Budgets == [amount : Amounts, thresholds : SUBSET Thresholds, blocks : BOOLEAN]

Init ==
  /\ budget \in Budgets
  /\ month = 1 /\ spent = 0
  /\ state = Blank
  /\ reached = {} /\ announced = {} /\ warned = {} /\ earned = {} /\ told = "unblocked" /\ edits = 0

\* set_budget: an edit changes nothing but the budget; a check judges it later.
SetBudget(b) ==
  /\ edits < MaxEdits /\ b # budget
  /\ budget' = b
  /\ warned' = IF b.amount = budget.amount THEN warned ELSE {}
  /\ edits' = edits + 1
  /\ UNCHANGED <<month, spent, state, reached, announced, earned, told>>

\* Usage adds up, and a corrected price may lower it.
Spend(n) ==
  /\ n # spent /\ spent' = n
  /\ UNCHANGED <<budget, month, state, reached, announced, warned, earned, told, edits>>

NextMonth ==
  /\ month < MaxMonths
  /\ month' = month + 1 /\ spent' = 0
  /\ UNCHANGED <<budget, state, reached, announced, warned, earned, told, edits>>

\* One judgement, with this month's figures or without.
Judge(figures) ==
  LET result == Evaluate(budget, state, figures, month)
      fresh  == state.month # month IN
  /\ state' = result.state
  /\ reached' = result.reached
  /\ announced' = (IF fresh THEN {} ELSE announced) \cup result.reached
  /\ warned' = (IF fresh THEN {} ELSE warned) \cup result.reached
  /\ earned' = (IF fresh THEN {} ELSE earned)
                 \cup (IF figures # None /\ Reached(budget, figures, 100)
                       THEN {budget.amount} ELSE {})
  \* A judgement may lift the block and block anew: its last notice counts.
  /\ told' = IF result.blocked THEN "blocked"
             ELSE IF result.lifted # None THEN "unblocked" ELSE told
  /\ UNCHANGED <<budget, month, spent, edits>>

Next ==
  \/ \E b \in Budgets : SetBudget(b)
  \/ \E n \in Spends : Spend(n)
  \/ NextMonth
  \/ \E figures \in {None, spent} : Judge(figures)

Spec == Init /\ [][Next]_vars

(***************************************************************************)
(* Properties                                                              *)
(***************************************************************************)
States ==
  [month : {None} \cup 1 .. MaxMonths, amount : {None} \cup Amounts,
   crossed : SUBSET Thresholds, blocked : BOOLEAN]

\* Types and limits.
TypeOK ==
  /\ budget \in Budgets /\ month \in 1 .. MaxMonths /\ spent \in Spends
  /\ state \in States /\ reached \subseteq Thresholds
  /\ announced \subseteq Thresholds /\ warned \subseteq Thresholds
  /\ earned \subseteq Amounts /\ told \in {"blocked", "unblocked"}
  /\ edits \in 0 .. MaxEdits

\* A blocked cost center spent all of the amount that its state says it was judged
\* against, at some judgement of that month: a raise, even one that had to wait for
\* figures, never leaves the block of the old amount behind.
BlockIsEarned == state.blocked => state.amount \in earned

\* No threshold is swallowed: what a month counts as reached was announced in that month.
CrossedWasAnnounced == state.crossed \subseteq announced

\* The last notice of a block or its lifting tells what is saved, whatever lifted it.
NoticesTellState == (told = "blocked") <=> state.blocked

\* A threshold is reached once a month: spend that drops, a threshold taken off and put
\* back, and months without figures announce nothing twice while the amount stands.
WarnedOnce == [][state' # state => reached' \cap warned = {} \/ state.month # month]_vars

(***************************************************************************)
(* The inductive invariant: a warning that stands was given for the amount *)
(* that the budget still has, so nothing re-arms it.                       *)
(***************************************************************************)
WarningStands == warned # {} => state.amount = budget.amount /\ warned \subseteq state.crossed

IInv ==
  TypeOK /\ BlockIsEarned /\ CrossedWasAnnounced /\ NoticesTellState /\ WarningStands
===============================================================================
