---------------------------- MODULE BudgetEvaluate ----------------------------
(***************************************************************************)
(* How a budget is judged: evaluate() in budgets.py, a pure function of the*)
(* budget, its saved state, what the month cost so far and the month.      *)
(*                                                                         *)
(* The spend is in cents and the amount in dollars, as reached() compares  *)
(* them.  Names, dates, forecasts and the wording of notices are left out, *)
(* and so is the resending of notices that the inline sender of an earlier *)
(* release still owns (delivery_owner "legacy").                           *)
(***************************************************************************)
EXTENDS Naturals, FiniteSets

CONSTANT None   \* a value that is absent: no figures, no amount or month judged yet

ASSUME NoneAssumption == None \notin Nat /\ None \notin {"newMonth", "blockingOff", "budgetRaised"}

\* Budget.reached: the spend is at least this share of the amount, in percent.
Reached(budget, spent, threshold) == spent >= budget.amount * threshold

\* A state that has judged nothing, and the state a new month starts from.
Blank == [month |-> None, amount |-> None, crossed |-> {}, blocked |-> FALSE]

\* Mutant: a new month keeps the thresholds of the last one.
RolloverKeepsCrossed(state, month) ==
  IF state.month = month THEN state
  ELSE [Blank EXCEPT !.month = month, !.crossed = state.crossed]

Rollover(state, month) ==
  IF state.month = month THEN state ELSE [Blank EXCEPT !.month = month]

\* The amount was edited since the state was last judged with figures.
Changed(budget, state) == state.amount # None /\ state.amount # budget.amount

\* Mutant: any drop of the spend re-arms the thresholds it no longer reaches.
KeptOnDrop(budget, state, spent) ==
  IF spent # None THEN {t \in state.crossed : Reached(budget, spent, t)} ELSE state.crossed

\* A new amount re-arms the thresholds that the spend no longer reaches.
Kept(budget, state, spent) ==
  IF Changed(budget, state) /\ spent # None
  THEN {t \in state.crossed : Reached(budget, spent, t)}
  ELSE state.crossed

\* Mutant: the month's end lifts a block without a word.
LiftReasonSilent(budget, state, spent, month) ==
  CASE state.month = month /\ state.blocked /\ ~budget.blocks -> "blockingOff"
    [] state.month = month /\ state.blocked /\ budget.blocks
         /\ Changed(budget, state) /\ spent # None /\ ~Reached(budget, spent, 100)
                                                              -> "budgetRaised"
    [] OTHER                                                  -> None

\* Why this judgement lifts the block, if it does.
LiftReason(budget, state, spent, month) ==
  CASE state.month # month /\ state.blocked                   -> "newMonth"
    [] state.month = month /\ state.blocked /\ ~budget.blocks -> "blockingOff"
    [] state.month = month /\ state.blocked /\ budget.blocks
         /\ Changed(budget, state) /\ spent # None /\ ~Reached(budget, spent, 100)
                                                              -> "budgetRaised"
    [] OTHER                                                  -> None

\* Mutant: a new amount counts as judged even without figures.
JudgedAmountAlways(budget, state, spent) == budget.amount

\* A new amount judged without figures stays pending for the next check that has them.
JudgedAmount(budget, state, spent) ==
  IF spent # None \/ ~Changed(budget, state) THEN budget.amount ELSE state.amount

\* The new state, the thresholds reached now, whether it blocks now, and why it lifts.
Evaluate(budget, saved, spent, month) ==
  LET state  == Rollover(saved, month)
      kept   == Kept(budget, state, spent)
      lifted == LiftReason(budget, saved, spent, month)
      still  == state.blocked /\ lifted = None
      newly  == IF spent = None THEN {}
                ELSE {t \in budget.thresholds \ kept : Reached(budget, spent, t)}
      blocks == spent # None /\ budget.blocks /\ ~still /\ Reached(budget, spent, 100)
  IN  [state   |-> [month   |-> month,
                    amount  |-> JudgedAmount(budget, state, spent),
                    crossed |-> kept \cup newly,
                    blocked |-> still \/ blocks],
       reached |-> newly,
       blocked |-> blocks,
       lifted  |-> lifted]
===============================================================================
