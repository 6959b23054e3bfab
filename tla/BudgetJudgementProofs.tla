------------------------- MODULE BudgetJudgementProofs -------------------------
(***************************************************************************)
(* Proofs about BudgetEvaluate and BudgetJudgement, for all amounts,       *)
(* thresholds and spends.                                                  *)
(***************************************************************************)
EXTENDS BudgetJudgement, TLAPS

\* An amount is a number, and None is not one.
LEMMA AmountsAreNumbers == None \notin Amounts /\ Amounts \subseteq Nat
BY AmountsAssumption, NoneAssumption

\* What a judgement returns, as evaluate() leaves it.
LEMMA EvaluateTyped ==
  ASSUME TypeOK, NEW figures \in {None, spent}
  PROVE  LET result == Evaluate(budget, state, figures, month) IN
           /\ result.state \in States
           /\ result.reached \subseteq Thresholds
           /\ result.blocked \in BOOLEAN
<1> DEFINE rolled == Rollover(state, month)
           result == Evaluate(budget, state, figures, month)
<1>1. rolled \in States
  BY DEF Rollover, Blank, States, TypeOK
<1>2. Kept(budget, rolled, figures) \subseteq Thresholds
  BY <1>1 DEF Kept, States
<1>3. JudgedAmount(budget, rolled, figures) \in {None} \cup Amounts
  BY <1>1 DEF JudgedAmount, States, TypeOK, Budgets
<1>4. result.reached \subseteq Thresholds
  BY DEF Evaluate, TypeOK, Budgets
<1>5. result.state.blocked \in BOOLEAN /\ result.blocked \in BOOLEAN
  BY DEF Evaluate
<1>6. result.state.crossed \subseteq Thresholds
  BY <1>2, <1>4 DEF Evaluate
<1>7. result.state =
        [month |-> month, amount |-> JudgedAmount(budget, rolled, figures),
         crossed |-> result.state.crossed, blocked |-> result.state.blocked]
  BY DEF Evaluate
<1>8. month \in {None} \cup 1 .. MaxMonths
  BY DEF TypeOK
<1> HIDE DEF result, rolled
<1>9. result.state \in States
  BY <1>3, <1>5, <1>6, <1>7, <1>8 DEF States
<1> QED
  BY <1>4, <1>5, <1>9 DEF result

\* The two ways a judgement leaves the cost center blocked: a block of this month that
\* nothing lifts, or one that the figures earn now; and it lifts only what was blocked.
LEMMA BlockAfterJudgement ==
  ASSUME NEW figures
  PROVE  LET result == Evaluate(budget, state, figures, month) IN
           /\ result.blocked =>
                result.state.blocked /\ figures # None /\ Reached(budget, figures, 100)
           /\ result.state.blocked /\ ~result.blocked =>
                state.month = month /\ state.blocked /\ result.lifted = None
           /\ result.lifted # None /\ ~result.blocked => ~result.state.blocked
           /\ result.lifted = None /\ ~result.blocked /\ ~result.state.blocked =>
                ~state.blocked
<1> DEFINE result == Evaluate(budget, state, figures, month)
           rolled == Rollover(state, month)
<1>1. /\ result.lifted = LiftReason(budget, state, figures, month)
      /\ result.blocked <=> /\ figures # None /\ budget.blocks /\ Reached(budget, figures, 100)
                            /\ ~(rolled.blocked /\ result.lifted = None)
      /\ result.state.blocked <=> (rolled.blocked /\ result.lifted = None) \/ result.blocked
  BY DEF Evaluate
<1> HIDE DEF result
<1>2. CASE state.month = month
  <2>1. rolled = state
    BY <1>2 DEF Rollover
  <2>2. ~state.blocked => result.lifted = None
    BY <1>1, <1>2 DEF LiftReason
  <2> QED
    BY <1>1, <1>2, <2>1, <2>2 DEF result
<1>3. CASE state.month # month
  <2>1. rolled.blocked = FALSE
    BY <1>3 DEF Rollover, Blank
  <2>2. state.blocked => result.lifted # None
    BY <1>1, <1>3, NoneAssumption DEF LiftReason
  <2> QED
    BY <1>1, <2>1, <2>2 DEF result
<1> QED
  BY <1>2, <1>3

LEMMA InitIInv == Init => IInv
<1> SUFFICES ASSUME Init PROVE IInv
  OBVIOUS
<1>1. TypeOK
  BY SpendsAssumption, BoundsAssumption
  DEF Init, TypeOK, States, Blank, Budgets
<1> QED
  BY <1>1 DEF Init, IInv, BlockIsEarned, CrossedWasAnnounced, NoticesTellState,
              WarningStands, Blank

LEMMA SetBudgetStep ==
  ASSUME IInv, NEW b \in Budgets, SetBudget(b)
  PROVE  IInv'
<1>1. TypeOK'
  BY BoundsAssumption DEF IInv, TypeOK, SetBudget
<1>2. WarningStands'
  BY DEF IInv, WarningStands, SetBudget
<1> QED
  BY <1>1, <1>2 DEF IInv, BlockIsEarned, CrossedWasAnnounced, NoticesTellState, SetBudget

LEMMA SpendStep ==
  ASSUME IInv, NEW n \in Spends, Spend(n)
  PROVE  IInv'
BY DEF IInv, TypeOK, BlockIsEarned, CrossedWasAnnounced, NoticesTellState, WarningStands, Spend

LEMMA NextMonthStep ==
  ASSUME IInv, NextMonth
  PROVE  IInv'
BY SpendsAssumption, BoundsAssumption
DEF IInv, TypeOK, BlockIsEarned, CrossedWasAnnounced, NoticesTellState, WarningStands, NextMonth

LEMMA JudgeStep ==
  ASSUME IInv, NEW figures \in {None, spent}, Judge(figures)
  PROVE  IInv'
<1> DEFINE result == Evaluate(budget, state, figures, month)
           rolled == Rollover(state, month)
           fresh  == state.month # month
<1>1. /\ result.state \in States /\ result.reached \subseteq Thresholds
      /\ result.blocked \in BOOLEAN
  BY EvaluateTyped DEF IInv
<1>2. state' = result.state /\ reached' = result.reached
  BY DEF Judge
<1>3. budget' = budget /\ month' = month /\ spent' = spent /\ edits' = edits
  BY DEF Judge
<1>4. TypeOK'
  <2>1. announced' \subseteq Thresholds /\ warned' \subseteq Thresholds
    BY <1>1 DEF Judge, IInv, TypeOK
  <2>2. earned' \subseteq Amounts
    BY DEF Judge, IInv, TypeOK, Budgets
  <2>3. told' \in {"blocked", "unblocked"}
    BY DEF Judge, IInv, TypeOK
  <2> QED
    BY <1>1, <1>2, <1>3, <2>1, <2>2, <2>3 DEF IInv, TypeOK
<1>5. BlockIsEarned'
  <2> SUFFICES ASSUME result.state.blocked
               PROVE  result.state.amount \in earned'
    BY <1>2 DEF BlockIsEarned
  <2>1. CASE result.blocked
    <3>1. figures # None /\ Reached(budget, figures, 100)
      BY <2>1, BlockAfterJudgement
    <3>2. result.state.amount = budget.amount
      BY <3>1 DEF Evaluate, JudgedAmount
    <3> QED
      BY <3>1, <3>2 DEF Judge
  <2>2. CASE ~result.blocked
    <3>1. state.month = month /\ state.blocked /\ result.lifted = None
      BY <2>2, BlockAfterJudgement
    <3>2. state.amount \in earned /\ earned \subseteq earned'
      BY <3>1 DEF IInv, BlockIsEarned, Judge
    <3>3. rolled = state
      BY <3>1 DEF Rollover
    <3>4. CASE result.state.amount = state.amount
      BY <3>2, <3>4
    <3>5. CASE result.state.amount # state.amount
      <4>1. /\ result.state.amount = budget.amount
            /\ figures # None \/ ~Changed(budget, state)
        BY <3>3, <3>5 DEF Evaluate, JudgedAmount
      <4>2. state.amount # None
        BY <3>2, AmountsAreNumbers DEF IInv, TypeOK
      <4>3. Changed(budget, state) /\ figures # None
        BY <3>5, <4>1, <4>2 DEF Changed
      <4>4. Reached(budget, figures, 100)
        BY <3>1, <4>3, NoneAssumption DEF Evaluate, LiftReason
      <4> QED
        BY <4>1, <4>3, <4>4 DEF Judge
    <3> QED
      BY <3>4, <3>5
  <2> QED
    BY <2>1, <2>2
<1>6. CrossedWasAnnounced'
  <2>1. result.state.crossed = Kept(budget, rolled, figures) \cup result.reached
    BY DEF Evaluate
  <2>2. Kept(budget, rolled, figures) \subseteq rolled.crossed
    BY DEF Kept
  <2>3. rolled.crossed \subseteq IF fresh THEN {} ELSE announced
    BY DEF Rollover, Blank, IInv, CrossedWasAnnounced
  <2> QED
    BY <1>2, <2>1, <2>2, <2>3 DEF CrossedWasAnnounced, Judge
<1>7. NoticesTellState'
  <2>1. CASE result.blocked
    <3>1. result.state.blocked
      BY <2>1, BlockAfterJudgement
    <3>2. told' = "blocked"
      BY <2>1 DEF Judge
    <3> QED
      BY <1>2, <3>1, <3>2 DEF NoticesTellState
  <2>2. CASE ~result.blocked /\ result.lifted # None
    <3>1. ~result.state.blocked
      BY <2>2, BlockAfterJudgement
    <3>2. told' = "unblocked"
      BY <2>2 DEF Judge
    <3> QED
      BY <1>2, <3>1, <3>2 DEF NoticesTellState
  <2>3. CASE ~result.blocked /\ result.lifted = None
    <3>1. result.state.blocked <=> state.blocked
      BY <2>3, BlockAfterJudgement
    <3>2. told' = told
      BY <2>3 DEF Judge
    <3> QED
      BY <1>2, <3>1, <3>2 DEF NoticesTellState, IInv
  <2> QED
    BY <2>1, <2>2, <2>3
<1>8. WarningStands'
  <2>1. CASE result.reached # {}
    <3>1. figures # None
      BY <2>1 DEF Evaluate
    <3>2. result.state.amount = budget.amount
      BY <3>1 DEF Evaluate, JudgedAmount
    <3>3. (IF fresh THEN {} ELSE warned) \subseteq Kept(budget, rolled, figures)
      BY DEF IInv, WarningStands, Rollover, Kept, Changed
    <3> QED
      BY <1>2, <1>3, <3>2, <3>3 DEF WarningStands, Judge, Evaluate
  <2>2. CASE result.reached = {}
    <3>1. warned' = IF fresh THEN {} ELSE warned
      BY <2>2 DEF Judge
    <3> SUFFICES ASSUME ~fresh, warned # {}
                 PROVE  WarningStands'
      BY <3>1 DEF WarningStands
    <3>2. rolled = state /\ ~Changed(budget, state)
      BY DEF Rollover, Changed, IInv, WarningStands
    <3>3. result.state.amount = budget.amount /\ result.state.crossed = state.crossed
      BY <2>2, <3>2 DEF Evaluate, JudgedAmount, Kept
    <3> QED
      BY <1>2, <1>3, <3>1, <3>3 DEF WarningStands, IInv
  <2> QED
    BY <2>1, <2>2
<1> QED
  BY <1>4, <1>5, <1>6, <1>7, <1>8 DEF IInv

LEMMA StepIInv == IInv /\ [Next]_vars => IInv'
<1> SUFFICES ASSUME IInv, [Next]_vars PROVE IInv'
  OBVIOUS
<1>1. CASE Next
  BY <1>1, SetBudgetStep, SpendStep, NextMonthStep, JudgeStep DEF Next
<1>2. CASE UNCHANGED vars
  BY <1>2 DEF vars, IInv, TypeOK, BlockIsEarned, CrossedWasAnnounced, NoticesTellState,
              WarningStands
<1> QED
  BY <1>1, <1>2

\* The strengthened invariant holds in every reachable state.
THEOREM Invariance == Spec => []IInv
BY InitIInv, StepIInv, PTL DEF Spec

\* Types: evaluate() returns a state of the same kind as the one it was given.
THEOREM TypeCorrect == Spec => []TypeOK
<1>1. IInv => TypeOK
  BY DEF IInv
<1> QED
  BY <1>1, Invariance, PTL

\* evaluate() never leaves a block standing that the amount on the state did not earn.
THEOREM BlocksAreEarned == Spec => []BlockIsEarned
<1>1. IInv => BlockIsEarned
  BY DEF IInv
<1> QED
  BY <1>1, Invariance, PTL

\* evaluate() puts no threshold on the state without announcing it in the same month.
THEOREM NothingSwallowed == Spec => []CrossedWasAnnounced
<1>1. IInv => CrossedWasAnnounced
  BY DEF IInv
<1> QED
  BY <1>1, Invariance, PTL

\* Whatever lifts a block, an edit, a raise or a new month, evaluate() tells of it.
THEOREM NoticesTruthful == Spec => []NoticesTellState
<1>1. IInv => NoticesTellState
  BY DEF IInv
<1> QED
  BY <1>1, Invariance, PTL

\* While the amount stands, evaluate() announces a threshold at most once a month.
THEOREM NeverWarnedTwice == Spec => WarnedOnce
<1>1. IInv /\ [Next]_vars =>
        [state' # state => reached' \cap warned = {} \/ state.month # month]_vars
  <2> SUFFICES ASSUME IInv, Next, state' # state, state.month = month
               PROVE  reached' \cap warned = {}
    OBVIOUS
  <2>1. PICK figures \in {None, spent} : Judge(figures)
    BY DEF Next, SetBudget, Spend, NextMonth
  <2>2. warned \subseteq Kept(budget, Rollover(state, month), figures)
    BY DEF IInv, WarningStands, Rollover, Kept, Changed
  <2> QED
    BY <2>1, <2>2 DEF Judge, Evaluate
<1> QED
  BY <1>1, Invariance, PTL DEF Spec, WarnedOnce
===============================================================================
