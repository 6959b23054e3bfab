--------------------------- MODULE BudgetCheckProofs ---------------------------
(***************************************************************************)
(* Proofs about BudgetCheck, for any number of tasks, saves and failures.  *)
(***************************************************************************)
EXTENDS BudgetCheck, TLAPS

LEMMA Bounds ==
  MaxSaves \in Nat /\ MaxStops \in Nat /\ MaxFailures \in Nat /\ MaxExpiries \in Nat
BY BoundsAssumption

LEMMA IdleIsSane == Idle \in TaskStates /\ Sane(Idle)
BY DEF Idle, TaskStates, Steps, Sane, Removing

\* Only t's memory changes, apart from the versions that a commit makes stale.
LEMMA MemoryAfter ==
  ASSUME task \in [Tasks -> TaskStates], NEW t \in Tasks, NEW s \in TaskStates,
         Becomes(t, s) \/ \E x : Commit(x, t, s)
  PROVE  /\ task' \in [Tasks -> TaskStates]
         /\ task'[t] = s
         /\ \A u \in Tasks \ {t} :
              \/ task'[u] = task[u]
              \/ task'[u] = [task[u] EXCEPT !.fresh = FALSE]
<1>1. CASE Becomes(t, s)
  BY <1>1 DEF Becomes
<1>2. CASE \E x : Commit(x, t, s)
  <2>1. task' = [u \in Tasks |-> IF u = t THEN s ELSE [task[u] EXCEPT !.fresh = FALSE]]
    BY <1>2 DEF Commit
  <2>2. \A u \in Tasks : [task[u] EXCEPT !.fresh = FALSE] \in TaskStates
    BY DEF TaskStates
  <2> QED
    BY <2>1, <2>2
<1> QED
  BY <1>1, <1>2

\* A step that leaves the budget, the notices and the last judgement alone keeps every
\* memory sane, if the one it writes is.
LEMMA QuietStep ==
  ASSUME IInv, NEW t \in Tasks, NEW s \in TaskStates, Sane(s),
         Becomes(t, s) \/ \E x : Commit(x, t, s),
         UNCHANGED <<budget, notices, judgedFor, removed, saves>>
  PROVE  /\ task' \in [Tasks -> TaskStates]
         /\ \A u \in Tasks : Sane(task[u])'
         /\ RecordsInv'
<1>1. /\ task' \in [Tasks -> TaskStates]
      /\ task'[t] = s
      /\ \A u \in Tasks \ {t} : task'[u] = task[u] \/ task'[u] = [task[u] EXCEPT !.fresh = FALSE]
  BY MemoryAfter DEF IInv, TypeOK
<1>2. RecordsInv'
  BY DEF IInv, RecordsInv, NoticesKnown, RemovalIsReal, Known
<1>3. ASSUME NEW u \in Tasks PROVE Sane(task[u])'
  <2>1. CASE u = t
    BY <1>1, <2>1 DEF Sane, Known
  <2>2. CASE task'[u] = task[u]
    BY <2>2 DEF IInv, Sane, Known
  <2>3. CASE task'[u] = [task[u] EXCEPT !.fresh = FALSE]
    BY <2>3 DEF IInv, Sane, Known, TypeOK, TaskStates
  <2> QED
    BY <1>1, <2>1, <2>2, <2>3
<1> QED
  BY <1>1, <1>2, <1>3

\* One step of a task that only moves its memory on to s; what is left of TypeOK is that
\* the other records keep their types.
LEMMA QuietTypes ==
  ASSUME IInv, NEW t \in Tasks, NEW s \in TaskStates, Sane(s),
         Becomes(t, s) \/ \E x : Commit(x, t, s),
         UNCHANGED <<budget, notices, judgedFor, removed, announced, saves>>,
         state' \in {None} \cup States, live' \in BOOLEAN, lease' \in {None} \cup Tasks,
         told' \in 0 .. Len(notices), stops' \in 0 .. MaxStops,
         failures' \in 0 .. MaxFailures, expiries' \in 0 .. MaxExpiries
  PROVE  IInv'
<1>1. /\ task' \in [Tasks -> TaskStates]
      /\ \A u \in Tasks : Sane(task[u])'
      /\ RecordsInv'
  BY QuietStep
<1>2. TypeOK'
  BY <1>1 DEF IInv, TypeOK
<1> QED
  BY <1>1, <1>2 DEF IInv

LEMMA FlagTyped == Flag \in {"none", "clear", "blocked"}
BY DEF Flag

LEMMA ReleasedTyped ==
  ASSUME TypeOK, NEW t \in Tasks
  PROVE  Released(t) \in {None} \cup Tasks
BY DEF Released, TypeOK

LEMMA TellTyped ==
  ASSUME TypeOK, Tell
  PROVE  /\ told' \in 0 .. Len(notices)
         /\ failures' \in 0 .. MaxFailures
         /\ live' \in BOOLEAN
<1>1. Len(notices) \in Nat
  BY DEF TypeOK
<1>2. Value \in BOOLEAN
  BY DEF Value
<1>3. live' \in BOOLEAN
  BY <1>2 DEF Tell, TypeOK
<1> QED
  BY <1>1, <1>3, Bounds DEF Tell, TypeOK

\* A judgement of a budget without thresholds leaves a state of the same kind.
LEMMA EvaluateTyped ==
  ASSUME NEW listed \in Budgets, NEW saved \in States, NEW figures
  PROVE  Evaluate(listed, saved, figures, Month).state \in States
<1> DEFINE rolled == Rollover(saved, Month)
           result == Evaluate(listed, saved, figures, Month)
<1>1. rolled \in States
  BY DEF Rollover, Blank, States
<1>2. Kept(listed, rolled, figures) = {}
  BY <1>1 DEF Kept, States
<1>3. JudgedAmount(listed, rolled, figures) \in {None} \cup Amounts
  BY <1>1 DEF JudgedAmount, States, Budgets
<1>4. result.reached = {}
  BY DEF Evaluate, Budgets
<1>5. result.state.crossed = {}
  BY <1>2, <1>4 DEF Evaluate
<1>6. result.state =
        [month |-> Month, amount |-> JudgedAmount(listed, rolled, figures),
         crossed |-> result.state.crossed, blocked |-> result.state.blocked]
  BY DEF Evaluate
<1>7. result.state.blocked \in BOOLEAN
  BY DEF Evaluate
<1> HIDE DEF result, rolled
<1>8. result.state \in States
  BY <1>3, <1>5, <1>6, <1>7 DEF States
<1> QED
  BY <1>8 DEF result

LEMMA BlankTyped == Blank \in States
BY DEF Blank, States

LEMMA InitIInv == Init => IInv
<1> SUFFICES ASSUME Init PROVE IInv
  OBVIOUS
<1>1. \A t \in Tasks : task[t] = Idle
  BY DEF Init
<1>2. task \in [Tasks -> TaskStates] /\ \A t \in Tasks : Sane(task[t])
  BY <1>1, IdleIsSane DEF Init
<1>3. notices = <<>> /\ notices \in Seq(Notices) /\ Len(notices) = 0
  BY DEF Init
<1>4. TypeOK
  <2>1. told \in 0 .. Len(notices)
    BY <1>3 DEF Init
  <2>2. live \in BOOLEAN /\ announced \subseteq removed
    BY DEF Init
  <2> HIDE DEF Init
  <2>3. Init
    OBVIOUS
  <2> QED
    BY <1>2, <1>3, <2>1, <2>2, <2>3, Bounds DEF Init, TypeOK
<1>5. RecordsInv
  BY <1>3 DEF Init, RecordsInv, NoticesKnown, RemovalIsReal
<1> QED
  BY <1>2, <1>4, <1>5 DEF IInv

(***************************************************************************)
(* Steps that change nothing but a memory, the state, the gateways or the  *)
(* lease.                                                                  *)
(***************************************************************************)
LEMMA ReadingStep ==
  ASSUME IInv, NEW t \in Tasks,
         \/ StartDelete(t) \/ ReadState(t) \/ Stage(t) \/ DeleteConflict(t)
         \/ NothingToLift(t) \/ StillGone(t) \/ ListBudgets(t) \/ SkipSync(t)
         \/ ListPending(t) \/ EndRelease(t)
  PROVE  IInv'
<1>0. task[t] \in TaskStates /\ Sane(task[t]) /\ TypeOK
  BY DEF IInv, TypeOK
<1> DEFINE Keeps(s) == s \in TaskStates /\ Sane(s) /\ Becomes(t, s)
<1>1. CASE StartDelete(t)
  <2> DEFINE s == [Idle EXCEPT !.pc = "readState", !.copy = budget]
  <2>1. Keeps(s)
    BY <1>0, <1>1 DEF StartDelete, Idle, TaskStates, Steps, Sane, Known, Removing, TypeOK
  <2> HIDE DEF s
  <2> QED
    BY <1>0, <1>1, <2>1, QuietTypes DEF StartDelete, TypeOK, counters
<1>2. CASE ReadState(t)
  <2> DEFINE s == [task[t] EXCEPT !.pc = "stage", !.seen = Flag, !.fresh = TRUE]
  <2>1. Keeps(s)
    BY <1>0, <1>2, FlagTyped DEF ReadState, TaskStates, Steps, Sane, Known, Removing
  <2> HIDE DEF s
  <2> QED
    BY <1>0, <1>2, <2>1, QuietTypes DEF ReadState, TypeOK, counters
<1>3. CASE Stage(t)
  <2> DEFINE s == [task[t] EXCEPT !.pc = IF Flag = "blocked" THEN "journal" ELSE "delete"]
  <2>1. Keeps(s)
    BY <1>0, <1>3 DEF Stage, GoTo, TaskStates, Steps, Sane, Known, Removing
  <2> HIDE DEF s
  <2> QED
    BY <1>0, <1>3, <2>1, QuietTypes DEF Stage, TypeOK, counters
<1>4. CASE DeleteConflict(t) \/ EndRelease(t)
  <2>1. Keeps(Idle)
    BY <1>4, IdleIsSane DEF DeleteConflict, EndRelease
  <2> QED
    BY <1>0, <1>4, <2>1, QuietTypes DEF DeleteConflict, EndRelease, TypeOK, counters
<1>5. CASE NothingToLift(t)
  <2> DEFINE s == [task[t] EXCEPT !.pc = "drop"]
  <2>1. Keeps(s)
    BY <1>0, <1>5 DEF NothingToLift, GoTo, TaskStates, Steps, Sane, Known, Removing
  <2> HIDE DEF s
  <2> QED
    BY <1>0, <1>5, <2>1, QuietTypes DEF NothingToLift, TypeOK, counters
<1>6. CASE StillGone(t)
  <2> DEFINE s == IF budget = None THEN [Idle EXCEPT !.pc = "list", !.synced = TRUE] ELSE Idle
  <2>1. Keeps(s)
    BY <1>6 DEF StillGone, Idle, TaskStates, Steps, Sane, Known, Removing
  <2> HIDE DEF s
  <2> QED
    BY <1>0, <1>6, <2>1, QuietTypes DEF StillGone, TypeOK, counters
<1>7. CASE ListBudgets(t)
  <2> DEFINE s == [task[t] EXCEPT !.pc = "judge", !.copy = budget]
  <2>1. Keeps(s)
    BY <1>0, <1>7 DEF ListBudgets, TaskStates, Steps, Sane, Known, Removing, TypeOK
  <2> HIDE DEF s
  <2> QED
    BY <1>0, <1>7, <2>1, QuietTypes DEF ListBudgets, TypeOK, counters
<1>8. CASE SkipSync(t)
  <2> DEFINE s == [Idle EXCEPT !.pc = "list"]
  <2>1. Keeps(s)
    BY <1>8 DEF SkipSync, Idle, TaskStates, Steps, Sane, Known, Removing
  <2> HIDE DEF s
  <2> QED
    BY <1>0, <1>8, <2>1, QuietTypes DEF SkipSync, TypeOK, counters
<1>9. CASE ListPending(t)
  <2> DEFINE s == [task[t] EXCEPT !.pc = "release", !.todo = Waiting]
  <2>1. Waiting \subseteq DOMAIN notices /\ DOMAIN notices \subseteq Nat
    BY <1>0 DEF Waiting, TypeOK
  <2>2. Keeps(s)
    BY <1>0, <1>9, <2>1 DEF ListPending, TaskStates, Steps, Sane, Known, Removing
  <2> HIDE DEF s
  <2> QED
    BY <1>0, <1>9, <2>2, QuietTypes DEF ListPending, TypeOK, counters
<1> QED
  BY <1>1, <1>2, <1>3, <1>4, <1>5, <1>6, <1>7, <1>8, <1>9

LEMMA SyncStep ==
  ASSUME IInv, NEW t \in Tasks, Sync(t) \/ Announce(t)
  PROVE  IInv'
<1>0. task[t] \in TaskStates /\ Sane(task[t]) /\ TypeOK
  BY DEF IInv, TypeOK
<1>1. Tell
  BY DEF Sync, Announce
<1>2. CASE Sync(t)
  <2> DEFINE s == [Idle EXCEPT !.pc = "list", !.synced = TRUE]
  <2>1. s \in TaskStates /\ Sane(s) /\ Becomes(t, s)
    BY <1>2 DEF Sync, Idle, TaskStates, Steps, Sane, Known, Removing
  <2> HIDE DEF s
  <2> QED
    BY <1>0, <1>1, <1>2, <2>1, QuietTypes, TellTyped DEF Sync, TypeOK
<1>3. CASE Announce(t)
  <2> DEFINE s == [task[t] EXCEPT !.pc = "gone"]
  <2>1. s \in TaskStates /\ Sane(s) /\ Becomes(t, s)
    BY <1>0, <1>3 DEF Announce, GoTo, TaskStates, Steps, Sane, Known, Removing
  <2> HIDE DEF s
  <2> QED
    BY <1>0, <1>1, <1>3, <2>1, QuietTypes, TellTyped DEF Announce, TypeOK
<1> QED
  BY <1>2, <1>3

LEMMA LeaseStep ==
  ASSUME IInv, NEW t \in Tasks,
         (\E all \in BOOLEAN : StartCheck(t, all)) \/ JudgeNothing(t) \/ Abandon(t)
  PROVE  IInv'
<1>0. task[t] \in TaskStates /\ Sane(task[t]) /\ TypeOK /\ Released(t) \in {None} \cup Tasks
  BY ReleasedTyped DEF IInv, TypeOK
<1>1. ASSUME NEW all \in BOOLEAN, StartCheck(t, all) PROVE IInv'
  <2> DEFINE s == [Idle EXCEPT !.pc = "budgets", !.full = all, !.seen = Flag, !.fresh = TRUE]
  <2>1. s \in TaskStates /\ Sane(s) /\ Becomes(t, s)
    BY <1>1, FlagTyped DEF StartCheck, Idle, TaskStates, Steps, Sane, Known, Removing
  <2> HIDE DEF s
  <2> QED
    BY <1>0, <1>1, <2>1, QuietTypes DEF StartCheck, TypeOK, counters
<1>2. CASE JudgeNothing(t)
  <2> DEFINE s == Judged(task[t].full)
  <2>1. s \in TaskStates /\ Sane(s) /\ Becomes(t, s)
    BY <1>0, <1>2 DEF JudgeNothing, Judged, Idle, TaskStates, Steps, Sane, Known, Removing
  <2> HIDE DEF s
  <2> QED
    BY <1>0, <1>2, <2>1, QuietTypes DEF JudgeNothing, TypeOK, counters
<1>3. CASE Abandon(t)
  <2>1. stops' \in 0 .. MaxStops /\ lease' \in {None} \cup Tasks /\ Becomes(t, Idle)
    BY <1>0, <1>3, Bounds DEF Abandon, TypeOK
  <2> QED
    BY <1>0, <1>3, <2>1, IdleIsSane, QuietTypes DEF Abandon, TypeOK
<1> QED
  BY <1>1, <1>2, <1>3

\* The steps that delete the state.
LEMMA DroppingStep ==
  ASSUME IInv, NEW t \in Tasks, Clean(t) \/ DropState(t)
  PROVE  IInv'
<1>0. task[t] \in TaskStates /\ TypeOK /\ Released(t) \in {None} \cup Tasks
  BY ReleasedTyped DEF IInv, TypeOK
<1>1. CASE Clean(t)
  <2> DEFINE s == Judged(TRUE)
  <2>1. s \in TaskStates /\ Sane(s) /\ Commit(None, t, s)
    BY <1>1 DEF Clean, Judged, Idle, TaskStates, Steps, Sane, Known, Removing
  <2>2. state' = None
    BY <2>1 DEF Commit
  <2> HIDE DEF s
  <2> QED
    BY <1>0, <1>1, <2>1, <2>2, QuietTypes DEF Clean, TypeOK, counters
<1>2. CASE DropState(t)
  <2> DEFINE s == IF task[t].seen = "lifted" THEN [Idle EXCEPT !.pc = "announce"] ELSE Idle
  <2>1. s \in TaskStates /\ Sane(s)
    BY DEF Idle, TaskStates, Steps, Sane, Known, Removing
  <2>2. Commit(None, t, s) \/ (Becomes(t, s) /\ UNCHANGED state)
    BY <1>2 DEF DropState
  <2>3. state' \in {None} \cup States
    BY <1>0, <2>2 DEF Commit, TypeOK
  <2> HIDE DEF s
  <2> QED
    BY <1>0, <1>2, <2>1, <2>2, <2>3, QuietTypes DEF DropState, TypeOK, counters
<1> QED
  BY <1>1, <1>2

(***************************************************************************)
(* Steps that change the budget, the notices or the last judgement.        *)
(***************************************************************************)
\* A budget that is saved now is the one saved before, or one that nobody can know.
LEMMA OthersStaySane ==
  ASSUME IInv, NEW u \in Tasks,
         task'[u] = task[u] \/ task'[u] = [task[u] EXCEPT !.fresh = FALSE],
         removed \subseteq removed', DOMAIN notices \subseteq DOMAIN notices',
         \A c : Known(c) => Known(c)',
         task'[u].fresh => judgedFor' = judgedFor,
         budget' # None => \/ budget # None /\ budget'.created = budget.created
                           \/ budget = None /\ budget'.created = saves + 1
  PROVE  Sane(task[u])'
<1>1. Sane(task[u]) /\ task[u] \in TaskStates /\ judgedFor \in Nat /\ saves \in Nat
      /\ judgedFor <= saves
  BY Bounds DEF IInv, TypeOK, RecordsInv
<1>2. /\ task'[u].pc = task[u].pc /\ task'[u].copy = task[u].copy /\ task'[u].todo = task[u].todo
      /\ task'[u].fresh => task[u].fresh
  BY <1>1 DEF TaskStates
<1>3. task'[u].copy # None => Known(task[u].copy.created)'
  BY <1>1, <1>2 DEF Sane, Known
<1>4. task'[u].pc = "judge" /\ task'[u].copy = None /\ task'[u].fresh /\ budget' # None
        => judgedFor' # budget'.created
  BY <1>1, <1>2 DEF Sane
<1> QED
  BY <1>1, <1>2, <1>3, <1>4 DEF Sane

LEMMA ExpireStep ==
  ASSUME IInv, ExpireLease
  PROVE  IInv'
<1>1. /\ UNCHANGED <<budget, state, notices, live, task, judgedFor, removed, announced, told,
                     saves, stops, failures>>
      /\ lease' = None
      /\ expiries' \in 0 .. MaxExpiries
  BY Bounds DEF ExpireLease, IInv, TypeOK
<1>2. TypeOK'
  BY <1>1 DEF IInv, TypeOK
<1>3. RecordsInv' /\ \A t \in Tasks : Sane(task[t])'
  BY <1>1 DEF IInv, RecordsInv, NoticesKnown, RemovalIsReal, Sane, Known
<1> QED
  BY <1>2, <1>3 DEF IInv

LEMMA SetBudgetStep ==
  ASSUME IInv, NEW amount \in Amounts, NEW blocks \in BOOLEAN, SetBudget(amount, blocks)
  PROVE  IInv'
<1>1. /\ TypeOK /\ RecordsInv
      /\ saves \in Nat /\ saves < MaxSaves /\ saves' = saves + 1
  BY Bounds DEF IInv, TypeOK, SetBudget
<1>2. /\ budget' # None /\ budget' \in Budgets
      /\ IF budget = None THEN budget'.created = saves + 1 ELSE budget'.created = budget.created
  <2>1. budget # None => budget \in Budgets /\ budget.created \in 1 .. MaxSaves
    BY <1>1 DEF TypeOK, Budgets
  <2>2. budget' \in Budgets
    BY <1>1, <2>1, Bounds DEF SetBudget, Budgets
  <2> QED
    BY <2>2, RecordsAssumption DEF SetBudget
<1>3. \A c : Known(c) => Known(c)'
  BY <1>2 DEF Known, SetBudget
<1>4. ASSUME NEW u \in Tasks PROVE Sane(task[u])'
  BY <1>2, <1>3, OthersStaySane DEF SetBudget
<1>5. TypeOK'
  BY <1>1, <1>2, Bounds DEF SetBudget, TypeOK
<1>6. RecordsInv'
  <2>1. judgedFor' <= saves' /\ (budget' # None => budget'.created <= saves')
    BY <1>1, <1>2 DEF SetBudget, RecordsInv, TypeOK, Budgets
  <2>2. RemovalIsReal'
    BY <1>1 DEF RecordsInv, RemovalIsReal, SetBudget
  <2> QED
    BY <1>1, <1>3, <2>1, <2>2 DEF RecordsInv, NoticesKnown, SetBudget
<1> QED
  BY <1>4, <1>5, <1>6 DEF IInv

LEMMA CommitDeleteStep ==
  ASSUME IInv, NEW t \in Tasks, CommitDelete(t)
  PROVE  IInv'
<1> DEFINE s == CASE task[t].seen = "blocked" -> [task[t] EXCEPT !.pc = "lift"]
                  [] task[t].seen = "clear"   -> [task[t] EXCEPT !.pc = "drop"]
                  [] OTHER                    -> Idle
<1>1. /\ TypeOK /\ RecordsInv /\ task[t] \in TaskStates /\ Sane(task[t])
      /\ task[t].pc = "delete" /\ task[t].copy # None
      /\ budget # None /\ budget \in Budgets
  BY DEF IInv, TypeOK, CommitDelete, Unchanged, Sane, Removing
<1>2. budget' = None /\ removed' = removed \cup {budget.created}
  BY DEF CommitDelete
<1>3. \A c : Known(c) => c \in removed'
  BY <1>2 DEF Known
<1>4. \A c : Known(c) => Known(c)'
  BY <1>2 DEF Known
<1>5. s \in TaskStates
  BY <1>1, IdleIsSane DEF TaskStates, Steps
<1>6. Becomes(t, s)
  BY DEF CommitDelete
<1>7. /\ s.todo \subseteq DOMAIN notices
      /\ s.copy # None => s.copy.created \in removed'
      /\ s.pc \in Removing => s.copy # None
      /\ s.pc = "lift" => s.copy # None
      /\ s.pc # "judge"
  BY <1>1, <1>3 DEF Sane, Removing, Idle, TaskStates
<1> HIDE DEF s
<1>8. /\ task' \in [Tasks -> TaskStates] /\ task'[t] = s
      /\ \A u \in Tasks \ {t} : task'[u] = task[u] \/ task'[u] = [task[u] EXCEPT !.fresh = FALSE]
  BY <1>1, <1>5, <1>6, MemoryAfter DEF TypeOK
<1>9. ASSUME NEW u \in Tasks PROVE Sane(task[u])'
  <2>1. CASE u = t
    BY <1>7, <1>8, <2>1 DEF Sane, Known, CommitDelete
  <2>2. CASE u # t
    BY <1>2, <1>4, <1>8, <2>2, OthersStaySane DEF CommitDelete
  <2> QED
    BY <2>1, <2>2
<1>10. TypeOK'
  <2>1. removed' \subseteq 1 .. MaxSaves
    BY <1>1, <1>2 DEF TypeOK, Budgets
  <2>2. announced' \subseteq removed'
    BY <1>1, <1>2 DEF CommitDelete, TypeOK
  <2> QED
    BY <1>1, <1>2, <1>8, <2>1, <2>2 DEF CommitDelete, TypeOK, counters
<1>11. RecordsInv'
  <2>1. budget.created \in 1 .. saves /\ saves' = saves
    BY <1>1, Bounds DEF RecordsInv, TypeOK, Budgets, CommitDelete, counters
  <2>2. removed' \subseteq 1 .. saves'
    BY <1>1, <1>2, <2>1 DEF RecordsInv
  <2> QED
    BY <1>1, <1>2, <1>4, <2>2
    DEF RecordsInv, NoticesKnown, RemovalIsReal, CommitDelete, counters
<1> QED
  BY <1>9, <1>10, <1>11 DEF IInv

\* Notices that a commit adds are well formed, not yet released, and of a removal only when
\* its incarnation is known; what was there keeps its place.
LEMMA NoticesAfter ==
  ASSUME IInv, NEW more \in Seq(Notices), notices' = notices \o more,
         \A j \in DOMAIN more : ~more[j].ready /\ (more[j].kind = "removed" => Known(more[j].of)),
         \A c : Known(c) => Known(c)', removed \subseteq removed'
  PROVE  /\ notices' \in Seq(Notices) /\ DOMAIN notices \subseteq DOMAIN notices'
         /\ told \in 0 .. Len(notices')
         /\ NoticesKnown'
         /\ RemovalIsReal'
<1>1. notices \in Seq(Notices) /\ told \in 0 .. Len(notices)
  BY DEF IInv, TypeOK
<1>2. /\ notices' \in Seq(Notices) /\ Len(notices') = Len(notices) + Len(more)
      /\ Len(notices) \in Nat /\ Len(more) \in Nat
      /\ DOMAIN notices = 1 .. Len(notices) /\ DOMAIN more = 1 .. Len(more)
      /\ DOMAIN notices' = 1 .. Len(notices')
  BY <1>1
<1>3. ASSUME NEW i \in DOMAIN notices'
      PROVE  \/ i \in DOMAIN notices /\ notices'[i] = notices[i]
             \/ \E j \in DOMAIN more : notices'[i] = more[j]
  <2>1. CASE i <= Len(notices)
    BY <1>1, <1>2, <2>1
  <2>2. CASE i > Len(notices)
    <3>1. i - Len(notices) \in DOMAIN more /\ notices'[i] = more[i - Len(notices)]
      BY <1>1, <1>2, <2>2
    <3> QED
      BY <3>1
  <2> QED
    BY <1>2, <2>1, <2>2
<1>4. ASSUME NEW i \in DOMAIN notices', notices'[i].kind = "removed"
      PROVE  \E c : c = notices'[i].of /\ Known(c) /\ (notices'[i].ready => c \in removed)
  <2>1. CASE i \in DOMAIN notices /\ notices'[i] = notices[i]
    BY <1>4, <2>1 DEF IInv, RecordsInv, NoticesKnown, RemovalIsReal
  <2>2. CASE \E j \in DOMAIN more : notices'[i] = more[j]
    BY <1>4, <2>2
  <2> QED
    BY <1>3, <2>1, <2>2
<1>5. NoticesKnown'
  BY <1>4 DEF NoticesKnown, Known
<1>6. RemovalIsReal'
  BY <1>4 DEF RemovalIsReal
<1> QED
  BY <1>1, <1>2, <1>5, <1>6

\* A commit of the state with notices, by a task that goes on with s.
LEMMA CommitStep ==
  ASSUME IInv, NEW t \in Tasks, NEW s \in TaskStates, NEW x \in States, Commit(x, t, s),
         NEW more \in Seq(Notices), notices' = notices \o more,
         \A j \in DOMAIN more : ~more[j].ready /\ (more[j].kind = "removed" => Known(more[j].of)),
         s.todo \subseteq DOMAIN notices, s.pc \in {"delete", "drop", "decide"},
         s.copy # None => Known(s.copy.created), s.pc = "delete" => s.copy # None,
         judgedFor' = judgedFor \/ judgedFor' \in 1 .. saves,
         lease' \in {None} \cup Tasks, announced' \subseteq removed,
         UNCHANGED <<budget, live, removed, told, counters>>
  PROVE  IInv'
<1>1. /\ task' = [u \in Tasks |-> IF u = t THEN s ELSE [task[u] EXCEPT !.fresh = FALSE]]
      /\ state' \in States
  BY DEF Commit
<1>2. task' \in [Tasks -> TaskStates]
  BY MemoryAfter DEF IInv, TypeOK
<1>3. \A c : Known(c) => Known(c)'
  BY DEF Known
<1>5. /\ notices' \in Seq(Notices) /\ DOMAIN notices \subseteq DOMAIN notices'
      /\ told \in 0 .. Len(notices')
      /\ NoticesKnown'
      /\ RemovalIsReal'
  BY <1>3, NoticesAfter
<1>6. saves \in Nat /\ saves <= MaxSaves /\ judgedFor' \in 0 .. MaxSaves /\ judgedFor' <= saves
  BY Bounds DEF IInv, TypeOK, RecordsInv
<1>7. ASSUME NEW u \in Tasks PROVE Sane(task[u])'
  <2>1. CASE u = t
    BY <1>1, <1>5, <2>1 DEF Sane, Known, Removing
  <2>2. CASE u # t
    <3>1. task'[u] = [task[u] EXCEPT !.fresh = FALSE]
      BY <1>1, <2>2
    <3>2. ~task'[u].fresh
      BY <3>1 DEF IInv, TypeOK, TaskStates
    <3> QED
      BY <1>3, <1>5, <3>1, <3>2, OthersStaySane
  <2> QED
    BY <2>1, <2>2
<1>8. TypeOK'
  BY <1>1, <1>2, <1>5, <1>6 DEF IInv, TypeOK, counters
<1>9. RecordsInv'
  BY <1>5, <1>6 DEF IInv, RecordsInv, counters
<1> QED
  BY <1>7, <1>8, <1>9 DEF IInv

\* A removal's notice that a task of the removal adds, or none.
LEMMA RemovalNotice ==
  ASSUME IInv, NEW t \in Tasks, task[t].copy # None
  PROVE  LET n == Notice("removed", task[t].copy.created) IN
           /\ task[t].copy \in Budgets /\ Known(task[t].copy.created)
           /\ <<n>> \in Seq(Notices) /\ <<>> \in Seq(Notices)
           /\ \A j \in DOMAIN <<n>> : ~(<<n>>[j]).ready /\ Known((<<n>>[j]).of)
           /\ Append(notices, n) = notices \o <<n>> /\ notices = notices \o <<>>
<1> DEFINE n == Notice("removed", task[t].copy.created)
<1>1. task[t].copy \in Budgets /\ Known(task[t].copy.created) /\ notices \in Seq(Notices)
  BY DEF IInv, TypeOK, TaskStates, Sane
<1>2. n \in Notices /\ ~n.ready /\ n.of = task[t].copy.created
  BY <1>1 DEF Notice, Notices, Budgets
<1> HIDE DEF n
<1>3. DOMAIN <<n>> = {1} /\ <<n>>[1] = n /\ <<n>> \in Seq(Notices) /\ <<>> \in Seq(Notices)
  BY <1>2
<1>4. Append(notices, n) = notices \o <<n>> /\ notices = notices \o <<>>
  BY <1>1, <1>2
<1> QED
  BY <1>1, <1>2, <1>3, <1>4 DEF n

LEMMA JournalStep ==
  ASSUME IInv, NEW t \in Tasks, Journal(t)
  PROVE  IInv'
<1> DEFINE n == Notice("removed", task[t].copy.created)
           s == [task[t] EXCEPT !.pc = "delete", !.fresh = FALSE, !.staged = Flag = "blocked"]
           x == IF state = None THEN Blank ELSE state
<1>1. /\ task[t] \in TaskStates /\ Sane(task[t]) /\ task[t].pc = "journal"
      /\ task[t].copy # None /\ task[t].todo \subseteq DOMAIN notices
  BY DEF IInv, TypeOK, Journal, Sane, Removing
<1>2. s \in TaskStates /\ s.todo = task[t].todo /\ s.pc = "delete" /\ s.copy = task[t].copy
  BY <1>1 DEF TaskStates, Steps
<1>3. x \in States
  BY BlankTyped DEF IInv, TypeOK
<1>4. Commit(x, t, s)
  BY DEF Journal
<1>5. notices' = notices \o <<>> \/ notices' = notices \o <<n>>
  BY <1>1, RemovalNotice DEF Journal
<1>6. /\ lease' \in {None} \cup Tasks /\ announced' \subseteq removed
      /\ UNCHANGED <<budget, live, removed, told, counters, judgedFor>>
  BY DEF Journal, IInv, TypeOK
<1>7. /\ Known(s.copy.created) /\ <<n>> \in Seq(Notices) /\ <<>> \in Seq(Notices)
      /\ \A j \in DOMAIN <<n>> : ~(<<n>>[j]).ready /\ Known((<<n>>[j]).of)
  BY <1>1, <1>2, RemovalNotice
<1> HIDE DEF s, x, n
<1>8. CASE notices' = notices \o <<>>
  <2> DEFINE more == <<>>
  <2>1. /\ more \in Seq(Notices) /\ notices' = notices \o more
        /\ \A j \in DOMAIN more : ~more[j].ready /\ (more[j].kind = "removed" => Known(more[j].of))
    BY <1>8
  <2> HIDE DEF more
  <2> QED
    BY <1>1, <1>2, <1>3, <1>4, <1>6, <1>7, <2>1, CommitStep
<1>9. CASE notices' = notices \o <<n>>
  BY <1>1, <1>2, <1>3, <1>4, <1>6, <1>7, <1>9, CommitStep
<1> QED
  BY <1>5, <1>8, <1>9

LEMMA LiftStep ==
  ASSUME IInv, NEW t \in Tasks, Lift(t)
  PROVE  IInv'
<1> DEFINE n == Notice("removed", task[t].copy.created)
           s == [task[t] EXCEPT !.pc = "drop", !.seen = "lifted", !.fresh = TRUE]
           x == [state EXCEPT !.blocked = FALSE]
<1>1. /\ task[t] \in TaskStates /\ Sane(task[t]) /\ task[t].pc = "lift"
      /\ task[t].copy # None /\ task[t].todo \subseteq DOMAIN notices
      /\ task[t].copy.created \in removed
  BY DEF IInv, TypeOK, Lift, Sane, Removing
<1>2. s \in TaskStates /\ s.todo = task[t].todo /\ s.pc = "drop" /\ s.copy = task[t].copy
  BY <1>1 DEF TaskStates, Steps
<1>3. x \in States
  BY DEF IInv, TypeOK, Lift, Flag, States
<1>4. Commit(x, t, s)
  BY DEF Lift
<1>5. notices' = notices \o <<>> \/ notices' = notices \o <<n>>
  BY <1>1, RemovalNotice DEF Lift
<1>6. /\ lease' \in {None} \cup Tasks /\ announced' \subseteq removed
      /\ UNCHANGED <<budget, live, removed, told, counters, judgedFor>>
  BY <1>1 DEF Lift, IInv, TypeOK
<1>7. /\ Known(s.copy.created) /\ <<n>> \in Seq(Notices) /\ <<>> \in Seq(Notices)
      /\ \A j \in DOMAIN <<n>> : ~(<<n>>[j]).ready /\ Known((<<n>>[j]).of)
  BY <1>1, <1>2, RemovalNotice
<1> HIDE DEF s, x, n
<1>8. CASE notices' = notices \o <<>>
  <2> DEFINE more == <<>>
  <2>1. /\ more \in Seq(Notices) /\ notices' = notices \o more
        /\ \A j \in DOMAIN more : ~more[j].ready /\ (more[j].kind = "removed" => Known(more[j].of))
    BY <1>8
  <2> HIDE DEF more
  <2> QED
    BY <1>1, <1>2, <1>3, <1>4, <1>6, <1>7, <2>1, CommitStep
<1>9. CASE notices' = notices \o <<n>>
  BY <1>1, <1>2, <1>3, <1>4, <1>6, <1>7, <1>9, CommitStep
<1> QED
  BY <1>5, <1>8, <1>9

\* What holds of every element of two sequences holds of every element of the one they make.
LEMMA BothParts ==
  ASSUME NEW a \in Seq(Notices), NEW b \in Seq(Notices), NEW good,
         \A j \in DOMAIN a : a[j] \in good, \A j \in DOMAIN b : b[j] \in good
  PROVE  a \o b \in Seq(Notices) /\ \A j \in DOMAIN (a \o b) : (a \o b)[j] \in good
<1>1. /\ a \o b \in Seq(Notices) /\ Len(a \o b) = Len(a) + Len(b)
      /\ Len(a) \in Nat /\ Len(b) \in Nat
      /\ DOMAIN a = 1 .. Len(a) /\ DOMAIN b = 1 .. Len(b)
      /\ DOMAIN (a \o b) = 1 .. Len(a \o b)
  OBVIOUS
<1>2. ASSUME NEW j \in DOMAIN (a \o b) PROVE (a \o b)[j] \in good
  <2>1. CASE j <= Len(a)
    BY <1>1, <2>1
  <2>2. CASE j > Len(a)
    <3>1. j - Len(a) \in DOMAIN b /\ (a \o b)[j] = b[j - Len(a)]
      BY <1>1, <2>2
    <3> QED
      BY <3>1
  <2> QED
    BY <1>1, <2>1, <2>2
<1> QED
  BY <1>1, <1>2

\* A judgement's notices are new, and not of a removal.
LEMMA JudgementNotices ==
  ASSUME NEW result, NEW created \in 1 .. MaxSaves
  PROVE  /\ NoticesOf(result, created) \in Seq(Notices)
         /\ \A j \in DOMAIN NoticesOf(result, created) :
              /\ ~NoticesOf(result, created)[j].ready
              /\ NoticesOf(result, created)[j].kind # "removed"
<1> DEFINE up == Notice("unblocked", created)
           down == Notice("blocked", created)
           first == IF result.lifted # None THEN <<up>> ELSE <<>>
           second == IF result.blocked THEN <<down>> ELSE <<>>
           good == {n \in Notices : ~n.ready /\ n.kind # "removed"}
<1>1. up \in good /\ down \in good /\ good \subseteq Notices
  BY DEF Notice, Notices
<1>2. NoticesOf(result, created) = first \o second
  BY DEF NoticesOf
<1> HIDE DEF up, down, good
<1>3. first \in Seq(Notices) /\ \A j \in DOMAIN first : first[j] \in good
  BY <1>1
<1>4. second \in Seq(Notices) /\ \A j \in DOMAIN second : second[j] \in good
  BY <1>1
<1> HIDE DEF first, second
<1>5. /\ first \o second \in Seq(Notices)
      /\ \A j \in DOMAIN (first \o second) : (first \o second)[j] \in good
  BY <1>3, <1>4, BothParts
<1> QED
  BY <1>2, <1>5 DEF good

LEMMA JudgeStep ==
  ASSUME IInv, NEW t \in Tasks, NEW figures, Judge(t, figures)
  PROVE  IInv'
<1> DEFINE listed == task[t].copy
           saved == IF state = None THEN Blank ELSE state
           result == Evaluate(listed, saved, figures, Month)
           s == Judged(task[t].full \/ result.blocked \/ result.lifted # None)
           more == NoticesOf(result, listed.created)
<1>1. /\ task[t] \in TaskStates /\ Sane(task[t]) /\ listed # None /\ listed \in Budgets
      /\ listed.created \in 1 .. MaxSaves
  BY DEF IInv, TypeOK, Judge, TaskStates, Budgets
<1>2. saved \in States
  BY BlankTyped DEF IInv, TypeOK
<1>3. result.state \in States
  BY <1>1, <1>2, EvaluateTyped
<1>4. s \in TaskStates /\ s.todo = {} /\ s.pc = "decide" /\ s.copy = None
  BY DEF Judged, Idle, TaskStates, Steps
<1>5. Commit(result.state, t, s) /\ notices' = notices \o more
  BY DEF Judge
<1> HIDE DEF result
<1>6. more \in Seq(Notices) /\ \A j \in DOMAIN more : ~more[j].ready /\ more[j].kind # "removed"
  BY <1>1, JudgementNotices
<1>7. judgedFor' = listed.created /\ listed.created <= saves
  <2>1. Known(listed.created)
    BY <1>1 DEF Sane
  <2>2. removed \subseteq 1 .. saves
    BY DEF IInv, RecordsInv
  <2>3. saves \in Nat /\ (budget # None => budget.created <= saves)
    BY Bounds DEF IInv, TypeOK, RecordsInv
  <2>4. listed.created <= saves
    BY <1>1, <2>1, <2>2, <2>3, Bounds DEF Known
  <2>5. judgedFor' = listed.created
    BY DEF Judge
  <2> QED
    BY <2>4, <2>5
<1>8. judgedFor' \in 1 .. saves
  BY <1>1, <1>7, Bounds DEF IInv, TypeOK
<1>9. /\ lease' \in {None} \cup Tasks /\ announced' \subseteq removed
      /\ UNCHANGED <<budget, live, removed, told, counters>>
  BY ReleasedTyped DEF Judge, IInv, TypeOK
<1> HIDE DEF s, saved, listed, more
<1> QED
  BY <1>3, <1>4, <1>5, <1>6, <1>8, <1>9, CommitStep

LEMMA ReleaseStep ==
  ASSUME IInv, NEW t \in Tasks, Release(t)
  PROVE  IInv'
<1>1. PICK i \in task[t].todo :
        /\ notices' = IF MayRelease(t, i) THEN [notices EXCEPT ![i].ready = TRUE] ELSE notices
        /\ Becomes(t, [task[t] EXCEPT !.todo = @ \ {i}])
  BY DEF Release
<1> DEFINE s == [task[t] EXCEPT !.todo = @ \ {i}]
<1>2. /\ task[t] \in TaskStates /\ Sane(task[t]) /\ task[t].pc = "release"
      /\ notices \in Seq(Notices)
  BY DEF IInv, TypeOK, Release
<1>3. i \in DOMAIN notices
  BY <1>2 DEF Sane
<1>4. s \in TaskStates
  BY <1>2 DEF TaskStates
<1>5. s.todo \subseteq DOMAIN notices /\ s.copy = task[t].copy /\ s.pc = "release"
  BY <1>2 DEF Sane, TaskStates
<1> HIDE DEF s
<1>6. /\ task' \in [Tasks -> TaskStates] /\ task'[t] = s
      /\ \A u \in Tasks \ {t} : task'[u] = task[u] \/ task'[u] = [task[u] EXCEPT !.fresh = FALSE]
  BY <1>1, <1>4, MemoryAfter DEF s, IInv, TypeOK
<1>7. UNCHANGED <<budget, state, live, lease, judgedFor, removed, announced, told, counters>>
  BY DEF Release
<1>8. /\ notices' \in Seq(Notices) /\ Len(notices') = Len(notices)
      /\ DOMAIN notices' = DOMAIN notices
      /\ \A j \in DOMAIN notices :
           /\ notices'[j].kind = notices[j].kind /\ notices'[j].of = notices[j].of
           /\ notices'[j].ready => notices[j].ready \/ (j = i /\ MayRelease(t, i))
  <2>1. CASE ~MayRelease(t, i)
    BY <1>1, <1>2, <2>1
  <2>2. CASE MayRelease(t, i)
    <3> DEFINE n == [notices[i] EXCEPT !.ready = TRUE]
    <3>1. notices[i] \in Notices
      BY <1>2, <1>3
    <3>2. n \in Notices /\ n.kind = notices[i].kind /\ n.of = notices[i].of
      BY <3>1 DEF Notices
    <3>3. notices' = [notices EXCEPT ![i] = n]
      BY <1>1, <2>2
    <3> HIDE DEF n
    <3> QED
      BY <1>2, <1>3, <2>2, <3>2, <3>3
  <2> QED
    BY <2>1, <2>2
<1>9. ASSUME NEW u \in Tasks PROVE Sane(task[u])'
  <2>1. CASE u = t
    BY <1>2, <1>5, <1>6, <1>7, <1>8, <2>1 DEF Sane, Known, Removing
  <2>2. CASE u # t
    BY <1>6, <1>7, <1>8, <2>2, OthersStaySane DEF Known
  <2> QED
    BY <2>1, <2>2
<1>10. TypeOK'
  BY <1>6, <1>7, <1>8 DEF IInv, TypeOK, counters
<1>11. NoticesKnown'
  BY <1>7, <1>8 DEF IInv, RecordsInv, NoticesKnown, Known
<1>12. RemovalIsReal'
  BY <1>7, <1>8 DEF IInv, RecordsInv, NoticesKnown, RemovalIsReal, Known, MayRelease
<1>13. RecordsInv'
  BY <1>7, <1>11, <1>12 DEF IInv, RecordsInv, counters
<1> QED
  BY <1>9, <1>10, <1>13 DEF IInv

LEMMA StepIInv == IInv /\ [Next]_vars => IInv'
<1> SUFFICES ASSUME IInv, [Next]_vars PROVE IInv'
  OBVIOUS
<1>1. ASSUME NEW amount \in Amounts, NEW blocks \in BOOLEAN, SetBudget(amount, blocks)
      PROVE  IInv'
  BY <1>1, SetBudgetStep
<1>2. ASSUME NEW t \in Tasks,
             StartDelete(t) \/ (\E all \in BOOLEAN : StartCheck(t, all)) \/ Abandon(t)
      PROVE  IInv'
  BY <1>2, ReadingStep, LeaseStep
<1>3. ASSUME NEW t \in Tasks, Check(t) PROVE IInv'
  <2>1. ASSUME NEW figures \in {None, Spent}, Judge(t, figures) PROVE IInv'
    BY <2>1, JudgeStep
  <2> QED
    BY <1>3, <2>1, ReadingStep, SyncStep, LeaseStep, DroppingStep, ReleaseStep DEF Check
<1>4. ASSUME NEW t \in Tasks, Delete(t) PROVE IInv'
  BY <1>4, ReadingStep, SyncStep, DroppingStep, CommitDeleteStep, JournalStep, LiftStep
  DEF Delete
<1>5. CASE ExpireLease
  BY <1>5, ExpireStep
<1>6. CASE UNCHANGED vars
  BY <1>6 DEF IInv, TypeOK, RecordsInv, NoticesKnown, RemovalIsReal, Sane, Known, vars, counters
<1> QED
  BY <1>1, <1>2, <1>3, <1>4, <1>5, <1>6 DEF Next

\* Every incarnation that a task or a removal's notice speaks of is the saved one or was
\* removed, in every behaviour of the checks, edits and removals.
THEOREM Invariance == Spec => []IInv
<1> QED
  BY InitIInv, StepIInv, PTL DEF Spec

\* Types and limits hold whatever the tasks, the saves and the failures.
THEOREM TypeCorrect == Spec => []TypeOK
<1>1. IInv => TypeOK
  BY DEF IInv
<1> QED
  BY <1>1, Invariance, PTL

\* A removal that was staged in the outbox and then cut off or refused is not announced.
THEOREM RemovalsAreReal == Spec => []RemovalIsReal
<1>1. IInv => RemovalIsReal
  BY DEF IInv, RecordsInv
<1> QED
  BY <1>1, Invariance, PTL

\* A full check that deletes a state as left behind deletes none that the budget was judged
\* into since it was set again, however late the check acts and whoever took its lease.
THEOREM CleaningIsSafe == Spec => CleaningSpares
<1>1. IInv /\ [Next]_vars
        => [\A t \in Tasks : Clean(t) => budget = None \/ judgedFor # budget.created]_vars
  <2>1. ASSUME IInv, NEW t \in Tasks, Clean(t) PROVE budget = None \/ judgedFor # budget.created
    BY <2>1 DEF IInv, Sane, Clean, MayClean
  <2> QED
    BY <2>1
<1> QED
  BY <1>1, Invariance, PTL DEF Spec, CleaningSpares
================================================================================
