------------------------------ MODULE BudgetCheck ------------------------------
(***************************************************************************)
(* One cost center's budget between administrators who save and remove it, *)
(* and the checks that judge it.  Checks of several API instances, edits   *)
(* and removals interleave at every await; the judged state and the notices*)
(* of a block and its lifting are committed together, the gateways follow, *)
(* and the notices are released last.                                      *)
(*                                                                         *)
(* Code: services/budgets.py (run_check, _judge_all, delete_budget),       *)
(* services/budget_notification_bridge.py (stage_removal, release_pending, *)
(* requires_gateway_sync), repositories/cosmos_budgets.py.  A sync of the  *)
(* gateways is one step here; BudgetGate shows what it comes to.  The month*)
(* and the month's spend stay the same, the cost center stays, thresholds  *)
(* are BudgetJudgement's, and every check has the bridge.                  *)
(***************************************************************************)
EXTENDS BudgetEvaluate, Sequences

CONSTANTS
  Tasks,        \* tasks that check budgets or serve an administrator
  Processes,    \* API instances
  ProcessOf,    \* the instance a task runs in, which owns its leases
  Amounts,      \* amounts an administrator sets
  Spent,        \* what the month cost so far, in cents
  MaxSaves,     \* bound: saves of the budget
  MaxStops,     \* bound: tasks that stop, or that an error cuts off
  MaxFailures,  \* bound: syncs that do not reach the gateways
  MaxExpiries   \* bound: leases that run out while their check goes on

Month == 1

\* created names the incarnation: a budget that is edited keeps it.
Budgets ==
  [amount : Amounts, blocks : BOOLEAN, thresholds : {{}}, created : 1 .. MaxSaves,
   rev : 1 .. MaxSaves]

States ==
  [month : {None, Month}, amount : {None} \cup Amounts, crossed : {{}}, blocked : BOOLEAN]

ASSUME TasksAssumption == ProcessOf \in [Tasks -> Processes] /\ None \notin Tasks
ASSUME RecordsAssumption == None \notin Budgets /\ None \notin States
ASSUME SpendAssumption == Amounts \subseteq Nat \ {0} /\ Spent \in Nat
ASSUME BoundsAssumption == {MaxSaves, MaxStops, MaxFailures, MaxExpiries} \subseteq Nat

VARIABLES
  budget,    \* the saved Budget, or None
  state,     \* the saved BudgetState, or None
  notices,   \* the source outbox, oldest first
  live,      \* the gateways refuse the cost center's calls
  lease,     \* the task whose check took the scope lease, or None
  task,      \* what each task is at, and what it remembers
  \* history
  judgedFor, \* the incarnation of the budget that the state was last judged for
  removed,   \* incarnations that were removed
  announced, \* incarnations removed by a task that staged the removal's notice, or lifted
  told,      \* how many notices there were when the gateways were last told
  saves, stops, failures, expiries   \* counters of the named bounds

counters == <<saves, stops, failures, expiries>>
vars == <<budget, state, notices, live, lease, task, judgedFor, removed, announced, told, counters>>

\* A task with nothing to do, and what the others remember.
Idle ==
  [pc     |-> "idle",
   full   |-> FALSE,    \* the check is a full one; once it has judged: it has to sync
   copy   |-> None,     \* the budget it listed or read
   seen   |-> "none",   \* what it read of the state: "none", "clear", "blocked" or "lifted"
   fresh  |-> FALSE,    \* the state still has the version it read or wrote
   staged |-> FALSE,    \* it staged the removal's notice
   synced |-> FALSE,    \* it told the gateways
   todo   |-> {}]       \* notices it listed and has yet to release

\* What a sync puts: the budget exists and blocks, and its state says blocked.
Value == budget # None /\ state # None /\ budget.blocks /\ state.blocked

\* What a reader of the state finds.
Flag == IF state = None THEN "none" ELSE IF state.blocked THEN "blocked" ELSE "clear"

Notice(kind, created) == [kind |-> kind, of |-> created, ready |-> FALSE]

Init ==
  /\ budget = None /\ state = None /\ notices = <<>> /\ live = FALSE /\ lease = None
  /\ task = [t \in Tasks |-> Idle]
  /\ judgedFor = 0 /\ removed = {} /\ announced = {} /\ told = 0
  /\ saves = 0 /\ stops = 0 /\ failures = 0 /\ expiries = 0

Becomes(t, s) == task' = [task EXCEPT ![t] = s]
GoTo(t, step) == Becomes(t, [task[t] EXCEPT !.pc = step])

\* A commit of the state leaves every other copy of it stale.
Commit(s, t, next) ==
  /\ state' = s
  /\ task' = [u \in Tasks |-> IF u = t THEN next ELSE [task[u] EXCEPT !.fresh = FALSE]]

(***************************************************************************)
(* Administrators                                                          *)
(***************************************************************************)
\* set_budget reads the budget and saves over the version read, or conflicts.  The
\* check that follows is a StartCheck.
SetBudget(amount, blocks) ==
  /\ saves < MaxSaves
  /\ budget' = [amount |-> amount, blocks |-> blocks, thresholds |-> {}, rev |-> saves + 1,
                created |-> IF budget = None THEN saves + 1 ELSE budget.created]
  /\ saves' = saves + 1
  /\ UNCHANGED <<state, notices, live, lease, task, judgedFor, removed, announced, told,
                 stops, failures, expiries>>

\* delete_budget: reads the budget, then its state.
StartDelete(t) ==
  /\ task[t].pc = "idle" /\ budget # None
  /\ Becomes(t, [Idle EXCEPT !.pc = "readState", !.copy = budget])
  /\ UNCHANGED <<budget, state, notices, live, lease, judgedFor, removed, announced, told, counters>>

ReadState(t) ==
  /\ task[t].pc = "readState"
  /\ Becomes(t, [task[t] EXCEPT !.pc = "stage", !.seen = Flag, !.fresh = TRUE])
  /\ UNCHANGED <<budget, state, notices, live, lease, judgedFor, removed, announced, told, counters>>

\* stage_removal: nothing to stage unless the cost center is blocked now.
Stage(t) ==
  /\ task[t].pc = "stage"
  /\ GoTo(t, IF Flag = "blocked" THEN "journal" ELSE "delete")
  /\ UNCHANGED <<budget, state, notices, live, lease, judgedFor, removed, announced, told, counters>>

\* The removal's notice is named after the incarnation, so staging it again adds nothing.
Staged(created) ==
  \E i \in DOMAIN notices : notices[i].kind = "removed" /\ notices[i].of = created

\* The journal writes the state back, also one that was lifted or deleted meanwhile.
Journal(t) ==
  /\ task[t].pc = "journal"
  /\ Commit(IF state = None THEN Blank ELSE state, t,
            [task[t] EXCEPT !.pc = "delete", !.fresh = FALSE, !.staged = Flag = "blocked"])
  /\ notices' = IF Flag # "blocked" \/ Staged(task[t].copy.created) THEN notices
                ELSE Append(notices, Notice("removed", task[t].copy.created))
  /\ UNCHANGED <<budget, live, lease, judgedFor, removed, announced, told, counters>>

\* Only the version that was read is deleted.
Unchanged(t) == budget # None /\ budget.rev = task[t].copy.rev

CommitDelete(t) ==
  /\ task[t].pc = "delete" /\ Unchanged(t)
  /\ budget' = None
  /\ removed' = removed \cup {budget.created}
  /\ announced' = IF task[t].staged THEN announced \cup {budget.created} ELSE announced
  /\ Becomes(t, CASE task[t].seen = "blocked" -> [task[t] EXCEPT !.pc = "lift"]
                  [] task[t].seen = "clear"   -> [task[t] EXCEPT !.pc = "drop"]
                  [] OTHER                    -> Idle)
  /\ UNCHANGED <<state, notices, live, lease, judgedFor, told, counters>>

DeleteConflict(t) ==
  /\ task[t].pc = "delete" /\ ~Unchanged(t)
  /\ Becomes(t, Idle)
  /\ UNCHANGED <<budget, state, notices, live, lease, judgedFor, removed, announced, told, counters>>

\* _lift_removed: lifts whatever block the state holds now, with the removal's notice.  One
\* that was not staged gets an ID of its own.
Lift(t) ==
  /\ task[t].pc = "lift" /\ Flag = "blocked"
  /\ Commit([state EXCEPT !.blocked = FALSE], t,
            [task[t] EXCEPT !.pc = "drop", !.seen = "lifted", !.fresh = TRUE])
  /\ notices' = IF task[t].staged THEN notices
                ELSE Append(notices, Notice("removed", task[t].copy.created))
  /\ announced' = announced \cup {task[t].copy.created}
  /\ UNCHANGED <<budget, live, lease, judgedFor, removed, told, counters>>

NothingToLift(t) ==
  /\ task[t].pc = "lift" /\ Flag # "blocked"
  /\ GoTo(t, "drop")
  /\ UNCHANGED <<budget, state, notices, live, lease, judgedFor, removed, announced, told, counters>>

\* delete_budget_state with the version's etag: nothing happens to a newer version.
DropState(t) ==
  /\ task[t].pc = "drop"
  /\ LET next == IF task[t].seen = "lifted" THEN [Idle EXCEPT !.pc = "announce"] ELSE Idle
     IN  IF task[t].fresh THEN Commit(None, t, next) ELSE Becomes(t, next) /\ UNCHANGED state
  /\ UNCHANGED <<budget, notices, live, lease, judgedFor, removed, announced, told, counters>>

\* A sync: the gateways are told, and whether the write took is another matter.
Tell ==
  /\ told' = Len(notices)
  /\ \/ live' = Value /\ UNCHANGED failures
     \/ failures < MaxFailures /\ failures' = failures + 1 /\ UNCHANGED live

\* _announce_lift
Announce(t) ==
  /\ task[t].pc = "announce"
  /\ Tell
  /\ GoTo(t, "gone")
  /\ UNCHANGED <<budget, state, notices, lease, judgedFor, removed, announced, saves, stops, expiries>>

\* A budget set again meanwhile speaks for itself.
StillGone(t) ==
  /\ task[t].pc = "gone"
  /\ Becomes(t, IF budget = None THEN [Idle EXCEPT !.pc = "list", !.synced = TRUE] ELSE Idle)
  /\ UNCHANGED <<budget, state, notices, live, lease, judgedFor, removed, announced, told, counters>>

(***************************************************************************)
(* The check                                                               *)
(***************************************************************************)
\* Takes the lease, which is busy until it runs out even for the same instance, and lists
\* the states.
StartCheck(t, all) ==
  /\ task[t].pc = "idle" /\ lease = None
  /\ lease' = t
  /\ Becomes(t, [Idle EXCEPT !.pc = "budgets", !.full = all, !.seen = Flag, !.fresh = TRUE])
  /\ UNCHANGED <<budget, state, notices, live, judgedFor, removed, announced, told, counters>>

ListBudgets(t) ==
  /\ task[t].pc = "budgets"
  /\ Becomes(t, [task[t] EXCEPT !.pc = "judge", !.copy = budget])
  /\ UNCHANGED <<budget, state, notices, live, lease, judgedFor, removed, announced, told, counters>>

\* A lease is released by its owner's ID, so by any task of the same instance.
Released(t) ==
  IF lease # None /\ ProcessOf[lease] = ProcessOf[t] THEN None ELSE lease

Judged(syncs) == [Idle EXCEPT !.pc = "decide", !.full = syncs]

\* Mutant: the state goes whatever became of it since it was listed.
MayCleanAny(t) == task[t].full /\ task[t].copy = None /\ task[t].seen # "none"

\* Mutant: only a state that still blocks is worth deleting.
MayCleanBlocked(t) ==
  task[t].full /\ task[t].copy = None /\ task[t].seen = "blocked" /\ task[t].fresh

\* A full check deletes the state of a budget that is gone, in the version it listed.
MayClean(t) ==
  task[t].full /\ task[t].copy = None /\ task[t].seen # "none" /\ task[t].fresh

Clean(t) ==
  /\ task[t].pc = "judge" /\ MayClean(t)
  /\ Commit(None, t, Judged(TRUE))
  /\ lease' = Released(t)
  /\ UNCHANGED <<budget, notices, live, judgedFor, removed, announced, told, counters>>

\* There is nothing to clean, or the budget is none that a partial check has to judge.
JudgeNothing(t) ==
  /\ task[t].pc = "judge" /\ ~MayClean(t) /\ (task[t].copy = None \/ ~task[t].full)
  /\ Becomes(t, Judged(task[t].full))
  /\ lease' = Released(t)
  /\ UNCHANGED <<budget, state, notices, live, judgedFor, removed, announced, told, counters>>

\* The notices that a judgement commits with the state.
NoticesOf(result, created) ==
  (IF result.lifted # None THEN <<Notice("unblocked", created)>> ELSE <<>>)
    \o (IF result.blocked THEN <<Notice("blocked", created)>> ELSE <<>>)

\* The budget it listed is judged against the state as it is now, and creates it if it is
\* not there.
Judge(t, figures) ==
  LET listed == task[t].copy
      result == Evaluate(listed, IF state = None THEN Blank ELSE state, figures, Month) IN
  /\ task[t].pc = "judge" /\ listed # None
  /\ Commit(result.state, t, Judged(task[t].full \/ result.blocked \/ result.lifted # None))
  /\ notices' = notices \o NoticesOf(result, listed.created)
  /\ judgedFor' = listed.created
  /\ lease' = Released(t)
  /\ UNCHANGED <<budget, live, removed, announced, told, counters>>

\* requires_gateway_sync: a notice waits, and not of a removal that has not happened.
Waiting == {i \in DOMAIN notices : ~notices[i].ready}
RequiresSync == \E i \in Waiting : notices[i].kind # "removed" \/ budget = None

\* Mutant: a full check without news leaves the gateways alone.
NeedsSyncForNews(t) == RequiresSync

NeedsSync(t) == task[t].full \/ RequiresSync

Sync(t) ==
  /\ task[t].pc = "decide" /\ NeedsSync(t)
  /\ Tell
  /\ Becomes(t, [Idle EXCEPT !.pc = "list", !.synced = TRUE])
  /\ UNCHANGED <<budget, state, notices, lease, judgedFor, removed, announced, saves, stops, expiries>>

SkipSync(t) ==
  /\ task[t].pc = "decide" /\ ~NeedsSync(t)
  /\ Becomes(t, [Idle EXCEPT !.pc = "list"])
  /\ UNCHANGED <<budget, state, notices, live, lease, judgedFor, removed, announced, told, counters>>

(***************************************************************************)
(* release_pending                                                         *)
(***************************************************************************)
\* Every notice that waits, whoever committed it.
ListPending(t) ==
  /\ task[t].pc = "list"
  /\ Becomes(t, [task[t] EXCEPT !.pc = "release", !.todo = Waiting])
  /\ UNCHANGED <<budget, state, notices, live, lease, judgedFor, removed, announced, told, counters>>

\* Mutant: news that has been overtaken is held back.
MayReleaseStanding(t, i) ==
  /\ notices[i].kind = "removed" => budget = None
  /\ notices[i].kind = "blocked" => Value
  /\ task[t].synced

\* Mutant: a staged removal counts as done.
MayReleaseStaged(t, i) == task[t].synced

\* A removal that has not happened is not announced, and nothing is by a check that told
\* no gateway.
MayRelease(t, i) == (notices[i].kind = "removed" => budget = None) /\ task[t].synced

\* Another task may have released it first: then the save conflicts, and nothing is lost.
Release(t) ==
  /\ task[t].pc = "release"
  /\ \E i \in task[t].todo :
       /\ notices' = IF MayRelease(t, i) THEN [notices EXCEPT ![i].ready = TRUE] ELSE notices
       /\ Becomes(t, [task[t] EXCEPT !.todo = @ \ {i}])
  /\ UNCHANGED <<budget, state, live, lease, judgedFor, removed, announced, told, counters>>

EndRelease(t) ==
  /\ task[t].pc = "release" /\ task[t].todo = {}
  /\ Becomes(t, Idle)
  /\ UNCHANGED <<budget, state, notices, live, lease, judgedFor, removed, announced, told, counters>>

(***************************************************************************)
(* Failures                                                                *)
(***************************************************************************)
Judging(t) == task[t].pc \in {"budgets", "judge"}

\* The process stops and keeps the lease, or a call fails and the lease is given back.
Abandon(t) ==
  /\ task[t].pc # "idle" /\ stops < MaxStops
  /\ stops' = stops + 1
  /\ lease' \in {lease} \cup (IF Judging(t) THEN {Released(t)} ELSE {})
  /\ Becomes(t, Idle)
  /\ UNCHANGED <<budget, state, notices, live, judgedFor, removed, announced, told,
                 saves, failures, expiries>>

\* Nobody renews the lease: it runs out after its task stopped, or under a slow check.
ExpireLease ==
  /\ lease # None
  /\ \/ ~Judging(lease) /\ UNCHANGED expiries
     \/ Judging(lease) /\ expiries < MaxExpiries /\ expiries' = expiries + 1
  /\ lease' = None
  /\ UNCHANGED <<budget, state, notices, live, task, judgedFor, removed, announced, told,
                 saves, stops, failures>>

Check(t) ==
  \/ ListBudgets(t) \/ Clean(t) \/ JudgeNothing(t)
  \/ \E figures \in {None, Spent} : Judge(t, figures)
  \/ Sync(t) \/ SkipSync(t) \/ ListPending(t) \/ Release(t) \/ EndRelease(t)

Delete(t) ==
  \/ ReadState(t) \/ Stage(t) \/ Journal(t) \/ CommitDelete(t) \/ DeleteConflict(t)
  \/ Lift(t) \/ NothingToLift(t) \/ DropState(t) \/ Announce(t) \/ StillGone(t)

Next ==
  \/ \E amount \in Amounts, blocks \in BOOLEAN : SetBudget(amount, blocks)
  \/ \E t \in Tasks : StartDelete(t)
  \/ \E t \in Tasks, all \in BOOLEAN : StartCheck(t, all)
  \/ \E t \in Tasks : Check(t) \/ Delete(t) \/ Abandon(t)
  \/ ExpireLease

Spec == Init /\ [][Next]_vars

(***************************************************************************)
(* What _loop and the event loop see to: a task that began goes on, a lease*)
(* that nobody works under runs out, and the loop comes back with a full   *)
(* check until it finds the lease free.                                    *)
(***************************************************************************)
FairSpec ==
  /\ Spec
  /\ \A t \in Tasks : WF_vars(Check(t)) /\ WF_vars(Delete(t))
  /\ WF_vars(ExpireLease)
  /\ \A t \in Tasks : SF_vars(StartCheck(t, TRUE))

(***************************************************************************)
(* Properties                                                              *)
(***************************************************************************)
Notices == [kind : {"blocked", "unblocked", "removed"}, of : 1 .. MaxSaves, ready : BOOLEAN]

Steps == {"idle", "budgets", "judge", "decide", "list", "release", "readState", "stage",
          "journal", "delete", "lift", "drop", "announce", "gone"}

TaskStates ==
  [pc : Steps, full : BOOLEAN, copy : {None} \cup Budgets,
   seen : {"none", "clear", "blocked", "lifted"}, fresh : BOOLEAN, staged : BOOLEAN,
   synced : BOOLEAN, todo : SUBSET Nat]

\* Types and limits.
TypeOK ==
  /\ budget \in {None} \cup Budgets /\ state \in {None} \cup States
  /\ notices \in Seq(Notices) /\ live \in BOOLEAN /\ lease \in {None} \cup Tasks
  /\ task \in [Tasks -> TaskStates]
  /\ judgedFor \in 0 .. MaxSaves /\ removed \subseteq 1 .. MaxSaves
  /\ announced \subseteq removed /\ told \in 0 .. Len(notices)
  /\ saves \in 0 .. MaxSaves /\ stops \in 0 .. MaxStops
  /\ failures \in 0 .. MaxFailures /\ expiries \in 0 .. MaxExpiries

\* A removal is announced only once it has happened: a deletion that was staged and then
\* cut off or refused says nothing by itself.
RemovalIsReal ==
  \A i \in DOMAIN notices :
    notices[i].kind = "removed" /\ notices[i].ready => notices[i].of \in removed

\* A check that finds a budget gone deletes the state that was left behind, never one that
\* the budget set again has been judged into.
CleaningSpares ==
  [][\A t \in Tasks : Clean(t) => budget = None \/ judgedFor # budget.created]_vars

\* Gateways first, so a block notice goes once the gateways have been told to refuse.
BlockToldFirst ==
  \A i \in DOMAIN notices : notices[i].kind = "blocked" /\ notices[i].ready => i <= told

\* Removing a budget lifts its block and writes the gateways' lists: when nothing failed and
\* nobody is at work any more, a cost center without a budget is not refused.
RemovalLifts ==
  /\ \A t \in Tasks : task[t].pc = "idle"
  /\ budget = None /\ stops + failures + expiries = 0
  => ~live

\* A budget set again keeps its own state and block while the old one is being removed.
NewBudgetKeepsState ==
  [][\A t \in Tasks : (Lift(t) \/ DropState(t)) /\ budget # None
                        => state' = state \/ judgedFor # budget.created]_vars

\* A staged deletion that did not commit must never announce an unblock.
AnnouncedWasCommitted ==
  \A i \in DOMAIN notices :
    notices[i].kind = "removed" /\ notices[i].ready => notices[i].of \in announced

\* The gateways come to refuse exactly the cost centers whose budgets block them.
EventuallyEnforced == <>[](live = Value)

\* Every notice goes out, except of a removal that the saved budget contradicts.
EventuallyAnnounced ==
  <>[](\A i \in DOMAIN notices :
         notices[i].ready \/ (notices[i].kind = "removed" /\ budget # None))

\* What a removal left behind is cleaned up.
OrphansGo == <>[](budget = None => state = None)

(***************************************************************************)
(* The inductive invariant.  Every incarnation that a task or a removal's  *)
(* notice speaks of is the saved one or was removed, so a budget set again *)
(* is new to all of them, and to the state that a cleaning check listed.   *)
(***************************************************************************)
Known(created) == created \in removed \/ (budget # None /\ budget.created = created)

Removing == {"readState", "stage", "journal", "delete", "lift"}

\* What holds of a task's memory s.
Sane(s) ==
  /\ s.todo \subseteq DOMAIN notices
  /\ s.copy # None => Known(s.copy.created)
  /\ s.pc \in Removing => s.copy # None
  /\ s.pc = "lift" => s.copy.created \in removed
  /\ s.pc = "judge" /\ s.copy = None /\ s.fresh /\ budget # None => judgedFor # budget.created

NoticesKnown == \A i \in DOMAIN notices : notices[i].kind = "removed" => Known(notices[i].of)

RecordsInv ==
  /\ budget # None => budget.created <= saves
  /\ removed \subseteq 1 .. saves
  /\ judgedFor <= saves
  /\ NoticesKnown
  /\ RemovalIsReal

IInv == TypeOK /\ RecordsInv /\ \A t \in Tasks : Sane(task[t])
================================================================================
