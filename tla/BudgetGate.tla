------------------------------ MODULE BudgetGate ------------------------------
(***************************************************************************)
(* How the list of blocked cost centers reaches the gateways.  Several     *)
(* processes work the list out from the saved budgets and write it to every*)
(* gateway, with no lock between them: each works it out again after its   *)
(* writes and writes again when it changed.                                *)
(*                                                                         *)
(* Code: services/budget_gate.py (BlockedListGate.blocked, ensure, sync,   *)
(* _sync_gateway).  The list is worked out from two reads, list_budgets and*)
(* then list_budget_states, and the records may change between them.       *)
(***************************************************************************)
EXTENDS Naturals

CONSTANTS
  CostCenters,
  Gateways,     \* managed gateways whose policies read the list
  Writers,      \* tasks that write the list
  Processes,    \* API instances
  ProcessOf,    \* the instance a writer runs in
  Rounds,       \* WRITE_ROUNDS
  Absent,       \* a named value, or a gate record, that does not exist
  Damaged,      \* a named value that MOSAIC did not write
  MaxChanges,   \* bound: changes of the saved records
  MaxFailures   \* bound: failed calls to a gateway, and abandoned writes

ASSUME WritersAssumption == ProcessOf \in [Writers -> Processes] /\ Gateways # {}
ASSUME RoundsAssumption == Rounds \in Nat \ {0}
ASSUME BoundsAssumption == MaxChanges \in Nat /\ MaxFailures \in Nat

VARIABLES
  \* the saved records
  blocking,   \* cost centers with a budget that blocks (desired state)
  blocked,    \* cost centers whose budgetState reads blocked, for this month
  \* the gateways, and what the last write to each recorded
  live,       \* the named value
  recorded,   \* GateState.value
  \* the writers
  pc,         \* where the writer is
  kind,       \* "sync" (the budget check) or "ensure" (a publication)
  seen,       \* the blocking budgets it listed
  value,      \* the list it writes
  round,      \* writes of that list so far; 0 before the first list
  todo,       \* gateways left in this round
  at,         \* the gateway it is writing (Absent: none yet)
  \* history: whether the writes are owed, and counters of the named bounds
  current,    \* nothing was disturbed since the reading behind `value` began
  reading,    \* nothing was disturbed since the reading under way began
  owed,       \* no undisturbed sync has ended since the last disturbance
  changes, failures

recordVars  == <<blocking, blocked>>
gatewayVars == <<live, recorded>>
writerVars  == <<pc, kind, seen, value, round, todo, at>>
historyVars == <<current, reading, owed, changes, failures>>
vars        == <<recordVars, gatewayVars, writerVars, historyVars>>

Lists == SUBSET CostCenters
Steps == {"idle", "budgets", "states", "gateway", "put", "record", "recordError"}

\* blocked(): this month's blocks whose budget still exists and still blocks.
Value == blocking \cap blocked

Init ==
  /\ blocking \in Lists /\ blocked \in Lists
  /\ live \in [Gateways -> {Absent, Damaged} \cup Lists]
  /\ recorded \in [Gateways -> {Absent} \cup Lists]
  /\ pc = [w \in Writers |-> "idle"]
  /\ kind = [w \in Writers |-> "sync"]
  /\ seen = [w \in Writers |-> {}]
  /\ value = [w \in Writers |-> {}]
  /\ round = [w \in Writers |-> 0]
  /\ todo = [w \in Writers |-> {}]
  /\ at = [w \in Writers |-> Absent]
  /\ current = [w \in Writers |-> FALSE]
  /\ reading = [w \in Writers |-> FALSE]
  /\ owed = TRUE /\ changes = 0 /\ failures = 0

\* History: what any writer read or wrote before now may no longer hold.
Disturb ==
  /\ current' = [w \in Writers |-> FALSE]
  /\ reading' = [w \in Writers |-> FALSE]
  /\ owed' = TRUE

(***************************************************************************)
(* The saved records change: a budget is set or removed, a check blocks or *)
(* lifts a cost center, or the month ends.  A change of the budgets that   *)
(* leaves the list as it was makes the readings under way old, and owes no *)
(* write.                                                                  *)
(***************************************************************************)
ChangeBudgets(new) ==
  /\ changes < MaxChanges
  /\ new # blocking
  /\ blocking' = new
  /\ current' = [w \in Writers |-> FALSE]
  /\ reading' = [w \in Writers |-> FALSE]
  /\ owed' = (owed \/ new \cap blocked # Value)
  /\ changes' = changes + 1
  /\ UNCHANGED <<blocked, gatewayVars, writerVars, failures>>

ChangeStates(new) ==
  /\ changes < MaxChanges
  /\ new # blocked
  /\ blocked' = new
  /\ Disturb
  /\ changes' = changes + 1
  /\ UNCHANGED <<blocking, gatewayVars, writerVars, failures>>

(***************************************************************************)
(* Starting: sync takes the process's asyncio lock; ensure takes none, and *)
(* only goes on when the gateway has no list.                              *)
(***************************************************************************)
Locked(p) ==
  \E u \in Writers : ProcessOf[u] = p /\ kind[u] = "sync" /\ pc[u] # "idle"

Begin(w, k, g) ==
  /\ pc[w] = "idle"
  /\ pc' = [pc EXCEPT ![w] = "budgets"]
  /\ kind' = [kind EXCEPT ![w] = k]
  /\ at' = [at EXCEPT ![w] = g]
  /\ UNCHANGED <<recordVars, gatewayVars, seen, value, round, todo, historyVars>>

\* The writer returns, or is cut off: its local variables are gone.
Leave(w) ==
  /\ pc' = [pc EXCEPT ![w] = "idle"]
  /\ kind' = [kind EXCEPT ![w] = "sync"]
  /\ value' = [value EXCEPT ![w] = {}]
  /\ seen' = [seen EXCEPT ![w] = {}]
  /\ round' = [round EXCEPT ![w] = 0]
  /\ todo' = [todo EXCEPT ![w] = {}]
  /\ at' = [at EXCEPT ![w] = Absent]

StartSync(w) == ~Locked(ProcessOf[w]) /\ Begin(w, "sync", Absent)

StartEnsure(w, g) == live[g] = Absent /\ Begin(w, "ensure", g)

\* value(): list_budgets, and then list_budget_states.
ReadBudgets(w) ==
  /\ pc[w] = "budgets"
  /\ seen' = [seen EXCEPT ![w] = blocking]
  /\ reading' = [reading EXCEPT ![w] = TRUE]
  /\ pc' = [pc EXCEPT ![w] = "states"]
  /\ UNCHANGED <<recordVars, gatewayVars, kind, value, round, todo, at,
                 current, owed, changes, failures>>

Latest(w) == seen[w] \cap blocked

\* Mutant: the list is not worked out again after the writes.
ConfirmedUnread(w) == round[w] > 0

\* The list worked out after the writes is the list written.
Confirmed(w) == round[w] > 0 /\ Latest(w) = value[w]

\* Mutant: one round too many.
RoundsLeftOffByOne(w) == round[w] <= Rounds

RoundsLeft(w) == round[w] < Rounds

\* The first list, or a list that changed during the writes: write it everywhere.
NextRound(w) ==
  /\ pc[w] = "states" /\ ~Confirmed(w) /\ RoundsLeft(w)
  /\ value' = [value EXCEPT ![w] = Latest(w)]
  /\ round' = [round EXCEPT ![w] = @ + 1]
  /\ todo' = [todo EXCEPT ![w] = IF kind[w] = "sync" THEN Gateways ELSE {}]
  /\ pc' = [pc EXCEPT ![w] = IF kind[w] = "sync" THEN "gateway" ELSE "put"]
  /\ seen' = [seen EXCEPT ![w] = {}]
  /\ current' = [current EXCEPT ![w] = reading[w]]
  /\ UNCHANGED <<recordVars, gatewayVars, kind, at, reading, owed,
                 changes, failures>>

\* Done: what is written is what the records say.  Only a sync covers every gateway.
Settle(w) ==
  /\ pc[w] = "states" /\ Confirmed(w)
  /\ Leave(w)
  /\ owed' = (owed /\ ~(kind[w] = "sync" /\ current[w]))
  /\ UNCHANGED <<recordVars, gatewayVars, current, reading, changes, failures>>

\* The rounds ran out: blocked_list_unsettled.
GiveUp(w) ==
  /\ pc[w] = "states" /\ ~Confirmed(w) /\ ~RoundsLeft(w)
  /\ Leave(w)
  /\ Disturb
  /\ UNCHANGED <<recordVars, gatewayVars, changes, failures>>

(***************************************************************************)
(* Writing one gateway.                                                    *)
(***************************************************************************)
\* Mutant: only a missing list is written.
DiffersIfMissing(w, g) == live[g] = Absent

\* Mutant: what the last write recorded is trusted in place of the live list.
DiffersFromRecord(w, g) == recorded[g] # value[w]

Differs(w, g) == live[g] # value[w]

\* get_named_value: the write is needed only when the live list differs.
Compare(w, g) ==
  /\ pc[w] = "gateway" /\ g \in todo[w]
  /\ todo' = [todo EXCEPT ![w] = @ \ {g}]
  /\ at' = [at EXCEPT ![w] = g]
  /\ pc' = [pc EXCEPT ![w] = IF Differs(w, g) THEN "put" ELSE "record"]
  /\ UNCHANGED <<recordVars, gatewayVars, kind, seen, value, round, historyVars>>

AfterGateway(w) == IF todo[w] = {} THEN "budgets" ELSE "gateway"

\* put_plain_named_value.  ensure's last write is not read again.
Put(w) ==
  /\ pc[w] = "put"
  /\ live' = [live EXCEPT ![at[w]] = value[w]]
  /\ \/ /\ kind[w] = "sync" \/ RoundsLeft(w)
        /\ pc' = [pc EXCEPT ![w] = IF kind[w] = "sync" THEN "record" ELSE "budgets"]
        /\ UNCHANGED <<kind, seen, value, round, todo, at, current, reading, owed>>
     \/ /\ kind[w] = "ensure" /\ ~RoundsLeft(w)
        /\ Leave(w)
        /\ Disturb
  /\ UNCHANGED <<recordVars, recorded, changes, failures>>

\* update_gate_state: the list the gateway now holds, or only that a call failed.
Record(w) ==
  /\ \/ pc[w] = "record" /\ recorded' = [recorded EXCEPT ![at[w]] = value[w]]
     \/ pc[w] = "recordError" /\ UNCHANGED recorded
  /\ pc' = [pc EXCEPT ![w] = AfterGateway(w)]
  /\ UNCHANGED <<recordVars, live, kind, seen, value, round, todo, at, historyVars>>

\* A call to a gateway fails, and a failed put may still have been applied.  sync
\* records it and goes on to the next gateway; ensure raises.
CallFails(w, g, applied) ==
  /\ failures < MaxFailures
  /\ \/ pc[w] = "gateway" /\ g \in todo[w] /\ ~applied
     \/ pc[w] = "put" /\ g = at[w]
  /\ live' = IF applied THEN [live EXCEPT ![g] = value[w]] ELSE live
  /\ \/ /\ kind[w] = "sync"
        /\ todo' = [todo EXCEPT ![w] = @ \ {g}]
        /\ at' = [at EXCEPT ![w] = g]
        /\ pc' = [pc EXCEPT ![w] = "recordError"]
        /\ UNCHANGED <<kind, seen, value, round>>
     \/ kind[w] = "ensure" /\ Leave(w)
  /\ Disturb
  /\ failures' = failures + 1
  /\ UNCHANGED <<recordVars, recorded, changes>>

\* The process stops, or a repository call raises out of the write.
Abandon(w) ==
  /\ failures < MaxFailures
  /\ pc[w] # "idle"
  /\ Leave(w)
  /\ Disturb
  /\ failures' = failures + 1
  /\ UNCHANGED <<recordVars, gatewayVars, changes>>

Write(w) ==
  \/ ReadBudgets(w) \/ NextRound(w) \/ Settle(w) \/ GiveUp(w)
  \/ \E g \in Gateways : Compare(w, g)
  \/ Put(w) \/ Record(w)

Next ==
  \/ \E new \in Lists : ChangeBudgets(new) \/ ChangeStates(new)
  \/ \E w \in Writers :
       \/ StartSync(w)
       \/ \E g \in Gateways : StartEnsure(w, g)
       \/ Write(w)
       \/ \E g \in Gateways, applied \in BOOLEAN : CallFails(w, g, applied)
       \/ Abandon(w)

Spec == Init /\ [][Next]_vars

\* Every full check ends in a sync, at least every interval; a write that began goes on.
FairSpec == Spec /\ \A w \in Writers : WF_vars(StartSync(w)) /\ WF_vars(Write(w))

(***************************************************************************)
(* Properties                                                              *)
(***************************************************************************)
TypeOK ==
  /\ blocking \in Lists /\ blocked \in Lists
  /\ live \in [Gateways -> {Absent, Damaged} \cup Lists]
  /\ recorded \in [Gateways -> {Absent} \cup Lists]
  /\ pc \in [Writers -> Steps]
  /\ kind \in [Writers -> {"sync", "ensure"}]
  /\ seen \in [Writers -> Lists] /\ value \in [Writers -> Lists]
  /\ round \in [Writers -> 0 .. Rounds]
  /\ todo \in [Writers -> SUBSET Gateways] /\ at \in [Writers -> {Absent} \cup Gateways]
  /\ current \in [Writers -> BOOLEAN] /\ reading \in [Writers -> BOOLEAN]
  /\ owed \in BOOLEAN /\ changes \in 0 .. MaxChanges /\ failures \in 0 .. MaxFailures

Quiet == \A w \in Writers : pc[w] = "idle"

\* "The last writer always leaves what the budgets say": once no write is under way,
\* and a sync that nothing disturbed has ended, every gateway refuses exactly the
\* cost centers the saved budgets block, whatever order the writes landed in.
LastWriterSettles == Quiet /\ ~owed => \A g \in Gateways : live[g] = Value

\* The overview's "enforcing" is read from GateState, which each writer saves after
\* its put: once settled, no gateway is shown with a list it does not hold.
OverviewSettles == Quiet /\ ~owed => \A g \in Gateways : recorded[g] = live[g]

\* When the records stop changing and calls stop failing, every gateway comes to hold
\* the list and keeps it: a stale write is always found and written over.
EventuallyEnforced == <>[](\A g \in Gateways : live[g] = Value)

\* ensure's docstring: "A list already there is left alone: the budget check owns what it
\* holds."  The write that creates the list never replaces one that a sync has settled.
EnsureLeavesSyncedList ==
  [][\A w \in Writers :
       pc[w] = "put" /\ kind[w] = "ensure" /\ round[w] = 1 /\ pc'[w] # "put" /\ live' # live
         => live[at[w]] = Absent \/ owed]_vars

(***************************************************************************)
(* The inductive invariant.  A gateway that does not hold the list is one  *)
(* that some writer under way will still correct: it wrote what the gateway*)
(* holds and has yet to read the records again, or it writes the list and  *)
(* has yet to come to the gateway.                                         *)
(***************************************************************************)
Writing == {"gateway", "put", "record", "recordError"}

\* `held` is what the gateway holds (or its record says); a writer in one of `steps`
\* at the gateway is about to replace it.
WillCorrect(w, g, held, steps) ==
  \/ /\ round[w] > 0 /\ held = value[w]
     /\ \/ pc[w] \in Writing \cup {"budgets"}
        \/ pc[w] = "states" /\ Latest(w) = Value
  \/ /\ value[w] = Value /\ pc[w] \in Writing
     /\ g \in todo[w] \/ (pc[w] \in steps /\ at[w] = g)

LiveInHand(g) ==
  \/ live[g] = Value
  \/ \E w \in Writers : /\ kind[w] = "sync" \/ at[w] = g
                        /\ WillCorrect(w, g, live[g], {"put"})

RecordInHand(g) ==
  \/ recorded[g] = Value
  \/ \E w \in Writers : /\ kind[w] = "sync"
                        /\ WillCorrect(w, g, recorded[g], {"put", "record"})

\* The writer has read the records for a round, and is past gateway g in it.
Passed(w, g, steps) ==
  /\ kind[w] = "sync" /\ round[w] > 0
  /\ g \notin todo[w] /\ ~(pc[w] \in steps /\ at[w] = g)

LocalsOK ==
  \A w \in Writers :
    /\ pc[w] \in Writing => round[w] > 0
    /\ pc[w] \in {"put", "record", "recordError"} => at[w] \in Gateways
    /\ kind[w] = "ensure" => at[w] \in Gateways /\ todo[w] = {}
    /\ kind[w] = "ensure" => pc[w] \notin {"gateway", "record", "recordError"}
    /\ pc[w] \notin Writing => todo[w] = {}
    /\ pc[w] = "idle" => round[w] = 0 /\ kind[w] = "sync"

CurrentOK ==
  \A w \in Writers :
    /\ current[w] /\ round[w] > 0 => value[w] = Value /\ pc[w] # "recordError"
    /\ reading[w] /\ pc[w] = "states" => seen[w] = blocking

CorrectedOK ==
  \A g \in Gateways :
    /\ ~owed => LiveInHand(g) /\ RecordInHand(g)
    /\ \A w \in Writers : current[w] =>
         /\ Passed(w, g, {"put"}) => LiveInHand(g)
         /\ Passed(w, g, {"put", "record"}) => RecordInHand(g)

IInv == TypeOK /\ LocalsOK /\ CurrentOK /\ CorrectedOK
===============================================================================
