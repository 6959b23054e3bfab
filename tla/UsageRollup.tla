------------------------------ MODULE UsageRollup ------------------------------
(***************************************************************************)
(* How the calls of one gateway are rolled up from Log Analytics: every run *)
(* reads today, yesterday and a slice of a backfill, newest day first,     *)
(* replaces each day it read, folds the months those days fall in, and     *)
(* saves its state on top of whatever was saved meanwhile.  A lease keeps  *)
(* replicas apart until it expires; a query or a write may fail, a run may *)
(* stop at any step, logs may arrive late and be deleted.                  *)
(*                                                                         *)
(* Code: services/usage_rollup.py; repositories/cosmos_usage.py (the state,*)
(* saved only over the version that was read), repositories/               *)
(* cosmos_gateway.py (the lease).  A day's figures are its number of calls.*)
(***************************************************************************)
EXTENDS Integers, FiniteSets, FiniteSetsExt

CONSTANTS
  Runners,      \* API instances, each with one rollup loop
  FirstToday,   \* the day the gateway is added
  LastDay,      \* bound: the last day; day 0 stands for all earlier ones
  MonthDays,    \* days in a month
  Slice,        \* BACKFILL_DAYS_PER_CYCLE
  MaxBackfill,  \* backfill_max_days
  MaxCalls,     \* bound: calls in a day
  MaxEvents,    \* bound: late calls, deleted logs, expired days, requests
  MaxFaults     \* bound: failed queries and writes, stopped runs, overrun leases

ASSUME DaysAssumption ==
  /\ FirstToday \in Nat /\ LastDay \in Nat /\ 2 <= FirstToday /\ FirstToday <= LastDay
ASSUME SizesAssumption ==
  /\ MonthDays \in Nat \ {0} /\ Slice \in Nat \ {0} /\ MaxBackfill \in Nat \ {0}
ASSUME BoundsAssumption == MaxCalls \in Nat \ {0} /\ MaxEvents \in Nat /\ MaxFaults \in Nat
ASSUME RunnersAssumption == "nobody" \notin Runners

Days     == 0..LastDay
Month(d) == d \div MonthDays
Months   == {Month(d) : d \in Days}
Never    == -1     \* no date

VARIABLES
  today,    \* the date, in UTC
  log,      \* the calls Log Analytics holds of each day
  daily,    \* the day summaries
  monthly,  \* the month summaries
  st,       \* the gateway's rollup state
  lease,    \* who holds the gateway's scope lease
  w,        \* the run of each runner
  asked,    \* history: days an administrator asked for that no finished run has read since
  final,    \* history: days read by a finished run after they ended
  covered,  \* history: the first day the job answers for, while it has a success to catch up from
  beyond,   \* history: days missed for longer than a catch-up reaches back
  events, faults

history == <<asked, final, covered, beyond>>
vars    == <<today, log, daily, monthly, st, lease, w, history, events, faults>>

Smaller(a, b) == IF a < b THEN a ELSE b
Larger(a, b)  == IF a < b THEN b ELSE a

Fault == faults < MaxFaults /\ faults' = faults + 1
Event == events < MaxEvents /\ events' = events + 1

Idle == [pc |-> "idle", day |-> 0, before |-> [ran |-> FALSE, through |-> Never, from |-> Never,
                                                next |-> Never, status |-> "none"],
         st |-> [ran |-> FALSE, through |-> Never, from |-> Never, next |-> Never,
                 status |-> "none"],
         todo |-> {}, found |-> 0, read |-> {}, months |-> {}, failed |-> FALSE, shared |-> FALSE]

Init ==
  /\ today = FirstToday
  /\ log = [d \in Days |-> IF d <= FirstToday THEN 1 ELSE 0]
  /\ daily = [d \in Days |-> 0]
  /\ monthly = [m \in Months |-> 0]
  /\ st = Idle.st
  /\ lease = "nobody"
  /\ w = [r \in Runners |-> Idle]
  /\ asked = {} /\ final = {} /\ beyond = {} /\ covered = Never
  /\ events = 0 /\ faults = 0

-----------------------------------------------------------------------------
(* The world: time passes, calls are logged, some of them late, and what is *)
(* old is deleted: logs by the workspace, summaries by their time to live, *)
(* both kept for more days than a run looks back by itself.                *)

\* A run sees one midnight at most.
NextDay ==
  /\ today < LastDay
  /\ \A r \in Runners : w[r].pc # "idle" => w[r].day = today
  /\ today' = today + 1
  /\ log' = [log EXCEPT ![today + 1] = 1]
  /\ UNCHANGED <<daily, monthly, st, lease, w, history, events, faults>>

LateCall(d) ==
  /\ Event
  /\ d <= today /\ log[d] < MaxCalls
  /\ log' = [log EXCEPT ![d] = @ + 1]
  /\ UNCHANGED <<today, daily, monthly, st, lease, w, history, faults>>

DeleteLogs(d) ==
  /\ Event
  /\ d < today - 2 /\ log[d] > 0
  /\ log' = [log EXCEPT ![d] = 0]
  /\ UNCHANGED <<today, daily, monthly, st, lease, w, history, faults>>

ExpireDay(d) ==
  /\ Event
  /\ d < today - 2 /\ daily[d] > 0
  /\ daily' = [daily EXCEPT ![d] = 0]
  /\ UNCHANGED <<today, log, monthly, st, lease, w, history, faults>>

-----------------------------------------------------------------------------
(* Backfills.                                                              *)

Backfilling(s) == s.status = "running"

\* _with_backfill: newest first; one still going keeps its older days.
WithBackfill(s, day, days) ==
  LET asks  == Larger(0, day - days + 1)
      first == IF Backfilling(s) THEN Smaller(asks, s.from) ELSE asks
  IN IF day - 2 >= first
     THEN [s EXCEPT !.from = first, !.next = day - 2, !.status = "running"]
     ELSE [s EXCEPT !.from = first, !.next = Never, !.status = "done"]

\* _with_catch_up: the days that a stopped or failing job missed.
WithCatchUp(s, day) ==
  LET gap  == Larger(s.through, day - (MaxBackfill - 1))
      last == day - 2
  IN IF s.through = Never \/ gap > last THEN s
     ELSE IF Backfilling(s) /\ s.next >= last THEN [s EXCEPT !.from = Smaller(@, gap)]
     ELSE [s EXCEPT !.from = IF Backfilling(s) THEN Smaller(@, gap) ELSE gap,
                    !.next = last, !.status = "running"]

\* A gateway's first run reads back as far as allowed.
Opening(s, day) ==
  WithCatchUp(IF ~s.ran /\ s.from = Never THEN WithBackfill(s, day, MaxBackfill) ELSE s, day)

BackfillSlice(s) ==
  IF Backfilling(s) THEN {d \in Days : s.from <= d /\ d <= s.next /\ s.next - d < Slice} ELSE {}

\* Mutant: a backfill goes on past its last day.
AdvanceEndless(s, d, day) ==
  IF ~Backfilling(s) \/ d >= day - 1 \/ d # s.next THEN s ELSE [s EXCEPT !.next = d - 1]

\* _advance: past the day that was read, when it is the backfill's next.
Advance(s, d, day) ==
  IF ~Backfilling(s) \/ d >= day - 1 \/ d # s.next THEN s
  ELSE IF d - 1 < s.from THEN [s EXCEPT !.next = Never, !.status = "done"]
  ELSE [s EXCEPT !.next = d - 1]

Backfill(s) == <<s.from, s.next, s.status>>

TakeBackfill(s, t) == [s EXCEPT !.from = t.from, !.next = t.next, !.status = t.status]

\* Mutant: a run saves the backfill it knows of over the one saved meanwhile.
MergeRunBlind(current, before, run) ==
  TakeBackfill([current EXCEPT !.ran = run.ran, !.through = run.through], run)

\* merge_run: the run's results on top of the state as saved now.
MergeRun(current, before, run) ==
  LET mine == [current EXCEPT !.ran = run.ran, !.through = run.through]
  IN IF Backfill(current) = Backfill(before) THEN TakeBackfill(mine, run)
     ELSE IF ~Backfilling(run) THEN mine
     ELSE IF ~Backfilling(current) THEN TakeBackfill(mine, run)
     ELSE [mine EXCEPT !.from = Smaller(current.from, run.from),
                       !.next = Larger(current.next, run.next)]

RequestBackfill(days) ==
  /\ Event
  /\ st' = WithBackfill(st, today, days)
  /\ asked' = asked \union {d \in Days : today - days < d /\ d <= today - 2}
  /\ UNCHANGED <<today, log, daily, monthly, lease, w, final, covered, beyond, faults>>

-----------------------------------------------------------------------------
(* A run.                                                                  *)

Live(r) == w[r].pc # "idle"

\* Days and then months are taken in turn: the newest day first (today, yesterday, the
\* backfill's), then the oldest month first.

\* _leased_gateway_run and the start of roll_up_gateway, with the state as read.
Start(r) ==
  /\ ~Live(r) /\ lease = "nobody"
  /\ lease' = r
  /\ LET s == [Opening(st, today) EXCEPT !.ran = TRUE]
         overlap == \E other \in Runners : Live(other)
     IN w' = [x \in Runners |->
          IF x = r THEN [Idle EXCEPT !.pc = "query", !.day = today, !.before = st, !.st = s,
                                     !.todo = {today, today - 1} \union BackfillSlice(s),
                                     !.shared = overlap]
          ELSE IF Live(x) THEN [w[x] EXCEPT !.shared = TRUE] ELSE w[x]]
  /\ beyond' = beyond \union {d \in Days : st.through # Never /\ st.through <= d
                                         /\ d < today - (MaxBackfill - 1)}
  /\ UNCHANGED <<today, log, daily, monthly, st, asked, final, covered, events, faults>>

\* The day's queries; one that fails ends the run's reading.
Query(r) ==
  /\ w[r].pc = "query" /\ w[r].todo # {}
  /\ \/ /\ w' = [w EXCEPT ![r].pc = "judge", ![r].found = log[Max(w[r].todo)]]
        /\ UNCHANGED faults
     \/ /\ Fault
        /\ w' = [w EXCEPT ![r].pc = "finish", ![r].failed = TRUE]
  /\ UNCHANGED <<today, log, daily, monthly, st, lease, history, events>>

Finished(run, d) ==
  [run EXCEPT !.pc = "query", !.todo = @ \ {d}, !.read = @ \union {d},
              !.months = @ \union {Month(d)}, !.st = Advance(@, d, run.day)]

\* Mutant: an older day takes whatever the logs still hold.
WouldLowerNever(d, day, found) == FALSE

\* _would_lower: asked only of days before yesterday.
WouldLower(d, day, found) == d < day - 1 /\ daily[d] > found

Judge(r) ==
  LET d == Max(w[r].todo)
  IN /\ w[r].pc = "judge"
     /\ w' = [w EXCEPT ![r] = IF WouldLower(d, @.day, @.found) THEN Finished(@, d)
                              ELSE [@ EXCEPT !.pc = "write"]]
     /\ UNCHANGED <<today, log, daily, monthly, st, lease, history,
                    events, faults>>

\* _replace_bucket of a day.
WriteDay(r) ==
  LET d == Max(w[r].todo)
      replaced == [daily EXCEPT ![d] = w[r].found]
  IN /\ w[r].pc = "write"
     /\ \/ /\ daily' = replaced
           /\ w' = [w EXCEPT ![r] = Finished(@, d)]
           /\ UNCHANGED faults
        \/ /\ Fault
           /\ daily' \in {daily, replaced}
           /\ w' = [w EXCEPT ![r].pc = "finish", ![r].failed = TRUE]
     /\ UNCHANGED <<today, log, monthly, st, lease, history, events>>

\* fold_month: the calls of one month's days, added up.
Folded(m) ==
  Cardinality({p \in Days \X (1..MaxCalls) : Month(p[1]) = m /\ p[2] <= daily[p[1]]})

Fold(r) ==
  /\ w[r].pc = "query" /\ w[r].todo = {}
  /\ w' = IF w[r].months = {} THEN [w EXCEPT ![r].pc = "finish"]
          ELSE [w EXCEPT ![r].pc = "month", ![r].found = Folded(Min(w[r].months))]
  /\ UNCHANGED <<today, log, daily, monthly, st, lease, history,
                 events, faults>>

\* The end of _fold_month: a month is never lowered either.
WriteMonth(r) ==
  LET m == Min(w[r].months)
  IN /\ w[r].pc = "month"
     /\ \/ /\ monthly' = [monthly EXCEPT ![m] = Larger(@, w[r].found)]
           /\ w' = [w EXCEPT ![r].pc = "query", ![r].months = @ \ {m}]
           /\ UNCHANGED faults
        \/ /\ Fault
           /\ UNCHANGED monthly
           /\ w' = [w EXCEPT ![r].pc = "finish", ![r].failed = TRUE]
     /\ UNCHANGED <<today, log, daily, st, lease, history, events>>

Released(r) == IF lease = r THEN "nobody" ELSE lease

\* The run's results are merged into the state as saved now, and the lease given back.
Finish(r) ==
  /\ w[r].pc = "finish"
  /\ LET run == [w[r].st EXCEPT !.through = IF w[r].failed THEN @ ELSE w[r].day]
     IN /\ st' = MergeRun(st, w[r].before, run)
        /\ covered' = IF run.through = Never THEN Never
                      ELSE IF covered = Never /\ ~w[r].failed THEN w[r].day - 1 ELSE covered
  /\ asked' = asked \ w[r].read
  /\ final' = final \union {d \in w[r].read : d < w[r].day}
  /\ lease' = Released(r)
  /\ w' = [w EXCEPT ![r] = Idle]
  /\ UNCHANGED <<today, log, daily, monthly, beyond, events, faults>>

\* A run that raises, whose state cannot be saved, gives its lease back; a killed one does not.
Stop(r) ==
  /\ Live(r)
  /\ Fault
  /\ w' = [w EXCEPT ![r] = Idle]
  /\ lease' \in {lease, Released(r)}
  /\ UNCHANGED <<today, log, daily, monthly, st, history, events>>

\* The lease of a run that is gone, or that takes longer than the lease lasts.
LeaseExpires ==
  /\ lease # "nobody"
  /\ IF Live(lease) THEN Fault ELSE UNCHANGED faults
  /\ lease' = "nobody"
  /\ UNCHANGED <<today, log, daily, monthly, st, w, history, events>>

-----------------------------------------------------------------------------
Step(r) == Query(r) \/ Judge(r) \/ WriteDay(r) \/ Fold(r) \/ WriteMonth(r) \/ Finish(r)

Next ==
  \/ NextDay
  \/ \E d \in Days : LateCall(d) \/ DeleteLogs(d) \/ ExpireDay(d)
  \/ \E days \in 1..MaxBackfill : RequestBackfill(days)
  \/ \E r \in Runners : Start(r) \/ Step(r) \/ Stop(r)
  \/ LeaseExpires

Spec == Init /\ [][Next]_vars

-----------------------------------------------------------------------------
Dates  == {Never} \union Days
States == [ran : BOOLEAN, through : Dates, from : Dates, next : Dates,
           status : {"none", "running", "done"}]
Runs   == [pc : {"idle", "query", "judge", "write", "month", "finish"}, day : Days,
           before : States, st : States, todo : SUBSET Days, found : Nat, read : SUBSET Days,
           months : SUBSET Months, failed : BOOLEAN, shared : BOOLEAN]

\* A backfill that is running, and no other, has days before it: the code parses both its dates.
HasDays(s) == IF Backfilling(s) THEN s.from # Never /\ s.from <= s.next ELSE s.next = Never

TypeOK ==
  /\ today \in Days
  /\ log \in [Days -> 0..MaxCalls] /\ daily \in [Days -> 0..MaxCalls]
  /\ monthly \in [Months -> Nat]
  /\ st \in States /\ HasDays(st)
  /\ lease \in Runners \union {"nobody"}
  /\ w \in [Runners -> Runs]
  /\ \A r \in Runners : HasDays(w[r].st) /\ HasDays(w[r].before)
  /\ asked \subseteq Days /\ final \subseteq Days /\ beyond \subseteq Days /\ covered \in Dates
  /\ events \in 0..MaxEvents /\ faults \in 0..MaxFaults

Ahead(d) == Backfilling(st) /\ st.from <= d /\ d <= st.next

\* No day is forgotten, whatever runs fail, stop or overlap.  A day an administrator asked to read
\* again stays in the backfill until a run that read it has finished (merge_run).  And once a run
\* has succeeded, each later day is read after it ended, or is still to come: in the backfill, or
\* since the last run that succeeded, from where the next one catches up (_with_catch_up);
\* but for days missed for longer than the limit of a catch-up.
NothingForgotten ==
  /\ \A d \in asked : Ahead(d)
  /\ covered # Never =>
       \A d \in covered..today : d \in final \/ d \in beyond \/ Ahead(d) \/ d >= st.through

\* "A day before yesterday is never lowered, and neither is a month" (docs/adr/0019), but for
\* runs that overlap because one outlived its lease, and for days that expire.
NeverLowered ==
  [][\/ \E r \in Runners : w[r].shared
     \/ /\ \A d \in Days : d < today - 1 /\ daily'[d] < daily[d] => events' # events
        /\ \A m \in Months : monthly'[m] >= monthly[m]]_vars

\* "A job that stopped or kept failing re-reads the days it missed" (docs/adr/0019): each day since
\* the first run's yesterday is read after it ended, or is still to come.
NoDayMissed ==
  \A d \in FirstToday..today :
    st.through # Never => d \in final \/ Ahead(d) \/ d >= st.through

\* "Folds the months those days fall in" (docs/adr/0019): when no run is going and the last one
\* succeeded with no backfill left, each month holds at least its days' calls.
MonthsFolded ==
  (\A r \in Runners : ~Live(r)) /\ st.through = today /\ st.status = "done"
    => \A m \in Months : monthly[m] >= Folded(m)
===============================================================================
