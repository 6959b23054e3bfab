--------------------------- MODULE UsageRollupProofs ---------------------------
(***************************************************************************)
(* Proofs about UsageRollup, for any number of instances, days and faults. *)
(* IInv says what each run under way still owes: the days of the backfill  *)
(* it read at its start, and the days that its success would answer for,   *)
(* are read by it or still in the backfill it carries.                     *)
(***************************************************************************)
EXTENDS UsageRollup, FiniteSetTheorems, WellFoundedInduction, TLAPS

InRange(s, d) == Backfilling(s) /\ s.from <= d /\ d <= s.next

\* A backfill stays behind yesterday, and a success is not in the future.
Behind(s, day) == (Backfilling(s) => s.next <= day - 2) /\ s.through <= day

\* What a run's record says by itself.
Fits(v) ==
  /\ v.pc \in {"judge", "write"} => v.todo # {} /\ v.found \in 0..MaxCalls
  /\ Behind(v.before, v.day) /\ Behind(v.st, v.day)
  /\ v.st.through = v.before.through
  /\ \A d \in Days : InRange(v.before, d) => d \in v.read \/ InRange(v.st, d)
  /\ v.pc # "idle" /\ ~v.failed =>
       /\ v.day - 1 \in v.todo \union v.read
       /\ v.pc \in {"month", "finish"} => v.todo = {}

\* What it owes.
Owes(v) ==
  /\ v.pc # "idle" => v.day \in {today - 1, today}
  /\ v.st.through # Never => v.st.through - 1 \in final
  /\ v.pc # "idle" /\ covered # Never =>
       \A d \in Days : covered <= d /\ d <= v.day - 2 =>
         d \in final \/ d \in beyond \/ d \in v.read \/ InRange(v.st, d)

StateInv ==
  /\ FirstToday <= today /\ Behind(st, today)
  /\ st.through # Never => st.through - 1 \in final
  /\ covered # Never => st.through # Never

IInv == TypeOK /\ StateInv /\ NothingForgotten /\ \A r \in Runners : Fits(w[r]) /\ Owes(w[r])

-----------------------------------------------------------------------------
(* Days.                                                                   *)

\* The newest day of a set is one of its days.
LEMMA NewestDay ==
  ASSUME NEW S, S \subseteq Days, S # {}
  PROVE  Max(S) \in S
<1> DEFINE T == {LastDay - d : d \in S}
<1>1. T \subseteq Nat /\ T # {}
  <2>1. \A d \in S : LastDay - d \in Nat
    BY DaysAssumption DEF Days
  <2>2. PICK d \in S : TRUE
    OBVIOUS
  <2>3. LastDay - d \in T
    BY <2>2
  <2>4. QED
    BY <2>1, <2>3
<1>2. PICK x \in T : \A y \in T : ~(<<y, x>> \in OpToRel(<, Nat))
  BY <1>1, NatLessThanWellFounded, WFMin, Zenon
<1>3. \A y \in T : ~(y < x)
  BY <1>1, <1>2 DEF OpToRel
<1>4. PICK d \in S : x = LastDay - d
  BY <1>2
<1>5. \A e \in S : d >= e
  <2>1. ASSUME NEW e \in S PROVE d >= e
    <3>1. LastDay - e \in T
      OBVIOUS
    <3>2. ~(LastDay - e < LastDay - d)
      BY <1>3, <1>4, <3>1
    <3>3. QED
      BY <3>2, DaysAssumption DEF Days
  <2>2. QED
    BY <2>1
<1>6. QED
  BY <1>5 DEF Max

\* The calls of a month are a number.
LEMMA FoldedIsNat ==
  ASSUME NEW m
  PROVE  Folded(m) \in Nat
<1> DEFINE All == Days \X (1..MaxCalls)
           Some == {p \in All : Month(p[1]) = m /\ p[2] <= daily[p[1]]}
<1>1. IsFiniteSet(Days) /\ IsFiniteSet(1..MaxCalls)
  BY FS_Interval, DaysAssumption, BoundsAssumption DEF Days
<1>2. IsFiniteSet(All)
  BY <1>1, FS_Product
<1>3. IsFiniteSet(Some)
  BY <1>2, FS_Subset
<1>4. QED
  BY <1>3, FS_CardinalityType DEF Folded

-----------------------------------------------------------------------------
(* Backfills.                                                              *)

\* A backfill asked for keeps the days of one still going, and gets those asked for.
LEMMA WithBackfillKeeps ==
  ASSUME NEW s \in States, HasDays(s), NEW day \in Days, Behind(s, day),
         NEW days \in Nat \ {0}
  PROVE  LET t == WithBackfill(s, day, days)
         IN /\ t \in States /\ HasDays(t) /\ Behind(t, day)
            /\ t.through = s.through /\ t.ran = s.ran
            /\ \A d \in Days : InRange(s, d) => InRange(t, d)
            /\ \A d \in Days : day - days < d /\ d <= day - 2 => InRange(t, d)
<1> DEFINE asks == Larger(0, day - days + 1)
           first == IF Backfilling(s) THEN Smaller(asks, s.from) ELSE asks
<1>0. day \in Nat /\ days \in Nat /\ days >= 1 /\ LastDay \in Nat /\ day <= LastDay
  BY DaysAssumption DEF Days
<1>1. asks \in Nat /\ asks <= day /\ asks >= day - days + 1 /\ (asks = 0 \/ asks = day - days + 1)
  BY <1>0 DEF Larger
<1>2. /\ s.from \in Dates /\ s.next \in Dates /\ s.through \in Dates
      /\ s.ran \in BOOLEAN
  BY DEF States
<1>3. Backfilling(s) => s.from \in Days /\ s.next \in Days /\ s.from <= s.next /\ s.next <= day - 2
  BY <1>2 DEF HasDays, Behind, Dates, Days, Never
<1>4. first \in Days /\ first <= asks /\ (Backfilling(s) => first <= s.from)
  BY <1>0, <1>1, <1>3 DEF Smaller, Days
<1> HIDE DEF asks, first
<1>5. CASE day - 2 >= first
  <2>1. WithBackfill(s, day, days) = [s EXCEPT !.from = first, !.next = day - 2, !.status = "running"]
    BY <1>5 DEF WithBackfill, asks, first
  <2>2. day - 2 \in Days
    BY <1>0, <1>4, <1>5 DEF Days
  <2> DEFINE t == [s EXCEPT !.from = first, !.next = day - 2, !.status = "running"]
  <2>3. /\ t.from = first /\ t.next = day - 2 /\ t.status = "running"
        /\ t.through = s.through /\ t.ran = s.ran /\ t \in States
    BY <1>4, <2>2 DEF States, Dates
  <2>4. HasDays(t) /\ Behind(t, day)
    BY <2>3, <1>0, <1>4, <1>5 DEF HasDays, Behind, Backfilling, Never, Days
  <2>5. \A d \in Days : InRange(s, d) => InRange(t, d)
    BY <2>3, <1>0, <1>3, <1>4 DEF InRange, Backfilling, Days
  <2>6. \A d \in Days : day - days < d /\ d <= day - 2 => InRange(t, d)
    BY <2>3, <1>0, <1>1, <1>4 DEF InRange, Backfilling, Days
  <2>7. QED
    BY <2>1, <2>3, <2>4, <2>5, <2>6 DEF t
<1>6. CASE ~(day - 2 >= first)
  <2>1. WithBackfill(s, day, days) = [s EXCEPT !.from = first, !.next = Never, !.status = "done"]
    BY <1>6 DEF WithBackfill, asks, first
  <2> DEFINE t == [s EXCEPT !.from = first, !.next = Never, !.status = "done"]
  <2>2. /\ t.from = first /\ t.next = Never /\ t.status = "done"
        /\ t.through = s.through /\ t.ran = s.ran /\ t \in States
    BY <1>4 DEF States, Dates
  <2>3. ~Backfilling(s)
    BY <1>0, <1>3, <1>4, <1>6 DEF Days
  <2>4. HasDays(t) /\ Behind(t, day)
    BY <2>2 DEF HasDays, Behind, Backfilling
  <2>5. \A d \in Days : ~(day - days < d /\ d <= day - 2)
    BY <1>0, <1>1, <1>4, <1>6, <2>3 DEF first, Days
  <2>6. QED
    BY <2>1, <2>2, <2>3, <2>4, <2>5 DEF t, InRange
<1>7. QED
  BY <1>5, <1>6

\* A catch-up keeps a backfill still going, and adds the days since the last success.
LEMMA WithCatchUpKeeps ==
  ASSUME NEW s \in States, HasDays(s), NEW day \in Days, Behind(s, day)
  PROVE  LET t == WithCatchUp(s, day)
         IN /\ t \in States /\ HasDays(t) /\ Behind(t, day)
            /\ t.through = s.through /\ t.ran = s.ran
            /\ \A d \in Days : InRange(s, d) => InRange(t, d)
            /\ \A d \in Days : s.through # Never /\ s.through <= d /\ d <= day - 2
                                /\ d >= day - (MaxBackfill - 1) => InRange(t, d)
<1> DEFINE gap  == Larger(s.through, day - (MaxBackfill - 1))
           last == day - 2
           t    == WithCatchUp(s, day)
<1>0. day \in Nat /\ LastDay \in Nat /\ day <= LastDay /\ MaxBackfill \in Nat /\ last \in Int
  BY DaysAssumption, SizesAssumption DEF Days
<1>1. /\ s.from \in Dates /\ s.next \in Dates /\ s.through \in Dates
      /\ s.from \in Int /\ s.next \in Int /\ s.through \in Int
  BY DaysAssumption DEF States, Dates, Never, Days
<1>2. Backfilling(s) => s.from \in Days /\ s.next \in Days /\ s.from <= s.next /\ s.next <= last
  BY <1>1 DEF HasDays, Behind, Dates, Days, Never
<1>3. /\ gap \in Int /\ s.through <= gap /\ day - (MaxBackfill - 1) <= gap
      /\ (gap = s.through \/ gap = day - (MaxBackfill - 1))
  BY <1>0, <1>1 DEF Larger
<1> HIDE DEF gap, last
<1>4. CASE s.through = Never \/ gap > last
  <2>1. t = s
    BY <1>4 DEF WithCatchUp, gap, last
  <2>2. \A d \in Days : ~(/\ s.through # Never /\ s.through <= d /\ d <= day - 2
                          /\ d >= day - (MaxBackfill - 1))
    BY <1>0, <1>1, <1>3, <1>4 DEF Days, last
  <2>3. QED
    BY <2>1, <2>2 DEF t
<1>5. CASE s.through # Never /\ gap <= last
  <2>1. gap \in Days /\ last \in Days
    BY <1>0, <1>1, <1>3, <1>5 DEF Dates, Days, Never, last
  <2>2. CASE Backfilling(s) /\ s.next >= last
    <3> DEFINE u == [s EXCEPT !.from = Smaller(@, gap)]
    <3>1. t = u
      BY <1>0, <1>3, <1>5, <2>2 DEF WithCatchUp, gap, last
    <3>2. Smaller(s.from, gap) \in Days /\ Smaller(s.from, gap) <= s.from /\ Smaller(s.from, gap) <= gap
      BY <1>2, <2>1, <2>2 DEF Smaller, Days
    <3>3. /\ u \in States /\ u.from = Smaller(s.from, gap) /\ u.next = s.next
          /\ u.status = s.status /\ u.through = s.through /\ u.ran = s.ran
      BY <3>2 DEF States, Dates
    <3> HIDE DEF u, t
    <3>4. HasDays(u) /\ Behind(u, day)
      BY <3>2, <3>3, <1>1, <1>2, <2>2 DEF HasDays, Behind, Backfilling, Never, Days
    <3>5. \A d \in Days : InRange(s, d) => InRange(u, d)
      BY <3>2, <3>3, <1>2, <2>2 DEF InRange, Backfilling, Days
    <3>6. \A d \in Days : gap <= d /\ d <= last => InRange(u, d)
      BY <3>2, <3>3, <1>0, <1>2, <1>3, <2>2 DEF InRange, Backfilling, Days
    <3>7. \A d \in Days : s.through <= d /\ d >= day - (MaxBackfill - 1) => gap <= d
      BY <1>3
    <3>8. QED
      BY <3>1, <3>3, <3>4, <3>5, <3>6, <3>7 DEF t, last
  <2>3. CASE ~(Backfilling(s) /\ s.next >= last)
    <3> DEFINE f == IF Backfilling(s) THEN Smaller(s.from, gap) ELSE gap
               u == [s EXCEPT !.from = f, !.next = last, !.status = "running"]
    <3>1. t = u
      <4>1. ~(s.through = Never \/ gap > last)
        BY <1>0, <1>3, <1>5
      <4>2. [s EXCEPT !.from = IF Backfilling(s) THEN Smaller(@, gap) ELSE gap,
                      !.next = last, !.status = "running"] = u
        OBVIOUS
      <4>3. QED
        BY <4>1, <4>2, <2>3 DEF WithCatchUp, gap, last
    <3>2. f \in Days /\ f <= gap /\ (Backfilling(s) => f <= s.from)
      BY <1>2, <2>1 DEF Smaller, Days
    <3> HIDE DEF f
    <3>3. /\ u \in States /\ u.from = f /\ u.next = last
          /\ u.status = "running" /\ u.through = s.through /\ u.ran = s.ran
      BY <3>2, <2>1 DEF States, Dates
    <3> HIDE DEF u, t
    <3>4. HasDays(u) /\ Behind(u, day)
      <4>1. f <= last /\ f # Never
        BY <3>2, <1>5, <2>1 DEF Days, Never
      <4>2. s.through <= day
        BY DEF Behind
      <4>3. QED
        BY <1>0, <4>1, <4>2, <3>3 DEF HasDays, Behind, Backfilling, last
    <3>5. \A d \in Days : InRange(s, d) => InRange(u, d)
      BY <3>2, <3>3, <1>2, <2>1 DEF InRange, Backfilling, Days
    <3>6. \A d \in Days : gap <= d /\ d <= last => InRange(u, d)
      BY <3>2, <3>3, <1>0, <1>3 DEF InRange, Backfilling, Days
    <3>7. \A d \in Days : s.through <= d /\ d >= day - (MaxBackfill - 1) => gap <= d
      BY <1>3
    <3>8. QED
      BY <3>1, <3>3, <3>4, <3>5, <3>6, <3>7 DEF t, last
  <2>4. QED
    BY <2>2, <2>3
<1>6. QED
  BY <1>0, <1>3, <1>4, <1>5

\* What a run starts with.
LEMMA OpeningKeeps ==
  ASSUME NEW s \in States, HasDays(s), NEW day \in Days, Behind(s, day)
  PROVE  LET t == [Opening(s, day) EXCEPT !.ran = TRUE]
         IN /\ t \in States /\ HasDays(t) /\ Behind(t, day) /\ t.through = s.through
            /\ \A d \in Days : InRange(s, d) => InRange(t, d)
            /\ \A d \in Days : s.through # Never /\ s.through <= d /\ d <= day - 2
                                /\ d >= day - (MaxBackfill - 1) => InRange(t, d)
<1> DEFINE b == IF ~s.ran /\ s.from = Never THEN WithBackfill(s, day, MaxBackfill) ELSE s
           c == WithCatchUp(b, day)
           t == [c EXCEPT !.ran = TRUE]
<1>1. /\ b \in States /\ HasDays(b) /\ Behind(b, day) /\ b.through = s.through
      /\ \A d \in Days : InRange(s, d) => InRange(b, d)
  BY WithBackfillKeeps, SizesAssumption
<1> HIDE DEF b
<1>2. /\ c \in States /\ HasDays(c) /\ Behind(c, day) /\ c.through = b.through
      /\ \A d \in Days : InRange(b, d) => InRange(c, d)
      /\ \A d \in Days : b.through # Never /\ b.through <= d /\ d <= day - 2
                          /\ d >= day - (MaxBackfill - 1) => InRange(c, d)
  BY <1>1, WithCatchUpKeeps
<1> HIDE DEF c
<1>3. /\ t \in States /\ t.from = c.from /\ t.next = c.next /\ t.status = c.status
      /\ t.through = c.through
  BY <1>2 DEF States
<1> HIDE DEF t
<1>4. HasDays(t) /\ Behind(t, day) /\ \A d \in Days : InRange(c, d) => InRange(t, d)
  BY <1>2, <1>3 DEF HasDays, Behind, Backfilling, InRange
<1>5. t = [Opening(s, day) EXCEPT !.ran = TRUE]
  BY DEF t, c, b, Opening
<1>6. QED
  BY <1>1, <1>2, <1>3, <1>4, <1>5

\* Reading a day takes no other day off the backfill.
LEMMA AdvanceKeeps ==
  ASSUME NEW s \in States, HasDays(s), NEW day \in Days, Behind(s, day), NEW e \in Days
  PROVE  LET t == Advance(s, e, day)
         IN /\ t \in States /\ HasDays(t) /\ Behind(t, day) /\ t.through = s.through
            /\ \A d \in Days : InRange(s, d) => d = e \/ InRange(t, d)
<1> DEFINE t == Advance(s, e, day)
<1>0. /\ s.from \in Dates /\ s.next \in Dates /\ e \in Nat /\ e <= LastDay /\ LastDay \in Nat
      /\ day \in Nat
  BY DaysAssumption DEF States, Days
<1>1. CASE ~Backfilling(s) \/ e >= day - 1 \/ e # s.next
  BY <1>1 DEF Advance
<1>2. CASE ~(~Backfilling(s) \/ e >= day - 1 \/ e # s.next)
  <2>1. /\ s.from \in Days /\ s.from <= e /\ e = s.next /\ Backfilling(s) /\ e <= day - 2
    BY <1>0, <1>2 DEF HasDays, Dates, Days, Never
  <2>2. CASE e - 1 < s.from
    <3> DEFINE u == [s EXCEPT !.next = Never, !.status = "done"]
    <3>1. t = u
      BY <1>2, <2>2 DEF Advance
    <3>2. /\ u \in States /\ u.next = Never /\ u.status = "done" /\ u.through = s.through
      BY DEF States, Dates
    <3> HIDE DEF u, t
    <3>3. HasDays(u) /\ Behind(u, day)
      BY <3>2 DEF HasDays, Behind, Backfilling
    <3>4. \A d \in Days : InRange(s, d) => d = e
      BY <2>1, <2>2, <1>0 DEF InRange, Days
    <3>5. QED
      BY <3>1, <3>2, <3>3, <3>4 DEF t
  <2>3. CASE ~(e - 1 < s.from)
    <3> DEFINE u == [s EXCEPT !.next = e - 1]
    <3>1. t = u
      BY <1>2, <2>3 DEF Advance
    <3>2. e - 1 \in Days
      BY <1>0, <2>1, <2>3 DEF Days
    <3>3. /\ u \in States /\ u.next = e - 1 /\ u.status = s.status /\ u.through = s.through
          /\ u.from = s.from
      BY <3>2 DEF States, Dates
    <3> HIDE DEF u, t
    <3>4. HasDays(u) /\ Behind(u, day)
      BY <3>3, <1>0, <2>1, <2>3 DEF HasDays, Behind, Backfilling, Never, Days
    <3>5. \A d \in Days : InRange(s, d) => d = e \/ InRange(u, d)
      BY <3>3, <2>1, <1>0 DEF InRange, Backfilling, Days
    <3>6. QED
      BY <3>1, <3>3, <3>4, <3>5 DEF t
  <2>4. QED
    BY <2>2, <2>3
<1>3. QED
  BY <1>1, <1>2

\* What a run still had to read stays, and so does what was saved meanwhile.
LEMMA MergeRunKeeps ==
  ASSUME NEW cur \in States, HasDays(cur), NEW run \in States, HasDays(run),
         NEW before \in States, NEW day \in Days, Behind(cur, day), Behind(run, day)
  PROVE  LET t == MergeRun(cur, before, run)
         IN /\ t \in States /\ HasDays(t) /\ Behind(t, day) /\ t.through = run.through
            /\ \A d \in Days : InRange(run, d) => InRange(t, d)
            /\ \A d \in Days : InRange(cur, d) => InRange(t, d) \/ InRange(before, d)
<1> DEFINE mine == [cur EXCEPT !.ran = run.ran, !.through = run.through]
           took == TakeBackfill(mine, run)
           both == [mine EXCEPT !.from = Smaller(cur.from, run.from),
                                !.next = Larger(cur.next, run.next)]
           t    == MergeRun(cur, before, run)
<1>0. /\ cur.from \in Dates /\ cur.next \in Dates /\ run.from \in Dates /\ run.next \in Dates
      /\ run.through \in Dates /\ run.ran \in BOOLEAN /\ LastDay \in Nat /\ day \in Nat
  BY DaysAssumption DEF States, Days
<1>1. /\ mine \in States /\ mine.through = run.through /\ mine.from = cur.from
      /\ mine.next = cur.next /\ mine.status = cur.status
  BY <1>0 DEF States
<1>2. /\ took \in States /\ took.through = run.through /\ took.from = run.from
      /\ took.next = run.next /\ took.status = run.status
  BY <1>0, <1>1 DEF States, TakeBackfill
<1> HIDE DEF mine
<1>3. mine.through <= day
  BY <1>1 DEF Behind
<1>4. HasDays(mine) /\ Behind(mine, day) /\ \A d \in Days : InRange(cur, d) => InRange(mine, d)
  BY <1>1, <1>3 DEF HasDays, Behind, Backfilling, InRange
<1> HIDE DEF took
<1>5. HasDays(took) /\ Behind(took, day) /\ \A d \in Days : InRange(run, d) => InRange(took, d)
  BY <1>2 DEF HasDays, Behind, Backfilling, InRange
<1>6. CASE Backfill(cur) = Backfill(before)
  <2>1. t = took
    BY <1>6 DEF MergeRun, took, mine
  <2>2. \A d \in Days : InRange(cur, d) => InRange(before, d)
    BY <1>6 DEF InRange, Backfill, Backfilling
  <2>3. QED
    BY <1>2, <1>5, <2>1, <2>2 DEF t
<1>7. CASE Backfill(cur) # Backfill(before) /\ ~Backfilling(run)
  <2>1. t = mine
    BY <1>7 DEF MergeRun, mine
  <2>2. \A d \in Days : ~InRange(run, d)
    BY <1>7 DEF InRange
  <2>3. QED
    BY <1>1, <1>4, <2>1, <2>2 DEF t
<1>8. CASE Backfill(cur) # Backfill(before) /\ Backfilling(run) /\ ~Backfilling(cur)
  <2>1. t = took
    BY <1>8 DEF MergeRun, took, mine
  <2>2. \A d \in Days : ~InRange(cur, d)
    BY <1>8 DEF InRange
  <2>3. QED
    BY <1>2, <1>5, <2>1, <2>2 DEF t
<1>9. CASE Backfill(cur) # Backfill(before) /\ Backfilling(run) /\ Backfilling(cur)
  <2>1. t = both
    BY <1>9 DEF MergeRun, mine
  <2>2. /\ cur.from \in Days /\ cur.next \in Days /\ run.from \in Days /\ run.next \in Days
        /\ cur.from <= cur.next /\ run.from <= run.next
        /\ cur.next <= day - 2 /\ run.next <= day - 2
    BY <1>0, <1>9 DEF HasDays, Behind, Dates, Days, Never
  <2> DEFINE f == Smaller(cur.from, run.from)
             n == Larger(cur.next, run.next)
  <2>3. /\ f \in Days /\ n \in Days /\ f <= cur.from /\ f <= run.from
        /\ cur.next <= n /\ run.next <= n /\ f <= n /\ n <= day - 2
    BY <2>2, <1>0 DEF Smaller, Larger, Days
  <2> HIDE DEF f, n
  <2>4. both = [mine EXCEPT !.from = f, !.next = n]
    BY DEF f, n
  <2> HIDE DEF both
  <2>5. /\ both \in States /\ both.from = f /\ both.next = n /\ both.status = cur.status
        /\ both.through = run.through
    BY <1>1, <2>3, <2>4 DEF States, Dates
  <2>6. HasDays(both) /\ Behind(both, day)
    BY <1>1, <1>3, <2>3, <2>5, <1>9 DEF HasDays, Behind, Backfilling, Never, Days
  <2>7. \A d \in Days : InRange(run, d) \/ InRange(cur, d) => InRange(both, d)
    BY <2>2, <2>3, <2>5, <1>9 DEF InRange, Backfilling, Days
  <2>8. QED
    BY <2>1, <2>5, <2>6, <2>7 DEF t
<1>10. QED
  BY <1>6, <1>7, <1>8, <1>9

-----------------------------------------------------------------------------
(* The invariant.                                                          *)

\* A runner that does nothing owes nothing.
LEMMA IdleFits == Idle \in Runs /\ Idle.pc = "idle" /\ HasDays(Idle.st) /\ HasDays(Idle.before)
                  /\ Fits(Idle) /\ Owes(Idle) /\ Idle.shared = FALSE
<1>1. 0 \in Days
  BY DaysAssumption DEF Days
<1>2. Idle.st \in States /\ Idle.before \in States
  BY DEF Idle, States, Dates
<1>3. Idle \in Runs
  BY <1>1, <1>2 DEF Idle, Runs
<1>4. HasDays(Idle.st) /\ HasDays(Idle.before) /\ ~Backfilling(Idle.st) /\ ~Backfilling(Idle.before)
  BY DEF Idle, HasDays, Backfilling
<1>5. Fits(Idle)
  BY <1>4 DEF Fits, Behind, InRange, Idle, Never
<1>6. Owes(Idle)
  BY DEF Owes, Idle
<1>7. QED
  BY <1>3, <1>4, <1>5, <1>6 DEF Idle

\* A step that changes one run's record, and figures.
LEMMA RunStep ==
  ASSUME IInv, NEW r \in Runners, NEW v \in Runs, w' = [w EXCEPT ![r] = v],
         HasDays(v.st), HasDays(v.before), Fits(v), Owes(v),
         UNCHANGED <<today, st, history>>,
         lease' \in Runners \union {"nobody"},
         log' \in [Days -> 0..MaxCalls], daily' \in [Days -> 0..MaxCalls],
         monthly' \in [Months -> Nat], events' \in 0..MaxEvents, faults' \in 0..MaxFaults
  PROVE  IInv'
<1>1. \A x \in Runners : w'[x] = IF x = r THEN v ELSE w[x]
  BY DEF IInv, TypeOK
<1>2. TypeOK'
  BY <1>1 DEF IInv, TypeOK, history
<1>3. StateInv' /\ NothingForgotten'
  BY DEF IInv, StateInv, NothingForgotten, history, Ahead
<1>4. ASSUME NEW x \in Runners PROVE Fits(w[x])' /\ Owes(w[x])'
  <2>1. Fits(w'[x]) /\ Owes(w'[x])
    BY <1>1 DEF IInv
  <2>2. QED
    BY <2>1 DEF Fits, Owes, history
<1>5. QED
  BY <1>2, <1>3, <1>4 DEF IInv

\* A step that changes figures only.
LEMMA FiguresStep ==
  ASSUME IInv, UNCHANGED <<today, st, w, history>>,
         lease' \in Runners \union {"nobody"},
         log' \in [Days -> 0..MaxCalls], daily' \in [Days -> 0..MaxCalls],
         monthly' \in [Months -> Nat], events' \in 0..MaxEvents, faults' \in 0..MaxFaults
  PROVE  IInv'
<1>1. TypeOK'
  BY DEF IInv, TypeOK, history
<1>2. StateInv' /\ NothingForgotten'
  BY DEF IInv, StateInv, NothingForgotten, history, Ahead
<1>3. ASSUME NEW x \in Runners PROVE Fits(w[x])' /\ Owes(w[x])'
  <2>1. Fits(w'[x]) /\ Owes(w'[x])
    BY DEF IInv
  <2>2. QED
    BY <2>1 DEF Fits, Owes, history
<1>4. QED
  BY <1>1, <1>2, <1>3 DEF IInv

\* At first no run owes anything.
LEMMA InitInv == Init => IInv
<1> SUFFICES ASSUME Init PROVE IInv
  OBVIOUS
<1>1. \A r \in Runners : w[r] = Idle
  BY DEF Init
<1>2. Idle.st \in States /\ ~Backfilling(Idle.st) /\ HasDays(Idle.st) /\ Idle.st.through = Never
  BY DEF Idle, States, Dates, Backfilling, HasDays
<1>3. TypeOK
  <2>1. /\ today \in Days /\ log \in [Days -> 0..MaxCalls] /\ daily \in [Days -> 0..MaxCalls]
        /\ monthly \in [Months -> Nat]
    BY DaysAssumption, BoundsAssumption DEF Init, Days
  <2>2. w \in [Runners -> Runs]
    BY IdleFits DEF Init
  <2>3. /\ asked \subseteq Days /\ final \subseteq Days /\ beyond \subseteq Days /\ covered \in Dates
        /\ events \in 0..MaxEvents /\ faults \in 0..MaxFaults
    BY BoundsAssumption DEF Init, Dates
  <2>4. lease \in Runners \union {"nobody"} /\ st = Idle.st
    BY DEF Init
  <2>5. QED
    BY <1>1, <1>2, <2>1, <2>2, <2>3, <2>4, IdleFits DEF TypeOK
<1>4. StateInv
  BY <1>2, DaysAssumption DEF Init, StateInv, Behind, Never
<1>5. NothingForgotten
  BY DEF Init, NothingForgotten
<1>6. QED
  BY <1>1, <1>3, <1>4, <1>5, IdleFits DEF IInv

\* A new day is after the last success, and no run is left two days behind.
LEMMA NextDayInv == IInv /\ NextDay => IInv'
<1> SUFFICES ASSUME IInv, NextDay PROVE IInv'
  OBVIOUS
<1> USE DEF NextDay, history
<1>1. today \in Nat /\ LastDay \in Nat /\ today + 1 \in Days /\ st.through \in Int
      /\ \A r \in Runners : w[r] \in Runs
  BY DaysAssumption DEF IInv, TypeOK, States, Dates, Days, Never
<1>2. TypeOK'
  BY <1>1, BoundsAssumption DEF IInv, TypeOK
<1>3. StateInv'
  <2>1. Backfilling(st) => st.next \in Int
    BY DaysAssumption DEF IInv, TypeOK, States, Dates, Days, Never
  <2>2. FirstToday \in Int
    BY DaysAssumption
  <2>3. QED
    BY <1>1, <2>1, <2>2 DEF IInv, StateInv, Behind
<1>4. NothingForgotten'
  <2>1. \A d \in asked : Ahead(d)
    BY DEF IInv, NothingForgotten
  <2>2. ASSUME covered # Never, NEW d \in covered..(today + 1)
        PROVE  d \in final \/ d \in beyond \/ Ahead(d) \/ d >= st.through
    <3>1. CASE d \in covered..today
      BY <2>2, <3>1 DEF IInv, NothingForgotten
    <3>2. CASE d = today + 1
      BY <1>1, <3>2 DEF IInv, StateInv, Behind
    <3>3. covered \in Int
      BY DaysAssumption DEF IInv, TypeOK, Dates, Days, Never
    <3>4. QED
      BY <1>1, <3>1, <3>2, <3>3
  <2>3. QED
    BY <2>1, <2>2 DEF NothingForgotten, Ahead
<1>5. ASSUME NEW x \in Runners PROVE Fits(w[x])' /\ Owes(w[x])'
  <2>1. Fits(w[x]) /\ Owes(w[x])
    BY DEF IInv
  <2>2. w[x].pc # "idle" => w[x].day = today' - 1
    BY <1>1
  <2>3. QED
    BY <2>1, <2>2 DEF Fits, Owes
<1>6. QED
  BY <1>2, <1>3, <1>4, <1>5 DEF IInv

\* A call that is logged late changes the logs only.
LEMMA LateCallInv == ASSUME NEW d \in Days, IInv, LateCall(d) PROVE IInv'
<1>1. log' \in [Days -> 0..MaxCalls] /\ events' \in 0..MaxEvents
  BY BoundsAssumption DEF LateCall, Event, IInv, TypeOK
<1>2. QED
  BY <1>1, FiguresStep DEF LateCall, IInv, TypeOK

\* Deleted logs change the logs only.
LEMMA DeleteLogsInv == ASSUME NEW d \in Days, IInv, DeleteLogs(d) PROVE IInv'
<1>1. log' \in [Days -> 0..MaxCalls] /\ events' \in 0..MaxEvents
  BY BoundsAssumption DEF DeleteLogs, Event, IInv, TypeOK
<1>2. QED
  BY <1>1, FiguresStep DEF DeleteLogs, IInv, TypeOK

\* A summary that expires changes the summaries only.
LEMMA ExpireDayInv == ASSUME NEW d \in Days, IInv, ExpireDay(d) PROVE IInv'
<1>1. daily' \in [Days -> 0..MaxCalls] /\ events' \in 0..MaxEvents
  BY BoundsAssumption DEF ExpireDay, Event, IInv, TypeOK
<1>2. QED
  BY <1>1, FiguresStep DEF ExpireDay, IInv, TypeOK

\* No run owes less once the lease is gone.
LEMMA LeaseExpiresInv == ASSUME IInv, LeaseExpires PROVE IInv'
<1>1. faults' \in 0..MaxFaults /\ lease' = "nobody"
  BY BoundsAssumption DEF LeaseExpires, Fault, IInv, TypeOK
<1>2. QED
  BY <1>1, FiguresStep DEF LeaseExpires, IInv, TypeOK

\* A request keeps the days of the backfill still going.
LEMMA RequestBackfillInv ==
  ASSUME NEW days \in 1..MaxBackfill, IInv, RequestBackfill(days)
  PROVE  IInv'
<1> USE DEF RequestBackfill
<1>0. days \in Nat \ {0} /\ today \in Days /\ st \in States /\ HasDays(st) /\ Behind(st, today)
  BY SizesAssumption DEF IInv, TypeOK, StateInv
<1>1. /\ st' \in States /\ HasDays(st') /\ Behind(st', today) /\ st'.through = st.through
      /\ \A d \in Days : InRange(st, d) => InRange(st', d)
      /\ \A d \in Days : today - days < d /\ d <= today - 2 => InRange(st', d)
  BY <1>0, WithBackfillKeeps
<1>2. TypeOK'
  <2>1. events' \in 0..MaxEvents
    BY BoundsAssumption DEF Event, IInv, TypeOK
  <2>2. asked' \subseteq Days
    BY DEF IInv, TypeOK
  <2>3. QED
    BY <1>1, <2>1, <2>2 DEF IInv, TypeOK, HasDays, Backfilling
<1>3. StateInv'
  BY <1>1 DEF IInv, StateInv, Behind, Backfilling
<1>4. NothingForgotten'
  <2>1. \A d \in Days : Ahead(d) = InRange(st, d) /\ Ahead(d)' = InRange(st', d)
    BY DEF Ahead, InRange, Backfilling
  <2>2. \A d \in asked' : Ahead(d)'
    BY <1>1, <2>1 DEF IInv, NothingForgotten, TypeOK
  <2>3. covered # Never => \A d \in covered..today : d \in Days
    BY <1>0, DaysAssumption DEF IInv, TypeOK, Dates, Days
  <2>4. QED
    BY <1>1, <2>1, <2>2, <2>3 DEF IInv, NothingForgotten
<1>5. ASSUME NEW x \in Runners PROVE Fits(w[x])' /\ Owes(w[x])'
  <2>1. Fits(w[x]) /\ Owes(w[x])
    BY DEF IInv
  <2>2. QED
    BY <2>1 DEF Fits, Owes
<1>6. QED
  BY <1>2, <1>3, <1>4, <1>5 DEF IInv

\* A day that was read leaves the backfill, and nothing else does.
LEMMA FinishedKeeps ==
  ASSUME NEW v \in Runs, HasDays(v.st), HasDays(v.before), Fits(v), Owes(v),
         v.pc # "idle", NEW d \in v.todo
  PROVE  LET t == Finished(v, d)
         IN t \in Runs /\ HasDays(t.st) /\ HasDays(t.before) /\ Fits(t) /\ Owes(t)
<1> DEFINE s  == Advance(v.st, d, v.day)
           td == v.todo \ {d}
           rd == v.read \union {d}
           ms == v.months \union {Month(d)}
           t  == Finished(v, d)
<1>0. d \in Days /\ v.day \in Days /\ v.st \in States /\ Month(d) \in Months
  BY DEF Runs, Months
<1>1. /\ s \in States /\ HasDays(s) /\ Behind(s, v.day) /\ s.through = v.st.through
      /\ \A e \in Days : InRange(v.st, e) => e = d \/ InRange(s, e)
  BY <1>0, AdvanceKeeps DEF Fits
<1>2. td \subseteq Days /\ rd \subseteq Days /\ ms \subseteq Months
  BY <1>0 DEF Runs
<1> HIDE DEF s, td, rd, ms
<1>3. t = [v EXCEPT !.pc = "query", !.todo = td, !.read = rd, !.months = ms, !.st = s]
  BY DEF Finished, s, td, rd, ms
<1>4. /\ t \in Runs /\ t.pc = "query" /\ t.todo = td /\ t.read = rd
      /\ t.st = s /\ t.before = v.before /\ t.day = v.day /\ t.failed = v.failed
  <2>1. t = [pc |-> "query", day |-> v.day, before |-> v.before, st |-> s, todo |-> td,
             found |-> v.found, read |-> rd, months |-> ms, failed |-> v.failed,
             shared |-> v.shared]
    BY ONLY v \in Runs, <1>3 DEF Runs
  <2>2. /\ v.day \in Days /\ v.before \in States /\ v.found \in Nat
        /\ v.failed \in BOOLEAN /\ v.shared \in BOOLEAN
    BY DEF Runs
  <2>3. /\ s \in States
        /\ td \in SUBSET Days /\ rd \in SUBSET Days /\ ms \in SUBSET Months
    BY <1>1, <1>2
  <2> HIDE DEF t
  <2>4. QED
    BY ONLY <2>1, <2>2, <2>3 DEF Runs
<1>5. /\ t \in Runs /\ t.pc = "query" /\ t.todo = v.todo \ {d} /\ t.read = v.read \union {d}
      /\ t.st = s /\ t.before = v.before /\ t.day = v.day /\ t.failed = v.failed
  BY <1>4 DEF td, rd
<1> HIDE DEF t
<1>6. Fits(t)
  BY <1>1, <1>5 DEF Fits
<1>7. Owes(t)
  BY <1>1, <1>5 DEF Owes
<1>8. QED
  BY <1>1, <1>5, <1>6, <1>7 DEF t

\* A query shows a day, or ends the reading.
LEMMA QueryInv == ASSUME NEW r \in Runners, IInv, Query(r) PROVE IInv'
<1> USE DEF Query
<1>0. w[r] \in Runs /\ HasDays(w[r].st) /\ HasDays(w[r].before) /\ Fits(w[r]) /\ Owes(w[r])
  BY DEF IInv, TypeOK
<1>1. CASE w' = [w EXCEPT ![r].pc = "judge", ![r].found = log[Max(w[r].todo)]] /\ UNCHANGED faults
  <2> DEFINE n == log[Max(w[r].todo)]
             v == [w[r] EXCEPT !.pc = "judge", !.found = n]
  <2>1. n \in 0..MaxCalls /\ n \in Nat
    <3>1. n \in 0..MaxCalls
      BY <1>0, NewestDay DEF Runs, IInv, TypeOK
    <3>2. QED
      BY <3>1, BoundsAssumption
  <2> HIDE DEF n
  <2>2. /\ v \in Runs /\ v.pc = "judge" /\ v.found = n /\ v.todo = w[r].todo /\ v.read = w[r].read
        /\ v.st = w[r].st /\ v.before = w[r].before /\ v.day = w[r].day /\ v.failed = w[r].failed
    BY <1>0, <2>1 DEF Runs
  <2>3. w' = [w EXCEPT ![r] = v]
    BY <1>1 DEF n
  <2> HIDE DEF v
  <2>4. Fits(v) /\ Owes(v)
    BY <1>0, <2>1, <2>2 DEF Fits, Owes
  <2>5. QED
    BY <1>0, <1>1, <2>2, <2>3, <2>4, RunStep DEF IInv, TypeOK
<1>2. CASE Fault /\ w' = [w EXCEPT ![r].pc = "finish", ![r].failed = TRUE]
  <2> DEFINE v == [w[r] EXCEPT !.pc = "finish", !.failed = TRUE]
  <2>1. /\ v \in Runs /\ v.pc = "finish" /\ v.todo = w[r].todo /\ v.read = w[r].read
        /\ v.st = w[r].st /\ v.before = w[r].before /\ v.day = w[r].day /\ v.failed = TRUE
    BY <1>0 DEF Runs
  <2>2. w' = [w EXCEPT ![r] = v]
    BY <1>2
  <2>3. faults' \in 0..MaxFaults
    BY <1>2, BoundsAssumption DEF Fault, IInv, TypeOK
  <2> HIDE DEF v
  <2>4. Fits(v) /\ Owes(v)
    BY <1>0, <2>1 DEF Fits, Owes
  <2>5. QED
    BY <1>0, <2>1, <2>2, <2>3, <2>4, RunStep DEF IInv, TypeOK
<1>3. QED
  BY <1>1, <1>2

\* A day that would be lowered counts as read.
LEMMA JudgeInv == ASSUME NEW r \in Runners, IInv, Judge(r) PROVE IInv'
<1> DEFINE d == Max(w[r].todo)
<1> USE DEF Judge
<1>0. w[r] \in Runs /\ HasDays(w[r].st) /\ HasDays(w[r].before) /\ Fits(w[r]) /\ Owes(w[r])
  BY DEF IInv, TypeOK
<1>1. d \in w[r].todo
  BY <1>0, NewestDay DEF Runs, Fits
<1>2. CASE WouldLower(d, w[r].day, w[r].found)
  <2> DEFINE v == Finished(w[r], d)
  <2>1. v \in Runs /\ HasDays(v.st) /\ HasDays(v.before) /\ Fits(v) /\ Owes(v)
    BY <1>0, <1>1, FinishedKeeps
  <2>2. w' = [w EXCEPT ![r] = v]
    BY <1>2
  <2> HIDE DEF v
  <2>3. QED
    BY <2>1, <2>2, RunStep DEF IInv, TypeOK
<1>3. CASE ~WouldLower(d, w[r].day, w[r].found)
  <2> DEFINE v == [w[r] EXCEPT !.pc = "write"]
  <2>1. /\ v \in Runs /\ v.pc = "write" /\ v.todo = w[r].todo /\ v.read = w[r].read
        /\ v.st = w[r].st /\ v.before = w[r].before /\ v.day = w[r].day /\ v.failed = w[r].failed
        /\ v.found = w[r].found
    BY <1>0 DEF Runs
  <2>2. w' = [w EXCEPT ![r] = v]
    BY <1>3
  <2> HIDE DEF v
  <2>3. Fits(v) /\ Owes(v)
    BY <1>0, <2>1 DEF Fits, Owes
  <2>4. QED
    BY <1>0, <2>1, <2>2, <2>3, RunStep DEF IInv, TypeOK
<1>4. QED
  BY <1>2, <1>3

\* A day that was written has been read; one whose write failed stays owed.
LEMMA WriteDayInv == ASSUME NEW r \in Runners, IInv, WriteDay(r) PROVE IInv'
<1> DEFINE d == Max(w[r].todo)
           replaced == [daily EXCEPT ![d] = w[r].found]
<1> USE DEF WriteDay
<1>0. w[r] \in Runs /\ HasDays(w[r].st) /\ HasDays(w[r].before) /\ Fits(w[r]) /\ Owes(w[r])
  BY DEF IInv, TypeOK
<1>1. d \in w[r].todo
  BY <1>0, NewestDay DEF Runs, Fits
<1>2. replaced \in [Days -> 0..MaxCalls] /\ daily \in [Days -> 0..MaxCalls]
  BY <1>0 DEF Fits, IInv, TypeOK
<1>3. CASE daily' = replaced /\ w' = [w EXCEPT ![r] = Finished(w[r], d)] /\ UNCHANGED faults
  <2> DEFINE v == Finished(w[r], d)
  <2>1. v \in Runs /\ HasDays(v.st) /\ HasDays(v.before) /\ Fits(v) /\ Owes(v)
    BY <1>0, <1>1, FinishedKeeps
  <2>2. w' = [w EXCEPT ![r] = v] /\ daily' \in [Days -> 0..MaxCalls]
    BY <1>2, <1>3
  <2> HIDE DEF v
  <2>3. QED
    BY <1>3, <2>1, <2>2, RunStep DEF IInv, TypeOK
<1>4. CASE Fault /\ daily' \in {daily, replaced}
           /\ w' = [w EXCEPT ![r].pc = "finish", ![r].failed = TRUE]
  <2> DEFINE v == [w[r] EXCEPT !.pc = "finish", !.failed = TRUE]
  <2>1. /\ v \in Runs /\ v.pc = "finish" /\ v.todo = w[r].todo /\ v.read = w[r].read
        /\ v.st = w[r].st /\ v.before = w[r].before /\ v.day = w[r].day /\ v.failed = TRUE
    BY <1>0 DEF Runs
  <2>2. w' = [w EXCEPT ![r] = v]
    BY <1>4
  <2>3. faults' \in 0..MaxFaults /\ daily' \in [Days -> 0..MaxCalls]
    BY <1>2, <1>4, BoundsAssumption DEF Fault, IInv, TypeOK
  <2> HIDE DEF v
  <2>4. Fits(v) /\ Owes(v)
    BY <1>0, <2>1 DEF Fits, Owes
  <2>5. QED
    BY <1>0, <2>1, <2>2, <2>3, <2>4, RunStep DEF IInv, TypeOK
<1>5. QED
  BY <1>3, <1>4

\* Months are folded once every day was read.
LEMMA FoldInv == ASSUME NEW r \in Runners, IInv, Fold(r) PROVE IInv'
<1> USE DEF Fold
<1>0. w[r] \in Runs /\ HasDays(w[r].st) /\ HasDays(w[r].before) /\ Fits(w[r]) /\ Owes(w[r])
  BY DEF IInv, TypeOK
<1> DEFINE n == Folded(Min(w[r].months))
           v == IF w[r].months = {} THEN [w[r] EXCEPT !.pc = "finish"]
                ELSE [w[r] EXCEPT !.pc = "month", !.found = n]
<1>1. n \in Nat
  BY FoldedIsNat
<1> HIDE DEF n
<1>2. /\ v \in Runs /\ v.pc \in {"finish", "month"} /\ v.todo = {} /\ v.read = w[r].read
      /\ v.st = w[r].st /\ v.before = w[r].before /\ v.day = w[r].day /\ v.failed = w[r].failed
  BY <1>0, <1>1 DEF Runs
<1>3. w' = [w EXCEPT ![r] = v]
  BY DEF n
<1> HIDE DEF v
<1>4. Fits(v) /\ Owes(v)
  BY <1>0, <1>2 DEF Fits, Owes
<1>5. QED
  BY <1>0, <1>2, <1>3, <1>4, RunStep DEF IInv, TypeOK

\* A month is written, or its failure ends the run.
LEMMA WriteMonthInv == ASSUME NEW r \in Runners, IInv, WriteMonth(r) PROVE IInv'
<1> DEFINE m == Min(w[r].months)
<1> USE DEF WriteMonth
<1>0. w[r] \in Runs /\ HasDays(w[r].st) /\ HasDays(w[r].before) /\ Fits(w[r]) /\ Owes(w[r])
  BY DEF IInv, TypeOK
<1>1. CASE monthly' = [monthly EXCEPT ![m] = Larger(@, w[r].found)]
           /\ w' = [w EXCEPT ![r].pc = "query", ![r].months = @ \ {m}] /\ UNCHANGED faults
  <2> DEFINE ms == w[r].months \ {m}
             v == [w[r] EXCEPT !.pc = "query", !.months = ms]
  <2>1. ms \subseteq Months
    BY <1>0 DEF Runs
  <2>2. w' = [w EXCEPT ![r] = v]
    BY <1>1
  <2> HIDE DEF ms
  <2>3. /\ v \in Runs /\ v.pc = "query" /\ v.todo = w[r].todo /\ v.read = w[r].read
        /\ v.st = w[r].st /\ v.before = w[r].before /\ v.day = w[r].day /\ v.failed = w[r].failed
    BY <1>0, <2>1 DEF Runs
  <2>4. monthly' \in [Months -> Nat]
    BY <1>0, <1>1 DEF Larger, Runs, IInv, TypeOK
  <2> HIDE DEF v
  <2>5. Fits(v) /\ Owes(v)
    BY <1>0, <2>3 DEF Fits, Owes
  <2>6. QED
    BY <1>0, <1>1, <2>2, <2>3, <2>4, <2>5, RunStep DEF IInv, TypeOK
<1>2. CASE Fault /\ UNCHANGED monthly /\ w' = [w EXCEPT ![r].pc = "finish", ![r].failed = TRUE]
  <2> DEFINE v == [w[r] EXCEPT !.pc = "finish", !.failed = TRUE]
  <2>1. /\ v \in Runs /\ v.pc = "finish" /\ v.todo = w[r].todo /\ v.read = w[r].read
        /\ v.st = w[r].st /\ v.before = w[r].before /\ v.day = w[r].day /\ v.failed = TRUE
    BY <1>0 DEF Runs
  <2>2. w' = [w EXCEPT ![r] = v]
    BY <1>2
  <2>3. faults' \in 0..MaxFaults
    BY <1>2, BoundsAssumption DEF Fault, IInv, TypeOK
  <2> HIDE DEF v
  <2>4. Fits(v) /\ Owes(v)
    BY <1>0, <2>1 DEF Fits, Owes
  <2>5. QED
    BY <1>0, <1>2, <2>1, <2>2, <2>3, <2>4, RunStep DEF IInv, TypeOK
<1>3. QED
  BY <1>1, <1>2

\* A run that stops owed only what its state at the start still says.
LEMMA StopInv == ASSUME NEW r \in Runners, IInv, Stop(r) PROVE IInv'
<1>1. faults' \in 0..MaxFaults /\ lease' \in Runners \union {"nobody"}
  BY BoundsAssumption DEF Stop, Released, Fault, IInv, TypeOK
<1>2. QED
  BY <1>1, IdleFits, RunStep DEF Stop, IInv, TypeOK

\* A run starts with the days of the backfill, and with those missed since the last success.
LEMMA StartInv == ASSUME NEW r \in Runners, IInv, Start(r) PROVE IInv'
<1> DEFINE s   == [Opening(st, today) EXCEPT !.ran = TRUE]
           ts  == {today, today - 1} \union BackfillSlice(s)
           lap == \E other \in Runners : Live(other)
           v   == [Idle EXCEPT !.pc = "query", !.day = today, !.before = st, !.st = s,
                               !.todo = ts, !.shared = lap]
           out == {d \in Days : st.through # Never /\ st.through <= d
                                 /\ d < today - (MaxBackfill - 1)}
<1>1. /\ today \in Days /\ today \in Nat /\ today - 1 \in Days /\ st \in States /\ HasDays(st)
      /\ Behind(st, today)
  BY DaysAssumption DEF IInv, TypeOK, StateInv, Days
<1>2. /\ s \in States /\ HasDays(s) /\ Behind(s, today) /\ s.through = st.through
      /\ \A d \in Days : InRange(st, d) => InRange(s, d)
      /\ \A d \in Days : st.through # Never /\ st.through <= d /\ d <= today - 2
                          /\ d >= today - (MaxBackfill - 1) => InRange(s, d)
  BY <1>1, OpeningKeeps
<1>3. /\ w' = [x \in Runners |-> IF x = r THEN v
                                 ELSE IF Live(x) THEN [w[x] EXCEPT !.shared = TRUE] ELSE w[x]]
      /\ beyond' = beyond \union out /\ lease' = r
      /\ UNCHANGED <<today, log, daily, monthly, st, asked, final, covered, events, faults>>
  BY DEF Start
<1>4. ts \subseteq Days /\ today - 1 \in ts
  BY <1>1 DEF BackfillSlice
<1> HIDE DEF s, ts
<1>5. lap \in BOOLEAN
  OBVIOUS
<1> HIDE DEF lap
<1>6. /\ v \in Runs /\ v.pc = "query" /\ v.day = today /\ v.before = st /\ v.st = s /\ v.todo = ts
      /\ v.read = {} /\ v.failed = FALSE
  BY <1>1, <1>2, <1>4, <1>5, IdleFits DEF Runs, Idle
<1> HIDE DEF v
<1>7. Fits(v)
  BY <1>1, <1>2, <1>4, <1>6 DEF Fits
<1>8. Owes(w[r])'
  <2>0. w'[r] = v
    BY <1>3
  <2>1. st.through # Never => st.through - 1 \in final
    BY DEF IInv, StateInv
  <2>2. ASSUME covered # Never, NEW d \in Days, covered <= d, d <= today - 2
        PROVE  d \in final \/ d \in beyond' \/ InRange(s, d)
    <3>1. st.through # Never /\ d \in covered..today
      BY <1>1, <2>2, DaysAssumption DEF IInv, StateInv, TypeOK, Dates, Days, Never
    <3>2. d \in final \/ d \in beyond \/ Ahead(d) \/ d >= st.through
      BY <2>2, <3>1 DEF IInv, NothingForgotten
    <3>3. Ahead(d) => InRange(s, d)
      BY <1>2 DEF Ahead, InRange
    <3>4. d >= st.through => InRange(s, d) \/ d \in out
      <4>1. /\ d \in Int /\ today \in Int /\ MaxBackfill \in Int /\ st.through \in Int
        BY <1>1, DaysAssumption, SizesAssumption DEF States, Dates, Days, Never
      <4>2. QED
        BY <1>2, <2>2, <3>1, <4>1
    <3>5. QED
      BY <1>3, <3>2, <3>3, <3>4
  <2>3. QED
    BY <1>1, <1>2, <1>3, <1>6, <2>0, <2>1, <2>2 DEF Owes
<1>9. ASSUME NEW x \in Runners
      PROVE  /\ w'[x] \in Runs /\ HasDays(w'[x].st) /\ HasDays(w'[x].before)
             /\ Fits(w'[x]) /\ Owes(w[x])'
  <2>1. CASE x = r
    BY <1>1, <1>2, <1>3, <1>6, <1>7, <1>8, <2>1
  <2>2. CASE x # r
    <3>1. w[x] \in Runs /\ HasDays(w[x].st) /\ HasDays(w[x].before) /\ Fits(w[x]) /\ Owes(w[x])
      BY DEF IInv, TypeOK
    <3> DEFINE u == IF Live(x) THEN [w[x] EXCEPT !.shared = TRUE] ELSE w[x]
    <3>2. /\ u \in Runs /\ u.pc = w[x].pc /\ u.todo = w[x].todo /\ u.read = w[x].read
          /\ u.st = w[x].st /\ u.before = w[x].before /\ u.day = w[x].day
          /\ u.failed = w[x].failed /\ u.found = w[x].found
      BY <3>1 DEF Runs
    <3>3. w'[x] = u
      BY <1>3, <2>2
    <3> HIDE DEF u
    <3>4. Fits(u)
      BY <3>1, <3>2 DEF Fits
    <3>5. Owes(w[x])'
      BY <1>3, <3>1, <3>2, <3>3 DEF Owes
    <3>6. QED
      BY <3>1, <3>2, <3>3, <3>4, <3>5
  <2>3. QED
    BY <2>1, <2>2
<1>10. TypeOK'
  <2>1. w' \in [Runners -> Runs]
    BY <1>3, <1>9
  <2>2. QED
    BY <1>3, <1>9, <2>1 DEF IInv, TypeOK
<1>11. StateInv' /\ NothingForgotten'
  BY <1>3 DEF IInv, StateInv, NothingForgotten, Ahead
<1>12. ASSUME NEW x \in Runners PROVE Fits(w[x])' /\ Owes(w[x])'
  BY <1>9 DEF Fits
<1>13. QED
  BY <1>10, <1>11, <1>12 DEF IInv

\* What a run ends with is merged: the days it owed are read or stay in the backfill, and so do
\* those somebody asked for meanwhile.
LEMMA FinishInv == ASSUME NEW r \in Runners, IInv, Finish(r) PROVE IInv'
<1> DEFINE v   == w[r]
           run == [v.st EXCEPT !.through = IF v.failed THEN @ ELSE v.day]
<1>1. /\ v \in Runs /\ HasDays(v.st) /\ HasDays(v.before) /\ Fits(v) /\ Owes(v)
      /\ v.pc = "finish" /\ v.day \in Days /\ v.st \in States /\ v.before \in States
      /\ v.read \subseteq Days
  BY DEF IInv, TypeOK, Finish, Runs
<1>2. today \in Nat /\ v.day \in Nat /\ v.day \in {today - 1, today} /\ today \in Days
  BY <1>1, DaysAssumption DEF Owes, IInv, TypeOK, Days
<1>3. /\ run \in States /\ run.from = v.st.from /\ run.next = v.st.next
      /\ run.status = v.st.status /\ run.through = IF v.failed THEN v.st.through ELSE v.day
  BY <1>1 DEF States, Dates
<1>4. /\ st' = MergeRun(st, v.before, run)
      /\ covered' = IF run.through = Never THEN Never
                    ELSE IF covered = Never /\ ~v.failed THEN v.day - 1 ELSE covered
      /\ asked' = asked \ v.read
      /\ final' = final \union {d \in v.read : d < v.day}
      /\ w' = [w EXCEPT ![r] = Idle]
      /\ lease' \in Runners \union {"nobody"}
      /\ UNCHANGED <<today, log, daily, monthly, beyond, events, faults>>
  BY DEF Finish, Released, IInv, TypeOK
<1> HIDE DEF run
<1>5. HasDays(run) /\ Behind(run, today) /\ \A d \in Days : InRange(v.st, d) => InRange(run, d)
  <2>1. v.st.next \in Int /\ v.st.through \in Int
    BY <1>1, DaysAssumption DEF States, Dates, Days, Never
  <2>2. HasDays(run) /\ \A d \in Days : InRange(v.st, d) => InRange(run, d)
    BY <1>1, <1>3 DEF HasDays, Backfilling, InRange
  <2>3. Behind(run, today)
    BY <1>1, <1>2, <1>3, <2>1 DEF Behind, Backfilling, Fits
  <2>4. QED
    BY <2>2, <2>3
<1>6. st \in States /\ HasDays(st) /\ Behind(st, today)
  BY DEF IInv, TypeOK, StateInv
<1>7. /\ st' \in States /\ HasDays(st') /\ Behind(st', today) /\ st'.through = run.through
      /\ \A d \in Days : InRange(run, d) => InRange(st', d)
      /\ \A d \in Days : InRange(st, d) => InRange(st', d) \/ InRange(v.before, d)
  BY <1>1, <1>2, <1>3, <1>4, <1>5, <1>6, MergeRunKeeps
<1>8. ~v.failed => v.day - 1 \in v.read /\ v.day - 1 \in final'
  BY <1>1, <1>2, <1>4 DEF Fits
<1>9. \A d \in Days : InRange(v.before, d) => d \in v.read \/ InRange(st', d)
  BY <1>1, <1>5, <1>7 DEF Fits
<1>10. run.through # Never => run.through - 1 \in final'
  BY <1>1, <1>3, <1>4, <1>8 DEF Owes
<1>11. TypeOK'
  <2>1. covered' \in Dates
    BY <1>1, <1>4, <1>8 DEF Dates, IInv, TypeOK
  <2>2. w' \in [Runners -> Runs] /\ \A x \in Runners : w'[x] = IF x = r THEN Idle ELSE w[x]
    BY <1>4, IdleFits DEF IInv, TypeOK
  <2>3. asked' \subseteq Days /\ final' \subseteq Days
    BY <1>1, <1>4 DEF IInv, TypeOK
  <2>4. \A x \in Runners : HasDays(w'[x].st) /\ HasDays(w'[x].before)
    BY <2>2, IdleFits DEF IInv, TypeOK
  <2>5. HasDays(st)'
    BY <1>7 DEF HasDays, Backfilling
  <2>6. QED
    BY <1>4, <1>7, <2>1, <2>2, <2>3, <2>4, <2>5 DEF IInv, TypeOK
<1>12. StateInv'
  <2>1. covered' # Never => st'.through # Never
    BY <1>4, <1>7
  <2>2. QED
    BY <1>4, <1>7, <1>10, <2>1 DEF IInv, StateInv, Behind, Backfilling
<1>13. \A d \in Days : Ahead(d) = InRange(st, d) /\ Ahead(d)' = InRange(st', d)
  BY DEF Ahead, InRange, Backfilling
\* The days that the run read, or still had to, or found accounted for.
<1>14. ASSUME covered' # Never, NEW d \in Days, covered' <= d, d <= v.day - 1,
              v.failed => d < run.through
       PROVE  d \in final' \/ d \in beyond \/ InRange(st', d)
  <2>0. covered' \in Int /\ covered \in Int /\ d \in Int /\ run.through \in Int
    <3>1. covered' \in Dates /\ covered \in Dates /\ run.through \in Dates /\ d \in Days
      BY <1>3, <1>11 DEF IInv, TypeOK, States
    <3>2. QED
      BY <3>1, DaysAssumption DEF Dates, Days, Never
  <2>1. CASE d = v.day - 1
    <3>1. CASE v.failed
      <4>1. v.st.through = run.through /\ v.st.through <= v.day
        BY <1>1, <1>3, <3>1 DEF Fits, Behind
      <4>2. d = run.through - 1
        BY <1>2, <1>14, <2>0, <2>1, <3>1, <4>1
      <4>3. run.through # Never
        BY <1>4, <1>14
      <4>4. QED
        BY <1>10, <4>2, <4>3
    <3>2. QED
      BY <1>8, <2>1, <3>1
  <2>2. CASE d <= v.day - 2
    <3>1. covered # Never /\ covered' = covered
      BY <1>2, <1>4, <1>14, <2>0, <2>2
    <3>2. d \in final \/ d \in beyond \/ d \in v.read \/ InRange(v.st, d)
      BY <1>1, <1>14, <2>2, <3>1 DEF Owes
    <3>3. d < v.day
      BY <1>2, <2>0, <2>2
    <3>4. QED
      BY <1>4, <1>5, <1>7, <3>2, <3>3
  <2>3. QED
    BY <1>2, <1>14, <2>0, <2>1, <2>2
<1>15. NothingForgotten'
  <2>1. \A d \in asked' : Ahead(d)'
    <3>1. ASSUME NEW d \in asked' PROVE Ahead(d)'
      <4>1. d \in asked /\ d \notin v.read /\ d \in Days /\ InRange(st, d)
        BY <1>4, <1>13, <3>1 DEF IInv, TypeOK, NothingForgotten
      <4>2. QED
        BY <1>7, <1>9, <1>13, <4>1
    <3>2. QED
      BY <3>1
  <2>2. ASSUME covered' # Never, NEW d \in covered'..today'
        PROVE  d \in final' \/ d \in beyond' \/ Ahead(d)' \/ d >= st'.through
    <3>1. covered' \in Days /\ d \in Days /\ covered' <= d /\ d <= today /\ d \in Int
      BY <1>2, <1>4, <2>2, <1>11, DaysAssumption DEF TypeOK, Dates, Days
    <3>2. st'.through \in Int /\ st'.through = run.through
      BY <1>3, <1>7, DaysAssumption DEF States, Dates, Days, Never
    <3>3. CASE d < run.through
      <4>1. run.through <= v.day
        BY <1>1, <1>2, <1>3 DEF Fits, Behind
      <4>2. d <= v.day - 1
        BY <1>2, <3>1, <3>2, <3>3, <4>1
      <4>3. QED
        BY <1>4, <1>13, <1>14, <2>2, <3>1, <3>3, <4>2
    <3>4. QED
      BY <3>1, <3>2, <3>3
  <2>3. QED
    BY <2>1, <2>2 DEF NothingForgotten
<1>16. ASSUME NEW x \in Runners PROVE Fits(w[x])' /\ Owes(w[x])'
  <2>1. CASE x = r
    <3>1. w'[x] = Idle
      BY <1>4, <2>1 DEF IInv, TypeOK
    <3>2. Fits(Idle) /\ Idle.pc = "idle" /\ Idle.st.through = Never
      BY IdleFits DEF Idle
    <3>3. QED
      BY <3>1, <3>2 DEF Fits, Owes
  <2>2. CASE x # r
    <3> DEFINE u == w[x]
    <3>1. w'[x] = u /\ u \in Runs /\ Fits(u) /\ Owes(u)
      BY <1>4, <2>2 DEF IInv, TypeOK
    <3>2. u.pc # "idle" => u.day \in {today - 1, today} /\ u.day \in Nat
      BY <1>2, <3>1, DaysAssumption DEF Owes, Runs, Days
    <3>3. ASSUME u.pc # "idle", covered' # Never, NEW d \in Days, covered' <= d, d <= u.day - 2
          PROVE  d \in final' \/ d \in beyond \/ d \in u.read \/ InRange(u.st, d)
      <4>1. CASE covered # Never
        <5>1. covered' = covered
          BY <1>4, <3>3, <4>1
        <5>2. QED
          BY <1>4, <3>1, <3>3, <4>1, <5>1 DEF Owes
      <4>2. CASE covered = Never
        <5>1. covered' = v.day - 1 /\ ~v.failed
          BY <1>4, <3>3, <4>2
        <5>2. d = v.day - 1
          BY <1>2, <3>2, <3>3, <5>1, DaysAssumption DEF Days
        <5>3. QED
          BY <1>8, <5>1, <5>2
      <4>3. QED
        BY <4>1, <4>2
    <3>4. Fits(w[x])'
      BY <3>1 DEF Fits
    <3>5. Owes(w[x])'
      <4>1. u.st.through # Never => u.st.through - 1 \in final'
        BY <1>4, <3>1 DEF Owes
      <4>2. QED
        BY <1>4, <3>1, <3>2, <3>3, <4>1 DEF Owes
    <3>6. QED
      BY <3>4, <3>5
  <2>3. QED
    BY <2>1, <2>2
<1>17. QED
  BY <1>11, <1>12, <1>15, <1>16 DEF IInv

\* Nothing changes in a stuttering step.
LEMMA StutterInv == IInv /\ UNCHANGED vars => IInv'
<1> SUFFICES ASSUME IInv, UNCHANGED vars PROVE IInv'
  OBVIOUS
<1>1. UNCHANGED <<today, st, w, history, lease, log, daily, monthly, events, faults>>
  BY DEF vars
<1>2. QED
  BY <1>1, FiguresStep DEF IInv, TypeOK

\* Every step keeps the invariant.
LEMMA NextInv == IInv /\ [Next]_vars => IInv'
<1> SUFFICES ASSUME IInv, [Next]_vars PROVE IInv'
  OBVIOUS
<1>1. CASE NextDay
  BY <1>1, NextDayInv
<1>2. CASE \E d \in Days : LateCall(d) \/ DeleteLogs(d) \/ ExpireDay(d)
  BY <1>2, LateCallInv, DeleteLogsInv, ExpireDayInv
<1>3. CASE \E days \in 1..MaxBackfill : RequestBackfill(days)
  BY <1>3, RequestBackfillInv
<1>4. ASSUME NEW r \in Runners, Start(r) \/ Step(r) \/ Stop(r) PROVE IInv'
  BY <1>4, StartInv, StopInv, QueryInv, JudgeInv, WriteDayInv, FoldInv, WriteMonthInv, FinishInv
  DEF Step
<1>5. CASE LeaseExpires
  BY <1>5, LeaseExpiresInv
<1>6. CASE UNCHANGED vars
  BY <1>6, StutterInv
<1>7. QED
  BY <1>1, <1>2, <1>3, <1>4, <1>5, <1>6 DEF Next

\* The invariant holds throughout.
LEMMA Invariance == Spec => []IInv
<1>1. QED
  BY InitInv, NextInv, PTL DEF Spec

\* The variables keep their types, a running backfill has a day to read, and only that one has.
THEOREM TypeCorrect == Spec => []TypeOK
<1>1. IInv => TypeOK
  BY DEF IInv
<1>2. QED
  BY Invariance, <1>1, PTL

\* No day is forgotten, whatever runs fail, stop or overlap and whatever is asked for meanwhile.
THEOREM NoDayIsForgotten == Spec => []NothingForgotten
<1>1. IInv => NothingForgotten
  BY DEF IInv
<1>2. QED
  BY Invariance, <1>1, PTL

-----------------------------------------------------------------------------
(* Figures.                                                                *)

\* Runs that overlap know it.
Alone == \A a, b \in Runners : Live(a) /\ Live(b) /\ a # b => w[a].shared /\ w[b].shared

\* The logs are still there for the days that are read without a look at what they lower.
Logged ==
  \A d \in Days : (d >= today - 2 => daily[d] <= log[d]) /\ (d > today => log[d] = 0)

\* What a run is about to write.
Seen(v) ==
  v.pc \in {"judge", "write"} =>
    LET d == Max(v.todo)
    IN /\ d >= today - 2 => v.found <= log[d]
       /\ ~v.shared /\ (d >= v.day - 1 \/ v.pc = "write") => daily[d] <= v.found

LInv == Alone /\ Logged /\ \A r \in Runners : Seen(w[r])

\* A step that changes only one run's record, and not whether it overlaps another.
LEMMA LoneStep ==
  ASSUME IInv, LInv, NEW r \in Runners, NEW v, w' = [w EXCEPT ![r] = v],
         v.pc = "idle" \/ (w[r].pc # "idle" /\ v.shared = w[r].shared),
         UNCHANGED <<today, log, daily>>, Seen(v)
  PROVE  LInv'
<1>1. \A x \in Runners : w'[x] = IF x = r THEN v ELSE w[x]
  BY DEF IInv, TypeOK
<1>2. Alone'
  BY <1>1 DEF LInv, Alone, Live
<1>3. Logged'
  BY DEF LInv, Logged
<1>4. ASSUME NEW x \in Runners PROVE Seen(w[x])'
  <2>1. Seen(w'[x])
    BY <1>1 DEF LInv
  <2>2. QED
    BY <2>1 DEF Seen
<1>5. QED
  BY <1>2, <1>3, <1>4 DEF LInv

\* Days and their calls are numbers.
LEMMA FiguresAreNumbers ==
  ASSUME IInv
  PROVE  today \in Nat /\ \A d \in Days : d \in Nat /\ log[d] \in Nat /\ daily[d] \in Nat
<1>1. MaxCalls \in Nat /\ log \in [Days -> 0..MaxCalls] /\ daily \in [Days -> 0..MaxCalls]
  BY BoundsAssumption DEF IInv, TypeOK
<1>2. today \in Days /\ \A d \in Days : d \in Nat
  BY DaysAssumption DEF Days, IInv, TypeOK
<1>3. QED
  BY <1>1, <1>2

\* The day a run is at.
LEMMA DayInHand ==
  ASSUME IInv, NEW r \in Runners, w[r].pc \in {"judge", "write"}
  PROVE  /\ w[r] \in Runs /\ Max(w[r].todo) \in w[r].todo /\ Max(w[r].todo) \in Days
         /\ w[r].found \in Nat /\ w[r].day \in {today - 1, today} /\ today \in Nat
<1>1. w[r] \in Runs /\ Fits(w[r]) /\ Owes(w[r])
  BY DEF IInv, TypeOK
<1>2. w[r].todo # {} /\ w[r].todo \subseteq Days
  BY <1>1 DEF Fits, Runs
<1>3. Max(w[r].todo) \in w[r].todo /\ Max(w[r].todo) \in Days
  BY <1>2, NewestDay
<1>4. w[r].found \in Nat /\ w[r].day \in {today - 1, today}
  BY <1>1 DEF Owes, Runs
<1>5. QED
  BY <1>1, <1>3, <1>4, FiguresAreNumbers

\* At first there are no summaries.
LEMMA InitFigures == Init => LInv
<1> SUFFICES ASSUME Init PROVE LInv
  OBVIOUS
<1>1. \A r \in Runners : w[r].pc = "idle"
  BY DEF Init, Idle
<1>2. Logged
  BY DaysAssumption DEF Init, Logged, Days
<1>3. QED
  BY <1>1, <1>2 DEF LInv, Alone, Live, Seen

\* The new day has no summary yet.
LEMMA NextDayFigures == ASSUME IInv, LInv, NextDay PROVE LInv'
<1> USE DEF NextDay
<1>1. /\ today \in Nat /\ Days \subseteq Nat /\ log \in [Days -> 0..MaxCalls]
      /\ daily \in [Days -> 0..MaxCalls] /\ MaxCalls \in Nat
  BY DaysAssumption, BoundsAssumption DEF IInv, TypeOK, Days
<1>2. today + 1 \in Days /\ log[today + 1] = 0
  <2>1. today + 1 \in Days /\ today + 1 > today
    BY <1>1, DaysAssumption DEF Days
  <2>2. QED
    BY <2>1 DEF LInv, Logged
<1>3. \A d \in Days : log'[d] = IF d = today + 1 THEN 1 ELSE log[d]
  BY <1>1
<1>4. Logged'
  BY <1>1, <1>2, <1>3 DEF LInv, Logged
<1>5. ASSUME NEW x \in Runners PROVE Seen(w[x])'
  <2>1. CASE w[x].pc \in {"judge", "write"}
    <3> DEFINE d == Max(w[x].todo)
    <3>1. d \in Days /\ w[x].found \in Nat
      BY <2>1, DayInHand
    <3> HIDE DEF d
    <3>2. /\ d >= today - 2 => w[x].found <= log[d]
          /\ ~w[x].shared /\ (d >= w[x].day - 1 \/ w[x].pc = "write") => daily[d] <= w[x].found
      BY <2>1 DEF LInv, Seen, d
    <3>3. d >= today + 1 - 2 => w[x].found <= log'[d]
      <4>1. d \in Nat /\ log[d] \in Nat /\ today \in Nat
        BY <3>1, FiguresAreNumbers
      <4>2. QED
        BY <1>2, <1>3, <3>1, <3>2, <4>1
    <3>4. /\ today' = today + 1 /\ w' = w /\ daily' = daily
      OBVIOUS
    <3>5. d >= today' - 2 => w[x].found <= log'[d]
      BY <1>1, <3>3, <3>4
    <3>6. Max(w'[x].todo) = d
      BY <3>4 DEF d
    <3> DEFINE u == w'[x]
    <3>7. u = w[x]
      BY <3>4
    <3> HIDE DEF u
    <3>8. u.pc \in {"judge", "write"} =>
             /\ d >= today' - 2 => u.found <= log'[d]
             /\ ~u.shared /\ (d >= u.day - 1 \/ u.pc = "write") => daily'[d] <= u.found
      BY <3>2, <3>4, <3>5, <3>7
    <3>9. QED
      BY <3>6, <3>8 DEF Seen, u
  <2>2. QED
    BY <2>1 DEF Seen
<1>6. QED
  BY <1>4, <1>5 DEF LInv, Alone, Live

\* Calls come late, logs are deleted once no run reads their day by itself, summaries expire.
LEMMA WorldFigures ==
  ASSUME IInv, LInv, NEW e \in Days, LateCall(e) \/ DeleteLogs(e) \/ ExpireDay(e)
  PROVE  LInv'
<1>1. /\ today \in Nat /\ Days \subseteq Nat /\ log \in [Days -> 0..MaxCalls]
      /\ daily \in [Days -> 0..MaxCalls] /\ MaxCalls \in Nat
  BY DaysAssumption, BoundsAssumption DEF IInv, TypeOK, Days
<1>2. UNCHANGED <<today, w>>
  BY DEF LateCall, DeleteLogs, ExpireDay
<1>3. \A d \in Days : /\ d >= today - 2 => log'[d] \in Nat /\ log[d] <= log'[d]
                      /\ d > today => log'[d] = log[d]
                      /\ daily'[d] \in Nat /\ daily'[d] <= daily[d]
  <2>1. CASE LateCall(e)
    BY <1>1, <2>1 DEF LateCall
  <2>2. CASE DeleteLogs(e)
    BY <1>1, <2>2 DEF DeleteLogs
  <2>3. CASE ExpireDay(e)
    BY <1>1, <2>3 DEF ExpireDay
  <2>4. QED
    BY <2>1, <2>2, <2>3
<1>4. Logged'
  BY <1>2, <1>3, FiguresAreNumbers DEF LInv, Logged
<1>5. ASSUME NEW x \in Runners PROVE Seen(w[x])'
  <2>1. CASE w[x].pc \in {"judge", "write"}
    <3> DEFINE d == Max(w[x].todo)
    <3>1. d \in Days /\ w[x].found \in Nat
      BY <2>1, DayInHand
    <3> HIDE DEF d
    <3>2. /\ d >= today - 2 => w[x].found <= log[d]
          /\ ~w[x].shared /\ (d >= w[x].day - 1 \/ w[x].pc = "write") => daily[d] <= w[x].found
      BY <2>1 DEF LInv, Seen, d
    <3>3. log[d] \in Nat /\ daily[d] \in Nat
      BY <1>1, <3>1
    <3>4. /\ d >= today - 2 => w[x].found <= log'[d]
          /\ ~w[x].shared /\ (d >= w[x].day - 1 \/ w[x].pc = "write") => daily'[d] <= w[x].found
      BY <1>3, <3>1, <3>2, <3>3
    <3>5. QED
      BY <1>2, <3>4 DEF Seen, d
  <2>2. QED
    BY <1>2, <2>1 DEF Seen
<1>6. QED
  BY <1>2, <1>4, <1>5 DEF LInv, Alone, Live

\* Whoever starts beside another run tells both.
LEMMA StartFigures == ASSUME NEW r \in Runners, IInv, LInv, Start(r) PROVE LInv'
<1> DEFINE lap == \E other \in Runners : Live(other)
<1>1. /\ w'[r].pc = "query" /\ w'[r].shared = lap
      /\ \A x \in Runners \ {r} : w'[x] = IF Live(x) THEN [w[x] EXCEPT !.shared = TRUE] ELSE w[x]
      /\ UNCHANGED <<today, log, daily>> /\ ~Live(r)
  BY DEF Start, Idle
<1>2. \A x \in Runners : w[x] \in Runs
  BY DEF IInv, TypeOK
<1>3. \A x \in Runners \ {r} : /\ w'[x].pc = w[x].pc /\ w'[x].todo = w[x].todo
                               /\ w'[x].found = w[x].found /\ w'[x].day = w[x].day
                               /\ w'[x].pc # "idle" => w'[x].shared = TRUE /\ lap
  BY <1>1, <1>2 DEF Live, Runs
<1> HIDE DEF lap
<1>4. Alone'
  BY <1>1, <1>3 DEF Alone, Live
<1>5. Logged'
  BY <1>1 DEF LInv, Logged
<1>6. ASSUME NEW x \in Runners PROVE Seen(w[x])'
  <2>1. CASE x = r
    BY <1>1, <2>1 DEF Seen
  <2>2. CASE x # r
    <3>1. Seen(w[x])
      BY DEF LInv
    <3>2. QED
      BY <1>1, <1>3, <2>2, <3>1 DEF Seen
  <2>3. QED
    BY <2>1, <2>2
<1>7. QED
  BY <1>4, <1>5, <1>6 DEF LInv

\* What a query finds is what the logs hold.
LEMMA QueryFigures == ASSUME NEW r \in Runners, IInv, LInv, Query(r) PROVE LInv'
<1> USE DEF Query
<1>0. w[r] \in Runs /\ Fits(w[r]) /\ Owes(w[r])
  BY DEF IInv, TypeOK
<1>1. CASE w' = [w EXCEPT ![r].pc = "judge", ![r].found = log[Max(w[r].todo)]]
  <2> DEFINE n == log[Max(w[r].todo)]
             v == [w[r] EXCEPT !.pc = "judge", !.found = n]
  <2>1. w' = [w EXCEPT ![r] = v]
    BY <1>1
  <2>2. Max(w[r].todo) \in Days /\ w[r].day \in {today - 1, today} /\ today \in Nat
    <3>1. w[r].todo # {} /\ w[r].todo \subseteq Days /\ w[r].day \in {today - 1, today}
      BY <1>0 DEF Owes, Runs
    <3>2. QED
      BY <3>1, NewestDay, FiguresAreNumbers
  <2>3. n \in Nat /\ (Max(w[r].todo) >= w[r].day - 1 => daily[Max(w[r].todo)] <= n)
    <3> DEFINE d == Max(w[r].todo)
    <3>1. log[d] \in Nat /\ daily[d] \in Nat /\ d \in Nat /\ today \in Nat /\ d \in Days
      BY <2>2, FiguresAreNumbers
    <3> HIDE DEF d
    <3>2. d >= w[r].day - 1 => daily[d] <= log[d]
      BY <2>2, <3>1 DEF LInv, Logged
    <3>3. QED
      BY <3>1, <3>2 DEF d
  <2>4. /\ v.pc = "judge" /\ v.found = n /\ v.todo = w[r].todo /\ v.day = w[r].day
        /\ v.shared = w[r].shared
    BY <1>0 DEF Runs
  <2> HIDE DEF v
  <2>5. Seen(v)
    BY <2>3, <2>4 DEF Seen
  <2>6. QED
    BY <2>1, <2>4, <2>5, LoneStep
<1>2. CASE w' = [w EXCEPT ![r].pc = "finish", ![r].failed = TRUE]
  <2> DEFINE v == [w[r] EXCEPT !.pc = "finish", !.failed = TRUE]
  <2>1. w' = [w EXCEPT ![r] = v]
    BY <1>2
  <2>2. v.pc = "finish" /\ v.shared = w[r].shared
    BY <1>0 DEF Runs
  <2> HIDE DEF v
  <2>3. QED
    BY <2>1, <2>2, LoneStep DEF Seen
<1>3. QED
  BY <1>1, <1>2

\* An older day is written only when it is not lowered.
LEMMA JudgeFigures == ASSUME NEW r \in Runners, IInv, LInv, Judge(r) PROVE LInv'
<1> DEFINE d == Max(w[r].todo)
<1> USE DEF Judge
<1>0. /\ w[r] \in Runs /\ d \in Days /\ w[r].found \in Nat /\ w[r].day \in Nat /\ d \in Nat
      /\ daily[d] \in Nat
  <2>1. w[r] \in Runs /\ d \in Days /\ w[r].found \in Nat
    BY DayInHand
  <2>2. daily[d] \in 0..MaxCalls /\ MaxCalls \in Nat
    BY <2>1, BoundsAssumption DEF IInv, TypeOK
  <2>3. QED
    BY <2>1, <2>2, DaysAssumption DEF Runs, Days
<1>1. CASE WouldLower(d, w[r].day, w[r].found)
  <2> DEFINE v == Finished(w[r], d)
  <2>1. w' = [w EXCEPT ![r] = v]
    BY <1>1
  <2>2. v.pc = "query" /\ v.shared = w[r].shared
    BY <1>0 DEF Runs, Finished
  <2> HIDE DEF v
  <2>3. QED
    BY <2>1, <2>2, LoneStep DEF Seen
<1>2. CASE ~WouldLower(d, w[r].day, w[r].found)
  <2> DEFINE v == [w[r] EXCEPT !.pc = "write"]
  <2>1. w' = [w EXCEPT ![r] = v]
    BY <1>2
  <2>2. /\ v.pc = "write" /\ v.found = w[r].found /\ v.todo = w[r].todo /\ v.day = w[r].day
        /\ v.shared = w[r].shared
    BY <1>0 DEF Runs
  <2> HIDE DEF v
  <2>3. /\ d >= today - 2 => w[r].found <= log[d]
        /\ ~w[r].shared /\ d >= w[r].day - 1 => daily[d] <= w[r].found
    BY DEF LInv, Seen
  <2>4. ~w[r].shared => daily[d] <= w[r].found
    BY <1>0, <1>2, <2>3 DEF WouldLower
  <2>5. Seen(v)
    BY <2>2, <2>3, <2>4 DEF Seen
  <2>6. QED
    BY <2>1, <2>2, <2>5, LoneStep
<1>3. QED
  BY <1>1, <1>2

\* What is written is what the logs say, or no less than what was there.
LEMMA WriteDayFigures == ASSUME NEW r \in Runners, IInv, LInv, WriteDay(r) PROVE LInv'
<1> DEFINE d == Max(w[r].todo)
           replaced == [daily EXCEPT ![d] = w[r].found]
<1> USE DEF WriteDay
<1>0. w[r] \in Runs /\ d \in Days /\ w[r].found \in Nat /\ d \in Nat
  BY DayInHand, DaysAssumption DEF Days
<1>1. d >= today - 2 => w[r].found <= log[d]
  BY DEF LInv, Seen
<1>2. /\ \A e \in Days : daily'[e] = daily[e] \/ (e = d /\ daily'[e] = w[r].found)
      /\ UNCHANGED <<today, log>>
  BY <1>0 DEF IInv, TypeOK
<1>3. /\ w'[r].pc \in {"query", "finish"} /\ w'[r].shared = w[r].shared
      /\ \A x \in Runners \ {r} : w'[x] = w[x]
  <2>1. w \in [Runners -> Runs]
    BY DEF IInv, TypeOK
  <2>2. Finished(w[r], d).pc = "query" /\ Finished(w[r], d).shared = w[r].shared
    BY <1>0 DEF Finished, Runs
  <2>3. CASE w' = [w EXCEPT ![r] = Finished(@, d)]
    BY <2>1, <2>2, <2>3
  <2>4. CASE w' = [w EXCEPT ![r].pc = "finish", ![r].failed = TRUE]
    BY <1>0, <2>1, <2>4 DEF Runs
  <2>5. QED
    BY <2>3, <2>4
<1> HIDE DEF d, replaced
<1>4. Alone'
  BY <1>3 DEF LInv, Alone, Live
<1>5. Logged'
  <2>1. ASSUME NEW e \in Days
        PROVE  (e >= today - 2 => daily'[e] <= log[e]) /\ (e > today => log[e] = 0)
    BY <1>1, <1>2 DEF LInv, Logged
  <2>2. QED
    BY <1>2, <2>1 DEF Logged
<1>6. ASSUME NEW x \in Runners PROVE Seen(w[x])'
  <2>1. CASE x = r
    BY <1>3, <2>1 DEF Seen
  <2>2. CASE x # r
    <3>1. Live(x) => w[x].shared
      BY <2>2 DEF LInv, Alone, Live
    <3>2. Seen(w[x])
      BY DEF LInv
    <3>3. QED
      BY <1>2, <1>3, <2>2, <3>1, <3>2 DEF Seen, Live
  <2>3. QED
    BY <2>1, <2>2
<1>7. QED
  BY <1>4, <1>5, <1>6 DEF LInv

\* Months are folded, a run ends or stops: no day is written.
LEMMA RestFigures ==
  ASSUME NEW r \in Runners, IInv, LInv, Fold(r) \/ WriteMonth(r) \/ Finish(r) \/ Stop(r)
  PROVE  LInv'
<1>1. w[r] \in Runs /\ w \in [Runners -> Runs]
  BY DEF IInv, TypeOK
<1>2. UNCHANGED <<today, log, daily>> /\ w[r].pc # "idle"
  BY DEF Fold, WriteMonth, Finish, Stop, Live
<1>3. /\ w' = [w EXCEPT ![r] = w'[r]] /\ w'[r].pc \in {"idle", "query", "month", "finish"}
      /\ w'[r].pc # "idle" => w'[r].shared = w[r].shared
  <2>1. CASE Fold(r)
    BY <1>1, <2>1 DEF Fold, Runs
  <2>2. CASE WriteMonth(r)
    BY <1>1, <2>2 DEF WriteMonth, Runs
  <2>3. CASE Finish(r) \/ Stop(r)
    BY <1>1, <2>3 DEF Finish, Stop, Idle
  <2>4. QED
    BY <2>1, <2>2, <2>3
<1> DEFINE v == w'[r]
<1>4. Seen(v)
  BY <1>3 DEF Seen
<1> HIDE DEF v
<1>5. w' = [w EXCEPT ![r] = v] /\ (v.pc = "idle" \/ v.shared = w[r].shared)
  BY <1>3 DEF v
<1>6. QED
  BY <1>2, <1>4, <1>5, LoneStep

\* Every step keeps what is known of the figures.
LEMMA FiguresInv == IInv /\ LInv /\ [Next]_vars => LInv'
<1> SUFFICES ASSUME IInv, LInv, [Next]_vars PROVE LInv'
  OBVIOUS
<1>1. CASE NextDay
  BY <1>1, NextDayFigures
<1>2. CASE \E d \in Days : LateCall(d) \/ DeleteLogs(d) \/ ExpireDay(d)
  BY <1>2, WorldFigures
<1>3. ASSUME NEW r \in Runners, Start(r) \/ Step(r) \/ Stop(r) PROVE LInv'
  BY <1>3, StartFigures, QueryFigures, JudgeFigures, WriteDayFigures, RestFigures DEF Step
<1>4. CASE (\E days \in 1..MaxBackfill : RequestBackfill(days)) \/ LeaseExpires \/ UNCHANGED vars
  <2>1. UNCHANGED <<today, log, daily, w>>
    BY <1>4 DEF RequestBackfill, LeaseExpires, vars
  <2>2. QED
    BY <2>1 DEF LInv, Alone, Logged, Seen, Live
<1>5. QED
  BY <1>1, <1>2, <1>3, <1>4 DEF Next

\* No step of a run that overlaps no other lowers an older day or a month.
LEMMA StepLowersNothing ==
  ASSUME IInv, LInv, [Next]_vars, ~\E r \in Runners : w[r].shared
  PROVE  /\ \A d \in Days : d < today - 1 /\ daily'[d] < daily[d] => events' # events
         /\ \A m \in Months : monthly'[m] >= monthly[m]
<1>0. /\ \A d \in Days : daily[d] \in Nat
      /\ \A m \in Months : monthly[m] \in Nat
  BY BoundsAssumption DEF IInv, TypeOK
<1>1. ASSUME NEW r \in Runners, WriteDay(r) PROVE \A d \in Days : daily'[d] >= daily[d]
  <2> DEFINE e == Max(w[r].todo)
  <2>1. w[r].pc = "write" /\ e \in Days /\ w[r].found \in Nat
    BY <1>1, DayInHand DEF WriteDay
  <2>2. daily[e] <= w[r].found
    BY <2>1 DEF LInv, Seen
  <2>3. \A d \in Days : daily'[d] = daily[d] \/ (d = e /\ daily'[d] = w[r].found)
    BY <1>1 DEF WriteDay, IInv, TypeOK
  <2> HIDE DEF e
  <2>4. QED
    BY <1>0, <2>1, <2>2, <2>3
<1>2. ASSUME NEW r \in Runners, WriteMonth(r) PROVE \A m \in Months : monthly'[m] >= monthly[m]
  <2>1. w[r].found \in Nat
    BY DEF IInv, TypeOK, Runs
  <2>2. \A m \in Months : monthly'[m] = monthly[m] \/ monthly'[m] = Larger(monthly[m], w[r].found)
    BY <1>2 DEF WriteMonth, IInv, TypeOK
  <2>3. QED
    BY <1>0, <2>1, <2>2 DEF Larger
<1>3. ASSUME NEW d \in Days, ExpireDay(d) PROVE events' # events
  BY <1>3 DEF ExpireDay, Event, IInv, TypeOK
<1>4. (\E r \in Runners : WriteMonth(r)) \/ UNCHANGED monthly
  BY DEF Next, NextDay, LateCall, DeleteLogs, ExpireDay, RequestBackfill, Start, Step, Query, Judge,
         WriteDay, Fold, Finish, Stop, LeaseExpires, vars
<1>5. (\E r \in Runners : WriteDay(r)) \/ (\E d \in Days : ExpireDay(d)) \/ UNCHANGED daily
  BY DEF Next, NextDay, LateCall, DeleteLogs, RequestBackfill, Start, Step, Query, Judge,
         WriteMonth, Fold, Finish, Stop, LeaseExpires, vars
<1>6. \A m \in Months : monthly'[m] >= monthly[m]
  BY <1>0, <1>2, <1>4
<1>7. ASSUME NEW d \in Days, daily'[d] < daily[d] PROVE events' # events
  <2>1. ~(daily'[d] >= daily[d]) \/ daily'[d] \notin Int
    BY <1>0, <1>7
  <2>2. daily' \in [Days -> 0..MaxCalls]
    BY NextInv DEF IInv, TypeOK
  <2>3. daily'[d] \in Int
    BY <2>2, BoundsAssumption
  <2>4. CASE UNCHANGED daily
    BY <1>0, <2>1, <2>3, <2>4
  <2>5. QED
    BY <1>1, <1>3, <1>5, <2>1, <2>3, <2>4
<1>8. QED
  BY <1>6, <1>7

\* A day before yesterday is lowered only as it expires, and a month never, as long as no two
\* runs overlap.
THEOREM FiguresAreNeverLowered == Spec => NeverLowered
<1>1. LInv /\ IInv /\ [Next]_vars
      => [\/ \E r \in Runners : w[r].shared
          \/ /\ \A d \in Days : d < today - 1 /\ daily'[d] < daily[d] => events' # events
             /\ \A m \in Months : monthly'[m] >= monthly[m]]_vars
  BY StepLowersNothing
<1>2. QED
  BY <1>1, Invariance, InitFigures, FiguresInv, PTL DEF Spec, NeverLowered
===============================================================================
