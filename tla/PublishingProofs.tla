--------------------------- MODULE PublishingProofs ---------------------------
(***************************************************************************)
(* Proofs about Publishing, for any grants and any number of runs, edits   *)
(* and faults.  Of a governed publication: whom the gateway admits, at any *)
(* moment and whenever the lock is free, and which keys work once an apply *)
(* succeeded.  Of any publication: that what MOSAIC made in the gateway is *)
(* in its records, and that it takes nothing of a customer's.              *)
(*                                                                         *)
(* Three invariants, one on top of the other: IInv, what the gateway and   *)
(* the worker are like; BInv, what of it the records account for; and      *)
(* KInv, the keys that work at each stage of a governed apply.             *)
(***************************************************************************)
EXTENDS Publishing, TLAPS

-----------------------------------------------------------------------------
(* The inductive invariant.                                                *)

\* What the gateway can be like.  A policy that asks the fragment belongs to an API of MOSAIC's,
\* and an API that serves without a subscription has a policy.
GateOK(a) ==
  /\ a.at["api"] \in {"absent", "theirs", "keyed", "open"}
  /\ a.at["policy"] \in {"absent", "deny", "access"}
  /\ a.at["policy"] = "access" => a.at["api"] \in {"keyed", "open"}
  /\ a.at["api"] = "open" => a.at["policy"] # "absent"

\* Calls could get through.
Exposed(a) == a.at["policy"] = "access" \/ a.at["api"] = "open"

\* The things MOSAIC can know it made, from its records.
Evidence == pub.owned \union (IF lock = "run" THEN run.steps ELSE {})

\* Whoever may be admitted.
Reviewed == pub.applied.on \union plan.base.on \union plan.target.on

\* Whoever holds the lock, one at a time; nothing is in flight once it is given back.
Locking ==
  /\ w.pc = "idle" => w = Idle
  /\ w.pc # "idle" => lock = "run"
  /\ keyjob.pc # "idle" => lock = "mutation" /\ keyjob.grant \in Grants
  /\ inflight # {} => lock # "none" /\ w.pc = "idle" /\ keyjob.pc = "idle"
  /\ lock = "mutation" => \A f \in inflight : f.e.thing \in Grants

\* Where a worker can be in its stages.
Counting ==
  /\ w.pc \in {"step", "write", "record"} =>
       w.i \in 0..Len(Stages) /\ (w.i = 0 => w.todo = {})
  /\ w.pc \in {"write", "record"} => w.i # 0 /\ Stage # "retire"
  /\ w.pc = "restore" => w.i \in 0..4 /\ (w.i = 0 => w.todo = {})
  /\ w.pc \in {"deny", "restore", "redeny", "settle", "guard"} => governed
  /\ w.pc = "rollback" => ~governed

\* An API through which calls could get is known to be MOSAIC's, and a customer's is not.
Mine ==
  /\ Exposed(apim) => "api" \in Evidence /\ (w.pc # "idle" => "api" \in w.owned)
  /\ "api" \in Evidence \union w.owned \union w.steps => apim.at["api"] # "theirs"

\* Whom the gateway admits.
Narrow ==
  /\ Admits(apim) \subseteq Reviewed
  /\ lock # "run" => Admits(apim) \subseteq pub.applied.on

\* A write that may still land opens nothing that was not reviewed.
Harmless(e, rules) ==
  /\ e.thing = "fragment" => e.to \in {"access", "absent"} /\ rules \subseteq Reviewed
  /\ e.thing = "policy" =>
       \/ e.to = "deny"
       \/ /\ e.to = "access"
          /\ apim.at["api"] \in {"keyed", "open"} /\ "api" \in Evidence
          /\ apim.at["fragment"] = "access" => apim.rules \subseteq Reviewed
       \/ e.to = "absent" /\ apim.at["api"] # "open"
  /\ e.thing = "api" =>
       \/ e.to = "absent"
       \/ e.to = "keyed" /\ apim.at["api"] # "theirs"
       \/ /\ e.to = "open"
          /\ apim.at["api"] \in {"keyed", "open"} /\ "api" \in Evidence
          /\ apim.at["policy"] # "absent"

Landing == \A f \in inflight : Harmless(f.e, f.rules)

\* What each stage of a governed apply writes, and of a restoration.
StageThings(i) ==
  IF i \in {1, 7} THEN {"policy"} ELSE IF i = 2 THEN {"backend"} ELSE IF i \in {3, 8} THEN {"api"}
  ELSE IF i = 6 THEN {"fragment"} ELSE IF i \in {4, 5, 9} THEN Grants ELSE {}

RestoreThings(i) ==
  IF i = 1 THEN {"fragment"} ELSE IF i = 2 THEN {"policy"} ELSE IF i = 3 THEN {"api"}
  ELSE IF i = 4 THEN Grants ELSE {}

\* A stage that is over.
Past(n) == w.i > n \/ (w.i = n /\ w.todo = {})

\* The fragment admits exactly these.
Fragment(grants) == apim.at["fragment"] = "access" /\ apim.rules = grants

\* While the stages are applied.
Applying ==
  w.pc \in {"step", "write", "record"} =>
    /\ w.todo \subseteq StageThings(w.i)
    /\ Past(3) => "api" \in w.owned /\ apim.at["api"] \in {"keyed", "open"}
    /\ Past(6) => Fragment(plan.target.on)
    /\ Past(7) => apim.at["policy"] = "access"
    /\ ~w.denied /\ ~w.restored

\* Around a write.
Writing ==
  /\ w.pc \in {"write", "record"} =>
       /\ w.thing \in w.todo /\ run.steps = w.steps
       /\ IF w.created THEN w.thing \in w.steps ELSE w.thing \in w.owned
  /\ w.pc = "record" =>
       /\ w.thing = "api" => apim.at["api"] \in {"keyed", "open"}
       /\ w.thing = "fragment" => Fragment(plan.target.on)
       /\ w.thing = "policy" /\ w.i = 7 => apim.at["policy"] = "access"

\* What the worker knows it owns is in the records.
Journal ==
  w.pc \in {"step", "write", "record", "deny", "restore", "redeny", "settle"} =>
    /\ run.steps \subseteq w.steps
    /\ "api" \in w.owned => "api" \in pub.owned \union run.steps

\* While the access that is safe is restored.
Restoration ==
  w.pc = "restore" =>
    /\ "api" \in w.owned /\ w.denied /\ ~w.restored
    /\ w.todo \subseteq RestoreThings(w.i)
    /\ Past(1) => Fragment(Candidate.on)
    /\ Past(2) => apim.at["policy"] = "access"

\* How a run ends.
Outcome ==
  /\ w.pc \in {"deny", "redeny"} => ~w.restored
  /\ w.pc = "deny" => ~w.denied
  /\ w.pc = "settle" /\ w.denied => Admits(apim) \subseteq IF w.restored THEN Candidate.on ELSE {}
  /\ w.pc = "release" =>
       /\ pub.owned = w.owned
       /\ Admits(apim) \subseteq pub.applied.on
       /\ pub.status = "failed" => Admits(apim) \subseteq plan.base.on \intersect plan.target.on

\* A publication is taken away behind a denial, its API first.
Teardown ==
  /\ w.pc = "guard" => w.todo = w.owned
  /\ w.pc = "remove" =>
       /\ Admits(apim) = {}
       /\ apim.at["api"] = "open" /\ w.todo # {} => "api" \in w.todo

GInv ==
  /\ GateOK(apim)
  /\ Mine /\ Narrow /\ Landing
  /\ Applying /\ Writing /\ Journal /\ Restoration /\ Outcome /\ Teardown

IInv == TypeOK /\ Locking /\ Counting /\ (governed => GInv)

-----------------------------------------------------------------------------
(* What writes and removals do to the gateway.                             *)

LEMMA PartsAreThings ==
  /\ Parts \subseteq Things /\ Grants \subseteq Things
  /\ \A g \in Grants : g \notin {"backend", "fragment", "api", "policy"}
BY GrantsAssumption DEF Parts, Things

\* With a gateway that is as it should be, the fragment's rules are all that is admitted.
LEMMA WhoIsAdmitted ==
  ASSUME NEW a \in Gateways, GateOK(a)
  PROVE  /\ Admits(a) = IF a.at["policy"] = "access" /\ a.at["fragment"] = "access"
                        THEN a.rules ELSE {}
         /\ Admits(a) \subseteq a.rules
         /\ ~Exposed(a) => Admits(a) = {}
BY DEF GateOK, Admits, Exposed

LEMMA PutDoes ==
  ASSUME NEW a \in Gateways, NEW t \in Things, NEW c \in Contents, NEW rules \in SUBSET Grants
  PROVE  /\ Put(a, t, c, rules) \in Gateways
         /\ \A x \in Things : Put(a, t, c, rules).at[x] = IF x = t THEN c ELSE a.at[x]
         /\ Put(a, t, c, rules).rules = IF t = "fragment" THEN rules ELSE a.rules
BY DEF Put, Gateways, Exists

LEMMA DropDoes ==
  ASSUME NEW a \in Gateways, NEW t \in Things
  PROVE  /\ Drop(a, t) \in Gateways
         /\ \A x \in Things : Drop(a, t).at[x] =
              IF x = t \/ (t = "api" /\ x = "policy") THEN "absent" ELSE a.at[x]
         /\ Drop(a, t).rules = IF t = "fragment" THEN {} ELSE a.rules
<1>1. "absent" \in Contents
  BY DEF Contents
<1>2. QED
  BY <1>1 DEF Drop, Gateways

LEMMA LandedDoes ==
  ASSUME NEW a \in Gateways, NEW e \in Effects, NEW rules \in SUBSET Grants
  PROVE  /\ Landed(a, e, rules) \in Gateways
         /\ \A x \in Things : Landed(a, e, rules).at[x] =
              IF x = e.thing THEN e.to
              ELSE IF e.to = "absent" /\ e.thing = "api" /\ x = "policy" THEN "absent" ELSE a.at[x]
         /\ Landed(a, e, rules).rules =
              IF e.thing # "fragment" THEN a.rules ELSE IF e.to = "absent" THEN {} ELSE rules
<1>0. e.thing \in Things /\ e.to \in Contents
  BY DEF Effects
<1>1. CASE e.to = "absent"
  <2>1. Landed(a, e, rules) = Drop(a, e.thing)
    BY <1>1 DEF Landed
  <2>2. /\ Drop(a, e.thing) \in Gateways
        /\ \A x \in Things : Drop(a, e.thing).at[x] =
             IF x = e.thing \/ (e.thing = "api" /\ x = "policy") THEN "absent" ELSE a.at[x]
        /\ Drop(a, e.thing).rules = IF e.thing = "fragment" THEN {} ELSE a.rules
    BY <1>0, DropDoes
  <2>3. QED
    BY <1>1, <2>1, <2>2
<1>2. CASE e.to # "absent"
  <2>1. Landed(a, e, rules) = Put(a, e.thing, e.to, rules)
    BY <1>2 DEF Landed
  <2>2. /\ Put(a, e.thing, e.to, rules) \in Gateways
        /\ \A x \in Things : Put(a, e.thing, e.to, rules).at[x] =
             IF x = e.thing THEN e.to ELSE a.at[x]
        /\ Put(a, e.thing, e.to, rules).rules = IF e.thing = "fragment" THEN rules ELSE a.rules
    BY <1>0, PutDoes
  <2>3. QED
    BY <1>2, <2>1, <2>2
<1>3. QED
  BY <1>1, <1>2

LEMMA SuspendedDoes ==
  ASSUME NEW a \in Gateways, NEW keys \in SUBSET Grants
  PROVE  /\ Suspended(a, keys) \in Gateways
         /\ \A p \in Parts : Suspended(a, keys).at[p] = a.at[p]
         /\ Suspended(a, keys).rules = a.rules
<1>1. "suspended" \in Contents
  BY DEF Contents
<1>2. \A p \in Parts : p \notin keys /\ p \in Things
  BY GrantsAssumption DEF Things
<1>3. QED
  BY <1>1, <1>2 DEF Suspended, Gateways

\* What a caller can tell of two gateways that agree on all but the keys.
LEMMA SameFace ==
  ASSUME NEW a \in Gateways, NEW b \in Gateways, a.rules = b.rules,
         \A p \in {"api", "policy", "fragment"} : a.at[p] = b.at[p]
  PROVE  /\ GateOK(a) => GateOK(b)
         /\ Exposed(b) => Exposed(a)
         /\ Admits(b) = Admits(a)
BY DEF GateOK, Exposed, Admits

-----------------------------------------------------------------------------
(* Denying.                                                                *)

LEMMA GuardType ==
  ASSUME NEW a \in Gateways, NEW owned \in SUBSET Things,
         NEW o \in {Guarded(a, owned)} \union GuardFails(a, owned)
  PROVE  /\ o.apim \in Gateways /\ o.denied \in BOOLEAN
         /\ owned \subseteq o.owned /\ o.owned \subseteq owned \union {"policy"}
         /\ o.owned \in SUBSET Things
<1>0. "policy" \in Things /\ "fragment" \in Things /\ "deny" \in Contents /\ {} \in SUBSET Grants
  BY DEF Parts, Things, Contents
<1>1. \A b \in Gateways : DenyPolicy(b) \in Gateways /\ DenyFragment(b) \in Gateways
  BY <1>0, PutDoes DEF DenyPolicy, DenyFragment
<1>2. /\ Guarded(a, owned).apim \in {a, DenyPolicy(a)} /\ Guarded(a, owned).denied = TRUE
      /\ Guarded(a, owned).owned \in {owned, owned \union {"policy"}}
  BY DEF Guarded
<1>3. ASSUME o \in GuardFails(a, owned)
      PROVE  /\ o.apim \in {a, DenyPolicy(a), DenyFragment(a), DenyFragment(DenyPolicy(a))}
             /\ o.denied \in BOOLEAN
             /\ o.owned \in {owned, owned \union {"policy"}}
  <2> DEFINE first == {a} \union (IF Exists(a, "api") THEN {DenyPolicy(a)} ELSE {})
             kept  == {owned} \union
                        (IF Guardable(a, owned) THEN {Guarded(a, owned).owned} ELSE {})
  <2>1. first \subseteq {a, DenyPolicy(a)} /\ kept \subseteq {owned, owned \union {"policy"}}
    BY <1>2
  <2> DEFINE plainly == {[apim |-> b, owned |-> k, denied |-> FALSE] : b \in first, k \in kept}
             closing == {[apim |-> DenyFragment(b), owned |-> k, denied |-> d] :
                           b \in first, k \in kept, d \in BOOLEAN}
  <2>2. GuardFails(a, owned) =
          IF "api" \notin owned THEN {}
          ELSE plainly \union (IF "fragment" \notin owned THEN {} ELSE closing)
    BY DEF GuardFails
  <2> HIDE DEF first, kept
  <2>3. CASE o \in plainly
    <3>1. PICK b \in first, k \in kept : o = [apim |-> b, owned |-> k, denied |-> FALSE]
      BY <2>3
    <3>2. QED
      BY <2>1, <3>1
  <2>4. CASE o \in closing
    <3>1. PICK b \in first, k \in kept, d \in BOOLEAN :
            o = [apim |-> DenyFragment(b), owned |-> k, denied |-> d]
      BY <2>4
    <3>2. QED
      BY <2>1, <3>1
  <2> HIDE DEF plainly, closing
  <2>5. QED
    BY <1>3, <2>2, <2>3, <2>4
<1>4. /\ o.apim \in {a, DenyPolicy(a), DenyFragment(a), DenyFragment(DenyPolicy(a))}
      /\ o.denied \in BOOLEAN
      /\ o.owned \in {owned, owned \union {"policy"}}
  BY <1>2, <1>3
<1>5. QED
  BY <1>0, <1>1, <1>4

\* What a denial leaves: never more than was admitted, and nothing once it is confirmed, if the
\* owner knows of an API through which calls could get.
LEMMA GuardDenies ==
  ASSUME NEW a \in Gateways, GateOK(a), NEW owned \in SUBSET Things,
         Exposed(a) => "api" \in owned,
         NEW o \in {Guarded(a, owned)} \union GuardFails(a, owned)
  PROVE  /\ GateOK(o.apim)
         /\ o.apim.at["api"] = a.at["api"]
         /\ Exposed(o.apim) => Exposed(a)
         /\ Admits(o.apim) \subseteq Admits(a)
         /\ o.denied => Admits(o.apim) = {}
<1> DEFINE p == DenyPolicy(a)
<1>0. "policy" \in Things /\ "fragment" \in Things /\ "api" \in Things /\ "deny" \in Contents
      /\ {} \in SUBSET Grants
  BY DEF Parts, Things, Contents
<1>1. /\ p \in Gateways /\ p.at["policy"] = "deny" /\ p.at["api"] = a.at["api"]
      /\ p.at["fragment"] = a.at["fragment"] /\ p.rules = a.rules
  BY <1>0, PutDoes DEF DenyPolicy
<1>2. \A b \in Gateways : LET f == DenyFragment(b) IN
        /\ f \in Gateways /\ f.at["policy"] = b.at["policy"] /\ f.at["api"] = b.at["api"]
        /\ f.at["fragment"] = "deny" /\ f.rules = {}
  BY <1>0, PutDoes DEF DenyFragment
<1> HIDE DEF p
<1>3. GateOK(p) /\ ~(p.at["policy"] = "access") /\ (Exposed(p) => Exposed(a)) /\ Admits(p) = {}
  <2>1. GateOK(p) /\ (Exposed(p) => Exposed(a))
    BY <1>1 DEF GateOK, Exposed
  <2>2. QED
    BY <1>1, <2>1, WhoIsAdmitted
<1>4. ASSUME NEW b \in Gateways, GateOK(b)
      PROVE  LET f == DenyFragment(b) IN
             /\ GateOK(f) /\ f.at["api"] = b.at["api"] /\ (Exposed(f) => Exposed(b))
             /\ Admits(f) = {}
  <2> DEFINE f == DenyFragment(b)
  <2>1. /\ f \in Gateways /\ f.at["policy"] = b.at["policy"] /\ f.at["api"] = b.at["api"]
        /\ f.at["fragment"] = "deny" /\ f.rules = {}
    BY <1>2
  <2> HIDE DEF f
  <2>2. GateOK(f) /\ (Exposed(f) => Exposed(b))
    BY <1>4, <2>1 DEF GateOK, Exposed
  <2>3. Admits(f) = {}
    BY <2>1, <2>2, WhoIsAdmitted
  <2>4. QED
    BY <2>1, <2>2, <2>3 DEF f
<1>5. CASE o = Guarded(a, owned)
  <2>1. CASE Guardable(a, owned)
    BY <1>1, <1>3, <1>5, <2>1 DEF Guarded, p
  <2>2. CASE ~Guardable(a, owned)
    <3>1. ~Exposed(a)
      BY <2>2 DEF Guardable, Exists, Exposed, GateOK
    <3>2. QED
      BY <1>5, <2>2, <3>1, WhoIsAdmitted DEF Guarded
  <2>3. QED
    BY <2>1, <2>2
<1>6. CASE o \in GuardFails(a, owned)
  <2>1. \/ o.apim \in {a, p} /\ o.denied = FALSE
        \/ o.apim \in {DenyFragment(a), DenyFragment(p)}
    BY <1>6 DEF GuardFails, p
  <2>2. CASE o.apim \in {a, p} /\ o.denied = FALSE
    BY <1>1, <1>3, <2>2
  <2>3. CASE o.apim = DenyFragment(a)
    BY <1>4, <2>3
  <2>4. CASE o.apim = DenyFragment(p)
    BY <1>1, <1>3, <1>4, <2>4
  <2>5. QED
    BY <2>1, <2>2, <2>3, <2>4
<1>7. QED
  BY <1>5, <1>6

\* The same with keys suspended.
LEMMA Denial ==
  ASSUME NEW a \in Gateways, GateOK(a), NEW owned \in SUBSET Things,
         Exposed(a) => "api" \in owned,
         NEW o \in {Guarded(a, owned)} \union GuardFails(a, owned),
         NEW keys \in SUBSET Keys(owned)
  PROVE  LET b == Suspended(o.apim, keys)
         IN /\ GateOK(b)
            /\ b.at["api"] = a.at["api"]
            /\ Exposed(b) => Exposed(a)
            /\ Admits(b) \subseteq Admits(a)
            /\ o.denied => Admits(b) = {}
<1> DEFINE b == Suspended(o.apim, keys)
<1>1. o.apim \in Gateways /\ keys \in SUBSET Grants
  BY GuardType DEF Keys
<1>2. /\ b \in Gateways /\ o.apim.rules = b.rules
      /\ \A p \in {"api", "policy", "fragment"} : o.apim.at[p] = b.at[p]
  BY <1>1, SuspendedDoes DEF Parts
<1> HIDE DEF b
<1>3. (GateOK(o.apim) => GateOK(b)) /\ (Exposed(b) => Exposed(o.apim)) /\ Admits(b) = Admits(o.apim)
  BY <1>1, <1>2, SameFace
<1>4. /\ GateOK(o.apim) /\ o.apim.at["api"] = a.at["api"] /\ (Exposed(o.apim) => Exposed(a))
      /\ Admits(o.apim) \subseteq Admits(a) /\ (o.denied => Admits(o.apim) = {})
  BY GuardDenies
<1>5. GateOK(b) /\ b.at["api"] = a.at["api"] /\ (Exposed(b) => Exposed(a))
      /\ Admits(b) \subseteq Admits(a) /\ (o.denied => Admits(b) = {})
  BY <1>2, <1>3, <1>4
<1>6. QED
  BY <1>5 DEF b

-----------------------------------------------------------------------------
(* Stages.                                                                 *)

StageNames == {"shut", "backend", "prepare", "retire", "suspend", "fragment", "install", "open",
               "activate"}

LEMMA GovernedStages ==
  ASSUME governed
  PROVE  /\ Len(Stages) = 9
         /\ Stages[1] = "shut" /\ Stages[2] = "backend" /\ Stages[3] = "prepare"
         /\ Stages[4] = "retire" /\ Stages[5] = "suspend" /\ Stages[6] = "fragment"
         /\ Stages[7] = "install" /\ Stages[8] = "open" /\ Stages[9] = "activate"
BY DEF Stages

LEMMA PlainStages ==
  ASSUME ~governed
  PROVE  /\ Len(Stages) = 4
         /\ Stages[1] = "backend" /\ Stages[2] = "fragment" /\ Stages[3] = "open"
         /\ Stages[4] = "install"
BY DEF Stages

LEMMA StagesNamed ==
  ASSUME governed \in BOOLEAN
  PROVE  Len(Stages) \in {4, 9} /\ \A i \in 1..Len(Stages) : Stages[i] \in StageNames
<1>1. CASE governed
  <2>1. \A i \in 1..9 : i \in {1, 2, 3, 4, 5, 6, 7, 8, 9}
    OBVIOUS
  <2>2. QED
    BY <1>1, <2>1, GovernedStages DEF StageNames
<1>2. CASE ~governed
  <2>1. \A i \in 1..4 : i \in {1, 2, 3, 4}
    OBVIOUS
  <2>2. QED
    BY <1>2, <2>1, PlainStages DEF StageNames
<1>3. QED
  BY <1>1, <1>2

LEMMA TodoTyped ==
  ASSUME plan \in Plans, NEW stage \in StageNames
  PROVE  Todo(stage) \in SUBSET Things
BY DEF Todo, StageNames, Plans, Snapshots, Parts, Things

LEMMA TodoOfStage ==
  ASSUME governed, NEW i \in 1..9
  PROVE  /\ Todo(Stages[i]) \subseteq StageThings(i)
         /\ i = 3 => Todo(Stages[i]) # {}
         /\ i = 6 => Todo(Stages[i]) # {}
         /\ i = 7 => Todo(Stages[i]) # {}
<1>1. i \in {1, 2, 3, 4, 5, 6, 7, 8, 9}
  OBVIOUS
<1>2. QED
  BY <1>1, GovernedStages DEF Todo, StageThings

LEMMA ContentTyped ==
  \A stage \in StageNames \ {"retire"} : Content[stage] \in Contents
BY DEF Content, Contents, StageNames

LEMMA ContentOfStage ==
  /\ Content["shut"] = "deny" /\ Content["backend"] = "ours" /\ Content["prepare"] = "keyed"
  /\ Content["suspend"] = "suspended" /\ Content["fragment"] = "access"
  /\ Content["install"] = "access" /\ Content["open"] = "open" /\ Content["activate"] = "active"
BY DEF Content

LEMMA RestoringStages ==
  /\ Len(Restoring) = 4
  /\ Restoring[1] = "fragment" /\ Restoring[2] = "install" /\ Restoring[3] = "open"
  /\ Restoring[4] = "activate"
BY DEF Restoring

LEMMA RestoreTodoOfStage ==
  ASSUME plan \in Plans, NEW owned \in SUBSET Things, NEW i \in 1..4
  PROVE  /\ RestoreTodo(Restoring[i], owned) \subseteq RestoreThings(i)
         /\ RestoreTodo(Restoring[i], owned) \in SUBSET Things
         /\ i < 3 => RestoreTodo(Restoring[i], owned) # {}
<1>1. i \in {1, 2, 3, 4}
  OBVIOUS
<1>2. Candidate.on \subseteq Grants
  BY DEF Candidate, Safe, Denied, Plans, Snapshots
<1>3. QED
  BY <1>1, <1>2, RestoringStages DEF RestoreTodo, Todo, RestoreThings, Parts, Things

-----------------------------------------------------------------------------
(* Snapshots.                                                              *)

LEMMA NoAccessType == NoAccess \in Snapshots
BY DEF NoAccess, Snapshots

LEMMA DeniedType ==
  ASSUME NEW s \in Snapshots
  PROVE  Denied(s) \in Snapshots /\ Denied(s).on = {} /\ Denied(s).ver = s.ver
BY DEF Denied, Snapshots

LEMMA CandidateType ==
  ASSUME plan \in Plans
  PROVE  /\ Candidate \in Snapshots
         /\ Candidate.on \subseteq plan.base.on \intersect plan.target.on
<1>0. plan.base \in Snapshots /\ plan.target \in Snapshots
  BY DEF Plans
<1>1. CASE plan.base.ver = 0
  BY <1>0, <1>1, DeniedType DEF Candidate, Safe
<1>2. CASE plan.base.ver # 0
  BY <1>0, <1>2 DEF Candidate, Safe, Snapshots
<1>3. QED
  BY <1>1, <1>2

LEMMA SnapshotType ==
  ASSUME pub \in Publications
  PROVE  AccessSnapshot \in Snapshots
<1>1. pub.applied.ver \in Nat
  BY DEF Publications, Snapshots
<1>2. pub.applied.ver + 1 \in Nat
  BY <1>1
<1>3. QED
  BY <1>2 DEF AccessSnapshot, Snapshots

LEMMA IdleType == Idle \in Workers
BY DEF Idle, Workers, Parts, Things

-----------------------------------------------------------------------------
(* Initially, and while no worker is at work.                              *)

LEMMA InitInv == Init => IInv
<1> SUFFICES ASSUME Init PROVE IInv
  OBVIOUS
<1> USE DEF Init
<1>1. "absent" \in Contents
  BY DEF Contents
<1>2. apim \in Gateways
  BY <1>1 DEF Gateways
<1>3. pub \in Publications
  BY NoAccessType DEF Publications
<1>4. plan \in Plans /\ teardown \in Plans
  BY NoAccessType DEF NoPlan, Plans
<1>5. run \in RunRecords
  BY NoAccessType DEF RunRecords
<1>6. keyjob \in KeyJobs
  BY DEF NoJob, KeyJobs
<1>7. TypeOK
  BY <1>2, <1>3, <1>4, <1>5, <1>6, IdleType, BoundsAssumption DEF TypeOK
<1>8. w.pc = "idle" /\ keyjob.pc = "idle" /\ w.owned = {} /\ w.steps = {}
  BY DEF Idle, NoJob
<1>9. \A p \in {"api", "policy", "fragment"} : apim.at[p] = "absent"
  BY DEF Parts, Things
<1>10. GateOK(apim) /\ ~Exposed(apim) /\ Admits(apim) = {}
  BY <1>9 DEF GateOK, Exposed, Admits
<1>11. GInv
  BY <1>8, <1>9, <1>10 DEF GInv, Mine, Narrow, Landing, Applying, Writing, Journal, Restoration,
     Outcome, Teardown, Evidence
<1>12. QED
  BY <1>7, <1>8, <1>11 DEF IInv, Locking, Counting

\* Nothing that the invariant is about changes.
LEMMA AsideInv ==
  ASSUME IInv, TypeOK', UNCHANGED <<governed, apim, pub, plan, lock, run, w, keyjob, inflight>>
  PROVE  IInv'
BY DEF IInv, TypeOK, Locking, Counting, GInv, Mine, Narrow, Landing, Harmless, Applying, Writing,
   Journal, Restoration, Outcome, Teardown, Evidence, Reviewed, Past, Fragment, Stage, Stages,
   Candidate

\* With no worker, what is left of the invariant is about the gateway and the records.
LEMMA RestInv ==
  ASSUME IInv, TypeOK', UNCHANGED <<governed, w>>, w.pc = "idle", Locking',
         governed => (GateOK(apim) /\ Mine /\ Narrow /\ Landing)'
  PROVE  IInv'
BY DEF IInv, Counting, GInv, Applying, Writing, Journal, Restoration, Outcome, Teardown

LEMMA ChangeGrantsInv ==
  ASSUME IInv, NEW g \in Grants, NEW to \in {"on", "off", "revoked"}, ChangeGrants(g, to)
  PROVE  IInv'
<1>1. edits' \in 0..MaxEdits /\ desired' \in [Grants -> {"on", "off", "revoked"}]
  BY BoundsAssumption DEF ChangeGrants, Edit, IInv, TypeOK
<1>2. TypeOK'
  BY <1>1 DEF ChangeGrants, IInv, TypeOK
<1>3. QED
  BY <1>2, AsideInv DEF ChangeGrants

LEMMA PlanUnpublishInv == ASSUME IInv, PlanUnpublish PROVE IInv'
<1>1. teardown' \in Plans
  BY NoAccessType DEF PlanUnpublish, NoPlan, Plans, Publications, IInv, TypeOK
<1>2. TypeOK'
  BY <1>1 DEF PlanUnpublish, IInv, TypeOK
<1>3. QED
  BY <1>2, AsideInv DEF PlanUnpublish

\* What a customer creates serves nobody.
LEMMA CustomerCreatesInv == ASSUME IInv, NEW t \in Parts, CustomerCreates(t) PROVE IInv'
<1> USE DEF CustomerCreates
<1>0. t \in Things /\ t \in {"backend", "fragment", "api"} /\ "theirs" \in Contents
  BY PartsAreThings, CustomersAssumption DEF Contents
<1>1. /\ apim' \in Gateways /\ apim'.rules = apim.rules
      /\ \A x \in Things : apim'.at[x] = IF x = t THEN "theirs" ELSE apim.at[x]
  BY <1>0 DEF Gateways, IInv, TypeOK
<1>2. edits' \in 0..MaxEdits
  BY BoundsAssumption DEF Edit, IInv, TypeOK
<1>3. TypeOK'
  BY <1>1, <1>2 DEF IInv, TypeOK
<1>4. w = Idle /\ w.pc = "idle" /\ w.owned = {} /\ w.steps = {}
  BY DEF IInv, Locking, Idle
<1>5. ASSUME governed
      PROVE  (GateOK(apim) /\ Mine /\ Narrow /\ Landing)'
  <2>0. GateOK(apim) /\ Mine /\ Narrow /\ apim \in Gateways
    BY <1>5 DEF IInv, GInv, TypeOK
  <2>1. /\ apim'.at["policy"] = apim.at["policy"]
        /\ apim'.at["api"] = IF t = "api" THEN "theirs" ELSE apim.at["api"]
        /\ apim'.at["fragment"] = IF t = "fragment" THEN "theirs" ELSE apim.at["fragment"]
        /\ apim.at[t] = "absent"
    BY <1>0, <1>1 DEF Parts, Things, Exists
  <2>2. GateOK(apim')
    BY <2>0, <2>1 DEF GateOK
  <2>3. Exposed(apim') => Exposed(apim)
    BY <2>1 DEF Exposed
  <2>4. Admits(apim') \subseteq Admits(apim)
    <3>1. Admits(apim') = IF apim'.at["policy"] = "access" /\ apim'.at["fragment"] = "access"
                          THEN apim'.rules ELSE {}
      BY <1>1, <2>2, WhoIsAdmitted
    <3>2. Admits(apim) = IF apim.at["policy"] = "access" /\ apim.at["fragment"] = "access"
                         THEN apim.rules ELSE {}
      BY <2>0, WhoIsAdmitted
    <3>3. QED
      BY <1>1, <2>1, <3>1, <3>2
  <2>5. Mine'
    BY <1>4, <2>0, <2>1, <2>3 DEF Mine, Evidence
  <2>6. Narrow'
    BY <2>0, <2>4 DEF Narrow, Reviewed
  <2>7. Landing'
    BY DEF Landing
  <2>8. QED
    BY <2>2, <2>5, <2>6, <2>7
<1>6. Locking'
  BY DEF IInv, Locking
<1>7. QED
  BY <1>3, <1>4, <1>5, <1>6, RestInv

\* Plans and statuses may change while the lock is free.
LEMMA FreeInv ==
  ASSUME IInv, TypeOK', UNCHANGED <<governed, apim, lock, w, keyjob, inflight>>,
         lock = "none", pub'.applied = pub.applied, pub'.owned = pub.owned
  PROVE  IInv'
<1>1. w.pc = "idle" /\ inflight = {} /\ Locking'
  BY DEF IInv, Locking
<1>2. ASSUME governed
      PROVE  (GateOK(apim) /\ Mine /\ Narrow /\ Landing)'
  BY <1>1, <1>2 DEF IInv, GInv, Mine, Narrow, Landing, Evidence, Reviewed
<1>3. QED
  BY <1>1, <1>2, RestInv

LEMMA UpdateInv == ASSUME IInv, Update PROVE IInv'
<1>1. edits' \in 0..MaxEdits
  BY BoundsAssumption DEF Update, Edit, IInv, TypeOK
<1>2. pub' \in Publications /\ pub'.applied = pub.applied /\ pub'.owned = pub.owned
  BY DEF Update, Publications, IInv, TypeOK
<1>3. plan' \in Plans
  BY NoAccessType DEF Update, NoPlan, Plans
<1>4. TypeOK'
  BY <1>1, <1>2, <1>3 DEF Update, IInv, TypeOK
<1>5. QED
  BY <1>2, <1>4, FreeInv DEF Update, Unlocked

LEMMA DeleteInv == ASSUME IInv, Delete PROVE IInv'
<1>1. pub' \in Publications /\ pub'.applied = pub.applied /\ pub'.owned = pub.owned
  BY DEF Delete, Publications, IInv, TypeOK
<1>2. TypeOK'
  BY <1>1 DEF Delete, IInv, TypeOK
<1>3. QED
  BY <1>1, <1>2, FreeInv DEF Delete, Unlocked

LEMMA PlanInv == ASSUME IInv, Plan PROVE IInv'
<1>1. pub' \in Publications /\ pub'.applied = pub.applied /\ pub'.owned = pub.owned
  BY DEF Plan, Publications, IInv, TypeOK
<1>2. plan' \in Plans
  <2>1. AccessSnapshot \in Snapshots
    BY SnapshotType DEF IInv, TypeOK
  <2>2. pub.applied \in Snapshots /\ pub.owned \in SUBSET Things
    BY DEF Publications, IInv, TypeOK
  <2>3. QED
    BY <2>1, <2>2 DEF Plan, Plans
<1>3. TypeOK'
  BY <1>1, <1>2 DEF Plan, IInv, TypeOK
<1>4. QED
  BY <1>1, <1>3, FreeInv DEF Plan, Unlocked

LEMMA ReapInv == ASSUME IInv, Reap PROVE IInv'
<1>1. pub' \in Publications /\ pub'.applied = pub.applied /\ pub'.owned = pub.owned
  BY DEF Reap, Publications, IInv, TypeOK
<1>2. run' \in RunRecords
  BY DEF Reap, RunRecords, IInv, TypeOK
<1>3. TypeOK'
  BY <1>1, <1>2 DEF Reap, IInv, TypeOK
<1>4. QED
  BY <1>1, <1>3, FreeInv DEF Reap

-----------------------------------------------------------------------------
(* A key change under its own lock.                                        *)

\* The lock is not a run's, and API, policy and fragment stay as they are.
LEMMA MutationInv ==
  ASSUME IInv, TypeOK', UNCHANGED <<governed, plan, run, w>>, Locking',
         lock # "run", lock' # "run", pub'.applied = pub.applied,
         "api" \in pub'.owned <=> "api" \in pub.owned,
         apim' \in Gateways, apim'.rules = apim.rules,
         \A p \in {"api", "policy", "fragment"} : apim'.at[p] = apim.at[p],
         \A f \in inflight' : f \in inflight \/ f.e.thing \in Grants
  PROVE  IInv'
<1>1. w = Idle /\ w.pc = "idle" /\ w.owned = {} /\ w.steps = {}
  BY DEF IInv, Locking, Idle
<1>2. ASSUME governed
      PROVE  (GateOK(apim) /\ Mine /\ Narrow /\ Landing)'
  <2>0. GateOK(apim) /\ Mine /\ Narrow /\ Landing /\ apim \in Gateways
    BY <1>2 DEF IInv, GInv, TypeOK
  <2>1. GateOK(apim') /\ (Exposed(apim') => Exposed(apim)) /\ Admits(apim') = Admits(apim)
    BY <2>0, SameFace
  <2>2. Mine'
    BY <1>1, <2>0, <2>1 DEF Mine, Evidence
  <2>3. Narrow'
    BY <2>0, <2>1 DEF Narrow, Reviewed
  <2>4. ASSUME NEW f \in inflight' PROVE Harmless(f.e, f.rules)'
    <3>1. CASE f \in inflight
      BY <2>0, <3>1 DEF Landing, Harmless, Reviewed, Evidence
    <3>2. CASE f.e.thing \in Grants
      BY <3>2, PartsAreThings DEF Harmless
    <3>3. QED
      BY <3>1, <3>2
  <2>5. QED
    BY <2>1, <2>2, <2>3, <2>4 DEF Landing
<1>3. QED
  BY <1>1, <1>2, RestInv

LEMMA BeginKeyInv ==
  ASSUME IInv, NEW g \in Grants, NEW op \in {"create", "delete"}, BeginKey(g, op)
  PROVE  IInv'
<1> USE DEF BeginKey
<1>0. lock = "none" /\ w.pc = "idle" /\ inflight = {} /\ g \in Things /\ g # "api"
  BY PartsAreThings DEF Unlocked, IInv, Locking
<1>1. edits' \in 0..MaxEdits
  BY BoundsAssumption DEF Edit, IInv, TypeOK
<1>2. /\ pub' \in Publications /\ pub'.applied = pub.applied
      /\ "api" \in pub'.owned <=> "api" \in pub.owned
  <2>1. CASE pub' = [pub EXCEPT !.owned = @ \union {g}]
    BY <1>0, <2>1 DEF Publications, IInv, TypeOK
  <2>2. CASE pub' = pub
    BY <2>2 DEF IInv, TypeOK
  <2>3. QED
    BY <2>1, <2>2
<1>3. keyjob' \in KeyJobs /\ keyjob'.pc = "write"
  BY DEF KeyJobs
<1>4. TypeOK'
  BY <1>1, <1>2, <1>3 DEF IInv, TypeOK
<1>5. Locking'
  BY <1>0, <1>3 DEF IInv, Locking
<1>6. QED
  BY <1>0, <1>2, <1>4, <1>5, MutationInv DEF IInv, TypeOK

\* What a key change writes leaves the rest of the gateway as it is.
LEMMA KeyLands ==
  ASSUME IInv, keyjob.pc = "write", keyjob.grant \in Grants
  PROVE  /\ KeyEffect \in Effects /\ KeyEffect.thing = keyjob.grant
         /\ LET b == Landed(apim, KeyEffect, {})
            IN /\ b \in Gateways /\ b.rules = apim.rules
               /\ \A p \in {"api", "policy", "fragment"} : b.at[p] = apim.at[p]
<1>1. keyjob.grant \in Things
      /\ \A p \in {"api", "policy", "fragment"} : keyjob.grant # p /\ p \in Things
  BY PartsAreThings DEF Parts
<1>2. KeyEffect \in Effects /\ KeyEffect.thing = keyjob.grant /\ KeyEffect.to \in Contents
  BY <1>1 DEF KeyEffect, Effect, Effects, Contents
<1>3. apim \in Gateways /\ {} \in SUBSET Grants
  BY DEF IInv, TypeOK
<1> HIDE DEF KeyEffect
<1>4. QED
  BY <1>1, <1>2, <1>3, LandedDoes

LEMMA WriteKeyInv == ASSUME IInv, WriteKey PROVE IInv'
<1> USE DEF WriteKey
<1> DEFINE g == keyjob.grant
<1>0. keyjob.pc = "write" /\ g \in Grants /\ lock = "mutation" /\ inflight = {} /\ g # "api"
  BY PartsAreThings DEF IInv, Locking
<1>1. apim' \in {apim, Landed(apim, KeyEffect, {})}
  OBVIOUS
<1>2. /\ apim' \in Gateways /\ apim'.rules = apim.rules
      /\ \A p \in {"api", "policy", "fragment"} : apim'.at[p] = apim.at[p]
  BY <1>0, <1>1, KeyLands DEF IInv, TypeOK
<1>3. /\ pub' \in Publications /\ pub'.applied = pub.applied
      /\ "api" \in pub'.owned <=> "api" \in pub.owned
  <2>1. CASE pub' = [pub EXCEPT !.owned = @ \ {g}]
    BY <1>0, <2>1 DEF Publications, IInv, TypeOK
  <2>2. CASE pub' = pub
    BY <2>2 DEF IInv, TypeOK
  <2>3. QED
    BY <2>1, <2>2
<1>4. faults' \in 0..MaxFaults /\ keyjob' \in KeyJobs /\ keyjob'.pc = "idle"
  BY BoundsAssumption DEF Fault, NoJob, KeyJobs, IInv, TypeOK
<1>5. TypeOK'
  BY <1>2, <1>3, <1>4 DEF IInv, TypeOK
<1>6. Locking'
  BY <1>0, <1>4 DEF IInv, Locking
<1>7. QED
  BY <1>0, <1>2, <1>3, <1>5, <1>6, MutationInv

LEMMA StopKeyInv == ASSUME IInv, StopKey PROVE IInv'
<1> USE DEF StopKey
<1>0. keyjob.pc = "write" /\ keyjob.grant \in Grants /\ lock = "mutation" /\ inflight = {}
  BY DEF IInv, Locking
<1>1. apim' \in {apim, Landed(apim, KeyEffect, {})}
  OBVIOUS
<1>2. /\ apim' \in Gateways /\ apim'.rules = apim.rules
      /\ \A p \in {"api", "policy", "fragment"} : apim'.at[p] = apim.at[p]
  BY <1>0, <1>1, KeyLands DEF IInv, TypeOK
<1>3. faults' \in 0..MaxFaults /\ keyjob' \in KeyJobs /\ keyjob'.pc = "idle"
  BY BoundsAssumption DEF Fault, NoJob, KeyJobs, IInv, TypeOK
<1>4. \A f \in inflight' : f \in [e : Effects, rules : SUBSET Grants] /\ f.e.thing \in Grants
  <2>1. inflight' \subseteq {[e |-> KeyEffect, rules |-> {}]}
    BY <1>0
  <2>2. KeyEffect \in Effects /\ KeyEffect.thing \in Grants
    BY <1>0, KeyLands
  <2> HIDE DEF KeyEffect
  <2>3. QED
    BY <2>1, <2>2
<1>5. TypeOK'
  BY <1>2, <1>3, <1>4 DEF IInv, TypeOK
<1>6. w.pc = "idle"
  BY <1>0 DEF IInv, Locking
<1>7. Locking'
  BY <1>0, <1>3, <1>4, <1>6 DEF IInv, Locking
<1>8. QED
  BY <1>0, <1>2, <1>4, <1>5, <1>7, MutationInv

LEMMA RecoverMutationInv == ASSUME IInv, RecoverMutation PROVE IInv'
<1> USE DEF RecoverMutation, Quiesced
<1>1. plan' \in Plans
  BY NoAccessType DEF NoPlan, Plans
<1>2. TypeOK'
  BY <1>1 DEF IInv, TypeOK
<1>3. Locking'
  BY DEF IInv, Locking
<1>4. ASSUME governed
      PROVE  (GateOK(apim) /\ Mine /\ Narrow /\ Landing)'
  BY <1>4 DEF IInv, GInv, Mine, Narrow, Landing, Evidence, Reviewed
<1>5. QED
  BY <1>2, <1>3, <1>4, RestInv

-----------------------------------------------------------------------------
(* What was left in flight ends.                                           *)

\* A harmless write keeps the gateway as it should be, and no wider than what was reviewed.
LEMMA HarmlessLands ==
  ASSUME IInv, governed, NEW e \in Effects, NEW rules \in SUBSET Grants, Harmless(e, rules)
  PROVE  LET b == Landed(apim, e, rules)
         IN /\ b \in Gateways /\ GateOK(b) /\ Admits(b) \subseteq Reviewed
            /\ Exposed(b) => "api" \in Evidence
            /\ b.at["api"] = "theirs" => apim.at["api"] = "theirs"
<1> DEFINE b == Landed(apim, e, rules)
<1>0. /\ apim \in Gateways /\ GateOK(apim) /\ Mine /\ Narrow
      /\ e.thing \in Things /\ e.to \in Contents
      /\ "api" \in Things /\ "policy" \in Things /\ "fragment" \in Things
  BY DEF IInv, TypeOK, GInv, Effects, Parts, Things
<1>1. /\ b \in Gateways
      /\ \A x \in Things : b.at[x] =
           IF x = e.thing THEN e.to
           ELSE IF e.to = "absent" /\ e.thing = "api" /\ x = "policy" THEN "absent" ELSE apim.at[x]
      /\ b.rules = IF e.thing # "fragment" THEN apim.rules
                   ELSE IF e.to = "absent" THEN {} ELSE rules
  BY <1>0, LandedDoes
<1> HIDE DEF b
<1>2. Admits(apim) \subseteq Reviewed /\ Admits(apim) =
        IF apim.at["policy"] = "access" /\ apim.at["fragment"] = "access" THEN apim.rules ELSE {}
  BY <1>0, WhoIsAdmitted DEF Narrow
<1>3. GateOK(b) => Admits(b) = IF b.at["policy"] = "access" /\ b.at["fragment"] = "access"
                               THEN b.rules ELSE {}
  BY <1>1, WhoIsAdmitted
<1>4. Exposed(apim) => "api" \in Evidence
  BY <1>0 DEF Mine
<1>5. CASE e.thing = "api"
  <2>1. /\ b.at["api"] = e.to /\ b.at["fragment"] = apim.at["fragment"] /\ b.rules = apim.rules
        /\ b.at["policy"] = IF e.to = "absent" THEN "absent" ELSE apim.at["policy"]
    BY <1>0, <1>1, <1>5
  <2>2. e.to \in {"absent", "keyed", "open"}
        /\ (e.to = "open" => "api" \in Evidence /\ apim.at["policy"] # "absent")
    BY <1>5 DEF Harmless
  <2>3. GateOK(b) /\ (Exposed(b) => "api" \in Evidence)
    BY <1>0, <1>4, <2>1, <2>2 DEF GateOK, Exposed
  <2>4. QED
    BY <1>1, <1>2, <1>3, <2>1, <2>2, <2>3 DEF b
<1>6. CASE e.thing = "policy"
  <2>1. /\ b.at["policy"] = e.to /\ b.at["fragment"] = apim.at["fragment"] /\ b.rules = apim.rules
        /\ b.at["api"] = apim.at["api"]
    BY <1>0, <1>1, <1>6
  <2>2. \/ e.to = "deny"
        \/ /\ e.to = "access"
           /\ apim.at["api"] \in {"keyed", "open"} /\ "api" \in Evidence
           /\ apim.at["fragment"] = "access" => apim.rules \subseteq Reviewed
        \/ e.to = "absent" /\ apim.at["api"] # "open"
    BY <1>6 DEF Harmless
  <2>3. GateOK(b) /\ (Exposed(b) => "api" \in Evidence)
    BY <1>0, <1>4, <2>1, <2>2 DEF GateOK, Exposed
  <2>4. Admits(b) \subseteq Reviewed
    BY <1>2, <1>3, <2>1, <2>2, <2>3
  <2>5. QED
    BY <1>1, <2>1, <2>3, <2>4 DEF b
<1>7. CASE e.thing \notin {"api", "policy"}
  <2>1. /\ b.at["policy"] = apim.at["policy"] /\ b.at["api"] = apim.at["api"]
        /\ IF e.thing = "fragment"
           THEN b.rules \subseteq Reviewed
           ELSE b.at["fragment"] = apim.at["fragment"] /\ b.rules = apim.rules
    BY <1>0, <1>1, <1>7 DEF Harmless
  <2>2. GateOK(b) /\ (Exposed(b) => "api" \in Evidence)
    BY <1>0, <1>4, <2>1 DEF GateOK, Exposed
  <2>3. Admits(b) \subseteq Reviewed
    BY <1>2, <1>3, <2>1, <2>2
  <2>4. QED
    BY <1>1, <2>1, <2>2, <2>3 DEF b
<1>8. QED
  BY <1>5, <1>6, <1>7

LEMMA LandInv == ASSUME IInv, Land PROVE IInv'
<1>0. PICK f \in inflight :
        /\ apim' \in {apim, Landed(apim, f.e, f.rules)}
        /\ inflight' = {}
        /\ UNCHANGED <<governed, desired, pub, plan, teardown, lock, run, w, keyjob,
                       runs, edits, faults, left>>
  BY DEF Land
<1>1. /\ f.e \in Effects /\ f.rules \in SUBSET Grants
      /\ lock # "none" /\ w.pc = "idle" /\ keyjob.pc = "idle"
      /\ w.owned = {} /\ w.steps = {}
  BY DEF IInv, TypeOK, Locking, Idle
<1>2. apim' \in Gateways
  <2>1. apim \in Gateways
    BY DEF IInv, TypeOK
  <2>2. Landed(apim, f.e, f.rules) \in Gateways
    BY <1>1, <2>1, LandedDoes
  <2>3. QED
    BY <1>0, <2>1, <2>2
<1>3. TypeOK' /\ Locking'
  BY <1>0, <1>1, <1>2 DEF IInv, TypeOK, Locking
<1>4. ASSUME governed
      PROVE  (GateOK(apim) /\ Mine /\ Narrow /\ Landing)'
  <2>0. GateOK(apim) /\ Mine /\ Narrow /\ Landing
    BY <1>4 DEF IInv, GInv
  <2>1. Harmless(f.e, f.rules)
    BY <2>0 DEF Landing
  <2>2. /\ GateOK(apim') /\ Admits(apim') \subseteq Reviewed
        /\ Exposed(apim') => "api" \in Evidence
        /\ apim'.at["api"] = "theirs" => apim.at["api"] = "theirs"
    BY <1>0, <1>1, <1>4, <2>0, <2>1, HarmlessLands DEF Mine, Narrow
  <2>3. Mine'
    BY <1>0, <1>1, <2>0, <2>2 DEF Mine, Evidence
  <2>4. lock # "run" => Admits(apim') = Admits(apim)
    <3>1. SUFFICES ASSUME lock # "run" PROVE Admits(apim') = Admits(apim)
      OBVIOUS
    <3>2. f.e.thing \in Grants
      BY <1>1, <3>1 DEF IInv, TypeOK, Locking
    <3>3. /\ f.e.thing \in Things /\ f.e.to \in Contents /\ apim \in Gateways
          /\ \A p \in {"api", "policy", "fragment"} : f.e.thing # p /\ p \in Things
      BY <1>1, <3>2, PartsAreThings DEF Effects, IInv, TypeOK, Parts
    <3>4. /\ Landed(apim, f.e, f.rules).rules = apim.rules
          /\ \A p \in {"api", "policy", "fragment"} :
               Landed(apim, f.e, f.rules).at[p] = apim.at[p]
      BY <1>1, <3>3, LandedDoes
    <3>5. /\ apim'.rules = apim.rules
          /\ \A p \in {"api", "policy", "fragment"} : apim'.at[p] = apim.at[p]
      BY <1>0, <3>4
    <3>6. QED
      BY <1>2, <3>3, <3>5, SameFace
  <2>5. Narrow'
    BY <1>0, <2>0, <2>2, <2>4 DEF Narrow, Reviewed
  <2>6. Landing'
    BY <1>0 DEF Landing
  <2>7. QED
    BY <2>2, <2>3, <2>5, <2>6
<1>5. QED
  BY <1>0, <1>1, <1>3, <1>4, RestInv

-----------------------------------------------------------------------------
(* Claiming the lock.                                                      *)

\* A worker starts from what the record says, with nothing of its own yet.
LEMMA ClaimInv ==
  ASSUME IInv, Unlocked, NEW kind \in {"publish", "unpublish"}, NEW target \in Snapshots,
         NEW v \in Workers, Claimed(kind, target, v),
         UNCHANGED <<governed, desired, apim, plan, teardown, keyjob, inflight, edits>>,
         v.pc \in {"step", "guard", "remove"}, v.pc = "guard" => governed,
         v.pc = "remove" => ~governed,
         v.i = 0, v.pc = "step" => v.todo = {}, v.pc = "guard" => v.todo = v.owned,
         v.owned = pub.owned, v.steps = {}, ~v.denied, ~v.restored
  PROVE  IInv'
<1> USE DEF Claimed, Unlocked
<1>1. pub' \in Publications /\ pub'.applied = pub.applied /\ pub'.owned = pub.owned
  <2> DEFINE claimed == [pub EXCEPT !.status = "applying",
                                    !.access = IF governed THEN "applying" ELSE @]
  <2>1. pub \in Publications
    BY DEF IInv, TypeOK
  <2>2. claimed \in Publications /\ claimed.applied = pub.applied /\ claimed.owned = pub.owned
    BY <2>1 DEF Publications
  <2>3. pub' \in {pub, claimed}
    OBVIOUS
  <2>4. QED
    BY <2>1, <2>2, <2>3
<1>2. run' \in RunRecords /\ run'.steps = {}
  BY DEF RunRecords
<1>3. runs' \in 0..MaxRuns /\ faults' \in 0..MaxFaults /\ left' \subseteq Things
  BY BoundsAssumption DEF Fault, IInv, TypeOK, Gateways
<1>4. w' \in {w, v} /\ lock' \in {"none", "run"} /\ (lock' = "run" <=> w' = v)
      /\ (w' = w \/ lock' = "run")
  <2>1. w.pc = "idle"
    BY DEF IInv, Locking
  <2>2. QED
    BY <2>1
<1>5. TypeOK'
  BY <1>1, <1>2, <1>3, <1>4 DEF IInv, TypeOK
<1>6. CASE w' = w /\ lock' = lock
  BY <1>1, <1>5, <1>6, FreeInv
<1>7. CASE w' = v /\ lock' = "run"
  <2>0. inflight = {} /\ keyjob.pc = "idle" /\ inflight' = {} /\ keyjob'.pc = "idle"
    BY DEF IInv, Locking
  <2>1. Locking'
    BY <1>7, <2>0 DEF Locking
  <2>2. Counting'
    <3>1. Len(Stages) \in {4, 9}
      BY StagesNamed DEF IInv, TypeOK
    <3>2. Len(Stages)' = Len(Stages)
      BY DEF Stages
    <3>3. QED
      BY <1>7, <3>1, <3>2 DEF Counting
  <2>3. ASSUME governed PROVE GInv'
    <3>0. GateOK(apim) /\ Mine /\ Narrow
      BY <2>3 DEF IInv, GInv
    <3>1. Mine' /\ Narrow' /\ Landing'
      BY <1>1, <1>2, <1>7, <2>0, <3>0 DEF Mine, Narrow, Landing, Evidence, Reviewed
    <3>2. Applying' /\ Writing' /\ Journal'
      BY <1>1, <1>2, <1>7 DEF Applying, Writing, Journal, Past
    <3>3. Restoration' /\ Outcome' /\ Teardown'
      BY <1>7, <2>3 DEF Restoration, Outcome, Teardown
    <3>4. QED
      BY <3>0, <3>1, <3>2, <3>3 DEF GInv
  <2>4. QED
    BY <1>5, <2>1, <2>2, <2>3 DEF IInv
<1>8. QED
  BY <1>4, <1>6, <1>7

LEMMA BegunType ==
  ASSUME TypeOK, NEW pc \in {"step", "guard", "remove"}
  PROVE  /\ Begun(pc) \in Workers /\ Begun(pc).pc = pc /\ Begun(pc).i = 0
         /\ Begun(pc).todo = {} /\ Begun(pc).owned = pub.owned /\ Begun(pc).steps = {}
         /\ ~Begun(pc).denied /\ ~Begun(pc).restored
<1>1. pub.owned \in SUBSET Things
  BY DEF TypeOK, Publications
<1>2. QED
  BY <1>1, IdleType DEF Begun, Idle, Workers

LEMMA ApplyInv == ASSUME IInv, Apply PROVE IInv'
<1> DEFINE v == Begun("step")
<1>1. /\ v \in Workers /\ v.pc = "step" /\ v.i = 0 /\ v.todo = {} /\ v.owned = pub.owned
      /\ v.steps = {} /\ ~v.denied /\ ~v.restored
  BY BegunType DEF IInv
<1>2. plan.target \in Snapshots
  BY DEF IInv, TypeOK, Plans
<1>3. /\ Unlocked /\ Claimed("publish", plan.target, v)
      /\ UNCHANGED <<governed, desired, apim, plan, teardown, keyjob, inflight, edits>>
  BY DEF Apply
<1> HIDE DEF v
<1>4. QED
  BY <1>1, <1>2, <1>3, ClaimInv

LEMMA UnpublishInv == ASSUME IInv, Unpublish PROVE IInv'
<1> DEFINE pc == IF governed THEN "guard" ELSE "remove"
           v  == [Begun(pc) EXCEPT !.todo = pub.owned]
<1>0. pub.applied \in Snapshots /\ pub.owned \in SUBSET Things
      /\ pc \in {"step", "guard", "remove"}
  BY DEF IInv, TypeOK, Publications
<1>1. /\ v \in Workers /\ v.pc = pc /\ v.i = 0 /\ v.todo = pub.owned /\ v.owned = pub.owned
      /\ v.steps = {} /\ ~v.denied /\ ~v.restored
  <2> HIDE DEF pc
  <2> DEFINE b == Begun(pc)
  <2>1. /\ b \in Workers /\ b.pc = pc /\ b.i = 0 /\ b.owned = pub.owned
        /\ b.steps = {} /\ ~b.denied /\ ~b.restored
    BY <1>0, BegunType DEF IInv
  <2> HIDE DEF b
  <2>2. v = [b EXCEPT !.todo = pub.owned]
    BY DEF b
  <2>3. QED
    BY <1>0, <2>1, <2>2 DEF Workers
<1>2. /\ Unlocked /\ Claimed("unpublish", pub.applied, v)
      /\ UNCHANGED <<governed, desired, apim, plan, teardown, keyjob, inflight, edits>>
  BY DEF Unpublish
<1>3. (v.pc = "guard" => governed) /\ (v.pc = "remove" => ~governed)
      /\ v.pc \in {"guard", "remove"}
  BY <1>1
<1> HIDE DEF v, pc
<1>4. QED
  BY <1>0, <1>1, <1>2, <1>3, ClaimInv

-----------------------------------------------------------------------------
(* Recovery.                                                               *)

LEMMA RecoveredIs ==
  ASSUME IInv, lock = "run"
  PROVE  /\ Recovered \in SUBSET Things /\ pub.owned \subseteq Recovered
         /\ Recovered \subseteq Evidence
         /\ governed /\ Exposed(apim) => "api" \in Recovered
<1>1. pub.owned \in SUBSET Things /\ run.steps \in SUBSET Things
  BY DEF IInv, TypeOK, Publications, RunRecords
<1>2. Recovered \in SUBSET Things /\ pub.owned \subseteq Recovered /\ Recovered \subseteq Evidence
  BY <1>1 DEF Recovered, Evidence
<1>3. ASSUME governed, Exposed(apim) PROVE "api" \in Recovered
  <2>1. Exists(apim, "api")
    BY <1>3 DEF IInv, GInv, GateOK, Exposed, Exists
  <2>2. "api" \in Evidence
    BY <1>3 DEF IInv, GInv, Mine
  <2>3. QED
    BY <2>1, <2>2 DEF Evidence, Recovered
<1>4. QED
  BY <1>2, <1>3

LEMMA RecoverFailsInv == ASSUME IInv, RecoverFails PROVE IInv'
<1> USE DEF RecoverFails, Quiesced
<1>0. lock = "run" /\ w.pc = "idle" /\ inflight = {} /\ w = Idle /\ w.owned = {} /\ w.steps = {}
  BY DEF IInv, Locking, Idle
<1>1. run' \in RunRecords /\ run'.steps = run.steps
  BY DEF RunRecords, IInv, TypeOK
<1>2. faults' \in 0..MaxFaults
  BY BoundsAssumption DEF Fault, IInv, TypeOK
<1>3. \A owned \in SUBSET Things :
        /\ pub \in Publications /\ Interrupted \in Publications
        /\ Interrupted.owned = pub.owned /\ Interrupted.applied = pub.applied
        /\ [Interrupted EXCEPT !.owned = owned] \in Publications
        /\ [Interrupted EXCEPT !.owned = owned].owned = owned
        /\ [Interrupted EXCEPT !.owned = owned].applied = pub.applied
  BY DEF IInv, TypeOK, Interrupted, Publications
<1>4. CASE ~governed
  <2>1. TypeOK'
    BY <1>1, <1>2, <1>4 DEF IInv, TypeOK
  <2>2. Locking'
    BY <1>0 DEF IInv, Locking
  <2>3. QED
    BY <1>0, <1>4, <2>1, <2>2, RestInv
<1>5. CASE governed
  <2>0. /\ apim \in Gateways /\ GateOK(apim) /\ Mine /\ Narrow
        /\ Recovered \in SUBSET Things /\ pub.owned \subseteq Recovered
        /\ Recovered \subseteq Evidence /\ (Exposed(apim) => "api" \in Recovered)
    BY <1>0, <1>5, RecoveredIs DEF IInv, GInv, TypeOK
  <2>1. PICK o \in {Guarded(apim, Recovered)} \union GuardFails(apim, Recovered) :
        \E keys \in SUBSET Keys(Recovered) :
          /\ apim' = Suspended(o.apim, keys)
          /\ pub' \in {pub, Interrupted, [Interrupted EXCEPT !.owned = o.owned]}
    BY <1>5
  <2>2. PICK keys \in SUBSET Keys(Recovered) :
          /\ apim' = Suspended(o.apim, keys)
          /\ pub' \in {pub, Interrupted, [Interrupted EXCEPT !.owned = o.owned]}
    BY <2>1
  <2>3. /\ o.apim \in Gateways /\ Recovered \subseteq o.owned
        /\ o.owned \subseteq Recovered \union {"policy"} /\ o.owned \in SUBSET Things
    BY <2>0, GuardType
  <2>4. /\ GateOK(apim') /\ apim'.at["api"] = apim.at["api"]
        /\ Exposed(apim') => Exposed(apim)
        /\ Admits(apim') \subseteq Admits(apim)
    BY <2>0, <2>2, Denial
  <2>5. apim' \in Gateways
    <3>1. keys \in SUBSET Grants
      BY DEF Keys
    <3>2. QED
      BY <2>2, <2>3, <3>1, SuspendedDoes
  <2>6. pub' \in Publications /\ pub'.applied = pub.applied /\ pub'.owned \in {pub.owned, o.owned}
    BY <1>3, <2>2, <2>3
  <2>7. TypeOK'
    BY <1>1, <1>2, <2>5, <2>6 DEF IInv, TypeOK
  <2>8. Locking'
    BY <1>0 DEF IInv, Locking
  <2>9. "api" \in Evidence' <=> "api" \in Evidence
    BY <1>0, <1>1, <2>0, <2>3, <2>6 DEF Evidence
  <2>10. Mine'
    BY <1>0, <2>0, <2>4, <2>9 DEF Mine
  <2>11. Narrow'
    BY <1>0, <2>0, <2>4, <2>6 DEF Narrow, Reviewed
  <2>12. Landing'
    BY <1>0 DEF Landing
  <2>13. QED
    BY <1>0, <2>4, <2>7, <2>8, <2>10, <2>11, <2>12, RestInv
<1>6. QED
  BY <1>4, <1>5

LEMMA RecoverInv == ASSUME IInv, Recover PROVE IInv'
<1> USE DEF Quiesced
<1>0. /\ lock = "run" /\ lock' = "none" /\ w.pc = "idle" /\ inflight = {} /\ w = Idle
      /\ w.owned = {} /\ w.steps = {} /\ keyjob.pc = "idle"
      /\ UNCHANGED <<governed, desired, plan, teardown, w, keyjob, inflight, runs, edits, faults,
                     left>>
  BY DEF Recover, IInv, Locking, Idle
<1> DEFINE clean == Guarded(apim, Recovered)
           o == IF governed THEN clean ELSE [apim |-> apim, owned |-> Recovered, denied |-> TRUE]
           denied == [Denied(run.target) EXCEPT
                        !.ver = 1 + IF @ > pub.applied.ver THEN @ ELSE pub.applied.ver]
           applied == IF ~governed \/ run.target.ver = 0 THEN pub.applied ELSE denied
<1>1. /\ apim' = IF governed THEN Suspended(o.apim, Keys(Recovered)) ELSE apim
      /\ pub' = [pub EXCEPT !.status = "failed", !.owned = o.owned,
                            !.access = IF governed THEN "failed" ELSE "pending",
                            !.applied = applied]
      /\ run' = [run EXCEPT !.status = "interrupted",
                            !.steps = @ \union (o.owned \ Recovered)]
  BY DEF Recover
<1>2. /\ apim \in Gateways /\ pub \in Publications /\ pub.applied \in Snapshots
      /\ run \in RunRecords /\ run.target \in Snapshots
      /\ Recovered \in SUBSET Things /\ pub.owned \subseteq Recovered
      /\ Recovered \subseteq Evidence /\ (governed /\ Exposed(apim) => "api" \in Recovered)
  BY <1>0, RecoveredIs DEF IInv, TypeOK, Publications, RunRecords
<1>3. applied \in Snapshots
  <2>1. Denied(run.target) \in Snapshots
    BY <1>2, DeniedType
  <2>2. Denied(run.target).ver \in Nat /\ pub.applied.ver \in Nat
    BY <1>2, <2>1 DEF Snapshots
  <2>3. denied \in Snapshots
    BY <2>1, <2>2 DEF Snapshots
  <2>4. QED
    BY <1>2, <2>3
<1>4. /\ o.apim \in Gateways /\ Recovered \subseteq o.owned
      /\ o.owned \subseteq Recovered \union {"policy"} /\ o.owned \in SUBSET Things
  <2>1. CASE governed
    <3>1. clean \in {Guarded(apim, Recovered)} \union GuardFails(apim, Recovered)
      OBVIOUS
    <3>2. QED
      BY <1>2, <2>1, <3>1, GuardType
  <2>2. CASE ~governed
    BY <1>2, <2>2
  <2>3. QED
    BY <2>1, <2>2
<1>5. apim' \in Gateways
  BY <1>1, <1>2, <1>4, SuspendedDoes DEF Keys
<1> HIDE DEF applied, o
<1>6. pub' \in Publications /\ pub'.owned = o.owned
  BY <1>1, <1>2, <1>3, <1>4 DEF Publications
<1>7. run' \in RunRecords
  BY <1>1, <1>2, <1>4 DEF RunRecords
<1>8. TypeOK'
  BY <1>0, <1>5, <1>6, <1>7 DEF IInv, TypeOK
<1>9. Locking'
  BY <1>0 DEF Locking
<1>10. ASSUME governed PROVE (GateOK(apim) /\ Mine /\ Narrow /\ Landing)'
  <2>0. GateOK(apim) /\ Mine /\ (Exposed(apim) => "api" \in Recovered)
    BY <1>2, <1>10 DEF IInv, GInv
  <2>1. /\ clean \in {Guarded(apim, Recovered)} \union GuardFails(apim, Recovered)
        /\ clean.denied /\ Keys(Recovered) \in SUBSET Keys(Recovered)
        /\ apim' = Suspended(clean.apim, Keys(Recovered))
    BY <1>1, <1>10 DEF Guarded, o
  <2> HIDE DEF clean
  <2>2. /\ GateOK(apim') /\ apim'.at["api"] = apim.at["api"]
        /\ Exposed(apim') => Exposed(apim)
        /\ Admits(apim') = {}
    BY <1>2, <2>0, <2>1, Denial
  <2>3. Mine'
    BY <1>0, <1>2, <1>4, <1>6, <2>0, <2>2 DEF Mine, Evidence
  <2>4. Narrow' /\ Landing'
    BY <1>0, <2>2 DEF Narrow, Landing
  <2>5. QED
    BY <2>2, <2>3, <2>4
<1>11. QED
  BY <1>0, <1>8, <1>9, <1>10, RestInv

-----------------------------------------------------------------------------
(* Stopping.                                                               *)

\* Who is at work, and under what lock.
LEMMA AtWork ==
  ASSUME IInv, w.pc # "idle"
  PROVE  lock = "run" /\ inflight = {} /\ keyjob.pc = "idle"
BY DEF IInv, Locking

LEMMA EffectIs ==
  ASSUME NEW t \in Things, NEW c \in Contents
  PROVE  Effect(t, c) \in Effects /\ Effect(t, c).thing = t /\ Effect(t, c).to = c
BY DEF Effect, Effects

\* The write of an apply is of the stage's own.
LEMMA StageWrites ==
  ASSUME IInv, w.pc \in {"write", "record"}
  PROVE  /\ w.i \in 1..Len(Stages) /\ Content[Stage] \in Contents /\ w.thing \in Things
         /\ governed => w.i \in 1..9 /\ w.i # 4 /\ w.thing \in StageThings(w.i)
<1>1. w.i \in 0..Len(Stages) /\ w.i # 0 /\ Stage # "retire" /\ w.thing \in Things
  BY DEF IInv, TypeOK, Workers, Counting
<1>2. Len(Stages) \in {4, 9} /\ \A i \in 1..Len(Stages) : Stages[i] \in StageNames
  BY StagesNamed DEF IInv, TypeOK
<1>3. w.i \in 1..Len(Stages)
  BY <1>1, <1>2
<1>4. Content[Stage] \in Contents
  BY <1>1, <1>2, <1>3, ContentTyped DEF Stage
<1>5. ASSUME governed PROVE w.i \in 1..9 /\ w.i # 4 /\ w.thing \in StageThings(w.i)
  <2>1. w.i \in 1..9 /\ w.i # 4
    BY <1>1, <1>3, <1>5, GovernedStages DEF Stage
  <2>2. w.thing \in StageThings(w.i)
    BY <1>5 DEF IInv, GInv, Applying, Writing
  <2>3. QED
    BY <2>1, <2>2
<1>6. QED
  BY <1>1, <1>3, <1>4, <1>5

LEMMA RulesReviewed ==
  ASSUME IInv
  PROVE  /\ plan.target.on \in SUBSET Grants /\ Candidate.on \in SUBSET Grants
         /\ plan.target.on \subseteq Reviewed /\ Candidate.on \subseteq Reviewed
BY CandidateType DEF IInv, TypeOK, Plans, Snapshots, Reviewed

\* What is restored is what a restoration writes.
LEMMA RestoredTyped ==
  \A t \in Things : RestoredContent(t) \in {"access", "open", "keyed", "active"}
BY DEF RestoredContent

LEMMA SubmittedTyped ==
  ASSUME IInv, NEW e \in Submitted
  PROVE  e \in Effects /\ SubmittedRules \in SUBSET Grants
<1>0. /\ w.todo \in SUBSET Things /\ w.owned \in SUBSET Things /\ w.kept \in SUBSET Things
      /\ "policy" \in Things /\ Grants \subseteq Things
      /\ {"absent", "deny", "suspended", "access", "open", "keyed", "active"} \subseteq Contents
  BY DEF IInv, TypeOK, Workers, Parts, Things, Contents
<1>1. SubmittedRules \in SUBSET Grants
  BY RulesReviewed DEF SubmittedRules
<1>2. \E t \in Things, c \in Contents : e = Effect(t, c)
  <2>1. CASE w.pc = "write"
    BY <2>1, StageWrites DEF Submitted
  <2>2. CASE w.pc = "restore"
    BY <1>0, <2>2, RestoredTyped DEF Submitted
  <2>3. CASE w.pc = "step"
    BY <1>0, <2>3 DEF Submitted
  <2>4. CASE w.pc \in {"deny", "redeny", "guard"}
    BY <1>0, <2>4 DEF Submitted, Keys
  <2>5. CASE w.pc = "rollback"
    BY <1>0, <2>5 DEF Submitted, NextRemoved
  <2>6. CASE w.pc = "remove"
    BY <1>0, <2>6 DEF Submitted, NextRemoved
  <2>7. CASE w.pc \notin {"write", "restore", "step", "deny", "redeny", "guard", "rollback",
                          "remove"}
    BY <2>7 DEF Submitted
  <2>8. QED
    BY <2>1, <2>2, <2>3, <2>4, <2>5, <2>6, <2>7
<1>3. QED
  BY <1>1, <1>2, EffectIs

\* What makes a write of an apply harmless.
LEMMA WriteHarmless ==
  ASSUME IInv, governed, w.pc = "write"
  PROVE  Harmless(Effect(w.thing, Content[Stage]), plan.target.on)
<1> DEFINE e == Effect(w.thing, Content[Stage])
<1>0. /\ w.i \in {1, 2, 3, 5, 6, 7, 8, 9} /\ w.thing \in StageThings(w.i)
      /\ e.thing = w.thing /\ e.to = Content[Stage]
      /\ plan.target.on \subseteq Reviewed
  <2>1. w.i \in 1..9 /\ w.i # 4 /\ w.thing \in StageThings(w.i)
    BY StageWrites
  <2>2. e.thing = w.thing /\ e.to = Content[Stage]
    BY StageWrites, EffectIs
  <2>3. QED
    BY <2>1, <2>2, RulesReviewed
<1>1. /\ Past(3) => "api" \in w.owned /\ apim.at["api"] \in {"keyed", "open"}
      /\ Past(6) => Fragment(plan.target.on)
      /\ Past(7) => apim.at["policy"] = "access"
      /\ w.thing \in w.steps \union w.owned
      /\ "api" \in w.owned => "api" \in Evidence
  BY AtWork DEF IInv, GInv, Applying, Writing, Journal, Evidence
<1>2. "api" \in w.steps \union w.owned => apim.at["api"] # "theirs"
  BY DEF IInv, GInv, Mine
<1> HIDE DEF e
<1>3. CASE w.i \in {2, 5, 9}
  <2>1. w.thing \in Grants \union {"backend"}
    BY <1>0, <1>3 DEF StageThings
  <2>2. QED
    BY <1>0, <2>1, PartsAreThings DEF Harmless, e
<1>4. CASE w.i = 1
  <2>1. w.thing = "policy" /\ e.to = "deny"
    BY <1>0, <1>4, GovernedStages, ContentOfStage DEF StageThings, Stage
  <2>2. QED
    BY <1>0, <2>1 DEF Harmless, e
<1>5. CASE w.i = 3
  <2>1. w.thing = "api" /\ e.to = "keyed"
    BY <1>0, <1>5, GovernedStages, ContentOfStage DEF StageThings, Stage
  <2>2. QED
    BY <1>0, <1>1, <1>2, <2>1 DEF Harmless, e
<1>6. CASE w.i = 6
  <2>1. w.thing = "fragment" /\ e.to = "access"
    BY <1>0, <1>6, GovernedStages, ContentOfStage DEF StageThings, Stage
  <2>2. QED
    BY <1>0, <2>1 DEF Harmless, e
<1>7. CASE w.i = 7
  <2>1. w.thing = "policy" /\ e.to = "access"
    BY <1>0, <1>7, GovernedStages, ContentOfStage DEF StageThings, Stage
  <2>2. "api" \in Evidence /\ apim.at["api"] \in {"keyed", "open"} /\ apim.rules \subseteq Reviewed
    BY <1>0, <1>1, <1>7 DEF Past, Fragment
  <2>3. QED
    BY <1>0, <2>1, <2>2 DEF Harmless, e
<1>8. CASE w.i = 8
  <2>1. w.thing = "api" /\ e.to = "open"
    BY <1>0, <1>8, GovernedStages, ContentOfStage DEF StageThings, Stage
  <2>2. "api" \in Evidence /\ apim.at["api"] \in {"keyed", "open"} /\ apim.at["policy"] # "absent"
    BY <1>1, <1>8 DEF Past
  <2>3. QED
    BY <1>0, <2>1, <2>2 DEF Harmless, e
<1>9. QED
  BY <1>0, <1>3, <1>4, <1>5, <1>6, <1>7, <1>8

\* And a write of a restoration.
LEMMA RestoreHarmless ==
  ASSUME IInv, governed, w.pc = "restore", NEW t \in w.todo,
         t # "policy" \/ Exists(apim, "api")
  PROVE  Harmless(Effect(t, RestoredContent(t)), Candidate.on)
<1> DEFINE e == Effect(t, RestoredContent(t))
<1>0. /\ w.i \in 0..4 /\ w.i # 0 /\ t \in RestoreThings(w.i) /\ t \in Things
      /\ Candidate.on \subseteq Reviewed
  BY RulesReviewed DEF IInv, TypeOK, Workers, Counting, GInv, Restoration
<1>1. e.thing = t /\ e.to = RestoredContent(t)
  BY <1>0, RestoredTyped, EffectIs DEF Contents
<1>2. /\ "api" \in Evidence /\ apim.at["api"] # "theirs" /\ GateOK(apim)
      /\ Past(1) => Fragment(Candidate.on)
      /\ Past(2) => apim.at["policy"] = "access"
  BY AtWork DEF IInv, GInv, Restoration, Journal, Mine, Evidence
<1> HIDE DEF e
<1>3. CASE w.i = 1
  <2>1. t = "fragment" /\ e.to = "access"
    BY <1>0, <1>1, <1>3 DEF RestoreThings, RestoredContent
  <2>2. QED
    BY <1>0, <1>1, <2>1 DEF Harmless, e
<1>4. CASE w.i = 2
  <2>1. t = "policy" /\ e.to = "access"
    BY <1>0, <1>1, <1>4 DEF RestoreThings, RestoredContent
  <2>2. apim.at["api"] \in {"keyed", "open"} /\ apim.rules \subseteq Reviewed
    BY <1>0, <1>2, <1>4, <2>1 DEF Past, Fragment, GateOK, Exists
  <2>3. QED
    BY <1>1, <1>2, <2>1, <2>2 DEF Harmless, e
<1>5. CASE w.i = 3
  <2>1. t = "api" /\ e.to \in {"open", "keyed"}
    BY <1>0, <1>1, <1>5 DEF RestoreThings, RestoredContent
  <2>2. apim.at["policy"] = "access" /\ apim.at["api"] \in {"keyed", "open"}
    BY <1>2, <1>5 DEF Past, GateOK
  <2>3. QED
    BY <1>1, <1>2, <2>1, <2>2 DEF Harmless, e
<1>6. CASE w.i = 4
  <2>1. t \in Grants
    BY <1>0, <1>6 DEF RestoreThings
  <2>2. QED
    BY <1>1, <2>1, PartsAreThings DEF Harmless, e
<1>7. QED
  BY <1>0, <1>3, <1>4, <1>5, <1>6

LEMMA SubmittedHarmless ==
  ASSUME IInv, governed, NEW e \in Submitted
  PROVE  Harmless(e, SubmittedRules)
<1>0. /\ w.todo \in SUBSET Things /\ w.owned \in SUBSET Things
      /\ "policy" \in Things /\ Grants \subseteq Things
      /\ {"absent", "deny", "suspended"} \subseteq Contents
      /\ SubmittedRules \subseteq Reviewed
  BY RulesReviewed DEF IInv, TypeOK, Workers, Parts, Things, Contents, SubmittedRules
<1>1. CASE w.pc = "write"
  <2>1. e = Effect(w.thing, Content[Stage]) /\ SubmittedRules = plan.target.on
    BY <1>1 DEF Submitted, SubmittedRules
  <2>2. QED
    BY <1>1, <2>1, WriteHarmless
<1>2. CASE w.pc = "restore"
  <2>1. SubmittedRules = Candidate.on
    BY <1>2 DEF SubmittedRules
  <2>2. PICK t \in {u \in w.todo : u # "policy" \/ Exists(apim, "api")} :
          e = Effect(t, RestoredContent(t))
    BY <1>2 DEF Submitted
  <2>3. QED
    BY <1>2, <2>1, <2>2, RestoreHarmless
<1>3. CASE w.pc = "step"
  <2>1. /\ w.i > 0 /\ Stage = "retire"
        /\ \E t \in w.todo \intersect w.owned : e = Effect(t, "absent")
    BY <1>3 DEF Submitted
  <2>2. PICK t \in w.todo : e = Effect(t, "absent")
    BY <2>1
  <2>3. w.i \in 0..9 /\ w.todo \subseteq StageThings(w.i)
    BY <1>3, GovernedStages DEF IInv, Counting, GInv, Applying
  <2>4. w.i = 4
    <3>1. w.i \in {1, 2, 3, 4, 5, 6, 7, 8, 9}
      BY <2>1, <2>3
    <3>2. QED
      BY <2>1, <3>1, GovernedStages DEF Stage
  <2>5. t \in Grants
    BY <2>2, <2>3, <2>4 DEF StageThings
  <2>6. e.thing = t
    BY <1>0, <2>2, <2>5, EffectIs
  <2>7. QED
    BY <2>5, <2>6, PartsAreThings DEF Harmless
<1>4. CASE w.pc \in {"deny", "redeny", "guard"}
  <2>1. \/ e = Effect("policy", "deny")
        \/ \E g \in Grants : e = Effect(g, "suspended")
    BY <1>4 DEF Submitted, Keys
  <2>2. \/ e.thing = "policy" /\ e.to = "deny"
        \/ e.thing \in Grants
    BY <1>0, <2>1, EffectIs
  <2>3. QED
    BY <2>2, PartsAreThings DEF Harmless
<1>5. w.pc # "rollback"
  BY DEF IInv, Counting
<1>6. CASE w.pc = "remove"
  <2>1. PICK t \in NextRemoved(w.todo) : e = Effect(t, "absent")
    BY <1>6 DEF Submitted
  <2>2. t \in w.todo /\ t \in Things /\ ("api" \in w.todo => t = "api")
    BY <1>0, <2>1 DEF NextRemoved
  <2>3. e.thing = t /\ e.to = "absent"
    BY <1>0, <2>1, <2>2, EffectIs
  <2>4. apim.at["api"] = "open" => "api" \in w.todo
    BY <1>6, <2>2 DEF IInv, GInv, Teardown
  <2>5. QED
    BY <1>0, <2>2, <2>3, <2>4 DEF Harmless
<1>7. QED
  BY <1>1, <1>2, <1>3, <1>4, <1>5, <1>6 DEF Submitted

LEMMA StopInv == ASSUME IInv, Stop PROVE IInv'
<1> USE DEF Stop
<1>0. /\ lock = "run" /\ inflight = {} /\ keyjob.pc = "idle" /\ apim \in Gateways
      /\ UNCHANGED <<governed, desired, plan, teardown, lock, keyjob, runs, edits, left>>
      /\ w' = Idle /\ w'.pc = "idle" /\ w'.owned = {} /\ w'.steps = {}
  BY AtWork DEF IInv, TypeOK, Idle
<1>1. run' \in RunRecords /\ run'.steps = run.steps
  BY DEF RunRecords, IInv, TypeOK
<1>2. pub' \in Publications /\ pub'.owned = pub.owned /\ pub'.applied = pub.applied
  BY DEF Interrupted, Publications, IInv, TypeOK
<1>3. faults' \in 0..MaxFaults
  BY BoundsAssumption DEF Fault, IInv, TypeOK
<1>4. \/ apim' = apim /\ inflight' = {}
      \/ \E e \in Submitted :
           \/ apim' = Landed(apim, e, SubmittedRules) /\ inflight' = {}
           \/ apim' = apim /\ inflight' = {[e |-> e, rules |-> SubmittedRules]}
  BY <1>0
<1>5. apim' \in Gateways /\ inflight' \subseteq [e : Effects, rules : SUBSET Grants]
  <2>1. CASE apim' = apim /\ inflight' = {}
    BY <1>0, <2>1
  <2>2. ASSUME NEW e \in Submitted,
               \/ apim' = Landed(apim, e, SubmittedRules) /\ inflight' = {}
               \/ apim' = apim /\ inflight' = {[e |-> e, rules |-> SubmittedRules]}
        PROVE  apim' \in Gateways /\ inflight' \subseteq [e : Effects, rules : SUBSET Grants]
    <3>1. e \in Effects /\ SubmittedRules \in SUBSET Grants
      BY SubmittedTyped
    <3>2. Landed(apim, e, SubmittedRules) \in Gateways
      BY <1>0, <3>1, LandedDoes
    <3> HIDE DEF SubmittedRules
    <3>3. QED
      BY <1>0, <2>2, <3>1, <3>2
  <2>3. QED
    BY <1>4, <2>1, <2>2
<1>6. TypeOK'
  BY <1>0, <1>1, <1>2, <1>3, <1>5, IdleType DEF IInv, TypeOK
<1>7. Locking'
  BY <1>0 DEF Locking
<1>8. Evidence' = Evidence /\ Reviewed' = Reviewed
  BY <1>0, <1>1, <1>2 DEF Evidence, Reviewed
<1>9. ASSUME governed PROVE GateOK(apim') /\ Mine' /\ Narrow' /\ Landing'
  <2>0. GateOK(apim) /\ Mine /\ Narrow
    BY <1>9 DEF IInv, GInv
  <2>1. CASE apim' = apim
    <3>1. ASSUME NEW f \in inflight' PROVE Harmless(f.e, f.rules)'
      <4>1. PICK e \in Submitted : inflight' = {[e |-> e, rules |-> SubmittedRules]}
        BY <1>4, <3>1, <2>1
      <4>2. Harmless(e, SubmittedRules)
        BY <1>9, SubmittedHarmless
      <4>3. f.e = e /\ f.rules = SubmittedRules
        BY <4>1
      <4>4. Harmless(f.e, f.rules)
        BY <4>2, <4>3
      <4>5. QED
        BY <1>8, <2>1, <4>4 DEF Harmless
    <3>2. QED
      BY <1>0, <1>2, <1>8, <2>0, <2>1, <3>1 DEF Mine, Narrow, Landing
  <2>2. CASE apim' # apim
    <3>1. PICK e \in Submitted : apim' = Landed(apim, e, SubmittedRules) /\ inflight' = {}
      BY <1>4, <2>2
    <3>2. Harmless(e, SubmittedRules) /\ e \in Effects /\ SubmittedRules \in SUBSET Grants
      BY <1>9, SubmittedHarmless, SubmittedTyped
    <3>3. /\ GateOK(apim') /\ Admits(apim') \subseteq Reviewed
          /\ Exposed(apim') => "api" \in Evidence
          /\ apim'.at["api"] = "theirs" => apim.at["api"] = "theirs"
      BY <1>9, <3>1, <3>2, HarmlessLands
    <3>4. QED
      BY <1>0, <1>8, <2>0, <3>1, <3>3 DEF Mine, Narrow, Landing
  <2>3. QED
    BY <2>1, <2>2
<1>10. Counting'
  BY <1>0 DEF Counting
<1>11. ASSUME governed PROVE GInv'
  BY <1>0, <1>9, <1>11 DEF GInv, Applying, Writing, Journal, Restoration, Outcome, Teardown
<1>12. QED
  BY <1>0, <1>6, <1>7, <1>10, <1>11 DEF IInv

-----------------------------------------------------------------------------
(* The steps of a worker.                                                  *)

\* A worker that goes on holds the lock, and nothing is in flight.
LEMMA WorkInv ==
  ASSUME IInv, TypeOK', w.pc # "idle", w'.pc # "idle",
         UNCHANGED <<governed, plan, lock, keyjob, inflight>>, Counting',
         governed => (/\ GateOK(apim) /\ Mine /\ Narrow /\ Applying /\ Writing /\ Journal
                      /\ Restoration /\ Outcome /\ Teardown)'
  PROVE  IInv'
<1>1. lock = "run" /\ inflight = {} /\ keyjob.pc = "idle"
  BY AtWork
<1>2. Locking'
  BY <1>1 DEF Locking
<1>3. Landing'
  BY <1>1 DEF Landing
<1>4. QED
  BY <1>2, <1>3 DEF IInv, GInv

\* The stages are those of the publication, for good.
LEMMA StagesFixed == ASSUME governed' = governed PROVE Stages' = Stages
BY DEF Stages

LEMMA ProgressDoes ==
  ASSUME TypeOK, NEW owned \in SUBSET Things, NEW steps \in SUBSET Things, Progress(owned, steps)
  PROVE  /\ pub' \in Publications /\ pub'.owned = owned /\ pub'.applied = pub.applied
         /\ pub'.status = "applying"
         /\ run' \in RunRecords /\ run'.steps = steps
BY DEF TypeOK, Progress, Publications, RunRecords

LEMMA ProgressFailsDoes ==
  ASSUME TypeOK, NEW steps \in SUBSET Things, ProgressFails(steps)
  PROVE  /\ pub' = pub
         /\ run' \in RunRecords /\ run'.steps \in {run.steps, steps}
         /\ faults' \in 0..MaxFaults
<1>1. faults' \in 0..MaxFaults
  BY BoundsAssumption DEF TypeOK, ProgressFails, Fault
<1>2. [run EXCEPT !.steps = steps] \in RunRecords /\ [run EXCEPT !.steps = steps].steps = steps
  BY DEF TypeOK, RunRecords
<1>3. QED
  BY <1>1, <1>2 DEF TypeOK, ProgressFails

\* A stage begins when the one before it is over.
LEMMA NextStageInv == ASSUME IInv, NextStage PROVE IInv'
<1> USE DEF NextStage
<1> DEFINE n == w.i + 1
<1>0. /\ w.i \in 0..Len(Stages) /\ w.i < Len(Stages) /\ Len(Stages) \in {4, 9}
      /\ w \in Workers /\ plan \in Plans
  BY StagesNamed DEF IInv, TypeOK, Counting
<1>1. n \in 1..Len(Stages) /\ n \in 0..9 /\ n = w.i + 1
  <2>1. \A len \in {4, 9} : \A i \in 0..len : i < len => i + 1 \in 1..len /\ i + 1 \in 0..9
    OBVIOUS
  <2> HIDE DEF NextStage
  <2>2. QED
    BY ONLY <1>0, <2>1
<1>2. Stages[n] \in StageNames
  BY <1>1, StagesNamed DEF IInv, TypeOK
<1>3. Todo(Stages[n]) \in SUBSET Things
  BY <1>0, <1>2, TodoTyped
<1> HIDE DEF n
<1>4. /\ w' \in Workers /\ w'.pc = "step" /\ w'.i = n /\ w'.todo = Todo(Stages[n])
      /\ w'.owned = w.owned /\ w'.steps = w.steps /\ w'.denied = w.denied
      /\ w'.restored = w.restored
  <2>1. w' = [w EXCEPT !.i = n, !.todo = Todo(Stages[n])]
    BY DEF n
  <2>2. QED
    BY <1>0, <1>1, <1>3, <2>1 DEF Workers
<1>5. TypeOK'
  BY <1>4 DEF IInv, TypeOK
<1>6. Counting'
  BY <1>1, <1>4, StagesFixed DEF Counting
<1>7. ASSUME governed
      PROVE  (/\ GateOK(apim) /\ Mine /\ Narrow /\ Applying /\ Writing /\ Journal
              /\ Restoration /\ Outcome /\ Teardown)'
  <2>0. GateOK(apim) /\ Mine /\ Narrow /\ Applying /\ Journal
    BY <1>7 DEF IInv, GInv
  <2>1. n \in 1..9
    BY <1>1, <1>7, GovernedStages
  <2>2. /\ Todo(Stages[n]) \subseteq StageThings(n)
        /\ n \in {3, 6, 7} => Todo(Stages[n]) # {}
    BY <1>7, <2>1, TodoOfStage
  <2>3. w.pc = "step" /\ w.todo = {}
    OBVIOUS
  <2>4. (Past(3)' => Past(3)) /\ (Past(6)' => Past(6)) /\ (Past(7)' => Past(7))
    BY <1>0, <1>1, <1>4, <2>2, <2>3 DEF Past
  <2>5. Applying'
    BY <1>4, <2>0, <2>2, <2>3, <2>4 DEF Applying, Fragment
  <2>6. Mine' /\ Narrow' /\ Journal'
    BY <1>4, <2>0, <2>3 DEF Mine, Narrow, Journal, Evidence, Reviewed
  <2>7. Writing' /\ Restoration' /\ Outcome' /\ Teardown'
    BY <1>4 DEF Writing, Restoration, Outcome, Teardown
  <2>8. QED
    BY <2>0, <2>5, <2>6, <2>7
<1>8. QED
  BY <1>4, <1>5, <1>6, <1>7, WorkInv

\* A failed apply goes on to deny, or to roll back.
LEMMA FailInv ==
  ASSUME IInv, TypeOK', w.pc \in {"step", "write", "record"}, w'.pc = AfterFailure,
         UNCHANGED <<governed, plan, lock, keyjob, inflight>>,
         w'.denied = w.denied, w'.restored = w.restored,
         governed => (GateOK(apim) /\ Mine /\ Narrow /\ Journal)'
  PROVE  IInv'
<1>1. w'.pc \in {"deny", "rollback"} /\ (w'.pc = "deny" <=> governed) /\ governed' = governed
  BY DEF AfterFailure, IInv, TypeOK
<1>2. Counting'
  BY <1>1 DEF Counting
<1>3. ASSUME governed
      PROVE  (Applying /\ Writing /\ Restoration /\ Outcome /\ Teardown)'
  <2>1. ~w.denied /\ ~w.restored /\ w'.pc = "deny"
    BY <1>1, <1>3 DEF IInv, GInv, Applying
  <2>2. QED
    BY <2>1 DEF Applying, Writing, Restoration, Outcome, Teardown
<1>4. QED
  BY <1>1, <1>2, <1>3, WorkInv

\* Before a write the evidence is saved, or the run fails.
LEMMA BeginInv == ASSUME IInv, NEW t \in Things, Begin(t) PROVE IInv'
<1> DEFINE created == ~Exists(apim, t)
           steps   == IF created THEN w.steps \union {t} ELSE w.steps
<1>0. /\ w.pc = "step" /\ t \in w.todo /\ Stage # "retire" /\ lock = "run"
      /\ UNCHANGED <<governed, desired, apim, plan, teardown, lock, keyjob, inflight, runs, edits,
                     left>>
      /\ w \in Workers /\ w.owned \in SUBSET Things /\ steps \in SUBSET Things
      /\ w.steps \subseteq steps /\ created \in BOOLEAN
      /\ AfterFailure \in {"deny", "rollback"}
  BY DEF Begin, IInv, TypeOK, Workers, AfterFailure
<1>1. \/ /\ Intruder(t)
         /\ w' = [w EXCEPT !.pc = AfterFailure]
         /\ UNCHANGED <<pub, run, faults>>
      \/ /\ ~Intruder(t)
         /\ Progress(w.owned, steps)
         /\ w' = [w EXCEPT !.pc = "write", !.thing = t, !.created = created, !.steps = steps]
         /\ UNCHANGED faults
      \/ /\ ~Intruder(t)
         /\ ProgressFails(steps)
         /\ w' = [w EXCEPT !.pc = AfterFailure, !.steps = steps]
  BY DEF Begin
<1>2. governed => /\ GateOK(apim) /\ Mine /\ Narrow /\ Applying /\ Journal
                  /\ "api" \in steps => "api" \in w.steps \/ apim.at["api"] = "absent"
  BY DEF IInv, GInv, Exists
<1> HIDE DEF steps, created
<1>3. CASE /\ Intruder(t)
           /\ w' = [w EXCEPT !.pc = AfterFailure]
           /\ UNCHANGED <<pub, run, faults>>
  <2>1. /\ w' \in Workers /\ w'.pc = AfterFailure /\ w'.owned = w.owned /\ w'.steps = w.steps
        /\ w'.denied = w.denied /\ w'.restored = w.restored
    BY <1>0, <1>3 DEF Workers
  <2>2. TypeOK'
    BY <1>0, <1>3, <2>1 DEF IInv, TypeOK
  <2>3. governed => (GateOK(apim) /\ Mine /\ Narrow /\ Journal)'
    BY <1>0, <1>2, <1>3, <2>1 DEF Mine, Narrow, Journal, Evidence, Reviewed
  <2>4. QED
    BY <1>0, <2>1, <2>2, <2>3, FailInv
<1>4. CASE /\ ~Intruder(t)
           /\ Progress(w.owned, steps)
           /\ w' = [w EXCEPT !.pc = "write", !.thing = t, !.created = created, !.steps = steps]
           /\ UNCHANGED faults
  <2>1. /\ w' \in Workers /\ w'.pc = "write" /\ w'.owned = w.owned /\ w'.steps = steps
        /\ w'.denied = w.denied /\ w'.restored = w.restored /\ w'.i = w.i /\ w'.todo = w.todo
        /\ w'.thing = t /\ w'.created = created
    BY <1>0, <1>4 DEF Workers
  <2>2. /\ pub' \in Publications /\ pub'.owned = w.owned /\ pub'.applied = pub.applied
        /\ run' \in RunRecords /\ run'.steps = steps
    BY <1>0, <1>4, ProgressDoes DEF IInv
  <2>3. TypeOK'
    BY <1>0, <1>4, <2>1, <2>2 DEF IInv, TypeOK
  <2>4. Counting'
    <3>1. w.i \in 0..Len(Stages) /\ w.i # 0
      BY <1>0 DEF IInv, Counting
    <3>2. Stages' = Stages
      BY <1>0, StagesFixed
    <3>3. QED
      BY <1>0, <2>1, <3>1, <3>2 DEF Counting, Stage
  <2>5. ASSUME governed
        PROVE  (/\ GateOK(apim) /\ Mine /\ Narrow /\ Applying /\ Writing /\ Journal
                /\ Restoration /\ Outcome /\ Teardown)'
    <3>1. GateOK(apim)' /\ Mine' /\ Narrow' /\ Journal'
      BY <1>0, <1>2, <2>1, <2>2, <2>5 DEF Mine, Narrow, Journal, Evidence, Reviewed
    <3>2. Applying'
      BY <1>0, <1>2, <2>1, <2>5 DEF Applying, Past, Fragment
    <3>3. Writing'
      <4>1. ~created => t \in w.owned
        BY <1>4, <2>5 DEF Intruder, created
      <4>2. created => t \in steps
        BY DEF steps
      <4>3. QED
        BY <1>0, <2>1, <2>2, <4>1, <4>2 DEF Writing
    <3>4. Restoration' /\ Outcome' /\ Teardown'
      BY <2>1 DEF Restoration, Outcome, Teardown
    <3>5. QED
      BY <3>1, <3>2, <3>3, <3>4
  <2>6. QED
    BY <1>0, <2>1, <2>3, <2>4, <2>5, WorkInv
<1>5. CASE /\ ~Intruder(t)
           /\ ProgressFails(steps)
           /\ w' = [w EXCEPT !.pc = AfterFailure, !.steps = steps]
  <2>1. /\ w' \in Workers /\ w'.pc = AfterFailure /\ w'.owned = w.owned /\ w'.steps = steps
        /\ w'.denied = w.denied /\ w'.restored = w.restored
    BY <1>0, <1>5 DEF Workers
  <2>2. pub' = pub /\ run' \in RunRecords /\ run'.steps \in {run.steps, steps}
        /\ faults' \in 0..MaxFaults
    BY <1>0, <1>5, ProgressFailsDoes DEF IInv
  <2>3. TypeOK'
    BY <1>0, <2>1, <2>2 DEF IInv, TypeOK
  <2>4. ASSUME governed PROVE (GateOK(apim) /\ Mine /\ Narrow /\ Journal)'
    <3>1. run.steps \subseteq w.steps /\ run.steps \subseteq run'.steps /\ run'.steps \subseteq steps
      BY <1>0, <1>2, <2>2, <2>4 DEF Journal
    <3>2. QED
      BY <1>0, <1>2, <2>1, <2>2, <2>4, <3>1 DEF Mine, Narrow, Journal, Evidence, Reviewed
  <2>5. QED
    BY <1>0, <2>1, <2>3, <2>4, FailInv
<1>6. QED
  BY <1>1, <1>3, <1>4, <1>5

\* Stage by stage, what is written.
LEMMA StageWritten ==
  ASSUME IInv, governed, w.pc = "write"
  PROVE  LET c == Content[Stage]
         IN /\ c # "absent"
            /\ \/ w.i = 1 /\ w.thing = "policy" /\ c = "deny"
               \/ w.i \in {2, 5, 9} /\ w.thing \in Grants \union {"backend"}
               \/ w.i = 3 /\ w.thing = "api" /\ c = "keyed"
               \/ w.i = 6 /\ w.thing = "fragment" /\ c = "access"
               \/ w.i = 7 /\ w.thing = "policy" /\ c = "access"
               \/ w.i = 8 /\ w.thing = "api" /\ c = "open"
<1>1. w.i \in {1, 2, 3, 5, 6, 7, 8, 9} /\ w.thing \in StageThings(w.i)
  <2>1. w.i \in 1..9 /\ w.i # 4 /\ w.thing \in StageThings(w.i)
    BY StageWrites
  <2>2. QED
    BY <2>1
<1>2. QED
  BY <1>1, GovernedStages, ContentOfStage DEF StageThings, Stage

\* The gateway after a write.
LEMMA GatewayWritten ==
  ASSUME IInv, governed, w.pc = "write"
  PROVE  LET b == Put(apim, w.thing, Content[Stage], plan.target.on)
         IN /\ b \in Gateways /\ GateOK(b) /\ Admits(b) \subseteq Reviewed
            /\ \A x \in Things : b.at[x] = IF x = w.thing THEN Content[Stage] ELSE apim.at[x]
            /\ b.rules = IF w.thing = "fragment" THEN plan.target.on ELSE apim.rules
            /\ Exposed(b) => "api" \in Evidence /\ "api" \in w.owned
            /\ b.at["api"] = "theirs" => apim.at["api"] = "theirs"
<1> DEFINE c == Content[Stage]
           b == Put(apim, w.thing, c, plan.target.on)
           e == Effect(w.thing, c)
<1>0. /\ w.thing \in Things /\ c \in Contents /\ plan.target.on \in SUBSET Grants
      /\ apim \in Gateways /\ "api" \in Things /\ "policy" \in Things
  BY StageWrites, RulesReviewed DEF IInv, TypeOK, Parts, Things
<1>1. e \in Effects /\ e.thing = w.thing /\ e.to = c
  BY <1>0, EffectIs
<1>2. Harmless(e, plan.target.on)
  BY WriteHarmless
<1>3. c # "absent"
  BY StageWritten
<1>4. /\ b \in Gateways
      /\ \A x \in Things : b.at[x] = IF x = w.thing THEN c ELSE apim.at[x]
      /\ b.rules = IF w.thing = "fragment" THEN plan.target.on ELSE apim.rules
  BY <1>0, PutDoes
<1>5. b = Landed(apim, e, plan.target.on)
  BY <1>1, <1>3 DEF Landed
<1>6. /\ GateOK(b) /\ Admits(b) \subseteq Reviewed /\ (Exposed(b) => "api" \in Evidence)
      /\ b.at["api"] = "theirs" => apim.at["api"] = "theirs"
  BY <1>0, <1>1, <1>2, <1>5, HarmlessLands
<1>7. Exposed(b) => "api" \in w.owned
  <2>1. Exposed(apim) => "api" \in w.owned
    BY DEF IInv, GInv, Mine
  <2>2. w.i > 3 => "api" \in w.owned
    BY DEF IInv, GInv, Applying, Past
  <2>3. w.i > 3 \/ (Exposed(b) => Exposed(apim))
    BY <1>0, <1>4, StageWritten, PartsAreThings DEF Exposed
  <2>4. QED
    BY <2>1, <2>2, <2>3
<1>8. QED
  BY <1>4, <1>6, <1>7

LEMMA WriteInv == ASSUME IInv, Write PROVE IInv'
<1> DEFINE b == Put(apim, w.thing, Content[Stage], plan.target.on)
<1>0. /\ w.pc = "write" /\ lock = "run"
      /\ UNCHANGED <<governed, desired, pub, plan, teardown, lock, run, keyjob, inflight, runs,
                     edits, left>>
      /\ w \in Workers /\ w.thing \in Things /\ w.owned \in SUBSET Things
      /\ AfterFailure \in {"deny", "rollback"}
  BY AtWork DEF Write, IInv, TypeOK, Workers, AfterFailure
<1>1. b \in Gateways
  BY StageWrites, RulesReviewed, PutDoes, <1>0 DEF IInv, TypeOK
<1>2. \/ apim' = b /\ w' = [w EXCEPT !.pc = "record"] /\ UNCHANGED faults
      \/ /\ Fault /\ apim' \in {apim, b}
         /\ \E found \in {{}, {w.thing}} :
              /\ found # {} => governed /\ w.created /\ Exists(apim', w.thing)
              /\ w' = [w EXCEPT !.pc = AfterFailure, !.owned = @ \union found]
  BY DEF Write, Written
<1>3. governed =>
        /\ GateOK(apim) /\ Mine /\ Narrow /\ Applying /\ Writing /\ Journal
        /\ GateOK(b) /\ Admits(b) \subseteq Reviewed
        /\ \A x \in Things : b.at[x] = IF x = w.thing THEN Content[Stage] ELSE apim.at[x]
        /\ b.rules = IF w.thing = "fragment" THEN plan.target.on ELSE apim.rules
        /\ Exposed(b) => "api" \in Evidence /\ "api" \in w.owned
        /\ b.at["api"] = "theirs" => apim.at["api"] = "theirs"
  BY <1>0, GatewayWritten DEF IInv, GInv
<1> HIDE DEF b
<1>4. CASE apim' = b /\ w' = [w EXCEPT !.pc = "record"] /\ UNCHANGED faults
  <2>1. /\ w' \in Workers /\ w'.pc = "record" /\ w'.owned = w.owned /\ w'.steps = w.steps
        /\ w'.denied = w.denied /\ w'.restored = w.restored /\ w'.i = w.i /\ w'.todo = w.todo
        /\ w'.thing = w.thing /\ w'.created = w.created
    BY <1>0, <1>4 DEF Workers
  <2>2. TypeOK'
    BY <1>0, <1>1, <1>4, <2>1 DEF IInv, TypeOK
  <2>3. Counting'
    <3>1. Stages' = Stages
      BY <1>0, StagesFixed
    <3>2. QED
      BY <1>0, <2>1, <3>1 DEF IInv, Counting, Stage
  <2>4. ASSUME governed
        PROVE  (/\ GateOK(apim) /\ Mine /\ Narrow /\ Applying /\ Writing /\ Journal
                /\ Restoration /\ Outcome /\ Teardown)'
    <3>1. GateOK(apim)' /\ Mine' /\ Narrow' /\ Journal'
      BY <1>0, <1>3, <1>4, <2>1, <2>4 DEF Mine, Narrow, Journal, Evidence, Reviewed
    <3>2. /\ apim'.at["api"] = IF w.thing = "api" THEN Content[Stage] ELSE apim.at["api"]
          /\ apim'.at["policy"] = IF w.thing = "policy" THEN Content[Stage] ELSE apim.at["policy"]
          /\ apim'.at["fragment"] =
               IF w.thing = "fragment" THEN Content[Stage] ELSE apim.at["fragment"]
          /\ apim'.rules = IF w.thing = "fragment" THEN plan.target.on ELSE apim.rules
      BY <1>3, <1>4, <2>4 DEF Parts, Things
    <3>3. /\ w.thing = "api" => Content[Stage] \in {"keyed", "open"}
          /\ w.thing = "fragment" => Content[Stage] = "access" /\ w.i = 6
          /\ w.thing = "policy" => w.i \in {1, 7} /\ (w.i = 7 => Content[Stage] = "access")
      BY <1>0, <2>4, StageWritten, PartsAreThings
    <3>4. w.thing \in w.todo
      BY <1>0, <1>3, <2>4 DEF Writing
    <3>5. /\ w.i > 3 => "api" \in w.owned /\ apim.at["api"] \in {"keyed", "open"}
          /\ w.i > 6 => Fragment(plan.target.on)
          /\ w.i > 7 => apim.at["policy"] = "access"
          /\ w.todo \subseteq StageThings(w.i) /\ ~w.denied /\ ~w.restored
      BY <1>0, <1>3, <2>4 DEF Applying, Past
    <3>6. w.i > 6 => Fragment(plan.target.on)'
      BY <1>0, <3>2, <3>3, <3>5 DEF Fragment
    <3>7. Applying'
      BY <1>0, <2>1, <3>2, <3>3, <3>4, <3>5, <3>6 DEF Applying, Past
    <3>8. Writing'
      BY <1>0, <1>3, <2>1, <2>4, <3>2, <3>3 DEF Writing, Fragment
    <3>9. Restoration' /\ Outcome' /\ Teardown'
      BY <2>1 DEF Restoration, Outcome, Teardown
    <3>10. QED
      BY <3>1, <3>7, <3>8, <3>9
  <2>5. QED
    BY <1>0, <2>1, <2>2, <2>3, <2>4, WorkInv
<1>5. ASSUME Fault, apim' \in {apim, b}, NEW found \in {{}, {w.thing}},
             found # {} => governed /\ w.created /\ Exists(apim', w.thing),
             w' = [w EXCEPT !.pc = AfterFailure, !.owned = @ \union found]
      PROVE  IInv'
  <2>1. /\ w' \in Workers /\ w'.pc = AfterFailure /\ w'.owned = w.owned \union found
        /\ w'.steps = w.steps /\ w'.denied = w.denied /\ w'.restored = w.restored
    BY <1>0, <1>5 DEF Workers
  <2>2. faults' \in 0..MaxFaults
    BY <1>5, BoundsAssumption DEF Fault, IInv, TypeOK
  <2>3. TypeOK'
    BY <1>0, <1>1, <1>5, <2>1, <2>2 DEF IInv, TypeOK
  <2>4. ASSUME governed PROVE (GateOK(apim) /\ Mine /\ Narrow /\ Journal)'
    <3>1. found \subseteq w.steps /\ run.steps = w.steps
      BY <1>0, <1>3, <1>5, <2>4 DEF Writing
    <3>2. GateOK(apim)' /\ Narrow'
      BY <1>0, <1>3, <1>5, <2>4 DEF Narrow, Reviewed
    <3>3. Mine'
      BY <1>0, <1>3, <1>5, <2>1, <2>4, <3>1 DEF Mine, Evidence
    <3>4. Journal'
      BY <1>0, <1>3, <1>5, <2>1, <2>4, <3>1 DEF Journal
    <3>5. QED
      BY <3>2, <3>3, <3>4
  <2>5. QED
    BY <1>0, <2>1, <2>3, <2>4, FailInv
<1>6. QED
  BY <1>2, <1>4, <1>5

\* After a write, what this run created is its own.
LEMMA RecordInv == ASSUME IInv, Record PROVE IInv'
<1> DEFINE owned == IF w.created THEN w.owned \union {w.thing} ELSE w.owned
           kept  == w.kept \union ({w.thing} \intersect w.steps)
           todo  == w.todo \ {w.thing}
<1>0. /\ w.pc = "record" /\ lock = "run"
      /\ UNCHANGED <<governed, desired, apim, plan, teardown, lock, keyjob, inflight, runs, edits,
                     left>>
      /\ w \in Workers /\ w.thing \in Things /\ owned \in SUBSET Things /\ kept \in SUBSET Things
      /\ todo \in SUBSET Things /\ w.steps \in SUBSET Things
      /\ w.owned \subseteq owned /\ owned \subseteq w.owned \union {w.thing}
      /\ w.created => w.thing \in owned
      /\ ~w.created => owned = w.owned
      /\ AfterFailure \in {"deny", "rollback"}
  BY AtWork DEF Record, IInv, TypeOK, Workers, AfterFailure
<1>1. \/ /\ Progress(owned, w.steps)
         /\ w' = [w EXCEPT !.pc = "step", !.todo = todo, !.owned = owned, !.kept = kept]
         /\ UNCHANGED faults
      \/ /\ ProgressFails(w.steps)
         /\ w' = [w EXCEPT !.pc = AfterFailure, !.owned = owned, !.kept = kept]
  BY DEF Record
<1>2. governed =>
        /\ GateOK(apim) /\ Mine /\ Narrow /\ Applying /\ Writing /\ Journal
        /\ w.thing \in w.todo /\ run.steps = w.steps
        /\ w.thing \in owned /\ owned \subseteq w.owned \union w.steps
  BY <1>0 DEF IInv, GInv, Writing
<1> HIDE DEF owned, kept
<1>3. CASE /\ Progress(owned, w.steps)
           /\ w' = [w EXCEPT !.pc = "step", !.todo = todo, !.owned = owned, !.kept = kept]
           /\ UNCHANGED faults
  <2> HIDE DEF todo
  <2>1. /\ w' \in Workers /\ w'.pc = "step" /\ w'.owned = owned /\ w'.steps = w.steps
        /\ w'.denied = w.denied /\ w'.restored = w.restored /\ w'.i = w.i /\ w'.todo = todo
    BY <1>0, <1>3 DEF Workers
  <2>2. /\ pub' \in Publications /\ pub'.owned = owned /\ pub'.applied = pub.applied
        /\ run' \in RunRecords /\ run'.steps = w.steps
    BY <1>0, <1>3, ProgressDoes DEF IInv
  <2>3. TypeOK'
    BY <1>0, <1>3, <2>1, <2>2 DEF IInv, TypeOK
  <2>4. Counting'
    <3>1. w.i \in 0..Len(Stages) /\ w.i # 0
      BY <1>0 DEF IInv, Counting
    <3>2. Stages' = Stages
      BY <1>0, StagesFixed
    <3>3. QED
      BY <1>0, <2>1, <3>1, <3>2 DEF Counting
  <2>5. ASSUME governed
        PROVE  (/\ GateOK(apim) /\ Mine /\ Narrow /\ Applying /\ Writing /\ Journal
                /\ Restoration /\ Outcome /\ Teardown)'
    <3>1. GateOK(apim)' /\ Mine' /\ Narrow' /\ Journal'
      BY <1>0, <1>2, <2>1, <2>2, <2>5 DEF Mine, Narrow, Journal, Evidence, Reviewed
    <3>2. /\ w.i > 3 => "api" \in w.owned /\ apim.at["api"] \in {"keyed", "open"}
          /\ w.i > 6 => Fragment(plan.target.on)
          /\ w.i > 7 => apim.at["policy"] = "access"
          /\ w.todo \subseteq StageThings(w.i) /\ ~w.denied /\ ~w.restored
      BY <1>0, <1>2, <2>5 DEF Applying, Past
    <3>3. /\ w.i = 3 => w.thing = "api"
          /\ w.i = 6 => w.thing = "fragment"
          /\ w.i = 7 => w.thing = "policy"
      BY <1>0, <1>2, <2>5, <3>2 DEF StageThings
    <3>4. /\ w.i = 3 => "api" \in owned /\ apim.at["api"] \in {"keyed", "open"}
          /\ w.i = 6 => Fragment(plan.target.on)
          /\ w.i = 7 => apim.at["policy"] = "access"
      BY <1>0, <1>2, <2>5, <3>3 DEF Writing
    <3>5. todo \subseteq w.todo
      BY DEF todo
    <3>6. Applying'
      BY <1>0, <2>1, <3>2, <3>4, <3>5 DEF Applying, Past, Fragment
    <3>7. Writing' /\ Restoration' /\ Outcome' /\ Teardown'
      BY <2>1 DEF Writing, Restoration, Outcome, Teardown
    <3>8. QED
      BY <3>1, <3>6, <3>7
  <2>6. QED
    BY <1>0, <2>1, <2>3, <2>4, <2>5, WorkInv
<1>4. CASE /\ ProgressFails(w.steps)
           /\ w' = [w EXCEPT !.pc = AfterFailure, !.owned = owned, !.kept = kept]
  <2>1. /\ w' \in Workers /\ w'.pc = AfterFailure /\ w'.owned = owned /\ w'.steps = w.steps
        /\ w'.denied = w.denied /\ w'.restored = w.restored
    BY <1>0, <1>4 DEF Workers
  <2>2. pub' = pub /\ run' \in RunRecords /\ run'.steps \in {run.steps, w.steps}
        /\ faults' \in 0..MaxFaults
    BY <1>0, <1>4, ProgressFailsDoes DEF IInv
  <2>3. TypeOK'
    BY <1>0, <2>1, <2>2 DEF IInv, TypeOK
  <2>4. governed => (GateOK(apim) /\ Mine /\ Narrow /\ Journal)'
    BY <1>0, <1>2, <2>1, <2>2 DEF Mine, Narrow, Journal, Evidence, Reviewed
  <2>5. QED
    BY <1>0, <2>1, <2>3, <2>4, FailInv
<1>5. QED
  BY <1>1, <1>3, <1>4

\* A key that is retired leaves the rest of the gateway as it is.
LEMMA DeleteRevokedKeyInv == ASSUME IInv, NEW g \in Grants, DeleteRevokedKey(g) PROVE IInv'
<1> DEFINE rest == w.owned \ {g}
           todo == w.todo \ {g}
           b    == Drop(apim, g)
<1>0. /\ w.pc = "step" /\ g \in w.todo /\ Stage = "retire" /\ lock = "run"
      /\ UNCHANGED <<governed, desired, plan, teardown, lock, keyjob, inflight, runs, edits, left>>
      /\ w \in Workers /\ w.owned \in SUBSET Things /\ rest \in SUBSET Things
      /\ todo \in SUBSET Things /\ w.steps \in SUBSET Things
      /\ apim \in Gateways /\ pub \in Publications /\ run \in RunRecords
      /\ ("api" \in rest <=> "api" \in w.owned)
  BY PartsAreThings DEF DeleteRevokedKey, IInv, TypeOK, Workers
<1>1. governed /\ w.i \in 0..Len(Stages) /\ w.i # 0
  <2>1. w.i \in 0..Len(Stages) /\ w.i # 0
    BY <1>0 DEF IInv, Counting
  <2>2. ASSUME ~governed PROVE FALSE
    <3>1. w.i \in 0..4 /\ w.i # 0
      BY <2>1, <2>2, PlainStages
    <3>2. w.i \in {1, 2, 3, 4}
      BY <3>1
    <3>3. QED
      BY <1>0, <2>2, <3>2, PlainStages DEF Stage
  <2>3. QED
    BY <2>1, <2>2
<1>2. /\ b \in Gateways /\ b.rules = apim.rules
      /\ \A p \in {"api", "policy", "fragment"} : b.at[p] = apim.at[p]
  BY <1>0, DropDoes, PartsAreThings DEF Parts
<1>3. \/ /\ apim' = b /\ Progress(rest, w.steps)
         /\ w' = [w EXCEPT !.todo = todo, !.owned = rest]
         /\ UNCHANGED faults
      \/ /\ apim' = b /\ ProgressFails(w.steps)
         /\ w' = [w EXCEPT !.pc = "deny", !.owned = rest]
      \/ /\ apim' \in {apim, b} /\ w' = [w EXCEPT !.pc = "deny"]
         /\ UNCHANGED <<pub, run>> /\ (Fault \/ UNCHANGED faults)
  BY DEF DeleteRevokedKey, Removed
<1> HIDE DEF rest, todo, b
<1>4. apim' \in Gateways /\ apim'.rules = apim.rules
      /\ \A p \in {"api", "policy", "fragment"} : apim'.at[p] = apim.at[p]
  BY <1>0, <1>2, <1>3
<1>5. GateOK(apim) /\ Mine /\ Narrow /\ Applying /\ Journal
  BY <1>1 DEF IInv, GInv
<1>6. GateOK(apim') /\ (Exposed(apim') => Exposed(apim)) /\ Admits(apim') = Admits(apim)
  BY <1>0, <1>4, <1>5, SameFace
<1>7. CASE /\ apim' = b /\ Progress(rest, w.steps)
           /\ w' = [w EXCEPT !.todo = todo, !.owned = rest]
           /\ UNCHANGED faults
  <2>1. /\ w' \in Workers /\ w'.pc = "step" /\ w'.owned = rest /\ w'.steps = w.steps
        /\ w'.denied = w.denied /\ w'.restored = w.restored /\ w'.i = w.i /\ w'.todo = todo
    BY <1>0, <1>7 DEF Workers
  <2>2. /\ pub' \in Publications /\ pub'.owned = rest /\ pub'.applied = pub.applied
        /\ run' \in RunRecords /\ run'.steps = w.steps
    BY <1>0, <1>7, ProgressDoes DEF IInv
  <2>3. TypeOK'
    BY <1>0, <1>4, <1>7, <2>1, <2>2 DEF IInv, TypeOK
  <2>4. Counting'
    <3>1. Stages' = Stages
      BY <1>0, StagesFixed
    <3>2. QED
      BY <1>0, <1>1, <2>1, <3>1 DEF Counting
  <2>5. GateOK(apim)' /\ Mine' /\ Narrow' /\ Journal'
    BY <1>0, <1>4, <1>5, <1>6, <2>1, <2>2 DEF Mine, Narrow, Journal, Evidence, Reviewed
  <2>6. Applying'
    <3>1. w.i = 4
      <4>1. w.i \in 0..9 /\ w.i # 0
        BY <1>1, GovernedStages
      <4>2. w.i \in {1, 2, 3, 4, 5, 6, 7, 8, 9}
        BY <4>1
      <4>3. QED
        BY <1>0, <1>1, <4>2, GovernedStages DEF Stage
    <3>2. todo \subseteq w.todo
      BY DEF todo
    <3>3. QED
      BY <1>0, <1>4, <1>5, <2>1, <3>1, <3>2 DEF Applying, Past
  <2>7. Writing' /\ Restoration' /\ Outcome' /\ Teardown'
    BY <2>1 DEF Writing, Restoration, Outcome, Teardown
  <2>8. QED
    BY <1>0, <2>1, <2>3, <2>4, <2>5, <2>6, <2>7, WorkInv
<1>8. CASE /\ apim' = b /\ ProgressFails(w.steps)
           /\ w' = [w EXCEPT !.pc = "deny", !.owned = rest]
  <2>1. /\ w' \in Workers /\ w'.pc = AfterFailure /\ w'.owned = rest /\ w'.steps = w.steps
        /\ w'.denied = w.denied /\ w'.restored = w.restored
    BY <1>0, <1>1, <1>8 DEF Workers, AfterFailure
  <2>2. pub' = pub /\ run' \in RunRecords /\ run'.steps \in {run.steps, w.steps}
        /\ faults' \in 0..MaxFaults
    BY <1>0, <1>8, ProgressFailsDoes DEF IInv
  <2>3. TypeOK'
    BY <1>0, <1>4, <2>1, <2>2 DEF IInv, TypeOK
  <2>4. GateOK(apim)' /\ Mine' /\ Narrow' /\ Journal'
    BY <1>0, <1>4, <1>5, <1>6, <2>1, <2>2 DEF Mine, Narrow, Journal, Evidence, Reviewed
  <2>5. QED
    BY <1>0, <2>1, <2>3, <2>4, FailInv
<1>9. CASE /\ apim' \in {apim, b} /\ w' = [w EXCEPT !.pc = "deny"]
           /\ UNCHANGED <<pub, run>> /\ (Fault \/ UNCHANGED faults)
  <2>1. /\ w' \in Workers /\ w'.pc = AfterFailure /\ w'.owned = w.owned /\ w'.steps = w.steps
        /\ w'.denied = w.denied /\ w'.restored = w.restored
    BY <1>0, <1>1, <1>9 DEF Workers, AfterFailure
  <2>2. faults' \in 0..MaxFaults
    BY <1>9, BoundsAssumption DEF Fault, IInv, TypeOK
  <2>3. TypeOK'
    BY <1>0, <1>4, <1>9, <2>1, <2>2 DEF IInv, TypeOK
  <2>4. GateOK(apim)' /\ Mine' /\ Narrow' /\ Journal'
    BY <1>0, <1>4, <1>5, <1>6, <1>9, <2>1 DEF Mine, Narrow, Journal, Evidence, Reviewed
  <2>5. QED
    BY <1>0, <2>1, <2>3, <2>4, FailInv
<1>10. QED
  BY <1>3, <1>7, <1>8, <1>9

\* A success is recorded, or half recorded, once everything reviewed is in place.
LEMMA SucceedInv == ASSUME IInv, Succeed PROVE IInv'
<1> DEFINE published == [pub EXCEPT !.status = "published", !.owned = w.owned,
                                    !.access = IF governed THEN "applied" ELSE @,
                                    !.applied = IF governed THEN plan.target ELSE @]
           linked    == [published EXCEPT !.linked = TRUE]
           next      == IF governed THEN "deny" ELSE "stuck"
<1>0. /\ w.pc = "step" /\ w.i = Len(Stages) /\ w.todo = {} /\ lock = "run"
      /\ UNCHANGED <<governed, desired, apim, plan, teardown, lock, keyjob, inflight, runs, edits,
                     left>>
      /\ w \in Workers /\ w.owned \in SUBSET Things
      /\ apim \in Gateways /\ pub \in Publications /\ run \in RunRecords
      /\ plan.target \in Snapshots
      /\ governed \in BOOLEAN
  BY DEF Succeed, IInv, TypeOK, Workers, Plans
<1>1. \/ pub' = linked /\ run' = [run EXCEPT !.status = "succeeded"]
         /\ w' = [w EXCEPT !.pc = "release"] /\ UNCHANGED faults
      \/ Fault /\ pub' \in {pub, published, linked} /\ UNCHANGED run
         /\ w' = [w EXCEPT !.pc = next]
  BY DEF Succeed
<1>2. /\ published \in Publications /\ published.owned = w.owned
      /\ published.status = "published"
      /\ published.applied = IF governed THEN plan.target ELSE pub.applied
  BY <1>0 DEF Publications
<1> HIDE DEF published
<1>3. /\ linked \in Publications /\ linked.owned = w.owned /\ linked.status = "published"
      /\ linked.applied = IF governed THEN plan.target ELSE pub.applied
  BY <1>2 DEF Publications
<1> HIDE DEF linked
<1>4. governed =>
        /\ GateOK(apim) /\ Mine /\ Narrow /\ Journal
        /\ Admits(apim) \subseteq plan.target.on
        /\ ~w.denied /\ ~w.restored
  <2>1. SUFFICES ASSUME governed
                 PROVE  /\ GateOK(apim) /\ Mine /\ Narrow /\ Journal
                        /\ Admits(apim) \subseteq plan.target.on
                        /\ ~w.denied /\ ~w.restored
    OBVIOUS
  <2>2. w.i = 9
    BY <1>0, <2>1, GovernedStages
  <2>3. GateOK(apim) /\ Mine /\ Narrow /\ Journal /\ Applying
    BY <2>1 DEF IInv, GInv
  <2>4. Fragment(plan.target.on) /\ ~w.denied /\ ~w.restored
    BY <1>0, <2>2, <2>3 DEF Applying, Past
  <2>5. Admits(apim) \subseteq apim.rules
    BY <1>0, <2>3, WhoIsAdmitted
  <2>6. QED
    BY <2>3, <2>4, <2>5 DEF Fragment
<1>5. CASE pub' = linked /\ run' = [run EXCEPT !.status = "succeeded"]
           /\ w' = [w EXCEPT !.pc = "release"] /\ UNCHANGED faults
  <2>1. /\ w' \in Workers /\ w'.pc = "release" /\ w'.owned = w.owned /\ w'.steps = w.steps
        /\ w'.denied = w.denied /\ w'.restored = w.restored
    BY <1>0, <1>5 DEF Workers
  <2>2. run' \in RunRecords /\ run'.steps = run.steps
    BY <1>0, <1>5 DEF RunRecords
  <2>3. TypeOK'
    BY <1>0, <1>3, <1>5, <2>1, <2>2 DEF IInv, TypeOK
  <2>4. Counting'
    BY <2>1 DEF Counting
  <2>5. ASSUME governed
        PROVE  (/\ GateOK(apim) /\ Mine /\ Narrow /\ Applying /\ Writing /\ Journal
                /\ Restoration /\ Outcome /\ Teardown)'
    <3>1. GateOK(apim)' /\ Mine' /\ Narrow'
      BY <1>0, <1>3, <1>4, <1>5, <2>1, <2>2, <2>5 DEF Mine, Narrow, Evidence, Reviewed
    <3>2. Outcome'
      BY <1>0, <1>3, <1>4, <1>5, <2>1, <2>5 DEF Outcome
    <3>3. Applying' /\ Writing' /\ Journal' /\ Restoration' /\ Teardown'
      BY <2>1 DEF Applying, Writing, Journal, Restoration, Teardown
    <3>4. QED
      BY <3>1, <3>2, <3>3
  <2>6. QED
    BY <1>0, <2>1, <2>3, <2>4, <2>5, WorkInv
<1>6. CASE Fault /\ pub' \in {pub, published, linked} /\ UNCHANGED run
           /\ w' = [w EXCEPT !.pc = next]
  <2>1. /\ w' \in Workers /\ w'.pc = next /\ w'.owned = w.owned /\ w'.steps = w.steps
        /\ w'.denied = w.denied /\ w'.restored = w.restored
    BY <1>0, <1>6 DEF Workers
  <2>2. faults' \in 0..MaxFaults
    BY <1>6, BoundsAssumption DEF Fault, IInv, TypeOK
  <2>3. TypeOK'
    BY <1>0, <1>2, <1>3, <1>6, <2>1, <2>2 DEF IInv, TypeOK
  <2>4. Counting' /\ w'.pc # "idle"
    BY <1>0, <2>1 DEF Counting
  <2>5. ASSUME governed
        PROVE  (/\ GateOK(apim) /\ Mine /\ Narrow /\ Applying /\ Writing /\ Journal
                /\ Restoration /\ Outcome /\ Teardown)'
    <3>1. /\ pub'.owned = pub.owned \/ pub'.owned = w.owned
          /\ pub'.applied = pub.applied \/ pub'.applied = plan.target
      BY <1>2, <1>3, <1>6, <2>5
    <3>2. GateOK(apim)' /\ Mine' /\ Narrow' /\ Journal'
      BY <1>0, <1>4, <1>6, <2>1, <2>5, <3>1 DEF Mine, Narrow, Journal, Evidence, Reviewed
    <3>3. Outcome' /\ Applying' /\ Writing' /\ Restoration' /\ Teardown'
      BY <1>4, <2>1, <2>5 DEF Outcome, Applying, Writing, Restoration, Teardown
    <3>4. QED
      BY <3>2, <3>3
  <2>6. QED
    BY <1>0, <2>1, <2>3, <2>4, <2>5, WorkInv
<1>7. QED
  BY <1>1, <1>5, <1>6

\* The lock is given back with what is admitted recorded as applied.
LEMMA ReleaseInv == ASSUME IInv, Release PROVE IInv'
<1> USE DEF Release
<1>0. /\ w.pc = "release" /\ lock = "run" /\ lock' = "none" /\ w' = Idle
      /\ w'.pc = "idle" /\ w'.owned = {} /\ w'.steps = {} /\ inflight = {} /\ keyjob.pc = "idle"
  BY AtWork DEF Idle
<1>1. TypeOK'
  BY IdleType DEF IInv, TypeOK
<1>2. Locking' /\ Counting'
  BY <1>0 DEF Locking, Counting
<1>3. ASSUME governed PROVE GInv'
  <2>1. GateOK(apim) /\ Mine /\ Narrow /\ Outcome
    BY <1>3 DEF IInv, GInv
  <2>2. pub.owned = w.owned /\ Admits(apim) \subseteq pub.applied.on
    BY <1>0, <2>1 DEF Outcome
  <2>3. Mine' /\ Narrow' /\ Landing'
    BY <1>0, <2>1, <2>2 DEF Mine, Narrow, Landing, Evidence, Reviewed
  <2>4. QED
    BY <1>0, <2>1, <2>3 DEF GInv, Applying, Writing, Journal, Restoration, Outcome, Teardown
<1>4. QED
  BY <1>1, <1>2, <1>3 DEF IInv

-----------------------------------------------------------------------------
(* Denying, and restoring what is safe.                                    *)

\* A denial by a worker, whatever of it succeeded.
LEMMA WorkerDenies ==
  ASSUME IInv, w.pc \in {"deny", "redeny", "guard"},
         NEW o \in {Guarded(apim, w.owned)} \union GuardFails(apim, w.owned),
         NEW keys \in SUBSET Keys(w.owned), apim' = Suspended(o.apim, keys)
  PROVE  /\ governed /\ apim' \in Gateways /\ GateOK(apim')
         /\ apim'.at["api"] = apim.at["api"]
         /\ Exposed(apim') => Exposed(apim)
         /\ Admits(apim') \subseteq Admits(apim)
         /\ o.denied => Admits(apim') = {}
         /\ o.denied \in BOOLEAN /\ o.owned \in SUBSET Things
         /\ w.owned \subseteq o.owned /\ o.owned \subseteq w.owned \union {"policy"}
<1>0. governed /\ apim \in Gateways /\ w.owned \in SUBSET Things
  BY DEF IInv, TypeOK, Workers, Counting
<1>1. GateOK(apim) /\ (Exposed(apim) => "api" \in w.owned)
  BY <1>0 DEF IInv, GInv, Mine
<1>2. /\ o.apim \in Gateways /\ o.denied \in BOOLEAN /\ o.owned \in SUBSET Things
      /\ w.owned \subseteq o.owned /\ o.owned \subseteq w.owned \union {"policy"}
  BY <1>0, GuardType
<1>3. apim' \in Gateways
  BY <1>2, SuspendedDoes DEF Keys
<1>4. /\ GateOK(apim') /\ apim'.at["api"] = apim.at["api"]
      /\ Exposed(apim') => Exposed(apim)
      /\ Admits(apim') \subseteq Admits(apim)
      /\ o.denied => Admits(apim') = {}
  BY <1>0, <1>1, Denial
<1>5. QED
  BY <1>0, <1>2, <1>3, <1>4

LEMMA DenyInv == ASSUME IInv, Deny PROVE IInv'
<1>0. /\ w.pc = "deny" /\ lock = "run"
      /\ UNCHANGED <<governed, desired, plan, teardown, lock, keyjob, inflight, runs, edits, left>>
      /\ w \in Workers /\ w.owned \in SUBSET Things /\ w.steps \in SUBSET Things
      /\ pub \in Publications /\ run \in RunRecords
  BY DEF Deny, IInv, TypeOK, Workers
<1>1. PICK o \in {Guarded(apim, w.owned)} \union GuardFails(apim, w.owned) :
      \E keys \in SUBSET Keys(w.owned) :
        /\ apim' = Suspended(o.apim, keys)
        /\ Fault \/ UNCHANGED faults
        /\ IF o.denied
           THEN LET steps == w.steps \union (o.owned \ w.owned)
                IN /\ Progress(o.owned, steps)
                   /\ w' = [w EXCEPT !.owned = o.owned, !.steps = steps, !.denied = TRUE,
                                     !.pc = IF "api" \in o.owned THEN "restore" ELSE "settle",
                                     !.i = 0, !.todo = {}]
           ELSE /\ UNCHANGED <<pub, run>>
                /\ w' = [w EXCEPT !.owned = o.owned, !.pc = "settle"]
  BY DEF Deny
<1> DEFINE steps == w.steps \union (o.owned \ w.owned)
           next  == IF "api" \in o.owned THEN "restore" ELSE "settle"
<1>2. PICK keys \in SUBSET Keys(w.owned) :
        /\ apim' = Suspended(o.apim, keys)
        /\ Fault \/ UNCHANGED faults
        /\ IF o.denied
           THEN /\ Progress(o.owned, steps)
                /\ w' = [w EXCEPT !.owned = o.owned, !.steps = steps, !.denied = TRUE,
                                  !.pc = next, !.i = 0, !.todo = {}]
           ELSE /\ UNCHANGED <<pub, run>>
                /\ w' = [w EXCEPT !.owned = o.owned, !.pc = "settle"]
  BY <1>1
<1>3. /\ governed /\ apim' \in Gateways /\ GateOK(apim')
      /\ apim'.at["api"] = apim.at["api"]
      /\ Exposed(apim') => Exposed(apim)
      /\ Admits(apim') \subseteq Admits(apim)
      /\ o.denied => Admits(apim') = {}
      /\ o.denied \in BOOLEAN /\ o.owned \in SUBSET Things
      /\ w.owned \subseteq o.owned /\ o.owned \subseteq w.owned \union {"policy"}
  BY <1>0, <1>2, WorkerDenies
<1>4. faults' \in 0..MaxFaults
  BY <1>2, BoundsAssumption DEF Fault, IInv, TypeOK
<1>5. /\ steps \in SUBSET Things /\ w.steps \subseteq steps /\ steps \subseteq w.steps \union {"policy"}
      /\ next \in {"restore", "settle"} /\ (next = "restore" => "api" \in o.owned)
  BY <1>0, <1>3
<1>6. Mine /\ Narrow /\ Journal /\ ~w.denied /\ ~w.restored
  BY <1>0, <1>3 DEF IInv, GInv, Outcome
<1> HIDE DEF steps, next
<1>7. CASE o.denied
  <2>0. /\ Progress(o.owned, steps)
        /\ w' = [w EXCEPT !.owned = o.owned, !.steps = steps, !.denied = TRUE,
                          !.pc = next, !.i = 0, !.todo = {}]
    BY <1>2, <1>7
  <2>1. /\ w' \in Workers /\ w'.pc = next /\ w'.owned = o.owned /\ w'.steps = steps
        /\ w'.denied /\ w'.restored = w.restored /\ w'.i = 0 /\ w'.todo = {}
    <3> DEFINE own == o.owned
    <3>1. /\ w \in Workers /\ own \in SUBSET Things /\ steps \in SUBSET Things
          /\ next \in {"restore", "settle"}
      BY <1>0, <1>3, <1>5
    <3>2. w' = [w EXCEPT !.owned = own, !.steps = steps, !.denied = TRUE,
                         !.pc = next, !.i = 0, !.todo = {}]
      BY <2>0
    <3> HIDE DEF own
    <3>3. /\ w'.pc = next /\ w'.owned = own /\ w'.steps = steps
          /\ w'.denied /\ w'.restored = w.restored /\ w'.i = 0 /\ w'.todo = {}
      BY ONLY <3>1, <3>2 DEF Workers
    <3>4. w' \in Workers
      <4>1. w' = [pc |-> next, i |-> 0, todo |-> {}, thing |-> w.thing, created |-> w.created,
                  owned |-> own, steps |-> steps, was |-> w.was, kept |-> w.kept,
                  denied |-> TRUE, restored |-> w.restored, errors |-> w.errors]
        BY ONLY <3>1, <3>2 DEF Workers
      <4>2. /\ w.thing \in Things /\ w.created \in BOOLEAN /\ w.was \in SUBSET Things
            /\ w.kept \in SUBSET Things /\ w.restored \in BOOLEAN /\ w.errors \in BOOLEAN
        BY ONLY <3>1 DEF Workers
      <4>3. QED
        BY ONLY <3>1, <4>1, <4>2 DEF Workers
    <3>5. QED
      BY <3>3, <3>4 DEF own
  <2>2. /\ pub' \in Publications /\ pub'.owned = o.owned /\ pub'.applied = pub.applied
        /\ run' \in RunRecords /\ run'.steps = steps
    BY <1>3, <1>5, <2>0, ProgressDoes DEF IInv
  <2>3. TypeOK'
    BY <1>0, <1>3, <1>4, <2>1, <2>2 DEF IInv, TypeOK
  <2>4. Counting' /\ w'.pc # "idle"
    BY <1>0, <1>3, <1>5, <2>1 DEF Counting
  <2>5. Mine' /\ Narrow' /\ Journal'
    BY <1>0, <1>3, <1>5, <1>6, <2>1, <2>2 DEF Mine, Narrow, Journal, Evidence, Reviewed
  <2>6. Restoration' /\ Outcome'
    BY <1>3, <1>5, <1>6, <1>7, <2>1 DEF Restoration, Outcome, Past
  <2>7. Applying' /\ Writing' /\ Teardown'
    BY <1>5, <2>1 DEF Applying, Writing, Teardown
  <2>8. QED
    BY <1>0, <1>3, <2>3, <2>4, <2>5, <2>6, <2>7, WorkInv
<1>8. CASE ~o.denied
  <2>0. UNCHANGED <<pub, run>> /\ w' = [w EXCEPT !.owned = o.owned, !.pc = "settle"]
    BY <1>2, <1>8
  <2>1. /\ w' \in Workers /\ w'.pc = "settle" /\ w'.owned = o.owned /\ w'.steps = w.steps
        /\ w'.denied = w.denied /\ w'.restored = w.restored
    BY <1>0, <1>3, <2>0 DEF Workers
  <2>2. TypeOK'
    BY <1>0, <1>3, <1>4, <2>0, <2>1 DEF IInv, TypeOK
  <2>3. Counting'
    BY <1>0, <1>3, <2>1 DEF Counting
  <2>4. Mine' /\ Narrow' /\ Journal'
    BY <1>0, <1>3, <1>6, <2>0, <2>1 DEF Mine, Narrow, Journal, Evidence, Reviewed
  <2>5. Outcome' /\ Restoration' /\ Applying' /\ Writing' /\ Teardown'
    BY <1>6, <2>1 DEF Restoration, Outcome, Applying, Writing, Teardown
  <2>6. QED
    BY <1>0, <1>3, <2>1, <2>2, <2>3, <2>4, <2>5, WorkInv
<1>9. QED
  BY <1>3, <1>7, <1>8

\* A restoration that failed is denied again.
LEMMA RedenyInv == ASSUME IInv, Redeny PROVE IInv'
<1>0. /\ w.pc = "redeny" /\ lock = "run"
      /\ UNCHANGED <<governed, desired, pub, plan, teardown, lock, run, keyjob, inflight, runs,
                     edits, left>>
      /\ w \in Workers /\ w.owned \in SUBSET Things /\ w.steps \in SUBSET Things
  BY AtWork DEF Redeny, IInv, TypeOK, Workers
<1>1. PICK o \in {Guarded(apim, w.owned)} \union GuardFails(apim, w.owned) :
      \E keys \in SUBSET Keys(w.owned) :
        /\ apim' = Suspended(o.apim, keys)
        /\ Fault \/ UNCHANGED faults
        /\ w' = [w EXCEPT !.owned = o.owned, !.denied = o.denied, !.pc = "settle",
                          !.steps = @ \union (o.owned \ w.owned)]
  BY DEF Redeny
<1> DEFINE steps == w.steps \union (o.owned \ w.owned)
<1>2. PICK keys \in SUBSET Keys(w.owned) :
        /\ apim' = Suspended(o.apim, keys)
        /\ Fault \/ UNCHANGED faults
        /\ w' = [w EXCEPT !.owned = o.owned, !.denied = o.denied, !.pc = "settle",
                          !.steps = steps]
  BY <1>1
<1>3. /\ governed /\ apim' \in Gateways /\ GateOK(apim')
      /\ apim'.at["api"] = apim.at["api"]
      /\ Exposed(apim') => Exposed(apim)
      /\ Admits(apim') \subseteq Admits(apim)
      /\ o.denied => Admits(apim') = {}
      /\ o.denied \in BOOLEAN /\ o.owned \in SUBSET Things
      /\ w.owned \subseteq o.owned /\ o.owned \subseteq w.owned \union {"policy"}
  BY <1>0, <1>2, WorkerDenies
<1>4. faults' \in 0..MaxFaults
  BY <1>2, BoundsAssumption DEF Fault, IInv, TypeOK
<1>5. steps \in SUBSET Things /\ w.steps \subseteq steps /\ steps \subseteq w.steps \union {"policy"}
  BY <1>0, <1>3
<1>6. Mine /\ Narrow /\ Journal /\ ~w.restored
  BY <1>0, <1>3 DEF IInv, GInv, Outcome
<1> HIDE DEF steps
<1>7. /\ w' \in Workers /\ w'.pc = "settle" /\ w'.owned = o.owned /\ w'.steps = steps
      /\ w'.denied = o.denied /\ w'.restored = w.restored
  BY <1>0, <1>2, <1>3, <1>5 DEF Workers
<1>8. TypeOK'
  BY <1>0, <1>3, <1>4, <1>7 DEF IInv, TypeOK
<1>9. Counting'
  BY <1>0, <1>3, <1>7 DEF Counting
<1>10. Mine' /\ Narrow' /\ Journal'
  BY <1>0, <1>3, <1>5, <1>6, <1>7 DEF Mine, Narrow, Journal, Evidence, Reviewed
<1>11. Outcome' /\ Restoration' /\ Applying' /\ Writing' /\ Teardown'
  BY <1>3, <1>6, <1>7 DEF Restoration, Outcome, Applying, Writing, Teardown
<1>12. QED
  BY <1>0, <1>3, <1>7, <1>8, <1>9, <1>10, <1>11, WorkInv

\* The next part of what is safe.
LEMMA NextRestoredInv == ASSUME IInv, NextRestored PROVE IInv'
<1> USE DEF NextRestored
<1> DEFINE n == w.i + 1
<1>0. /\ w.pc = "restore" /\ w.todo = {} /\ w.i \in 0..4 /\ governed /\ lock = "run"
      /\ w \in Workers /\ plan \in Plans /\ w.owned \in SUBSET Things
  BY AtWork DEF IInv, TypeOK, Counting, Workers
<1>1. GateOK(apim) /\ Mine /\ Narrow /\ Journal /\ Restoration /\ apim \in Gateways
  BY <1>0 DEF IInv, GInv, TypeOK
<1>2. /\ "api" \in w.owned /\ w.denied /\ ~w.restored
      /\ w.i >= 1 => Fragment(Candidate.on)
      /\ w.i >= 2 => apim.at["policy"] = "access"
  BY <1>0, <1>1 DEF Restoration, Past
<1>3. Candidate' = Candidate /\ Fragment(Candidate.on)' = Fragment(Candidate.on)
  BY DEF Candidate, Fragment
<1>4. CASE w.i < 4
  <2>1. n \in 1..4 /\ n \in 0..9 /\ n = w.i + 1
    BY <1>0, <1>4
  <2> DEFINE todo == RestoreTodo(Restoring[n], w.owned)
  <2>2. todo \subseteq RestoreThings(n) /\ todo \in SUBSET Things /\ (n < 3 => todo # {})
    BY <1>0, <2>1, RestoreTodoOfStage
  <2>3. w' = [w EXCEPT !.i = n, !.todo = todo]
    BY <1>4, RestoringStages
  <2> HIDE DEF n, todo
  <2>4. /\ w' \in Workers /\ w'.pc = "restore" /\ w'.i = n /\ w'.todo = todo
        /\ w'.owned = w.owned /\ w'.steps = w.steps /\ w'.denied = w.denied
        /\ w'.restored = w.restored
    BY <1>0, <2>1, <2>2, <2>3 DEF Workers
  <2>5. TypeOK'
    BY <2>4 DEF IInv, TypeOK
  <2>6. Counting'
    BY <1>0, <2>1, <2>4 DEF Counting
  <2>7. Restoration'
    <3>1. w.i \in 0..4
      BY <1>0
    <3>2. (Past(1)' => w.i >= 1) /\ (Past(2)' => w.i >= 2)
      BY <2>1, <2>2, <2>4, <3>1 DEF Past
    <3>3. QED
      BY <1>2, <1>3, <2>2, <2>4, <3>2 DEF Restoration
  <2>8. Mine' /\ Narrow' /\ Journal'
    BY <1>0, <1>1, <2>4 DEF Mine, Narrow, Journal, Evidence, Reviewed
  <2>9. Outcome' /\ Applying' /\ Writing' /\ Teardown'
    BY <2>4 DEF Outcome, Applying, Writing, Teardown
  <2>10. QED
    BY <1>0, <1>1, <2>4, <2>5, <2>6, <2>7, <2>8, <2>9, WorkInv
<1>5. CASE w.i >= 4
  <2>1. w' = [w EXCEPT !.pc = "settle", !.restored = TRUE]
    BY <1>0, <1>5, RestoringStages
  <2>2. /\ w' \in Workers /\ w'.pc = "settle" /\ w'.owned = w.owned /\ w'.steps = w.steps
        /\ w'.denied = w.denied /\ w'.restored
    BY <1>0, <2>1 DEF Workers
  <2>3. TypeOK'
    BY <2>2 DEF IInv, TypeOK
  <2>4. Counting'
    BY <1>0, <2>2 DEF Counting
  <2>5. Outcome'
    <3>1. w.i >= 1
      BY <1>0, <1>5
    <3>2. Admits(apim) \subseteq Candidate.on
      BY <1>1, <1>2, <3>1, WhoIsAdmitted DEF Fragment
    <3>3. QED
      BY <1>3, <2>2, <3>2 DEF Outcome
  <2>6. Mine' /\ Narrow' /\ Journal'
    BY <1>0, <1>1, <2>2 DEF Mine, Narrow, Journal, Evidence, Reviewed
  <2>7. Restoration' /\ Applying' /\ Writing' /\ Teardown'
    BY <2>2 DEF Restoration, Applying, Writing, Teardown
  <2>8. QED
    BY <1>0, <1>1, <2>2, <2>3, <2>4, <2>5, <2>6, <2>7, WorkInv
<1>6. QED
  BY <1>0, <1>4, <1>5

\* The gateway after a write of a restoration.
LEMMA GatewayRestored ==
  ASSUME IInv, governed, w.pc = "restore", NEW t \in w.todo,
         t # "policy" \/ Exists(apim, "api")
  PROVE  LET b == Put(apim, t, RestoredContent(t), Candidate.on)
         IN /\ b \in Gateways /\ GateOK(b) /\ Admits(b) \subseteq Reviewed
            /\ \A x \in Things : b.at[x] = IF x = t THEN RestoredContent(t) ELSE apim.at[x]
            /\ b.rules = IF t = "fragment" THEN Candidate.on ELSE apim.rules
            /\ b.at["api"] = "theirs" => apim.at["api"] = "theirs"
<1> DEFINE c == RestoredContent(t)
           b == Put(apim, t, c, Candidate.on)
           e == Effect(t, c)
<1>0. /\ t \in Things /\ c \in Contents /\ c # "absent" /\ Candidate.on \in SUBSET Grants
      /\ apim \in Gateways
  <2>1. t \in Things /\ apim \in Gateways
    BY DEF IInv, TypeOK, Workers
  <2>2. c \in {"access", "open", "keyed", "active"}
    BY <2>1, RestoredTyped
  <2>3. QED
    BY <2>1, <2>2, RulesReviewed DEF Contents
<1>1. e \in Effects /\ e.thing = t /\ e.to = c
  BY <1>0, EffectIs
<1>2. Harmless(e, Candidate.on)
  BY RestoreHarmless
<1>3. /\ b \in Gateways
      /\ \A x \in Things : b.at[x] = IF x = t THEN c ELSE apim.at[x]
      /\ b.rules = IF t = "fragment" THEN Candidate.on ELSE apim.rules
  BY <1>0, PutDoes
<1>4. b = Landed(apim, e, Candidate.on)
  BY <1>0, <1>1 DEF Landed
<1>5. /\ GateOK(b) /\ Admits(b) \subseteq Reviewed
      /\ b.at["api"] = "theirs" => apim.at["api"] = "theirs"
  BY <1>0, <1>1, <1>2, <1>4, HarmlessLands
<1>6. QED
  BY <1>3, <1>5

LEMMA RestoreInv == ASSUME IInv, NEW t \in Things, Restore(t) PROVE IInv'
<1> DEFINE owned == IF t = "fragment" THEN w.owned \union {t} ELSE w.owned
           steps == w.steps \union (owned \ w.owned)
           todo  == w.todo \ {t}
           b     == Put(apim, t, RestoredContent(t), Candidate.on)
           there == t # "policy" \/ Exists(apim, "api")
<1>0. /\ w.pc = "restore" /\ t \in w.todo /\ lock = "run" /\ governed
      /\ UNCHANGED <<governed, desired, plan, teardown, lock, keyjob, inflight, runs, edits, left>>
      /\ w \in Workers /\ w.owned \in SUBSET Things /\ owned \in SUBSET Things
      /\ steps \in SUBSET Things /\ todo \in SUBSET Things
      /\ w.owned \subseteq owned /\ owned \subseteq w.owned \union {"fragment"}
      /\ w.steps \subseteq steps /\ steps \subseteq w.steps \union {"fragment"}
      /\ apim \in Gateways /\ pub \in Publications /\ run \in RunRecords
      /\ w.i \in 0..4 /\ w.i # 0
  BY DEF Restore, IInv, TypeOK, Workers, Counting
<1>1. \/ /\ there /\ apim' = b /\ Progress(owned, steps)
         /\ w' = [w EXCEPT !.todo = todo, !.owned = owned, !.steps = steps]
         /\ UNCHANGED faults
      \/ /\ there /\ Fault /\ apim' \in {apim, b}
         /\ w' \in {[w EXCEPT !.pc = "redeny"],
                    [w EXCEPT !.pc = "redeny", !.owned = owned, !.steps = steps]}
         /\ UNCHANGED <<pub, run>>
      \/ /\ ~there
         /\ w' = [w EXCEPT !.pc = "redeny"]
         /\ UNCHANGED <<apim, pub, run, faults>>
  BY DEF Restore, Written
<1>2. /\ GateOK(apim) /\ Mine /\ Narrow /\ Journal /\ Restoration
      /\ "api" \in w.owned /\ w.denied /\ ~w.restored
  BY <1>0 DEF IInv, GInv, Restoration
<1>3. there => /\ b \in Gateways /\ GateOK(b) /\ Admits(b) \subseteq Reviewed
               /\ \A x \in Things : b.at[x] = IF x = t THEN RestoredContent(t) ELSE apim.at[x]
               /\ b.rules = IF t = "fragment" THEN Candidate.on ELSE apim.rules
               /\ b.at["api"] = "theirs" => apim.at["api"] = "theirs"
  BY <1>0, GatewayRestored
<1> HIDE DEF owned, steps, todo, b, there
<1>4. CASE /\ there /\ apim' = b /\ Progress(owned, steps)
           /\ w' = [w EXCEPT !.todo = todo, !.owned = owned, !.steps = steps]
           /\ UNCHANGED faults
  <2>1. /\ w' \in Workers /\ w'.pc = "restore" /\ w'.i = w.i /\ w'.todo = todo
        /\ w'.owned = owned /\ w'.steps = steps /\ w'.denied = w.denied
        /\ w'.restored = w.restored
    BY <1>0, <1>4 DEF Workers
  <2>2. /\ pub' \in Publications /\ pub'.owned = owned /\ pub'.applied = pub.applied
        /\ run' \in RunRecords /\ run'.steps = steps
    BY <1>0, <1>4, ProgressDoes DEF IInv
  <2>3. TypeOK'
    BY <1>0, <1>3, <1>4, <2>1, <2>2 DEF IInv, TypeOK
  <2>4. Counting'
    BY <1>0, <2>1 DEF Counting
  <2>5. GateOK(apim)' /\ Mine' /\ Narrow' /\ Journal'
    BY <1>0, <1>2, <1>3, <1>4, <2>1, <2>2 DEF Mine, Narrow, Journal, Evidence, Reviewed
  <2>6. Restoration'
    <3>1. Candidate' = Candidate
      BY <1>0 DEF Candidate
    <3>2. /\ w.todo \subseteq RestoreThings(w.i)
          /\ w.i > 1 => Fragment(Candidate.on)
          /\ w.i > 2 => apim.at["policy"] = "access"
      BY <1>0, <1>2 DEF Restoration, Past
    <3>3. /\ w.i = 1 <=> t = "fragment"
          /\ w.i = 2 <=> t = "policy"
      BY <1>0, <3>2, PartsAreThings DEF RestoreThings
    <3>4. (t = "fragment" => RestoredContent(t) = "access")
          /\ (t = "policy" => RestoredContent(t) = "access")
      BY DEF RestoredContent
    <3>5. /\ apim'.at["fragment"] =
               IF t = "fragment" THEN RestoredContent(t) ELSE apim.at["fragment"]
          /\ apim'.at["policy"] = IF t = "policy" THEN RestoredContent(t) ELSE apim.at["policy"]
          /\ apim'.rules = IF t = "fragment" THEN Candidate.on ELSE apim.rules
      BY <1>3, <1>4 DEF Parts, Things
    <3>6. w.i >= 1 => Fragment(Candidate.on)'
      BY <1>0, <3>1, <3>2, <3>3, <3>4, <3>5 DEF Fragment
    <3>7. w.i >= 2 => apim'.at["policy"] = "access"
      BY <1>0, <3>2, <3>3, <3>4, <3>5
    <3>8. (Past(1)' => w.i >= 1) /\ (Past(2)' => w.i >= 2)
      BY <1>0, <2>1 DEF Past
    <3>9. todo \subseteq RestoreThings(w.i)
      BY <3>2 DEF todo
    <3>10. QED
      BY <1>0, <1>2, <2>1, <3>6, <3>7, <3>8, <3>9 DEF Restoration
  <2>7. Outcome' /\ Applying' /\ Writing' /\ Teardown'
    BY <2>1 DEF Outcome, Applying, Writing, Teardown
  <2>8. QED
    BY <1>0, <2>1, <2>3, <2>4, <2>5, <2>6, <2>7, WorkInv
<1>5. CASE /\ apim' = apim \/ (there /\ apim' = b)
           /\ w' \in {[w EXCEPT !.pc = "redeny"],
                      [w EXCEPT !.pc = "redeny", !.owned = owned, !.steps = steps]}
           /\ UNCHANGED <<pub, run>> /\ (Fault \/ UNCHANGED faults)
  <2>1. /\ w' \in Workers /\ w'.pc = "redeny" /\ w'.owned \in {w.owned, owned}
        /\ w'.steps \in {w.steps, steps} /\ w'.denied = w.denied /\ w'.restored = w.restored
    <3>1. CASE w' = [w EXCEPT !.pc = "redeny"]
      BY <1>0, <3>1 DEF Workers
    <3>2. CASE w' = [w EXCEPT !.pc = "redeny", !.owned = owned, !.steps = steps]
      BY <1>0, <3>2 DEF Workers
    <3>3. QED
      BY <1>5, <3>1, <3>2
  <2>2. faults' \in 0..MaxFaults
    BY <1>5, BoundsAssumption DEF Fault, IInv, TypeOK
  <2>3. TypeOK'
    BY <1>0, <1>3, <1>5, <2>1, <2>2 DEF IInv, TypeOK
  <2>4. Counting'
    BY <1>0, <2>1 DEF Counting
  <2>5. GateOK(apim)' /\ Mine' /\ Narrow' /\ Journal'
    <3>1. GateOK(apim)' /\ Narrow'
      BY <1>0, <1>2, <1>3, <1>5 DEF Narrow, Reviewed
    <3>2. "api" \in Evidence /\ Evidence' = Evidence
      BY <1>0, <1>2, <1>5 DEF Journal, Evidence
    <3>3. Mine'
      BY <1>0, <1>2, <1>3, <1>5, <2>1, <3>2 DEF Mine
    <3>4. Journal'
      BY <1>0, <1>2, <1>5, <2>1 DEF Journal
    <3>5. QED
      BY <3>1, <3>3, <3>4
  <2>6. Outcome' /\ Restoration' /\ Applying' /\ Writing' /\ Teardown'
    BY <1>2, <2>1 DEF Outcome, Restoration, Applying, Writing, Teardown
  <2>7. QED
    BY <1>0, <2>1, <2>3, <2>4, <2>5, <2>6, WorkInv
<1>6. QED
  BY <1>1, <1>4, <1>5

\* The outcome that is recorded is what the gateway admits, or it is unknown and the lock stays.
LEMMA SettleInv == ASSUME IInv, Settle PROVE IInv'
<1> DEFINE applied == IF ~w.denied THEN pub.applied
                      ELSE IF w.restored THEN Candidate ELSE Denied(plan.target)
<1>0. /\ w.pc = "settle" /\ lock = "run" /\ inflight = {} /\ keyjob.pc = "idle" /\ governed
      /\ UNCHANGED <<governed, desired, apim, plan, teardown, lock, keyjob, inflight, runs, edits,
                     faults, left>>
      /\ w \in Workers /\ w.owned \in SUBSET Things /\ w.steps \in SUBSET Things
      /\ pub \in Publications /\ run \in RunRecords /\ plan \in Plans
      /\ plan.target \in Snapshots
  BY AtWork DEF Settle, IInv, TypeOK, Workers, Counting, Plans
<1>1. applied \in Snapshots
  BY <1>0, CandidateType, DeniedType DEF Publications
<1>2. /\ pub' \in Publications /\ pub'.owned = w.owned /\ pub'.applied = applied
      /\ pub'.status = "failed"
  <2>1. pub' = [pub EXCEPT !.status = "failed", !.owned = w.owned,
                           !.access = IF w.denied THEN "failed" ELSE "unknown",
                           !.applied = applied]
    BY DEF Settle
  <2> HIDE DEF applied
  <2>2. QED
    BY <1>0, <1>1, <2>1 DEF Publications
<1>3. run' \in RunRecords /\ run'.steps = w.steps
  BY <1>0 DEF Settle, RunRecords
<1>4. GateOK(apim) /\ Mine /\ Narrow /\ Outcome
  BY <1>0 DEF IInv, GInv
<1>5. CASE w.denied
  <2>1. /\ w' \in Workers /\ w'.pc = "release" /\ w'.owned = w.owned /\ w'.steps = w.steps
    BY <1>0, <1>5 DEF Settle, Workers
  <2>2. TypeOK'
    BY <1>0, <1>2, <1>3, <2>1 DEF IInv, TypeOK
  <2>3. Counting'
    BY <2>1 DEF Counting
  <2>4. /\ Admits(apim) \subseteq applied.on
        /\ Admits(apim) \subseteq plan.base.on \intersect plan.target.on
    <3>1. CASE w.restored
      <4>1. Admits(apim) \subseteq Candidate.on /\ applied = Candidate
        BY <1>0, <1>4, <1>5, <3>1 DEF Outcome
      <4>2. QED
        BY <1>0, <4>1, CandidateType
    <3>2. CASE ~w.restored
      BY <1>0, <1>4, <1>5, <3>2 DEF Outcome
    <3>3. QED
      BY <3>1, <3>2
  <2> HIDE DEF applied
  <2>5. Mine' /\ Narrow'
    BY <1>0, <1>2, <1>3, <1>4, <2>1, <2>4 DEF Mine, Narrow, Evidence, Reviewed
  <2>6. Outcome'
    BY <1>0, <1>2, <2>1, <2>4 DEF Outcome
  <2>7. Applying' /\ Writing' /\ Journal' /\ Restoration' /\ Teardown'
    BY <2>1 DEF Applying, Writing, Journal, Restoration, Teardown
  <2>8. QED
    BY <1>0, <1>4, <2>1, <2>2, <2>3, <2>5, <2>6, <2>7, WorkInv
<1>6. CASE ~w.denied
  <2>1. w' = Idle /\ w'.pc = "idle" /\ w'.owned = {} /\ w'.steps = {} /\ pub'.applied = pub.applied
    BY <1>2, <1>6 DEF Settle, Idle
  <2>2. TypeOK'
    BY <1>0, <1>2, <1>3, <2>1, IdleType DEF IInv, TypeOK
  <2>3. Locking' /\ Counting'
    BY <1>0, <2>1 DEF Locking, Counting
  <2>4. Mine' /\ Narrow' /\ Landing'
    BY <1>0, <1>2, <1>3, <1>4, <2>1 DEF Mine, Narrow, Landing, Evidence, Reviewed
  <2>5. GInv'
    BY <1>0, <1>4, <2>1, <2>4 DEF GInv, Applying, Writing, Journal, Restoration, Outcome, Teardown
  <2>6. QED
    BY <2>2, <2>3, <2>5 DEF IInv
<1>7. QED
  BY <1>0, <1>5, <1>6 DEF Workers

-----------------------------------------------------------------------------
(* Taking resources away.                                                  *)

\* A removal opens nothing, unless it takes the policy of an open API.
LEMMA DropKeeps ==
  ASSUME NEW a \in Gateways, GateOK(a), NEW t \in Things, t = "policy" => a.at["api"] # "open"
  PROVE  LET b == Drop(a, t)
         IN /\ b \in Gateways /\ GateOK(b)
            /\ Exposed(b) => Exposed(a) /\ t # "api"
            /\ b.at["api"] = "theirs" => a.at["api"] = "theirs"
            /\ b.at["api"] = "open" => a.at["api"] = "open" /\ t # "api"
            /\ Admits(b) \subseteq Admits(a)
<1> DEFINE b == Drop(a, t)
<1>1. /\ b \in Gateways
      /\ \A x \in {"api", "policy", "fragment"} : b.at[x] =
           IF x = t \/ (t = "api" /\ x = "policy") THEN "absent" ELSE a.at[x]
      /\ b.rules = IF t = "fragment" THEN {} ELSE a.rules
  <2>1. /\ b \in Gateways
        /\ \A x \in Things : b.at[x] =
             IF x = t \/ (t = "api" /\ x = "policy") THEN "absent" ELSE a.at[x]
        /\ b.rules = IF t = "fragment" THEN {} ELSE a.rules
    BY DropDoes
  <2>2. "api" \in Things /\ "policy" \in Things /\ "fragment" \in Things
    BY DEF Parts, Things
  <2> HIDE DEF b
  <2>3. QED
    BY <2>1, <2>2
<1> HIDE DEF b
<1>2. GateOK(b) /\ (Exposed(b) => Exposed(a) /\ t # "api")
  <2>1. CASE t = "api"
    <3>1. b.at["api"] = "absent" /\ b.at["policy"] = "absent"
      BY <1>1, <2>1
    <3>2. QED
      BY <3>1 DEF GateOK, Exposed
  <2>2. CASE t = "policy"
    <3>1. b.at["api"] = a.at["api"] /\ b.at["policy"] = "absent"
      BY <1>1, <2>2
    <3>2. QED
      BY <2>2, <3>1 DEF GateOK, Exposed
  <2>3. CASE t # "api" /\ t # "policy"
    <3>1. b.at["api"] = a.at["api"] /\ b.at["policy"] = a.at["policy"]
      BY <1>1, <2>3
    <3>2. QED
      BY <2>3, <3>1 DEF GateOK, Exposed
  <2>4. QED
    BY <2>1, <2>2, <2>3
<1>3. Admits(b) \subseteq Admits(a)
  <2>1. CASE b.at["policy"] = "access" /\ b.at["fragment"] = "access"
    <3>1. a.at["policy"] = "access" /\ a.at["fragment"] = "access" /\ b.rules = a.rules
      BY <1>1, <2>1
    <3>2. QED
      BY <1>1, <1>2, <2>1, <3>1, WhoIsAdmitted
  <2>2. CASE ~(b.at["policy"] = "access" /\ b.at["fragment"] = "access")
    BY <1>1, <1>2, <2>2, WhoIsAdmitted
  <2>3. QED
    BY <2>1, <2>2
<1>4. QED
  BY <1>1, <1>2, <1>3 DEF b

\* Only a plain publication rolls back.
LEMMA RollBackInv == ASSUME IInv, NEW t \in Things, RollBack(t) PROVE IInv'
<1> DEFINE kept == w.kept \ {t}
           less == w.was \ {t}
           more == w.was \union {t}
<1>0. /\ w.pc = "rollback" /\ ~governed
      /\ UNCHANGED <<governed, desired, pub, plan, teardown, lock, run, keyjob, inflight, runs,
                     edits, left>>
      /\ w \in Workers /\ kept \in SUBSET Things /\ less \in SUBSET Things
      /\ more \in SUBSET Things /\ apim \in Gateways
  BY DEF RollBack, IInv, TypeOK, Workers, Counting
<1>1. Drop(apim, t) \in Gateways
  BY <1>0, DropDoes
<1>2. apim' \in Gateways
  BY <1>0, <1>1 DEF RollBack, Removed
<1>3. faults' \in 0..MaxFaults
  BY BoundsAssumption DEF RollBack, Fault, IInv, TypeOK
<1>4. \/ w' = [w EXCEPT !.kept = kept, !.was = less]
      \/ w' = [w EXCEPT !.kept = kept, !.was = more, !.errors = TRUE]
  BY DEF RollBack
<1> HIDE DEF kept, less, more
<1>5. w' \in Workers /\ w'.pc = "rollback"
  BY <1>0, <1>4 DEF Workers
<1>6. TypeOK'
  BY <1>0, <1>2, <1>3, <1>5 DEF IInv, TypeOK
<1>7. Counting'
  BY <1>0, <1>5 DEF Counting
<1>8. QED
  BY <1>0, <1>5, <1>6, <1>7, WorkInv

LEMMA RolledBackInv == ASSUME IInv, RolledBack PROVE IInv'
<1>0. /\ w.pc = "rollback" /\ ~governed
      /\ UNCHANGED <<governed, desired, apim, plan, teardown, lock, keyjob, inflight, runs, edits,
                     faults, left>>
      /\ w \in Workers /\ w.was \in SUBSET Things /\ w.steps \in SUBSET Things
      /\ pub \in Publications /\ run \in RunRecords
  BY DEF RolledBack, IInv, TypeOK, Workers, Counting
<1>1. pub' \in Publications
  BY <1>0 DEF RolledBack, Publications
<1>2. run' \in RunRecords
  BY <1>0 DEF RolledBack, RunRecords
<1>3. w' \in Workers /\ w'.pc = "release"
  BY <1>0 DEF RolledBack, Workers
<1>4. TypeOK'
  BY <1>0, <1>1, <1>2, <1>3 DEF IInv, TypeOK
<1>5. Counting'
  BY <1>3 DEF Counting
<1>6. QED
  BY <1>0, <1>3, <1>4, <1>5, WorkInv

\* Nothing is removed unless every call is denied.
LEMMA GuardInv == ASSUME IInv, Guard PROVE IInv'
<1>0. /\ w.pc = "guard" /\ lock = "run"
      /\ UNCHANGED <<governed, desired, pub, plan, teardown, lock, run, keyjob, inflight, runs,
                     edits, left>>
      /\ w \in Workers /\ w.owned \in SUBSET Things
  BY DEF Guard, IInv, TypeOK, Workers
<1>1. PICK o \in {Guarded(apim, w.owned)} \union GuardFails(apim, w.owned) :
      \E keys \in SUBSET Keys(w.owned), clean \in BOOLEAN :
        /\ apim' = Suspended(o.apim, keys)
        /\ Fault \/ UNCHANGED faults
        /\ w' = [w EXCEPT !.pc = IF o.denied THEN "remove" ELSE "stuck", !.errors = ~clean]
  <2>1. \A o, keys : (o = Guarded(apim, w.owned) /\ keys = Keys(w.owned)) \in BOOLEAN
    OBVIOUS
  <2>2. QED
    BY <2>1 DEF Guard
<1>2. PICK keys \in SUBSET Keys(w.owned), clean \in BOOLEAN :
        /\ apim' = Suspended(o.apim, keys)
        /\ Fault \/ UNCHANGED faults
        /\ w' = [w EXCEPT !.pc = IF o.denied THEN "remove" ELSE "stuck", !.errors = ~clean]
  BY <1>1
<1>3. /\ governed /\ apim' \in Gateways /\ GateOK(apim')
      /\ apim'.at["api"] = apim.at["api"]
      /\ Exposed(apim') => Exposed(apim)
      /\ Admits(apim') \subseteq Admits(apim)
      /\ o.denied => Admits(apim') = {}
      /\ o.denied \in BOOLEAN
  BY <1>0, <1>2, WorkerDenies
<1>4. faults' \in 0..MaxFaults
  BY <1>2, BoundsAssumption DEF Fault, IInv, TypeOK
<1>5. Mine /\ Narrow /\ w.todo = w.owned
  BY <1>0, <1>3 DEF IInv, GInv, Teardown
<1>6. /\ w' \in Workers /\ w'.pc = IF o.denied THEN "remove" ELSE "stuck"
      /\ w'.todo = w.todo /\ w'.owned = w.owned /\ w'.steps = w.steps
  BY <1>0, <1>2, <1>3 DEF Workers
<1>7. TypeOK'
  BY <1>0, <1>3, <1>4, <1>6 DEF IInv, TypeOK
<1>8. Counting' /\ w'.pc \in {"remove", "stuck"}
  BY <1>0, <1>6 DEF Counting
<1>9. Mine' /\ Narrow'
  BY <1>0, <1>3, <1>5, <1>6 DEF Mine, Narrow, Evidence, Reviewed
<1>10. Teardown'
  <2>1. apim.at["api"] = "open" => "api" \in w.todo
    BY <1>0, <1>5 DEF Mine, Exposed
  <2>2. QED
    BY <1>3, <1>6, <1>8, <2>1 DEF Teardown
<1>11. Applying' /\ Writing' /\ Journal' /\ Restoration' /\ Outcome'
  BY <1>8 DEF Applying, Writing, Journal, Restoration, Outcome
<1>12. QED
  BY <1>0, <1>3, <1>7, <1>8, <1>9, <1>10, <1>11, WorkInv

\* The API goes first, so that the denial stays until it is gone.
LEMMA RemoveInv == ASSUME IInv, NEW t \in Things, Remove(t) PROVE IInv'
<1> DEFINE b     == Drop(apim, t)
           rest  == w.todo \ {t}
           still == IF governed THEN {} ELSE rest
           owned == w.owned \ {t}
<1>0. /\ w.pc = "remove" /\ lock = "run" /\ t \in NextRemoved(w.todo)
      /\ UNCHANGED <<governed, desired, plan, teardown, lock, keyjob, inflight, runs, edits, left>>
      /\ w \in Workers /\ w.owned \in SUBSET Things /\ w.steps \in SUBSET Things
      /\ rest \in SUBSET Things /\ still \in SUBSET Things /\ owned \in SUBSET Things
      /\ apim \in Gateways
  BY DEF Remove, IInv, TypeOK, Workers
<1>1. \/ /\ apim' = b /\ Progress(owned, w.steps)
         /\ w' = [w EXCEPT !.todo = rest, !.owned = owned]
         /\ UNCHANGED faults
      \/ /\ Fault /\ apim' \in {apim, b} /\ Progress(w.owned, w.steps)
         /\ w' = [w EXCEPT !.todo = still, !.errors = TRUE]
  BY DEF Remove, Removed
<1>2. t \in w.todo /\ (governed /\ "api" \in w.todo => t = "api")
  BY <1>0 DEF NextRemoved
<1>3. b \in Gateways
  BY <1>0, DropDoes
<1>4. ASSUME governed
      PROVE  /\ Mine /\ Narrow /\ GateOK(apim) /\ Admits(apim) = {} /\ GateOK(b)
             /\ Exposed(b) => Exposed(apim) /\ t # "api"
             /\ b.at["api"] = "theirs" => apim.at["api"] = "theirs"
             /\ b.at["api"] # "open" /\ Admits(b) = {}
  <2>1. /\ Mine /\ Narrow /\ GateOK(apim) /\ Admits(apim) = {}
        /\ apim.at["api"] = "open" => "api" \in w.todo
    BY <1>0, <1>2, <1>4 DEF IInv, GInv, Teardown
  <2>2. apim.at["api"] = "open" => t = "api"
    BY <1>2, <1>4, <2>1
  <2>3. /\ GateOK(b)
        /\ Exposed(b) => Exposed(apim) /\ t # "api"
        /\ b.at["api"] = "theirs" => apim.at["api"] = "theirs"
        /\ b.at["api"] = "open" => apim.at["api"] = "open" /\ t # "api"
        /\ Admits(b) \subseteq Admits(apim)
    BY <1>0, <2>1, <2>2, DropKeeps
  <2> HIDE DEF b
  <2>4. QED
    BY <2>1, <2>2, <2>3
<1>5. still \subseteq rest /\ (governed => still = {}) /\ owned \subseteq w.owned
      /\ w.owned \subseteq owned \union {t}
  OBVIOUS
<1>6. faults' \in 0..MaxFaults
  BY <1>1, BoundsAssumption DEF Fault, IInv, TypeOK
<1> HIDE DEF b, rest, still, owned
<1>7. /\ w' \in Workers /\ w'.pc = "remove" /\ w'.steps = w.steps
      /\ \/ w'.owned = owned /\ apim' = b
         \/ w'.owned = w.owned /\ apim' \in {apim, b} /\ w'.todo = still
  <2>1. CASE /\ apim' = b
             /\ w' = [w EXCEPT !.todo = rest, !.owned = owned]
    BY <1>0, <2>1 DEF Workers
  <2>2. CASE /\ apim' \in {apim, b}
             /\ w' = [w EXCEPT !.todo = still, !.errors = TRUE]
    BY <1>0, <2>2 DEF Workers
  <2>3. QED
    BY <1>1, <2>1, <2>2
<1>8. /\ pub' \in Publications /\ pub'.owned = w'.owned /\ pub'.applied = pub.applied
      /\ run' \in RunRecords /\ run'.steps = w.steps
  <2>1. CASE /\ Progress(owned, w.steps) /\ w' = [w EXCEPT !.todo = rest, !.owned = owned]
    <3>1. w'.owned = owned
      BY <1>0, <2>1 DEF Workers
    <3>2. QED
      BY <1>0, <2>1, <3>1, ProgressDoes DEF IInv
  <2>2. CASE /\ Progress(w.owned, w.steps) /\ w' = [w EXCEPT !.todo = still, !.errors = TRUE]
    <3>1. w'.owned = w.owned
      BY <1>0, <2>2 DEF Workers
    <3>2. QED
      BY <1>0, <2>2, <3>1, ProgressDoes DEF IInv
  <2>3. QED
    BY <1>1, <2>1, <2>2
<1>9. TypeOK'
  BY <1>0, <1>3, <1>6, <1>7, <1>8 DEF IInv, TypeOK
<1>10. Counting'
  BY <1>7 DEF Counting
<1>11. ASSUME governed
       PROVE  (/\ GateOK(apim) /\ Mine /\ Narrow /\ Applying /\ Writing /\ Journal
               /\ Restoration /\ Outcome /\ Teardown)'
  <2>1. GateOK(apim)' /\ Admits(apim') = {}
    BY <1>4, <1>7, <1>11
  <2>2. Narrow'
    BY <2>1 DEF Narrow
  <2>3. Mine'
    <3>1. Exposed(apim') => "api" \in w'.owned
      <4>1. CASE w'.owned = owned /\ apim' = b
        BY <1>0, <1>4, <1>5, <1>11, <4>1 DEF Mine
      <4>2. CASE w'.owned = w.owned /\ apim' \in {apim, b}
        BY <1>0, <1>4, <1>11, <4>2 DEF Mine
      <4>3. QED
        BY <1>7, <4>1, <4>2
    <3>2. Evidence' = w'.owned \union w.steps /\ w'.owned \subseteq w.owned
      BY <1>0, <1>5, <1>7, <1>8 DEF Evidence
    <3>3. apim'.at["api"] = "theirs" => apim.at["api"] = "theirs"
      BY <1>4, <1>7, <1>11
    <3>4. QED
      BY <1>4, <1>7, <1>11, <3>1, <3>2, <3>3 DEF Mine
  <2>4. Teardown'
    BY <1>4, <1>5, <1>7, <1>11, <2>1 DEF Teardown
  <2>5. Applying' /\ Writing' /\ Journal' /\ Restoration' /\ Outcome'
    BY <1>7 DEF Applying, Writing, Journal, Restoration, Outcome
  <2>6. QED
    BY <2>1, <2>2, <2>3, <2>4, <2>5
<1>12. QED
  BY <1>0, <1>7, <1>9, <1>10, <1>11, WorkInv

\* What is recorded once nothing is left to remove.
LEMMA UnpublishedInv == ASSUME IInv, Unpublished PROVE IInv'
<1> DEFINE applied == Withdrawn(pub.applied)
<1>0. /\ w.pc = "remove" /\ lock = "run"
      /\ UNCHANGED <<governed, desired, apim, plan, teardown, lock, keyjob, inflight, runs, edits,
                     faults, left>>
      /\ w \in Workers /\ w.owned \in SUBSET Things
      /\ pub \in Publications /\ pub.applied \in Snapshots /\ run \in RunRecords
  BY AtWork DEF Unpublished, IInv, TypeOK, Workers, Publications
<1>1. applied \in Snapshots
  <2>1. Denied(pub.applied) \in Snapshots /\ pub.applied.ver + 1 \in Nat
    BY <1>0, DeniedType DEF Snapshots
  <2>2. QED
    BY <1>0, <2>1 DEF Withdrawn, Snapshots
<1>2. pub' \in Publications /\ pub'.owned = w.owned
  <2>1. pub' = [pub EXCEPT !.status = IF w.errors THEN "failed" ELSE "draft", !.owned = w.owned,
                  !.access = IF ~governed THEN @ ELSE IF w.errors THEN "failed" ELSE "applied",
                  !.applied = applied]
    BY <1>0 DEF Unpublished, Publications
  <2> HIDE DEF applied
  <2>2. QED
    BY <1>0, <1>1, <2>1 DEF Publications
<1>3. run' \in RunRecords /\ run'.steps = run.steps
  BY <1>0 DEF Unpublished, RunRecords
<1>4. /\ w' \in Workers /\ w'.pc = "release" /\ w'.owned = w.owned /\ w'.steps = w.steps
  BY <1>0 DEF Unpublished, Workers
<1>5. TypeOK'
  BY <1>0, <1>2, <1>3, <1>4 DEF IInv, TypeOK
<1>6. Counting'
  BY <1>4 DEF Counting
<1>7. ASSUME governed
      PROVE  (/\ GateOK(apim) /\ Mine /\ Narrow /\ Applying /\ Writing /\ Journal
              /\ Restoration /\ Outcome /\ Teardown)'
  <2>1. GateOK(apim) /\ Mine /\ Admits(apim) = {}
    BY <1>0, <1>7 DEF IInv, GInv, Teardown
  <2>2. Mine' /\ Narrow' /\ Outcome'
    BY <1>0, <1>2, <1>3, <1>4, <2>1 DEF Mine, Narrow, Outcome, Evidence
  <2>3. Applying' /\ Writing' /\ Journal' /\ Restoration' /\ Teardown'
    BY <1>4 DEF Applying, Writing, Journal, Restoration, Teardown
  <2>4. QED
    BY <1>0, <2>1, <2>2, <2>3
<1>8. QED
  BY <1>0, <1>4, <1>5, <1>6, <1>7, WorkInv

-----------------------------------------------------------------------------
(* Every step.                                                             *)

LEMMA WorkerInv == ASSUME IInv, Worker PROVE IInv'
<1>1. CASE NextStage \/ Succeed \/ Write \/ Record \/ Release
  BY <1>1, NextStageInv, SucceedInv, WriteInv, RecordInv, ReleaseInv
<1>2. ASSUME NEW t \in Things, Begin(t) \/ Restore(t) \/ RollBack(t) \/ Remove(t) PROVE IInv'
  BY <1>2, BeginInv, RestoreInv, RollBackInv, RemoveInv
<1>3. ASSUME NEW g \in Grants, DeleteRevokedKey(g) PROVE IInv'
  BY <1>3, DeleteRevokedKeyInv
<1>4. CASE Deny \/ NextRestored \/ Redeny \/ Settle \/ RolledBack \/ Guard \/ Unpublished
  BY <1>4, DenyInv, NextRestoredInv, RedenyInv, SettleInv, RolledBackInv, GuardInv, UnpublishedInv
<1>5. QED
  BY <1>1, <1>2, <1>3, <1>4 DEF Worker

LEMMA StepInv == IInv /\ [Next]_vars => IInv'
<1> SUFFICES ASSUME IInv, [Next]_vars PROVE IInv'
  OBVIOUS
<1>1. ASSUME NEW g \in Grants, NEW to \in {"on", "off", "revoked"}, ChangeGrants(g, to) PROVE IInv'
  BY <1>1, ChangeGrantsInv
<1>2. ASSUME NEW t \in Parts, CustomerCreates(t) PROVE IInv'
  BY <1>2, CustomerCreatesInv
<1>3. CASE Update \/ Delete \/ Plan \/ PlanUnpublish \/ Apply \/ Unpublish \/ Reap
  BY <1>3, UpdateInv, DeleteInv, PlanInv, PlanUnpublishInv, ApplyInv, UnpublishInv, ReapInv
<1>4. CASE Worker \/ Stop \/ Land
  BY <1>4, WorkerInv, StopInv, LandInv
<1>5. CASE Operator \/ RecoverFails
  BY <1>5, RecoverInv, RecoverMutationInv, RecoverFailsInv DEF Operator
<1>6. ASSUME NEW g \in Grants, NEW op \in {"create", "delete"}, BeginKey(g, op) PROVE IInv'
  BY <1>6, BeginKeyInv
<1>7. CASE WriteKey \/ StopKey
  BY <1>7, WriteKeyInv, StopKeyInv
<1>8. CASE UNCHANGED vars
  <2>1. TypeOK'
    BY <1>8 DEF IInv, TypeOK, vars
  <2>2. QED
    BY <1>8, <2>1, AsideInv DEF vars
<1>9. QED
  BY <1>1, <1>2, <1>3, <1>4, <1>5, <1>6, <1>7, <1>8 DEF Next

LEMMA Invariance == Spec => []IInv
BY InitInv, StepInv, PTL DEF Spec

-----------------------------------------------------------------------------
(* What MOSAIC made, and what its records say of it.                       *)

\* A policy or a fragment that a failed governed run made may be missing from the records.
Late == IF governed /\ w.pc \notin {"step", "write", "record"} THEN {"policy", "fragment"} ELSE {}

\* The saved records, and the worker's own account of what it owns and may have created.
Books ==
  /\ lock = "run" => apim.made \ Late \subseteq pub.owned \union run.steps \union left
  /\ w.pc \in {"step", "write", "record", "deny", "restore", "redeny", "settle", "guard", "remove"} =>
       apim.made \ Late \subseteq w.owned \union w.steps \union left
  /\ w.pc \in {"step", "write", "record", "guard", "remove"} => run.steps = w.steps
  /\ ~governed /\ w.pc \in {"step", "write", "record", "rollback"} =>
       apim.made \subseteq w.was \union w.steps \union left
  /\ w.pc \in {"write", "record"} =>
       IF w.created THEN w.thing \in w.steps ELSE Exists(apim, w.thing)
  /\ w.pc = "restore" =>
       w.owned = pub.owned /\ w.todo \subseteq w.owned \union {"policy", "fragment"}
  /\ w.pc \in {"guard", "remove"} => w.todo \subseteq w.owned

\* What a write that may still land would make is in the records.
Traced(f) ==
  \/ f.e.to = "absent" \/ Exists(apim, f.e.thing)
  \/ f.e.thing \in pub.owned \union run.steps
  \/ governed /\ f.e.thing \in {"policy", "fragment"}

LInv == Books /\ (lock = "run" => \A f \in inflight : Traced(f))

\* Whatever exists is MOSAIC's making, of what is known and of what no customer makes.
Sound(a, known) ==
  /\ \A t \in a.made : a.at[t] \notin {"absent", "theirs"}
  /\ \A t \in known \union (Things \ Customers) : Exists(a, t) => t \in a.made

\* What the records and the worker take for MOSAIC's.
Believed == Evidence \union w.owned \union w.steps \union w.was \union w.kept

\* A write that may still land deletes only what MOSAIC made, and replaces nothing of a customer's.
Polite(f) ==
  IF f.e.to = "absent" THEN Exists(apim, f.e.thing) => f.e.thing \in apim.made
  ELSE f.e.to # "theirs" /\ (governed => apim.at[f.e.thing] # "theirs")

EInv == Sound(apim, Believed) /\ \A f \in inflight : Polite(f)

\* The stage that keys of the plan are retired or suspended at is over for this one.
KeyDone(g) ==
  IF g \in plan.target.revoked THEN w.i > 4 \/ (w.i = 4 /\ g \notin w.todo)
  ELSE w.i > 5 \/ (w.i = 5 /\ g \notin w.todo)

\* The keys that work while an apply goes on.
KInv ==
  /\ w.pc \in {"step", "write", "record"} =>
       /\ \A g \in Grants \intersect plan.existed :
            KeyDone(g) /\ apim.at[g] = "active" => g \in plan.target.on
       /\ w.i \in {4, 5, 9} => w.todo \subseteq Todo(Stage)
  /\ w.pc = "record" /\ w.i = 5 => apim.at[w.thing] = "suspended"
  /\ PublishedKeys

LEMMA PutMakes ==
  ASSUME NEW a \in Gateways, NEW t \in Things, NEW c \in Contents, c # "absent",
         NEW rules \in SUBSET Grants
  PROVE  LET b == Put(a, t, c, rules)
         IN /\ b.made = IF Exists(a, t) THEN a.made ELSE a.made \union {t}
            /\ \A x \in Things : Exists(b, x) <=> Exists(a, x) \/ x = t
            /\ \A x \in Things : b.at[x] = IF x = t THEN c ELSE a.at[x]
<1>1. \A x \in Things : Put(a, t, c, rules).at[x] = IF x = t THEN c ELSE a.at[x]
  BY PutDoes
<1>2. Put(a, t, c, rules).made = IF Exists(a, t) THEN a.made ELSE a.made \union {t}
  BY DEF Put
<1>3. QED
  BY <1>1, <1>2 DEF Exists

LEMMA DropMakes ==
  ASSUME NEW a \in Gateways, NEW t \in Things
  PROVE  LET b    == Drop(a, t)
             gone == IF t = "api" THEN {"api", "policy"} ELSE {t}
         IN /\ b.made = a.made \ gone
            /\ \A x \in Things : Exists(b, x) <=> Exists(a, x) /\ x \notin gone
            /\ \A x \in Things : b.at[x] = IF x \in gone THEN "absent" ELSE a.at[x]
BY DEF Drop, Exists

LEMMA SuspendedMakes ==
  ASSUME NEW a \in Gateways, NEW keys \in SUBSET Grants
  PROVE  LET b == Suspended(a, keys)
         IN /\ b.made = a.made
            /\ \A x \in Things : Exists(b, x) <=> Exists(a, x)
            /\ \A x \in Things :
                 b.at[x] = IF x \in keys /\ Exists(a, x) THEN "suspended" ELSE a.at[x]
<1> DEFINE b == Suspended(a, keys)
<1>1. b.made = a.made
  BY DEF Suspended, Gateways
<1>2. \A x \in Things : b.at[x] = IF x \in keys /\ Exists(a, x) THEN "suspended" ELSE a.at[x]
  BY DEF Suspended, Gateways
<1>3. QED
  BY <1>1, <1>2 DEF Exists

\* What a denial makes, if it makes anything, is the policy or the fragment.
LEMMA GuardMakes ==
  ASSUME NEW a \in Gateways, NEW owned \in SUBSET Things,
         NEW o \in {Guarded(a, owned)} \union GuardFails(a, owned)
  PROVE  o.apim \in {a, DenyPolicy(a), DenyFragment(a), DenyFragment(DenyPolicy(a))}
<1>2. Guarded(a, owned).apim \in {a, DenyPolicy(a)}
  BY DEF Guarded
<1>3. ASSUME o \in GuardFails(a, owned)
      PROVE  o.apim \in {a, DenyPolicy(a), DenyFragment(a), DenyFragment(DenyPolicy(a))}
  <2> DEFINE first == {a} \union (IF Exists(a, "api") THEN {DenyPolicy(a)} ELSE {})
             kept  == {owned} \union
                        (IF Guardable(a, owned) THEN {Guarded(a, owned).owned} ELSE {})
  <2>1. first \subseteq {a, DenyPolicy(a)}
    OBVIOUS
  <2> DEFINE plainly == {[apim |-> b, owned |-> k, denied |-> FALSE] : b \in first, k \in kept}
             closing == {[apim |-> DenyFragment(b), owned |-> k, denied |-> d] :
                           b \in first, k \in kept, d \in BOOLEAN}
  <2>2. GuardFails(a, owned) =
          IF "api" \notin owned THEN {}
          ELSE plainly \union (IF "fragment" \notin owned THEN {} ELSE closing)
    BY DEF GuardFails
  <2> HIDE DEF first, kept
  <2>3. CASE o \in plainly
    <3>1. PICK b \in first, k \in kept : o = [apim |-> b, owned |-> k, denied |-> FALSE]
      BY <2>3
    <3>2. QED
      BY <2>1, <3>1
  <2>4. CASE o \in closing
    <3>1. PICK b \in first, k \in kept, d \in BOOLEAN :
            o = [apim |-> DenyFragment(b), owned |-> k, denied |-> d]
      BY <2>4
    <3>2. QED
      BY <2>1, <3>1
  <2> HIDE DEF plainly, closing
  <2>5. QED
    BY <1>3, <2>2, <2>3, <2>4
<1>4. QED
  BY <1>2, <1>3

-----------------------------------------------------------------------------
(* What keeps the account sound, and takes nothing over.                   *)

\* What a step may do to what is there: this is the action of TakesNothingOver.
Respects(a, b) ==
  \A t \in Parts :
    /\ Exists(a, t) /\ ~Exists(b, t) => t \in a.made
    /\ governed /\ a.at[t] = "theirs" => b.at[t] = "theirs"

LEMMA SoundPart ==
  ASSUME NEW a, NEW known, NEW part, Sound(a, known), part \subseteq known \union (Things \ Customers)
  PROVE  Sound(a, part)
BY DEF Sound

LEMMA PutSound ==
  ASSUME NEW a \in Gateways, NEW known \in SUBSET Things, Sound(a, known), NEW t \in Things,
         NEW c \in Contents, c \notin {"absent", "theirs"}, NEW rules \in SUBSET Grants
  PROVE  /\ Sound(Put(a, t, c, rules), known)
         /\ (governed => a.at[t] # "theirs") => Respects(a, Put(a, t, c, rules))
<1> DEFINE b == Put(a, t, c, rules)
<1>1. /\ b.made = IF Exists(a, t) THEN a.made ELSE a.made \union {t}
      /\ \A x \in Things : Exists(b, x) <=> Exists(a, x) \/ x = t
      /\ \A x \in Things : b.at[x] = IF x = t THEN c ELSE a.at[x]
  BY PutMakes
<1>2. a.made \in SUBSET Things /\ Parts \subseteq Things
  BY DEF Gateways, Things
<1> HIDE DEF b
<1>3. \A x \in b.made : b.at[x] \notin {"absent", "theirs"}
  BY <1>1, <1>2 DEF Sound
<1>4. \A x \in known \union (Things \ Customers) : Exists(b, x) => x \in b.made
  BY <1>1, <1>2 DEF Sound
<1>5. (governed => a.at[t] # "theirs") => Respects(a, b)
  BY <1>1, <1>2 DEF Respects
<1>6. QED
  BY <1>3, <1>4, <1>5 DEF Sound, b

LEMMA DropSound ==
  ASSUME NEW a \in Gateways, NEW known \in SUBSET Things, Sound(a, known), NEW t \in Things,
         Exists(a, t) => t \in a.made, "policy" \notin Customers
  PROVE  Sound(Drop(a, t), known) /\ Respects(a, Drop(a, t))
<1> DEFINE b    == Drop(a, t)
           gone == IF t = "api" THEN {"api", "policy"} ELSE {t}
<1>1. /\ b.made = a.made \ gone
      /\ \A x \in Things : Exists(b, x) <=> Exists(a, x) /\ x \notin gone
      /\ \A x \in Things : b.at[x] = IF x \in gone THEN "absent" ELSE a.at[x]
  BY DropMakes
<1>2. a.made \in SUBSET Things /\ Parts \subseteq Things /\ "policy" \in Things
  BY DEF Gateways, Parts, Things
<1>3. \A x \in gone : Exists(a, x) => x \in a.made
  BY <1>2 DEF Sound
<1> HIDE DEF b, gone
<1>4. \A x \in b.made : b.at[x] \notin {"absent", "theirs"}
  BY <1>1, <1>2 DEF Sound
<1>5. \A x \in known \union (Things \ Customers) : Exists(b, x) => x \in b.made
  BY <1>1, <1>2 DEF Sound
<1>6. \A x \in gone : a.at[x] # "theirs"
  BY <1>3 DEF Sound, Exists
<1>7. Respects(a, b)
  BY <1>1, <1>2, <1>3, <1>6 DEF Respects
<1>8. QED
  BY <1>4, <1>5, <1>7 DEF Sound, b

LEMMA SuspendedSound ==
  ASSUME NEW a \in Gateways, NEW known \in SUBSET Things, Sound(a, known), NEW keys \in SUBSET Grants
  PROVE  Sound(Suspended(a, keys), known) /\ Respects(a, Suspended(a, keys))
<1> DEFINE b == Suspended(a, keys)
<1>1. /\ b.made = a.made
      /\ \A x \in Things : Exists(b, x) <=> Exists(a, x)
      /\ \A x \in Things : b.at[x] = IF x \in keys /\ Exists(a, x) THEN "suspended" ELSE a.at[x]
  BY SuspendedMakes
<1>2. a.made \in SUBSET Things /\ Parts \subseteq Things /\ keys \intersect Parts = {}
  BY GrantsAssumption DEF Gateways, Things
<1> HIDE DEF b
<1>3. Sound(b, known)
  BY <1>1, <1>2 DEF Sound
<1>4. Respects(a, b)
  BY <1>1, <1>2 DEF Respects
<1>5. QED
  BY <1>3, <1>4 DEF b

-----------------------------------------------------------------------------
(* Denials, and writes that land.                                          *)

\* What a denial, and the suspension of keys after it, can make.
LEMMA DenialMakes ==
  ASSUME NEW a \in Gateways, NEW owned \in SUBSET Things,
         NEW o \in {Guarded(a, owned)} \union GuardFails(a, owned),
         NEW keys \in SUBSET Keys(owned)
  PROVE  LET b == Suspended(o.apim, keys)
         IN /\ b.made \subseteq a.made \union {"policy", "fragment"}
            /\ \A x \in Things : Exists(a, x) => Exists(b, x)
<1>0. "policy" \in Things /\ "fragment" \in Things /\ "deny" \in Contents /\ {} \in SUBSET Grants
      /\ "deny" # "absent" /\ keys \in SUBSET Grants
  BY DEF Parts, Things, Contents, Keys
<1> DEFINE Adds(b, d, t) == /\ d \in Gateways /\ d.made \subseteq b.made \union {t}
                            /\ \A x \in Things : Exists(b, x) => Exists(d, x)
<1>1. ASSUME NEW b \in Gateways, NEW t \in {"policy", "fragment"}
      PROVE  Adds(b, Put(b, t, "deny", {}), t)
  <2> DEFINE d == Put(b, t, "deny", {})
  <2>1. d \in Gateways
    BY <1>0, PutDoes
  <2>2. /\ d.made \subseteq b.made \union {t}
        /\ \A x \in Things : Exists(b, x) => Exists(d, x)
    <3>1. \A x \in Things : d.at[x] = IF x = t THEN "deny" ELSE b.at[x]
      BY <1>0, PutDoes
    <3>2. QED
      BY <3>1 DEF Exists, Put
  <2> HIDE DEF d
  <2>3. Adds(b, d, t)
    BY <2>1, <2>2
  <2>4. QED
    BY <2>3 DEF d
<1> HIDE DEF Adds
<1>2. \A b \in Gateways : Adds(b, DenyPolicy(b), "policy") /\ Adds(b, DenyFragment(b), "fragment")
  BY <1>1 DEF DenyPolicy, DenyFragment
<1>3. \A b \in Gateways :
        /\ DenyPolicy(b) \in Gateways /\ DenyPolicy(b).made \subseteq b.made \union {"policy"}
        /\ \A x \in Things : Exists(b, x) => Exists(DenyPolicy(b), x)
  BY <1>2 DEF Adds
<1>4. \A b \in Gateways :
        /\ DenyFragment(b) \in Gateways /\ DenyFragment(b).made \subseteq b.made \union {"fragment"}
        /\ \A x \in Things : Exists(b, x) => Exists(DenyFragment(b), x)
  BY <1>2 DEF Adds
<1>5. o.apim \in {a, DenyPolicy(a), DenyFragment(a), DenyFragment(DenyPolicy(a))}
  BY GuardMakes
<1> DEFINE p == DenyPolicy(a)
           f == DenyFragment(p)
<1>6. /\ p \in Gateways /\ f \in Gateways
      /\ f.made \subseteq a.made \union {"policy", "fragment"}
      /\ \A x \in Things : Exists(a, x) => Exists(f, x)
  <2>1. /\ p \in Gateways /\ p.made \subseteq a.made \union {"policy"}
        /\ \A x \in Things : Exists(a, x) => Exists(p, x)
    BY <1>3
  <2> HIDE DEF p
  <2>2. /\ f \in Gateways /\ f.made \subseteq p.made \union {"fragment"}
        /\ \A x \in Things : Exists(p, x) => Exists(f, x)
    BY <1>4, <2>1
  <2> HIDE DEF f
  <2>3. QED
    BY <2>1, <2>2
<1>7. /\ o.apim \in Gateways /\ o.apim.made \subseteq a.made \union {"policy", "fragment"}
      /\ \A x \in Things : Exists(a, x) => Exists(o.apim, x)
  <2>1. CASE o.apim = a
    BY <2>1
  <2>2. CASE o.apim = p
    BY <1>3, <2>2
  <2>3. CASE o.apim = DenyFragment(a)
    BY <1>4, <2>3
  <2>4. CASE o.apim = f
    <3> HIDE DEF f
    <3>1. QED
      BY <1>6, <2>4
  <2>5. QED
    BY <1>5, <2>1, <2>2, <2>3, <2>4
<1>8. QED
  BY <1>0, <1>7, SuspendedMakes

\* What is MOSAIC's for sure is no customer's.
LEMMA Ours ==
  ASSUME NEW a \in Gateways, NEW known \in SUBSET Things, Sound(a, known),
         NEW t \in known \union (Things \ Customers)
  PROVE  /\ a.at[t] # "theirs"
         /\ Exists(a, t) => t \in a.made
<1>1. Exists(a, t) => t \in a.made
  BY DEF Sound
<1>2. a.at[t] # "theirs"
  BY <1>1 DEF Sound, Exists
<1>3. QED
  BY <1>1, <1>2

\* A denial writes only a policy and a fragment of MOSAIC's, and removes nothing.
LEMMA DenialSound ==
  ASSUME NEW a \in Gateways, NEW known \in SUBSET Things, Sound(a, known),
         {"policy", "fragment"} \intersect Customers = {}, NEW owned \in SUBSET Things,
         NEW o \in {Guarded(a, owned)} \union GuardFails(a, owned),
         NEW keys \in SUBSET Keys(owned)
  PROVE  LET b == Suspended(o.apim, keys) IN Sound(b, known) /\ Respects(a, b)
<1>0. "policy" \in Things /\ "fragment" \in Things /\ "deny" \in Contents /\ {} \in SUBSET Grants
      /\ "deny" \notin {"absent", "theirs"} /\ keys \in SUBSET Grants
      /\ Parts \subseteq Things
  BY DEF Parts, Things, Contents, Keys
<1> DEFINE Kind(c) == /\ c \in Gateways /\ Sound(c, known)
                      /\ \A x \in Things : Exists(a, x) => Exists(c, x)
                      /\ \A x \in Things : a.at[x] = "theirs" => c.at[x] = "theirs"
<1>1. ASSUME NEW c \in Gateways, Kind(c), NEW t \in {"policy", "fragment"}
      PROVE  Kind(Put(c, t, "deny", {}))
  <2> DEFINE d == Put(c, t, "deny", {})
  <2>1. t \in Things /\ t \in known \union (Things \ Customers)
    BY <1>0
  <2>2. /\ d \in Gateways /\ Sound(d, known)
        /\ \A x \in Things : Exists(c, x) => Exists(d, x)
        /\ \A x \in Things : d.at[x] = IF x = t THEN "deny" ELSE c.at[x]
    <3>1. d \in Gateways /\ \A x \in Things : d.at[x] = IF x = t THEN "deny" ELSE c.at[x]
      BY <1>0, <2>1, PutDoes
    <3>2. \A x \in Things : Exists(c, x) => Exists(d, x)
      BY <3>1 DEF Exists
    <3>3. Sound(d, known)
      BY <1>0, <1>1, <2>1, PutSound
    <3>4. QED
      BY <3>1, <3>2, <3>3
  <2> HIDE DEF d
  <2>3. c.at[t] # "theirs"
    BY <1>1, <2>1, Ours
  <2>4. \A x \in Things : a.at[x] = "theirs" => d.at[x] = "theirs"
    BY <1>1, <2>2, <2>3
  <2>5. \A x \in Things : Exists(a, x) => Exists(d, x)
    BY <1>1, <2>2
  <2>6. Kind(d)
    BY <2>2, <2>4, <2>5
  <2>7. QED
    BY <2>6 DEF d
<1>2. Kind(a)
  OBVIOUS
<1> HIDE DEF Kind
<1>3. \A c \in Gateways : Kind(c) => Kind(DenyPolicy(c)) /\ Kind(DenyFragment(c))
  BY <1>1 DEF DenyPolicy, DenyFragment
<1>4. DenyPolicy(a) \in Gateways
  BY <1>2, <1>3 DEF Kind
<1>5. o.apim \in {a, DenyPolicy(a), DenyFragment(a), DenyFragment(DenyPolicy(a))}
  BY GuardMakes
<1>6. Kind(o.apim)
  BY <1>2, <1>3, <1>4, <1>5
<1> DEFINE b == Suspended(o.apim, keys)
<1>7. /\ Sound(b, known) /\ Respects(o.apim, b)
      /\ \A x \in Things : Exists(b, x) <=> Exists(o.apim, x)
  BY <1>0, <1>6, SuspendedSound, SuspendedMakes DEF Kind
<1> HIDE DEF b
<1>8. ASSUME NEW t \in Parts
      PROVE  /\ Exists(a, t) /\ ~Exists(b, t) => t \in a.made
             /\ governed /\ a.at[t] = "theirs" => b.at[t] = "theirs"
  BY <1>0, <1>6, <1>7 DEF Kind, Respects
<1>9. QED
  BY <1>7, <1>8 DEF Respects, b

\* A write that ends as it was submitted.
LEMMA LandedMakes ==
  ASSUME NEW a \in Gateways, NEW e \in Effects, NEW rules \in SUBSET Grants
  PROVE  LET b == Landed(a, e, rules)
         IN b.made \subseteq IF e.to = "absent" \/ Exists(a, e.thing) THEN a.made
                             ELSE a.made \union {e.thing}
<1>0. e.thing \in Things /\ e.to \in Contents
  BY DEF Effects
<1>1. CASE e.to = "absent"
  <2>1. Drop(a, e.thing).made \subseteq a.made
    BY DEF Drop
  <2>2. QED
    BY <1>1, <2>1 DEF Landed
<1>2. CASE e.to # "absent"
  <2>1. Put(a, e.thing, e.to, rules).made =
          IF Exists(a, e.thing) THEN a.made ELSE a.made \union {e.thing}
    BY DEF Put
  <2>2. QED
    BY <1>2, <2>1 DEF Landed
<1>3. QED
  BY <1>1, <1>2

LEMMA LandedSound ==
  ASSUME NEW a \in Gateways, NEW known \in SUBSET Things, Sound(a, known),
         NEW e \in Effects, NEW rules \in SUBSET Grants, "policy" \notin Customers,
         IF e.to = "absent" THEN Exists(a, e.thing) => e.thing \in a.made
         ELSE e.to # "theirs" /\ (governed => a.at[e.thing] # "theirs")
  PROVE  LET b == Landed(a, e, rules) IN Sound(b, known) /\ Respects(a, b)
<1>0. e.thing \in Things /\ e.to \in Contents
  BY DEF Effects
<1>1. CASE e.to = "absent"
  BY <1>0, <1>1, DropSound DEF Landed
<1>2. CASE e.to # "absent"
  BY <1>0, <1>2, PutSound DEF Landed
<1>3. QED
  BY <1>1, <1>2

-----------------------------------------------------------------------------
(* The account and the gateway, step by step.                              *)

\* No customer has a fragment of the name MOSAIC uses (see Publishing's CustomersAssumption).
OwnFragment == "fragment" \notin Customers

BInv  == LInv /\ (OwnFragment => EInv)
BStep == BInv' /\ (OwnFragment => Respects(apim, apim'))

LEMMA NoCustomers ==
  ASSUME OwnFragment
  PROVE  /\ {"policy", "fragment"} \subseteq Things \ Customers
         /\ {"policy", "fragment"} \intersect Customers = {} /\ "policy" \notin Customers
         /\ Grants \subseteq Things \ Customers
BY CustomersAssumption, GrantsAssumption DEF OwnFragment, Parts, Things

LEMMA Records ==
  ASSUME IInv
  PROVE  /\ w \in Workers /\ apim \in Gateways /\ pub \in Publications /\ run \in RunRecords
         /\ w.owned \in SUBSET Things /\ w.steps \in SUBSET Things /\ w.was \in SUBSET Things
         /\ w.kept \in SUBSET Things /\ w.todo \in SUBSET Things /\ w.thing \in Things
         /\ w.created \in BOOLEAN
         /\ pub.owned \in SUBSET Things /\ run.steps \in SUBSET Things
         /\ apim.made \in SUBSET Things /\ Believed \in SUBSET Things
         /\ Evidence \subseteq Believed
<1>1. /\ w \in Workers /\ apim \in Gateways /\ pub \in Publications /\ run \in RunRecords
  BY DEF IInv, TypeOK
<1>2. /\ w.owned \in SUBSET Things /\ w.steps \in SUBSET Things /\ w.was \in SUBSET Things
      /\ w.kept \in SUBSET Things /\ w.todo \in SUBSET Things /\ w.thing \in Things
      /\ w.created \in BOOLEAN
  BY <1>1 DEF Workers
<1>3. pub.owned \in SUBSET Things /\ run.steps \in SUBSET Things /\ apim.made \in SUBSET Things
  BY <1>1 DEF Publications, RunRecords, Gateways
<1>4. QED
  BY <1>1, <1>2, <1>3 DEF Believed, Evidence

LEMMA RespectsSame == ASSUME NEW a PROVE Respects(a, a)
BY DEF Respects

\* Nothing that the account is about changes.
LEMMA AsideB ==
  ASSUME BInv, UNCHANGED <<governed, apim, pub, lock, run, w, inflight, left>>
  PROVE  BStep
<1>1. LInv'
  BY DEF BInv, LInv, Books, Late, Traced
<1>2. OwnFragment => EInv'
  BY DEF BInv, EInv, Believed, Evidence, Polite
<1>3. QED
  BY <1>1, <1>2, RespectsSame DEF BInv, BStep

LEMMA IdleBelieves ==
  ASSUME IInv, w.pc = "idle"
  PROVE  w = Idle /\ Believed = Evidence /\ (lock # "run" => Believed = pub.owned)
<1>1. w = Idle /\ w.owned = {} /\ w.steps = {} /\ w.was = {} /\ w.kept = {}
  BY DEF IInv, Locking, Idle
<1>2. QED
  BY <1>1 DEF Believed, Evidence

\* With no worker, the account is what the records say.
LEMMA RestB ==
  ASSUME IInv', w'.pc = "idle", OwnFragment => Respects(apim, apim'),
         lock' = "run" => /\ apim'.made \ Late' \subseteq (pub.owned \union run.steps \union left)'
                          /\ \A f \in inflight' : Traced(f)',
         OwnFragment => Sound(apim, Evidence)' /\ \A f \in inflight' : Polite(f)'
  PROVE  BStep
<1>1. Believed' = Evidence'
  <2>1. (w = Idle /\ w.owned = {} /\ w.steps = {} /\ w.was = {} /\ w.kept = {})'
    BY DEF IInv, Locking, Idle
  <2>2. QED
    BY <2>1 DEF Believed, Evidence
<1>2. Books'
  BY DEF Books
<1>3. LInv'
  BY <1>2 DEF LInv
<1>4. OwnFragment => EInv'
  BY <1>1 DEF EInv
<1>5. QED
  BY <1>3, <1>4 DEF BInv, BStep

\* Plans and statuses may change while the lock is free.
LEMMA FreeB ==
  ASSUME IInv, IInv', BInv, UNCHANGED <<governed, apim, lock, w, inflight>>, lock = "none",
         pub'.owned = pub.owned
  PROVE  BStep
<1>1. w.pc = "idle" /\ inflight = {}
  BY DEF IInv, Locking
<1>2. Believed = pub.owned /\ Evidence' = pub.owned
  BY <1>1, IdleBelieves DEF Evidence
<1>3. OwnFragment => Sound(apim, Evidence)'
  BY <1>2 DEF BInv, EInv
<1>4. QED
  BY <1>1, <1>3, RestB, RespectsSame

LEMMA UpdateB == ASSUME IInv, IInv', BInv, Update PROVE BStep
<1>1. pub'.owned = pub.owned
  BY DEF Update, Publications, IInv, TypeOK
<1>2. QED
  BY <1>1, FreeB DEF Update, Unlocked

LEMMA DeleteB == ASSUME IInv, IInv', BInv, Delete PROVE BStep
<1>1. pub'.owned = pub.owned
  BY DEF Delete, Publications, IInv, TypeOK
<1>2. QED
  BY <1>1, FreeB DEF Delete, Unlocked

LEMMA PlanB == ASSUME IInv, IInv', BInv, Plan PROVE BStep
<1>1. pub'.owned = pub.owned
  BY DEF Plan, Publications, IInv, TypeOK
<1>2. QED
  BY <1>1, FreeB DEF Plan, Unlocked

LEMMA ReapB == ASSUME IInv, IInv', BInv, Reap PROVE BStep
<1>1. pub'.owned = pub.owned
  BY DEF Reap, Publications, IInv, TypeOK
<1>2. QED
  BY <1>1, FreeB DEF Reap

\* A customer's resource is not taken for MOSAIC's.
LEMMA CustomerCreatesB == ASSUME IInv, IInv', BInv, NEW t \in Parts, CustomerCreates(t) PROVE BStep
<1> USE DEF CustomerCreates
<1>0. t \in Things /\ t \in Customers /\ w.pc = "idle" /\ inflight = {} /\ t \notin Evidence
      /\ ~Exists(apim, t) /\ Evidence' = Evidence /\ Evidence \in SUBSET Things
  BY PartsAreThings, Records DEF Evidence
<1>1. /\ apim'.made = apim.made /\ apim.made \in SUBSET Things
      /\ \A x \in Things : apim'.at[x] = IF x = t THEN "theirs" ELSE apim.at[x]
  BY <1>0, Records DEF Gateways
<1>2. \A x \in Things : Exists(apim', x) <=> Exists(apim, x) \/ x = t
  BY <1>1 DEF Exists
<1>3. ASSUME OwnFragment PROVE Sound(apim, Evidence)' /\ Respects(apim, apim')
  <2>1. Sound(apim, Evidence)
    BY <1>0, <1>3, IdleBelieves DEF BInv, EInv
  <2>2. t \notin apim.made
    BY <1>0, <2>1 DEF Sound, Exists
  <2>3. Sound(apim', Evidence')
    BY <1>0, <1>1, <1>2, <2>1, <2>2 DEF Sound
  <2>4. Respects(apim, apim')
    BY <1>0, <1>1, <1>2, PartsAreThings DEF Respects
  <2>5. QED
    BY <2>3, <2>4
<1>4. lock' = "run" => apim'.made \ Late' \subseteq (pub.owned \union run.steps \union left)'
  BY <1>0, <1>1 DEF BInv, LInv, Books, Late
<1>5. QED
  BY <1>0, <1>3, <1>4, RestB

-----------------------------------------------------------------------------
(* Claims: a run starts from what the record owns.                         *)

LEMMA ClaimB ==
  ASSUME IInv, IInv', BInv, Unlocked, NEW kind, NEW target, NEW v, Claimed(kind, target, v),
         UNCHANGED <<governed, apim, inflight>>, v.pc \in {"step", "guard", "remove"},
         v.owned = pub.owned, v.steps = {}, v.was = pub.owned, v.kept = {},
         v.pc # "step" => v.todo = pub.owned
  PROVE  BStep
<1> USE DEF Claimed, Unlocked
<1>1. pub'.owned = pub.owned /\ run'.steps = {} /\ left' = apim.made \ pub.owned
  BY Records DEF Publications
<1>2. w.pc = "idle" /\ inflight = {} /\ lock = "none" /\ Believed = pub.owned
      /\ apim.made \in SUBSET Things
  BY IdleBelieves, Records DEF IInv, Locking
<1>3. CASE w' = w /\ lock' = lock
  BY <1>1, <1>2, <1>3, FreeB
<1>4. CASE w' = v /\ lock' = "run"
  <2>1. LInv'
    BY <1>1, <1>2, <1>4 DEF LInv, Books
  <2>2. Believed' = pub.owned
    BY <1>1, <1>4 DEF Believed, Evidence
  <2>3. OwnFragment => EInv'
    BY <1>2, <2>2 DEF BInv, EInv
  <2>4. QED
    BY <2>1, <2>3, RespectsSame DEF BInv, BStep
<1>5. QED
  BY <1>2, <1>3, <1>4

LEMMA BegunOwns ==
  ASSUME NEW pc
  PROVE  /\ Begun(pc).pc = pc /\ Begun(pc).owned = pub.owned /\ Begun(pc).steps = {}
         /\ Begun(pc).was = pub.owned /\ Begun(pc).kept = {} /\ Begun(pc).todo = {}
BY DEF Begun, Idle

LEMMA ApplyB == ASSUME IInv, IInv', BInv, Apply PROVE BStep
<1> DEFINE v == Begun("step")
<1>1. /\ v.pc = "step" /\ v.owned = pub.owned /\ v.steps = {} /\ v.was = pub.owned
      /\ v.kept = {}
  BY BegunOwns
<1>2. Unlocked /\ Claimed("publish", plan.target, v) /\ UNCHANGED <<governed, apim, inflight>>
  BY DEF Apply
<1> HIDE DEF v
<1>3. QED
  BY <1>1, <1>2, ClaimB

LEMMA UnpublishB == ASSUME IInv, IInv', BInv, Unpublish PROVE BStep
<1> DEFINE pc == IF governed THEN "guard" ELSE "remove"
           b  == Begun(pc)
           v  == [b EXCEPT !.todo = pub.owned]
<1>1. /\ b.pc = pc /\ b.owned = pub.owned /\ b.steps = {} /\ b.was = pub.owned /\ b.kept = {}
  BY BegunOwns
<1>2. pc \in {"step", "guard", "remove"} /\ pub.owned \in SUBSET Things
  BY Records
<1>3. b \in Workers
  BY <1>2, BegunType DEF IInv
<1>4. Unlocked /\ Claimed("unpublish", pub.applied, v) /\ UNCHANGED <<governed, apim, inflight>>
  BY DEF Unpublish
<1> HIDE DEF b, pc
<1>5. /\ v.pc = pc /\ v.owned = pub.owned /\ v.steps = {} /\ v.was = pub.owned
      /\ v.kept = {} /\ v.todo = pub.owned
  BY <1>1, <1>2, <1>3 DEF Workers
<1> HIDE DEF v
<1>6. QED
  BY <1>2, <1>4, <1>5, ClaimB

-----------------------------------------------------------------------------
(* Writes that land, recoveries, and changes of keys.                      *)

LEMMA LandB == ASSUME IInv, IInv', BInv, Land PROVE BStep
<1> USE DEF Land
<1>1. PICK f \in inflight : apim' \in {apim, Landed(apim, f.e, f.rules)} /\ inflight' = {}
  OBVIOUS
<1> DEFINE b == Landed(apim, f.e, f.rules)
<1>2. /\ f.e \in Effects /\ f.rules \in SUBSET Grants /\ w.pc = "idle" /\ apim \in Gateways
      /\ UNCHANGED <<governed, pub, lock, run, w, left>>
  BY DEF IInv, TypeOK, Locking
<1>3. ASSUME lock = "run" PROVE b.made \ Late \subseteq pub.owned \union run.steps \union left
  <2>1. Traced(f) /\ Books
    BY <1>3 DEF BInv, LInv
  <2>2. b.made \subseteq IF f.e.to = "absent" \/ Exists(apim, f.e.thing) THEN apim.made
                         ELSE apim.made \union {f.e.thing}
    BY <1>2, LandedMakes
  <2> HIDE DEF b
  <2>3. apim.made \ Late \subseteq pub.owned \union run.steps \union left
    BY <1>3, <2>1 DEF Books
  <2>4. governed => Late = {"policy", "fragment"}
    BY <1>2 DEF Late
  <2>5. QED
    BY <2>1, <2>2, <2>3, <2>4 DEF Traced
<1>4. ASSUME OwnFragment PROVE Sound(b, Evidence) /\ Respects(apim, b) /\ Sound(apim, Evidence)
  <2>1. Sound(apim, Evidence) /\ Polite(f) /\ Evidence \in SUBSET Things
    BY <1>2, <1>4, IdleBelieves, Records DEF BInv, EInv
  <2>2. QED
    BY <1>2, <1>4, <2>1, LandedSound, NoCustomers DEF Polite
<1> HIDE DEF b
<1>5. apim' \in {apim, b} /\ Late' = Late /\ Evidence' = Evidence
  BY <1>1, <1>2 DEF b, Late, Evidence
<1>6. lock' = "run" => apim'.made \ Late' \subseteq (pub.owned \union run.steps \union left)'
  BY <1>2, <1>3, <1>5 DEF BInv, LInv, Books
<1>7. OwnFragment => Sound(apim, Evidence)' /\ Respects(apim, apim')
  BY <1>4, <1>5, RespectsSame
<1>8. QED
  BY <1>1, <1>2, <1>6, <1>7, RestB

LEMMA RecoverB == ASSUME IInv, IInv', BInv, Recover PROVE BStep
<1> USE DEF Recover, Quiesced
<1> DEFINE o == Guarded(apim, Recovered)
<1>0. /\ w.pc = "idle" /\ lock = "run" /\ inflight = {} /\ lock' = "none" /\ inflight' = {}
      /\ apim \in Gateways /\ pub \in Publications /\ Evidence \in SUBSET Things
      /\ Recovered \in SUBSET Things /\ Recovered \subseteq Evidence
      /\ Keys(Recovered) \in SUBSET Keys(Recovered)
  BY RecoveredIs, Records
<1>1. apim' = (IF governed THEN Suspended(o.apim, Keys(Recovered)) ELSE apim)
  OBVIOUS
<1>2. pub'.owned = IF governed THEN o.owned ELSE Recovered
  BY <1>0 DEF Publications
<1>3. o.owned \subseteq Recovered \union {"policy"}
  BY DEF Guarded
<1>4. ASSUME OwnFragment PROVE Sound(apim, Evidence)' /\ Respects(apim, apim')
  <2>1. Sound(apim, Evidence)
    BY <1>0, <1>4, IdleBelieves DEF BInv, EInv
  <2>2. Sound(apim', Evidence) /\ Respects(apim, apim')
    <3>1. CASE governed
      BY <1>0, <1>1, <1>4, <2>1, <3>1, NoCustomers, DenialSound
    <3>2. CASE ~governed
      BY <1>1, <2>1, <3>2, RespectsSame
    <3>3. QED
      BY <3>1, <3>2
  <2>3. Evidence' \subseteq Evidence \union (Things \ Customers)
    <3> HIDE DEF o
    <3>1. QED
      BY <1>0, <1>2, <1>3, <1>4, NoCustomers DEF Evidence
  <2>4. QED
    BY <2>2, <2>3, SoundPart
<1>5. QED
  BY <1>0, <1>4, RestB

LEMMA RecoverFailsB == ASSUME IInv, IInv', BInv, RecoverFails PROVE BStep
<1> USE DEF RecoverFails, Quiesced
<1>0. /\ w.pc = "idle" /\ lock = "run" /\ inflight = {} /\ lock' = "run" /\ inflight' = {}
      /\ apim \in Gateways /\ pub \in Publications /\ Evidence \in SUBSET Things
      /\ Recovered \in SUBSET Things /\ Recovered \subseteq Evidence
      /\ pub.owned \subseteq Recovered
      /\ UNCHANGED <<governed, w, left>> /\ governed \in BOOLEAN
  BY RecoveredIs, Records DEF IInv, TypeOK
<1>1. run'.steps = run.steps
  BY Records DEF RunRecords
<1>2. /\ apim.made \ Late \subseteq pub.owned \union run.steps \union left /\ Late' = Late
      /\ governed => Late = {"policy", "fragment"}
  BY <1>0 DEF BInv, LInv, Books, Late
<1>3. CASE ~governed
  <2>1. UNCHANGED <<apim, pub>>
    BY <1>3
  <2>2. Evidence' = Evidence
    BY <1>0, <1>1, <2>1 DEF Evidence
  <2>3. apim'.made \ Late' \subseteq (pub.owned \union run.steps \union left)'
    BY <1>0, <1>1, <1>2, <2>1
  <2>4. OwnFragment => Sound(apim, Evidence)'
    BY <1>0, <2>1, <2>2, IdleBelieves DEF BInv, EInv
  <2>5. QED
    BY <1>0, <2>1, <2>3, <2>4, RestB, RespectsSame
<1>4. CASE governed
  <2>1. PICK o \in {Guarded(apim, Recovered)} \union GuardFails(apim, Recovered) :
        \E keys \in SUBSET Keys(Recovered) :
          /\ apim' = Suspended(o.apim, keys)
          /\ pub' \in {pub, Interrupted, [Interrupted EXCEPT !.owned = o.owned]}
    BY <1>4
  <2>2. PICK keys \in SUBSET Keys(Recovered) :
          /\ apim' = Suspended(o.apim, keys)
          /\ pub' \in {pub, Interrupted, [Interrupted EXCEPT !.owned = o.owned]}
    BY <2>1
  <2>3. Recovered \subseteq o.owned /\ o.owned \subseteq Recovered \union {"policy"}
    BY <1>0, GuardType
  <2>4. pub.owned \subseteq pub'.owned /\ pub'.owned \subseteq Recovered \union {"policy"}
    <3>1. Interrupted.owned = pub.owned /\ [Interrupted EXCEPT !.owned = o.owned].owned = o.owned
      BY <1>0 DEF Interrupted, Publications
    <3>2. QED
      BY <1>0, <2>2, <2>3, <3>1
  <2>5. apim'.made \subseteq apim.made \union {"policy", "fragment"}
    BY <1>0, <2>2, DenialMakes
  <2>6. apim'.made \ Late' \subseteq (pub.owned \union run.steps \union left)'
    BY <1>0, <1>1, <1>2, <1>4, <2>4, <2>5
  <2>7. ASSUME OwnFragment PROVE Sound(apim, Evidence)' /\ Respects(apim, apim')
    <3>1. Sound(apim, Evidence)
      BY <1>0, <2>7, IdleBelieves DEF BInv, EInv
    <3>2. Sound(apim', Evidence) /\ Respects(apim, apim')
      BY <1>0, <2>2, <2>7, <3>1, NoCustomers, DenialSound
    <3>3. Evidence' \subseteq Evidence \union (Things \ Customers)
      BY <1>0, <1>1, <2>4, <2>7, NoCustomers DEF Evidence
    <3>4. QED
      BY <3>2, <3>3, SoundPart
  <2>8. QED
    BY <1>0, <2>6, <2>7, RestB
<1>5. QED
  BY <1>3, <1>4

LEMMA RecoverMutationB == ASSUME IInv, IInv', BInv, RecoverMutation PROVE BStep
<1>1. /\ w.pc = "idle" /\ inflight = {} /\ lock = "mutation" /\ lock' = "none"
      /\ UNCHANGED <<governed, apim, pub, w, inflight>>
  BY DEF RecoverMutation, Quiesced
<1>2. Evidence' = pub.owned /\ Believed = pub.owned
  BY <1>1, IdleBelieves DEF Evidence
<1>3. OwnFragment => Sound(apim, Evidence)'
  BY <1>1, <1>2 DEF BInv, EInv
<1>4. QED
  BY <1>1, <1>3, RestB, RespectsSame

LEMMA BeginKeyB ==
  ASSUME IInv, IInv', BInv, NEW g \in Grants, NEW op \in {"create", "delete"}, BeginKey(g, op)
  PROVE  BStep
<1>1. /\ w.pc = "idle" /\ inflight = {} /\ lock = "none" /\ lock' = "mutation"
      /\ UNCHANGED <<governed, apim, w, inflight>>
  BY DEF BeginKey, Unlocked, IInv, Locking
<1>2. pub'.owned \subseteq pub.owned \union {g}
  BY Records DEF BeginKey, Publications
<1>3. Evidence' = pub'.owned /\ Believed = pub.owned
  BY <1>1, IdleBelieves DEF Evidence
<1>4. ASSUME OwnFragment PROVE Sound(apim, Evidence)'
  <2>1. Evidence' \subseteq Believed \union (Things \ Customers)
    BY <1>2, <1>3, <1>4, NoCustomers
  <2>2. QED
    BY <1>1, <1>4, <2>1, SoundPart DEF BInv, EInv
<1>5. QED
  BY <1>1, <1>4, RestB, RespectsSame

\* A key that is created or deleted is of a grant's own name.
LEMMA KeyPolite ==
  ASSUME IInv, BInv, keyjob.pc = "write", OwnFragment
  PROVE  LET e == KeyEffect
         IN /\ e \in Effects
            /\ IF e.to = "absent" THEN Exists(apim, e.thing) => e.thing \in apim.made
               ELSE e.to # "theirs" /\ apim.at[e.thing] # "theirs"
<1>1. keyjob.grant \in Things \ Customers
  BY NoCustomers DEF IInv, Locking
<1>2. Sound(apim, Believed) /\ Believed \in SUBSET Things /\ apim \in Gateways
  BY Records DEF BInv, EInv
<1>3. apim.at[keyjob.grant] # "theirs" /\ (Exists(apim, keyjob.grant) => keyjob.grant \in apim.made)
  BY <1>1, <1>2, Ours
<1>4. {"active", "absent"} \subseteq Contents
  BY DEF Contents
<1>5. KeyEffect.thing = keyjob.grant /\ KeyEffect.to \in {"active", "absent"} /\ KeyEffect \in Effects
  BY <1>1, <1>4, EffectIs DEF KeyEffect
<1>6. QED
  BY <1>3, <1>5

LEMMA WriteKeyB == ASSUME IInv, IInv', BInv, WriteKey PROVE BStep
<1> DEFINE b == Landed(apim, KeyEffect, {})
<1>1. /\ keyjob.pc = "write" /\ w.pc = "idle" /\ inflight = {} /\ lock = "mutation"
      /\ lock' = "none" /\ UNCHANGED <<governed, w, inflight>>
  BY DEF WriteKey, IInv, Locking
<1>2. apim' \in {apim, b}
  BY DEF WriteKey
<1>3. pub'.owned \subseteq pub.owned
  BY Records DEF WriteKey, Publications
<1>4. Evidence' = pub'.owned /\ Believed = pub.owned
  BY <1>1, IdleBelieves DEF Evidence
<1>5. ASSUME OwnFragment PROVE Sound(apim, Evidence)' /\ Respects(apim, apim')
  <2>1. Sound(apim, Believed) /\ Believed \in SUBSET Things /\ apim \in Gateways
        /\ {} \in SUBSET Grants
    BY <1>5, Records DEF BInv, EInv
  <2>2. Sound(b, Believed) /\ Respects(apim, b)
    BY <1>1, <1>5, <2>1, KeyPolite, LandedSound, NoCustomers
  <2> HIDE DEF b
  <2>3. Sound(apim', Believed) /\ Respects(apim, apim')
    BY <1>2, <2>1, <2>2, RespectsSame
  <2>4. QED
    BY <1>3, <1>4, <2>3, SoundPart
<1>6. QED
  BY <1>1, <1>5, RestB

LEMMA StopKeyB == ASSUME IInv, IInv', BInv, StopKey PROVE BStep
<1> DEFINE b == Landed(apim, KeyEffect, {})
           f == [e |-> KeyEffect, rules |-> {}]
<1>1. /\ keyjob.pc = "write" /\ w.pc = "idle" /\ inflight = {} /\ lock = "mutation"
      /\ UNCHANGED <<governed, pub, lock, run, w>>
  BY DEF StopKey, IInv, Locking
<1>2. \/ apim' \in {apim, b} /\ inflight' = {}
      \/ apim' = apim /\ inflight' = {f}
  BY <1>1 DEF StopKey
<1>3. Evidence' = Evidence /\ Believed = Evidence
  BY <1>1, IdleBelieves DEF Evidence
<1>4. ASSUME OwnFragment
      PROVE  Sound(apim, Evidence)' /\ Respects(apim, apim') /\ \A x \in inflight' : Polite(x)'
  <2>1. Sound(apim, Evidence) /\ Evidence \in SUBSET Things /\ apim \in Gateways
        /\ {} \in SUBSET Grants
    BY <1>3, <1>4, Records DEF BInv, EInv
  <2>2. Sound(b, Evidence) /\ Respects(apim, b)
    BY <1>1, <1>4, <2>1, KeyPolite, LandedSound, NoCustomers
  <2>3. Polite(f)
    BY <1>1, <1>4, KeyPolite DEF Polite
  <2> HIDE DEF b, f
  <2>4. Sound(apim, Evidence)' /\ Respects(apim, apim')
    BY <1>2, <1>3, <2>1, <2>2, RespectsSame
  <2>5. \A x \in inflight' : Polite(x)'
    BY <1>1, <1>2, <2>3 DEF Polite
  <2>6. QED
    BY <2>4, <2>5
<1>5. QED
  BY <1>1, <1>4, RestB

-----------------------------------------------------------------------------
(* Stopping, and the steps of a worker.                                    *)

LEMMA ContentOurs ==
  ASSUME IInv, w.pc \in {"write", "record"}
  PROVE  Content[Stage] \in Contents \ {"absent", "theirs"}
<1>1. Stage \in StageNames \ {"retire"}
  <2>1. w.i \in 1..Len(Stages) /\ Stage # "retire"
    BY StageWrites DEF IInv, Counting
  <2>2. QED
    BY <2>1, StagesNamed DEF Stage, IInv, TypeOK
<1>2. QED
  BY <1>1 DEF Content, Contents, StageNames

LEMMA RestoredOurs ==
  \A t \in Things : RestoredContent(t) \in Contents \ {"absent", "theirs"}
BY RestoredTyped DEF Contents

\* A governed run writes over nothing but what it takes for MOSAIC's.
LEMMA WriteOurs ==
  ASSUME IInv, BInv, OwnFragment, w.pc = "write", governed
  PROVE  apim.at[w.thing] # "theirs"
<1>1. w.thing \in w.steps \union w.owned
  BY DEF IInv, GInv, Writing
<1>2. w.thing \in Believed \union (Things \ Customers) /\ Sound(apim, Believed)
      /\ Believed \in SUBSET Things /\ apim \in Gateways
  BY <1>1, Records DEF BInv, EInv, Believed
<1>3. QED
  BY <1>2, Ours

\* What is restored was MOSAIC's, or is of a name that no customer uses.
LEMMA RestoreOurs ==
  ASSUME IInv, BInv, w.pc = "restore", NEW t \in w.todo
  PROVE  /\ t \in pub.owned \union {"policy", "fragment"} /\ w.owned = pub.owned /\ governed
         /\ t \in Things
         /\ OwnFragment => apim.at[t] # "theirs"
<1>1. w.owned = pub.owned /\ t \in w.owned \union {"policy", "fragment"} /\ governed
      /\ t \in Things
  BY Records DEF BInv, LInv, Books, IInv, Counting
<1>2. ASSUME OwnFragment PROVE apim.at[t] # "theirs"
  <2>1. t \in Believed \union (Things \ Customers) /\ Sound(apim, Believed)
        /\ Believed \in SUBSET Things /\ apim \in Gateways
    BY <1>1, <1>2, Records, NoCustomers DEF BInv, EInv, Believed
  <2>2. QED
    BY <2>1, Ours
<1>3. QED
  BY <1>1, <1>2

\* The write that a worker leaves behind is accounted for.
LEMMA SubmittedTraced ==
  ASSUME IInv, BInv, NEW e \in Submitted
  PROVE  \/ e.to = "absent" \/ Exists(apim, e.thing)
         \/ e.thing \in pub.owned \union run.steps
         \/ governed /\ e.thing \in {"policy", "fragment"}
<1>0. /\ w.todo \in SUBSET Things /\ w.owned \in SUBSET Things /\ w.kept \in SUBSET Things
      /\ "policy" \in Things /\ Grants \subseteq Things
      /\ {"absent", "deny", "suspended"} \subseteq Contents
  BY Records DEF Parts, Things, Contents
<1>1. CASE w.pc = "write"
  <2>1. e = Effect(w.thing, Content[Stage])
    BY <1>1 DEF Submitted
  <2>2. e.thing = w.thing
    BY <1>1, <2>1, StageWrites, EffectIs
  <2>3. Exists(apim, w.thing) \/ w.thing \in run.steps
    BY <1>1 DEF BInv, LInv, Books
  <2>4. QED
    BY <2>2, <2>3
<1>2. CASE w.pc = "restore"
  <2>1. PICK t \in w.todo : e = Effect(t, RestoredContent(t))
    BY <1>2 DEF Submitted
  <2>2. t \in pub.owned \union {"policy", "fragment"} /\ governed /\ t \in Things
    BY <1>2, RestoreOurs
  <2>3. e.thing = t
    BY <2>1, <2>2, RestoredOurs, EffectIs
  <2>4. QED
    BY <2>2, <2>3
<1>3. CASE w.pc \in {"deny", "redeny", "guard"}
  <2>1. governed
    BY <1>3 DEF IInv, Counting
  <2>2. \/ e = Effect("policy", "deny")
        \/ \E g \in Grants : e = Effect(g, "suspended") /\ Exists(apim, g)
    BY <1>3 DEF Submitted, Keys
  <2>3. QED
    BY <1>0, <2>1, <2>2, EffectIs
<1>4. CASE w.pc \notin {"write", "restore", "deny", "redeny", "guard"}
  <2>1. \E t \in Things : e = Effect(t, "absent")
    BY <1>0, <1>4 DEF Submitted, NextRemoved
  <2>2. QED
    BY <1>0, <2>1, EffectIs
<1>5. QED
  BY <1>1, <1>2, <1>3, <1>4

\* And it is polite.
LEMMA SubmittedPolite ==
  ASSUME IInv, BInv, OwnFragment, NEW e \in Submitted
  PROVE  IF e.to = "absent" THEN Exists(apim, e.thing) => e.thing \in apim.made
         ELSE e.to # "theirs" /\ (governed => apim.at[e.thing] # "theirs")
<1>0. /\ w.todo \in SUBSET Things /\ w.owned \in SUBSET Things /\ w.kept \in SUBSET Things
      /\ "policy" \in Things /\ Grants \subseteq Things
      /\ {"absent", "deny", "suspended"} \subseteq Contents
      /\ Believed \in SUBSET Things /\ apim \in Gateways /\ Sound(apim, Believed)
  BY Records DEF Parts, Things, Contents, BInv, EInv
<1>1. CASE w.pc = "write"
  <2>1. e = Effect(w.thing, Content[Stage])
    BY <1>1 DEF Submitted
  <2>2. e.thing = w.thing /\ e.to \notin {"absent", "theirs"}
    BY <1>1, <2>1, StageWrites, ContentOurs, EffectIs
  <2>3. QED
    BY <1>1, <2>2, WriteOurs
<1>2. CASE w.pc = "restore"
  <2>1. PICK t \in w.todo : e = Effect(t, RestoredContent(t))
    BY <1>2 DEF Submitted
  <2>2. t \in Things /\ apim.at[t] # "theirs"
    BY <1>2, RestoreOurs
  <2>3. e.thing = t /\ e.to \notin {"absent", "theirs"}
    BY <2>1, <2>2, RestoredOurs, EffectIs
  <2>4. QED
    BY <2>2, <2>3
<1>3. CASE w.pc \in {"deny", "redeny", "guard"}
  <2>1. \/ e = Effect("policy", "deny")
        \/ \E g \in Grants : e = Effect(g, "suspended")
    BY <1>3 DEF Submitted, Keys
  <2>2. e.to \in {"deny", "suspended"} /\ e.thing \in Things \ Customers
    BY <1>0, <2>1, EffectIs, NoCustomers
  <2>3. QED
    BY <1>0, <2>2, Ours
<1>4. CASE w.pc \notin {"write", "restore", "deny", "redeny", "guard"}
  <2>1. PICK t \in Things : e = Effect(t, "absent") /\ t \in Believed
    <3>1. CASE w.pc = "step"
      <4>1. \E t \in w.todo \intersect w.owned : e = Effect(t, "absent")
        BY <3>1 DEF Submitted
      <4>2. QED
        BY <1>0, <4>1 DEF Believed
    <3>2. CASE w.pc = "rollback"
      <4>1. \E t \in w.kept : e = Effect(t, "absent")
        BY <3>2 DEF Submitted, NextRemoved
      <4>2. QED
        BY <1>0, <4>1 DEF Believed
    <3>3. CASE w.pc = "remove"
      <4>1. \E t \in w.todo : e = Effect(t, "absent")
        BY <3>3 DEF Submitted, NextRemoved
      <4>2. w.todo \subseteq w.owned
        BY <3>3 DEF BInv, LInv, Books
      <4>3. QED
        BY <1>0, <4>1, <4>2 DEF Believed
    <3>4. QED
      BY <1>4, <3>1, <3>2, <3>3 DEF Submitted
  <2>2. e.to = "absent" /\ e.thing = t
    BY <1>0, <2>1, EffectIs
  <2>3. QED
    BY <1>0, <2>1, <2>2, Ours
<1>5. QED
  BY <1>1, <1>2, <1>3, <1>4

LEMMA StopB == ASSUME IInv, IInv', BInv, Stop PROVE BStep
<1> USE DEF Stop
<1>0. /\ w.pc # "idle" /\ lock = "run" /\ inflight = {} /\ apim \in Gateways /\ w' = Idle
      /\ w'.pc = "idle" /\ UNCHANGED <<governed, lock, left>>
      /\ Believed \in SUBSET Things /\ Evidence \subseteq Believed
      /\ governed \in BOOLEAN
  BY AtWork, Records DEF Idle, IInv, TypeOK
<1>1. run'.steps = run.steps /\ pub'.owned = pub.owned
  BY Records DEF Interrupted, RunRecords, Publications
<1>2. \/ apim' = apim /\ inflight' = {}
      \/ \E e \in Submitted :
           \/ apim' = Landed(apim, e, SubmittedRules) /\ inflight' = {}
           \/ apim' = apim /\ inflight' = {[e |-> e, rules |-> SubmittedRules]}
  BY <1>0
<1>3. /\ Evidence' = Evidence
      /\ Late' = IF governed THEN {"policy", "fragment"} ELSE {}
      /\ Late \subseteq Late'
  BY <1>0, <1>1 DEF Evidence, Late
<1>4. apim.made \ Late \subseteq pub.owned \union run.steps \union left
  BY <1>0 DEF BInv, LInv, Books
<1>5. OwnFragment => Sound(apim, Evidence) /\ Sound(apim, Believed)
  BY <1>0, SoundPart DEF BInv, EInv
<1>6. CASE apim' = apim /\ inflight' = {}
  BY <1>0, <1>1, <1>3, <1>4, <1>5, <1>6, RestB, RespectsSame
<1>7. ASSUME NEW e \in Submitted, apim' = Landed(apim, e, SubmittedRules), inflight' = {}
      PROVE  BStep
  <2> DEFINE rules == SubmittedRules
             b     == Landed(apim, e, rules)
  <2>1. e \in Effects /\ rules \in SUBSET Grants
    BY SubmittedTyped
  <2> HIDE DEF rules
  <2>2. b.made \subseteq IF e.to = "absent" \/ Exists(apim, e.thing) THEN apim.made
                         ELSE apim.made \union {e.thing}
    BY <1>0, <2>1, LandedMakes
  <2>3. OwnFragment => Sound(b, Believed) /\ Respects(apim, b)
    BY <1>0, <1>5, <2>1, LandedSound, SubmittedPolite, NoCustomers
  <2>4. apim' = b
    BY <1>7 DEF rules
  <2> HIDE DEF b
  <2>5. apim'.made \ Late' \subseteq (pub.owned \union run.steps \union left)'
    BY <1>0, <1>1, <1>3, <1>4, <2>2, <2>4, SubmittedTraced
  <2>6. OwnFragment => Sound(apim, Evidence)' /\ Respects(apim, apim')
    BY <1>0, <1>3, <2>3, <2>4, SoundPart
  <2>7. QED
    BY <1>0, <1>7, <2>5, <2>6, RestB
<1>8. ASSUME NEW e \in Submitted, apim' = apim,
             inflight' = {[e |-> e, rules |-> SubmittedRules]}
      PROVE  BStep
  <2>1. \A f \in inflight' : f.e = e
    BY <1>8
  <2>2. \A f \in inflight' : Traced(f)'
    BY <1>0, <1>1, <1>8, <2>1, SubmittedTraced DEF Traced
  <2>3. OwnFragment => \A f \in inflight' : Polite(f)'
    BY <1>0, <1>8, <2>1, SubmittedPolite DEF Polite
  <2>4. apim'.made \ Late' \subseteq (pub.owned \union run.steps \union left)'
    BY <1>0, <1>1, <1>3, <1>4, <1>8
  <2>5. OwnFragment => Sound(apim, Evidence)' /\ Respects(apim, apim')
    BY <1>3, <1>5, <1>8, RespectsSame
  <2>6. QED
    BY <1>0, <2>2, <2>3, <2>4, <2>5, RestB
<1>9. QED
  BY <1>2, <1>6, <1>7, <1>8

-----------------------------------------------------------------------------
(* The stages of a worker.                                                 *)

\* A worker that goes on.
LEMMA WorkB ==
  ASSUME IInv, BInv, w.pc # "idle", UNCHANGED <<lock, inflight>>, Books',
         OwnFragment => Sound(apim, Believed)' /\ Respects(apim, apim')
  PROVE  BStep
<1>1. inflight' = {}
  BY AtWork
<1>2. LInv' /\ (OwnFragment => EInv')
  BY <1>1 DEF LInv, EInv
<1>3. QED
  BY <1>2 DEF BInv, BStep

\* While the gateway stays as it is, what is believed grows only by what is not there.
LEMMA SameB ==
  ASSUME IInv, BInv, w.pc # "idle", UNCHANGED <<apim, lock, inflight>>, Books',
         OwnFragment => \A t \in Believed' : t \in Believed \union (Things \ Customers) \/ ~Exists(apim, t)
  PROVE  BStep
<1>1. ASSUME OwnFragment PROVE Sound(apim, Believed)'
  <2>1. Sound(apim, Believed)
    BY <1>1 DEF BInv, EInv
  <2>2. Sound(apim, Believed')
    BY <1>1, <2>1 DEF Sound
  <2>3. QED
    BY <2>2
<1>2. QED
  BY <1>1, WorkB, RespectsSame

LEMMA NextStageB == ASSUME IInv, BInv, NextStage PROVE BStep
<1> USE DEF NextStage
<1> DEFINE n    == w.i + 1
           todo == Todo(Stages[n])
<1>1. w' = [w EXCEPT !.i = n, !.todo = todo]
  BY DEF NextStage
<1> HIDE DEF n, todo
<1>2. /\ w'.pc = "step" /\ w'.owned = w.owned /\ w'.steps = w.steps /\ w'.was = w.was
      /\ w'.kept = w.kept
  BY <1>1, Records DEF Workers
<1>3. Books'
  BY <1>2 DEF BInv, LInv, Books, Late
<1>4. Believed' = Believed
  BY <1>2 DEF Believed, Evidence
<1>5. QED
  BY <1>3, <1>4, SameB

LEMMA BeginB == ASSUME IInv, BInv, NEW t \in Things, Begin(t) PROVE BStep
<1> DEFINE created == ~Exists(apim, t)
           steps   == IF created THEN w.steps \union {t} ELSE w.steps
<1>0. /\ w.pc = "step" /\ lock = "run"
      /\ UNCHANGED <<governed, apim, plan, lock, inflight, left>>
      /\ w \in Workers /\ w.owned \in SUBSET Things /\ steps \in SUBSET Things
      /\ w.steps \subseteq steps /\ steps \subseteq w.steps \union {t}
      /\ (IF created THEN t \in steps ELSE steps = w.steps /\ Exists(apim, t))
      /\ created \in BOOLEAN /\ governed \in BOOLEAN
      /\ AfterFailure = IF governed THEN "deny" ELSE "rollback"
  BY Records DEF Begin, AfterFailure, IInv, TypeOK
<1>1. \/ w' = [w EXCEPT !.pc = AfterFailure] /\ UNCHANGED <<pub, run>>
      \/ /\ Progress(w.owned, steps)
         /\ w' = [w EXCEPT !.pc = "write", !.thing = t, !.created = created, !.steps = steps]
      \/ ProgressFails(steps) /\ w' = [w EXCEPT !.pc = AfterFailure, !.steps = steps]
  BY DEF Begin
<1>2. /\ apim.made \subseteq pub.owned \union run.steps \union left
      /\ apim.made \subseteq w.owned \union w.steps \union left
      /\ ~governed => apim.made \subseteq w.was \union w.steps \union left
      /\ run.steps = w.steps
  BY <1>0 DEF BInv, LInv, Books, Late
<1> HIDE DEF steps, created
<1>3. CASE w' = [w EXCEPT !.pc = AfterFailure] /\ UNCHANGED <<pub, run>>
  <2>1. /\ w'.pc = AfterFailure /\ w'.owned = w.owned /\ w'.steps = w.steps /\ w'.was = w.was
        /\ w'.kept = w.kept
    BY <1>0, <1>3 DEF Workers
  <2>2. Books'
    BY <1>0, <1>2, <1>3, <2>1 DEF Books
  <2>3. Believed' = Believed
    BY <1>0, <1>3, <2>1 DEF Believed, Evidence
  <2>4. QED
    BY <1>0, <2>2, <2>3, SameB
<1>4. CASE /\ Progress(w.owned, steps)
           /\ w' = [w EXCEPT !.pc = "write", !.thing = t, !.created = created, !.steps = steps]
  <2>1. /\ w'.pc = "write" /\ w'.owned = w.owned /\ w'.steps = steps /\ w'.was = w.was
        /\ w'.kept = w.kept /\ w'.thing = t /\ w'.created = created
    BY <1>0, <1>4 DEF Workers
  <2>2. pub'.owned = w.owned /\ run'.steps = steps
    BY <1>0, <1>4, ProgressDoes DEF IInv
  <2>3. Books'
    <3>1. (IF created THEN t \in steps ELSE Exists(apim, t))
      BY <1>0
    <3>2. QED
      BY <1>0, <1>2, <2>1, <2>2, <3>1 DEF Books
  <2>4. Believed' \subseteq Believed \union steps
    BY <1>0, <2>1, <2>2 DEF Believed, Evidence
  <2>5. \A x \in Believed' : x \in Believed \/ ~Exists(apim, x)
    BY <1>0, <2>4 DEF Believed, created
  <2>6. QED
    BY <1>0, <2>3, <2>5, SameB
<1>5. CASE ProgressFails(steps) /\ w' = [w EXCEPT !.pc = AfterFailure, !.steps = steps]
  <2>1. /\ w'.pc = AfterFailure /\ w'.owned = w.owned /\ w'.steps = steps /\ w'.was = w.was
        /\ w'.kept = w.kept
    BY <1>0, <1>5 DEF Workers
  <2>2. pub' = pub /\ run'.steps \in {run.steps, steps}
    BY <1>0, <1>5, ProgressFailsDoes DEF IInv
  <2>3. Books'
    BY <1>0, <1>2, <2>1, <2>2 DEF Books
  <2>4. Believed' \subseteq Believed \union steps
    BY <1>0, <2>1, <2>2 DEF Believed, Evidence
  <2>5. \A x \in Believed' : x \in Believed \/ ~Exists(apim, x)
    BY <1>0, <2>4 DEF Believed, created
  <2>6. QED
    BY <1>0, <2>3, <2>5, SameB
<1>6. QED
  BY <1>1, <1>3, <1>4, <1>5

LEMMA WriteB == ASSUME IInv, BInv, Write PROVE BStep
<1> DEFINE c == Content[Stage]
           b == Put(apim, w.thing, c, plan.target.on)
<1>0. /\ w.pc = "write" /\ lock = "run"
      /\ UNCHANGED <<governed, pub, lock, run, inflight, left>>
      /\ w \in Workers /\ w.thing \in Things /\ w.owned \in SUBSET Things
      /\ apim \in Gateways /\ Believed \in SUBSET Things /\ governed \in BOOLEAN
      /\ c \in Contents /\ c \notin {"absent", "theirs"} /\ plan.target.on \in SUBSET Grants
      /\ AfterFailure = IF governed THEN "deny" ELSE "rollback"
  BY AtWork, Records, ContentOurs, RulesReviewed DEF Write, AfterFailure, IInv, TypeOK
<1>1. \/ apim' = b /\ w' = [w EXCEPT !.pc = "record"]
      \/ /\ apim' \in {apim, b}
         /\ \E found \in {{}, {w.thing}} :
              /\ found # {} => w.created
              /\ w' = [w EXCEPT !.pc = AfterFailure, !.owned = @ \union found]
  BY DEF Write, Written
<1>2. /\ apim.made \subseteq pub.owned \union run.steps \union left
      /\ apim.made \subseteq w.owned \union w.steps \union left
      /\ ~governed => apim.made \subseteq w.was \union w.steps \union left
      /\ run.steps = w.steps
      /\ IF w.created THEN w.thing \in w.steps ELSE Exists(apim, w.thing)
  BY <1>0 DEF BInv, LInv, Books, Late
<1>3. /\ b.made = IF Exists(apim, w.thing) THEN apim.made ELSE apim.made \union {w.thing}
      /\ Exists(b, w.thing)
  BY <1>0, PutMakes
<1>4. OwnFragment => /\ Sound(b, Believed) /\ Respects(apim, b)
                     /\ Sound(apim, Believed) /\ Respects(apim, apim)
  BY <1>0, PutSound, WriteOurs, RespectsSame DEF BInv, EInv
<1> HIDE DEF b, c
<1>5. /\ apim'.made \subseteq pub.owned \union run.steps \union left
      /\ apim'.made \subseteq w.owned \union w.steps \union left
      /\ ~governed => apim'.made \subseteq w.was \union w.steps \union left
  BY <1>1, <1>2, <1>3
<1>6. CASE apim' = b /\ w' = [w EXCEPT !.pc = "record"]
  <2>1. /\ w'.pc = "record" /\ w'.owned = w.owned /\ w'.steps = w.steps /\ w'.was = w.was
        /\ w'.kept = w.kept /\ w'.thing = w.thing /\ w'.created = w.created
    BY <1>0, <1>6 DEF Workers
  <2>2. Books'
    BY <1>0, <1>2, <1>3, <1>5, <1>6, <2>1 DEF Books
  <2>3. Believed' = Believed
    BY <1>0, <2>1 DEF Believed, Evidence
  <2>4. QED
    BY <1>0, <1>4, <1>6, <2>2, <2>3, WorkB
<1>7. ASSUME apim' \in {apim, b}, NEW found \in {{}, {w.thing}}, found # {} => w.created,
             w' = [w EXCEPT !.pc = AfterFailure, !.owned = @ \union found]
      PROVE  BStep
  <2>1. /\ w'.pc = AfterFailure /\ w'.owned = w.owned \union found /\ w'.steps = w.steps
        /\ w'.was = w.was /\ w'.kept = w.kept
    BY <1>0, <1>7 DEF Workers
  <2>2. Books'
    BY <1>0, <1>5, <2>1 DEF Books
  <2>3. Believed' = Believed
    BY <1>0, <1>2, <1>7, <2>1 DEF Believed, Evidence
  <2>4. OwnFragment => Sound(apim, Believed)' /\ Respects(apim, apim')
    BY <1>4, <1>7, <2>3
  <2>5. QED
    BY <1>0, <2>2, <2>4, WorkB
<1>8. QED
  BY <1>1, <1>6, <1>7

LEMMA RecordB == ASSUME IInv, BInv, Record PROVE BStep
<1> DEFINE owned == IF w.created THEN w.owned \union {w.thing} ELSE w.owned
           kept  == w.kept \union ({w.thing} \intersect w.steps)
           todo  == w.todo \ {w.thing}
<1>0. /\ w.pc = "record" /\ lock = "run"
      /\ UNCHANGED <<governed, apim, plan, lock, inflight, left>>
      /\ w \in Workers /\ owned \in SUBSET Things /\ w.steps \in SUBSET Things
      /\ w.owned \subseteq owned
      /\ governed \in BOOLEAN
      /\ AfterFailure = IF governed THEN "deny" ELSE "rollback"
  BY AtWork, Records DEF Record, AfterFailure, IInv, TypeOK
<1>1. \/ /\ Progress(owned, w.steps)
         /\ w' = [w EXCEPT !.pc = "step", !.todo = todo, !.owned = owned, !.kept = kept]
      \/ /\ ProgressFails(w.steps)
         /\ w' = [w EXCEPT !.pc = AfterFailure, !.owned = owned, !.kept = kept]
  BY DEF Record
<1>2. /\ apim.made \subseteq pub.owned \union run.steps \union left
      /\ apim.made \subseteq w.owned \union w.steps \union left
      /\ ~governed => apim.made \subseteq w.was \union w.steps \union left
      /\ run.steps = w.steps /\ (w.created => w.thing \in w.steps)
  BY <1>0 DEF BInv, LInv, Books, Late
<1>3. owned \subseteq w.owned \union w.steps /\ kept \subseteq w.kept \union w.steps
  BY <1>2
<1> HIDE DEF owned, kept, todo
<1>4. CASE /\ Progress(owned, w.steps)
           /\ w' = [w EXCEPT !.pc = "step", !.todo = todo, !.owned = owned, !.kept = kept]
  <2>1. /\ w'.pc = "step" /\ w'.owned = owned /\ w'.steps = w.steps /\ w'.was = w.was
        /\ w'.kept = kept
    BY <1>0, <1>4 DEF Workers
  <2>2. pub'.owned = owned /\ run'.steps = w.steps
    BY <1>0, <1>4, ProgressDoes DEF IInv
  <2>3. Books'
    BY <1>0, <1>2, <2>1, <2>2 DEF Books
  <2>4. Believed' \subseteq Believed
    BY <1>0, <1>3, <2>1, <2>2 DEF Believed, Evidence
  <2>5. QED
    BY <1>0, <2>3, <2>4, SameB
<1>5. CASE /\ ProgressFails(w.steps)
           /\ w' = [w EXCEPT !.pc = AfterFailure, !.owned = owned, !.kept = kept]
  <2>1. /\ w'.pc = AfterFailure /\ w'.owned = owned /\ w'.steps = w.steps /\ w'.was = w.was
        /\ w'.kept = kept
    BY <1>0, <1>5 DEF Workers
  <2>2. pub' = pub /\ run'.steps \in {run.steps, w.steps}
    BY <1>0, <1>5, ProgressFailsDoes DEF IInv
  <2>3. Books'
    BY <1>0, <1>2, <2>1, <2>2 DEF Books
  <2>4. Believed' \subseteq Believed
    BY <1>0, <1>3, <2>1, <2>2 DEF Believed, Evidence
  <2>5. QED
    BY <1>0, <2>3, <2>4, SameB
<1>6. QED
  BY <1>1, <1>4, <1>5

-----------------------------------------------------------------------------
(* The end of a run that succeeds, and denials.                            *)

\* Keys are retired at one stage of a governed apply.
LEMMA Retiring ==
  ASSUME IInv, w.pc = "step", NEW g \in w.todo, Stage = "retire"
  PROVE  governed /\ w.i = 4
<1>1. w.i \in 0..Len(Stages) /\ w.i # 0
  BY DEF IInv, Counting
<1>2. ASSUME ~governed PROVE FALSE
  <2>1. w.i \in 0..4 /\ w.i # 0
    BY <1>1, <1>2, PlainStages
  <2>2. w.i \in {1, 2, 3, 4}
    BY <2>1
  <2>3. QED
    BY <1>2, <2>2, PlainStages DEF Stage
<1>3. w.i \in 0..9 /\ w.i # 0
  BY <1>1, <1>2, GovernedStages
<1>4. w.i \in {1, 2, 3, 4, 5, 6, 7, 8, 9}
  BY <1>3
<1>5. QED
  BY <1>2, <1>4, GovernedStages DEF Stage

LEMMA DeleteRevokedKeyB == ASSUME IInv, BInv, NEW g \in Grants, DeleteRevokedKey(g) PROVE BStep
<1> DEFINE rest == w.owned \ {g}
           todo == w.todo \ {g}
           b    == Drop(apim, g)
<1>0. /\ w.pc = "step" /\ lock = "run" /\ governed /\ g \in Things
      /\ UNCHANGED <<governed, plan, lock, inflight, left>>
      /\ w \in Workers /\ rest \in SUBSET Things /\ w.steps \in SUBSET Things
      /\ rest \subseteq w.owned /\ w.owned \subseteq rest \union {g}
      /\ apim \in Gateways /\ Believed \in SUBSET Things /\ g \notin Parts
  BY Retiring, Records, PartsAreThings DEF DeleteRevokedKey, Parts
<1>1. \/ /\ apim' = b /\ Progress(rest, w.steps)
         /\ w' = [w EXCEPT !.todo = todo, !.owned = rest]
      \/ /\ apim' = b /\ ProgressFails(w.steps)
         /\ w' = [w EXCEPT !.pc = "deny", !.owned = rest]
      \/ /\ apim' \in {apim, b} /\ w' = [w EXCEPT !.pc = "deny"]
         /\ UNCHANGED <<pub, run>>
  BY DEF DeleteRevokedKey, Removed
<1>2. /\ apim.made \subseteq pub.owned \union run.steps \union left
      /\ apim.made \subseteq w.owned \union w.steps \union left
      /\ run.steps = w.steps
  BY <1>0 DEF BInv, LInv, Books, Late
<1>3. b.made = apim.made \ {g}
  BY <1>0 DEF Drop, Parts
<1>4. OwnFragment => /\ Sound(b, Believed) /\ Respects(apim, b)
                     /\ Sound(apim, Believed) /\ Respects(apim, apim)
  <2>1. SUFFICES ASSUME OwnFragment
                 PROVE  Sound(b, Believed) /\ Respects(apim, b) /\ Sound(apim, Believed)
                        /\ Respects(apim, apim)
    OBVIOUS
  <2>2. Sound(apim, Believed) /\ (Exists(apim, g) => g \in apim.made)
    BY <1>0, <2>1, NoCustomers, Ours DEF BInv, EInv
  <2>3. QED
    BY <1>0, <2>1, <2>2, DropSound, NoCustomers, RespectsSame
<1> HIDE DEF rest, todo, b
<1>5. CASE /\ apim' = b /\ Progress(rest, w.steps)
           /\ w' = [w EXCEPT !.todo = todo, !.owned = rest]
  <2>1. /\ w'.pc = "step" /\ w'.owned = rest /\ w'.steps = w.steps /\ w'.was = w.was
        /\ w'.kept = w.kept
    BY <1>0, <1>5 DEF Workers
  <2>2. pub'.owned = rest /\ run'.steps = w.steps
    BY <1>0, <1>5, ProgressDoes DEF IInv
  <2>3. Books'
    BY <1>0, <1>2, <1>3, <1>5, <2>1, <2>2 DEF Books
  <2>4. Believed' \subseteq Believed
    BY <1>0, <2>1, <2>2 DEF Believed, Evidence
  <2>5. OwnFragment => Sound(apim, Believed)' /\ Respects(apim, apim')
    BY <1>4, <1>5, <2>4, SoundPart
  <2>6. QED
    BY <1>0, <2>3, <2>5, WorkB
<1>6. CASE /\ apim' = b /\ ProgressFails(w.steps)
           /\ w' = [w EXCEPT !.pc = "deny", !.owned = rest]
  <2>1. /\ w'.pc = "deny" /\ w'.owned = rest /\ w'.steps = w.steps /\ w'.was = w.was
        /\ w'.kept = w.kept
    BY <1>0, <1>6 DEF Workers
  <2>2. pub' = pub /\ run'.steps \in {run.steps, w.steps}
    BY <1>0, <1>6, ProgressFailsDoes DEF IInv
  <2>3. Books'
    BY <1>0, <1>2, <1>3, <1>6, <2>1, <2>2 DEF Books
  <2>4. Believed' \subseteq Believed
    BY <1>0, <1>2, <2>1, <2>2 DEF Believed, Evidence
  <2>5. OwnFragment => Sound(apim, Believed)' /\ Respects(apim, apim')
    BY <1>4, <1>6, <2>4, SoundPart
  <2>6. QED
    BY <1>0, <2>3, <2>5, WorkB
<1>7. CASE /\ apim' \in {apim, b} /\ w' = [w EXCEPT !.pc = "deny"]
           /\ UNCHANGED <<pub, run>>
  <2>1. /\ w'.pc = "deny" /\ w'.owned = w.owned /\ w'.steps = w.steps /\ w'.was = w.was
        /\ w'.kept = w.kept
    BY <1>0, <1>7 DEF Workers
  <2>2. Books'
    BY <1>0, <1>2, <1>3, <1>7, <2>1 DEF Books
  <2>3. Believed' = Believed
    BY <1>0, <1>7, <2>1 DEF Believed, Evidence
  <2>4. OwnFragment => Sound(apim, Believed)' /\ Respects(apim, apim')
    BY <1>4, <1>7, <2>3
  <2>5. QED
    BY <1>0, <2>2, <2>4, WorkB
<1>8. QED
  BY <1>1, <1>5, <1>6, <1>7

LEMMA SucceedB == ASSUME IInv, BInv, Succeed PROVE BStep
<1> DEFINE published == [pub EXCEPT !.status = "published", !.owned = w.owned,
                                    !.access = IF governed THEN "applied" ELSE @,
                                    !.applied = IF governed THEN plan.target ELSE @]
           linked    == [published EXCEPT !.linked = TRUE]
           next      == IF governed THEN "deny" ELSE "stuck"
<1>0. /\ w.pc = "step" /\ lock = "run"
      /\ UNCHANGED <<governed, apim, plan, lock, inflight, left>>
      /\ w \in Workers /\ pub \in Publications /\ run \in RunRecords /\ governed \in BOOLEAN
  BY Records DEF Succeed, IInv, TypeOK
<1>1. \/ pub' = linked /\ run' = [run EXCEPT !.status = "succeeded"]
         /\ w' = [w EXCEPT !.pc = "release"]
      \/ pub' \in {pub, published, linked} /\ UNCHANGED run /\ w' = [w EXCEPT !.pc = next]
  BY DEF Succeed
<1>2. published.owned = w.owned /\ linked.owned = w.owned
  <2>1. published.owned = w.owned
    BY <1>0 DEF Publications
  <2>2. DOMAIN published = DOMAIN pub
    OBVIOUS
  <2> HIDE DEF published
  <2>3. linked.owned = published.owned
    BY <1>0, <2>2 DEF Publications
  <2>4. QED
    BY <2>1, <2>3
<1> HIDE DEF published, linked
<1>3. pub'.owned \in {pub.owned, w.owned}
  BY <1>1, <1>2
<1>4. run'.steps = run.steps
  BY <1>0, <1>1 DEF RunRecords
<1>5. /\ w'.pc \in {"release", "deny", "stuck"} /\ (w'.pc = "deny" => governed)
      /\ w'.owned = w.owned /\ w'.steps = w.steps /\ w'.was = w.was /\ w'.kept = w.kept
  BY <1>0, <1>1 DEF Workers
<1>6. /\ apim.made \subseteq pub.owned \union run.steps \union left
      /\ apim.made \subseteq w.owned \union w.steps \union left
      /\ run.steps = w.steps
  BY <1>0 DEF BInv, LInv, Books, Late
<1>7. Books'
  BY <1>0, <1>3, <1>4, <1>5, <1>6 DEF Books
<1>8. Believed' \subseteq Believed
  BY <1>0, <1>3, <1>4, <1>5 DEF Believed, Evidence
<1>9. QED
  BY <1>0, <1>7, <1>8, SameB

LEMMA ReleaseB == ASSUME IInv, IInv', BInv, Release PROVE BStep
<1>1. /\ w.pc = "release" /\ lock' = "none" /\ w'.pc = "idle" /\ inflight' = {}
      /\ UNCHANGED <<governed, apim, pub>>
  BY AtWork DEF Release, Idle
<1>2. Evidence' \subseteq Believed
  BY <1>1 DEF Evidence, Believed
<1>3. OwnFragment => Sound(apim, Evidence)'
  BY <1>1, <1>2, SoundPart DEF BInv, EInv
<1>4. QED
  BY <1>1, <1>3, RestB, RespectsSame

-----------------------------------------------------------------------------
(* Denials of a worker, and what it restores.                              *)

LEMMA WorkerDenialB ==
  ASSUME IInv, BInv, w.pc \in {"deny", "redeny", "guard"},
         NEW o \in {Guarded(apim, w.owned)} \union GuardFails(apim, w.owned),
         NEW keys \in SUBSET Keys(w.owned), apim' = Suspended(o.apim, keys)
  PROVE  /\ governed /\ o.owned \in SUBSET Things /\ o.denied \in BOOLEAN
         /\ w.owned \subseteq o.owned /\ o.owned \subseteq w.owned \union {"policy"}
         /\ apim'.made \subseteq apim.made \union {"policy", "fragment"}
         /\ apim.made \subseteq pub.owned \union run.steps \union left \union {"policy", "fragment"}
         /\ apim.made \subseteq w.owned \union w.steps \union left \union {"policy", "fragment"}
         /\ OwnFragment => Sound(apim', Believed) /\ Respects(apim, apim')
<1>0. /\ governed /\ lock = "run" /\ apim \in Gateways /\ w.owned \in SUBSET Things
      /\ Believed \in SUBSET Things
  BY AtWork, Records DEF IInv, Counting
<1>1. /\ o.owned \in SUBSET Things /\ o.denied \in BOOLEAN
      /\ w.owned \subseteq o.owned /\ o.owned \subseteq w.owned \union {"policy"}
  BY <1>0, GuardType
<1>2. apim'.made \subseteq apim.made \union {"policy", "fragment"}
  BY <1>0, DenialMakes
<1>3. Late = {"policy", "fragment"}
  BY <1>0 DEF Late
<1>4. /\ apim.made \ Late \subseteq pub.owned \union run.steps \union left
      /\ apim.made \ Late \subseteq w.owned \union w.steps \union left
  BY <1>0 DEF BInv, LInv, Books
<1>5. OwnFragment => Sound(apim', Believed) /\ Respects(apim, apim')
  BY <1>0, DenialSound, NoCustomers DEF BInv, EInv
<1>6. /\ apim.made \subseteq pub.owned \union run.steps \union left \union {"policy", "fragment"}
      /\ apim.made \subseteq w.owned \union w.steps \union left \union {"policy", "fragment"}
  BY <1>3, <1>4
<1>7. QED
  BY <1>0, <1>1, <1>2, <1>5, <1>6

\* What is believed may grow by what no customer makes.
LEMMA GrownB ==
  ASSUME IInv, BInv, w.pc # "idle", UNCHANGED <<lock, inflight>>, Books',
         OwnFragment => Sound(apim', Believed) /\ Respects(apim, apim'),
         Believed' \subseteq Believed \union {"policy", "fragment"}
  PROVE  BStep
<1>1. ASSUME OwnFragment PROVE Sound(apim, Believed)'
  <2>1. Believed' \subseteq Believed \union (Things \ Customers)
    BY <1>1, NoCustomers
  <2>2. Sound(apim', Believed')
    BY <1>1, <2>1, SoundPart
  <2>3. QED
    BY <2>2
<1>2. QED
  BY <1>1, WorkB

LEMMA DenyB == ASSUME IInv, BInv, Deny PROVE BStep
<1>0. /\ w.pc = "deny" /\ lock = "run" /\ UNCHANGED <<governed, plan, lock, inflight, left>>
      /\ w \in Workers /\ w.owned \in SUBSET Things /\ w.steps \in SUBSET Things
  BY Records DEF Deny
<1>1. PICK o \in {Guarded(apim, w.owned)} \union GuardFails(apim, w.owned) :
      \E keys \in SUBSET Keys(w.owned) :
        /\ apim' = Suspended(o.apim, keys)
        /\ IF o.denied
           THEN LET steps == w.steps \union (o.owned \ w.owned)
                IN /\ Progress(o.owned, steps)
                   /\ w' = [w EXCEPT !.owned = o.owned, !.steps = steps, !.denied = TRUE,
                                     !.pc = IF "api" \in o.owned THEN "restore" ELSE "settle",
                                     !.i = 0, !.todo = {}]
           ELSE /\ UNCHANGED <<pub, run>>
                /\ w' = [w EXCEPT !.owned = o.owned, !.pc = "settle"]
  BY DEF Deny
<1> DEFINE own   == o.owned
           steps == w.steps \union (own \ w.owned)
           next  == IF "api" \in own THEN "restore" ELSE "settle"
<1>2. PICK keys \in SUBSET Keys(w.owned) :
        /\ apim' = Suspended(o.apim, keys)
        /\ IF o.denied
           THEN /\ Progress(own, steps)
                /\ w' = [w EXCEPT !.owned = own, !.steps = steps, !.denied = TRUE,
                                  !.pc = next, !.i = 0, !.todo = {}]
           ELSE /\ UNCHANGED <<pub, run>>
                /\ w' = [w EXCEPT !.owned = own, !.pc = "settle"]
  BY <1>1
<1>3. /\ governed /\ own \in SUBSET Things
      /\ w.owned \subseteq own /\ own \subseteq w.owned \union {"policy"}
      /\ apim'.made \subseteq apim.made \union {"policy", "fragment"}
      /\ apim.made \subseteq pub.owned \union run.steps \union left \union {"policy", "fragment"}
      /\ apim.made \subseteq w.owned \union w.steps \union left \union {"policy", "fragment"}
      /\ OwnFragment => Sound(apim', Believed) /\ Respects(apim, apim')
  BY <1>0, <1>2, WorkerDenialB
<1>4. /\ steps \in SUBSET Things /\ w.steps \subseteq steps
      /\ steps \subseteq w.steps \union {"policy"} /\ next \in {"restore", "settle"}
  BY <1>0, <1>3
<1> HIDE DEF own, steps, next
<1>5. CASE /\ Progress(own, steps)
           /\ w' = [w EXCEPT !.owned = own, !.steps = steps, !.denied = TRUE,
                             !.pc = next, !.i = 0, !.todo = {}]
  <2>1. /\ w'.pc = next /\ w'.owned = own /\ w'.steps = steps /\ w'.was = w.was
        /\ w'.kept = w.kept /\ w'.todo = {}
    BY ONLY <1>0, <1>5 DEF Workers
  <2>2. pub'.owned = own /\ run'.steps = steps
    BY <1>3, <1>4, <1>5, ProgressDoes DEF IInv
  <2>3. Books'
    <3>1. Late' = {"policy", "fragment"}
      BY <1>0, <1>3, <1>4, <2>1 DEF Late
    <3>2. QED
      BY <1>0, <1>3, <1>4, <2>1, <2>2, <3>1 DEF Books
  <2>4. Believed' \subseteq Believed \union {"policy", "fragment"}
    BY <1>0, <1>3, <1>4, <2>1, <2>2 DEF Believed, Evidence
  <2>5. QED
    BY <1>0, <1>3, <2>3, <2>4, GrownB
<1>6. CASE UNCHANGED <<pub, run>> /\ w' = [w EXCEPT !.owned = own, !.pc = "settle"]
  <2>1. /\ w'.pc = "settle" /\ w'.owned = own /\ w'.steps = w.steps /\ w'.was = w.was
        /\ w'.kept = w.kept
    BY <1>0, <1>6 DEF Workers
  <2>2. Books'
    BY <1>0, <1>3, <1>6, <2>1 DEF Books, Late
  <2>3. Believed' \subseteq Believed \union {"policy", "fragment"}
    BY <1>0, <1>3, <1>6, <2>1 DEF Believed, Evidence
  <2>4. QED
    BY <1>0, <1>3, <2>2, <2>3, GrownB
<1>7. QED
  BY <1>2, <1>5, <1>6

LEMMA RedenyB == ASSUME IInv, BInv, Redeny PROVE BStep
<1>0. /\ w.pc = "redeny" /\ lock = "run"
      /\ UNCHANGED <<governed, pub, lock, run, inflight, left>>
      /\ w \in Workers /\ w.owned \in SUBSET Things /\ w.steps \in SUBSET Things
  BY AtWork, Records DEF Redeny
<1>1. PICK o \in {Guarded(apim, w.owned)} \union GuardFails(apim, w.owned) :
      \E keys \in SUBSET Keys(w.owned) :
        /\ apim' = Suspended(o.apim, keys)
        /\ w' = [w EXCEPT !.owned = o.owned, !.denied = o.denied, !.pc = "settle",
                          !.steps = @ \union (o.owned \ w.owned)]
  BY DEF Redeny
<1> DEFINE own   == o.owned
           steps == w.steps \union (own \ w.owned)
<1>2. PICK keys \in SUBSET Keys(w.owned) :
        /\ apim' = Suspended(o.apim, keys)
        /\ w' = [w EXCEPT !.owned = own, !.denied = o.denied, !.pc = "settle", !.steps = steps]
  BY <1>1
<1>3. /\ governed /\ own \in SUBSET Things
      /\ w.owned \subseteq own /\ own \subseteq w.owned \union {"policy"}
      /\ apim'.made \subseteq apim.made \union {"policy", "fragment"}
      /\ apim.made \subseteq pub.owned \union run.steps \union left \union {"policy", "fragment"}
      /\ apim.made \subseteq w.owned \union w.steps \union left \union {"policy", "fragment"}
      /\ OwnFragment => Sound(apim', Believed) /\ Respects(apim, apim')
  BY <1>0, <1>2, WorkerDenialB
<1>4. w.steps \subseteq steps /\ steps \subseteq w.steps \union {"policy"}
  BY <1>0, <1>3
<1> HIDE DEF own, steps
<1>5. /\ w'.pc = "settle" /\ w'.owned = own /\ w'.steps = steps /\ w'.was = w.was
      /\ w'.kept = w.kept
  BY <1>0, <1>2 DEF Workers
<1>6. Books'
  BY <1>0, <1>3, <1>4, <1>5 DEF Books, Late
<1>7. Believed' \subseteq Believed \union {"policy", "fragment"}
  BY <1>0, <1>3, <1>4, <1>5 DEF Believed, Evidence
<1>8. QED
  BY <1>0, <1>3, <1>6, <1>7, GrownB

LEMMA GuardB == ASSUME IInv, BInv, Guard PROVE BStep
<1>0. /\ w.pc = "guard" /\ lock = "run"
      /\ UNCHANGED <<governed, pub, lock, run, inflight, left>>
      /\ w \in Workers /\ w.owned \in SUBSET Things /\ run.steps = w.steps
      /\ w.todo \subseteq w.owned
  BY Records DEF Guard, BInv, LInv, Books
<1>1. PICK o \in {Guarded(apim, w.owned)} \union GuardFails(apim, w.owned) :
      \E keys \in SUBSET Keys(w.owned) :
        /\ apim' = Suspended(o.apim, keys)
        /\ w' = [w EXCEPT !.pc = IF o.denied THEN "remove" ELSE "stuck",
                          !.errors = ~(o = Guarded(apim, w.owned) /\ keys = Keys(w.owned))]
  BY DEF Guard
<1>2. PICK keys \in SUBSET Keys(w.owned) :
        /\ apim' = Suspended(o.apim, keys)
        /\ w' = [w EXCEPT !.pc = IF o.denied THEN "remove" ELSE "stuck",
                          !.errors = ~(o = Guarded(apim, w.owned) /\ keys = Keys(w.owned))]
  BY <1>1
<1>3. /\ governed
      /\ apim'.made \subseteq apim.made \union {"policy", "fragment"}
      /\ apim.made \subseteq pub.owned \union run.steps \union left \union {"policy", "fragment"}
      /\ apim.made \subseteq w.owned \union w.steps \union left \union {"policy", "fragment"}
      /\ OwnFragment => Sound(apim', Believed) /\ Respects(apim, apim')
  BY <1>0, <1>2, WorkerDenialB
<1>4. /\ w'.pc \in {"remove", "stuck"} /\ w'.owned = w.owned /\ w'.steps = w.steps
      /\ w'.was = w.was /\ w'.kept = w.kept /\ w'.todo = w.todo
  BY <1>0, <1>2 DEF Workers
<1>5. Books'
  <2>1. Late' = {"policy", "fragment"}
    BY <1>0, <1>3, <1>4 DEF Late
  <2>2. QED
    BY <1>0, <1>3, <1>4, <2>1 DEF Books
<1>6. Believed' = Believed
  BY <1>0, <1>4 DEF Believed, Evidence
<1>7. QED
  BY <1>0, <1>3, <1>5, <1>6, GrownB

-----------------------------------------------------------------------------
(* Restores, removals, and every step.                                     *)

LEMMA RestoreTodoOwned ==
  ASSUME NEW owned \in SUBSET Things, "api" \in owned, NEW i \in 1..4
  PROVE  RestoreTodo(Restoring[i], owned) \subseteq owned \union {"policy", "fragment"}
<1>1. i \in {1, 2, 3, 4}
  OBVIOUS
<1>2. QED
  BY <1>1, RestoringStages DEF RestoreTodo, Todo

LEMMA NextRestoredB == ASSUME IInv, BInv, NextRestored PROVE BStep
<1> USE DEF NextRestored
<1> DEFINE n    == w.i + 1
           todo == RestoreTodo(Restoring[n], w.owned)
<1>0. /\ w.pc = "restore" /\ w \in Workers /\ w.i \in 0..4 /\ governed /\ lock = "run"
      /\ "api" \in w.owned /\ w.owned \in SUBSET Things
      /\ UNCHANGED <<governed, apim, pub, lock, run, inflight, left>>
  BY AtWork, Records DEF IInv, Counting, GInv, Restoration
<1>1. \/ w.i < 4 /\ w' = [w EXCEPT !.i = n, !.todo = todo]
      \/ w' = [w EXCEPT !.pc = "settle", !.restored = TRUE]
  BY RestoringStages
<1>2. w.i < 4 => todo \subseteq w.owned \union {"policy", "fragment"}
  BY <1>0, RestoreTodoOwned
<1> HIDE DEF n, todo
<1>3. /\ w'.owned = w.owned /\ w'.steps = w.steps /\ w'.was = w.was /\ w'.kept = w.kept
      /\ \/ w'.pc = "restore" /\ w'.todo = todo /\ w.i < 4
         \/ w'.pc = "settle"
  BY <1>0, <1>1 DEF Workers
<1>4. Books'
  BY <1>0, <1>2, <1>3 DEF BInv, LInv, Books, Late
<1>5. Believed' = Believed
  BY <1>0, <1>3 DEF Believed, Evidence
<1>6. QED
  BY <1>0, <1>4, <1>5, SameB

LEMMA RestoreB == ASSUME IInv, BInv, NEW t \in Things, Restore(t) PROVE BStep
<1> DEFINE owned == IF t = "fragment" THEN w.owned \union {t} ELSE w.owned
           steps == w.steps \union (owned \ w.owned)
           todo  == w.todo \ {t}
           b     == Put(apim, t, RestoredContent(t), Candidate.on)
<1>0. /\ w.pc = "restore" /\ t \in w.todo /\ lock = "run" /\ governed
      /\ UNCHANGED <<governed, plan, lock, inflight, left>>
      /\ w \in Workers /\ owned \in SUBSET Things /\ steps \in SUBSET Things
      /\ w.owned \subseteq owned /\ owned \subseteq w.owned \union {"fragment"}
      /\ w.steps \subseteq steps /\ steps \subseteq w.steps \union {"fragment"}
      /\ todo \subseteq w.todo /\ apim \in Gateways /\ Believed \in SUBSET Things
      /\ pub \in Publications
  BY Records DEF Restore, IInv, Counting
<1>1. \/ /\ apim' = b /\ Progress(owned, steps)
         /\ w' = [w EXCEPT !.todo = todo, !.owned = owned, !.steps = steps]
      \/ /\ apim' \in {apim, b}
         /\ w' \in {[w EXCEPT !.pc = "redeny"],
                    [w EXCEPT !.pc = "redeny", !.owned = owned, !.steps = steps]}
         /\ UNCHANGED <<pub, run>>
  BY DEF Restore, Written
<1>2. /\ w.owned = pub.owned /\ t \in w.owned \union {"policy", "fragment"}
      /\ w.todo \subseteq w.owned \union {"policy", "fragment"}
      /\ OwnFragment => apim.at[t] # "theirs"
  BY <1>0, RestoreOurs DEF BInv, LInv, Books
<1>3. /\ apim.made \subseteq pub.owned \union run.steps \union left \union {"policy", "fragment"}
      /\ apim.made \subseteq w.owned \union w.steps \union left \union {"policy", "fragment"}
  BY <1>0 DEF BInv, LInv, Books, Late
<1>4. /\ RestoredContent(t) \in Contents /\ RestoredContent(t) \notin {"absent", "theirs"}
      /\ Candidate.on \in SUBSET Grants
  BY RestoredOurs, RulesReviewed
<1>5. b.made \subseteq apim.made \union {t}
  BY DEF Put
<1>6. OwnFragment => /\ Sound(b, Believed) /\ Respects(apim, b)
                     /\ Sound(apim, Believed) /\ Respects(apim, apim)
  BY <1>0, <1>2, <1>4, PutSound, RespectsSame DEF BInv, EInv
<1> HIDE DEF owned, steps, todo, b
<1>7. apim' \in {apim, b} /\ apim'.made \subseteq apim.made \union {t}
  BY <1>1, <1>5
<1>8. OwnFragment => Sound(apim', Believed) /\ Respects(apim, apim')
  BY <1>6, <1>7
<1>9. CASE /\ Progress(owned, steps)
           /\ w' = [w EXCEPT !.todo = todo, !.owned = owned, !.steps = steps]
  <2>1. /\ w'.pc = "restore" /\ w'.todo = todo /\ w'.owned = owned /\ w'.steps = steps
        /\ w'.was = w.was /\ w'.kept = w.kept
    BY <1>0, <1>9 DEF Workers
  <2>2. pub'.owned = owned /\ run'.steps = steps
    BY <1>0, <1>9, ProgressDoes DEF IInv
  <2>3. Books'
    <3>1. Late' = {"policy", "fragment"}
      BY <1>0, <2>1 DEF Late
    <3>2. QED
      BY <1>0, <1>2, <1>3, <1>7, <2>1, <2>2, <3>1 DEF Books
  <2>4. Believed' \subseteq Believed \union {"policy", "fragment"}
    BY <1>0, <2>1, <2>2 DEF Believed, Evidence
  <2>5. QED
    BY <1>0, <1>8, <2>3, <2>4, GrownB
<1>10. CASE /\ w' \in {[w EXCEPT !.pc = "redeny"],
                       [w EXCEPT !.pc = "redeny", !.owned = owned, !.steps = steps]}
            /\ UNCHANGED <<pub, run>>
  <2>1. /\ w'.pc = "redeny" /\ w'.was = w.was /\ w'.kept = w.kept
        /\ w.owned \subseteq w'.owned /\ w'.owned \subseteq w.owned \union {"fragment"}
        /\ w.steps \subseteq w'.steps /\ w'.steps \subseteq w.steps \union {"fragment"}
    BY <1>0, <1>10 DEF Workers
  <2>2. Books'
    <3>1. Late' = {"policy", "fragment"}
      BY <1>0, <2>1 DEF Late
    <3>2. QED
      BY <1>0, <1>2, <1>3, <1>7, <1>10, <2>1, <3>1 DEF Books
  <2>3. Believed' \subseteq Believed \union {"policy", "fragment"}
    BY <1>0, <1>10, <2>1 DEF Believed, Evidence
  <2>4. QED
    BY <1>0, <1>8, <2>2, <2>3, GrownB
<1>11. QED
  BY <1>1, <1>9, <1>10

\* The outcome of a governed run that failed; a worker that could not deny is gone.
LEMMA SettleB == ASSUME IInv, BInv, Settle PROVE BStep
<1>0. /\ w.pc = "settle" /\ lock = "run" /\ inflight = {} /\ inflight' = {} /\ governed
      /\ UNCHANGED <<governed, apim, lock, left>> /\ w \in Workers
      /\ pub \in Publications /\ run \in RunRecords
  BY AtWork, Records DEF Settle, IInv, Counting
<1>1. pub'.owned = w.owned
  <2> DEFINE applied == IF ~w.denied THEN pub.applied
                        ELSE IF w.restored THEN Candidate ELSE Denied(plan.target)
  <2>1. pub' = [pub EXCEPT !.status = "failed", !.owned = w.owned,
                  !.access = IF w.denied THEN "failed" ELSE "unknown", !.applied = applied]
    BY <1>0 DEF Settle, Publications
  <2> HIDE DEF applied
  <2>2. QED
    BY <1>0, <2>1 DEF Publications
<1>2. run'.steps = w.steps
  BY <1>0 DEF Settle, RunRecords
<1>3. w' = Idle \/ w' = [w EXCEPT !.pc = "release"]
  BY DEF Settle
<1>4. /\ w'.pc \in {"idle", "release"}
      /\ w'.owned \subseteq w.owned /\ w'.steps \subseteq w.steps /\ w'.was \subseteq w.was
      /\ w'.kept \subseteq w.kept
  BY <1>0, <1>3 DEF Workers, Idle
<1>5. Books'
  <2>1. Late = {"policy", "fragment"} /\ Late' = {"policy", "fragment"}
    BY <1>0, <1>4 DEF Late
  <2>2. QED
    BY <1>0, <1>1, <1>2, <1>4, <2>1 DEF BInv, LInv, Books
<1>6. Believed' \subseteq Believed
  BY <1>0, <1>1, <1>2, <1>4 DEF Believed, Evidence
<1>7. QED
  BY <1>0, <1>5, <1>6, SameB

-----------------------------------------------------------------------------
(* Taking away.                                                            *)

LEMMA RollBackB == ASSUME IInv, BInv, NEW t \in Things, RollBack(t) PROVE BStep
<1> DEFINE kept == w.kept \ {t}
           less == w.was \ {t}
           more == w.was \union {t}
           b    == Drop(apim, t)
<1>0. /\ w.pc = "rollback" /\ ~governed /\ t \in w.kept /\ lock = "run"
      /\ UNCHANGED <<governed, pub, lock, run, inflight, left>>
      /\ w \in Workers /\ apim \in Gateways /\ Believed \in SUBSET Things
  BY AtWork, Records DEF RollBack, NextRemoved, IInv, Counting
<1>1. \/ apim' = b /\ w' = [w EXCEPT !.kept = kept, !.was = less]
      \/ apim' \in {apim, b} /\ w' = [w EXCEPT !.kept = kept, !.was = more, !.errors = TRUE]
  BY DEF RollBack, Removed
<1>2. /\ apim.made \subseteq pub.owned \union run.steps \union left
      /\ apim.made \subseteq w.was \union w.steps \union left
  BY <1>0 DEF BInv, LInv, Books, Late
<1>3. b.made \subseteq apim.made \ {t}
  BY DEF Drop
<1>4. ASSUME OwnFragment
      PROVE  /\ Sound(b, Believed) /\ Respects(apim, b)
             /\ Sound(apim, Believed) /\ Respects(apim, apim)
  <2>1. Sound(apim, Believed) /\ t \in Believed
    BY <1>0, <1>4 DEF BInv, EInv, Believed
  <2>2. Exists(apim, t) => t \in apim.made
    BY <1>0, <2>1, Ours
  <2>3. QED
    BY <1>0, <1>4, <2>1, <2>2, DropSound, NoCustomers, RespectsSame
<1> HIDE DEF b
<1>5. apim' \in {apim, b} /\ apim'.made \subseteq apim.made
  BY <1>1, <1>3
<1>6. /\ w'.pc = "rollback" /\ w'.owned = w.owned /\ w'.steps = w.steps
      /\ w'.kept \subseteq w.kept /\ w'.was \subseteq w.was \union {t}
      /\ apim'.made \subseteq w'.was \union w.steps \union left
  <2> HIDE DEF kept, less, more
  <2>1. CASE apim' = b /\ w' = [w EXCEPT !.kept = kept, !.was = less]
    <3>1. w'.pc = "rollback" /\ w'.owned = w.owned /\ w'.steps = w.steps /\ w'.kept = kept
          /\ w'.was = less
      BY <1>0, <2>1 DEF Workers
    <3>2. QED
      BY <1>2, <1>3, <2>1, <3>1 DEF kept, less
  <2>2. CASE apim' \in {apim, b} /\ w' = [w EXCEPT !.kept = kept, !.was = more, !.errors = TRUE]
    <3>1. w'.pc = "rollback" /\ w'.owned = w.owned /\ w'.steps = w.steps /\ w'.kept = kept
          /\ w'.was = more
      BY <1>0, <2>2 DEF Workers
    <3>2. QED
      BY <1>2, <1>5, <3>1 DEF kept, more
  <2>3. QED
    BY <1>1, <2>1, <2>2
<1>7. Books'
  BY <1>0, <1>2, <1>5, <1>6 DEF Books
<1>8. Believed' \subseteq Believed
  BY <1>0, <1>6 DEF Believed, Evidence
<1>9. OwnFragment => Sound(apim', Believed) /\ Respects(apim, apim')
  BY <1>4, <1>5
<1>10. QED
  BY <1>0, <1>7, <1>8, <1>9, GrownB

LEMMA RolledBackB == ASSUME IInv, BInv, RolledBack PROVE BStep
<1>0. /\ w.pc = "rollback" /\ ~governed /\ lock = "run"
      /\ UNCHANGED <<governed, apim, lock, inflight, left>> /\ w \in Workers
  BY AtWork, Records DEF RolledBack, IInv, Counting
<1>1. pub'.owned = w.was /\ run'.steps = w.steps
  BY Records DEF RolledBack, Publications, RunRecords
<1>2. /\ w'.pc = "release" /\ w'.owned = w.owned /\ w'.steps = w.steps /\ w'.was = w.was
      /\ w'.kept = w.kept
  BY <1>0 DEF RolledBack, Workers
<1>3. Books'
  BY <1>0, <1>1, <1>2 DEF BInv, LInv, Books
<1>4. Believed' \subseteq Believed
  BY <1>0, <1>1, <1>2 DEF Believed, Evidence
<1>5. QED
  BY <1>0, <1>3, <1>4, SameB

LEMMA RemoveB == ASSUME IInv, BInv, NEW t \in Things, Remove(t) PROVE BStep
<1> DEFINE b     == Drop(apim, t)
           rest  == w.todo \ {t}
           still == IF governed THEN {} ELSE rest
           owned == w.owned \ {t}
<1>0. /\ w.pc = "remove" /\ lock = "run" /\ t \in w.todo
      /\ UNCHANGED <<governed, lock, inflight, left>>
      /\ w \in Workers /\ w.owned \in SUBSET Things /\ w.steps \in SUBSET Things
      /\ owned \in SUBSET Things /\ apim \in Gateways /\ Believed \in SUBSET Things
  BY Records DEF Remove, NextRemoved
<1>1. \/ /\ apim' = b /\ Progress(owned, w.steps)
         /\ w' = [w EXCEPT !.todo = rest, !.owned = owned]
      \/ /\ apim' \in {apim, b} /\ Progress(w.owned, w.steps)
         /\ w' = [w EXCEPT !.todo = still, !.errors = TRUE]
  BY DEF Remove, Removed
<1>2. /\ apim.made \ Late \subseteq w.owned \union w.steps \union left
      /\ w.todo \subseteq w.owned
  BY <1>0 DEF BInv, LInv, Books
<1>3. b.made \subseteq apim.made \ {t}
  BY DEF Drop
<1>4. ASSUME OwnFragment
      PROVE  /\ Sound(b, Believed) /\ Respects(apim, b)
             /\ Sound(apim, Believed) /\ Respects(apim, apim)
  <2>1. Sound(apim, Believed) /\ t \in Believed
    BY <1>0, <1>2, <1>4 DEF BInv, EInv, Believed
  <2>2. Exists(apim, t) => t \in apim.made
    BY <1>0, <2>1, Ours
  <2>3. QED
    BY <1>0, <1>4, <2>1, <2>2, DropSound, NoCustomers, RespectsSame
<1>5. /\ still \subseteq w.todo /\ rest \subseteq w.todo \ {t} /\ owned = w.owned \ {t}
  OBVIOUS
<1> HIDE DEF b, rest, still, owned
<1>6. CASE /\ apim' = b /\ Progress(owned, w.steps)
           /\ w' = [w EXCEPT !.todo = rest, !.owned = owned]
  <2>1. /\ w'.pc = "remove" /\ w'.owned = owned /\ w'.steps = w.steps /\ w'.was = w.was
        /\ w'.kept = w.kept /\ w'.todo = rest
    BY <1>0, <1>6 DEF Workers
  <2>2. pub'.owned = owned /\ run'.steps = w.steps
    BY <1>0, <1>6, ProgressDoes DEF IInv
  <2>3. Late' = Late
    BY <1>0, <2>1 DEF Late
  <2>4. Books'
    BY <1>0, <1>2, <1>3, <1>5, <1>6, <2>1, <2>2, <2>3 DEF Books
  <2>5. Believed' \subseteq Believed
    BY <1>0, <1>5, <2>1, <2>2 DEF Believed, Evidence
  <2>6. QED
    BY <1>0, <1>4, <1>6, <2>4, <2>5, GrownB
<1>7. CASE /\ apim' \in {apim, b} /\ Progress(w.owned, w.steps)
           /\ w' = [w EXCEPT !.todo = still, !.errors = TRUE]
  <2>1. /\ w'.pc = "remove" /\ w'.owned = w.owned /\ w'.steps = w.steps /\ w'.was = w.was
        /\ w'.kept = w.kept /\ w'.todo = still
    BY <1>0, <1>7 DEF Workers
  <2>2. pub'.owned = w.owned /\ run'.steps = w.steps
    BY <1>0, <1>7, ProgressDoes DEF IInv
  <2>3. Late' = Late
    BY <1>0, <2>1 DEF Late
  <2>4. apim'.made \subseteq apim.made
    BY <1>3, <1>7
  <2>5. Books'
    BY <1>0, <1>2, <1>5, <2>1, <2>2, <2>3, <2>4 DEF Books
  <2>6. Believed' \subseteq Believed
    BY <1>0, <2>1, <2>2 DEF Believed, Evidence
  <2>7. QED
    BY <1>0, <1>4, <1>7, <2>5, <2>6, GrownB
<1>8. QED
  BY <1>1, <1>6, <1>7

LEMMA UnpublishedB == ASSUME IInv, BInv, Unpublished PROVE BStep
<1> DEFINE applied == Withdrawn(pub.applied)
<1>0. /\ w.pc = "remove" /\ lock = "run" /\ UNCHANGED <<governed, apim, lock, inflight, left>>
      /\ w \in Workers /\ pub \in Publications /\ run \in RunRecords
  BY AtWork, Records DEF Unpublished
<1>1. pub'.owned = w.owned
  <2>1. pub' = [pub EXCEPT !.status = IF w.errors THEN "failed" ELSE "draft", !.owned = w.owned,
                  !.access = IF ~governed THEN @ ELSE IF w.errors THEN "failed" ELSE "applied",
                  !.applied = applied]
    BY <1>0 DEF Unpublished, Publications
  <2> HIDE DEF applied
  <2>2. QED
    BY <1>0, <2>1 DEF Publications
<1>2. run'.steps = run.steps
  BY <1>0 DEF Unpublished, RunRecords
<1>3. /\ w'.pc = "release" /\ w'.owned = w.owned /\ w'.steps = w.steps /\ w'.was = w.was
      /\ w'.kept = w.kept
  BY <1>0 DEF Unpublished, Workers
<1>4. Books'
  <2>1. Late' = Late
    BY <1>0, <1>3 DEF Late
  <2>2. QED
    BY <1>0, <1>1, <1>2, <1>3, <2>1 DEF BInv, LInv, Books
<1>5. Believed' \subseteq Believed
  BY <1>0, <1>1, <1>2, <1>3 DEF Believed, Evidence
<1>6. QED
  BY <1>0, <1>4, <1>5, SameB

-----------------------------------------------------------------------------

LEMMA WorkerB == ASSUME IInv, IInv', BInv, Worker PROVE BStep
<1>1. CASE NextStage \/ Succeed \/ Write \/ Record \/ Release
  BY <1>1, NextStageB, SucceedB, WriteB, RecordB, ReleaseB
<1>2. ASSUME NEW t \in Things, Begin(t) \/ Restore(t) \/ RollBack(t) \/ Remove(t) PROVE BStep
  BY <1>2, BeginB, RestoreB, RollBackB, RemoveB
<1>3. ASSUME NEW g \in Grants, DeleteRevokedKey(g) PROVE BStep
  BY <1>3, DeleteRevokedKeyB
<1>4. CASE Deny \/ NextRestored \/ Redeny \/ Settle \/ RolledBack \/ Guard \/ Unpublished
  BY <1>4, DenyB, NextRestoredB, RedenyB, SettleB, RolledBackB, GuardB, UnpublishedB
<1>5. QED
  BY <1>1, <1>2, <1>3, <1>4 DEF Worker

LEMMA StepB == IInv /\ IInv' /\ BInv /\ [Next]_vars => BStep
<1> SUFFICES ASSUME IInv, IInv', BInv, [Next]_vars PROVE BStep
  OBVIOUS
<1>1. ASSUME NEW g \in Grants, NEW to \in {"on", "off", "revoked"}, ChangeGrants(g, to) PROVE BStep
  BY <1>1, AsideB DEF ChangeGrants
<1>2. ASSUME NEW t \in Parts, CustomerCreates(t) PROVE BStep
  BY <1>2, CustomerCreatesB
<1>3. CASE Update \/ Delete \/ Plan \/ Apply \/ Unpublish \/ Reap
  BY <1>3, UpdateB, DeleteB, PlanB, ApplyB, UnpublishB, ReapB
<1>4. CASE PlanUnpublish
  BY <1>4, AsideB DEF PlanUnpublish
<1>5. CASE Worker \/ Stop \/ Land
  BY <1>5, WorkerB, StopB, LandB
<1>6. CASE Operator \/ RecoverFails
  BY <1>6, RecoverB, RecoverMutationB, RecoverFailsB DEF Operator
<1>7. ASSUME NEW g \in Grants, NEW op \in {"create", "delete"}, BeginKey(g, op) PROVE BStep
  BY <1>7, BeginKeyB
<1>8. CASE WriteKey \/ StopKey
  BY <1>8, WriteKeyB, StopKeyB
<1>9. CASE UNCHANGED vars
  BY <1>9, AsideB DEF vars
<1>10. QED
  BY <1>1, <1>2, <1>3, <1>4, <1>5, <1>6, <1>7, <1>8, <1>9 DEF Next

LEMMA InitB == Init => BInv
<1> SUFFICES ASSUME Init PROVE BInv
  OBVIOUS
<1>1. /\ w.pc = "idle" /\ lock = "none" /\ inflight = {} /\ apim.made = {}
      /\ \A t \in Things : apim.at[t] = "absent"
      /\ pub.owned = {} /\ w.owned = {} /\ w.steps = {} /\ w.was = {} /\ w.kept = {}
  BY DEF Init, Idle
<1>2. LInv
  BY <1>1 DEF LInv, Books
<1>3. EInv
  BY <1>1 DEF EInv, Sound, Believed, Evidence, Exists
<1>4. QED
  BY <1>2, <1>3 DEF BInv

LEMMA Bookkeeping == Spec => []BInv /\ [][BStep]_vars
<1>1. BStep => BInv'
  BY DEF BStep
<1>2. QED
  BY <1>1, InitB, StepB, Invariance, PTL DEF Spec

-----------------------------------------------------------------------------
(* The keys that work while a governed apply goes on.                      *)

LEMMA KeyStages ==
  ASSUME governed
  PROVE  /\ Todo(Stages[4]) = (plan.existed \intersect Grants) \intersect plan.target.revoked
         /\ Todo(Stages[5]) = (plan.existed \intersect Grants) \ plan.target.revoked
         /\ Todo(Stages[9]) = (plan.existed \intersect Grants) \intersect plan.target.on
BY GovernedStages DEF Todo

LEMMA ElseK ==
  ASSUME w'.pc \notin {"step", "write", "record", "release"}
  PROVE  KInv'
BY DEF KInv, PublishedKeys

LEMMA AsideK ==
  ASSUME KInv, UNCHANGED <<governed, apim, pub, plan, w>>
  PROVE  KInv'
BY DEF KInv, PublishedKeys, KeyDone, Todo, Stage, Stages

\* At a stage that goes on: what is left of it, and the keys that work.
LEMMA StageK ==
  ASSUME governed, UNCHANGED <<governed, plan>>, w'.pc \in {"step", "write", "record"},
         w'.i = w.i,
         \A g \in Grants \intersect plan.existed :
           KeyDone(g)' /\ apim'.at[g] = "active" => g \in plan.target.on,
         w.i \in {4, 5, 9} => w'.todo \subseteq Todo(Stage),
         w'.pc = "record" /\ w.i = 5 => apim'.at[w'.thing] = "suspended"
  PROVE  KInv'
<1>1. Stages' = Stages /\ Stage' = Stage
  BY DEF Stages, Stage
<1>2. Todo(Stage)' = Todo(Stage)
  BY <1>1 DEF Todo
<1>3. PublishedKeys'
  BY DEF PublishedKeys
<1>4. QED
  BY <1>2, <1>3 DEF KInv

LEMMA ClaimK ==
  ASSUME IInv, Unlocked, NEW kind, NEW target, NEW v, Claimed(kind, target, v), v.i = 0,
         v.pc # "release"
  PROVE  KInv'
<1>1. w.pc = "idle" /\ w' \in {w, v}
  BY DEF Unlocked, Claimed, IInv, Locking
<1>2. CASE w' = w
  BY <1>1, <1>2, ElseK
<1>3. CASE w' = v
  <2>1. \A g : ~KeyDone(g)'
    BY <1>3 DEF KeyDone
  <2>2. QED
    BY <1>3, <2>1 DEF KInv, PublishedKeys
<1>4. QED
  BY <1>1, <1>2, <1>3

LEMMA ApplyK == ASSUME IInv, Apply PROVE KInv'
<1> DEFINE v == Begun("step")
<1>1. v.pc = "step" /\ v.i = 0
  BY DEF Begun, Idle
<1>2. Unlocked /\ Claimed("publish", plan.target, v)
  BY DEF Apply
<1> HIDE DEF v
<1>3. QED
  BY <1>1, <1>2, ClaimK

LEMMA UnpublishK == ASSUME IInv, Unpublish PROVE KInv'
<1>1. w.pc = "idle"
  BY DEF Unpublish, Unlocked, IInv, Locking
<1> DEFINE pc == IF governed THEN "guard" ELSE "remove"
           b  == Begun(pc)
           v  == [b EXCEPT !.todo = pub.owned]
<1>2. b.pc = pc /\ b \in Workers
  BY BegunType DEF IInv
<1>3. pc \in {"guard", "remove"}
  OBVIOUS
<1>4. w' \in {w, v}
  BY <1>1 DEF Unpublish, Claimed
<1> HIDE DEF b, pc
<1>5. v.pc = pc
  BY <1>2 DEF Workers
<1>6. QED
  BY <1>1, <1>3, <1>4, <1>5, ElseK

\* A stage of keys begins with all of them left, and ends with none.
LEMMA NextStageK == ASSUME IInv, governed, KInv, NextStage PROVE KInv'
<1> USE DEF NextStage
<1> DEFINE n    == w.i + 1
           todo == Todo(Stages[n])
<1>0. /\ w.pc = "step" /\ w.todo = {} /\ w.i \in 0..9 /\ w \in Workers
      /\ UNCHANGED <<governed, plan, apim>>
  BY Records, GovernedStages DEF IInv, Counting
<1>1. w' = [w EXCEPT !.i = n, !.todo = todo]
  OBVIOUS
<1>2. n = w.i + 1
  OBVIOUS
<1> HIDE DEF n
<1>3. w'.pc = "step" /\ w'.i = n /\ w'.todo = todo
  BY <1>0, <1>1 DEF Workers
<1>4. n \in {4, 5, 9} => todo = Todo(Stages[n])
  OBVIOUS
<1>5. (n = 4 => todo = (plan.existed \intersect Grants) \intersect plan.target.revoked)
      /\ (n = 5 => todo = (plan.existed \intersect Grants) \ plan.target.revoked)
  BY KeyStages
<1> HIDE DEF todo
<1>6. ASSUME NEW g \in Grants \intersect plan.existed, KeyDone(g)' PROVE KeyDone(g)
  <2>1. CASE g \in plan.target.revoked
    BY <1>0, <1>2, <1>3, <1>5, <1>6, <2>1 DEF KeyDone
  <2>2. CASE g \notin plan.target.revoked
    BY <1>0, <1>2, <1>3, <1>5, <1>6, <2>2 DEF KeyDone
  <2>3. QED
    BY <2>1, <2>2
<1>7. \A g \in Grants \intersect plan.existed :
        KeyDone(g)' /\ apim'.at[g] = "active" => g \in plan.target.on
  BY <1>0, <1>6 DEF KInv
<1>8. w'.i \in {4, 5, 9} => w'.todo \subseteq Todo(Stage)'
  <2>1. Stages' = Stages
    BY <1>0, StagesFixed
  <2>2. Stage' = Stages[n]
    BY <1>3, <2>1 DEF Stage
  <2>3. Todo(Stage)' = Todo(Stages[n])
    BY <1>0, <2>2 DEF Todo
  <2>4. QED
    BY <1>3, <1>4, <2>3
<1>9. QED
  BY <1>0, <1>3, <1>7, <1>8 DEF KInv, PublishedKeys

LEMMA BeginK == ASSUME IInv, governed, KInv, NEW t \in Things, Begin(t) PROVE KInv'
<1> DEFINE created == ~Exists(apim, t)
           steps   == IF created THEN w.steps \union {t} ELSE w.steps
<1>0. /\ w.pc = "step" /\ w \in Workers /\ UNCHANGED <<governed, plan, apim>>
      /\ AfterFailure = "deny"
  BY Records DEF Begin, AfterFailure
<1>1. \/ w' = [w EXCEPT !.pc = "deny"] \/ w' = [w EXCEPT !.pc = "deny", !.steps = steps]
      \/ w' = [w EXCEPT !.pc = "write", !.thing = t, !.created = created, !.steps = steps]
  BY <1>0 DEF Begin
<1> HIDE DEF created, steps
<1>2. CASE w' = [w EXCEPT !.pc = "deny"] \/ w' = [w EXCEPT !.pc = "deny", !.steps = steps]
  <2>1. w'.pc = "deny"
    BY <1>0, <1>2 DEF Workers
  <2>2. QED
    BY <2>1, ElseK
<1>3. CASE w' = [w EXCEPT !.pc = "write", !.thing = t, !.created = created, !.steps = steps]
  <2>1. w'.pc = "write" /\ w'.i = w.i /\ w'.todo = w.todo
    BY <1>0, <1>3 DEF Workers
  <2>2. \A g \in Grants : KeyDone(g)' = KeyDone(g)
    BY <1>0, <2>1 DEF KeyDone
  <2>3. QED
    BY <1>0, <2>1, <2>2, StageK DEF KInv
<1>4. QED
  BY <1>1, <1>2, <1>3

\* A key that is written is suspended, or activated because the plan says so.
LEMMA WriteK == ASSUME IInv, governed, KInv, Write PROVE KInv'
<1> DEFINE c == Content[Stage]
           b == Put(apim, w.thing, c, plan.target.on)
<1>0. /\ w.pc = "write" /\ w \in Workers /\ UNCHANGED <<governed, plan>>
      /\ apim \in Gateways /\ w.thing \in Things /\ c \in Contents
      /\ plan.target.on \in SUBSET Grants /\ AfterFailure = "deny" /\ w.thing \in w.todo
      /\ Grants \subseteq Things
  BY Records, StageWrites, RulesReviewed, PartsAreThings DEF Write, AfterFailure, IInv, GInv, Writing
<1>1. \/ apim' = b /\ w' = [w EXCEPT !.pc = "record"]
      \/ \E found \in {{}, {w.thing}} : w' = [w EXCEPT !.pc = "deny", !.owned = @ \union found]
  BY <1>0 DEF Write
<1>2. \A x \in Things : b.at[x] = IF x = w.thing THEN c ELSE apim.at[x]
  BY <1>0, PutDoes
<1>3. /\ w.thing \in Grants => w.i \in {5, 9}
      /\ w.i = 5 => c = "suspended"
  <2>1. w.i \in 1..9 /\ w.i # 4 /\ w.thing \in StageThings(w.i)
    BY <1>0, StageWrites
  <2>2. w.thing \in Grants => w.i \in {5, 9}
    BY <2>1, PartsAreThings DEF StageThings
  <2>3. w.i = 5 => c = "suspended"
    BY GovernedStages, ContentOfStage DEF Stage
  <2>4. QED
    BY <2>2, <2>3
<1>4. w.i = 9 => w.thing \in plan.target.on
  <2>1. SUFFICES ASSUME w.i = 9 PROVE w.thing \in plan.target.on
    OBVIOUS
  <2>2. w.todo \subseteq Todo(Stages[9])
    BY <1>0, <2>1 DEF KInv, Stage
  <2>3. QED
    BY <1>0, <2>2, KeyStages
<1>5. w.i = 5 => w.thing \in Grants
  BY <1>0, StageWrites DEF StageThings
<1> HIDE DEF b, c
<1>6. CASE apim' = b /\ w' = [w EXCEPT !.pc = "record"]
  <2>1. w'.pc = "record" /\ w'.i = w.i /\ w'.todo = w.todo /\ w'.thing = w.thing
    BY <1>0, <1>6 DEF Workers
  <2>2. \A g \in Grants : KeyDone(g)' = KeyDone(g)
    BY <1>0, <2>1 DEF KeyDone
  <2>3. ASSUME NEW g \in Grants \intersect plan.existed, KeyDone(g)', apim'.at[g] = "active"
        PROVE  g \in plan.target.on
    <3>1. CASE g = w.thing
      BY <1>0, <1>2, <1>3, <1>4, <1>6, <2>3, <3>1
    <3>2. CASE g # w.thing
      BY <1>0, <1>2, <1>6, <2>2, <2>3, <3>2 DEF KInv
    <3>3. QED
      BY <3>1, <3>2
  <2>4. w.i = 5 => apim'.at[w.thing] = "suspended"
    BY <1>0, <1>2, <1>3, <1>6
  <2>5. QED
    BY <1>0, <2>1, <2>3, <2>4, StageK DEF KInv
<1>7. ASSUME NEW found \in {{}, {w.thing}}, w' = [w EXCEPT !.pc = "deny", !.owned = @ \union found]
      PROVE  KInv'
  <2>1. w'.pc = "deny"
    BY <1>0, <1>7 DEF Workers
  <2>2. QED
    BY <2>1, ElseK
<1>8. QED
  BY <1>1, <1>6, <1>7

LEMMA RecordK == ASSUME IInv, governed, KInv, Record PROVE KInv'
<1> DEFINE owned == IF w.created THEN w.owned \union {w.thing} ELSE w.owned
           kept  == w.kept \union ({w.thing} \intersect w.steps)
           todo  == w.todo \ {w.thing}
<1>0. /\ w.pc = "record" /\ w \in Workers /\ UNCHANGED <<governed, plan, apim>>
      /\ AfterFailure = "deny" /\ w.i # 4
  BY Records, StageWrites DEF Record, AfterFailure
<1>1. \/ w' = [w EXCEPT !.pc = "step", !.todo = todo, !.owned = owned, !.kept = kept]
      \/ w' = [w EXCEPT !.pc = "deny", !.owned = owned, !.kept = kept]
  BY <1>0 DEF Record
<1>2. todo = w.todo \ {w.thing}
  OBVIOUS
<1> HIDE DEF owned, kept, todo
<1>3. CASE w' = [w EXCEPT !.pc = "step", !.todo = todo, !.owned = owned, !.kept = kept]
  <2>1. w'.pc = "step" /\ w'.i = w.i /\ w'.todo = todo
    BY <1>0, <1>3 DEF Workers
  <2>2. ASSUME NEW g \in Grants \intersect plan.existed, KeyDone(g)', apim'.at[g] = "active"
        PROVE  g \in plan.target.on
    <3>1. KeyDone(g)
      <4>1. w.i = 5 => g # w.thing
        BY <1>0, <2>2 DEF KInv
      <4>2. QED
        BY <1>0, <1>2, <2>1, <2>2, <4>1 DEF KeyDone
    <3>2. QED
      BY <1>0, <2>2, <3>1 DEF KInv
  <2>3. QED
    BY <1>0, <1>2, <2>1, <2>2, StageK DEF KInv
<1>4. CASE w' = [w EXCEPT !.pc = "deny", !.owned = owned, !.kept = kept]
  <2>1. w'.pc = "deny"
    BY <1>0, <1>4 DEF Workers
  <2>2. QED
    BY <2>1, ElseK
<1>5. QED
  BY <1>1, <1>3, <1>4

LEMMA DeleteRevokedKeyK ==
  ASSUME IInv, governed, KInv, NEW g \in Grants, DeleteRevokedKey(g)
  PROVE  KInv'
<1> DEFINE rest == w.owned \ {g}
           todo == w.todo \ {g}
           b    == Drop(apim, g)
<1>0. /\ w.pc = "step" /\ g \in w.todo /\ w \in Workers /\ UNCHANGED <<governed, plan>>
      /\ apim \in Gateways /\ g \in Things /\ w.i = 4 /\ g \notin Parts
      /\ Grants \subseteq Things
  BY Records, PartsAreThings, Retiring DEF DeleteRevokedKey, Parts
<1>1. \/ apim' = b /\ w' = [w EXCEPT !.todo = todo, !.owned = rest]
      \/ w' = [w EXCEPT !.pc = "deny", !.owned = rest] \/ w' = [w EXCEPT !.pc = "deny"]
  BY DEF DeleteRevokedKey
<1>2. \A x \in Grants : b.at[x] = IF x = g THEN "absent" ELSE apim.at[x]
  BY <1>0 DEF Drop, Parts
<1>3. todo = w.todo \ {g}
  OBVIOUS
<1> HIDE DEF rest, todo, b
<1>4. CASE apim' = b /\ w' = [w EXCEPT !.todo = todo, !.owned = rest]
  <2>1. w'.pc = "step" /\ w'.i = w.i /\ w'.todo = todo
    BY <1>0, <1>4 DEF Workers
  <2>2. ASSUME NEW x \in Grants \intersect plan.existed, KeyDone(x)', apim'.at[x] = "active"
        PROVE  x \in plan.target.on
    <3>1. x # g /\ apim.at[x] = "active"
      BY <1>2, <1>4, <2>2
    <3>2. KeyDone(x)
      BY <1>0, <1>3, <2>1, <2>2, <3>1 DEF KeyDone
    <3>3. QED
      BY <1>0, <3>1, <3>2 DEF KInv
  <2>3. QED
    BY <1>0, <1>3, <2>1, <2>2, StageK DEF KInv
<1>5. CASE w' = [w EXCEPT !.pc = "deny", !.owned = rest] \/ w' = [w EXCEPT !.pc = "deny"]
  <2>1. w'.pc = "deny"
    BY <1>0, <1>5 DEF Workers
  <2>2. QED
    BY <2>1, ElseK
<1>6. QED
  BY <1>1, <1>4, <1>5

\* Once every stage is over, so is that of every key.
LEMMA SucceedK == ASSUME IInv, governed, KInv, Succeed PROVE KInv'
<1> DEFINE published == [pub EXCEPT !.status = "published", !.owned = w.owned,
                                    !.access = IF governed THEN "applied" ELSE @,
                                    !.applied = IF governed THEN plan.target ELSE @]
           linked    == [published EXCEPT !.linked = TRUE]
<1>0. /\ w.pc = "step" /\ w.todo = {} /\ w.i = 9 /\ w \in Workers /\ pub \in Publications
      /\ UNCHANGED <<governed, plan, apim>>
  BY Records, GovernedStages DEF Succeed
<1>1. \/ pub' = linked /\ w' = [w EXCEPT !.pc = "release"]
      \/ w' = [w EXCEPT !.pc = "deny"]
  BY DEF Succeed
<1>2. linked.applied = plan.target
  <2>1. published.applied = plan.target /\ DOMAIN published = DOMAIN pub
    BY <1>0 DEF Publications
  <2> HIDE DEF published
  <2>2. QED
    BY <1>0, <2>1 DEF Publications
<1> HIDE DEF linked
<1>3. \A g \in Grants \intersect plan.existed : apim.at[g] = "active" => g \in plan.target.on
  BY <1>0 DEF KInv, KeyDone
<1>4. CASE pub' = linked /\ w' = [w EXCEPT !.pc = "release"]
  <2>1. w'.pc = "release"
    BY <1>0, <1>4 DEF Workers
  <2>2. PublishedKeys'
    BY <1>0, <1>2, <1>3, <1>4 DEF PublishedKeys
  <2>3. QED
    BY <2>1, <2>2 DEF KInv
<1>5. CASE w' = [w EXCEPT !.pc = "deny"]
  <2>1. w'.pc = "deny"
    BY <1>0, <1>5 DEF Workers
  <2>2. QED
    BY <2>1, ElseK
<1>6. QED
  BY <1>1, <1>4, <1>5

\* Any other end of a run is not called a publication.
LEMMA EndK ==
  ASSUME w'.pc \notin {"step", "write", "record"}, pub'.status # "published"
  PROVE  KInv'
BY DEF KInv, PublishedKeys

LEMMA SettleK == ASSUME IInv, Settle PROVE KInv'
<1>0. w.pc = "settle" /\ w \in Workers /\ pub \in Publications
  BY Records DEF Settle
<1> DEFINE applied == IF ~w.denied THEN pub.applied
                      ELSE IF w.restored THEN Candidate ELSE Denied(plan.target)
<1>1. pub' = [pub EXCEPT !.status = "failed", !.owned = w.owned,
                !.access = IF w.denied THEN "failed" ELSE "unknown", !.applied = applied]
  BY <1>0 DEF Settle, Publications
<1> HIDE DEF applied
<1>2. pub'.status = "failed"
  BY <1>0, <1>1 DEF Publications
<1>3. w'.pc \in {"release", "idle"}
  BY <1>0 DEF Settle, Workers, Idle
<1>4. QED
  BY <1>2, <1>3, EndK

LEMMA UnpublishedK == ASSUME IInv, Unpublished PROVE KInv'
<1> DEFINE applied == Withdrawn(pub.applied)
<1>0. w.pc = "remove" /\ w \in Workers /\ pub \in Publications
  BY Records DEF Unpublished
<1>1. pub' = [pub EXCEPT !.status = IF w.errors THEN "failed" ELSE "draft", !.owned = w.owned,
                !.access = IF ~governed THEN @ ELSE IF w.errors THEN "failed" ELSE "applied",
                !.applied = applied]
  BY <1>0 DEF Unpublished, Publications
<1> HIDE DEF applied
<1>2. pub'.status \in {"failed", "draft"}
  BY <1>0, <1>1 DEF Publications
<1>3. w'.pc = "release"
  BY <1>0 DEF Unpublished, Workers
<1>4. QED
  BY <1>2, <1>3, EndK

LEMMA OtherWorkK ==
  ASSUME IInv, governed,
         \/ Release \/ Deny \/ NextRestored \/ Redeny \/ Guard \/ RolledBack
         \/ \E t \in Things : Restore(t) \/ RollBack(t) \/ Remove(t)
  PROVE  KInv'
<1>0. w \in Workers /\ w.pc # "rollback"
  BY Records DEF IInv, Counting
<1>1. w'.pc \notin {"step", "write", "record", "release"}
  <2>1. CASE Release
    BY <2>1 DEF Release, Idle
  <2>2. CASE Deny
    BY <1>0, <2>2 DEF Deny, Workers
  <2>3. CASE NextRestored
    BY <1>0, <2>3 DEF NextRestored, Workers
  <2>4. CASE Redeny
    BY <1>0, <2>4 DEF Redeny, Workers
  <2>5. CASE Guard
    BY <1>0, <2>5 DEF Guard, Workers
  <2>6. CASE RolledBack
    BY <1>0, <2>6 DEF RolledBack
  <2>7. ASSUME NEW t \in Things, Restore(t) PROVE w'.pc \in {"restore", "redeny"}
    BY <1>0, <2>7 DEF Restore, Workers
  <2>8. ASSUME NEW t \in Things, RollBack(t) PROVE FALSE
    BY <1>0, <2>8 DEF RollBack
  <2>9. ASSUME NEW t \in Things, Remove(t) PROVE w'.pc = "remove"
    BY <1>0, <2>9 DEF Remove, Workers
  <2>10. QED
    BY <2>1, <2>2, <2>3, <2>4, <2>5, <2>6, <2>7, <2>8, <2>9
<1>2. QED
  BY <1>1, ElseK

LEMMA WorkerK == ASSUME IInv, governed, KInv, Worker PROVE KInv'
<1>1. CASE NextStage \/ Succeed \/ Write \/ Record \/ Settle \/ Unpublished
  BY <1>1, NextStageK, SucceedK, WriteK, RecordK, SettleK, UnpublishedK
<1>2. ASSUME NEW t \in Things, Begin(t) PROVE KInv'
  BY <1>2, BeginK
<1>3. ASSUME NEW g \in Grants, DeleteRevokedKey(g) PROVE KInv'
  BY <1>3, DeleteRevokedKeyK
<1>4. CASE Release \/ Deny \/ NextRestored \/ Redeny \/ Guard \/ RolledBack
  BY <1>4, OtherWorkK
<1>5. ASSUME NEW t \in Things, Restore(t) \/ RollBack(t) \/ Remove(t) PROVE KInv'
  BY <1>5, OtherWorkK
<1>6. QED
  BY <1>1, <1>2, <1>3, <1>4, <1>5 DEF Worker

LEMMA StepK == IInv /\ KInv /\ governed /\ [Next]_vars => KInv'
<1> SUFFICES ASSUME IInv, KInv, governed, [Next]_vars PROVE KInv'
  OBVIOUS
<1>1. ASSUME NEW g \in Grants, NEW to \in {"on", "off", "revoked"}, ChangeGrants(g, to) PROVE KInv'
  BY <1>1, AsideK DEF ChangeGrants
<1>2. ASSUME w.pc = "idle", w' = w PROVE KInv'
  BY <1>2, ElseK
<1>3. ASSUME NEW t \in Parts, CustomerCreates(t) PROVE KInv'
  BY <1>2, <1>3 DEF CustomerCreates
<1>4. CASE Update \/ Delete \/ Plan \/ PlanUnpublish \/ Reap
  BY <1>2, <1>4 DEF Update, Delete, Plan, PlanUnpublish, Reap, Unlocked, IInv, Locking
<1>5. CASE Apply \/ Unpublish
  BY <1>5, ApplyK, UnpublishK
<1>6. CASE Worker
  BY <1>6, WorkerK
<1>7. CASE Stop
  BY <1>7, ElseK DEF Stop, Idle
<1>8. CASE Land
  BY <1>2, <1>8 DEF Land, IInv, Locking
<1>9. CASE Operator \/ RecoverFails
  BY <1>2, <1>9 DEF Operator, Recover, RecoverMutation, RecoverFails, Quiesced
<1>10. ASSUME NEW g \in Grants, NEW op \in {"create", "delete"}, BeginKey(g, op) PROVE KInv'
  BY <1>2, <1>10 DEF BeginKey, Unlocked, IInv, Locking
<1>11. CASE WriteKey \/ StopKey
  BY <1>2, <1>11 DEF WriteKey, StopKey, IInv, Locking
<1>12. CASE UNCHANGED vars
  BY <1>12, AsideK DEF vars
<1>13. QED
  BY <1>1, <1>3, <1>4, <1>5, <1>6, <1>7, <1>8, <1>9, <1>10, <1>11, <1>12 DEF Next

LEMMA GovernedStays == [Next]_vars => governed' = governed
BY DEF Next, vars, ChangeGrants, CustomerCreates, Update, Delete, Plan, PlanUnpublish, Apply,
   Unpublish, Reap, Worker, Stop, Land, Operator, Recover, RecoverMutation, RecoverFails,
   BeginKey, WriteKey, StopKey, NextStage, Succeed, Write, Record, Release, Begin, Restore,
   RollBack, Remove, DeleteRevokedKey, Deny, NextRestored, Redeny, Settle, RolledBack, Guard,
   Unpublished

LEMMA KeysOfAnApply == Spec => [](governed => KInv)
<1>1. Init => KInv
  BY DEF Init, Idle, KInv, PublishedKeys
<1>2. IInv /\ (governed => KInv) /\ [Next]_vars => (governed => KInv)'
  BY StepK, GovernedStays
<1>3. QED
  BY <1>1, <1>2, Invariance, PTL DEF Spec

-----------------------------------------------------------------------------
(* The theorems.                                                           *)

\* Every variable keeps its type, for any grants and whatever the bounds (plan, apply, unpublish,
\* recover_interrupted and the key changes of services/publishing.py and portal_access.py).
THEOREM TypeCorrect == Spec => []TypeOK
<1>1. IInv => TypeOK
  BY DEF IInv
<1>2. QED
  BY <1>1, Invariance, PTL

\* While a run of a governed publication is under way, or was left behind with a write still to
\* land, nobody is admitted whom neither the access last confirmed nor the reviewed one admits:
\* the order of the stages of _apply_governed and of _governed_failure is what sees to it.
THEOREM AdmitsNoneUnreviewed == Spec => []NeverWider
<1>1. IInv => NeverWider
  BY DEF IInv, GInv, Narrow, Reviewed, NeverWider
<1>2. QED
  BY <1>1, Invariance, PTL

\* However a run of a governed publication ended (applied, failed and restored, denied,
\* unpublished, stopped and recovered), once no run holds the lock the gateway admits only grants
\* of the access that the record says is applied; a failed run leaves no more than was both
\* confirmed before it and reviewed for it; and nobody is admitted while _run_unpublish removes
\* the resources.
THEOREM AccessFailsClosed == Spec => []FailClosed
<1>1. IInv => FailClosed
  BY DEF IInv, GInv, Narrow, Outcome, Teardown, FailClosed
<1>2. QED
  BY <1>1, Invariance, PTL

\* A run that stopped can be recovered: while the lock of a run is held, what MOSAIC brought into
\* being in the gateway is in the publication's record or in the run's saved steps, whatever
\* failed, stopped or landed late (_progress and the journals of _governed_failure, _rollback and
\* recover_interrupted in services/publishing.py).
THEOREM EvidenceSurvives == Spec => []EvidenceKept
<1>1. BInv => EvidenceKept
  BY DEF BInv, LInv, Books, Late, EvidenceKept
<1>2. QED
  BY <1>1, Bookkeeping, PTL

\* Where no customer has a fragment of the name MOSAIC uses, a step of MOSAIC's deletes a part of
\* the gateway only if MOSAIC made it, and a governed run writes over nothing of a customer's
\* (_require_no_collision, the ownership of a write and of a removal, and the order in which they
\* are recorded).  With such a fragment the property fails: Publishing_takeover shows how.
THEOREM NothingTakenOver ==
  ASSUME "fragment" \notin Customers
  PROVE  Spec => TakesNothingOver
<1>1. BStep => \A t \in Parts :
        /\ Exists(apim, t) /\ ~Exists(apim', t) => t \in apim.made
        /\ governed /\ apim.at[t] = "theirs" => apim'.at[t] = "theirs"
  BY DEF BStep, OwnFragment, Respects
<1>2. QED
  BY <1>1, Bookkeeping, PTL DEF TakesNothingOver

\* An apply that succeeded leaves no key working that its plan found and does not enable: each was
\* retired or suspended at its stage, and only the reviewed ones were activated after it.
THEOREM NoOtherKeyWorks == Spec => []PublishedKeys
<1>1. (governed => KInv) => PublishedKeys
  BY DEF KInv, PublishedKeys
<1>2. QED
  BY <1>1, KeysOfAnApply, PTL
===============================================================================
