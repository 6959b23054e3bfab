------------------------------ MODULE Publishing ------------------------------
(***************************************************************************)
(* How one model is published into API Management.  A reviewed plan is     *)
(* applied, one resource after another, under a lock that never expires;   *)
(* every write may fail, take effect and still answer with an error, or    *)
(* land after its worker stopped.  A governed publication ends a failed    *)
(* apply by denying every call and restoring what both the last confirmed  *)
(* access and the reviewed one allow; a plain one rolls back.  A retained  *)
(* lock is for an operator to recover.                                     *)
(*                                                                         *)
(* Code: services/publishing.py (plan, apply, unpublish, recovery),        *)
(* services/model_access.py (snapshots), services/portal_access.py (keys), *)
(* repositories/cosmos_gateway.py (the lock).  API Management is external: *)
(* Put and Drop say what a write does there.                               *)
(***************************************************************************)
EXTENDS Naturals, Sequences, FiniteSets

CONSTANTS
  Grants,      \* grants of the model
  Customers,   \* parts a customer may create under a name MOSAIC would use
  MaxRuns,     \* bound: applies and unpublishes
  MaxEdits,    \* bound: changes of the grants, of the intent, of the keys
  MaxFaults    \* bound: failed calls, stops, and starts that fail

Parts  == {"backend", "fragment", "api", "policy"}
Things == Parts \union Grants        \* a grant stands for its key

ASSUME GrantsAssumption == Grants \intersect Parts = {}
ASSUME CustomersAssumption == Customers \subseteq {"backend", "fragment", "api"}
ASSUME BoundsAssumption == MaxRuns \in Nat /\ MaxEdits \in Nat /\ MaxFaults \in Nat

VARIABLES
  governed,   \* the publication has governed access (fixed when it is created)
  desired,    \* the entitlements: "on", "off", or "revoked" with its key to delete
  apim,       \* the gateway: what is at each name, whom the fragment admits,
              \* and what MOSAIC brought into being
  pub,        \* the publication record
  plan,       \* the last publish plan saved
  teardown,   \* the last unpublish plan saved
  lock,       \* the publication lock: "none", "run" or "mutation"
  run,        \* the record of the run that was claimed last
  w,          \* the worker of that run, while its process lives
  keyjob,     \* a change of one grant's key, under way
  inflight,   \* writes a stopped worker submitted that have not landed
  left,       \* history: what MOSAIC had made and its record had lost when the run was claimed
  runs, edits, faults

vars == <<governed, desired, apim, pub, plan, teardown, lock, run, w, keyjob, inflight,
          left, runs, edits, faults>>

-----------------------------------------------------------------------------
(* API Management.  Its policy is "deny", or "access": the generated policy, *)
(* which asks the fragment.  A fragment that denies, or is not there, admits *)
(* nobody.  An API without a policy serves whoever needs no subscription.    *)

Anyone == "anyone"

Admits(a) ==
  IF a.at["api"] \in {"absent", "theirs"} THEN {}
  ELSE IF a.at["policy"] = "absent" THEN IF a.at["api"] = "open" THEN Grants \union {Anyone} ELSE {}
  ELSE IF a.at["policy"] = "access" /\ a.at["fragment"] = "access" THEN a.rules ELSE {}

Exists(a, t) == a.at[t] # "absent"

Put(a, t, content, rules) ==
  [at    |-> [a.at EXCEPT ![t] = content],
   rules |-> IF t = "fragment" THEN rules ELSE a.rules,
   made  |-> IF Exists(a, t) THEN a.made ELSE a.made \union {t}]

\* An API takes its policy with it.
Drop(a, t) ==
  LET gone == IF t = "api" THEN {"api", "policy"} ELSE {t}
  IN [at    |-> [x \in Things |-> IF x \in gone THEN "absent" ELSE a.at[x]],
      rules |-> IF t = "fragment" THEN {} ELSE a.rules,
      made  |-> a.made \ gone]

-----------------------------------------------------------------------------
(* Records.                                                                *)

\* ModelAccessSnapshot: its version, whether tokens are accepted, the grants it enables, and
\* those whose keys are to be deleted.
NoAccess == [ver |-> 0, entra |-> FALSE, on |-> {}, revoked |-> {}]
Denied(s) == [s EXCEPT !.entra = FALSE, !.on = {}]

\* Mutant: the reviewed access is restored whatever was confirmed before.
SafeReviewed(previous, target) == target

\* safe_access_snapshot: what both the confirmed and the reviewed snapshot allow.
Safe(previous, target) ==
  IF previous.ver = 0 THEN Denied(target)
  ELSE [ver |-> target.ver, entra |-> previous.entra /\ target.entra,
        on |-> previous.on \intersect target.on, revoked |-> previous.revoked]

\* Grants enter the snapshot only once the first apply linked the model API.
AccessSnapshot ==
  [ver |-> pub.applied.ver + 1, entra |-> TRUE,
   on |-> IF pub.linked THEN {g \in Grants : desired[g] = "on"} ELSE {},
   revoked |-> IF pub.linked THEN {g \in Grants : desired[g] = "revoked"} ELSE {}]

NoPlan   == [saved |-> FALSE, target |-> NoAccess, base |-> NoAccess, owned |-> {},
             existed |-> {}]
Digest(p) == <<p.target, p.base, p.owned>>

Idle == [pc |-> "idle", i |-> 0, todo |-> {}, thing |-> "api", created |-> FALSE,
         owned |-> {}, steps |-> {}, was |-> {}, kept |-> {}, denied |-> FALSE,
         restored |-> FALSE, errors |-> FALSE]
NoJob == [pc |-> "idle", grant |-> "none", op |-> "none"]

Init ==
  /\ governed \in BOOLEAN
  /\ desired \in [Grants -> {"on", "off"}]
  /\ apim = [at |-> [t \in Things |-> "absent"], rules |-> {}, made |-> {}]
  /\ pub = [status |-> "draft", access |-> "pending", applied |-> NoAccess, owned |-> {},
            linked |-> FALSE]
  /\ plan = NoPlan /\ teardown = NoPlan
  /\ lock = "none"
  /\ run = [status |-> "none", kind |-> "none", target |-> NoAccess, steps |-> {}]
  /\ w = Idle /\ keyjob = NoJob
  /\ inflight = {} /\ left = {}
  /\ runs = 0 /\ edits = 0 /\ faults = 0

Fault == faults < MaxFaults /\ faults' = faults + 1
Edit  == edits < MaxEdits /\ edits' = edits + 1

-----------------------------------------------------------------------------
(* Intent: entitlements change at any time, the publication only while no   *)
(* run or mutation holds its lock.                                         *)

ChangeGrants(g, to) ==
  /\ Edit
  /\ desired[g] # to
  /\ desired' = [desired EXCEPT ![g] = to]
  /\ UNCHANGED <<governed, apim, pub, plan, teardown, lock, run, w, keyjob, inflight, runs, faults, left>>

Unlocked == lock = "none" /\ pub.status # "deleted"
Known    == pub.access # "unknown"

\* A customer's own resource, under a name the publication would use.  Left out: the moment
\* between a step's read of a resource and its write (customers act while no run is live), and the
\* name of a resource that the record or a stopped run's steps take for MOSAIC's own, where the
\* code cannot tell the two apart.
CustomerCreates(t) ==
  /\ Edit
  /\ w.pc = "idle" /\ inflight = {} /\ keyjob.pc = "idle"
  /\ t \notin pub.owned \union (IF lock = "run" THEN run.steps ELSE {})
  /\ t \in Customers /\ ~Exists(apim, t)
  /\ apim' = [apim EXCEPT !.at[t] = "theirs"]
  /\ UNCHANGED <<governed, desired, pub, plan, teardown, lock, run, w, keyjob, inflight, runs, faults, left>>

\* update: an edit of the intent drops the approved plan.
Update ==
  /\ Edit
  /\ Unlocked /\ Known
  /\ pub' = [pub EXCEPT !.status = IF @ = "planned" THEN "draft" ELSE @]
  /\ plan' = NoPlan
  /\ UNCHANGED <<governed, desired, apim, teardown, lock, run, w, keyjob, inflight, runs, faults, left>>

\* may_own_gateway_state: what a record may not be forgotten for.
MayOwnGatewayState ==
  \/ pub.owned # {}
  \/ pub.status = "applying" \/ pub.access \in {"applying", "unknown"}
  \/ pub.applied.on # {}

Delete ==
  /\ Unlocked
  /\ ~MayOwnGatewayState
  /\ pub' = [pub EXCEPT !.status = "deleted"]
  /\ UNCHANGED <<governed, desired, apim, plan, teardown, lock, run, w, keyjob, inflight,
                 runs, edits, faults, left>>

-----------------------------------------------------------------------------
(* Plans.                                                                  *)

\* A governed publication takes over nothing it does not own; a plain one may replace a backend.
Collides ==
  \E t \in (IF governed THEN Things ELSE Parts \ {"backend"}) : Exists(apim, t) /\ t \notin pub.owned

\* _access_snapshot refuses: "Link this existing publication to its model API".
MustLinkFirst == governed /\ ~pub.linked /\ pub.owned # {}

Plannable == Known /\ ~Collides /\ ~MustLinkFirst

Plan ==
  /\ Unlocked /\ Plannable
  /\ plan' = [saved |-> TRUE, target |-> AccessSnapshot, base |-> pub.applied,
              owned |-> pub.owned, existed |-> {t \in Things : Exists(apim, t)}]
  /\ plan' # plan
  /\ pub' = [pub EXCEPT !.status = IF @ = "published" THEN @ ELSE "planned"]
  /\ UNCHANGED <<governed, desired, apim, teardown, lock, run, w, keyjob, inflight,
                 runs, edits, faults, left>>

PlanUnpublish ==
  /\ Unlocked
  /\ pub.owned # {}
  /\ teardown' = [NoPlan EXCEPT !.saved = TRUE, !.base = pub.applied, !.owned = pub.owned]
  /\ teardown' # teardown
  /\ UNCHANGED <<governed, desired, apim, pub, plan, lock, run, w, keyjob, inflight,
                 runs, edits, faults, left>>

-----------------------------------------------------------------------------
(* Claiming the lock.  A run is saved before the publication says so; when  *)
(* either save fails the lock is given back and the run stays "running".   *)

Fresh(p, snapshot) ==
  p.saved /\ Digest(p) = <<snapshot, pub.applied, pub.owned>>

Claimed(kind, target, worker) ==
  /\ runs < MaxRuns /\ runs' = runs + 1
  /\ left' = apim.made \ pub.owned
  /\ run' = [status |-> "running", kind |-> kind, target |-> target, steps |-> {}]
  /\ \/ /\ lock' = "run"
        /\ pub' = [pub EXCEPT !.status = "applying",
                              !.access = IF governed THEN "applying" ELSE @]
        /\ w' = worker
        /\ UNCHANGED faults
     \/ /\ Fault
        /\ UNCHANGED <<lock, w>>
        /\ \/ UNCHANGED pub
           \/ pub' = [pub EXCEPT !.status = "applying",
                                 !.access = IF governed THEN "applying" ELSE @]

\* The worker's view of the publication at the claim: what it owned and was confirmed to apply.
Begun(pc) == [Idle EXCEPT !.pc = pc, !.owned = pub.owned, !.was = pub.owned]

Apply ==
  /\ Unlocked /\ Known
  /\ Fresh(plan, AccessSnapshot)
  /\ Claimed("publish", plan.target, Begun("step"))
  /\ UNCHANGED <<governed, desired, apim, plan, teardown, keyjob, inflight, edits>>

Unpublish ==
  /\ Unlocked
  /\ Fresh(teardown, NoAccess)
  /\ Claimed("unpublish", pub.applied,
             [Begun(IF governed THEN "guard" ELSE "remove") EXCEPT !.todo = pub.owned])
  /\ UNCHANGED <<governed, desired, apim, plan, teardown, keyjob, inflight, edits>>

\* reap_stale_publish_runs, when a process starts.
Reap ==
  /\ lock = "none" /\ w.pc = "idle"
  /\ run.status = "running"
  /\ run' = [run EXCEPT !.status = "failed"]
  /\ pub' = IF pub.status # "applying" THEN pub
            ELSE [pub EXCEPT !.status = "failed",
                             !.access = IF governed THEN "unknown" ELSE @]
  /\ UNCHANGED <<governed, desired, apim, plan, teardown, lock, w, keyjob, inflight,
                 runs, edits, faults, left>>

-----------------------------------------------------------------------------
(* The steps of an apply.  A stage writes one thing, or each key in turn.   *)

\* Mutant: the order of a plain publication for every one.
StagesPlain == <<"backend", "fragment", "open", "install">>

Stages ==
  IF governed
  THEN <<"shut", "backend", "prepare", "retire", "suspend", "fragment", "install", "open",
         "activate">>
  ELSE <<"backend", "fragment", "open", "install">>

Stage == Stages[w.i]

\* Mutant: keys are not suspended before the reviewed ones are activated.
TodoKeepsKeys(stage) ==
  LET keys == plan.existed \intersect Grants
  IN CASE stage = "shut"                -> {"policy"} \intersect plan.existed
       [] stage = "backend"             -> {"backend"}
       [] stage \in {"prepare", "open"} -> {"api"}
       [] stage = "retire"              -> keys \intersect plan.target.revoked
       [] stage = "suspend"             -> {}
       [] stage = "fragment"            -> {"fragment"}
       [] stage = "install"             -> {"policy"}
       [] stage = "activate"            -> keys \intersect plan.target.on

Todo(stage) ==
  LET keys == plan.existed \intersect Grants
  IN CASE stage = "shut"                -> {"policy"} \intersect plan.existed
       [] stage = "backend"             -> {"backend"}
       [] stage \in {"prepare", "open"} -> {"api"}
       [] stage = "retire"              -> keys \intersect plan.target.revoked
       [] stage = "suspend"             -> keys \ plan.target.revoked
       [] stage = "fragment"            -> {"fragment"}
       [] stage = "install"             -> {"policy"}
       [] stage = "activate"            -> keys \intersect plan.target.on

Content ==
  [shut |-> "deny", backend |-> "ours", prepare |-> "keyed", suspend |-> "suspended",
   fragment |-> "access", install |-> "access", open |-> "open", activate |-> "active"]

\* Mutant: the resources are saved without the steps.
ProgressResources(owned, steps) ==
  /\ pub' = [pub EXCEPT !.owned = owned, !.status = "applying"]
  /\ run' = run

\* _progress: the run's steps are saved, then the publication's resources.
Progress(owned, steps) ==
  /\ pub' = [pub EXCEPT !.owned = owned, !.status = "applying"]
  /\ run' = [run EXCEPT !.steps = steps]

\* A save failed: neither was written, or only the run.
ProgressFails(steps) ==
  /\ Fault
  /\ UNCHANGED pub
  /\ run' \in {run, [run EXCEPT !.steps = steps]}

AfterFailure == IF governed THEN "deny" ELSE "rollback"

\* The effects an answered write can have had: an error is no proof that it did nothing.
Written(t, content, rules) == {apim, Put(apim, t, content, rules)}
Removed(t)                 == {apim, Drop(apim, t)}

NextStage ==
  /\ w.pc = "step" /\ w.todo = {} /\ w.i < Len(Stages)
  /\ w' = [w EXCEPT !.i = @ + 1, !.todo = Todo(Stages[w.i + 1])]
  /\ UNCHANGED <<governed, desired, apim, pub, plan, teardown, lock, run, keyjob, inflight,
                 runs, edits, faults, left>>

\* Mutant: only a plain publication looks for what appeared since its plan.
IntruderPlain(t) == Exists(apim, t) /\ ~governed /\ t \notin plan.existed

\* A thing that appeared since the plan stops the run: a governed run writes only what it owns
\* or creates, a plain one what its plan saw.
Intruder(t) ==
  /\ Exists(apim, t)
  /\ IF governed THEN t \notin w.owned ELSE t \notin plan.existed

\* Up to the write: the lock, the live resource, and the evidence that it may be created.
Begin(t) ==
  /\ w.pc = "step" /\ t \in w.todo /\ Stage # "retire"
  /\ lock = "run"
  /\ LET created == ~Exists(apim, t)
         steps   == IF created THEN w.steps \union {t} ELSE w.steps
     IN \/ /\ Intruder(t)
           /\ w' = [w EXCEPT !.pc = AfterFailure]
           /\ UNCHANGED <<pub, run, faults>>
        \/ /\ ~Intruder(t)
           /\ Progress(w.owned, steps)
           /\ w' = [w EXCEPT !.pc = "write", !.thing = t, !.created = created, !.steps = steps]
           /\ UNCHANGED faults
        \/ /\ ~Intruder(t)
           /\ ProgressFails(steps)
           /\ w' = [w EXCEPT !.pc = AfterFailure, !.steps = steps]
  /\ UNCHANGED <<governed, desired, apim, plan, teardown, lock, keyjob, inflight, runs, edits, left>>

\* The write.  When it fails, a governed run looks whether its create took effect and keeps what
\* it finds; the look may fail too.  A plain run counts the step as not done.
Write ==
  /\ w.pc = "write"
  /\ \/ /\ apim' = Put(apim, w.thing, Content[Stage], plan.target.on)
        /\ w' = [w EXCEPT !.pc = "record"]
        /\ UNCHANGED faults
     \/ /\ Fault
        /\ apim' \in Written(w.thing, Content[Stage], plan.target.on)
        /\ \E found \in {{}, {w.thing}} :
             /\ found # {} => governed /\ w.created /\ Exists(apim', w.thing)
             /\ w' = [w EXCEPT !.pc = AfterFailure, !.owned = @ \union found]
  /\ UNCHANGED <<governed, desired, pub, plan, teardown, lock, run, keyjob, inflight, runs, edits, left>>

\* What was written is the publication's, if this run created it or it was before.
Record ==
  LET owned == IF w.created THEN w.owned \union {w.thing} ELSE w.owned
  IN /\ w.pc = "record"
     /\ \/ /\ Progress(owned, w.steps)
           /\ w' = [w EXCEPT !.pc = "step", !.todo = @ \ {w.thing}, !.owned = owned,
                             !.kept = @ \union ({w.thing} \intersect w.steps)]
           /\ UNCHANGED faults
        \/ /\ ProgressFails(w.steps)
           /\ w' = [w EXCEPT !.pc = AfterFailure, !.owned = owned,
                             !.kept = @ \union ({w.thing} \intersect w.steps)]
     /\ UNCHANGED <<governed, desired, apim, plan, teardown, lock, keyjob, inflight, runs, edits, left>>

\* _delete_revoked_key: only a key the publication owns; it is forgotten once it is gone.
DeleteRevokedKey(g) ==
  /\ w.pc = "step" /\ g \in w.todo /\ Stage = "retire"
  /\ lock = "run"
  /\ LET rest == w.owned \ {g}
     IN \/ /\ g \in w.owned
           /\ apim' = Drop(apim, g)
           /\ \/ /\ Progress(rest, w.steps)
                 /\ w' = [w EXCEPT !.todo = @ \ {g}, !.owned = rest]
                 /\ UNCHANGED faults
              \/ /\ ProgressFails(w.steps)
                 /\ w' = [w EXCEPT !.pc = "deny", !.owned = rest]
        \/ /\ g \in w.owned
           /\ Fault
           /\ apim' \in Removed(g)
           /\ w' = [w EXCEPT !.pc = "deny"]
           /\ UNCHANGED <<pub, run>>
        \/ /\ g \notin w.owned
           /\ w' = [w EXCEPT !.pc = "deny"]
           /\ UNCHANGED <<apim, pub, run, faults>>
  /\ UNCHANGED <<governed, desired, plan, teardown, lock, keyjob, inflight, runs, edits, left>>

\* _finish_success: the state is recorded, then the model API linked and the run closed.  When a
\* later save fails, a governed run still goes on to deny; a plain one is left to Stop.
Succeed ==
  /\ w.pc = "step" /\ w.i = Len(Stages) /\ w.todo = {}
  /\ lock = "run"
  /\ LET published == [pub EXCEPT !.status = "published", !.owned = w.owned,
                                  !.access = IF governed THEN "applied" ELSE @,
                                  !.applied = IF governed THEN plan.target ELSE @]
     IN \/ /\ pub' = [published EXCEPT !.linked = TRUE]
           /\ run' = [run EXCEPT !.status = "succeeded"]
           /\ w' = [w EXCEPT !.pc = "release"]
           /\ UNCHANGED faults
        \/ /\ Fault
           /\ pub' \in {pub, published, [published EXCEPT !.linked = TRUE]}
           /\ UNCHANGED run
           /\ w' = [w EXCEPT !.pc = IF governed THEN "deny" ELSE "stuck"]
  /\ UNCHANGED <<governed, desired, apim, plan, teardown, lock, keyjob, inflight, runs, edits, left>>

\* _release_run
Release ==
  /\ w.pc = "release"
  /\ lock = "run"
  /\ lock' = "none"
  /\ w' = Idle
  /\ UNCHANGED <<governed, desired, apim, pub, plan, teardown, run, keyjob, inflight,
                 runs, edits, faults, left>>

-----------------------------------------------------------------------------
(* Denying, and suspending keys.  Without an API of its own a publication   *)
(* has nothing to deny.  Otherwise the API's policy is replaced or, when    *)
(* that fails, the fragment it asks.                                       *)

Guardable(a, owned) == "api" \in owned /\ Exists(a, "api")

DenyPolicy(a)   == Put(a, "policy", "deny", {})
DenyFragment(a) == Put(a, "fragment", "deny", {})

\* What _establish_deny leaves when every call succeeds: the gateway, and what is owned then.
Guarded(a, owned) ==
  IF Guardable(a, owned)
  THEN [apim |-> DenyPolicy(a), denied |-> TRUE,
        owned |-> IF Exists(a, "policy") THEN owned ELSE owned \union {"policy"}]
  ELSE [apim |-> a, owned |-> owned, denied |-> TRUE]

\* And when replacing the policy fails, with or without effect, or is not journalled.
GuardFails(a, owned) ==
  IF "api" \notin owned THEN {}
  ELSE LET first == {a} \union (IF Exists(a, "api") THEN {DenyPolicy(a)} ELSE {})
           kept  == {owned} \union (IF Guardable(a, owned) THEN {Guarded(a, owned).owned} ELSE {})
       IN {[apim |-> b, owned |-> o, denied |-> FALSE] : b \in first, o \in kept}
          \union IF "fragment" \notin owned THEN {}
                 ELSE {[apim |-> DenyFragment(b), owned |-> o, denied |-> d] :
                         b \in first, o \in kept, d \in BOOLEAN}

Suspended(a, keys) ==
  [a EXCEPT !.at = [t \in Things |-> IF t \in keys /\ Exists(a, t) THEN "suspended" ELSE a.at[t]]]

Keys(owned) == owned \intersect Grants

\* After a failed governed apply: deny, suspend, and when calls are denied restore what is safe.
Candidate == Safe(plan.base, plan.target)

Restoring == <<"fragment", "install", "open", "activate">>

RestoreTodo(stage, owned) ==
  IF stage = "activate" THEN {g \in Candidate.on \intersect owned : Exists(apim, g)}
  ELSE Todo(stage)

Deny ==
  /\ w.pc = "deny"
  /\ lock = "run"
  /\ \E o \in {Guarded(apim, w.owned)} \union GuardFails(apim, w.owned) :
     \E keys \in SUBSET Keys(w.owned) :
       /\ apim' = Suspended(o.apim, keys)
       /\ IF o = Guarded(apim, w.owned) /\ keys = Keys(w.owned) THEN UNCHANGED faults ELSE Fault
       /\ IF o.denied
          THEN LET steps == w.steps \union (o.owned \ w.owned)
               IN /\ Progress(o.owned, steps)
                  /\ w' = [w EXCEPT !.owned = o.owned, !.steps = steps, !.denied = TRUE,
                                    !.pc = IF "api" \in o.owned THEN "restore" ELSE "settle",
                                    !.i = 0, !.todo = {}]
          ELSE /\ UNCHANGED <<pub, run>>
               /\ w' = [w EXCEPT !.owned = o.owned, !.pc = "settle"]
  /\ UNCHANGED <<governed, desired, plan, teardown, lock, keyjob, inflight, runs, edits, left>>

NextRestored ==
  /\ w.pc = "restore" /\ w.todo = {}
  /\ w' = IF w.i < Len(Restoring)
          THEN [w EXCEPT !.i = @ + 1, !.todo = RestoreTodo(Restoring[w.i + 1], w.owned)]
          ELSE [w EXCEPT !.pc = "settle", !.restored = TRUE]
  /\ UNCHANGED <<governed, desired, apim, pub, plan, teardown, lock, run, keyjob, inflight,
                 runs, edits, faults, left>>

RestoredContent(t) ==
  CASE t \in {"fragment", "policy"} -> "access"
    [] t = "api"                    -> IF Candidate.entra THEN "open" ELSE "keyed"
    [] OTHER                        -> "active"

\* One restored write and its entry in the journal, which owns a fragment it did not own.
Restore(t) ==
  /\ w.pc = "restore" /\ t \in w.todo
  /\ lock = "run"
  /\ LET owned == IF t = "fragment" THEN w.owned \union {t} ELSE w.owned
         steps == w.steps \union (owned \ w.owned)
         there == t # "policy" \/ Exists(apim, "api")
     IN \/ /\ there
           /\ apim' = Put(apim, t, RestoredContent(t), Candidate.on)
           /\ Progress(owned, steps)
           /\ w' = [w EXCEPT !.todo = @ \ {t}, !.owned = owned, !.steps = steps]
           /\ UNCHANGED faults
        \/ /\ there
           /\ Fault
           /\ apim' \in Written(t, RestoredContent(t), Candidate.on)
           /\ w' \in {[w EXCEPT !.pc = "redeny"],
                      [w EXCEPT !.pc = "redeny", !.owned = owned, !.steps = steps]}
           /\ UNCHANGED <<pub, run>>
        \/ /\ ~there
           /\ w' = [w EXCEPT !.pc = "redeny"]
           /\ UNCHANGED <<apim, pub, run, faults>>
  /\ UNCHANGED <<governed, desired, plan, teardown, lock, keyjob, inflight, runs, edits, left>>

\* A restoration that failed: deny again.
Redeny ==
  /\ w.pc = "redeny"
  /\ \E o \in {Guarded(apim, w.owned)} \union GuardFails(apim, w.owned) :
     \E keys \in SUBSET Keys(w.owned) :
       /\ apim' = Suspended(o.apim, keys)
       /\ IF o = Guarded(apim, w.owned) /\ keys = Keys(w.owned) THEN UNCHANGED faults ELSE Fault
       /\ w' = [w EXCEPT !.owned = o.owned, !.denied = o.denied, !.pc = "settle",
                         !.steps = @ \union (o.owned \ w.owned)]
  /\ UNCHANGED <<governed, desired, pub, plan, teardown, lock, run, keyjob, inflight, runs, edits, left>>

\* The outcome: access that is known, and the lock given back; or unknown, and the lock kept.
Settle ==
  /\ w.pc = "settle"
  /\ pub' = [pub EXCEPT !.status = "failed", !.owned = w.owned,
                        !.access = IF w.denied THEN "failed" ELSE "unknown",
                        !.applied = IF ~w.denied THEN @
                                    ELSE IF w.restored THEN Candidate
                                    ELSE Denied(plan.target)]
  /\ run' = [run EXCEPT !.status = IF w.denied THEN "failed" ELSE "interrupted",
                        !.steps = w.steps]
  /\ w' = IF w.denied THEN [w EXCEPT !.pc = "release"] ELSE Idle
  /\ UNCHANGED <<governed, desired, apim, plan, teardown, lock, keyjob, inflight,
                 runs, edits, faults, left>>

-----------------------------------------------------------------------------
(* Taking resources away: the rollback of a plain apply, and unpublishing.  *)

Rank == [t \in Things |->
           CASE t = "backend" -> 1 [] t = "fragment" -> 2 [] t = "api" -> 3
             [] t = "policy" -> 4 [] OTHER -> 5]

\* Last created first; a governed API before all else, so that its denial stays until it is gone.
NextRemoved(todo) ==
  {t \in todo : IF governed /\ "api" \in todo THEN t = "api"
                ELSE \A u \in todo : Rank[u] <= Rank[t]}

\* _rollback: only what this run created.  It starts from what was owned before the run.
RollBack(t) ==
  /\ w.pc = "rollback" /\ t \in NextRemoved(w.kept)
  /\ \/ /\ apim' = Drop(apim, t)
        /\ w' = [w EXCEPT !.kept = @ \ {t}, !.was = @ \ {t}]
        /\ UNCHANGED faults
     \/ /\ Fault
        /\ apim' \in Removed(t)
        /\ w' = [w EXCEPT !.kept = @ \ {t}, !.was = @ \union {t}, !.errors = TRUE]
  /\ UNCHANGED <<governed, desired, pub, plan, teardown, lock, run, keyjob, inflight, runs, edits, left>>

RolledBack ==
  /\ w.pc = "rollback" /\ w.kept = {}
  /\ pub' = [pub EXCEPT !.status = IF w.errors THEN "failed" ELSE "rolledBack", !.owned = w.was]
  /\ run' = [run EXCEPT !.status = IF w.errors THEN "rollbackFailed" ELSE "rolledBack",
                        !.steps = w.steps]
  /\ w' = [w EXCEPT !.pc = "release"]
  /\ UNCHANGED <<governed, desired, apim, plan, teardown, lock, keyjob, inflight,
                 runs, edits, faults, left>>

\* _run_unpublish: a governed API is denied before anything is deleted, or nothing is.
Guard ==
  /\ w.pc = "guard"
  /\ lock = "run"
  /\ \E o \in {Guarded(apim, w.owned)} \union GuardFails(apim, w.owned) :
     \E keys \in SUBSET Keys(w.owned) :
       LET clean == o = Guarded(apim, w.owned) /\ keys = Keys(w.owned)
       IN /\ apim' = Suspended(o.apim, keys)
          /\ IF clean THEN UNCHANGED faults ELSE Fault
          /\ w' = [w EXCEPT !.pc = IF o.denied THEN "remove" ELSE "stuck", !.errors = ~clean]
  /\ UNCHANGED <<governed, desired, pub, plan, teardown, lock, run, keyjob, inflight, runs, edits, left>>

Remove(t) ==
  /\ w.pc = "remove" /\ t \in NextRemoved(w.todo)
  /\ lock = "run"
  /\ \/ /\ apim' = Drop(apim, t)
        /\ Progress(w.owned \ {t}, w.steps)
        /\ w' = [w EXCEPT !.todo = @ \ {t}, !.owned = @ \ {t}]
        /\ UNCHANGED faults
     \/ /\ Fault
        /\ apim' \in Removed(t)
        /\ Progress(w.owned, w.steps)
        /\ w' = [w EXCEPT !.todo = IF governed THEN {} ELSE @ \ {t}, !.errors = TRUE]
  /\ UNCHANGED <<governed, desired, plan, teardown, lock, keyjob, inflight, runs, edits, left>>

\* What is applied once nothing is: nobody's access, as a version of its own.
Withdrawn(s) == IF s.ver = 0 THEN s ELSE [Denied(s) EXCEPT !.ver = s.ver + 1]

Unpublished ==
  /\ w.pc = "remove" /\ w.todo = {}
  /\ pub' = [pub EXCEPT !.status = IF w.errors THEN "failed" ELSE "draft", !.owned = w.owned,
                        !.access = IF ~governed THEN @ ELSE IF w.errors THEN "failed" ELSE "applied",
                        !.applied = Withdrawn(@)]
  /\ run' = [run EXCEPT !.status = IF w.errors THEN "failed" ELSE "succeeded"]
  /\ w' = [w EXCEPT !.pc = "release"]
  /\ UNCHANGED <<governed, desired, apim, plan, teardown, lock, keyjob, inflight,
                 runs, edits, faults, left>>

-----------------------------------------------------------------------------
(* A worker that stops.  A cancelled one, or one whose last save failed,    *)
(* tries to record the interruption; a killed one does not.  The lock stays.*)
(* The write it had submitted took effect, or never will, or still may.     *)

Effect(t, to) == [thing |-> t, to |-> to]

Submitted ==
  CASE w.pc = "write" -> {Effect(w.thing, Content[Stage])}
    [] w.pc = "restore" -> {Effect(t, RestoredContent(t)) :
                              t \in {u \in w.todo : u # "policy" \/ Exists(apim, "api")}}
    [] w.pc = "step" /\ w.i > 0 ->
         IF Stage = "retire" THEN {Effect(t, "absent") : t \in w.todo \intersect w.owned} ELSE {}
    [] w.pc \in {"deny", "redeny", "guard"} ->
         (IF Guardable(apim, w.owned) THEN {Effect("policy", "deny")} ELSE {})
           \union {Effect(g, "suspended") : g \in {k \in Keys(w.owned) : Exists(apim, k)}}
    [] w.pc = "rollback" -> {Effect(t, "absent") : t \in NextRemoved(w.kept)}
    [] w.pc = "remove" -> {Effect(t, "absent") : t \in NextRemoved(w.todo)}
    [] OTHER -> {}

Landed(a, e, rules) ==
  IF e.to = "absent" THEN Drop(a, e.thing) ELSE Put(a, e.thing, e.to, rules)

\* What the fragment in flight admits: the reviewed access, or what is being restored of it.
SubmittedRules == IF w.pc = "restore" THEN Candidate.on ELSE plan.target.on

\* Mutant: the status of a run for that of the publication.
InterruptedRun == [pub EXCEPT !.status = "interrupted", !.access = "unknown"]

Interrupted == [pub EXCEPT !.status = "failed", !.access = "unknown"]

Stop ==
  /\ w.pc # "idle"
  /\ IF w.pc = "stuck" THEN UNCHANGED faults ELSE Fault
  /\ w' = Idle
  /\ \/ UNCHANGED <<apim, inflight>>
     \/ \E e \in Submitted :
          \/ apim' = Landed(apim, e, SubmittedRules) /\ UNCHANGED inflight
          \/ UNCHANGED apim /\ inflight' = {[e |-> e, rules |-> SubmittedRules]}
  /\ \/ UNCHANGED <<pub, run>>
     \/ run' = [run EXCEPT !.status = "interrupted"] /\ pub' \in {pub, Interrupted}
  /\ UNCHANGED <<governed, desired, plan, teardown, lock, keyjob, runs, edits, left>>

\* The write a stopped worker left behind ends: it takes effect, or it fails.
Land ==
  \E f \in inflight :
    /\ apim' \in {apim, Landed(apim, f.e, f.rules)}
    /\ inflight' = {}
    /\ UNCHANGED <<governed, desired, pub, plan, teardown, lock, run, w, keyjob,
                   runs, edits, faults, left>>

-----------------------------------------------------------------------------
(* recover_interrupted, once the operator attests that the worker stopped   *)
(* and that every write it submitted has ended.                            *)

\* Mutant: only a run that recorded its interruption is recovered.
QuiescedRecorded == w.pc = "idle" /\ keyjob.pc = "idle" /\ inflight = {} /\ run.status = "interrupted"

Quiesced == w.pc = "idle" /\ keyjob.pc = "idle" /\ inflight = {}

\* What the run's saved steps say it may have created and is there, on top of the record.
Recovered == pub.owned \union {t \in run.steps : Exists(apim, t)}

Recover ==
  /\ lock = "run" /\ Quiesced
  /\ LET denied == IF governed THEN Guarded(apim, Recovered)
                   ELSE [apim |-> apim, owned |-> Recovered, denied |-> TRUE]
     IN /\ apim' = IF governed THEN Suspended(denied.apim, Keys(Recovered)) ELSE apim
        /\ pub' = [pub EXCEPT
             !.status = "failed", !.owned = denied.owned,
             !.access = IF governed THEN "failed" ELSE "pending",
             !.applied = IF ~governed \/ run.target.ver = 0 THEN @
                         ELSE [Denied(run.target) EXCEPT
                                 !.ver = 1 + IF @ > pub.applied.ver THEN @ ELSE pub.applied.ver]]
        /\ run' = [run EXCEPT !.status = "interrupted",
                              !.steps = @ \union (denied.owned \ Recovered)]
        /\ lock' = "none"
  /\ UNCHANGED <<governed, desired, plan, teardown, w, keyjob, inflight, runs, edits, faults, left>>

\* Denial was not confirmed, or the recovery stopped: the lock stays and recovery can be repeated.
RecoverFails ==
  /\ lock = "run" /\ Quiesced
  /\ Fault
  /\ IF governed
     THEN \E o \in {Guarded(apim, Recovered)} \union GuardFails(apim, Recovered) :
          \E keys \in SUBSET Keys(Recovered) :
            /\ apim' = Suspended(o.apim, keys)
            /\ pub' \in {pub, Interrupted, [Interrupted EXCEPT !.owned = o.owned]}
     ELSE UNCHANGED <<apim, pub>>
  /\ run' \in {run, [run EXCEPT !.status = "interrupted"]}
  /\ UNCHANGED <<governed, desired, plan, teardown, lock, w, keyjob, inflight, runs, edits, left>>

\* The lock of a mutation, or of a key change, that stopped: the plan has to be made again.
RecoverMutation ==
  /\ lock = "mutation" /\ Quiesced
  /\ lock' = "none"
  /\ plan' = NoPlan
  /\ UNCHANGED <<governed, desired, apim, pub, teardown, run, w, keyjob, inflight,
                 runs, edits, faults, left>>

-----------------------------------------------------------------------------
(* A grant's key, created or deleted on request under the publication lock. *)
(* Ownership is recorded before the create, and dropped after the delete.   *)

BeginKey(g, op) ==
  /\ Edit
  /\ Unlocked
  /\ CASE op = "create" -> /\ pub.status = "published" /\ pub.access = "applied"
                           /\ g \in pub.applied.on /\ desired[g] = "on"
                           /\ ~Exists(apim, g)
                           /\ pub' = [pub EXCEPT !.owned = @ \union {g}]
       [] op = "delete" -> /\ g \in pub.owned
                           /\ UNCHANGED pub
  /\ lock' = "mutation"
  /\ keyjob' = [pc |-> "write", grant |-> g, op |-> op]
  /\ UNCHANGED <<governed, desired, apim, plan, teardown, run, w, inflight, runs, faults, left>>

KeyEffect == Effect(keyjob.grant, IF keyjob.op = "create" THEN "active" ELSE "absent")

\* The write; whether it fails or not, the lock is given back.
WriteKey ==
  /\ keyjob.pc = "write"
  /\ \/ /\ apim' = Landed(apim, KeyEffect, {})
        /\ pub' = IF keyjob.op = "delete" THEN [pub EXCEPT !.owned = @ \ {keyjob.grant}] ELSE pub
        /\ UNCHANGED faults
     \/ /\ Fault
        /\ apim' \in {apim, Landed(apim, KeyEffect, {})}
        /\ UNCHANGED pub
  /\ lock' = "none"
  /\ keyjob' = NoJob
  /\ UNCHANGED <<governed, desired, plan, teardown, run, w, inflight, runs, edits, left>>

\* Its process stopped: the lock stays.
StopKey ==
  /\ keyjob.pc = "write"
  /\ Fault
  /\ \/ apim' \in {apim, Landed(apim, KeyEffect, {})} /\ UNCHANGED inflight
     \/ UNCHANGED apim /\ inflight' = {[e |-> KeyEffect, rules |-> {}]}
  /\ keyjob' = NoJob
  /\ UNCHANGED <<governed, desired, pub, plan, teardown, lock, run, w, runs, edits, left>>

-----------------------------------------------------------------------------
Worker ==
  \/ NextStage \/ Succeed \/ Write \/ Record \/ Release
  \/ \E t \in Things : Begin(t) \/ Restore(t) \/ RollBack(t) \/ Remove(t)
  \/ \E g \in Grants : DeleteRevokedKey(g)
  \/ Deny \/ NextRestored \/ Redeny \/ Settle \/ RolledBack \/ Guard \/ Unpublished

Operator == Recover \/ RecoverMutation

Next ==
  \/ \E g \in Grants, to \in {"on", "off", "revoked"} : ChangeGrants(g, to)
  \/ \E t \in Parts : CustomerCreates(t)
  \/ Update \/ Delete \/ Plan \/ PlanUnpublish \/ Apply \/ Unpublish \/ Reap
  \/ Worker \/ Stop \/ Land
  \/ Operator \/ RecoverFails
  \/ \E g \in Grants, op \in {"create", "delete"} : BeginKey(g, op)
  \/ WriteKey \/ StopKey

Spec == Init /\ [][Next]_vars

\* A live worker goes on, what was submitted ends, and an operator recovers a retained lock.
FairSpec ==
  Spec /\ WF_vars(Worker \/ WriteKey) /\ WF_vars(Land) /\ WF_vars(Stop /\ w.pc = "stuck")
       /\ WF_vars(Operator)

-----------------------------------------------------------------------------
Snapshots == [ver : Nat, entra : BOOLEAN, on : SUBSET Grants, revoked : SUBSET Grants]
Contents  == {"absent", "theirs", "ours", "keyed", "open", "deny", "access", "active", "suspended"}
Plans     == [saved : BOOLEAN, target : Snapshots, base : Snapshots, owned : SUBSET Things,
              existed : SUBSET Things]
Gateways  == [at : [Things -> Contents], rules : SUBSET Grants, made : SUBSET Things]

Publications ==
  [status : {"draft", "planned", "applying", "published", "failed", "rolledBack", "deleted"},
   access : {"pending", "applying", "applied", "failed", "unknown"},
   applied : Snapshots, owned : SUBSET Things, linked : BOOLEAN]
RunRecords ==
  [status : {"none", "running", "succeeded", "failed", "rolledBack", "rollbackFailed",
             "interrupted"},
   kind : {"none", "publish", "unpublish"}, target : Snapshots, steps : SUBSET Things]
Workers ==
  [pc : {"idle", "step", "write", "record", "deny", "restore", "redeny", "settle", "rollback",
         "guard", "remove", "release", "stuck"},
   i : 0..9, todo : SUBSET Things, thing : Things, created : BOOLEAN,
   owned : SUBSET Things, steps : SUBSET Things, was : SUBSET Things, kept : SUBSET Things,
   denied : BOOLEAN, restored : BOOLEAN, errors : BOOLEAN]
KeyJobs ==
  [pc : {"idle", "write"}, grant : Grants \union {"none"}, op : {"none", "create", "delete"}]
Effects == [thing : Things, to : Contents]

TypeOK ==
  /\ governed \in BOOLEAN
  /\ desired \in [Grants -> {"on", "off", "revoked"}]
  /\ apim \in Gateways
  /\ pub \in Publications
  /\ plan \in Plans /\ teardown \in Plans
  /\ lock \in {"none", "run", "mutation"}
  /\ run \in RunRecords
  /\ w \in Workers
  /\ keyjob \in KeyJobs
  /\ inflight \subseteq [e : Effects, rules : SUBSET Grants]
  /\ left \subseteq Things
  /\ runs \in 0..MaxRuns /\ edits \in 0..MaxEdits /\ faults \in 0..MaxFaults

\* Fail closed.  While no run holds the lock, the gateway admits only grants of the access recorded
\* as applied, however the run before it failed or was recovered (recover_interrupted).  When a
\* failed run gives its lock back, that is no more than both the access confirmed before it and the
\* access reviewed for it (_governed_failure).  And nobody is admitted while a publication is
\* taken away piece by piece (_run_unpublish).
FailClosed ==
  governed =>
    /\ lock # "run" => Admits(apim) \subseteq pub.applied.on
    /\ w.pc = "release" /\ pub.status = "failed" => Admits(apim) \subseteq plan.base.on \intersect plan.target.on
    /\ w.pc = "remove" => Admits(apim) = {}

\* While a run is under way, or left behind, nobody is admitted that neither the confirmed nor
\* the reviewed access admits, whatever is written, half-written or still to land.
NeverWider ==
  governed => Admits(apim) \subseteq pub.applied.on \union plan.base.on \union plan.target.on

\* Recovery can find what a run made.  As long as a run holds the lock, everything MOSAIC brought
\* into being is in the publication's record or in the run's saved steps, unless it was lost
\* before this run (_progress saves a step before its write).  Denying and restoring journal a
\* policy or a fragment they create only after its write: those two may be missing once a governed
\* apply has failed.
EvidenceKept ==
  lock = "run" =>
    LET late == IF governed /\ w.pc \notin {"step", "write", "record"} THEN {"policy", "fragment"} ELSE {}
    IN apim.made \ late \subseteq pub.owned \union run.steps \union left

\* An apply that succeeded leaves no key working that it found and does not apply, whatever keys
\* were created, suspended or left over before it was planned (the suspended and the activated
\* steps of a governed plan).  Of the keys that its plan found.
PublishedKeys ==
  governed /\ w.pc = "release" /\ pub.status = "published" =>
    \A g \in Grants \intersect plan.existed : apim.at[g] = "active" => g \in pub.applied.on

\* Of every key that exists: docs/adr/0022-cost-centers.md says that an apply suspends a grant's
\* existing key, and activates it again when the grant is enabled.
OnlyAppliedKeysWork ==
  governed /\ lock = "none" /\ pub.status = "published" =>
    \A g \in Grants : apim.at[g] = "active" => g \in pub.applied.on

\* MOSAIC deletes only what it created, and a governed run replaces nothing of a customer's.
TakesNothingOver ==
  [][\A t \in Parts :
       /\ Exists(apim, t) /\ ~Exists(apim', t) => t \in apim.made
       /\ governed /\ apim.at[t] = "theirs" => apim'.at[t] = "theirs"]_vars

\* A publication whose apply failed or was rolled back can be planned again: docs/model-publishing.md
\* says that "Review changes" is how it is retried.  Of a publication whose access is known.
FailedCanBeRetried ==
  pub.status \in {"failed", "rolledBack"} /\ lock = "none" /\ Known => Plannable

\* Every run and every key change ends, or is recovered: the lock comes back.
LockComesBack == lock # "none" ~> lock = "none"
===============================================================================
