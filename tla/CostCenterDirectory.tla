-------------------------- MODULE CostCenterDirectory --------------------------
(***************************************************************************)
(* How one cost center gets its Entra group and how MOSAIC changes that     *)
(* group's members.  Each write to Microsoft Graph has a small operation    *)
(* record: the intent is committed, Graph is called with no lease held, and *)
(* the outcome is committed over the record.  A call may time out and take  *)
(* effect later, a commit's answer may be lost, a worker may stop anywhere, *)
(* and the lease that keeps workers apart may run out under its holder.     *)
(* A removal then has the member's grants rechecked.                       *)
(*                                                                         *)
(* Code: services/cost_center_directory.py, repositories/                  *)
(* cost_center_writes.py and cosmos_cost_centers.py (records saved over    *)
(* the version read), services/entitlements.py (rechecks).                 *)
(***************************************************************************)
EXTENDS Integers, FiniteSets

CONSTANTS
  Workers,      \* API instances serving administrators' requests
  Keys,         \* idempotency keys of membership requests: one operation each
  Members,      \* people, each with one grant under the center
  MaxRequests,  \* bound: requests
  MaxOutside,   \* bound: membership changes made outside MOSAIC
  MaxFaults     \* bound: refused and lost calls, lost answers, stops, overrun leases

ASSUME KeysAssumption   == "create" \notin Keys
ASSUME NobodyAssumption == "nobody" \notin Workers \union Members
ASSUME BoundsAssumption == MaxRequests \in Nat /\ MaxOutside \in Nat /\ MaxFaults \in Nat

Create   == "create"     \* the center's one provisioning operation
Ops      == Keys \union {Create}
Attached == -1           \* the group an administrator attaches; created ones are 1, 2, ...

VARIABLES
  ops,        \* the operation records
  center,     \* the center's binding: its group, 0 for none, and whether it is verified
  rechecks,   \* the center's pending rechecks, each with the members whose grants it covers
  grants,     \* members whose grant is not revoked
  members,    \* Graph: the direct members of the bound group
  landed,     \* Graph: how often a call of each operation took effect
  late,       \* Graph: calls nobody waits for that may still take effect
  w,          \* what each worker is doing
  lease,      \* who holds the cost centers' scope lease
  recorded,   \* how many rechecks were recorded; numbers them
  requests, outside, faults

graph    == <<members, landed, late>>
access   == <<rechecks, grants, recorded>>
counters == <<requests, outside, faults>>
vars     == <<ops, center, rechecks, grants, members, landed, late, w, lease, recorded,
              requests, outside, faults>>

Fault   == faults < MaxFaults /\ faults' = faults + 1
Counted == requests < MaxRequests /\ requests' = requests + 1

NoOp == [state |-> "none", kind |-> "none", of |-> "nobody", group |-> 0]

\* op, with the intent and the outcome it is about to save; fresh: the record is as it was read;
\* then: what follows; seen, absent: the rechecks and the members a pass over rechecks goes by.
Idle == [pc |-> "idle", op |-> Create, kind |-> "none", of |-> "nobody", out |-> "none",
         group |-> 0, fresh |-> FALSE, then |-> "idle", seen |-> {}, absent |-> {}]

\* A new center, or one that an administrator attached to a group that grants rely on.
Init ==
  /\ ops = [o \in Ops |-> NoOp]
  /\ \/ /\ center = [group |-> 0, verified |-> FALSE]
        /\ members = {} /\ grants = {}
     \/ /\ center = [group |-> Attached, verified |-> TRUE]
        /\ members = Members /\ grants = Members
  /\ rechecks = {} /\ recorded = 0
  /\ landed = [o \in Ops |-> 0] /\ late = [o \in Ops |-> 0]
  /\ w = [x \in Workers |-> Idle]
  /\ lease = "nobody"
  /\ requests = 0 /\ outside = 0 /\ faults = 0

Goes(x, doing) == w' = [w EXCEPT ![x] = doing]

\* A save of operation o: whoever read it before now holds an old version.
SavesOp(x, o, record, doing) ==
  /\ ops' = [ops EXCEPT ![o] = record]
  /\ w' = [y \in Workers |-> IF y = x THEN doing
                             ELSE IF w[y].op = o THEN [w[y] EXCEPT !.fresh = FALSE] ELSE w[y]]

Release(x) == lease' = IF lease = x THEN "nobody" ELSE lease

-----------------------------------------------------------------------------
(* The intent.                                                             *)

Unsettled(m) == {o \in Ops : ops[o].of = m /\ ops[o].state \in {"pending", "unknown"}}
Unhindered(kind, m) == kind = "create" \/ Unsettled(m) = {}

\* require_operation_start
CanStart(kind) == IF kind = "create" THEN center.group = 0 ELSE center.verified

\* _provision_group and _member_operation, up to the commit.
Request(x, o, kind, m) ==
  /\ Counted
  /\ w[x].pc = "idle" /\ lease = "nobody"
  /\ (o = Create) = (kind = "create") /\ (o = Create) = (m = "nobody")
  /\ ops[o].state = "none" /\ CanStart(kind) /\ Unhindered(kind, m)
  /\ lease' = x
  /\ Goes(x, [Idle EXCEPT !.pc = "commit", !.op = o, !.kind = kind, !.of = m])
  /\ UNCHANGED <<ops, center, access, graph, outside, faults>>

\* create_directory_operation: the record must be new and the center still fit.
Commit(x) ==
  LET o == w[x].op
  IN /\ w[x].pc = "commit"
     /\ IF ops[o].state = "none" /\ CanStart(w[x].kind)
        THEN SavesOp(x, o, [state |-> "pending", kind |-> w[x].kind, of |-> w[x].of, group |-> 0],
                     [w[x] EXCEPT !.pc = "send"])
        ELSE Goes(x, Idle) /\ UNCHANGED ops
     /\ Release(x)
     /\ UNCHANGED <<center, access, graph, counters>>

Retriable(o) == ops[o].state = "failed"

\* retry, up to its save.
Retry(x, o) ==
  /\ Counted
  /\ w[x].pc = "idle" /\ lease = "nobody"
  /\ Retriable(o) /\ Unhindered(ops[o].kind, ops[o].of)
  /\ lease' = x
  /\ Goes(x, [Idle EXCEPT !.pc = "again", !.op = o, !.kind = ops[o].kind, !.of = ops[o].of,
                          !.fresh = TRUE])
  /\ UNCHANGED <<ops, center, access, graph, outside, faults>>

Again(x) ==
  LET o == w[x].op
  IN /\ w[x].pc = "again"
     /\ IF w[x].fresh /\ CanStart(w[x].kind)
        THEN SavesOp(x, o, [ops[o] EXCEPT !.state = "pending"], [w[x] EXCEPT !.pc = "send"])
        ELSE Goes(x, Idle) /\ UNCHANGED ops
     /\ Release(x)
     /\ UNCHANGED <<center, access, graph, counters>>

-----------------------------------------------------------------------------
(* The call to Graph, with no lease held (_execute).                       *)

Outcome(x, out) == [w[x] EXCEPT !.pc = "save", !.out = out]

Send(x) ==
  /\ w[x].pc = "send"
  /\ \/ CanStart(w[x].kind) /\ Goes(x, [w[x] EXCEPT !.pc = "wait"]) /\ UNCHANGED faults
     \/ ~CanStart(w[x].kind) /\ Goes(x, Outcome(x, "failed")) /\ UNCHANGED faults
     \/ CanStart(w[x].kind) /\ Fault /\ Goes(x, Outcome(x, "failed"))
  /\ UNCHANGED <<ops, center, access, graph, lease, requests, outside>>

TakesEffect(o) ==
  /\ landed' = [landed EXCEPT ![o] = @ + 1]
  /\ members' = CASE ops[o].kind = "add" -> members \union {ops[o].of}
                  [] ops[o].kind = "remove" -> members \ {ops[o].of}
                  [] OTHER -> members

\* Graph carries out the call that x waits for.
Land(x) ==
  /\ w[x].pc = "wait"
  /\ TakesEffect(w[x].op)
  /\ Goes(x, [w[x] EXCEPT !.pc = "landed"])
  /\ UNCHANGED <<ops, center, access, late, lease, counters>>

\* Mutant: a call with no answer is taken for one that was refused.
TimedOutFailed == "failed"

TimedOut == "unknown"

\* The answer: confirmed, refused, or none.
Answer(x) ==
  LET o == w[x].op
  IN /\ \/ /\ w[x].pc = "landed"
           /\ Goes(x, [Outcome(x, "succeeded") EXCEPT
                         !.group = IF o = Create THEN landed[o] ELSE 0])
           /\ UNCHANGED <<late, faults>>
        \/ /\ w[x].pc = "landed" /\ Fault
           /\ Goes(x, Outcome(x, TimedOut))
           /\ UNCHANGED late
        \/ /\ w[x].pc = "wait" /\ Fault
           /\ Goes(x, Outcome(x, "failed"))
           /\ UNCHANGED late
        \/ /\ w[x].pc = "wait" /\ Fault
           /\ Goes(x, Outcome(x, TimedOut))
           /\ late' = [late EXCEPT ![o] = @ + 1]
     /\ UNCHANGED <<ops, center, access, members, landed, lease, requests, outside>>

\* A call nobody waits for takes effect, or never does.
LateCall(o) ==
  /\ late[o] > 0
  /\ late' = [late EXCEPT ![o] = @ - 1]
  /\ TakesEffect(o) \/ UNCHANGED <<landed, members>>
  /\ UNCHANGED <<ops, center, access, w, lease, counters>>

-----------------------------------------------------------------------------
(* The outcome (_persist_outcome).                                         *)

Same(x) == ops[w[x].op].state = w[x].out /\ ops[w[x].op].group = w[x].group

\* What follows: a removal that was or may have been made is rechecked, whether or not its
\* outcome could be saved; a created group is bound once it was.
After(x, saved) ==
  IF w[x].kind = "remove" /\ w[x].then # "recovered" /\ w[x].out # "failed"
  THEN [w[x] EXCEPT !.pc = "recheck", !.then = "idle", !.fresh = FALSE]
  ELSE IF w[x].kind = "create" /\ saved /\ w[x].out = "succeeded"
  THEN [w[x] EXCEPT !.pc = "bind", !.fresh = FALSE]
  ELSE Idle

\* require_operation_update
MayBecome(record, state, group) ==
  /\ record.group # 0 => group = record.group
  /\ CASE record.state = "pending" -> state \in {"succeeded", "failed", "unknown"}
       [] record.state = "unknown" -> state \in {"succeeded", "failed", "unknown"}
       [] OTHER -> FALSE

\* The record is read again under the lease, which may be busy for too long.
Save(x) ==
  /\ w[x].pc = "save"
  /\ \/ /\ lease = "nobody" /\ UNCHANGED faults
        /\ IF Same(x) THEN Goes(x, After(x, TRUE)) /\ UNCHANGED lease
           ELSE Goes(x, [w[x] EXCEPT !.pc = "write", !.fresh = TRUE]) /\ lease' = x
     \/ /\ Fault
        /\ Goes(x, [w[x] EXCEPT !.pc = "reread"]) /\ UNCHANGED lease
  /\ UNCHANGED <<ops, center, access, graph, requests, outside>>

Saved(x, state) == [ops[w[x].op] EXCEPT !.state = state, !.group = w[x].group]

\* save_directory_operation: over the version read; its answer may be lost, or it may fail.
Write(x) ==
  LET o   == w[x].op
      may == w[x].fresh /\ MayBecome(ops[o], w[x].out, w[x].group)
      lost == [w[x] EXCEPT !.pc = "reread", !.fresh = FALSE]
  IN /\ w[x].pc = "write"
     /\ \/ may /\ SavesOp(x, o, Saved(x, w[x].out), After(x, TRUE)) /\ UNCHANGED faults
        \/ may /\ Fault /\ SavesOp(x, o, Saved(x, w[x].out), lost)
        \/ may /\ Fault /\ Goes(x, lost) /\ UNCHANGED ops
        \/ ~may /\ Goes(x, lost) /\ UNCHANGED <<ops, faults>>
     /\ Release(x)
     /\ UNCHANGED <<center, access, graph, requests, outside>>

\* Was it saved after all?  If not, and nothing is settled, doubt is recorded.
Reread(x) ==
  /\ w[x].pc = "reread"
  /\ Goes(x, IF Same(x) THEN After(x, TRUE)
             ELSE IF ops[w[x].op].state \in {"pending", "unknown"}
             THEN [w[x] EXCEPT !.pc = "doubt", !.fresh = TRUE]
             ELSE After(x, FALSE))
  /\ UNCHANGED <<ops, center, access, graph, lease, counters>>

Doubt(x) ==
  LET o == w[x].op
  IN /\ w[x].pc = "doubt"
     /\ \/ /\ lease = "nobody" /\ w[x].fresh /\ MayBecome(ops[o], "unknown", w[x].group)
           /\ SavesOp(x, o, Saved(x, "unknown"), After(x, FALSE))
           /\ UNCHANGED faults
        \/ /\ Fault
           /\ Goes(x, After(x, FALSE)) /\ UNCHANGED ops
        \/ /\ ~(w[x].fresh /\ MayBecome(ops[o], "unknown", w[x].group))
           /\ Goes(x, After(x, FALSE)) /\ UNCHANGED <<ops, faults>>
     /\ UNCHANGED <<center, access, graph, lease, requests, outside>>

-----------------------------------------------------------------------------
(* The binding.                                                            *)

\* _bind_created_group, under require_binding_change.
Bind(x) ==
  /\ w[x].pc = "bind" /\ lease = "nobody"
  /\ \/ /\ center.group = 0
        /\ ops[Create].state = "succeeded" /\ ops[Create].group = w[x].group
        /\ center' = [group |-> w[x].group, verified |-> FALSE]
        /\ Goes(x, [w[x] EXCEPT !.pc = "verify"])
     \/ /\ center.group # 0 /\ UNCHANGED center
        /\ Goes(x, IF center.group = w[x].group THEN [w[x] EXCEPT !.pc = "verify"] ELSE Idle)
  /\ UNCHANGED <<ops, access, graph, lease, counters>>

MayAttach == center.group = 0 /\ ops[Create].state \notin {"pending", "unknown", "succeeded"}

\* setup_group with an existing group.
Attach(x) ==
  /\ Counted
  /\ w[x].pc = "idle" /\ lease = "nobody"
  /\ MayAttach
  /\ center' = [group |-> Attached, verified |-> FALSE]
  /\ Goes(x, [Idle EXCEPT !.pc = "verify"])
  /\ UNCHANGED <<ops, access, graph, lease, outside, faults>>

\* _verify_binding
Verify(x) ==
  /\ w[x].pc = "verify" /\ lease = "nobody"
  /\ \/ center' = [center EXCEPT !.verified = TRUE] /\ UNCHANGED faults
     \/ Fault /\ UNCHANGED center
  /\ Goes(x, Idle)
  /\ UNCHANGED <<ops, access, graph, lease, requests, outside>>

-----------------------------------------------------------------------------
(* Recovery.                                                               *)

\* recover, and the same request made again.
Recover(x, o) ==
  LET does == [Idle EXCEPT !.op = o, !.kind = ops[o].kind, !.of = ops[o].of,
                           !.group = ops[o].group, !.then = "recovered"]
  IN /\ Counted
     /\ w[x].pc = "idle"
     /\ \/ /\ o = Create /\ ops[o].group # 0 /\ ops[o].state = "unknown"
           /\ Goes(x, [does EXCEPT !.pc = "save", !.out = "succeeded"])
        \/ /\ o = Create /\ ops[o].group # 0 /\ ops[o].state = "succeeded"
           /\ Goes(x, [does EXCEPT !.pc = "bind"])
        \/ /\ ops[o].kind = "add" /\ ops[o].state = "unknown"
           /\ Goes(x, [does EXCEPT !.pc = "look"])
        \/ /\ ops[o].kind = "remove" /\ ops[o].state \in {"pending", "succeeded", "unknown"}
           /\ \E then \in {"idle"} \union (IF ops[o].state = "unknown" THEN {"look"} ELSE {}) :
                Goes(x, [does EXCEPT !.pc = "recheck", !.then = then])
     /\ UNCHANGED <<ops, center, access, graph, lease, outside, faults>>

\* direct_membership: an operation whose effect is there has succeeded.
Look(x) ==
  /\ w[x].pc = "look"
  /\ Goes(x, IF (w[x].of \in members) = (w[x].kind = "add")
             THEN [Outcome(x, "succeeded") EXCEPT !.then = "recovered"] ELSE Idle)
  /\ UNCHANGED <<ops, center, access, graph, lease, counters>>

-----------------------------------------------------------------------------
(* Rechecks of grants.                                                     *)

\* with_recheck, for one that names its grants and no subject: it replaces all that wait.
WithRecheck(pending, recheck) == {recheck}

Resumed(x) == [w[x] EXCEPT !.pc = "evidence"]
Rechecked(x) == IF w[x].then = "look" THEN [w[x] EXCEPT !.pc = "look"] ELSE Idle

\* member_removed_from_cost_center: of the member's grants, or of all when what was removed may
\* have been a group.
Recheck(x) ==
  /\ w[x].pc = "recheck"
  /\ \/ \E affected \in {grants \intersect {w[x].of}, grants} :
          /\ UNCHANGED faults
          /\ IF affected = {} THEN Goes(x, Rechecked(x)) /\ UNCHANGED <<rechecks, recorded>>
             ELSE /\ recorded' = recorded + 1
                  /\ rechecks' = WithRecheck(rechecks, [n |-> recorded + 1, of |-> affected])
                  /\ Goes(x, Resumed(x))
     \/ Fault /\ Goes(x, Idle) /\ UNCHANGED <<rechecks, recorded>>
  /\ UNCHANGED <<ops, center, grants, graph, lease, requests, outside>>

\* An administrator has the pending rechecks done.
Resume(x) ==
  /\ Counted
  /\ w[x].pc = "idle" /\ rechecks # {}
  /\ Goes(x, [Idle EXCEPT !.pc = "evidence"])
  /\ UNCHANGED <<ops, center, access, graph, lease, outside, faults>>

\* resume_rechecks: what waits, and who is in the group.
Evidence(x) ==
  /\ w[x].pc = "evidence"
  /\ Goes(x, IF rechecks = {} THEN Rechecked(x)
             ELSE [w[x] EXCEPT !.pc = "settle", !.seen = rechecks, !.absent = Members \ members])
  /\ UNCHANGED <<ops, center, access, graph, lease, counters>>

\* Mutant: a pass settles whatever waits when it ends.
SettledAll(seen, left) ==
  {r \in {[n |-> r.n, of |-> r.of \intersect left] : r \in rechecks} : r.of # {}}

\* Mutant: a recheck stays when none of its grants is left.
SettledEmpty(seen, left) ==
  {r \in rechecks : \A s \in seen : s.n # r.n} \union
  {r \in {[n |-> s.n, of |-> s.of \intersect left] : s \in seen} :
     \E now \in rechecks : now.n = r.n}

\* _settle_rechecks: those the pass saw keep the grants it could not revoke; later ones stay.
SettledRechecks(seen, left) ==
  {r \in rechecks : \A s \in seen : s.n # r.n} \union
  {r \in {[n |-> s.n, of |-> s.of \intersect left] : s \in seen} :
     r.of # {} /\ \E now \in rechecks : now.n = r.n}

Covered(pending) == UNION {r.of : r \in pending}

\* Grants of those who are absent are revoked, but for publications that are busy; when the
\* members could not be verified, all stay.
Settle(x) ==
  /\ w[x].pc = "settle"
  /\ \E busy \in SUBSET (Covered(w[x].seen) \intersect w[x].absent \intersect grants)
               \union {Covered(w[x].seen) \intersect grants} :
       /\ grants' = grants \ ((Covered(w[x].seen) \intersect w[x].absent) \ busy)
       /\ rechecks' = SettledRechecks(w[x].seen, busy)
  /\ Goes(x, [Rechecked(x) EXCEPT !.seen = {}, !.absent = {}])
  /\ UNCHANGED <<ops, center, recorded, graph, lease, counters>>

-----------------------------------------------------------------------------
(* What else happens.                                                      *)

\* Somebody changes the group outside MOSAIC.
ChangeOutside(m) ==
  /\ outside < MaxOutside /\ outside' = outside + 1
  /\ center.verified
  /\ members' = IF m \in members THEN members \ {m} ELSE members \union {m}
  /\ UNCHANGED <<ops, center, access, landed, late, w, lease, requests, faults>>

\* A worker is stopped; the call it waits for may still take effect.
Stop(x) ==
  /\ w[x].pc # "idle"
  /\ Fault
  /\ late' = IF w[x].pc = "wait" THEN [late EXCEPT ![w[x].op] = @ + 1] ELSE late
  /\ Goes(x, Idle)
  /\ UNCHANGED <<ops, center, access, members, landed, lease, requests, outside>>

Holds(x) == lease = x /\ w[x].pc \in {"commit", "again", "write"}

\* The lease of a worker that is gone, or that takes longer than the lease lasts.
LeaseExpires ==
  /\ lease # "nobody"
  /\ IF Holds(lease) THEN Fault ELSE UNCHANGED faults
  /\ lease' = "nobody"
  /\ UNCHANGED <<ops, center, access, graph, w, requests, outside>>

-----------------------------------------------------------------------------
Execute(x) == Send(x) \/ Land(x) \/ Answer(x) \/ Save(x) \/ Write(x) \/ Reread(x) \/ Doubt(x)

Next ==
  \/ \E x \in Workers :
       \/ \E o \in Ops, kind \in {"create", "add", "remove"}, m \in Members \union {"nobody"} :
            Request(x, o, kind, m)
       \/ \E o \in Ops : Retry(x, o) \/ Recover(x, o)
       \/ Commit(x) \/ Again(x) \/ Execute(x)
       \/ Attach(x) \/ Bind(x) \/ Verify(x)
       \/ Look(x) \/ Recheck(x) \/ Resume(x) \/ Evidence(x) \/ Settle(x)
       \/ Stop(x)
  \/ \E o \in Ops : LateCall(o)
  \/ \E m \in Members : ChangeOutside(m)
  \/ LeaseExpires

Spec == Init /\ [][Next]_vars

-----------------------------------------------------------------------------
States   == {"none", "pending", "succeeded", "failed", "unknown"}
Kinds    == {"none", "create", "add", "remove"}
Groups   == {Attached} \union Nat
People   == Members \union {"nobody"}
Recorded == [n : Nat, of : SUBSET Members]
Named(v) == v.kind \in {"add", "remove"} => v.of \in Members
Tasks    == {v \in [pc : {"idle", "commit", "again", "send", "wait", "landed", "save", "write",
                          "reread", "doubt", "bind", "verify", "look", "recheck", "evidence",
                          "settle"},
                    op : Ops, kind : Kinds, of : People, out : States, group : Nat,
                    fresh : BOOLEAN, then : {"idle", "look", "recovered"},
                    seen : SUBSET Recorded, absent : SUBSET Members] : Named(v)}
Records  == {r \in [state : States, kind : Kinds, of : People, group : Nat] : Named(r)}

\* The types of the variables; and a recheck that waits has grants left to check.
TypeOK ==
  /\ ops \in [Ops -> Records]
  /\ center \in [group : Groups, verified : BOOLEAN]
  /\ rechecks \subseteq Recorded /\ \A r \in rechecks : r.of # {}
  /\ grants \subseteq Members /\ members \subseteq Members
  /\ landed \in [Ops -> Nat] /\ late \in [Ops -> Nat]
  /\ w \in [Workers -> Tasks]
  /\ lease \in Workers \union {"nobody"}
  /\ recorded \in Nat
  /\ requests \in 0..MaxRequests /\ outside \in 0..MaxOutside /\ faults \in 0..MaxFaults

\* Calls that took effect or still may.
Possible(o) ==
  landed[o] + late[o] + Cardinality({x \in Workers : w[x].pc = "wait" /\ w[x].op = o})

\* What the records say is so, whatever calls are late, answers lost, workers stopped or leases
\* overrun.  "Retrying approval or recovery must not create another center or group"
\* (docs/cost-centers.md): at most one call to create a group ever takes effect.  An operation
\* recorded as failed changed nothing and never will, which is what makes its retry safe; one
\* recorded as succeeded has the group it made; and while a group was or may be made for the
\* center, the center is bound to no other.
OneGroup ==
  /\ Possible(Create) <= 1
  /\ \A o \in Ops : ops[o].state = "failed" => Possible(o) = 0
  /\ ops[Create].state = "succeeded" => landed[Create] = 1 /\ ops[Create].group = 1
  /\ Possible(Create) > 0 => center.group \in {0, ops[Create].group}

\* "A recheck recorded while this ran stays for the next pass" (_settle_rechecks): no pass lets a
\* grant go by evidence older than the recheck that asks for it.
FreshVerdicts ==
  [][\A x \in Workers : w[x].pc = "settle" /\ w'[x].pc # "settle" =>
       \A r \in rechecks : (\A s \in w[x].seen : s.n # r.n) => r \in rechecks']_vars

\* "MOSAIC removes it once every grant it covers has been checked" (PendingRecheck): a grant that
\* waits for its recheck waits until a pass ends that saw the recheck.
RecheckKept ==
  [][\A m \in Covered(rechecks) :
       \/ m \in Covered(rechecks') \/ m \notin grants'
       \/ \E x \in Workers : w[x].pc = "settle" /\ w'[x].pc # "settle"]_vars
===============================================================================
