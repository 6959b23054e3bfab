----------------------- MODULE CostCenterDirectoryProofs -----------------------
(***************************************************************************)
(* Proofs about CostCenterDirectory, for any number of workers, keys,      *)
(* members and faults.                                                     *)
(***************************************************************************)
EXTENDS CostCenterDirectory, FiniteSetTheorems, TLAPS

\* A step of one worker.
LEMMA GoesType ==
  ASSUME TypeOK, NEW x \in Workers, NEW v \in Tasks, Goes(x, v)
  PROVE  w' \in [Workers -> Tasks] /\ w'[x] = v /\ \A y \in Workers \ {x} : w'[y] = w[y]
BY DEF TypeOK, Goes

LEMMA SavesType ==
  ASSUME TypeOK, NEW x \in Workers, NEW o \in Ops, NEW record \in Records, NEW v \in Tasks,
         SavesOp(x, o, record, v)
  PROVE  /\ w' \in [Workers -> Tasks] /\ w'[x] = v
         /\ ops' \in [Ops -> Records] /\ ops'[o] = record
         /\ \A p \in Ops \ {o} : ops'[p] = ops[p]
         /\ \A y \in Workers \ {x} :
              w'[y] = IF w[y].op = o THEN [w[y] EXCEPT !.fresh = FALSE] ELSE w[y]
<1>1. \A y \in Workers : [w[y] EXCEPT !.fresh = FALSE] \in Tasks
  BY DEF TypeOK, Tasks, Named
<1>2. QED
  BY <1>1 DEF TypeOK, SavesOp

LEMMA RequestType ==
  ASSUME TypeOK, NEW x \in Workers, NEW o \in Ops, NEW kind \in {"create", "add", "remove"},
         NEW m \in Members \union {"nobody"}, Request(x, o, kind, m)
  PROVE  TypeOK'
<1> DEFINE v == [Idle EXCEPT !.pc = "commit", !.op = o, !.kind = kind, !.of = m]
<1>0. kind \in {"add", "remove"} => m \in Members
  BY DEF Request
<1>1. v \in Tasks
  BY <1>0 DEF Idle, Tasks, Named, Kinds, People, States, Ops
<1> HIDE DEF v
<1>2. Goes(x, v)
  BY DEF Request, v
<1>3. w' \in [Workers -> Tasks]
  BY <1>1, <1>2, GoesType
<1>4. requests' \in 0..MaxRequests
  BY BoundsAssumption DEF Request, Counted, TypeOK
<1>5. QED
  BY <1>3, <1>4 DEF TypeOK, Request, access, graph

\* A worker's task stays one when it takes up the next point of what it does.
LEMMA TaskStep ==
  ASSUME NEW v \in Tasks,
         NEW pc \in {"idle", "commit", "again", "send", "wait", "landed", "save", "write", "reread",
                     "doubt", "bind", "verify", "look", "recheck", "evidence", "settle"}
  PROVE  /\ [v EXCEPT !.pc = pc] \in Tasks
         /\ \A fresh \in BOOLEAN : [v EXCEPT !.pc = pc, !.fresh = fresh] \in Tasks
         /\ \A out \in States : [v EXCEPT !.pc = pc, !.out = out] \in Tasks
BY DEF Tasks, Named

\* An idle worker has a task like any other.
LEMMA IdleType == Idle \in Tasks
BY DEF Idle, Tasks, Named, Kinds, People, States, Ops

\* So does one whose call has an outcome, and one that goes on after its outcome.
LEMMA AfterType ==
  ASSUME TypeOK, NEW x \in Workers, NEW saved \in BOOLEAN
  PROVE  /\ w[x] \in Tasks /\ After(x, saved) \in Tasks
         /\ \A out \in States : Outcome(x, out) \in Tasks
<1>1. w[x] \in Tasks
  BY DEF TypeOK
<1>2. [w[x] EXCEPT !.pc = "recheck", !.then = "idle", !.fresh = FALSE] \in Tasks
  BY <1>1 DEF Tasks, Named
<1>3. QED
  BY <1>1, <1>2, IdleType, TaskStep DEF After, Outcome

\* _provision_group, _member_operation up to the commit.
LEMMA CommitType ==
  ASSUME TypeOK, NEW x \in Workers, Commit(x)
  PROVE  TypeOK'
<1> DEFINE o == w[x].op
           record == [state |-> "pending", kind |-> w[x].kind, of |-> w[x].of, group |-> 0]
           v == [w[x] EXCEPT !.pc = "send"]
<1>1. w[x] \in Tasks /\ o \in Ops
  BY DEF TypeOK, Tasks, Named
<1>2. v \in Tasks
  BY <1>1, TaskStep
<1>3. record \in Records
  BY <1>1 DEF Tasks, Named, Records, States
<1> HIDE DEF o, record, v
<1>4. SavesOp(x, o, record, v) \/ (Goes(x, Idle) /\ UNCHANGED ops)
  BY DEF Commit, o, record, v
<1>5. w' \in [Workers -> Tasks] /\ ops' \in [Ops -> Records]
  BY <1>1, <1>2, <1>3, <1>4, IdleType, GoesType, SavesType DEF TypeOK
<1>6. lease' \in Workers \union {"nobody"}
  BY DEF Commit, Release, TypeOK
<1>7. QED
  BY <1>5, <1>6 DEF TypeOK, Commit, access, graph, counters

\* retry, up to its save.
LEMMA RetryType ==
  ASSUME TypeOK, NEW x \in Workers, NEW o \in Ops, Retry(x, o)
  PROVE  TypeOK'
<1> DEFINE v == [Idle EXCEPT !.pc = "again", !.op = o, !.kind = ops[o].kind, !.of = ops[o].of,
                             !.fresh = TRUE]
<1>1. ops[o] \in Records
  BY DEF TypeOK
<1>2. v \in Tasks
  BY <1>1 DEF Idle, Tasks, Named, Records, States
<1> HIDE DEF v
<1>3. Goes(x, v)
  BY DEF Retry, v
<1>4. w' \in [Workers -> Tasks]
  BY <1>2, <1>3, GoesType
<1>5. requests' \in 0..MaxRequests
  BY BoundsAssumption DEF Retry, Counted, TypeOK
<1>6. QED
  BY <1>4, <1>5 DEF TypeOK, Retry, access, graph

\* The save of a retry.
LEMMA AgainType ==
  ASSUME TypeOK, NEW x \in Workers, Again(x)
  PROVE  TypeOK'
<1> DEFINE o == w[x].op
           record == [ops[o] EXCEPT !.state = "pending"]
           v == [w[x] EXCEPT !.pc = "send"]
<1>1. w[x] \in Tasks /\ o \in Ops
  BY DEF TypeOK, Tasks, Named
<1>2. v \in Tasks
  BY <1>1, TaskStep
<1>3. record \in Records
  BY <1>1 DEF TypeOK, Records, States, Named
<1> HIDE DEF o, record, v
<1>4. SavesOp(x, o, record, v) \/ (Goes(x, Idle) /\ UNCHANGED ops)
  BY DEF Again, o, record, v
<1>5. w' \in [Workers -> Tasks] /\ ops' \in [Ops -> Records]
  BY <1>1, <1>2, <1>3, <1>4, IdleType, GoesType, SavesType DEF TypeOK
<1>6. lease' \in Workers \union {"nobody"}
  BY DEF Again, Release, TypeOK
<1>7. QED
  BY <1>5, <1>6 DEF TypeOK, Again, access, graph, counters

\* The fault budget is kept, whether or not a step is a fault.
LEMMA FaultType ==
  ASSUME TypeOK, Fault \/ UNCHANGED faults
  PROVE  faults' \in 0..MaxFaults
BY BoundsAssumption DEF TypeOK, Fault

\* The call to Graph.
LEMMA SendType ==
  ASSUME TypeOK, NEW x \in Workers, Send(x)
  PROVE  TypeOK'
<1>1. w[x] \in Tasks /\ [w[x] EXCEPT !.pc = "wait"] \in Tasks /\ Outcome(x, "failed") \in Tasks
  BY TaskStep, AfterType DEF TypeOK, States
<1>2. w' \in [Workers -> Tasks]
  BY <1>1, GoesType DEF Send
<1>3. faults' \in 0..MaxFaults
  BY FaultType DEF Send
<1>4. QED
  BY <1>2, <1>3 DEF TypeOK, Send, access, graph

\* What a call does when it takes effect.
LEMMA EffectType ==
  ASSUME TypeOK, NEW o \in Ops, TakesEffect(o)
  PROVE  /\ members' \subseteq Members
         /\ landed' \in [Ops -> Nat] /\ landed'[o] = landed[o] + 1
         /\ \A p \in Ops \ {o} : landed'[p] = landed[p]
<1>1. ops[o] \in Records /\ landed \in [Ops -> Nat] /\ members \subseteq Members
  BY DEF TypeOK
<1>2. ops[o].kind = "add" => ops[o].of \in Members
  BY <1>1 DEF Records, Named
<1>3. landed' = [landed EXCEPT ![o] = @ + 1]
  BY DEF TakesEffect
<1>4. members' \subseteq Members
  BY <1>1, <1>2 DEF TakesEffect
<1>5. QED
  BY <1>1, <1>3, <1>4

\* Graph carries out a call.
LEMMA LandType ==
  ASSUME TypeOK, NEW x \in Workers, Land(x)
  PROVE  TypeOK'
<1>0. w[x] \in Tasks
  BY DEF TypeOK
<1>1. w[x].op \in Ops /\ [w[x] EXCEPT !.pc = "landed"] \in Tasks
  <2>1. w[x].op \in Ops
    BY <1>0 DEF Tasks
  <2>2. QED
    BY <1>0, <2>1, TaskStep
<1>2. w' \in [Workers -> Tasks]
  BY <1>1, GoesType DEF Land
<1>3. members' \subseteq Members /\ landed' \in [Ops -> Nat]
  BY <1>1, EffectType DEF Land
<1>4. QED
  BY <1>2, <1>3 DEF TypeOK, Land, access, counters

\* The answer to a call, or none.
LEMMA AnswerType ==
  ASSUME TypeOK, NEW x \in Workers, Answer(x)
  PROVE  TypeOK'
<1> DEFINE o == w[x].op
           group == IF o = Create THEN landed[o] ELSE 0
           done == [Outcome(x, "succeeded") EXCEPT !.group = group]
<1>1. w[x] \in Tasks /\ o \in Ops /\ landed[o] \in Nat
  BY DEF TypeOK, Tasks
<1>2. \A out \in States : Outcome(x, out) \in Tasks
  BY AfterType
<1>3. group \in Nat
  BY <1>1
<1> HIDE DEF o, group
<1>4. done \in Tasks
  BY <1>2, <1>3 DEF Tasks, States, Named
<1> HIDE DEF done
<1>5. Goes(x, done) \/ Goes(x, Outcome(x, TimedOut)) \/ Goes(x, Outcome(x, "failed"))
  BY DEF Answer, done, group, o
<1>6. w' \in [Workers -> Tasks]
  BY <1>2, <1>4, <1>5, GoesType DEF TimedOut, States
<1>7. late' = late \/ late' = [late EXCEPT ![o] = @ + 1]
  BY DEF Answer, o
<1>8. late' \in [Ops -> Nat]
  BY <1>1, <1>7 DEF TypeOK
<1>9. faults' \in 0..MaxFaults
  BY FaultType DEF Answer
<1>10. QED
  BY <1>6, <1>8, <1>9 DEF TypeOK, Answer, access

\* A call nobody waits for.
LEMMA LateCallType ==
  ASSUME TypeOK, NEW o \in Ops, LateCall(o)
  PROVE  TypeOK'
<1>1. members' \subseteq Members /\ landed' \in [Ops -> Nat]
  BY EffectType DEF LateCall, TypeOK
<1>2. late' \in [Ops -> Nat]
  BY DEF LateCall, TypeOK
<1>3. QED
  BY <1>1, <1>2 DEF TypeOK, LateCall, access, counters

\* The record read again under the lease.
LEMMA SaveType ==
  ASSUME TypeOK, NEW x \in Workers, Save(x)
  PROVE  TypeOK'
<1>1. /\ w[x] \in Tasks /\ After(x, TRUE) \in Tasks
      /\ [w[x] EXCEPT !.pc = "write", !.fresh = TRUE] \in Tasks
      /\ [w[x] EXCEPT !.pc = "reread"] \in Tasks
  BY AfterType, TaskStep
<1>2. w' \in [Workers -> Tasks]
  BY <1>1, GoesType DEF Save
<1>3. faults' \in 0..MaxFaults
  BY FaultType DEF Save
<1>4. lease' \in Workers \union {"nobody"}
  BY DEF Save, TypeOK
<1>5. QED
  BY <1>2, <1>3, <1>4 DEF TypeOK, Save, access, graph

\* A record saved with the outcome of a worker is a record.
LEMMA SavedType ==
  ASSUME TypeOK, NEW x \in Workers, NEW state \in States
  PROVE  Saved(x, state) \in Records
<1>1. w[x].op \in Ops /\ w[x].group \in Nat
  BY DEF TypeOK, Tasks
<1>2. ops[w[x].op] \in Records
  BY <1>1 DEF TypeOK
<1>3. QED
  BY <1>1, <1>2 DEF Saved, Records, Named

\* The outcome, saved over the version read.
LEMMA WriteType ==
  ASSUME TypeOK, NEW x \in Workers, Write(x)
  PROVE  TypeOK'
<1> DEFINE o == w[x].op
           lost == [w[x] EXCEPT !.pc = "reread", !.fresh = FALSE]
           record == Saved(x, w[x].out)
<1>1. w[x] \in Tasks /\ o \in Ops /\ w[x].out \in States
  BY DEF TypeOK, Tasks
<1>2. lost \in Tasks /\ After(x, TRUE) \in Tasks /\ record \in Records
  BY <1>1, AfterType, TaskStep, SavedType
<1> HIDE DEF o, lost, record
<1>3. \/ SavesOp(x, o, record, After(x, TRUE)) \/ SavesOp(x, o, record, lost)
      \/ Goes(x, lost) /\ UNCHANGED ops
  BY DEF Write, o, lost, record
<1>4. w' \in [Workers -> Tasks] /\ ops' \in [Ops -> Records]
  BY <1>1, <1>2, <1>3, GoesType, SavesType DEF TypeOK
<1>5. faults' \in 0..MaxFaults
  BY FaultType DEF Write
<1>6. lease' \in Workers \union {"nobody"}
  BY DEF Write, Release, TypeOK
<1>7. QED
  BY <1>4, <1>5, <1>6 DEF TypeOK, Write, access, graph

\* The record read again, when its save may have failed.
LEMMA RereadType ==
  ASSUME TypeOK, NEW x \in Workers, Reread(x)
  PROVE  TypeOK'
<1>1. /\ w[x] \in Tasks /\ After(x, TRUE) \in Tasks /\ After(x, FALSE) \in Tasks
      /\ [w[x] EXCEPT !.pc = "doubt", !.fresh = TRUE] \in Tasks
  BY AfterType, TaskStep
<1>2. w' \in [Workers -> Tasks]
  BY <1>1, GoesType DEF Reread
<1>3. QED
  BY <1>2 DEF TypeOK, Reread, access, graph, counters

\* Doubt, recorded.
LEMMA DoubtType ==
  ASSUME TypeOK, NEW x \in Workers, Doubt(x)
  PROVE  TypeOK'
<1> DEFINE o == w[x].op
           record == Saved(x, "unknown")
<1>1. o \in Ops
  BY DEF TypeOK, Tasks
<1>2. After(x, FALSE) \in Tasks /\ record \in Records
  BY AfterType, SavedType DEF States
<1> HIDE DEF o, record
<1>3. \/ SavesOp(x, o, record, After(x, FALSE))
      \/ Goes(x, After(x, FALSE)) /\ UNCHANGED ops
  BY DEF Doubt, o, record
<1>4. w' \in [Workers -> Tasks] /\ ops' \in [Ops -> Records]
  BY <1>1, <1>2, <1>3, GoesType, SavesType DEF TypeOK
<1>5. faults' \in 0..MaxFaults
  BY FaultType DEF Doubt
<1>6. QED
  BY <1>4, <1>5 DEF TypeOK, Doubt, access, graph

\* The created group, bound.
LEMMA BindType ==
  ASSUME TypeOK, NEW x \in Workers, Bind(x)
  PROVE  TypeOK'
<1>0. w[x] \in Tasks
  BY DEF TypeOK
<1>1. w[x].group \in Nat /\ [w[x] EXCEPT !.pc = "verify"] \in Tasks
  <2>1. w[x].group \in Nat
    BY <1>0 DEF Tasks
  <2>2. QED
    BY <1>0, <2>1, TaskStep
<1>2. w' \in [Workers -> Tasks]
  BY <1>1, IdleType, GoesType DEF Bind
<1>3. center' \in [group : Groups, verified : BOOLEAN]
  <2>1. \/ center' = [group |-> w[x].group, verified |-> FALSE]
        \/ UNCHANGED center
    BY DEF Bind
  <2>2. w[x].group \in Groups
    BY <1>1 DEF Groups
  <2>3. [group |-> w[x].group, verified |-> FALSE] \in [group : Groups, verified : BOOLEAN]
    BY <2>2
  <2>4. center \in [group : Groups, verified : BOOLEAN]
    BY DEF TypeOK
  <2>5. QED
    BY <2>1, <2>3, <2>4
<1>4. QED
  BY <1>2, <1>3 DEF TypeOK, Bind, access, graph, counters

\* An existing group, attached.
LEMMA AttachType ==
  ASSUME TypeOK, NEW x \in Workers, Attach(x)
  PROVE  TypeOK'
<1>1. w' \in [Workers -> Tasks]
  BY IdleType, TaskStep, GoesType DEF Attach
<1>2. requests' \in 0..MaxRequests
  BY BoundsAssumption DEF Attach, Counted, TypeOK
<1>3. QED
  BY <1>1, <1>2 DEF TypeOK, Attach, access, graph, Groups

\* The group, verified.
LEMMA VerifyType ==
  ASSUME TypeOK, NEW x \in Workers, Verify(x)
  PROVE  TypeOK'
<1>1. w' \in [Workers -> Tasks]
  BY IdleType, GoesType DEF Verify
<1>2. faults' \in 0..MaxFaults
  BY FaultType DEF Verify
<1>3. QED
  BY <1>1, <1>2 DEF TypeOK, Verify, access, graph

\* Recovery of an operation.
LEMMA RecoverType ==
  ASSUME TypeOK, NEW x \in Workers, NEW o \in Ops, Recover(x, o)
  PROVE  TypeOK'
<1> DEFINE does == [Idle EXCEPT !.op = o, !.kind = ops[o].kind, !.of = ops[o].of,
                                !.group = ops[o].group, !.then = "recovered"]
<1>1. ops[o] \in Records
  BY DEF TypeOK
<1>2. does \in Tasks
  BY <1>1 DEF Idle, Tasks, Records, States, Named
<1> HIDE DEF does
<1>3. /\ [does EXCEPT !.pc = "save", !.out = "succeeded"] \in Tasks
      /\ [does EXCEPT !.pc = "bind"] \in Tasks /\ [does EXCEPT !.pc = "look"] \in Tasks
  BY <1>2, TaskStep DEF States
<1>4. \A then \in {"idle", "look"} : [does EXCEPT !.pc = "recheck", !.then = then] \in Tasks
  BY <1>2 DEF Tasks, Named
<1>5. \/ Goes(x, [does EXCEPT !.pc = "save", !.out = "succeeded"])
      \/ Goes(x, [does EXCEPT !.pc = "bind"]) \/ Goes(x, [does EXCEPT !.pc = "look"])
      \/ \E then \in {"idle", "look"} : Goes(x, [does EXCEPT !.pc = "recheck", !.then = then])
  BY DEF Recover, does
<1>6. w' \in [Workers -> Tasks]
  BY <1>3, <1>4, <1>5, GoesType
<1>7. requests' \in 0..MaxRequests
  <2>1. Counted
    BY DEF Recover
  <2>2. QED
    BY <2>1, BoundsAssumption DEF Counted, TypeOK
<1>8. QED
  BY <1>6, <1>7 DEF TypeOK, Recover, access, graph

\* The direct membership, looked at.
LEMMA LookType ==
  ASSUME TypeOK, NEW x \in Workers, Look(x)
  PROVE  TypeOK'
<1> DEFINE done == [Outcome(x, "succeeded") EXCEPT !.then = "recovered"]
<1>1. Outcome(x, "succeeded") \in Tasks
  BY AfterType DEF States
<1>2. done \in Tasks
  BY <1>1 DEF Tasks, Named
<1>3. w' \in [Workers -> Tasks]
  BY <1>2, IdleType, GoesType DEF Look
<1>4. QED
  BY <1>3 DEF TypeOK, Look, access, graph, counters

\* What follows a pass over rechecks.
LEMMA RecheckedType ==
  ASSUME TypeOK, NEW x \in Workers
  PROVE  Rechecked(x) \in Tasks /\ Resumed(x) \in Tasks
BY IdleType, TaskStep DEF Rechecked, Resumed, TypeOK

\* A recheck, recorded.
LEMMA RecheckType ==
  ASSUME TypeOK, NEW x \in Workers, Recheck(x)
  PROVE  TypeOK'
<1>1. w' \in [Workers -> Tasks]
  BY IdleType, RecheckedType, GoesType DEF Recheck
<1>2. faults' \in 0..MaxFaults
  BY FaultType DEF Recheck
<1>3. \/ UNCHANGED <<rechecks, recorded>>
      \/ \E affected \in {grants \intersect {w[x].of}, grants} :
           /\ affected # {} /\ recorded' = recorded + 1
           /\ rechecks' = {[n |-> recorded + 1, of |-> affected]}
  BY DEF Recheck, WithRecheck
<1>4. recorded' \in Nat /\ rechecks' \subseteq Recorded /\ \A r \in rechecks' : r.of # {}
  BY <1>3 DEF TypeOK, Recorded
<1>5. QED
  BY <1>1, <1>2, <1>4 DEF TypeOK, Recheck, graph

\* The pending rechecks, resumed.
LEMMA ResumeType ==
  ASSUME TypeOK, NEW x \in Workers, Resume(x)
  PROVE  TypeOK'
<1>1. w' \in [Workers -> Tasks]
  BY IdleType, TaskStep, GoesType DEF Resume
<1>2. requests' \in 0..MaxRequests
  BY BoundsAssumption DEF Resume, Counted, TypeOK
<1>3. QED
  BY <1>1, <1>2 DEF TypeOK, Resume, access, graph

\* What waits and who is a member, read.
LEMMA EvidenceType ==
  ASSUME TypeOK, NEW x \in Workers, Evidence(x)
  PROVE  TypeOK'
<1> DEFINE absent == Members \ members
           v == [w[x] EXCEPT !.pc = "settle", !.seen = rechecks, !.absent = absent]
<1>1. w[x] \in Tasks /\ rechecks \in SUBSET Recorded /\ absent \in SUBSET Members
  BY DEF TypeOK
<1> HIDE DEF absent
<1>2. v \in Tasks
  BY <1>1 DEF Tasks, Named
<1> HIDE DEF v
<1>3. Goes(x, Rechecked(x)) \/ Goes(x, v)
  BY DEF Evidence, v, absent
<1>4. w' \in [Workers -> Tasks]
  BY <1>2, <1>3, RecheckedType, GoesType
<1>5. QED
  BY <1>4 DEF TypeOK, Evidence, access, graph, counters

\* A pass over rechecks, settled: those that stay have grants left.
LEMMA SettleType ==
  ASSUME TypeOK, NEW x \in Workers, Settle(x)
  PROVE  TypeOK'
<1> DEFINE v == [Rechecked(x) EXCEPT !.seen = {}, !.absent = {}]
<1>1. v \in Tasks
  BY RecheckedType DEF Tasks, Named
<1> HIDE DEF v
<1>2. Goes(x, v)
  BY DEF Settle, v
<1>3. w' \in [Workers -> Tasks]
  BY <1>1, <1>2, GoesType
<1>4. w[x].seen \subseteq Recorded
  BY DEF TypeOK, Tasks
<1>5. PICK busy : rechecks' = SettledRechecks(w[x].seen, busy)
  BY DEF Settle
<1>6. rechecks' \subseteq Recorded /\ \A r \in rechecks' : r.of # {}
  BY <1>4, <1>5 DEF SettledRechecks, TypeOK, Recorded
<1>7. grants' \subseteq Members
  BY DEF Settle, TypeOK
<1>8. QED
  BY <1>3, <1>6, <1>7 DEF TypeOK, Settle, graph, counters

\* A membership changed outside MOSAIC.
LEMMA ChangeOutsideType ==
  ASSUME TypeOK, NEW m \in Members, ChangeOutside(m)
  PROVE  TypeOK'
<1>1. outside' \in 0..MaxOutside /\ members' \subseteq Members
  BY BoundsAssumption DEF ChangeOutside, TypeOK
<1>2. QED
  BY <1>1 DEF TypeOK, ChangeOutside, access

\* A worker, stopped.
LEMMA StopType ==
  ASSUME TypeOK, NEW x \in Workers, Stop(x)
  PROVE  TypeOK'
<1>1. w' \in [Workers -> Tasks]
  BY IdleType, GoesType DEF Stop
<1>2. faults' \in 0..MaxFaults
  BY FaultType DEF Stop
<1>3. w[x].op \in Ops
  BY DEF TypeOK, Tasks
<1>4. late' \in [Ops -> Nat]
  BY <1>3 DEF Stop, TypeOK
<1>5. QED
  BY <1>1, <1>2, <1>4 DEF TypeOK, Stop, access

\* A lease, run out.
LEMMA LeaseExpiresType ==
  ASSUME TypeOK, LeaseExpires
  PROVE  TypeOK'
<1>1. faults' \in 0..MaxFaults
  BY FaultType DEF LeaseExpires
<1>2. QED
  BY <1>1 DEF TypeOK, LeaseExpires, access, graph

\* The types hold at the start.
LEMMA InitType == Init => TypeOK
<1> SUFFICES ASSUME Init PROVE TypeOK
  OBVIOUS
<1>1. NoOp \in Records
  BY DEF NoOp, Records, States, Kinds, People, Named
<1>2. w \in [Workers -> Tasks] /\ ops \in [Ops -> Records]
  BY <1>1, IdleType DEF Init
<1>3. center \in [group : Groups, verified : BOOLEAN]
  <2>1. 0 \in Groups /\ Attached \in Groups
    BY DEF Groups
  <2>2. center = [group |-> 0, verified |-> FALSE] \/ center = [group |-> Attached, verified |-> TRUE]
    BY DEF Init
  <2>3. \A g \in Groups, b \in BOOLEAN :
          [group |-> g, verified |-> b] \in [group : Groups, verified : BOOLEAN]
    OBVIOUS
  <2>4. QED
    BY <2>1, <2>2, <2>3
<1>4. grants \subseteq Members /\ members \subseteq Members
  BY DEF Init
<1>5. landed \in [Ops -> Nat] /\ late \in [Ops -> Nat]
  BY DEF Init
<1>6. QED
  BY <1>2, <1>3, <1>4, <1>5, BoundsAssumption DEF Init, TypeOK

\* Every step keeps them.
LEMMA StepType == TypeOK /\ [Next]_vars => TypeOK'
<1> SUFFICES ASSUME TypeOK, [Next]_vars PROVE TypeOK'
  OBVIOUS
<1>1. CASE UNCHANGED vars
  BY <1>1 DEF vars, TypeOK
<1>2. ASSUME NEW x \in Workers, NEW o \in Ops, NEW kind \in {"create", "add", "remove"},
             NEW m \in Members \union {"nobody"}, Request(x, o, kind, m)
      PROVE  TypeOK'
  BY <1>2, RequestType
<1>3. ASSUME NEW x \in Workers, NEW o \in Ops, Retry(x, o) \/ Recover(x, o)
      PROVE  TypeOK'
  BY <1>3, RetryType, RecoverType
<1>4. ASSUME NEW x \in Workers, Commit(x) \/ Again(x) \/ Execute(x)
      PROVE  TypeOK'
  BY <1>4, CommitType, AgainType, SendType, LandType, AnswerType, SaveType, WriteType, RereadType,
     DoubtType DEF Execute
<1>5. ASSUME NEW x \in Workers, Attach(x) \/ Bind(x) \/ Verify(x)
      PROVE  TypeOK'
  BY <1>5, AttachType, BindType, VerifyType
<1>6. ASSUME NEW x \in Workers,
             Look(x) \/ Recheck(x) \/ Resume(x) \/ Evidence(x) \/ Settle(x) \/ Stop(x)
      PROVE  TypeOK'
  BY <1>6, LookType, RecheckType, ResumeType, EvidenceType, SettleType, StopType
<1>7. ASSUME NEW o \in Ops, LateCall(o)
      PROVE  TypeOK'
  BY <1>7, LateCallType
<1>8. ASSUME NEW m \in Members, ChangeOutside(m)
      PROVE  TypeOK'
  BY <1>8, ChangeOutsideType
<1>9. CASE LeaseExpires
  BY <1>9, LeaseExpiresType
<1>10. QED
  BY <1>1, <1>2, <1>3, <1>4, <1>5, <1>6, <1>7, <1>8, <1>9 DEF Next

\* The variables keep their types, and every recheck that waits has grants left to check.
THEOREM TypeCorrect == Spec => []TypeOK
<1>1. Init => TypeOK
  BY InitType
<1>2. TypeOK /\ [Next]_vars => TypeOK'
  BY StepType
<1>3. QED
  BY <1>1, <1>2, PTL DEF Spec

\* A pass over rechecks ends when it has settled them or when its worker is stopped.
LEMMA PassEnds ==
  ASSUME TypeOK, Next, NEW x \in Workers, w[x].pc = "settle", w'[x].pc # "settle"
  PROVE  Settle(x) \/ Stop(x)
<1>1. w \in [Workers -> Tasks]
  BY DEF TypeOK
<1>2. ASSUME NEW y \in Workers, NEW v, Goes(y, v) PROVE y = x
  BY <1>1, <1>2 DEF Goes
<1>3. ASSUME NEW y \in Workers, NEW o, NEW record, NEW v, SavesOp(y, o, record, v) PROVE y = x
  <2>1. y # x => w'[x] = w[x] \/ w'[x] = [w[x] EXCEPT !.fresh = FALSE]
    BY <1>3 DEF SavesOp
  <2>2. [w[x] EXCEPT !.fresh = FALSE].pc = w[x].pc
    BY <1>1 DEF Tasks
  <2>3. QED
    BY <2>1, <2>2
<1>4. ASSUME NEW y \in Workers, Commit(y) \/ Again(y) \/ Execute(y) PROVE FALSE
  <2>1. w[y].pc # "settle"
    BY <1>4 DEF Commit, Again, Execute, Send, Land, Answer, Save, Write, Reread, Doubt
  <2>2. y = x
    BY <1>2, <1>3, <1>4 DEF Commit, Again, Execute, Send, Land, Answer, Save, Write, Reread, Doubt
  <2>3. QED
    BY <2>1, <2>2
<1>5. ASSUME NEW y \in Workers, NEW o \in Ops, Retry(y, o) \/ Recover(y, o) PROVE FALSE
  <2>1. w[y].pc = "idle" /\ \E v : Goes(y, v)
    BY <1>5 DEF Retry, Recover
  <2>2. QED
    BY <1>2, <2>1
<1>6. ASSUME NEW y \in Workers, NEW o, NEW kind, NEW m, Request(y, o, kind, m) PROVE FALSE
  BY <1>2, <1>6 DEF Request
<1>7. ASSUME NEW y \in Workers, Attach(y) \/ Bind(y) \/ Verify(y) \/ Look(y) \/ Recheck(y)
                                \/ Resume(y) \/ Evidence(y)
      PROVE  FALSE
  BY <1>2, <1>7 DEF Attach, Bind, Verify, Look, Recheck, Resume, Evidence
<1>8. ASSUME NEW y \in Workers, Settle(y) \/ Stop(y) PROVE y = x
  BY <1>2, <1>8 DEF Settle, Stop
<1>9. ASSUME NEW o, LateCall(o) PROVE FALSE
  BY <1>9 DEF LateCall
<1>10. ASSUME NEW m, ChangeOutside(m) PROVE FALSE
  BY <1>10 DEF ChangeOutside
<1>11. CASE LeaseExpires
  BY <1>11 DEF LeaseExpires
<1>12. QED
  BY <1>4, <1>5, <1>6, <1>7, <1>8, <1>9, <1>10, <1>11 DEF Next

\* A recheck recorded after a pass had read what waits is still there when the pass ends
\* (_settle_rechecks).
THEOREM VerdictsAreFresh == Spec => FreshVerdicts
<1> DEFINE Kept == \A x \in Workers : w[x].pc = "settle" /\ w'[x].pc # "settle" =>
                     \A r \in rechecks : (\A s \in w[x].seen : s.n # r.n) => r \in rechecks'
<1>1. TypeOK /\ [Next]_vars => [Kept]_vars
  <2> SUFFICES ASSUME TypeOK, Next PROVE Kept
    OBVIOUS
  <2> SUFFICES ASSUME NEW x \in Workers, w[x].pc = "settle", w'[x].pc # "settle",
                      NEW r \in rechecks, \A s \in w[x].seen : s.n # r.n
               PROVE  r \in rechecks'
    OBVIOUS
  <2>1. CASE Settle(x)
    <3>1. PICK busy : rechecks' = SettledRechecks(w[x].seen, busy)
      BY <2>1 DEF Settle
    <3>2. QED
      BY <3>1 DEF SettledRechecks
  <2>2. CASE Stop(x)
    BY <2>2 DEF Stop, access
  <2>3. QED
    BY <2>1, <2>2, PassEnds
<1> HIDE DEF Kept
<1>2. Spec => [][Kept]_vars
  BY <1>1, TypeCorrect, PTL DEF Spec
<1>3. QED
  BY <1>2 DEF Kept, FreshVerdicts

-----------------------------------------------------------------------------
(* OneGroup.  An operation has one driver, the worker between the commit of *)
(* its intent and the save of its outcome; what may still happen at Graph   *)
(* is counted, and each task is held to the count it relies on.             *)

Drives(v) ==
  v.pc \in {"send", "wait", "landed"} \/ (v.pc \in {"save", "write"} /\ v.then # "recovered")

OneDriver ==
  \A x, y \in Workers : Drives(w[x]) /\ Drives(w[y]) /\ w[x].op = w[y].op => x = y

Waits(o) == \E x \in Workers : w[x].pc = "wait" /\ w[x].op = o
Count == [o \in Ops |-> landed[o] + late[o] + (IF Waits(o) THEN 1 ELSE 0)]

\* A record and the calls of its operation that took effect or may.
RecordFits(o, record, count) ==
  /\ record.state \in {"none", "failed"} => count = 0
  /\ count <= 1
  /\ record.kind \in {"add", "remove"} => o # Create

\* The record of the center's group, how often it was made, and the bound group.
CenterFits(record, lands, count, group) ==
  /\ record.state # "none" => record.kind = "create"
  /\ record.group # 0 => lands = 1 /\ record.group = 1
  /\ record.state = "succeeded" => record.group = 1
  /\ count > 0 => group \in {0, record.group}

\* A task, the record of its operation, and its calls.
TaskFits(v, record, lands, count) ==
  /\ Drives(v) => record.state \notin {"none", "failed"}
  /\ v.pc = "again" /\ v.fresh => record.state = "failed"
  /\ v.pc = "send" \/ (v.pc \in {"save", "write"} /\ v.out = "failed") => count = 0
  /\ v.pc = "landed" => lands = 1
  /\ v.pc \in {"commit", "again", "send", "wait", "landed"} => v.then = "idle"
  /\ v.pc \in {"save", "write"} /\ v.then = "recovered" => v.out = "succeeded"
  /\ v.op = Create /\ v.group # 0 => lands = 1 /\ v.group = 1
  /\ v.op = Create /\ v.pc \in {"save", "write"} /\ v.out = "succeeded" => v.group = 1
  /\ v.pc = "look" \/ v.then = "look" => v.op # Create
  /\ v.op = Create /\ v.pc \in {"commit", "again", "send"} => v.kind = "create"

RecordInv == \A o \in Ops : RecordFits(o, ops[o], Count[o])
CenterInv == CenterFits(ops[Create], landed[Create], Count[Create], center.group)
TaskInv   == \A x \in Workers : TaskFits(w[x], ops[w[x].op], landed[w[x].op], Count[w[x].op])
IInv      == TypeOK /\ OneDriver /\ RecordInv /\ CenterInv /\ TaskInv

\* What is counted, is a number.
LEMMA CountType ==
  ASSUME TypeOK, NEW o \in Ops
  PROVE  /\ landed[o] \in Nat /\ late[o] \in Nat /\ Count[o] \in Nat
         /\ Count[o] = landed[o] + late[o] + (IF Waits(o) THEN 1 ELSE 0)
<1>1. landed[o] \in Nat /\ late[o] \in Nat
  BY DEF TypeOK
<1>2. QED
  BY <1>1 DEF Count

\* A step of one worker that keeps the records.  The worker drives an operation after it only if
\* it drove it before; what else may change is the count of that operation.
LEMMA Stepped ==
  ASSUME IInv, TypeOK', NEW x \in Workers, NEW v \in Tasks, Goes(x, v), UNCHANGED ops,
         Drives(v) => Drives(w[x]) /\ v.op = w[x].op,
         \A p \in Ops \ {w[x].op} : landed'[p] = landed[p] /\ late'[p] = late[p],
         landed[w[x].op] = 1 => landed'[w[x].op] = 1,
         RecordFits(w[x].op, ops[w[x].op], Count'[w[x].op]),
         Count[w[x].op] = 0 => Count'[w[x].op] = 0 \/ v.pc = "wait",
         TaskFits(v, ops[v.op], landed'[v.op], Count'[v.op]),
         w[x].op = Create \/ center'.group # center.group =>
           CenterFits(ops[Create], landed'[Create], Count'[Create], center'.group)
  PROVE  IInv'
<1> DEFINE o == w[x].op
<1>1. /\ w \in [Workers -> Tasks] /\ w' \in [Workers -> Tasks] /\ w'[x] = v
      /\ \A y \in Workers \ {x} : w'[y] = w[y]
  BY GoesType DEF IInv, TypeOK
<1>2. o \in Ops /\ \A y \in Workers : w[y].op \in Ops
  BY <1>1 DEF Tasks
<1>3. OneDriver'
  BY <1>1 DEF IInv, OneDriver
<1>4. \A p \in Ops \ {o} : Count'[p] = Count[p]
  <2>1. TAKE p \in Ops \ {o}
  <2>2. Waits(p)' <=> Waits(p)
    BY <1>1 DEF Waits, Drives
  <2>3. QED
    BY <2>2 DEF Count
<1>5. RecordInv'
  BY <1>4 DEF IInv, RecordInv
<1>6. TaskInv'
  <2>1. SUFFICES ASSUME NEW y \in Workers \ {x}
                 PROVE  TaskFits(w[y], ops[w[y].op], landed'[w[y].op], Count'[w[y].op])
    BY <1>1 DEF TaskInv
  <2>2. TaskFits(w[y], ops[w[y].op], landed[w[y].op], Count[w[y].op])
    BY DEF IInv, TaskInv
  <2>3. CASE w[y].op # o
    BY <1>2, <1>4, <2>2, <2>3
  <2>4. CASE w[y].op = o
    <3>1. Drives(w[y]) => ~Drives(v)
      BY <2>4 DEF IInv, OneDriver
    <3>2. v.pc = "wait" => Drives(v)
      BY DEF Drives
    <3>3. w[y].pc = "send" \/ (w[y].pc \in {"save", "write"} /\ w[y].out = "failed") => Drives(w[y])
      BY <2>2 DEF TaskFits, Drives
    <3>4. QED
      BY <2>2, <2>4, <3>1, <3>2, <3>3 DEF TaskFits
  <2>5. QED
    BY <2>3, <2>4
<1>7. CenterInv'
  <2>1. CASE w[x].op = Create \/ center'.group # center.group
    BY <2>1 DEF CenterInv
  <2>2. CASE w[x].op # Create /\ center'.group = center.group
    BY <1>4, <2>2 DEF IInv, CenterInv, Ops
  <2>3. QED
    BY <2>1, <2>2
<1>8. QED
  BY <1>3, <1>5, <1>6, <1>7 DEF IInv

\* A step of one worker that neither starts nor ends a wait, and leaves the rest alone.
LEMMA Quiet ==
  ASSUME IInv, TypeOK', NEW x \in Workers, NEW v \in Tasks, Goes(x, v),
         UNCHANGED <<ops, landed, late>>,
         center'.group = center.group
           \/ CenterFits(ops[Create], landed[Create], Count[Create], center'.group),
         Drives(v) => Drives(w[x]) /\ v.op = w[x].op,
         w[x].pc # "wait", v.pc # "wait",
         TaskFits(v, ops[v.op], landed[v.op], Count[v.op])
  PROVE  IInv'
<1>1. w[x].op \in Ops /\ v.op \in Ops /\ Create \in Ops
  BY DEF IInv, TypeOK, Tasks, Ops
<1>2. /\ w' \in [Workers -> Tasks] /\ w'[x] = v
      /\ \A y \in Workers \ {x} : w'[y] = w[y]
  BY GoesType DEF IInv
<1>3. \A p \in Ops : Count'[p] = Count[p]
  <2>1. TAKE p \in Ops
  <2>2. Waits(p)' <=> Waits(p)
    BY <1>2 DEF Waits
  <2>3. QED
    BY <2>2 DEF Count
<1>4. RecordFits(w[x].op, ops[w[x].op], Count'[w[x].op])
  BY <1>1, <1>3 DEF IInv, RecordInv
<1>5. CenterFits(ops[Create], landed'[Create], Count'[Create], center'.group)
  BY <1>1, <1>3 DEF IInv, CenterInv
<1>6. TaskFits(v, ops[v.op], landed'[v.op], Count'[v.op])
  BY <1>1, <1>3
<1>7. QED
  BY <1>1, <1>3, <1>4, <1>5, <1>6, Stepped

\* An idle worker relies on nothing.
LEMMA IdleFits ==
  /\ Idle \in Tasks /\ Idle.pc # "wait" /\ ~Drives(Idle)
  /\ \A record, lands, count : TaskFits(Idle, record, lands, count)
BY IdleType DEF Idle, Drives, TaskFits

\* A save of one operation's record by one worker, while nothing happens at Graph.
LEMMA Saving ==
  ASSUME IInv, TypeOK', NEW x \in Workers, NEW o \in Ops, NEW record \in Records, NEW v \in Tasks,
         SavesOp(x, o, record, v), UNCHANGED <<landed, late, center>>,
         v.op = w[x].op \/ v = Idle, w[x].op = o, w[x].pc # "wait", v.pc # "wait",
         Drives(v) => \A y \in Workers \ {x} : w[y].op = o => ~Drives(w[y]),
         record.state \in {"none", "failed"} =>
           \A y \in Workers \ {x} : w[y].op = o => ~Drives(w[y]),
         RecordFits(o, record, Count[o]),
         TaskFits(v, record, landed[o], Count[o]),
         o = Create => CenterFits(record, landed[o], Count[o], center.group)
  PROVE  IInv'
<1>1. /\ w' \in [Workers -> Tasks] /\ w'[x] = v
      /\ ops' \in [Ops -> Records] /\ ops'[o] = record
      /\ \A p \in Ops \ {o} : ops'[p] = ops[p]
      /\ \A y \in Workers \ {x} :
           w'[y] = IF w[y].op = o THEN [w[y] EXCEPT !.fresh = FALSE] ELSE w[y]
  BY SavesType DEF IInv
<1>2. w \in [Workers -> Tasks] /\ \A y \in Workers : w[y].op \in Ops
  BY DEF IInv, TypeOK, Tasks
<1>3. \A y \in Workers \ {x} :
        /\ w'[y].pc = w[y].pc /\ w'[y].op = w[y].op /\ w'[y].kind = w[y].kind
        /\ w'[y].out = w[y].out /\ w'[y].group = w[y].group /\ w'[y].then = w[y].then
        /\ w[y].op = o => w'[y].fresh = FALSE
        /\ w[y].op # o => w'[y] = w[y]
  BY <1>1, <1>2 DEF Tasks
<1>4. \A y \in Workers \ {x} : Drives(w'[y]) <=> Drives(w[y])
  BY <1>3 DEF Drives
<1>5. OneDriver'
  <2>1. SUFFICES ASSUME NEW y \in Workers, NEW z \in Workers, Drives(w'[y]), Drives(w'[z]),
                        w'[y].op = w'[z].op, y # z
                 PROVE  FALSE
    BY DEF OneDriver
  <2>2. CASE y # x /\ z # x
    BY <1>3, <1>4, <2>1, <2>2 DEF IInv, OneDriver
  <2>3. CASE y = x
    BY <1>1, <1>3, <1>4, <2>1, <2>3, IdleFits
  <2>4. CASE z = x
    BY <1>1, <1>3, <1>4, <2>1, <2>4, IdleFits
  <2>5. QED
    BY <2>2, <2>3, <2>4
<1>6. \A p \in Ops : Count'[p] = Count[p]
  <2>1. TAKE p \in Ops
  <2>2. Waits(p)' <=> Waits(p)
    BY <1>1, <1>3 DEF Waits
  <2>3. QED
    BY <2>2 DEF Count
<1>7. RecordInv'
  BY <1>1, <1>6 DEF IInv, RecordInv
<1>8. CenterInv'
  BY <1>1, <1>6 DEF IInv, CenterInv, Ops
<1>9. TaskInv'
  <2>1. SUFFICES ASSUME NEW y \in Workers
                 PROVE  TaskFits(w'[y], ops'[w'[y].op], landed'[w'[y].op], Count'[w'[y].op])
    BY DEF TaskInv
  <2>2. CASE y = x
    BY <1>1, <1>6, <2>2, IdleFits
  <2>3. CASE y # x /\ w[y].op # o
    BY <1>1, <1>2, <1>3, <1>6, <2>3 DEF IInv, TaskInv
  <2>4. CASE y # x /\ w[y].op = o
    <3>1. TaskFits(w[y], ops[o], landed[o], Count[o])
      BY <2>4 DEF IInv, TaskInv
    <3>2. TaskFits(w'[y], record, landed[o], Count[o])
      BY <1>3, <1>4, <2>4, <3>1 DEF TaskFits
    <3>3. QED
      BY <1>1, <1>3, <1>6, <2>4, <3>2
  <2>5. QED
    BY <2>2, <2>3, <2>4
<1>10. QED
  BY <1>5, <1>7, <1>8, <1>9 DEF IInv

\* What a worker relies on.
LEMMA Relies ==
  ASSUME IInv, NEW x \in Workers
  PROVE  /\ w[x] \in Tasks /\ w[x].op \in Ops /\ ops[w[x].op] \in Records
         /\ TaskFits(w[x], ops[w[x].op], landed[w[x].op], Count[w[x].op])
         /\ RecordFits(w[x].op, ops[w[x].op], Count[w[x].op])
<1>1. w[x] \in Tasks
  BY DEF IInv, TypeOK
<1>2. w[x].op \in Ops
  BY <1>1 DEF Tasks
<1>3. QED
  BY <1>1, <1>2 DEF IInv, TypeOK, TaskInv, RecordInv

\* A worker that is done with its call drives nothing.
LEMMA Settles ==
  ASSUME IInv, NEW x \in Workers, Goes(x, Idle), w[x].pc # "wait",
         UNCHANGED <<ops, landed, late>>, center'.group = center.group, TypeOK'
  PROVE  IInv'
BY IdleFits, Quiet

\* A worker that takes up another point of the same operation, and drives it no longer.
LEMMA Onward ==
  ASSUME IInv, NEW x \in Workers,
         NEW pc \in {"bind", "verify", "look", "recheck", "evidence", "settle", "reread", "doubt"},
         NEW v \in Tasks, v.pc = pc, v.op = w[x].op, v.group = w[x].group,
         v.then = "look" \/ pc = "look" => w[x].then = "look" \/ w[x].pc = "look" \/ v.op # Create
  PROVE  /\ ~Drives(v) /\ v.pc # "wait"
         /\ \A record, count : TaskFits(v, record, landed[v.op], count)
BY Relies DEF TaskFits, Drives

\* The request for an operation, before its record.
LEMMA RequestKeeps ==
  ASSUME IInv, NEW x \in Workers, NEW o \in Ops, NEW kind \in {"create", "add", "remove"},
         NEW m \in Members \union {"nobody"}, Request(x, o, kind, m)
  PROVE  IInv'
<1> DEFINE v == [Idle EXCEPT !.pc = "commit", !.op = o, !.kind = kind, !.of = m]
<1>1. TypeOK' /\ TypeOK
  BY RequestType DEF IInv
<1>2. kind \in {"add", "remove"} => m \in Members
  BY DEF Request
<1>3. v \in Tasks
  BY <1>2 DEF Idle, Tasks, Named, Kinds, People, States, Ops
<1>4. v.pc = "commit" /\ v.op = o /\ v.kind = kind /\ v.group = 0 /\ v.then = "idle"
  BY DEF Idle
<1> HIDE DEF v
<1>5. /\ Goes(x, v) /\ w[x].pc = "idle" /\ (o = Create) = (kind = "create")
      /\ UNCHANGED <<ops, landed, late, center>>
  BY DEF Request, v, graph
<1>6. ~Drives(v) /\ TaskFits(v, ops[v.op], landed[v.op], Count[v.op])
  BY <1>4, <1>5 DEF Drives, TaskFits
<1>7. QED
  BY <1>1, <1>3, <1>4, <1>5, <1>6, Quiet

\* The commit of an intent: its operation is new, and has one driver.
LEMMA CommitKeeps ==
  ASSUME IInv, NEW x \in Workers, Commit(x)
  PROVE  IInv'
<1> DEFINE o == w[x].op
           record == [state |-> "pending", kind |-> w[x].kind, of |-> w[x].of, group |-> 0]
           v == [w[x] EXCEPT !.pc = "send"]
<1>1. /\ w[x] \in Tasks /\ o \in Ops /\ TaskFits(w[x], ops[o], landed[o], Count[o])
      /\ RecordFits(o, ops[o], Count[o])
  BY Relies
<1>2. v \in Tasks /\ v.pc = "send" /\ v.op = o /\ v.kind = w[x].kind /\ v.group = w[x].group
      /\ v.then = w[x].then
  <2>1. v \in Tasks
    BY <1>1, TaskStep
  <2>2. QED
    BY <1>1, <2>1 DEF Tasks
<1>3. record \in Records /\ record.state = "pending" /\ record.kind = w[x].kind /\ record.group = 0
  BY <1>1 DEF Tasks, Named, Records, States
<1> HIDE DEF v, record
<1>4. w[x].pc = "commit" /\ UNCHANGED <<center, landed, late>>
  BY DEF Commit, graph
<1>5. TypeOK'
  BY CommitType DEF IInv
<1>6. CASE Goes(x, Idle) /\ UNCHANGED ops
  BY <1>4, <1>5, <1>6, Settles
<1>7. CASE SavesOp(x, o, record, v) /\ ops[o].state = "none"
  <2>1. \A y \in Workers : w[y].op = o => ~Drives(w[y])
    BY <1>7, Relies DEF TaskFits
  <2>2. Count[o] = 0
    BY <1>1, <1>7 DEF RecordFits
  <2>3. o = Create => w[x].kind = "create"
    BY <1>1, <1>4 DEF TaskFits
  <2>4. RecordFits(o, record, Count[o])
    BY <1>3, <2>2, <2>3 DEF RecordFits
  <2>5. TaskFits(v, record, landed[o], Count[o])
    BY <1>1, <1>2, <1>3, <1>4, <2>2, <2>3 DEF TaskFits, Drives
  <2>6. o = Create => CenterFits(record, landed[o], Count[o], center.group)
    BY <1>3, <2>2, <2>3 DEF CenterFits
  <2>7. QED
    BY <1>1, <1>2, <1>3, <1>4, <1>5, <1>7, <2>1, <2>4, <2>5, <2>6, Saving
<1>8. QED
  BY <1>6, <1>7 DEF Commit, v, record

\* A retry, before its save: the operation failed.
LEMMA RetryKeeps ==
  ASSUME IInv, NEW x \in Workers, NEW o \in Ops, Retry(x, o)
  PROVE  IInv'
<1> DEFINE v == [Idle EXCEPT !.pc = "again", !.op = o, !.kind = ops[o].kind, !.of = ops[o].of,
                             !.fresh = TRUE]
<1>1. TypeOK' /\ ops[o] \in Records
  BY RetryType DEF IInv, TypeOK
<1>2. v \in Tasks
  BY <1>1 DEF Idle, Tasks, Records, States, Named
<1>3. /\ v.pc = "again" /\ v.op = o /\ v.kind = ops[o].kind /\ v.group = 0 /\ v.then = "idle"
      /\ v.fresh = TRUE
  BY DEF Idle
<1> HIDE DEF v
<1>4. /\ Goes(x, v) /\ w[x].pc = "idle" /\ ops[o].state = "failed"
      /\ UNCHANGED <<ops, landed, late, center>>
  BY DEF Retry, Retriable, v, graph
<1>5. o = Create => ops[o].kind = "create"
  BY <1>4 DEF IInv, CenterInv, CenterFits
<1>6. ~Drives(v) /\ TaskFits(v, ops[v.op], landed[v.op], Count[v.op])
  BY <1>3, <1>4, <1>5 DEF Drives, TaskFits
<1>7. QED
  BY <1>1, <1>2, <1>3, <1>4, <1>6, Quiet

\* The save of a retry: what failed changed nothing, so it may be sent again.
LEMMA AgainKeeps ==
  ASSUME IInv, NEW x \in Workers, Again(x)
  PROVE  IInv'
<1> DEFINE o == w[x].op
           record == [ops[o] EXCEPT !.state = "pending"]
           v == [w[x] EXCEPT !.pc = "send"]
<1>1. /\ w[x] \in Tasks /\ o \in Ops /\ ops[o] \in Records
      /\ TaskFits(w[x], ops[o], landed[o], Count[o]) /\ RecordFits(o, ops[o], Count[o])
  BY Relies
<1>2. v \in Tasks /\ v.pc = "send" /\ v.op = o /\ v.kind = w[x].kind /\ v.group = w[x].group
      /\ v.then = w[x].then
  <2>1. v \in Tasks
    BY <1>1, TaskStep
  <2>2. QED
    BY <1>1, <2>1 DEF Tasks
<1>3. /\ record \in Records /\ record.state = "pending" /\ record.kind = ops[o].kind
      /\ record.group = ops[o].group
  BY <1>1 DEF Records, States, Named
<1> HIDE DEF v, record
<1>4. w[x].pc = "again" /\ UNCHANGED <<center, landed, late>>
  BY DEF Again, graph
<1>5. TypeOK'
  BY AgainType DEF IInv
<1>6. CASE Goes(x, Idle) /\ UNCHANGED ops
  BY <1>4, <1>5, <1>6, Settles
<1>7. CASE SavesOp(x, o, record, v) /\ w[x].fresh
  <2>1. ops[o].state = "failed"
    BY <1>1, <1>4, <1>7 DEF TaskFits
  <2>2. \A y \in Workers : w[y].op = o => ~Drives(w[y])
    BY <2>1, Relies DEF TaskFits
  <2>3. Count[o] = 0
    BY <1>1, <2>1 DEF RecordFits
  <2>4. RecordFits(o, record, Count[o])
    BY <1>1, <1>3, <2>3 DEF RecordFits
  <2>5. TaskFits(v, record, landed[o], Count[o])
    BY <1>1, <1>2, <1>3, <1>4, <2>3 DEF TaskFits, Drives
  <2>6. o = Create => CenterFits(record, landed[o], Count[o], center.group)
    BY <1>3, <2>1, <2>3 DEF IInv, CenterInv, CenterFits
  <2>7. QED
    BY <1>1, <1>2, <1>3, <1>4, <1>5, <1>7, <2>2, <2>4, <2>5, <2>6, Saving
<1>8. QED
  BY <1>6, <1>7 DEF Again, v, record

\* While a worker waits for a call, it is the only one that may take effect, and none has.
LEMMA Waiting ==
  ASSUME IInv, NEW x \in Workers, w[x].pc = "wait", NEW o \in Ops, w[x].op = o
  PROVE  landed[o] = 0 /\ late[o] = 0 /\ Count[o] = 1 /\ Waits(o)
<1>1. Waits(o)
  BY DEF Waits
<1>2. RecordFits(o, ops[o], Count[o])
  BY DEF IInv, RecordInv
<1>3. QED
  BY <1>1, <1>2, CountType DEF IInv, RecordFits

\* When it waits no longer, nobody waits for a call of that operation.
LEMMA WaitEnds ==
  ASSUME IInv, TypeOK', NEW x \in Workers, w[x].pc = "wait", NEW o \in Ops, w[x].op = o,
         NEW v \in Tasks, Goes(x, v), v.pc # "wait"
  PROVE  Count'[o] = landed'[o] + late'[o]
<1>1. /\ w \in [Workers -> Tasks] /\ w' \in [Workers -> Tasks] /\ w'[x] = v
      /\ \A y \in Workers \ {x} : w'[y] = w[y]
  BY GoesType DEF IInv, TypeOK
<1>2. \A y \in Workers \ {x} : ~(w[y].pc = "wait" /\ w[y].op = o)
  BY DEF IInv, OneDriver, Drives
<1>3. ~Waits(o)'
  BY <1>1, <1>2 DEF Waits
<1>4. landed'[o] \in Nat /\ late'[o] \in Nat
  BY DEF TypeOK
<1>5. QED
  BY <1>3, <1>4 DEF Count

\* The call to Graph: the operation had none that took effect or may.
LEMMA SendKeeps ==
  ASSUME IInv, NEW x \in Workers, Send(x)
  PROVE  IInv'
<1>1. PICK o \in Ops : w[x].op = o
  BY Relies
<1>2. /\ w[x] \in Tasks /\ TaskFits(w[x], ops[o], landed[o], Count[o])
      /\ RecordFits(o, ops[o], Count[o])
  BY <1>1, Relies
<1>3. w[x].pc = "send" /\ UNCHANGED <<ops, center, landed, late>>
  BY DEF Send, graph
<1>4. TypeOK'
  BY SendType DEF IInv
<1>5. Drives(w[x]) /\ Count[o] = 0
  BY <1>2, <1>3 DEF Drives, TaskFits
<1>6. CASE Goes(x, Outcome(x, "failed"))
  <2> DEFINE v == Outcome(x, "failed")
  <2>1. v \in Tasks
    BY AfterType DEF IInv, States
  <2>2. v.pc = "save" /\ v.op = o /\ v.out = "failed" /\ v.group = w[x].group /\ v.then = w[x].then
    BY <1>1, <1>2, <2>1 DEF Outcome, Tasks
  <2> HIDE DEF v
  <2>3. TaskFits(v, ops[v.op], landed[v.op], Count[v.op])
    BY <1>1, <1>2, <1>3, <1>5, <2>2 DEF TaskFits, Drives
  <2>4. QED
    BY <1>1, <1>3, <1>4, <1>5, <1>6, <2>1, <2>2, <2>3, Quiet DEF v
<1>7. CASE Goes(x, [w[x] EXCEPT !.pc = "wait"]) /\ CanStart(w[x].kind)
  <2> DEFINE v == [w[x] EXCEPT !.pc = "wait"]
  <2>1. v \in Tasks
    BY <1>2, TaskStep
  <2>2. v.pc = "wait" /\ v.op = o /\ v.group = w[x].group /\ v.then = w[x].then
    BY <1>1, <1>2, <2>1 DEF Tasks
  <2> HIDE DEF v
  <2>3. w' \in [Workers -> Tasks] /\ w'[x] = v
    BY <1>7, <2>1, GoesType DEF IInv, v
  <2>4. Waits(o)'
    BY <2>2, <2>3 DEF Waits
  <2>5. landed[o] = 0 /\ late[o] = 0
    BY <1>5, CountType DEF IInv
  <2>6. Count'[o] = 1
    BY <1>3, <2>4, <2>5 DEF Count
  <2>7. RecordFits(o, ops[o], Count'[o])
    BY <1>2, <1>5, <2>6 DEF TaskFits, RecordFits
  <2>8. TaskFits(v, ops[v.op], landed[v.op], Count'[v.op])
    BY <1>1, <1>2, <1>3, <1>5, <2>2 DEF TaskFits, Drives
  <2>9. o = Create => center.group = 0
    BY <1>1, <1>2, <1>3, <1>7 DEF TaskFits, CanStart
  <2>10. o = Create => CenterFits(ops[Create], landed[Create], Count'[Create], center.group)
    BY <2>9 DEF IInv, CenterInv, CenterFits
  <2>11. QED
    BY <1>1, <1>3, <1>4, <1>5, <1>7, <2>1, <2>2, <2>7, <2>8, <2>10, Stepped DEF v
<1>8. QED
  BY <1>6, <1>7 DEF Send

\* A call takes effect, once.
LEMMA LandKeeps ==
  ASSUME IInv, NEW x \in Workers, Land(x)
  PROVE  IInv'
<1> DEFINE v == [w[x] EXCEPT !.pc = "landed"]
<1>1. PICK o \in Ops : w[x].op = o
  BY Relies
<1>2. /\ w[x] \in Tasks /\ TaskFits(w[x], ops[o], landed[o], Count[o])
      /\ RecordFits(o, ops[o], Count[o])
  BY <1>1, Relies
<1>3. /\ w[x].pc = "wait" /\ UNCHANGED <<ops, center, late>> /\ Goes(x, v)
  BY DEF Land
<1>4. v \in Tasks
  BY <1>2, TaskStep
<1>5. v.pc = "landed" /\ v.op = o /\ v.group = w[x].group /\ v.then = w[x].then
  BY <1>1, <1>2, <1>4 DEF Tasks
<1> HIDE DEF v
<1>6. TypeOK'
  BY LandType DEF IInv
<1>7. landed[o] = 0 /\ late[o] = 0 /\ Count[o] = 1
  BY <1>1, <1>3, Waiting
<1>8. landed'[o] = landed[o] + 1 /\ \A p \in Ops \ {o} : landed'[p] = landed[p]
  BY <1>1, EffectType DEF Land, IInv
<1>9. Count'[o] = landed'[o] + late'[o]
  BY <1>1, <1>3, <1>4, <1>5, <1>6, WaitEnds
<1>10. Count'[o] = 1 /\ landed'[o] = 1
  BY <1>3, <1>7, <1>8, <1>9
<1>11. Drives(v) /\ Drives(w[x])
  BY <1>3, <1>5 DEF Drives
<1>12. RecordFits(o, ops[o], Count'[o])
  BY <1>2, <1>7, <1>10
<1>13. TaskFits(v, ops[v.op], landed'[v.op], Count'[v.op])
  BY <1>1, <1>2, <1>3, <1>5, <1>7, <1>10, <1>11 DEF TaskFits
<1>14. o = Create => CenterFits(ops[Create], landed'[Create], Count'[Create], center.group)
  BY <1>7, <1>10 DEF IInv, CenterInv, CenterFits
<1>15. QED
  BY <1>1, <1>3, <1>4, <1>5, <1>6, <1>7, <1>8, <1>10, <1>11, <1>12, <1>13, <1>14, Stepped

\* The answer: what is refused has not taken effect, what is confirmed has, and with no answer it
\* has or may.
LEMMA AnswerKeeps ==
  ASSUME IInv, NEW x \in Workers, Answer(x)
  PROVE  IInv'
<1>1. PICK o \in Ops : w[x].op = o
  BY Relies
<1>2. /\ w[x] \in Tasks /\ TaskFits(w[x], ops[o], landed[o], Count[o])
      /\ RecordFits(o, ops[o], Count[o]) /\ landed[o] \in Nat
  BY <1>1, Relies, CountType DEF IInv
<1>3. UNCHANGED <<ops, center, landed>>
  BY DEF Answer
<1>4. TypeOK'
  BY AnswerType DEF IInv
<1>5. \A out \in States : LET v == Outcome(x, out)
                          IN /\ v \in Tasks /\ v.pc = "save" /\ v.op = o /\ v.out = out
                             /\ v.group = w[x].group /\ v.then = w[x].then
  <2>1. TAKE out \in States
  <2>2. Outcome(x, out) \in Tasks
    BY AfterType DEF IInv
  <2>3. QED
    BY <1>1, <1>2, <2>2 DEF Outcome, Tasks
<1>6. w[x].pc \in {"wait", "landed"} /\ Drives(w[x])
  BY DEF Answer, Drives
<1>7. CASE /\ w[x].pc = "landed" /\ UNCHANGED late
           /\ Goes(x, [Outcome(x, "succeeded") EXCEPT !.group = IF o = Create THEN landed[o] ELSE 0])
  <2> DEFINE group == IF o = Create THEN landed[o] ELSE 0
             v == [Outcome(x, "succeeded") EXCEPT !.group = group]
  <2>1. group \in Nat /\ landed[o] = 1
    BY <1>2, <1>7 DEF TaskFits
  <2>2. v \in Tasks
    BY <1>5, <2>1 DEF Tasks, Named, States
  <2>3. v.pc = "save" /\ v.op = o /\ v.out = "succeeded" /\ v.group = group /\ v.then = w[x].then
    BY <1>5, <2>2 DEF Tasks, States
  <2> HIDE DEF v
  <2>4. Drives(v) => Drives(w[x])
    BY <1>6
  <2>5. TaskFits(v, ops[v.op], landed[v.op], Count[v.op])
    BY <1>2, <1>6, <2>1, <2>3 DEF TaskFits
  <2>6. QED
    BY <1>1, <1>3, <1>4, <1>7, <2>2, <2>3, <2>4, <2>5, Quiet DEF v
<1>8. CASE w[x].pc = "landed" /\ Goes(x, Outcome(x, "unknown")) /\ UNCHANGED late
  <2> DEFINE v == Outcome(x, "unknown")
  <2>1. /\ v \in Tasks /\ v.pc = "save" /\ v.op = o /\ v.out = "unknown"
        /\ v.group = w[x].group /\ v.then = w[x].then
    BY <1>5 DEF States
  <2> HIDE DEF v
  <2>2. TaskFits(v, ops[v.op], landed[v.op], Count[v.op])
    BY <1>1, <1>2, <1>6, <2>1 DEF TaskFits
  <2>3. QED
    BY <1>1, <1>3, <1>4, <1>6, <1>8, <2>1, <2>2, Quiet DEF v
<1>9. CASE w[x].pc = "wait" /\ Goes(x, Outcome(x, "failed")) /\ UNCHANGED late
  <2> DEFINE v == Outcome(x, "failed")
  <2>1. /\ v \in Tasks /\ v.pc = "save" /\ v.op = o /\ v.out = "failed"
        /\ v.group = w[x].group /\ v.then = w[x].then
    BY <1>5 DEF States
  <2> HIDE DEF v
  <2>2. landed[o] = 0 /\ late[o] = 0 /\ Count[o] = 1
    BY <1>1, <1>9, Waiting
  <2>3. Count'[o] = landed'[o] + late'[o]
    BY <1>1, <1>4, <1>9, <2>1, WaitEnds DEF v
  <2>4. Count'[o] = 0
    BY <1>3, <1>9, <2>2, <2>3
  <2>5. RecordFits(o, ops[o], Count'[o])
    BY <1>2, <2>4 DEF RecordFits
  <2>6. TaskFits(v, ops[v.op], landed[v.op], Count'[v.op])
    BY <1>1, <1>2, <1>3, <1>6, <2>1, <2>4 DEF TaskFits
  <2>7. o = Create => CenterFits(ops[Create], landed[Create], Count'[Create], center.group)
    BY <2>4 DEF IInv, CenterInv, CenterFits
  <2>8. QED
    BY <1>1, <1>3, <1>4, <1>6, <1>9, <2>1, <2>2, <2>4, <2>5, <2>6, <2>7, Stepped DEF v
<1>10. CASE w[x].pc = "wait" /\ Goes(x, Outcome(x, "unknown")) /\ late' = [late EXCEPT ![o] = @ + 1]
  <2> DEFINE v == Outcome(x, "unknown")
  <2>1. /\ v \in Tasks /\ v.pc = "save" /\ v.op = o /\ v.out = "unknown"
        /\ v.group = w[x].group /\ v.then = w[x].then
    BY <1>5 DEF States
  <2> HIDE DEF v
  <2>2. landed[o] = 0 /\ late[o] = 0 /\ Count[o] = 1
    BY <1>1, <1>10, Waiting
  <2>3. Count'[o] = landed'[o] + late'[o]
    BY <1>1, <1>4, <1>10, <2>1, WaitEnds DEF v
  <2>4. late'[o] = 1 /\ \A p \in Ops \ {o} : late'[p] = late[p]
    BY <1>10, <2>2 DEF IInv, TypeOK
  <2>5. Count'[o] = 1
    BY <1>3, <2>2, <2>3, <2>4
  <2>6. RecordFits(o, ops[o], Count'[o])
    BY <1>2, <2>2, <2>5
  <2>7. TaskFits(v, ops[v.op], landed[v.op], Count'[v.op])
    BY <1>1, <1>2, <1>3, <1>6, <2>1 DEF TaskFits
  <2>8. o = Create => CenterFits(ops[Create], landed[Create], Count'[Create], center.group)
    BY <2>2, <2>5 DEF IInv, CenterInv
  <2>9. QED
    BY <1>1, <1>3, <1>4, <1>6, <1>10, <2>1, <2>2, <2>4, <2>5, <2>6, <2>7, <2>8, Stepped DEF v
<1>11. QED
  BY <1>1, <1>7, <1>8, <1>9, <1>10 DEF Answer, TimedOut

\* A step that keeps what the invariant is about.
LEMMA Still ==
  ASSUME IInv, TypeOK', UNCHANGED <<ops, landed, late, w>>, center'.group = center.group
  PROVE  IInv'
<1>1. Count' = Count
  BY DEF Count, Waits
<1>2. QED
  BY <1>1 DEF IInv, OneDriver, RecordInv, CenterInv, TaskInv

\* A call nobody waits for takes effect at most once.
LEMMA LateCallKeeps ==
  ASSUME IInv, NEW o \in Ops, LateCall(o)
  PROVE  IInv'
<1>1. TypeOK' /\ TypeOK
  BY LateCallType DEF IInv
<1>2. late[o] > 0 /\ late' = [late EXCEPT ![o] = @ - 1] /\ UNCHANGED <<ops, center, w>>
  BY DEF LateCall
<1>3. late'[o] = late[o] - 1 /\ \A p \in Ops \ {o} : late'[p] = late[p]
  BY <1>1, <1>2 DEF TypeOK
<1>4. /\ landed'[o] = landed[o] + 1 \/ landed'[o] = landed[o]
      /\ \A p \in Ops \ {o} : landed'[p] = landed[p]
  BY <1>1, EffectType DEF LateCall
<1>5. RecordFits(o, ops[o], Count[o])
  BY DEF IInv, RecordInv
<1>6. landed[o] = 0 /\ late[o] = 1 /\ ~Waits(o) /\ Count[o] = 1
  BY <1>1, <1>2, <1>5, CountType DEF RecordFits
<1>7. ~Waits(o)' /\ \A p \in Ops : Waits(p)' = Waits(p)
  BY <1>2, <1>6 DEF Waits
<1>8. \A p \in Ops \ {o} : Count'[p] = Count[p]
  BY <1>3, <1>4, <1>7 DEF Count
<1>9. Count'[o] \in {0, 1}
  BY <1>3, <1>4, <1>6, <1>7 DEF Count
<1>10. RecordInv'
  BY <1>2, <1>5, <1>6, <1>8, <1>9 DEF IInv, RecordInv, RecordFits
<1>11. CenterInv'
  BY <1>2, <1>4, <1>6, <1>8, <1>9 DEF IInv, CenterInv, CenterFits, Ops
<1>12. TaskInv'
  <2>1. SUFFICES ASSUME NEW y \in Workers
                 PROVE  TaskFits(w[y], ops[w[y].op], landed'[w[y].op], Count'[w[y].op])
    BY <1>2 DEF TaskInv
  <2>2. w[y].op \in Ops /\ TaskFits(w[y], ops[w[y].op], landed[w[y].op], Count[w[y].op])
    BY Relies
  <2>3. CASE w[y].op # o
    BY <1>4, <1>8, <2>2, <2>3
  <2>4. CASE w[y].op = o
    BY <1>4, <1>6, <1>9, <2>2, <2>4 DEF TaskFits
  <2>5. QED
    BY <2>3, <2>4
<1>13. OneDriver'
  BY <1>2 DEF IInv, OneDriver
<1>14. QED
  BY <1>1, <1>10, <1>11, <1>12, <1>13 DEF IInv

\* What follows an outcome drives nothing.
LEMMA AfterFits ==
  ASSUME IInv, NEW x \in Workers, NEW saved \in BOOLEAN
  PROVE  LET v == After(x, saved)
         IN /\ v \in Tasks /\ ~Drives(v) /\ v.pc # "wait" /\ (v.op = w[x].op \/ v = Idle)
            /\ \A record, count : TaskFits(v, record, landed[v.op], count)
<1> DEFINE r == [w[x] EXCEPT !.pc = "recheck", !.then = "idle", !.fresh = FALSE]
           b == [w[x] EXCEPT !.pc = "bind", !.fresh = FALSE]
<1>1. After(x, saved) \in {r, b, Idle}
  BY DEF After
<1>2. w[x] \in Tasks
  BY Relies
<1>3. r \in Tasks /\ b \in Tasks
  <2>1. r \in Tasks
    BY <1>2 DEF Tasks, Named
  <2>2. b \in Tasks
    BY <1>2, TaskStep
  <2>3. QED
    BY <2>1, <2>2
<1>4. /\ r.pc = "recheck" /\ r.op = w[x].op /\ r.group = w[x].group /\ r.then = "idle"
      /\ b.pc = "bind" /\ b.op = w[x].op /\ b.group = w[x].group /\ b.then = w[x].then
  BY <1>2, <1>3 DEF Tasks
<1> HIDE DEF r, b
<1>5. /\ ~Drives(r) /\ \A record, count : TaskFits(r, record, landed[r.op], count)
      /\ ~Drives(b) /\ \A record, count : TaskFits(b, record, landed[b.op], count)
  BY <1>3, <1>4, Onward
<1>6. QED
  BY <1>1, <1>3, <1>4, <1>5, IdleFits

\* The record read again under the lease.
LEMMA SaveKeeps ==
  ASSUME IInv, NEW x \in Workers, Save(x)
  PROVE  IInv'
<1> DEFINE v == [w[x] EXCEPT !.pc = "write", !.fresh = TRUE]
           u == [w[x] EXCEPT !.pc = "reread"]
<1>1. TypeOK'
  BY SaveType DEF IInv
<1>2. w[x].pc = "save" /\ UNCHANGED <<ops, center, landed, late>>
  BY DEF Save, graph
<1>3. w[x] \in Tasks /\ TaskFits(w[x], ops[w[x].op], landed[w[x].op], Count[w[x].op])
  BY Relies
<1>4. v \in Tasks /\ u \in Tasks
  BY <1>3, TaskStep
<1>5. /\ v.pc = "write" /\ v.op = w[x].op /\ v.group = w[x].group /\ v.then = w[x].then
      /\ v.out = w[x].out
      /\ u.pc = "reread" /\ u.op = w[x].op /\ u.group = w[x].group /\ u.then = w[x].then
  BY <1>3, <1>4 DEF Tasks
<1> HIDE DEF v, u
<1>6. CASE Goes(x, After(x, TRUE))
  BY <1>1, <1>2, <1>6, AfterFits, Quiet
<1>7. CASE Goes(x, v)
  <2>1. Drives(v) <=> Drives(w[x])
    BY <1>2, <1>5 DEF Drives
  <2>2. TaskFits(v, ops[v.op], landed[v.op], Count[v.op])
    BY <1>2, <1>3, <1>5, <2>1 DEF TaskFits
  <2>3. QED
    BY <1>1, <1>2, <1>4, <1>5, <1>7, <2>1, <2>2, Quiet
<1>8. CASE Goes(x, u)
  BY <1>1, <1>2, <1>4, <1>5, <1>8, Onward, Quiet
<1>9. QED
  BY <1>6, <1>7, <1>8 DEF Save, v, u

\* An outcome that may be saved keeps the record true.
LEMMA SavedFits ==
  ASSUME IInv, NEW x \in Workers, NEW o \in Ops, w[x].op = o, NEW state \in States,
         MayBecome(ops[o], state, w[x].group),
         state = "failed" => Count[o] = 0,
         o = Create /\ state = "succeeded" => w[x].group = 1
  PROVE  LET record == Saved(x, state)
         IN /\ record \in Records /\ record.state = state /\ state \notin {"none", "pending"}
            /\ RecordFits(o, record, Count[o])
            /\ o = Create => CenterFits(record, landed[o], Count[o], center.group)
<1> DEFINE record == Saved(x, state)
<1>1. w[x] \in Tasks /\ ops[o] \in Records /\ RecordFits(o, ops[o], Count[o])
      /\ TaskFits(w[x], ops[o], landed[o], Count[o])
  BY Relies
<1>2. record \in Records
  BY SavedType DEF IInv
<1>3. record.state = state /\ record.kind = ops[o].kind /\ record.group = w[x].group
  BY <1>1, <1>2 DEF Saved, Records
<1> HIDE DEF record
<1>4. ops[o].state \in {"pending", "unknown"} /\ state \notin {"none", "pending"}
  BY DEF MayBecome
<1>5. RecordFits(o, record, Count[o])
  BY <1>1, <1>3, <1>4 DEF RecordFits
<1>6. ops[o].group # 0 => w[x].group = ops[o].group
  BY DEF MayBecome
<1>7. o = Create => CenterFits(record, landed[o], Count[o], center.group)
  BY <1>1, <1>3, <1>4, <1>6 DEF IInv, CenterInv, CenterFits, TaskFits
<1>8. QED
  BY <1>2, <1>3, <1>4, <1>5, <1>7 DEF record

\* The outcome, saved over the version read: only the driver reports a failure.
LEMMA WriteKeeps ==
  ASSUME IInv, NEW x \in Workers, Write(x)
  PROVE  IInv'
<1> DEFINE u == [w[x] EXCEPT !.pc = "reread", !.fresh = FALSE]
<1>1. PICK o \in Ops : w[x].op = o
  BY Relies
<1>2. w[x] \in Tasks /\ TaskFits(w[x], ops[o], landed[o], Count[o]) /\ w[x].out \in States
  BY <1>1, Relies DEF Tasks
<1>3. TypeOK'
  BY WriteType DEF IInv
<1>4. w[x].pc = "write" /\ UNCHANGED <<center, landed, late>>
  BY DEF Write, graph
<1>5. u \in Tasks
  BY <1>2, TaskStep
<1>6. u.pc = "reread" /\ u.op = w[x].op /\ u.group = w[x].group /\ u.then = w[x].then
  BY <1>2, <1>5 DEF Tasks
<1> HIDE DEF u
<1>7. ~Drives(u) /\ u.pc # "wait" /\ \A record, count : TaskFits(u, record, landed[u.op], count)
  BY <1>5, <1>6, Onward
<1>8. CASE Goes(x, u) /\ UNCHANGED ops
  BY <1>3, <1>4, <1>5, <1>7, <1>8, Quiet
<1>9. CASE /\ MayBecome(ops[o], w[x].out, w[x].group)
           /\ \E v \in {u, After(x, TRUE)} : SavesOp(x, o, Saved(x, w[x].out), v)
  <2>1. PICK v \in {u, After(x, TRUE)} : SavesOp(x, o, Saved(x, w[x].out), v)
    BY <1>9
  <2>2. /\ v \in Tasks /\ ~Drives(v) /\ v.pc # "wait" /\ (v.op = w[x].op \/ v = Idle)
        /\ \A record, count : TaskFits(v, record, landed[v.op], count)
    BY <1>5, <1>6, <1>7, AfterFits
  <2>3. \A record : TaskFits(v, record, landed[o], Count[o])
    BY <1>1, <2>2, IdleFits
  <2>4. w[x].out = "failed" => Count[o] = 0 /\ Drives(w[x])
    BY <1>2, <1>4 DEF TaskFits, Drives
  <2>5. o = Create /\ w[x].out = "succeeded" => w[x].group = 1
    BY <1>1, <1>2, <1>4 DEF TaskFits
  <2>6. LET record == Saved(x, w[x].out)
        IN /\ record \in Records /\ record.state = w[x].out /\ w[x].out \notin {"none", "pending"}
           /\ RecordFits(o, record, Count[o])
           /\ o = Create => CenterFits(record, landed[o], Count[o], center.group)
    BY <1>1, <1>2, <1>9, <2>4, <2>5, SavedFits
  <2>7. w[x].out = "failed" => \A y \in Workers \ {x} : w[y].op = o => ~Drives(w[y])
    BY <1>1, <2>4 DEF IInv, OneDriver
  <2>8. QED
    BY <1>1, <1>3, <1>4, <2>1, <2>2, <2>3, <2>6, <2>7, Saving
<1>10. QED
  BY <1>1, <1>8, <1>9 DEF Write, u

\* The record read again, when its save may have failed.
LEMMA RereadKeeps ==
  ASSUME IInv, NEW x \in Workers, Reread(x)
  PROVE  IInv'
<1> DEFINE u == [w[x] EXCEPT !.pc = "doubt", !.fresh = TRUE]
<1>1. TypeOK'
  BY RereadType DEF IInv
<1>2. w[x].pc = "reread" /\ UNCHANGED <<ops, center, landed, late>>
  BY DEF Reread, graph
<1>3. w[x] \in Tasks
  BY Relies
<1>4. u \in Tasks
  BY <1>3, TaskStep
<1>5. u.pc = "doubt" /\ u.op = w[x].op /\ u.group = w[x].group /\ u.then = w[x].then
  BY <1>3, <1>4 DEF Tasks
<1> HIDE DEF u
<1>6. CASE Goes(x, After(x, TRUE)) \/ Goes(x, After(x, FALSE))
  BY <1>1, <1>2, <1>6, AfterFits, Quiet
<1>7. CASE Goes(x, u)
  BY <1>1, <1>2, <1>4, <1>5, <1>7, Onward, Quiet
<1>8. QED
  BY <1>6, <1>7 DEF Reread, u

\* Doubt, recorded.
LEMMA DoubtKeeps ==
  ASSUME IInv, NEW x \in Workers, Doubt(x)
  PROVE  IInv'
<1> DEFINE v == After(x, FALSE)
<1>1. PICK o \in Ops : w[x].op = o
  BY Relies
<1>2. TypeOK'
  BY DoubtType DEF IInv
<1>3. w[x].pc = "doubt" /\ UNCHANGED <<center, landed, late>>
  BY DEF Doubt, graph
<1>4. /\ v \in Tasks /\ ~Drives(v) /\ v.pc # "wait" /\ (v.op = w[x].op \/ v = Idle)
      /\ \A record, count : TaskFits(v, record, landed[v.op], count)
  BY AfterFits
<1> HIDE DEF v
<1>5. CASE Goes(x, v) /\ UNCHANGED ops
  BY <1>2, <1>3, <1>4, <1>5, Quiet
<1>6. CASE MayBecome(ops[o], "unknown", w[x].group) /\ SavesOp(x, o, Saved(x, "unknown"), v)
  <2>1. \A record : TaskFits(v, record, landed[o], Count[o])
    BY <1>1, <1>4, IdleFits
  <2>2. LET record == Saved(x, "unknown")
        IN /\ record \in Records /\ record.state = "unknown"
           /\ RecordFits(o, record, Count[o])
           /\ o = Create => CenterFits(record, landed[o], Count[o], center.group)
    BY <1>1, <1>6, SavedFits DEF States
  <2>3. QED
    BY <1>1, <1>2, <1>3, <1>4, <1>6, <2>1, <2>2, Saving
<1>7. QED
  BY <1>1, <1>5, <1>6 DEF Doubt, v

\* The binding of the created group: while its creation counts, the center has no other.
LEMMA BindKeeps ==
  ASSUME IInv, NEW x \in Workers, Bind(x)
  PROVE  IInv'
<1> DEFINE u == [w[x] EXCEPT !.pc = "verify"]
<1>1. TypeOK'
  BY BindType DEF IInv
<1>2. w[x].pc = "bind" /\ UNCHANGED <<ops, landed, late>>
  BY DEF Bind, graph
<1>3. w[x] \in Tasks
  BY Relies
<1>4. u \in Tasks
  BY <1>3, TaskStep
<1>5. u.pc = "verify" /\ u.op = w[x].op /\ u.group = w[x].group /\ u.then = w[x].then
  BY <1>3, <1>4 DEF Tasks
<1> HIDE DEF u
<1>6. ~Drives(u) /\ u.pc # "wait" /\ \A record, count : TaskFits(u, record, landed[u.op], count)
  BY <1>4, <1>5, Onward
<1>7. Goes(x, u) \/ Goes(x, Idle)
  BY DEF Bind, u
<1>8. \/ center'.group = center.group
      \/ CenterFits(ops[Create], landed[Create], Count[Create], center'.group)
  <2>1. CASE UNCHANGED center
    BY <2>1
  <2>2. CASE ops[Create].group = w[x].group /\ center' = [group |-> w[x].group, verified |-> FALSE]
    BY <2>2 DEF IInv, CenterInv, CenterFits
  <2>3. QED
    BY <2>1, <2>2 DEF Bind
<1>9. QED
  BY <1>1, <1>2, <1>4, <1>6, <1>7, <1>8, IdleFits, Quiet

\* An existing group is attached only when no call to create one took effect or may.
LEMMA AttachKeeps ==
  ASSUME IInv, NEW x \in Workers, Attach(x)
  PROVE  IInv'
<1> DEFINE u == [Idle EXCEPT !.pc = "verify"]
<1>1. TypeOK'
  BY AttachType DEF IInv
<1>2. /\ w[x].pc = "idle" /\ UNCHANGED <<ops, landed, late>> /\ Goes(x, u)
      /\ ops[Create].state \notin {"pending", "unknown", "succeeded"}
  BY DEF Attach, MayAttach, graph
<1>3. u \in Tasks
  BY IdleFits, TaskStep
<1>4. u.pc = "verify" /\ u.group = 0 /\ u.then = "idle"
  BY DEF Idle
<1> HIDE DEF u
<1>5. ~Drives(u) /\ TaskFits(u, ops[u.op], landed[u.op], Count[u.op])
  BY <1>4 DEF Drives, TaskFits
<1>6. ops[Create] \in Records /\ RecordFits(Create, ops[Create], Count[Create])
  BY DEF IInv, TypeOK, RecordInv, Ops
<1>7. Count[Create] = 0
  BY <1>2, <1>6 DEF Records, States, RecordFits
<1>8. CenterFits(ops[Create], landed[Create], Count[Create], center'.group)
  BY <1>7 DEF IInv, CenterInv, CenterFits
<1>9. QED
  BY <1>1, <1>2, <1>3, <1>4, <1>5, <1>8, Quiet

\* The group, verified.
LEMMA VerifyKeeps ==
  ASSUME IInv, NEW x \in Workers, Verify(x)
  PROVE  IInv'
<1>1. TypeOK'
  BY VerifyType DEF IInv
<1>2. w[x].pc = "verify" /\ UNCHANGED <<ops, landed, late>> /\ Goes(x, Idle)
  BY DEF Verify, graph
<1>3. center'.group = center.group
  BY DEF Verify, IInv, TypeOK
<1>4. QED
  BY <1>1, <1>2, <1>3, Settles

\* Recovery goes by what the record says was made.
LEMMA RecoverKeeps ==
  ASSUME IInv, NEW x \in Workers, NEW o \in Ops, Recover(x, o)
  PROVE  IInv'
<1> DEFINE does == [Idle EXCEPT !.op = o, !.kind = ops[o].kind, !.of = ops[o].of,
                                !.group = ops[o].group, !.then = "recovered"]
           saves  == [does EXCEPT !.pc = "save", !.out = "succeeded"]
           binds  == [does EXCEPT !.pc = "bind"]
           looks  == [does EXCEPT !.pc = "look"]
           checks(then) == [does EXCEPT !.pc = "recheck", !.then = then]
<1>1. TypeOK' /\ ops[o] \in Records /\ RecordFits(o, ops[o], Count[o])
  BY RecoverType DEF IInv, TypeOK, RecordInv
<1>2. does \in Tasks /\ does.op = o /\ does.group = ops[o].group /\ does.then = "recovered"
  BY <1>1 DEF Idle, Tasks, Records, States, Named
<1> HIDE DEF does
<1>3. saves \in Tasks /\ binds \in Tasks /\ looks \in Tasks
  BY <1>2, TaskStep DEF States
<1>4. /\ saves.pc = "save" /\ saves.op = o /\ saves.group = ops[o].group
      /\ saves.then = "recovered" /\ saves.out = "succeeded"
      /\ binds.pc = "bind" /\ binds.op = o /\ binds.group = ops[o].group /\ binds.then = "recovered"
      /\ looks.pc = "look" /\ looks.op = o /\ looks.group = ops[o].group
      /\ looks.then = "recovered"
  BY <1>2 DEF Tasks
<1> HIDE DEF saves, binds, looks
<1>5. \A then \in {"idle", "look"} :
        LET v == checks(then)
        IN /\ v \in Tasks /\ v.pc = "recheck" /\ v.op = o /\ v.group = ops[o].group
           /\ v.then = then
  BY <1>2 DEF Tasks, Named
<1> HIDE DEF checks
<1>6. w[x].pc = "idle" /\ UNCHANGED <<ops, center, landed, late>>
  BY DEF Recover, graph
<1>7. o = Create /\ ops[o].group # 0 => landed[o] = 1 /\ ops[o].group = 1
  BY DEF IInv, CenterInv, CenterFits
<1>8. CASE Goes(x, saves) /\ o = Create /\ ops[o].group # 0
  <2>1. ~Drives(saves) /\ TaskFits(saves, ops[saves.op], landed[saves.op], Count[saves.op])
    BY <1>4, <1>7, <1>8 DEF Drives, TaskFits
  <2>2. QED
    BY <1>1, <1>3, <1>4, <1>6, <1>8, <2>1, Quiet
<1>9. CASE Goes(x, binds)
  <2>1. ~Drives(binds) /\ TaskFits(binds, ops[binds.op], landed[binds.op], Count[binds.op])
    BY <1>4, <1>7 DEF Drives, TaskFits
  <2>2. QED
    BY <1>1, <1>3, <1>4, <1>6, <1>9, <2>1, Quiet
<1>10. CASE Goes(x, looks) /\ ops[o].kind = "add"
  <2>1. o # Create
    BY <1>1, <1>10 DEF RecordFits
  <2>2. ~Drives(looks) /\ TaskFits(looks, ops[looks.op], landed[looks.op], Count[looks.op])
    BY <1>4, <2>1 DEF Drives, TaskFits
  <2>3. QED
    BY <1>1, <1>3, <1>4, <1>6, <1>10, <2>2, Quiet
<1>11. CASE ops[o].kind = "remove" /\ \E then \in {"idle", "look"} : Goes(x, checks(then))
  <2>1. PICK then \in {"idle", "look"} : Goes(x, checks(then))
    BY <1>11
  <2>2. PICK v \in Tasks : /\ Goes(x, v) /\ v.pc = "recheck" /\ v.op = o
                           /\ v.group = ops[o].group /\ v.then = then
    BY <1>5, <2>1
  <2>3. o # Create
    BY <1>1, <1>11 DEF RecordFits
  <2>4. ~Drives(v) /\ TaskFits(v, ops[v.op], landed[v.op], Count[v.op])
    BY <2>2, <2>3 DEF Drives, TaskFits
  <2>5. QED
    BY <1>1, <1>6, <2>2, <2>4, Quiet
<1>12. QED
  BY <1>8, <1>9, <1>10, <1>11 DEF Recover, does, saves, binds, looks, checks

\* An operation whose effect is there has succeeded; it is no creation.
LEMMA LookKeeps ==
  ASSUME IInv, NEW x \in Workers, Look(x)
  PROVE  IInv'
<1> DEFINE v == [Outcome(x, "succeeded") EXCEPT !.then = "recovered"]
<1>1. TypeOK'
  BY LookType DEF IInv
<1>2. w[x].pc = "look" /\ UNCHANGED <<ops, center, landed, late>> /\ (Goes(x, v) \/ Goes(x, Idle))
  BY DEF Look, graph
<1>3. w[x] \in Tasks /\ TaskFits(w[x], ops[w[x].op], landed[w[x].op], Count[w[x].op])
  BY Relies
<1>4. Outcome(x, "succeeded") \in Tasks
  BY AfterType DEF IInv, States
<1>5. v \in Tasks
  BY <1>4 DEF Tasks, Named
<1>6. v.pc = "save" /\ v.op = w[x].op /\ v.then = "recovered" /\ v.out = "succeeded"
  BY <1>3, <1>4, <1>5 DEF Outcome, Tasks
<1> HIDE DEF v
<1>7. ~Drives(v) /\ TaskFits(v, ops[v.op], landed[v.op], Count[v.op])
  BY <1>2, <1>3, <1>6 DEF Drives, TaskFits
<1>8. QED
  BY <1>1, <1>2, <1>5, <1>6, <1>7, IdleFits, Quiet

\* What follows a pass over rechecks drives nothing.
LEMMA RecheckedFits ==
  ASSUME IInv, NEW x \in Workers
  PROVE  \A v \in {Rechecked(x), Resumed(x)} :
           /\ v \in Tasks /\ ~Drives(v) /\ v.pc # "wait"
           /\ TaskFits(v, ops[v.op], landed[v.op], Count[v.op])
<1> DEFINE l == [w[x] EXCEPT !.pc = "look"]
           e == [w[x] EXCEPT !.pc = "evidence"]
<1>1. w[x] \in Tasks
  BY Relies
<1>2. l \in Tasks /\ e \in Tasks
  BY <1>1, TaskStep
<1>3. /\ l.pc = "look" /\ l.op = w[x].op /\ l.group = w[x].group /\ l.then = w[x].then
      /\ e.pc = "evidence" /\ e.op = w[x].op /\ e.group = w[x].group /\ e.then = w[x].then
  BY <1>1, <1>2 DEF Tasks
<1>4. Rechecked(x) = Idle \/ (Rechecked(x) = l /\ w[x].then = "look")
  BY DEF Rechecked
<1>5. Resumed(x) = e
  BY DEF Resumed
<1> HIDE DEF l, e
<1>6. w[x].then = "look" => ~Drives(l) /\ \A record, count : TaskFits(l, record, landed[l.op], count)
  BY <1>2, <1>3, Onward
<1>7. ~Drives(e) /\ \A record, count : TaskFits(e, record, landed[e.op], count)
  BY <1>2, <1>3, Onward
<1>8. QED
  BY <1>2, <1>3, <1>4, <1>5, <1>6, <1>7, IdleFits

\* A recheck, recorded; the pending rechecks, resumed.
LEMMA RecheckKeeps ==
  ASSUME IInv, NEW x \in Workers, Recheck(x)
  PROVE  IInv'
<1>1. TypeOK'
  BY RecheckType DEF IInv
<1>2. /\ w[x].pc = "recheck" /\ UNCHANGED <<ops, center, landed, late>>
      /\ Goes(x, Rechecked(x)) \/ Goes(x, Resumed(x)) \/ Goes(x, Idle)
  BY DEF Recheck, graph
<1>3. QED
  BY <1>1, <1>2, RecheckedFits, IdleFits, Quiet

\* The same, when an administrator asks for it.
LEMMA ResumeKeeps ==
  ASSUME IInv, NEW x \in Workers, Resume(x)
  PROVE  IInv'
<1> DEFINE u == [Idle EXCEPT !.pc = "evidence"]
<1>1. TypeOK'
  BY ResumeType DEF IInv
<1>2. w[x].pc = "idle" /\ UNCHANGED <<ops, center, landed, late>> /\ Goes(x, u)
  BY DEF Resume, graph
<1>3. u \in Tasks
  BY IdleFits, TaskStep
<1>4. u.pc = "evidence" /\ u.group = 0 /\ u.then = "idle"
  BY DEF Idle
<1> HIDE DEF u
<1>5. ~Drives(u) /\ TaskFits(u, ops[u.op], landed[u.op], Count[u.op])
  BY <1>4 DEF Drives, TaskFits
<1>6. QED
  BY <1>1, <1>2, <1>3, <1>4, <1>5, Quiet

\* What waits and who is a member, read.
LEMMA EvidenceKeeps ==
  ASSUME IInv, NEW x \in Workers, Evidence(x)
  PROVE  IInv'
<1> DEFINE absent == Members \ members
           v == [w[x] EXCEPT !.pc = "settle", !.seen = rechecks, !.absent = absent]
<1>1. TypeOK'
  BY EvidenceType DEF IInv
<1>2. /\ w[x].pc = "evidence" /\ UNCHANGED <<ops, center, landed, late>>
      /\ Goes(x, Rechecked(x)) \/ Goes(x, v)
  BY DEF Evidence, graph
<1>3. w[x] \in Tasks /\ rechecks \in SUBSET Recorded /\ absent \in SUBSET Members
  BY Relies DEF IInv, TypeOK
<1> HIDE DEF absent
<1>4. v \in Tasks
  BY <1>3 DEF Tasks, Named
<1>5. v.pc = "settle" /\ v.op = w[x].op /\ v.group = w[x].group /\ v.then = w[x].then
  BY <1>3, <1>4 DEF Tasks
<1> HIDE DEF v
<1>6. ~Drives(v) /\ \A record, count : TaskFits(v, record, landed[v.op], count)
  BY <1>4, <1>5, Onward
<1>7. QED
  BY <1>1, <1>2, <1>4, <1>5, <1>6, RecheckedFits, Quiet

\* A pass over rechecks, settled.
LEMMA SettleKeeps ==
  ASSUME IInv, NEW x \in Workers, Settle(x)
  PROVE  IInv'
<1> DEFINE v == [Rechecked(x) EXCEPT !.seen = {}, !.absent = {}]
<1>1. TypeOK'
  BY SettleType DEF IInv
<1>2. /\ w[x].pc = "settle" /\ UNCHANGED <<ops, center, landed, late>> /\ Goes(x, v)
  BY DEF Settle, graph
<1>3. /\ Rechecked(x) \in Tasks /\ ~Drives(Rechecked(x)) /\ Rechecked(x).pc # "wait"
      /\ TaskFits(Rechecked(x), ops[Rechecked(x).op], landed[Rechecked(x).op],
                  Count[Rechecked(x).op])
  BY RecheckedFits
<1>4. v \in Tasks
  BY <1>3 DEF Tasks, Named
<1>5. /\ v.pc = Rechecked(x).pc /\ v.op = Rechecked(x).op /\ v.kind = Rechecked(x).kind
      /\ v.out = Rechecked(x).out /\ v.group = Rechecked(x).group
      /\ v.fresh = Rechecked(x).fresh /\ v.then = Rechecked(x).then
  BY <1>3, <1>4 DEF Tasks
<1> HIDE DEF v
<1>6. ~Drives(v) /\ TaskFits(v, ops[v.op], landed[v.op], Count[v.op])
  BY <1>3, <1>5 DEF Drives, TaskFits
<1>7. QED
  BY <1>1, <1>2, <1>3, <1>4, <1>5, <1>6, Quiet

\* A worker, stopped: the call it waited for may still take effect.
LEMMA StopKeeps ==
  ASSUME IInv, NEW x \in Workers, Stop(x)
  PROVE  IInv'
<1>1. TypeOK'
  BY StopType DEF IInv
<1>2. UNCHANGED <<ops, center, landed>> /\ Goes(x, Idle)
  BY DEF Stop
<1>3. CASE w[x].pc # "wait"
  BY <1>1, <1>2, <1>3, Settles DEF Stop
<1>4. CASE w[x].pc = "wait"
  <2>1. PICK o \in Ops : w[x].op = o
    BY Relies
  <2>2. landed[o] = 0 /\ late[o] = 0 /\ Count[o] = 1
    BY <1>4, <2>1, Waiting
  <2>3. late' = [late EXCEPT ![o] = @ + 1]
    BY <1>4, <2>1 DEF Stop
  <2>4. late'[o] = 1 /\ \A p \in Ops \ {o} : late'[p] = late[p]
    BY <2>2, <2>3 DEF IInv, TypeOK
  <2>5. Count'[o] = landed'[o] + late'[o]
    BY <1>1, <1>2, <1>4, <2>1, IdleFits, WaitEnds
  <2>6. Count'[o] = 1
    BY <1>2, <2>2, <2>4, <2>5
  <2>7. RecordFits(o, ops[o], Count'[o])
    BY <2>2, <2>6 DEF IInv, RecordInv
  <2>8. o = Create => CenterFits(ops[Create], landed[Create], Count'[Create], center.group)
    BY <2>2, <2>6 DEF IInv, CenterInv
  <2>9. QED
    BY <1>1, <1>2, <2>1, <2>2, <2>4, <2>6, <2>7, <2>8, IdleFits, Stepped
<1>5. QED
  BY <1>3, <1>4

\* The start: nothing was sent.
LEMMA InitKeeps == Init => IInv
<1> SUFFICES ASSUME Init PROVE IInv
  OBVIOUS
<1>1. TypeOK
  BY InitType
<1>2. /\ \A o \in Ops : /\ ops[o] = NoOp /\ landed[o] = 0 /\ late[o] = 0
      /\ \A x \in Workers : w[x] = Idle
  BY DEF Init
<1>3. \A o \in Ops : Count[o] = 0
  <2>1. \A o \in Ops : ~Waits(o)
    BY <1>2, IdleFits DEF Waits
  <2>2. QED
    BY <1>2, <2>1 DEF Count
<1>4. NoOp.state = "none" /\ NoOp.kind = "none" /\ NoOp.group = 0
  BY DEF NoOp
<1>5. RecordInv
  BY <1>2, <1>3, <1>4 DEF RecordInv, RecordFits
<1>6. CenterInv
  BY <1>2, <1>3, <1>4 DEF CenterInv, CenterFits, Ops
<1>7. OneDriver /\ TaskInv
  BY <1>2, IdleFits DEF OneDriver, TaskInv
<1>8. QED
  BY <1>1, <1>5, <1>6, <1>7 DEF IInv

\* Every step keeps the invariant.
LEMMA StepKeeps == IInv /\ [Next]_vars => IInv'
<1> SUFFICES ASSUME IInv, [Next]_vars PROVE IInv'
  OBVIOUS
<1>1. TypeOK'
  BY StepType DEF IInv
<1>2. CASE UNCHANGED vars
  BY <1>1, <1>2, Still DEF vars
<1>3. ASSUME NEW x \in Workers, NEW o \in Ops, NEW kind \in {"create", "add", "remove"},
             NEW m \in Members \union {"nobody"}, Request(x, o, kind, m)
      PROVE  IInv'
  BY <1>3, RequestKeeps
<1>4. ASSUME NEW x \in Workers, NEW o \in Ops, Retry(x, o) \/ Recover(x, o)
      PROVE  IInv'
  BY <1>4, RetryKeeps, RecoverKeeps
<1>5. ASSUME NEW x \in Workers, Commit(x) \/ Again(x) \/ Execute(x)
      PROVE  IInv'
  BY <1>5, CommitKeeps, AgainKeeps, SendKeeps, LandKeeps, AnswerKeeps, SaveKeeps, WriteKeeps,
     RereadKeeps, DoubtKeeps DEF Execute
<1>6. ASSUME NEW x \in Workers, Attach(x) \/ Bind(x) \/ Verify(x)
      PROVE  IInv'
  BY <1>6, AttachKeeps, BindKeeps, VerifyKeeps
<1>7. ASSUME NEW x \in Workers,
             Look(x) \/ Recheck(x) \/ Resume(x) \/ Evidence(x) \/ Settle(x) \/ Stop(x)
      PROVE  IInv'
  BY <1>7, LookKeeps, RecheckKeeps, ResumeKeeps, EvidenceKeeps, SettleKeeps, StopKeeps
<1>8. ASSUME NEW o \in Ops, LateCall(o)
      PROVE  IInv'
  BY <1>8, LateCallKeeps
<1>9. ASSUME NEW m \in Members, ChangeOutside(m)
      PROVE  IInv'
  BY <1>1, <1>9, Still DEF ChangeOutside
<1>10. CASE LeaseExpires
  BY <1>1, <1>10, Still DEF LeaseExpires, graph
<1>11. QED
  BY <1>2, <1>3, <1>4, <1>5, <1>6, <1>7, <1>8, <1>9, <1>10 DEF Next

\* The invariant counts what OneGroup counts: at most one worker waits for a call.
LEMMA Counts ==
  ASSUME IInv, NEW o \in Ops
  PROVE  Possible(o) = Count[o]
<1> DEFINE waiting == {x \in Workers : w[x].pc = "wait" /\ w[x].op = o}
<1>1. CASE Waits(o)
  <2>1. PICK x \in Workers : w[x].pc = "wait" /\ w[x].op = o
    BY <1>1 DEF Waits
  <2>2. waiting = {x}
    BY <2>1 DEF IInv, OneDriver, Drives
  <2>3. Cardinality(waiting) = 1
    BY <2>2, FS_Singleton
  <2>4. QED
    BY <1>1, <2>3, CountType DEF IInv, Possible
<1>2. CASE ~Waits(o)
  <2>1. waiting = {}
    BY <1>2 DEF Waits
  <2>2. Cardinality(waiting) = 0
    BY <2>1, FS_EmptySet
  <2>3. QED
    BY <1>2, <2>2, CountType DEF IInv, Possible
<1>3. QED
  BY <1>1, <1>2

\* However calls, answers, commits, stops and leases fall: at most one call to create the center's
\* group ever takes effect, what is recorded as failed changed nothing and never will, what is
\* recorded as created was, and the center is bound to no other group meanwhile
\* (services/cost_center_directory.py).
THEOREM OneGroupOnly == Spec => []OneGroup
<1>1. Init => IInv
  BY InitKeeps
<1>2. IInv /\ [Next]_vars => IInv'
  BY StepKeeps
<1>3. IInv => OneGroup
  <2> SUFFICES ASSUME IInv PROVE OneGroup
    OBVIOUS
  <2>1. \A o \in Ops : Possible(o) = Count[o] /\ RecordFits(o, ops[o], Count[o])
    BY Counts DEF IInv, RecordInv
  <2>2. Create \in Ops
    BY DEF Ops
  <2>3. CenterFits(ops[Create], landed[Create], Count[Create], center.group)
    BY DEF IInv, CenterInv
  <2>4. QED
    BY <2>1, <2>2, <2>3 DEF OneGroup, RecordFits, CenterFits
<1>4. QED
  BY <1>1, <1>2, <1>3, PTL DEF Spec
===============================================================================
