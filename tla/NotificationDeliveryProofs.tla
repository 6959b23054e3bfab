--------------------- MODULE NotificationDeliveryProofs -----------------------
(***************************************************************************)
(* Proofs about NotificationDelivery, for every number of deliveries and   *)
(* replicas and every retry budget, lease and timeout the constructor      *)
(* accepts.  IInv is inductive; the safety properties follow from it.      *)
(***************************************************************************)
EXTENDS NotificationDelivery, TLAPS

USE AttemptsAssumption, TimingAssumption, BoundsAssumption

\* A record closed for want of attempts was claimed by nobody.
LEMMA CloseExhaustedStep ==
  ASSUME NEW d \in Deliveries, IInv, CloseExhausted(d)
  PROVE  IInv'
<1> USE DEF recordVars, workerVars, historyVars, States, Claimable, Requeueable, Accepted,
            Outcomes, Unsent
<1>1. TypeOK'
  BY DEF IInv, TypeOK, WorkerInv, RecordInv, Working, CloseExhausted, Touch, Open,
         HasAttempts, Unresolved
<1>2. UniqueHolder'
  BY DEF IInv, TypeOK, UniqueHolder, CloseExhausted, Touch, Open, HasAttempts, Unresolved
<1>3. ASSUME NEW v \in Workers PROVE WorkerInv(v)'
  BY DEF IInv, TypeOK, UniqueHolder, WorkerInv, RecordInv, Working, CloseExhausted, Touch,
         Open, HasAttempts, Unresolved
<1>4. ASSUME NEW e \in Deliveries PROVE RecordInv(e)'
  BY DEF IInv, TypeOK, UniqueHolder, WorkerInv, RecordInv, TakenIsTraced, Working,
         CloseExhausted, Touch, Open, HasAttempts, Unresolved
<1>5. QED
  BY <1>1, <1>2, <1>3, <1>4 DEF IInv

\* The holder of a lease that ran out cannot be sending: its send timed out before.
LEMMA ExpireLeaseStep ==
  ASSUME NEW d \in Deliveries, IInv, ExpireLease(d)
  PROVE  IInv'
<1> USE DEF recordVars, workerVars, historyVars, States, Claimable, Requeueable, Accepted,
            Outcomes, Unsent
<1>1. TypeOK'
  BY DEF IInv, TypeOK, WorkerInv, RecordInv, Working, ExpireLease, Touch, HasAttempts
<1>2. UniqueHolder'
  BY DEF IInv, TypeOK, UniqueHolder, ExpireLease, Touch, HasAttempts
<1>3. ASSUME NEW v \in Workers PROVE WorkerInv(v)'
  <2>1. CASE work[v] = d
    <3>1. pc[v] # "sending"
      BY <2>1 DEF IInv, TypeOK, WorkerInv, ExpireLease
    <3>2. ~fresh'[v] /\ work'[v] = d /\ pc'[v] = pc[v]
      BY <2>1 DEF ExpireLease, Touch
    <3>3. QED
      BY <3>1, <3>2 DEF IInv, WorkerInv, Working, ExpireLease
  <2>2. CASE work[v] # d
    <3>1. fresh'[v] = fresh[v] /\ work'[v] = work[v] /\ state'[work[v]] = state[work[v]]
      BY <2>2 DEF IInv, TypeOK, ExpireLease, Touch
    <3>2. QED
      BY <3>1 DEF IInv, WorkerInv, Working, ExpireLease
  <2>3. QED
    BY <2>1, <2>2
<1>4. ASSUME NEW e \in Deliveries PROVE RecordInv(e)'
  BY DEF IInv, TypeOK, UniqueHolder, WorkerInv, RecordInv, TakenIsTraced, Working,
         ExpireLease, Touch, HasAttempts
<1>5. QED
  BY <1>1, <1>2, <1>3, <1>4 DEF IInv

\* A manual retry finds a record no worker holds, and keeps its uncertainty.
LEMMA RequeueStep ==
  ASSUME NEW d \in Deliveries, IInv, Requeue(d)
  PROVE  IInv'
<1> USE DEF recordVars, workerVars, historyVars, States, Claimable, Requeueable, Accepted,
            Outcomes, Unsent
<1>1. TypeOK'
  BY DEF IInv, TypeOK, WorkerInv, RecordInv, Working, Requeue, Touch, RequeuedUncertainty
<1>2. UniqueHolder'
  BY DEF IInv, TypeOK, UniqueHolder, Requeue, Touch, RequeuedUncertainty
<1>3. ASSUME NEW v \in Workers PROVE WorkerInv(v)'
  BY DEF IInv, TypeOK, UniqueHolder, WorkerInv, RecordInv, Working, Requeue, Touch,
         RequeuedUncertainty
<1>4. ASSUME NEW e \in Deliveries PROVE RecordInv(e)'
  BY DEF IInv, TypeOK, UniqueHolder, WorkerInv, RecordInv, TakenIsTraced, Working, Requeue,
         Touch, RequeuedUncertainty
<1>5. QED
  BY <1>1, <1>2, <1>3, <1>4 DEF IInv

\* A claim finds a record no worker holds, and makes its worker the only holder.
LEMMA ClaimStep ==
  ASSUME NEW w \in Workers, NEW d \in Deliveries, IInv, Claim(w, d)
  PROVE  IInv'
<1> USE DEF recordVars, workerVars, historyVars, States, Claimable, Requeueable, Accepted,
            Outcomes, Unsent
<1>1. TypeOK'
  BY DEF IInv, TypeOK, WorkerInv, RecordInv, Working, Claim, Touch, Open, HasAttempts,
         Unresolved
<1>2. UniqueHolder'
  BY DEF IInv, TypeOK, UniqueHolder, Claim, Touch, Open, HasAttempts, Unresolved
<1>3. ASSUME NEW v \in Workers PROVE WorkerInv(v)'
  <2>1. CASE v = w
    <3>1. /\ pc'[w] = "claimed" /\ work'[w] = d /\ state'[d] = "sending"
          /\ request'[w] = "none" /\ attempts'[d] = attempts[d] + 1
      BY DEF IInv, TypeOK, WorkerInv, Claim
    <3>2. issued'[d] < attempts'[d]
      BY <3>1 DEF IInv, TypeOK, RecordInv, Claim
    <3>3. QED
      BY <2>1, <3>1, <3>2 DEF WorkerInv
  <2>2. CASE v # w /\ work[v] = d
    <3>1. ~fresh[v] /\ pc[v] # "sending"
      BY <2>2 DEF IInv, WorkerInv, Claim, Open
    <3>2. ~fresh'[v] /\ work'[v] = d /\ pc'[v] = pc[v]
      BY <2>2 DEF IInv, TypeOK, Claim, Touch
    <3>3. QED
      BY <3>1, <3>2 DEF IInv, WorkerInv, Working, Claim
  <2>3. CASE v # w /\ work[v] # d
    <3>1. /\ fresh'[v] = fresh[v] /\ work'[v] = work[v] /\ pc'[v] = pc[v]
          /\ state'[work[v]] = state[work[v]]
          /\ leaseLeft'[work[v]] = leaseLeft[work[v]]
          /\ attempts'[work[v]] = attempts[work[v]]
      BY <2>3 DEF IInv, TypeOK, Claim, Touch
    <3>2. QED
      BY <3>1 DEF IInv, WorkerInv, Working, Claim
  <2>4. QED
    BY <2>1, <2>2, <2>3
<1>4. ASSUME NEW e \in Deliveries PROVE RecordInv(e)'
  BY DEF IInv, TypeOK, UniqueHolder, WorkerInv, RecordInv, TakenIsTraced, Working, Claim,
         Touch, Open, HasAttempts, Unresolved
<1>5. QED
  BY <1>1, <1>2, <1>3, <1>4 DEF IInv

\* A decision not to send leaves no request behind.
LEMMA DecideWithoutSendingStep ==
  ASSUME NEW w \in Workers, IInv, DecideWithoutSending(w)
  PROVE  IInv'
<1> USE DEF recordVars, workerVars, historyVars, States, Claimable, Requeueable, Accepted,
            Outcomes, Unsent
<1>1. TypeOK'
  BY DEF IInv, TypeOK, WorkerInv, RecordInv, Working, DecideWithoutSending, MayReport
<1>2. UniqueHolder'
  BY DEF IInv, TypeOK, UniqueHolder, DecideWithoutSending, MayReport
<1>3. ASSUME NEW v \in Workers PROVE WorkerInv(v)'
  BY DEF IInv, TypeOK, UniqueHolder, WorkerInv, RecordInv, Working, DecideWithoutSending,
         MayReport
<1>4. ASSUME NEW e \in Deliveries PROVE RecordInv(e)'
  BY DEF IInv, TypeOK, UniqueHolder, WorkerInv, RecordInv, TakenIsTraced, Working,
         DecideWithoutSending, MayReport
<1>5. QED
  BY <1>1, <1>2, <1>3, <1>4 DEF IInv

\* The renewed lease is longer than the send: that is where the timing assumption counts.
LEMMA RenewAndSendStep ==
  ASSUME NEW w \in Workers, IInv, RenewAndSend(w)
  PROVE  IInv'
<1> USE DEF recordVars, workerVars, historyVars, States, Claimable, Requeueable, Accepted,
            Outcomes, Unsent
<1>1. TypeOK'
  BY DEF IInv, TypeOK, WorkerInv, RecordInv, Working, RenewAndSend, Touch, HoldsLease,
         RenewedLease
<1>2. UniqueHolder'
  BY DEF IInv, TypeOK, UniqueHolder, RenewAndSend, Touch, HoldsLease, RenewedLease
<1>3. ASSUME NEW v \in Workers PROVE WorkerInv(v)'
  BY DEF IInv, TypeOK, UniqueHolder, WorkerInv, RecordInv, Working, RenewAndSend, Touch,
         HoldsLease, RenewedLease
<1>4. ASSUME NEW e \in Deliveries PROVE RecordInv(e)'
  BY DEF IInv, TypeOK, UniqueHolder, WorkerInv, RecordInv, TakenIsTraced, Working,
         RenewAndSend, Touch, HoldsLease, RenewedLease
<1>5. QED
  BY <1>1, <1>2, <1>3, <1>4 DEF IInv

\* A worker that lost its lease drops its claim and touches nothing.
LEMMA RenewConflictStep ==
  ASSUME NEW w \in Workers, IInv, RenewConflict(w)
  PROVE  IInv'
<1> USE DEF recordVars, workerVars, historyVars, States, Claimable, Requeueable, Accepted,
            Outcomes, Unsent
<1>1. TypeOK'
  BY DEF IInv, TypeOK, WorkerInv, RecordInv, Working, RenewConflict, GoIdle
<1>2. UniqueHolder'
  BY DEF IInv, TypeOK, UniqueHolder, RenewConflict, GoIdle
<1>3. ASSUME NEW v \in Workers PROVE WorkerInv(v)'
  BY DEF IInv, TypeOK, UniqueHolder, WorkerInv, RecordInv, Working, RenewConflict, GoIdle
<1>4. ASSUME NEW e \in Deliveries PROVE RecordInv(e)'
  BY DEF IInv, TypeOK, UniqueHolder, WorkerInv, RecordInv, TakenIsTraced, Working,
         RenewConflict, GoIdle
<1>5. QED
  BY <1>1, <1>2, <1>3, <1>4 DEF IInv

\* What an adapter answers is what the provider made of the request, or unknown.
LEMMA SendReturnsStep ==
  ASSUME NEW w \in Workers, IInv, SendReturns(w)
  PROVE  IInv'
<1> USE DEF recordVars, workerVars, historyVars, States, Claimable, Requeueable, Accepted,
            Outcomes, Unsent
<1>1. TypeOK'
  BY DEF IInv, TypeOK, WorkerInv, RecordInv, Working, SendReturns, Answers, MayReport
<1>2. UniqueHolder'
  BY DEF IInv, TypeOK, UniqueHolder, SendReturns, Answers, MayReport
<1>3. ASSUME NEW v \in Workers PROVE WorkerInv(v)'
  BY DEF IInv, TypeOK, UniqueHolder, WorkerInv, RecordInv, Working, SendReturns, Answers,
         MayReport
<1>4. ASSUME NEW e \in Deliveries PROVE RecordInv(e)'
  BY DEF IInv, TypeOK, UniqueHolder, WorkerInv, RecordInv, TakenIsTraced, Working,
         SendReturns, Answers, MayReport
<1>5. QED
  BY <1>1, <1>2, <1>3, <1>4 DEF IInv

\* The check of the lease reads, and changes no record.
LEMMA SaveCheckStep ==
  ASSUME NEW w \in Workers, IInv, SaveCheck(w)
  PROVE  IInv'
<1> USE DEF recordVars, workerVars, historyVars, States, Claimable, Requeueable, Accepted,
            Outcomes, Unsent
<1>1. TypeOK'
  BY DEF IInv, TypeOK, WorkerInv, RecordInv, Working, SaveCheck, HoldsLease
<1>2. UniqueHolder'
  BY DEF IInv, TypeOK, UniqueHolder, SaveCheck, HoldsLease
<1>3. ASSUME NEW v \in Workers PROVE WorkerInv(v)'
  BY DEF IInv, TypeOK, UniqueHolder, WorkerInv, RecordInv, Working, SaveCheck, HoldsLease
<1>4. ASSUME NEW e \in Deliveries PROVE RecordInv(e)'
  BY DEF IInv, TypeOK, UniqueHolder, WorkerInv, RecordInv, TakenIsTraced, Working, SaveCheck,
         HoldsLease
<1>5. QED
  BY <1>1, <1>2, <1>3, <1>4 DEF IInv

\* A commit closes the attempt it was claimed for; nobody else holds the record.
LEMMA SaveCommitStep ==
  ASSUME NEW w \in Workers, IInv, SaveCommit(w)
  PROVE  IInv'
<1> USE DEF recordVars, workerVars, historyVars, States, Claimable, Requeueable, Accepted,
            Outcomes, Unsent
<1>1. TypeOK'
  BY DEF IInv, TypeOK, WorkerInv, RecordInv, Working, SaveCommit, Touch, GoIdle, StateAfter,
         UncertaintyAfter, AttemptsAfter, HasAttempts
<1>2. UniqueHolder'
  BY DEF IInv, TypeOK, UniqueHolder, SaveCommit, Touch, GoIdle, StateAfter, UncertaintyAfter,
         AttemptsAfter, HasAttempts
<1>3. ASSUME NEW v \in Workers PROVE WorkerInv(v)'
  <2>1. CASE v = w
    <3>1. pc'[w] = "idle" /\ ~fresh'[w] /\ request'[w] = "none"
      BY DEF IInv, TypeOK, SaveCommit, Touch, GoIdle
    <3>2. QED
      BY <2>1, <3>1 DEF WorkerInv, Working
  <2>2. CASE v # w /\ work[v] = work[w]
    <3>1. ~fresh[v] /\ pc[v] # "sending"
      BY <2>2 DEF IInv, UniqueHolder, WorkerInv, SaveCommit
    <3>2. ~fresh'[v] /\ pc'[v] = pc[v] /\ result'[v] = result[v] /\ request'[v] = request[v]
      BY <2>2 DEF IInv, TypeOK, SaveCommit, Touch, GoIdle
    <3>3. QED
      BY <3>1, <3>2 DEF IInv, WorkerInv, Working
  <2>3. CASE work[v] # work[w]
    <3>1. /\ fresh'[v] = fresh[v] /\ work'[v] = work[v] /\ pc'[v] = pc[v]
          /\ result'[v] = result[v] /\ request'[v] = request[v] /\ sendLeft'[v] = sendLeft[v]
      BY <2>3 DEF IInv, TypeOK, SaveCommit, Touch, GoIdle
    <3>2. /\ state'[work[v]] = state[work[v]]
          /\ leaseLeft'[work[v]] = leaseLeft[work[v]]
          /\ attempts'[work[v]] = attempts[work[v]]
          /\ deferrals'[work[v]] = deferrals[work[v]]
          /\ taken' = taken /\ issued' = issued
      BY <2>3 DEF IInv, TypeOK, SaveCommit
    <3>3. QED
      BY <3>1, <3>2 DEF IInv, WorkerInv, Working
  <2>4. QED
    BY <2>1, <2>2, <2>3
<1>4. ASSUME NEW e \in Deliveries PROVE RecordInv(e)'
  BY DEF IInv, TypeOK, UniqueHolder, WorkerInv, RecordInv, TakenIsTraced, Working, SaveCommit,
         Touch, GoIdle, StateAfter, UncertaintyAfter, AttemptsAfter, HasAttempts
<1>5. QED
  BY <1>1, <1>2, <1>3, <1>4 DEF IInv

\* A conflict leaves the record to whoever changed it.
LEMMA SaveConflictStep ==
  ASSUME NEW w \in Workers, IInv, SaveConflict(w)
  PROVE  IInv'
<1> USE DEF recordVars, workerVars, historyVars, States, Claimable, Requeueable, Accepted,
            Outcomes, Unsent
<1>1. TypeOK'
  BY DEF IInv, TypeOK, WorkerInv, RecordInv, Working, SaveConflict, GoIdle
<1>2. UniqueHolder'
  BY DEF IInv, TypeOK, UniqueHolder, SaveConflict, GoIdle
<1>3. ASSUME NEW v \in Workers PROVE WorkerInv(v)'
  BY DEF IInv, TypeOK, UniqueHolder, WorkerInv, RecordInv, Working, SaveConflict, GoIdle
<1>4. ASSUME NEW e \in Deliveries PROVE RecordInv(e)'
  BY DEF IInv, TypeOK, UniqueHolder, WorkerInv, RecordInv, TakenIsTraced, Working,
         SaveConflict, GoIdle
<1>5. QED
  BY <1>1, <1>2, <1>3, <1>4 DEF IInv

\* A replica that stops leaves its record to the lease.
LEMMA AbandonStep ==
  ASSUME NEW w \in Workers, IInv, Abandon(w)
  PROVE  IInv'
<1> USE DEF recordVars, workerVars, historyVars, States, Claimable, Requeueable, Accepted,
            Outcomes, Unsent
<1>1. TypeOK'
  BY DEF IInv, TypeOK, WorkerInv, RecordInv, Working, Abandon, GoIdle
<1>2. UniqueHolder'
  BY DEF IInv, TypeOK, UniqueHolder, Abandon, GoIdle
<1>3. ASSUME NEW v \in Workers PROVE WorkerInv(v)'
  BY DEF IInv, TypeOK, UniqueHolder, WorkerInv, RecordInv, Working, Abandon, GoIdle
<1>4. ASSUME NEW e \in Deliveries PROVE RecordInv(e)'
  BY DEF IInv, TypeOK, UniqueHolder, WorkerInv, RecordInv, TakenIsTraced, Working, Abandon,
         GoIdle
<1>5. QED
  BY <1>1, <1>2, <1>3, <1>4 DEF IInv

\* Time passes no send by, so a lease outlives the send it covers.
LEMMA TickStep ==
  ASSUME IInv, Tick
  PROVE  IInv'
<1> USE DEF recordVars, workerVars, historyVars, States, Claimable, Requeueable, Accepted,
            Outcomes, Unsent
<1>1. TypeOK'
  BY DEF IInv, TypeOK, WorkerInv, RecordInv, Working, Tick, Down
<1>2. UniqueHolder'
  BY DEF IInv, TypeOK, UniqueHolder, Tick, Down
<1>3. ASSUME NEW v \in Workers PROVE WorkerInv(v)'
  BY DEF IInv, TypeOK, UniqueHolder, WorkerInv, RecordInv, Working, Tick, Down
<1>4. ASSUME NEW e \in Deliveries PROVE RecordInv(e)'
  BY DEF IInv, TypeOK, UniqueHolder, WorkerInv, RecordInv, TakenIsTraced, Working, Tick, Down
<1>5. QED
  BY <1>1, <1>2, <1>3, <1>4 DEF IInv

(***************************************************************************)
(* IInv is an invariant.                                                   *)
(***************************************************************************)
LEMMA InitIInv == Init => IInv
<1> SUFFICES ASSUME Init PROVE IInv
  OBVIOUS
<1> USE DEF Init, States, Claimable, Requeueable, Accepted, Outcomes, Unsent
<1>1. TypeOK
  BY DEF TypeOK
<1>2. UniqueHolder /\ \A w \in Workers : WorkerInv(w)
  BY DEF UniqueHolder, WorkerInv, Working
<1>3. \A d \in Deliveries : RecordInv(d)
  BY DEF RecordInv, TakenIsTraced, NewRecord, LegacyRecord
<1>4. QED
  BY <1>1, <1>2, <1>3 DEF IInv

\* A step that changes nothing keeps the invariant.
LEMMA StutterIInv == ASSUME IInv, UNCHANGED vars PROVE IInv'
  BY DEF IInv, TypeOK, UniqueHolder, WorkerInv, Working, RecordInv, TakenIsTraced,
         vars, recordVars, workerVars, historyVars

\* Every action keeps the invariant: one lemma above for each.
LEMMA NextIInv == IInv /\ [Next]_vars => IInv'
<1> SUFFICES ASSUME IInv, [Next]_vars PROVE IInv'
  OBVIOUS
<1>1. ASSUME NEW w \in Workers, Step(w) PROVE IInv'
  BY <1>1, DecideWithoutSendingStep, RenewAndSendStep, RenewConflictStep, SendReturnsStep,
     SaveCheckStep, SaveCommitStep, SaveConflictStep DEF Step
<1>2. ASSUME NEW d \in Deliveries, Sweep(d) PROVE IInv'
  BY <1>2, CloseExhaustedStep, ExpireLeaseStep DEF Sweep
<1>3. QED
  BY <1>1, <1>2, AbandonStep, ClaimStep, RequeueStep, TickStep, StutterIInv DEF Next

\* The invariant holds in every reachable state.
LEMMA Invariance == Spec => []IInv
<1>1. QED
  BY InitIInv, NextIInv, PTL DEF Spec

\* The type invariant holds in every reachable state: no timer, attempt counter or
\* worker ever leaves its range.
THEOREM TypeCorrect == Spec => []TypeOK
<1>1. IInv => TypeOK
  BY DEF IInv
<1>2. QED
  BY <1>1, Invariance, PTL

\* What the engine records about a delivery is true of the provider: "failed" and
\* "suppressed" only if no request was taken, "accepted" only if one was.
THEOREM OutcomeIsHonest == Spec => []HonestOutcome
<1>1. IInv => HonestOutcome
  BY DEF IInv, TypeOK, RecordInv, TakenIsTraced, HonestOutcome, States, Accepted, Claimable,
         Requeueable
<1>2. QED
  BY <1>1, Invariance, PTL

\* At most one replica has a request of a delivery with the provider.
THEOREM SendsExclusive == Spec => []SendsDoNotOverlap
<1>1. IInv => SendsDoNotOverlap
  BY DEF IInv, UniqueHolder, WorkerInv, SendsDoNotOverlap
<1>2. QED
  BY <1>1, Invariance, PTL

\* One retry budget sends at most max_attempts requests.
THEOREM BudgetKept == Spec => []RetryBudget
<1>1. IInv => RetryBudget
  <2> SUFFICES ASSUME IInv, NEW d \in Deliveries PROVE issued[d] <= MaxAttempts
    BY DEF RetryBudget
  <2>1. issued[d] <= attempts[d] /\ attempts[d] <= MaxAttempts
        /\ issued[d] \in Nat /\ attempts[d] \in Nat
    BY DEF IInv, TypeOK, RecordInv
  <2>2. QED
    BY <2>1
<1>2. QED
  BY <1>1, Invariance, PTL

(***************************************************************************)
(* Action properties                                                       *)
(***************************************************************************)
LEMMA UncertaintyStep ==
  ASSUME IInv, [Next]_vars, NEW d \in Deliveries,
         uncertainty[d] = "open", uncertainty'[d] # "open"
  PROVE  state'[d] \in Accepted
<1> USE DEF recordVars, workerVars, historyVars
<1>1. ASSUME NEW w \in Workers, Step(w) PROVE state'[d] \in Accepted
  <2>1. CASE SaveCommit(w)
    <3>1. d = work[w] /\ UncertaintyAfter(d, result[w]) # "open"
      BY <2>1 DEF IInv, TypeOK, SaveCommit
    <3>2. result[w] \in Accepted
      BY <3>1 DEF UncertaintyAfter
    <3>3. state'[d] = StateAfter(d, result[w])
      BY <2>1, <3>1 DEF IInv, TypeOK, SaveCommit
    <3>4. StateAfter(d, result[w]) = result[w]
      BY <3>2 DEF StateAfter, Accepted
    <3>5. QED
      BY <3>2, <3>3, <3>4
  <2>2. CASE ~SaveCommit(w)
    BY <1>1, <2>2 DEF Step, DecideWithoutSending, RenewAndSend, RenewConflict, SendReturns,
                     SaveCheck, SaveConflict
  <2>3. QED
    BY <2>1, <2>2
<1>2. ASSUME NEW e \in Deliveries, Sweep(e) \/ Requeue(e) PROVE FALSE
  BY <1>2 DEF IInv, TypeOK, Sweep, CloseExhausted, ExpireLease, Unresolved, Requeue,
              RequeuedUncertainty
<1>3. ASSUME NEW w \in Workers, NEW e \in Deliveries, Claim(w, e) PROVE FALSE
  BY <1>3 DEF IInv, TypeOK, Claim, Unresolved
<1>4. ASSUME NEW w \in Workers, Abandon(w) PROVE FALSE
  BY <1>4 DEF Abandon
<1>5. CASE Tick \/ UNCHANGED vars
  BY <1>5 DEF Tick, vars
<1>6. QED
  BY <1>1, <1>2, <1>3, <1>4, <1>5 DEF Next

\* Tracked uncertainty is dropped only together with a recorded acceptance.
THEOREM UncertaintyDurable == Spec => UncertaintyRetained
<1>1. IInv /\ [Next]_vars =>
        [\A d \in Deliveries : uncertainty[d] = "open" /\ uncertainty'[d] # "open" =>
           state'[d] \in Accepted]_vars
  BY UncertaintyStep
<1>2. QED
  BY <1>1, Invariance, PTL DEF Spec, UncertaintyRetained

\* No action writes a record that reads accepted, nor sends for it.
LEMMA AcceptanceStep ==
  ASSUME IInv, [Next]_vars, NEW d \in Deliveries, state[d] \in Accepted
  PROVE  state'[d] = state[d] /\ issued'[d] = issued[d]
<1> USE DEF recordVars, workerVars, historyVars, Accepted
<1>1. ASSUME NEW w \in Workers, Step(w) PROVE state'[d] = state[d] /\ issued'[d] = issued[d]
  <2>1. CASE RenewAndSend(w)
    BY <2>1 DEF IInv, TypeOK, RenewAndSend, HoldsLease
  <2>2. CASE SaveCommit(w)
    BY <2>2 DEF IInv, TypeOK, WorkerInv, SaveCommit
  <2>3. CASE ~RenewAndSend(w) /\ ~SaveCommit(w)
    BY <1>1, <2>3 DEF Step, DecideWithoutSending, RenewConflict, SendReturns, SaveCheck,
                     SaveConflict
  <2>4. QED
    BY <2>1, <2>2, <2>3
<1>2. ASSUME NEW e \in Deliveries, Sweep(e) \/ Requeue(e)
      PROVE  state'[d] = state[d] /\ issued'[d] = issued[d]
  BY <1>2 DEF IInv, TypeOK, Sweep, CloseExhausted, ExpireLease, Open, Claimable, Requeue,
              Requeueable
<1>3. ASSUME NEW w \in Workers, NEW e \in Deliveries, Claim(w, e)
      PROVE  state'[d] = state[d] /\ issued'[d] = issued[d]
  BY <1>3 DEF IInv, TypeOK, Claim, Open, Claimable
<1>4. ASSUME NEW w \in Workers, Abandon(w)
      PROVE  state'[d] = state[d] /\ issued'[d] = issued[d]
  BY <1>4 DEF Abandon
<1>5. CASE Tick \/ UNCHANGED vars
  BY <1>5 DEF Tick, vars
<1>6. QED
  BY <1>1, <1>2, <1>3, <1>4, <1>5 DEF Next

\* A recorded acceptance is final, and nothing is sent for it any more.
THEOREM AcceptanceIsFinal == Spec => AcceptanceFinal
<1>1. IInv /\ [Next]_vars =>
        [\A d \in Deliveries : state[d] \in Accepted =>
           state'[d] = state[d] /\ issued'[d] = issued[d]]_vars
  BY AcceptanceStep
<1>2. QED
  BY <1>1, Invariance, PTL DEF Spec, AcceptanceFinal

(***************************************************************************)
(* The engine implements DeliveryLedger.                                   *)
(***************************************************************************)
\* A step that leaves state and uncertainty of every record alone leaves its status.
LEMMA StatusUnchanged ==
  ASSUME UNCHANGED <<state, uncertainty>>
  PROVE  LedgerStatus' = LedgerStatus
BY DEF LedgerStatus

\* A step that writes one record changes at most its status.
LEMMA StatusElsewhere ==
  ASSUME NEW d \in Deliveries, TypeOK,
         NEW s, NEW u,
         state' = [state EXCEPT ![d] = s], uncertainty' = [uncertainty EXCEPT ![d] = u]
  PROVE  LedgerStatus' = [LedgerStatus EXCEPT ![d] = LedgerStatus'[d]]
<1>1. ASSUME NEW e \in Deliveries, e # d PROVE LedgerStatus'[e] = LedgerStatus[e]
  BY <1>1 DEF LedgerStatus, TypeOK
<1>2. /\ LedgerStatus \in [Deliveries -> Ledger!Concluded \cup {"open"}]
      /\ LedgerStatus' \in [Deliveries -> Ledger!Concluded \cup {"open"}]
  BY DEF LedgerStatus, Ledger!Concluded
<1>3. QED
  BY <1>1, <1>2

\* Every step of the engine is a step of the ledger, or leaves it alone.
LEMMA LedgerStep == IInv /\ [Next]_vars => [Ledger!Next]_(Ledger!vars)
<1> SUFFICES ASSUME IInv, [Next]_vars
             PROVE  Ledger!Next \/ UNCHANGED Ledger!vars
  OBVIOUS
<1> USE DEF recordVars, workerVars, historyVars, Ledger!vars, Ledger!Next
<1>1. ASSUME NEW w \in Workers, RenewAndSend(w) PROVE Ledger!Next \/ UNCHANGED Ledger!vars
  <2>1. LedgerStatus' = LedgerStatus
    BY <1>1, StatusUnchanged DEF RenewAndSend
  <2>2. work[w] \in Deliveries /\ LedgerStatus[work[w]] = "open"
    BY <1>1 DEF IInv, TypeOK, RenewAndSend, HoldsLease, LedgerStatus, Accepted
  <2>3. PICK fate \in {"none", "refused", "taken"} :
          taken' = [taken EXCEPT ![work[w]] = @ \/ fate = "taken"]
    BY <1>1 DEF RenewAndSend
  <2>4. CASE fate = "taken"
    <3>1. taken' = [taken EXCEPT ![work[w]] = TRUE]
      BY <2>2, <2>3, <2>4 DEF IInv, TypeOK
    <3>2. QED
      BY <2>1, <2>2, <3>1 DEF Ledger!Take
  <2>5. CASE fate # "taken"
    <3>1. taken' = taken
      BY <2>2, <2>3, <2>5 DEF IInv, TypeOK
    <3>2. QED
      BY <2>1, <3>1
  <2>6. QED
    BY <2>4, <2>5
<1>2. ASSUME NEW w \in Workers, SaveCommit(w) PROVE Ledger!Next \/ UNCHANGED Ledger!vars
  <2>0. PICK d \in Deliveries : d = work[w]
    BY DEF IInv, TypeOK
  <2>1. LedgerStatus[d] = "open"
    BY <1>2, <2>0 DEF IInv, WorkerInv, SaveCommit, LedgerStatus, Accepted
  <2>2. LedgerStatus' = [LedgerStatus EXCEPT ![d] = LedgerStatus'[d]] /\ taken' = taken
    BY <1>2, <2>0, StatusElsewhere DEF IInv, SaveCommit
  <2>3. RecordInv(d)' /\ TypeOK'
    BY <1>2, SaveCommitStep DEF IInv
  <2>4. LedgerStatus'[d] \in Ledger!Concluded \cup {"open"}
    BY DEF LedgerStatus, Ledger!Concluded
  <2>5. /\ LedgerStatus'[d] = "delivered" => taken[d]
        /\ LedgerStatus'[d] = "notDelivered" => ~taken[d]
    BY <2>1, <2>2, <2>3 DEF RecordInv, TakenIsTraced, LedgerStatus, TypeOK, Accepted
  <2>6. CASE LedgerStatus'[d] = "open"
    BY <2>1, <2>2, <2>6 DEF LedgerStatus
  <2>7. CASE LedgerStatus'[d] # "open"
    BY <2>1, <2>2, <2>4, <2>5, <2>7 DEF Ledger!Conclude
  <2>8. QED
    BY <2>6, <2>7
<1>3. ASSUME NEW w \in Workers, Step(w), ~RenewAndSend(w), ~SaveCommit(w)
      PROVE  UNCHANGED Ledger!vars
  BY <1>3, StatusUnchanged DEF Step, DecideWithoutSending, RenewConflict, SendReturns,
     SaveCheck, SaveConflict
<1>4. ASSUME NEW d \in Deliveries, CloseExhausted(d) \/ ExpireLease(d)
      PROVE  Ledger!Next \/ UNCHANGED Ledger!vars
  <2>1. LedgerStatus[d] = "open"
    BY <1>4 DEF CloseExhausted, ExpireLease, Open, Claimable, Accepted, LedgerStatus
  <2>2. LedgerStatus' = [LedgerStatus EXCEPT ![d] = LedgerStatus'[d]] /\ taken' = taken
    BY <1>4, StatusElsewhere DEF IInv, CloseExhausted, ExpireLease
  <2>3. RecordInv(d)' /\ TypeOK'
    BY <1>4, CloseExhaustedStep, ExpireLeaseStep DEF IInv
  <2>4. LedgerStatus'[d] \in Ledger!Concluded \cup {"open"}
    BY DEF LedgerStatus, Ledger!Concluded
  <2>5. /\ LedgerStatus'[d] = "delivered" => taken[d]
        /\ LedgerStatus'[d] = "notDelivered" => ~taken[d]
    BY <2>2, <2>3 DEF RecordInv, TakenIsTraced, LedgerStatus, TypeOK, Accepted
  <2>6. CASE LedgerStatus'[d] = "open"
    BY <2>1, <2>2, <2>6 DEF LedgerStatus
  <2>7. CASE LedgerStatus'[d] # "open"
    BY <2>1, <2>2, <2>4, <2>5, <2>7 DEF Ledger!Conclude
  <2>8. QED
    BY <2>6, <2>7
<1>5. ASSUME NEW w \in Workers, NEW d \in Deliveries, Claim(w, d)
      PROVE  UNCHANGED Ledger!vars
  <2>1. LedgerStatus[d] = "open" /\ LedgerStatus'[d] = "open"
    BY <1>5 DEF IInv, TypeOK, Claim, Open, Claimable, Accepted, LedgerStatus
  <2>2. LedgerStatus' = [LedgerStatus EXCEPT ![d] = LedgerStatus'[d]] /\ taken' = taken
    BY <1>5, StatusElsewhere DEF IInv, Claim
  <2>3. QED
    BY <2>1, <2>2 DEF LedgerStatus
<1>6. ASSUME NEW d \in Deliveries, Requeue(d) PROVE Ledger!Next \/ UNCHANGED Ledger!vars
  <2>1. LedgerStatus'[d] = "open" /\ LedgerStatus[d] \in {"open", "notDelivered", "indeterminate"}
    BY <1>6 DEF IInv, TypeOK, Requeue, Requeueable, Accepted, LedgerStatus
  <2>2. LedgerStatus' = [LedgerStatus EXCEPT ![d] = LedgerStatus'[d]] /\ taken' = taken
    BY <1>6, StatusElsewhere DEF IInv, Requeue
  <2>3. CASE LedgerStatus[d] = "open"
    BY <2>1, <2>2, <2>3 DEF LedgerStatus
  <2>4. CASE LedgerStatus[d] # "open"
    BY <2>1, <2>2, <2>4 DEF Ledger!Reopen
  <2>5. QED
    BY <2>3, <2>4
<1>7. ASSUME NEW w \in Workers, Abandon(w) PROVE UNCHANGED Ledger!vars
  BY <1>7, StatusUnchanged DEF Abandon
<1>8. CASE Tick \/ UNCHANGED vars
  BY <1>8, StatusUnchanged DEF Tick, vars
<1>9. QED
  BY <1>1, <1>2, <1>3, <1>4, <1>5, <1>6, <1>7, <1>8 DEF Next, Sweep

\* Every behaviour of the engine is one the abstract ledger allows.
THEOREM ImplementsLedger == Spec => KeepsLedger
<1>1. Init => Ledger!Init
  BY DEF Init, Ledger!Init, LedgerStatus, NewRecord, LegacyRecord, Claimable, Accepted
<1>2. QED
  BY <1>1, LedgerStep, Invariance, PTL DEF Spec, KeepsLedger, Ledger!Spec
===============================================================================
