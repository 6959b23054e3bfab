------------------------- MODULE NotificationDelivery -------------------------
(***************************************************************************)
(* The delivery half of the notification engine: several worker replicas   *)
(* claim queued deliveries under a lease, recheck eligibility, renew the   *)
(* lease, hand the message to a provider and record the outcome.           *)
(*                                                                         *)
(* Code: services/notifications.py (NotificationService._deliver, run_once)*)
(* and repositories/notification_store.py (claim_deliveries,               *)
(* renew_delivery_lease, save_delivery, requeue_delivery).                 *)
(*                                                                         *)
(* An etag is modelled by what it is compared for: fresh[w] says that the  *)
(* copy worker w holds still carries the stored record's etag, so every    *)
(* other commit to the record makes it FALSE.  Time is modelled by timers  *)
(* that Tick counts down: `expires <= now` reads "the timer is 0".         *)
(***************************************************************************)
EXTENDS Naturals, FiniteSets

CONSTANTS
  Deliveries,     \* notificationDelivery records
  Workers,        \* replicas running NotificationService.run
  MaxAttempts,    \* max_attempts: claims in one retry budget
  Lease,          \* lease_seconds, in ticks
  SendTimeout,    \* send_timeout_seconds, in ticks
  Backoff,        \* longest wait before the next attempt, in ticks
  MaxRequeues,    \* bound: manual retries of one delivery
  MaxDeferrals    \* bound: schedule deferrals of one delivery

ASSUME AttemptsAssumption == Deliveries # {} /\ MaxAttempts \in Nat \ {0}

\* The constructor requires 0 < send_timeout_seconds < lease_seconds / 2.
ASSUME TimingAssumption ==
  /\ Lease \in Nat /\ SendTimeout \in Nat \ {0} /\ Backoff \in Nat \ {0}
  /\ 2 * SendTimeout < Lease

ASSUME BoundsAssumption == MaxRequeues \in Nat /\ MaxDeferrals \in Nat

VARIABLES
  \* the stored record
  state,          \* NotificationDeliveryState
  attempts,       \* claims consumed of the current retry budget
  uncertainty,    \* hasUnresolvedOutcome: "open", "none", or "untracked" (field absent)
  leaseLeft,      \* ticks until lease_expires_at (0: none or expired)
  due,            \* ticks until next_attempt_at (0: none or passed)
  \* the attempt log of the delivery
  unknownLogged,  \* some attempt of the delivery reads "unknownOutcome"
  \* the workers
  pc,             \* where the worker is in run_once
  work,           \* the delivery the worker last claimed
  fresh,          \* its copy still carries the stored etag
  result,         \* NotificationDispatchResult.outcome
  sendLeft,       \* ticks until asyncio.timeout ends the send
  request,        \* what became of its request to the provider
  \* history, and counters of the named bounds
  taken,          \* the provider took some request of this delivery
  issued,         \* requests sent to the provider in the current retry budget
  requeues, deferrals

recordVars  == <<state, attempts, uncertainty, leaseLeft, due, unknownLogged>>
workerVars  == <<pc, work, fresh, result, sendLeft, request>>
historyVars == <<taken, issued, requeues, deferrals>>
vars        == <<recordVars, workerVars, historyVars>>

Accepted    == {"providerAccepted", "confirmedDelivered"}
Claimable   == {"queued", "retrying", "unknownOutcome"}
Requeueable == {"permanentlyFailed", "unknownOutcome", "suppressed"}
States      == Claimable \cup Requeueable \cup Accepted \cup {"sending"}
Unsent      == {"suppressed", "deferred", "retryableFailure", "permanentFailure"}
Outcomes    == Accepted \cup Unsent \cup {"unknownOutcome"}

(***************************************************************************)
(* Initial states.  A record is either new from the fan-out, or one that   *)
(* an earlier release wrote: no hasUnresolvedOutcome field, and the only   *)
(* trace of an ambiguous send is its state or its attempt log.             *)
(***************************************************************************)
NewRecord(d) ==
  /\ state[d] = "queued" /\ attempts[d] = 0 /\ uncertainty[d] = "none"
  /\ ~unknownLogged[d] /\ ~taken[d]

LegacyRecord(d) ==
  /\ uncertainty[d] = "untracked"
  /\ taken[d] => unknownLogged[d] \/ state[d] = "unknownOutcome"

Init ==
  /\ state \in [Deliveries -> Claimable]
  /\ attempts \in [Deliveries -> 0 .. MaxAttempts]
  /\ uncertainty \in [Deliveries -> {"none", "untracked"}]
  /\ unknownLogged \in [Deliveries -> BOOLEAN]
  /\ taken \in [Deliveries -> BOOLEAN]
  /\ \A d \in Deliveries : NewRecord(d) \/ LegacyRecord(d)
  /\ leaseLeft = [d \in Deliveries |-> 0]
  /\ due = [d \in Deliveries |-> 0]
  /\ pc = [w \in Workers |-> "idle"]
  /\ work = [w \in Workers |-> CHOOSE d \in Deliveries : TRUE]
  /\ fresh = [w \in Workers |-> FALSE]
  /\ result = [w \in Workers |-> "none"]
  /\ sendLeft = [w \in Workers |-> 0]
  /\ request = [w \in Workers |-> "none"]
  /\ issued = [d \in Deliveries |-> 0]
  /\ requeues = [d \in Deliveries |-> 0]
  /\ deferrals = [d \in Deliveries |-> 0]

\* Mutant: a commit is not fenced, so an older copy can still be committed over it.
TouchUnfenced(d, holders) == fresh' = [v \in Workers |-> v \in holders \/ fresh[v]]

\* A commit to d gives it a new etag: only the copies of `holders` stay current.
Touch(d, holders) ==
  fresh' = [v \in Workers |-> v \in holders \/ (fresh[v] /\ work[v] # d)]

\* run_once is done with its claim, or gives it up.
GoIdle(w) ==
  /\ pc' = [pc EXCEPT ![w] = "idle"]
  /\ result' = [result EXCEPT ![w] = "none"]
  /\ request' = [request EXCEPT ![w] = "none"]
  /\ sendLeft' = [sendLeft EXCEPT ![w] = 0]

(***************************************************************************)
(* claim_deliveries                                                        *)
(***************************************************************************)
\* Mutant: the attempt log of a legacy record is not read.
UnresolvedWithoutLog(d) == uncertainty[d] = "open" \/ state[d] = "unknownOutcome"

\* `unresolved`: tracked, or told by the state or the attempt log of a legacy record.
Unresolved(d) ==
  \/ uncertainty[d] = "open"
  \/ state[d] = "unknownOutcome"
  \/ uncertainty[d] = "untracked" /\ unknownLogged[d]

\* What claim_deliveries may still work on: tracked "unknownOutcome" is terminal.
Open(d) ==
  /\ state[d] \in Claimable
  /\ ~(state[d] = "unknownOutcome" /\ uncertainty[d] = "open")

\* Mutant: the retry budget is one claim too large.
HasAttemptsOffByOne(d) == attempts[d] <= MaxAttempts

HasAttempts(d) == attempts[d] < MaxAttempts

\* An open record whose retry budget is spent is closed without another send.
CloseExhausted(d) ==
  /\ Open(d) /\ ~HasAttempts(d)
  /\ state' = [state EXCEPT ![d] = IF Unresolved(d) THEN "unknownOutcome"
                                                    ELSE "permanentlyFailed"]
  /\ uncertainty' = [uncertainty EXCEPT ![d] = IF Unresolved(d) THEN "open" ELSE "none"]
  /\ due' = [due EXCEPT ![d] = 0]
  /\ Touch(d, {})
  /\ UNCHANGED <<attempts, leaseLeft, unknownLogged, pc, work, result,
                 sendLeft, request, historyVars>>

\* A sending record whose lease ran out: the request may have been accepted.  The
\* attempt of the lost lease is closed as "unknownOutcome" in the same batch.
ExpireLease(d) ==
  /\ state[d] = "sending" /\ leaseLeft[d] = 0
  /\ state' = [state EXCEPT ![d] = IF HasAttempts(d) THEN "retrying" ELSE "unknownOutcome"]
  /\ uncertainty' = [uncertainty EXCEPT ![d] = "open"]
  /\ due' = [due EXCEPT ![d] = 0]
  /\ unknownLogged' = [unknownLogged EXCEPT ![d] = TRUE]
  /\ Touch(d, {})
  /\ UNCHANGED <<attempts, leaseLeft, pc, work, result, sendLeft, request, historyVars>>

\* The record and a new attempt "sending" commit together under a fresh lease token.
Claim(w, d) ==
  /\ pc[w] = "idle"
  /\ Open(d) /\ HasAttempts(d) /\ due[d] = 0
  /\ state' = [state EXCEPT ![d] = "sending"]
  /\ attempts' = [attempts EXCEPT ![d] = @ + 1]
  /\ uncertainty' = [uncertainty EXCEPT ![d] = IF Unresolved(d) THEN "open" ELSE "none"]
  /\ leaseLeft' = [leaseLeft EXCEPT ![d] = Lease]
  /\ pc' = [pc EXCEPT ![w] = "claimed"]
  /\ work' = [work EXCEPT ![w] = d]
  /\ Touch(d, {w})
  /\ UNCHANGED <<due, unknownLogged, result, sendLeft, request, historyVars>>

(***************************************************************************)
(* _deliver                                                                *)
(***************************************************************************)
MayReport(w, o) == o = "deferred" => deferrals[work[w]] < MaxDeferrals

\* The event is gone, the recipient is not eligible or could not be checked, the
\* schedule defers the message, or no provider serves the channel: nothing is sent.
DecideWithoutSending(w) ==
  /\ pc[w] = "claimed"
  /\ \E o \in Unsent : MayReport(w, o) /\ result' = [result EXCEPT ![w] = o]
  /\ pc' = [pc EXCEPT ![w] = "reported"]
  /\ UNCHANGED <<recordVars, work, fresh, sendLeft, request, historyVars>>

\* The fence of renew_delivery_lease and save_delivery.
HoldsLease(w) == fresh[w] /\ state[work[w]] = "sending" /\ leaseLeft[work[w]] > 0

\* Mutant: the message goes out under whatever is left of the claim's lease.
RenewedLeaseSkipped(w) == leaseLeft[work[w]]

RenewedLease(w) == Lease

\* renew_delivery_lease, then dispatcher.send under asyncio.timeout.  What becomes of
\* the request is settled out of the worker's sight: the adapter may give up before
\* it sends one ("none"), the provider may not take it ("refused") or take it.
RenewAndSend(w) ==
  LET d == work[w] IN
  /\ pc[w] = "claimed" /\ HoldsLease(w)
  /\ leaseLeft' = [leaseLeft EXCEPT ![d] = RenewedLease(w)]
  /\ Touch(d, {w})
  /\ \E fate \in {"none", "refused", "taken"} :
       /\ request' = [request EXCEPT ![w] = fate]
       /\ taken' = [taken EXCEPT ![d] = @ \/ fate = "taken"]
       /\ issued' = [issued EXCEPT ![d] = IF fate = "none" THEN @ ELSE @ + 1]
  /\ sendLeft' = [sendLeft EXCEPT ![w] = SendTimeout]
  /\ pc' = [pc EXCEPT ![w] = "sending"]
  /\ UNCHANGED <<state, attempts, uncertainty, due, unknownLogged, work,
                 result, requeues, deferrals>>

\* The lease was lost during the eligibility check: ConflictError ends the tick.
RenewConflict(w) ==
  /\ pc[w] = "claimed" /\ ~HoldsLease(w)
  /\ GoIdle(w)
  /\ UNCHANGED <<recordVars, work, fresh, historyVars>>

\* What an adapter can answer.  It reports an acceptance or a refusal only as the
\* provider gave it; a timeout, a lost connection or a 5xx is "unknownOutcome".
Answers(w) ==
  CASE sendLeft[w] = 0         -> {"unknownOutcome"}
    [] request[w] = "taken"    -> Accepted \cup {"unknownOutcome"}
    [] request[w] = "refused"  -> {"retryableFailure", "permanentFailure", "unknownOutcome"}
    [] OTHER                   -> Unsent \cup {"unknownOutcome"}

SendReturns(w) ==
  /\ pc[w] = "sending"
  /\ \E o \in Answers(w) : MayReport(w, o) /\ result' = [result EXCEPT ![w] = o]
  /\ pc' = [pc EXCEPT ![w] = "reported"]
  /\ sendLeft' = [sendLeft EXCEPT ![w] = 0]
  /\ UNCHANGED <<recordVars, work, fresh, request, historyVars>>

\* The replica stops, or an error that _deliver does not catch unwinds run_once: the
\* record stays "sending" until its lease runs out.
Abandon(w) ==
  /\ pc[w] # "idle"
  /\ GoIdle(w)
  /\ UNCHANGED <<recordVars, work, fresh, historyVars>>

(***************************************************************************)
(* save_delivery: the lease is checked, then the batch commits if the etag *)
(* is still the one that was read.                                         *)
(***************************************************************************)
SaveCheck(w) ==
  /\ pc[w] = "reported" /\ HoldsLease(w)
  /\ pc' = [pc EXCEPT ![w] = "saving"]
  /\ UNCHANGED <<recordVars, work, fresh, result, sendLeft, request, historyVars>>

\* Mutant: only the latest attempt decides whether the outcome is uncertain.
UncertaintyAfterForgetful(d, o) == IF o = "unknownOutcome" THEN "open" ELSE "none"

UncertaintyAfter(d, o) ==
  IF o \in Accepted THEN "none"
  ELSE IF o = "unknownOutcome" THEN "open" ELSE uncertainty[d]

StateAfter(d, o) ==
  CASE o \in Accepted -> o
    [] o = "suppressed" ->
         IF uncertainty[d] = "open" THEN "unknownOutcome" ELSE "suppressed"
    [] o = "deferred" -> "retrying"
    [] o \in {"retryableFailure", "unknownOutcome"} /\ HasAttempts(d) -> "retrying"
    [] OTHER -> IF UncertaintyAfter(d, o) = "open" THEN "unknownOutcome"
                                                   ELSE "permanentlyFailed"

\* Mutant: a deferral costs no attempt, and neither does an ambiguous answer.
AttemptsAfterRefund(d, o) ==
  IF o \in {"deferred", "unknownOutcome"} THEN attempts[d] - 1 ELSE attempts[d]

AttemptsAfter(d, o) == IF o = "deferred" THEN attempts[d] - 1 ELSE attempts[d]

SaveCommit(w) ==
  LET d == work[w]
      o == result[w] IN
  /\ pc[w] = "saving" /\ fresh[w]
  /\ state' = [state EXCEPT ![d] = StateAfter(d, o)]
  /\ uncertainty' = [uncertainty EXCEPT ![d] = UncertaintyAfter(d, o)]
  /\ attempts' = [attempts EXCEPT ![d] = AttemptsAfter(d, o)]
  /\ \E wait \in 1 .. Backoff :
       due' = [due EXCEPT ![d] = IF StateAfter(d, o) = "retrying" THEN wait ELSE 0]
  /\ leaseLeft' = [leaseLeft EXCEPT ![d] = 0]
  /\ unknownLogged' = [unknownLogged EXCEPT ![d] = @ \/ o = "unknownOutcome"]
  /\ deferrals' = [deferrals EXCEPT ![d] = IF o = "deferred" THEN @ + 1 ELSE @]
  /\ Touch(d, {})
  /\ GoIdle(w)
  /\ UNCHANGED <<work, taken, issued, requeues>>

\* ConflictError, from the check or from the batch, ends the tick with nothing recorded.
SaveConflict(w) ==
  /\ \/ pc[w] = "reported" /\ ~HoldsLease(w)
     \/ pc[w] = "saving" /\ ~fresh[w]
  /\ GoIdle(w)
  /\ UNCHANGED <<recordVars, work, fresh, historyVars>>

(***************************************************************************)
(* retry_delivery by an administrator, and the passing of time             *)
(***************************************************************************)
\* Mutant: a manual retry starts with a clean record.
RequeuedUncertaintyForgotten(d) == "none"

RequeuedUncertainty(d) ==
  IF uncertainty[d] = "open" \/ state[d] = "unknownOutcome" THEN "open" ELSE "none"

Requeue(d) ==
  /\ state[d] \in Requeueable
  /\ requeues[d] < MaxRequeues
  /\ state' = [state EXCEPT ![d] = "queued"]
  /\ attempts' = [attempts EXCEPT ![d] = 0]
  /\ uncertainty' = [uncertainty EXCEPT ![d] = RequeuedUncertainty(d)]
  /\ due' = [due EXCEPT ![d] = 0]
  /\ issued' = [issued EXCEPT ![d] = 0]
  /\ requeues' = [requeues EXCEPT ![d] = @ + 1]
  /\ Touch(d, {})
  /\ UNCHANGED <<leaseLeft, unknownLogged, pc, work, result, sendLeft,
                 request, taken, deferrals>>

Down(timer) == [x \in DOMAIN timer |-> IF timer[x] > 0 THEN timer[x] - 1 ELSE 0]

\* asyncio.timeout ends a send at its deadline, so time does not pass it.
Tick ==
  /\ \E d \in Deliveries : leaseLeft[d] > 0 \/ due[d] > 0
  /\ \A w \in Workers : pc[w] = "sending" => sendLeft[w] > 0
  /\ leaseLeft' = Down(leaseLeft)
  /\ due' = Down(due)
  /\ sendLeft' = Down(sendLeft)
  /\ UNCHANGED <<state, attempts, uncertainty, unknownLogged, pc, work, fresh,
                 result, request, historyVars>>

Step(w) ==
  \/ DecideWithoutSending(w) \/ RenewAndSend(w) \/ RenewConflict(w)
  \/ SendReturns(w) \/ SaveCheck(w) \/ SaveCommit(w) \/ SaveConflict(w)

Sweep(d) == CloseExhausted(d) \/ ExpireLease(d)

Next ==
  \/ \E w \in Workers : Step(w) \/ Abandon(w) \/ \E d \in Deliveries : Claim(w, d)
  \/ \E d \in Deliveries : Sweep(d) \/ Requeue(d)
  \/ Tick

Spec == Init /\ [][Next]_vars

\* A replica that runs keeps taking its steps and run() polls for ever; nothing makes
\* an administrator retry or a replica stop.
Fairness ==
  /\ \A w \in Workers : WF_vars(Step(w))
  /\ \A d \in Deliveries : WF_vars(Sweep(d)) /\ WF_vars(\E w \in Workers : Claim(w, d))
  /\ WF_vars(Tick)

FairSpec == Spec /\ Fairness

(***************************************************************************)
(* Properties                                                              *)
(***************************************************************************)
\* Every variable has its type, and the timers stay within their limits.
TypeOK ==
  /\ state \in [Deliveries -> States]
  /\ attempts \in [Deliveries -> 0 .. MaxAttempts]
  /\ uncertainty \in [Deliveries -> {"open", "none", "untracked"}]
  /\ leaseLeft \in [Deliveries -> 0 .. Lease]
  /\ due \in [Deliveries -> 0 .. Backoff]
  /\ unknownLogged \in [Deliveries -> BOOLEAN]
  /\ pc \in [Workers -> {"idle", "claimed", "sending", "reported", "saving"}]
  /\ work \in [Workers -> Deliveries]
  /\ fresh \in [Workers -> BOOLEAN]
  /\ result \in [Workers -> Outcomes \cup {"none"}]
  /\ sendLeft \in [Workers -> 0 .. SendTimeout]
  /\ request \in [Workers -> {"none", "refused", "taken"}]
  /\ taken \in [Deliveries -> BOOLEAN]
  /\ issued \in [Deliveries -> Nat]
  /\ requeues \in [Deliveries -> 0 .. MaxRequeues]
  /\ deferrals \in [Deliveries -> 0 .. MaxDeferrals]

(***************************************************************************)
(* The inductive invariant behind the safety properties.                   *)
(***************************************************************************)
Working(w) == pc[w] # "idle" /\ fresh[w]

\* What a worker knows of the record it works on while its copy is current.
WorkerInv(w) ==
  LET d == work[w] IN
  /\ fresh[w] => state[d] = "sending"
  /\ pc[w] = "sending" => fresh[w] /\ sendLeft[w] < leaseLeft[d]
  /\ pc[w] \in {"idle", "claimed"} => request[w] = "none"
  /\ pc[w] \in {"reported", "saving"} =>
       /\ result[w] \in Outcomes
       /\ result[w] \in Accepted => request[w] = "taken"
       /\ result[w] \in Unsent => request[w] # "taken"
       /\ result[w] = "deferred" => request[w] = "none"
  /\ Working(w) /\ request[w] = "taken" => taken[d]
  /\ Working(w) /\ request[w] = "none" => issued[d] < attempts[d]
  /\ Working(w) /\ pc[w] \in {"reported", "saving"} /\ result[w] = "deferred" =>
       deferrals[d] < MaxDeferrals

\* At most one copy of a record is current.
UniqueHolder ==
  \A v, w \in Workers : fresh[v] /\ fresh[w] /\ work[v] = work[w] => v = w

\* A request that the provider took is never forgotten: the record is uncertain, or
\* accepted, or tells it by its legacy traces, or its one current claim sent it.
TakenIsTraced(d) ==
  \/ uncertainty[d] = "open"
  \/ state[d] \in Accepted
  \/ uncertainty[d] = "untracked" /\ (unknownLogged[d] \/ state[d] = "unknownOutcome")
  \/ /\ state[d] = "sending"
     /\ \A w \in Workers : Working(w) /\ work[w] = d => request[w] = "taken"

RecordInv(d) ==
  /\ state[d] = "sending" => uncertainty[d] # "untracked" /\ attempts[d] > 0
  /\ state[d] \in {"permanentlyFailed", "suppressed"} => uncertainty[d] = "none"
  /\ state[d] \in Accepted => taken[d]
  /\ issued[d] <= attempts[d]
  /\ taken[d] => TakenIsTraced(d)

IInv ==
  /\ TypeOK
  /\ UniqueHolder
  /\ \A w \in Workers : WorkerInv(w)
  /\ \A d \in Deliveries : RecordInv(d)

\* A delivery is recorded as failed or suppressed only if the provider took none of its
\* requests, through crashes, expired leases and manual retries; and as accepted only if
\* the provider took one (the state rules of _deliver and claim_deliveries).
HonestOutcome ==
  \A d \in Deliveries :
    /\ state[d] \in {"permanentlyFailed", "suppressed"} => ~taken[d]
    /\ state[d] \in Accepted => taken[d]

\* Two replicas never have a request of one delivery with the provider at the same time:
\* renew_delivery_lease covers the whole send before the message goes out.
SendsDoNotOverlap ==
  \A v, w \in Workers :
    pc[v] = "sending" /\ pc[w] = "sending" /\ work[v] = work[w] => v = w

\* However often replicas crash or lose their lease, one retry budget sends at most
\* max_attempts requests, and a schedule deferral costs none of them.
RetryBudget == \A d \in Deliveries : issued[d] <= MaxAttempts

\* Uncertainty, once tracked, is dropped only with a recorded acceptance
\* (docs/notification-engine.md: "durably retains hasUnresolvedOutcome across retries,
\* expired leases, and manual requeues until provider acceptance resolves it").
UncertaintyRetained ==
  [][\A d \in Deliveries :
       uncertainty[d] = "open" /\ uncertainty'[d] # "open" => state'[d] \in Accepted]_vars

\* A recorded acceptance is final: no replica, however late, rewrites it or sends again.
AcceptanceFinal ==
  [][\A d \in Deliveries :
       state[d] \in Accepted => state'[d] = state[d] /\ issued'[d] = issued[d]]_vars

\* Nothing left for claim_deliveries to do.
Closed(d) == state[d] # "sending" /\ ~Open(d)

\* How far the promise of DeliveryLedger is along for a delivery.
LedgerStatus ==
  [d \in Deliveries |->
     CASE state[d] \in Accepted -> "delivered"
       [] state[d] \in {"permanentlyFailed", "suppressed"} -> "notDelivered"
       [] state[d] = "unknownOutcome" /\ uncertainty[d] = "open" -> "indeterminate"
       [] OTHER -> "open"]

Ledger == INSTANCE DeliveryLedger WITH status <- LedgerStatus

\* The engine keeps the promise of the abstract ledger: what it concludes about a
\* delivery is true, and a conclusion is reopened only where that is allowed.
KeepsLedger == Ledger!Spec

\* Every delivery reaches an outcome nobody works on any more, whatever crashes happen.
EventuallyClosed == \A d \in Deliveries : []<>Closed(d)
===============================================================================
