-------------------------- MODULE NotificationFanout --------------------------
(***************************************************************************)
(* The fan-out half of the notification engine: worker replicas claim an   *)
(* event's outbox row under a lease token, resolve its audience and create *)
(* one delivery per target, and an inbox item with each in-app one, in     *)
(* chunks that each commit under the token.                                *)
(*                                                                         *)
(* Code: services/notifications.py (NotificationService._fanout, run_once) *)
(* and repositories/notification_store.py (claim_events, save_fanout,      *)
(* fail_fanout, requeue_event, set_inbox_read).                            *)
(*                                                                         *)
(* One event is modelled: events share no record.  A lease token is        *)
(* modelled by what it is compared for: holds[w] says that the outbox row  *)
(* still carries the token of worker w's claim.                            *)
(***************************************************************************)
EXTENDS Naturals, FiniteSets

CONSTANTS
  Targets,      \* the event's audience: recipient, persona and channel
  InApp,        \* the targets whose channel is inApp
  Workers,      \* replicas running NotificationService.run
  Chunk,        \* records a chunk may hold before it is committed (88)
  MaxAttempts,  \* max_attempts
  MaxRequeues,  \* bound: dead letters that an administrator retries
  MaxStops,     \* bound: fan-outs cut off, and leases that run out under a worker
  MaxEdits      \* bound: inbox items marked read or unread, deliveries retried by hand

ASSUME TargetsAssumption == InApp \subseteq Targets /\ IsFiniteSet(Targets)
ASSUME LimitsAssumption == Chunk \in Nat \ {0} /\ MaxAttempts \in Nat \ {0}
ASSUME BoundsAssumption == MaxRequeues \in Nat /\ MaxStops \in Nat /\ MaxEdits \in Nat

VARIABLES
  \* the outbox row of the event, and the event's own copy of its outcome
  outbox,     \* NotificationOutboxState.state ("none": no row yet)
  attempts,   \* its attempts
  leased,     \* its lease has not run out
  done,       \* the event's fanout_completed_at / fanout_failed_at: "completed", "failed" or "no"
  \* what the fan-out creates
  delivery,   \* the state of each target's delivery ("none": no record)
  inbox,      \* each target's inbox item: "none", "unread" or "read"
  \* the workers
  pc,         \* where the worker is in _fanout
  holds,      \* the outbox row still carries its token
  claimed,    \* claim.state.attempts
  pending,    \* targets it has still to authorize
  batch,      \* the deliveries and inbox items of its chunk, by target
  partial,    \* part of the audience could not be resolved or authorized
  \* counters of the named bounds
  requeues, stops, edits

outboxVars  == <<outbox, attempts, leased, done>>
contentVars == <<delivery, inbox>>
workerVars  == <<pc, holds, claimed, pending, batch, partial>>
boundVars   == <<requeues, stops, edits>>
vars        == <<outboxVars, contentVars, workerVars, boundVars>>

Decisions == {"queued", "suppressed", "confirmedDelivered"}
Nothing   == [t \in Targets |-> "none"]

Init ==
  /\ outbox = "none" /\ attempts = 0 /\ leased = FALSE /\ done = "no"
  /\ delivery = Nothing /\ inbox = Nothing
  /\ pc = [w \in Workers |-> "idle"]
  /\ holds = [w \in Workers |-> FALSE]
  /\ claimed = [w \in Workers |-> 0]
  /\ pending = [w \in Workers |-> {}]
  /\ batch = [w \in Workers |-> Nothing]
  /\ partial = [w \in Workers |-> FALSE]
  /\ requeues = 0 /\ stops = 0 /\ edits = 0

\* _fanout is over, or given up.
GoIdle(w) ==
  /\ pc' = [pc EXCEPT ![w] = "idle"]
  /\ claimed' = [claimed EXCEPT ![w] = 0]
  /\ pending' = [pending EXCEPT ![w] = {}]
  /\ batch' = [batch EXCEPT ![w] = Nothing]
  /\ partial' = [partial EXCEPT ![w] = FALSE]

(***************************************************************************)
(* claim_events: a new token and a new lease, unless another lease lives.  *)
(***************************************************************************)
\* Mutant: a claimed event is left to its worker for ever.
UnleasedStuck == outbox # "processing"

Unleased == outbox = "processing" => ~leased

Claimable ==
  /\ done = "no"
  /\ outbox \notin {"completed", "permanentlyFailed"}
  /\ Unleased

Claim(w) ==
  /\ pc[w] = "idle" /\ Claimable
  /\ outbox' = "processing" /\ leased' = TRUE
  /\ attempts' = attempts + 1
  /\ claimed' = [claimed EXCEPT ![w] = attempts + 1]
  /\ holds' = [v \in Workers |-> v = w]
  /\ pc' = [pc EXCEPT ![w] = "resolve"]
  /\ UNCHANGED <<done, contentVars, pending, batch, partial, boundVars>>

(***************************************************************************)
(* _fanout                                                                 *)
(***************************************************************************)
\* The whole audience, the targets known when a part of it cannot be resolved, or none
\* because the resolver fails.
Resolve(w) ==
  /\ pc[w] = "resolve"
  /\ \/ /\ \/ pending' = [pending EXCEPT ![w] = Targets] /\ UNCHANGED partial
           \/ /\ \E known \in SUBSET Targets : pending' = [pending EXCEPT ![w] = known]
              /\ partial' = [partial EXCEPT ![w] = TRUE]
        /\ pc' = [pc EXCEPT ![w] = "authorize"]
     \/ /\ pc' = [pc EXCEPT ![w] = "fail"]
        /\ UNCHANGED <<pending, partial>>
  /\ UNCHANGED <<outboxVars, contentVars, holds, claimed, batch, boundVars>>

\* What an eligible target gets: an in-app one is delivered by its inbox item.
Eligible(t) == IF t \in InApp THEN "confirmedDelivered" ELSE "queued"

Records(b) ==
  Cardinality({t \in Targets : b[t] # "none"})
    + Cardinality({t \in Targets : b[t] = "confirmedDelivered"})

\* Mutant: a chunk is cut one record late.
ChunkFullLate(b) == Records(b) > Chunk

ChunkFull(b) == Records(b) >= Chunk

\* One target is suppressed or eligible (a deferral only dates its delivery); or it cannot
\* be authorized, and its part of the audience stays pending.
Authorize(w, t) ==
  /\ pc[w] = "authorize" /\ t \in pending[w]
  /\ pending' = [pending EXCEPT ![w] = @ \ {t}]
  /\ \/ /\ \E decision \in {"suppressed", Eligible(t)} :
             batch' = [batch EXCEPT ![w][t] = decision]
        /\ pc' = [pc EXCEPT ![w] = IF ChunkFull(batch'[w]) THEN "chunk" ELSE @]
        /\ UNCHANGED partial
     \/ /\ partial' = [partial EXCEPT ![w] = TRUE]
        /\ UNCHANGED <<batch, pc>>
  /\ UNCHANGED <<outboxVars, contentVars, holds, claimed, boundVars>>

AllAuthorized(w) ==
  /\ pc[w] = "authorize" /\ pending[w] = {}
  /\ pc' = [pc EXCEPT ![w] = "last"]
  /\ UNCHANGED <<outboxVars, contentVars, holds, claimed, pending, batch, partial, boundVars>>

(***************************************************************************)
(* save_fanout.  _outbox_current checks the token and the lease; the batch *)
(* then commits if the row is still the one read.  A record that exists is *)
(* left as it is.                                                          *)
(***************************************************************************)
\* Mutant: the outbox row is not compared when the batch commits.
MayCommitUnfenced(w) == TRUE

\* The etag compared by the batch: nobody claimed the event since.
MayCommit(w) == holds[w]

Current(w) == holds[w] /\ outbox = "processing" /\ leased

SaveCheck(w) ==
  /\ pc[w] \in {"chunk", "last"} /\ Current(w)
  /\ pc' = [pc EXCEPT ![w] = IF pc[w] = "chunk" THEN "commitChunk" ELSE "commitLast"]
  /\ UNCHANGED <<outboxVars, contentVars, holds, claimed, pending, batch, partial, boundVars>>

\* Mutant: a replay writes its records over those that exist.
MergedOver(old, new) == IF new # "none" THEN new ELSE old

Merged(old, new) == IF old = "none" THEN new ELSE old

\* Mutant: the inbox items wait for the last chunk, apart from their deliveries.
InboxOfLastChunk(w, t) == IF pc[w] = "commitLast" /\ batch[w][t] = "confirmedDelivered"
                          THEN "unread" ELSE "none"

\* The inbox item that the chunk holds for t.
InboxOf(w, t) == IF batch[w][t] = "confirmedDelivered" THEN "unread" ELSE "none"

CreateRecords(w) ==
  /\ delivery' = [t \in Targets |-> Merged(delivery[t], batch[w][t])]
  /\ inbox' = [t \in Targets |-> Merged(inbox[t], InboxOf(w, t))]

\* A chunk in the middle renews the lease and goes on.
CommitChunk(w) ==
  /\ pc[w] = "commitChunk" /\ MayCommit(w)
  /\ CreateRecords(w)
  /\ leased' = TRUE
  /\ batch' = [batch EXCEPT ![w] = Nothing]
  /\ pc' = [pc EXCEPT ![w] = "authorize"]
  /\ UNCHANGED <<outbox, attempts, done, holds, claimed, pending, partial, boundVars>>

\* Mutant: the last chunk completes the event, whatever is still unresolved.
CompletesAlways(w) == TRUE

Completes(w) == ~partial[w]

\* The last chunk completes the event, unless part of the audience is missing.
CommitLast(w) ==
  /\ pc[w] = "commitLast" /\ MayCommit(w)
  /\ CreateRecords(w)
  /\ \/ /\ Completes(w)
        /\ outbox' = "completed" /\ done' = "completed" /\ leased' = FALSE
        /\ holds' = [v \in Workers |-> FALSE]
        /\ GoIdle(w)
     \/ /\ ~Completes(w)
        /\ leased' = TRUE
        /\ batch' = [batch EXCEPT ![w] = Nothing]
        /\ pc' = [pc EXCEPT ![w] = "fail"]
        /\ UNCHANGED <<outbox, done, holds, claimed, pending, partial>>
  /\ UNCHANGED <<attempts, boundVars>>

\* ConflictError, from the check or from the batch, leads to fail_fanout as any error.
SaveConflict(w) ==
  /\ \/ pc[w] \in {"chunk", "last"} /\ ~Current(w)
     \/ pc[w] \in {"commitChunk", "commitLast"} /\ ~MayCommit(w)
  /\ pc' = [pc EXCEPT ![w] = "fail"]
  /\ UNCHANGED <<outboxVars, contentVars, holds, claimed, pending, batch, partial, boundVars>>

(***************************************************************************)
(* fail_fanout                                                             *)
(***************************************************************************)
FailCheck(w) ==
  /\ pc[w] = "fail" /\ Current(w)
  /\ pc' = [pc EXCEPT ![w] = "commitFail"]
  /\ UNCHANGED <<outboxVars, contentVars, holds, claimed, pending, batch, partial, boundVars>>

Permanent(w) == claimed[w] >= MaxAttempts

CommitFail(w) ==
  /\ pc[w] = "commitFail" /\ MayCommit(w)
  /\ outbox' = IF Permanent(w) THEN "permanentlyFailed" ELSE "retrying"
  /\ done' = IF Permanent(w) THEN "failed" ELSE "no"
  /\ leased' = FALSE
  /\ holds' = [v \in Workers |-> FALSE]
  /\ GoIdle(w)
  /\ UNCHANGED <<attempts, contentVars, boundVars>>

\* A newer claim alone may checkpoint the event.
FailConflict(w) ==
  /\ \/ pc[w] = "fail" /\ ~Current(w)
     \/ pc[w] = "commitFail" /\ ~MayCommit(w)
  /\ GoIdle(w)
  /\ UNCHANGED <<outboxVars, contentVars, holds, boundVars>>

(***************************************************************************)
(* Failures, and the other actors.                                         *)
(***************************************************************************)
\* The replica stops, or an error that run_once does not catch ends its loop.
Abandon(w) ==
  /\ pc[w] # "idle" /\ stops < MaxStops
  /\ stops' = stops + 1
  /\ GoIdle(w)
  /\ UNCHANGED <<outboxVars, contentVars, holds, requeues, edits>>

Abandoned == \A w \in Workers : holds[w] => pc[w] = "idle"

\* The lease runs out: under a worker that is too slow, or that is gone.
LeaseRunsOut ==
  /\ outbox = "processing" /\ leased
  /\ leased' = FALSE
  /\ \/ Abandoned /\ UNCHANGED stops
     \/ stops < MaxStops /\ stops' = stops + 1
  /\ UNCHANGED <<outbox, attempts, done, contentVars, workerVars, requeues, edits>>

\* An administrator retries a dead letter.
RequeueEvent ==
  /\ outbox = "permanentlyFailed" /\ requeues < MaxRequeues
  /\ outbox' = "queued" /\ attempts' = 0 /\ leased' = FALSE /\ done' = "no"
  /\ holds' = [v \in Workers |-> FALSE]
  /\ requeues' = requeues + 1
  /\ UNCHANGED <<contentVars, pc, claimed, pending, batch, partial, stops, edits>>

\* A reader marks an item read or unread.
SetInboxRead(t) ==
  /\ inbox[t] # "none" /\ edits < MaxEdits
  /\ inbox' = [inbox EXCEPT ![t] = IF @ = "read" THEN "unread" ELSE "read"]
  /\ edits' = edits + 1
  /\ UNCHANGED <<outboxVars, delivery, workerVars, requeues, stops>>

\* The delivery worker closes a queued delivery (NotificationDelivery models how).
Deliver(t) ==
  /\ delivery[t] = "queued"
  /\ delivery' = [delivery EXCEPT ![t] = "closed"]
  /\ UNCHANGED <<outboxVars, inbox, workerVars, boundVars>>

\* requeue_delivery by an administrator.
RequeueDelivery(t) ==
  /\ delivery[t] \in {"suppressed", "closed"} /\ edits < MaxEdits
  /\ delivery' = [delivery EXCEPT ![t] = "queued"]
  /\ edits' = edits + 1
  /\ UNCHANGED <<outboxVars, inbox, workerVars, requeues, stops>>

Step(w) ==
  \/ Resolve(w) \/ \E t \in Targets : Authorize(w, t)
  \/ AllAuthorized(w) \/ SaveCheck(w) \/ CommitChunk(w) \/ CommitLast(w) \/ SaveConflict(w)
  \/ FailCheck(w) \/ CommitFail(w) \/ FailConflict(w)

Next ==
  \/ \E w \in Workers : Claim(w) \/ Step(w) \/ Abandon(w)
  \/ LeaseRunsOut \/ RequeueEvent
  \/ \E t \in Targets : SetInboxRead(t) \/ Deliver(t) \/ RequeueDelivery(t)

Spec == Init /\ [][Next]_vars

\* run() polls for ever and a worker that runs keeps taking its steps; the lease of one
\* that is gone runs out.
Fairness ==
  /\ WF_vars(\E w \in Workers : Claim(w))
  /\ \A w \in Workers : WF_vars(Step(w))
  /\ WF_vars(LeaseRunsOut /\ Abandoned)

FairSpec == Spec /\ Fairness

(***************************************************************************)
(* Properties                                                              *)
(***************************************************************************)
\* A chunk is cut as it fills, with at most one record more: the store refuses a batch of
\* more than 98.
ChunksBounded ==
  \A w \in Workers :
    Records(batch[w]) <=
      IF pc[w] \in {"idle", "resolve", "authorize"} THEN Chunk - 1 ELSE Chunk + 1

\* Every variable keeps its range, and a chunk its bound.
TypeOK ==
  /\ outbox \in {"none", "queued", "processing", "retrying", "completed", "permanentlyFailed"}
  /\ attempts \in Nat /\ leased \in BOOLEAN
  /\ done \in {"no", "completed", "failed"}
  /\ delivery \in [Targets -> Decisions \cup {"none", "closed"}]
  /\ inbox \in [Targets -> {"none", "unread", "read"}]
  /\ pc \in [Workers -> {"idle", "resolve", "authorize", "chunk", "last", "commitChunk",
                         "commitLast", "fail", "commitFail"}]
  /\ holds \in [Workers -> BOOLEAN]
  /\ claimed \in [Workers -> Nat]
  /\ pending \in [Workers -> SUBSET Targets]
  /\ batch \in [Workers -> [Targets -> Decisions \cup {"none"}]]
  /\ ChunksBounded
  /\ partial \in [Workers -> BOOLEAN]
  /\ requeues \in 0 .. MaxRequeues /\ stops \in 0 .. MaxStops /\ edits \in 0 .. MaxEdits

\* "Rather than pretending all audiences were notified": a completed event has a delivery
\* for every target of its audience, whatever was cut off, replayed or resolved in part.
CompletedReachesAll ==
  outbox = "completed" => \A t \in Targets : delivery[t] # "none"

\* An in-app delivery reads "confirmedDelivered" only if its item is in the inbox: a crash
\* between two chunks, or a replay, never records a delivery nobody can read.
ConfirmedIsInInbox ==
  \A t \in Targets : delivery[t] = "confirmedDelivered" => inbox[t] # "none"

\* A dead letter is retried only by an administrator: no worker whose claim was taken
\* over, and no late chunk, brings it back or completes it.
DeadLetterStays ==
  [][outbox = "permanentlyFailed" /\ outbox' # outbox => outbox' = "queued" /\ attempts' = 0]_vars

\* How far the promise of FanoutLedger is along.
LedgerEvent ==
  CASE outbox = "completed" -> "completed"
    [] outbox = "permanentlyFailed" -> "dead"
    [] OTHER -> "open"

Ledger == INSTANCE FanoutLedger WITH event <- LedgerEvent, asked <- requeues + edits

\* The fan-out keeps the promises of FanoutLedger: an event is completed by the commit that
\* creates its last records, and no worker whose claim was taken over adds a record to one
\* that is settled, overwrites one, or reopens it; only what people ask for does.
KeepsFanoutLedger == Ledger!Spec

\* "Replay deduplicates delivery and inbox IDs and preserves existing read state": the
\* steps of the fan-out leave every record that exists as it is.
ReplayPreserves ==
  [][(\E w \in Workers : Step(w)) =>
       \A t \in Targets : /\ delivery[t] # "none" => delivery'[t] = delivery[t]
                          /\ inbox[t] # "none" => inbox'[t] = inbox[t]]_vars

\* Every event is completed or visible as a dead letter in the end.
EventuallySettled == []<>(outbox \in {"completed", "permanentlyFailed"})

\* A comment of _fanout: "An inbox item and its in-app delivery are always in the same
\* transaction", so that an item is in the inbox only with its delivery confirmed.
InboxItemIsDelivered ==
  \A t \in Targets : inbox[t] # "none" => delivery[t] = "confirmedDelivered"
===============================================================================
