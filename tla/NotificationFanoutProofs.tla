----------------------- MODULE NotificationFanoutProofs -----------------------
(***************************************************************************)
(* Proofs about NotificationFanout, for every finite audience, number of   *)
(* replicas, chunk size and number of attempts.  IInv is inductive; it     *)
(* says what a worker that has seen its whole audience still has to        *)
(* account for, and that only the holder of a processing row has a token.  *)
(* The fan-out implements FanoutLedger.                                    *)
(***************************************************************************)
EXTENDS NotificationFanout, FiniteSetTheorems, TLAPS

\* Every target is still pending, in the chunk, or has its delivery.
Covered(w) ==
  \A t \in Targets : t \in pending[w] \/ batch[w][t] # "none" \/ delivery[t] # "none"

TokenInv ==
  /\ \A w \in Workers : holds[w] => outbox = "processing"
  /\ \A v, w \in Workers : holds[v] /\ holds[w] => v = w

AudienceInv ==
  \A w \in Workers :
    /\ pc[w] \in {"authorize", "chunk", "last", "commitChunk", "commitLast"} /\ ~partial[w]
         => Covered(w)
    /\ pc[w] \in {"last", "commitLast"} => pending[w] = {}

IInv == TypeOK /\ TokenInv /\ AudienceInv /\ CompletedReachesAll /\ ConfirmedIsInInbox

\* The records of a chunk are a number: the audience is finite.
LEMMA RecordsIsNat ==
  ASSUME NEW b
  PROVE  Records(b) \in Nat
<1>1. /\ IsFiniteSet({t \in Targets : b[t] # "none"})
      /\ IsFiniteSet({t \in Targets : b[t] = "confirmedDelivered"})
  BY FS_Subset, TargetsAssumption
<1>2. QED
  BY <1>1, FS_CardinalityType DEF Records

\* An empty chunk holds no record.
LEMMA NoRecords == Records(Nothing) = 0
<1>1. {t \in Targets : Nothing[t] # "none"} = {}
  BY DEF Nothing
<1>2. {t \in Targets : Nothing[t] = "confirmedDelivered"} = {}
  BY DEF Nothing
<1>3. QED
  BY <1>1, <1>2, FS_EmptySet DEF Records

\* A target adds two records at most, its delivery and its inbox item.
LEMMA RecordsOfOneMore ==
  ASSUME NEW b \in [Targets -> Decisions \cup {"none"}], NEW t \in Targets, NEW d \in Decisions
  PROVE  Records([b EXCEPT ![t] = d]) <= Records(b) + 2
<1> DEFINE c == [b EXCEPT ![t] = d]
           All(f) == {u \in Targets : f[u] # "none"}
           Confirmed(f) == {u \in Targets : f[u] = "confirmedDelivered"}
<1>1. All(c) \subseteq All(b) \cup {t} /\ Confirmed(c) \subseteq Confirmed(b) \cup {t}
  OBVIOUS
<1>2. IsFiniteSet(All(b)) /\ IsFiniteSet(Confirmed(b))
  BY FS_Subset, TargetsAssumption
<1>3. ASSUME NEW S, IsFiniteSet(S)
      PROVE  /\ IsFiniteSet(S \cup {t})
             /\ Cardinality(S) \in Nat /\ Cardinality(S \cup {t}) \in Nat
             /\ Cardinality(S \cup {t}) <= Cardinality(S) + 1
  <2>1. Cardinality(S) \in Nat
    BY <1>3, FS_CardinalityType
  <2>2. /\ IsFiniteSet(S \cup {t})
        /\ Cardinality(S \cup {t}) = IF t \in S THEN Cardinality(S) ELSE Cardinality(S) + 1
    BY <1>3, FS_AddElement, Zenon
  <2>3. QED
    BY <2>1, <2>2
<1>4. ASSUME NEW S, NEW T, IsFiniteSet(T), S \subseteq T
      PROVE  Cardinality(S) \in Nat /\ Cardinality(S) <= Cardinality(T)
  BY <1>4, FS_Subset, FS_CardinalityType
<1>5. Cardinality(All(c)) \in Nat /\ Cardinality(All(b)) \in Nat
      /\ Cardinality(All(c)) <= Cardinality(All(b)) + 1
  <2>1. Cardinality(All(c)) \in Nat /\ Cardinality(All(c)) <= Cardinality(All(b) \cup {t})
    BY <1>1, <1>2, <1>3, <1>4
  <2>2. Cardinality(All(b)) \in Nat /\ Cardinality(All(b) \cup {t}) \in Nat
        /\ Cardinality(All(b) \cup {t}) <= Cardinality(All(b)) + 1
    BY <1>2, <1>3
  <2> HIDE DEF All, c
  <2>3. QED
    BY <2>1, <2>2
<1>6. Cardinality(Confirmed(c)) \in Nat /\ Cardinality(Confirmed(b)) \in Nat
      /\ Cardinality(Confirmed(c)) <= Cardinality(Confirmed(b)) + 1
  <2>1. /\ Cardinality(Confirmed(c)) \in Nat
        /\ Cardinality(Confirmed(c)) <= Cardinality(Confirmed(b) \cup {t})
    BY <1>1, <1>2, <1>3, <1>4
  <2>2. /\ Cardinality(Confirmed(b)) \in Nat /\ Cardinality(Confirmed(b) \cup {t}) \in Nat
        /\ Cardinality(Confirmed(b) \cup {t}) <= Cardinality(Confirmed(b)) + 1
    BY <1>2, <1>3
  <2> HIDE DEF Confirmed, c
  <2>3. QED
    BY <2>1, <2>2
<1>7. /\ Records(c) = Cardinality(All(c)) + Cardinality(Confirmed(c))
      /\ Records(b) = Cardinality(All(b)) + Cardinality(Confirmed(b))
  BY DEF Records
<1> HIDE DEF All, Confirmed, c
<1>8. Records(c) <= Records(b) + 2
  BY <1>5, <1>6, <1>7
<1>9. QED
  BY <1>8 DEF c

\* A target that overfills the chunk ends it.
LEMMA AuthorizeKeepsChunk ==
  ASSUME TypeOK, NEW w \in Workers, NEW t \in Targets, Authorize(w, t)
  PROVE  ChunksBounded'
<1> USE LimitsAssumption, RecordsIsNat
<1>1. Records(batch[w]) <= Chunk - 1 /\ pc[w] = "authorize"
  BY DEF TypeOK, ChunksBounded, Authorize
<1>2. Records(batch'[w]) <= Chunk + 1
  <2>1. CASE batch' = batch
    BY <1>1, <2>1
  <2>2. CASE \E decision \in Decisions : batch' = [batch EXCEPT ![w][t] = decision]
    <3>1. PICK decision \in Decisions : batch' = [batch EXCEPT ![w][t] = decision]
      BY <2>2
    <3>2. /\ batch[w] \in [Targets -> Decisions \cup {"none"}]
          /\ batch'[w] = [batch[w] EXCEPT ![t] = decision]
      BY <3>1 DEF TypeOK
    <3>3. Records(batch'[w]) <= Records(batch[w]) + 2
      BY <3>2, RecordsOfOneMore
    <3>4. QED
      BY <1>1, <3>3
  <2>3. QED
    BY <2>1, <2>2 DEF Authorize, Eligible, Decisions
<1>3. pc'[w] \in {"idle", "resolve", "authorize"} => Records(batch'[w]) <= Chunk - 1
  BY <1>1 DEF TypeOK, Authorize, ChunkFull
<1>4. ASSUME NEW v \in Workers, v # w
      PROVE  pc'[v] = pc[v] /\ batch'[v] = batch[v]
  BY <1>4 DEF TypeOK, Authorize
<1>5. QED
  BY <1>2, <1>3, <1>4 DEF TypeOK, ChunksBounded

\* No step fills a chunk over its bound.
LEMMA ChunkStep ==
  ASSUME TypeOK, [Next]_vars
  PROVE  ChunksBounded'
<1> USE LimitsAssumption, RecordsIsNat, NoRecords
    DEF outboxVars, contentVars, workerVars, boundVars
<1>0. \A v \in Workers : Records(batch[v]) \in Nat /\ Records(batch[v]) <= Chunk + 1
  BY DEF TypeOK, ChunksBounded
<1>1. ASSUME NEW w \in Workers, Claim(w) PROVE ChunksBounded'
  BY <1>0, <1>1 DEF TypeOK, ChunksBounded, Claim
<1>2. ASSUME NEW w \in Workers, Resolve(w) PROVE ChunksBounded'
  BY <1>0, <1>2 DEF TypeOK, ChunksBounded, Resolve
<1>3. ASSUME NEW w \in Workers, NEW t \in Targets, Authorize(w, t) PROVE ChunksBounded'
  BY <1>3, AuthorizeKeepsChunk
<1>4. ASSUME NEW w \in Workers, AllAuthorized(w) PROVE ChunksBounded'
  BY <1>0, <1>4 DEF TypeOK, ChunksBounded, AllAuthorized
<1>5. ASSUME NEW w \in Workers, SaveCheck(w) PROVE ChunksBounded'
  BY <1>0, <1>5 DEF TypeOK, ChunksBounded, SaveCheck, Current
<1>6. ASSUME NEW w \in Workers, CommitChunk(w) PROVE ChunksBounded'
  BY <1>0, <1>6 DEF TypeOK, ChunksBounded, CommitChunk, CreateRecords, Merged, InboxOf,
                    MayCommit
<1>7. ASSUME NEW w \in Workers, CommitLast(w) PROVE ChunksBounded'
  BY <1>0, <1>7 DEF TypeOK, ChunksBounded, CommitLast, CreateRecords, Merged, InboxOf,
                    MayCommit, Completes, GoIdle
<1>8. ASSUME NEW w \in Workers, SaveConflict(w) PROVE ChunksBounded'
  BY <1>0, <1>8 DEF TypeOK, ChunksBounded, SaveConflict
<1>9. ASSUME NEW w \in Workers, FailCheck(w) PROVE ChunksBounded'
  BY <1>0, <1>9 DEF TypeOK, ChunksBounded, FailCheck
<1>10. ASSUME NEW w \in Workers, CommitFail(w) PROVE ChunksBounded'
  BY <1>0, <1>10 DEF TypeOK, ChunksBounded, CommitFail, MayCommit, Permanent, GoIdle
<1>11. ASSUME NEW w \in Workers, FailConflict(w) PROVE ChunksBounded'
  BY <1>0, <1>11 DEF TypeOK, ChunksBounded, FailConflict, GoIdle
<1>12. ASSUME NEW w \in Workers, Abandon(w) PROVE ChunksBounded'
  BY <1>0, <1>12 DEF TypeOK, ChunksBounded, Abandon, GoIdle
<1>13. ASSUME LeaseRunsOut PROVE ChunksBounded'
  BY <1>0, <1>13 DEF TypeOK, ChunksBounded, LeaseRunsOut
<1>14. ASSUME RequeueEvent PROVE ChunksBounded'
  BY <1>0, <1>14 DEF TypeOK, ChunksBounded, RequeueEvent
<1>15. ASSUME NEW t \in Targets, SetInboxRead(t) PROVE ChunksBounded'
  BY <1>0, <1>15 DEF TypeOK, ChunksBounded, SetInboxRead
<1>16. ASSUME NEW t \in Targets, Deliver(t) PROVE ChunksBounded'
  BY <1>0, <1>16 DEF TypeOK, ChunksBounded, Deliver
<1>17. ASSUME NEW t \in Targets, RequeueDelivery(t) PROVE ChunksBounded'
  BY <1>0, <1>17 DEF TypeOK, ChunksBounded, RequeueDelivery
<1>18. CASE UNCHANGED vars
  BY <1>18 DEF TypeOK, ChunksBounded, vars
<1>19. QED
  BY <1>1, <1>2, <1>3, <1>4, <1>5, <1>6, <1>7, <1>8, <1>9, <1>10, <1>11, <1>12, <1>13, <1>14,
     <1>15, <1>16, <1>17, <1>18
     DEF Next, Step

\* Every step keeps the ranges, and the bound of a chunk.
LEMMA TypeStep ==
  ASSUME TypeOK, [Next]_vars
  PROVE  TypeOK'
<1> USE BoundsAssumption, LimitsAssumption
    DEF outboxVars, contentVars, workerVars, boundVars, Decisions
<1>0. ChunksBounded'
  BY ChunkStep
<1>1. ASSUME NEW w \in Workers, Claim(w) PROVE TypeOK'
  BY <1>0, <1>1 DEF TypeOK, Claim
<1>2. ASSUME NEW w \in Workers, Resolve(w) PROVE TypeOK'
  <2>1. pending' \in [Workers -> SUBSET Targets]
    <3>1. ASSUME NEW known \in SUBSET Targets, pending' = [pending EXCEPT ![w] = known]
          PROVE  pending' \in [Workers -> SUBSET Targets]
      BY <3>1 DEF TypeOK
    <3>2. \/ pending' = pending
          \/ \E known \in SUBSET Targets : pending' = [pending EXCEPT ![w] = known]
      BY <1>2 DEF Resolve
    <3>3. QED
      BY <3>1, <3>2 DEF TypeOK
  <2>2. QED
    BY <1>0, <1>2, <2>1 DEF TypeOK, Resolve
<1>3. ASSUME NEW w \in Workers, NEW t \in Targets, Authorize(w, t) PROVE TypeOK'
  <2>1. batch' \in [Workers -> [Targets -> Decisions \cup {"none"}]]
    <3>1. ASSUME NEW decision \in Decisions, batch' = [batch EXCEPT ![w][t] = decision]
          PROVE  batch' \in [Workers -> [Targets -> Decisions \cup {"none"}]]
      BY <3>1 DEF TypeOK
    <3>2. QED
      BY <1>3, <3>1 DEF TypeOK, Authorize, Eligible
  <2>2. pending' \in [Workers -> SUBSET Targets] /\ partial' \in [Workers -> BOOLEAN]
    BY <1>3 DEF TypeOK, Authorize
  <2>3. pc' \in [Workers -> {"idle", "resolve", "authorize", "chunk", "last", "commitChunk",
                             "commitLast", "fail", "commitFail"}]
    BY <1>3 DEF TypeOK, Authorize
  <2>4. QED
    BY <1>0, <1>3, <2>1, <2>2, <2>3 DEF TypeOK, Authorize
<1>4. ASSUME NEW w \in Workers, AllAuthorized(w) PROVE TypeOK'
  BY <1>0, <1>4 DEF TypeOK, AllAuthorized
<1>5. ASSUME NEW w \in Workers, SaveCheck(w) PROVE TypeOK'
  BY <1>0, <1>5 DEF TypeOK, SaveCheck, Current
<1>6. ASSUME NEW w \in Workers, CommitChunk(w) PROVE TypeOK'
  BY <1>0, <1>6 DEF TypeOK, CommitChunk, CreateRecords, Merged, InboxOf, MayCommit, Nothing
<1>7. ASSUME NEW w \in Workers, CommitLast(w) PROVE TypeOK'
  <2>1. /\ delivery' \in [Targets -> Decisions \cup {"none", "closed"}]
        /\ inbox' \in [Targets -> {"none", "unread", "read"}]
    BY <1>7 DEF TypeOK, CommitLast, CreateRecords, Merged, InboxOf
  <2>2. batch' \in [Workers -> [Targets -> Decisions \cup {"none"}]]
    BY <1>7 DEF TypeOK, CommitLast, GoIdle, Nothing
  <2>3. CASE Completes(w)
    <3>1. /\ outbox' = "completed" /\ done' = "completed" /\ leased' = FALSE
          /\ holds' = [v \in Workers |-> FALSE]
          /\ GoIdle(w) /\ UNCHANGED <<attempts, boundVars>>
      BY <1>7, <2>3 DEF CommitLast
    <3>2. QED
      BY <1>0, <2>1, <2>2, <3>1 DEF TypeOK, GoIdle
  <2>4. CASE ~Completes(w)
    BY <1>0, <1>7, <2>1, <2>2, <2>4 DEF TypeOK, CommitLast
  <2>5. QED
    BY <2>3, <2>4
<1>8. ASSUME NEW w \in Workers, SaveConflict(w) PROVE TypeOK'
  BY <1>0, <1>8 DEF TypeOK, SaveConflict
<1>9. ASSUME NEW w \in Workers, FailCheck(w) PROVE TypeOK'
  BY <1>0, <1>9 DEF TypeOK, FailCheck
<1>10. ASSUME NEW w \in Workers, CommitFail(w) PROVE TypeOK'
  BY <1>0, <1>10 DEF TypeOK, CommitFail, MayCommit, Permanent, GoIdle, Nothing
<1>11. ASSUME NEW w \in Workers, FailConflict(w) PROVE TypeOK'
  BY <1>0, <1>11 DEF TypeOK, FailConflict, GoIdle, Nothing
<1>12. ASSUME NEW w \in Workers, Abandon(w) PROVE TypeOK'
  BY <1>0, <1>12 DEF TypeOK, Abandon, GoIdle, Nothing
<1>13. ASSUME LeaseRunsOut PROVE TypeOK'
  <2>1. stops' \in 0 .. MaxStops
    BY <1>13 DEF TypeOK, LeaseRunsOut
  <2>2. QED
    BY <1>0, <1>13, <2>1 DEF TypeOK, LeaseRunsOut
<1>14. ASSUME RequeueEvent PROVE TypeOK'
  <2>1. requeues' \in 0 .. MaxRequeues
    BY <1>14 DEF TypeOK, RequeueEvent
  <2>2. holds' \in [Workers -> BOOLEAN]
    BY <1>14 DEF RequeueEvent
  <2>3. QED
    BY <1>0, <1>14, <2>1, <2>2 DEF TypeOK, RequeueEvent
<1>15. ASSUME NEW t \in Targets, SetInboxRead(t) PROVE TypeOK'
  BY <1>0, <1>15 DEF TypeOK, SetInboxRead
<1>16. ASSUME NEW t \in Targets, Deliver(t) PROVE TypeOK'
  BY <1>0, <1>16 DEF TypeOK, Deliver
<1>17. ASSUME NEW t \in Targets, RequeueDelivery(t) PROVE TypeOK'
  BY <1>0, <1>17 DEF TypeOK, RequeueDelivery
<1>18. CASE UNCHANGED vars
  BY <1>0, <1>18 DEF TypeOK, vars
<1>19. QED
  BY <1>1, <1>2, <1>3, <1>4, <1>5, <1>6, <1>7, <1>8, <1>9, <1>10, <1>11, <1>12, <1>13, <1>14,
     <1>15, <1>16, <1>17, <1>18
     DEF Next, Step

\* A token is given out with the row put in processing, and taken back with it.
LEMMA TokenStep ==
  ASSUME TypeOK, TokenInv, [Next]_vars
  PROVE  TokenInv'
<1> USE BoundsAssumption, LimitsAssumption
    DEF outboxVars, contentVars, workerVars, boundVars, Decisions
<1>1. ASSUME NEW w \in Workers, Claim(w) PROVE TokenInv'
  BY <1>1 DEF TypeOK, TokenInv, Claim
<1>2. ASSUME NEW w \in Workers, Resolve(w) PROVE TokenInv'
  BY <1>2 DEF TypeOK, TokenInv, Resolve
<1>3. ASSUME NEW w \in Workers, NEW t \in Targets, Authorize(w, t) PROVE TokenInv'
  BY <1>3 DEF TypeOK, TokenInv, Authorize, Eligible
<1>4. ASSUME NEW w \in Workers, AllAuthorized(w) PROVE TokenInv'
  BY <1>4 DEF TypeOK, TokenInv, AllAuthorized
<1>5. ASSUME NEW w \in Workers, SaveCheck(w) PROVE TokenInv'
  BY <1>5 DEF TypeOK, TokenInv, SaveCheck, Current
<1>6. ASSUME NEW w \in Workers, CommitChunk(w) PROVE TokenInv'
  BY <1>6 DEF TypeOK, TokenInv, CommitChunk, CreateRecords, Merged, InboxOf, MayCommit
<1>7. ASSUME NEW w \in Workers, CommitLast(w) PROVE TokenInv'
  BY <1>7 DEF TypeOK, TokenInv, CommitLast, CreateRecords, Merged, InboxOf, MayCommit,
              Completes, GoIdle
<1>8. ASSUME NEW w \in Workers, SaveConflict(w) PROVE TokenInv'
  BY <1>8 DEF TypeOK, TokenInv, SaveConflict
<1>9. ASSUME NEW w \in Workers, FailCheck(w) PROVE TokenInv'
  BY <1>9 DEF TypeOK, TokenInv, FailCheck
<1>10. ASSUME NEW w \in Workers, CommitFail(w) PROVE TokenInv'
  BY <1>10 DEF TypeOK, TokenInv, CommitFail, MayCommit, Permanent, GoIdle
<1>11. ASSUME NEW w \in Workers, FailConflict(w) PROVE TokenInv'
  BY <1>11 DEF TypeOK, TokenInv, FailConflict, GoIdle
<1>12. ASSUME NEW w \in Workers, Abandon(w) PROVE TokenInv'
  BY <1>12 DEF TypeOK, TokenInv, Abandon, GoIdle
<1>13. ASSUME LeaseRunsOut PROVE TokenInv'
  BY <1>13 DEF TypeOK, TokenInv, LeaseRunsOut
<1>14. ASSUME RequeueEvent PROVE TokenInv'
  BY <1>14 DEF TypeOK, TokenInv, RequeueEvent
<1>15. ASSUME NEW t \in Targets, SetInboxRead(t) PROVE TokenInv'
  BY <1>15 DEF TypeOK, TokenInv, SetInboxRead
<1>16. ASSUME NEW t \in Targets, Deliver(t) PROVE TokenInv'
  BY <1>16 DEF TypeOK, TokenInv, Deliver
<1>17. ASSUME NEW t \in Targets, RequeueDelivery(t) PROVE TokenInv'
  BY <1>17 DEF TypeOK, TokenInv, RequeueDelivery
<1>18. CASE UNCHANGED vars
  BY <1>18 DEF TypeOK, TokenInv, vars
<1>19. QED
  BY <1>1, <1>2, <1>3, <1>4, <1>5, <1>6, <1>7, <1>8, <1>9, <1>10, <1>11, <1>12, <1>13, <1>14,
     <1>15, <1>16, <1>17, <1>18
     DEF Next, Step

\* No step loses a target between the audience, the chunk and the store.
LEMMA AudienceStep ==
  ASSUME TypeOK, AudienceInv, [Next]_vars
  PROVE  AudienceInv'
<1> USE BoundsAssumption, LimitsAssumption
    DEF outboxVars, contentVars, workerVars, boundVars, Decisions
<1>1. ASSUME NEW w \in Workers, Claim(w) PROVE AudienceInv'
  BY <1>1 DEF TypeOK, AudienceInv, Covered, Nothing, Claim
<1>2. ASSUME NEW w \in Workers, Resolve(w) PROVE AudienceInv'
  BY <1>2 DEF TypeOK, AudienceInv, Covered, Nothing, Resolve
<1>3. ASSUME NEW w \in Workers, NEW t \in Targets, Authorize(w, t) PROVE AudienceInv'
  BY <1>3 DEF TypeOK, AudienceInv, Covered, Nothing, Authorize, Eligible
<1>4. ASSUME NEW w \in Workers, AllAuthorized(w) PROVE AudienceInv'
  BY <1>4 DEF TypeOK, AudienceInv, Covered, Nothing, AllAuthorized
<1>5. ASSUME NEW w \in Workers, SaveCheck(w) PROVE AudienceInv'
  BY <1>5 DEF TypeOK, AudienceInv, Covered, Nothing, SaveCheck, Current
<1>6. ASSUME NEW w \in Workers, CommitChunk(w) PROVE AudienceInv'
  BY <1>6 DEF TypeOK, AudienceInv, Covered, Nothing, CommitChunk, CreateRecords, Merged,
              InboxOf, MayCommit
<1>7. ASSUME NEW w \in Workers, CommitLast(w) PROVE AudienceInv'
  BY <1>7 DEF TypeOK, AudienceInv, Covered, Nothing, CommitLast, CreateRecords, Merged,
              InboxOf, MayCommit, Completes, GoIdle
<1>8. ASSUME NEW w \in Workers, SaveConflict(w) PROVE AudienceInv'
  BY <1>8 DEF TypeOK, AudienceInv, Covered, Nothing, SaveConflict
<1>9. ASSUME NEW w \in Workers, FailCheck(w) PROVE AudienceInv'
  BY <1>9 DEF TypeOK, AudienceInv, Covered, Nothing, FailCheck
<1>10. ASSUME NEW w \in Workers, CommitFail(w) PROVE AudienceInv'
  BY <1>10 DEF TypeOK, AudienceInv, Covered, Nothing, CommitFail, MayCommit, Permanent, GoIdle
<1>11. ASSUME NEW w \in Workers, FailConflict(w) PROVE AudienceInv'
  BY <1>11 DEF TypeOK, AudienceInv, Covered, Nothing, FailConflict, GoIdle
<1>12. ASSUME NEW w \in Workers, Abandon(w) PROVE AudienceInv'
  BY <1>12 DEF TypeOK, AudienceInv, Covered, Nothing, Abandon, GoIdle
<1>13. ASSUME LeaseRunsOut PROVE AudienceInv'
  BY <1>13 DEF TypeOK, AudienceInv, Covered, Nothing, LeaseRunsOut
<1>14. ASSUME RequeueEvent PROVE AudienceInv'
  BY <1>14 DEF TypeOK, AudienceInv, Covered, Nothing, RequeueEvent
<1>15. ASSUME NEW t \in Targets, SetInboxRead(t) PROVE AudienceInv'
  BY <1>15 DEF TypeOK, AudienceInv, Covered, Nothing, SetInboxRead
<1>16. ASSUME NEW t \in Targets, Deliver(t) PROVE AudienceInv'
  BY <1>16 DEF TypeOK, AudienceInv, Covered, Nothing, Deliver
<1>17. ASSUME NEW t \in Targets, RequeueDelivery(t) PROVE AudienceInv'
  BY <1>17 DEF TypeOK, AudienceInv, Covered, Nothing, RequeueDelivery
<1>18. CASE UNCHANGED vars
  BY <1>18 DEF TypeOK, AudienceInv, Covered, Nothing, vars
<1>19. QED
  BY <1>1, <1>2, <1>3, <1>4, <1>5, <1>6, <1>7, <1>8, <1>9, <1>10, <1>11, <1>12, <1>13, <1>14,
     <1>15, <1>16, <1>17, <1>18
     DEF Next, Step

\* The event is completed by a worker that accounted for its whole audience.
LEMMA ReachStep ==
  ASSUME TypeOK, TokenInv, AudienceInv, CompletedReachesAll, [Next]_vars
  PROVE  CompletedReachesAll'
<1> USE BoundsAssumption, LimitsAssumption
    DEF outboxVars, contentVars, workerVars, boundVars, Decisions
<1>1. ASSUME NEW w \in Workers, Claim(w) PROVE CompletedReachesAll'
  BY <1>1 DEF TypeOK, TokenInv, AudienceInv, Covered, CompletedReachesAll, Claim
<1>2. ASSUME NEW w \in Workers, Resolve(w) PROVE CompletedReachesAll'
  BY <1>2 DEF TypeOK, TokenInv, AudienceInv, Covered, CompletedReachesAll, Resolve
<1>3. ASSUME NEW w \in Workers, NEW t \in Targets, Authorize(w, t) PROVE CompletedReachesAll'
  BY <1>3 DEF TypeOK, TokenInv, AudienceInv, Covered, CompletedReachesAll, Authorize, Eligible
<1>4. ASSUME NEW w \in Workers, AllAuthorized(w) PROVE CompletedReachesAll'
  BY <1>4 DEF TypeOK, TokenInv, AudienceInv, Covered, CompletedReachesAll, AllAuthorized
<1>5. ASSUME NEW w \in Workers, SaveCheck(w) PROVE CompletedReachesAll'
  BY <1>5 DEF TypeOK, TokenInv, AudienceInv, Covered, CompletedReachesAll, SaveCheck, Current
<1>6. ASSUME NEW w \in Workers, CommitChunk(w) PROVE CompletedReachesAll'
  BY <1>6 DEF TypeOK, TokenInv, AudienceInv, Covered, CompletedReachesAll, CommitChunk,
              CreateRecords, Merged, InboxOf, MayCommit
<1>7. ASSUME NEW w \in Workers, CommitLast(w) PROVE CompletedReachesAll'
  BY <1>7 DEF TypeOK, TokenInv, AudienceInv, Covered, CompletedReachesAll, CommitLast,
              CreateRecords, Merged, InboxOf, MayCommit, Completes, GoIdle
<1>8. ASSUME NEW w \in Workers, SaveConflict(w) PROVE CompletedReachesAll'
  BY <1>8 DEF TypeOK, TokenInv, AudienceInv, Covered, CompletedReachesAll, SaveConflict
<1>9. ASSUME NEW w \in Workers, FailCheck(w) PROVE CompletedReachesAll'
  BY <1>9 DEF TypeOK, TokenInv, AudienceInv, Covered, CompletedReachesAll, FailCheck
<1>10. ASSUME NEW w \in Workers, CommitFail(w) PROVE CompletedReachesAll'
  BY <1>10 DEF TypeOK, TokenInv, AudienceInv, Covered, CompletedReachesAll, CommitFail,
               MayCommit, Permanent, GoIdle
<1>11. ASSUME NEW w \in Workers, FailConflict(w) PROVE CompletedReachesAll'
  BY <1>11 DEF TypeOK, TokenInv, AudienceInv, Covered, CompletedReachesAll, FailConflict, GoIdle
<1>12. ASSUME NEW w \in Workers, Abandon(w) PROVE CompletedReachesAll'
  BY <1>12 DEF TypeOK, TokenInv, AudienceInv, Covered, CompletedReachesAll, Abandon, GoIdle
<1>13. ASSUME LeaseRunsOut PROVE CompletedReachesAll'
  BY <1>13 DEF TypeOK, TokenInv, AudienceInv, Covered, CompletedReachesAll, LeaseRunsOut
<1>14. ASSUME RequeueEvent PROVE CompletedReachesAll'
  BY <1>14 DEF TypeOK, TokenInv, AudienceInv, Covered, CompletedReachesAll, RequeueEvent
<1>15. ASSUME NEW t \in Targets, SetInboxRead(t) PROVE CompletedReachesAll'
  BY <1>15 DEF TypeOK, TokenInv, AudienceInv, Covered, CompletedReachesAll, SetInboxRead
<1>16. ASSUME NEW t \in Targets, Deliver(t) PROVE CompletedReachesAll'
  BY <1>16 DEF TypeOK, TokenInv, AudienceInv, Covered, CompletedReachesAll, Deliver
<1>17. ASSUME NEW t \in Targets, RequeueDelivery(t) PROVE CompletedReachesAll'
  BY <1>17 DEF TypeOK, TokenInv, AudienceInv, Covered, CompletedReachesAll, RequeueDelivery
<1>18. CASE UNCHANGED vars
  BY <1>18 DEF TypeOK, TokenInv, AudienceInv, Covered, CompletedReachesAll, vars
<1>19. QED
  BY <1>1, <1>2, <1>3, <1>4, <1>5, <1>6, <1>7, <1>8, <1>9, <1>10, <1>11, <1>12, <1>13, <1>14,
     <1>15, <1>16, <1>17, <1>18
     DEF Next, Step

\* A delivery is confirmed in the step that creates its inbox item.
LEMMA InboxStep ==
  ASSUME TypeOK, ConfirmedIsInInbox, [Next]_vars
  PROVE  ConfirmedIsInInbox'
<1> USE BoundsAssumption, LimitsAssumption
    DEF outboxVars, contentVars, workerVars, boundVars, Decisions
<1>1. ASSUME NEW w \in Workers, Claim(w) PROVE ConfirmedIsInInbox'
  BY <1>1 DEF TypeOK, ConfirmedIsInInbox, Claim
<1>2. ASSUME NEW w \in Workers, Resolve(w) PROVE ConfirmedIsInInbox'
  BY <1>2 DEF TypeOK, ConfirmedIsInInbox, Resolve
<1>3. ASSUME NEW w \in Workers, NEW t \in Targets, Authorize(w, t) PROVE ConfirmedIsInInbox'
  BY <1>3 DEF TypeOK, ConfirmedIsInInbox, Authorize, Eligible
<1>4. ASSUME NEW w \in Workers, AllAuthorized(w) PROVE ConfirmedIsInInbox'
  BY <1>4 DEF TypeOK, ConfirmedIsInInbox, AllAuthorized
<1>5. ASSUME NEW w \in Workers, SaveCheck(w) PROVE ConfirmedIsInInbox'
  BY <1>5 DEF TypeOK, ConfirmedIsInInbox, SaveCheck, Current
<1>6. ASSUME NEW w \in Workers, CommitChunk(w) PROVE ConfirmedIsInInbox'
  BY <1>6 DEF TypeOK, ConfirmedIsInInbox, CommitChunk, CreateRecords, Merged, InboxOf, MayCommit
<1>7. ASSUME NEW w \in Workers, CommitLast(w) PROVE ConfirmedIsInInbox'
  BY <1>7 DEF TypeOK, ConfirmedIsInInbox, CommitLast, CreateRecords, Merged, InboxOf,
              MayCommit, Completes, GoIdle
<1>8. ASSUME NEW w \in Workers, SaveConflict(w) PROVE ConfirmedIsInInbox'
  BY <1>8 DEF TypeOK, ConfirmedIsInInbox, SaveConflict
<1>9. ASSUME NEW w \in Workers, FailCheck(w) PROVE ConfirmedIsInInbox'
  BY <1>9 DEF TypeOK, ConfirmedIsInInbox, FailCheck
<1>10. ASSUME NEW w \in Workers, CommitFail(w) PROVE ConfirmedIsInInbox'
  BY <1>10 DEF TypeOK, ConfirmedIsInInbox, CommitFail, MayCommit, Permanent, GoIdle
<1>11. ASSUME NEW w \in Workers, FailConflict(w) PROVE ConfirmedIsInInbox'
  BY <1>11 DEF TypeOK, ConfirmedIsInInbox, FailConflict, GoIdle
<1>12. ASSUME NEW w \in Workers, Abandon(w) PROVE ConfirmedIsInInbox'
  BY <1>12 DEF TypeOK, ConfirmedIsInInbox, Abandon, GoIdle
<1>13. ASSUME LeaseRunsOut PROVE ConfirmedIsInInbox'
  BY <1>13 DEF TypeOK, ConfirmedIsInInbox, LeaseRunsOut
<1>14. ASSUME RequeueEvent PROVE ConfirmedIsInInbox'
  BY <1>14 DEF TypeOK, ConfirmedIsInInbox, RequeueEvent
<1>15. ASSUME NEW t \in Targets, SetInboxRead(t) PROVE ConfirmedIsInInbox'
  BY <1>15 DEF TypeOK, ConfirmedIsInInbox, SetInboxRead
<1>16. ASSUME NEW t \in Targets, Deliver(t) PROVE ConfirmedIsInInbox'
  BY <1>16 DEF TypeOK, ConfirmedIsInInbox, Deliver
<1>17. ASSUME NEW t \in Targets, RequeueDelivery(t) PROVE ConfirmedIsInInbox'
  BY <1>17 DEF TypeOK, ConfirmedIsInInbox, RequeueDelivery
<1>18. CASE UNCHANGED vars
  BY <1>18 DEF TypeOK, ConfirmedIsInInbox, vars
<1>19. QED
  BY <1>1, <1>2, <1>3, <1>4, <1>5, <1>6, <1>7, <1>8, <1>9, <1>10, <1>11, <1>12, <1>13, <1>14,
     <1>15, <1>16, <1>17, <1>18
     DEF Next, Step

\* The initial state satisfies the inductive invariant.
LEMMA InitInv == Init => IInv
<1> SUFFICES ASSUME Init PROVE IInv
  OBVIOUS
<1>1. ChunksBounded
  BY NoRecords, LimitsAssumption DEF Init, ChunksBounded
<1>2. TypeOK
  <2>1. /\ pending \in [Workers -> SUBSET Targets]
        /\ claimed \in [Workers -> Nat] /\ holds \in [Workers -> BOOLEAN]
        /\ partial \in [Workers -> BOOLEAN]
    BY DEF Init
  <2>2. /\ delivery \in [Targets -> Decisions \cup {"none", "closed"}]
        /\ inbox \in [Targets -> {"none", "unread", "read"}]
        /\ batch \in [Workers -> [Targets -> Decisions \cup {"none"}]]
    BY DEF Init, Nothing
  <2>3. pc \in [Workers -> {"idle", "resolve", "authorize", "chunk", "last", "commitChunk",
                            "commitLast", "fail", "commitFail"}]
    BY DEF Init
  <2>4. outbox = "none" /\ leased \in BOOLEAN /\ done = "no"
    BY Zenon DEF Init
  <2>5. attempts = 0 /\ requeues = 0 /\ stops = 0 /\ edits = 0
    BY Zenon DEF Init
  <2>6. /\ attempts \in Nat /\ requeues \in 0 .. MaxRequeues
        /\ stops \in 0 .. MaxStops /\ edits \in 0 .. MaxEdits
    BY <2>5, BoundsAssumption
  <2>7. QED
    BY <1>1, <2>1, <2>2, <2>3, <2>4, <2>6 DEF TypeOK
<1>3. TokenInv /\ AudienceInv /\ CompletedReachesAll /\ ConfirmedIsInInbox
  BY DEF Init, TokenInv, AudienceInv, CompletedReachesAll, ConfirmedIsInInbox, Nothing
<1>4. QED
  BY <1>2, <1>3 DEF IInv

\* The invariant is inductive.
LEMMA NextInv == IInv /\ [Next]_vars => IInv'
  BY TypeStep, TokenStep, AudienceStep, ReachStep, InboxStep DEF IInv

\* Every variable keeps its range and no chunk exceeds what the store takes in a batch.
THEOREM TypeCorrect == Spec => []TypeOK
<1>1. IInv => TypeOK
  BY DEF IInv
<1>2. QED
  BY <1>1, InitInv, NextInv, PTL DEF Spec

\* A completed event reaches its whole audience, for any audience and any interleaving of
\* replicas, crashes, lost leases and partial resolutions.
THEOREM CompletionIsTotal == Spec => []CompletedReachesAll
<1>1. IInv => CompletedReachesAll
  BY DEF IInv
<1>2. QED
  BY <1>1, InitInv, NextInv, PTL DEF Spec

\* A confirmed in-app delivery has its inbox item.
THEOREM ConfirmationIsTrue == Spec => []ConfirmedIsInInbox
<1>1. IInv => ConfirmedIsInInbox
  BY DEF IInv
<1>2. QED
  BY <1>1, InitInv, NextInv, PTL DEF Spec

\* Only an administrator reopens a dead letter: to commit, a worker needs the token, and
\* a dead letter carries none.
LEMMA DeadLetterStep ==
  ASSUME IInv, [Next]_vars, outbox = "permanentlyFailed", outbox' # outbox
  PROVE  outbox' = "queued" /\ attempts' = 0
<1> USE DEF outboxVars, contentVars, workerVars, boundVars
<1>1. \A w \in Workers : ~holds[w]
  BY DEF IInv, TokenInv
<1>2. ASSUME NEW w \in Workers PROVE ~CommitLast(w) /\ ~CommitFail(w)
  BY <1>1 DEF CommitLast, CommitFail, MayCommit
<1>3. ASSUME NEW w \in Workers PROVE ~Claim(w)
  BY DEF Claim, Claimable
<1>4. ASSUME NEW w \in Workers, Step(w) PROVE UNCHANGED outbox
  BY <1>2, <1>4
     DEF Step, Resolve, Authorize, AllAuthorized, SaveCheck, CommitChunk, SaveConflict,
         FailCheck, FailConflict
<1>5. RequeueEvent
  BY <1>3, <1>4 DEF Next, vars, Abandon, LeaseRunsOut, SetInboxRead, Deliver, RequeueDelivery
<1>6. QED
  BY <1>5 DEF RequeueEvent

\* A dead letter is reopened by an administrator alone.
THEOREM DeadLettersStay == Spec => DeadLetterStays
<1>1. IInv /\ [Next]_vars =>
        [outbox = "permanentlyFailed" /\ outbox' # outbox
           => outbox' = "queued" /\ attempts' = 0]_vars
  BY DeadLetterStep
<1>2. QED
  BY <1>1, InitInv, NextInv, PTL DEF Spec, DeadLetterStays

\* A replay writes no record that exists: only the two commits of save_fanout write any.
LEMMA ReplayStep ==
  ASSUME TypeOK, NEW w \in Workers, Step(w), NEW t \in Targets
  PROVE  /\ delivery[t] # "none" => delivery'[t] = delivery[t]
         /\ inbox[t] # "none" => inbox'[t] = inbox[t]
<1> USE DEF outboxVars, contentVars, workerVars, boundVars
<1>1. CASE CommitChunk(w) \/ CommitLast(w)
  BY <1>1 DEF CommitChunk, CommitLast, CreateRecords, Merged
<1>2. CASE ~CommitChunk(w) /\ ~CommitLast(w)
  BY <1>2
     DEF Step, Resolve, Authorize, AllAuthorized, SaveCheck, SaveConflict, FailCheck,
         CommitFail, FailConflict
<1>3. QED
  BY <1>1, <1>2

\* Whatever is replayed, a delivery's progress and a reader's read mark survive.
THEOREM ReplaysPreserve == Spec => ReplayPreserves
<1>1. IInv /\ [Next]_vars =>
        [(\E w \in Workers : Step(w)) =>
           \A t \in Targets : /\ delivery[t] # "none" => delivery'[t] = delivery[t]
                              /\ inbox[t] # "none" => inbox'[t] = inbox[t]]_vars
  BY ReplayStep DEF IInv
<1>2. QED
  BY <1>1, InitInv, NextInv, PTL DEF Spec, ReplayPreserves

-----------------------------------------------------------------------------
(* The fan-out implements FanoutLedger.                                    *)

\* A chunk decides of a target what the ledger allows.
BatchInv == \A w \in Workers, t \in Targets : batch[w][t] \in {"none"} \union Ledger!Fresh(t)

LEMMA BatchInit == Init => BatchInv
BY DEF Init, BatchInv, Nothing

LEMMA BatchStep == ASSUME TypeOK, BatchInv, [Next]_vars PROVE BatchInv'
<1> USE DEF BatchInv, workerVars
<1>1. ASSUME NEW w \in Workers, GoIdle(w) PROVE BatchInv'
  BY <1>1 DEF GoIdle, Nothing, TypeOK
<1>2. ASSUME NEW w \in Workers, batch' = [batch EXCEPT ![w] = Nothing] PROVE BatchInv'
  BY <1>2 DEF Nothing, TypeOK
<1>3. ASSUME NEW w \in Workers, NEW t \in Targets, Authorize(w, t) PROVE BatchInv'
  <2>1. CASE UNCHANGED batch
    BY <2>1
  <2>2. ASSUME NEW d \in {"suppressed", Eligible(t)}, batch' = [batch EXCEPT ![w][t] = d]
        PROVE  BatchInv'
    <3>1. d \in Ledger!Fresh(t)
      BY DEF Ledger!Fresh, Eligible
    <3>2. QED
      BY <2>2, <3>1 DEF TypeOK
  <2>3. QED
    BY <1>3, <2>1, <2>2 DEF Authorize
<1>4. ASSUME NEW w \in Workers, Step(w) PROVE BatchInv'
  <2>1. CASE CommitChunk(w) \/ CommitLast(w)
    BY <1>1, <1>2, <2>1 DEF CommitChunk, CommitLast
  <2>2. CASE CommitFail(w) \/ FailConflict(w)
    BY <1>1, <2>2 DEF CommitFail, FailConflict
  <2>3. CASE Resolve(w) \/ AllAuthorized(w) \/ SaveCheck(w) \/ SaveConflict(w) \/ FailCheck(w)
    BY <2>3 DEF Resolve, AllAuthorized, SaveCheck, SaveConflict, FailCheck
  <2>4. QED
    BY <1>3, <1>4, <2>1, <2>2, <2>3 DEF Step
<1>5. ASSUME NEW w \in Workers, Claim(w) \/ Abandon(w) PROVE BatchInv'
  BY <1>1, <1>5 DEF Claim, Abandon
<1>6. CASE LeaseRunsOut \/ RequeueEvent \/ UNCHANGED vars
  BY <1>6 DEF LeaseRunsOut, RequeueEvent, vars
<1>7. ASSUME NEW t \in Targets, SetInboxRead(t) \/ Deliver(t) \/ RequeueDelivery(t)
      PROVE  BatchInv'
  BY <1>7 DEF SetInboxRead, Deliver, RequeueDelivery
<1>8. QED
  BY <1>4, <1>5, <1>6, <1>7 DEF Next

\* What a commit creates is what the ledger may create.
LEMMA CommitCreates ==
  ASSUME TypeOK, TypeOK', BatchInv, NEW w \in Workers, CreateRecords(w)
  PROVE  Ledger!Create
<1>1. delivery' \in Ledger!Deliveries /\ inbox' \in Ledger!Items
  BY DEF TypeOK, Decisions, Ledger!Deliveries, Ledger!Items
<1>2. ASSUME NEW t \in Targets
      PROVE  /\ IF delivery[t] = "none" THEN delivery'[t] \in {"none"} \union Ledger!Fresh(t)
                                        ELSE delivery'[t] = delivery[t]
             /\ IF inbox[t] = "none" THEN inbox'[t] \in {"none", "unread"}
                                     ELSE inbox'[t] = inbox[t]
             /\ inbox'[t] # inbox[t] => t \in InApp /\ delivery'[t] # "none"
             /\ delivery'[t] # delivery[t] /\ delivery'[t] = "confirmedDelivered"
                  => inbox'[t] # "none"
  <2>1. /\ delivery'[t] = IF delivery[t] = "none" THEN batch[w][t] ELSE delivery[t]
        /\ inbox'[t] = IF inbox[t] = "none"
                       THEN IF batch[w][t] = "confirmedDelivered" THEN "unread" ELSE "none"
                       ELSE inbox[t]
    BY DEF CreateRecords, Merged, InboxOf
  <2>2. batch[w][t] \in {"none"} \union Ledger!Fresh(t)
    BY DEF BatchInv
  <2>3. batch[w][t] = "confirmedDelivered" => t \in InApp
    BY <2>2 DEF Ledger!Fresh
  <2>4. QED
    BY <2>1, <2>2, <2>3
<1>3. QED
  BY <1>1, <1>2 DEF Ledger!Create

LEMMA LedgerWorkerStep ==
  ASSUME IInv, IInv', BatchInv, NEW w \in Workers, Claim(w) \/ Step(w) \/ Abandon(w)
  PROVE  Ledger!Next \/ UNCHANGED Ledger!vars
<1> USE DEF outboxVars, contentVars, boundVars, Ledger!vars
<1>1. CASE CommitChunk(w)
  <2>1. Ledger!Create
    BY <1>1, CommitCreates DEF CommitChunk, IInv
  <2>2. LedgerEvent = "open" /\ LedgerEvent' = LedgerEvent
    BY <1>1 DEF CommitChunk, MayCommit, IInv, TokenInv, LedgerEvent
  <2>3. UNCHANGED <<requeues, edits>>
    BY <1>1 DEF CommitChunk
  <2>4. QED
    BY <2>1, <2>2, <2>3 DEF Ledger!Reach, Ledger!Next
<1>2. CASE CommitLast(w)
  <2>1. Ledger!Create
    BY <1>2, CommitCreates DEF CommitLast, IInv
  <2>2. LedgerEvent = "open" /\ LedgerEvent' \in {"open", "completed"}
    BY <1>2 DEF CommitLast, MayCommit, IInv, TokenInv, LedgerEvent
  <2>3. LedgerEvent' = "completed" => \A t \in Targets : delivery'[t] # "none"
    BY DEF IInv, CompletedReachesAll, LedgerEvent
  <2>4. UNCHANGED <<requeues, edits>>
    BY <1>2 DEF CommitLast
  <2>5. QED
    BY <2>1, <2>2, <2>3, <2>4 DEF Ledger!Reach, Ledger!Next
<1>3. CASE CommitFail(w)
  <2>1. LedgerEvent = "open" /\ LedgerEvent' \in {"open", "dead"}
    BY <1>3 DEF CommitFail, MayCommit, IInv, TokenInv, LedgerEvent
  <2>2. UNCHANGED <<delivery, inbox, requeues, edits>>
    BY <1>3 DEF CommitFail
  <2>3. QED
    BY <2>1, <2>2 DEF Ledger!GiveUp, Ledger!Next
<1>4. CASE Claim(w)
  BY <1>4 DEF Claim, Claimable, LedgerEvent
<1>5. CASE Step(w) /\ ~CommitChunk(w) /\ ~CommitLast(w) /\ ~CommitFail(w)
  BY <1>5
     DEF Step, Resolve, Authorize, AllAuthorized, SaveCheck, SaveConflict, FailCheck,
         FailConflict, LedgerEvent
<1>6. CASE Abandon(w)
  BY <1>6 DEF Abandon, LedgerEvent
<1>7. QED
  BY <1>1, <1>2, <1>3, <1>4, <1>5, <1>6

LEMMA LedgerStep == IInv /\ IInv' /\ BatchInv /\ [Next]_vars => [Ledger!Next]_(Ledger!vars)
<1> SUFFICES ASSUME IInv, IInv', BatchInv, [Next]_vars
             PROVE  Ledger!Next \/ UNCHANGED Ledger!vars
  OBVIOUS
<1> USE DEF outboxVars, contentVars, workerVars, boundVars, Ledger!vars
<1>0. requeues \in Nat /\ edits \in Nat
  BY BoundsAssumption DEF IInv, TypeOK
<1>1. ASSUME NEW w \in Workers, Claim(w) \/ Step(w) \/ Abandon(w)
      PROVE  Ledger!Next \/ UNCHANGED Ledger!vars
  BY <1>1, LedgerWorkerStep
<1>2. CASE LeaseRunsOut
  BY <1>2 DEF LeaseRunsOut, LedgerEvent
<1>3. CASE RequeueEvent
  <2>1. /\ LedgerEvent = "dead" /\ LedgerEvent' = "open" /\ UNCHANGED <<delivery, inbox>>
        /\ (requeues + edits)' = requeues + edits + 1
    BY <1>0, <1>3 DEF RequeueEvent, LedgerEvent
  <2>2. QED
    BY <2>1 DEF Ledger!Ask, Ledger!Next
<1>4. ASSUME NEW t \in Targets, SetInboxRead(t) PROVE Ledger!Next
  <2>1. /\ LedgerEvent' = LedgerEvent /\ UNCHANGED delivery /\ inbox[t] # "none"
        /\ (requeues + edits)' = requeues + edits + 1
    BY <1>0, <1>4 DEF SetInboxRead, LedgerEvent
  <2>2. \E mark \in {"read", "unread"} : inbox' = [inbox EXCEPT ![t] = mark]
    BY <1>4 DEF SetInboxRead
  <2>3. QED
    BY <2>1, <2>2 DEF Ledger!Ask, Ledger!Next
<1>5. ASSUME NEW t \in Targets, Deliver(t) PROVE Ledger!Next
  BY <1>5 DEF Deliver, LedgerEvent, Ledger!Close, Ledger!Next
<1>6. ASSUME NEW t \in Targets, RequeueDelivery(t) PROVE Ledger!Next
  <2>1. /\ LedgerEvent' = LedgerEvent /\ UNCHANGED inbox
        /\ delivery[t] \in {"suppressed", "closed"}
        /\ delivery' = [delivery EXCEPT ![t] = "queued"]
        /\ (requeues + edits)' = requeues + edits + 1
    BY <1>0, <1>6 DEF RequeueDelivery, LedgerEvent
  <2>2. QED
    BY <2>1 DEF Ledger!Ask, Ledger!Next
<1>7. CASE UNCHANGED vars
  BY <1>7 DEF vars, LedgerEvent
<1>8. QED
  BY <1>1, <1>2, <1>3, <1>4, <1>5, <1>6, <1>7 DEF Next

\* The fan-out implements FanoutLedger, for any audience and number of replicas: a settled
\* event gets no more records, and only what people ask for changes what was settled.
THEOREM ImplementsFanoutLedger == Spec => KeepsFanoutLedger
<1>1. Init => Ledger!Init
  BY DEF Init, Nothing, Ledger!Init, LedgerEvent
<1>2. IInv => TypeOK
  BY DEF IInv
<1>3. QED
  BY <1>1, <1>2, InitInv, NextInv, BatchInit, BatchStep, LedgerStep, PTL
     DEF Spec, KeepsFanoutLedger, Ledger!Spec
===============================================================================
