--------------------------- MODULE BudgetGateProofs ---------------------------
(***************************************************************************)
(* Proofs about BudgetGate, for every set of cost centers, gateways and    *)
(* writers, and any number of rounds.  IInv is inductive; the two settling *)
(* properties and the type invariant follow from it.                       *)
(***************************************************************************)
EXTENDS BudgetGate, TLAPS

\* The initial states satisfy the invariant: a sync is owed and nobody writes.
LEMMA InitIInv == Init => IInv
<1> SUFFICES ASSUME Init PROVE IInv
  OBVIOUS
<1>1. TypeOK
  BY RoundsAssumption, BoundsAssumption DEF Init, TypeOK, Lists, Steps
<1>2. LocalsOK
  BY DEF Init, LocalsOK, Writing
<1>3. CurrentOK
  BY DEF Init, CurrentOK
<1>4. CorrectedOK
  BY DEF Init, CorrectedOK
<1>5. QED
  BY <1>1, <1>2, <1>3, <1>4 DEF IInv

\* A disturbance leaves nothing to correct: the next sync owes it all.
LEMMA DisturbCorrected == Disturb => CorrectedOK'
  BY DEF Disturb, CorrectedOK

\* A change of the budgets keeps IInv: it makes every reading old.
LEMMA ChangeBudgetsStep ==
  ASSUME IInv, NEW new \in Lists, ChangeBudgets(new)
  PROVE  IInv'
<1> USE DEF ChangeBudgets, gatewayVars, writerVars
<1>1. TypeOK'
  BY BoundsAssumption DEF IInv, TypeOK
<1>2. LocalsOK'
  BY DEF IInv, LocalsOK
<1>3. CurrentOK'
  BY DEF IInv, TypeOK, CurrentOK
<1>4. CorrectedOK'
  <2> SUFFICES ASSUME NEW g \in Gateways, ~owed'
               PROVE  LiveInHand(g)' /\ RecordInHand(g)'
    BY DEF IInv, TypeOK, CorrectedOK
  <2>1. ~owed /\ Value' = Value
    BY DEF IInv, TypeOK, Value
  <2>2. \A w \in Writers : Latest(w)' = Latest(w)
    BY DEF Latest
  <2>3. LiveInHand(g) /\ RecordInHand(g)
    BY <2>1 DEF IInv, CorrectedOK
  <2>4. QED
    BY <2>1, <2>2, <2>3 DEF LiveInHand, RecordInHand, WillCorrect
<1>5. QED
  BY <1>1, <1>2, <1>3, <1>4 DEF IInv

\* A change of the states keeps IInv: it owes a new sync.
LEMMA ChangeStatesStep ==
  ASSUME IInv, NEW new \in Lists, ChangeStates(new)
  PROVE  IInv'
<1> USE DEF ChangeStates, gatewayVars, writerVars
<1>1. TypeOK'
  BY BoundsAssumption DEF IInv, TypeOK, Disturb
<1>2. LocalsOK'
  BY DEF IInv, LocalsOK
<1>3. CurrentOK'
  BY DEF Disturb, CurrentOK
<1>4. CorrectedOK'
  BY DisturbCorrected
<1>5. QED
  BY <1>1, <1>2, <1>3, <1>4 DEF IInv

\* Starting keeps IInv: a writer that has read nothing answers for no gateway.
LEMMA BeginStep ==
  ASSUME IInv, NEW w \in Writers, NEW k \in {"sync", "ensure"}, NEW h \in {Absent} \cup Gateways,
         k = "ensure" => h \in Gateways, Begin(w, k, h)
  PROVE  IInv'
<1> USE DEF Begin, recordVars, gatewayVars, historyVars
<1>1. TypeOK'
  BY DEF IInv, TypeOK, Steps
<1>2. LocalsOK'
  BY DEF IInv, TypeOK, LocalsOK, Writing
<1>3. CurrentOK'
  BY DEF IInv, TypeOK, LocalsOK, CurrentOK, Value
<1>4. CorrectedOK'
  <2>1. Value' = Value /\ pc[w] = "idle" /\ round[w] = 0 /\ kind[w] = "sync"
    BY DEF IInv, LocalsOK, Value
  <2>2. ASSUME NEW g \in Gateways, LiveInHand(g) PROVE LiveInHand(g)'
    BY <2>1, <2>2 DEF IInv, TypeOK, LiveInHand, WillCorrect, Latest, Writing
  <2>3. ASSUME NEW g \in Gateways, RecordInHand(g) PROVE RecordInHand(g)'
    BY <2>1, <2>3 DEF IInv, TypeOK, RecordInHand, WillCorrect, Latest, Writing
  <2>4. ASSUME NEW v \in Writers, NEW g \in Gateways, NEW S, Passed(v, g, S)'
        PROVE  Passed(v, g, S)
    BY <2>1, <2>4 DEF IInv, TypeOK, Passed
  <2>5. QED
    BY <2>2, <2>3, <2>4 DEF IInv, CorrectedOK
<1>5. QED
  BY <1>1, <1>2, <1>3, <1>4 DEF IInv

\* Listing the budgets keeps IInv: a reading that starts now sees them as they are.
LEMMA ReadBudgetsStep ==
  ASSUME IInv, NEW w \in Writers, ReadBudgets(w)
  PROVE  IInv'
<1> USE DEF ReadBudgets, recordVars, gatewayVars
<1>1. TypeOK'
  BY DEF IInv, TypeOK, Steps
<1>2. LocalsOK'
  BY DEF IInv, TypeOK, LocalsOK, Writing
<1>3. CurrentOK'
  BY DEF IInv, TypeOK, CurrentOK, Value
<1>4. CorrectedOK'
  <2>1. Value' = Value /\ Latest(w)' = Value
    BY DEF IInv, TypeOK, Value, Latest
  <2>2. ASSUME NEW g \in Gateways, LiveInHand(g) PROVE LiveInHand(g)'
    BY <2>1, <2>2 DEF IInv, TypeOK, LiveInHand, WillCorrect, Latest, Writing
  <2>3. ASSUME NEW g \in Gateways, RecordInHand(g) PROVE RecordInHand(g)'
    BY <2>1, <2>3 DEF IInv, TypeOK, RecordInHand, WillCorrect, Latest, Writing
  <2>4. ASSUME NEW v \in Writers, NEW g \in Gateways, NEW S, Passed(v, g, S)',
               S \in {{"put"}, {"put", "record"}}
        PROVE  Passed(v, g, S)
    BY <2>4 DEF IInv, TypeOK, Passed
  <2>5. QED
    BY <2>2, <2>3, <2>4 DEF IInv, CorrectedOK
<1>5. QED
  BY <1>1, <1>2, <1>3, <1>4 DEF IInv

\* A new round keeps IInv: the writer now answers for every gateway it will come to.
LEMMA NextRoundStep ==
  ASSUME IInv, NEW w \in Writers, NextRound(w)
  PROVE  IInv'
<1> USE DEF NextRound, recordVars, gatewayVars, RoundsLeft
<1>1. TypeOK'
  BY RoundsAssumption DEF IInv, TypeOK, Steps, Latest, Lists
<1>2. LocalsOK'
  BY DEF IInv, TypeOK, LocalsOK, Writing
<1>3. CurrentOK'
  <2>1. reading[w] => Latest(w) = Value
    BY DEF IInv, CurrentOK, Latest, Value
  <2>2. QED
    BY <2>1 DEF IInv, TypeOK, CurrentOK, Value
<1>4. CorrectedOK'
  <2>1. Value' = Value
    BY DEF Value
  <2>2. ASSUME NEW g \in Gateways, LiveInHand(g) PROVE LiveInHand(g)'
    <3>1. CASE live[g] = Value
      BY <2>1, <3>1 DEF LiveInHand
    <3>2. ASSUME live[g] # Value, kind[w] = "sync" \/ at[w] = g,
                 WillCorrect(w, g, live[g], {"put"})
          PROVE  LiveInHand(g)'
      <4>1. Latest(w) = Value
        BY <3>2 DEF WillCorrect, Writing
      <4>2. WillCorrect(w, g, live[g], {"put"})'
        BY <2>1, <3>2, <4>1 DEF IInv, TypeOK, WillCorrect, Writing
      <4>3. QED
        BY <3>2, <4>2 DEF LiveInHand
    <3>3. ASSUME NEW u \in Writers, u # w, kind[u] = "sync" \/ at[u] = g,
                 WillCorrect(u, g, live[g], {"put"})
          PROVE  LiveInHand(g)'
      <4>1. WillCorrect(u, g, live[g], {"put"})'
        BY <2>1, <3>3 DEF IInv, TypeOK, WillCorrect, Latest
      <4>2. QED
        BY <3>3, <4>1 DEF LiveInHand
    <3>4. QED
      BY <2>2, <3>1, <3>2, <3>3 DEF LiveInHand
  <2>3. ASSUME NEW g \in Gateways, RecordInHand(g) PROVE RecordInHand(g)'
    <3>1. CASE recorded[g] = Value
      BY <2>1, <3>1 DEF RecordInHand
    <3>2. ASSUME recorded[g] # Value, kind[w] = "sync",
                 WillCorrect(w, g, recorded[g], {"put", "record"})
          PROVE  RecordInHand(g)'
      <4>1. Latest(w) = Value
        BY <3>2 DEF WillCorrect, Writing
      <4>2. WillCorrect(w, g, recorded[g], {"put", "record"})'
        BY <2>1, <3>2, <4>1 DEF IInv, TypeOK, WillCorrect, Writing
      <4>3. QED
        BY <3>2, <4>2 DEF RecordInHand
    <3>3. ASSUME NEW u \in Writers, u # w, kind[u] = "sync",
                 WillCorrect(u, g, recorded[g], {"put", "record"})
          PROVE  RecordInHand(g)'
      <4>1. WillCorrect(u, g, recorded[g], {"put", "record"})'
        BY <2>1, <3>3 DEF IInv, TypeOK, WillCorrect, Latest
      <4>2. QED
        BY <3>3, <4>1 DEF RecordInHand
    <3>4. QED
      BY <2>3, <3>1, <3>2, <3>3 DEF RecordInHand
  <2>4. ASSUME NEW v \in Writers, NEW g \in Gateways, NEW S, Passed(v, g, S)'
        PROVE  v # w /\ Passed(v, g, S) /\ current[v] = current'[v]
    BY <2>4 DEF IInv, TypeOK, Passed
  <2>5. QED
    BY <2>2, <2>3, <2>4 DEF IInv, CorrectedOK
<1>5. QED
  BY <1>1, <1>2, <1>3, <1>4 DEF IInv

\* Settling keeps IInv: the list confirmed is the list the writer left behind.
LEMMA SettleStep ==
  ASSUME IInv, NEW w \in Writers, Settle(w)
  PROVE  IInv'
<1> USE DEF Settle, Leave, recordVars, gatewayVars
<1>1. TypeOK'
  <2>1. owed' \in BOOLEAN
    OBVIOUS
  <2>2. value' \in [Writers -> Lists] /\ seen' \in [Writers -> Lists]
    BY DEF IInv, TypeOK, Lists
  <2>3. QED
    BY <2>1, <2>2, RoundsAssumption DEF IInv, TypeOK, Steps
<1>2. LocalsOK'
  BY DEF IInv, TypeOK, LocalsOK, Writing
<1>3. CurrentOK'
  BY DEF IInv, TypeOK, CurrentOK, Value
<1>4. CorrectedOK'
  <2>1. Value' = Value
    BY DEF Value
  <2>2. ASSUME NEW g \in Gateways, LiveInHand(g) PROVE LiveInHand(g)'
    <3>1. CASE live[g] = Value
      BY <2>1, <3>1 DEF LiveInHand
    <3>2. ASSUME WillCorrect(w, g, live[g], {"put"}) PROVE live[g] = Value
      BY <3>2 DEF WillCorrect, Confirmed, Writing
    <3>3. ASSUME NEW u \in Writers, u # w, kind[u] = "sync" \/ at[u] = g,
                 WillCorrect(u, g, live[g], {"put"})
          PROVE  LiveInHand(g)'
      <4>1. WillCorrect(u, g, live[g], {"put"})'
        BY <2>1, <3>3 DEF IInv, TypeOK, WillCorrect, Latest
      <4>2. kind'[u] = "sync" \/ at'[u] = g
        BY <3>3 DEF IInv, TypeOK
      <4>3. QED
        BY <4>1, <4>2 DEF LiveInHand
    <3>4. QED
      BY <2>2, <3>1, <3>2, <3>3 DEF LiveInHand
  <2>3. ASSUME NEW g \in Gateways, RecordInHand(g) PROVE RecordInHand(g)'
    <3>1. CASE recorded[g] = Value
      BY <2>1, <3>1 DEF RecordInHand
    <3>2. ASSUME WillCorrect(w, g, recorded[g], {"put", "record"}) PROVE recorded[g] = Value
      BY <3>2 DEF WillCorrect, Confirmed, Writing
    <3>3. ASSUME NEW u \in Writers, u # w, kind[u] = "sync",
                 WillCorrect(u, g, recorded[g], {"put", "record"})
          PROVE  RecordInHand(g)'
      <4>1. WillCorrect(u, g, recorded[g], {"put", "record"})'
        BY <2>1, <3>3 DEF IInv, TypeOK, WillCorrect, Latest
      <4>2. kind'[u] = "sync"
        BY <3>3 DEF IInv, TypeOK
      <4>3. QED
        BY <4>1, <4>2 DEF RecordInHand
    <3>4. QED
      BY <2>3, <3>1, <3>2, <3>3 DEF RecordInHand
  <2>4. ASSUME NEW v \in Writers, NEW g \in Gateways, NEW S, Passed(v, g, S)'
        PROVE  v # w /\ Passed(v, g, S)
    BY <2>4 DEF IInv, TypeOK, Passed
  <2>5. ASSUME NEW g \in Gateways, owed, ~owed'
        PROVE  current[w] /\ Passed(w, g, {"put"}) /\ Passed(w, g, {"put", "record"})
    BY <2>5 DEF IInv, TypeOK, LocalsOK, Writing, Passed, Confirmed
  <2>6. QED
    BY <2>2, <2>3, <2>4, <2>5 DEF IInv, CorrectedOK
<1>5. QED
  BY <1>1, <1>2, <1>3, <1>4 DEF IInv

\* Giving up keeps IInv: the unsettled list owes a new sync.
LEMMA GiveUpStep ==
  ASSUME IInv, NEW w \in Writers, GiveUp(w)
  PROVE  IInv'
<1> USE DEF GiveUp, Leave, recordVars, gatewayVars
<1>1. TypeOK'
  <2>1. value' \in [Writers -> Lists] /\ seen' \in [Writers -> Lists]
    BY DEF IInv, TypeOK, Lists
  <2>2. QED
    BY <2>1, RoundsAssumption DEF IInv, TypeOK, Steps, Disturb
<1>2. LocalsOK'
  BY DEF IInv, TypeOK, LocalsOK, Writing
<1>3. CurrentOK'
  BY DEF Disturb, CurrentOK
<1>4. CorrectedOK'
  BY DisturbCorrected
<1>5. QED
  BY <1>1, <1>2, <1>3, <1>4 DEF IInv

\* Reading a gateway keeps IInv: it needs no write only when it holds the list.
LEMMA CompareStep ==
  ASSUME IInv, NEW w \in Writers, NEW h \in Gateways, Compare(w, h)
  PROVE  IInv'
<1> USE DEF Compare, Differs, recordVars, gatewayVars, historyVars
<1>1. TypeOK'
  BY DEF IInv, TypeOK, Steps
<1>2. LocalsOK'
  BY DEF IInv, TypeOK, LocalsOK, Writing
<1>3. CurrentOK'
  BY DEF IInv, TypeOK, CurrentOK, Value
<1>4. CorrectedOK'
  <2>1. Value' = Value /\ kind[w] = "sync" /\ round[w] > 0
    BY DEF IInv, TypeOK, LocalsOK, Value, Writing
  <2>2. ASSUME NEW g \in Gateways, LiveInHand(g) PROVE LiveInHand(g)'
    <3>1. CASE live[g] = Value
      BY <2>1, <3>1 DEF LiveInHand
    <3>2. ASSUME NEW u \in Writers, live[g] # Value, kind[u] = "sync" \/ at[u] = g,
                 WillCorrect(u, g, live[g], {"put"})
          PROVE  LiveInHand(g)'
      <4>1. kind'[u] = "sync" \/ at'[u] = g
        BY <2>1, <3>2 DEF IInv, TypeOK
      <4>2. WillCorrect(u, g, live[g], {"put"})'
        BY <2>1, <3>2 DEF IInv, TypeOK, WillCorrect, Latest, Writing
      <4>3. QED
        BY <4>1, <4>2 DEF LiveInHand
    <3>3. QED
      BY <2>2, <3>1, <3>2 DEF LiveInHand
  <2>3. ASSUME NEW g \in Gateways, RecordInHand(g) PROVE RecordInHand(g)'
    <3>1. CASE recorded[g] = Value
      BY <2>1, <3>1 DEF RecordInHand
    <3>2. ASSUME NEW u \in Writers, kind[u] = "sync",
                 WillCorrect(u, g, recorded[g], {"put", "record"})
          PROVE  RecordInHand(g)'
      <4>1. WillCorrect(u, g, recorded[g], {"put", "record"})'
        BY <2>1, <3>2 DEF IInv, TypeOK, WillCorrect, Latest, Writing
      <4>2. QED
        BY <3>2, <4>1 DEF RecordInHand
    <3>3. QED
      BY <2>3, <3>1, <3>2 DEF RecordInHand
  <2>4. ASSUME NEW v \in Writers, NEW g \in Gateways, current'[v], Passed(v, g, {"put"})'
        PROVE  LiveInHand(g)'
    <3>1. CASE Passed(v, g, {"put"})
      BY <2>2, <2>4, <3>1 DEF IInv, CorrectedOK
    <3>2. CASE ~Passed(v, g, {"put"})
      <4>1. v = w /\ g = h /\ live[g] = value[w]
        BY <2>1, <2>4, <3>2 DEF IInv, TypeOK, Passed
      <4>2. QED
        BY <2>1, <2>4, <4>1 DEF IInv, CurrentOK, LiveInHand
    <3>3. QED
      BY <3>1, <3>2
  <2>5. ASSUME NEW v \in Writers, NEW g \in Gateways, Passed(v, g, {"put", "record"})'
        PROVE  Passed(v, g, {"put", "record"})
    BY <2>1, <2>5 DEF IInv, TypeOK, Passed
  <2>6. QED
    BY <2>2, <2>3, <2>4, <2>5 DEF IInv, CorrectedOK
<1>5. QED
  BY <1>1, <1>2, <1>3, <1>4 DEF IInv

\* A put keeps IInv: a stale list is answered for by the writer that put it.
LEMMA PutStep ==
  ASSUME IInv, NEW w \in Writers, Put(w)
  PROVE  IInv'
<1> USE DEF Put, Leave, RoundsLeft, recordVars
<1>0. at[w] \in Gateways /\ round[w] > 0
  BY DEF IInv, LocalsOK, Writing
<1>1. TypeOK'
  <2>1. live' \in [Gateways -> {Absent, Damaged} \cup Lists]
    BY DEF IInv, TypeOK
  <2>2. value' \in [Writers -> Lists] /\ seen' \in [Writers -> Lists]
    BY DEF IInv, TypeOK, Lists
  <2>3. CASE kind[w] = "sync" \/ round[w] < Rounds
    BY <2>1, <2>2, <2>3 DEF IInv, TypeOK, Steps
  <2>4. CASE ~(kind[w] = "sync" \/ round[w] < Rounds)
    <3>1. Leave(w) /\ Disturb
      BY <2>4
    <3>2. /\ pc' \in [Writers -> Steps] /\ kind' \in [Writers -> {"sync", "ensure"}]
          /\ round' \in [Writers -> 0 .. Rounds] /\ todo' \in [Writers -> SUBSET Gateways]
          /\ at' \in [Writers -> {Absent} \cup Gateways]
      BY <3>1, RoundsAssumption DEF IInv, TypeOK, Steps
    <3>3. QED
      BY <2>1, <2>2, <3>1, <3>2 DEF IInv, TypeOK, Disturb
  <2>5. QED
    BY <2>3, <2>4
<1>2. LocalsOK'
  BY <1>0 DEF IInv, TypeOK, LocalsOK, Writing
<1>3. CurrentOK'
  BY DEF IInv, TypeOK, CurrentOK, Value, Disturb
<1>4. CorrectedOK'
  <2>1. CASE kind[w] = "sync" \/ round[w] < Rounds
    <3>1. Value' = Value /\ UNCHANGED <<recorded, kind, value, round, todo, at, current, owed>>
          /\ UNCHANGED <<seen, blocked>>
      BY <2>1 DEF IInv, TypeOK, Value
    <3>2. pc' = [pc EXCEPT ![w] = IF kind[w] = "sync" THEN "record" ELSE "budgets"]
      BY <2>1 DEF IInv, TypeOK
    <3>3. ASSUME NEW g \in Gateways, LiveInHand(g) PROVE LiveInHand(g)'
      <4>1. CASE at[w] = g
        <5>1. live'[g] = value[w]
          BY <4>1 DEF IInv, TypeOK
        <5>2. WillCorrect(w, g, live[g], {"put"})'
          BY <1>0, <3>1, <3>2, <5>1 DEF IInv, TypeOK, WillCorrect, Writing
        <5>3. QED
          BY <3>1, <4>1, <5>2 DEF LiveInHand
      <4>2. CASE at[w] # g /\ live[g] = Value
        BY <3>1, <4>2 DEF IInv, TypeOK, LiveInHand
      <4>3. ASSUME at[w] # g, NEW u \in Writers, kind[u] = "sync" \/ at[u] = g,
                   WillCorrect(u, g, live[g], {"put"})
            PROVE  LiveInHand(g)'
        <5>1. live'[g] = live[g]
          BY <4>3 DEF IInv, TypeOK
        <5>2. u = w => kind[w] = "sync"
          BY <4>3
        <5>3. WillCorrect(u, g, live[g], {"put"})'
          BY <3>1, <3>2, <4>3, <5>1, <5>2 DEF IInv, TypeOK, WillCorrect, Latest, Writing
        <5>4. QED
          BY <3>1, <4>3, <5>3 DEF LiveInHand
      <4>4. QED
        BY <3>3, <4>1, <4>2, <4>3 DEF LiveInHand
    <3>4. ASSUME NEW g \in Gateways, RecordInHand(g) PROVE RecordInHand(g)'
      <4>1. CASE recorded[g] = Value
        BY <3>1, <4>1 DEF RecordInHand
      <4>2. ASSUME NEW u \in Writers, kind[u] = "sync",
                   WillCorrect(u, g, recorded[g], {"put", "record"})
            PROVE  RecordInHand(g)'
        <5>1. WillCorrect(u, g, recorded[g], {"put", "record"})'
          BY <3>1, <3>2, <4>2 DEF IInv, TypeOK, WillCorrect, Latest, Writing
        <5>2. QED
          BY <3>1, <4>2, <5>1 DEF RecordInHand
      <4>3. QED
        BY <3>4, <4>1, <4>2 DEF RecordInHand
    <3>5. ASSUME NEW v \in Writers, NEW g \in Gateways, current'[v], Passed(v, g, {"put"})'
          PROVE  LiveInHand(g)'
      <4>1. CASE Passed(v, g, {"put"})
        BY <3>1, <3>3, <3>5, <4>1 DEF IInv, CorrectedOK
      <4>2. CASE ~Passed(v, g, {"put"})
        <5>1. v = w /\ g = at[w] /\ current[w]
          BY <3>1, <3>2, <3>5, <4>2 DEF IInv, TypeOK, Passed
        <5>2. live'[g] = Value
          BY <1>0, <5>1 DEF IInv, TypeOK, CurrentOK
        <5>3. QED
          BY <3>1, <5>2 DEF LiveInHand
      <4>3. QED
        BY <4>1, <4>2
    <3>6. ASSUME NEW v \in Writers, NEW g \in Gateways, Passed(v, g, {"put", "record"})'
          PROVE  Passed(v, g, {"put", "record"})
      BY <3>1, <3>2, <3>6 DEF IInv, TypeOK, Passed
    <3>7. QED
      BY <3>1, <3>3, <3>4, <3>5, <3>6 DEF IInv, CorrectedOK
  <2>2. CASE ~(kind[w] = "sync" \/ round[w] < Rounds)
    <3>1. Disturb
      BY <2>2
    <3>2. QED
      BY <3>1, DisturbCorrected
  <2>3. QED
    BY <2>1, <2>2
<1>5. QED
  BY <1>1, <1>2, <1>3, <1>4 DEF IInv

\* Recording a write keeps IInv: a stale record is answered for by its writer.
LEMMA RecordStep ==
  ASSUME IInv, NEW w \in Writers, Record(w)
  PROVE  IInv'
<1> USE DEF Record, AfterGateway, recordVars, historyVars
<1>0. at[w] \in Gateways /\ round[w] > 0 /\ kind[w] = "sync"
  BY DEF IInv, TypeOK, LocalsOK, Writing
<1>1. TypeOK'
  <2>1. recorded' \in [Gateways -> {Absent} \cup Lists]
    BY DEF IInv, TypeOK
  <2>2. QED
    BY <2>1 DEF IInv, TypeOK, Steps
<1>2. LocalsOK'
  BY <1>0 DEF IInv, TypeOK, LocalsOK, Writing
<1>3. CurrentOK'
  BY DEF IInv, TypeOK, CurrentOK, Value
<1>4. CorrectedOK'
  <2>1. Value' = Value
    BY DEF Value
  <2>2. pc'[w] \in {"budgets", "gateway"} /\ (todo[w] # {} => pc'[w] = "gateway")
        /\ \A u \in Writers \ {w} : pc'[u] = pc[u]
    BY DEF IInv, TypeOK
  <2>3. ASSUME NEW g \in Gateways, LiveInHand(g) PROVE LiveInHand(g)'
    <3>1. CASE live[g] = Value
      BY <2>1, <3>1 DEF LiveInHand
    <3>2. ASSUME NEW u \in Writers, kind[u] = "sync" \/ at[u] = g,
                 WillCorrect(u, g, live[g], {"put"})
          PROVE  LiveInHand(g)'
      <4>1. WillCorrect(u, g, live[g], {"put"})'
        BY <2>1, <2>2, <3>2 DEF IInv, TypeOK, WillCorrect, Latest, Writing
      <4>2. QED
        BY <3>2, <4>1 DEF LiveInHand
    <3>3. QED
      BY <2>3, <3>1, <3>2 DEF LiveInHand
  <2>4. ASSUME NEW g \in Gateways, RecordInHand(g) PROVE RecordInHand(g)'
    <3>1. CASE pc[w] = "record" /\ at[w] = g
      <4>1. recorded'[g] = value[w]
        BY <3>1 DEF IInv, TypeOK
      <4>2. WillCorrect(w, g, recorded[g], {"put", "record"})'
        BY <1>0, <2>2, <4>1 DEF WillCorrect, Writing
      <4>3. QED
        BY <1>0, <4>2 DEF RecordInHand
    <3>2. CASE ~(pc[w] = "record" /\ at[w] = g)
      <4>1. recorded'[g] = recorded[g]
        BY <3>2 DEF IInv, TypeOK
      <4>2. CASE recorded[g] = Value
        BY <2>1, <4>1, <4>2 DEF RecordInHand
      <4>3. ASSUME NEW u \in Writers, kind[u] = "sync",
                   WillCorrect(u, g, recorded[g], {"put", "record"})
            PROVE  RecordInHand(g)'
        <5>1. WillCorrect(u, g, recorded[g], {"put", "record"})'
          BY <2>1, <2>2, <3>2, <4>1, <4>3 DEF IInv, TypeOK, WillCorrect, Latest, Writing
        <5>2. QED
          BY <4>3, <5>1 DEF RecordInHand
      <4>4. QED
        BY <2>4, <4>2, <4>3 DEF RecordInHand
    <3>3. QED
      BY <3>1, <3>2
  <2>5. ASSUME NEW v \in Writers, NEW g \in Gateways, Passed(v, g, {"put"})'
        PROVE  Passed(v, g, {"put"})
    BY <2>2, <2>5 DEF IInv, TypeOK, Passed
  <2>6. ASSUME NEW v \in Writers, NEW g \in Gateways, current'[v],
               Passed(v, g, {"put", "record"})'
        PROVE  RecordInHand(g)'
    <3>1. CASE Passed(v, g, {"put", "record"})
      BY <2>4, <2>6, <3>1 DEF IInv, CorrectedOK
    <3>2. CASE ~Passed(v, g, {"put", "record"})
      <4>1. v = w /\ g = at[w] /\ pc[w] = "record" /\ current[w]
        BY <2>2, <2>6, <3>2 DEF Passed
      <4>2. recorded'[g] = Value
        BY <1>0, <4>1 DEF IInv, TypeOK, CurrentOK
      <4>3. QED
        BY <2>1, <4>2 DEF RecordInHand
    <3>3. QED
      BY <3>1, <3>2
  <2>7. QED
    BY <2>3, <2>4, <2>5, <2>6 DEF IInv, CorrectedOK
<1>5. QED
  BY <1>1, <1>2, <1>3, <1>4 DEF IInv

\* A failed call keeps IInv, applied or not: it owes a new sync.
LEMMA CallFailsStep ==
  ASSUME IInv, NEW w \in Writers, NEW g \in Gateways, NEW applied \in BOOLEAN,
         CallFails(w, g, applied)
  PROVE  IInv'
<1> USE DEF CallFails, Leave, recordVars
<1>1. TypeOK'
  <2>1. live' \in [Gateways -> {Absent, Damaged} \cup Lists]
    BY DEF IInv, TypeOK
  <2>2. value' \in [Writers -> Lists] /\ seen' \in [Writers -> Lists]
    BY DEF IInv, TypeOK, Lists
  <2>3. failures' \in 0 .. MaxFailures
    BY BoundsAssumption DEF IInv, TypeOK
  <2>4. CASE kind[w] = "sync"
    BY <2>1, <2>2, <2>3, <2>4 DEF IInv, TypeOK, Steps, Disturb
  <2>5. CASE kind[w] = "ensure"
    BY <2>1, <2>2, <2>3, <2>5, RoundsAssumption DEF IInv, TypeOK, Steps, Disturb
  <2>6. QED
    BY <2>4, <2>5 DEF IInv, TypeOK
<1>2. LocalsOK'
  BY DEF IInv, TypeOK, LocalsOK, Writing
<1>3. CurrentOK'
  BY DEF Disturb, CurrentOK
<1>4. CorrectedOK'
  BY DisturbCorrected
<1>5. QED
  BY <1>1, <1>2, <1>3, <1>4 DEF IInv

\* A write cut off keeps IInv: it owes a new sync.
LEMMA AbandonStep ==
  ASSUME IInv, NEW w \in Writers, Abandon(w)
  PROVE  IInv'
<1> USE DEF Abandon, Leave, recordVars, gatewayVars
<1>1. TypeOK'
  <2>1. value' \in [Writers -> Lists] /\ seen' \in [Writers -> Lists]
    BY DEF IInv, TypeOK, Lists
  <2>2. failures' \in 0 .. MaxFailures
    BY BoundsAssumption DEF IInv, TypeOK
  <2>3. QED
    BY <2>1, <2>2, RoundsAssumption DEF IInv, TypeOK, Steps, Disturb
<1>2. LocalsOK'
  BY DEF IInv, TypeOK, LocalsOK, Writing
<1>3. CurrentOK'
  BY DEF Disturb, CurrentOK
<1>4. CorrectedOK'
  BY DisturbCorrected
<1>5. QED
  BY <1>1, <1>2, <1>3, <1>4 DEF IInv

\* A step that changes nothing keeps IInv.
LEMMA StutterIInv == IInv /\ UNCHANGED vars => IInv'
<1> SUFFICES ASSUME IInv, UNCHANGED vars PROVE IInv'
  OBVIOUS
<1> USE DEF vars, recordVars, gatewayVars, writerVars, historyVars
<1>1. TypeOK' /\ LocalsOK' /\ CurrentOK'
  BY DEF IInv, TypeOK, LocalsOK, CurrentOK, Value
<1>2. CorrectedOK'
  BY DEF IInv, CorrectedOK, LiveInHand, RecordInHand, WillCorrect, Passed, Latest, Value
<1>3. QED
  BY <1>1, <1>2 DEF IInv

\* Every step keeps IInv: one case per action.
LEMMA NextIInv == IInv /\ [Next]_vars => IInv'
<1> SUFFICES ASSUME IInv, [Next]_vars PROVE IInv'
  OBVIOUS
<1>1. ASSUME NEW new \in Lists, ChangeBudgets(new) \/ ChangeStates(new) PROVE IInv'
  BY <1>1, ChangeBudgetsStep, ChangeStatesStep
<1>2. ASSUME NEW w \in Writers, StartSync(w) PROVE IInv'
  BY <1>2, BeginStep DEF StartSync
<1>3. ASSUME NEW w \in Writers, NEW g \in Gateways, StartEnsure(w, g) PROVE IInv'
  BY <1>3, BeginStep DEF StartEnsure
<1>4. ASSUME NEW w \in Writers, Write(w) PROVE IInv'
  BY <1>4, ReadBudgetsStep, NextRoundStep, SettleStep, GiveUpStep, CompareStep,
     PutStep, RecordStep DEF Write
<1>5. ASSUME NEW w \in Writers, NEW g \in Gateways, NEW applied \in BOOLEAN,
             CallFails(w, g, applied)
      PROVE  IInv'
  BY <1>5, CallFailsStep
<1>6. ASSUME NEW w \in Writers, Abandon(w) PROVE IInv'
  BY <1>6, AbandonStep
<1>7. QED
  BY <1>1, <1>2, <1>3, <1>4, <1>5, <1>6, StutterIInv DEF Next

\* IInv holds in every reachable state.
LEMMA Invariance == Spec => []IInv
  BY InitIInv, NextIInv, PTL DEF Spec

\* Every variable keeps its type, and no writer makes more than Rounds rounds.
THEOREM TypeCorrect == Spec => []TypeOK
<1>1. IInv => TypeOK
  BY DEF IInv
<1>2. QED
  BY <1>1, Invariance, PTL

\* budget_gate.py: "the last writer always leaves what the budgets say", for any
\* number of processes writing at once, torn readings of the budgets included.
THEOREM GatewaysSettle == Spec => []LastWriterSettles
<1>1. IInv => LastWriterSettles
  BY DEF IInv, LocalsOK, CorrectedOK, LastWriterSettles, Quiet, LiveInHand, WillCorrect, Writing
<1>2. QED
  BY <1>1, Invariance, PTL

\* What the overview shows as enforced is what each gateway holds, once settled.
THEOREM OverviewSettled == Spec => []OverviewSettles
<1>1. IInv => OverviewSettles
  BY DEF IInv, LocalsOK, CorrectedOK, OverviewSettles, Quiet, LiveInHand, RecordInHand,
         WillCorrect, Writing
<1>2. QED
  BY <1>1, Invariance, PTL
===============================================================================
