----------------------------- MODULE FanoutLedger -----------------------------
(***************************************************************************)
(* What the fan-out promises about each event, without replicas, leases,   *)
(* chunks or attempts.  While the event is open, records are created for   *)
(* more and more of its targets, each once.  The event is completed with   *)
(* the records that were missing, or given up as a dead letter; from then  *)
(* on nothing is created, unless somebody asks for it again.               *)
(***************************************************************************)
EXTENDS Naturals

CONSTANTS
  Targets,  \* the event's audience
  InApp     \* the targets that are served by an inbox item

VARIABLES
  event,     \* "open", "completed" or "dead"
  delivery,  \* the state of each target's delivery
  inbox,     \* each target's inbox item
  asked      \* what people asked for: events and deliveries retried, read marks changed

vars == <<event, delivery, inbox, asked>>

Init ==
  /\ event = "open" /\ asked = 0
  /\ delivery = [t \in Targets |-> "none"]
  /\ inbox = [t \in Targets |-> "none"]

\* The deliveries that a target may get: whoever is served by an item has been served.
Fresh(t) == {"suppressed", IF t \in InApp THEN "confirmedDelivered" ELSE "queued"}

Deliveries == [Targets -> {"none", "suppressed", "queued", "confirmedDelivered", "closed"}]
Items      == [Targets -> {"none", "unread", "read"}]

\* Records are created, in one step and beside those that exist.  An item comes with its
\* delivery, or to a delivery that was there without one.
Create ==
  /\ delivery' \in Deliveries /\ inbox' \in Items
  /\ \A t \in Targets :
       /\ IF delivery[t] = "none" THEN delivery'[t] \in {"none"} \union Fresh(t)
                                 ELSE delivery'[t] = delivery[t]
       /\ IF inbox[t] = "none" THEN inbox'[t] \in {"none", "unread"}
                              ELSE inbox'[t] = inbox[t]
       /\ inbox'[t] # inbox[t] => t \in InApp /\ delivery'[t] # "none"
       /\ delivery'[t] # delivery[t] /\ delivery'[t] = "confirmedDelivered" => inbox'[t] # "none"

Reach ==
  /\ event = "open"
  /\ Create
  /\ \/ event' = event
     \/ event' = "completed" /\ \A t \in Targets : delivery'[t] # "none"
  /\ UNCHANGED asked

GiveUp ==
  /\ event = "open" /\ event' = "dead"
  /\ UNCHANGED <<delivery, inbox, asked>>

\* The delivery engine closes what waits.
Close(t) ==
  /\ delivery[t] = "queued"
  /\ delivery' = [delivery EXCEPT ![t] = "closed"]
  /\ UNCHANGED <<event, inbox, asked>>

\* A person retries a dead event, or a delivery, or marks an item read or unread.
Ask ==
  /\ asked' = asked + 1
  /\ \/ /\ event = "dead" /\ event' = "open"
        /\ UNCHANGED <<delivery, inbox>>
     \/ /\ \E t \in Targets : /\ delivery[t] \in {"suppressed", "closed"}
                              /\ delivery' = [delivery EXCEPT ![t] = "queued"]
        /\ UNCHANGED <<event, inbox>>
     \/ /\ \E t \in Targets, mark \in {"read", "unread"} :
             inbox[t] # "none" /\ inbox' = [inbox EXCEPT ![t] = mark]
        /\ UNCHANGED <<event, delivery>>

Next == Reach \/ GiveUp \/ (\E t \in Targets : Close(t)) \/ Ask

Spec == Init /\ [][Next]_vars
===============================================================================
