---------------------------- MODULE DeliveryLedger ----------------------------
(***************************************************************************)
(* What the notification engine promises about each delivery, without      *)
(* leases, workers or attempts.  While a delivery is open the provider may *)
(* take the message, which the engine need not notice.  The engine then    *)
(* concludes: "delivered" and "notDelivered" only when that is so, and     *)
(* "indeterminate" when it cannot tell.  An administrator may reopen what  *)
(* was not delivered for certain; a delivered one stays delivered.         *)
(***************************************************************************)
CONSTANT Deliveries

VARIABLES
  status,   \* "open", or what was concluded
  taken     \* the provider took the message at least once

vars == <<status, taken>>

Concluded == {"delivered", "notDelivered", "indeterminate"}

Init ==
  /\ status = [d \in Deliveries |-> "open"]
  /\ taken \in [Deliveries -> BOOLEAN]

Take(d) ==
  /\ status[d] = "open"
  /\ taken' = [taken EXCEPT ![d] = TRUE]
  /\ UNCHANGED status

Conclude(d) ==
  /\ status[d] = "open"
  /\ \E s \in Concluded :
       /\ s = "delivered" => taken[d]
       /\ s = "notDelivered" => ~taken[d]
       /\ status' = [status EXCEPT ![d] = s]
  /\ UNCHANGED taken

Reopen(d) ==
  /\ status[d] \in {"notDelivered", "indeterminate"}
  /\ status' = [status EXCEPT ![d] = "open"]
  /\ UNCHANGED taken

Next == \E d \in Deliveries : Take(d) \/ Conclude(d) \/ Reopen(d)

Spec == Init /\ [][Next]_vars
===============================================================================
