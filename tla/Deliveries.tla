------------------------------ MODULE Deliveries ------------------------------
(***************************************************************************)
(* What the webhook contract promises about one event of a build, however  *)
(* often it is sent: the control plane settles it at most once, and the    *)
(* build takes it as delivered only when it has been settled.              *)
(*                                                                         *)
(* This is the abstract specification that WebhookDelivery implements.     *)
(***************************************************************************)
CONSTANT Events     \* the events of a build, one idempotency key each

VARIABLES
  effect,     \* what the control plane has made of each event
  outcome     \* what the build believes about it

deliveryVars == <<effect, outcome>>

\* An event is ignored when its run has ended or is not there.
Settled == {"applied", "ignored"}
Effect  == Settled \union {"none"}
Outcome == {"pending", "delivered", "failed"}

DeliveriesInit ==
  /\ effect  = [e \in Events |-> "none"]
  /\ outcome = [e \in Events |-> "pending"]

Settle(e) ==
  /\ effect[e] = "none"
  /\ \E how \in Settled : effect' = [effect EXCEPT ![e] = how]
  /\ UNCHANGED outcome

Deliver(e) ==
  /\ outcome[e] = "pending"
  /\ effect[e] \in Settled
  /\ outcome' = [outcome EXCEPT ![e] = "delivered"]
  /\ UNCHANGED effect

\* A build may give up on an event that was settled: the answers were lost.
GiveUp(e) ==
  /\ outcome[e] = "pending"
  /\ outcome' = [outcome EXCEPT ![e] = "failed"]
  /\ UNCHANGED effect

DeliveriesNext == \E e \in Events : Settle(e) \/ Deliver(e) \/ GiveUp(e)

DeliveriesSpec == DeliveriesInit /\ [][DeliveriesNext]_deliveryVars
=============================================================================
