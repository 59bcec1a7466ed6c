--------------------------- MODULE OrderMatrix ---------------------------
(***************************************************************************)
(* What the database promises of an order, whoever changes it: the         *)
(* transition matrix of app.order_transition_guard (drizzle/0004) and the  *)
(* state machine of the order's workload claim, app.workload_claim_guard   *)
(* (drizzle/0012).  In the deployed system both are triggers that abort a  *)
(* transaction; here they are the whole specification.  A detailed         *)
(* specification that implements it never trips them.                      *)
(***************************************************************************)
EXTENDS Integers

VARIABLES status, version, claim

OrderTransitions ==
    [AWAITING_PAYMENT   |-> {"FUNDED", "CANCELLED"},
     FUNDED             |-> {"IN_PROGRESS", "CANCELLED"},
     IN_PROGRESS        |-> {"DELIVERED", "DISPUTED", "CANCELLED"},
     DELIVERED          |-> {"REVISION_REQUESTED", "APPROVED", "DISPUTED", "CANCELLED"},
     REVISION_REQUESTED |-> {"DELIVERED", "DISPUTED", "CANCELLED"},
     APPROVED           |-> {"COMPLETED"},
     DISPUTED           |-> {"IN_PROGRESS", "DELIVERED", "REVISION_REQUESTED", "APPROVED", "CANCELLED"},
     CANCELLED          |-> {"REFUNDED"},
     COMPLETED          |-> {},
     REFUNDED           |-> {}]

ClaimTransitions ==
    [HELD               |-> {"EXPIRY_RECONCILING", "ACTIVE", "RELEASED"},
     EXPIRY_RECONCILING |-> {"HELD", "ACTIVE", "RELEASED"},
     ACTIVE             |-> {"DONE", "RELEASED"},
     DONE               |-> {},
     RELEASED           |-> {}]

Init == status = "AWAITING_PAYMENT" /\ version = 0 /\ claim = "HELD"

\* A status change follows the matrix and raises the version.
StatusStep == status' \in OrderTransitions[status] /\ version' > version

\* Other updates keep the status and never lower the version.
RowStep == status' = status /\ version' >= version

ClaimStep == claim' = claim \/ claim' \in ClaimTransitions[claim]

Next == (StatusStep \/ RowStep) /\ ClaimStep

Spec == Init /\ [][Next]_<<status, version, claim>>

=============================================================================
