-------------------------- MODULE OrderLifecycle --------------------------
(***************************************************************************)
(* One order of the marketplace, from checkout to settlement: the row of   *)
(* app.orders and the rows that hang on it (the checkout hold, the latest  *)
(* delivery, the review hold, the cancellation request, the deadline       *)
(* proposal, the dispute).                                                 *)
(*                                                                         *)
(* Every command locks the order row for its whole transaction, so a       *)
(* command is one atomic action.  The database triggers that follow a      *)
(* status change (workload release, amendment expiry) run inside the same  *)
(* transaction and are part of the action that changes the status.         *)
(*                                                                         *)
(* The payment provider is not modelled here: what its verified facts do   *)
(* to the order row are the actions of the section "Payment facts", which  *)
(* may happen whenever the row allows them.  Module Payments models the    *)
(* journal, the provider and the webhooks those facts come from; both      *)
(* modules implement OrderMoney, the moves the money columns may make.     *)
(*                                                                         *)
(* The trigger app.order_transition_guard (drizzle/0004) is deliberately   *)
(* not a guard of any action: OrderMatrix states it, and that every step   *)
(* here respects it is checked and proved.                                 *)
(***************************************************************************)
EXTENDS Integers

CONSTANTS
    Amount,          \* orders.amount_minor
    RevisionLimit,   \* terms.revision_limit
    MaxDisputes,     \* bound: disputes opened on the order
    MaxRetries,      \* bound: a failed payment is retried only below this order version
    MaxDue           \* bound: deadline instants 1..MaxDue (0 = not set)

ASSUME AmountAssumption == Amount \in Nat \ {0}
ASSUME LimitAssumption == RevisionLimit \in 0..3
ASSUME BoundAssumption == MaxDisputes \in Nat /\ MaxRetries \in Nat /\ MaxDue \in Nat \ {0}

VARIABLES
    status,          \* orders.status
    payment,         \* orders.payment_status
    settlement,      \* orders.settlement_status
    method,          \* orders.funding_method ("NONE" = null)
    version,         \* orders.version
    refundDue,       \* orders.cancellation_refund_minor (NoAmount = null)
    before,          \* orders.status_before_dispute ("NONE" = null)
    claim,           \* workload_claims.state of the order's hold
    brief,           \* orders.brief_ready_at is set
    deliveryDue,     \* orders.delivery_due_at
    revisionDue,     \* orders.revision_due_at
    revisions,       \* orders.revision_count
    delivery,        \* version of the latest delivery, 0 = none
    viewed,          \* the latest delivery has buyer_viewed_at
    filesSafe,       \* every file of the latest delivery is READY
    review,          \* review_due_at: "NONE", "OPEN" (future), "CLOSED" (past)
    consent,         \* terms.auto_accept_consent; fixed at checkout
    hold,            \* the unresolved review hold
    request,         \* the REQUESTED cancellation request
    amendment,       \* the REQUESTED deadline proposal
    dispute,         \* an OPEN or UNDER_REVIEW dispute exists
    disputes,        \* disputes opened so far
    lateCase,        \* an open LATE_FUNDING reconciliation case exists
    refundReason     \* the reason in the request hash of the journaled refund operation ("NONE" = no operation)

rowVars == <<status, payment, settlement, method, version, refundDue, before>>
workVars == <<brief, deliveryDue, revisionDue, revisions, delivery, viewed, filesSafe, review, consent>>
sideVars == <<hold, request, amendment, dispute, disputes, lateCase, refundReason>>
vars == <<rowVars, claim, workVars, sideVars>>

NoAmount == -1
Parties == {"buyer", "creator"}
Statuses == {"AWAITING_PAYMENT", "FUNDED", "IN_PROGRESS", "DELIVERED", "REVISION_REQUESTED",
             "APPROVED", "COMPLETED", "DISPUTED", "CANCELLED", "REFUNDED"}
\* The states in which work is under way and both parties may still change the outcome.
Working == {"IN_PROGRESS", "DELIVERED", "REVISION_REQUESTED"}
PaymentStatuses == {"PENDING", "PROCESSING", "SUCCEEDED", "FAILED", "REFUND_PENDING",
                    "PARTIALLY_REFUNDED", "REFUNDED", "RETURNED"}
Unpaid == {"PENDING", "PROCESSING", "FAILED"}
SettlementStatuses == {"NOT_READY", "READY", "PENDING", "RELEASED", "FAILED"}
ClaimStates == {"HELD", "EXPIRY_RECONCILING", "ACTIVE", "DONE", "RELEASED"}
OpenHold == {"HELD", "EXPIRY_RECONCILING"}
RefundReasons == {"NONE", "BUYER_CANCELED_BEFORE_WORK", "MUTUAL_CANCELLATION", "OPERATOR_RESOLUTION"}
HoldReasons == {"DELIVERY_NOT_VALID", "NO_AUTO_ACCEPT_CONSENT", "NO_BUYER_NOTIFICATION_EVIDENCE"}

NoHold == [reason |-> "NONE", delivery |-> 0]
NoRequest == [by |-> "none", refund |-> 0, orderVersion |-> 0]
NoAmendment == [by |-> "none", deadline |-> "NONE", old |-> 0, new |-> 0]
Holds == [reason : HoldReasons, delivery : Nat] \cup {NoHold}
Requests == [by : Parties, refund : 0..Amount, orderVersion : Nat] \cup {NoRequest}
Amendments == [by : Parties, deadline : {"DELIVERY", "REVISION"}, old : 0..MaxDue, new : 0..MaxDue] \cup {NoAmendment}

(***************************************************************************)
(* What a status change does in the database besides the new status: the   *)
(* version must rise, the claim follows (drizzle/0012), an open deadline   *)
(* proposal expires unless work merely starts (drizzle/0020).              *)
(***************************************************************************)
ClaimAfter(new) ==
    IF new \in {"APPROVED", "COMPLETED"}
    THEN IF claim = "ACTIVE" THEN "DONE" ELSE claim
    ELSE IF new \in {"CANCELLED", "REFUNDED"} /\ claim \in OpenHold \cup {"ACTIVE"} THEN "RELEASED" ELSE claim

ToStatus(new) ==
    /\ status' = new
    /\ version' = version + 1
    /\ claim' = ClaimAfter(new)
    /\ amendment' = IF status = "FUNDED" /\ new = "IN_PROGRESS" THEN amendment ELSE NoAmendment

\* recomputeWorkClock: the due date is fixed when both instants are known, and never moved here.
ClockAfter(funded, ready) == IF funded /\ ready /\ deliveryDue = 0 THEN 1 ELSE deliveryDue

\* Mutant: the pending request is forgotten.
CloseReviewOnly == hold' = NoHold /\ request' = request

\* Leaving a review: the hold is resolved and a pending cancellation request expires.
CloseReview == hold' = NoHold /\ request' = NoRequest

Init ==
    /\ status = "AWAITING_PAYMENT" /\ payment = "PENDING" /\ settlement = "NOT_READY"
    /\ method = "NONE" /\ version = 0 /\ refundDue = NoAmount /\ before = "NONE"
    /\ claim = "HELD"
    /\ brief \in BOOLEAN /\ consent \in BOOLEAN
    /\ deliveryDue = 0 /\ revisionDue = 0 /\ revisions = 0
    /\ delivery = 0 /\ viewed = FALSE /\ filesSafe = TRUE /\ review = "NONE"
    /\ hold = NoHold /\ request = NoRequest /\ amendment = NoAmendment
    /\ dispute = FALSE /\ disputes = 0 /\ lateCase = FALSE /\ refundReason = "NONE"

-----------------------------------------------------------------------------
(* Order commands (src/modules/orders/commands.ts) *)

SubmitBrief ==
    /\ status \in {"AWAITING_PAYMENT", "FUNDED"} /\ ~brief
    /\ brief' = TRUE
    /\ deliveryDue' = ClockAfter(status = "FUNDED", TRUE)
    /\ UNCHANGED <<rowVars, claim, revisionDue, revisions, delivery, viewed, filesSafe, review, consent, sideVars>>

Start ==
    /\ status = "FUNDED" /\ brief
    /\ ToStatus("IN_PROGRESS")
    /\ UNCHANGED <<payment, settlement, method, refundDue, before, workVars, hold, request, dispute, disputes, lateCase, refundReason>>

Deliver ==
    /\ status \in {"IN_PROGRESS", "REVISION_REQUESTED"}
    /\ ToStatus("DELIVERED")
    /\ delivery' = delivery + 1 /\ viewed' = FALSE /\ filesSafe' = TRUE
    /\ review' = "OPEN" /\ revisionDue' = 0
    /\ CloseReview
    /\ UNCHANGED <<payment, settlement, method, refundDue, before, brief, deliveryDue, revisions, consent, dispute, disputes, lateCase, refundReason>>

\* The buyer names the delivery version seen; only the latest one is accepted.
Revision(seen) ==
    /\ status = "DELIVERED" /\ seen = delivery
    /\ review # "CLOSED" /\ revisions < RevisionLimit
    /\ ToStatus("REVISION_REQUESTED")
    /\ revisions' = revisions + 1 /\ revisionDue' = 1
    /\ CloseReview
    /\ UNCHANGED <<payment, settlement, method, refundDue, before, brief, deliveryDue, delivery, viewed, filesSafe, review, consent, dispute, disputes, lateCase, refundReason>>

\* approveOrder, shared by the buyer, the auto-accept job and dispute resolution.
ApproveOrder ==
    /\ ToStatus("APPROVED")
    /\ settlement' = "READY"
    /\ CloseReview
    /\ UNCHANGED <<payment, method, refundDue, before, workVars, disputes, lateCase, refundReason>>

Approve(seen) ==
    /\ status = "DELIVERED" /\ seen = delivery
    /\ ApproveOrder
    /\ UNCHANGED dispute

\* Mutant: a funded order may be disputed before work starts.
OpenDisputeEarly ==
    /\ status \in Working \cup {"FUNDED"} /\ disputes < MaxDisputes
    /\ dispute' = TRUE /\ disputes' = disputes + 1
    /\ before' = status
    /\ ToStatus("DISPUTED")
    /\ CloseReview
    /\ UNCHANGED <<payment, settlement, method, refundDue, workVars, lateCase, refundReason>>

OpenDispute ==
    /\ status \in Working /\ disputes < MaxDisputes
    /\ dispute' = TRUE /\ disputes' = disputes + 1
    /\ before' = status
    /\ ToStatus("DISPUTED")
    /\ CloseReview
    /\ UNCHANGED <<payment, settlement, method, refundDue, workVars, lateCase, refundReason>>

\* Before work starts.  From AWAITING_PAYMENT cancelOpenFunding has cancelled the open provider intent first; when it
\* refuses, the transaction rolls back and no step is taken here (module Payments models it).
Cancel ==
    /\ status \in {"AWAITING_PAYMENT", "FUNDED"}
    /\ ToStatus("CANCELLED")
    /\ payment' = IF payment = "SUCCEEDED" THEN "REFUND_PENDING" ELSE payment
    /\ refundReason' = IF payment = "SUCCEEDED" THEN "BUYER_CANCELED_BEFORE_WORK" ELSE refundReason
    /\ UNCHANGED <<settlement, method, refundDue, before, workVars, hold, request, dispute, disputes, lateCase>>

RequestCancellation(by, refund) ==
    /\ status \in Working /\ request = NoRequest
    /\ request' = [by |-> by, refund |-> refund, orderVersion |-> version]
    /\ UNCHANGED <<rowVars, claim, workVars, hold, amendment, dispute, disputes, lateCase, refundReason>>

WithdrawCancellation(actor) ==
    /\ request # NoRequest /\ actor = request.by
    /\ request' = NoRequest
    /\ UNCHANGED <<rowVars, claim, workVars, hold, amendment, dispute, disputes, lateCase, refundReason>>

\* The other party answers, and only for the order as it was when the request was made.
MayAnswer(actor) ==
    /\ request # NoRequest /\ actor # request.by
    /\ version = request.orderVersion /\ status \in Working

RejectCancellation(actor) ==
    /\ MayAnswer(actor)
    /\ request' = NoRequest
    /\ UNCHANGED <<rowVars, claim, workVars, hold, amendment, dispute, disputes, lateCase, refundReason>>

\* Mutant: the remainder is released even when nothing remains.
AcceptCancellationReady(actor) ==
    /\ MayAnswer(actor)
    /\ ToStatus("CANCELLED")
    /\ refundDue' = request.refund
    /\ payment' = IF request.refund > 0 THEN "REFUND_PENDING" ELSE payment
    /\ settlement' = "READY"
    /\ CloseReview
    /\ refundReason' = IF request.refund > 0 THEN "MUTUAL_CANCELLATION" ELSE refundReason
    /\ UNCHANGED <<method, before, workVars, dispute, disputes, lateCase>>

AcceptCancellation(actor) ==
    /\ MayAnswer(actor)
    /\ ToStatus("CANCELLED")
    /\ refundDue' = request.refund
    /\ payment' = IF request.refund > 0 THEN "REFUND_PENDING" ELSE payment
    /\ settlement' = IF request.refund < Amount THEN "READY" ELSE "NOT_READY"
    /\ CloseReview
    /\ refundReason' = IF request.refund > 0 THEN "MUTUAL_CANCELLATION" ELSE refundReason
    /\ UNCHANGED <<method, before, workVars, dispute, disputes, lateCase>>

\* refund: the buyer repeats the refund request of a cancelled order.  journal() takes it only under the reason of the
\* first request, because the reason is part of the request hash; the row changes when the provider confirms.
Refund ==
    /\ status = "CANCELLED" /\ payment = "REFUND_PENDING"
    /\ refundReason = IF refundDue # NoAmount THEN "MUTUAL_CANCELLATION" ELSE "BUYER_CANCELED_BEFORE_WORK"
    /\ UNCHANGED vars

\* recordBuyerView: only the first view of a delivery; it lifts a missing-evidence hold and restarts the window.
MarkDeliveryViewed ==
    /\ delivery > 0 /\ ~viewed
    /\ viewed' = TRUE
    /\ LET resumes == status = "DELIVERED" /\ hold.reason = "NO_BUYER_NOTIFICATION_EVIDENCE"
       IN  /\ hold' = IF resumes THEN NoHold ELSE hold
           /\ review' = IF resumes THEN "OPEN" ELSE review
    /\ UNCHANGED <<rowVars, claim, brief, deliveryDue, revisionDue, revisions, delivery, filesSafe, consent, request, amendment, dispute, disputes, lateCase, refundReason>>

-----------------------------------------------------------------------------
(* Deadline proposals (src/modules/orders/amendments.ts) *)

\* currentDeadline: the deadline an extension would move, "NONE" when there is none.
CurrentDeadline ==
    IF status \in {"FUNDED", "IN_PROGRESS"} /\ deliveryDue > 0 THEN "DELIVERY"
    ELSE IF status = "REVISION_REQUESTED" /\ revisionDue > 0 THEN "REVISION" ELSE "NONE"
DueOf(deadline) == IF deadline = "DELIVERY" THEN deliveryDue ELSE revisionDue

RequestDeadlineExtension(by, due) ==
    /\ CurrentDeadline # "NONE" /\ due > DueOf(CurrentDeadline)
    /\ amendment = NoAmendment
    /\ amendment' = [by |-> by, deadline |-> CurrentDeadline, old |-> DueOf(CurrentDeadline), new |-> due]
    /\ UNCHANGED <<rowVars, claim, workVars, hold, request, dispute, disputes, lateCase, refundReason>>

\* Withdrawn by the proposer or declined by the other party: whichever party acts, the proposal is gone.
DropDeadlineExtension ==
    /\ amendment # NoAmendment
    /\ amendment' = NoAmendment
    /\ UNCHANGED <<rowVars, claim, workVars, hold, request, dispute, disputes, lateCase, refundReason>>

AcceptDeadlineExtension(actor) ==
    /\ amendment # NoAmendment /\ actor # amendment.by
    /\ CurrentDeadline = amendment.deadline /\ amendment.old = DueOf(amendment.deadline)
    /\ amendment' = NoAmendment
    /\ deliveryDue' = IF amendment.deadline = "DELIVERY" THEN amendment.new ELSE deliveryDue
    /\ revisionDue' = IF amendment.deadline = "REVISION" THEN amendment.new ELSE revisionDue
    /\ version' = version + 1
    /\ UNCHANGED <<status, payment, settlement, method, refundDue, before, claim, brief, revisions, delivery, viewed, filesSafe, review, consent,
                   hold, request, dispute, disputes, lateCase, refundReason>>

-----------------------------------------------------------------------------
(* Time, the auto-accept job and operators *)

ReviewWindowCloses ==
    /\ review = "OPEN"
    /\ review' = "CLOSED"
    /\ UNCHANGED <<rowVars, claim, brief, deliveryDue, revisionDue, revisions, delivery, viewed, filesSafe, consent, sideVars>>

\* Mutant: only orders whose buyer consented are looked at.
AutoAcceptDueWithConsent ==
    /\ status = "DELIVERED" /\ review = "CLOSED" /\ hold = NoHold /\ consent
    /\ ~dispute /\ request = NoRequest

\* What the job re-checks under the lock before it decides.
AutoAcceptDue ==
    /\ status = "DELIVERED" /\ review = "CLOSED" /\ hold = NoHold
    /\ ~dispute /\ request = NoRequest

AutoAcceptHold(reason) ==
    /\ hold' = [reason |-> reason, delivery |-> delivery]
    /\ UNCHANGED <<rowVars, claim, workVars, request, amendment, dispute, disputes, lateCase, refundReason>>

\* autoAcceptDeliveries: approve with evidence, otherwise leave one hold for operators.
AutoAcceptDeliveries ==
    /\ AutoAcceptDue
    /\ \/ ~filesSafe /\ AutoAcceptHold("DELIVERY_NOT_VALID")
       \/ filesSafe /\ ~consent /\ AutoAcceptHold("NO_AUTO_ACCEPT_CONSENT")
       \/ filesSafe /\ consent /\ ~viewed /\ AutoAcceptHold("NO_BUYER_NOTIFICATION_EVIDENCE")
       \/ filesSafe /\ consent /\ viewed /\ ApproveOrder /\ UNCHANGED dispute

\* A moderator pulls a file of the latest delivery.
QuarantineFile ==
    /\ delivery > 0 /\ filesSafe
    /\ filesSafe' = FALSE
    /\ UNCHANGED <<rowVars, claim, brief, deliveryDue, revisionDue, revisions, delivery, viewed, review, consent, sideVars>>

ResolveResume ==
    /\ dispute /\ status = "DISPUTED"
    /\ ToStatus(before)
    /\ before' = "NONE" /\ dispute' = FALSE
    /\ review' = IF before = "DELIVERED" THEN "OPEN" ELSE review
    /\ UNCHANGED <<payment, settlement, method, refundDue, brief, deliveryDue, revisionDue, revisions, delivery, viewed, filesSafe, consent, hold, request, disputes, lateCase, refundReason>>

ResolveApprove ==
    /\ dispute /\ status = "DISPUTED" /\ delivery > 0
    /\ ApproveOrder
    /\ dispute' = FALSE

\* REFUND_FULL and REFUND_PARTIAL.
ResolveRefund(refund) ==
    /\ dispute /\ status = "DISPUTED" /\ payment = "SUCCEEDED"
    /\ ToStatus("CANCELLED")
    /\ payment' = "REFUND_PENDING"
    /\ refundDue' = IF refund < Amount THEN refund ELSE NoAmount
    /\ settlement' = IF refund < Amount THEN "READY" ELSE "NOT_READY"
    /\ before' = "NONE" /\ dispute' = FALSE
    /\ refundReason' = "OPERATOR_RESOLUTION"
    /\ UNCHANGED <<method, workVars, hold, request, disputes, lateCase>>

RefundLateFunding ==
    /\ lateCase /\ status = "CANCELLED" /\ payment \in Unpaid
    /\ payment' = "REFUND_PENDING"
    /\ refundReason' = "OPERATOR_RESOLUTION"
    /\ UNCHANGED <<status, settlement, method, version, refundDue, before, claim, workVars, hold, request, amendment, dispute, disputes, lateCase>>

\* An operator closes the LATE_FUNDING case (RESOLVED or IGNORED).
ResolveCase ==
    /\ lateCase
    /\ lateCase' = FALSE
    /\ UNCHANGED <<rowVars, claim, workVars, hold, request, amendment, dispute, disputes, refundReason>>

-----------------------------------------------------------------------------
(* Payment facts: what provider events and payment jobs do to the order row *)

\* A new attempt after a failure, funding.processing, funding.failed / funding.canceled.
PaymentProgress(new) ==
    /\ status = "AWAITING_PAYMENT"
    /\ \/ new = "PENDING" /\ payment = "FAILED" /\ claim = "HELD" /\ version < MaxRetries
       \/ new = "PROCESSING" /\ payment = "PENDING"
       \/ new = "FAILED" /\ payment \in {"PENDING", "PROCESSING"}
    /\ payment' = new /\ version' = version + 1
    /\ UNCHANGED <<status, settlement, method, refundDue, before, claim, workVars, sideVars>>

PaymentConfirmed(m) ==
    /\ status = "AWAITING_PAYMENT" /\ payment # "SUCCEEDED" /\ claim \in OpenHold
    /\ status' = "FUNDED" /\ payment' = "SUCCEEDED" /\ method' = m /\ version' = version + 1
    /\ deliveryDue' = ClockAfter(TRUE, brief)
    /\ claim' = "ACTIVE"
    /\ amendment' = NoAmendment
    /\ UNCHANGED <<settlement, refundDue, before, brief, revisionDue, revisions, delivery, viewed, filesSafe, review, consent,
                   hold, request, dispute, disputes, lateCase, refundReason>>

\* Funds captured that the order can no longer take: an operator case, no change to the row.
LateFunding ==
    /\ status # "AWAITING_PAYMENT" /\ payment # "SUCCEEDED"
    /\ lateCase' = TRUE
    /\ UNCHANGED <<rowVars, claim, workVars, hold, request, amendment, dispute, disputes, refundReason>>

\* expireCheckoutHolds when the open payment cannot be cancelled.
HoldReconciling ==
    /\ status = "AWAITING_PAYMENT" /\ claim = "HELD"
    /\ claim' = "EXPIRY_RECONCILING"
    /\ UNCHANGED <<rowVars, workVars, sideVars>>

\* expireCheckoutHolds when nothing is left open at the provider.
HoldExpired ==
    /\ status = "AWAITING_PAYMENT" /\ claim \in OpenHold
    /\ ToStatus("CANCELLED")
    /\ UNCHANGED <<payment, settlement, method, refundDue, before, workVars, hold, request, dispute, disputes, lateCase, refundReason>>

\* The bank sends a settled transfer back.
\* Mutant: a return is applied to an order already refunded.
BankReturnedAnyway ==
    /\ method = "BANK_TRANSFER" /\ payment # "RETURNED"
    /\ payment' = "RETURNED"
    /\ UNCHANGED <<status, settlement, method, version, refundDue, before, claim, workVars, sideVars>>

BankReturned ==
    /\ method = "BANK_TRANSFER" /\ payment \in {"SUCCEEDED", "REFUND_PENDING"}
    /\ payment' = "RETURNED"
    /\ \/ /\ status = "FUNDED"
          /\ ToStatus("CANCELLED")
          /\ settlement' = "NOT_READY"
       \/ /\ status # "FUNDED"
          /\ UNCHANGED <<status, version, claim, amendment, settlement>>
    /\ UNCHANGED <<method, refundDue, before, workVars, hold, request, dispute, disputes, lateCase, refundReason>>

\* refund.succeeded for the pending refund, which is the agreed part or the whole amount.
RefundConfirmed ==
    /\ payment = "REFUND_PENDING"
    /\ \/ /\ refundDue \in {NoAmount, Amount}
          /\ ToStatus("REFUNDED")
          /\ payment' = "REFUNDED" /\ settlement' = "NOT_READY"
       \/ /\ refundDue \notin {NoAmount, Amount}
          /\ payment' = "PARTIALLY_REFUNDED"
          /\ UNCHANGED <<status, version, claim, amendment, settlement>>
    /\ UNCHANGED <<method, refundDue, before, workVars, hold, request, dispute, disputes, lateCase, refundReason>>

ReleasePending ==
    /\ settlement = "READY"
    /\ settlement' = "PENDING" /\ version' = version + 1
    /\ UNCHANGED <<status, payment, method, refundDue, before, claim, workVars, sideVars>>

\* release.succeeded: an approved order completes, the remainder of a cancelled one is only settled.
ReleaseConfirmed ==
    /\ settlement \in {"READY", "PENDING"}
    /\ settlement' = "RELEASED"
    /\ \/ status = "APPROVED" /\ ToStatus("COMPLETED")
       \/ status # "APPROVED" /\ UNCHANGED <<status, version, claim, amendment>>
    /\ UNCHANGED <<payment, method, refundDue, before, workVars, hold, request, dispute, disputes, lateCase, refundReason>>

ReleaseFailed ==
    /\ settlement \in {"READY", "PENDING"}
    /\ settlement' = "FAILED" /\ version' = version + 1
    /\ UNCHANGED <<status, payment, method, refundDue, before, claim, workVars, sideVars>>

-----------------------------------------------------------------------------
Command ==
    \/ SubmitBrief \/ Start \/ Deliver \/ OpenDispute \/ Cancel \/ Refund \/ MarkDeliveryViewed
    \/ \E seen \in 1..delivery : Revision(seen) \/ Approve(seen)
    \/ \E actor \in Parties :
          \/ \E refund \in 0..Amount : RequestCancellation(actor, refund)
          \/ WithdrawCancellation(actor) \/ RejectCancellation(actor) \/ AcceptCancellation(actor)
          \/ \E due \in 1..MaxDue : RequestDeadlineExtension(actor, due)
          \/ AcceptDeadlineExtension(actor)
    \/ DropDeadlineExtension

Operator ==
    \/ QuarantineFile \/ ResolveResume \/ ResolveApprove
    \/ \E refund \in 1..Amount : ResolveRefund(refund)
    \/ RefundLateFunding \/ ResolveCase

PaymentFact ==
    \/ \E new \in {"PENDING", "PROCESSING", "FAILED"} : PaymentProgress(new)
    \/ \E m \in {"CARD", "BANK_TRANSFER"} : PaymentConfirmed(m)
    \/ LateFunding \/ HoldReconciling \/ HoldExpired \/ BankReturned
    \/ RefundConfirmed \/ ReleasePending \/ ReleaseConfirmed \/ ReleaseFailed

Next == Command \/ Operator \/ PaymentFact \/ ReviewWindowCloses \/ AutoAcceptDeliveries

Spec == Init /\ [][Next]_vars

-----------------------------------------------------------------------------
(* Properties *)

\* Every column keeps its domain.
TypeOK ==
    /\ status \in Statuses /\ payment \in PaymentStatuses /\ settlement \in SettlementStatuses
    /\ method \in {"NONE", "CARD", "BANK_TRANSFER"} /\ version \in Nat
    /\ refundDue \in {NoAmount} \cup 0..Amount /\ before \in Working \cup {"NONE"}
    /\ claim \in ClaimStates
    /\ brief \in BOOLEAN /\ consent \in BOOLEAN /\ viewed \in BOOLEAN /\ filesSafe \in BOOLEAN
    /\ deliveryDue \in 0..MaxDue /\ revisionDue \in 0..MaxDue
    /\ revisions \in 0..RevisionLimit /\ delivery \in Nat
    /\ review \in {"NONE", "OPEN", "CLOSED"}
    /\ hold \in Holds /\ request \in Requests /\ amendment \in Amendments
    /\ dispute \in BOOLEAN /\ disputes \in 0..MaxDisputes /\ lateCase \in BOOLEAN
    /\ refundReason \in RefundReasons

\* The creator's claim mirrors the order: held while unpaid, active exactly while the order can still need work,
\* done or released exactly when it no longer can.  The claim is moved by funding.ts and by a trigger on
\* orders.status, never by the command that changes the order.
ClaimFollowsOrder ==
    /\ status = "AWAITING_PAYMENT" <=> claim \in OpenHold
    /\ status \in Working \cup {"FUNDED", "DISPUTED"} <=> claim = "ACTIVE"
    /\ status \in {"APPROVED", "COMPLETED"} <=> claim = "DONE"

\* A dispute is open exactly while the order is DISPUTED, and the state to resume is then known and was a working one.
DisputeMatchesStatus ==
    /\ dispute <=> status = "DISPUTED"
    /\ status = "DISPUTED" => before \in Working

\* A pending cancellation request never outlives the work it would cancel, whichever of deliver, revision, approve,
\* dispute, auto-accept or an accepted request ends that state; and the request that keeps a delivered order from being
\* auto-accepted still stands, so the other party can always answer it.
RequestOnlyWhileWorking ==
    request # NoRequest =>
        /\ status \in Working /\ request.orderVersion <= version
        /\ status = "DELIVERED" => request.orderVersion = version

\* An unresolved review hold is about the delivery now under review, after its window closed; the hold for missing
\* evidence exists only while the buyer has not opened that delivery, so a view always lifts it.
HoldIsForReview ==
    hold # NoHold =>
        /\ status = "DELIVERED" /\ review = "CLOSED" /\ hold.delivery = delivery
        /\ hold.reason = "NO_BUYER_NOTIFICATION_EVIDENCE" => ~viewed

\* An open deadline proposal is always against the deadline the order is working to, as it stands: the re-check of
\* respondDeadlineExtension can never refuse an accepted proposal for a changed deadline.
ProposalMatchesDeadline ==
    amendment # NoAmendment =>
        amendment.deadline = CurrentDeadline /\ amendment.old = DueOf(CurrentDeadline) /\ amendment.old < amendment.new

\* The status the order would have without the dispute.
WorkStatus == IF status = "DISPUTED" THEN before ELSE status

\* Each delivery after the first answers one revision request, across disputes and resumptions; an order is approved
\* only on a delivery, the one that answers the last request unless an operator approved over an unanswered one.
DeliveriesAnswerRevisions ==
    /\ WorkStatus \in {"AWAITING_PAYMENT", "FUNDED", "IN_PROGRESS"} => delivery = 0 /\ revisions = 0
    /\ WorkStatus = "DELIVERED" => delivery = revisions + 1
    /\ WorkStatus = "REVISION_REQUESTED" => delivery = revisions /\ delivery > 0
    /\ status \in {"APPROVED", "COMPLETED"} => delivery > 0 /\ delivery \in revisions..revisions + 1

\* The records beside the order agree with it, through every interleaving of the parties' commands, the jobs and the
\* operators: the creator's claim, its dispute, its cancellation request, its review hold, its deadline proposal and its
\* deliveries.  Each is closed by the command that makes it pointless, or by a trigger; one left behind would leave the
\* order stuck or the creator's units counted.
SideRecordsAgree ==
    /\ ClaimFollowsOrder /\ DisputeMatchesStatus /\ RequestOnlyWhileWorking /\ HoldIsForReview
    /\ ProposalMatchesDeadline /\ DeliveriesAnswerRevisions

\* Money follows the outcome: the creator is settled only on an approved order or for the remainder of an agreed or
\* decided partial refund, never while the order is disputed or still in work; refunds exist only after the order ended,
\* and an order that looks unpaid is waiting for payment or was cancelled.
MoneyFollowsOutcome ==
    /\ settlement # "NOT_READY" => status \in {"APPROVED", "COMPLETED"} \/ (status = "CANCELLED" /\ refundDue \in 0..(Amount - 1))
    /\ status = "COMPLETED" => settlement = "RELEASED"
    /\ status = "APPROVED" => settlement # "NOT_READY" /\ settlement # "RELEASED"
    /\ payment \in {"REFUND_PENDING", "PARTIALLY_REFUNDED"} => status = "CANCELLED"
    /\ payment = "REFUNDED" <=> status = "REFUNDED"
    /\ refundDue # NoAmount => status \in {"CANCELLED", "REFUNDED"}
    /\ status = "AWAITING_PAYMENT" => payment \in Unpaid
    /\ payment \in Unpaid => status \in {"AWAITING_PAYMENT", "CANCELLED"}
    /\ status = "FUNDED" => payment = "SUCCEEDED"

Matrix == INSTANCE OrderMatrix

\* Every step of every command, job and payment fact respects the transition matrix of drizzle/0004 and the claim
\* state machine of drizzle/0012, so neither trigger ever aborts one of them.
MatrixRespected == Matrix!Spec

Money == INSTANCE OrderMoney WITH stage <- IF status \in Working \cup {"DISPUTED"} THEN "WORKING" ELSE status

\* Disputes, resumptions, revisions, requests and deadlines never move money on their own: every step of every command
\* and job is one of the money moves of OrderMoney or leaves the money columns alone.
MoneyMovesRespected == Money!Spec

\* The review window always ends in a decision: the order leaves DELIVERED, or one hold waits for an operator, or a
\* cancellation request waits for an answer.
ReviewIsDecided ==
    status = "DELIVERED" ~> (status # "DELIVERED" \/ hold # NoHold \/ request # NoRequest)

\* Time passes and the cron endpoint keeps running the jobs.
FairSpec == Spec /\ WF_vars(ReviewWindowCloses) /\ WF_vars(AutoAcceptDeliveries)

=============================================================================
