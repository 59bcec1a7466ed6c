----------------------------- MODULE OrderPage -----------------------------
(***************************************************************************)
(* The order page of a service order: what getOrderData reads for a party, *)
(* which forms the panels of the page then offer, and which of them the    *)
(* server would take.  The page is computed from the rows and changes      *)
(* nothing but the view evidence (MarkDeliveryViewed), so this module adds *)
(* operators and no variable.  The forms of the two checkouts (Payments,   *)
(* ChainDeposits), messages, reviews and reports are not part of it.       *)
(***************************************************************************)
EXTENDS OrderLifecycle

\* OrderPage: opening the page records the buyer's view first, so the buyer never sees an unrecorded delivery.
Opened(p) == p = "buyer" => delivery = 0 \/ viewed

\* getOrderData: the columns and the pending rows the panels decide on.
GetOrderData ==
    [status |-> status, payment |-> payment, briefReady |-> brief,
     deliveryDue |-> deliveryDue > 0, revisionDue |-> revisionDue > 0,
     latestDelivery |-> delivery, revisionsLeft |-> RevisionLimit - revisions,
     activeCancellation |-> request.by, activeAmendment |-> amendment.by]

\* Mutant: work can be started before the brief is complete.
NextStepOffersAnyBrief(p, o) ==
    LET party == p \in Parties
        cancellation == o.activeCancellation # "none"
    IN  [submit_brief |-> p = "buyer" /\ ~o.briefReady /\ o.status \in {"AWAITING_PAYMENT", "FUNDED"},
         start |-> p = "creator" /\ o.status = "FUNDED",
         approve |-> p = "buyer" /\ o.status = "DELIVERED" /\ o.latestDelivery > 0,
         revision |-> p = "buyer" /\ o.status = "DELIVERED" /\ o.latestDelivery > 0 /\ o.revisionsLeft > 0,
         dispute |-> party /\ o.status \in Working,
         cancel |-> party /\ o.status \in {"AWAITING_PAYMENT", "FUNDED"},
         withdraw_cancellation |-> cancellation /\ p = o.activeCancellation,
         accept_cancellation |-> cancellation /\ p # o.activeCancellation,
         reject_cancellation |-> cancellation /\ p # o.activeCancellation,
         request_cancellation |-> ~cancellation /\ party /\ o.status \in Working,
         refund |-> p = "buyer" /\ o.status = "CANCELLED" /\ o.payment = "REFUND_PENDING"]

\* OrderNextStepPanel.
NextStepOffers(p, o) ==
    LET party == p \in Parties
        cancellation == o.activeCancellation # "none"
    IN  [submit_brief |-> p = "buyer" /\ ~o.briefReady /\ o.status \in {"AWAITING_PAYMENT", "FUNDED"},
         start |-> p = "creator" /\ o.status = "FUNDED" /\ o.briefReady,
         approve |-> p = "buyer" /\ o.status = "DELIVERED" /\ o.latestDelivery > 0,
         revision |-> p = "buyer" /\ o.status = "DELIVERED" /\ o.latestDelivery > 0 /\ o.revisionsLeft > 0,
         dispute |-> party /\ o.status \in Working,
         cancel |-> party /\ o.status \in {"AWAITING_PAYMENT", "FUNDED"},
         withdraw_cancellation |-> cancellation /\ p = o.activeCancellation,
         accept_cancellation |-> cancellation /\ p # o.activeCancellation,
         reject_cancellation |-> cancellation /\ p # o.activeCancellation,
         request_cancellation |-> ~cancellation /\ party /\ o.status \in Working,
         refund |-> p = "buyer" /\ o.status = "CANCELLED" /\ o.payment = "REFUND_PENDING"]

\* OrderDeliveryPanel.
DeliveryOffers(p, o) == [deliver |-> p = "creator" /\ o.status \in {"IN_PROGRESS", "REVISION_REQUESTED"}]

\* OrderDeadlinePanel: the open proposal with the viewer's answer, or a form to propose a later date.
DeadlineOffers(p, o) ==
    LET due == \/ o.status \in {"FUNDED", "IN_PROGRESS"} /\ o.deliveryDue
               \/ o.status = "REVISION_REQUESTED" /\ o.revisionDue
        active == o.activeAmendment # "none"
    IN  [withdraw_extension |-> active /\ p = o.activeAmendment,
         accept_extension |-> active /\ p # o.activeAmendment,
         reject_extension |-> active /\ p # o.activeAmendment,
         request_extension |-> ~active /\ due]

\* A form that is offered, by the panel that shows it.
Offered(p, c) ==
    LET o == GetOrderData
        panels == {NextStepOffers(p, o), DeliveryOffers(p, o), DeadlineOffers(p, o)}
    IN  \E panel \in panels : c \in DOMAIN panel /\ panel[c]

\* The command behind a form, for the party that sends it (withOrder: isBuyer, isCreator, the latest delivery shown).
Sends(p, c) ==
    \/ c = "submit_brief" /\ p = "buyer" /\ SubmitBrief
    \/ c = "start" /\ p = "creator" /\ Start
    \/ c = "deliver" /\ p = "creator" /\ Deliver
    \/ c = "approve" /\ p = "buyer" /\ Approve(delivery)
    \/ c = "revision" /\ p = "buyer" /\ Revision(delivery)
    \/ c = "dispute" /\ OpenDispute
    \/ c = "cancel" /\ Cancel
    \/ c = "request_cancellation" /\ \E refund \in 0..Amount : RequestCancellation(p, refund)
    \/ c = "withdraw_cancellation" /\ WithdrawCancellation(p)
    \/ c = "accept_cancellation" /\ AcceptCancellation(p)
    \/ c = "reject_cancellation" /\ RejectCancellation(p)
    \/ c = "refund" /\ p = "buyer" /\ Refund
    \/ c = "request_extension" /\ \E due \in 1..MaxDue : RequestDeadlineExtension(p, due)
    \/ c = "withdraw_extension" /\ p = amendment.by /\ DropDeadlineExtension
    \/ c = "reject_extension" /\ p # amendment.by /\ DropDeadlineExtension
    \/ c = "accept_extension" /\ AcceptDeadlineExtension(p)

Forms == {"submit_brief", "start", "deliver", "approve", "revision", "dispute", "cancel", "request_cancellation",
          "withdraw_cancellation", "accept_cancellation", "reject_cancellation", "refund",
          "request_extension", "withdraw_extension", "reject_extension", "accept_extension"}

\* The checks a command makes on the locked order before it changes anything: the guard of each disjunct of Sends,
\* without what the command then writes.
Accepts(p, c) ==
    \/ c = "submit_brief" /\ p = "buyer" /\ status \in {"AWAITING_PAYMENT", "FUNDED"} /\ ~brief
    \/ c = "start" /\ p = "creator" /\ status = "FUNDED" /\ brief
    \/ c = "deliver" /\ p = "creator" /\ status \in {"IN_PROGRESS", "REVISION_REQUESTED"}
    \/ c = "approve" /\ p = "buyer" /\ status = "DELIVERED"
    \/ c = "revision" /\ p = "buyer" /\ status = "DELIVERED" /\ review # "CLOSED" /\ revisions < RevisionLimit
    \/ c = "dispute" /\ status \in Working /\ disputes < MaxDisputes
    \/ c = "cancel" /\ status \in {"AWAITING_PAYMENT", "FUNDED"}
    \/ c = "request_cancellation" /\ status \in Working /\ request = NoRequest
    \/ c = "withdraw_cancellation" /\ request # NoRequest /\ p = request.by
    \/ c \in {"accept_cancellation", "reject_cancellation"} /\ MayAnswer(p)
    \/ c = "refund" /\ p = "buyer" /\ status = "CANCELLED" /\ payment = "REFUND_PENDING"
          /\ refundReason = IF refundDue # NoAmount THEN "MUTUAL_CANCELLATION" ELSE "BUYER_CANCELED_BEFORE_WORK"
    \/ c = "request_extension" /\ CurrentDeadline # "NONE" /\ DueOf(CurrentDeadline) < MaxDue /\ amendment = NoAmendment
    \/ c = "withdraw_extension" /\ amendment # NoAmendment /\ p = amendment.by
    \/ c = "reject_extension" /\ amendment # NoAmendment /\ p # amendment.by
    \/ c = "accept_extension" /\ amendment # NoAmendment /\ p # amendment.by
          /\ CurrentDeadline = amendment.deadline /\ amendment.old = DueOf(amendment.deadline)

\* Forms the page shows although the server refuses, or may refuse, the command behind them:
\*   - a revision after the review window closed;
\*   - an answer to a cancellation request made before an accepted deadline extension raised the order's version;
\*   - a refund an operator decided on: its retry has another reason, and journal() refuses another request hash;
\*   - a cancellation before payment, which cancelOpenFunding refuses while a payment attempt is unresolved, a deposit
\*     awaits finality, a bank transfer is on its way or the charge is already captured.  The panel reads none of that.
ShownTooLong(c) ==
    \/ c = "revision" /\ review = "CLOSED"
    \/ c \in {"accept_cancellation", "reject_cancellation"} /\ request.orderVersion < version
    \/ c = "refund" /\ refundReason = "OPERATOR_RESOLUTION"
    \/ c = "cancel" /\ status = "AWAITING_PAYMENT"

\* The model's own bounds on disputes and instants.
BeyondBounds(c) ==
    \/ c = "dispute" /\ disputes = MaxDisputes
    \/ c = "request_extension" /\ CurrentDeadline # "NONE" /\ DueOf(CurrentDeadline) = MaxDue

\* No party is left without the form for a move the order still allows, whichever of the other party, a job, an operator
\* or a provider event made the last step: in every reachable state, a command that the server would take from a party
\* has its form on that party's page.  And a form on the page is one the server takes, the four forms that are shown too
\* long apart.
OffersMatchCommands ==
    \A p \in Parties : Opened(p) => \A c \in Forms :
        /\ ENABLED Sends(p, c) => Offered(p, c)
        /\ Offered(p, c) => ENABLED Sends(p, c) \/ ShownTooLong(c) \/ BeyondBounds(c)

\* The same with the checks of the commands written out, for the proof: a command that passes its own checks on the row
\* has its form on the page, and a form on the page passes them unless it is shown too long.
OffersMatchGuards ==
    \A p \in Parties : Opened(p) => \A c \in Forms :
        /\ Accepts(p, c) => Offered(p, c)
        /\ Offered(p, c) => Accepts(p, c) \/ ShownTooLong(c) \/ BeyondBounds(c)
=============================================================================
