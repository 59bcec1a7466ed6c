---------------------------- MODULE OrderMoney ----------------------------
(***************************************************************************)
(* The moves the money columns of an order may make: the promise of the    *)
(* payment rail to the rest of the marketplace.  No provider, no journal   *)
(* and no events; work is one stage.  OrderLifecycle (every command, no    *)
(* provider), Payments and ChainPayouts (the rails, no details of the      *)
(* work) implement it, so what one leaves out no other may contradict.     *)
(***************************************************************************)
EXTENDS Integers

CONSTANT Amount

VARIABLES
    stage,        \* orders.status, with the states of work and dispute as WORKING
    payment,      \* orders.payment_status
    settlement,   \* orders.settlement_status
    refundDue     \* orders.cancellation_refund_minor

moneyVars == <<stage, payment, settlement, refundDue>>

NoAmount == -1
Unpaid == {"PENDING", "PROCESSING", "FAILED"}

Init ==
    /\ stage = "AWAITING_PAYMENT" /\ payment = "PENDING"
    /\ settlement = "NOT_READY" /\ refundDue = NoAmount

-----------------------------------------------------------------------------
(* Funding *)

Attempt ==
    /\ stage = "AWAITING_PAYMENT"
    /\ <<payment, payment'>> \in {<<"FAILED", "PENDING">>, <<"PENDING", "PROCESSING">>,
                                  <<"PENDING", "FAILED">>, <<"PROCESSING", "FAILED">>}
    /\ UNCHANGED <<stage, settlement, refundDue>>

Fund ==
    /\ stage = "AWAITING_PAYMENT" /\ payment \in Unpaid
    /\ stage' = "FUNDED" /\ payment' = "SUCCEEDED"
    /\ UNCHANGED <<settlement, refundDue>>

Work == stage = "FUNDED" /\ stage' = "WORKING" /\ UNCHANGED <<payment, settlement, refundDue>>

-----------------------------------------------------------------------------
(* Outcomes *)

CancelBeforeWork ==
    /\ stage \in {"AWAITING_PAYMENT", "FUNDED"}
    /\ stage' = "CANCELLED"
    /\ payment' = IF payment = "SUCCEEDED" THEN "REFUND_PENDING" ELSE payment
    /\ UNCHANGED <<settlement, refundDue>>

Approve ==
    /\ stage = "WORKING"
    /\ stage' = "APPROVED" /\ settlement' = "READY"
    /\ UNCHANGED <<payment, refundDue>>

\* The parties agree on a refund; the rest, if any, is the creator's.
Agree(refund) ==
    /\ stage = "WORKING"
    /\ stage' = "CANCELLED" /\ refundDue' = refund
    /\ payment' = IF refund > 0 THEN "REFUND_PENDING" ELSE payment
    /\ settlement' = IF refund < Amount THEN "READY" ELSE "NOT_READY"

\* An operator decides a refund of confirmed funds; a full refund is not written down as an amount.
Decide(refund) ==
    /\ stage = "WORKING" /\ payment = "SUCCEEDED"
    /\ stage' = "CANCELLED" /\ payment' = "REFUND_PENDING"
    /\ refundDue' = IF refund < Amount THEN refund ELSE NoAmount
    /\ settlement' = IF refund < Amount THEN "READY" ELSE "NOT_READY"

RefundLate ==
    /\ stage = "CANCELLED" /\ payment \in Unpaid
    /\ payment' = "REFUND_PENDING"
    /\ UNCHANGED <<stage, settlement, refundDue>>

-----------------------------------------------------------------------------
(* Facts *)

Returned ==
    /\ payment \in {"SUCCEEDED", "REFUND_PENDING"}
    /\ payment' = "RETURNED"
    /\ stage' = IF stage = "FUNDED" THEN "CANCELLED" ELSE stage
    /\ UNCHANGED <<settlement, refundDue>>

Refunded ==
    /\ stage = "CANCELLED" /\ payment = "REFUND_PENDING"
    /\ LET full == refundDue \in {NoAmount, Amount}
       IN  /\ payment' = IF full THEN "REFUNDED" ELSE "PARTIALLY_REFUNDED"
           /\ stage' = IF full THEN "REFUNDED" ELSE stage
    /\ UNCHANGED <<settlement, refundDue>>

Settle ==
    /\ <<settlement, settlement'>> \in {<<"READY", "PENDING">>, <<"READY", "RELEASED">>, <<"PENDING", "RELEASED">>,
                                        <<"READY", "FAILED">>, <<"PENDING", "FAILED">>}
    /\ stage' = IF stage = "APPROVED" /\ settlement' = "RELEASED" THEN "COMPLETED" ELSE stage
    /\ UNCHANGED <<payment, refundDue>>

Next ==
    \/ Attempt \/ Fund \/ Work \/ CancelBeforeWork \/ Approve \/ RefundLate
    \/ \E refund \in 0..Amount : Agree(refund)
    \/ \E refund \in 1..Amount : Decide(refund)
    \/ Returned \/ Refunded \/ Settle

Spec == Init /\ [][Next]_moneyVars

-----------------------------------------------------------------------------
\* What the money columns record is never taken back or renegotiated: a release, a refund, the refund agreed on, the
\* end of the order.  A late event, a retry or a second decision finds it and leaves it (payment_status RETURNED is not
\* among them: a refund agreed after a bank return moves it on).
Recorded ==
    /\ settlement = "RELEASED" => settlement' = settlement
    /\ payment \in {"REFUNDED", "PARTIALLY_REFUNDED"} => payment' = payment
    /\ refundDue # NoAmount => refundDue' = refundDue
    /\ stage \in {"COMPLETED", "REFUNDED"} => stage' = stage
RecordedStays == [][Recorded]_moneyVars

=============================================================================
