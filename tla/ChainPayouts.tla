---------------------------- MODULE ChainPayouts ----------------------------
(***************************************************************************)
(* The crypto rail of one order (src/modules/payments/funding.ts) and the  *)
(* outbox that pays it and a pool allocation beside it                     *)
(* (src/modules/crypto/payouts.ts), on top of the escrow contract.         *)
(*                                                                         *)
(* Business transactions only queue payouts.  Workers then take one or     *)
(* several: a transaction that locks the row, a look at the contract, a    *)
(* transaction that signs, a submission outside any transaction, and a     *)
(* transaction that records the outcome.  Between any two of these another *)
(* worker may act on the same row, the worker may die, and a transaction   *)
(* whose receipt never came may still be mined.                            *)
(***************************************************************************)
EXTENDS SpacaEscrow

CONSTANTS
    Workers,       \* overlapping runs of the dispatch jobs
    MaxAttempts,   \* MAX_ATTEMPTS
    MaxFaults      \* bound: RPC failures, unconfirmed receipts, disabled networks and crashes

\* An order has a freeze and an unfreeze, and one reference for its release and one for its refund.
ASSUME PayoutsAssumption ==
    /\ MaxAttempts \in Nat \ {0} /\ MaxFaults \in Nat
    /\ \A kind \in Freezes : \E p \in Payouts : Kind[p] = kind
    /\ \A p, q \in Payouts : Kind[p] = Kind[q] /\ Kind[p] \in {"ORDER_RELEASE", "ORDER_REFUND"} /\ AmountOf[p] = AmountOf[q] => p = q

VARIABLES
    stage, payment, settlement, refundDue,   \* the order row, its states of work as WORKING
    dispute,      \* the order's dispute: "NONE", "OPEN", "RESOLVED"
    payoutRow,    \* chain_payouts: [state, attempts]
    worker,       \* what each worker holds: [phase, ids, auths, outcome]
    payoutFaults

orderRow == <<stage, payment, settlement, refundDue, dispute>>
payoutVars == <<escrowVars, orderRow, payoutRow, worker, payoutFaults>>

NoAmount == -1
Amount == Deposit
Idle == [phase |-> "idle", ids |-> {}, auths |-> {}, outcome |-> "NONE"]
Of(kind) == CHOOSE p \in Payouts : Kind[p] = kind
Final == {"CONFIRMED", "FAILED"}
DueUnlessStuck == {"QUEUED", "RETRY", "UNKNOWN"}
Due == {"QUEUED", "RETRY", "UNKNOWN", "SUBMITTING"}
OrderBucket == BucketOf[Of("FREEZE")]

PayoutInit ==
    /\ EscrowInit
    /\ stage = "AWAITING_PAYMENT" /\ payment = "PENDING" /\ settlement = "NOT_READY" /\ refundDue = NoAmount
    /\ dispute = "NONE" /\ payoutFaults = 0
    /\ payoutRow = [p \in Payouts |-> [state |-> "NONE", attempts |-> 0]]
    /\ worker = [w \in Workers |-> Idle]

-----------------------------------------------------------------------------
(* The order *)

\* enqueueChainPayout: the reference is unique, a second request finds the first.
Enqueue(ps) ==
    payoutRow' = [p \in Payouts |-> IF p \in ps /\ payoutRow[p].state = "NONE"
                                    THEN [state |-> "QUEUED", attempts |-> 0] ELSE payoutRow[p]]

\* A final deposit is credited (applyChainFunding).
CreditDeposit ==
    /\ stage = "AWAITING_PAYMENT" /\ FundBucket(OrderBucket)
    /\ stage' = "FUNDED" /\ payment' = "SUCCEEDED"
    /\ UNCHANGED <<settlement, refundDue, dispute, payoutRow, worker, payoutFaults>>

StartWork ==
    /\ stage = "FUNDED" /\ stage' = "WORKING"
    /\ UNCHANGED <<escrowVars, payment, settlement, refundDue, dispute, payoutRow, worker, payoutFaults>>

\* The refund of an order: in full, or as agreed (queueCryptoRefund).
RefundPayout(amount) ==
    {p \in Payouts : Kind[p] = "ORDER_REFUND" /\ AmountOf[p] = amount}

CancelOrder ==
    /\ stage = "FUNDED"
    /\ stage' = "CANCELLED" /\ payment' = "REFUND_PENDING" /\ Enqueue(RefundPayout(Amount))
    /\ UNCHANGED <<escrowVars, settlement, refundDue, dispute, worker, payoutFaults>>

ApproveOrder ==
    /\ stage = "WORKING" /\ dispute # "OPEN"
    /\ stage' = "APPROVED" /\ settlement' = "READY"
    /\ UNCHANGED <<escrowVars, payment, refundDue, dispute, payoutRow, worker, payoutFaults>>

\* openDispute freezes the bucket (setCryptoEscrowFrozen).
OpenDispute ==
    /\ stage = "WORKING" /\ dispute = "NONE"
    /\ dispute' = "OPEN" /\ Enqueue({Of("FREEZE")})
    /\ UNCHANGED <<escrowVars, stage, payment, settlement, refundDue, worker, payoutFaults>>

\* admin_resolve_dispute unfreezes it and decides: resume, approve, or a refund in part or in full.
ResolveDispute(decision, refund) ==
    /\ dispute = "OPEN" /\ dispute' = "RESOLVED"
    /\ CASE decision = "RESUME" -> Enqueue({Of("UNFREEZE")}) /\ UNCHANGED <<stage, payment, settlement, refundDue>>
         [] decision = "APPROVE" -> /\ Enqueue({Of("UNFREEZE")})
                                    /\ stage' = "APPROVED" /\ settlement' = "READY" /\ UNCHANGED <<payment, refundDue>>
         [] decision = "REFUND" ->
              /\ RefundPayout(refund) # {} /\ Enqueue({Of("UNFREEZE")} \cup RefundPayout(refund))
              /\ stage' = "CANCELLED" /\ payment' = "REFUND_PENDING"
              /\ refundDue' = IF refund < Amount THEN refund ELSE NoAmount
              /\ settlement' = IF refund < Amount THEN "READY" ELSE settlement
    /\ UNCHANGED <<escrowVars, worker, payoutFaults>>

\* releaseReadySettlements: the creator's entitlement, or what an agreed refund leaves (queueCryptoRelease).
QueueRelease ==
    LET amount == IF refundDue = NoAmount THEN Amount ELSE Amount - refundDue
    IN  /\ settlement = "READY" /\ stage \in {"APPROVED", "CANCELLED"}
        /\ Enqueue({p \in Payouts : Kind[p] = "ORDER_RELEASE" /\ AmountOf[p] = amount})
        /\ settlement' = "PENDING"
        /\ UNCHANGED <<escrowVars, stage, payment, refundDue, dispute, worker, payoutFaults>>

\* A pool pays one of its allocations from its own bucket.
QueueAllocation(p) ==
    /\ Kind[p] = "ALLOCATION" /\ payoutRow[p].state = "NONE" /\ FundBucket(BucketOf[p])
    /\ Enqueue({p})
    /\ UNCHANGED <<orderRow, worker, payoutFaults>>

-----------------------------------------------------------------------------
(* Effects (registerPayoutEffects) *)

OnConfirmed(p) ==
    /\ CASE Kind[p] = "ORDER_RELEASE" /\ settlement # "RELEASED" ->
              /\ settlement' = "RELEASED" /\ stage' = IF stage = "APPROVED" THEN "COMPLETED" ELSE stage
              /\ UNCHANGED payment
         [] Kind[p] = "ORDER_REFUND" /\ payment \notin {"REFUNDED", "PARTIALLY_REFUNDED"} ->
              IF AmountOf[p] = Amount
              THEN /\ payment' = "REFUNDED" /\ settlement' = "NOT_READY"
                   /\ stage' = IF stage = "CANCELLED" THEN "REFUNDED" ELSE stage
              ELSE payment' = "PARTIALLY_REFUNDED" /\ UNCHANGED <<stage, settlement>>
         [] OTHER -> UNCHANGED <<stage, payment, settlement>>
    /\ UNCHANGED <<refundDue, dispute>>

OnFailed(p) ==
    /\ settlement' = IF Kind[p] = "ORDER_RELEASE" /\ settlement = "PENDING" THEN "FAILED" ELSE settlement
    /\ UNCHANGED <<stage, payment, refundDue, dispute>>

-----------------------------------------------------------------------------
(* Workers *)

Fault == payoutFaults < MaxFaults /\ payoutFaults' = payoutFaults + 1
Hold(w, phase, ids, auths, outcome) ==
    worker' = [worker EXCEPT ![w] = [phase |-> phase, ids |-> ids, auths |-> auths, outcome |-> outcome]]

\* dueChainPayouts: oldest first.  A payout that was never tried comes before what was queued after it; one that waits
\* for its next attempt does not.
DueChainPayout(p) == \A q \in Payouts : Kind[q] = "FREEZE" /\ q # p /\ BucketOf[q] = BucketOf[p] => payoutRow[q].state # "QUEUED"

\* dispatchChainPayout, first transaction and findPayout: an attempt that may have reached the chain is looked up before
\* anything is signed again.
LookedUp(p) == payoutRow[p].state \in {"UNKNOWN", "SUBMITTING"} /\ Kind[p] \notin Freezes

Prepare(w, p) ==
    /\ worker[w] = Idle /\ payoutRow[p].state \in Due /\ DueChainPayout(p)
    /\ IF LookedUp(p) /\ p \in payoutUsed THEN Hold(w, "finish", {p}, {}, "CONFIRMED") ELSE Hold(w, "sign", {p}, {}, "NONE")
    /\ UNCHANGED <<escrowVars, orderRow, payoutRow, payoutFaults>>

LookupUnavailable(w, p) ==
    /\ worker[w] = Idle /\ payoutRow[p].state \in Due /\ DueChainPayout(p) /\ LookedUp(p) /\ Fault
    /\ Hold(w, "finish", {p}, {}, "UNKNOWN")
    /\ UNCHANGED <<escrowVars, orderRow, payoutRow>>

\* The network is disabled, or has no executor: the payout waits (a due payout only).
NotDispatched(w, p) ==
    /\ worker[w] = Idle /\ payoutRow[p].state \in Due /\ DueChainPayout(p) /\ Fault
    /\ payoutRow' = [payoutRow EXCEPT ![p].state = "RETRY"]
    /\ UNCHANGED <<escrowVars, orderRow, worker>>

\* dueReleaseBatches: small releases that never reached the chain, at least two.
DueReleaseBatch(ids) ==
    Cardinality(ids) >= 2 /\ \A p \in ids : Kind[p] \in Releases /\ payoutRow[p].state \in {"QUEUED", "RETRY"}

\* dispatchChainPayoutBatch, first transaction.
PrepareBatch(w, ids) ==
    /\ worker[w] = Idle /\ DueReleaseBatch(ids)
    /\ Hold(w, "sign", ids, {}, "NONE")
    /\ UNCHANGED <<escrowVars, orderRow, payoutRow, payoutFaults>>

\* A rejected batch, or one that could not be prepared, names no culprit: its members wait (retryAll).
BatchRejected == "RETRY"

\* sign: one nonce per attempt, in a message that also names the chain, the contract and the terms of the payout.
NewNonce(p) == payoutRow[p].attempts + 1
Authorization(p) == <<p, NewNonce(p)>>
Signed(ps) == [p \in Payouts |-> IF p \in ps THEN [state |-> "SUBMITTING", attempts |-> payoutRow[p].attempts + 1] ELSE payoutRow[p]]

\* The second transaction.  A member of a batch that another worker took makes the whole batch unprepared, and what was
\* signed before it stays signed.
Sign(w) ==
    LET ids == worker[w].ids
        batch == Cardinality(ids) > 1
        ready == {p \in ids : payoutRow[p].state \in IF batch THEN {"QUEUED", "RETRY"} ELSE Due}
    IN  /\ worker[w].phase = "sign"
        /\ IF ready = ids
           THEN /\ payoutRow' = Signed(ids)
                /\ Hold(w, "submit", ids, {Authorization(p) : p \in ids}, "NONE")
           ELSE IF batch
           THEN \E before \in SUBSET ready : payoutRow' = Signed(before) /\ Hold(w, "finish", ids, {}, BatchRejected)
           ELSE payoutRow' = payoutRow /\ worker' = [worker EXCEPT ![w] = Idle]
        /\ UNCHANGED <<escrowVars, orderRow, payoutFaults>>

\* What a rejection by the contract means for the payout.
OutcomeOfAny(auths) ==
    LET codes == {Revert(a) : a \in auths}
    IN  IF "PayoutAlreadyReleased" \in codes THEN "CONFIRMED"
        ELSE IF codes \subseteq {"EnforcedPause", "BucketFrozen", "NONE"} THEN "RETRY"
        ELSE "FAILED"

Outcome(auths) ==
    LET codes == {Revert(a) : a \in auths}
    IN  IF Cardinality(auths) > 1 THEN BatchRejected
        ELSE IF "PayoutAlreadyReleased" \in codes THEN "CONFIRMED"
        ELSE IF codes \subseteq {"EnforcedPause", "BucketFrozen"} THEN "RETRY"
        ELSE "FAILED"

\* send: simulated first, so that a rejection is known without a transaction.
Submit(w) ==
    /\ worker[w].phase = "submit"
    /\ IF Executes(worker[w].auths)
       THEN txs' = txs \cup {[auths |-> worker[w].auths, result |-> "PENDING"]}
            /\ Hold(w, "wait", worker[w].ids, worker[w].auths, "NONE")
       ELSE txs' = txs /\ Hold(w, "finish", worker[w].ids, {}, Outcome(worker[w].auths))
    /\ UNCHANGED <<bucket, paused, signer, payoutUsed, nonceUsed, paidOut, orderRow, payoutRow, payoutFaults>>

\* The RPC node fails, with or without having taken the transaction.
SubmitUnavailable(w) ==
    /\ worker[w].phase = "submit" /\ Fault
    /\ \/ txs' = txs
       \/ Executes(worker[w].auths) /\ txs' = txs \cup {[auths |-> worker[w].auths, result |-> "PENDING"]}
    /\ Hold(w, "finish", worker[w].ids, {}, "UNKNOWN")
    /\ UNCHANGED <<bucket, paused, signer, payoutUsed, nonceUsed, paidOut, orderRow, payoutRow>>

\* waitForTransactionReceipt: mined, reverted or not confirmed in time.
Receipt(w) ==
    \E t \in txs :
        /\ worker[w].phase = "wait" /\ t.auths = worker[w].auths /\ t.result # "PENDING"
        /\ Hold(w, "finish", worker[w].ids, {}, IF t.result = "OK" THEN "CONFIRMED"
                                                ELSE IF Cardinality(worker[w].ids) > 1 THEN BatchRejected ELSE "FAILED")
        /\ txs' = txs \ {t}
        /\ UNCHANGED <<bucket, paused, signer, payoutUsed, nonceUsed, paidOut, orderRow, payoutRow, payoutFaults>>

Unconfirmed(w) ==
    /\ worker[w].phase = "wait"
    /\ \/ Fault
       \/ (~\E t \in txs : t.auths = worker[w].auths) /\ payoutFaults' = payoutFaults
    /\ Hold(w, "finish", worker[w].ids, {}, "UNKNOWN")
    /\ UNCHANGED <<escrowVars, orderRow, payoutRow>>

\* finish, one transaction per payout; a final payout is left alone.
FinishAgain(w, p) ==
    LET o == worker[w].outcome
        rest == worker[w].ids \ {p}
    IN  /\ worker[w].phase = "finish" /\ p \in worker[w].ids
        /\ IF o = "CONFIRMED"
           THEN payoutRow' = [payoutRow EXCEPT ![p].state = "CONFIRMED"] /\ OnConfirmed(p)
           ELSE IF o = "FAILED" \/ payoutRow[p].attempts >= MaxAttempts
           THEN payoutRow' = [payoutRow EXCEPT ![p].state = "FAILED"] /\ OnFailed(p)
           ELSE payoutRow' = [payoutRow EXCEPT ![p].state = o] /\ UNCHANGED orderRow
        /\ IF rest = {} THEN worker' = [worker EXCEPT ![w] = Idle] ELSE Hold(w, "finish", rest, {}, o)
        /\ UNCHANGED <<escrowVars, payoutFaults>>

Finish(w, p) ==
    LET o == worker[w].outcome
        rest == worker[w].ids \ {p}
    IN  /\ worker[w].phase = "finish" /\ p \in worker[w].ids
        /\ IF payoutRow[p].state \in Final THEN UNCHANGED <<payoutRow, orderRow>>
           ELSE IF o = "CONFIRMED"
           THEN payoutRow' = [payoutRow EXCEPT ![p].state = "CONFIRMED"] /\ OnConfirmed(p)
           ELSE IF o = "FAILED" \/ payoutRow[p].attempts >= MaxAttempts
           THEN payoutRow' = [payoutRow EXCEPT ![p].state = "FAILED"] /\ OnFailed(p)
           ELSE payoutRow' = [payoutRow EXCEPT ![p].state = o] /\ UNCHANGED orderRow
        /\ IF rest = {} THEN worker' = [worker EXCEPT ![w] = Idle] ELSE Hold(w, "finish", rest, {}, o)
        /\ UNCHANGED <<escrowVars, payoutFaults>>

Crash(w) ==
    /\ worker[w] # Idle /\ Fault /\ worker' = [worker EXCEPT ![w] = Idle]
    /\ UNCHANGED <<escrowVars, orderRow, payoutRow>>

OrderNext ==
    \/ CreditDeposit \/ StartWork \/ CancelOrder \/ ApproveOrder \/ OpenDispute \/ QueueRelease
    \/ \E d \in {"RESUME", "APPROVE"} : ResolveDispute(d, 0)
    \/ \E r \in 1..Amount : ResolveDispute("REFUND", r)
    \/ \E p \in Payouts : QueueAllocation(p)

Dispatch(w) ==
    \/ \E p \in Payouts : Prepare(w, p)
    \/ Sign(w) \/ Submit(w) \/ Receipt(w) \/ Unconfirmed(w)
    \/ \E p \in Payouts : Finish(w, p)

WorkerNext(w) ==
    \/ Dispatch(w) \/ SubmitUnavailable(w) \/ Crash(w)
    \/ \E p \in Payouts : NotDispatched(w, p) \/ LookupUnavailable(w, p)
    \/ \E ids \in SUBSET Payouts : PrepareBatch(w, ids)

Mined == (\E t \in txs : Mine(t)) /\ UNCHANGED <<orderRow, payoutRow, worker, payoutFaults>>
Dropped == (\E t \in txs : Drop(t)) /\ Fault /\ UNCHANGED <<orderRow, payoutRow, worker>>
IncidentNext == Incidents /\ UNCHANGED <<orderRow, payoutRow, worker, payoutFaults>>

PayoutNext == OrderNext \/ Mined \/ Dropped \/ IncidentNext \/ \E w \in Workers : WorkerNext(w)

PayoutFairness ==
    /\ WF_payoutVars(\E w \in Workers, p \in Payouts : Prepare(w, p))
    /\ \A w \in Workers : WF_payoutVars(Sign(w) \/ Submit(w) \/ Receipt(w) \/ Unconfirmed(w)
                                        \/ \E p \in Payouts : Finish(w, p))
    /\ WF_payoutVars(Mined)

PayoutSpec == PayoutInit /\ [][PayoutNext]_payoutVars /\ PayoutFairness

-----------------------------------------------------------------------------
(* Properties *)

\* Signed twice, submitted twice, batched, interrupted or mined late: a payout recorded as CONFIRMED was paid by the
\* contract, and the order says released or refunded only of what was (finish, onConfirmed).
ConfirmedIsPaid ==
    LET paid(kind, amounts) == \E p \in payoutUsed : Kind[p] = kind /\ AmountOf[p] \in amounts
    IN  /\ \A p \in Payouts : payoutRow[p].state = "CONFIRMED" /\ Kind[p] \notin Freezes => p \in payoutUsed
        /\ settlement = "RELEASED" => paid("ORDER_RELEASE", {Amount, Amount - refundDue})
        /\ payment = "REFUNDED" => paid("ORDER_REFUND", {Amount})
        /\ payment = "PARTIALLY_REFUNDED" => paid("ORDER_REFUND", {refundDue})

\* The crypto rail moves an order's money as the card rail does.
Money == INSTANCE OrderMoney
MoneySpec == Money!Spec

\* Every queued payout is confirmed or given up in the end, whatever fails on the way, and then stays so
\* (dispatchChainPayout, MAX_ATTEMPTS).
PayoutsEnd == <>[](\A p \in Payouts : payoutRow[p].state \in Final \cup {"NONE"})

\* "resolution unfreezes it before the release or refund payout, which the worker dispatches in queue order"
\* (setCryptoEscrowFrozen): once the unfreeze is confirmed the bucket is not frozen.
UnfrozenAfterResolution ==
    payoutRow[Of("UNFREEZE")].state = "CONFIRMED" => ~bucket[OrderBucket].frozen

\* "a failed attempt never paid, so the next attempt gets a new reference" (settlePoolOrder): the contract, which pays a
\* reference once, would pay the allocation again under the new one.
FailedNeverPaid ==
    \A p \in Payouts : Kind[p] = "ALLOCATION" /\ payoutRow[p].state = "FAILED" => p \notin payoutUsed

=============================================================================
