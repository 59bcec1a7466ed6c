----------------------------- MODULE LateCosts ------------------------------
(***************************************************************************)
(* A provider cost that changes after capture (cost-policy.ts, cost-v1):   *)
(* cost facts arrive at any time, repeatedly and in any order, while the   *)
(* work is approved or cancelled with an agreed refund and the creator's   *)
(* payout is sent.  Who bears a change depends on the fee payer, on the    *)
(* cap, and on whether the payout has been sent.                           *)
(***************************************************************************)
EXTENDS Integers, FiniteSets, FiniteSetsExt

CONSTANTS
    Principal,  \* orders.amount_minor
    FirstFee,   \* the provider cost in the capture fact
    CostFacts,  \* fee_updated events: [event id -> actual cost]
    CapBps,     \* LATE_COST_CAP_BPS
    Refunds     \* refunds the parties may agree on

ASSUME LateCostAssumption ==
    /\ Principal \in Nat /\ FirstFee \in 0..(Principal - 1) /\ CapBps \in 0..1000
    /\ IsFiniteSet(DOMAIN CostFacts) /\ \A e \in DOMAIN CostFacts : CostFacts[e] \in 0..Principal
    /\ Refunds \subseteq 0..Principal

VARIABLES
    feePayer,  \* FEE_PAYER_POLICY of the deployment
    bill,      \* the order's costs: [known, borne, late, platform, credit, seen]
    payout     \* [status, refunded, settlement, plan, sent, raced]: plan is the journalled release, sent what the provider took

lateCostVars == <<feePayer, bill, payout>>

NoPlan == 0   \* a journalled release is positive

LateCostInit ==
    /\ feePayer \in {"CREATOR_AT_COST", "PLATFORM_SUBSIDIZED"}
    /\ bill = [known |-> FirstFee, borne |-> FirstFee, late |-> 0, platform |-> 0, credit |-> 0, seen |-> {}]
    /\ payout = [status |-> "FUNDED", refunded |-> 0, settlement |-> "NOT_READY", plan |-> NoPlan, sent |-> NoPlan, raced |-> FALSE]

-----------------------------------------------------------------------------
Gross == Principal - payout.refunded
CapMinor == (Principal * CapBps) \div 10000

\* Mutant: only a confirmed payout counts as sent.
PhaseOnReleasedOnly == IF Gross <= 0 THEN "NO_CREATOR_SETTLEMENT"
                       ELSE IF payout.settlement = "RELEASED" THEN "AFTER_RELEASE" ELSE "BEFORE_RELEASE"

Phase == IF Gross <= 0 THEN "NO_CREATOR_SETTLEMENT"
         ELSE IF payout.settlement \in {"PENDING", "RELEASED"} THEN "AFTER_RELEASE" ELSE "BEFORE_RELEASE"

\* What the creator bears of a change, and the credit owed to them; the platform bears the rest of the change.
LateCostShares(delta) ==
    IF feePayer = "PLATFORM_SUBSIDIZED" \/ Phase = "NO_CREATOR_SETTLEMENT" THEN [creator |-> 0, credit |-> 0]
    ELSE IF Phase = "AFTER_RELEASE" THEN [creator |-> 0, credit |-> IF delta < 0 THEN Min({-delta, bill.borne}) ELSE 0]
    ELSE IF delta > 0
    THEN [creator |-> Min({delta, Max({0, CapMinor - bill.late}), Max({0, Gross - bill.borne - 1})}), credit |-> 0]
    ELSE [creator |-> -Min({-delta, bill.borne}), credit |-> 0]

\* Already seen facts and unchanged costs leave everything as it is; only a changed cost is stored.
ApplyLateProviderCost(e) ==
    LET delta == CostFacts[e] - bill.known
        share == LateCostShares(delta)
    IN  /\ e \notin bill.seen /\ delta # 0
        /\ bill' = [known |-> CostFacts[e], borne |-> bill.borne + share.creator,
                    late |-> bill.late + Max({0, share.creator}), platform |-> bill.platform + delta - share.creator,
                    credit |-> bill.credit + share.credit, seen |-> bill.seen \cup {e}]
        /\ payout' = [payout EXCEPT !.raced = @ \/ (payout.settlement = "READY" /\ payout.sent # NoPlan)]
        /\ UNCHANGED feePayer

-----------------------------------------------------------------------------
(* The order and its payout *)

ApproveWork == /\ payout.status = "FUNDED"
               /\ payout' = [payout EXCEPT !.status = "APPROVED", !.settlement = "READY"]
               /\ UNCHANGED <<feePayer, bill>>

AgreeRefund(r) == /\ payout.status = "FUNDED"
                  /\ payout' = [payout EXCEPT !.status = "CANCELLED", !.refunded = r,
                                              !.settlement = IF r < Principal THEN "READY" ELSE "NOT_READY"]
                  /\ UNCHANGED <<feePayer, bill>>

Net == IF feePayer = "CREATOR_AT_COST" THEN Gross - bill.borne ELSE Gross

\* One run of the payout worker.  The journal refuses the operation under a different amount, and a refused or lost
\* call leaves it journalled; "late" is accepted and never answered.
RequestCreatorRelease(reply) ==
    /\ payout.settlement = "READY" /\ Net > 0 /\ payout.plan \in {NoPlan, Net}
    /\ reply \in {"ok", "late", "lost"}
    /\ payout' = [payout EXCEPT !.plan = Net,
                                !.sent = IF reply = "lost" THEN @ ELSE Net,
                                !.settlement = IF reply = "ok" THEN "PENDING" ELSE @]
    /\ UNCHANGED <<feePayer, bill>>

\* The transfer's fact, at least once; a success under another amount than the journalled one only opens a case.
ApplyRelease(fact) ==
    /\ payout.sent # NoPlan /\ payout.settlement \in {"READY", "PENDING"}
    /\ fact = "SUCCEEDED" => payout.sent = payout.plan
    /\ payout' = [payout EXCEPT !.settlement = IF fact = "SUCCEEDED" THEN "RELEASED" ELSE "FAILED",
                                !.status = IF fact = "SUCCEEDED" /\ @ = "APPROVED" THEN "COMPLETED" ELSE @]
    /\ UNCHANGED <<feePayer, bill>>

LateCostNext ==
    \/ \E e \in DOMAIN CostFacts : ApplyLateProviderCost(e)
    \/ ApproveWork \/ \E r \in Refunds : AgreeRefund(r)
    \/ \E reply \in {"ok", "late", "lost"} : RequestCreatorRelease(reply)
    \/ \E fact \in {"SUCCEEDED", "FAILED"} : ApplyRelease(fact)

-----------------------------------------------------------------------------
\* Every change of a provider cost is borne by somebody exactly once, the creator never bears more late cost than the
\* cap nor a cost that leaves nothing of the whole amount, and a payout that was sent keeps the deduction it was sent
\* with: a cost that arrives later takes nothing back.  Left out: a cost applied between a transfer the provider took
\* and its unanswered call, which is shared as before the payout.
CostSharesKept ==
    /\ bill.borne + bill.platform = bill.known
    /\ bill.late <= CapMinor
    /\ payout.refunded = 0 => Principal - bill.borne >= 1
    /\ payout.settlement \in {"PENDING", "RELEASED"} /\ ~payout.raced => payout.sent = Net
=============================================================================
