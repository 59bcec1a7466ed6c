---------------------------- MODULE Performance ----------------------------
(***************************************************************************)
(* A performance hire: the order holds the fixed fee and the whole view-   *)
(* bonus cap.  The published post is measured once, the bonus is verified, *)
(* held or decided, and the hold is split between the creator and the      *)
(* buyer by two provider operations that may each time out or be refused   *)
(* (src/modules/publish, the two performance jobs, funding.ts).            *)
(***************************************************************************)
EXTENDS Integers, FiniteSets, FiniteSetsExt

CONSTANTS
    Median, Multiplier,       \* frozen baseline; multiplier in hundredths
    RpmRate, PerfFee, PerfCap,
    ViewsPerUnit,             \* VIEWS_PER_RPM_UNIT, scaled
    SoldPlatform,             \* platform of the channel sold
    Views,                    \* counts the metrics source may report
    MaxPublish                \* bound: deliveries of the order

Null == -1
ASSUME PerfAssumption ==
    /\ {Median, Multiplier, RpmRate, PerfFee, PerfCap, MaxPublish} \subseteq Nat
    /\ ViewsPerUnit \in Nat \ {0} /\ Views \subseteq Nat /\ PerfFee > 0 /\ PerfCap > 0

VARIABLES
    measure,    \* performance_measurements row: [status, bonus, due] (due: its next deadline passed)
    perfOrder,  \* [status, before, payment, settlement, unused, agreed, ask]; ask: refund offered by an answerable cancellation request
    perfOps,    \* provider_operations: [amount, state] per operation id
    published   \* deliveries so far

perfVars == <<measure, perfOrder, perfOps, published>>

RefundOps == {"performance", "agreed", "full"}
ReleaseOps == {"release", "release_performance", "release_remainder"}

-----------------------------------------------------------------------------
(* Arithmetic of the bonus *)

Least(a, b) == IF a < b THEN a ELSE b
ViewsCap(median, hundredths) == IF hundredths <= 0 \/ median < 0 THEN 0 ELSE (median * hundredths) \div 100
ViewsPayable(views, cap) == Least(views, cap)
ViewBonus(payable, rate, cap) ==
    IF payable <= 0 \/ rate <= 0 \/ cap <= 0 THEN 0 ELSE Least((payable \div ViewsPerUnit) * rate, cap)
MaxPayout == PerfFee + PerfCap
SettleMeasurement(views) ==
    LET bonus == ViewBonus(ViewsPayable(views, ViewsCap(Median, Multiplier)), RpmRate, PerfCap)
    IN  [bonus |-> bonus, payout |-> PerfFee + bonus, refund |-> PerfCap - bonus]
\* postViews: suspicion of a count; the engagement part is the metrics source's choice.
FarAboveMedian(views) == Median > 0 /\ views > 20 * Median

PerfInit ==
    /\ measure = [status |-> "NONE", bonus |-> 0, due |-> FALSE]
    /\ perfOrder = [status |-> "IN_PROGRESS", before |-> "NONE", payment |-> "SUCCEEDED", settlement |-> "NOT_READY",
                    unused |-> Null, agreed |-> Null, ask |-> Null]
    /\ perfOps = [o \in RefundOps \cup ReleaseOps |-> [amount |-> 0, state |-> "NONE"]]
    /\ published = 0

-----------------------------------------------------------------------------
(* The provider calls *)

Working == perfOrder.status \in {"IN_PROGRESS", "DELIVERED", "REVISION_REQUESTED"}
AtProvider(o) == perfOps[o].state \in {"ACCEPTED", "CONFIRMED"}
Uncommitted == MaxPayout - MapThenSumSet(LAMBDA o : IF AtProvider(o) THEN perfOps[o].amount ELSE 0, DOMAIN perfOps)

\* One provider call under operation o: lost before acceptance, or answered.
Call(o, amount, lost) ==
    /\ perfOps[o].state # "NONE" => perfOps[o].amount = amount
    /\ perfOps' = IF AtProvider(o) THEN perfOps
                  ELSE [perfOps EXCEPT ![o] = [amount |-> amount,
                          state |-> CASE lost -> "RETRY" [] amount > Uncommitted -> "REJECTED" [] OTHER -> "ACCEPTED"]]

\* requestProviderRefund: which amount goes back, and under which operation.
UnusedHold(order) == order.status # "CANCELLED" /\ order.unused # Null
RefundSum(order) == IF UnusedHold(order) THEN order.unused ELSE IF order.agreed # Null THEN order.agreed ELSE MaxPayout
RefundOp(order) == IF UnusedHold(order) THEN "performance"
                   ELSE IF order.agreed # Null /\ order.agreed < MaxPayout THEN "agreed" ELSE "full"
RequestRefund(order, lost) == RefundSum(order) > 0 /\ Call(RefundOp(order), RefundSum(order), lost)

\* requestCreatorRelease: the entitlement less what goes back to the buyer.
Withheld(order) == IF order.status = "CANCELLED" THEN (IF order.agreed = Null THEN 0 ELSE order.agreed)
                   ELSE (IF order.unused = Null THEN 0 ELSE order.unused)
ReleaseOp(order) == IF UnusedHold(order) /\ order.unused > 0 THEN "release_performance"
                    ELSE IF Withheld(order) > 0 THEN "release_remainder" ELSE "release"
PerfRelease(lost) ==
    /\ MaxPayout - Withheld(perfOrder) > 0
    /\ Call(ReleaseOp(perfOrder), MaxPayout - Withheld(perfOrder), lost)
    /\ perfOrder' = IF perfOps'[ReleaseOp(perfOrder)].state \in {"ACCEPTED", "CONFIRMED"} /\ perfOrder.settlement = "READY"
                    THEN [perfOrder EXCEPT !.settlement = "PENDING"] ELSE perfOrder
    /\ UNCHANGED <<measure, published>>

-----------------------------------------------------------------------------
(* The order *)

\* What the creator states: a link, when the post went live, and that it shows the disclosure.
Proofs == [host : {"channel", "elsewhere"}, item : BOOLEAN, author : {"sold", "other"},
           live : {"before_work", "long_ago", "now", "future"}, attested : BOOLEAN]

\* X and TikTok carry the author in the link; a website has no form of link of its own.
CheckPostLink(link) ==
    /\ link.host = "channel"
    /\ SoldPlatform \in {"NEWSLETTER", "WEBSITE"} \/ link.item
    /\ SoldPlatform \in {"X", "TIKTOK"} => link.author = "sold"

CheckPublicationProof(proof) == CheckPostLink(proof) /\ proof.live \in {"long_ago", "now"} /\ proof.attested

\* deliver: the checkpoint counts from the stated time, and a measured checkpoint is never rewritten.
Publish(proof) ==
    /\ perfOrder.status \in {"IN_PROGRESS", "REVISION_REQUESTED"} /\ published < MaxPublish
    /\ CheckPublicationProof(proof)
    /\ perfOrder' = [perfOrder EXCEPT !.status = "DELIVERED", !.ask = Null] /\ published' = published + 1
    /\ measure' = IF measure.status \in {"NONE", "SCHEDULED"}
                  THEN [status |-> "SCHEDULED", bonus |-> 0, due |-> proof.live = "long_ago"] ELSE measure
    /\ UNCHANGED perfOps

PerfRevision ==
    /\ perfOrder.status = "DELIVERED" /\ perfOrder' = [perfOrder EXCEPT !.status = "REVISION_REQUESTED", !.ask = Null]
    /\ UNCHANGED <<measure, perfOps, published>>

Approved(order) == [order EXCEPT !.status = "APPROVED", !.settlement = "READY", !.ask = Null]
PerfApprove == /\ perfOrder.status = "DELIVERED" /\ perfOrder' = Approved(perfOrder) /\ UNCHANGED <<measure, perfOps, published>>

PerfDispute ==
    /\ Working /\ perfOrder' = [perfOrder EXCEPT !.status = "DISPUTED", !.before = perfOrder.status, !.ask = Null]
    /\ UNCHANGED <<measure, perfOps, published>>

DecideDispute(outcome, lost) ==
    /\ perfOrder.status = "DISPUTED" /\ UNCHANGED <<measure, published>>
    /\ CASE outcome = "RESUME" -> perfOrder' = [perfOrder EXCEPT !.status = perfOrder.before, !.before = "NONE"] /\ UNCHANGED perfOps
         [] outcome = "APPROVE" -> published > 0 /\ perfOrder' = Approved(perfOrder) /\ UNCHANGED perfOps
         [] OTHER -> /\ perfOrder.payment = "SUCCEEDED"
                     /\ perfOrder' = [perfOrder EXCEPT !.status = "CANCELLED", !.payment = "REFUND_PENDING", !.settlement = "NOT_READY"]
                     /\ RequestRefund(perfOrder', lost)

AskCancellation(refund) ==
    /\ Working /\ perfOrder.ask = Null /\ perfOrder' = [perfOrder EXCEPT !.ask = refund]
    /\ UNCHANGED <<measure, perfOps, published>>

\* A request answers one version of the order: every later change clears ask above.
AgreeCancellation(lost) ==
    /\ Working /\ perfOrder.ask # Null /\ UNCHANGED <<measure, published>>
    /\ perfOrder' = [perfOrder EXCEPT !.status = "CANCELLED", !.agreed = perfOrder.ask, !.ask = Null,
                       !.payment = IF perfOrder.ask > 0 THEN "REFUND_PENDING" ELSE @,
                       !.settlement = IF perfOrder.ask < MaxPayout THEN "READY" ELSE "NOT_READY"]
    /\ IF perfOrder.ask > 0 THEN RequestRefund(perfOrder', lost) ELSE UNCHANGED perfOps

-----------------------------------------------------------------------------
(* The checkpoint and the bonus *)

MeasurePasses == measure.status \in {"SCHEDULED", "MEASURED"} /\ ~measure.due /\ measure' = [measure EXCEPT !.due = TRUE]
                 /\ UNCHANGED <<perfOrder, perfOps, published>>

MeasurePost(views, lowEngagement) ==
    /\ measure.status = "SCHEDULED" /\ measure.due
    /\ measure' = [status |-> IF FarAboveMedian(views) \/ lowEngagement THEN "HELD" ELSE "MEASURED",
                   bonus |-> SettleMeasurement(views).bonus, due |-> FALSE]
    /\ UNCHANGED <<perfOrder, perfOps, published>>

PaidBonus(m) == IF m.status = "REJECTED" THEN 0 ELSE m.bonus
\* The split is recorded on the order whatever its status; the version bump voids a cancellation request.
RecordSplit(status) ==
    /\ measure' = [measure EXCEPT !.status = status]
    /\ perfOrder' = [perfOrder EXCEPT !.unused = PerfCap - PaidBonus(measure'), !.ask = Null]

DecideHeldBonus(decision) ==
    /\ measure.status = "HELD" /\ perfOrder.settlement # "RELEASED"
    /\ RecordSplit(IF decision = "APPROVE" THEN "APPROVED" ELSE "REJECTED")
    /\ UNCHANGED <<perfOps, published>>

\* settlePerformanceBonuses: approve after the verification window, then refund the unused hold; a decided split is
\* picked up only while no performance refund was ever journalled.
SettleBonus(lost) ==
    /\ \/ (measure.status = "MEASURED" /\ measure.due /\ RecordSplit("APPROVED"))
       \/ /\ measure.status \in {"APPROVED", "REJECTED"} /\ perfOrder.unused > 0 /\ perfOps["performance"].state = "NONE"
          /\ UNCHANGED <<measure, perfOrder>>
    /\ IF perfOrder'.unused = 0 THEN UNCHANGED perfOps ELSE RequestRefund(perfOrder', lost)
    /\ UNCHANGED published

\* Mutant: the release does not wait for the measurement.
PerfReadyUnmeasured == perfOrder.settlement = "READY" /\ perfOrder.status = "APPROVED" /\ perfOrder.payment = "SUCCEEDED"

\* releaseReadySettlements: nothing is released while the post is still being judged.
PerfReady ==
    /\ perfOrder.settlement = "READY" /\ measure.status \notin {"SCHEDULED", "MEASURED", "HELD"}
    /\ \/ /\ perfOrder.status = "APPROVED"
          /\ perfOrder.payment = "SUCCEEDED" \/ (perfOrder.payment = "PARTIALLY_REFUNDED" /\ perfOrder.unused # Null)
       \/ /\ perfOrder.status = "CANCELLED" /\ perfOrder.agreed # Null /\ perfOrder.agreed < MaxPayout
          /\ perfOrder.payment \in {"SUCCEEDED", "REFUND_PENDING", "PARTIALLY_REFUNDED"}
ReleaseReadyPerf(lost) == PerfReady /\ PerfRelease(lost)

\* reconcileProviderOperations: an unanswered call is repeated from the order's current row.
RetryPerf(o, lost) ==
    /\ perfOps[o].state = "RETRY"
    /\ \/ /\ o \in RefundOps /\ perfOrder.payment = "REFUND_PENDING" /\ RequestRefund(perfOrder, lost)
          /\ UNCHANGED <<measure, perfOrder, published>>
       \/ o \in ReleaseOps /\ perfOrder.settlement \in {"READY", "PENDING"} /\ PerfRelease(lost)

-----------------------------------------------------------------------------
(* Provider facts *)

PerfRefunded(o) ==
    LET expected == IF o = "performance" THEN perfOrder.unused ELSE (IF perfOrder.agreed = Null THEN MaxPayout ELSE perfOrder.agreed)
        pending == perfOrder.payment \in {"REFUND_PENDING"} \cup (IF o = "performance" THEN {"SUCCEEDED"} ELSE {})
    IN  /\ o \in RefundOps /\ perfOps[o].state = "ACCEPTED" /\ perfOps' = [perfOps EXCEPT ![o].state = "CONFIRMED"]
        /\ perfOrder' = CASE ~(pending /\ expected = perfOps[o].amount) -> perfOrder
                          [] o # "performance" /\ expected = MaxPayout ->
                               [perfOrder EXCEPT !.status = "REFUNDED", !.payment = "REFUNDED", !.settlement = "NOT_READY"]
                          [] OTHER -> [perfOrder EXCEPT !.payment = "PARTIALLY_REFUNDED", !.ask = IF o = "performance" THEN Null ELSE @]
        /\ UNCHANGED <<measure, published>>

PerfReleased(o) ==
    /\ o \in ReleaseOps /\ perfOps[o].state = "ACCEPTED" /\ perfOps' = [perfOps EXCEPT ![o].state = "CONFIRMED"]
    /\ perfOrder' = IF perfOrder.settlement \notin {"READY", "PENDING"} THEN perfOrder
                    ELSE [perfOrder EXCEPT !.settlement = "RELEASED", !.status = IF @ = "APPROVED" THEN "COMPLETED" ELSE @]
    /\ UNCHANGED <<measure, published>>

PerfNext ==
    \/ (\E proof \in Proofs : Publish(proof)) \/ PerfRevision \/ PerfApprove \/ PerfDispute \/ MeasurePasses
    \/ \E lost \in BOOLEAN :
         \/ \E outcome \in {"RESUME", "APPROVE", "REFUND_FULL"} : DecideDispute(outcome, lost)
         \/ AgreeCancellation(lost) \/ SettleBonus(lost) \/ ReleaseReadyPerf(lost)
         \/ \E o \in DOMAIN perfOps : RetryPerf(o, lost)
    \/ \E refund \in {0, PerfFee, MaxPayout} : AskCancellation(refund)
    \/ \E v \in Views, low \in BOOLEAN : MeasurePost(v, low)
    \/ \E d \in {"APPROVE", "REJECT"} : DecideHeldBonus(d)
    \/ \E o \in DOMAIN perfOps : PerfRefunded(o) \/ PerfReleased(o)

-----------------------------------------------------------------------------
(* Properties *)

\* The hold is split as the post was judged (performance-service.ts:5-6, "settlement only decides how that hold splits"):
\* a creator paid for approved work received exactly the fee and the decided bonus, whichever mix of deliveries, disputes,
\* operator decisions and lost calls led there, and the buyer is sent the unused rest at most once.
BonusSplit ==
    /\ perfOrder.status = "COMPLETED" =>
         /\ measure.status \in {"APPROVED", "REJECTED"}
         /\ \E o \in ReleaseOps : perfOps[o] = [amount |-> PerfFee + PaidBonus(measure), state |-> "CONFIRMED"]
         /\ \A o \in RefundOps : AtProvider(o) => o = "performance" /\ perfOps[o].amount = PerfCap - PaidBonus(measure)
    /\ Cardinality({o \in ReleaseOps : AtProvider(o)}) <= 1

=============================================================================
