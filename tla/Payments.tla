----------------------------- MODULE Payments -----------------------------
(***************************************************************************)
(* The card and bank rail of one order (src/modules/payments/funding.ts    *)
(* and the payment jobs of src/modules/jobs/index.ts): the journal of      *)
(* provider operations, the provider behind it, the signed events that     *)
(* come back, and the order's money columns and books.                     *)
(*                                                                         *)
(* Three parties act.  The platform runs transactions that lock the order  *)
(* row and call the provider inside them; a call may time out before or    *)
(* after the provider applied it.  The provider moves its own objects and  *)
(* emits events.  Events are delivered in any order, late, again (a        *)
(* repeat finds its inbox row processed and changes nothing) or are lost;  *)
(* the reconcile job then fetches the status instead.                      *)
(*                                                                         *)
(* The work itself is not this module's subject: WORKING stands for        *)
(* IN_PROGRESS, DELIVERED, REVISION_REQUESTED and DISPUTED, which          *)
(* OrderLifecycle models one by one.  Provider fees are zero.              *)
(***************************************************************************)
EXTENDS Integers, FiniteSets, Totals

CONSTANTS
    Amount,        \* orders.amount_minor
    MaxAttempts,   \* bound: funding operations fund:<order>:1..MaxAttempts
    MaxFaults,     \* bound: provider calls that time out or are refused with 503
    MaxInFlight,   \* bound: events emitted or fetched and not yet applied
    Follows,       \* bound: what follows the checkout, a subset of {"refund", "work"}
    Disputable     \* bound: FALSE leaves out card disputes (TRUE: one per order)

ASSUME PaymentsAssumption ==
    Amount \in Nat \ {0} /\ MaxAttempts \in Nat \ {0} /\ MaxFaults \in Nat /\ MaxInFlight \in Nat
    /\ Follows \subseteq {"refund", "work"} /\ Disputable \in BOOLEAN

VARIABLES
    status, payment, settlement, refundDue, method,   \* the order row
    hold,          \* the checkout hold (workload claim)
    lateCase,      \* an open LATE_FUNDING case
    attempts,      \* funding operations journaled so far
    fund,          \* journal: [op, fact, method] of each funding operation
    ops,           \* journal: [op, fact, req] of the refund and the release operation
    lookup,        \* reconcile: a lookup answer not yet written back
    books,         \* ledger: the idempotency keys booked
    chargeback,    \* payment_disputes.status
    pfund,         \* provider: status of each funding
    pcancel,       \* provider: the cancel operation of the funding was applied
    ptr,           \* provider: journal and transfer of the refund and of the release
    pdispute,      \* provider: status of the card dispute
    sent,          \* events emitted by the provider or fetched from it
    seen,          \* events applied (inbox rows processed) or lost on the way
    faults

row == <<status, payment, settlement, refundDue, method, hold, lateCase>>
journal == <<attempts, fund, ops, lookup>>
provider == <<pfund, pcancel, ptr, pdispute>>
vars == <<row, journal, books, chargeback, provider, sent, seen, faults>>

NoAmount == -1
Attempts == 1..MaxAttempts
Methods == {"CARD", "BANK_TRANSFER"}
Unpaid == {"PENDING", "PROCESSING", "FAILED"}
OpenHold == {"HELD", "EXPIRY_RECONCILING"}
Unresolved == {"PENDING", "UNKNOWN"}
Transfers == {"refund", "release"}
NoReq == [fund |-> 0, amount |-> 0, reason |-> "NONE"]
NoFund == [op |-> "NONE", fact |-> "NONE", method |-> "CARD"]
NoOp == [op |-> "NONE", fact |-> "NONE", req |-> NoReq]
NoTransfer == [applied |-> FALSE, req |-> NoReq, status |-> "NONE"]
NoLookup == [fund |-> 0, applied |-> FALSE]

Event(kind, id, new) == [source |-> "webhook", kind |-> kind, id |-> id, status |-> new]
Fetched(kind, id, new) == [source |-> "fetch", kind |-> kind, id |-> id, status |-> new]

\* The bound on events under way.
Room == Cardinality(sent \ seen) < MaxInFlight

Init ==
    /\ status = "AWAITING_PAYMENT" /\ payment = "PENDING" /\ settlement = "NOT_READY"
    /\ refundDue = NoAmount /\ method = "NONE" /\ hold = "HELD" /\ lateCase = FALSE
    /\ attempts = 0 /\ fund = [i \in Attempts |-> NoFund]
    /\ ops = [t \in Transfers |-> NoOp] /\ lookup = NoLookup
    /\ books = {} /\ chargeback = "NONE"
    /\ pfund = [i \in Attempts |-> "NONE"] /\ pcancel = [i \in Attempts |-> FALSE]
    /\ ptr = [t \in Transfers |-> NoTransfer] /\ pdispute = "NONE"
    /\ sent = {} /\ seen = {} /\ faults = 0

-----------------------------------------------------------------------------
(* The books: what each ledger transaction moves on the account order_principal *)

\* Balance still held for the order: a capture books its amount in; refund, release and bank return pay it out.
Booked(kinds) == {k \in books : k.kind \in kinds}
Sum(kinds) == Total([k \in books |-> k.amount], Booked(kinds))
Principal == Sum({"funding"}) - Sum({"refund", "release", "bank-return"})

Book(kind, id, amount) == books' = books \cup {[kind |-> kind, id |-> id, amount |-> amount]}
FundingBooked(i) == \E k \in books : k.kind = "funding" /\ k.id = i

-----------------------------------------------------------------------------
(* Provider calls *)

Faults == {"TIMEOUT_BEFORE_ACCEPT", "ACCEPT_THEN_TIMEOUT", "UNAVAILABLE"}
Answers == {"OK"} \cup Faults

\* One provider call answers, or fails while the fault budget lasts.
Answered(o) ==
    /\ o \in Answers /\ (o \in Faults => faults < MaxFaults)
    /\ faults' = IF o \in Faults THEN faults + 1 ELSE faults

\* recordCallFailure: the journal status of a call that did not answer.
StatusOf(o) == CASE o = "OK" -> "SUCCEEDED" [] o = "UNAVAILABLE" -> "PENDING" [] OTHER -> "UNKNOWN"
Reaches(o) == o \in {"OK", "ACCEPT_THEN_TIMEOUT"}

\* Principal of a funding that no live transfer draws on.
Available(i) ==
    LET drawn(t) == IF ptr[t].req.fund = i /\ ptr[t].status \in {"PENDING", "SUCCEEDED"} THEN ptr[t].req.amount ELSE 0
    IN  IF pfund[i] = "SUCCEEDED" THEN Amount - drawn("refund") - drawn("release") ELSE 0

\* The provider's journal: an applied operation replays, a request pinned to the id refuses any other, a transfer
\* needs available principal.  A caller that fails on a rejection rolls its journal row back (commits = FALSE).
Request(t, req, commits) ==
    LET p == ptr[t]
        pinned == p.req # NoReq
        Journal(new) == ops' = IF new = "FAILED" /\ ~commits THEN ops ELSE [ops EXCEPT ![t].op = new, ![t].req = req]
    IN  \/ /\ p.applied /\ p.req = req
           /\ Journal("SUCCEEDED")
           /\ UNCHANGED <<ptr, sent, faults>>
        \/ /\ pinned /\ p.req # req
           /\ Journal("FAILED")
           /\ UNCHANGED <<ptr, sent, faults>>
        \/ \E o \in Answers :
           /\ ~p.applied /\ (pinned => p.req = req)
           /\ Answered(o)
           /\ LET moves == Reaches(o) /\ req.amount <= Available(req.fund)
              IN  /\ Journal(IF Reaches(o) /\ ~moves THEN "FAILED" ELSE StatusOf(o))
                  /\ ptr' = [ptr EXCEPT ![t] = IF moves THEN [applied |-> TRUE, req |-> req, status |-> "PENDING"]
                                               ELSE [NoTransfer EXCEPT !.req = req]]
                  /\ sent' = IF moves THEN sent \cup {Event(t, 0, "PENDING")} ELSE sent

\* The latest funding the provider confirmed, 0 when there is none.
FundedBy ==
    LET confirmed == {i \in Attempts : fund[i].fact = "SUCCEEDED"}
    IN  IF confirmed = {} THEN 0 ELSE CHOOSE i \in confirmed : \A j \in confirmed : j <= i

\* requestProviderRefund and requestCreatorRelease refuse before any call: no confirmed funding, nothing to move, or
\* an id already journaled for another request.
Refused(t, req) == req.fund = 0 \/ req.amount <= 0 \/ (ops[t].op # "NONE" /\ ops[t].req # req)

RefundAmount(due) == IF due = NoAmount THEN Amount ELSE due
RefundReq(due, reason) == [fund |-> FundedBy, amount |-> RefundAmount(due), reason |-> reason]
RemainderOf(due) == IF status = "CANCELLED" /\ due # NoAmount THEN Amount - due ELSE Amount
ReleaseReq == [fund |-> FundedBy, amount |-> RemainderOf(refundDue), reason |-> "NONE"]

\* refundReasonFor: DISPUTED is part of WORKING here and never holds a pending refund.
RefundReasonFor(s) == "BUYER_CANCELED_BEFORE_WORK"

\* A command that opens a case and commits when the refund is refused.
RefundOrCase(due, reason) ==
    \/ Refused("refund", RefundReq(due, reason)) /\ UNCHANGED <<ops, ptr, sent, faults>>
    \/ ~Refused("refund", RefundReq(due, reason)) /\ Request("refund", RefundReq(due, reason), TRUE)

-----------------------------------------------------------------------------
(* Funding attempts *)

OpenAttempt == /\ attempts > 0 /\ fund[attempts].op # "FAILED"
               /\ fund[attempts].fact \notin {"FAILED", "CANCELED"}
Payable == status = "AWAITING_PAYMENT" /\ payment \in Unpaid /\ hold = "HELD"

\* The call createFundingIntent for attempt i.
CreateIntent(i, m, o) ==
    /\ fund' = [fund EXCEPT ![i].op = IF pfund[i] # "NONE" THEN "SUCCEEDED" ELSE StatusOf(o), ![i].method = m]
    /\ IF pfund[i] # "NONE" THEN o = "OK" /\ UNCHANGED <<pfund, faults>>
       ELSE /\ Answered(o)
            /\ pfund' = IF Reaches(o) THEN [pfund EXCEPT ![i] = "REQUIRES_ACTION"] ELSE pfund

\* ensureFundingIntent: a new attempt, or the open one replayed.
EnsureFundingIntent(m) ==
    /\ Payable
    /\ \E o \in Answers :
       \/ /\ OpenAttempt /\ fund[attempts].method = m
          /\ CreateIntent(attempts, m, o)
          /\ UNCHANGED <<attempts, payment>>
       \/ /\ ~OpenAttempt /\ attempts < MaxAttempts
          /\ attempts' = attempts + 1
          /\ CreateIntent(attempts + 1, m, o)
          /\ payment' = IF payment = "FAILED" THEN "PENDING" ELSE payment
    /\ UNCHANGED <<status, settlement, refundDue, method, hold, lateCase, ops, lookup, books, chargeback, pcancel, ptr, pdispute, sent, seen>>

\* What cancelOpenFunding finds: the attempt it must cancel at the provider, 0 when nothing is open.
UnresolvedIgnored == FALSE \* mutant
UnresolvedAttempt == \E i \in 1..attempts : fund[i].op \in Unresolved
ToCancel ==
    LET open == {i \in 1..attempts : fund[i].op = "SUCCEEDED" /\ fund[i].fact \notin {"FAILED", "CANCELED", "SUCCEEDED", "RETURNED"}}
    IN  IF open = {} THEN 0 ELSE CHOOSE i \in open : \A j \in open : j <= i
\* cancelFunding at the provider: a sent bank transfer and a captured payment cannot be called back.
Cancellable(i) ==
    pcancel[i] \/ pfund[i] \in {"REQUIRES_ACTION", "CANCELED"} \/ (pfund[i] = "PROCESSING" /\ fund[i].method = "CARD")
CancelAtProvider(i) ==
    /\ pcancel' = [pcancel EXCEPT ![i] = TRUE]
    /\ pfund' = IF pcancel[i] THEN pfund ELSE [pfund EXCEPT ![i] = "CANCELED"]
    /\ sent' = IF pcancel[i] THEN sent ELSE sent \cup {Event("funding", i, "CANCELED")}

\* cancelOpenFunding succeeds: nothing was open, or the open attempt is cancelled and journaled so.
CancelOpenFunding ==
    /\ ~UnresolvedAttempt
    /\ \/ ToCancel = 0 /\ UNCHANGED <<fund, pfund, pcancel, sent>>
       \/ /\ ToCancel # 0 /\ Cancellable(ToCancel)
          /\ CancelAtProvider(ToCancel)
          /\ fund' = [fund EXCEPT ![ToCancel].fact = "CANCELED"]

\* It throws and the transaction rolls back, but the provider may have applied a call that timed out.
CancelCallLost ==
    /\ ~UnresolvedAttempt /\ ToCancel # 0 /\ Cancellable(ToCancel) /\ ~pcancel[ToCancel]
    /\ faults < MaxFaults /\ faults' = faults + 1
    /\ CancelAtProvider(ToCancel)

\* It throws without any effect at the provider.
CancelRefused ==
    /\ \/ UnresolvedAttempt
       \/ ToCancel # 0 /\ ~Cancellable(ToCancel)
       \/ ToCancel # 0 /\ Cancellable(ToCancel) /\ ~pcancel[ToCancel] /\ faults < MaxFaults
    /\ faults' = IF ~UnresolvedAttempt /\ Cancellable(ToCancel) THEN faults + 1 ELSE faults
    /\ UNCHANGED <<pfund, pcancel, sent>>

\* ensureFundingIntent for the other method: the open attempt is cancelled first, in the same transaction.
SwitchMethod(m) ==
    /\ Payable /\ OpenAttempt /\ fund[attempts].method # m /\ attempts < MaxAttempts
    /\ ~UnresolvedAttempt /\ ToCancel \in {0, attempts} /\ (ToCancel # 0 => Cancellable(attempts))
    /\ \E o \in Answers :
       LET cancels == ToCancel # 0 /\ ~pcancel[attempts]
       IN  /\ Answered(o)
           /\ attempts' = attempts + 1
           /\ fund' = [fund EXCEPT ![attempts].fact = IF ToCancel # 0 THEN "CANCELED" ELSE @,
                                   ![attempts + 1] = [op |-> StatusOf(o), fact |-> "NONE", method |-> m]]
           /\ pcancel' = [pcancel EXCEPT ![attempts] = @ \/ cancels]
           /\ pfund' = [pfund EXCEPT ![attempts] = IF cancels THEN "CANCELED" ELSE @,
                                     ![attempts + 1] = IF Reaches(o) THEN "REQUIRES_ACTION" ELSE @]
           /\ sent' = IF cancels THEN sent \cup {Event("funding", attempts, "CANCELED")} ELSE sent
    /\ payment' = IF payment = "FAILED" THEN "PENDING" ELSE payment
    /\ UNCHANGED <<status, settlement, refundDue, method, hold, lateCase, ops, lookup, books, chargeback, ptr, pdispute, seen>>

-----------------------------------------------------------------------------
(* Order commands that move money *)

others == <<lateCase, attempts, lookup, books, chargeback, pdispute, seen>>
Untouched == UNCHANGED others

\* The cancel command on an unpaid order; when the open payment cannot be cancelled the command fails.
CancelUnpaid ==
    /\ status = "AWAITING_PAYMENT"
    /\ \/ /\ CancelOpenFunding
          /\ status' = "CANCELLED" /\ hold' = "CLOSED"
          /\ UNCHANGED faults
       \/ CancelCallLost /\ UNCHANGED <<status, hold, fund>>
    /\ UNCHANGED <<payment, settlement, refundDue, method, ops, ptr>> /\ Untouched

\* Before work: a full refund is requested, and a case is opened when that is refused.
CancelFunded ==
    /\ status = "FUNDED" /\ "refund" \in Follows
    /\ status' = "CANCELLED" /\ hold' = "CLOSED"
    /\ payment' = IF payment = "SUCCEEDED" THEN "REFUND_PENDING" ELSE payment
    /\ RefundOrCase(refundDue, RefundReasonFor("CANCELLED"))
    /\ UNCHANGED <<settlement, refundDue, method, fund, pfund, pcancel>> /\ Untouched

Start ==
    /\ status = "FUNDED" /\ "work" \in Follows
    /\ status' = "WORKING"
    /\ UNCHANGED <<payment, settlement, refundDue, method, hold, ops, ptr, sent, faults, fund, pfund, pcancel>> /\ Untouched

\* Approved by the buyer, by the auto-accept job or by dispute resolution.
Approve ==
    /\ status = "WORKING"
    /\ status' = "APPROVED" /\ settlement' = "READY" /\ hold' = "CLOSED"
    /\ UNCHANGED <<payment, refundDue, method, ops, ptr, sent, faults, fund, pfund, pcancel>> /\ Untouched

\* respondCancellation, accept.
AcceptCancellation(refund) ==
    /\ status = "WORKING"
    /\ status' = "CANCELLED" /\ hold' = "CLOSED" /\ refundDue' = refund
    /\ payment' = IF refund > 0 THEN "REFUND_PENDING" ELSE payment
    /\ settlement' = IF refund < Amount THEN "READY" ELSE "NOT_READY"
    /\ IF refund > 0 THEN RefundOrCase(refund, "MUTUAL_CANCELLATION") ELSE UNCHANGED <<ops, ptr, sent, faults>>
    /\ UNCHANGED <<method, fund, pfund, pcancel>> /\ Untouched

\* resolveDispute, REFUND_FULL and REFUND_PARTIAL.
ResolveRefund(refund) ==
    /\ status = "WORKING" /\ payment = "SUCCEEDED"
    /\ status' = "CANCELLED" /\ hold' = "CLOSED" /\ payment' = "REFUND_PENDING"
    /\ refundDue' = IF refund < Amount THEN refund ELSE NoAmount
    /\ settlement' = IF refund < Amount THEN "READY" ELSE "NOT_READY"
    /\ RefundOrCase(refundDue', "OPERATOR_RESOLUTION")
    /\ UNCHANGED <<method, fund, pfund, pcancel>> /\ Untouched

\* The buyer's or finance's retry of a pending refund, and the refund of late funds.  A refused or rejected request
\* fails the whole command.
RetryRefund(reason) ==
    /\ status = "CANCELLED" /\ payment = "REFUND_PENDING"
    /\ reason \in IF refundDue # NoAmount THEN {"MUTUAL_CANCELLATION"} ELSE {RefundReasonFor(status), "OPERATOR_RESOLUTION"}
    /\ ~Refused("refund", RefundReq(refundDue, reason))
    /\ Request("refund", RefundReq(refundDue, reason), FALSE)
    /\ UNCHANGED <<status, payment, settlement, refundDue, method, hold, fund, pfund, pcancel>> /\ Untouched

RefundLateFunding ==
    /\ "refund" \in Follows /\ lateCase /\ status = "CANCELLED" /\ payment \in Unpaid
    /\ ~Refused("refund", RefundReq(refundDue, "OPERATOR_RESOLUTION"))
    /\ Request("refund", RefundReq(refundDue, "OPERATOR_RESOLUTION"), FALSE)
    /\ payment' = IF ops' = ops THEN payment ELSE "REFUND_PENDING"
    /\ UNCHANGED <<status, settlement, refundDue, method, hold, fund, pfund, pcancel>> /\ Untouched

-----------------------------------------------------------------------------
(* Jobs *)

\* expireCheckoutHolds: the hold of an unpaid order ends only once no payment can arrive; otherwise it waits.
ExpireHold ==
    /\ status = "AWAITING_PAYMENT" /\ hold \in OpenHold
    /\ \/ /\ CancelOpenFunding
          /\ status' = "CANCELLED" /\ hold' = "CLOSED"
          /\ UNCHANGED faults
       \/ /\ CancelCallLost \/ CancelRefused
          /\ hold' = "EXPIRY_RECONCILING"
          /\ UNCHANGED <<status, fund>>
    /\ UNCHANGED <<payment, settlement, refundDue, method, ops, ptr>> /\ Untouched

\* releaseReadySettlements: what the payout job requires of the order, under the row lock.
ReleaseReady ==
    /\ settlement = "READY"
    /\ \/ status = "APPROVED" /\ payment = "SUCCEEDED"
       \/ /\ status = "CANCELLED" /\ refundDue # NoAmount /\ refundDue < Amount
          /\ payment \in {"SUCCEEDED", "REFUND_PENDING", "PARTIALLY_REFUNDED"}
    /\ chargeback \notin {"OPEN", "LOST"}

\* Mutant: an accepted transfer counts as released.
RequestReleaseDone ==
    /\ ~Refused("release", ReleaseReq)
    /\ Request("release", ReleaseReq, TRUE)
    /\ settlement' = IF ops'["release"].op = "SUCCEEDED" THEN "RELEASED" ELSE settlement
    /\ UNCHANGED <<status, payment, refundDue, method, hold, fund, pfund, pcancel>> /\ Untouched

\* requestCreatorRelease: an accepted transfer makes the settlement pending.
RequestRelease ==
    /\ ~Refused("release", ReleaseReq)
    /\ Request("release", ReleaseReq, TRUE)
    /\ settlement' = IF ops'["release"].op = "SUCCEEDED" /\ settlement = "READY" THEN "PENDING" ELSE settlement
    /\ UNCHANGED <<status, payment, refundDue, method, hold, fund, pfund, pcancel>> /\ Untouched

ReleaseReadySettlements == ReleaseReady /\ RequestRelease

\* reconcileProviderOperations, unresolved funding: the answer of the lookup is written back by a later statement.
LookupFunding(i) ==
    /\ lookup = NoLookup /\ fund[i].op \in Unresolved
    /\ lookup' = [fund |-> i, applied |-> pfund[i] # "NONE"]
    /\ UNCHANGED <<row, attempts, fund, ops, books, chargeback, provider, sent, seen, faults>>
ResolveFunding ==
    /\ lookup # NoLookup
    /\ lookup' = NoLookup
    /\ fund' = [fund EXCEPT ![lookup.fund].op = IF @ \notin Unresolved THEN @
                                                ELSE IF lookup.applied THEN "SUCCEEDED" ELSE "FAILED"]
    /\ UNCHANGED <<row, attempts, ops, books, chargeback, provider, sent, seen, faults>>

\* Unresolved transfers: applied ones are journaled, the others retried under the same operation id.
ResolveTransfer(t) ==
    /\ ops[t].op \in Unresolved /\ ptr[t].applied
    /\ ops' = [ops EXCEPT ![t].op = "SUCCEEDED"]
    /\ UNCHANGED <<row, attempts, fund, lookup, books, chargeback, provider, sent, seen, faults>>
RetryPendingRefund ==
    /\ ops["refund"].op \in Unresolved /\ ~ptr["refund"].applied /\ payment = "REFUND_PENDING"
    /\ ~Refused("refund", RefundReq(refundDue, RefundReasonFor(status)))
    /\ Request("refund", RefundReq(refundDue, RefundReasonFor(status)), TRUE)
    /\ UNCHANGED <<status, payment, settlement, refundDue, method, hold, fund, pfund, pcancel>> /\ Untouched
RetryPendingRelease ==
    /\ ops["release"].op \in Unresolved /\ ~ptr["release"].applied /\ settlement \in {"READY", "PENDING"}
    /\ RequestRelease

\* Mutant: only captures are fetched.
FetchCaptured(i) ==
    /\ fund[i].op = "SUCCEEDED" /\ fund[i].fact \notin {"SUCCEEDED", "FAILED", "CANCELED"} /\ pfund[i] = "SUCCEEDED"
    /\ Room /\ sent' = sent \cup {Fetched("funding", i, pfund[i])}
    /\ UNCHANGED <<row, journal, books, chargeback, provider, seen, faults>>

\* Facts whose event is missing are fetched and stored in the inbox under an id of their own.
FetchFunding(i) ==
    /\ fund[i].op = "SUCCEEDED" /\ fund[i].fact \notin {"SUCCEEDED", "FAILED", "CANCELED"}
    /\ pfund[i] \in {"SUCCEEDED", "FAILED", "CANCELED"}
    /\ Room /\ sent' = sent \cup {Fetched("funding", i, pfund[i])}
    /\ UNCHANGED <<row, journal, books, chargeback, provider, seen, faults>>
FetchTransfer(t) ==
    /\ ops[t].op = "SUCCEEDED" /\ ops[t].fact \notin {"SUCCEEDED", "FAILED"}
    /\ ptr[t].status \in {"SUCCEEDED", "FAILED"}
    /\ Room /\ sent' = sent \cup {Fetched(t, 0, ptr[t].status)}
    /\ UNCHANGED <<row, journal, books, chargeback, provider, seen, faults>>

-----------------------------------------------------------------------------
(* The provider, external: what it may do on its own *)

ProviderStep(p, events) ==
    /\ Room /\ p
    /\ sent' = sent \cup events
    /\ UNCHANGED <<row, journal, books, chargeback, pcancel, seen, faults>>

FundingOutcomes ==
    [REQUIRES_ACTION |-> {"PROCESSING", "SUCCEEDED", "FAILED"}, PROCESSING |-> {"SUCCEEDED", "FAILED"}]
\* The buyer confirms, the payment fails, or a bank transfer is on its way.
FundingOutcome(i, new) ==
    /\ pfund[i] \in {"REQUIRES_ACTION", "PROCESSING"} /\ new \in FundingOutcomes[pfund[i]]
    /\ ProviderStep(pfund' = [pfund EXCEPT ![i] = new] /\ UNCHANGED <<ptr, pdispute>>, {Event("funding", i, new)})
\* A capture in flight completes although the attempt was cancelled.
LateCapture(i) ==
    /\ pfund[i] = "CANCELED"
    /\ ProviderStep(pfund' = [pfund EXCEPT ![i] = "SUCCEEDED"] /\ UNCHANGED <<ptr, pdispute>>, {Event("funding", i, "SUCCEEDED")})
BankReturn(i) ==
    /\ pfund[i] = "SUCCEEDED" /\ fund[i].method = "BANK_TRANSFER"
    /\ ProviderStep(pfund' = [pfund EXCEPT ![i] = "RETURNED"] /\ UNCHANGED <<ptr, pdispute>>, {Event("funding", i, "RETURNED")})
SettleTransfer(t, new) ==
    /\ ptr[t].status = "PENDING"
    /\ ProviderStep(ptr' = [ptr EXCEPT ![t].status = new] /\ UNCHANGED <<pfund, pdispute>>, {Event(t, 0, new)})
OpenChargeback ==
    /\ Disputable /\ pdispute = "NONE" /\ \E i \in Attempts : pfund[i] = "SUCCEEDED" /\ fund[i].method = "CARD"
    /\ ProviderStep(pdispute' = "OPEN" /\ UNCHANGED <<pfund, ptr>>, {Event("dispute", 0, "OPEN")})
DecideChargeback(new) ==
    /\ pdispute = "OPEN"
    /\ ProviderStep(pdispute' = new /\ UNCHANGED <<pfund, ptr>>, {Event("dispute", 0, new)})

-----------------------------------------------------------------------------
(* Events: processVerifiedEvent applies each inbox row once *)

\* A later fact never regresses a recorded success.
Fact(old, new) == IF old = "SUCCEEDED" THEN old ELSE new

\* Columns an event may change; each branch of an event says what becomes of them.
KeepRow == UNCHANGED <<status, payment, settlement, method, hold, lateCase>>

\* Mutant: only a capture that funds the order is booked.
FundingSucceededUnbooked(i) ==
    IF FundingBooked(i) THEN KeepRow /\ UNCHANGED books
    ELSE \/ /\ status = "AWAITING_PAYMENT" /\ payment # "SUCCEEDED" /\ hold \in OpenHold
            /\ status' = "FUNDED" /\ payment' = "SUCCEEDED" /\ method' = fund[i].method /\ hold' = "ACTIVE"
            /\ Book("funding", i, Amount)
            /\ UNCHANGED <<settlement, lateCase>>
         \/ /\ ~(status = "AWAITING_PAYMENT" /\ payment # "SUCCEEDED" /\ hold \in OpenHold)
            /\ lateCase' = (lateCase \/ payment # "SUCCEEDED")
            /\ UNCHANGED <<status, payment, settlement, method, hold, books>>

FundingSucceeded(i) ==
    IF FundingBooked(i) THEN KeepRow /\ UNCHANGED books
    ELSE /\ Book("funding", i, Amount)
         /\ \/ /\ status = "AWAITING_PAYMENT" /\ payment # "SUCCEEDED" /\ hold \in OpenHold
               /\ status' = "FUNDED" /\ payment' = "SUCCEEDED" /\ method' = fund[i].method /\ hold' = "ACTIVE"
               /\ UNCHANGED <<settlement, lateCase>>
            \/ /\ ~(status = "AWAITING_PAYMENT" /\ payment # "SUCCEEDED" /\ hold \in OpenHold)
               /\ lateCase' = (lateCase \/ payment # "SUCCEEDED")
               /\ UNCHANGED <<status, payment, settlement, method, hold>>

\* Processing, failed and canceled events only speak for the latest attempt of an unpaid order.
FundingProgress(i, new) ==
    /\ payment' = IF status # "AWAITING_PAYMENT" \/ i # attempts THEN payment
                  ELSE IF new = "PROCESSING" /\ payment = "PENDING" THEN "PROCESSING"
                  ELSE IF new \in {"FAILED", "CANCELED"} /\ payment \in {"PENDING", "PROCESSING"} THEN "FAILED" ELSE payment
    /\ UNCHANGED <<status, settlement, method, hold, lateCase, books>>

\* Mutant: a return is applied whatever the payment status.
FundingReturnedAnyway(i) ==
    IF method # "BANK_TRANSFER" THEN KeepRow /\ UNCHANGED books
    ELSE /\ payment' = "RETURNED" /\ Book("bank-return", i, Amount)
         /\ UNCHANGED <<status, settlement, hold, method, lateCase>>

\* applyBankReturn: it asks how the order was funded, not whether the returned attempt i funded it.
FundingReturned(i) ==
    IF method # "BANK_TRANSFER" \/ payment \notin {"SUCCEEDED", "REFUND_PENDING"} THEN KeepRow /\ UNCHANGED books
    ELSE /\ payment' = "RETURNED"
         /\ \/ /\ status = "FUNDED"
               /\ status' = "CANCELLED" /\ settlement' = "NOT_READY" /\ hold' = "CLOSED"
               /\ Book("bank-return", i, Amount)
            \/ /\ status # "FUNDED"
               /\ Book(IF settlement \in {"PENDING", "RELEASED"} THEN "bank-loss" ELSE "bank-return", i, Amount)
               /\ UNCHANGED <<status, settlement, hold>>
         /\ UNCHANGED <<method, lateCase>>

\* Mutant: a partial refund is booked in full.
RefundSucceededInFull ==
    LET expected == RefundAmount(refundDue)
    IN  IF payment # "REFUND_PENDING" \/ ptr["refund"].req.amount # expected THEN KeepRow /\ UNCHANGED books
        ELSE /\ \/ /\ expected = Amount
                   /\ status' = "REFUNDED" /\ payment' = "REFUNDED" /\ settlement' = "NOT_READY" /\ hold' = "CLOSED"
                \/ /\ expected # Amount
                   /\ payment' = "PARTIALLY_REFUNDED" /\ UNCHANGED <<status, settlement, hold>>
             /\ Book("refund", 0, Amount)
             /\ UNCHANGED <<method, lateCase>>

RefundSucceeded ==
    LET expected == RefundAmount(refundDue)
    IN  IF payment # "REFUND_PENDING" \/ ptr["refund"].req.amount # expected THEN KeepRow /\ UNCHANGED books
        ELSE /\ \/ /\ expected = Amount
                   /\ status' = "REFUNDED" /\ payment' = "REFUNDED" /\ settlement' = "NOT_READY" /\ hold' = "CLOSED"
                \/ /\ expected # Amount
                   /\ payment' = "PARTIALLY_REFUNDED" /\ UNCHANGED <<status, settlement, hold>>
             /\ Book("refund", 0, expected)
             /\ UNCHANGED <<method, lateCase>>

ReleaseSucceeded ==
    IF settlement \notin {"READY", "PENDING"} \/ ptr["release"].req.amount # ops["release"].req.amount THEN KeepRow /\ UNCHANGED books
    ELSE /\ settlement' = "RELEASED"
         /\ status' = IF status = "APPROVED" THEN "COMPLETED" ELSE status
         /\ Book("release", 0, ops["release"].req.amount)
         /\ UNCHANGED <<payment, method, hold, lateCase>>
ReleaseOther(new) ==
    /\ settlement' = IF new = "FAILED" /\ settlement \in {"READY", "PENDING"} THEN "FAILED"
                     ELSE IF new = "PENDING" /\ settlement = "READY" THEN "PENDING" ELSE settlement
    /\ UNCHANGED <<status, payment, method, hold, lateCase, books>>

ApplyFundingEvent(e) ==
    /\ fund' = [fund EXCEPT ![e.id].fact = Fact(@, e.status)]
    /\ CASE e.status = "SUCCEEDED" -> FundingSucceeded(e.id)
         [] e.status = "RETURNED" -> FundingReturned(e.id)
         [] OTHER -> FundingProgress(e.id, e.status)
    /\ UNCHANGED <<ops, chargeback>>
ApplyRefundEvent(e) ==
    /\ ops' = [ops EXCEPT !["refund"].fact = Fact(@, e.status)]
    /\ IF e.status = "SUCCEEDED" THEN RefundSucceeded ELSE KeepRow /\ UNCHANGED books
    /\ UNCHANGED <<fund, chargeback>>
ApplyReleaseEvent(e) ==
    /\ ops' = [ops EXCEPT !["release"].fact = Fact(@, e.status)]
    /\ IF e.status = "SUCCEEDED" THEN ReleaseSucceeded ELSE ReleaseOther(e.status)
    /\ UNCHANGED <<fund, chargeback>>
\* A card dispute is a fact about the payment; the order keeps its state.  A decision without an opening is a case.
ApplyDisputeEvent(e) ==
    /\ chargeback' = IF e.status = "OPEN" THEN IF chargeback = "NONE" THEN "OPEN" ELSE chargeback
                     ELSE IF chargeback = "OPEN" THEN e.status ELSE chargeback
    /\ KeepRow /\ UNCHANGED <<fund, ops, books>>

ProcessEvent(e) ==
    /\ e \notin seen
    /\ seen' = seen \cup {e}
    /\ \/ e.kind = "funding" /\ ApplyFundingEvent(e)
       \/ e.kind = "refund" /\ ApplyRefundEvent(e)
       \/ e.kind = "release" /\ ApplyReleaseEvent(e)
       \/ e.kind = "dispute" /\ ApplyDisputeEvent(e)
    /\ UNCHANGED <<refundDue, attempts, lookup, provider, sent, faults>>

\* A webhook that never arrives.  What reconcile fetched is in the inbox and stays there until applied.
LoseEvent(e) ==
    /\ e \notin seen /\ e.source = "webhook"
    /\ seen' = seen \cup {e}
    /\ UNCHANGED <<row, journal, books, chargeback, provider, sent, faults>>

-----------------------------------------------------------------------------
Commands ==
    \/ \E m \in Methods : EnsureFundingIntent(m) \/ SwitchMethod(m)
    \/ CancelUnpaid \/ CancelFunded \/ Start \/ Approve
    \/ \E refund \in 0..Amount : AcceptCancellation(refund)
    \/ \E refund \in 1..Amount : ResolveRefund(refund)
    \/ \E reason \in {"BUYER_CANCELED_BEFORE_WORK", "MUTUAL_CANCELLATION", "OPERATOR_RESOLUTION"} : RetryRefund(reason)
    \/ RefundLateFunding

Reconcile ==
    \/ ResolveFunding \/ RetryPendingRefund \/ RetryPendingRelease
    \/ \E i \in Attempts : LookupFunding(i) \/ FetchFunding(i)
    \/ \E t \in Transfers : ResolveTransfer(t) \/ FetchTransfer(t)

Jobs == ExpireHold \/ ReleaseReadySettlements \/ Reconcile

Provider ==
    \/ \E i \in Attempts : LateCapture(i) \/ BankReturn(i) \/ \E new \in {"PROCESSING", "SUCCEEDED", "FAILED"} : FundingOutcome(i, new)
    \/ \E t \in Transfers, new \in {"SUCCEEDED", "FAILED"} : SettleTransfer(t, new)
    \/ OpenChargeback \/ \E new \in {"WON", "LOST"} : DecideChargeback(new)

Delivery == \E e \in sent : ProcessEvent(e) \/ LoseEvent(e)

Next == Commands \/ Jobs \/ Provider \/ Delivery

Spec == Init /\ [][Next]_vars

-----------------------------------------------------------------------------
(* Properties *)

\* Every column, journal entry and provider object keeps its domain.
TypeOK ==
    /\ status \in {"AWAITING_PAYMENT", "FUNDED", "WORKING", "APPROVED", "COMPLETED", "CANCELLED", "REFUNDED"}
    /\ payment \in Unpaid \cup {"SUCCEEDED", "REFUND_PENDING", "PARTIALLY_REFUNDED", "REFUNDED", "RETURNED"}
    /\ settlement \in {"NOT_READY", "READY", "PENDING", "RELEASED", "FAILED"}
    /\ refundDue \in {NoAmount} \cup 0..Amount /\ method \in Methods \cup {"NONE"}
    /\ hold \in OpenHold \cup {"ACTIVE", "CLOSED"} /\ lateCase \in BOOLEAN
    /\ attempts \in 0..MaxAttempts /\ faults \in 0..MaxFaults
    /\ \A i \in Attempts : fund[i].op \in {"NONE", "SUCCEEDED", "FAILED"} \cup Unresolved
    /\ \A t \in Transfers : ops[t].op \in {"NONE", "SUCCEEDED", "FAILED"} \cup Unresolved /\ ops[t].req.amount \in 0..Amount
    /\ chargeback \in {"NONE", "OPEN", "WON", "LOST"} /\ seen \subseteq sent

\* The row claims only what the provider did: paid, refunded (in the amount agreed) or released.
OutcomeIsProviderFact ==
    /\ payment = "SUCCEEDED" => \E i \in Attempts : pfund[i] \in {"SUCCEEDED", "RETURNED"}
    /\ payment = "RETURNED" => \E i \in Attempts : pfund[i] = "RETURNED"
    /\ payment \in {"REFUNDED", "PARTIALLY_REFUNDED"} =>
           ptr["refund"].status = "SUCCEEDED" /\ ptr["refund"].req.amount = RefundAmount(refundDue)
    /\ settlement = "RELEASED" => ptr["release"].status = "SUCCEEDED" /\ ptr["release"].req.amount = RemainderOf(refundDue)

\* The books and the row tell one story whatever the order of events, fetches and retries: a refund or a release is
\* booked exactly when the row shows it, both together never exceed what was booked as captured, and an order that ended
\* on a single capture nobody took back holds no principal.
BooksMatchRow ==
    LET paidOut == payment = "REFUNDED" \/ (settlement = "RELEASED" /\ payment # "REFUND_PENDING")
    IN  /\ Booked({"refund"}) # {} <=> payment \in {"REFUNDED", "PARTIALLY_REFUNDED"}
        /\ Booked({"release"}) # {} <=> settlement = "RELEASED"
        /\ Sum({"refund", "release"}) <= Sum({"funding"})
        /\ paidOut /\ Booked({"bank-return", "bank-loss"}) = {} /\ Cardinality(Booked({"funding"})) = 1 => Principal = 0

Open(i) == pfund[i] \in {"REQUIRES_ACTION", "PROCESSING"}

\* One order is never paid twice through its own attempts: at most one intent is open at the provider, switching the
\* method and retrying included, and none once the order is cancelled unpaid.  Left out: an attempt journaled as FAILED
\* because a lookup found it not applied, which a retry may have created since.
OneOpenIntent ==
    LET open == {i \in Attempts : Open(i) /\ fund[i].op # "FAILED"}
    IN  Cardinality(open) <= IF status = "CANCELLED" /\ payment \in Unpaid THEN 0 ELSE 1

Money == INSTANCE OrderMoney WITH stage <- status

\* Timeouts, retries, late, lost and reordered events included, the rail makes only the money moves of OrderMoney.
MoneyMovesRespected == Money!Spec

\* A funding attempt as a charge; the refund and the release are the only transfers from it.
ChargeOf(i) ==
    LET Out(t, s) == IF ptr[t].req.fund = i /\ ptr[t].status = s THEN ptr[t].req.amount ELSE 0
    IN  [status |-> pfund[i], method |-> IF pfund[i] = "NONE" THEN "NONE" ELSE fund[i].method,
         amount |-> IF pfund[i] = "NONE" THEN 0 ELSE Amount,
         pending |-> Out("refund", "PENDING") + Out("release", "PENDING"),
         paid |-> Out("refund", "SUCCEEDED") + Out("release", "SUCCEEDED"), back |-> 0]
Contract == INSTANCE Charges WITH Ids <- Attempts, charge <- [i \in Attempts |-> ChargeOf(i)]

\* The provider the rail works with keeps the promise of Charges: switched methods, cancellations that time out, late
\* captures and bank returns included, nothing is drawn from an attempt that is not captured or has nothing left.
ChargesKept == Contract!Spec

Returned == \E i \in Attempts : pfund[i] = "RETURNED"

\* A failure that an older funding.processing overwrote in the journal: reconcile never learns of it again.
Overwritten == \E i \in Attempts : pfund[i] = "FAILED" /\ fund[i].fact = "PROCESSING"

\* A checkout hold never outlives the question whether the buyer paid: it ends in a funded or a cancelled order and the
\* creator's capacity comes back, when cancelling times out, an attempt is unresolved or every webhook is lost.  Left out:
\* an overwritten failure, and a transfer the bank took back before the order heard of it.
HoldEndsUnlessOverwritten == hold \in OpenHold ~> (hold \notin OpenHold \/ Returned \/ Overwritten)

\* Money captured from a buyer reaches the books even when every webhook is lost, unless the bank takes it back, the
\* attempt was cancelled before the capture or its journal entry was closed as never applied.
CaptureIsBooked ==
    \A i \in Attempts :
        pfund[i] = "SUCCEEDED" ~> FundingBooked(i) \/ pfund[i] = "RETURNED" \/ pcancel[i] \/ fund[i].op = "FAILED"

\* The reconcile job asks for an unresolved refund exactly as it was first asked for (refundReasonFor).
RefundRetriesAgree ==
    ops["refund"].op \in Unresolved /\ payment = "REFUND_PENDING" => ops["refund"].req.reason = RefundReasonFor(status)

\* No transfer to the creator starts while the card payment is disputed or lost (applyDisputeEvent).
FrozenWhileDisputed ==
    [][~ptr["release"].applied /\ ptr["release"].applied' => chargeback \notin {"OPEN", "LOST"}]_vars

\* The principal paid out of an order never exceeds its funding (restore-obligations.ts, hard invariant).
PrincipalNotOverdrawn == Principal >= 0

\* "a returned transfer cancels an order not yet started" (bank.db.test.ts): an attempt the platform has recorded as
\* returned never funds its order, in whichever order the two events come.
ReturnedNeverFunds ==
    [][\A i \in Attempts : fund[i].fact = "RETURNED" /\ ~FundingBooked(i) /\ FundingBooked(i)' => status' # "FUNDED"]_vars

\* Cron keeps running the jobs, events are delivered or lost, and the provider settles what is processing.
FairSpec ==
    /\ Spec
    /\ WF_vars(ExpireHold) /\ WF_vars(ResolveFunding) /\ WF_vars(\E i \in Attempts : LookupFunding(i))
    /\ WF_vars(Delivery)
    /\ \A i \in Attempts : WF_vars(FetchFunding(i))
    /\ \A i \in Attempts : WF_vars(pfund[i] = "PROCESSING" /\ \E new \in {"SUCCEEDED", "FAILED"} : FundingOutcome(i, new))

=============================================================================
