---------------------------- MODULE CardProvider ----------------------------
(***************************************************************************)
(* The payment provider behind the card and bank rail, as the adapter's     *)
(* local implementation keeps it: fundings, the transfers made from them,   *)
(* disputes, and the memory of operation ids that makes every call safe to  *)
(* repeat (payments/providers.ts, MockPaymentProvider).                     *)
(*                                                                          *)
(* An object's reference is a hash of the operation that made it, so the    *)
(* objects are functions of operation ids.  A call may reach the provider   *)
(* and lose its answer, never reach it, or be turned away.                  *)
(***************************************************************************)
EXTENDS Integers, Sequences, FiniteSets, Totals

CONSTANTS Operations,     \* operation ids
          Asked,          \* <<operation id, request>> pairs callers send; one id may come with two requests
          Configs,        \* provider accounts: [release, refund (settlement), partial, bank]
          MaxAtomic,      \* DEFAULT_MAX_ATOMIC_AMOUNT
          Currencies,     \* supported currencies
          NoPayouts,      \* payeesWithoutPayouts
          PayeeBalances,  \* balances a payee may be given
          NotMade,        \* no such object (a model value)
          MaxCallFaults,  \* bound on injected failures
          MaxDisputes     \* bound on disputes

VARIABLES config,        \* the account's settings
          journal,       \* journal[o]: [request, state] of an operation id
          fundings,      \* fundings[o]: the funding operation o made
          transfers,     \* transfers[o]: the release, refund or reversal operation o made
          disputes,      \* card disputes, oldest first
          payeeBalance,  \* what a reversal can take from the payee
          emitted,       \* events: <<<<object type, status>>, operation>>
          answered,      \* operations whose caller heard that they succeeded
          callFaults

cardVars == <<config, journal, fundings, transfers, disputes, payeeBalance, emitted, answered, callFaults>>

AnyBalance == -1    \* a payee not listed in payeeBalances can always be reversed

(* Requests: what the hash of an operation tells apart.  "on" is the operation that made the object a request names. *)
FundingInput == [kind : {"funding.create"}, order : STRING, payee : STRING, amount : Int, currency : STRING, fee : Int,
                 method : {"CARD", "BANK_TRANSFER"}]
CancelInput == [kind : {"funding.cancel"}, on : STRING]
ReleaseInput == [kind : {"release.create"}, on : STRING, order : STRING, payee : STRING, amount : Int, currency : STRING, fee : Int]
RefundInput == [kind : {"refund.create"}, on : STRING, order : STRING, amount : Int, currency : STRING,
                source : {"PRINCIPAL", "PLATFORM_BALANCE"}]
ReversalInput == [kind : {"reversal.create"}, on : STRING, order : STRING, amount : Int, currency : STRING]

Requests == FundingInput \union CancelInput \union ReleaseInput \union RefundInput \union ReversalInput

(* What the provider keeps of an operation, a funding and a transfer. *)
JournalRows == [request : Requests, state : {"APPLIED", "NOT_APPLIED"}]
FundingRows == [status : {"REQUIRES_ACTION", "PROCESSING", "SUCCEEDED", "FAILED", "CANCELED", "RETURNED"},
                method : {"CARD", "BANK_TRANSFER"}, order : STRING, payee : STRING, amount : Nat, currency : STRING,
                cost : Nat \union {NotMade}]
TransferRows == [kind : {"release", "refund", "reversal"}, funding : Operations, payee : STRING \union {NotMade}, amount : Nat,
                 source : {"PRINCIPAL", "PLATFORM_BALANCE"}, status : {"PENDING", "SUCCEEDED", "FAILED"}]

ASSUME CardAssumption ==
    /\ MaxAtomic \in Nat /\ MaxCallFaults \in Nat /\ MaxDisputes \in Nat /\ PayeeBalances \subseteq Nat
    /\ IsFiniteSet(Operations) /\ \A a \in Asked : a[1] \in Operations /\ a[2] \in Requests
    /\ NotMade \notin {"APPLIED", "NOT_APPLIED"} /\ NotMade \notin JournalRows /\ NotMade \notin FundingRows /\ NotMade \notin TransferRows

FundingRecord(q) == [status |-> "REQUIRES_ACTION", method |-> q.method, order |-> q.order, payee |-> q.payee,
                     amount |-> q.amount, currency |-> q.currency, cost |-> NotMade]
TransferRecord(kind, f, payee, amount, source, status) ==
    [kind |-> kind, funding |-> f, payee |-> payee, amount |-> amount, source |-> source, status |-> status]
JournalEntry(q, state) == [request |-> q, state |-> state]

CardInit ==
    /\ config \in Configs
    /\ journal = [o \in Operations |-> NotMade] /\ answered = {}
    /\ fundings = [o \in Operations |-> NotMade] /\ transfers = [o \in Operations |-> NotMade]
    /\ disputes = <<>> /\ payeeBalance = AnyBalance /\ emitted = {} /\ callFaults = 0

----------------------------------------------------------------------------
(* What the checks before and inside an operation say. *)

AtomicAmount(v, max) == v \in 1 .. max

Made == {o \in Operations : fundings[o] # NotMade}
TransfersOf(f) == {o \in Operations : transfers[o] # NotMade /\ transfers[o].funding = f}
SumOf(ops) == Total([o \in Operations |-> IF transfers[o] = NotMade THEN 0 ELSE transfers[o].amount], ops)
OfKind(kind, f) == {o \in TransfersOf(f) : transfers[o].kind = kind}

\* Mutant: only settled transfers are taken off, so a second one may be sent while the first is pending.
AvailableSettled(f) ==
    LET Drawn == {o \in TransfersOf(f) : transfers[o].status = "SUCCEEDED" /\ transfers[o].kind # "reversal" /\ transfers[o].source = "PRINCIPAL"}
    IN  IF fundings[f].status # "SUCCEEDED" THEN 0 ELSE fundings[f].amount - SumOf(Drawn) + SumOf(OfKind("reversal", f))

\* availablePrincipal: a reversal puts principal back; a refund from the platform's balance never drew on it.
AvailablePrincipal(f) ==
    LET Drawn == {o \in TransfersOf(f) : transfers[o].status # "FAILED" /\ transfers[o].kind # "reversal" /\ transfers[o].source = "PRINCIPAL"}
    IN  IF fundings[f].status # "SUCCEEDED" THEN 0 ELSE fundings[f].amount - SumOf(Drawn) + SumOf(OfKind("reversal", f))

CardRefunded(f) == SumOf({o \in OfKind("refund", f) : transfers[o].status # "FAILED"})

\* assertTransferAgainst, with requireFunding before it.
TransferAgainst(q) == /\ q.on \in Made
                      /\ fundings[q.on].status = "SUCCEEDED"
                      /\ fundings[q.on].order = q.order /\ fundings[q.on].currency = q.currency

\* requireTransfer
IsTransfer(o, kind) == o \in Operations /\ transfers[o] # NotMade /\ transfers[o].kind = kind

----------------------------------------------------------------------------
(* runIdempotent: one id stands for one request, applied once; Effect is what applying it changes. *)

Nothing == UNCHANGED <<fundings, transfers, payeeBalance, emitted>>
Records(o, q, state) == journal' = [journal EXCEPT ![o] = JournalEntry(q, state)]

\* computeRequestHash: the canonical encoding tells two requests apart exactly when a field differs.
SameRequest(a, b) == a = b

\* A refusal reports NOT_APPLIED and a timeout UNKNOWN: neither answers the call.
Succeeds(o) == answered' = answered \union {o}

RunIdempotent(o, q, wellFormed, accepted, Effect) ==
    /\ \/ /\ ~wellFormed \/ (journal[o] # NotMade /\ ~SameRequest(journal[o].request, q))   \* INVALID_INPUT, IDEMPOTENCY_CONFLICT
          /\ Nothing /\ UNCHANGED <<journal, answered, callFaults>>
       \/ wellFormed /\ journal[o] = JournalEntry(q, "APPLIED") /\ Succeeds(o) /\ Nothing /\ UNCHANGED <<journal, callFaults>>
       \/ /\ wellFormed /\ journal[o] \in {NotMade, JournalEntry(q, "NOT_APPLIED")}
          /\ \/ /\ callFaults < MaxCallFaults /\ callFaults' = callFaults + 1   \* PROVIDER_UNAVAILABLE, or a timeout before it was accepted
                /\ Records(o, q, "NOT_APPLIED") /\ Nothing /\ UNCHANGED answered
             \/ ~accepted /\ Records(o, q, "NOT_APPLIED") /\ Nothing /\ UNCHANGED <<answered, callFaults>>
             \/ /\ accepted /\ Effect /\ Records(o, q, "APPLIED")
                /\ \/ Succeeds(o) /\ UNCHANGED callFaults
                   \/ callFaults < MaxCallFaults /\ callFaults' = callFaults + 1 /\ UNCHANGED answered   \* ACCEPT_THEN_TIMEOUT
    /\ UNCHANGED <<config, disputes>>

Emits(o, type) == emitted' = emitted \union {<<type, o>>}

\* emitTransferEvent names the transfer's kind and status.
TransferEvent(kind, status) == <<kind, status>>

\* createTransfer: a reversal settles at once; releases and refunds follow the account's settlement.
CreateTransfer(o, kind, f, payee, amount, source) ==
    LET status == IF kind = "reversal" \/ (kind = "release" /\ config.release = "immediate")
                     \/ (kind = "refund" /\ config.refund = "immediate") THEN "SUCCEEDED" ELSE "PENDING"
    IN  /\ transfers' = [transfers EXCEPT ![o] = TransferRecord(kind, f, payee, amount, source, status)]
        /\ Emits(o, TransferEvent(kind, status)) /\ UNCHANGED fundings

CreateFundingIntent(o, q) ==
    /\ q.kind = "funding.create"
    /\ RunIdempotent(o, q,
          /\ AtomicAmount(q.amount, MaxAtomic) /\ q.currency \in Currencies /\ q.fee = 0
          /\ q.method = "CARD" \/ config.bank,
          TRUE,
          fundings' = [fundings EXCEPT ![o] = FundingRecord(q)] /\ UNCHANGED <<transfers, payeeBalance, emitted>>)

\* A bank transfer the buyer already sent cannot be called back.
CancelFunding(o, q) ==
    /\ q.kind = "funding.cancel"
    /\ RunIdempotent(o, q, TRUE,
          q.on \in Made /\ (fundings[q.on].status \in {"CANCELED", "REQUIRES_ACTION"}
                            \/ (fundings[q.on].status = "PROCESSING" /\ fundings[q.on].method = "CARD")),
          /\ IF fundings[q.on].status = "CANCELED" THEN UNCHANGED <<fundings, emitted>>
             ELSE fundings' = [fundings EXCEPT ![q.on].status = "CANCELED"] /\ Emits(q.on, <<"funding", "CANCELED">>)
          /\ UNCHANGED <<transfers, payeeBalance>>)

ReleaseToCreator(o, q) ==
    /\ q.kind = "release.create"
    /\ RunIdempotent(o, q, AtomicAmount(q.amount, MaxAtomic) /\ q.fee = 0,
          TransferAgainst(q) /\ fundings[q.on].payee = q.payee /\ q.payee \notin NoPayouts /\ q.amount <= AvailablePrincipal(q.on),
          CreateTransfer(o, "release", q.on, q.payee, q.amount, "PRINCIPAL") /\ UNCHANGED payeeBalance)

RefundCharge(o, q) ==
    /\ q.kind = "refund.create"
    /\ RunIdempotent(o, q, AtomicAmount(q.amount, MaxAtomic),
          /\ TransferAgainst(q)
          /\ config.partial \/ q.amount = fundings[q.on].amount \/ q.source = "PLATFORM_BALANCE"
          /\ q.amount <= IF q.source = "PLATFORM_BALANCE" THEN fundings[q.on].amount - CardRefunded(q.on) ELSE AvailablePrincipal(q.on),
          CreateTransfer(o, "refund", q.on, NotMade, q.amount, q.source) /\ UNCHANGED payeeBalance)

\* Every reversal made from the funding counts against the release that is reversed.
ReverseTransfer(o, q) ==
    LET r == transfers[q.on] IN
    /\ q.kind = "reversal.create"
    /\ RunIdempotent(o, q, AtomicAmount(q.amount, MaxAtomic),
          /\ IsTransfer(q.on, "release") /\ r.status = "SUCCEEDED"
          /\ fundings[r.funding].order = q.order /\ fundings[r.funding].currency = q.currency
          /\ q.amount <= r.amount - SumOf(OfKind("reversal", r.funding))
          /\ payeeBalance = AnyBalance \/ q.amount <= payeeBalance,
          /\ payeeBalance' = IF payeeBalance = AnyBalance THEN AnyBalance ELSE payeeBalance - q.amount
          /\ CreateTransfer(o, "reversal", r.funding, r.payee, q.amount, "PRINCIPAL"))

\* lookupOperation: how a caller learns what became of a call it heard nothing of.
LookupOperation(o) == IF journal[o] = NotMade THEN NotMade ELSE journal[o].state

\* fundingSnapshot, what getFundingStatus reports of a funding.
FundingSnapshot(f) ==
    LET Sum(kind, status) == SumOf({o \in OfKind(kind, f) : transfers[o].status = status})
    IN  [released |-> Sum("release", "SUCCEEDED"), releasePending |-> Sum("release", "PENDING"),
         refunded |-> Sum("refund", "SUCCEEDED"), refundPending |-> Sum("refund", "PENDING"),
         available |-> AvailablePrincipal(f),
         fullyRefunded |-> fundings[f].status = "SUCCEEDED" /\ Sum("refund", "SUCCEEDED") = fundings[f].amount]

----------------------------------------------------------------------------
(* Facts on the provider's side. *)

Capturable == [REQUIRES_ACTION |-> {"PROCESSING", "SUCCEEDED", "FAILED"}, PROCESSING |-> {"SUCCEEDED", "FAILED"},
               SUCCEEDED |-> {}, FAILED |-> {}, CANCELED |-> {}, RETURNED |-> {}]

FundingFact(f, status, cost) ==
    /\ fundings' = [fundings EXCEPT ![f].status = status, ![f].cost = cost] /\ Emits(f, <<"funding", status>>)
    /\ UNCHANGED <<config, journal, transfers, disputes, payeeBalance, answered, callFaults>>

FundingOutcome(f, status, cost) ==
    /\ status \in Capturable[fundings[f].status]
    /\ FundingFact(f, status, IF status = "SUCCEEDED" THEN cost ELSE fundings[f].cost)

\* The capture was in flight when the platform cancelled the attempt.
LateCapture(f) == fundings[f].status = "CANCELED" /\ FundingFact(f, "SUCCEEDED", IF fundings[f].cost = NotMade THEN 0 ELSE fundings[f].cost)

BankReturn(f) == fundings[f].method = "BANK_TRANSFER" /\ fundings[f].status = "SUCCEEDED" /\ FundingFact(f, "RETURNED", fundings[f].cost)

FeeAdjustment(f, cost) ==
    /\ fundings[f].status = "SUCCEEDED" /\ cost # fundings[f].cost
    /\ fundings' = [fundings EXCEPT ![f].cost = cost] /\ Emits(f, <<"funding", "fee_updated">>)
    /\ UNCHANGED <<config, journal, transfers, disputes, payeeBalance, answered, callFaults>>

Chargeback(f, amount) ==
    /\ fundings[f].status = "SUCCEEDED" /\ amount \in {1, fundings[f].amount} /\ Cardinality(DOMAIN disputes) < MaxDisputes
    /\ disputes' = Append(disputes, [funding |-> f, amount |-> amount, status |-> "OPEN"])
    /\ Emits(f, <<"dispute", "OPEN">>)
    /\ UNCHANGED <<config, journal, fundings, transfers, payeeBalance, answered, callFaults>>

ChargebackOutcome(d, outcome) ==
    /\ disputes[d].status = "OPEN"
    /\ disputes' = [disputes EXCEPT ![d].status = outcome] /\ Emits(disputes[d].funding, <<"dispute", outcome>>)
    /\ UNCHANGED <<config, journal, fundings, transfers, payeeBalance, answered, callFaults>>

SettleTransfer(o, status) ==
    /\ transfers[o] # NotMade /\ transfers[o].status = "PENDING"
    /\ transfers' = [transfers EXCEPT ![o].status = status] /\ Emits(o, TransferEvent(transfers[o].kind, status))
    /\ UNCHANGED <<config, journal, fundings, disputes, payeeBalance, answered, callFaults>>

SetPayeeBalance(b) == payeeBalance' = b /\ UNCHANGED <<config, journal, fundings, transfers, disputes, emitted, answered, callFaults>>

CardNext ==
    \/ \E a \in Asked : \/ CreateFundingIntent(a[1], a[2]) \/ CancelFunding(a[1], a[2]) \/ ReleaseToCreator(a[1], a[2])
                        \/ RefundCharge(a[1], a[2]) \/ ReverseTransfer(a[1], a[2])
    \/ \E f \in Made : \/ \E s \in {"PROCESSING", "SUCCEEDED", "FAILED"}, c \in {0, 1} : FundingOutcome(f, s, c)
                       \/ LateCapture(f) \/ BankReturn(f) \/ \E c \in {0, 1} : FeeAdjustment(f, c)
                       \/ \E x \in 1 .. MaxAtomic : Chargeback(f, x)
    \/ \E d \in DOMAIN disputes, s \in {"WON", "LOST"} : ChargebackOutcome(d, s)
    \/ \E o \in Operations, s \in {"SUCCEEDED", "FAILED"} : SettleTransfer(o, s)
    \/ \E b \in PayeeBalances : SetPayeeBalance(b)

----------------------------------------------------------------------------
\* However calls are lost, repeated and settled, the principal of a captured charge pays out no more than it holds: what
\* was drawn from it, in flight included, never exceeds it by more than was taken back, no more is taken back from the
\* creator than it got, and what is reported as available is what is left.  The platform's balance pays at most the charge
\* on its own; what both pay together is RefundedWithinCapture.  An operation id made an object exactly when the lookup
\* says it was applied, and no call was answered before that (availablePrincipal, runIdempotent).
ChargeConserved ==
    /\ \A f \in Made :
          LET Reversed == SumOf(OfKind("reversal", f))
              FromPlatform == SumOf({o \in OfKind("refund", f) : transfers[o].source = "PLATFORM_BALANCE" /\ transfers[o].status # "FAILED"})
              snap == FundingSnapshot(f)
              Out == snap.released + snap.releasePending + snap.refunded + snap.refundPending - FromPlatform
          IN  /\ Out <= fundings[f].amount + Reversed
              /\ fundings[f].status = "SUCCEEDED" => snap.available = fundings[f].amount + Reversed - Out
              /\ Reversed <= snap.released
              /\ FromPlatform <= fundings[f].amount
    /\ \A o \in Operations :
          /\ LookupOperation(o) = "APPLIED" /\ journal[o].request.kind # "funding.cancel" <=> fundings[o] # NotMade \/ transfers[o] # NotMade
          /\ o \in answered => LookupOperation(o) = "APPLIED"

\* "A charge can never be refunded beyond what was captured, whichever balance pays for it" (refund): the refunds of a
\* charge, pending ones included, never add up to more than it.  It does not hold: a refund from the platform's balance is
\* held against all refunds so far, but one from the principal only against the principal, which the former never drew on.
RefundedWithinCapture == \A f \in Made : CardRefunded(f) <= fundings[f].amount

\* A funding as a charge: its principal on its way, paid out and taken back.
ChargeOf(f) ==
    LET Out(s) == SumOf({o \in TransfersOf(f) : transfers[o].status = s /\ transfers[o].kind # "reversal" /\ transfers[o].source = "PRINCIPAL"})
    IN  IF fundings[f] = NotMade
        THEN [status |-> "NONE", method |-> "NONE", amount |-> 0, pending |-> 0, paid |-> 0, back |-> 0]
        ELSE [status |-> fundings[f].status, method |-> fundings[f].method, amount |-> fundings[f].amount,
              pending |-> Out("PENDING"), paid |-> Out("SUCCEEDED"), back |-> SumOf(OfKind("reversal", f))]
Contract == INSTANCE Charges WITH Ids <- Operations, charge <- [f \in Operations |-> ChargeOf(f)]

\* Operation ids, repeated and lost calls, refusals and late settlements included, the provider's ledger makes only the
\* moves of Charges (MockPaymentProvider).
ChargesKept == Contract!Spec
=============================================================================
