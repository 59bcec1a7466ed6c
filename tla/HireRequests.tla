---------------------------- MODULE HireRequests ----------------------------
(***************************************************************************)
(* A buyer's request (src/modules/requests/commands.ts): creators apply    *)
(* with versioned quotes, the buyer selects a quote it has seen, which     *)
(* holds budget and a hire for 24 hours, and the creator's answer, the     *)
(* expiry job, the buyer and the fate of the resulting order end the hold. *)
(* The request's counters are kept by triggers, change by change; only the *)
(* job's list of candidates is read outside the request's lock.            *)
(***************************************************************************)
EXTENDS Integers, FiniteSets, Totals

CONSTANTS
    Applicants,            \* creators
    Quotes,                \* amounts a creator may quote
    Budgets,               \* [budget, cap, target] a buyer may ask for; cap is NoCap or an amount
    BaseFee, BonusCap,     \* of a performance campaign
    MaxAppVersion,         \* bound: versions of each creator's application
    MaxRequestEdits        \* bound: edits of the request

NoCap == 0
ASSUME HireAssumption ==
    /\ IsFiniteSet(Applicants) /\ Quotes \subseteq Nat \ {0} /\ {BaseFee, BonusCap, MaxRequestEdits} \subseteq Nat /\ MaxAppVersion \in [Applicants -> Nat]
    /\ Budgets \subseteq [budget : Nat \ {0}, cap : Nat, target : Nat \ {0}]

VARIABLES
    request,       \* [status, model, budget, cap, target, edits] and the counters of its holds
    hireClock,     \* "apply", then "hire" (applications closed), then "over" (past the deadline)
    application,   \* per creator: [status, version, quote]
    seen,          \* per creator: what the buyer's page shows of the application
    offer,         \* per creator, its latest offer: [status, amount, due]
    reservation,   \* state of that offer's budget reservation
    hire,          \* order of an accepted offer
    dueOffers      \* candidates of a running expireHireOffers

hireVars == <<request, hireClock, application, seen, offer, reservation, hire, dueOffers>>
holds == <<offer, reservation, hire>>

NoApplication == [status |-> "NONE", version |-> 0, quote |-> 0]
NoOffer == [status |-> "NONE", amount |-> 0, due |-> FALSE]

\* budgetFields: a cap alone makes the budget cap x hires; a cap never exceeds the budget.
BudgetFields(b) == b.cap <= b.budget

\* maxPayoutMinor: a performance hire holds the fixed fee and the whole bonus cap (freezePerformanceTerms).
HoldAmount(quote) == IF request.model = "PERFORMANCE" THEN BaseFee + BonusCap ELSE quote

\* performanceFields and the check after it: the budget, and a cap when there is one, hold the fee and the whole bonus.
PerformanceFields(model, b) ==
    model = "PERFORMANCE" => BaseFee + BonusCap <= b.budget /\ (b.cap # NoCap => b.cap >= BaseFee + BonusCap)

CreateRequest(model, b) ==
    /\ BudgetFields(b)
    /\ PerformanceFields(model, b)
    /\ request = [status |-> "OPEN", model |-> model, budget |-> b.budget, cap |-> b.cap, target |-> b.target, edits |-> 0,
                  reserved |-> 0, committed |-> 0, reservedHires |-> 0, committedHires |-> 0]

HireInit ==
    /\ \E model \in {"FIXED", "PERFORMANCE"}, b \in Budgets : CreateRequest(model, b)
    /\ hireClock = "apply" /\ dueOffers = {}
    /\ application = [c \in Applicants |-> NoApplication] /\ seen = [c \in Applicants |-> [version |-> 0, quote |-> 0]]
    /\ offer = [c \in Applicants |-> NoOffer]
    /\ reservation = [c \in Applicants |-> "NONE"] /\ hire = [c \in Applicants |-> "NONE"]

-----------------------------------------------------------------------------
(* Counters (trigger request_budget_counters) *)

Change(new, was, state, n) == (IF new = state THEN n ELSE 0) - (IF was = state THEN n ELSE 0)
Counted(r, was, new, amount) ==
    LET hires == r.committedHires + Change(new, was, "COMMITTED", 1)
    IN  [r EXCEPT !.reserved = @ + Change(new, was, "HELD", amount), !.reservedHires = @ + Change(new, was, "HELD", 1),
                  !.committed = @ + Change(new, was, "COMMITTED", amount), !.committedHires = hires,
                  !.status = IF @ = "OPEN" /\ hires >= r.target THEN "FILLED"
                             ELSE IF @ = "FILLED" /\ hires < r.target
                             THEN IF hireClock # "over" THEN "OPEN" ELSE "CLOSED" ELSE @]

\* A reservation moves: HELD -> COMMITTED -> RELEASED, or HELD -> RELEASED; one that is released stays so.
Reserve(c, state) ==
    /\ reservation' = [reservation EXCEPT ![c] = state]
    /\ request' = Counted(request, reservation[c], state, offer'[c].amount)
ReleaseHeld(c) == Reserve(c, IF reservation[c] = "HELD" THEN "RELEASED" ELSE reservation[c])

-----------------------------------------------------------------------------
(* Buyer *)

\* Mutant: only paid hires count, not the offers that are out.
FitsHires(b) == b.budget >= request.committed /\ b.target >= request.committedHires
FitsHolds(b) == b.budget >= request.reserved + request.committed /\ b.target >= request.reservedHires + request.committedHires

\* update_request: never below what offers and hires hold.
UpdateRequest(b) ==
    /\ request.status \in {"OPEN", "FILLED"} /\ request.edits < MaxRequestEdits /\ BudgetFields(b)
    /\ FitsHolds(b)
    /\ request' = [request EXCEPT !.budget = b.budget, !.cap = b.cap, !.target = b.target, !.edits = @ + 1,
                     !.status = IF @ = "FILLED" /\ request.committedHires < b.target THEN "OPEN"
                                ELSE IF @ = "OPEN" /\ request.committedHires >= b.target THEN "FILLED" ELSE @]
    /\ UNCHANGED <<hireClock, application, seen, holds, dueOffers>>

\* update_request with other dates: they can move either way.
MoveDeadline(to) ==
    /\ request.status \in {"OPEN", "FILLED"} /\ request.edits < MaxRequestEdits /\ to # hireClock
    /\ hireClock' = to /\ request' = [request EXCEPT !.edits = @ + 1]
    /\ UNCHANGED <<application, seen, holds, dueOffers>>

\* What the offers to some creators ask for together.
OfferSum(cs) == Total([c \in Applicants |-> offer[c].amount], cs)

\* close_request, cancel_request, withdrawOpenOffers.
CloseRequest(status) ==
    LET open == {c \in Applicants : offer[c].status = "OFFERED"}
    IN  /\ request.status \in {"OPEN", "FILLED"}
        /\ status = "CANCELLED" => \A c \in Applicants : offer[c].status # "ACCEPTED"
        /\ offer' = [c \in Applicants |-> IF c \in open THEN [offer[c] EXCEPT !.status = "WITHDRAWN"] ELSE offer[c]]
        /\ reservation' = [c \in Applicants |-> IF c \in open THEN "RELEASED" ELSE reservation[c]]
        /\ application' = [c \in Applicants |-> IF c \in open THEN [application[c] EXCEPT !.status = "SUBMITTED"] ELSE application[c]]
        /\ request' = [request EXCEPT !.status = status, !.reservedHires = @ - Cardinality(open),
                                      !.reserved = @ - OfferSum(open)]
        /\ UNCHANGED <<hireClock, seen, hire, dueOffers>>

ViewApplication(c) ==
    /\ application[c].status # "NONE" /\ seen[c].version # application[c].version
    /\ seen' = [seen EXCEPT ![c] = [version |-> application[c].version, quote |-> application[c].quote]]
    /\ UNCHANGED <<request, hireClock, application, holds, dueOffers>>

\* select_application: the version shown must still be the current one.
SelectApplication(c) ==
    LET amount == HoldAmount(application[c].quote)
    IN  /\ request.status = "OPEN" /\ hireClock # "over"
        /\ seen[c].version = application[c].version /\ application[c].status = "SUBMITTED"
        /\ request.model = "PERFORMANCE" => application[c].quote = BaseFee
        /\ request.cap # NoCap => amount <= request.cap
        /\ request.reserved + request.committed + amount <= request.budget
        /\ request.reservedHires + request.committedHires + 1 <= request.target
        /\ offer' = [offer EXCEPT ![c] = [status |-> "OFFERED", amount |-> amount, due |-> FALSE]]
        /\ reservation' = [reservation EXCEPT ![c] = "HELD"]
        /\ request' = Counted(request, "NONE", "HELD", amount)
        /\ hire' = [hire EXCEPT ![c] = "NONE"] /\ dueOffers' = dueOffers \ {c}
        /\ application' = [application EXCEPT ![c].status = "OFFERED"]
        /\ UNCHANGED <<hireClock, seen>>

-----------------------------------------------------------------------------
(* Creators *)

\* apply: one application per creator, each edit a new version.
Apply(c, quote) ==
    /\ request.status = "OPEN" /\ hireClock = "apply" /\ application[c].version < MaxAppVersion[c]
    /\ quote <= IF request.cap # NoCap THEN request.cap ELSE request.budget
    /\ application[c].status \notin {"OFFERED", "ACCEPTED"}
    /\ application' = [application EXCEPT ![c] = [status |-> "SUBMITTED", version |-> @.version + 1, quote |-> quote]]
    /\ UNCHANGED <<request, hireClock, seen, holds, dueOffers>>

WithdrawApplication(c) ==
    /\ application[c].status = "SUBMITTED"
    /\ application' = [application EXCEPT ![c].status = "WITHDRAWN"]
    /\ UNCHANGED <<request, hireClock, seen, holds, dueOffers>>

\* accept_offer: the order takes over the hold.
AcceptOffer(c) ==
    /\ offer[c].status = "OFFERED" /\ ~offer[c].due
    /\ offer' = [offer EXCEPT ![c].status = "ACCEPTED"] /\ application' = [application EXCEPT ![c].status = "ACCEPTED"]
    /\ hire' = [hire EXCEPT ![c] = "AWAITING_PAYMENT"]
    /\ UNCHANGED <<request, hireClock, seen, reservation, dueOffers>>

\* decline_offer by the creator, withdraw_offer by the buyer.
DeclineOffer(c, withdrawn) ==
    /\ offer[c].status = "OFFERED"
    /\ offer' = [offer EXCEPT ![c].status = IF withdrawn THEN "WITHDRAWN" ELSE "DECLINED"]
    /\ ReleaseHeld(c)
    /\ application' = [application EXCEPT ![c].status = IF withdrawn THEN "SUBMITTED" ELSE "DECLINED"]
    /\ UNCHANGED <<hireClock, seen, hire, dueOffers>>

-----------------------------------------------------------------------------
(* Orders (trigger request_order_budget_sync) *)

OrderMoves(c, to) ==
    /\ <<hire[c], to>> \in {<<"AWAITING_PAYMENT", "FUNDED">>, <<"AWAITING_PAYMENT", "CANCELLED">>, <<"FUNDED", "REFUNDED">>}
    /\ hire' = [hire EXCEPT ![c] = to]
    /\ offer' = [offer EXCEPT ![c].status = IF to = "CANCELLED" THEN "LAPSED" ELSE @]
    /\ application' = [application EXCEPT ![c].status = IF to = "CANCELLED" THEN "SUBMITTED" ELSE @]
    /\ Reserve(c, IF to = "FUNDED" THEN "COMMITTED" ELSE "RELEASED")
    /\ UNCHANGED <<hireClock, seen, dueOffers>>

-----------------------------------------------------------------------------
(* Time and the expiry job *)

HireTime ==
    /\ hireClock # "over" /\ hireClock' = IF hireClock = "apply" THEN "hire" ELSE "over"
    /\ UNCHANGED <<request, application, seen, holds, dueOffers>>

OfferDue(c) ==
    /\ offer[c].status = "OFFERED" /\ ~offer[c].due
    /\ offer' = [offer EXCEPT ![c].due = TRUE]
    /\ UNCHANGED <<request, hireClock, application, seen, reservation, hire, dueOffers>>

ListDueOffers ==
    LET due == {c \in Applicants : offer[c].status = "OFFERED" /\ offer[c].due}
    IN  /\ dueOffers = {} /\ due # {} /\ dueOffers' = due
        /\ UNCHANGED <<request, hireClock, application, seen, holds>>

\* The transaction re-checks a listed offer: it may have been answered since.
ExpireOffer(c) ==
    /\ c \in dueOffers /\ dueOffers' = dueOffers \ {c}
    /\ IF offer[c].status = "OFFERED" /\ offer[c].due
       THEN /\ offer' = [offer EXCEPT ![c].status = "EXPIRED"]
            /\ ReleaseHeld(c)
            /\ application' = [application EXCEPT ![c].status = IF @ = "OFFERED" THEN "SUBMITTED" ELSE @]
       ELSE UNCHANGED <<offer, reservation, request, application>>
    /\ UNCHANGED <<hireClock, seen, hire>>

\* Requests past their deadline close, once no offer is pending.
CloseAtDeadline ==
    /\ request.status = "OPEN" /\ hireClock = "over" /\ \A c \in Applicants : offer[c].status # "OFFERED"
    /\ request' = [request EXCEPT !.status = "CLOSED"]
    /\ UNCHANGED <<hireClock, application, seen, holds, dueOffers>>

ExpireHireOffers == ListDueOffers \/ CloseAtDeadline \/ \E c \in Applicants : ExpireOffer(c)

BuyerNext ==
    \/ \E b \in Budgets : UpdateRequest(b)
    \/ \E to \in {"apply", "over"} : MoveDeadline(to)
    \/ \E status \in {"CLOSED", "CANCELLED"} : CloseRequest(status)
    \/ \E c \in Applicants : ViewApplication(c) \/ SelectApplication(c) \/ DeclineOffer(c, TRUE)
CreatorNext ==
    \E c \in Applicants : \/ \E quote \in Quotes : Apply(c, quote)
                          \/ WithdrawApplication(c) \/ AcceptOffer(c) \/ DeclineOffer(c, FALSE)
HireNext ==
    \/ BuyerNext \/ CreatorNext \/ HireTime \/ ExpireHireOffers
    \/ \E c \in Applicants : OfferDue(c) \/ \E to \in {"FUNDED", "CANCELLED", "REFUNDED"} : OrderMoves(c, to)

-----------------------------------------------------------------------------
(* Properties *)

HeldOn(state) == {c \in Applicants : reservation[c] = state}

\* Whoever ends an offer first (creator, buyer, expiry job, the order's payment or refund), the request's counters are
\* the sum of its live holds, a hold lives exactly as long as its offer is open or its order unpaid, neither budget nor
\* number of hires is oversold, a request is FILLED exactly when its hires are all committed, and a live offer asks for
\* what the buyer saw when selecting it, whatever the creator edits meanwhile.
BudgetHeld ==
    /\ request.reserved = OfferSum(HeldOn("HELD")) /\ request.reservedHires = Cardinality(HeldOn("HELD"))
    /\ request.committed = OfferSum(HeldOn("COMMITTED")) /\ request.committedHires = Cardinality(HeldOn("COMMITTED"))
    /\ request.reserved + request.committed <= request.budget
    /\ request.reservedHires + request.committedHires <= request.target
    /\ \A c \in Applicants : /\ reservation[c] = "HELD" <=> offer[c].status = "OFFERED" \/ hire[c] = "AWAITING_PAYMENT"
                             /\ reservation[c] = "COMMITTED" <=> hire[c] = "FUNDED"
                             /\ offer[c].status \in {"OFFERED", "ACCEPTED"} => offer[c].amount = HoldAmount(seen[c].quote)
    /\ request.status = "OPEN" => request.committedHires < request.target
    /\ request.status = "FILLED" => request.committedHires >= request.target
=============================================================================
